--------------------------- MODULE ProviderStatus ---------------------------
(***************************************************************************)
(* The columns provider_status and provider_status_updated_at of a job and *)
(* their three writers: the worker (_finish), the webhook requests that    *)
(* carry transfer events (_record_transfer_event) and the command          *)
(* "provider sync-transfer-statuses".  The dispatch of the jobs is that of *)
(* TransferDispatch; this module adds the columns to its steps.            *)
(*                                                                         *)
(* The status of a transfer is the number of its revision at the provider, *)
(* so that "older" and "newer" are what < says.  provider_transfer_id and  *)
(* provider_log_type are written together with the status and left out.    *)
(***************************************************************************)
EXTENDS TransferDispatch, SequencesExt

CONSTANTS Handlers,      \* request threads of the web server
          Syncers,       \* runs of sync-transfer-statuses
          Legacy,        \* invoices whose job succeeded before migration 0003
          MaxRevision,   \* bound of the revisions of a transfer
          Skew,          \* what the clock of the provider is ahead of ours, or behind
          Null           \* SQL NULL, None

ASSUME LegacyAssumption == Legacy \subseteq Invoices /\ IsFiniteSet(Legacy)
ASSUME RevisionAssumption == MaxRevision \in Nat \ {0}
ASSUME SkewAssumption == Skew \in Int

VARIABLES columns,    \* [revision, updatedAt] of each job
          remote,     \* the transfer as the provider knows it, revision 0: none
          seen,       \* the revision a worker's call to the provider returned
          events,     \* the transfer events the provider has emitted
          recorded,   \* the events in webhook_events
          handler,    \* what each request has read and decided
          syncer,     \* the candidates each sync run is working on
          settledAt,  \* history: when the job got its final status, or Null
          since,      \* history: of the same transfer, the events recorded since
                      \* the SELECT of a request
          overlapped  \* history: the events whose requests met another one

history == <<settledAt, since, overlapped>>
statusVars == <<columns, remote, seen, events, recorded, handler, syncer, history>>
allVars == <<vars, statusVars>>

Event == [invoice : Invoices, revision : 1 .. MaxRevision, updatedAt : Int]
Decision == [event : Event, fresh : BOOLEAN]
Answer == [invoice : Invoices, revision : Nat]

ASSUME StatusNullAssumption == Null \notin Int \cup Decision \cup Answer

NoColumns == [revision |-> Null, updatedAt |-> Null]
NotBooked == [revision |-> 0, updatedAt |-> Skew]
Idle == [todo |-> {}, found |-> Null]

-----------------------------------------------------------------------------
\* A legacy job has been paid and settled; its columns were added as NULL.
StatusInit ==
    /\ now = 0 /\ crashes = 0 /\ inflight = {}
    /\ jobs = [i \in Invoices |-> IF i \in Legacy
                                  THEN [Absent EXCEPT !.status = "succeeded", !.attempts = 1]
                                  ELSE Absent]
    /\ pc = [w \in Workers |-> "idle"] /\ at = [w \in Workers |-> 0]
    /\ claim = [w \in Workers |-> NoClaim] /\ result = [w \in Workers |-> "none"]
    /\ transfers = SetToSeq({CommandOf(i) : i \in Legacy})
    /\ columns = [i \in Invoices |-> NoColumns]
    /\ remote = [i \in Invoices |-> IF i \in Legacy THEN [revision |-> 1, updatedAt |-> Skew]
                                    ELSE NotBooked]
    /\ seen = [w \in Workers |-> 0]
    /\ events = {} /\ recorded = {}
    /\ handler = [h \in Handlers |-> Null]
    /\ syncer = [s \in Syncers |-> Idle]
    /\ settledAt = [i \in Invoices |-> IF i \in Legacy THEN 0 ELSE Null]
    /\ since = [h \in Handlers |-> {}] /\ overlapped = {}

\* The clock of the provider.
ProviderNow == now + Skew

\* The provider emits an event for each revision of a transfer it knows.
Emit(updates) ==
    /\ remote' = [i \in Invoices |-> IF i \in DOMAIN updates THEN updates[i] ELSE remote[i]]
    /\ events' = events \cup {[invoice |-> i, revision |-> updates[i].revision,
                               updatedAt |-> updates[i].updatedAt] : i \in DOMAIN updates}

\* Transfers booked by this step start with revision 1.
EmitBooked ==
    LET fresh == {transfers'[n].invoice : n \in DOMAIN transfers' \ DOMAIN transfers}
    IN  Emit([i \in fresh |-> [revision |-> 1, updatedAt |-> ProviderNow]])

\* The provider processes a transfer further; its update times increase.
RemoteUpdate(i) ==
    /\ remote[i].revision \in 1 .. MaxRevision - 1
    /\ remote[i].updatedAt < ProviderNow
    /\ Emit([j \in {i} |-> [revision |-> remote[i].revision + 1, updatedAt |-> ProviderNow]])
    /\ UNCHANGED <<vars, columns, seen, recorded, handler, syncer, history>>

-----------------------------------------------------------------------------
\* The worker.

\* A call that ends in success returns the transfer with its present status.
AskStatus(w) ==
    /\ AskProvider(w)
    /\ EmitBooked
    /\ seen' = [seen EXCEPT ![w] = IF result'[w] = "succeeded"
                                   THEN remote'[claim[w].invoice].revision ELSE 0]
    /\ UNCHANGED <<columns, recorded, handler, syncer, history>>

\* The columns never written.
WrongNever(r, revision, t) == NoColumns

\* _finish writes the columns with every outcome: succeeded with the status it
\* was handed and the clock reading of the start of the attempt, the others NULL.
FinishedColumns(r, revision, t) ==
    IF r = "succeeded" THEN [revision |-> revision, updatedAt |-> t] ELSE NoColumns

FinishStatus(w) ==
    LET i == claim[w].invoice
    IN  /\ Finish(w)
        /\ columns' = IF HoldsLease(claim[w])
                      THEN [columns EXCEPT ![i] = FinishedColumns(result[w], seen[w], at[w])]
                      ELSE columns
        /\ seen' = [seen EXCEPT ![w] = 0]
        /\ settledAt' = [settledAt EXCEPT ![i] = IF jobs'[i].status \in Settled /\ @ = Null
                                                THEN now ELSE @]
        /\ UNCHANGED <<remote, events, recorded, handler, syncer, since, overlapped>>

OtherDispatch ==
    /\ \/ \E w \in Workers : ReadClock(w) \/ ClaimNothing(w) \/ Start(w)
       \/ \E w \in Workers, i \in Invoices : ClaimJob(w, i)
       \/ \E i \in Invoices, received \in 0 .. now : Enqueue(i, received)
       \/ Tick
    /\ UNCHANGED statusVars

ArriveStatus == /\ \E command \in inflight : Arrive(command)
                /\ EmitBooked
                /\ UNCHANGED <<columns, seen, recorded, handler, syncer, history>>

-----------------------------------------------------------------------------
\* Webhook requests with a transfer event.

\* A staleness test the wrong way round.
WrongNewer(e) == /\ columns[e.invoice].updatedAt # Null
                 /\ columns[e.invoice].updatedAt < e.updatedAt

Stale(e) == /\ columns[e.invoice].updatedAt # Null
            /\ columns[e.invoice].updatedAt >= e.updatedAt

\* The SELECT of _record_transfer_event decides the outcome.  The provider may
\* deliver an event at any time and any number of times.
ReceiveEvent(h) ==
    /\ handler[h] = Null
    /\ \E e \in events : handler' = [handler EXCEPT ![h] = [event |-> e, fresh |-> ~Stale(e)]]
    /\ UNCHANGED <<vars, columns, remote, seen, events, recorded, syncer, history>>

\* The event is recorded while the requests in between, if any, go on with what they
\* have read; and this one may hide the events that they have recorded since its own
\* SELECT, or find its event old by a status that is no longer there.
Overlap(h) ==
    LET e == handler[h].event
    IN  /\ since' = [g \in Handlers |->
               IF g = h THEN {}
               ELSE IF handler[g] # Null /\ handler[g].event.invoice = e.invoice
                    THEN since[g] \cup ({e} \ recorded)
                    ELSE since[g]]
        /\ overlapped' = IF e \in recorded THEN overlapped
                         ELSE IF handler[h].fresh THEN overlapped \cup since[h]
                         ELSE overlapped \cup {f \in {e} : since[h] # {}}

\* INSERT, UPDATE and COMMIT.  The key of webhook_events turns a second
\* delivery away; the UPDATE does not look at the columns again.
RecordEvent(h) ==
    LET e == handler[h].event
        applies == handler[h].fresh /\ e \notin recorded
    IN  /\ handler[h] # Null
        /\ recorded' = recorded \cup {e}
        /\ columns' = IF applies
                      THEN [columns EXCEPT ![e.invoice] = [revision |-> e.revision,
                                                           updatedAt |-> e.updatedAt]]
                      ELSE columns
        /\ handler' = [handler EXCEPT ![h] = Null]
        /\ Overlap(h)
        /\ UNCHANGED <<vars, remote, seen, events, syncer, settledAt>>

-----------------------------------------------------------------------------
\* provider sync-transfer-statuses.

Candidates == {i \in Invoices : jobs[i].status = "succeeded" /\ columns[i].revision = Null}

\* sync_candidates reads the list once.
SyncList(s) == /\ syncer[s] = Idle
               /\ Candidates # {}
               /\ syncer' = [syncer EXCEPT ![s].todo = Candidates]
               /\ UNCHANGED <<vars, columns, remote, seen, events, recorded, handler, history>>

\* find_transfer answers with the present status, or the candidate is given up
\* as unresolved.
SyncFind(s) ==
    /\ syncer[s].found = Null
    /\ \E i \in syncer[s].todo :
          \/ syncer' = [syncer EXCEPT ![s].found = [invoice |-> i, revision |-> remote[i].revision]]
          \/ syncer' = [syncer EXCEPT ![s].todo = @ \ {i}]
    /\ UNCHANGED <<vars, columns, remote, seen, events, recorded, handler, history>>

\* refresh_provider_status: an UPDATE by id, with the clock read just before.
SyncRefresh(s) ==
    LET i == syncer[s].found.invoice
    IN  /\ syncer[s].found # Null
        /\ columns' = [columns EXCEPT ![i] = [revision |-> syncer[s].found.revision,
                                              updatedAt |-> now]]
        /\ syncer' = [syncer EXCEPT ![s] = [todo |-> @.todo \ {i}, found |-> Null]]
        /\ UNCHANGED <<vars, remote, seen, events, recorded, handler, history>>

-----------------------------------------------------------------------------
StatusNext == \/ OtherDispatch
              \/ \E w \in Workers : AskStatus(w) \/ FinishStatus(w)
              \/ ArriveStatus
              \/ \E i \in Invoices : RemoteUpdate(i)
              \/ \E h \in Handlers : ReceiveEvent(h) \/ RecordEvent(h)
              \/ \E s \in Syncers : SyncList(s) \/ SyncFind(s) \/ SyncRefresh(s)

StatusSpec == StatusInit /\ [][StatusNext]_allVars

-----------------------------------------------------------------------------
\* A job that succeeded under this code shows a status: the outcome of an older
\* attempt, which would write NULL, never lands on it (_finish and its lease).
SucceededShowsStatus ==
    \A i \in Invoices \ Legacy : jobs[i].status = "succeeded" => columns[i].revision # Null

\* Later than the settling of its job by both clocks: that of the worker, which
\* _finish stores, and that of the provider, which the event carries.
AfterSettling(e) ==
    LET settled == settledAt[e.invoice]
    IN  settled # Null /\ e.updatedAt > settled /\ e.updatedAt > settled + Skew

\* What the provider does after a job is settled is shown, whatever the order and the
\* number of the deliveries: no event with an older update time replaces it (the
\* staleness test of _record_transfer_event), and clocks that differ hide no more than
\* the updates within that difference.  The exception are requests that overlap, for
\* test and UPDATE are two statements: an event may be hidden by a request that had
\* read the columns before it was recorded and wrote them after, and one that was
\* found old by a status that another request has replaced since.
LaterUpdatesShown ==
    \A e \in recorded \ overlapped :
        e.invoice \notin Legacy /\ AfterSettling(e) => columns[e.invoice].revision >= e.revision

\* What docs/REVIEW_API.md says of provider_status: it is the latest status
\* received, so no event was recorded that tells of a later one.
ShowsLatestReceived ==
    \A e \in recorded : /\ columns[e.invoice].revision # Null
                        /\ columns[e.invoice].revision >= e.revision

=============================================================================
