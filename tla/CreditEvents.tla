---------------------------- MODULE CreditEvents ----------------------------
(***************************************************************************)
(* What the web server does with the events of the provider: the tables    *)
(* webhook_events, owned_invoices and transfer_jobs, and the transaction   *)
(* of EventStore.record and record_ignored_workspace, statement by         *)
(* statement, run by several requests at once under READ COMMITTED.  The   *)
(* owner of an invoice is written at the same time by InvoiceStore.        *)
(*                                                                         *)
(* A statement reads what is committed and what its own transaction wrote. *)
(* It waits while another transaction holds a row it writes or a key it    *)
(* inserts; nothing it wrote is seen before its COMMIT, and a transaction  *)
(* that fails leaves nothing behind.                                       *)
(***************************************************************************)
EXTENDS Integers

CONSTANTS Requests,     \* request threads of the web server
          Issuers,      \* processes that write owned_invoices (tick, smoke, ...)
          TrialTags,    \* tags of invoice drafts
          SmokeTags,    \* tags of smoke invoices, without a draft
          InvoicesWith, \* [tag -> the provider invoices that carry the tag]
          Deliveries,   \* the signed events the provider may deliver
          MaxWrites,    \* bound of the transactions of the issuers
          MaxFailures,  \* bound of the transactions that fail on their own
          Null          \* SQL NULL, None

Tags == TrialTags \cup SmokeTags
InvoiceIds == (UNION {InvoicesWith[t] : t \in Tags}) \cup {d.invoice : d \in Deliveries}
EventIds == {d.event : d \in Deliveries}

ASSUME TagsAssumption == TrialTags \cap SmokeTags = {}

\* A delivery: the id of the event, what verify_event makes of it, the credited
\* invoice with its tags, the payload (for its hash), and whether
\* calculate_net_amount accepts the amounts.
ASSUME DeliveriesAssumption ==
    \A d \in Deliveries : /\ d.kind \in {"credited", "ignored", "foreign"}
                          /\ d.payable \in BOOLEAN

\* The hash of a payload tells deliveries of one event id apart.
ASSUME PayloadAssumption ==
    \A d, e \in Deliveries : d.event = e.event /\ d.payload = e.payload => d.invoice = e.invoice

ASSUME RequestsAssumption == Requests \cap Issuers = {}

VARIABLES events,    \* webhook_events: [payload, outcome] of each event id, or Null
          jobs,      \* transfer_jobs: set of [event, invoice]
          owner,     \* owned_invoices: provider_invoice_id of each tag, or NotOwned
          req,       \* the transaction of each request
          issuer,    \* the transaction of each issuer
          writes,    \* transactions of issuers so far
          failures   \* failed transactions so far

vars == <<events, jobs, owner, req, issuer, writes, failures>>

NotOwned == "not owned"
Outcomes == {"queued", "ignored", "ignored_workspace", "rejected", "duplicate_invoice",
             "invoice_unknown"}
Rows == [payload : {d.payload : d \in Deliveries}, outcome : Outcomes]

\* NULL is no value.
ASSUME CreditNullAssumption == /\ Null \notin Rows \cup Outcomes \cup InvoiceIds \cup {NotOwned}
                               /\ NotOwned \notin InvoiceIds

\* at: the next statement; isNew: this transaction inserted the event; outcome:
\* what it wrote to the row of the event; tag: the owner it found; bound, draft:
\* it holds the row of the owner, of the draft; job: it inserted a job.
NoRequest == [at |-> "idle", d |-> Null, isNew |-> FALSE, outcome |-> Null, tag |-> Null,
              bound |-> FALSE, draft |-> FALSE, job |-> FALSE]
NoIssue == [at |-> "idle", tag |-> Null, invoice |-> Null]

Registered == {t \in Tags : owner[t] # NotOwned}
OwnersOf(invoice) == {t \in Tags : owner[t] = invoice}

-----------------------------------------------------------------------------
\* Rows and keys held by transactions that have not ended.

EventHeld(e, r) == \E q \in Requests \ {r} : req[q].outcome # Null /\ req[q].d.event = e
JobHeld(invoice, r) == \E q \in Requests \ {r} : req[q].job /\ req[q].d.invoice = invoice

OwnerHeld(t, p) == \/ \E q \in Requests \ {p} : req[q].bound /\ req[q].tag = t
                   \/ \E s \in Issuers \ {p} : issuer[s].at = "commit" /\ issuer[s].tag = t
DraftHeld(t, p) == \/ \E q \in Requests \ {p} : req[q].draft /\ req[q].tag = t
                   \/ \E s \in Issuers \ {p} : /\ issuer[s].at \in {"owner", "commit"}
                                               /\ issuer[s].tag = t /\ t \in TrialTags
\* Somebody is about to commit this invoice as the provider id of another tag.
BindingHeld(invoice, t, p) ==
    \/ \E q \in Requests \ {p} : req[q].bound /\ req[q].tag # t /\ req[q].d.invoice = invoice
    \/ \E s \in Issuers \ {p} : /\ issuer[s].at = "commit" /\ issuer[s].tag # t
                                /\ issuer[s].invoice = invoice

-----------------------------------------------------------------------------
Init == /\ events = [e \in EventIds |-> Null]
        /\ jobs = {}
        /\ owner = [t \in Tags |-> NotOwned]
        /\ req = [r \in Requests |-> NoRequest]
        /\ issuer = [s \in Issuers |-> NoIssue]
        /\ writes = 0 /\ failures = 0

Step(r, next) == /\ req' = [req EXCEPT ![r] = next]
                 /\ UNCHANGED <<events, jobs, owner, issuer, writes, failures>>

\* The invoice of a trial draft exists only after save has registered its tag.
Deliverable(d) == d.tags \cap TrialTags \subseteq Registered

\* WebhookService.receive: the event passes the check of its signature.
Receive(r, d) == /\ req[r].at = "idle"
                 /\ Deliverable(d)
                 /\ Step(r, [NoRequest EXCEPT !.at = "insert", !.d = d])

InitialOutcome(d) == IF d.kind = "foreign" THEN "ignored_workspace"
                     ELSE IF d.kind = "ignored" THEN "ignored"
                     ELSE IF ~d.payable THEN "rejected" ELSE "queued"

\* _insert_event, which waits for an uncommitted event with the same id.
InsertEvent(r) ==
    LET d == req[r].d
    IN  /\ req[r].at = "insert"
        /\ ~EventHeld(d.event, r)
        /\ events[d.event] = Null
        /\ Step(r, [req[r] EXCEPT !.at = IF InitialOutcome(d) = "queued" THEN "own" ELSE "commit",
                                  !.isNew = TRUE,
                                  !.outcome = InitialOutcome(d)])

\* The key is taken; only the credit of a payable invoice may be recovered.
InsertDuplicate(r) ==
    LET d == req[r].d
    IN  /\ req[r].at = "insert"
        /\ ~EventHeld(d.event, r)
        /\ events[d.event] # Null
        /\ Step(r, [req[r] EXCEPT !.at = IF d.kind = "credited" /\ d.payable
                                         THEN "recover" ELSE "commit"])

\* The condition of _recover_duplicate on the stored row.
Recoverable(d) == /\ events[d.event].payload = d.payload
                  /\ events[d.event].outcome = "invoice_unknown"

Recover(r) == /\ req[r].at = "recover"
              /\ Step(r, [req[r] EXCEPT !.at = IF Recoverable(req[r].d) THEN "own" ELSE "commit"])

-----------------------------------------------------------------------------
\* _owns_invoice.

\* The tags of the event that are registered here.
Matches(d) == d.tags \cap Registered

OwnedById(d) == {t \in OwnersOf(d.invoice) : Matches(d) \subseteq {t}}

\* Slips that the properties must notice, each before the definition it replaces:
\* an owner found only after its id was bound.
WrongBoundOnly(d) == {t \in Matches(d) : owner[t] = d.invoice}

\* The only match, if its provider id is not set or is the invoice of the event.
OwnedByTag(d) == {t \in Matches(d) : /\ Matches(d) = {t}
                                     /\ owner[t] \in {Null, d.invoice}}

\* The first SELECT looks for the provider id.
OwnById(r) ==
    /\ req[r].at = "own"
    /\ \E t \in OwnedById(req[r].d) : Step(r, [req[r] EXCEPT !.at = "draft", !.tag = t])

OwnNoId(r) == /\ req[r].at = "own"
              /\ OwnersOf(req[r].d.invoice) = {}
              /\ Step(r, [req[r] EXCEPT !.at = "match"])

\* The second SELECT looks for the tags.
OwnByTag(r) ==
    /\ req[r].at = "match"
    /\ \E t \in OwnedByTag(req[r].d) : Step(r, [req[r] EXCEPT !.at = "bind", !.tag = t])

\* The job is queued anyway.
WrongGoesOn(r) == Step(r, [req[r] EXCEPT !.at = "check"])

\* A new event is marked INVOICE_UNKNOWN; a recovered one stays as it is.
Disown(r) == Step(r, [req[r] EXCEPT !.at = "commit", !.tag = Null,
                                    !.outcome = IF req[r].isNew THEN "invoice_unknown" ELSE Null])

OwnNot(r) ==
    /\ \/ req[r].at = "own" /\ OwnersOf(req[r].d.invoice) # {} /\ OwnedById(req[r].d) = {}
       \/ req[r].at = "match" /\ OwnedByTag(req[r].d) = {}
    /\ Disown(r)

\* The UPDATE names the tag only.
WrongBind(r) == /\ req[r].at = "bind"
                /\ OwnersOf(req[r].d.invoice) = {}
                /\ ~OwnerHeld(req[r].tag, r) /\ ~BindingHeld(req[r].d.invoice, req[r].tag, r)
                /\ Step(r, [req[r] EXCEPT !.at = "draft", !.bound = TRUE])

\* UPDATE owned_invoices ... WHERE tag = ... AND provider_invoice_id IS NULL; the
\* number of rows it changed is not looked at.
Bind(r) ==
    LET t == req[r].tag
    IN  /\ req[r].at = "bind"
        /\ \/ /\ owner[t] = Null /\ OwnersOf(req[r].d.invoice) = {}
              /\ ~OwnerHeld(t, r) /\ ~BindingHeld(req[r].d.invoice, t, r)
              /\ Step(r, [req[r] EXCEPT !.at = "draft", !.bound = TRUE])
           \/ /\ owner[t] # Null
              /\ Step(r, [req[r] EXCEPT !.at = "draft"])

\* The provider id is bound to another tag by now: IntegrityError.
BindConflict(r) == /\ req[r].at = "bind"
                   /\ ~OwnerHeld(req[r].tag, r)
                   /\ owner[req[r].tag] = Null /\ OwnersOf(req[r].d.invoice) # {}
                   /\ Disown(r)

\* The row of the draft is updated as well; smoke invoices have none.
UpdateDraft(r) == /\ req[r].at = "draft"
                  /\ ~DraftHeld(req[r].tag, r)
                  /\ Step(r, [req[r] EXCEPT !.at = "check", !.draft = req[r].tag \in TrialTags])

-----------------------------------------------------------------------------
\* _queue_transfer, _mark_duplicate and the promotion of a recovered event.

\* No unique invoice_id.
WrongByEvent(d) == \E j \in jobs : j.event = d.event

JobExists(d) == \E j \in jobs : j.invoice = d.invoice \/ j.event = d.event

CheckJob(r) ==
    /\ req[r].at = "check"
    /\ Step(r, [req[r] EXCEPT !.at = IF \E j \in jobs : j.invoice = req[r].d.invoice
                                     THEN "mark" ELSE "job"])

\* The unique keys of transfer_jobs decide between concurrent requests.
InsertJob(r) == /\ req[r].at = "job"
                /\ ~JobHeld(req[r].d.invoice, r)
                /\ Step(r, IF JobExists(req[r].d) THEN [req[r] EXCEPT !.at = "mark"]
                           ELSE [req[r] EXCEPT !.at = "promote", !.job = TRUE])

WriteOutcome(r, outcome) ==
    /\ ~EventHeld(req[r].d.event, r)
    /\ Step(r, [req[r] EXCEPT !.at = "commit", !.outcome = outcome])

MarkDuplicate(r) == req[r].at = "mark" /\ WriteOutcome(r, "duplicate_invoice")

Promote(r) == req[r].at = "promote" /\ WriteOutcome(r, "queued")

\* The event and its job in two transactions, of which the first fails.
WrongLosesEvent(r) ==
    /\ req[r].at = "commit"
    /\ jobs' = IF req[r].job
               THEN jobs \cup {[event |-> req[r].d.event, invoice |-> req[r].d.invoice]} ELSE jobs
    /\ req' = [req EXCEPT ![r] = NoRequest]
    /\ UNCHANGED <<events, owner, issuer, writes, failures>>

Commit(r) ==
    LET d == req[r].d
    IN  /\ req[r].at = "commit"
        /\ events' = IF req[r].outcome = Null THEN events
                     ELSE IF req[r].isNew
                     THEN [events EXCEPT ![d.event] = [payload |-> d.payload,
                                                       outcome |-> req[r].outcome]]
                     ELSE [events EXCEPT ![d.event].outcome = req[r].outcome]
        /\ jobs' = IF req[r].job THEN jobs \cup {[event |-> d.event, invoice |-> d.invoice]}
                   ELSE jobs
        /\ owner' = IF req[r].bound THEN [owner EXCEPT ![req[r].tag] = d.invoice] ELSE owner
        /\ req' = [req EXCEPT ![r] = NoRequest]
        /\ UNCHANGED <<issuer, writes, failures>>

\* The row of the event has a transaction of its own.
WrongKeepsEvent(r) ==
    /\ req' = [req EXCEPT ![r] = NoRequest]
    /\ events' = IF req[r].isNew
                 THEN [events EXCEPT ![req[r].d.event] = [payload |-> req[r].d.payload,
                                                          outcome |-> req[r].outcome]]
                 ELSE events
    /\ UNCHANGED <<jobs, owner, issuer, writes>>

\* The transaction is rolled back and the provider gets a 500.
Rollback(r) == /\ req' = [req EXCEPT ![r] = NoRequest]
               /\ UNCHANGED <<events, jobs, owner, issuer, writes>>

Fail(r) == /\ req[r].at \notin {"idle"}
           /\ failures < MaxFailures /\ failures' = failures + 1
           /\ Rollback(r)

-----------------------------------------------------------------------------
\* InvoiceStore: register (save, register_smoke), and the writes of the provider
\* id: _transition writes the draft and then the owner, whatever the owner holds;
\* bind_provider_invoice writes the owner if it read NULL.

Register(t) == /\ owner[t] = NotOwned
               /\ owner' = [owner EXCEPT ![t] = Null]
               /\ UNCHANGED <<events, jobs, req, issuer, writes, failures>>

IssuerStep(s, next) == /\ issuer' = [issuer EXCEPT ![s] = next]
                       /\ UNCHANGED <<events, jobs, owner, req, failures>>

\* created and unknown_result update the draft first.
Transition(s, t) ==
    /\ issuer[s].at = "idle" /\ t \in TrialTags /\ owner[t] # NotOwned
    /\ writes < MaxWrites /\ writes' = writes + 1
    /\ ~DraftHeld(t, s)
    /\ \E invoice \in InvoicesWith[t] \cup {Null} :
          IssuerStep(s, [at |-> "owner", tag |-> t, invoice |-> invoice])

\* bind_provider_invoice reads the owner first; when it has an invoice, the command
\* writes no other one.  (SmokeBatch has the whole command.)
BindSmoke(s, t) ==
    /\ issuer[s].at = "idle" /\ t \in SmokeTags /\ owner[t] = Null
    /\ writes < MaxWrites /\ writes' = writes + 1
    /\ \E invoice \in InvoicesWith[t] :
          IssuerStep(s, [at |-> "owner", tag |-> t, invoice |-> invoice])

WriteOwner(s) ==
    LET t == issuer[s].tag
    IN  /\ issuer[s].at = "owner"
        /\ ~OwnerHeld(t, s)
        /\ issuer[s].invoice # Null => /\ ~BindingHeld(issuer[s].invoice, t, s)
                                       /\ OwnersOf(issuer[s].invoice) \subseteq {t}
        /\ IssuerStep(s, [issuer[s] EXCEPT !.at = "commit"])
        /\ UNCHANGED writes

\* The id is the provider id of another tag: IntegrityError, rolled back.
WriteOwnerConflict(s) ==
    /\ issuer[s].at = "owner"
    /\ ~OwnerHeld(issuer[s].tag, s)
    /\ issuer[s].invoice # Null /\ ~(OwnersOf(issuer[s].invoice) \subseteq {issuer[s].tag})
    /\ IssuerStep(s, NoIssue)
    /\ UNCHANGED writes

CommitOwner(s) == /\ issuer[s].at = "commit"
                  /\ owner' = [owner EXCEPT ![issuer[s].tag] = issuer[s].invoice]
                  /\ issuer' = [issuer EXCEPT ![s] = NoIssue]
                  /\ UNCHANGED <<events, jobs, req, writes, failures>>

\* A request waits for the draft of an issuer that waits for its owner: the
\* database ends one of the two transactions.
DeadlockVictim(r, s) ==
    /\ req[r].at = "draft" /\ req[r].bound
    /\ issuer[s].at = "owner" /\ issuer[s].tag = req[r].tag
    /\ DraftHeld(req[r].tag, r)
    /\ \/ Rollback(r) /\ UNCHANGED failures
       \/ IssuerStep(s, NoIssue) /\ UNCHANGED writes

-----------------------------------------------------------------------------
Handle(r) == \/ InsertEvent(r) \/ InsertDuplicate(r) \/ Recover(r)
             \/ OwnById(r) \/ OwnNoId(r) \/ OwnByTag(r) \/ OwnNot(r)
             \/ Bind(r) \/ BindConflict(r) \/ UpdateDraft(r)
             \/ CheckJob(r) \/ InsertJob(r) \/ MarkDuplicate(r) \/ Promote(r)
             \/ Commit(r)

Issue(s) == WriteOwner(s) \/ WriteOwnerConflict(s) \/ CommitOwner(s)

Next == \/ \E r \in Requests : Handle(r) \/ Fail(r)
        \/ \E r \in Requests, d \in Deliveries : Receive(r, d)
        \/ \E t \in Tags : Register(t)
        \/ \E s \in Issuers : Issue(s)
        \/ \E s \in Issuers, t \in Tags : Transition(s, t) \/ BindSmoke(s, t)
        \/ \E r \in Requests, s \in Issuers : DeadlockVictim(r, s)

Spec == Init /\ [][Next]_vars

-----------------------------------------------------------------------------
\* What the tables may hold.

\* Rows have an outcome of EventWriteResult, an owner holds an invoice that the
\* provider has, and a job refers to a recorded event (the foreign key).
CreditTypeOK ==
    /\ \A e \in EventIds : events[e] # Null => events[e].outcome \in Outcomes
    /\ owner \in [Tags -> InvoiceIds \cup {Null, NotOwned}]
    /\ \A j \in jobs : j.event \in EventIds /\ events[j.event] # Null

\* An invoice, and an event, leads to at most one job, whatever number of
\* requests carries it at the same time (_queue_transfer and the unique keys).
OneJob == \A j, k \in jobs : j.invoice = k.invoice \/ j.event = k.event => j = k

\* The tables as the inbox of verdicts.
Verdict(e) == IF events[e] = Null THEN "none"
              ELSE IF events[e].outcome \in {"queued", "duplicate_invoice"} THEN "accepted"
              ELSE IF events[e].outcome = "invoice_unknown" THEN "unknown"
              ELSE "refused"

PayableCredits == {[event |-> d.event, invoice |-> d.invoice] :
                      d \in {e \in Deliveries : e.kind = "credited" /\ e.payable}}

Inbox == INSTANCE CreditInbox
            WITH Credits <- PayableCredits,
                 verdict <- [e \in EventIds |-> Verdict(e)], queued <- jobs

\* Requests that race, wait, fail and recover events implement the inbox: each
\* COMMIT gives one verdict and queues at most the first credit of an invoice, and
\* no verdict is changed by a request that read the row before it was given.
ImplementsInbox == Inbox!Spec

\* A provider id is bound to at most one tag.
OneOwner == \A t, u \in Registered : owner[t] = owner[u] /\ owner[t] # Null => t = u

\* A credit that is on record as queued, or as another event of an invoice that
\* already was, has its job: no transaction commits the one without the other,
\* and none relies on a job that is rolled back (docs/SANDBOX.md, "for each
\* accepted credit event, the database must contain one transfer job").
AcceptedHasJob ==
    \A e \in EventIds :
        events[e] # Null /\ events[e].outcome \in {"queued", "duplicate_invoice"}
        => \E d \in Deliveries, j \in jobs : d.event = e /\ j.invoice = d.invoice

\* Transfers are queued only for payable credits of invoices that carry a tag of
\* this environment, not for those of another one that shares the workspace.
JobsAreOurs ==
    \A j \in jobs : \E d \in Deliveries :
        /\ d.event = j.event /\ d.invoice = j.invoice
        /\ d.kind = "credited" /\ d.payable
        /\ \E t \in Registered : t \in d.tags \/ j.invoice \in InvoicesWith[t]

=============================================================================
