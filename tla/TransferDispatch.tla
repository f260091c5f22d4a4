-------------------------- MODULE TransferDispatch --------------------------
(***************************************************************************)
(* The transfer job queue and its workers: the dispatch columns of the     *)
(* table transfer_jobs, TransferStore.claim and _finish as single          *)
(* transactions, TransferWorker as a process that loses its answer, its    *)
(* lease or its life between any two of them, and the provider's transfer  *)
(* endpoint with delayed, lost and refused create requests.                *)
(*                                                                         *)
(* The clock is an integer.  A worker reads it before it claims, reads it  *)
(* again when it starts on the job, and uses those readings for as long as *)
(* the attempt lasts, however stale they have become.                      *)
(***************************************************************************)
EXTENDS Integers, Sequences

CONSTANTS Invoices,        \* provider invoices that are credited
          Workers,         \* worker processes
          LeaseSeconds,    \* TransferWorker.lease_seconds
          RetryBase,       \* TransferWorker.retry_base_seconds
          MaxAttempts,     \* TransferWorker.transfer_max_attempts
          MaxTime,         \* bound of the clock
          MaxCrashes,      \* bound of the deaths of worker processes
          NoLease,         \* SQL NULL in lease_until
          NoClaim          \* a worker that holds no job

ASSUME LeaseAssumption == LeaseSeconds \in Nat \ {0}
ASSUME RetryAssumption == RetryBase \in Nat \ {0}
ASSUME AttemptsAssumption == MaxAttempts \in Nat \ {0}
ASSUME BoundsAssumption == MaxTime \in Nat /\ MaxCrashes \in Nat
ASSUME NoLeaseAssumption == NoLease \notin Nat

VARIABLES now,        \* the clock shared by the processes of the host
          jobs,       \* transfer_jobs: one row per credited invoice
          pc,         \* where each worker is in process_one
          at,         \* the clock reading the worker works with
          claim,      \* the TransferJob the worker works on
          result,     \* what the worker is about to write with _finish, or "none"
          transfers,  \* the transfers the provider has booked, in order
          inflight,   \* create requests that have not reached the provider yet
          crashes     \* deaths of worker processes so far

provider == <<transfers, inflight>>
worker == <<pc, at, claim, result>>
vars == <<now, jobs, pc, at, claim, result, transfers, inflight, crashes>>

-----------------------------------------------------------------------------
\* Type definitions.

Settled == {"succeeded", "permanent_failure"}
Waiting == {"pending", "unknown"}
Status == {"absent", "processing"} \cup Waiting \cup Settled

Job == [status : Status, attempts : Nat, nextAt : Nat, leaseUntil : Nat \cup {NoLease}]
Claim == [invoice : Invoices, lease : Nat, attempts : Nat \ {0},
          from : Waiting \cup {"processing"}]

\* Results of an attempt; each is one of the wrappers of _finish.
Result == {"succeeded", "retry", "unknown", "failed"}

\* A worker that has claimed a job: it is about to start on it, is at one of
\* its calls to the provider, or is about to write the outcome.
Asking == {"lookup", "create", "recheck", "final", "reconcile"}
Working == {"claimed", "finish"} \cup Asking
PC == {"idle", "claiming"} \cup Working

ExternalIds == {"trial-transfer"} \X Invoices
Transfer == [externalId : ExternalIds, invoice : Invoices]

Absent == [status |-> "absent", attempts |-> 0, nextAt |-> 0, leaseUntil |-> NoLease]

-----------------------------------------------------------------------------
\* The pieces the transactions are built from.

\* Operators named Wrong... are slips that the properties must notice: each takes
\* the place of the definition that follows it, and a property must fail.

\* An external id that differs from attempt to attempt.
WrongFreshId(c) ==
    [externalId |-> <<"trial-transfer", <<c.invoice, now>>>>, invoice |-> c.invoice]

\* build_transfer_command: the external id depends on the invoice alone.
BuildTransferCommand(c) ==
    [externalId |-> <<"trial-transfer", c.invoice>>, invoice |-> c.invoice]

\* The provider refuses a second transfer with an external id it has booked.
Booked(command) ==
    \E n \in DOMAIN transfers : transfers[n].externalId = command.externalId

\* The rows that claim may take at clock reading t.
Claimable(job, t) ==
    \/ job.status \in Waiting /\ job.nextAt <= t
    \/ job.status = "processing" /\ job.leaseUntil <= t

\* A lease that is over when it begins.
WrongNoLease(t) == t

LeaseFrom(t) == t + LeaseSeconds

\* The row as claim leaves it.
Claimed(job, t) == [job EXCEPT !.status = "processing",
                               !.attempts = @ + 1,
                               !.leaseUntil = LeaseFrom(t)]

\* A _finish that asks for the status only.
WrongStatusOnly(c) == jobs[c.invoice].status = "processing"

\* The WHERE clause of _finish.
HoldsLease(c) == /\ jobs[c.invoice].status = "processing"
                 /\ jobs[c.invoice].leaseUntil = c.lease

PowersOfTwo == <<1, 2, 4, 8, 16, 32, 64, 128, 256>>

Backoff(attempts) == RetryBase * PowersOfTwo[IF attempts <= 9 THEN attempts ELSE 9]

StatusAfter == [r \in Result |-> IF r = "retry" THEN "pending"
                                 ELSE IF r = "failed" THEN "permanent_failure" ELSE r]

\* A _finish that leaves lease_until, or retries at once.
WrongKeepsLease(job, c, r, t) ==
    [job EXCEPT !.status = StatusAfter[r],
                !.nextAt = IF r \in {"retry", "unknown"} THEN t + Backoff(c.attempts) ELSE t]
\* The row as _finish leaves it for claim c with result r at clock reading t.
Finished(job, c, r, t) ==
    [job EXCEPT !.leaseUntil = NoLease,
                !.status = StatusAfter[r],
                !.nextAt = IF r \in {"retry", "unknown"} THEN t + Backoff(c.attempts) ELSE t]

\* The maximum is compared the wrong way.
WrongExactly(c) == c.attempts = MaxAttempts
WrongBeyond(c) == c.attempts > MaxAttempts

Exhausted(c) == c.attempts >= MaxAttempts

-----------------------------------------------------------------------------
Init == /\ now = 0
        /\ jobs = [i \in Invoices |-> Absent]
        /\ pc = [w \in Workers |-> "idle"]
        /\ at = [w \in Workers |-> 0]
        /\ claim = [w \in Workers |-> NoClaim]
        /\ result = [w \in Workers |-> "none"]
        /\ transfers = <<>>
        /\ inflight = {}
        /\ crashes = 0

\* EventStore._queue_transfer commits the row of a credited invoice, with the clock
\* reading of the moment when its event was received.
Enqueue(i, received) ==
    /\ jobs[i].status = "absent"
    /\ jobs' = [jobs EXCEPT ![i] = [Absent EXCEPT !.status = "pending", !.nextAt = received]]
    /\ UNCHANGED <<now, worker, provider, crashes>>

Goto(w, label) == /\ pc' = [pc EXCEPT ![w] = label]
                  /\ UNCHANGED <<at, claim, result>>

\* The attempt has its outcome; _finish still has to write it.
Conclude(w, r) == /\ pc' = [pc EXCEPT ![w] = "finish"]
                  /\ result' = [result EXCEPT ![w] = r]
                  /\ UNCHANGED <<at, claim>>

BackToIdle(w) == /\ pc' = [pc EXCEPT ![w] = "idle"]
                 /\ at' = [at EXCEPT ![w] = 0]
                 /\ claim' = [claim EXCEPT ![w] = NoClaim]
                 /\ result' = [result EXCEPT ![w] = "none"]

\* _claim reads the clock; the transaction of the store comes later.
ReadClock(w) == /\ pc[w] = "idle"
                /\ pc' = [pc EXCEPT ![w] = "claiming"]
                /\ at' = [at EXCEPT ![w] = now]
                /\ UNCHANGED <<now, jobs, claim, result, provider, crashes>>

\* TransferStore.claim finds no row: the loop of worker_run sleeps and polls.
ClaimNothing(w) == /\ pc[w] = "claiming"
                   /\ \A i \in Invoices : ~Claimable(jobs[i], at[w])
                   /\ BackToIdle(w)
                   /\ UNCHANGED <<now, jobs, provider, crashes>>

\* TransferStore.claim takes a row with the least next_attempt_at.
ClaimJob(w, i) ==
    /\ pc[w] = "claiming"
    /\ Claimable(jobs[i], at[w])
    /\ \A j \in Invoices : Claimable(jobs[j], at[w]) => jobs[i].nextAt <= jobs[j].nextAt
    /\ jobs' = [jobs EXCEPT ![i] = Claimed(@, at[w])]
    /\ claim' = [claim EXCEPT ![w] = [invoice  |-> i,
                                      lease    |-> LeaseFrom(at[w]),
                                      attempts |-> jobs[i].attempts + 1,
                                      from     |-> jobs[i].status]]
    /\ pc' = [pc EXCEPT ![w] = "claimed"]
    /\ UNCHANGED <<now, at, result, provider, crashes>>

\* process_one reads the clock again; _process_claimed picks the path.
Start(w) == /\ pc[w] = "claimed"
            /\ at' = [at EXCEPT ![w] = now]
            /\ pc' = [pc EXCEPT ![w] = IF claim[w].from = "unknown" THEN "reconcile" ELSE "lookup"]
            /\ UNCHANGED <<now, jobs, claim, result, provider, crashes>>

-----------------------------------------------------------------------------
\* ensure_transfer, and the handlers of the errors it raises.

\* _handle_timeout and _handle_transient differ in what they write before the
\* last attempt, and share the final lookup on it.
HandleTimeout(w) == IF Exhausted(claim[w]) THEN Goto(w, "final") ELSE Conclude(w, "unknown")
HandleTransient(w) == IF Exhausted(claim[w]) THEN Goto(w, "final") ELSE Conclude(w, "retry")
HandlePermanent(w) == Conclude(w, "failed")

\* The lookup before the create: the transfer may exist from an earlier attempt.
EnsureLookup(w) ==
    LET command == BuildTransferCommand(claim[w])
    IN  /\ pc[w] = "lookup"
        /\ \/ Booked(command) /\ Conclude(w, "succeeded")
           \/ ~Booked(command) /\ Goto(w, "create")
           \/ HandleTransient(w)
           \/ HandlePermanent(w)
        /\ UNCHANGED <<now, jobs, provider, crashes>>

\* The create is booked and its answer arrives.
CreateAnswered(w) ==
    LET command == BuildTransferCommand(claim[w])
    IN  /\ pc[w] = "create"
        /\ ~Booked(command)
        /\ transfers' = Append(transfers, command)
        /\ Conclude(w, "succeeded")
        /\ UNCHANGED <<now, jobs, inflight, crashes>>

\* The answer is lost: the request was booked, is under way, or died.
CreateUnknown(w) ==
    LET command == BuildTransferCommand(claim[w])
    IN  /\ pc[w] = "create"
        /\ \/ /\ ~Booked(command)
              /\ transfers' = Append(transfers, command)
              /\ UNCHANGED inflight
           \/ inflight' = inflight \cup {command} /\ UNCHANGED transfers
           \/ UNCHANGED provider
        /\ HandleTimeout(w)
        /\ UNCHANGED <<now, jobs, crashes>>

\* The provider answers with InputErrors, a duplicate external id among them.
CreateRejected(w) == /\ pc[w] = "create"
                     /\ Goto(w, "recheck")
                     /\ UNCHANGED <<now, jobs, provider, crashes>>

\* Any other refusal is permanent.
CreateRefused(w) == /\ pc[w] = "create"
                    /\ HandlePermanent(w)
                    /\ UNCHANGED <<now, jobs, provider, crashes>>

\* InputErrors taken for a duplicate, without a lookup.
WrongNoRecheck(w) == /\ pc[w] = "recheck"
                     /\ Conclude(w, "succeeded")
                     /\ UNCHANGED <<now, jobs, provider, crashes>>

\* The lookup after InputErrors.
Recheck(w) ==
    LET command == BuildTransferCommand(claim[w])
    IN  /\ pc[w] = "recheck"
        /\ \/ Booked(command) /\ Conclude(w, "succeeded")
           \/ HandleTransient(w)
           \/ HandlePermanent(w)
        /\ UNCHANGED <<now, jobs, provider, crashes>>

\* _finalize_after_lookup: a transient error counts as "not found".
FinalLookup(w) ==
    LET command == BuildTransferCommand(claim[w])
    IN  /\ pc[w] = "final"
        /\ \/ Booked(command) /\ Conclude(w, "succeeded")
           \/ Conclude(w, "failed")
        /\ UNCHANGED <<now, jobs, provider, crashes>>

-----------------------------------------------------------------------------
\* _reconcile_unknown: a job claimed from UNKNOWN is looked up, never created.

ReconcileLookup(w) ==
    LET command == BuildTransferCommand(claim[w])
    IN  /\ pc[w] = "reconcile"
        /\ \/ Booked(command) /\ Conclude(w, "succeeded")
           \/ ~Booked(command) /\ Conclude(w, IF Exhausted(claim[w]) THEN "failed" ELSE "retry")
           \/ Conclude(w, IF Exhausted(claim[w]) THEN "failed" ELSE "unknown")
           \/ Conclude(w, "failed")
        /\ UNCHANGED <<now, jobs, provider, crashes>>

-----------------------------------------------------------------------------
\* _finish: one UPDATE whose WHERE clause asks for the lease of the claim.
\* The worker never looks at the number of rows it changed.
Finish(w) ==
    LET i == claim[w].invoice
    IN  /\ pc[w] = "finish"
        /\ jobs' = IF HoldsLease(claim[w])
                   THEN [jobs EXCEPT ![i] = Finished(@, claim[w], result[w], at[w])]
                   ELSE jobs
        /\ BackToIdle(w)
        /\ UNCHANGED <<now, provider, crashes>>

\* The process dies and is restarted: it was killed, or _finalize_after_lookup
\* met a ProviderPermanentError, which nothing catches.
Crash(w) == /\ pc[w] # "idle"
            /\ crashes < MaxCrashes
            /\ crashes' = crashes + 1
            /\ BackToIdle(w)
            /\ UNCHANGED <<now, jobs, provider>>

\* A delayed create request reaches the provider.
Arrive(command) == /\ inflight' = inflight \ {command}
                   /\ transfers' = IF Booked(command) THEN transfers
                                   ELSE Append(transfers, command)
                   /\ UNCHANGED <<now, jobs, worker, crashes>>

Tick == /\ now < MaxTime
        /\ now' = now + 1
        /\ UNCHANGED <<jobs, worker, provider, crashes>>

\* What one call of process_one does, step by step.
AskProvider(w) ==
    \/ EnsureLookup(w)
    \/ CreateAnswered(w) \/ CreateUnknown(w) \/ CreateRejected(w) \/ CreateRefused(w)
    \/ Recheck(w) \/ FinalLookup(w) \/ ReconcileLookup(w)

WorkerStep(w) == \/ ReadClock(w)
                 \/ ClaimNothing(w)
                 \/ \E i \in Invoices : ClaimJob(w, i)
                 \/ Start(w)
                 \/ AskProvider(w)
                 \/ Finish(w)

\* The workers, their deaths, late requests and the clock.
Work == \/ \E w \in Workers : WorkerStep(w) \/ Crash(w)
        \/ \E command \in inflight : Arrive(command)
        \/ Tick

Next == Work \/ \E i \in Invoices, received \in 0 .. now : Enqueue(i, received)

Spec == Init /\ [][Next]_vars

-----------------------------------------------------------------------------
\* Safety properties.

\* The columns of every row and the locals of every worker keep their types;
\* a lease is set exactly while a row is being processed, a worker holds a
\* claim exactly while it works on one, and only _finish has a result to write.
TypeOK ==
    /\ now \in Nat /\ crashes \in Nat
    /\ jobs \in [Invoices -> Job]
    /\ pc \in [Workers -> PC]
    /\ at \in [Workers -> Nat]
    /\ claim \in [Workers -> Claim \cup {NoClaim}]
    /\ result \in [Workers -> Result \cup {"none"}]
    /\ transfers \in Seq(Transfer) /\ inflight \subseteq Transfer
    /\ \A i \in Invoices : jobs[i].leaseUntil = NoLease <=> jobs[i].status # "processing"
    /\ \A w \in Workers : pc[w] \in Working => claim[w] \in Claim
    /\ \A w \in Workers : pc[w] = "finish" => result[w] \in Result

\* However often a job is claimed, timed out, retried or picked up again after a
\* crash, and whenever a delayed request arrives, the provider books at most
\* one transfer for an invoice (ensure_transfer; external_id is a key).
AtMostOneTransfer ==
    \A m, n \in DOMAIN transfers : transfers[m].invoice = transfers[n].invoice => m = n

IsBookedFor(i) == \E n \in DOMAIN transfers : transfers[n].invoice = i

\* A job is SUCCEEDED only when its transfer exists (TransferStore.succeeded).
SucceededMeansBooked ==
    \A i \in Invoices : jobs[i].status = "succeeded" => IsBookedFor(i)

\* Of all the workers that believe they work on a row, at most one can still
\* write it: leases are never shared, even when a claim was made with a clock
\* reading that had become stale (TransferStore.claim, _finish).
OneHolder ==
    \A v, w \in Workers :
        /\ pc[v] \in Working /\ HoldsLease(claim[v])
        /\ pc[w] \in Working /\ HoldsLease(claim[w])
        /\ claim[v].invoice = claim[w].invoice
        => v = w

\* A row leaves "processing" only through the worker that made its latest
\* claim: an outcome of a superseded attempt is never written over the claim
\* that replaced it (the fencing of _finish by lease_until).
LatestClaimDecides ==
    \A i \in Invoices :
        jobs[i].status = "processing" /\ jobs'[i].status # "processing"
        => \E w \in Workers : /\ pc[w] = "finish" /\ pc'[w] = "idle"
                              /\ claim[w].invoice = i
                              /\ claim[w].attempts = jobs[i].attempts

\* No step of a worker, however late, changes a settled job again.
SettledStays ==
    \A i \in Invoices : jobs[i].status \in Settled => jobs'[i] = jobs[i]

NoStaleOutcome == [][LatestClaimDecides]_vars
SettledIsFinal == [][SettledStays]_vars

-----------------------------------------------------------------------------
\* Why these hold: the inductive invariant of the proofs.

\* Every request was built by build_transfer_command.
CommandOf(i) == BuildTransferCommand([invoice |-> i])
CommandsWellFormed ==
    /\ \A n \in DOMAIN transfers : transfers[n] = CommandOf(transfers[n].invoice)
    /\ \A command \in inflight : command = CommandOf(command.invoice)

\* A worker reports success only of a transfer that is booked.
SuccessIsBooked ==
    \A w \in Workers :
        pc[w] = "finish" /\ result[w] = "succeeded" => IsBookedFor(claim[w].invoice)

\* A lease runs out no later than LeaseSeconds after the last clock reading of
\* the worker that holds it.
LeaseAge ==
    \A w \in Workers :
        /\ at[w] <= now
        /\ pc[w] = "claimed" => claim[w].lease = LeaseFrom(at[w])
        /\ pc[w] \in Working => claim[w].lease <= LeaseFrom(at[w])

\* The lease of the row is the latest of the leases ever given out for it, and
\* whoever claims a waiting row next will get a later one still.
LeaseOrder ==
    \A w \in Workers : pc[w] \in Working =>
        LET job == jobs[claim[w].invoice]
        IN  /\ job.status # "absent"
            /\ job.status = "processing" =>
                   /\ claim[w].lease <= job.leaseUntil
                   /\ claim[w].lease = job.leaseUntil => claim[w].attempts = job.attempts
            /\ job.status \in Waiting => claim[w].lease < LeaseFrom(job.nextAt)

\* Two workers on the same row have different leases.
LeasesDiffer ==
    \A v, w \in Workers :
        /\ pc[v] \in Working /\ pc[w] \in Working
        /\ claim[v].invoice = claim[w].invoice
        /\ claim[v].lease = claim[w].lease
        => v = w

\* Nothing is requested or booked for an invoice without an accepted credit.
OnlyCreditsRequested ==
    /\ \A command \in inflight : jobs[command.invoice].status # "absent"
    /\ \A n \in DOMAIN transfers : jobs[transfers[n].invoice].status # "absent"

\* The invariant that every step preserves.
IndInv == /\ TypeOK
          /\ AtMostOneTransfer /\ CommandsWellFormed
          /\ SucceededMeansBooked /\ SuccessIsBooked
          /\ LeaseAge /\ LeaseOrder /\ LeasesDiffer
          /\ OnlyCreditsRequested

-----------------------------------------------------------------------------
\* The job rows and booked transfers, seen as the ledger of debts.

DebtOutcome(job) == IF job.status = "absent" THEN "none"
                    ELSE IF job.status = "succeeded" THEN "succeeded"
                    ELSE IF job.status = "permanent_failure" THEN "failed"
                    ELSE "owed"

Ledger == INSTANCE TransferLedger
              WITH outcome <- [i \in Invoices |-> DebtOutcome(jobs[i])], paid <- transfers

\* Workers, leases, retries and crashes implement the ledger: every step pays,
\* accepts, settles or gives up one debt, or changes nothing the ledger shows.
ImplementsLedger == Ledger!Spec

=============================================================================
