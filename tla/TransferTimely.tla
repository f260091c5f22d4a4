--------------------------- MODULE TransferTimely ---------------------------
(***************************************************************************)
(* TransferDispatch when the workers keep up with the clock: time passes   *)
(* only while no worker has anything to do at the present reading, and     *)
(* not between the receipt of an event and its COMMIT.  Under that         *)
(* synchrony (a provider call is short against a lease or a backoff)       *)
(* every accepted credit reaches a final status.                           *)
(***************************************************************************)
EXTENDS TransferDispatch

CONSTANT LastCredit   \* bound: credits are accepted no later than this

\* No worker is inside a job and no row is due.
Quiet == /\ \A w \in Workers : pc[w] \notin Working
         /\ \A i \in Invoices : ~Claimable(jobs[i], now)

QuietTick == Quiet /\ Tick

TimelyEnvironment == \/ now <= LastCredit /\ \E i \in Invoices : Enqueue(i, now)
                     \/ \E w \in Workers : Crash(w)
                     \/ \E command \in inflight : Arrive(command)

TimelyNext == \/ \E w \in Workers : WorkerStep(w)
              \/ TimelyEnvironment
              \/ QuietTick

\* worker_run loops for ever and a dead worker is restarted; the clock runs.
\* Nothing is asked of the provider, of crashes or of delayed requests.
TimelyFairness == /\ \A w \in Workers : WF_vars(WorkerStep(w))
                  /\ WF_vars(QuietTick)

TimelySpec == Init /\ [][TimelyNext]_vars /\ TimelyFairness

\* Every accepted credit is settled, whatever the provider answers and although
\* workers die MaxCrashes times with the job in their hands: retries end at
\* MaxAttempts, and an abandoned lease expires (process_one, claim).
EverySettled ==
    \A i \in Invoices : jobs[i].status # "absent" ~> jobs[i].status \in Settled

\* Only a death in the middle of a job, and no live worker, takes the attempts that
\* claim counts beyond the maximum that the handlers compare them with.
AttemptsBounded == \A i \in Invoices : jobs[i].attempts <= MaxAttempts + crashes

\* The provider has the transfer of invoice i, or a create request for it is under way.
Asked(i) == IsBookedFor(i) \/ CommandOf(i) \in inflight

\* Once a job is settled no worker asks for its transfer: a transfer that the provider
\* books for a job that was given up comes from a request that was under way by then
\* (_finalize_after_lookup).  A worker that had lost its lease would ask all the same.
NothingAskedAnew ==
    \A i \in Invoices : jobs[i].status \in Settled /\ Asked(i)' => Asked(i)

SettledAsksNothing == [][NothingAskedAnew]_vars

-----------------------------------------------------------------------------
\* Why these hold: what the timely clock adds to the invariant of TransferDispatch.

\* A job is done at one reading of the clock: whoever works has just claimed its
\* row, and has it still.
HolderIsPrompt ==
    \A w \in Workers : pc[w] \in Working =>
        /\ at[w] = now
        /\ claim[w].lease = LeaseFrom(now)
        /\ HoldsLease(claim[w])

\* No row has been due for longer than the present reading, so a worker whose
\* reading is old finds nothing to claim.
NothingOverdue ==
    \A i \in Invoices :
        /\ jobs[i].status \in Waiting => jobs[i].nextAt >= now
        /\ jobs[i].status = "processing" => jobs[i].leaseUntil >= now

\* A job is put back to wait only after a claim that was not the last one.
RetriesInTime ==
    \A w \in Workers :
        pc[w] = "finish" /\ result[w] \in {"retry", "unknown"} => ~Exhausted(claim[w])

Held(i) == \E w \in Workers : pc[w] \in Working /\ claim[w].invoice = i

\* A row that somebody will claim again has an attempt left; one that nobody holds
\* any more was left by a worker that died.
AttemptLeft ==
    \A i \in Invoices :
        jobs[i].status \in Waiting \/ (jobs[i].status = "processing" /\ ~Held(i))
        => jobs[i].attempts < MaxAttempts + crashes

TimelyInv == HolderIsPrompt /\ NothingOverdue /\ RetriesInTime /\ AttemptLeft /\ AttemptsBounded

=============================================================================
