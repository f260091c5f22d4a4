--------------------------- MODULE InvoiceIssuing ---------------------------
(***************************************************************************)
(* How the invoices of one batch are issued: the drafts of the batch, its  *)
(* lease, and the processes that write them without looking at each other: *)
(* `trial tick`, which claims the batch and issues its pending drafts,     *)
(* `trial reconcile`, which looks up the drafts with an unknown outcome,   *)
(* and the webhook, which binds a credited invoice to its draft.  The      *)
(* provider books as many invoices with one tag as it is asked for.        *)
(*                                                                         *)
(* A process reads the clock once.  Between what it reads of a draft, the  *)
(* answer of the provider and the row it writes, the others run, and so    *)
(* they do between the statements of a transaction that reads without a    *)
(* lock: the webhook's, and those that write a counter back.               *)
(***************************************************************************)
EXTENDS Integers

CONSTANTS TargetCount,     \* InvoiceBatch.target_count
          Ticks,           \* runs of `trial tick` that may overlap
          Reconcilers,     \* runs of `trial reconcile` that may overlap
          Requests,        \* webhook requests that may overlap
          Paid,            \* the drafts whose invoices are paid
          Slow,            \* the drafts whose create requests may arrive late
          LeaseSeconds,    \* TrialService.batch_lease_seconds
          RetryBase,       \* retry_base_seconds
          MaxAttempts,     \* invoice_max_attempts
          MaxRechecks,     \* invoice_reconciliation_max_attempts
          BatchMaxAttempts,\* batch_max_attempts
          MaxTime,         \* bound of the clock
          MaxCrashes,      \* bound of the deaths of processes
          MaxLate,         \* bound of the create requests under way for one draft
          Null             \* SQL NULL

Drafts == 1 .. TargetCount     \* by ordinal
Processes == Ticks \cup Reconcilers

ASSUME TargetAssumption == TargetCount \in Nat \ {0}
ASSUME DurationsAssumption == LeaseSeconds \in Nat \ {0} /\ RetryBase \in Nat \ {0}
ASSUME MaximaAssumption ==
    /\ MaxAttempts \in Nat \ {0} /\ MaxRechecks \in Nat \ {0} /\ BatchMaxAttempts \in Nat \ {0}
    /\ MaxTime \in Nat /\ MaxCrashes \in Nat /\ MaxLate \in Nat
ASSUME DraftsAssumption == Paid \subseteq Drafts /\ Slow \subseteq Drafts
ASSUME ProcessesAssumption == Ticks \cap Reconcilers = {}
ASSUME NullAssumption == Null \notin Nat /\ Null \notin Drafts \X (Nat \ {0})

VARIABLES now,      \* the clock
          batch,    \* the row of invoice_batches
          drafts,   \* the rows of invoice_drafts, by ordinal
          owner,    \* provider_invoice_id of the draft's row in owned_invoices
          proc,     \* where each process is, and what it has read
          credit,   \* the transaction of each webhook request
          issued,   \* how many invoices the provider has booked with each tag
          late,     \* how many create requests for each tag are still under way
          crashes   \* deaths so far

vars == <<now, batch, drafts, owner, proc, credit, issued, late, crashes>>

Claimable == {"scheduled", "issuing", "reconciling"}
BatchStatus == Claimable \cup {"completed", "degraded"}
DraftStatus == {"pending", "unknown", "created", "failed"}
InvoiceIds == Drafts \X (Nat \ {0})     \* the n-th invoice with the tag of a draft

Absent == [status |-> "absent", attempts |-> 0, rechecks |-> 0, nextAt |-> 0, invoice |-> Null]
Idle == [at |-> "idle", now |-> 0, todo |-> {}, outcome |-> "none", invoice |-> Null,
         seen |-> Null, status |-> "none"]
NoCredit == [at |-> "idle", invoice |-> Null, bound |-> FALSE]

Init == /\ now = 0
        /\ batch = [status |-> "scheduled", leaseUntil |-> Null, attempts |-> 0]
        /\ drafts = [d \in Drafts |-> Absent]
        /\ owner = [d \in Drafts |-> Null]
        /\ proc = [p \in Processes |-> Idle]
        /\ credit = [r \in Requests |-> NoCredit]
        /\ issued = [d \in Drafts |-> 0]
        /\ late = [d \in Drafts |-> 0]
        /\ crashes = 0

PowersOfTwo == <<1, 2, 4, 8, 16, 32, 64, 128, 256>>

Backoff(attempts) == RetryBase * PowersOfTwo[(IF attempts <= 8 THEN attempts ELSE 8) + 1]

Local(p, next) == proc' = [proc EXCEPT ![p] = next]
Database == <<batch, drafts, owner>>
Provider == <<issued, late>>
Outside == <<now, issued, late, crashes, credit>>

-----------------------------------------------------------------------------
\* tick: claim_due_batch, save and pending.

LeaseFree(t) == batch.leaseUntil # Null => batch.leaseUntil <= t

ClaimDueBatch(p) ==
    /\ proc[p].at = "idle"
    /\ batch.status \in Claimable /\ LeaseFree(now) /\ batch.attempts < BatchMaxAttempts
    /\ batch' = [status |-> "issuing", leaseUntil |-> now + LeaseSeconds,
                 attempts |-> batch.attempts + 1]
    /\ Local(p, [Idle EXCEPT !.at = "save", !.now = now])
    /\ UNCHANGED <<drafts, owner, Outside>>

\* Slips that the properties must notice, each before the definition it replaces:
\* one attempt more than a claim allows.
WrongDegrade(p) ==
    /\ proc[p].at = "idle"
    /\ batch.status \in Claimable /\ LeaseFree(now) /\ batch.attempts > BatchMaxAttempts
    /\ batch' = [batch EXCEPT !.status = "degraded", !.leaseUntil = Null]
    /\ UNCHANGED <<drafts, owner, proc, Outside>>

\* No batch can be claimed: exhausted ones are given up.
DegradeExhausted(p) ==
    /\ proc[p].at = "idle"
    /\ batch.status \in Claimable /\ LeaseFree(now) /\ batch.attempts >= BatchMaxAttempts
    /\ batch' = [batch EXCEPT !.status = "degraded", !.leaseUntil = Null]
    /\ UNCHANGED <<drafts, owner, proc, Outside>>

\* save reads the drafts that exist ...
SaveRead(p) ==
    /\ proc[p].at = "save"
    /\ LET missing == {d \in Drafts : drafts[d] = Absent}
       IN  Local(p, [proc[p] EXCEPT !.at = IF missing = {} THEN "pending" ELSE "insert",
                                    !.todo = {[draft |-> d, attempts |-> 0] : d \in missing}])
    /\ UNCHANGED <<Database, Outside>>

\* ... and inserts the others with their owners; a tick that did so in between
\* makes the INSERT, and with it the command, fail.
SaveInsert(p) ==
    LET missing == {x.draft : x \in proc[p].todo}
    IN  /\ proc[p].at = "insert"
        /\ IF \A d \in missing : drafts[d] = Absent
           THEN /\ drafts' = [d \in Drafts |->
                                 IF d \in missing
                                 THEN [Absent EXCEPT !.status = "pending", !.nextAt = proc[p].now]
                                 ELSE drafts[d]]
                /\ Local(p, [proc[p] EXCEPT !.at = "pending", !.todo = {}])
           ELSE Local(p, Idle) /\ UNCHANGED drafts
        /\ UNCHANGED <<batch, owner, Outside>>

\* The drafts are taken by ordinal; one that was tried before is looked up first.
First(todo) == CHOOSE x \in todo : \A y \in todo : x.draft <= y.draft

Current(p) == First(proc[p].todo)

Turn(p, todo) ==
    Local(p, [proc[p] EXCEPT
        !.todo = todo, !.outcome = "none", !.invoice = Null, !.seen = Null,
        !.at = IF todo = {} THEN "count"
               ELSE IF p \in Reconcilers THEN "find"
               ELSE IF First(todo).attempts > 0 THEN "find" ELSE "create"])

\* A SELECT of drafts with their attempts, kept while they are worked on.
Selected(status, t) ==
    {[draft |-> d, attempts |-> drafts[d].attempts] :
        d \in {d \in Drafts : drafts[d].status = status /\ drafts[d].nextAt <= t}}

Pending(p) == /\ proc[p].at = "pending"
              /\ Turn(p, Selected("pending", proc[p].now))
              /\ UNCHANGED <<Database, Outside>>

-----------------------------------------------------------------------------
\* _issue_draft and _settle_attempted_draft: one call to the provider, then one
\* transaction that writes its outcome.

Conclude(p, outcome, invoice) ==
    Local(p, [proc[p] EXCEPT !.at = "write", !.outcome = outcome, !.invoice = invoice])

\* find_invoice answers with any one of the invoices of the tag.
FindByTag(p) ==
    LET d == Current(p).draft
    IN  /\ proc[p].at = "find" /\ p \in Ticks
        /\ \/ \E n \in 1 .. issued[d] : Conclude(p, "created", <<d, n>>)
           \/ issued[d] = 0 /\ Local(p, [proc[p] EXCEPT !.at = "create"])
           \/ Conclude(p, "retry", Null)
           \/ Conclude(p, "failed", Null)
        /\ UNCHANGED <<Database, Outside>>

\* The id of the invoice before.
WrongAnswer(p) == /\ proc[p].at = "create"
                  /\ issued' = [issued EXCEPT ![Current(p).draft] = @ + 1]
                  /\ Conclude(p, "created", <<Current(p).draft, issued[Current(p).draft]>>)
                  /\ UNCHANGED <<now, Database, late, crashes, credit>>

CreateAnswered(p) ==
    LET d == Current(p).draft
    IN  /\ proc[p].at = "create"
        /\ issued' = [issued EXCEPT ![d] = @ + 1]
        /\ Conclude(p, "created", <<d, issued[d] + 1>>)
        /\ UNCHANGED <<now, Database, late, crashes, credit>>

\* The answer is lost: the invoice was booked, will be, or never was.
CreateUnknown(p) ==
    LET d == Current(p).draft
    IN  /\ proc[p].at = "create"
        /\ \/ issued' = [issued EXCEPT ![d] = @ + 1] /\ UNCHANGED late
           \/ /\ d \in Slow /\ late[d] < MaxLate
              /\ late' = [late EXCEPT ![d] = @ + 1] /\ UNCHANGED issued
           \/ UNCHANGED Provider
        /\ Conclude(p, "unknown", Null)
        /\ UNCHANGED <<now, Database, crashes, credit>>

CreateRefused(p) == /\ proc[p].at = "create"
                    /\ Conclude(p, "failed", Null)
                    /\ UNCHANGED <<Database, Outside>>

\* A row of owned_invoices that a request has updated and not committed.
OwnerHeld(d) == \E r \in Requests : credit[r].bound /\ credit[r].invoice[1] = d

\* _transition: draft and owner, whatever they hold by now, once no request holds
\* the owner.
Transition(d, status, invoice, t) ==
    /\ ~OwnerHeld(d)
    /\ drafts' = [drafts EXCEPT
           ![d] = [status   |-> status,
                   attempts |-> @.attempts + 1,
                   rechecks |-> IF status = "created" THEN 0 ELSE @.rechecks,
                   nextAt   |-> t,
                   invoice  |-> invoice]]
    /\ owner' = [owner EXCEPT ![d] = invoice]

\* It has updated the draft when a request that holds the owner wants the draft: the
\* database ends one of the two transactions, and with this one its process (with
\* the other one, RollbackCredit).
DeadlockVictim(p) ==
    /\ proc[p].at = "write" /\ proc[p].outcome \in {"created", "unknown", "failed"}
    /\ OwnerHeld(Current(p).draft)
    /\ Local(p, Idle)
    /\ UNCHANGED <<Database, Outside>>

\* The SELECT of retry and of reconcile, for the counter that they write back.
ReadCounter(p) ==
    LET row == drafts[Current(p).draft]
    IN  /\ proc[p].at = "write" /\ proc[p].outcome \in {"retry", "not found"}
        /\ proc[p].seen = Null
        /\ Local(p, [proc[p] EXCEPT !.seen = IF p \in Ticks THEN row.attempts ELSE row.rechecks])
        /\ UNCHANGED <<Database, Outside>>

\* The UPDATE of retry: the owner keeps its provider id.
Retry(x, seen, t) ==
    LET d == x.draft
        attempts == seen + 1
    IN  /\ seen # Null
        /\ drafts' = [drafts EXCEPT
               ![d] = [@ EXCEPT !.status   = IF attempts >= MaxAttempts THEN "failed" ELSE "pending",
                                !.attempts = attempts,
                                !.nextAt   = IF attempts >= MaxAttempts THEN t
                                             ELSE t + Backoff(x.attempts),
                                !.invoice  = Null]]
        /\ UNCHANGED owner

\* The row of a draft keeps no trace of a create that was not answered.
WrongForgets(p) ==
    LET x == Current(p)
        own == proc[p]
    IN  /\ own.at = "write" /\ p \in Ticks
        /\ IF own.outcome \in {"retry", "unknown"} THEN UNCHANGED <<drafts, owner>>
           ELSE Transition(x.draft, own.outcome, own.invoice, own.now)
        /\ Turn(p, own.todo \ {x})
        /\ UNCHANGED <<batch, Outside>>

WriteOutcome(p) ==
    LET x == Current(p)
        own == proc[p]
    IN  /\ own.at = "write" /\ p \in Ticks
        /\ IF own.outcome = "retry" THEN Retry(x, own.seen, own.now)
           ELSE Transition(x.draft, own.outcome, own.invoice, own.now)
        /\ Turn(p, own.todo \ {x})
        /\ UNCHANGED <<batch, Outside>>

-----------------------------------------------------------------------------
\* reconcile_invoices.

\* The command has nothing to do unless a draft is UNKNOWN.
Unknown(p) == /\ proc[p].at = "idle" /\ p \in Reconcilers
              /\ Selected("unknown", now) # {}
              /\ Local(p, [Idle EXCEPT !.at = "find", !.now = now,
                                       !.todo = Selected("unknown", now)])
              /\ UNCHANGED <<Database, Outside>>

\* A transient error skips the draft: status keeps that no draft was written yet,
\* in which case there is no batch to settle.
LookUp(p) ==
    LET x == Current(p)
        rest == proc[p].todo \ {x}
    IN  /\ proc[p].at = "find" /\ p \in Reconcilers
        /\ \/ \E n \in 1 .. issued[x.draft] : Conclude(p, "created", <<x.draft, n>>)
           \/ issued[x.draft] = 0 /\ Conclude(p, "not found", Null)
           \/ IF rest = {} /\ proc[p].status = "none" THEN Local(p, Idle) ELSE Turn(p, rest)
        /\ UNCHANGED <<Database, Outside>>

\* Nothing catches a permanent error: the command ends, and settles nothing.
LookUpRefused(p) == /\ proc[p].at = "find" /\ p \in Reconcilers
                    /\ Local(p, Idle)
                    /\ UNCHANGED <<Database, Outside>>

\* The UPDATE of reconcile, for a draft that was not found: after MaxRechecks it is
\* PENDING again, or FAILED when the attempts that were read are used up.
NotFound(x, seen, t) ==
    LET d == x.draft
        rechecks == seen + 1
        over == rechecks >= MaxRechecks
        exhausted == over /\ x.attempts >= MaxAttempts
    IN  /\ seen # Null
        /\ drafts' = [drafts EXCEPT
               ![d] = [@ EXCEPT !.status   = IF exhausted THEN "failed"
                                             ELSE IF over THEN "pending" ELSE "unknown",
                                !.rechecks = IF over THEN 0 ELSE rechecks,
                                !.nextAt   = IF exhausted THEN t ELSE t + Backoff(x.attempts)]]
        /\ UNCHANGED owner

Reconcile(p) ==
    LET x == Current(p)
        own == proc[p]
        rest == own.todo \ {x}
    IN  /\ own.at = "write" /\ p \in Reconcilers
        /\ IF own.outcome = "created" THEN Transition(x.draft, "created", own.invoice, own.now)
           ELSE NotFound(x, own.seen, own.now)
        /\ Local(p, [own EXCEPT !.at = IF rest = {} THEN "count" ELSE "find",
                                !.todo = rest, !.outcome = "none", !.invoice = Null,
                                !.seen = Null, !.status = "written"])
        /\ UNCHANGED <<batch, Outside>>

-----------------------------------------------------------------------------
\* settle: counts the drafts, then writes the batch without asking for its lease.

With(status) == {d \in Drafts : drafts[d].status = status}

\* A batch is COMPLETED when no draft is left to issue.
WrongSettlement == IF With("pending") \cup With("unknown") = {} THEN "completed"
                   ELSE IF With("unknown") # {} THEN "reconciling" ELSE "scheduled"

Settlement == IF With("created") = Drafts THEN "completed"
              ELSE IF With("failed") # {} THEN "degraded"
              ELSE IF With("unknown") # {} THEN "reconciling" ELSE "scheduled"

SettleCount(p) == /\ proc[p].at = "count"
                  /\ Local(p, [proc[p] EXCEPT !.at = "settle", !.status = Settlement])
                  /\ UNCHANGED <<Database, Outside>>

SettleWrite(p) == /\ proc[p].at = "settle"
                  /\ batch' = [batch EXCEPT !.status = proc[p].status, !.leaseUntil = Null]
                  /\ Local(p, Idle)
                  /\ UNCHANGED <<drafts, owner, Outside>>

-----------------------------------------------------------------------------
\* The webhook: _owns_invoice finds the owner of a credited invoice by its id or
\* tag and binds both rows where they are free, statement by statement (CreditEvents
\* has the rest of the transaction).  What it writes is seen when it commits.

Credit(r, next) == credit' = [credit EXCEPT ![r] = next]

FindOwnerById(r) ==
    \E d \in Paid : \E n \in 1 .. issued[d] :
        /\ credit[r].at = "idle" /\ drafts[d] # Absent
        /\ Credit(r, [NoCredit EXCEPT !.at = IF owner[d] = <<d, n>> THEN "draft" ELSE "tag",
                                      !.invoice = <<d, n>>])
        /\ UNCHANGED <<now, Database, proc, Provider, crashes>>

\* An owner with another invoice is not the one of this event.
FindOwnerByTag(r) ==
    /\ credit[r].at = "tag"
    /\ Credit(r, IF owner[credit[r].invoice[1]] \in {Null, credit[r].invoice}
                 THEN [credit[r] EXCEPT !.at = "owner"] ELSE NoCredit)
    /\ UNCHANGED <<now, Database, proc, Provider, crashes>>

\* The owner is bound whatever it holds.
WrongBindOwner(r) ==
    /\ credit[r].at = "owner"
    /\ ~OwnerHeld(credit[r].invoice[1])
    /\ Credit(r, [credit[r] EXCEPT !.at = "draft", !.bound = TRUE])
    /\ UNCHANGED <<now, Database, proc, Provider, crashes>>

\* The number of rows that the UPDATE has changed is not looked at.
BindOwner(r) ==
    LET d == credit[r].invoice[1]
    IN  /\ credit[r].at = "owner"
        /\ owner[d] = Null => ~OwnerHeld(d)
        /\ Credit(r, [credit[r] EXCEPT !.at = "draft", !.bound = owner[d] = Null])
        /\ UNCHANGED <<now, Database, proc, Provider, crashes>>

\* The UPDATE of the draft, and the COMMIT.
BindDraft(r) ==
    LET id == credit[r].invoice
        d == id[1]
    IN  /\ credit[r].at = "draft"
        /\ drafts' = IF drafts[d].invoice \in {Null, id}
                     THEN [drafts EXCEPT ![d].invoice = id, ![d].status = "created"]
                     ELSE drafts
        /\ owner' = IF credit[r].bound THEN [owner EXCEPT ![d] = id] ELSE owner
        /\ Credit(r, NoCredit)
        /\ UNCHANGED <<now, batch, proc, Provider, crashes>>

\* A deadlock, a lost connection, a dead web server.
RollbackCredit(r) == /\ credit[r].at # "idle"
                     /\ Credit(r, NoCredit)
                     /\ UNCHANGED <<now, Database, proc, Provider, crashes>>

\* A delayed create request reaches the provider.
Arrive(d) == /\ late[d] > 0
             /\ late' = [late EXCEPT ![d] = @ - 1]
             /\ issued' = [issued EXCEPT ![d] = @ + 1]
             /\ UNCHANGED <<now, Database, proc, crashes, credit>>

Crash(p) == /\ proc[p].at # "idle"
            /\ crashes < MaxCrashes /\ crashes' = crashes + 1
            /\ Local(p, Idle)
            /\ UNCHANGED <<now, Database, Provider, credit>>

Clock == /\ now < MaxTime
         /\ now' = now + 1
         /\ UNCHANGED <<Database, proc, Provider, crashes, credit>>

TickStep(p) ==
    \/ ClaimDueBatch(p) \/ DegradeExhausted(p)
    \/ SaveRead(p) \/ SaveInsert(p) \/ Pending(p)
    \/ FindByTag(p) \/ CreateAnswered(p) \/ CreateUnknown(p) \/ CreateRefused(p)
    \/ ReadCounter(p) \/ WriteOutcome(p) \/ DeadlockVictim(p)
    \/ SettleCount(p) \/ SettleWrite(p)

ReconcileStep(p) ==
    \/ Unknown(p) \/ LookUp(p) \/ LookUpRefused(p)
    \/ ReadCounter(p) \/ Reconcile(p) \/ DeadlockVictim(p)
    \/ SettleCount(p) \/ SettleWrite(p)

CreditStep(r) ==
    \/ FindOwnerById(r) \/ FindOwnerByTag(r) \/ BindOwner(r) \/ BindDraft(r)
    \/ RollbackCredit(r)

Environment == \/ \E r \in Requests : CreditStep(r)
               \/ \E d \in Drafts : Arrive(d)
               \/ \E p \in Processes : Crash(p)

Next == \/ \E p \in Ticks : TickStep(p)
        \/ \E p \in Reconcilers : ReconcileStep(p)
        \/ Environment
        \/ Clock

Spec == Init /\ [][Next]_vars

\* When processes keep up with the clock, which the crontab starts once a minute:
\* time passes only while none is running and no batch can be claimed.
Quiet == /\ \A p \in Processes : proc[p].at = "idle"
         /\ ~(batch.status \in Claimable /\ LeaseFree(now))

TimelyNext == \/ \E p \in Ticks : TickStep(p)
              \/ \E p \in Reconcilers : ReconcileStep(p)
              \/ Environment
              \/ Quiet /\ Clock

\* Cron starts the tick again and again; a process that runs goes on, or dies; and
\* the clock moves between runs of reconcile, however often one is started.
\* A transaction that waits for a row gets it.  Nothing is asked of the provider and
\* of reconcile, nor of the webhook but that its transactions end.
TimelyFairness == /\ \A p \in Ticks : WF_vars(TickStep(p))
                  /\ SF_vars(Quiet /\ Clock)
                  /\ \A p \in Reconcilers : WF_vars(proc[p].at # "idle" /\ ReconcileStep(p))
                  /\ \A r \in Requests : WF_vars(credit[r].at # "idle" /\ CreditStep(r))

TimelySpec == Init /\ [][TimelyNext]_vars /\ TimelyFairness

-----------------------------------------------------------------------------
\* Properties.

\* The types of the columns and of what a process has read.
Selection == [draft : Drafts, attempts : Nat]
Outcomes == {"none", "created", "unknown", "retry", "failed", "not found"}

DraftRow == [status : DraftStatus \cup {"absent"}, attempts : Nat, rechecks : Nat,
             nextAt : Nat, invoice : InvoiceIds \cup {Null}]
Locals == [at : {"idle", "save", "insert", "pending", "find", "create", "write", "count", "settle"},
           now : Nat, todo : SUBSET Selection, outcome : Outcomes,
           invoice : InvoiceIds \cup {Null}, seen : Nat \cup {Null},
           status : BatchStatus \cup {"none", "written"}]
Transactions == [at : {"idle", "tag", "owner", "draft"}, invoice : InvoiceIds \cup {Null},
                 bound : BOOLEAN]

\* The columns and the locals keep their types, and a process that calls
\* the provider or writes an outcome does it for a draft it has selected.
IssuingTypeOK ==
    /\ now \in Nat /\ crashes \in Nat
    /\ batch \in [status : BatchStatus, leaseUntil : Nat \cup {Null}, attempts : Nat]
    /\ drafts \in [Drafts -> DraftRow]
    /\ owner \in [Drafts -> InvoiceIds \cup {Null}]
    /\ issued \in [Drafts -> Nat] /\ late \in [Drafts -> Nat]
    /\ proc \in [Processes -> Locals]
    /\ credit \in [Requests -> Transactions]
    /\ \A r \in Requests : credit[r].at # "idle" => credit[r].invoice # Null
    /\ \A p \in Processes :
          /\ proc[p].at \in {"find", "create", "write"} => proc[p].todo # {}
          /\ proc[p].at = "settle" => proc[p].status \in BatchStatus
          /\ proc[p].at = "write" /\ p \in Ticks
             => proc[p].outcome \in {"created", "unknown", "retry", "failed"}

\* A batch is reported COMPLETED only when all its target_count invoices exist,
\* however stale the counts were on which some process settled it.
CompletedMeansIssued ==
    batch.status = "completed" => \A d \in Drafts : issued[d] > 0

\* In the end the batch is COMPLETED or DEGRADED, and stays so: claims are bounded
\* by BatchMaxAttempts, a dead tick leaves a lease that runs out, and no reconcile
\* brings the batch back for ever (claim_due_batch, settle).
BatchIsSettled == <>[](batch.status \in {"completed", "degraded"})

\* Why these hold: what a process is about to write is true, and stays true while
\* others write, because the provider never takes an invoice back.
WritesWhatIsBooked ==
    \A p \in Processes : proc[p].at = "write" /\ proc[p].outcome = "created" =>
        \E n \in 1 .. issued[Current(p).draft] : proc[p].invoice = <<Current(p).draft, n>>

BindsWhatIsBooked ==
    \A r \in Requests : credit[r].at # "idle" =>
        \E d \in Drafts : \E n \in 1 .. issued[d] : credit[r].invoice = <<d, n>>

\* A CREATED draft has an invoice that the provider has booked with its tag.
CreatedIsBooked ==
    \A d \in Drafts : drafts[d].status = "created" =>
        \E n \in 1 .. issued[d] : drafts[d].invoice = <<d, n>>

SettlesWhatIsIssued ==
    \A p \in Processes : proc[p].at = "settle" /\ proc[p].status = "completed" =>
        \A d \in Drafts : issued[d] > 0

\* The invariant that every step preserves.
IssuingInv == /\ IssuingTypeOK
              /\ WritesWhatIsBooked /\ BindsWhatIsBooked /\ SettlesWhatIsIssued
              /\ CreatedIsBooked /\ CompletedMeansIssued

\* No draft is issued twice (README.md: leases, locks and deterministic tags
\* tolerate scheduler overlap and timeouts).
AtMostOneInvoice == \A d \in Drafts : issued[d] <= 1

=============================================================================
