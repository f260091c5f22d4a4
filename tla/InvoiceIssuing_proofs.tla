------------------------ MODULE InvoiceIssuing_proofs ------------------------
(***************************************************************************)
(* Proofs about InvoiceIssuing for batches of every size, any number of    *)
(* ticks, reconciles and requests that overlap in any way, and every       *)
(* lease, limit and bound.                                                 *)
(*                                                                         *)
(* First the types, then the facts that make an outcome true when it is    *)
(* written, and with them that a CREATED draft has a booked invoice and a  *)
(* COMPLETED batch all of them.  Then, with the history, that one tick     *)
(* issues a draft once, and that draft and owner agree.                    *)
(***************************************************************************)
EXTENDS InvoiceHistory, WellFoundedInduction, TLAPS

-----------------------------------------------------------------------------
\* Lemmas about the operators.

LEMMA BackoffNat == ASSUME NEW a \in Nat PROVE Backoff(a) \in Nat
<1>1. PowersOfTwo[(IF a <= 8 THEN a ELSE 8) + 1] \in Nat
    BY DEF PowersOfTwo
<1>2. \A x, y \in Nat : x * y \in Nat
    OBVIOUS
<1> QED BY <1>1, <1>2, DurationsAssumption DEF Backoff

LEMMA LeastExists ==
    ASSUME NEW T, T \subseteq Nat, T # {}
    PROVE  \E x \in T : \A y \in T : x <= y
<1> DEFINE less == {pair \in Nat \X Nat : pair[1] < pair[2]}
<1>1. IsWellFoundedOn(less, Nat)
    BY NatLessThanWellFounded DEF OpToRel
<1> HIDE DEF less
<1>2. \E x \in T : \A y \in T : <<y, x>> \notin less
    BY <1>1, WFMin
<1>3. \A x, y \in Nat : <<y, x>> \notin less => x <= y
    BY DEF less
<1> QED BY <1>2, <1>3

\* There is a draft with the least ordinal to go on with.
LEMMA FirstSelected ==
    ASSUME NEW todo \in SUBSET Selection, todo # {}
    PROVE  First(todo) \in todo
<1> DEFINE ordinals == {x.draft : x \in todo}
<1>1. ordinals \subseteq Nat /\ ordinals # {}
    BY TargetAssumption DEF Selection, Drafts
<1>2. \E n \in ordinals : \A m \in ordinals : n <= m
    BY <1>1, LeastExists
<1>3. \E x \in todo : \A y \in todo : x.draft <= y.draft
    BY <1>2
<1> QED BY <1>3 DEF First

LEMMA CurrentTyped ==
    ASSUME IssuingTypeOK, NEW p \in Processes, proc[p].at \in {"find", "create", "write"}
    PROVE  /\ Current(p) \in Selection
           /\ Current(p).draft \in Drafts /\ Current(p).attempts \in Nat
<1>1. proc[p].todo \in SUBSET Selection /\ proc[p].todo # {}
    BY DEF IssuingTypeOK, Locals
<1>2. Current(p) \in Selection
    BY <1>1, FirstSelected DEF Current
<1> QED BY <1>2 DEF Selection

LEMMA SelectedTyped ==
    ASSUME IssuingTypeOK, NEW status, NEW t
    PROVE  Selected(status, t) \in SUBSET Selection
    BY DEF Selected, Selection, IssuingTypeOK, DraftRow

\* The n-th invoice of a draft.
LEMMA InvoiceIdTyped ==
    ASSUME IssuingTypeOK, NEW d \in Drafts
    PROVE  /\ \A n \in 1 .. issued[d] : <<d, n>> \in InvoiceIds
           /\ <<d, issued[d] + 1>> \in InvoiceIds
<1>1. issued[d] \in Nat
    BY DEF IssuingTypeOK
<1> QED BY <1>1 DEF InvoiceIds

-----------------------------------------------------------------------------
\* Type correctness.  What IssuingTypeOK says of the locals l of process p.

LocalOK(p, l) ==
    /\ l \in Locals
    /\ l.at \in {"find", "create", "write"} => l.todo # {}
    /\ l.at = "settle" => l.status \in BatchStatus
    /\ l.at = "write" /\ p \in Ticks => l.outcome \in {"created", "unknown", "retry", "failed"}

TablesOK ==
    /\ now \in Nat /\ crashes \in Nat
    /\ batch \in [status : BatchStatus, leaseUntil : Nat \cup {Null}, attempts : Nat]
    /\ drafts \in [Drafts -> DraftRow]
    /\ owner \in [Drafts -> InvoiceIds \cup {Null}]
    /\ issued \in [Drafts -> Nat] /\ late \in [Drafts -> Nat]
    /\ credit \in [Requests -> Transactions]
    /\ \A r \in Requests : credit[r].at # "idle" => credit[r].invoice # Null

ProcOK == /\ proc \in [Processes -> Locals]
          /\ \A p \in Processes : LocalOK(p, proc[p])

LEMMA TypeSplit == IssuingTypeOK <=> TablesOK /\ ProcOK
    BY DEF IssuingTypeOK, TablesOK, ProcOK, LocalOK

LEMMA TypeSplitNext == IssuingTypeOK' <=> TablesOK' /\ ProcOK'
    BY DEF IssuingTypeOK, TablesOK, ProcOK, LocalOK

LEMMA LocalTyped ==
    ASSUME ProcOK, NEW p \in Processes, NEW next, LocalOK(p, next), Local(p, next)
    PROVE  ProcOK'
    BY DEF ProcOK, LocalOK, Local

LEMMA IdleTyped == ASSUME NEW p PROVE LocalOK(p, Idle)
    BY DEF LocalOK, Idle, Locals, Outcomes

\* Turn and Conclude change only the locals of their process, and type correctly.
LEMMA TurnTyped ==
    ASSUME ProcOK, NEW p \in Processes, NEW todo \in SUBSET Selection, Turn(p, todo)
    PROVE  \E next : /\ Local(p, next) /\ LocalOK(p, next)
                     /\ next.at \in {"count", "find", "create"}
<1> DEFINE at == IF todo = {} THEN "count"
                 ELSE IF p \in Reconcilers THEN "find"
                 ELSE IF First(todo).attempts > 0 THEN "find" ELSE "create"
           next == [proc[p] EXCEPT !.todo = todo, !.outcome = "none", !.invoice = Null,
                                   !.seen = Null, !.at = at]
<1>1. Local(p, next)
    BY DEF Turn
<1>2. at \in {"count", "find", "create"} /\ (todo = {} => at = "count")
    OBVIOUS
<1>3. proc[p] \in Locals
    BY DEF ProcOK
<1> HIDE DEF at
<1>4. next \in Locals /\ next.at = at /\ next.todo = todo
    BY <1>2, <1>3 DEF Locals, Outcomes
<1>5. LocalOK(p, next)
    BY <1>2, <1>4 DEF LocalOK
<1> QED BY <1>1, <1>2, <1>4, <1>5

LEMMA ConcludeTyped ==
    ASSUME ProcOK, NEW p \in Processes, NEW outcome \in Outcomes \ {"none"},
           NEW invoice \in InvoiceIds \cup {Null},
           proc[p].todo # {}, p \in Ticks => outcome # "not found",
           Conclude(p, outcome, invoice)
    PROVE  ProcOK'
<1> DEFINE next == [proc[p] EXCEPT !.at = "write", !.outcome = outcome, !.invoice = invoice]
<1>1. next \in Locals
    BY DEF ProcOK, Locals
<1>2. LocalOK(p, next)
    BY <1>1 DEF LocalOK, ProcOK, Locals, Outcomes
<1> QED BY <1>2, LocalTyped DEF Conclude

\* The writers of a draft and its owner.
LEMMA TransitionTyped ==
    ASSUME TablesOK, NEW d \in Drafts, NEW status \in DraftStatus,
           NEW invoice \in InvoiceIds \cup {Null}, NEW t \in Nat,
           Transition(d, status, invoice, t)
    PROVE  drafts' \in [Drafts -> DraftRow] /\ owner' \in [Drafts -> InvoiceIds \cup {Null}]
    BY DEF TablesOK, Transition, DraftRow

LEMMA RetryTyped ==
    ASSUME TablesOK, NEW x \in Selection, NEW seen \in Nat \cup {Null}, NEW t \in Nat,
           Retry(x, seen, t)
    PROVE  drafts' \in [Drafts -> DraftRow] /\ owner' = owner
<1>1. x.draft \in Drafts /\ Backoff(x.attempts) \in Nat
    BY BackoffNat DEF Selection
<1>2. t + Backoff(x.attempts) \in Nat
    BY <1>1
<1> DEFINE d == x.draft
           attempts == seen + 1
           row == [drafts[d] EXCEPT
                      !.status   = IF attempts >= MaxAttempts THEN "failed" ELSE "pending",
                      !.attempts = attempts,
                      !.nextAt   = IF attempts >= MaxAttempts THEN t ELSE t + Backoff(x.attempts),
                      !.invoice  = Null]
<1>3. drafts[d] \in DraftRow /\ attempts \in Nat
    BY <1>1 DEF TablesOK, DraftRow, Retry
<1>4. row \in DraftRow
    BY <1>2, <1>3 DEF DraftRow, DraftStatus
<1>5. drafts' = [drafts EXCEPT ![d] = row] /\ owner' = owner
    BY DEF Retry
<1> QED BY <1>4, <1>5 DEF TablesOK

LEMMA NotFoundTyped ==
    ASSUME TablesOK, NEW x \in Selection, NEW seen \in Nat \cup {Null}, NEW t \in Nat,
           NotFound(x, seen, t)
    PROVE  drafts' \in [Drafts -> DraftRow] /\ owner' = owner
<1>1. x.draft \in Drafts /\ Backoff(x.attempts) \in Nat
    BY BackoffNat DEF Selection
<1>2. t + Backoff(x.attempts) \in Nat
    BY <1>1
<1> DEFINE d == x.draft
           rechecks == seen + 1
           over == rechecks >= MaxRechecks
           exhausted == over /\ x.attempts >= MaxAttempts
           row == [drafts[d] EXCEPT
                      !.status   = IF exhausted THEN "failed" ELSE IF over THEN "pending" ELSE "unknown",
                      !.rechecks = IF over THEN 0 ELSE rechecks,
                      !.nextAt   = IF exhausted THEN t ELSE t + Backoff(x.attempts)]
<1>3. drafts[d] \in DraftRow /\ rechecks \in Nat
    BY <1>1 DEF TablesOK, DraftRow, NotFound
<1>4. row \in DraftRow
    BY <1>2, <1>3 DEF DraftRow, DraftStatus
<1>5. drafts' = [drafts EXCEPT ![d] = row] /\ owner' = owner
    BY DEF NotFound
<1> QED BY <1>4, <1>5 DEF TablesOK

LEMMA InitTyped == Init => IssuingTypeOK
    BY TargetAssumption DEF Init, Idle, NoCredit, Absent, IssuingTypeOK, Locals, Transactions,
                            DraftRow, DraftStatus, BatchStatus, Claimable, Outcomes

\* The steps that tick and reconcile share.
LEMMA CounterTyped ==
    ASSUME IssuingTypeOK, NEW p \in Processes, ReadCounter(p) \/ DeadlockVictim(p)
    PROVE  IssuingTypeOK'
<1> USE TypeSplit
<1>1. CASE ReadCounter(p)
    <2> DEFINE row == drafts[Current(p).draft]
               seen == IF p \in Ticks THEN row.attempts ELSE row.rechecks
               next == [proc[p] EXCEPT !.seen = seen]
    <2>1. Current(p).draft \in Drafts
        BY <1>1, CurrentTyped DEF ReadCounter
    <2>2. seen \in Nat
        BY <2>1 DEF TablesOK, DraftRow
    <2>3. Local(p, next)
        BY <1>1 DEF ReadCounter
    <2> HIDE DEF seen
    <2>4. LocalOK(p, next)
        BY <2>2 DEF ProcOK, LocalOK, Locals
    <2>5. ProcOK'
        BY <2>3, <2>4, LocalTyped
    <2> QED BY <1>1, <2>5, TypeSplitNext DEF ReadCounter, TablesOK, Database, Outside
<1>2. CASE DeadlockVictim(p)
    <2>1. ProcOK'
        BY <1>2, IdleTyped, LocalTyped DEF DeadlockVictim
    <2> QED BY <1>2, <2>1, TypeSplitNext DEF DeadlockVictim, TablesOK, Database, Outside
<1> QED BY <1>1, <1>2

LEMMA SettleTyped ==
    ASSUME IssuingTypeOK, NEW p \in Processes, SettleCount(p) \/ SettleWrite(p)
    PROVE  IssuingTypeOK'
<1> USE TypeSplit
<1>1. CASE SettleCount(p)
    <2> DEFINE next == [proc[p] EXCEPT !.at = "settle", !.status = Settlement]
    <2>1. Settlement \in BatchStatus
        BY DEF Settlement, BatchStatus, Claimable
    <2>2. LocalOK(p, next)
        BY <2>1 DEF ProcOK, LocalOK, Locals
    <2>3. ProcOK'
        BY <1>1, <2>2, LocalTyped DEF SettleCount
    <2> QED BY <1>1, <2>3, TypeSplitNext DEF SettleCount, TablesOK, Database, Outside
<1>2. CASE SettleWrite(p)
    <2>1. ProcOK'
        BY <1>2, IdleTyped, LocalTyped DEF SettleWrite
    <2>2. proc[p].status \in BatchStatus
        BY <1>2 DEF SettleWrite, ProcOK, LocalOK
    <2> QED BY <1>2, <2>1, <2>2, TypeSplitNext DEF SettleWrite, TablesOK, Outside
<1> QED BY <1>1, <1>2

\* A batch that is claimed or given up, drafts that are saved and selected.
LEMMA ClaimTyped ==
    ASSUME IssuingTypeOK, NEW p \in Ticks,
           \/ ClaimDueBatch(p) \/ DegradeExhausted(p)
           \/ SaveRead(p) \/ SaveInsert(p) \/ Pending(p)
    PROVE  IssuingTypeOK'
<1> USE TypeSplit
<1>0. p \in Processes /\ proc[p] \in Locals
    BY DEF Processes, ProcOK
<1>1. CASE ClaimDueBatch(p)
    <2>1. now + LeaseSeconds \in Nat /\ batch.attempts + 1 \in Nat
        BY DurationsAssumption DEF TablesOK
    <2>2. LocalOK(p, [Idle EXCEPT !.at = "save", !.now = now])
        BY DEF LocalOK, Idle, Locals, Outcomes, TablesOK
    <2>3. ProcOK'
        BY <1>0, <1>1, <2>2, LocalTyped DEF ClaimDueBatch
    <2> QED BY <1>1, <2>1, <2>3, TypeSplitNext
            DEF ClaimDueBatch, TablesOK, Outside, BatchStatus, Claimable
<1>2. CASE DegradeExhausted(p)
    BY <1>2, TypeSplitNext DEF DegradeExhausted, TablesOK, ProcOK, LocalOK, Outside, BatchStatus
<1>3. CASE SaveRead(p)
    <2> DEFINE missing == {d \in Drafts : drafts[d] = Absent}
               next == [proc[p] EXCEPT !.at = IF missing = {} THEN "pending" ELSE "insert",
                                       !.todo = {[draft |-> d, attempts |-> 0] : d \in missing}]
    <2>1. {[draft |-> d, attempts |-> 0] : d \in missing} \in SUBSET Selection
        BY DEF Selection
    <2>2. LocalOK(p, next)
        BY <1>0, <2>1 DEF LocalOK, Locals
    <2>3. ProcOK'
        BY <1>0, <1>3, <2>2, LocalTyped DEF SaveRead
    <2> QED BY <1>3, <2>3, TypeSplitNext DEF SaveRead, TablesOK, Database, Outside
<1>4. CASE SaveInsert(p)
    <2>1. [Absent EXCEPT !.status = "pending", !.nextAt = proc[p].now] \in DraftRow
        BY <1>0 DEF Absent, DraftRow, DraftStatus, Locals
    <2>2. drafts' \in [Drafts -> DraftRow]
        BY <1>4, <2>1 DEF SaveInsert, TablesOK
    <2>3. LocalOK(p, [proc[p] EXCEPT !.at = "pending", !.todo = {}])
        BY <1>0 DEF LocalOK, Locals
    <2>4. ProcOK'
        BY <1>0, <1>4, <2>3, IdleTyped, LocalTyped DEF SaveInsert
    <2> QED BY <1>4, <2>2, <2>4, TypeSplitNext DEF SaveInsert, TablesOK, Outside
<1>5. CASE Pending(p)
    <2>1. Selected("pending", proc[p].now) \in SUBSET Selection
        BY SelectedTyped
    <2>2. ProcOK'
        BY <1>0, <1>5, <2>1, TurnTyped, LocalTyped DEF Pending
    <2> QED BY <1>5, <2>2, TypeSplitNext DEF Pending, TablesOK, Database, Outside
<1> QED BY <1>1, <1>2, <1>3, <1>4, <1>5

\* The calls of a tick to the provider.
LEMMA CallTyped ==
    ASSUME IssuingTypeOK, NEW p \in Ticks,
           FindByTag(p) \/ CreateAnswered(p) \/ CreateUnknown(p) \/ CreateRefused(p)
    PROVE  IssuingTypeOK'
<1> USE TypeSplit
<1> DEFINE d == Current(p).draft
<1>1. /\ p \in Processes /\ proc[p] \in Locals
      /\ proc[p].at \in {"find", "create"} /\ proc[p].todo # {}
    BY DEF Processes, ProcOK, LocalOK, FindByTag, CreateAnswered, CreateUnknown, CreateRefused
<1>2. d \in Drafts
    BY <1>1, CurrentTyped
<1>3. /\ \A n \in 1 .. issued[d] : <<d, n>> \in InvoiceIds
      /\ <<d, issued[d] + 1>> \in InvoiceIds
    BY <1>2, InvoiceIdTyped
<1>4. issued[d] + 1 \in Nat /\ late[d] + 1 \in Nat
    BY <1>2 DEF TablesOK
<1> HIDE DEF d
<1>5. \A outcome \in {"created", "unknown", "retry", "failed"},
         invoice \in InvoiceIds \cup {Null} : Conclude(p, outcome, invoice) => ProcOK'
    BY <1>1, ConcludeTyped DEF Outcomes
<1>6. CASE FindByTag(p)
    <2>1. LocalOK(p, [proc[p] EXCEPT !.at = "create"])
        BY <1>1 DEF LocalOK, Locals
    <2>2. Local(p, [proc[p] EXCEPT !.at = "create"]) => ProcOK'
        BY <1>1, <2>1, LocalTyped
    <2>3. ProcOK'
        BY <1>3, <1>5, <1>6, <2>2 DEF FindByTag, d
    <2> QED BY <1>6, <2>3, TypeSplitNext DEF FindByTag, TablesOK, Database, Outside
<1>7. CASE CreateAnswered(p)
    <2>1. ProcOK'
        BY <1>3, <1>5, <1>7 DEF CreateAnswered, d
    <2>2. issued' \in [Drafts -> Nat]
        BY <1>2, <1>4, <1>7 DEF CreateAnswered, TablesOK, d
    <2> QED BY <1>7, <2>1, <2>2, TypeSplitNext DEF CreateAnswered, TablesOK, Database
<1>8. CASE CreateUnknown(p)
    <2>1. ProcOK'
        BY <1>5, <1>8 DEF CreateUnknown
    <2>2. issued' \in [Drafts -> Nat] /\ late' \in [Drafts -> Nat]
        BY <1>2, <1>4, <1>8 DEF CreateUnknown, TablesOK, Provider, d
    <2> QED BY <1>8, <2>1, <2>2, TypeSplitNext DEF CreateUnknown, TablesOK, Database
<1>9. CASE CreateRefused(p)
    <2>1. ProcOK'
        BY <1>5, <1>9 DEF CreateRefused
    <2> QED BY <1>9, <2>1, TypeSplitNext DEF CreateRefused, TablesOK, Database, Outside
<1> QED BY <1>6, <1>7, <1>8, <1>9

LEMMA WriteTyped ==
    ASSUME IssuingTypeOK, NEW p \in Ticks, WriteOutcome(p)
    PROVE  IssuingTypeOK'
<1> USE TypeSplit
<1>1. /\ p \in Processes /\ proc[p] \in Locals /\ proc[p].at = "write"
      /\ proc[p].outcome \in {"created", "unknown", "retry", "failed"}
    BY DEF Processes, ProcOK, LocalOK, WriteOutcome
<1>2. Current(p) \in Selection /\ Current(p).draft \in Drafts
    BY <1>1, CurrentTyped
<1>3. /\ proc[p].now \in Nat /\ proc[p].invoice \in InvoiceIds \cup {Null}
      /\ proc[p].todo \ {Current(p)} \in SUBSET Selection
      /\ proc[p].seen \in Nat \cup {Null}
    BY <1>1 DEF Locals
<1>4. drafts' \in [Drafts -> DraftRow] /\ owner' \in [Drafts -> InvoiceIds \cup {Null}]
    <2>1. CASE proc[p].outcome = "retry"
        BY <1>2, <1>3, <2>1, RetryTyped DEF WriteOutcome, TablesOK
    <2>2. CASE proc[p].outcome # "retry"
        <3>1. proc[p].outcome \in DraftStatus
            BY <1>1, <2>2 DEF DraftStatus
        <3>2. Transition(Current(p).draft, proc[p].outcome, proc[p].invoice, proc[p].now)
            BY <2>2 DEF WriteOutcome
        <3> QED BY <1>2, <1>3, <3>1, <3>2, TransitionTyped
    <2> QED BY <2>1, <2>2
<1>5. ProcOK'
    BY <1>1, <1>3, TurnTyped, LocalTyped DEF WriteOutcome
<1> QED BY <1>4, <1>5, TypeSplitNext DEF WriteOutcome, TablesOK, Outside

LEMMA ReconcileTyped ==
    ASSUME IssuingTypeOK, NEW p \in Reconcilers,
           Unknown(p) \/ LookUp(p) \/ LookUpRefused(p) \/ Reconcile(p)
    PROVE  IssuingTypeOK'
<1> USE TypeSplit
<1>0. /\ p \in Processes /\ p \notin Ticks
      /\ proc[p] \in Locals /\ proc[p].todo \in SUBSET Selection
    BY ProcessesAssumption DEF Processes, ProcOK, Locals
<1>1. CASE Unknown(p)
    <2>1. Selected("unknown", now) \in SUBSET Selection
        BY SelectedTyped
    <2>2. LocalOK(p, [Idle EXCEPT !.at = "find", !.now = now, !.todo = Selected("unknown", now)])
        BY <1>1, <2>1 DEF Unknown, LocalOK, Idle, Locals, Outcomes, TablesOK
    <2>3. ProcOK'
        BY <1>0, <1>1, <2>2, LocalTyped DEF Unknown
    <2> QED BY <1>1, <2>3, TypeSplitNext DEF Unknown, TablesOK, Database, Outside
<1>2. CASE LookUp(p)
    <2> DEFINE x == Current(p)
               rest == proc[p].todo \ {x}
    <2>1. x.draft \in Drafts /\ proc[p].todo # {}
        BY <1>0, <1>2, CurrentTyped DEF LookUp, ProcOK, LocalOK
    <2>2. \A n \in 1 .. issued[x.draft] : <<x.draft, n>> \in InvoiceIds
        BY <2>1, InvoiceIdTyped
    <2>3. \A outcome \in {"created", "not found"}, invoice \in InvoiceIds \cup {Null} :
             Conclude(p, outcome, invoice) => ProcOK'
        BY <1>0, <2>1, ConcludeTyped DEF Outcomes
    <2>4. Local(p, Idle) => ProcOK'
        BY <1>0, IdleTyped, LocalTyped
    <2>5. Turn(p, rest) => ProcOK'
        BY <1>0, TurnTyped, LocalTyped
    <2>6. ProcOK'
        BY <1>2, <2>2, <2>3, <2>4, <2>5 DEF LookUp
    <2> QED BY <1>2, <2>6, TypeSplitNext DEF LookUp, TablesOK, Database, Outside
<1>3. CASE LookUpRefused(p)
    <2>1. ProcOK'
        BY <1>0, <1>3, IdleTyped, LocalTyped DEF LookUpRefused
    <2> QED BY <1>3, <2>1, TypeSplitNext DEF LookUpRefused, TablesOK, Database, Outside
<1>4. CASE Reconcile(p)
    <2> DEFINE x == Current(p)
               rest == proc[p].todo \ {x}
               next == [proc[p] EXCEPT !.at = IF rest = {} THEN "count" ELSE "find",
                                       !.todo = rest, !.outcome = "none", !.invoice = Null,
                                       !.seen = Null, !.status = "written"]
    <2>1. x \in Selection /\ x.draft \in Drafts
        BY <1>0, <1>4, CurrentTyped DEF Reconcile
    <2>2. /\ proc[p].now \in Nat /\ proc[p].invoice \in InvoiceIds \cup {Null}
          /\ proc[p].seen \in Nat \cup {Null}
        BY <1>0 DEF Locals
    <2>3. drafts' \in [Drafts -> DraftRow] /\ owner' \in [Drafts -> InvoiceIds \cup {Null}]
        <3>1. CASE proc[p].outcome = "created"
            BY <1>4, <2>1, <2>2, <3>1, TransitionTyped DEF Reconcile, DraftStatus
        <3>2. CASE proc[p].outcome # "created"
            BY <1>4, <2>1, <2>2, <3>2, NotFoundTyped DEF Reconcile, TablesOK
        <3> QED BY <3>1, <3>2
    <2>4. LocalOK(p, next)
        BY <1>0 DEF LocalOK, Locals, Outcomes
    <2>5. Local(p, next)
        BY <1>4 DEF Reconcile
    <2>6. ProcOK'
        BY <1>0, <2>4, <2>5, LocalTyped
    <2> QED BY <1>4, <2>3, <2>6, TypeSplitNext DEF Reconcile, TablesOK, Outside
<1> QED BY <1>1, <1>2, <1>3, <1>4

\* What the first SELECT of a request leaves.
LEMMA Finds ==
    ASSUME IssuingTypeOK, NEW r \in Requests, FindOwnerById(r)
    PROVE  \E d \in Drafts : \E n \in 1 .. issued[d] :
              /\ credit'[r].invoice = <<d, n>> /\ credit'[r].bound = FALSE
              /\ credit'[r].at \in {"draft", "tag"}
              /\ credit'[r].at = "draft" <=> owner[d] = <<d, n>>
              /\ Credit(r, credit'[r]) /\ credit'[r] \in Transactions
<1>1. PICK d \in Drafts : \E n \in 1 .. issued[d] :
          Credit(r, [NoCredit EXCEPT !.at = IF owner[d] = <<d, n>> THEN "draft" ELSE "tag",
                                     !.invoice = <<d, n>>])
    BY DraftsAssumption DEF FindOwnerById
<1>2. PICK n \in 1 .. issued[d] :
          Credit(r, [NoCredit EXCEPT !.at = IF owner[d] = <<d, n>> THEN "draft" ELSE "tag",
                                     !.invoice = <<d, n>>])
    BY <1>1
<1> DEFINE id == <<d, n>>
           at == IF owner[d] = id THEN "draft" ELSE "tag"
           next == [NoCredit EXCEPT !.at = at, !.invoice = id]
<1>3. Credit(r, next)
    BY <1>2
<1>4. at \in {"draft", "tag"} /\ (at = "draft" <=> owner[d] = id)
    OBVIOUS
<1>7. id \in InvoiceIds
    BY InvoiceIdTyped
<1> HIDE DEF at, id
<1>5. next.invoice = id /\ next.bound = FALSE /\ next.at = at /\ next \in Transactions
    BY <1>4, <1>7 DEF NoCredit, Transactions
<1> HIDE DEF next
<1>6. credit'[r] = next
    BY <1>3 DEF Credit, IssuingTypeOK
<1> QED BY <1>3, <1>4, <1>5, <1>6 DEF id

LEMMA OutsideTyped ==
    ASSUME IssuingTypeOK, Environment \/ Clock
    PROVE  IssuingTypeOK'
<1> USE TypeSplit
<1>1. ASSUME NEW r \in Requests, CreditStep(r) PROVE IssuingTypeOK'
    <2>1. credit[r] \in Transactions /\ \A next : Credit(r, next) => credit'[r] = next
        BY DEF Credit, TablesOK
    <2>2. ASSUME NEW next \in Transactions, next.at # "idle" => next.invoice # Null, Credit(r, next)
          PROVE  /\ credit' \in [Requests -> Transactions]
                 /\ \A q \in Requests : credit'[q].at # "idle" => credit'[q].invoice # Null
        BY <2>2 DEF Credit, TablesOK
    <2>3. NoCredit \in Transactions /\ NoCredit.at = "idle"
        BY DEF NoCredit, Transactions
    <2>4. CASE FindOwnerById(r)
        <3>1. PICK d \in Drafts : \E n \in 1 .. issued[d] :
                  /\ credit'[r].invoice = <<d, n>> /\ credit'[r].bound = FALSE
                  /\ Credit(r, credit'[r]) /\ credit'[r] \in Transactions
            BY <2>4, Finds
        <3>2. credit'[r].invoice \in InvoiceIds /\ credit'[r].invoice # Null
            BY <3>1, InvoiceIdTyped, NullAssumption DEF InvoiceIds
        <3> QED BY <2>2, <2>4, <3>1, <3>2, TypeSplitNext
                DEF FindOwnerById, TablesOK, ProcOK, LocalOK, Database, Provider
    <2>5. CASE FindOwnerByTag(r)
        <3> DEFINE next == [credit[r] EXCEPT !.at = "owner"]
        <3>1. next \in Transactions /\ next.invoice # Null
            BY <2>1, <2>5 DEF FindOwnerByTag, TablesOK, Transactions
        <3>2. Credit(r, next) \/ Credit(r, NoCredit)
            BY <2>5 DEF FindOwnerByTag
        <3> QED BY <2>2, <2>3, <2>5, <3>1, <3>2, TypeSplitNext
                DEF FindOwnerByTag, TablesOK, ProcOK, LocalOK, Database, Provider
    <2>6. CASE BindOwner(r)
        <3> DEFINE next == [credit[r] EXCEPT !.at = "draft",
                                             !.bound = owner[credit[r].invoice[1]] = Null]
        <3>1. next \in Transactions /\ next.invoice # Null
            BY <2>1, <2>6 DEF BindOwner, TablesOK, Transactions
        <3>2. Credit(r, next)
            BY <2>6 DEF BindOwner
        <3> QED BY <2>2, <2>6, <3>1, <3>2, TypeSplitNext
                DEF BindOwner, TablesOK, ProcOK, LocalOK, Database, Provider
    <2>7. CASE BindDraft(r)
        <3>1. credit[r].invoice \in InvoiceIds
            BY <2>1, <2>7 DEF BindDraft, TablesOK, Transactions
        <3> DEFINE id == credit[r].invoice
                   d == id[1]
                   row == [drafts[d] EXCEPT !.invoice = id, !.status = "created"]
        <3>3. drafts' \in {drafts, [drafts EXCEPT ![d] = row]}
            BY <2>7 DEF BindDraft
        <3>4. owner' \in {owner, [owner EXCEPT ![d] = id]}
            BY <2>7 DEF BindDraft
        <3>5. d \in Drafts
            BY <3>1 DEF InvoiceIds
        <3> HIDE DEF d, id
        <3>6. row \in DraftRow
            BY <3>1, <3>5 DEF id, TablesOK, DraftRow, DraftStatus
        <3> HIDE DEF row
        <3>2. drafts' \in [Drafts -> DraftRow] /\ owner' \in [Drafts -> InvoiceIds \cup {Null}]
            BY <3>1, <3>3, <3>4, <3>5, <3>6 DEF id, TablesOK
        <3> QED BY <2>2, <2>3, <2>7, <3>2, TypeSplitNext
                DEF BindDraft, TablesOK, ProcOK, LocalOK, Provider
    <2>8. CASE RollbackCredit(r)
        BY <2>2, <2>3, <2>8, TypeSplitNext
           DEF RollbackCredit, TablesOK, ProcOK, LocalOK, Database, Provider
    <2> QED BY <1>1, <2>4, <2>5, <2>6, <2>7, <2>8 DEF CreditStep
<1>2. ASSUME NEW d \in Drafts, Arrive(d) PROVE IssuingTypeOK'
    <2>1. issued[d] + 1 \in Nat /\ late[d] - 1 \in Nat
        BY <1>2 DEF Arrive, TablesOK
    <2> QED BY <1>2, <2>1, TypeSplitNext DEF Arrive, TablesOK, ProcOK, LocalOK, Database
<1>3. ASSUME NEW p \in Processes, Crash(p) PROVE IssuingTypeOK'
    <2>1. ProcOK'
        BY <1>3, IdleTyped, LocalTyped DEF Crash
    <2> QED BY <1>3, <2>1, TypeSplitNext DEF Crash, TablesOK, Database, Provider
<1>4. CASE Clock
    BY <1>4, TypeSplitNext DEF Clock, TablesOK, ProcOK, LocalOK, Database, Provider
<1> QED BY <1>1, <1>2, <1>3, <1>4 DEF Environment

LEMMA TypesKept == IssuingTypeOK /\ [Next]_vars => IssuingTypeOK'
<1> SUFFICES ASSUME IssuingTypeOK, [Next]_vars PROVE IssuingTypeOK'
    OBVIOUS
<1>1. ASSUME NEW p \in Ticks, TickStep(p) PROVE IssuingTypeOK'
    BY <1>1, ClaimTyped, CallTyped, CounterTyped, WriteTyped, SettleTyped DEF TickStep, Processes
<1>2. ASSUME NEW p \in Reconcilers, ReconcileStep(p) PROVE IssuingTypeOK'
    BY <1>2, ReconcileTyped, CounterTyped, SettleTyped DEF ReconcileStep, Processes
<1>3. CASE UNCHANGED vars
    BY <1>3, TypeSplit, TypeSplitNext DEF vars, TablesOK, ProcOK, LocalOK
<1> QED BY <1>1, <1>2, <1>3, OutsideTyped DEF Next

\* Every column and local keeps its type in every execution, and a process calls
\* the provider or writes an outcome only for a draft it has selected.
THEOREM IssuingTypeCorrect == Spec => []IssuingTypeOK
    BY InitTyped, TypesKept, PTL DEF Spec

-----------------------------------------------------------------------------
\* What a process writes is true.  The provider takes no invoice back.

LEMMA IssuedGrows ==
    ASSUME IssuingTypeOK, [Next]_vars, NEW d \in Drafts
    PROVE  issued[d] \in Nat /\ issued'[d] \in Nat /\ issued'[d] >= issued[d]
<1>1. issued \in [Drafts -> Nat]
    BY DEF IssuingTypeOK
<1>2. \/ issued' = issued
      \/ \E e : issued' = [issued EXCEPT ![e] = @ + 1]
    BY DEF Next, vars, TickStep, ReconcileStep, Environment, ClaimDueBatch, DegradeExhausted,
           SaveRead, SaveInsert, Pending, FindByTag, CreateAnswered, CreateUnknown, CreateRefused,
           WriteOutcome, SettleCount, SettleWrite, Unknown, LookUp, LookUpRefused, Reconcile,
           ReadCounter, DeadlockVictim, CreditStep, FindOwnerById, FindOwnerByTag, BindOwner,
           BindDraft, RollbackCredit, Arrive, Crash, Clock, Outside, Provider
<1> QED BY <1>1, <1>2

\* What the transaction of a request leaves alone, and who leaves it alone.
LEMMA CreditLeaves ==
    ASSUME NEW r \in Requests, CreditStep(r)
    PROVE  /\ UNCHANGED <<now, batch, proc, issued, late, crashes>>
           /\ BindDraft(r) \/ UNCHANGED <<drafts, owner>>
    BY DEF CreditStep, FindOwnerById, FindOwnerByTag, BindOwner, BindDraft, RollbackCredit,
           Database, Provider

LEMMA CreditKept ==
    ASSUME [Next]_vars, ~(\E r \in Requests : CreditStep(r))
    PROVE  credit' = credit
    BY DEF Next, vars, TickStep, ReconcileStep, Environment, ClaimDueBatch, DegradeExhausted,
           SaveRead, SaveInsert, Pending, FindByTag, CreateAnswered, CreateUnknown, CreateRefused,
           WriteOutcome, SettleCount, SettleWrite, Unknown, LookUp, LookUpRefused, Reconcile,
           ReadCounter, DeadlockVictim, Arrive, Crash, Clock, Outside

\* Locals with nothing to write.
Silent(l) == l.at \notin {"write", "settle"}

LEMMA OthersKept ==
    ASSUME ProcOK, NEW p \in Processes, TickStep(p) \/ ReconcileStep(p),
           NEW q \in Processes \ {p}
    PROVE  proc'[q] = proc[q]
<1>1. \A next : Local(p, next) => proc'[q] = proc[q]
    BY DEF Local, ProcOK
<1>2. \/ proc' = proc
      \/ \E next : Local(p, next)
    <2>1. CASE TickStep(p)
        <3>1. CASE ClaimDueBatch(p) \/ DegradeExhausted(p)
            BY <3>1 DEF ClaimDueBatch, DegradeExhausted
        <3>2. CASE SaveRead(p) \/ SaveInsert(p)
            BY <3>2 DEF SaveRead, SaveInsert
        <3>3. CASE Pending(p) \/ WriteOutcome(p) \/ ReadCounter(p) \/ DeadlockVictim(p)
            BY <3>3 DEF Pending, WriteOutcome, ReadCounter, DeadlockVictim, Turn
        <3>4. CASE FindByTag(p) \/ CreateAnswered(p) \/ CreateUnknown(p) \/ CreateRefused(p)
            BY <3>4 DEF FindByTag, CreateAnswered, CreateUnknown, CreateRefused, Conclude
        <3>5. CASE SettleCount(p) \/ SettleWrite(p)
            BY <3>5 DEF SettleCount, SettleWrite
        <3> QED BY <2>1, <3>1, <3>2, <3>3, <3>4, <3>5 DEF TickStep
    <2>2. CASE ReconcileStep(p)
        <3>1. CASE Unknown(p) \/ LookUpRefused(p) \/ Reconcile(p)
            BY <3>1 DEF Unknown, LookUpRefused, Reconcile
        <3>4. CASE ReadCounter(p) \/ DeadlockVictim(p)
            BY <3>4 DEF ReadCounter, DeadlockVictim
        <3>2. CASE LookUp(p)
            BY <3>2 DEF LookUp, Conclude, Turn
        <3>3. CASE SettleCount(p) \/ SettleWrite(p)
            BY <3>3 DEF SettleCount, SettleWrite
        <3> QED BY <2>2, <3>1, <3>2, <3>3, <3>4 DEF ReconcileStep
    <2> QED BY <2>1, <2>2
<1> QED BY <1>1, <1>2

\* A step leaves a process nothing to write, or what Conclude and SettleCount say.
LEMMA LocalsAfter ==
    ASSUME IssuingTypeOK, [Next]_vars, NEW q \in Processes
    PROVE  \/ proc'[q] = proc[q]
           \/ Silent(proc'[q])
           \/ SettleCount(q)
           \/ FindByTag(q) \/ CreateAnswered(q) \/ CreateUnknown(q) \/ CreateRefused(q)
           \/ LookUp(q) \/ ReadCounter(q)
<1> USE TypeSplit
<1>1. /\ \A next : Local(q, next) => proc'[q] = next
      /\ proc[q] \in Locals /\ proc[q].todo \in SUBSET Selection
    BY DEF Local, ProcOK, Locals
<1>2. ASSUME NEW todo \in SUBSET Selection, Turn(q, todo)
      PROVE  Silent(proc'[q])
    BY <1>1, <1>2, TurnTyped DEF Silent
<1>3. Local(q, Idle) => Silent(proc'[q])
    BY <1>1 DEF Silent, Idle
<1>4. ASSUME q \in Ticks, TickStep(q)
      PROVE  \/ proc'[q] = proc[q] \/ Silent(proc'[q]) \/ SettleCount(q) \/ ReadCounter(q)
             \/ FindByTag(q) \/ CreateAnswered(q) \/ CreateUnknown(q) \/ CreateRefused(q)
    <2>1. CASE ClaimDueBatch(q)
        BY <1>1, <2>1 DEF ClaimDueBatch, Idle, Silent
    <2>2. CASE DegradeExhausted(q)
        BY <2>2 DEF DegradeExhausted
    <2>3. CASE SaveRead(q)
        <3> DEFINE missing == {d \in Drafts : drafts[d] = Absent}
                   at == IF missing = {} THEN "pending" ELSE "insert"
                   todo == {[draft |-> d, attempts |-> 0] : d \in missing}
        <3>1. Local(q, [proc[q] EXCEPT !.at = at, !.todo = todo])
            BY <2>3 DEF SaveRead
        <3>2. at \in {"pending", "insert"}
            OBVIOUS
        <3> HIDE DEF at, todo
        <3>3. Silent([proc[q] EXCEPT !.at = at, !.todo = todo])
            BY <1>1, <3>2 DEF Silent, Locals
        <3> QED BY <1>1, <3>1, <3>3
    <2>4. CASE SaveInsert(q)
        <3>1. \/ Local(q, [proc[q] EXCEPT !.at = "pending", !.todo = {}])
              \/ Local(q, Idle)
            BY <2>4 DEF SaveInsert
        <3>2. Silent([proc[q] EXCEPT !.at = "pending", !.todo = {}])
            BY <1>1 DEF Silent, Locals
        <3> QED BY <1>1, <1>3, <3>1, <3>2
    <2>5. CASE Pending(q)
        <3>1. Selected("pending", proc[q].now) \in SUBSET Selection
            BY SelectedTyped
        <3>2. Turn(q, Selected("pending", proc[q].now))
            BY <2>5 DEF Pending
        <3> QED BY <1>2, <3>1, <3>2
    <2>6. CASE WriteOutcome(q)
        <3>1. proc[q].todo \ {Current(q)} \in SUBSET Selection
            BY <1>1
        <3>2. Turn(q, proc[q].todo \ {Current(q)})
            BY <2>6 DEF WriteOutcome
        <3> QED BY <1>2, <3>1, <3>2
    <2>7. CASE SettleWrite(q) \/ DeadlockVictim(q)
        BY <1>3, <2>7 DEF SettleWrite, DeadlockVictim
    <2> QED BY <1>4, <2>1, <2>2, <2>3, <2>4, <2>5, <2>6, <2>7 DEF TickStep
<1>5. ASSUME q \in Reconcilers, ReconcileStep(q)
      PROVE  Silent(proc'[q]) \/ SettleCount(q) \/ LookUp(q) \/ ReadCounter(q)
    <2>1. CASE Unknown(q)
        BY <1>1, <2>1 DEF Unknown, Idle, Silent
    <2>2. CASE LookUpRefused(q)
        BY <1>3, <2>2 DEF LookUpRefused
    <2>3. CASE Reconcile(q)
        <3> DEFINE rest == proc[q].todo \ {Current(q)}
                   at == IF rest = {} THEN "count" ELSE "find"
                   next == [proc[q] EXCEPT !.at = at, !.todo = rest, !.outcome = "none",
                                           !.invoice = Null, !.seen = Null, !.status = "written"]
        <3>1. Local(q, next)
            BY <2>3 DEF Reconcile
        <3>2. at \in {"count", "find"}
            OBVIOUS
        <3> HIDE DEF at, rest
        <3>3. Silent(next)
            BY <1>1, <3>2 DEF Silent, Locals
        <3> QED BY <1>1, <3>1, <3>3
    <2>4. CASE SettleWrite(q) \/ DeadlockVictim(q)
        BY <1>3, <2>4 DEF SettleWrite, DeadlockVictim
    <2> QED BY <1>5, <2>1, <2>2, <2>3, <2>4 DEF ReconcileStep
<1>6. CASE \E p \in Processes \ {q} : TickStep(p) \/ ReconcileStep(p)
    BY <1>6, OthersKept
<1>7. ASSUME NEW p \in Processes, Crash(p) PROVE proc'[q] = proc[q] \/ Silent(proc'[q])
    BY <1>3, <1>7 DEF Crash, Local, ProcOK
<1>8. CASE (\E r \in Requests : CreditStep(r)) \/ (\E d \in Drafts : Arrive(d)) \/ Clock
           \/ UNCHANGED vars
    BY <1>8, CreditLeaves DEF Arrive, Clock, Database, vars
<1> QED BY <1>4, <1>5, <1>6, <1>7, <1>8 DEF Next, Environment, Processes

\* A process that is about to write an invoice has one that is booked with the tag
\* of its draft.
LEMMA WritesKept ==
    ASSUME IssuingTypeOK, WritesWhatIsBooked, [Next]_vars
    PROVE  WritesWhatIsBooked'
<1> SUFFICES ASSUME NEW q \in Processes, proc'[q].at = "write", proc'[q].outcome = "created"
             PROVE  \E n \in 1 .. issued'[Current(q)'.draft] :
                        proc'[q].invoice = <<Current(q)'.draft, n>>
    BY DEF WritesWhatIsBooked
<1> USE TypeSplit
<1> DEFINE d == Current(q).draft
<1>1. CASE proc'[q] = proc[q]
    <2>1. Current(q)' = Current(q)
        BY <1>1 DEF Current
    <2>2. d \in Drafts
        BY <1>1, CurrentTyped
    <2>3. PICK n \in 1 .. issued[d] : proc[q].invoice = <<d, n>>
        BY <1>1 DEF WritesWhatIsBooked
    <2>4. n \in 1 .. issued'[d]
        BY <2>2, IssuedGrows
    <2> QED BY <1>1, <2>1, <2>3, <2>4
<1>2. CASE FindByTag(q) \/ CreateAnswered(q) \/ CreateUnknown(q) \/ CreateRefused(q) \/ LookUp(q)
    <2>0. d \in Drafts /\ issued[d] \in Nat /\ issued \in [Drafts -> Nat]
        BY <1>2, CurrentTyped, IssuedGrows
           DEF FindByTag, CreateAnswered, CreateUnknown, CreateRefused, LookUp, TablesOK
    <2>1. ASSUME NEW outcome, NEW invoice, Conclude(q, outcome, invoice)
          PROVE  /\ Current(q)' = Current(q)
                 /\ proc'[q].outcome = outcome /\ proc'[q].invoice = invoice
        BY <2>1 DEF Conclude, Local, Current, ProcOK, Locals
    <2>2. \A todo \in SUBSET Selection : ~Turn(q, todo)
        BY TurnTyped DEF Local, ProcOK
    <2>3. ~Local(q, Idle) /\ ~Local(q, [proc[q] EXCEPT !.at = "create"])
        BY DEF Local, Idle, ProcOK, Locals
    <2>4. CASE FindByTag(q)
        <3>1. PICK n \in 1 .. issued[d] : Conclude(q, "created", <<d, n>>)
            BY <2>1, <2>3, <2>4 DEF FindByTag
        <3>2. n \in 1 .. issued'[d]
            BY <2>0, IssuedGrows
        <3> QED BY <2>1, <3>1, <3>2
    <2>5. CASE CreateAnswered(q)
        <3>1. Conclude(q, "created", <<d, issued[d] + 1>>) /\ issued' = [issued EXCEPT ![d] = @ + 1]
            BY <2>5 DEF CreateAnswered
        <3>2. issued[d] + 1 \in 1 .. issued'[d]
            BY <2>0, <3>1
        <3> QED BY <2>1, <3>1, <3>2
    <2>6. CASE CreateUnknown(q) \/ CreateRefused(q)
        BY <2>1, <2>6 DEF CreateUnknown, CreateRefused
    <2>7. CASE LookUp(q)
        <3>1. proc[q].todo \ {Current(q)} \in SUBSET Selection
            BY DEF ProcOK, Locals
        <3>2. PICK n \in 1 .. issued[d] : Conclude(q, "created", <<d, n>>)
            BY <2>1, <2>2, <2>3, <2>7, <3>1 DEF LookUp
        <3>3. n \in 1 .. issued'[d]
            BY <2>0, IssuedGrows
        <3> QED BY <2>1, <3>2, <3>3
    <2> QED BY <1>2, <2>4, <2>5, <2>6, <2>7
<1>3. CASE SettleCount(q)
    BY <1>3 DEF SettleCount, Local, ProcOK, Locals
<1>4. CASE ReadCounter(q)
    BY <1>4 DEF ReadCounter, Local, ProcOK, Locals
<1> QED BY <1>1, <1>2, <1>3, <1>4, LocalsAfter DEF Silent

\* Nor does a request bind anything else.
LEMMA BindsKept ==
    ASSUME IssuingTypeOK, BindsWhatIsBooked, [Next]_vars
    PROVE  BindsWhatIsBooked'
<1> SUFFICES ASSUME NEW r \in Requests, credit'[r].at # "idle"
             PROVE  \E d \in Drafts : \E n \in 1 .. issued'[d] : credit'[r].invoice = <<d, n>>
    BY DEF BindsWhatIsBooked
<1> USE TypeSplit
<1>0. \A d \in Drafts : \A n \in 1 .. issued[d] : n \in 1 .. issued'[d]
  <2> SUFFICES ASSUME NEW d \in Drafts, NEW n \in 1 .. issued[d] PROVE n \in 1 .. issued'[d]
      OBVIOUS
  <2> QED BY IssuedGrows
<1>1. CASE credit[r].at # "idle" /\ credit'[r].invoice = credit[r].invoice
    BY <1>0, <1>1 DEF BindsWhatIsBooked
<1>2. CASE credit' = credit
    BY <1>1, <1>2
<1>3. ASSUME NEW q \in Requests, CreditStep(q)
      PROVE  \E d \in Drafts : \E n \in 1 .. issued'[d] : credit'[r].invoice = <<d, n>>
    <2>1. \A next : Credit(q, next) => credit'[q] = next /\ (q # r => credit'[r] = credit[r])
        BY DEF Credit, TablesOK
    <2>2. CASE FindOwnerById(q)
        <3>1. PICK d \in Drafts : \E n \in 1 .. issued[d] : credit'[q].invoice = <<d, n>>
            BY <2>2, Finds
        <3>2. q # r => credit'[r] = credit[r]
            BY <2>1, <2>2, Finds
        <3> QED BY <1>0, <1>1, <3>1, <3>2
    <2>3. CASE FindOwnerByTag(q)
        BY <1>1, <2>1, <2>3 DEF FindOwnerByTag, NoCredit, TablesOK, Transactions
    <2>5. CASE BindOwner(q)
        <3> DEFINE free == owner[credit[q].invoice[1]] = Null
        <3>1. Credit(q, [credit[q] EXCEPT !.at = "draft", !.bound = free]) /\ credit[q].at = "owner"
            BY <2>5 DEF BindOwner
        <3> HIDE DEF free
        <3>2. [credit[q] EXCEPT !.at = "draft", !.bound = free].invoice = credit[q].invoice
            BY DEF TablesOK, Transactions
        <3> QED BY <1>1, <2>1, <3>1, <3>2
    <2>4. CASE BindDraft(q) \/ RollbackCredit(q)
        BY <1>1, <2>1, <2>4 DEF BindDraft, RollbackCredit, NoCredit
    <2> QED BY <1>3, <2>2, <2>3, <2>4, <2>5 DEF CreditStep
<1>4. CASE ~(\E q \in Requests : CreditStep(q))
    BY <1>2, <1>4, CreditKept
<1> QED BY <1>3, <1>4

\* A process that is about to write COMPLETED has counted a draft that was CREATED
\* for each ordinal.
LEMMA SettlesKept ==
    ASSUME IssuingTypeOK, SettlesWhatIsIssued, CreatedIsBooked, [Next]_vars
    PROVE  SettlesWhatIsIssued'
<1> SUFFICES ASSUME NEW q \in Processes, proc'[q].at = "settle", proc'[q].status = "completed",
                    NEW d \in Drafts
             PROVE  issued'[d] > 0
    BY DEF SettlesWhatIsIssued
<1> USE TypeSplit
<1>1. CASE proc'[q] = proc[q]
    BY <1>1, IssuedGrows DEF SettlesWhatIsIssued
<1>2. CASE SettleCount(q)
    <2>1. Settlement = "completed"
        BY <1>2 DEF SettleCount, Local, ProcOK, Locals
    <2>2. drafts[d].status = "created"
        BY <2>1 DEF Settlement, With
    <2> QED BY <2>2, IssuedGrows DEF CreatedIsBooked
<1>3. CASE FindByTag(q) \/ CreateAnswered(q) \/ CreateUnknown(q) \/ CreateRefused(q) \/ LookUp(q)
    <2>1. \A outcome, invoice : ~Conclude(q, outcome, invoice)
        BY DEF Conclude, Local, ProcOK, Locals
    <2>2. \A todo \in SUBSET Selection : ~Turn(q, todo)
        BY TurnTyped DEF Local, ProcOK
    <2>3. ~Local(q, Idle) /\ ~Local(q, [proc[q] EXCEPT !.at = "create"])
        BY DEF Local, Idle, ProcOK, Locals
    <2>4. proc[q].todo \ {Current(q)} \in SUBSET Selection
        BY DEF ProcOK, Locals
    <2>5. ~LookUp(q)
        BY <2>1, <2>2, <2>3, <2>4 DEF LookUp
    <2> QED BY <1>3, <2>1, <2>3, <2>5
            DEF FindByTag, CreateAnswered, CreateUnknown, CreateRefused
<1>4. CASE ReadCounter(q)
    BY <1>4 DEF ReadCounter, Local, ProcOK, Locals
<1> QED BY <1>1, <1>2, <1>3, <1>4, LocalsAfter DEF Silent

-----------------------------------------------------------------------------
\* A CREATED draft has an invoice that is booked.

\* What CreatedIsBooked says of one draft.
Booked(d) == drafts[d].status = "created" =>
                 \E n \in 1 .. issued[d] : drafts[d].invoice = <<d, n>>

LEMMA BookedStays ==
    ASSUME IssuingTypeOK, [Next]_vars, NEW d \in Drafts, Booked(d),
           drafts'[d] = drafts[d] \/ drafts'[d].status # "created"
    PROVE  Booked(d)'
<1>1. CASE drafts'[d].status # "created"
    BY <1>1 DEF Booked
<1>2. CASE drafts'[d] = drafts[d] /\ drafts'[d].status = "created"
    <2>1. PICK n \in 1 .. issued[d] : drafts[d].invoice = <<d, n>>
        BY <1>2 DEF Booked
    <2>2. n \in 1 .. issued'[d]
        BY IssuedGrows
    <2> QED BY <1>2, <2>1, <2>2 DEF Booked
<1> QED BY <1>1, <1>2

\* _transition writes an invoice that is booked.
LEMMA TransitionBooked ==
    ASSUME IssuingTypeOK, [Next]_vars, NEW x \in Drafts, NEW status \in DraftStatus,
           NEW invoice, NEW t, Transition(x, status, invoice, t),
           status = "created" => \E n \in 1 .. issued[x] : invoice = <<x, n>>,
           NEW d \in Drafts, Booked(d)
    PROVE  Booked(d)'
<1> USE TypeSplit
<1>1. CASE d # x
    <2>1. drafts'[d] = drafts[d]
        BY <1>1 DEF Transition, TablesOK
    <2> QED BY <2>1, BookedStays
<1>2. CASE d = x
    <2>1. drafts'[d].status = status /\ drafts'[d].invoice = invoice
        BY <1>2 DEF Transition, TablesOK
    <2>2. \A n \in 1 .. issued[d] : n \in 1 .. issued'[d]
        BY IssuedGrows
    <2> QED BY <1>2, <2>1, <2>2 DEF Booked
<1> QED BY <1>1, <1>2

\* The steps that write the drafts; the owners are written by the same ones.
LEMMA Writers ==
    ASSUME [Next]_vars
    PROVE  \/ UNCHANGED <<drafts, owner>>
           \/ \E p \in Ticks : SaveInsert(p) \/ WriteOutcome(p)
           \/ \E p \in Reconcilers : Reconcile(p)
           \/ \E r \in Requests : BindDraft(r)
<1>1. ASSUME NEW p \in Ticks, TickStep(p), ~SaveInsert(p), ~WriteOutcome(p)
      PROVE  UNCHANGED <<drafts, owner>>
    BY <1>1 DEF TickStep, ClaimDueBatch, DegradeExhausted, SaveRead, Pending, FindByTag,
           CreateAnswered, CreateUnknown, CreateRefused, ReadCounter, DeadlockVictim,
           SettleCount, SettleWrite, Database
<1>2. ASSUME NEW p \in Reconcilers, ReconcileStep(p), ~Reconcile(p)
      PROVE  UNCHANGED <<drafts, owner>>
    BY <1>2 DEF ReconcileStep, Unknown, LookUp, LookUpRefused, ReadCounter, DeadlockVictim,
           SettleCount, SettleWrite, Database
<1>3. CASE Clock \/ UNCHANGED vars \/ (\E e \in Drafts : Arrive(e)) \/ (\E p \in Processes : Crash(p))
    BY <1>3 DEF Clock, vars, Arrive, Crash, Database
<1> QED BY <1>1, <1>2, <1>3, CreditLeaves DEF Next, Environment

\* The two outcomes of a write: _transition, or a status that is not CREATED.
LEMMA WriteIs ==
    ASSUME IssuingTypeOK, NEW p \in Processes,
           (p \in Ticks /\ WriteOutcome(p)) \/ (p \in Reconcilers /\ Reconcile(p))
    PROVE  LET d == Current(p).draft
           IN  /\ d \in Drafts
               /\ \/ /\ owner' = owner /\ drafts'[d].status # "created"
                     /\ \A e \in Drafts \ {d} : drafts'[e] = drafts[e]
                  \/ \E status \in DraftStatus :
                        /\ Transition(d, status, proc[p].invoice, proc[p].now)
                        /\ proc[p].at = "write" /\ (status = "created" => proc[p].outcome = "created")
<1> USE TypeSplit
<1> DEFINE x == Current(p)
<1>1. proc[p].at = "write" /\ x.draft \in Drafts
    BY CurrentTyped DEF WriteOutcome, Reconcile
<1>2. CASE p \in Ticks /\ WriteOutcome(p) /\ proc[p].outcome = "retry"
    <2>1. Retry(x, proc[p].seen, proc[p].now)
        BY <1>2 DEF WriteOutcome
    <2> QED BY <1>1, <2>1 DEF Retry, TablesOK, DraftRow
<1>3. CASE p \in Ticks /\ WriteOutcome(p) /\ proc[p].outcome # "retry"
    <2>1. Transition(x.draft, proc[p].outcome, proc[p].invoice, proc[p].now)
        BY <1>3 DEF WriteOutcome
    <2>2. proc[p].outcome \in DraftStatus
        BY <1>1, <1>3 DEF ProcOK, LocalOK, DraftStatus
    <2> QED BY <1>1, <2>1, <2>2
<1>4. CASE p \in Reconcilers /\ Reconcile(p) /\ proc[p].outcome = "created"
    <2>1. Transition(x.draft, "created", proc[p].invoice, proc[p].now)
        BY <1>4 DEF Reconcile
    <2> QED BY <1>1, <1>4, <2>1 DEF DraftStatus
<1>5. CASE p \in Reconcilers /\ Reconcile(p) /\ proc[p].outcome # "created"
    <2>1. NotFound(x, proc[p].seen, proc[p].now)
        BY <1>5 DEF Reconcile
    <2> QED BY <1>1, <2>1 DEF NotFound, TablesOK, DraftRow
<1> QED BY <1>2, <1>3, <1>4, <1>5

\* A request at the end of its transaction, and what it writes.
LEMMA BindDraftWrites ==
    ASSUME IssuingTypeOK, BindsWhatIsBooked, NEW r \in Requests, BindDraft(r)
    PROVE  \E d \in Drafts : \E n \in 1 .. issued[d] :
              /\ credit[r].at = "draft" /\ credit[r].invoice = <<d, n>>
              /\ credit[r].invoice[1] = d
              /\ \A e \in Drafts \ {d} : drafts'[e] = drafts[e] /\ owner'[e] = owner[e]
              /\ owner'[d] = IF credit[r].bound THEN <<d, n>> ELSE owner[d]
              /\ \/ /\ drafts[d].invoice \in {Null, <<d, n>>}
                    /\ drafts'[d].invoice = <<d, n>> /\ drafts'[d].status = "created"
                 \/ /\ drafts[d].invoice \notin {Null, <<d, n>>}
                    /\ drafts'[d] = drafts[d]
              /\ credit' = [credit EXCEPT ![r] = NoCredit]
<1> USE TypeSplit
<1>0. PICK d \in Drafts : \E n \in 1 .. issued[d] : credit[r].invoice = <<d, n>>
    BY DEF BindDraft, BindsWhatIsBooked
<1>1. PICK n \in 1 .. issued[d] : credit[r].invoice = <<d, n>>
    BY <1>0
<1>2. credit[r].invoice[1] = d
    BY <1>1
<1>3. /\ credit[r].at = "draft" /\ credit' = [credit EXCEPT ![r] = NoCredit]
      /\ drafts' = IF drafts[d].invoice \in {Null, <<d, n>>}
                   THEN [drafts EXCEPT ![d].invoice = <<d, n>>, ![d].status = "created"]
                   ELSE drafts
      /\ owner' = IF credit[r].bound THEN [owner EXCEPT ![d] = <<d, n>>] ELSE owner
    BY <1>1, <1>2 DEF BindDraft, Credit
<1>4. drafts \in [Drafts -> DraftRow] /\ owner \in [Drafts -> InvoiceIds \cup {Null}]
    BY DEF TablesOK
<1> DEFINE id == <<d, n>>
<1> HIDE DEF id
<1>5. /\ \A e \in Drafts \ {d} : drafts'[e] = drafts[e] /\ owner'[e] = owner[e]
      /\ owner'[d] = IF credit[r].bound THEN <<d, n>> ELSE owner[d]
  <2>1. /\ drafts' \in {drafts, [drafts EXCEPT ![d].invoice = id, ![d].status = "created"]}
        /\ owner' = IF credit[r].bound THEN [owner EXCEPT ![d] = id] ELSE owner
      BY <1>3 DEF id
  <2> QED BY <1>4, <2>1 DEF id
<1>6. \/ /\ drafts[d].invoice \in {Null, <<d, n>>}
         /\ drafts'[d].invoice = <<d, n>> /\ drafts'[d].status = "created"
      \/ /\ drafts[d].invoice \notin {Null, <<d, n>>}
         /\ drafts'[d] = drafts[d]
  <2>1. drafts' = IF drafts[d].invoice \in {Null, id}
                  THEN [drafts EXCEPT ![d].invoice = id, ![d].status = "created"]
                  ELSE drafts
      BY <1>3 DEF id
  <2>2. [drafts EXCEPT ![d].invoice = id, ![d].status = "created"][d]
        = [drafts[d] EXCEPT !.invoice = id, !.status = "created"]
      BY <1>4
  <2>3. [drafts[d] EXCEPT !.invoice = id, !.status = "created"].invoice = id
      BY <1>4 DEF DraftRow
  <2>4. [drafts[d] EXCEPT !.invoice = id, !.status = "created"].status = "created"
      BY <1>4 DEF DraftRow
  <2> QED BY <2>1, <2>2, <2>3, <2>4 DEF id
<1> QED BY <1>1, <1>2, <1>3, <1>5, <1>6

LEMMA BookedKept ==
    ASSUME IssuingTypeOK, WritesWhatIsBooked, BindsWhatIsBooked, CreatedIsBooked, [Next]_vars
    PROVE  CreatedIsBooked'
<1> SUFFICES ASSUME NEW d \in Drafts PROVE Booked(d)'
    BY DEF CreatedIsBooked, Booked
<1> USE TypeSplit
<1>0. Booked(d)
    BY DEF CreatedIsBooked, Booked
<1>1. CASE UNCHANGED <<drafts, owner>>
    BY <1>0, <1>1, BookedStays
<1>2. ASSUME NEW p \in Ticks, SaveInsert(p) PROVE Booked(d)'
    <2>1. drafts'[d] = drafts[d] \/ drafts'[d].status = "pending"
        BY <1>2 DEF SaveInsert, Absent, TablesOK
    <2> QED BY <1>0, <2>1, BookedStays
<1>3. ASSUME NEW p \in Processes,
             (p \in Ticks /\ WriteOutcome(p)) \/ (p \in Reconcilers /\ Reconcile(p))
      PROVE  Booked(d)'
    <2>1. Current(p).draft \in Drafts
        BY <1>3, WriteIs
    <2>2. CASE \E status \in DraftStatus :
                  /\ Transition(Current(p).draft, status, proc[p].invoice, proc[p].now)
                  /\ proc[p].at = "write" /\ (status = "created" => proc[p].outcome = "created")
        BY <1>0, <2>1, <2>2, TransitionBooked DEF WritesWhatIsBooked
    <2>3. CASE ~(\E status \in DraftStatus :
                  /\ Transition(Current(p).draft, status, proc[p].invoice, proc[p].now)
                  /\ proc[p].at = "write" /\ (status = "created" => proc[p].outcome = "created"))
        BY <1>0, <1>3, <2>3, WriteIs, BookedStays
    <2> QED BY <2>2, <2>3
<1>4. ASSUME NEW r \in Requests, BindDraft(r) PROVE Booked(d)'
    <2> DEFINE Writes(e, n) ==
                   /\ credit[r].at = "draft" /\ credit[r].invoice = <<e, n>>
                   /\ credit[r].invoice[1] = e
                   /\ \A f \in Drafts \ {e} : drafts'[f] = drafts[f] /\ owner'[f] = owner[f]
                   /\ drafts'[e].invoice = <<e, n>> \/ drafts'[e] = drafts[e]
    <2>1. PICK e \in Drafts : \E n \in 1 .. issued[e] : Writes(e, n)
        BY <1>4, BindDraftWrites
    <2>2. PICK n \in 1 .. issued[e] : Writes(e, n)
        BY <2>1
    <2>3. n \in 1 .. issued'[e]
        BY IssuedGrows
    <2>4. CASE d = e /\ drafts'[e].invoice = <<e, n>>
        BY <2>3, <2>4 DEF Booked
    <2> QED BY <1>0, <2>2, <2>4, BookedStays
<1> QED BY <1>1, <1>2, <1>3, <1>4, Writers DEF Processes

-----------------------------------------------------------------------------
\* The batch becomes COMPLETED only through settle.
LEMMA CompletedKept ==
    ASSUME IssuingTypeOK, SettlesWhatIsIssued, CompletedMeansIssued, [Next]_vars
    PROVE  CompletedMeansIssued'
<1>1. \/ batch' = batch
      \/ batch'.status # "completed"
      \/ \E p \in Processes : SettleWrite(p)
    <2>1. ASSUME NEW p \in Ticks, TickStep(p), ~SettleWrite(p)
          PROVE  batch' = batch \/ batch'.status # "completed"
        <3>1. CASE ClaimDueBatch(p)
            BY <3>1 DEF ClaimDueBatch
        <3>2. CASE DegradeExhausted(p)
            BY <3>2 DEF DegradeExhausted, IssuingTypeOK
        <3> QED BY <2>1, <3>1, <3>2
                DEF TickStep, SaveRead, SaveInsert, Pending, FindByTag, CreateAnswered,
                    CreateUnknown, CreateRefused, ReadCounter, DeadlockVictim, WriteOutcome,
                    SettleCount, Database
    <2>2. ASSUME NEW p \in Reconcilers, ReconcileStep(p), ~SettleWrite(p)
          PROVE  batch' = batch
        BY <2>2 DEF ReconcileStep, Unknown, LookUp, LookUpRefused, ReadCounter, DeadlockVictim,
                    Reconcile, SettleCount, Database
    <2>3. CASE Environment \/ Clock \/ UNCHANGED vars
        BY <2>3, CreditLeaves DEF Environment, Arrive, Crash, Clock, Database, vars
    <2> QED BY <2>1, <2>2, <2>3 DEF Next, Processes
<1>2. CASE batch'.status = "completed" /\ \E p \in Processes : SettleWrite(p)
    <2>1. \A d \in Drafts : issued[d] > 0
        BY <1>2 DEF SettleWrite, SettlesWhatIsIssued, IssuingTypeOK
    <2> QED BY <2>1, IssuedGrows DEF CompletedMeansIssued
<1> QED BY <1>1, <1>2, IssuedGrows DEF CompletedMeansIssued

LEMMA IssuingInvKept == IssuingInv /\ [Next]_vars => IssuingInv'
    BY TypesKept, WritesKept, BindsKept, SettlesKept, BookedKept, CompletedKept DEF IssuingInv

LEMMA InitIssuingInv == Init => IssuingInv
<1> SUFFICES ASSUME Init PROVE IssuingInv
    OBVIOUS
<1>1. WritesWhatIsBooked /\ BindsWhatIsBooked /\ SettlesWhatIsIssued
    BY DEF Init, Idle, NoCredit, WritesWhatIsBooked, BindsWhatIsBooked, SettlesWhatIsIssued
<1>2. CreatedIsBooked /\ CompletedMeansIssued
    BY DEF Init, Absent, CreatedIsBooked, CompletedMeansIssued
<1> QED BY <1>1, <1>2, InitTyped DEF IssuingInv

\* The conjunction of the invariants is inductive: what a process or a request is about
\* to write is booked, a CREATED draft has a booked invoice, and a COMPLETED batch all of
\* them.
THEOREM IssuingInvHolds == Spec => []IssuingInv
    BY InitIssuingInv, IssuingInvKept, PTL DEF Spec

\* A batch is COMPLETED only when all of its invoices have been issued, whoever
\* settled it and however old the counts were.
THEOREM CompletedIsReal == Spec => []CompletedMeansIssued
<1>1. IssuingInv => CompletedMeansIssued
    BY DEF IssuingInv
<1> QED BY <1>1, IssuingInvHolds, PTL

-----------------------------------------------------------------------------
\* One invoice while nobody disturbs the tick that runs.

LEMMA HistoryIsNext == HistoryNext => Next
    BY DEF HistoryNext

\* No writer of a draft makes it untried again, although retry may write back an old
\* count, and a tick that writes an outcome leaves it tried.
LEMMA AttemptsGrow ==
    ASSUME IssuingTypeOK, [Next]_vars, NEW d \in Drafts
    PROVE  /\ drafts[d].attempts \in Nat /\ drafts'[d].attempts \in Nat
           /\ drafts[d].attempts > 0 => drafts'[d].attempts > 0
           /\ \A p \in Ticks : WriteOutcome(p) /\ Current(p).draft = d => drafts'[d].attempts > 0
<1> USE TypeSplit
<1>1. drafts \in [Drafts -> DraftRow] /\ drafts[d].attempts \in Nat
    BY DEF TablesOK, DraftRow
<1>2. drafts' \in [Drafts -> DraftRow] /\ drafts'[d].attempts \in Nat
  <2>1. TablesOK'
      BY TypesKept, TypeSplitNext
  <2> QED BY <2>1 DEF TablesOK, DraftRow
<1>3. ASSUME NEW p \in Ticks, SaveInsert(p)
      PROVE  drafts[d].attempts > 0 => drafts'[d].attempts > 0
  <2>1. drafts'[d] = drafts[d] \/ drafts[d] = Absent
      BY <1>3 DEF SaveInsert
  <2> QED BY <1>1, <1>2, <2>1 DEF Absent
<1>4. ASSUME NEW e \in Drafts, NEW status, NEW invoice, NEW t, Transition(e, status, invoice, t)
      PROVE  /\ e # d => drafts'[d].attempts = drafts[d].attempts
             /\ e = d => drafts'[d].attempts > 0
    BY <1>1, <1>4 DEF Transition, DraftRow
<1>5. ASSUME NEW x \in Selection, NEW seen \in Nat \cup {Null}, NEW t, Retry(x, seen, t)
      PROVE  /\ x.draft # d => drafts'[d].attempts = drafts[d].attempts
             /\ x.draft = d => drafts'[d].attempts > 0
  <2>1. seen \in Nat
      BY <1>5 DEF Retry
  <2>2. x.draft = d => drafts'[d].attempts = seen + 1
      BY <1>1, <1>5 DEF Retry, DraftRow
  <2> QED BY <1>1, <1>5, <2>1, <2>2 DEF Retry
<1>6. ASSUME NEW x \in Selection, NEW seen, NEW t, NotFound(x, seen, t)
      PROVE  drafts'[d].attempts = drafts[d].attempts
    BY <1>1, <1>6 DEF NotFound, DraftRow
<1>7. ASSUME NEW p \in Ticks, WriteOutcome(p)
      PROVE  /\ Current(p).draft # d => drafts'[d].attempts = drafts[d].attempts
             /\ Current(p).draft = d => drafts'[d].attempts > 0
  <2>1. /\ Current(p) \in Selection /\ Current(p).draft \in Drafts
        /\ proc[p].seen \in Nat \cup {Null}
      BY <1>7, CurrentTyped DEF WriteOutcome, Processes, ProcOK, Locals
  <2>2. \/ Retry(Current(p), proc[p].seen, proc[p].now)
        \/ Transition(Current(p).draft, proc[p].outcome, proc[p].invoice, proc[p].now)
      BY <1>7 DEF WriteOutcome
  <2> QED BY <1>4, <1>5, <2>1, <2>2
<1>8. ASSUME NEW p \in Reconcilers, Reconcile(p)
      PROVE  drafts[d].attempts > 0 => drafts'[d].attempts > 0
  <2>1. Current(p) \in Selection /\ Current(p).draft \in Drafts
      BY <1>8, CurrentTyped DEF Reconcile, Processes
  <2>2. \/ NotFound(Current(p), proc[p].seen, proc[p].now)
        \/ Transition(Current(p).draft, "created", proc[p].invoice, proc[p].now)
      BY <1>8 DEF Reconcile
  <2> QED BY <1>4, <1>6, <2>1, <2>2
<1>9. ASSUME NEW r \in Requests, BindDraft(r) PROVE drafts'[d].attempts = drafts[d].attempts
    BY <1>1, <1>9 DEF BindDraft, DraftRow
<1>10. drafts' = drafts => (drafts[d].attempts > 0 => drafts'[d].attempts > 0)
    OBVIOUS
<1>11. drafts[d].attempts > 0 => drafts'[d].attempts > 0
    BY <1>3, <1>7, <1>8, <1>9, <1>10, Writers
<1> QED BY <1>1, <1>2, <1>7, <1>11

\* A tick takes each draft once: it selects a draft once, and from then on only
\* takes drafts away.
LEMMA SelectedOnce ==
    ASSUME NEW status, NEW t
    PROVE  \A x, y \in Selected(status, t) : x.draft = y.draft => x = y
    BY DEF Selected

LEMMA TurnTakes ==
    ASSUME ProcOK, NEW p \in Processes, NEW todo, Turn(p, todo)
    PROVE  proc'[p].todo = todo
<1>1. proc[p] \in Locals /\ proc \in [Processes -> Locals]
    BY DEF ProcOK
<1> QED BY <1>1 DEF Turn, Local, Locals

LEMMA TodoAfter ==
    ASSUME IssuingTypeOK, NEW p \in Ticks, TickStep(p)
    PROVE  \/ proc'[p].todo \subseteq proc[p].todo
           \/ \A x, y \in proc'[p].todo : x.draft = y.draft => x = y
<1> USE TypeSplit
<1>1. /\ \A next : Local(p, next) => proc'[p] = next
      /\ p \in Processes /\ proc[p] \in Locals
    BY DEF Local, ProcOK, Processes
<1>2. Local(p, Idle) => proc'[p].todo = {}
    BY <1>1 DEF Idle
<1>3. CASE ClaimDueBatch(p) \/ DegradeExhausted(p)
    BY <1>1, <1>3 DEF ClaimDueBatch, DegradeExhausted, Idle
<1>4. CASE SaveRead(p)
  <2> DEFINE todo == {[draft |-> d, attempts |-> 0] : d \in {d \in Drafts : drafts[d] = Absent}}
  <2>1. proc'[p].todo = todo
      BY <1>1, <1>4 DEF SaveRead, Locals
  <2>2. \A x, y \in todo : x.draft = y.draft => x = y
      OBVIOUS
  <2> QED BY <2>1, <2>2
<1>5. CASE SaveInsert(p)
    BY <1>1, <1>2, <1>5 DEF SaveInsert, Locals
<1>6. CASE Pending(p)
    BY <1>1, <1>6, TurnTakes, SelectedOnce DEF Pending
<1>7. CASE FindByTag(p) \/ CreateAnswered(p) \/ CreateUnknown(p) \/ CreateRefused(p)
  <2>1. ASSUME NEW outcome, NEW invoice, Conclude(p, outcome, invoice)
        PROVE  proc'[p].todo = proc[p].todo
      BY <1>1, <2>1 DEF Conclude, Locals
  <2>2. Local(p, [proc[p] EXCEPT !.at = "create"]) => proc'[p].todo = proc[p].todo
      BY <1>1 DEF Locals
  <2> QED BY <1>7, <2>1, <2>2 DEF FindByTag, CreateAnswered, CreateUnknown, CreateRefused
<1>8. CASE WriteOutcome(p)
    BY <1>1, <1>8, TurnTakes DEF WriteOutcome
<1>9. CASE SettleCount(p) \/ SettleWrite(p)
    BY <1>1, <1>2, <1>9 DEF SettleCount, SettleWrite, Locals
<1>10. CASE ReadCounter(p) \/ DeadlockVictim(p)
    BY <1>1, <1>2, <1>10 DEF ReadCounter, DeadlockVictim, Locals
<1> QED BY <1>3, <1>4, <1>5, <1>6, <1>7, <1>8, <1>9, <1>10 DEF TickStep

LEMMA OnceKept == IssuingTypeOK /\ DraftsTakenOnce /\ [Next]_vars => DraftsTakenOnce'
<1> SUFFICES ASSUME IssuingTypeOK, DraftsTakenOnce, [Next]_vars,
                    NEW p \in Ticks, NEW x \in proc'[p].todo, NEW y \in proc'[p].todo,
                    x.draft = y.draft
             PROVE  x = y
    BY DEF DraftsTakenOnce
<1>0. p \in Processes /\ ProcOK
    BY TypeSplit DEF Processes
<1>1. CASE proc'[p] = proc[p]
    BY <1>1 DEF DraftsTakenOnce
<1>2. CASE TickStep(p)
    BY <1>2, TodoAfter DEF DraftsTakenOnce
<1>3. ASSUME NEW q \in Processes \ {p}, TickStep(q) \/ ReconcileStep(q) PROVE x = y
    BY <1>0, <1>1, <1>3, OthersKept
<1>4. ASSUME NEW q \in Processes, Crash(q) PROVE x = y
  <2>1. proc'[p] = proc[p] \/ proc'[p] = Idle
      BY <1>0, <1>4 DEF Crash, Local, ProcOK
  <2> QED BY <1>1, <2>1 DEF Idle
<1>5. CASE (\E r \in Requests : CreditStep(r)) \/ (\E d \in Drafts : Arrive(d)) \/ Clock
           \/ UNCHANGED vars
    BY <1>1, <1>5, CreditLeaves DEF Arrive, Clock, Database, vars
<1>6. p \notin Reconcilers
    BY ProcessesAssumption
<1> QED BY <1>2, <1>3, <1>4, <1>5, <1>6 DEF Next, Environment, Processes

\* What HistoryInv says while nothing has disturbed the ticks.
Undisturbed == /\ InvoicesLeaveTraces /\ UntriedStaysUntried /\ CreatesTheFirst
               /\ \A d \in Drafts : issued[d] <= 1

\* Steps that book nothing, and take no tick to the provider nor away from its write.
LEMMA CalmStep ==
    ASSUME IssuingTypeOK, Undisturbed, [Next]_vars, issued' = issued,
           \A p \in Ticks :
               \/ proc'[p].at = proc[p].at /\ proc'[p].todo = proc[p].todo
               \/ proc'[p].at \notin Working /\ proc[p].at # "write"
    PROVE  Undisturbed'
<1>1. \A p \in Ticks :
         proc'[p].at \in Working => /\ proc'[p].at = proc[p].at /\ proc'[p].todo = proc[p].todo
                                   /\ Current(p)' = Current(p)
    BY DEF Current
<1>2. InvoicesLeaveTraces'
  <2> SUFFICES ASSUME NEW d \in Drafts, issued[d] > 0, ~(drafts'[d].attempts > 0)
               PROVE  \E p \in Ticks : proc'[p].at = "write" /\ Current(p)'.draft = d
      BY DEF InvoicesLeaveTraces
  <2>1. ~(drafts[d].attempts > 0)
      BY AttemptsGrow
  <2>2. PICK p \in Ticks : proc[p].at = "write" /\ Current(p).draft = d
      BY <2>1 DEF Undisturbed, InvoicesLeaveTraces
  <2> QED BY <1>1, <2>2 DEF Working
<1>3. UntriedStaysUntried'
    BY <1>1 DEF Undisturbed, UntriedStaysUntried
<1>4. CreatesTheFirst'
    BY <1>1 DEF Undisturbed, CreatesTheFirst, Working
<1> QED BY <1>2, <1>3, <1>4 DEF Undisturbed

\* While nobody disturbs them, a tick that runs is the only one.
LEMMA OthersIdle ==
    ASSUME ~Disturbance, NEW p \in Ticks, proc[p].at # "idle", NEW q \in Ticks, q # p
    PROVE  proc[q].at = "idle"
    BY DEF Disturbance, Runs

\* A step of the tick p that runs: it is enough to look at p.
LEMMA AloneIsEnough ==
    ASSUME IssuingTypeOK, NEW p \in Ticks, TickStep(p), ~Disturbance, proc[p].at # "idle",
           \A d \in Drafts : issued'[d] > 0 =>
               \/ drafts'[d].attempts > 0
               \/ proc'[p].at = "write" /\ Current(p)'.draft = d,
           proc'[p].at \in Working =>
               \A x \in proc'[p].todo : x # Current(p)' /\ x.attempts = 0 => issued'[x.draft] = 0,
           proc'[p].at = "create" => issued'[Current(p)'.draft] = 0,
           \A d \in Drafts : issued'[d] <= 1
    PROVE  Undisturbed'
<1>1. \A q \in Ticks : q # p => proc'[q].at = "idle"
    BY TypeSplit, OthersKept, OthersIdle DEF Processes
<1>2. InvoicesLeaveTraces'
    BY DEF InvoicesLeaveTraces
<1>3. UntriedStaysUntried'
    BY <1>1 DEF UntriedStaysUntried, Working
<1>4. CreatesTheFirst'
    BY <1>1 DEF CreatesTheFirst
<1> QED BY <1>2, <1>3, <1>4 DEF Undisturbed

\* The drafts that the tick goes on with: the next one is created without a look
\* only if it was read as untried.
LEMMA TurnGives ==
    ASSUME ProcOK, NEW p \in Ticks, NEW todo \in SUBSET Selection, Turn(p, todo)
    PROVE  /\ proc'[p].todo = todo /\ Current(p)' = First(todo)
           /\ proc'[p].at \in {"count", "find", "create"}
           /\ proc'[p].at = "create" => todo # {} /\ First(todo).attempts = 0
<1>1. /\ proc[p] \in Locals /\ p \notin Reconcilers /\ p \in Processes
      /\ proc \in [Processes -> Locals]
    BY ProcessesAssumption DEF ProcOK, Processes
<1>2. proc'[p].todo = todo
    BY <1>1, TurnTakes
<1>3. proc'[p].at = IF todo = {} THEN "count"
                    ELSE IF First(todo).attempts > 0 THEN "find" ELSE "create"
    BY <1>1 DEF Turn, Local, Locals
<1>4. todo # {} => First(todo).attempts \in Nat
    BY FirstSelected DEF Selection
<1> QED BY <1>2, <1>3, <1>4 DEF Current

LEMMA ConcludeGives ==
    ASSUME ProcOK, NEW p \in Ticks, NEW outcome, NEW invoice, Conclude(p, outcome, invoice)
    PROVE  proc'[p].at = "write" /\ proc'[p].todo = proc[p].todo /\ Current(p)' = Current(p)
<1>1. proc[p] \in Locals /\ p \in Processes /\ proc \in [Processes -> Locals]
    BY DEF ProcOK, Processes
<1>2. proc'[p].at = "write" /\ proc'[p].todo = proc[p].todo
    BY <1>1 DEF Conclude, Local, Locals
<1> QED BY <1>2 DEF Current

\* A draft that is selected as untried has no invoice yet.
LEMMA PendingKeeps ==
    ASSUME IssuingTypeOK, Undisturbed, ~Disturbance, NEW p \in Ticks, Pending(p)
    PROVE  Undisturbed'
<1> USE TypeSplit
<1> DEFINE todo == Selected("pending", proc[p].now)
<1>1. /\ proc[p].at = "pending" /\ Turn(p, todo) /\ drafts' = drafts /\ issued' = issued
    BY DEF Pending, Database, Outside
<1>2. todo \in SUBSET Selection /\ TickStep(p)
    BY SelectedTyped DEF TickStep
<1>3. \A x \in todo : x.draft \in Drafts /\ x.attempts = drafts[x.draft].attempts
    BY DEF Selected
<1> HIDE DEF todo
<1>4. \A q \in Ticks : proc[q].at # "write"
    BY <1>1, OthersIdle
<1>5. \A d \in Drafts : issued[d] \in Nat /\ drafts[d].attempts \in Nat
    BY DEF TablesOK, DraftRow
<1>6. \A d \in Drafts : issued[d] > 0 => drafts[d].attempts > 0
    BY <1>4 DEF Undisturbed, InvoicesLeaveTraces
<1>7. \A x \in todo : x.attempts = 0 => issued[x.draft] = 0
  <2> SUFFICES ASSUME NEW x \in todo, x.attempts = 0 PROVE issued[x.draft] = 0
      OBVIOUS
  <2>1. x.draft \in Drafts /\ drafts[x.draft].attempts = 0
      BY <1>3
  <2>2. issued[x.draft] \in Nat /\ ~(issued[x.draft] > 0)
      BY <1>6, <2>1, <1>5
  <2> QED BY <2>2
<1>8. /\ proc'[p].todo = todo /\ Current(p)' = First(todo)
      /\ proc'[p].at = "create" => todo # {} /\ First(todo).attempts = 0
    BY <1>1, <1>2, TurnGives
<1>9. todo # {} => First(todo) \in todo
    BY <1>2, FirstSelected
<1>10. \A d \in Drafts : issued[d] <= 1
    BY DEF Undisturbed
<1> QED BY <1>1, <1>2, <1>6, <1>7, <1>8, <1>9, <1>10, AloneIsEnough

\* The lookup of a draft that was tried before.
LEMMA FindKeeps ==
    ASSUME IssuingTypeOK, Undisturbed, ~Disturbance, NEW p \in Ticks, FindByTag(p)
    PROVE  Undisturbed'
<1> USE TypeSplit
<1> DEFINE d == Current(p).draft
<1>1. /\ proc[p].at = "find" /\ drafts' = drafts /\ issued' = issued /\ TickStep(p)
      /\ p \in Processes /\ proc[p] \in Locals /\ proc \in [Processes -> Locals]
    BY DEF FindByTag, Database, Outside, TickStep, Processes, ProcOK
<1>2. \/ issued[d] = 0 /\ Local(p, [proc[p] EXCEPT !.at = "create"])
      \/ \E outcome, invoice : Conclude(p, outcome, invoice)
    BY DEF FindByTag
<1>3. Local(p, [proc[p] EXCEPT !.at = "create"])
      => proc'[p].at = "create" /\ proc'[p].todo = proc[p].todo
    BY <1>1 DEF Local, Locals
<1>4. /\ proc'[p].todo = proc[p].todo /\ Current(p)' = Current(p)
      /\ proc'[p].at = "create" => issued[d] = 0
    BY <1>2, <1>3, ConcludeGives DEF Current
<1>5. \A e \in Drafts : issued[e] > 0 => drafts[e].attempts > 0
  <2>1. \A q \in Ticks : proc[q].at # "write"
      BY <1>1, OthersIdle
  <2> QED BY <2>1 DEF Undisturbed, InvoicesLeaveTraces
<1>6. \A x \in proc[p].todo : x # Current(p) /\ x.attempts = 0 => issued[x.draft] = 0
    BY <1>1 DEF Undisturbed, UntriedStaysUntried, Working
<1>7. \A e \in Drafts : issued[e] <= 1
    BY DEF Undisturbed
<1> QED BY <1>1, <1>4, <1>5, <1>6, <1>7, AloneIsEnough

\* The request of a draft without an invoice: the tick is about to write its trace.
LEMMA CreateKeeps ==
    ASSUME IssuingTypeOK, Undisturbed, ~Disturbance, DraftsTakenOnce, NEW p \in Ticks,
           CreateAnswered(p) \/ CreateUnknown(p) \/ CreateRefused(p)
    PROVE  Undisturbed'
<1> USE TypeSplit
<1> DEFINE d == Current(p).draft
<1>1. /\ proc[p].at = "create" /\ drafts' = drafts
      /\ issued' \in {issued, [issued EXCEPT ![d] = @ + 1]}
      /\ \E outcome, invoice : Conclude(p, outcome, invoice)
    BY DEF CreateAnswered, CreateUnknown, CreateRefused, Database, Outside, Provider
<1>2. TickStep(p) /\ p \in Processes /\ proc[p].todo \in SUBSET Selection /\ proc[p].todo # {}
    BY <1>1 DEF TickStep, Processes, ProcOK, LocalOK, Locals
<1>3. proc'[p].at = "write" /\ proc'[p].todo = proc[p].todo /\ Current(p)' = Current(p)
    BY <1>1, ConcludeGives
<1>4. Current(p) \in proc[p].todo /\ d \in Drafts
    BY <1>2, FirstSelected DEF Current, Selection
<1>5. issued[d] = 0 /\ issued \in [Drafts -> Nat]
    BY <1>1 DEF Undisturbed, CreatesTheFirst, TablesOK
<1>6. /\ issued'[d] \in {0, 1}
      /\ \A e \in Drafts : e # d => issued'[e] = issued[e]
    BY <1>1, <1>4, <1>5
<1>7. \A e \in Drafts : issued'[e] <= 1
    BY <1>6 DEF Undisturbed
<1>8. \A e \in Drafts : issued'[e] > 0 => drafts'[e].attempts > 0 \/ Current(p)'.draft = e
  <2>1. \A q \in Ticks : proc[q].at # "write"
      BY <1>1, OthersIdle
  <2> QED BY <1>1, <1>3, <1>6, <2>1 DEF Undisturbed, InvoicesLeaveTraces
<1>9. \A x \in proc[p].todo : x # Current(p) /\ x.attempts = 0 => issued'[x.draft] = 0
  <2> SUFFICES ASSUME NEW x \in proc[p].todo, x # Current(p), x.attempts = 0
               PROVE  issued'[x.draft] = 0
      OBVIOUS
  <2>1. x.draft # d /\ x.draft \in Drafts
      BY <1>2, <1>4 DEF DraftsTakenOnce, Selection
  <2>2. issued[x.draft] = 0
      BY <1>1 DEF Undisturbed, UntriedStaysUntried, Working
  <2> QED BY <1>6, <2>1, <2>2
<1> QED BY <1>1, <1>2, <1>3, <1>7, <1>8, <1>9, AloneIsEnough

\* The write of the outcome leaves a trace of what was booked.
LEMMA WriteKeeps ==
    ASSUME IssuingTypeOK, Undisturbed, ~Disturbance, NEW p \in Ticks, WriteOutcome(p)
    PROVE  Undisturbed'
<1> USE TypeSplit
<1> DEFINE rest == proc[p].todo \ {Current(p)}
<1>1. /\ proc[p].at = "write" /\ issued' = issued /\ Turn(p, rest) /\ TickStep(p)
      /\ p \in Processes /\ [Next]_vars
    BY DEF WriteOutcome, Outside, TickStep, Processes, Next
<1>2. rest \in SUBSET Selection
    BY <1>1 DEF ProcOK, Locals
<1>3. \A x \in rest : x.attempts = 0 => issued[x.draft] = 0
    BY <1>1 DEF Undisturbed, UntriedStaysUntried, Working
<1> HIDE DEF rest
<1>4. /\ proc'[p].todo = rest /\ Current(p)' = First(rest)
      /\ proc'[p].at = "create" => rest # {} /\ First(rest).attempts = 0
    BY <1>1, <1>2, TurnGives
<1>5. rest # {} => First(rest) \in rest
    BY <1>2, FirstSelected
<1>6. \A d \in Drafts : issued[d] > 0 => drafts'[d].attempts > 0
  <2> SUFFICES ASSUME NEW d \in Drafts, issued[d] > 0 PROVE drafts'[d].attempts > 0
      OBVIOUS
  <2>1. drafts[d].attempts > 0 \/ Current(p).draft = d
    <3>1. \A q \in Ticks : q # p => proc[q].at # "write"
        BY <1>1, OthersIdle
    <3> QED BY <3>1 DEF Undisturbed, InvoicesLeaveTraces
  <2> QED BY <1>1, <2>1, AttemptsGrow
<1>7. \A d \in Drafts : issued[d] <= 1
    BY DEF Undisturbed
<1> QED BY <1>1, <1>3, <1>4, <1>5, <1>6, <1>7, AloneIsEnough

\* The steps of a tick that have to do with no draft.
LEMMA OtherTickSteps ==
    ASSUME IssuingTypeOK, Undisturbed, NEW p \in Ticks,
           \/ ClaimDueBatch(p) \/ DegradeExhausted(p) \/ SaveRead(p) \/ SaveInsert(p)
           \/ ReadCounter(p) \/ SettleCount(p) \/ SettleWrite(p)
    PROVE  Undisturbed'
<1> USE TypeSplit
<1>1. /\ \A next : Local(p, next) => proc'[p] = next
      /\ p \in Processes /\ proc[p] \in Locals
    BY DEF Local, ProcOK, Processes
<1>2. issued' = issued /\ TickStep(p) /\ [Next]_vars
    BY DEF ClaimDueBatch, DegradeExhausted, SaveRead, SaveInsert, ReadCounter, SettleCount,
           SettleWrite, Outside, TickStep, Next
<1>3. \/ proc'[p].at = proc[p].at /\ proc'[p].todo = proc[p].todo
      \/ proc[p].at # "write" /\ proc'[p].at \notin Working
  <2>1. Idle.at \notin Working
      BY DEF Idle, Working
  <2>2. CASE ClaimDueBatch(p) \/ DegradeExhausted(p)
      BY <1>1, <2>2 DEF ClaimDueBatch, DegradeExhausted, Idle, Working
  <2>3. CASE SaveRead(p)
      BY <1>1, <2>3 DEF SaveRead, Locals, Working
  <2>4. CASE SaveInsert(p)
      BY <1>1, <2>1, <2>4 DEF SaveInsert, Locals, Working
  <2>5. CASE SettleCount(p) \/ SettleWrite(p)
      BY <1>1, <2>1, <2>5 DEF SettleCount, SettleWrite, Locals, Working
  <2>6. CASE ReadCounter(p)
      BY <1>1, <2>6 DEF ReadCounter, Locals
  <2> QED BY <2>2, <2>3, <2>4, <2>5, <2>6
<1>4. \A q \in Ticks : q # p => proc'[q] = proc[q]
    BY <1>1, <1>2, OthersKept DEF Processes
<1> QED BY <1>2, <1>3, <1>4, CalmStep

LEMMA UndisturbedKept ==
    ASSUME IssuingTypeOK, DraftsTakenOnce, Undisturbed, [Next]_vars,
           ~Disturbance, ~Disturbance', ~GivesUp
    PROVE  Undisturbed'
<1> USE TypeSplit
<1>1. ASSUME NEW p \in Ticks, TickStep(p) PROVE Undisturbed'
    BY <1>1, PendingKeeps, FindKeeps, CreateKeeps, WriteKeeps, OtherTickSteps DEF TickStep, GivesUp
<1>2. ASSUME NEW p \in Reconcilers, ReconcileStep(p) PROVE Undisturbed'
  <2>1. issued' = issued
      BY <1>2 DEF ReconcileStep, Unknown, LookUp, LookUpRefused, ReadCounter, DeadlockVictim,
                  Reconcile, SettleCount, SettleWrite, Outside
  <2>2. \A q \in Ticks : proc'[q] = proc[q]
      BY <1>2, OthersKept, ProcessesAssumption DEF Processes
  <2> QED BY <2>1, <2>2, CalmStep
<1>3. ASSUME NEW r \in Requests, CreditStep(r) PROVE Undisturbed'
    BY <1>3, CreditLeaves, CalmStep
<1>4. ASSUME NEW d \in Drafts, Arrive(d) PROVE FALSE
    BY <1>4 DEF Arrive, Disturbance
<1>5. ASSUME NEW p \in Processes, Crash(p) PROVE FALSE
    BY <1>5 DEF Crash, Disturbance, TablesOK
<1>6. CASE Clock \/ UNCHANGED vars
    BY <1>6, CalmStep DEF Clock, Provider, vars
<1> QED BY <1>1, <1>2, <1>3, <1>4, <1>5, <1>6 DEF Next, Environment

-----------------------------------------------------------------------------
\* Draft and owner agree.

\* What ReadIsTrue says of one request.
ReadIsTrueOf(r) ==
    LET id == credit[r].invoice
        bound == credit[r].bound
    IN  /\ credit[r].at = "tag" /\ r \notin overtaken => owner[id[1]] # id
        /\ credit[r].at = "owner" /\ r \notin overtaken => owner[id[1]] = Null
        /\ credit[r].at = "draft" /\ ~bound /\ r \notin overtaken => owner[id[1]] = id
        /\ bound => credit[r].at = "draft" /\ owner[id[1]] = Null

LEMMA ReadIsTrueSplit == ReadIsTrue <=> \A r \in Requests : ReadIsTrueOf(r)
    BY DEF ReadIsTrue, ReadIsTrueOf

LEMMA ReadIsTrueSplitNext == ReadIsTrue' <=> \A r \in Requests : ReadIsTrueOf(r)'
    BY DEF ReadIsTrue, ReadIsTrueOf

\* A request that takes no step goes on with what it has read, or is overtaken.
LEMMA ReadStays ==
    ASSUME Remember, NEW r \in Requests, ReadIsTrueOf(r), credit'[r] = credit[r],
           credit[r].bound => owner'[credit[r].invoice[1]] = owner[credit[r].invoice[1]]
    PROVE  ReadIsTrueOf(r)'
<1>1. credit[r].at # "idle" /\ r \notin overtaken'
      => r \notin overtaken /\ owner'[credit[r].invoice[1]] = owner[credit[r].invoice[1]]
    BY DEF Remember, Written
<1> QED BY <1>1 DEF ReadIsTrueOf

\* What a step that is no request's writes of a draft and of its owner.
LEMMA ProcessWrites ==
    ASSUME IssuingTypeOK, [Next]_vars, ~(\E r \in Requests : CreditStep(r)), NEW d \in Drafts
    PROVE  \/ owner'[d] = owner[d] /\ (drafts'[d] = drafts[d] \/ drafts'[d].status # "created")
           \/ owner'[d] = drafts'[d].invoice /\ ~OwnerHeld(d)
<1> USE TypeSplit
<1>0. drafts \in [Drafts -> DraftRow] /\ owner \in [Drafts -> InvoiceIds \cup {Null}]
    BY DEF TablesOK
<1>1. ASSUME NEW p \in Ticks, SaveInsert(p)
      PROVE  owner'[d] = owner[d] /\ (drafts'[d] = drafts[d] \/ drafts'[d].status # "created")
    BY <1>0, <1>1 DEF SaveInsert, Absent
<1>2. ASSUME NEW p \in Processes,
             (p \in Ticks /\ WriteOutcome(p)) \/ (p \in Reconcilers /\ Reconcile(p))
      PROVE  \/ owner'[d] = owner[d] /\ (drafts'[d] = drafts[d] \/ drafts'[d].status # "created")
             \/ owner'[d] = drafts'[d].invoice /\ ~OwnerHeld(d)
  <2> DEFINE e == Current(p).draft
  <2>1. ASSUME NEW status, Transition(e, status, proc[p].invoice, proc[p].now)
        PROVE  IF d = e THEN owner'[d] = drafts'[d].invoice /\ ~OwnerHeld(d)
               ELSE owner'[d] = owner[d] /\ drafts'[d] = drafts[d]
      BY <1>0, <2>1 DEF Transition
  <2> HIDE DEF e
  <2>2. \/ /\ owner' = owner /\ drafts'[e].status # "created"
           /\ \A f \in Drafts \ {e} : drafts'[f] = drafts[f]
        \/ \E status : Transition(e, status, proc[p].invoice, proc[p].now)
      BY <1>2, WriteIs DEF e
  <2> QED BY <2>1, <2>2
<1>3. ~(\E r \in Requests : BindDraft(r))
    BY DEF CreditStep
<1> QED BY <1>1, <1>2, <1>3, Writers DEF Processes

LEMMA ReadsKept ==
    ASSUME IssuingTypeOK, BindsWhatIsBooked, ReadIsTrue, OneHolds, [Next]_vars, Remember
    PROVE  ReadIsTrue' /\ OneHolds'
<1> USE TypeSplit
<1>0. credit \in [Requests -> Transactions] /\ \A r \in Requests : ReadIsTrueOf(r)
    BY ReadIsTrueSplit DEF TablesOK
<1>1. CASE ~(\E q \in Requests : CreditStep(q))
  <2>1. credit' = credit
      BY <1>1, CreditKept
  <2>2. ASSUME NEW r \in Requests, credit[r].bound
        PROVE  owner'[credit[r].invoice[1]] = owner[credit[r].invoice[1]]
    <3>1. credit[r].at # "idle"
        BY <1>0, <2>2 DEF ReadIsTrueOf
    <3>2. credit[r].invoice[1] \in Drafts
        BY <3>1 DEF BindsWhatIsBooked
    <3>3. OwnerHeld(credit[r].invoice[1])
        BY <2>2 DEF OwnerHeld
    <3> QED BY <1>1, <3>2, <3>3, ProcessWrites
  <2>3. ReadIsTrue'
      BY <1>0, <2>1, <2>2, ReadStays, ReadIsTrueSplitNext
  <2> QED BY <2>1, <2>3 DEF OneHolds
<1>2. ASSUME NEW q \in Requests, CreditStep(q), ~BindDraft(q)
      PROVE  ReadIsTrue' /\ OneHolds'
  <2>1. owner' = owner /\ drafts' = drafts
      BY <1>2, CreditLeaves
  <2>2. \A next : Credit(q, next) => /\ credit'[q] = next
                                     /\ \A r \in Requests \ {q} : credit'[r] = credit[r]
      BY <1>0 DEF Credit
  <2>3. /\ \A r \in Requests \ {q} : credit'[r] = credit[r]
        /\ credit'[q].bound => /\ \/ credit[q].bound
                                  \/ BindOwner(q) /\ ~OwnerHeld(credit[q].invoice[1])
                               /\ credit'[q].invoice = credit[q].invoice
        /\ ReadIsTrueOf(q)'
    <3>1. credit[q].at # "idle" /\ credit'[q].at # "idle" /\ q \notin overtaken'
          => q \notin overtaken
        BY DEF Remember
    <3>2. credit[q] \in Transactions /\ ReadIsTrueOf(q)
        BY <1>0
    <3>3. CASE FindOwnerById(q)
      <4>1. PICK d \in Drafts : \E n \in 1 .. issued[d] :
                /\ credit'[q].invoice = <<d, n>> /\ credit'[q].bound = FALSE
                /\ credit'[q].at \in {"draft", "tag"}
                /\ credit'[q].at = "draft" <=> owner[d] = <<d, n>>
                /\ Credit(q, credit'[q])
          BY <3>3, Finds
      <4>2. /\ credit'[q].at \in {"draft", "tag"}
            /\ credit'[q].at = "draft"
               <=> owner[credit'[q].invoice[1]] = credit'[q].invoice
          BY <4>1
      <4> QED BY <2>1, <2>2, <4>1, <4>2 DEF ReadIsTrueOf
    <3>4. CASE FindOwnerByTag(q)
      <4>1. credit[q].at = "tag" /\ ~credit[q].bound
          BY <3>2, <3>4 DEF FindOwnerByTag, ReadIsTrueOf
      <4>2. CASE owner[credit[q].invoice[1]] \in {Null, credit[q].invoice}
        <5>1. Credit(q, [credit[q] EXCEPT !.at = "owner"])
            BY <3>4, <4>2 DEF FindOwnerByTag
        <5>2. /\ credit'[q].at = "owner" /\ credit'[q].invoice = credit[q].invoice
              /\ credit'[q].bound = credit[q].bound
            BY <2>2, <3>2, <5>1 DEF Transactions
        <5> QED BY <2>1, <2>2, <3>1, <3>2, <4>1, <4>2, <5>1, <5>2 DEF ReadIsTrueOf
      <4>3. CASE owner[credit[q].invoice[1]] \notin {Null, credit[q].invoice}
        <5>1. Credit(q, NoCredit)
            BY <3>4, <4>3 DEF FindOwnerByTag
        <5> QED BY <2>2, <5>1 DEF NoCredit, ReadIsTrueOf
      <4> QED BY <4>2, <4>3
    <3>5. CASE BindOwner(q)
      <4> DEFINE d == credit[q].invoice[1]
                 free == owner[d] = Null
      <4>1. /\ credit[q].at = "owner" /\ (free => ~OwnerHeld(d))
            /\ Credit(q, [credit[q] EXCEPT !.at = "draft", !.bound = free])
          BY <3>5 DEF BindOwner
      <4>2. free \in BOOLEAN
          OBVIOUS
      <4> DEFINE next == [credit[q] EXCEPT !.at = "draft", !.bound = free]
      <4>6. credit'[q] = next
          BY <2>2, <4>1
      <4>7. next.at = "draft" /\ next.invoice = credit[q].invoice /\ next.bound = free
          BY <3>2 DEF Transactions
      <4> HIDE DEF free, next
      <4>3. /\ credit'[q].at = "draft" /\ credit'[q].invoice = credit[q].invoice
            /\ credit'[q].bound = free
          BY <4>6, <4>7
      <4>4. ~free => q \in overtaken'
          BY <3>1, <3>2, <4>1, <4>3 DEF ReadIsTrueOf, free
      <4>5. ReadIsTrueOf(q)'
          BY <2>1, <4>3, <4>4 DEF ReadIsTrueOf, free
      <4> QED BY <2>2, <3>5, <4>1, <4>3, <4>5
    <3>6. CASE RollbackCredit(q)
        BY <2>2, <3>6 DEF RollbackCredit, NoCredit, ReadIsTrueOf
    <3> QED BY <1>2, <3>3, <3>4, <3>5, <3>6 DEF CreditStep
  <2>4. ReadIsTrue'
      BY <1>0, <2>1, <2>3, ReadStays, ReadIsTrueSplitNext
  <2>5. OneHolds'
    <3> SUFFICES ASSUME NEW r \in Requests, NEW s \in Requests, r # s,
                        credit'[r].bound, credit'[s].bound,
                        credit'[r].invoice[1] = credit'[s].invoice[1]
                 PROVE  FALSE
        BY DEF OneHolds
    <3>1. CASE r # q /\ s # q
        BY <2>3, <3>1 DEF OneHolds
    <3>2. ASSUME NEW t \in Requests \ {q}, credit'[t].bound, credit'[q].bound,
                 credit'[t].invoice[1] = credit'[q].invoice[1]
          PROVE  FALSE
      <4>1. credit[t].bound /\ credit[t].invoice[1] = credit[q].invoice[1]
          BY <2>3, <3>2
      <4>2. OwnerHeld(credit[q].invoice[1])
          BY <4>1 DEF OwnerHeld
      <4> QED BY <2>3, <3>2, <4>1, <4>2 DEF OneHolds
    <3> QED BY <3>1, <3>2
  <2> QED BY <2>4, <2>5
<1>3. ASSUME NEW q \in Requests, BindDraft(q) PROVE ReadIsTrue' /\ OneHolds'
  <2>1. PICK d \in Drafts : /\ credit[q].invoice[1] = d
                            /\ \A e \in Drafts \ {d} : owner'[e] = owner[e]
                            /\ ~credit[q].bound => owner'[d] = owner[d]
                            /\ credit' = [credit EXCEPT ![q] = NoCredit]
    <3>1. PICK d \in Drafts : \E n \in 1 .. issued[d] :
              /\ credit[q].invoice[1] = d
              /\ \A e \in Drafts \ {d} : owner'[e] = owner[e]
              /\ owner'[d] = IF credit[q].bound THEN <<d, n>> ELSE owner[d]
              /\ credit' = [credit EXCEPT ![q] = NoCredit]
        BY <1>3, BindDraftWrites
    <3> QED BY <3>1
  <2>2. /\ credit'[q] = NoCredit
        /\ \A r \in Requests \ {q} : credit'[r] = credit[r]
      BY <1>0, <2>1
  <2>3. ASSUME NEW r \in Requests \ {q}, credit[r].bound
        PROVE  owner'[credit[r].invoice[1]] = owner[credit[r].invoice[1]]
    <3>1. credit[r].at # "idle"
        BY <1>0, <2>3 DEF ReadIsTrueOf
    <3>2. credit[r].invoice[1] \in Drafts
        BY <3>1 DEF BindsWhatIsBooked
    <3> QED BY <2>1, <2>3, <3>2 DEF OneHolds
  <2>4. ReadIsTrueOf(q)'
      BY <2>2 DEF NoCredit, ReadIsTrueOf
  <2>5. ReadIsTrue'
      BY <1>0, <2>2, <2>3, <2>4, ReadStays, ReadIsTrueSplitNext
  <2>6. OneHolds'
      BY <2>2 DEF NoCredit, OneHolds
  <2> QED BY <2>5, <2>6
<1> QED BY <1>1, <1>2, <1>3

LEMMA OwnedKept ==
    ASSUME IssuingTypeOK, WritesWhatIsBooked, BindsWhatIsBooked, CreatedIsBooked,
           ReadIsTrue, CreatedIsOwned, [Next]_vars, Remember
    PROVE  CreatedIsOwned'
<1> SUFFICES ASSUME NEW d \in Drafts, drafts'[d].status = "created", d \notin torn'
             PROVE  owner'[d] = drafts'[d].invoice
    BY BookedKept DEF CreatedIsOwned, CreatedIsBooked
<1> USE TypeSplit
<1>1. /\ drafts'[d] = drafts[d] => d \notin torn
      /\ drafts'[d] # drafts[d] => \A r \in Requests : BindDraft(r) => ~Overtakes(r)
    BY DEF Remember
<1>2. drafts'[d] = drafts[d] => owner[d] = drafts[d].invoice /\ owner[d] # Null
  <2> SUFFICES ASSUME drafts'[d] = drafts[d]
               PROVE  owner[d] = drafts[d].invoice /\ owner[d] # Null
      OBVIOUS
  <2>1. PICK n \in 1 .. issued[d] : drafts[d].invoice = <<d, n>>
      BY DEF CreatedIsOwned
  <2>2. <<d, n>> \in InvoiceIds
      BY InvoiceIdTyped
  <2> QED BY <1>1, <2>1, <2>2, NullAssumption DEF CreatedIsOwned, InvoiceIds
<1>3. CASE ~(\E r \in Requests : CreditStep(r))
    BY <1>2, <1>3, ProcessWrites
<1>4. ASSUME NEW r \in Requests, CreditStep(r), ~BindDraft(r) PROVE owner'[d] = drafts'[d].invoice
    BY <1>2, <1>4, CreditLeaves
<1>5. ASSUME NEW r \in Requests, BindDraft(r) PROVE owner'[d] = drafts'[d].invoice
  <2> DEFINE Writes(e, n) ==
                 /\ credit[r].at = "draft" /\ credit[r].invoice = <<e, n>>
                 /\ credit[r].invoice[1] = e
                 /\ \A f \in Drafts \ {e} : drafts'[f] = drafts[f] /\ owner'[f] = owner[f]
                 /\ owner'[e] = IF credit[r].bound THEN <<e, n>> ELSE owner[e]
                 /\ drafts'[e].invoice = <<e, n>> \/ drafts'[e] = drafts[e]
  <2>0. PICK e \in Drafts : \E n \in 1 .. issued[e] : Writes(e, n)
      BY <1>5, BindDraftWrites
  <2>1. PICK n \in 1 .. issued[e] : Writes(e, n)
      BY <2>0
  <2>2. /\ credit[r].bound => owner[e] = Null
        /\ ~credit[r].bound /\ r \notin overtaken => owner[e] = <<e, n>>
      BY <2>1 DEF ReadIsTrue
  <2>3. CASE drafts'[d] = drafts[d]
      BY <1>2, <2>1, <2>2, <2>3
  <2>4. CASE drafts'[d] # drafts[d]
    <3>1. d = e /\ drafts'[d].invoice = <<e, n>>
        BY <2>1, <2>4
    <3>2. credit[r].bound \/ r \notin overtaken
        BY <1>1, <1>5, <2>4 DEF Overtakes
    <3> QED BY <2>1, <2>2, <3>1, <3>2
  <2> QED BY <2>3, <2>4
<1> QED BY <1>3, <1>4, <1>5

-----------------------------------------------------------------------------
\* The invariant of the history.

LEMMA InitHistory == HistoryInit => HistoryInv
<1> SUFFICES ASSUME HistoryInit PROVE HistoryInv
    OBVIOUS
<1>1. /\ crashes = 0 /\ \A d \in Drafts : issued[d] = 0 /\ late[d] = 0
      /\ \A p \in Ticks : proc[p].at = "idle" /\ proc[p].todo = {}
      /\ \A r \in Requests : credit[r] = NoCredit
      /\ \A d \in Drafts : drafts[d].status = "absent"
    BY DEF HistoryInit, Init, Idle, Absent, Processes
<1>2. DraftsTakenOnce
    BY <1>1 DEF DraftsTakenOnce
<1>3. ReadIsTrue /\ OneHolds /\ CreatedIsOwned
    BY <1>1 DEF ReadIsTrue, OneHolds, CreatedIsOwned, NoCredit
<1>4. /\ ~Disturbance
      /\ InvoicesLeaveTraces /\ UntriedStaysUntried /\ CreatesTheFirst /\ OneInvoiceUndisturbed
    BY <1>1 DEF Disturbance, Runs, InvoicesLeaveTraces, UntriedStaysUntried, CreatesTheFirst,
                OneInvoiceUndisturbed, Working
<1> QED BY <1>2, <1>3, <1>4 DEF HistoryInv

LEMMA HistoryKept ==
    IssuingInv /\ HistoryInv /\ [HistoryNext]_historyVars => HistoryInv'
<1> SUFFICES ASSUME IssuingInv, HistoryInv, [HistoryNext]_historyVars PROVE HistoryInv'
    OBVIOUS
<1>0. IssuingTypeOK /\ WritesWhatIsBooked /\ BindsWhatIsBooked /\ CreatedIsBooked
    BY DEF IssuingInv
<1>1. [Next]_vars
    BY HistoryIsNext DEF historyVars
<1>2. DraftsTakenOnce'
    BY <1>0, <1>1, OnceKept DEF HistoryInv
<1>3. /\ DraftsTakenOnce /\ ReadIsTrue /\ OneHolds /\ CreatedIsOwned
      /\ disturbed \/ (~Disturbance /\ Undisturbed)
    BY DEF HistoryInv, Undisturbed, OneInvoiceUndisturbed
<1>4. ASSUME ReadIsTrue', OneHolds', CreatedIsOwned', disturbed' \/ (~Disturbance' /\ Undisturbed')
      PROVE  HistoryInv'
    BY <1>2, <1>4 DEF HistoryInv, Undisturbed, OneInvoiceUndisturbed
<1>5. CASE HistoryNext
  <2>1. Remember
      BY <1>5 DEF HistoryNext
  <2>2. disturbed' \/ (~disturbed /\ ~Disturbance' /\ ~GivesUp)
      BY <2>1 DEF Remember
  <2>3. disturbed' \/ Undisturbed'
      BY <1>0, <1>1, <1>3, <2>2, UndisturbedKept
  <2>4. ReadIsTrue' /\ OneHolds' /\ CreatedIsOwned'
      BY <1>0, <1>1, <1>3, <2>1, ReadsKept, OwnedKept
  <2> QED BY <1>4, <2>2, <2>3, <2>4
<1>6. CASE UNCHANGED historyVars
  <2>1. UNCHANGED vars /\ disturbed' = disturbed /\ overtaken' = overtaken /\ torn' = torn
      BY <1>6 DEF historyVars
  <2>2. Disturbance' <=> Disturbance
      BY <2>1 DEF Disturbance, Runs, vars
  <2>3. Undisturbed => Undisturbed'
      BY <1>0, <1>1, <2>1, CalmStep DEF vars
  <2>4. ReadIsTrue' /\ OneHolds' /\ CreatedIsOwned'
      BY <1>3, <2>1 DEF ReadIsTrue, OneHolds, CreatedIsOwned, vars
  <2> QED BY <1>3, <1>4, <2>1, <2>2, <2>3, <2>4
<1> QED BY <1>5, <1>6

\* Every run with the history is a run of InvoiceIssuing, so that all that is proved
\* of Spec holds in it.
THEOREM HistoryRefines == HistorySpec => Spec
<1>1. HistoryInit => Init
    BY DEF HistoryInit
<1>2. [HistoryNext]_historyVars => [Next]_vars
    BY HistoryIsNext DEF historyVars
<1> QED BY <1>1, <1>2, PTL DEF HistorySpec, Spec

\* And so is every run in which time waits for the processes, in which the properties
\* are checked: what is proved of HistorySpec holds however slow a process is.
THEOREM TimelyHistoryRefines == TimelyHistorySpec => HistorySpec
<1>1. [TimelyHistoryNext]_historyVars => [HistoryNext]_historyVars
    BY DEF TimelyHistoryNext, HistoryNext, Next
<1> QED BY <1>1, PTL DEF TimelyHistorySpec, HistorySpec

LEMMA HistoryInvHolds == HistorySpec => [](IssuingInv /\ HistoryInv)
<1>1. HistoryInit => IssuingInv /\ HistoryInv
    BY InitIssuingInv, InitHistory DEF HistoryInit
<1>2. IssuingInv /\ HistoryInv /\ [HistoryNext]_historyVars => (IssuingInv /\ HistoryInv)'
  <2>1. [HistoryNext]_historyVars => [Next]_vars
      BY HistoryIsNext DEF historyVars
  <2> QED BY <2>1, IssuingInvKept, HistoryKept
<1> QED BY <1>1, <1>2, PTL DEF HistorySpec

\* A tick that is not disturbed by a death, a deadlock, a late request or another tick
\* never asks for an invoice that the provider has, for any number of drafts, reconciles
\* and requests, although reconcile and the webhook write the rows that it works on.
THEOREM UndisturbedIssuesOnce == HistorySpec => []OneInvoiceUndisturbed
<1>1. HistoryInv => OneInvoiceUndisturbed
    BY DEF HistoryInv, OneInvoiceUndisturbed
<1> QED BY <1>1, HistoryInvHolds, PTL

\* A CREATED draft has a booked invoice, and its owner has the same one, although the
\* webhook writes the two rows in statements between which ticks, reconciles and other
\* requests write them too: unless the last to write the draft was a request whose rows
\* were written since it read them, and which has not bound the owner itself.
THEOREM DraftsAgreeWithOwners == HistorySpec => []CreatedIsOwned
<1>1. HistoryInv => CreatedIsOwned
    BY DEF HistoryInv
<1> QED BY <1>1, HistoryInvHolds, PTL

=============================================================================
