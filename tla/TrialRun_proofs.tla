--------------------------- MODULE TrialRun_proofs ---------------------------
(***************************************************************************)
(* Proofs about TrialRun for any number of runs, batches and processes:    *)
(* how the transactions that end batches end their runs.                   *)
(*                                                                         *)
(* Most steps change only what one transaction knows; the lemma            *)
(* TransactionStep says what such a step has to show.  The tables change   *)
(* with Start, Claim and Commit.                                           *)
(***************************************************************************)
EXTENDS TrialRun, TLAPS

LEMMA InitInv == Init => TrialInv
<1> SUFFICES ASSUME Init PROVE TrialInv
    OBVIOUS
<1>2. TrialTypeOK /\ TablesOK
    BY DEF Init, TrialTypeOK, TablesOK, NoRun, NoTxn, RunRow, Txn, BatchStatus, Runs
<1>3. CompletedIsDone /\ \A p \in Processes : TxnOK(txn[p])
    BY DEF Init, CompletedIsDone, TxnOK, NoTxn
<1>4. AloneOK
    BY DEF Init, AloneOK, SeesUnfinished, NoTxn
<1>5. CompletedIsEarned /\ DegradedEndsRun /\ LastSettleEndsRun
    BY DEF Init, CompletedIsEarned, DegradedEndsRun, LastSettleEndsRun, NoRun
<1> QED BY <1>2, <1>3, <1>4, <1>5 DEF TrialInv

\* A transaction goes on and the tables stay as they are.
LEMMA TransactionStep ==
    ASSUME TrialInv, NEW p \in Processes, NEW next \in Txn, Go(p, next),
           UNCHANGED <<Tables, done>>, overlapped' \in BOOLEAN, overlapped => overlapped',
           TxnOK(next),
           ~overlapped' => SeesUnfinished(next),
           ~overlapped' /\ txn[p].at = "idle" /\ next.at # "idle" =>
               \A q \in Processes : txn[q].at = "idle"
    PROVE  TrialInv'
<1>1. TablesOK'
    BY DEF TrialInv, TablesOK, Go, Tables
<1>2. \A q \in Processes : txn'[q] = IF q = p THEN next ELSE txn[q]
    BY DEF TrialInv, TablesOK, Go
<1>3. TrialTypeOK' /\ CompletedIsDone' /\ CompletedIsEarned' /\ DegradedEndsRun'
    BY DEF TrialInv, TrialTypeOK, CompletedIsDone, CompletedIsEarned, DegradedEndsRun, Tables
<1>4. LastSettleEndsRun'
    BY DEF TrialInv, LastSettleEndsRun, Tables
<1>5. \A x : TxnOK(x)' <=> TxnOK(x)
    BY DEF TxnOK, Tables
<1>6. \A q \in Processes : TxnOK(txn[q])'
    BY <1>2, <1>5 DEF TrialInv, TxnOK, Tables
<1>7. AloneOK'
    <2> SUFFICES ASSUME ~overlapped' PROVE /\ \A q, s \in Processes :
                                                  txn'[q].at # "idle" /\ txn'[s].at # "idle" => q = s
                                           /\ \A q \in Processes : SeesUnfinished(txn[q])'
        BY DEF AloneOK
    <2>1. AloneOK /\ ~overlapped
        BY DEF TrialInv
    <2>2. ASSUME NEW q \in Processes, NEW s \in Processes,
                 txn'[q].at # "idle", txn'[s].at # "idle"
          PROVE  q = s
        BY <1>2, <2>1, <2>2 DEF AloneOK
    <2>3. ASSUME NEW q \in Processes PROVE SeesUnfinished(txn[q])'
        BY <1>2, <2>1 DEF AloneOK, SeesUnfinished, Tables
    <2> QED BY <2>2, <2>3
<1> QED BY <1>1, <1>3, <1>4, <1>6, <1>7 DEF TrialInv

\* What the idle transaction knows.
LEMMA NoTxnOK == NoTxn \in Txn /\ TxnOK(NoTxn) /\ SeesUnfinished(NoTxn)
BY DEF NoTxn, Txn, TxnOK, SeesUnfinished

\* The transactions of a state that satisfies the invariant.
LEMMA TxnFacts ==
    ASSUME TrialInv, NEW p \in Processes
    PROVE  /\ txn[p] \in Txn /\ TxnOK(txn[p])
           /\ txn[p].rows \subseteq saved /\ saved \subseteq Batches
           /\ overlapped \in BOOLEAN
           /\ ~overlapped => SeesUnfinished(txn[p])
BY DEF TrialInv, TablesOK, TxnOK, AloneOK

-----------------------------------------------------------------------------
\* The statements of a transaction.

LEMMA SettleBatchInv ==
    ASSUME TrialInv, NEW p \in Processes, NEW b \in Batches, SettleBatch(p, b)
    PROVE  TrialInv'
<1>1. PICK status \in BatchStatus :
          Go(p, [NoTxn EXCEPT !.at = "count", !.rows = {b}, !.status = status])
    BY DEF SettleBatch
<1> DEFINE next == [NoTxn EXCEPT !.at = "count", !.rows = {b}, !.status = status]
<1>2. next \in Txn
    BY DEF NoTxn, Txn
<1>3. TxnOK(next) /\ SeesUnfinished(next)
    BY DEF NoTxn, TxnOK, SeesUnfinished, SettleBatch
<1>4. ~overlapped' => \A q \in Processes : txn[q].at = "idle"
    BY DEF SettleBatch, Overlap
<1>5. overlapped' \in BOOLEAN /\ (overlapped => overlapped')
    BY TxnFacts DEF SettleBatch, Overlap
<1>6. Go(p, next) /\ UNCHANGED <<Tables, done>>
    BY <1>1 DEF SettleBatch
<1> HIDE DEF next
<1> QED BY <1>2, <1>3, <1>4, <1>5, <1>6, TransactionStep

LEMMA SettleRunInv ==
    ASSUME TrialInv, NEW p \in Processes, SettleRun(p)
    PROVE  TrialInv'
<1>1. PICK b \in Batches : txn[p].rows = {b}
    BY TxnFacts DEF SettleRun, TxnOK
<1> DEFINE r == b[1]
           remaining == {c \in BatchesOf(r) : Seen(p, c) # "completed"}
           degraded == [txn[p] EXCEPT !.at = "runs", !.ends = {r}, !.final = "degraded"]
           completed == [txn[p] EXCEPT !.at = "runs", !.ends = {r}, !.final = "completed"]
           undecided == [txn[p] EXCEPT !.at = "commit"]
           next == IF txn[p].status = "degraded" THEN degraded
                   ELSE IF remaining = {} THEN completed ELSE undecided
<1>2. (CHOOSE c \in txn[p].rows : TRUE) = b
    BY <1>1
<1>3. /\ Go(p, next) /\ UNCHANGED <<Tables, done>>
      /\ overlapped' = overlapped /\ txn[p].at = "count"
    BY <1>2 DEF SettleRun, History
<1>4. /\ r \in Runs /\ b \in BatchesOf(r)
      /\ \A c \in BatchesOf(r) : c \in Batches
    BY DEF Batches, BatchesOf
<1>5. /\ txn[p] \in Txn /\ TxnOK(txn[p])
      /\ txn[p].rows = {b} /\ b \in saved
      /\ txn[p].status \in BatchStatus
    BY <1>1, <1>3, TxnFacts DEF TxnOK
<1>6. next \in Txn
    BY <1>4, <1>5 DEF Txn
<1>7. CASE txn[p].status = "degraded"
    <2>1. TxnOK(next) /\ SeesUnfinished(next)
        BY <1>4, <1>5, <1>7 DEF Txn, TxnOK, SeesUnfinished
    <2> HIDE DEF next
    <2> QED BY <1>3, <1>6, <2>1, TxnFacts, TransactionStep
<1>8. CASE txn[p].status # "degraded" /\ remaining = {}
    <2>1. txn[p].status = "completed"
        BY <1>4, <1>5, <1>8 DEF Seen
    <2>2. BatchesOf(r) \subseteq done \cup {b}
        BY <1>4, <1>5, <1>8 DEF Seen, TrialInv, CompletedIsDone
    <2>3. TxnOK(next) /\ SeesUnfinished(next)
        BY <1>4, <1>5, <1>8, <2>1, <2>2 DEF Txn, TxnOK, SeesUnfinished
    <2> HIDE DEF next
    <2> QED BY <1>3, <1>6, <2>3, TxnFacts, TransactionStep
<1>9. CASE txn[p].status # "degraded" /\ remaining # {}
    <2>1. next = undecided
        BY <1>9
    <2>2. txn[p].status = "completed" => \E c \in BatchesOf(r) \ {b} : batches[c] # "completed"
        BY <1>5, <1>9 DEF Seen
    <2>3. SeesUnfinished(next)
        BY <1>5, <2>1, <2>2 DEF Txn, SeesUnfinished
    <2>4. TxnOK(next)
        BY <1>5, <1>9, <2>1 DEF Txn, TxnOK
    <2> HIDE DEF next
    <2> QED BY <1>3, <1>6, <2>3, <2>4, TxnFacts, TransactionStep
<1> QED BY <1>7, <1>8, <1>9

LEMMA DegradeBatchesInv ==
    ASSUME TrialInv, NEW p \in Processes, DegradeBatches(p)
    PROVE  TrialInv'
<1>1. PICK exhausted \in SUBSET {b \in saved : batches[b] = "open"} :
          Go(p, [NoTxn EXCEPT !.at = "select", !.rows = exhausted, !.status = "degraded"])
    BY DEF DegradeBatches
<1> DEFINE next == [NoTxn EXCEPT !.at = "select", !.rows = exhausted, !.status = "degraded"]
<1>2. exhausted \subseteq saved /\ exhausted \subseteq Batches
    BY TxnFacts
<1>3. next \in Txn
    BY <1>2 DEF NoTxn, Txn, BatchStatus
<1>4. TxnOK(next) /\ SeesUnfinished(next)
    BY <1>2 DEF NoTxn, TxnOK, SeesUnfinished, BatchStatus
<1>5. ~overlapped' => \A q \in Processes : txn[q].at = "idle"
    BY DEF DegradeBatches, Overlap
<1>6. overlapped' \in BOOLEAN /\ (overlapped => overlapped')
    BY TxnFacts DEF DegradeBatches, Overlap
<1>7. Go(p, next) /\ UNCHANGED <<Tables, done>>
    BY <1>1 DEF DegradeBatches
<1> HIDE DEF next
<1> QED BY <1>3, <1>4, <1>5, <1>6, <1>7, TransactionStep

LEMMA SelectRunsInv ==
    ASSUME TrialInv, NEW p \in Processes, SelectRuns(p)
    PROVE  TrialInv'
<1> DEFINE ends == {r \in Runs : \E b \in BatchesOf(r) : Seen(p, b) = "degraded"}
           next == [txn[p] EXCEPT !.at = "runs", !.final = "degraded", !.ends = ends]
<1>1. /\ Go(p, next) /\ UNCHANGED <<Tables, done>>
      /\ overlapped' = overlapped /\ txn[p].at = "select"
    BY DEF SelectRuns, History
<1>2. /\ txn[p] \in Txn /\ TxnOK(txn[p]) /\ txn[p].status = "degraded"
      /\ txn[p].rows \subseteq Batches
    BY <1>1, TxnFacts DEF TxnOK
<1>3. next \in Txn
    BY <1>2 DEF Txn
<1>4. \A b \in txn[p].rows : b[1] \in ends
    BY <1>2 DEF Seen, BatchesOf, Batches
<1> HIDE DEF ends
<1>5. TxnOK(next) /\ SeesUnfinished(next)
    BY <1>2, <1>4 DEF Txn, TxnOK, SeesUnfinished
<1> HIDE DEF next
<1> QED BY <1>1, <1>3, <1>5, TxnFacts, TransactionStep

LEMMA UpdateRunsInv ==
    ASSUME TrialInv, NEW p \in Processes, UpdateRuns(p)
    PROVE  TrialInv'
<1> DEFINE next == [txn[p] EXCEPT !.at = "commit"]
<1>1. /\ Go(p, next) /\ UNCHANGED <<Tables, done>>
      /\ overlapped' = overlapped /\ txn[p].at = "runs"
    BY DEF UpdateRuns, History
<1>2. txn[p] \in Txn /\ TxnOK(txn[p]) /\ (~overlapped => SeesUnfinished(txn[p]))
    BY TxnFacts
<1>3. next \in Txn
    BY <1>2 DEF Txn
<1>4. TxnOK(next)
    BY <1>1, <1>2 DEF Txn, TxnOK
<1>5. ~overlapped => SeesUnfinished(next)
    BY <1>1, <1>2 DEF Txn, SeesUnfinished
<1> HIDE DEF next
<1> QED BY <1>1, <1>3, <1>4, <1>5, TxnFacts, TransactionStep

LEMMA RollbackInv ==
    ASSUME TrialInv, NEW p \in Processes, Rollback(p)
    PROVE  TrialInv'
<1>1. Go(p, NoTxn) /\ UNCHANGED <<Tables, done>> /\ overlapped' = overlapped
    BY DEF Rollback, History
<1>2. NoTxn.at = "idle"
    BY DEF NoTxn
<1> QED BY <1>1, <1>2, NoTxnOK, TxnFacts, TransactionStep

-----------------------------------------------------------------------------
\* The steps that change the tables.

LEMMA StartInv ==
    ASSUME TrialInv, NEW r \in Runs, Start(r)
    PROVE  TrialInv'
<1>1. /\ \A q \in Runs : runs'[q] = IF q = r THEN [status |-> "active", marker |-> TRUE]
                                    ELSE runs[q]
      /\ \A b \in Batches : batches'[b] = IF b[1] = r THEN "open" ELSE batches[b]
      /\ batches' = [b \in Batches |-> batches'[b]]
      /\ UNCHANGED <<saved, txn, done, overlapped>>
    BY DEF Start, History, TrialInv, TablesOK
<1>2. TablesOK'
    BY <1>1 DEF Start, TrialInv, TablesOK, RunRow
<1>3. TrialTypeOK'
    <2>1. batches' \in [Batches -> BatchStatus \cup {"absent"}]
        BY <1>1 DEF TrialInv, TrialTypeOK, BatchStatus
    <2>2. ASSUME NEW q \in Runs
          PROVE  /\ runs'[q].status \in {"absent", "active", "completed", "degraded"}
                 /\ runs'[q].marker = (runs'[q].status = "active")
        <3>1. CASE q = r
            <4>1. runs'[q] = [status |-> "active", marker |-> TRUE]
                BY <1>1, <3>1
            <4>2. runs'[q].status = "active" /\ runs'[q].marker = TRUE
                BY <4>1
            <4> QED BY <4>2, Zenon
        <3>2. CASE q # r
            <4>1. runs'[q] = runs[q]
                BY <1>1, <3>2
            <4> QED BY <4>1, Zenon DEF TrialInv, TrialTypeOK
        <3> QED BY <3>1, <3>2
    <2>3. done' \subseteq Batches /\ \A b \in saved' : batches'[b] # "absent"
        BY <1>1 DEF TrialInv, TrialTypeOK, TablesOK
    <2> QED BY <2>1, <2>2, <2>3, Zenon DEF TrialTypeOK
<1>4. CompletedIsDone' /\ CompletedIsEarned'
    BY <1>1 DEF TrialInv, CompletedIsDone, CompletedIsEarned
<1>5. DegradedEndsRun'
    BY <1>1 DEF TrialInv, DegradedEndsRun, Batches
<1>6. LastSettleEndsRun'
    <2>1. <<r, 1>> \in BatchesOf(r) /\ <<r, 1>>[1] = r
        BY CountsAssumption DEF BatchesOf, Batches
    <2>2. \A q \in Runs, b \in Batches : b \in BatchesOf(q) => b[1] = q
        BY DEF BatchesOf
    <2>3. \A q \in Runs : BatchesOf(q) \subseteq Batches
        BY DEF BatchesOf
    <2>4. batches'[<<r, 1>>] = "open"
        BY <1>1, <2>1, <2>3
    <2> SUFFICES ASSUME NEW q \in Runs, ~overlapped', runs'[q].status = "active"
                 PROVE  \E b \in BatchesOf(q) : batches'[b] # "completed"
        BY DEF LastSettleEndsRun
    <2>5. CASE q = r
        BY <2>1, <2>4, <2>5
    <2>6. CASE q # r
        BY <1>1, <2>2, <2>3, <2>6 DEF TrialInv, LastSettleEndsRun
    <2> QED BY <2>5, <2>6
<1>7. \A p \in Processes : TxnOK(txn[p])'
    BY <1>1 DEF TrialInv, TxnOK
<1>8. AloneOK'
    <2>1. \A b \in Batches : batches[b] # "completed" => batches'[b] # "completed"
        BY <1>1
    <2>2. \A q : BatchesOf(q) \subseteq Batches
        BY DEF BatchesOf
    <2> QED BY <1>1, <2>1, <2>2 DEF TrialInv, AloneOK, SeesUnfinished
<1> QED BY <1>2, <1>3, <1>4, <1>5, <1>6, <1>7, <1>8 DEF TrialInv

LEMMA ClaimInv ==
    ASSUME TrialInv, NEW b \in Batches, Claim(b)
    PROVE  TrialInv'
<1>1. UNCHANGED <<runs, batches, txn, done, overlapped>> /\ saved' = saved \cup {b}
    BY DEF Claim, History
<1>2. TrialTypeOK' /\ TablesOK'
    BY <1>1 DEF Claim, TrialInv, TrialTypeOK, TablesOK
<1>3. CompletedIsDone' /\ CompletedIsEarned' /\ DegradedEndsRun' /\ LastSettleEndsRun'
    BY <1>1 DEF TrialInv, CompletedIsDone, CompletedIsEarned, DegradedEndsRun, LastSettleEndsRun
<1>4. \A p \in Processes : TxnOK(txn[p])'
    BY <1>1 DEF TrialInv, TxnOK
<1>5. AloneOK'
    BY <1>1 DEF TrialInv, AloneOK, SeesUnfinished
<1> QED BY <1>2, <1>3, <1>4, <1>5 DEF TrialInv

LEMMA CommitInv ==
    ASSUME TrialInv, NEW p \in Processes, Commit(p)
    PROVE  TrialInv'
<1> DEFINE own == txn[p]
<1>1. /\ own \in Txn /\ TxnOK(own) /\ own.at = "commit" /\ own.status \in BatchStatus
      /\ own.rows \subseteq Batches
      /\ ~overlapped => SeesUnfinished(own)
    BY TxnFacts DEF Commit, TxnOK
<1>2. /\ \A b \in Batches : batches'[b] = IF b \in own.rows THEN own.status ELSE batches[b]
      /\ batches' = [b \in Batches |-> batches'[b]]
      /\ \A r \in Runs : runs'[r] = IF r \in own.ends THEN [status |-> own.final, marker |-> FALSE]
                                    ELSE runs[r]
      /\ runs' = [r \in Runs |-> runs'[r]]
      /\ done' = IF own.status = "completed" THEN done \cup own.rows ELSE done
      /\ \A q \in Processes : txn'[q] = IF q = p THEN NoTxn ELSE txn[q]
      /\ txn' = [q \in Processes |-> txn'[q]]
      /\ saved' = saved /\ overlapped' = overlapped
    BY DEF Commit, Go, TrialInv, TablesOK
<1>3. /\ \A r \in own.ends : own.final \in {"completed", "degraded"}
      /\ own.ends \subseteq Runs
    BY <1>1 DEF Txn, TxnOK
<1>4. /\ own.status = "degraded" => own.final = "degraded" /\ \A b \in own.rows : b[1] \in own.ends
      /\ own.final = "completed" => /\ own.status = "completed"
                                    /\ \A r \in own.ends : BatchesOf(r) \subseteq done \cup own.rows
    BY <1>1 DEF TxnOK
<1>5. own.status = "completed" /\ ~overlapped =>
          \A b \in own.rows : \/ b[1] \in own.ends
                              \/ \E c \in BatchesOf(b[1]) \ own.rows : batches[c] # "completed"
    BY <1>1 DEF SeesUnfinished
<1> HIDE DEF own
<1>6. TrialTypeOK'
    <2>1. batches' \in [Batches -> BatchStatus \cup {"absent"}]
        BY <1>1, <1>2 DEF TrialInv, TrialTypeOK
    <2>2. \A r \in Runs : /\ runs'[r].status \in {"absent", "active", "completed", "degraded"}
                          /\ runs'[r].marker = (runs'[r].status = "active")
        <3> SUFFICES ASSUME NEW r \in Runs
                     PROVE  /\ runs'[r].status \in {"absent", "active", "completed", "degraded"}
                            /\ runs'[r].marker = (runs'[r].status = "active")
            OBVIOUS
        <3>1. CASE r \in own.ends
            <4>1. runs'[r] = [status |-> own.final, marker |-> FALSE]
                BY <1>2, <3>1
            <4>2. /\ runs'[r].status \in {"completed", "degraded"}
                  /\ runs'[r].status # "active"
                BY <1>3, <3>1, <4>1
            <4>3. runs'[r].marker = FALSE
                BY <4>1
            <4> QED BY <4>2, <4>3, Zenon
        <3>2. CASE r \notin own.ends
            BY <1>2, <3>2, Zenon DEF TrialInv, TrialTypeOK
        <3> QED BY <3>1, <3>2
    <2>3. done' \subseteq Batches /\ \A b \in saved' : batches'[b] # "absent"
        BY <1>1, <1>2 DEF TrialInv, TrialTypeOK, TablesOK, BatchStatus
    <2> QED BY <2>1, <2>2, <2>3, Zenon DEF TrialTypeOK
<1>7. TablesOK'
    <2>1. runs' \in [Runs -> RunRow]
        <3>1. ASSUME NEW r \in Runs PROVE runs'[r] \in RunRow
            <4>1. CASE r \in own.ends
                <5>1. runs'[r] = [status |-> own.final, marker |-> FALSE]
                    BY <1>2, <4>1
                <5> QED BY <1>3, <4>1, <5>1 DEF RunRow
            <4>2. CASE r \notin own.ends
                BY <1>2, <4>2 DEF TrialInv, TablesOK
            <4> QED BY <4>1, <4>2
        <3> QED BY <1>2, <3>1
    <2>2. txn' \in [Processes -> Txn]
        <3>1. \A q \in Processes : txn'[q] \in Txn
            BY <1>2, NoTxnOK DEF TrialInv, TablesOK
        <3> QED BY <1>2, <3>1
    <2> QED BY <1>2, <2>1, <2>2 DEF TrialInv, TablesOK
<1>8. CompletedIsDone'
    BY <1>2 DEF TrialInv, CompletedIsDone
<1>9. \A q \in Processes : TxnOK(txn[q])'
    <2> SUFFICES ASSUME NEW q \in Processes PROVE TxnOK(txn[q])'
        OBVIOUS
    <2>1. done \subseteq done'
        BY <1>2
    <2>2. CASE q = p
        <3>1. txn'[q] = NoTxn
            BY <1>2, <2>2
        <3> QED BY <3>1 DEF TxnOK, NoTxn
    <2>3. CASE q # p
        <3>1. txn'[q] = txn[q] /\ TxnOK(txn[q])
            BY <1>2, <2>3 DEF TrialInv
        <3> QED BY <1>2, <2>1, <3>1 DEF TxnOK
    <2> QED BY <2>2, <2>3
<1>10. AloneOK'
    <2>1. ASSUME ~overlapped PROVE \A q \in Processes : txn'[q].at = "idle"
        BY <1>1, <1>2, <2>1 DEF TrialInv, AloneOK, NoTxn, own
    <2> QED BY <1>2, <2>1 DEF AloneOK, SeesUnfinished
<1>11. CompletedIsEarned'
    BY <1>2, <1>4 DEF TrialInv, CompletedIsEarned
<1>12. DegradedEndsRun'
    <2> SUFFICES ASSUME NEW b \in Batches, batches'[b] = "degraded"
                 PROVE  runs'[b[1]].status # "active"
        BY DEF DegradedEndsRun
    <2>1. b[1] \in Runs
        BY DEF Batches
    <2>2. CASE b[1] \in own.ends
        BY <1>2, <1>3, <2>1, <2>2
    <2>3. CASE b[1] \notin own.ends
        BY <1>2, <1>4, <2>1, <2>3 DEF TrialInv, DegradedEndsRun
    <2> QED BY <2>2, <2>3
<1>13. LastSettleEndsRun'
    <2> SUFFICES ASSUME NEW r \in Runs, ~overlapped, runs'[r].status = "active"
                 PROVE  \E b \in BatchesOf(r) : batches'[b] # "completed"
        BY <1>2 DEF LastSettleEndsRun
    <2>1. r \notin own.ends /\ runs[r].status = "active"
        BY <1>2, <1>3
    <2>2. PICK b \in BatchesOf(r) : batches[b] # "completed"
        BY <2>1 DEF TrialInv, LastSettleEndsRun
    <2>3. \A c \in BatchesOf(r) : c \in Batches /\ c[1] = r
        BY DEF BatchesOf
    <2>4. CASE own.status # "completed" \/ b \notin own.rows
        BY <1>2, <2>2, <2>3, <2>4
    <2>5. CASE own.status = "completed" /\ b \in own.rows
        <3>1. PICK c \in BatchesOf(r) \ own.rows : batches[c] # "completed"
            BY <1>5, <2>1, <2>2, <2>3, <2>5
        <3> QED BY <1>2, <2>3, <3>1
    <2> QED BY <2>4, <2>5
<1> QED BY <1>6, <1>7, <1>8, <1>9, <1>10, <1>11, <1>12, <1>13 DEF TrialInv

-----------------------------------------------------------------------------
\* The invariant, and what it says of the code.

LEMMA NextInv == TrialInv /\ [Next]_vars => TrialInv'
<1> SUFFICES ASSUME TrialInv, [Next]_vars PROVE TrialInv'
    OBVIOUS
<1>1. ASSUME NEW r \in Runs, Start(r) PROVE TrialInv'
    BY <1>1, StartInv
<1>2. ASSUME NEW b \in Batches, Claim(b) PROVE TrialInv'
    BY <1>2, ClaimInv
<1>3. ASSUME NEW p \in Processes, NEW b \in Batches, SettleBatch(p, b) PROVE TrialInv'
    BY <1>3, SettleBatchInv
<1>4. ASSUME NEW p \in Processes, SettleRun(p) PROVE TrialInv'
    BY <1>4, SettleRunInv
<1>5. ASSUME NEW p \in Processes, DegradeBatches(p) PROVE TrialInv'
    BY <1>5, DegradeBatchesInv
<1>6. ASSUME NEW p \in Processes, SelectRuns(p) PROVE TrialInv'
    BY <1>6, SelectRunsInv
<1>7. ASSUME NEW p \in Processes, UpdateRuns(p) PROVE TrialInv'
    BY <1>7, UpdateRunsInv
<1>8. ASSUME NEW p \in Processes, Commit(p) PROVE TrialInv'
    BY <1>8, CommitInv
<1>9. ASSUME NEW p \in Processes, Rollback(p) PROVE TrialInv'
    BY <1>9, RollbackInv
<1>10. CASE UNCHANGED vars
    BY <1>10 DEF vars, TrialInv, TrialTypeOK, TablesOK, CompletedIsDone, TxnOK, AloneOK,
                 SeesUnfinished, CompletedIsEarned, DegradedEndsRun, LastSettleEndsRun
<1> QED BY <1>1, <1>2, <1>3, <1>4, <1>5, <1>6, <1>7, <1>8, <1>9, <1>10 DEF Next

\* The tables, the transactions and the history agree in every reachable state,
\* however many runs, batches and processes there are.
THEOREM TrialInvHolds == Spec => []TrialInv
BY InitInv, NextInv, PTL DEF Spec

\* A run is ACTIVE exactly while it holds the marker that keeps others from being
\* started (TrialStore.create, _settle_run, _degrade_exhausted_batches).
THEOREM TrialTypeCorrect == Spec => []TrialTypeOK
<1>1. TrialInv => TrialTypeOK
    BY DEF TrialInv
<1> QED BY <1>1, TrialInvHolds, PTL

\* However the settling transactions overlap, a run is COMPLETED only after each
\* of its batches was (_settle_run).
THEOREM CompletionIsEarned == Spec => []CompletedIsEarned
<1>1. TrialInv => CompletedIsEarned
    BY DEF TrialInv
<1> QED BY <1>1, TrialInvHolds, PTL

\* No interleaving of settle and _degrade_exhausted_batches leaves a run with a
\* degraded batch ACTIVE.
THEOREM DegradationEndsRun == Spec => []DegradedEndsRun
<1>1. TrialInv => DegradedEndsRun
    BY DEF TrialInv
<1> QED BY <1>1, TrialInvHolds, PTL

\* The transaction that completes the last batch ends the run, as long as no two
\* settling transactions overlap (_settle_run).
THEOREM LastSettleEnds == Spec => []LastSettleEndsRun
<1>1. TrialInv => LastSettleEndsRun
    BY DEF TrialInv
<1> QED BY <1>1, TrialInvHolds, PTL

=============================================================================
