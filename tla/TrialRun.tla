------------------------------ MODULE TrialRun ------------------------------
(***************************************************************************)
(* The trial runs and their batches: `trial start`, the claims of          *)
(* `trial tick`, and the two transactions that end a batch and perhaps its *)
(* run, InvoiceStore.settle and _degrade_exhausted_batches, statement by   *)
(* statement.  A statement sees what is committed and what its own         *)
(* transaction wrote, and waits for a row that another one has written.    *)
(*                                                                         *)
(* What happens to the drafts of a batch is in InvoiceIssuing: here settle *)
(* finds any status, any batch that was claimed may be exhausted, and the  *)
(* statuses of a batch that can be claimed are one, "open".                *)
(***************************************************************************)
EXTENDS Integers

CONSTANTS RunCount,    \* bound of the trials that are started
          SlotCount,   \* batches of a trial (SLOT_COUNT in schedule.py)
          Processes    \* processes of the CLI: starts, ticks and reconciles

ASSUME CountsAssumption == RunCount \in Nat \ {0} /\ SlotCount \in Nat \ {0}

Runs == 1 .. RunCount
Batches == Runs \X (1 .. SlotCount)
BatchesOf(r) == {b \in Batches : b[1] = r}

VARIABLES runs,      \* trial_runs: [status, marker] of each run; marker: active_marker = 1
          batches,   \* invoice_batches: the status of each
          saved,     \* batches that were claimed, and have drafts
          txn,       \* the transaction of each process
          done,      \* history: batches that have been COMPLETED at some time
          overlapped \* history: two transactions that end batches ran at once

vars == <<runs, batches, saved, txn, done, overlapped>>

\* Open: SCHEDULED, ISSUING or RECONCILING.
BatchStatus == {"open", "completed", "degraded"}
NoRun == [status |-> "absent", marker |-> FALSE]

\* rows: the batches the transaction has updated; writes: their new status; ends:
\* the runs it has updated, or will; final: the status it gives them.
NoTxn == [at |-> "idle", rows |-> {}, status |-> "none", ends |-> {}, final |-> "none"]

Init == /\ runs = [r \in Runs |-> NoRun]
        /\ batches = [b \in Batches |-> "absent"]
        /\ saved = {}
        /\ txn = [p \in Processes |-> NoTxn]
        /\ done = {} /\ overlapped = FALSE

Go(p, next) == txn' = [txn EXCEPT ![p] = next]
Tables == <<runs, batches, saved>>
History == <<done, overlapped>>

\* Rows written by transactions that have not committed.
BatchHeld(b, p) == \E q \in Processes \ {p} : b \in txn[q].rows
RunHeld(r, p) == \E q \in Processes \ {p} : txn[q].at = "commit" /\ r \in txn[q].ends

\* What a statement of p sees of a batch.
Seen(p, b) == IF b \in txn[p].rows THEN txn[p].status ELSE batches[b]

-----------------------------------------------------------------------------
\* TrialStore.create: the unique active_marker refuses a second active run.
\* Runs are numbered in the order of their start.
Start(r) ==
    /\ runs[r] = NoRun /\ \A q \in Runs : q < r => runs[q] # NoRun
    /\ \A q \in Runs : ~runs[q].marker
    /\ runs' = [runs EXCEPT ![r] = [status |-> "active", marker |-> TRUE]]
    /\ batches' = [b \in Batches |-> IF b[1] = r THEN "open" ELSE batches[b]]
    /\ UNCHANGED <<saved, txn, History>>

\* claim_due_batch, of any run that still has a batch to issue; rows that are
\* locked are skipped.  Later claims of the batch change nothing here.
Claim(b) ==
    /\ batches[b] = "open" /\ b \notin saved
    /\ \A p \in Processes : b \notin txn[p].rows
    /\ saved' = saved \cup {b}
    /\ UNCHANGED <<runs, batches, txn, History>>

Overlap == overlapped' = (overlapped \/ \E p \in Processes : txn[p].at # "idle")

-----------------------------------------------------------------------------
\* settle: UPDATE of the batch with the status its drafts have.
SettleBatch(p, b) ==
    /\ txn[p].at = "idle" /\ b \in saved
    /\ ~BatchHeld(b, p)
    /\ \E status \in BatchStatus :
          Go(p, [NoTxn EXCEPT !.at = "count", !.rows = {b}, !.status = status])
    /\ Overlap
    /\ UNCHANGED <<Tables, done>>

\* Slips that the properties must notice, each before the definition it replaces:
\* a batch that is degraded does not count as remaining; the count is taken before
\* the batch is updated.
WrongRemaining(p) ==
    LET r == (CHOOSE b \in txn[p].rows : TRUE)[1]
        remaining == {b \in BatchesOf(r) : Seen(p, b) = "open"}
    IN  /\ txn[p].at = "count"
        /\ Go(p, IF remaining = {} THEN [txn[p] EXCEPT !.at = "runs", !.ends = {r},
                                                       !.final = "completed"]
                 ELSE [txn[p] EXCEPT !.at = "commit"])
        /\ UNCHANGED <<Tables, History>>
WrongCountsFirst(p) ==
    LET r == (CHOOSE b \in txn[p].rows : TRUE)[1]
    IN  /\ txn[p].at = "count"
        /\ Go(p, IF \A b \in BatchesOf(r) : batches[b] = "completed"
                 THEN [txn[p] EXCEPT !.at = "runs", !.ends = {r}, !.final = "completed"]
                 ELSE [txn[p] EXCEPT !.at = "commit"])
        /\ UNCHANGED <<Tables, History>>

\* _settle_run: a degraded batch degrades its run; the last one that completes
\* completes it.
SettleRun(p) ==
    LET r == (CHOOSE b \in txn[p].rows : TRUE)[1]
        remaining == {b \in BatchesOf(r) : Seen(p, b) # "completed"}
    IN  /\ txn[p].at = "count"
        /\ Go(p, IF txn[p].status = "degraded"
                 THEN [txn[p] EXCEPT !.at = "runs", !.ends = {r}, !.final = "degraded"]
                 ELSE IF remaining = {}
                 THEN [txn[p] EXCEPT !.at = "runs", !.ends = {r}, !.final = "completed"]
                 ELSE [txn[p] EXCEPT !.at = "commit"])
        /\ UNCHANGED <<Tables, History>>

\* _degrade_exhausted_batches: one UPDATE of all the exhausted batches ...
DegradeBatches(p) ==
    /\ txn[p].at = "idle"
    /\ \E exhausted \in SUBSET {b \in saved : batches[b] = "open"} :
          /\ exhausted # {}
          /\ \A b \in exhausted : ~BatchHeld(b, p)
          /\ Go(p, [NoTxn EXCEPT !.at = "select", !.rows = exhausted, !.status = "degraded"])
    /\ Overlap
    /\ UNCHANGED <<Tables, done>>

\* The runs are selected before the batches are updated.
WrongSelects(p) ==
    /\ txn[p].at = "select"
    /\ Go(p, [txn[p] EXCEPT !.at = "runs", !.final = "degraded",
                            !.ends = {b[1] : b \in {b \in Batches : batches[b] = "degraded"}}])
    /\ UNCHANGED <<Tables, History>>

\* ... then every run that has a degraded batch is degraded, of old ones as well.
SelectRuns(p) ==
    /\ txn[p].at = "select"
    /\ Go(p, [txn[p] EXCEPT !.at = "runs", !.final = "degraded",
                            !.ends = {r \in Runs : \E b \in BatchesOf(r) :
                                                       Seen(p, b) = "degraded"}])
    /\ UNCHANGED <<Tables, History>>

\* UPDATE of trial_runs, which waits for the rows.
UpdateRuns(p) == /\ txn[p].at = "runs"
                 /\ \A r \in txn[p].ends : ~RunHeld(r, p)
                 /\ Go(p, [txn[p] EXCEPT !.at = "commit"])
                 /\ UNCHANGED <<Tables, History>>

\* The marker is not given back.
WrongKeepsMarker(p) ==
    LET own == txn[p]
    IN  /\ own.at = "commit"
        /\ batches' = [b \in Batches |-> IF b \in own.rows THEN own.status ELSE batches[b]]
        /\ runs' = [r \in Runs |-> IF r \in own.ends
                                   THEN [runs[r] EXCEPT !.status = own.final] ELSE runs[r]]
        /\ Go(p, NoTxn)
        /\ UNCHANGED <<saved, History>>

Commit(p) ==
    LET own == txn[p]
    IN  /\ own.at = "commit"
        /\ batches' = [b \in Batches |-> IF b \in own.rows THEN own.status ELSE batches[b]]
        /\ runs' = [r \in Runs |-> IF r \in own.ends
                                   THEN [status |-> own.final, marker |-> FALSE] ELSE runs[r]]
        /\ done' = IF own.status = "completed" THEN done \cup own.rows ELSE done
        /\ Go(p, NoTxn)
        /\ UNCHANGED <<saved, overlapped>>

\* The process dies, or the database ends the transaction.
Rollback(p) == /\ txn[p].at # "idle"
               /\ Go(p, NoTxn)
               /\ UNCHANGED <<Tables, History>>

Next == \/ \E r \in Runs : Start(r)
        \/ \E b \in Batches : Claim(b)
        \/ \E p \in Processes :
              \/ \E b \in Batches : SettleBatch(p, b)
              \/ SettleRun(p) \/ DegradeBatches(p) \/ SelectRuns(p) \/ UpdateRuns(p)
              \/ Commit(p) \/ Rollback(p)

Spec == Init /\ [][Next]_vars

-----------------------------------------------------------------------------
\* Properties.

\* Types; a run is ACTIVE exactly while it holds the marker that keeps others from
\* being started (docs/SANDBOX.md: re-running `trial start` is rejected).
TrialTypeOK ==
    /\ \A r \in Runs : /\ runs[r].status \in {"absent", "active", "completed", "degraded"}
                       /\ runs[r].marker = (runs[r].status = "active")
    /\ batches \in [Batches -> BatchStatus \cup {"absent"}]
    /\ \A b \in saved : batches[b] # "absent"
    /\ done \subseteq Batches

\* A run is COMPLETED only after each of its batches was, however the settling
\* transactions overlap (_settle_run).
CompletedIsEarned ==
    \A r \in Runs : runs[r].status = "completed" => BatchesOf(r) \subseteq done

\* A run with a degraded batch is not left ACTIVE: no interleaving of settle and
\* _degrade_exhausted_batches loses the end of the run.
DegradedEndsRun == \A b \in Batches : batches[b] = "degraded" => runs[b[1]].status # "active"

\* When all its batches are COMPLETED the run is not ACTIVE any more, unless two
\* settling transactions have overlapped: each of them then counts the other's
\* batch as unfinished, and nothing ends the run (_settle_run takes no lock).
LastSettleEndsRun ==
    \A r \in Runs : ~overlapped /\ runs[r].status = "active"
                    => \E b \in BatchesOf(r) : batches[b] # "completed"

\* README.md says that database leases, locks and tags tolerate scheduler overlap:
\* of a run that is ACTIVE some batch is not COMPLETED, overlap or not.  Once all
\* are, no draft is left that would make a process settle one of them again, the
\* run stays ACTIVE and no other can be started.
OverlapTolerated ==
    \A r \in Runs : runs[r].status = "active" => \E b \in BatchesOf(r) : batches[b] # "completed"

-----------------------------------------------------------------------------
\* Why these hold: the inductive invariant of the proofs.

RunRow == [status : {"absent", "active", "completed", "degraded"}, marker : BOOLEAN]
Txn == [at : {"idle", "count", "select", "runs", "commit"}, rows : SUBSET Batches,
        status : BatchStatus \cup {"none"}, ends : SUBSET Runs,
        final : {"none", "completed", "degraded"}]

TablesOK == /\ runs \in [Runs -> RunRow] /\ saved \subseteq Batches
            /\ txn \in [Processes -> Txn] /\ overlapped \in BOOLEAN

\* Every completed batch is on the record of those that were.
CompletedIsDone == \A b \in Batches : batches[b] = "completed" => b \in done

\* What a transaction has decided about runs agrees with what it did to batches.
TxnOK(x) ==
    /\ x.rows \subseteq saved
    /\ x.at = "idle" => x.rows = {}
    /\ x.at # "idle" => x.status \in BatchStatus
    /\ x.at = "count" => \E b \in Batches : x.rows = {b}
    /\ x.at = "select" => x.status = "degraded"
    /\ x.at \in {"count", "select"} => x.ends = {} /\ x.final = "none"
    /\ x.at \in {"runs", "commit"} =>
          /\ x.ends # {} => x.final # "none"
          /\ x.status = "degraded" => x.final = "degraded" /\ \A b \in x.rows : b[1] \in x.ends
          /\ x.final = "completed" => /\ x.status = "completed"
                                      /\ \A r \in x.ends : BatchesOf(r) \subseteq done \cup x.rows

\* While transactions do not overlap, one that completes a batch and ends no run
\* has seen another batch that is not completed, and that batch is so still.
SeesUnfinished(x) ==
    x.at \in {"runs", "commit"} /\ x.status = "completed" =>
        \A b \in x.rows : \/ b[1] \in x.ends
                          \/ \E c \in BatchesOf(b[1]) \ x.rows : batches[c] # "completed"

AloneOK == ~overlapped =>
               /\ \A p, q \in Processes : txn[p].at # "idle" /\ txn[q].at # "idle" => p = q
               /\ \A p \in Processes : SeesUnfinished(txn[p])

\* The invariant that every step preserves.
TrialInv == /\ TrialTypeOK /\ TablesOK
            /\ CompletedIsDone /\ \A p \in Processes : TxnOK(txn[p])
            /\ AloneOK
            /\ CompletedIsEarned /\ DegradedEndsRun /\ LastSettleEndsRun

=============================================================================
