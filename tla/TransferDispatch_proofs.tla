----------------------- MODULE TransferDispatch_proofs -----------------------
(***************************************************************************)
(* Proofs about TransferDispatch for every set of invoices and workers and *)
(* every lease, backoff, attempt limit, clock bound and crash budget.      *)
(*                                                                         *)
(* The invariant IndInv is proved in four groups that build on each other: *)
(* the types, what the provider holds, what a reported success means, and  *)
(* the order of the leases.                                                *)
(***************************************************************************)
EXTENDS TransferTimely, TLAPS

LEMMA BackoffPositive ==
    ASSUME NEW a \in Nat \ {0} PROVE Backoff(a) \in Nat \ {0}
<1>1. PowersOfTwo[IF a <= 9 THEN a ELSE 9] \in Nat \ {0}
    BY DEF PowersOfTwo
<1>2. \A x, y \in Nat \ {0} : x * y \in Nat \ {0}
    OBVIOUS
<1> QED BY <1>1, <1>2, RetryAssumption DEF Backoff

\* What _finish and claim make of a row.
LEMMA FinishedRow ==
    ASSUME NEW job \in Job, NEW c \in Claim, NEW r \in Result, NEW t \in Nat
    PROVE  LET row == Finished(job, c, r, t)
           IN  /\ row \in Job
               /\ row.leaseUntil = NoLease
               /\ row.status \in Waiting \cup Settled
               /\ row.status = "succeeded" <=> r = "succeeded"
               /\ row.status \in Waiting => row.nextAt > t
<1>1. Backoff(c.attempts) \in Nat \ {0}
    BY BackoffPositive DEF Claim
<1>2. /\ t + Backoff(c.attempts) \in Nat
      /\ t + Backoff(c.attempts) > t
    BY <1>1
<1> QED BY <1>2 DEF Finished, StatusAfter, Job, Status, Waiting, Settled, Result

LEMMA ClaimedRow ==
    ASSUME NEW job \in Job, NEW t \in Nat
    PROVE  LET row == Claimed(job, t)
           IN  /\ row \in Job
               /\ row.status = "processing"
               /\ row.attempts = job.attempts + 1
               /\ row.leaseUntil = LeaseFrom(t)
               /\ LeaseFrom(t) \in Nat
<1>1. LeaseFrom(t) \in Nat
    BY LeaseAssumption DEF LeaseFrom
<1>2. job.attempts + 1 \in Nat
    BY DEF Job
<1> QED BY <1>1, <1>2 DEF Claimed, Job, Status

LEMMA CommandTyped ==
    ASSUME NEW c \in Claim PROVE BuildTransferCommand(c) \in Transfer
    BY DEF BuildTransferCommand, Transfer, ExternalIds, Claim

-----------------------------------------------------------------------------
\* What a call to the provider does to the worker: it moves on to another
\* call or to the write of a result, and touches nothing else of its state.

LEMMA AskShape ==
    ASSUME TypeOK, NEW w \in Workers, AskProvider(w)
    PROVE  /\ pc[w] \in Asking
           /\ UNCHANGED <<now, jobs, at, claim, crashes>>
           /\ \E l \in Asking \cup {"finish"} : pc' = [pc EXCEPT ![w] = l]
           /\ result' \in [Workers -> Result \cup {"none"}]
           /\ pc'[w] = "finish" => result'[w] \in Result
           /\ \A v \in Workers : v # w => result'[v] = result[v]
<1> USE DEF TypeOK, Asking, Working, PC, Result, Goto, Conclude, HandleTimeout,
            HandleTransient, HandlePermanent
<1>1. CASE EnsureLookup(w) BY <1>1 DEF EnsureLookup
<1>2. CASE CreateAnswered(w) BY <1>2 DEF CreateAnswered
<1>3. CASE CreateUnknown(w) BY <1>3 DEF CreateUnknown
<1>4. CASE CreateRejected(w) BY <1>4 DEF CreateRejected
<1>5. CASE CreateRefused(w) BY <1>5 DEF CreateRefused
<1>6. CASE Recheck(w) BY <1>6 DEF Recheck
<1>7. CASE FinalLookup(w) BY <1>7 DEF FinalLookup
<1>8. CASE ReconcileLookup(w) BY <1>8 DEF ReconcileLookup
<1> QED BY <1>1, <1>2, <1>3, <1>4, <1>5, <1>6, <1>7, <1>8 DEF AskProvider

\* What a call does to the provider: it books the worker's command unless one
\* with its external id is booked, puts it under way, or leaves all as it is.
LEMMA AskBooks ==
    ASSUME NEW w \in Workers, AskProvider(w)
    PROVE  LET command == BuildTransferCommand(claim[w])
           IN  /\ \/ UNCHANGED transfers
                  \/ ~Booked(command) /\ transfers' = Append(transfers, command)
               /\ inflight' \in {inflight, inflight \cup {command}}
<1> USE DEF provider
<1>1. CASE EnsureLookup(w) BY <1>1 DEF EnsureLookup
<1>2. CASE CreateAnswered(w) BY <1>2 DEF CreateAnswered
<1>3. CASE CreateUnknown(w) BY <1>3 DEF CreateUnknown
<1>4. CASE CreateRejected(w) BY <1>4 DEF CreateRejected
<1>5. CASE CreateRefused(w) BY <1>5 DEF CreateRefused
<1>6. CASE Recheck(w) BY <1>6 DEF Recheck
<1>7. CASE FinalLookup(w) BY <1>7 DEF FinalLookup
<1>8. CASE ReconcileLookup(w) BY <1>8 DEF ReconcileLookup
<1> QED BY <1>1, <1>2, <1>3, <1>4, <1>5, <1>6, <1>7, <1>8 DEF AskProvider

-----------------------------------------------------------------------------
\* Types.

LEMMA InitTyped == Init => TypeOK
<1> SUFFICES ASSUME Init PROVE TypeOK
    OBVIOUS
<1>1. Absent \in Job /\ Absent.status # "processing" /\ Absent.leaseUntil = NoLease
    BY DEF Absent, Job, Status
<1> QED BY <1>1 DEF Init, TypeOK, PC, Working, Asking

LEMMA RowTyped ==
    ASSUME TypeOK, NEW i \in Invoices, NEW row \in Job,
           row.leaseUntil = NoLease <=> row.status # "processing",
           jobs' = [jobs EXCEPT ![i] = row]
    PROVE  /\ jobs' \in [Invoices -> Job]
           /\ \A j \in Invoices : jobs'[j].leaseUntil = NoLease <=> jobs'[j].status # "processing"
    BY DEF TypeOK

LEMMA NextTyped == TypeOK /\ [Next]_vars => TypeOK'
<1> SUFFICES ASSUME TypeOK, [Next]_vars PROVE TypeOK'
    OBVIOUS
<1> USE DEF TypeOK
<1>1. ASSUME NEW w \in Workers, ReadClock(w) PROVE TypeOK'
    BY <1>1 DEF ReadClock, provider, PC, Working, Asking
<1>2. ASSUME NEW w \in Workers, BackToIdle(w)
      PROVE  /\ pc' \in [Workers -> PC]
             /\ at' \in [Workers -> Nat]
             /\ claim' \in [Workers -> Claim \cup {NoClaim}]
             /\ result' \in [Workers -> Result \cup {"none"}]
             /\ \A v \in Workers : pc'[v] \in Working => claim'[v] \in Claim
             /\ \A v \in Workers : pc'[v] = "finish" => result'[v] \in Result
    BY <1>2 DEF BackToIdle, PC, Working, Asking
<1>3. ASSUME NEW w \in Workers, ClaimNothing(w) PROVE TypeOK'
    BY <1>2, <1>3 DEF ClaimNothing, provider
<1>4. ASSUME NEW w \in Workers, NEW i \in Invoices, ClaimJob(w, i) PROVE TypeOK'
  <2>1. /\ jobs' \in [Invoices -> Job]
        /\ \A j \in Invoices : jobs'[j].leaseUntil = NoLease <=> jobs'[j].status # "processing"
    <3>1. /\ Claimed(jobs[i], at[w]) \in Job
          /\ Claimed(jobs[i], at[w]).status = "processing"
          /\ Claimed(jobs[i], at[w]).leaseUntil \in Nat
      <4>1. jobs[i] \in Job /\ at[w] \in Nat
          OBVIOUS
      <4> QED BY <4>1, ClaimedRow
    <3>2. Claimed(jobs[i], at[w]).leaseUntil # NoLease
        BY <3>1, NoLeaseAssumption
    <3>3. jobs' = [jobs EXCEPT ![i] = Claimed(jobs[i], at[w])]
        BY <1>4 DEF ClaimJob
    <3> QED BY <3>1, <3>2, <3>3, RowTyped
  <2>2. claim'[w] \in Claim
    <3>1. LeaseFrom(at[w]) \in Nat
        BY LeaseAssumption DEF LeaseFrom
    <3>2. jobs[i].status \in Waiting \cup {"processing"}
        BY <1>4 DEF ClaimJob, Claimable
    <3>3. jobs[i].attempts + 1 \in Nat \ {0}
        BY DEF Job
    <3> QED BY <1>4, <3>1, <3>2, <3>3 DEF ClaimJob, Claim
  <2>3. /\ claim' \in [Workers -> Claim \cup {NoClaim}]
        /\ \A v \in Workers : v # w => claim'[v] = claim[v]
      BY <1>4, <2>2 DEF ClaimJob
  <2>4. /\ pc' = [pc EXCEPT ![w] = "claimed"]
        /\ pc' \in [Workers -> PC]
      BY <1>4 DEF ClaimJob, PC, Working
  <2> QED BY <1>4, <2>1, <2>2, <2>3, <2>4 DEF ClaimJob, provider
<1>5. ASSUME NEW w \in Workers, Start(w) PROVE TypeOK'
    BY <1>5 DEF Start, provider, PC, Working, Asking
<1>6. ASSUME NEW w \in Workers, AskProvider(w) PROVE TypeOK'
  <2>1. /\ UNCHANGED <<now, jobs, at, claim, crashes>>
        /\ pc[w] \in Working /\ claim[w] \in Claim
        /\ pc' \in [Workers -> PC]
        /\ result' \in [Workers -> Result \cup {"none"}]
        /\ \A v \in Workers : pc'[v] \in Working => claim'[v] \in Claim
        /\ \A v \in Workers : pc'[v] = "finish" => result'[v] \in Result
      BY <1>6, AskShape DEF PC, Working
  <2>2. transfers' \in Seq(Transfer) /\ inflight' \subseteq Transfer
    <3> DEFINE command == BuildTransferCommand(claim[w])
    <3>1. command \in Transfer
        BY <2>1, CommandTyped
    <3>2. /\ transfers' \in {transfers, Append(transfers, command)}
          /\ inflight' \in {inflight, inflight \cup {command}}
        BY <1>6, AskBooks
    <3>3. Append(transfers, command) \in Seq(Transfer)
        BY <3>1
    <3>4. inflight \cup {command} \subseteq Transfer
        BY <3>1
    <3> QED BY <3>2, <3>3, <3>4
  <2> QED BY <2>1, <2>2
<1>7. ASSUME NEW w \in Workers, Finish(w) PROVE TypeOK'
  <2>1. /\ claim[w] \in Claim /\ claim[w].invoice \in Invoices /\ result[w] \in Result
      BY <1>7 DEF Finish, Working, Claim
  <2>2. /\ jobs' \in [Invoices -> Job]
        /\ \A j \in Invoices : jobs'[j].leaseUntil = NoLease <=> jobs'[j].status # "processing"
    <3>1. CASE ~HoldsLease(claim[w]) BY <1>7, <3>1 DEF Finish
    <3>2. CASE HoldsLease(claim[w])
      <4> DEFINE row == Finished(jobs[claim[w].invoice], claim[w], result[w], at[w])
      <4>1. /\ row \in Job
            /\ row.leaseUntil = NoLease <=> row.status # "processing"
        <5>1. jobs[claim[w].invoice] \in Job /\ at[w] \in Nat
            BY <2>1
        <5>2. /\ row \in Job /\ row.leaseUntil = NoLease
              /\ row.status \in Waiting \cup Settled
            BY <2>1, <5>1, FinishedRow
        <5>3. row.status # "processing"
            BY <5>2 DEF Waiting, Settled
        <5> QED BY <5>2, <5>3
      <4>2. jobs' = [jobs EXCEPT ![claim[w].invoice] = row]
          BY <1>7, <3>2 DEF Finish
      <4> HIDE DEF row
      <4> QED BY <2>1, <4>1, <4>2, RowTyped
    <3> QED BY <3>1, <3>2
  <2>3. BackToIdle(w) /\ UNCHANGED <<now, transfers, inflight, crashes>>
      BY <1>7 DEF Finish, provider
  <2> QED BY <1>2, <2>2, <2>3
<1>8. ASSUME NEW i \in Invoices, NEW received \in 0 .. now, Enqueue(i, received) PROVE TypeOK'
  <2>1. /\ [Absent EXCEPT !.status = "pending", !.nextAt = received] \in Job
        /\ [Absent EXCEPT !.status = "pending", !.nextAt = received].status # "processing"
        /\ [Absent EXCEPT !.status = "pending", !.nextAt = received].leaseUntil = NoLease
    <3>1. received \in Nat
        BY DEF TypeOK
    <3> QED BY <3>1 DEF Absent, Job, Status, Waiting
  <2>2. /\ jobs' \in [Invoices -> Job]
        /\ \A j \in Invoices : jobs'[j].leaseUntil = NoLease <=> jobs'[j].status # "processing"
      BY <1>8, <2>1, RowTyped DEF Enqueue
  <2> QED BY <1>8, <2>2 DEF Enqueue, worker, provider
<1>9. ASSUME NEW w \in Workers, Crash(w) PROVE TypeOK'
    BY <1>2, <1>9 DEF Crash, provider
<1>10. ASSUME NEW command \in inflight, Arrive(command) PROVE TypeOK'
    BY <1>10 DEF Arrive, worker
<1>11. CASE Tick BY <1>11 DEF Tick, worker, provider
<1>12. CASE UNCHANGED vars BY <1>12 DEF vars
<1> QED BY <1>1, <1>3, <1>4, <1>5, <1>6, <1>7, <1>8, <1>9, <1>10, <1>11, <1>12
        DEF Next, WorkerStep, Work

\* Every row and every worker keeps its type (the columns of transfer_jobs, the
\* locals of process_one), for every choice of the constants.
THEOREM TypeCorrect == Spec => []TypeOK
<1> QED BY InitTyped, NextTyped, PTL DEF Spec

-----------------------------------------------------------------------------
\* What the provider holds.

ProviderInv == AtMostOneTransfer /\ CommandsWellFormed

\* A worker's command is the command of its invoice.
LEMMA CommandOfClaim ==
    ASSUME NEW c \in Claim
    PROVE  /\ BuildTransferCommand(c) = CommandOf(c.invoice)
           /\ BuildTransferCommand(c).invoice = c.invoice
    BY DEF BuildTransferCommand, CommandOf, Claim

\* Booking a well-formed command whose external id is free keeps the invariant.
LEMMA BookOne ==
    ASSUME TypeOK, ProviderInv, NEW command \in Transfer,
           command = CommandOf(command.invoice), ~Booked(command),
           transfers' = Append(transfers, command)
    PROVE  /\ AtMostOneTransfer'
           /\ \A n \in DOMAIN transfers' : transfers'[n] = CommandOf(transfers'[n].invoice)
           /\ \A n \in DOMAIN transfers : n \in DOMAIN transfers' /\ transfers'[n] = transfers[n]
<1> DEFINE len == Len(transfers)
<1>1. /\ transfers \in Seq(Transfer) /\ len \in Nat /\ DOMAIN transfers = 1 .. len
      /\ DOMAIN transfers' = 1 .. len + 1
      /\ transfers'[len + 1] = command
      /\ \A n \in 1 .. len : transfers'[n] = transfers[n]
    BY DEF TypeOK
<1>2. \A n \in 1 .. len : transfers[n].invoice # command.invoice
  <2> SUFFICES ASSUME NEW n \in 1 .. len, transfers[n].invoice = command.invoice
               PROVE  FALSE
      OBVIOUS
  <2>1. transfers[n] = CommandOf(command.invoice)
      BY <1>1 DEF ProviderInv, CommandsWellFormed
  <2>2. transfers[n].externalId = command.externalId
      BY <2>1
  <2> QED BY <1>1, <2>2 DEF Booked
<1>3. \A n \in 1 .. len + 1 : n \in 1 .. len \/ n = len + 1
    BY <1>1
<1>4. AtMostOneTransfer'
    BY <1>1, <1>2, <1>3 DEF ProviderInv, AtMostOneTransfer
<1>5. \A n \in DOMAIN transfers' : transfers'[n] = CommandOf(transfers'[n].invoice)
    BY <1>1, <1>3 DEF ProviderInv, CommandsWellFormed
<1>6. \A n \in DOMAIN transfers : n \in DOMAIN transfers' /\ transfers'[n] = transfers[n]
    BY <1>1
<1> QED BY <1>4, <1>5, <1>6

\* What happens to the provider in any step: nothing, a request put under way,
\* or the booking of a well-formed command whose external id is free.
LEMMA ProviderStep ==
    ASSUME TypeOK, ProviderInv, [Next]_vars
    PROVE  /\ \/ UNCHANGED transfers
              \/ \E command \in Transfer : /\ command = CommandOf(command.invoice)
                                            /\ ~Booked(command)
                                            /\ transfers' = Append(transfers, command)
           /\ \A command \in inflight' : command = CommandOf(command.invoice)
<1> USE DEF ProviderInv, CommandsWellFormed
<1>1. ASSUME NEW w \in Workers, AskProvider(w)
      PROVE  /\ \/ UNCHANGED transfers
                \/ \E command \in Transfer : /\ command = CommandOf(command.invoice)
                                              /\ ~Booked(command)
                                              /\ transfers' = Append(transfers, command)
             /\ \A command \in inflight' : command = CommandOf(command.invoice)
  <2> DEFINE command == BuildTransferCommand(claim[w])
  <2>1. claim[w] \in Claim
      BY <1>1, AskShape DEF TypeOK, Working
  <2>2. command \in Transfer /\ command = CommandOf(command.invoice)
      BY <2>1, CommandTyped, CommandOfClaim
  <2>3. /\ \/ UNCHANGED transfers
           \/ ~Booked(command) /\ transfers' = Append(transfers, command)
        /\ inflight' \in {inflight, inflight \cup {command}}
      BY <1>1, AskBooks
  <2> QED BY <2>2, <2>3
<1>2. ASSUME NEW command \in inflight, Arrive(command)
      PROVE  /\ \/ UNCHANGED transfers
                \/ /\ command \in Transfer
                   /\ command = CommandOf(command.invoice)
                   /\ ~Booked(command)
                   /\ transfers' = Append(transfers, command)
             /\ inflight' \subseteq inflight
    BY <1>2 DEF Arrive, TypeOK
<1>3. CASE UNCHANGED provider BY <1>3 DEF provider
<1> QED BY <1>1, <1>2, <1>3
        DEF Next, vars, provider, WorkerStep, Work, ReadClock, ClaimNothing, ClaimJob,
            Start, Finish, Enqueue, Crash, Tick

LEMMA NextProvider == TypeOK /\ ProviderInv /\ [Next]_vars => ProviderInv'
<1> SUFFICES ASSUME TypeOK, ProviderInv, [Next]_vars PROVE ProviderInv'
    OBVIOUS
<1>1. \A command \in inflight' : command = CommandOf(command.invoice)
    BY ProviderStep
<1>2. CASE UNCHANGED transfers
    BY <1>1, <1>2 DEF ProviderInv, AtMostOneTransfer, CommandsWellFormed
<1>3. ASSUME NEW command \in Transfer, command = CommandOf(command.invoice), ~Booked(command),
             transfers' = Append(transfers, command)
      PROVE  ProviderInv'
    BY <1>1, <1>3, BookOne DEF ProviderInv, CommandsWellFormed, CommandOf, BuildTransferCommand
<1> QED BY <1>2, <1>3, ProviderStep

\* Whatever is retried, duplicated, delayed or recovered, the provider never
\* books two transfers for one invoice (ensure_transfer, build_transfer_command).
THEOREM NoDoublePayment == Spec => []AtMostOneTransfer
<1>1. Init => ProviderInv
    BY DEF Init, ProviderInv, AtMostOneTransfer, CommandsWellFormed
<1>2. ProviderInv => AtMostOneTransfer
    BY DEF ProviderInv
<1> QED BY <1>1, <1>2, InitTyped, NextTyped, NextProvider, PTL DEF Spec

-----------------------------------------------------------------------------
\* What a reported success means.

SuccessInv == SucceededMeansBooked /\ SuccessIsBooked

\* A booked transfer stays booked.
LEMMA BookedForEver ==
    ASSUME TypeOK, ProviderInv, [Next]_vars, NEW i, IsBookedFor(i)
    PROVE  IsBookedFor(i)'
<1>1. CASE UNCHANGED transfers BY <1>1 DEF IsBookedFor
<1>2. ASSUME NEW command \in Transfer, command = CommandOf(command.invoice), ~Booked(command),
             transfers' = Append(transfers, command)
      PROVE  IsBookedFor(i)'
    BY <1>2, BookOne DEF IsBookedFor
<1> QED BY <1>1, <1>2, ProviderStep

\* A lookup that finds the command finds a transfer of its invoice.
LEMMA FoundIsBooked ==
    ASSUME TypeOK, ProviderInv, NEW c \in Claim, Booked(BuildTransferCommand(c))
    PROVE  IsBookedFor(c.invoice)
    BY DEF Booked, BuildTransferCommand, IsBookedFor, ProviderInv, CommandsWellFormed, CommandOf

\* A worker concludes "succeeded" only of a transfer that is booked.
LEMMA SuccessOfAsking ==
    ASSUME TypeOK, ProviderInv, [Next]_vars, NEW w \in Workers, AskProvider(w),
           pc'[w] = "finish", result'[w] = "succeeded",
           NEW i, i = claim[w].invoice
    PROVE  IsBookedFor(i)'
<1> DEFINE command == BuildTransferCommand(claim[w])
<1>1. claim[w] \in Claim /\ pc[w] \in Asking
    BY AskShape DEF TypeOK, Working
<1>2. Booked(command) \/ CreateAnswered(w)
  <2> USE <1>1 DEF TypeOK, Goto, Conclude, HandleTimeout, HandleTransient, HandlePermanent, Asking
  <2>1. CASE EnsureLookup(w) BY <2>1 DEF EnsureLookup
  <2>2. CASE CreateUnknown(w) BY <2>2 DEF CreateUnknown
  <2>3. CASE CreateRejected(w) BY <2>3 DEF CreateRejected
  <2>4. CASE CreateRefused(w) BY <2>4 DEF CreateRefused
  <2>5. CASE Recheck(w) BY <2>5 DEF Recheck
  <2>6. CASE FinalLookup(w) BY <2>6 DEF FinalLookup
  <2>7. CASE ReconcileLookup(w) BY <2>7 DEF ReconcileLookup
  <2> QED BY <2>1, <2>2, <2>3, <2>4, <2>5, <2>6, <2>7 DEF AskProvider
<1>3. CASE Booked(command)
    BY <1>1, <1>3, FoundIsBooked, BookedForEver
<1>4. CASE CreateAnswered(w)
  <2>1. command.invoice = claim[w].invoice
      BY <1>1, CommandOfClaim
  <2>2. transfers \in Seq(Transfer) /\ transfers' = Append(transfers, command)
      BY <1>4 DEF CreateAnswered, TypeOK
  <2>3. /\ Len(transfers) + 1 \in DOMAIN transfers'
        /\ transfers'[Len(transfers) + 1] = command
      BY <2>2
  <2> QED BY <2>1, <2>3 DEF IsBookedFor
<1> QED BY <1>2, <1>3, <1>4

LEMMA NextSuccess ==
    TypeOK /\ ProviderInv /\ SuccessInv /\ [Next]_vars => SuccessInv'
<1> SUFFICES ASSUME TypeOK, ProviderInv, SuccessInv, [Next]_vars PROVE SuccessInv'
    OBVIOUS
<1> USE DEF SuccessInv, SucceededMeansBooked, SuccessIsBooked
<1>1. \A i : IsBookedFor(i) => IsBookedFor(i)'
    BY BookedForEver
<1>2. ASSUME NEW w \in Workers, AskProvider(w) PROVE SuccessInv'
  <2>1. SucceededMeansBooked'
      BY <1>1, <1>2, AskShape
  <2>2. ASSUME NEW v \in Workers, pc'[v] = "finish", result'[v] = "succeeded",
               NEW i, i = claim'[v].invoice
        PROVE  IsBookedFor(i)'
    <3>1. CASE v = w
      <4>1. claim'[v] = claim[v]
          BY <1>2, AskShape
      <4> QED BY <1>2, <2>2, <3>1, <4>1, SuccessOfAsking
    <3>2. CASE v # w
      <4>1. pc[v] = "finish" /\ result[v] = "succeeded" /\ claim'[v] = claim[v]
          BY <1>2, <2>2, <3>2, AskShape DEF TypeOK
      <4>2. IsBookedFor(i)
          BY <2>2, <4>1
      <4> QED BY <1>1, <4>2
    <3> QED BY <3>1, <3>2
  <2>3. SuccessIsBooked'
      BY <2>2 DEF IsBookedFor
  <2> QED BY <2>1, <2>3
<1>3. ASSUME NEW w \in Workers, Finish(w) PROVE SuccessInv'
  <2>1. /\ pc[w] = "finish" /\ claim[w] \in Claim /\ claim[w].invoice \in Invoices
        /\ result[w] \in Result
      BY <1>3 DEF Finish, TypeOK, Working, Claim
  <2>2. ASSUME NEW i \in Invoices, jobs'[i].status = "succeeded" PROVE IsBookedFor(i)'
    <3>1. CASE jobs'[i] = jobs[i]
        BY <1>1, <2>2, <3>1
    <3>2. CASE jobs'[i] # jobs[i]
      <4>1. /\ i = claim[w].invoice
            /\ jobs'[i] = Finished(jobs[i], claim[w], result[w], at[w])
          BY <1>3, <3>2 DEF Finish, TypeOK
      <4>2. jobs[i] \in Job /\ at[w] \in Nat
          BY DEF TypeOK
      <4>3. result[w] = "succeeded"
          BY <2>1, <2>2, <4>1, <4>2, FinishedRow
      <4> QED BY <1>1, <2>1, <4>1, <4>3
    <3> QED BY <3>1, <3>2
  <2>3. SuccessIsBooked'
      BY <1>1, <1>3 DEF Finish, BackToIdle, TypeOK
  <2> QED BY <2>2, <2>3
<1>4. ASSUME NEW w \in Workers, NEW i \in Invoices, ClaimJob(w, i) PROVE SuccessInv'
  <2>1. \A j \in Invoices : jobs'[j].status = "succeeded" => jobs[j].status = "succeeded"
    <3>1. Claimed(jobs[i], at[w]).status = "processing"
      <4>1. jobs[i] \in Job /\ at[w] \in Nat
          BY DEF TypeOK
      <4> QED BY <4>1, ClaimedRow
    <3> QED BY <1>4, <3>1 DEF ClaimJob, TypeOK
  <2>2. SuccessIsBooked'
      BY <1>1, <1>4 DEF ClaimJob, TypeOK
  <2> QED BY <1>1, <2>1, <2>2
<1>5. ASSUME NEW i \in Invoices, NEW received \in 0 .. now, Enqueue(i, received) PROVE SuccessInv'
  <2>1. \A j \in Invoices : jobs'[j].status = "succeeded" => jobs[j].status = "succeeded"
      BY <1>5 DEF Enqueue, Absent, TypeOK
  <2> QED BY <1>1, <1>5, <2>1 DEF Enqueue, worker
<1>6. ASSUME NEW w \in Workers, ReadClock(w) \/ ClaimNothing(w) \/ Start(w) \/ Crash(w)
      PROVE  SuccessInv'
    BY <1>1, <1>6 DEF ReadClock, ClaimNothing, Start, Crash, BackToIdle, TypeOK
<1>7. ASSUME UNCHANGED <<jobs, worker>> PROVE SuccessInv'
    BY <1>1, <1>7 DEF worker
<1> QED BY <1>2, <1>3, <1>4, <1>5, <1>6, <1>7
        DEF Next, vars, WorkerStep, Work, Arrive, Tick, worker

\* A job is never reported SUCCEEDED without its transfer, whichever of the six
\* ways a worker learned of it (TransferStore.succeeded).
THEOREM SuccessIsReal == Spec => []SucceededMeansBooked
<1>1. Init => ProviderInv /\ SuccessInv
    BY DEF Init, Absent, ProviderInv, AtMostOneTransfer, CommandsWellFormed, SuccessInv,
           SucceededMeansBooked, SuccessIsBooked
<1>2. SuccessInv => SucceededMeansBooked
    BY DEF SuccessInv
<1> QED BY <1>1, <1>2, InitTyped, NextTyped, NextProvider, NextSuccess, PTL DEF Spec

-----------------------------------------------------------------------------
\* The order of the leases.

LeaseInv == LeaseAge /\ LeaseOrder /\ LeasesDiffer

\* Workers that take no part in a step keep their place in the order as long as
\* the row of their job and the clock readings do.
LEMMA LeaseUntouched ==
    ASSUME TypeOK, TypeOK', LeaseInv, now <= now', jobs' = jobs,
           \A w \in Workers : pc'[w] \in Working =>
               /\ pc[w] \in Working /\ claim'[w] = claim[w]
               /\ at'[w] >= at[w]
               /\ pc'[w] = "claimed" => pc[w] = "claimed" /\ at'[w] = at[w],
           \A w \in Workers : at'[w] <= now'
    PROVE  LeaseInv'
<1>1. LeaseAge'
  <2> SUFFICES ASSUME NEW w \in Workers
               PROVE  /\ at'[w] <= now'
                      /\ pc'[w] = "claimed" => claim'[w].lease = at'[w] + LeaseSeconds
                      /\ pc'[w] \in Working => claim'[w].lease <= at'[w] + LeaseSeconds
      BY DEF LeaseAge, LeaseFrom
  <2>1. CASE pc'[w] \in Working
    <3>1. /\ pc[w] \in Working /\ claim'[w] = claim[w] /\ at'[w] >= at[w]
          /\ pc'[w] = "claimed" => pc[w] = "claimed" /\ at'[w] = at[w]
        BY <2>1
    <3>2. /\ at[w] \in Nat /\ at'[w] \in Nat /\ claim[w].lease \in Nat
        BY <3>1 DEF TypeOK, Claim
    <3>3. /\ pc[w] = "claimed" => claim[w].lease = at[w] + LeaseSeconds
          /\ claim[w].lease <= at[w] + LeaseSeconds
        BY <3>1 DEF LeaseInv, LeaseAge, LeaseFrom
    <3> QED BY <3>1, <3>2, <3>3, LeaseAssumption
  <2>2. CASE pc'[w] \notin Working
      BY <2>2 DEF Working
  <2> QED BY <2>1, <2>2
<1> USE DEF LeaseInv, TypeOK, Claim, LeaseFrom
<1>2. LeaseOrder'
    BY DEF LeaseOrder
<1>3. LeasesDiffer'
    BY DEF LeasesDiffer
<1> QED BY <1>1, <1>2, <1>3

LEMMA ClaimKeepsLeases ==
    ASSUME TypeOK, TypeOK', LeaseInv, NEW w \in Workers, NEW i \in Invoices, ClaimJob(w, i)
    PROVE  LeaseInv'
<1> DEFINE lease == LeaseFrom(at[w])
<1>1. /\ lease \in Nat /\ lease > at[w] /\ at[w] \in Nat /\ jobs[i] \in Job
    BY LeaseAssumption DEF LeaseFrom, TypeOK
<1>2. /\ claim' = [claim EXCEPT ![w] = [invoice |-> i, lease |-> lease,
                                       attempts |-> jobs[i].attempts + 1,
                                       from |-> jobs[i].status]]
      /\ pc' = [pc EXCEPT ![w] = "claimed"]
      /\ jobs' = [jobs EXCEPT ![i] = Claimed(jobs[i], at[w])]
      /\ UNCHANGED <<now, at>>
    BY DEF ClaimJob
<1>3. /\ claim'[w].invoice = i /\ claim'[w].lease = lease
      /\ claim'[w].attempts = jobs[i].attempts + 1
      /\ pc'[w] = "claimed"
    BY <1>2 DEF TypeOK
<1>4. /\ jobs'[i].status = "processing" /\ jobs'[i].leaseUntil = lease
      /\ jobs'[i].attempts = jobs[i].attempts + 1
    BY <1>1, <1>2, ClaimedRow DEF TypeOK
<1>5. \A v \in Workers : v # w => claim'[v] = claim[v] /\ pc'[v] = pc[v]
    BY <1>2 DEF TypeOK
<1>6. \A j \in Invoices : j # i => jobs'[j] = jobs[j]
    BY <1>2 DEF TypeOK
\* The new lease is later than every lease given out for the row before.
<1>7. ASSUME NEW v \in Workers, pc[v] \in Working, claim[v].invoice = i
      PROVE  claim[v].lease < lease
  <2>1. claim[v].lease \in Nat /\ jobs[i].nextAt \in Nat
      BY <1>7 DEF TypeOK, Claim, Job
  <2>2. CASE jobs[i].status \in Waiting
    <3>1. jobs[i].nextAt <= at[w]
        BY <2>2 DEF ClaimJob, Claimable, Waiting
    <3>2. claim[v].lease < LeaseFrom(jobs[i].nextAt)
        BY <1>7, <2>2 DEF LeaseInv, LeaseOrder
    <3> QED BY <1>1, <2>1, <3>1, <3>2, LeaseAssumption DEF LeaseFrom
  <2>3. CASE jobs[i].status = "processing"
    <3>1. jobs[i].leaseUntil <= at[w] /\ jobs[i].leaseUntil \in Nat
        BY <2>3 DEF ClaimJob, Claimable, Waiting, TypeOK, Job
    <3>2. claim[v].lease <= jobs[i].leaseUntil
        BY <1>7, <2>3 DEF LeaseInv, LeaseOrder
    <3> QED BY <1>1, <2>1, <3>1, <3>2
  <2> QED BY <2>2, <2>3 DEF ClaimJob, Claimable
<1>8. LeaseAge'
    BY <1>1, <1>2, <1>3, <1>5 DEF LeaseInv, LeaseAge, LeaseFrom, TypeOK, Claim
<1>9. LeaseOrder'
  <2> SUFFICES ASSUME NEW v \in Workers, pc'[v] \in Working
               PROVE  LET job == jobs'[claim'[v].invoice]
                      IN  /\ job.status # "absent"
                          /\ job.status = "processing" =>
                                 /\ claim'[v].lease <= job.leaseUntil
                                 /\ claim'[v].lease = job.leaseUntil
                                        => claim'[v].attempts = job.attempts
                          /\ job.status \in Waiting
                                 => claim'[v].lease < LeaseFrom(job.nextAt)
      BY DEF LeaseOrder, LeaseFrom
  <2>1. claim'[v] \in Claim
      BY DEF TypeOK
  <2>2. CASE v = w
      BY <1>1, <1>3, <1>4, <2>2 DEF Waiting
  <2>3. CASE v # w /\ claim[v].invoice = i
      BY <1>1, <1>4, <1>5, <1>7, <2>1, <2>3 DEF Waiting, Claim
  <2>4. CASE v # w /\ claim[v].invoice # i
      BY <1>5, <1>6, <2>1, <2>4 DEF LeaseInv, LeaseOrder, Claim
  <2> QED BY <2>2, <2>3, <2>4
<1>10. LeasesDiffer'
    BY <1>1, <1>3, <1>5, <1>7 DEF LeaseInv, LeasesDiffer
<1> QED BY <1>8, <1>9, <1>10 DEF LeaseInv

LEMMA FinishKeepsLeases ==
    ASSUME TypeOK, TypeOK', LeaseInv, NEW w \in Workers, Finish(w), HoldsLease(claim[w])
    PROVE  LeaseInv'
<1> DEFINE i == claim[w].invoice
           row == Finished(jobs[i], claim[w], result[w], at[w])
<1>1. /\ claim[w] \in Claim /\ i \in Invoices /\ result[w] \in Result
      /\ at[w] \in Nat /\ jobs[i] \in Job /\ pc[w] \in Working
    BY DEF Finish, TypeOK, Working, Claim
<1>2. /\ row.status \in Waiting \cup Settled
      /\ row.status \in Waiting => row.nextAt > at[w]
      /\ row \in Job
    BY <1>1, FinishedRow
<1>3. jobs' = [jobs EXCEPT ![i] = row] /\ UNCHANGED now
    BY DEF Finish
<1> HIDE DEF row, i
<1>4. jobs'[i] = row /\ \A j \in Invoices : j # i => jobs'[j] = jobs[j]
    BY <1>1, <1>3 DEF TypeOK
<1>5. \A v \in Workers : /\ pc'[v] \in Working => v # w
                         /\ v # w => /\ pc'[v] = pc[v] /\ claim'[v] = claim[v]
                                     /\ at'[v] = at[v]
    BY DEF Finish, BackToIdle, TypeOK, Working, Asking
<1>6. at'[w] = 0
    BY DEF Finish, BackToIdle, TypeOK
\* Leases given out for the row are not later than the one of its holder.
<1>7. ASSUME NEW v \in Workers, pc[v] \in Working, claim[v].invoice = i
      PROVE  row.status \in Waiting => claim[v].lease < LeaseFrom(row.nextAt)
  <2>1. /\ claim[v].lease \in Nat /\ claim[w].lease \in Nat /\ row.nextAt \in Nat
      BY <1>1, <1>2, <1>7 DEF TypeOK, Claim, Job
  <2>2. claim[v].lease <= claim[w].lease
      BY <1>1, <1>7 DEF LeaseInv, LeaseOrder, HoldsLease, i
  <2>3. claim[w].lease <= LeaseFrom(at[w])
      BY <1>1 DEF LeaseInv, LeaseAge
  <2> QED BY <1>1, <1>2, <2>1, <2>2, <2>3, LeaseAssumption DEF LeaseFrom
<1>8. LeaseAge'
  <2> SUFFICES ASSUME NEW v \in Workers
               PROVE  /\ at'[v] <= now'
                      /\ pc'[v] = "claimed" => claim'[v].lease = at'[v] + LeaseSeconds
                      /\ pc'[v] \in Working => claim'[v].lease <= at'[v] + LeaseSeconds
      BY DEF LeaseAge, LeaseFrom
  <2>1. CASE v = w
      BY <1>3, <1>5, <1>6, <2>1 DEF TypeOK, Working
  <2>2. CASE v # w
    <3>1. pc'[v] = pc[v] /\ claim'[v] = claim[v] /\ at'[v] = at[v]
        BY <1>5, <2>2
    <3> QED BY <1>3, <3>1 DEF LeaseInv, LeaseAge, LeaseFrom
  <2> QED BY <2>1, <2>2
<1>9. LeaseOrder'
  <2> SUFFICES ASSUME NEW v \in Workers, pc'[v] \in Working
               PROVE  LET job == jobs'[claim'[v].invoice]
                      IN  /\ job.status # "absent"
                          /\ job.status = "processing" =>
                                 /\ claim'[v].lease <= job.leaseUntil
                                 /\ claim'[v].lease = job.leaseUntil
                                        => claim'[v].attempts = job.attempts
                          /\ job.status \in Waiting
                                 => claim'[v].lease < LeaseFrom(job.nextAt)
      BY DEF LeaseOrder, LeaseFrom
  <2>1. /\ pc[v] \in Working /\ claim'[v] = claim[v] /\ claim[v] \in Claim
      BY <1>5 DEF TypeOK
  <2>2. CASE claim[v].invoice = i
    <3>1. row.status # "absent" /\ row.status # "processing"
        BY <1>2 DEF Waiting, Settled
    <3> QED BY <1>4, <1>7, <2>1, <2>2, <3>1
  <2>3. CASE claim[v].invoice # i
      BY <1>4, <2>1, <2>3 DEF LeaseInv, LeaseOrder, Claim
  <2> QED BY <2>2, <2>3
<1>10. LeasesDiffer'
    BY <1>5 DEF LeaseInv, LeasesDiffer
<1> QED BY <1>8, <1>9, <1>10 DEF LeaseInv

LEMMA NextLease == TypeOK /\ LeaseInv /\ [Next]_vars => LeaseInv'
<1> SUFFICES ASSUME TypeOK, LeaseInv, [Next]_vars PROVE LeaseInv'
    OBVIOUS
<1>0. TypeOK'
    BY NextTyped
<1>1. now <= now'
  <2>1. UNCHANGED now \/ Tick
      BY AskShape DEF Next, vars, WorkerStep, Work, ReadClock, ClaimNothing, ClaimJob,
                      Start, Finish, Enqueue, Crash, Arrive
  <2> QED BY <2>1 DEF TypeOK, Tick
<1>2. \A w \in Workers : at[w] \in Nat /\ at[w] <= now /\ now \in Nat
    BY DEF LeaseInv, LeaseAge, TypeOK
<1>3. ASSUME NEW w \in Workers, ReadClock(w) PROVE LeaseInv'
    BY <1>0, <1>1, <1>2, <1>3, LeaseUntouched DEF ReadClock, TypeOK, Working, Asking
<1>4. ASSUME NEW w \in Workers, BackToIdle(w), UNCHANGED <<now, jobs>> PROVE LeaseInv'
    BY <1>0, <1>1, <1>2, <1>4, LeaseUntouched DEF BackToIdle, TypeOK, Working, Asking
<1>5. ASSUME NEW w \in Workers, Start(w) PROVE LeaseInv'
    BY <1>0, <1>1, <1>2, <1>5, LeaseUntouched DEF Start, TypeOK, Working, Asking
<1>6. ASSUME NEW w \in Workers, AskProvider(w) PROVE LeaseInv'
  <2>1. /\ pc[w] \in Asking
        /\ UNCHANGED <<now, jobs, at, claim, crashes>>
        /\ \E l \in Asking \cup {"finish"} : pc' = [pc EXCEPT ![w] = l]
      BY <1>6, AskShape
  <2> QED BY <1>0, <1>1, <1>2, <2>1, LeaseUntouched DEF TypeOK, Working, Asking
<1>7. ASSUME NEW i \in Invoices, NEW received \in 0 .. now, Enqueue(i, received) PROVE LeaseInv'
  <2>1. /\ jobs[i].status = "absent"
        /\ \A j \in Invoices : j # i => jobs'[j] = jobs[j]
        /\ UNCHANGED <<now, pc, at, claim>>
      BY <1>7 DEF Enqueue, worker, TypeOK
  <2>2. \A w \in Workers : pc[w] \in Working => claim[w].invoice # i /\ claim[w] \in Claim
      BY <2>1 DEF LeaseInv, LeaseOrder, TypeOK
  <2>3. LeaseOrder'
      BY <2>1, <2>2 DEF LeaseInv, LeaseOrder, LeaseFrom, Claim
  <2> QED BY <2>1, <2>3 DEF LeaseInv, LeaseAge, LeasesDiffer, LeaseFrom
<1>8. ASSUME UNCHANGED <<jobs, pc, at, claim>> PROVE LeaseInv'
    BY <1>0, <1>1, <1>2, <1>8, LeaseUntouched DEF TypeOK
<1>9. ASSUME NEW w \in Workers, NEW i \in Invoices, ClaimJob(w, i) PROVE LeaseInv'
    BY <1>0, <1>9, ClaimKeepsLeases
<1>10. ASSUME NEW w \in Workers, Finish(w) PROVE LeaseInv'
  <2>1. CASE HoldsLease(claim[w]) BY <1>0, <1>10, <2>1, FinishKeepsLeases
  <2>2. CASE ~HoldsLease(claim[w]) BY <1>4, <1>10, <2>2 DEF Finish
  <2> QED BY <2>1, <2>2
<1>11. ASSUME NEW w \in Workers, ClaimNothing(w) \/ Crash(w) PROVE LeaseInv'
    BY <1>4, <1>11 DEF ClaimNothing, Crash
<1> QED BY <1>3, <1>5, <1>6, <1>7, <1>8, <1>9, <1>10, <1>11
        DEF Next, vars, WorkerStep, Work, Arrive, Tick, worker

-----------------------------------------------------------------------------
\* Requests are made for accepted credits only, and a row is never removed.

LEMMA RowsRemain ==
    ASSUME TypeOK, [Next]_vars, NEW i \in Invoices, jobs[i].status # "absent"
    PROVE  jobs'[i].status # "absent"
<1>1. ASSUME NEW w \in Workers, NEW j \in Invoices, ClaimJob(w, j) PROVE jobs'[i].status # "absent"
  <2>1. Claimed(jobs[j], at[w]).status = "processing"
    <3>1. jobs[j] \in Job /\ at[w] \in Nat
        BY DEF TypeOK
    <3> QED BY <3>1, ClaimedRow
  <2> QED BY <1>1, <2>1 DEF ClaimJob, TypeOK
<1>2. ASSUME NEW w \in Workers, Finish(w) PROVE jobs'[i].status # "absent"
  <2>1. /\ claim[w] \in Claim /\ result[w] \in Result /\ at[w] \in Nat /\ jobs[i] \in Job
      BY <1>2 DEF Finish, TypeOK, Working
  <2>2. Finished(jobs[i], claim[w], result[w], at[w]).status \in Waiting \cup Settled
      BY <2>1, FinishedRow
  <2>3. jobs'[i] \in {jobs[i], Finished(jobs[i], claim[w], result[w], at[w])}
      BY <1>2 DEF Finish, TypeOK
  <2> QED BY <2>2, <2>3 DEF Waiting, Settled
<1>3. ASSUME NEW j \in Invoices, NEW received \in 0 .. now, Enqueue(j, received)
      PROVE  jobs'[i].status # "absent"
    BY <1>3 DEF Enqueue, TypeOK
<1>4. ASSUME NEW w \in Workers, AskProvider(w) PROVE jobs' = jobs
    BY <1>4, AskShape
<1> QED BY <1>1, <1>2, <1>3, <1>4
        DEF Next, vars, WorkerStep, Work, ReadClock, ClaimNothing, Start, Crash, Arrive, Tick

\* A row comes into being by Enqueue only.
LEMMA NothingClaimsAbsent ==
    ASSUME TypeOK, Work, NEW i \in Invoices, jobs[i].status = "absent"
    PROVE  jobs'[i] = jobs[i]
<1>1. ASSUME NEW w \in Workers, NEW j \in Invoices, ClaimJob(w, j) PROVE jobs'[i] = jobs[i]
    BY <1>1 DEF ClaimJob, Claimable, Waiting, TypeOK
<1>2. ASSUME NEW w \in Workers, Finish(w) PROVE jobs'[i] = jobs[i]
    BY <1>2 DEF Finish, HoldsLease, TypeOK
<1>3. ASSUME NEW w \in Workers, AskProvider(w) PROVE jobs' = jobs
    BY <1>3, AskShape
<1> QED BY <1>1, <1>2, <1>3
        DEF Work, WorkerStep, ReadClock, ClaimNothing, Start, Crash, Arrive, Tick

LEMMA NextRequests ==
    TypeOK /\ LeaseInv /\ OnlyCreditsRequested /\ [Next]_vars => OnlyCreditsRequested'
<1> SUFFICES ASSUME TypeOK, LeaseInv, OnlyCreditsRequested, [Next]_vars
             PROVE  OnlyCreditsRequested'
    OBVIOUS
\* What was requested or booked before.
<1>1. /\ \A command \in inflight : jobs'[command.invoice].status # "absent"
      /\ \A n \in DOMAIN transfers : jobs'[transfers[n].invoice].status # "absent"
  <2>1. /\ \A command \in inflight : command.invoice \in Invoices
        /\ \A n \in DOMAIN transfers : transfers[n].invoice \in Invoices
    <3>1. transfers \in Seq(Transfer) /\ inflight \subseteq Transfer
        BY DEF TypeOK
    <3>2. \A n \in DOMAIN transfers : transfers[n] \in Transfer
        BY <3>1
    <3> QED BY <3>1, <3>2 DEF Transfer
  <2> QED BY <2>1, RowsRemain DEF OnlyCreditsRequested
\* One more request, or one more transfer.
<1>2. ASSUME NEW command, command \in Transfer, jobs'[command.invoice].status # "absent",
             UNCHANGED transfers \/ transfers' = Append(transfers, command),
             inflight' \subseteq inflight \cup {command}
      PROVE  OnlyCreditsRequested'
  <2>1. \A n \in DOMAIN transfers' :
            \/ n \in DOMAIN transfers /\ transfers'[n] = transfers[n]
            \/ transfers'[n] = command
      BY <1>2 DEF TypeOK
  <2> QED BY <1>1, <1>2, <2>1 DEF OnlyCreditsRequested
<1>3. ASSUME NEW w \in Workers, AskProvider(w) PROVE OnlyCreditsRequested'
  <2> DEFINE command == BuildTransferCommand(claim[w])
  <2>1. pc[w] \in Working /\ claim[w] \in Claim /\ claim[w].invoice \in Invoices
      BY <1>3, AskShape DEF Working, TypeOK, Claim
  <2>2. command \in Transfer /\ command.invoice = claim[w].invoice
      BY <2>1, CommandTyped, CommandOfClaim
  <2>3. jobs[claim[w].invoice].status # "absent"
      BY <2>1 DEF LeaseInv, LeaseOrder
  <2>4. jobs'[command.invoice].status # "absent"
      BY <2>1, <2>2, <2>3, RowsRemain
  <2>5. /\ UNCHANGED transfers \/ transfers' = Append(transfers, command)
        /\ inflight' \subseteq inflight \cup {command}
      BY <1>3, AskBooks
  <2> HIDE DEF command
  <2> QED BY <1>2, <2>2, <2>4, <2>5
<1>4. ASSUME NEW command \in inflight, Arrive(command) PROVE OnlyCreditsRequested'
  <2>1. /\ command \in Transfer
        /\ UNCHANGED transfers \/ transfers' = Append(transfers, command)
        /\ inflight' \subseteq inflight \cup {command}
      BY <1>4 DEF Arrive, TypeOK
  <2> QED BY <1>1, <1>2, <2>1
<1>5. CASE UNCHANGED provider
    BY <1>1, <1>5 DEF OnlyCreditsRequested, provider
<1> QED BY <1>3, <1>4, <1>5
        DEF Next, vars, WorkerStep, Work, ReadClock, ClaimNothing, ClaimJob, Start, Finish,
            Enqueue, Crash, Tick, provider

-----------------------------------------------------------------------------
\* The inductive invariant, and what follows from it.

LEMMA InitInv == Init => IndInv
    BY InitTyped DEF Init, Absent, IndInv, AtMostOneTransfer, CommandsWellFormed,
       SucceededMeansBooked, SuccessIsBooked, LeaseAge, LeaseOrder, LeasesDiffer, OnlyCreditsRequested,
       Working, Asking

LEMMA NextInv == IndInv /\ [Next]_vars => IndInv'
    BY NextTyped, NextProvider, NextSuccess, NextLease, NextRequests
       DEF IndInv, ProviderInv, SuccessInv, LeaseInv

\* IndInv is an invariant: with the types, the leases of a row grow with every
\* claim, so that the WHERE clause of _finish recognises the latest one.
THEOREM InvariantHolds == Spec => []IndInv
<1> QED BY InitInv, NextInv, PTL DEF Spec

\* At most one worker can still write a row (TransferStore.claim, _finish), for
\* any number of workers, with any stale clock readings.
THEOREM SingleHolder == Spec => []OneHolder
<1>1. IndInv => OneHolder
    BY DEF IndInv, LeasesDiffer, OneHolder, HoldsLease
<1> QED BY <1>1, InvariantHolds, PTL

\* A row leaves "processing" only through the worker with its latest claim.
LEMMA StepDecidedByLatest == IndInv /\ [Next]_vars => LatestClaimDecides
<1> SUFFICES ASSUME IndInv, [Next]_vars, NEW i \in Invoices,
                    jobs[i].status = "processing", jobs'[i].status # "processing"
             PROVE  \E w \in Workers : /\ pc[w] = "finish" /\ pc'[w] = "idle"
                                       /\ claim[w].invoice = i
                                       /\ claim[w].attempts = jobs[i].attempts
    BY DEF LatestClaimDecides
<1>1. TypeOK /\ LeaseOrder
    BY DEF IndInv
<1>2. ASSUME NEW w \in Workers, NEW j \in Invoices, ClaimJob(w, j) PROVE FALSE
  <2>1. Claimed(jobs[j], at[w]).status = "processing"
    <3>1. jobs[j] \in Job /\ at[w] \in Nat
        BY <1>1 DEF TypeOK
    <3> QED BY <3>1, ClaimedRow
  <2> QED BY <1>1, <1>2, <2>1 DEF ClaimJob, TypeOK
<1>3. ASSUME NEW j \in Invoices, NEW received \in 0 .. now, Enqueue(j, received) PROVE FALSE
    BY <1>1, <1>3 DEF Enqueue, Absent, TypeOK
<1>4. ASSUME NEW w \in Workers, Finish(w)
      PROVE  /\ pc[w] = "finish" /\ pc'[w] = "idle"
             /\ claim[w].invoice = i /\ claim[w].attempts = jobs[i].attempts
  <2>1. /\ pc[w] = "finish" /\ pc'[w] = "idle"
        /\ HoldsLease(claim[w]) /\ claim[w].invoice = i
        /\ pc[w] \in Working /\ claim[w] \in Claim
      BY <1>1, <1>4 DEF Finish, BackToIdle, TypeOK, Working
  <2> QED BY <1>1, <2>1 DEF LeaseOrder, HoldsLease
<1>5. jobs' # jobs
    OBVIOUS
<1>6. ASSUME NEW w \in Workers, AskProvider(w) PROVE FALSE
    BY <1>1, <1>5, <1>6, AskShape
<1> QED BY <1>2, <1>3, <1>4, <1>5, <1>6
        DEF Next, vars, WorkerStep, Work, ReadClock, ClaimNothing, Start, Crash, Arrive, Tick

\* No outcome of a superseded attempt is ever written over a newer claim: the
\* fencing of _finish, for every number of workers and every clock.
THEOREM FencingWorks == Spec => NoStaleOutcome
<1> QED BY InvariantHolds, StepDecidedByLatest, PTL DEF Spec, NoStaleOutcome

\* No step of a worker touches a settled row.
LEMMA StepKeepsSettled == TypeOK /\ [Next]_vars => SettledStays
<1> SUFFICES ASSUME TypeOK, [Next]_vars, NEW i \in Invoices, jobs[i].status \in Settled
             PROVE  jobs'[i] = jobs[i]
    BY DEF SettledStays
<1> USE DEF TypeOK, Settled, Waiting
<1>1. ASSUME NEW w \in Workers, NEW j \in Invoices, ClaimJob(w, j) PROVE jobs'[i] = jobs[i]
    BY <1>1 DEF ClaimJob, Claimable
<1>2. ASSUME NEW w \in Workers, Finish(w) PROVE jobs'[i] = jobs[i]
    BY <1>2 DEF Finish, HoldsLease
<1>3. ASSUME NEW j \in Invoices, NEW received \in 0 .. now, Enqueue(j, received)
      PROVE  jobs'[i] = jobs[i]
    BY <1>3 DEF Enqueue
<1>4. ASSUME NEW w \in Workers, AskProvider(w) PROVE jobs' = jobs
    BY <1>4, AskShape
<1> QED BY <1>1, <1>2, <1>3, <1>4
        DEF Next, vars, WorkerStep, Work, ReadClock, ClaimNothing, Start, Crash, Arrive, Tick

\* SUCCEEDED and PERMANENT_FAILURE are final, however late a worker writes.
THEOREM SettledForEver == Spec => SettledIsFinal
<1> QED BY InitTyped, NextTyped, StepKeepsSettled, PTL DEF Spec, SettledIsFinal

-----------------------------------------------------------------------------
\* TransferDispatch implements TransferLedger.

LEMMA LedgerStep == IndInv /\ [Next]_vars => [Ledger!Next]_(Ledger!vars)
<1> SUFFICES ASSUME IndInv, [Next]_vars PROVE [Ledger!Next]_(Ledger!vars)
    OBVIOUS
<1>1. /\ TypeOK /\ ProviderInv /\ SuccessIsBooked /\ LeaseInv /\ OnlyCreditsRequested
    BY DEF IndInv, ProviderInv, LeaseInv
<1> DEFINE outcome == [i \in Invoices |-> DebtOutcome(jobs[i])]
\* Booking a command for a row that exists is the payment of its debt.
<1>2. ASSUME NEW command \in Transfer, command = CommandOf(command.invoice), ~Booked(command),
             transfers' = Append(transfers, command), UNCHANGED jobs,
             jobs[command.invoice].status # "absent"
      PROVE  \E i \in Invoices : Ledger!Pay(i)
  <2>1. /\ command.invoice \in Invoices /\ command.externalId \in ExternalIds
        /\ command = [externalId |-> command.externalId, invoice |-> command.invoice]
      BY DEF Transfer
  <2>2. ~ \E n \in DOMAIN transfers : transfers[n].invoice = command.invoice
      BY <1>1, <1>2 DEF ProviderInv, CommandsWellFormed, Booked
  <2>3. DebtOutcome(jobs[command.invoice]) # "none"
      BY <1>2 DEF DebtOutcome
  <2> QED BY <1>2, <2>1, <2>2, <2>3 DEF Ledger!Pay, Ledger!IsPaid
<1>3. ASSUME NEW w \in Workers, AskProvider(w) PROVE [Ledger!Next]_(Ledger!vars)
  <2> DEFINE command == BuildTransferCommand(claim[w])
  <2>1. /\ UNCHANGED jobs /\ pc[w] \in Working /\ claim[w] \in Claim
      BY <1>1, <1>3, AskShape DEF Working, TypeOK
  <2>2. /\ command \in Transfer /\ command = CommandOf(command.invoice)
        /\ command.invoice = claim[w].invoice
      BY <2>1, CommandTyped, CommandOfClaim
  <2>3. jobs[command.invoice].status # "absent"
      BY <1>1, <2>1, <2>2 DEF LeaseInv, LeaseOrder
  <2>4. \/ UNCHANGED transfers
        \/ ~Booked(command) /\ transfers' = Append(transfers, command)
      BY <1>3, AskBooks
  <2>5. CASE UNCHANGED transfers BY <2>1, <2>5 DEF Ledger!vars
  <2>6. CASE ~Booked(command) /\ transfers' = Append(transfers, command)
      BY <1>2, <2>1, <2>2, <2>3, <2>6 DEF Ledger!Next
  <2> QED BY <2>4, <2>5, <2>6
<1>4. ASSUME NEW command \in inflight, Arrive(command) PROVE [Ledger!Next]_(Ledger!vars)
  <2>1. /\ command \in Transfer /\ command = CommandOf(command.invoice)
        /\ jobs[command.invoice].status # "absent" /\ UNCHANGED jobs
      BY <1>1, <1>4 DEF TypeOK, ProviderInv, CommandsWellFormed, OnlyCreditsRequested, Arrive
  <2>2. CASE UNCHANGED transfers BY <2>1, <2>2 DEF Ledger!vars
  <2>3. CASE ~Booked(command) /\ transfers' = Append(transfers, command)
      BY <1>2, <2>1, <2>3 DEF Ledger!Next
  <2> QED BY <1>4, <2>2, <2>3 DEF Arrive
<1>5. ASSUME NEW i \in Invoices, NEW received \in 0 .. now, Enqueue(i, received) PROVE Ledger!Accept(i)
  <2>1. /\ DebtOutcome(jobs[i]) = "none" /\ jobs' = [jobs EXCEPT ![i] = jobs'[i]]
        /\ DebtOutcome(jobs'[i]) = "owed" /\ UNCHANGED transfers
      BY <1>1, <1>5 DEF Enqueue, Absent, DebtOutcome, TypeOK, provider
  <2>2. outcome' = [outcome EXCEPT ![i] = "owed"]
      BY <1>1, <2>1 DEF TypeOK
  <2> QED BY <2>1, <2>2 DEF Ledger!Accept
<1>6. ASSUME NEW w \in Workers, NEW i \in Invoices, ClaimJob(w, i) PROVE UNCHANGED Ledger!vars
  <2>1. Claimed(jobs[i], at[w]).status = "processing"
    <3>1. jobs[i] \in Job /\ at[w] \in Nat
        BY <1>1 DEF TypeOK
    <3> QED BY <3>1, ClaimedRow
  <2>2. jobs[i].status \in {"pending", "unknown", "processing"}
      BY <1>6 DEF ClaimJob, Claimable, Waiting
  <2>3. \A j \in Invoices : DebtOutcome(jobs'[j]) = DebtOutcome(jobs[j])
      BY <1>1, <1>6, <2>1, <2>2 DEF ClaimJob, TypeOK, DebtOutcome
  <2> QED BY <1>6, <2>3 DEF Ledger!vars, ClaimJob, provider
<1>7. ASSUME NEW w \in Workers, Finish(w), HoldsLease(claim[w])
      PROVE  [Ledger!Next]_(Ledger!vars)
  <2> DEFINE i == claim[w].invoice
             row == Finished(jobs[i], claim[w], result[w], at[w])
  <2>1. /\ claim[w] \in Claim /\ i \in Invoices /\ result[w] \in Result
        /\ at[w] \in Nat /\ jobs[i] \in Job /\ jobs[i].status = "processing"
      BY <1>1, <1>7 DEF Finish, TypeOK, Working, Claim, HoldsLease
  <2>2. /\ row.status \in Waiting \cup Settled
        /\ row.status = "succeeded" <=> result[w] = "succeeded"
      BY <2>1, FinishedRow
  <2>3. jobs' = [jobs EXCEPT ![i] = row] /\ UNCHANGED transfers
      BY <1>7 DEF Finish, provider
  <2>4. DebtOutcome(jobs[i]) = "owed"
      BY <2>1 DEF DebtOutcome
  <2>5. outcome' = [outcome EXCEPT ![i] = DebtOutcome(row)]
    <3> HIDE DEF row
    <3> QED BY <1>1, <2>1, <2>3 DEF TypeOK
  <2>6. CASE row.status \in Waiting
    <3>1. DebtOutcome(row) = "owed"
        BY <2>6 DEF DebtOutcome, Waiting
    <3>2. outcome' = outcome
        BY <2>1, <2>4, <2>5, <3>1
    <3> QED BY <2>3, <3>2 DEF Ledger!vars
  <2>7. CASE row.status = "succeeded"
    <3>1. DebtOutcome(row) = "succeeded"
        BY <2>7 DEF DebtOutcome
    <3>2. IsBookedFor(i)
        BY <1>1, <1>7, <2>2, <2>7 DEF SuccessIsBooked, Finish
    <3>3. Ledger!Succeed(i)
        BY <2>1, <2>3, <2>4, <2>5, <3>1, <3>2 DEF Ledger!Succeed, Ledger!IsPaid, IsBookedFor
    <3> QED BY <2>1, <3>3 DEF Ledger!Next
  <2>8. CASE row.status = "permanent_failure"
    <3>1. DebtOutcome(row) = "failed"
        BY <2>8 DEF DebtOutcome
    <3>2. Ledger!Fail(i)
        BY <2>1, <2>3, <2>4, <2>5, <3>1 DEF Ledger!Fail
    <3> QED BY <2>1, <3>2 DEF Ledger!Next
  <2> QED BY <2>2, <2>6, <2>7, <2>8 DEF Settled
<1>8. CASE UNCHANGED <<jobs, transfers>> BY <1>8 DEF Ledger!vars
<1> QED BY <1>3, <1>4, <1>5, <1>6, <1>7, <1>8
        DEF Next, vars, provider, WorkerStep, Work, ReadClock, ClaimNothing, Start, Finish,
            Crash, Tick, Ledger!Next

\* Workers that crash, lose answers and race for leases implement the ledger of
\* debts: each accepted credit is paid at most once, reported as succeeded only
\* after it was paid, and never un-settled.
THEOREM LedgerImplemented == Spec => ImplementsLedger
<1>1. Init => Ledger!Init
    BY DEF Init, Ledger!Init, Absent, DebtOutcome
<1> QED BY <1>1, LedgerStep, InvariantHolds, PTL DEF Spec, ImplementsLedger, Ledger!Spec

-----------------------------------------------------------------------------
\* The timely clock: nobody but a worker that dies takes the attempts beyond the maximum.

LEMMA TimelyIsNext == TypeOK /\ TimelyNext => Next
    BY DEF TypeOK, TimelyNext, TimelyEnvironment, QuietTick, Next, Work

\* An attempt asks for another one only if it was not the last.
LEMMA AskRetries ==
    ASSUME TypeOK, NEW w \in Workers, AskProvider(w),
           pc'[w] = "finish", result'[w] \in {"retry", "unknown"}
    PROVE  ~Exhausted(claim[w])
<1> USE DEF TypeOK, Goto, Conclude, HandleTimeout, HandleTransient, HandlePermanent
<1>1. CASE EnsureLookup(w) BY <1>1 DEF EnsureLookup
<1>2. CASE CreateAnswered(w) BY <1>2 DEF CreateAnswered
<1>3. CASE CreateUnknown(w) BY <1>3 DEF CreateUnknown
<1>4. CASE CreateRejected(w) BY <1>4 DEF CreateRejected
<1>5. CASE CreateRefused(w) BY <1>5 DEF CreateRefused
<1>6. CASE Recheck(w) BY <1>6 DEF Recheck
<1>7. CASE FinalLookup(w) BY <1>7 DEF FinalLookup
<1>8. CASE ReconcileLookup(w) BY <1>8 DEF ReconcileLookup
<1> QED BY <1>1, <1>2, <1>3, <1>4, <1>5, <1>6, <1>7, <1>8 DEF AskProvider

\* A step that leaves the rows alone and keeps every holder at its row.
LEMMA HoldersKept ==
    ASSUME TypeOK, TypeOK', TimelyInv, jobs' = jobs, UNCHANGED <<now, crashes>>,
           \A w \in Workers :
               /\ pc'[w] \in Working <=> pc[w] \in Working
               /\ pc[w] \in Working => claim'[w] = claim[w] /\ at'[w] = now,
           RetriesInTime'
    PROVE  TimelyInv'
<1>1. HolderIsPrompt'
    BY DEF TimelyInv, HolderIsPrompt, HoldsLease, LeaseFrom
<1>2. NothingOverdue' /\ AttemptsBounded'
    BY DEF TimelyInv, NothingOverdue, AttemptsBounded
<1>3. \A i \in Invoices : Held(i)' <=> Held(i)
    BY DEF Held
<1>4. AttemptLeft'
    BY <1>3 DEF TimelyInv, AttemptLeft
<1> QED BY <1>1, <1>2, <1>4 DEF TimelyInv

LEMMA ClaimKeepsTimely ==
    ASSUME TypeOK, TypeOK', IndInv, TimelyInv,
           NEW w \in Workers, NEW i \in Invoices, ClaimJob(w, i)
    PROVE  TimelyInv'
<1>1. /\ jobs' = [jobs EXCEPT ![i] = Claimed(jobs[i], at[w])]
      /\ claim'[w].invoice = i /\ claim'[w].lease = LeaseFrom(at[w])
      /\ pc'[w] = "claimed" /\ UNCHANGED <<now, at, crashes, result>>
      /\ Claimable(jobs[i], at[w])
    BY DEF ClaimJob, TypeOK
<1>2. \A v \in Workers : v # w => claim'[v] = claim[v] /\ pc'[v] = pc[v]
    BY DEF ClaimJob, TypeOK
<1>3. \A j \in Invoices : j # i => jobs'[j] = jobs[j]
    BY <1>1 DEF TypeOK
<1>4. /\ jobs[i] \in Job /\ at[w] \in Nat /\ now \in Nat /\ crashes \in Nat /\ at[w] <= now
    BY DEF TypeOK, IndInv, LeaseAge
<1>5. /\ jobs'[i].status = "processing" /\ jobs'[i].attempts = jobs[i].attempts + 1
      /\ jobs'[i].leaseUntil = LeaseFrom(at[w])
  <2>1. jobs'[i] = Claimed(jobs[i], at[w])
      BY <1>1 DEF TypeOK
  <2>2. jobs[i] \in Job /\ at[w] \in Nat
      BY <1>4
  <2>3. /\ Claimed(jobs[i], at[w]).status = "processing"
        /\ Claimed(jobs[i], at[w]).attempts = jobs[i].attempts + 1
        /\ Claimed(jobs[i], at[w]).leaseUntil = LeaseFrom(at[w])
      BY <2>2, ClaimedRow
  <2> QED BY <2>1, <2>3
<1>6. at[w] = now
  <2>1. /\ jobs[i].nextAt \in Nat
        /\ jobs[i].status = "processing" => jobs[i].leaseUntil \in Nat
      BY <1>4 DEF TypeOK, Job
  <2>2. /\ jobs[i].status \in Waiting => jobs[i].nextAt >= now
        /\ jobs[i].status = "processing" => jobs[i].leaseUntil >= now
      BY DEF TimelyInv, NothingOverdue
  <2> QED BY <1>1, <1>4, <2>1, <2>2 DEF Claimable
<1>7. now < LeaseFrom(now)
    BY <1>4, LeaseAssumption DEF LeaseFrom
<1>8. ~Held(i)
  <2> SUFFICES ASSUME NEW v \in Workers, pc[v] \in Working, claim[v].invoice = i PROVE FALSE
      BY DEF Held
  <2>1. /\ jobs[i].status = "processing" /\ jobs[i].leaseUntil = LeaseFrom(now)
      BY DEF TimelyInv, HolderIsPrompt, HoldsLease
  <2>2. LeaseFrom(now) \in Nat
      BY <1>4, LeaseAssumption DEF LeaseFrom
  <2>3. ~(LeaseFrom(now) <= now)
      BY <1>4, <1>7, <2>2
  <2> QED BY <1>1, <1>6, <2>1, <2>3 DEF Claimable, Waiting
<1>9. HolderIsPrompt'
  <2> SUFFICES ASSUME NEW v \in Workers, pc'[v] \in Working
               PROVE  /\ at[v] = now /\ claim'[v].lease = LeaseFrom(now)
                      /\ jobs'[claim'[v].invoice].status = "processing"
                      /\ jobs'[claim'[v].invoice].leaseUntil = claim'[v].lease
      BY <1>1 DEF HolderIsPrompt, HoldsLease, LeaseFrom
  <2>1. CASE v = w BY <1>1, <1>5, <1>6, <2>1
  <2>2. CASE v # w
    <3>1. claim[v].invoice # i /\ claim[v].invoice \in Invoices
        BY <1>2, <1>8, <2>2 DEF Held, TypeOK, Claim
    <3> QED BY <1>2, <1>3, <2>2, <3>1 DEF TimelyInv, HolderIsPrompt, HoldsLease
  <2> QED BY <2>1, <2>2
<1>10. NothingOverdue'
  <2>1. jobs'[i].leaseUntil >= now
      BY <1>4, <1>5, <1>6, LeaseAssumption DEF LeaseFrom
  <2> QED BY <1>1, <1>3, <1>5, <2>1 DEF TimelyInv, NothingOverdue, Waiting
<1>11. RetriesInTime'
    BY <1>1, <1>2 DEF TimelyInv, RetriesInTime, Exhausted
<1>12. AttemptLeft'
  <2> SUFFICES ASSUME NEW j \in Invoices,
                      jobs'[j].status \in Waiting \/ (jobs'[j].status = "processing" /\ ~Held(j)')
               PROVE  jobs'[j].attempts < MaxAttempts + crashes'
      BY DEF AttemptLeft
  <2>1. j # i
      BY <1>1, <1>5 DEF Held, Waiting, Working
  <2>2. Held(j) => Held(j)'
    <3> SUFFICES ASSUME NEW v \in Workers, pc[v] \in Working, claim[v].invoice = j PROVE Held(j)'
        BY DEF Held
    <3>1. v # w
        BY DEF ClaimJob, Working, Asking
    <3> QED BY <1>2, <3>1 DEF Held
  <2> QED BY <1>1, <1>3, <2>1, <2>2 DEF TimelyInv, AttemptLeft
<1>13. AttemptsBounded'
  <2>1. jobs[i].attempts < MaxAttempts + crashes
      BY <1>1, <1>8 DEF TimelyInv, AttemptLeft, Claimable
  <2>2. jobs[i].attempts \in Nat
      BY <1>4 DEF Job
  <2> QED BY <1>1, <1>3, <1>4, <1>5, <2>1, <2>2, AttemptsAssumption DEF TimelyInv, AttemptsBounded
<1> QED BY <1>9, <1>10, <1>11, <1>12, <1>13 DEF TimelyInv

LEMMA FinishKeepsTimely ==
    ASSUME TypeOK, TypeOK', IndInv, TimelyInv, NEW w \in Workers, Finish(w)
    PROVE  TimelyInv'
<1> DEFINE i == claim[w].invoice
           row == Finished(jobs[i], claim[w], result[w], at[w])
<1>1. /\ pc[w] = "finish" /\ pc[w] \in Working /\ claim[w] \in Claim /\ result[w] \in Result
      /\ jobs[i] \in Job /\ i \in Invoices /\ now \in Nat /\ crashes \in Nat
    BY DEF Finish, Working, TypeOK, Claim
<1>2. HoldsLease(claim[w]) /\ at[w] = now
    BY <1>1 DEF TimelyInv, HolderIsPrompt
<1>3. /\ row \in Job /\ row.status \in Waiting \cup Settled
      /\ row.status \in Waiting => row.nextAt > now
    BY <1>1, <1>2, FinishedRow
<1>4. row.attempts = jobs[i].attempts /\ row.status = StatusAfter[result[w]]
    BY <1>1 DEF Finished, Job
<1>5. jobs' = [jobs EXCEPT ![i] = row] /\ UNCHANGED <<now, crashes>>
    BY <1>2 DEF Finish
<1> HIDE DEF row
<1>6. jobs'[i] = row /\ \A j \in Invoices : j # i => jobs'[j] = jobs[j]
    BY <1>1, <1>5 DEF TypeOK
<1>7. \A v \in Workers : /\ pc'[v] \in Working => v # w
                         /\ v # w => /\ pc'[v] = pc[v] /\ claim'[v] = claim[v]
                                     /\ at'[v] = at[v] /\ result'[v] = result[v]
    BY DEF Finish, BackToIdle, TypeOK, Working, Asking
\* Nobody else holds the row.
<1>8. \A v \in Workers : v # w /\ pc[v] \in Working => claim[v].invoice # i
    BY <1>1 DEF TimelyInv, HolderIsPrompt, IndInv, LeasesDiffer
<1>9. HolderIsPrompt'
  <2> SUFFICES ASSUME NEW v \in Workers, pc'[v] \in Working
               PROVE  /\ at'[v] = now /\ claim'[v].lease = LeaseFrom(now)
                      /\ jobs'[claim'[v].invoice].status = "processing"
                      /\ jobs'[claim'[v].invoice].leaseUntil = claim'[v].lease
      BY <1>5 DEF HolderIsPrompt, HoldsLease, LeaseFrom
  <2>1. /\ pc[v] \in Working /\ claim'[v] = claim[v] /\ at'[v] = at[v]
        /\ claim[v].invoice # i /\ claim[v].invoice \in Invoices
      BY <1>7, <1>8 DEF TypeOK, Claim
  <2> QED BY <1>6, <2>1 DEF TimelyInv, HolderIsPrompt, HoldsLease
<1>10. NothingOverdue'
  <2>1. row.nextAt \in Nat /\ row.status # "processing"
      BY <1>3 DEF Job, Waiting, Settled
  <2> QED BY <1>1, <1>3, <1>5, <1>6, <2>1 DEF TimelyInv, NothingOverdue
<1>11. RetriesInTime'
  <2> SUFFICES ASSUME NEW v \in Workers, pc'[v] = "finish", result'[v] \in {"retry", "unknown"}
               PROVE  ~Exhausted(claim'[v])
      BY DEF RetriesInTime, Exhausted
  <2>1. v # w
      BY <1>7 DEF Working
  <2> QED BY <1>7, <2>1 DEF TimelyInv, RetriesInTime
<1>12. row.status \in Waiting => row.attempts < MaxAttempts + crashes
  <2> SUFFICES ASSUME row.status \in Waiting PROVE row.attempts < MaxAttempts + crashes
      OBVIOUS
  <2>1. result[w] \in {"retry", "unknown"}
      BY <1>1, <1>4 DEF StatusAfter, Result, Waiting
  <2>2. ~Exhausted(claim[w])
      BY <1>1, <2>1 DEF TimelyInv, RetriesInTime
  <2>3. claim[w].attempts = jobs[i].attempts
      BY <1>1, <1>2 DEF IndInv, LeaseOrder, HoldsLease
  <2>4. jobs[i].attempts \in Nat
      BY <1>1 DEF Job
  <2> QED BY <1>1, <1>4, <2>2, <2>3, <2>4, AttemptsAssumption DEF Exhausted
<1>13. AttemptLeft'
  <2> SUFFICES ASSUME NEW j \in Invoices,
                      jobs'[j].status \in Waiting \/ (jobs'[j].status = "processing" /\ ~Held(j)')
               PROVE  jobs'[j].attempts < MaxAttempts + crashes
      BY <1>5 DEF AttemptLeft
  <2>1. CASE j = i
      BY <1>3, <1>6, <1>12, <2>1 DEF Waiting, Settled
  <2>2. CASE j # i
    <3>1. Held(j) => Held(j)'
        BY <1>7, <2>2 DEF Held
    <3> QED BY <1>6, <2>2, <3>1 DEF TimelyInv, AttemptLeft
  <2> QED BY <2>1, <2>2
<1>14. AttemptsBounded'
    BY <1>1, <1>4, <1>5, <1>6 DEF TimelyInv, AttemptsBounded
<1> QED BY <1>9, <1>10, <1>11, <1>13, <1>14 DEF TimelyInv

LEMMA CrashKeepsTimely ==
    ASSUME TypeOK, TypeOK', TimelyInv, NEW w \in Workers, Crash(w)
    PROVE  TimelyInv'
<1>1. /\ jobs' = jobs /\ now' = now /\ crashes' = crashes + 1 /\ crashes \in Nat
    BY DEF Crash, TypeOK
<1>2. \A v \in Workers : /\ pc'[v] \in Working => v # w
                         /\ v # w => /\ pc'[v] = pc[v] /\ claim'[v] = claim[v]
                                     /\ at'[v] = at[v] /\ result'[v] = result[v]
    BY DEF Crash, BackToIdle, TypeOK, Working, Asking
<1>3. HolderIsPrompt'
    BY <1>1, <1>2 DEF TimelyInv, HolderIsPrompt, HoldsLease, LeaseFrom
<1>4. RetriesInTime'
    BY <1>2 DEF TimelyInv, RetriesInTime, Exhausted, Working
<1>5. \A i \in Invoices : jobs'[i].attempts < MaxAttempts + crashes'
  <2>1. \A i \in Invoices : jobs[i].attempts \in Nat
      BY DEF TypeOK, Job
  <2> QED BY <1>1, <2>1, AttemptsAssumption DEF TimelyInv, AttemptsBounded
<1>6. AttemptLeft' /\ AttemptsBounded'
  <2>1. \A i \in Invoices : jobs'[i].attempts \in Nat
      BY DEF TypeOK, Job
  <2> QED BY <1>1, <1>5, <2>1, AttemptsAssumption DEF AttemptLeft, AttemptsBounded
<1>7. NothingOverdue'
    BY <1>1 DEF TimelyInv, NothingOverdue
<1> QED BY <1>3, <1>4, <1>6, <1>7 DEF TimelyInv

LEMMA QuietTickKeepsTimely ==
    ASSUME TypeOK, TypeOK', TimelyInv, QuietTick
    PROVE  TimelyInv'
<1>1. /\ now' = now + 1 /\ now \in Nat /\ UNCHANGED <<jobs, pc, at, claim, result, crashes>>
      /\ \A w \in Workers : pc[w] \notin Working
      /\ \A i \in Invoices : ~Claimable(jobs[i], now)
    BY DEF QuietTick, Quiet, Tick, worker, TypeOK
<1>2. HolderIsPrompt'
    BY <1>1 DEF HolderIsPrompt
<1>3. NothingOverdue'
  <2> SUFFICES ASSUME NEW i \in Invoices
               PROVE  /\ jobs[i].status \in Waiting => jobs[i].nextAt >= now + 1
                      /\ jobs[i].status = "processing" => jobs[i].leaseUntil >= now + 1
      BY <1>1 DEF NothingOverdue
  <2>1. /\ jobs[i].nextAt \in Nat
        /\ jobs[i].status = "processing" => jobs[i].leaseUntil \in Nat
      BY DEF TypeOK, Job
  <2> QED BY <1>1, <2>1 DEF Claimable
<1>4. RetriesInTime' /\ AttemptsBounded'
    BY <1>1 DEF TimelyInv, RetriesInTime, Exhausted, AttemptsBounded
<1>5. \A i \in Invoices : Held(i)' <=> Held(i)
    BY <1>1 DEF Held
<1>6. AttemptLeft'
    BY <1>1, <1>5 DEF TimelyInv, AttemptLeft
<1> QED BY <1>2, <1>3, <1>4, <1>6 DEF TimelyInv

LEMMA EnqueueKeepsTimely ==
    ASSUME TypeOK, TypeOK', TimelyInv, NEW i \in Invoices, Enqueue(i, now)
    PROVE  TimelyInv'
<1>1. /\ jobs[i].status = "absent" /\ jobs'[i].status = "pending" /\ jobs'[i].attempts = 0
      /\ jobs'[i].nextAt = now /\ now \in Nat /\ crashes \in Nat
      /\ UNCHANGED <<now, pc, at, claim, result, crashes>>
      /\ \A j \in Invoices : j # i => jobs'[j] = jobs[j]
    BY DEF Enqueue, worker, TypeOK, Absent
<1>2. HolderIsPrompt'
  <2> SUFFICES ASSUME NEW w \in Workers, pc[w] \in Working
               PROVE  jobs'[claim[w].invoice] = jobs[claim[w].invoice]
      BY <1>1 DEF TimelyInv, HolderIsPrompt, HoldsLease, LeaseFrom
  <2>1. HoldsLease(claim[w]) /\ claim[w].invoice \in Invoices
      BY DEF TimelyInv, HolderIsPrompt, TypeOK, Claim
  <2> QED BY <1>1, <2>1 DEF HoldsLease
<1>3. NothingOverdue'
    BY <1>1 DEF TimelyInv, NothingOverdue
<1>4. RetriesInTime'
    BY <1>1 DEF TimelyInv, RetriesInTime, Exhausted
<1>5. \A j \in Invoices : Held(j)' <=> Held(j)
    BY <1>1 DEF Held
<1>6. AttemptLeft' /\ AttemptsBounded'
    BY <1>1, <1>5, AttemptsAssumption DEF TimelyInv, AttemptLeft, AttemptsBounded
<1> QED BY <1>2, <1>3, <1>4, <1>6 DEF TimelyInv

LEMMA NextTimely == IndInv /\ TimelyInv /\ [TimelyNext]_vars => TimelyInv'
<1> SUFFICES ASSUME IndInv, TimelyInv, [TimelyNext]_vars PROVE TimelyInv'
    OBVIOUS
<1>0. TypeOK /\ TypeOK'
    BY NextTyped, TimelyIsNext DEF IndInv
<1>1. ASSUME NEW w \in Workers, ReadClock(w) PROVE TimelyInv'
    BY <1>0, <1>1, HoldersKept
       DEF ReadClock, TypeOK, Working, Asking, TimelyInv, HolderIsPrompt, RetriesInTime, Exhausted
<1>2. ASSUME NEW w \in Workers, ClaimNothing(w) PROVE TimelyInv'
    BY <1>0, <1>2, HoldersKept
       DEF ClaimNothing, BackToIdle, TypeOK, Working, Asking, TimelyInv, HolderIsPrompt,
           RetriesInTime, Exhausted
<1>3. ASSUME NEW w \in Workers, NEW i \in Invoices, ClaimJob(w, i) PROVE TimelyInv'
    BY <1>0, <1>3, ClaimKeepsTimely
<1>4. ASSUME NEW w \in Workers, Start(w) PROVE TimelyInv'
    BY <1>0, <1>4, HoldersKept
       DEF Start, TypeOK, Working, Asking, TimelyInv, HolderIsPrompt, RetriesInTime, Exhausted
<1>5. ASSUME NEW w \in Workers, AskProvider(w) PROVE TimelyInv'
  <2>1. /\ pc[w] \in Asking /\ UNCHANGED <<now, jobs, at, claim, crashes>>
        /\ \E l \in Asking \cup {"finish"} : pc' = [pc EXCEPT ![w] = l]
        /\ \A v \in Workers : v # w => result'[v] = result[v]
      BY <1>0, <1>5, AskShape
  <2>2. RetriesInTime'
      BY <1>0, <1>5, <2>1, AskRetries DEF TimelyInv, RetriesInTime, Exhausted, TypeOK
  <2> QED BY <1>0, <2>1, <2>2, HoldersKept DEF TypeOK, Working, Asking, TimelyInv, HolderIsPrompt
<1>6. ASSUME NEW w \in Workers, Finish(w) PROVE TimelyInv'
    BY <1>0, <1>6, FinishKeepsTimely
<1>7. ASSUME NEW i \in Invoices, Enqueue(i, now) PROVE TimelyInv'
    BY <1>0, <1>7, EnqueueKeepsTimely
<1>8. ASSUME NEW w \in Workers, Crash(w) PROVE TimelyInv'
    BY <1>0, <1>8, CrashKeepsTimely
<1>9. ASSUME UNCHANGED <<now, jobs, pc, at, claim, result, crashes>> PROVE TimelyInv'
    BY <1>0, <1>9, HoldersKept DEF TimelyInv, HolderIsPrompt, RetriesInTime, Exhausted
<1>10. CASE QuietTick
    BY <1>0, <1>10, QuietTickKeepsTimely
<1> QED BY <1>1, <1>2, <1>3, <1>4, <1>5, <1>6, <1>7, <1>8, <1>9, <1>10
        DEF TimelyNext, TimelyEnvironment, WorkerStep, Arrive, worker, vars

LEMMA InitTimely == Init => TimelyInv
    BY AttemptsAssumption, BoundsAssumption
       DEF Init, Absent, TimelyInv, HolderIsPrompt, NothingOverdue, RetriesInTime, AttemptLeft,
           AttemptsBounded, Waiting, Working, Asking

LEMMA TimelyInvHolds == TimelySpec => [](IndInv /\ TimelyInv)
<1>1. IndInv /\ TimelyInv /\ [TimelyNext]_vars => (IndInv /\ TimelyInv)'
    BY NextInv, NextTimely, TimelyIsNext DEF IndInv
<1> QED BY <1>1, InitInv, InitTimely, PTL DEF TimelySpec

\* The timely runs are runs, so that all that is proved of Spec holds in them.
THEOREM TimelyRefines == TimelySpec => Spec
<1>1. IndInv /\ TimelyInv /\ [TimelyNext]_vars => [Next]_vars
    BY TimelyIsNext DEF IndInv
<1> QED BY <1>1, TimelyInvHolds, PTL DEF TimelySpec, Spec

\* While workers keep up with the clock an attempt never outlives its lease: whoever
\* works on a job can still write its outcome (claim, _finish).
THEOREM LeasesLast == TimelySpec => []HolderIsPrompt
<1>1. TimelyInv => HolderIsPrompt
    BY DEF TimelyInv
<1> QED BY <1>1, TimelyInvHolds, PTL

\* Claim counts attempts without looking at the maximum, and only the handlers compare
\* them with it: while workers keep up with the clock a row that can be claimed again
\* has an attempt left, or was left behind by a worker that died.
THEOREM AttemptsStayBounded == TimelySpec => []AttemptsBounded
<1>1. TimelyInv => AttemptsBounded
    BY DEF TimelyInv
<1> QED BY <1>1, TimelyInvHolds, PTL

\* A worker that still asks the provider holds the lease, so that its job is not settled.
LEMMA StepAsksNothing ==
    ASSUME IndInv, TimelyInv, [TimelyNext]_vars, NEW i \in Invoices,
           jobs[i].status \in Settled, Asked(i)'
    PROVE  Asked(i)
<1>0. TypeOK /\ CommandsWellFormed /\ transfers \in Seq(Transfer)
    BY DEF IndInv, TypeOK
<1>1. CommandOf(i)' = CommandOf(i)
    BY DEF CommandOf, BuildTransferCommand
\* Booking the command of another invoice is no transfer of this one.
<1>2. ASSUME NEW command \in Transfer, transfers' = Append(transfers, command),
             IsBookedFor(i)', ~IsBookedFor(i)
      PROVE  command.invoice = i
    BY <1>0, <1>2 DEF IsBookedFor
<1>3. ASSUME NEW w \in Workers, AskProvider(w) PROVE Asked(i)
  <2> DEFINE command == BuildTransferCommand(claim[w])
  <2>1. pc[w] \in Working /\ claim[w] \in Claim
      BY <1>0, <1>3, AskShape DEF TypeOK, Working
  <2>2. claim[w].invoice # i
      BY <2>1 DEF TimelyInv, HolderIsPrompt, HoldsLease, Settled
  <2>3. command \in Transfer /\ command.invoice = claim[w].invoice
      BY <2>1, CommandTyped, CommandOfClaim
  <2>4. /\ UNCHANGED transfers \/ transfers' = Append(transfers, command)
        /\ inflight' \in {inflight, inflight \cup {command}}
      BY <1>3, AskBooks
  <2>5. CommandOf(i) # command
      BY <2>2, <2>3 DEF CommandOf, BuildTransferCommand
  <2>6. CASE CommandOf(i) \in inflight'
      BY <2>4, <2>5, <2>6 DEF Asked
  <2>7. CASE IsBookedFor(i)'
      BY <1>2, <2>2, <2>3, <2>4, <2>7 DEF Asked, IsBookedFor
  <2> QED BY <1>1, <2>6, <2>7 DEF Asked
\* What arrives was under way.
<1>4. ASSUME NEW command \in inflight, Arrive(command) PROVE Asked(i)
  <2>1. command \in Transfer /\ command = CommandOf(command.invoice)
      BY <1>0 DEF TypeOK, CommandsWellFormed
  <2>2. /\ inflight' \subseteq inflight
        /\ UNCHANGED transfers \/ transfers' = Append(transfers, command)
      BY <1>4 DEF Arrive
  <2>3. CASE CommandOf(i) \in inflight'
      BY <2>2, <2>3 DEF Asked
  <2>4. CASE IsBookedFor(i)'
      BY <1>2, <2>1, <2>2, <2>4 DEF Asked, IsBookedFor
  <2> QED BY <1>1, <2>3, <2>4 DEF Asked
<1>5. CASE UNCHANGED provider
    BY <1>1, <1>5 DEF Asked, IsBookedFor, provider
<1> QED BY <1>3, <1>4, <1>5
        DEF TimelyNext, TimelyEnvironment, WorkerStep, ReadClock, ClaimNothing, ClaimJob, Start,
            Finish, Enqueue, Crash, QuietTick, Tick, provider, vars

\* Once a job is settled no worker asks the provider for its transfer: what is booked
\* for a job that was given up comes from a request that was under way by then
\* (_finalize_after_lookup, claim).
THEOREM NoLateRequest == TimelySpec => SettledAsksNothing
<1>1. IndInv /\ TimelyInv /\ [TimelyNext]_vars => NothingAskedAnew
    BY StepAsksNothing DEF NothingAskedAnew
<1> QED BY <1>1, TimelyInvHolds, PTL DEF TimelySpec, SettledAsksNothing

=============================================================================
