----------------------- MODULE ProviderStatus_proofs ------------------------
(***************************************************************************)
(* Proofs about ProviderStatus for any number of invoices, workers,        *)
(* requests, sync runs and legacy jobs.                                    *)
(*                                                                         *)
(* Every step of ProviderStatus is a step of TransferDispatch or leaves    *)
(* its variables alone, so that IndInv holds here as well; on top of it    *)
(* stand the types of the status columns, what the provider has emitted,   *)
(* and what has been shown since a job was settled.                        *)
(***************************************************************************)
EXTENDS ProviderStatus, TransferDispatch_proofs, FiniteSetTheorems

\* SetToSeq lists the elements of a finite set, each once.
LEMMA ListOfSet ==
    ASSUME NEW S, IsFiniteSet(S)
    PROVE  LET s == SetToSeq(S)
           IN  /\ s \in Seq(S)
               /\ \A m, n \in DOMAIN s : s[m] = s[n] => m = n
               /\ \A x \in S : \E n \in DOMAIN s : s[n] = x
<1> DEFINE k == Cardinality(S)
           s == SetToSeq(S)
<1>1. k \in Nat /\ ExistsBijection(1 .. k, S)
    BY FS_CardinalityType
<1>2. PICK f \in Bijection(1 .. k, S) : TRUE
    BY <1>1 DEF ExistsBijection
<1>3. f \in [1 .. k -> S] /\ IsInjective(f)
    BY <1>2 DEF Bijection, Injection, IsInjective
<1>4. s \in [1 .. k -> S] /\ IsInjective(s)
  <2>1. \E g \in [1 .. k -> S] : IsInjective(g)
      BY <1>3
  <2> QED BY <2>1 DEF SetToSeq
<1>5. s \in Seq(S) /\ DOMAIN s = 1 .. k
    BY <1>1, <1>4
<1>6. \A m, n \in DOMAIN s : s[m] = s[n] => m = n
    BY <1>4 DEF IsInjective
<1>7. s \in Injection(1 .. k, S)
    BY <1>4, <1>5, <1>6 DEF Injection
<1>8. s \in Surjection(1 .. k, S)
    BY <1>1, <1>7, FS_Injection, FS_Interval
<1> QED BY <1>5, <1>6, <1>8 DEF Surjection

-----------------------------------------------------------------------------
\* Dispatch.

\* The columns are written beside the steps of TransferDispatch.
LEMMA StatusStep == StatusNext => [Next]_vars
<1> SUFFICES ASSUME StatusNext PROVE [Next]_vars
    OBVIOUS
<1>1. CASE OtherDispatch
    BY <1>1 DEF OtherDispatch, Next, WorkerStep, Work
<1>2. ASSUME NEW w \in Workers, AskStatus(w) \/ FinishStatus(w) PROVE Next
    BY <1>2 DEF AskStatus, FinishStatus, Next, Work, WorkerStep
<1>3. CASE ArriveStatus
    BY <1>3 DEF ArriveStatus, Next, Work
<1>4. ASSUME NEW i \in Invoices, RemoteUpdate(i) PROVE UNCHANGED vars
    BY <1>4 DEF RemoteUpdate
<1>5. ASSUME NEW h \in Handlers, ReceiveEvent(h) \/ RecordEvent(h) PROVE UNCHANGED vars
    BY <1>5 DEF ReceiveEvent, RecordEvent
<1>6. ASSUME NEW s \in Syncers, SyncList(s) \/ SyncFind(s) \/ SyncRefresh(s)
      PROVE  UNCHANGED vars
    BY <1>6 DEF SyncList, SyncFind, SyncRefresh
<1> QED BY <1>1, <1>2, <1>3, <1>4, <1>5, <1>6 DEF StatusNext

\* Legacy jobs are paid, each by one transfer.
LEMMA LegacyIsPaid ==
    ASSUME StatusInit
    PROVE  /\ transfers \in Seq(Transfer)
           /\ AtMostOneTransfer
           /\ \A n \in DOMAIN transfers : transfers[n] = CommandOf(transfers[n].invoice)
           /\ \A i \in Legacy : IsBookedFor(i)
           /\ \A n \in DOMAIN transfers : transfers[n].invoice \in Legacy
<1> DEFINE S == {CommandOf(i) : i \in Legacy}
           f == [i \in Legacy |-> CommandOf(i)]
<1>1. IsFiniteSet(S)
  <2>1. f \in Surjection(Legacy, S)
      BY DEF Surjection
  <2> HIDE DEF S, f
  <2> QED BY <2>1, LegacyAssumption, FS_Surjection
<1>2. transfers = SetToSeq(S)
    BY DEF StatusInit
<1>3. /\ transfers \in Seq(S)
      /\ \A m, n \in DOMAIN transfers : transfers[m] = transfers[n] => m = n
      /\ \A x \in S : \E n \in DOMAIN transfers : transfers[n] = x
  <2> HIDE DEF S
  <2> QED BY <1>1, <1>2, ListOfSet
<1>4. S \subseteq Transfer
    BY LegacyAssumption DEF CommandOf, BuildTransferCommand, Transfer, ExternalIds
<1>5. \A x \in S : x = CommandOf(x.invoice)
    BY DEF CommandOf, BuildTransferCommand
<1>6. \A n \in DOMAIN transfers : transfers[n] \in S
  <2> HIDE DEF S
  <2> QED BY <1>3
<1>7. transfers \in Seq(Transfer)
  <2> HIDE DEF S
  <2> QED BY <1>3, <1>4
<1>8. AtMostOneTransfer
  <2> HIDE DEF S
  <2> QED BY <1>3, <1>5, <1>6 DEF AtMostOneTransfer
<1>9. \A i \in Legacy : CommandOf(i) \in S /\ CommandOf(i).invoice = i
    BY DEF CommandOf, BuildTransferCommand
<1>10. \A i \in Legacy : IsBookedFor(i)
  <2> HIDE DEF S
  <2> QED BY <1>3, <1>9 DEF IsBookedFor
<1>11. \A n \in DOMAIN transfers : transfers[n] = CommandOf(transfers[n].invoice)
  <2> HIDE DEF S
  <2> QED BY <1>5, <1>6
<1>12. \A x \in S : x.invoice \in Legacy
    BY DEF CommandOf, BuildTransferCommand
<1>13. \A n \in DOMAIN transfers : transfers[n].invoice \in Legacy
  <2> HIDE DEF S
  <2> QED BY <1>6, <1>12
<1> QED BY <1>7, <1>8, <1>10, <1>11, <1>13

LEMMA StatusInitInv == StatusInit => IndInv
<1> SUFFICES ASSUME StatusInit PROVE IndInv
    OBVIOUS
<1>1. /\ [Absent EXCEPT !.status = "succeeded", !.attempts = 1] \in Job
      /\ Absent \in Job
      /\ Absent.leaseUntil = NoLease /\ Absent.status = "absent"
    BY DEF Absent, Job, Status, Settled
<1>2. /\ \A i \in Invoices : jobs[i] \in Job /\ jobs[i].leaseUntil = NoLease
      /\ \A i \in Legacy : jobs[i].status = "succeeded"
      /\ \A i \in Invoices \ Legacy : jobs[i].status = "absent"
      /\ jobs \in [Invoices -> Job]
    BY <1>1, LegacyAssumption DEF StatusInit, Absent
<1>3. \A i \in Invoices : jobs[i].status # "processing"
    BY <1>2
<1>4. pc = [w \in Workers |-> "idle"] /\ inflight = {}
    BY DEF StatusInit
<1>5. TypeOK
  <2>1. transfers \in Seq(Transfer)
      BY LegacyIsPaid
  <2> QED BY <1>2, <1>3, <1>4, <2>1 DEF StatusInit, TypeOK, PC, Working, Asking
<1>6. SucceededMeansBooked
    BY <1>2, LegacyIsPaid DEF SucceededMeansBooked
<1>7. LeaseAge /\ LeaseOrder /\ LeasesDiffer /\ SuccessIsBooked
    BY <1>4 DEF StatusInit, LeaseAge, LeaseOrder, LeasesDiffer, SuccessIsBooked, Working, Asking
<1>8. CommandsWellFormed /\ OnlyCreditsRequested
    BY <1>2, <1>4, LegacyIsPaid DEF CommandsWellFormed, OnlyCreditsRequested
<1> QED BY <1>5, <1>6, <1>7, <1>8, LegacyIsPaid DEF IndInv

LEMMA StatusNextInv == IndInv /\ [StatusNext]_allVars => IndInv'
<1>1. [StatusNext]_allVars => [Next]_vars
    BY StatusStep DEF allVars
<1> QED BY <1>1, NextInv

-----------------------------------------------------------------------------
\* The status columns and those who carry a status to them.

Columns == [revision : Nat \cup {Null}, updatedAt : Int \cup {Null}]
Remote == [revision : Nat, updatedAt : Int]

StatusTypes ==
    /\ columns \in [Invoices -> Columns]
    /\ remote \in [Invoices -> Remote]
    /\ seen \in [Workers -> Nat]
    /\ events \subseteq Event /\ recorded \subseteq events
    /\ handler \in [Handlers -> Decision \cup {Null}]
    /\ \A h \in Handlers : handler[h] # Null => handler[h].event \in events
    /\ syncer \in [Syncers -> [todo : SUBSET Legacy, found : Answer \cup {Null}]]
    /\ \A s \in Syncers : syncer[s].found # Null => syncer[s].found.invoice \in Legacy
    /\ settledAt \in [Invoices -> Nat \cup {Null}]

\* settledAt tells when a job was settled.
SettledOK ==
    \A i \in Invoices : /\ settledAt[i] # Null <=> jobs[i].status \in Settled
                        /\ settledAt[i] # Null => settledAt[i] <= now

\* The provider has emitted what it says of its transfers: a later event tells of
\* a later revision.
EmittedOK ==
    /\ \A i \in Invoices : /\ remote[i].updatedAt <= ProviderNow
                           /\ remote[i].revision # 0 => IsBookedFor(i)
    /\ \A e \in events : /\ e.revision <= remote[e.invoice].revision
                         /\ e.updatedAt <= remote[e.invoice].updatedAt
    /\ \A e, f \in events :
          e.invoice = f.invoice /\ e.updatedAt <= f.updatedAt => e.revision <= f.revision

StatusInv == StatusTypes /\ SettledOK /\ EmittedOK /\ SucceededShowsStatus

LEMMA NullIsNothing ==
    /\ Null \notin Int
    /\ \A d \in Decision : d # Null
    /\ \A a \in Answer : a # Null
    BY StatusNullAssumption

LEMMA StatusInvInit == StatusInit => StatusInv
<1> SUFFICES ASSUME StatusInit PROVE StatusInv
    OBVIOUS
<1>1. /\ \A i \in Invoices : columns[i] = NoColumns
      /\ columns \in [Invoices -> Columns]
    BY DEF StatusInit, NoColumns, Columns
<1>2. /\ remote \in [Invoices -> Remote]
      /\ \A i \in Invoices : remote[i].updatedAt = Skew
      /\ \A i \in Invoices \ Legacy : remote[i].revision = 0
    BY SkewAssumption DEF StatusInit, NotBooked, Remote
<1>3. /\ events = {} /\ recorded = {} /\ now = 0
      /\ seen \in [Workers -> Nat]
      /\ \A h \in Handlers : handler[h] = Null
      /\ handler \in [Handlers -> Decision \cup {Null}]
    BY DEF StatusInit
<1>4. /\ syncer \in [Syncers -> [todo : SUBSET Legacy, found : Answer \cup {Null}]]
      /\ \A s \in Syncers : syncer[s].found = Null
    BY DEF StatusInit, Idle
<1>5. /\ settledAt \in [Invoices -> Nat \cup {Null}]
      /\ \A i \in Invoices : settledAt[i] = IF i \in Legacy THEN 0 ELSE Null
    BY DEF StatusInit
<1>6. \A i \in Invoices : jobs[i].status = IF i \in Legacy THEN "succeeded" ELSE "absent"
    BY DEF StatusInit, Absent
<1>7. StatusTypes
    BY <1>1, <1>2, <1>3, <1>4, <1>5 DEF StatusTypes
<1>8. SettledOK
  <2>1. 0 # Null
      BY NullIsNothing
  <2>2. 0 <= now
      BY <1>3
  <2> QED BY <1>5, <1>6, <2>1, <2>2 DEF SettledOK, Settled
<1>9. EmittedOK
    BY <1>2, <1>3, LegacyIsPaid, SkewAssumption DEF EmittedOK, ProviderNow
<1>10. SucceededShowsStatus
    BY <1>6 DEF SucceededShowsStatus
<1> QED BY <1>7, <1>8, <1>9, <1>10 DEF StatusInv

\* What is emitted goes beyond what was emitted of the same transfer.
LEMMA EmitKeeps ==
    ASSUME StatusTypes, EmittedOK, TypeOK, now' = now, recorded' = recorded,
           NEW D \in SUBSET Invoices, NEW r \in [D -> 1 .. MaxRevision],
           Emit([i \in D |-> [revision |-> r[i], updatedAt |-> ProviderNow]]),
           \A i \in D : /\ remote[i].revision < r[i]
                        /\ remote[i].revision = 0 \/ remote[i].updatedAt < ProviderNow
                        /\ IsBookedFor(i)',
           \A i \in Invoices : IsBookedFor(i) => IsBookedFor(i)'
    PROVE  /\ remote' \in [Invoices -> Remote]
           /\ events' \subseteq Event /\ events \subseteq events'
           /\ \A i \in Invoices : remote'[i].revision >= remote[i].revision
           /\ EmittedOK'
<1> DEFINE new(i) == [invoice |-> i, revision |-> r[i], updatedAt |-> ProviderNow]
<1>0. ProviderNow \in Int /\ (1 .. MaxRevision) \subseteq Nat \ {0}
    BY RevisionAssumption, SkewAssumption DEF TypeOK, ProviderNow
<1>11. ProviderNow' = ProviderNow
    BY DEF ProviderNow
<1>1. /\ remote' = [i \in Invoices |->
                       IF i \in D THEN [revision |-> r[i], updatedAt |-> ProviderNow]
                       ELSE remote[i]]
      /\ events' = events \cup {new(i) : i \in D}
    BY DEF Emit
<1>2. \A i \in D : new(i) \in Event /\ r[i] \in Nat \ {0}
    BY <1>0 DEF Event
<1>3. /\ remote' \in [Invoices -> Remote]
      /\ events' \subseteq Event /\ events \subseteq events'
    BY <1>0, <1>1, <1>2 DEF StatusTypes, Remote
<1>4. \A i \in Invoices : /\ remote[i].revision \in Nat /\ remote[i].updatedAt \in Int
                          /\ remote[i].updatedAt <= ProviderNow
    BY DEF StatusTypes, Remote, EmittedOK
<1>5. \A i \in Invoices : /\ remote'[i].revision >= remote[i].revision
                          /\ remote'[i].updatedAt >= remote[i].updatedAt
                          /\ remote'[i].updatedAt <= ProviderNow
    BY <1>0, <1>1, <1>2, <1>4
<1>6. \A e \in events : /\ e.invoice \in Invoices /\ e.revision \in Nat \ {0} /\ e.updatedAt \in Int
                        /\ e.revision <= remote[e.invoice].revision
                        /\ e.updatedAt <= remote[e.invoice].updatedAt
    BY <1>0 DEF StatusTypes, Event, EmittedOK
<1>7. ASSUME NEW e \in events, e.invoice \in D
      PROVE  e.revision < r[e.invoice] /\ e.updatedAt < ProviderNow
    BY <1>0, <1>2, <1>4, <1>6, <1>7
<1>8. \A e \in events' : /\ e.revision <= remote'[e.invoice].revision
                         /\ e.updatedAt <= remote'[e.invoice].updatedAt
  <2>1. \A e \in events : /\ e.revision <= remote'[e.invoice].revision
                          /\ e.updatedAt <= remote'[e.invoice].updatedAt
    <3> TAKE e \in events
    <3> DEFINE i == e.invoice
    <3>1. /\ i \in Invoices /\ remote'[i].revision \in Nat /\ remote'[i].updatedAt \in Int
        BY <1>3, <1>6 DEF Remote
    <3> HIDE DEF i
    <3>2. e.revision <= remote'[i].revision /\ e.updatedAt <= remote'[i].updatedAt
        BY <1>4, <1>5, <1>6, <3>1 DEF i
    <3> QED BY <3>2 DEF i
  <2>2. \A i \in D : /\ new(i).revision <= remote'[i].revision
                     /\ new(i).updatedAt <= remote'[i].updatedAt
      BY <1>0, <1>1, <1>2
  <2> TAKE e \in events'
  <2>3. CASE e \in events BY <2>1, <2>3
  <2>4. ASSUME NEW i \in D, e = new(i)
        PROVE  e.revision <= remote'[e.invoice].revision /\ e.updatedAt <= remote'[e.invoice].updatedAt
    <3>1. e.invoice = i /\ e.revision = new(i).revision /\ e.updatedAt = new(i).updatedAt
        BY <2>4
    <3> HIDE DEF new
    <3> QED BY <2>2, <3>1
  <2> QED BY <1>1, <2>3, <2>4
<1>9. ASSUME NEW e \in events', NEW f \in events',
             e.invoice = f.invoice, e.updatedAt <= f.updatedAt
      PROVE  e.revision <= f.revision
  <2>1. CASE e \in events /\ f \in events
      BY <1>9, <2>1 DEF EmittedOK
  <2>2. ASSUME NEW i \in D, f = new(i), e \in events PROVE e.revision <= f.revision
      BY <1>2, <1>6, <1>7, <1>9, <2>2
  <2>3. ASSUME NEW i \in D, e = new(i), f \in events PROVE FALSE
      BY <1>0, <1>6, <1>7, <1>9, <2>3
  <2>4. ASSUME NEW i \in D, NEW j \in D, e = new(i), f = new(j) PROVE e.revision <= f.revision
      BY <1>2, <1>9, <2>4
  <2> QED BY <1>1, <2>1, <2>2, <2>3, <2>4
<1>10. \A i \in Invoices : remote'[i].revision # 0 => IsBookedFor(i)'
    BY <1>1 DEF EmittedOK
<1> QED BY <1>11, <1>3, <1>5, <1>8, <1>9, <1>10 DEF EmittedOK

\* The provider emits the first revision of a transfer that it has not known before.
LEMMA BookedEmits ==
    ASSUME StatusTypes, EmittedOK, IndInv, [Next]_vars, now' = now, recorded' = recorded,
           EmitBooked
    PROVE  /\ remote' \in [Invoices -> Remote]
           /\ events' \subseteq Event /\ events \subseteq events'
           /\ EmittedOK'
<1> DEFINE D == {transfers'[n].invoice : n \in DOMAIN transfers' \ DOMAIN transfers}
           r == [i \in D |-> 1]
<1>1. IndInv' /\ TypeOK /\ TypeOK' /\ ProviderInv
    BY NextInv DEF IndInv, ProviderInv
<1>2. \A n \in DOMAIN transfers : n \in DOMAIN transfers' /\ transfers'[n] = transfers[n]
    BY <1>1, ProviderStep, BookOne
<1>3. D \in SUBSET Invoices
  <2>1. transfers' \in Seq(Transfer)
      BY <1>1 DEF TypeOK
  <2>2. \A n \in DOMAIN transfers' : transfers'[n] \in Transfer
      BY <2>1
  <2> QED BY <2>2 DEF Transfer
<1>4. \A i \in D : ~IsBookedFor(i) /\ IsBookedFor(i)'
    BY <1>1, <1>2 DEF IndInv, AtMostOneTransfer, IsBookedFor
<1>5. \A i \in Invoices : IsBookedFor(i) => IsBookedFor(i)'
    BY <1>2 DEF IsBookedFor
<1>6. r \in [D -> 1 .. MaxRevision]
    BY RevisionAssumption
<1>7. Emit([i \in D |-> [revision |-> r[i], updatedAt |-> ProviderNow]])
  <2>1. Emit([i \in D |-> [revision |-> 1, updatedAt |-> ProviderNow]])
      BY DEF EmitBooked
  <2>2. [i \in D |-> [revision |-> 1, updatedAt |-> ProviderNow]]
        = [i \in D |-> [revision |-> r[i], updatedAt |-> ProviderNow]]
      OBVIOUS
  <2> QED BY <2>1, <2>2
<1>8. \A i \in D : /\ remote[i].revision < r[i] /\ remote[i].revision = 0
                   /\ IsBookedFor(i)'
    BY <1>3, <1>4 DEF EmittedOK
<1> HIDE DEF D, r
<1> QED BY <1>1, <1>3, <1>5, <1>6, <1>7, <1>8, EmitKeeps

\* A job that is not settled yet is settled only by _finish.
LEMMA OthersDoNotSettle ==
    ASSUME TypeOK, NEW i \in Invoices,
           \/ OtherDispatch
           \/ \E w \in Workers : AskStatus(w)
           \/ ArriveStatus
    PROVE  /\ jobs[i].status \in Settled <=> jobs'[i].status \in Settled
           /\ jobs'[i].status = "succeeded" => jobs[i].status = "succeeded"
<1> USE DEF TypeOK, Settled
<1>1. ASSUME NEW w \in Workers, NEW j \in Invoices, ClaimJob(w, j)
      PROVE  /\ jobs[j].status \notin Settled /\ jobs'[j].status = "processing"
             /\ \A k \in Invoices : k # j => jobs'[k] = jobs[k]
  <2>1. Claimed(jobs[j], at[w]).status = "processing"
    <3>1. jobs[j] \in Job /\ at[w] \in Nat
        OBVIOUS
    <3> QED BY <3>1, ClaimedRow
  <2> QED BY <1>1, <2>1 DEF ClaimJob, Claimable, Waiting
<1>2. ASSUME NEW j \in Invoices, NEW received \in 0 .. now, Enqueue(j, received)
      PROVE  /\ jobs[j].status = "absent" /\ jobs'[j].status = "pending"
             /\ \A k \in Invoices : k # j => jobs'[k] = jobs[k]
    BY <1>2 DEF Enqueue, Absent
<1>3. ASSUME NEW w \in Workers, AskStatus(w) PROVE jobs' = jobs
    BY <1>3, AskShape DEF AskStatus
<1>4. CASE ArriveStatus
    BY <1>4 DEF ArriveStatus, Arrive
<1>5. CASE OtherDispatch
    BY <1>1, <1>2, <1>5 DEF OtherDispatch, ReadClock, ClaimNothing, Start, Tick
<1> QED BY <1>3, <1>4, <1>5

\* What _finish does to the job of its claim, and to no other.
LEMMA FinishShape ==
    ASSUME TypeOK, NEW w \in Workers, Finish(w)
    PROVE  LET i == claim[w].invoice
           IN  /\ i \in Invoices /\ now' = now /\ UNCHANGED provider
               /\ result[w] \in Result /\ at[w] \in Nat
               /\ \A j \in Invoices : j # i => jobs'[j] = jobs[j]
               /\ ~HoldsLease(claim[w]) => jobs' = jobs
               /\ HoldsLease(claim[w]) => /\ jobs[i].status = "processing"
                                          /\ jobs'[i].status = "succeeded" <=> result[w] = "succeeded"
<1> DEFINE i == claim[w].invoice
<1>1. /\ pc[w] = "finish" /\ claim[w] \in Claim /\ result[w] \in Result /\ at[w] \in Nat
      /\ jobs \in [Invoices -> Job]
    BY DEF Finish, TypeOK, Working
<1>2. i \in Invoices
    BY <1>1 DEF Claim
<1>3. ~HoldsLease(claim[w]) => jobs' = jobs
    BY DEF Finish
<1>4. ASSUME HoldsLease(claim[w])
      PROVE  /\ jobs[i].status = "processing"
             /\ jobs' = [jobs EXCEPT ![i] = Finished(jobs[i], claim[w], result[w], at[w])]
             /\ Finished(jobs[i], claim[w], result[w], at[w]).status = "succeeded"
                <=> result[w] = "succeeded"
  <2>1. jobs[i] \in Job
      BY <1>1, <1>2
  <2> QED BY <1>1, <1>4, <2>1, FinishedRow DEF Finish, HoldsLease
<1> QED BY <1>1, <1>2, <1>3, <1>4 DEF Finish

-----------------------------------------------------------------------------
\* Each step keeps StatusInv.

\* The clock of the provider goes on with ours.
LEMMA ClocksGoOn ==
    ASSUME now \in Nat, now' \in Nat, now <= now'
    PROVE  ProviderNow \in Int /\ ProviderNow' \in Int /\ ProviderNow <= ProviderNow'
<1>1. ASSUME NEW m \in Int, NEW n \in Int, m <= n
      PROVE  m + Skew \in Int /\ n + Skew \in Int /\ m + Skew <= n + Skew
    BY <1>1, SkewAssumption
<1> QED BY <1>1 DEF ProviderNow

LEMMA DispatchKeeps ==
    ASSUME IndInv, StatusInv, OtherDispatch \/ ArriveStatus \/ \E w \in Workers : AskStatus(w)
    PROVE  StatusInv'
<1>1. [Next]_vars /\ IndInv' /\ TypeOK /\ TypeOK' /\ ProviderInv
  <2>1. StatusNext
      BY DEF StatusNext
  <2> QED BY <2>1, StatusStep, NextInv DEF IndInv, ProviderInv
<1>2. UNCHANGED <<columns, recorded, handler, syncer, settledAt>>
    BY DEF OtherDispatch, ArriveStatus, AskStatus, statusVars, history
<1>3. now' \in Nat /\ now \in Nat /\ now <= now'
  <2>1. now' \in {now, now + 1}
      BY <1>1, AskShape DEF OtherDispatch, ReadClock, ClaimNothing, Start, ClaimJob, Enqueue, Tick,
                            ArriveStatus, Arrive, AskStatus
  <2> QED BY <1>1, <2>1 DEF TypeOK
<1>4. /\ remote' \in [Invoices -> Remote]
      /\ events' \subseteq Event /\ events \subseteq events'
      /\ EmittedOK'
  <2>1. CASE OtherDispatch
    <3>1. UNCHANGED <<remote, events>>
        BY <2>1 DEF OtherDispatch, statusVars
    <3>2. \A i \in Invoices : IsBookedFor(i) => IsBookedFor(i)'
        BY <1>1, BookedForEver
    <3>3. \A i \in Invoices : remote[i].updatedAt \in Int
        BY DEF StatusInv, StatusTypes, Remote
    <3>4. ProviderNow \in Int /\ ProviderNow' \in Int /\ ProviderNow <= ProviderNow'
        BY <1>3, ClocksGoOn
    <3> QED BY <1>3, <3>1, <3>2, <3>3, <3>4 DEF StatusInv, StatusTypes, EmittedOK
  <2>2. CASE ArriveStatus \/ \E w \in Workers : AskStatus(w)
    <3>1. now' = now /\ EmitBooked
        BY <1>1, <2>2, AskShape DEF ArriveStatus, Arrive, AskStatus
    <3> QED BY <1>1, <1>2, <3>1, BookedEmits DEF StatusInv
  <2> QED BY <2>1, <2>2
<1>5. seen' \in [Workers -> Nat]
  <2>1. CASE OtherDispatch \/ ArriveStatus
      BY <2>1 DEF OtherDispatch, ArriveStatus, statusVars, StatusInv, StatusTypes
  <2>2. ASSUME NEW w \in Workers, AskStatus(w) PROVE seen' \in [Workers -> Nat]
    <3>1. claim[w].invoice \in Invoices
        BY <1>1, <2>2, AskShape DEF AskStatus, TypeOK, Working, Claim
    <3>2. remote'[claim[w].invoice].revision \in Nat
        BY <1>4, <3>1 DEF Remote
    <3> QED BY <2>2, <3>2 DEF AskStatus, StatusInv, StatusTypes
  <2> QED BY <2>1, <2>2
<1>6. StatusTypes'
    BY <1>2, <1>4, <1>5 DEF StatusInv, StatusTypes
<1>7. ASSUME NEW i \in Invoices
      PROVE  /\ jobs[i].status \in Settled <=> jobs'[i].status \in Settled
             /\ jobs'[i].status = "succeeded" => jobs[i].status = "succeeded"
    BY <1>1, OthersDoNotSettle
<1>8. SettledOK'
  <2>1. \A i \in Invoices : settledAt[i] # Null => settledAt[i] \in Nat
      BY DEF StatusInv, StatusTypes
  <2> QED BY <1>2, <1>3, <1>7, <2>1 DEF StatusInv, SettledOK
<1>9. SucceededShowsStatus'
    BY <1>2, <1>7 DEF StatusInv, SucceededShowsStatus
<1> QED BY <1>4, <1>6, <1>8, <1>9 DEF StatusInv

LEMMA FinishKeeps ==
    ASSUME IndInv, StatusInv, NEW w \in Workers, FinishStatus(w)
    PROVE  StatusInv'
<1> DEFINE i == claim[w].invoice
           written == FinishedColumns(result[w], seen[w], at[w])
<1>1. TypeOK /\ Finish(w) /\ UNCHANGED <<remote, events, recorded, handler, syncer>>
    BY DEF IndInv, FinishStatus
<1>2. /\ i \in Invoices /\ now' = now /\ UNCHANGED transfers /\ at[w] \in Nat /\ now \in Nat
      /\ \A j \in Invoices : j # i => jobs'[j] = jobs[j]
      /\ ~HoldsLease(claim[w]) => jobs' = jobs
      /\ HoldsLease(claim[w]) => /\ jobs[i].status = "processing"
                                 /\ jobs'[i].status = "succeeded" <=> result[w] = "succeeded"
    BY <1>1, FinishShape DEF provider, TypeOK
<1>3. /\ seen[w] \in Nat /\ columns \in [Invoices -> Columns]
      /\ settledAt \in [Invoices -> Nat \cup {Null}]
    BY DEF StatusInv, StatusTypes
<1>4. /\ written \in Columns
      /\ result[w] = "succeeded" => written.revision \in Nat
    BY <1>2, <1>3 DEF FinishedColumns, NoColumns, Columns
<1> HIDE DEF written
<1>5. columns' = IF HoldsLease(claim[w]) THEN [columns EXCEPT ![i] = written] ELSE columns
    BY DEF FinishStatus, written
<1>6. settledAt' = [settledAt EXCEPT ![i] = IF jobs'[i].status \in Settled /\ settledAt[i] = Null
                                            THEN now ELSE settledAt[i]]
    BY <1>2, <1>3 DEF FinishStatus
<1>7. StatusTypes'
  <2>1. columns' \in [Invoices -> Columns]
      BY <1>3, <1>4, <1>5
  <2>2. settledAt' \in [Invoices -> Nat \cup {Null}]
      BY <1>2, <1>3, <1>6
  <2>3. seen' \in [Workers -> Nat]
      BY DEF FinishStatus, StatusInv, StatusTypes
  <2> QED BY <1>1, <2>1, <2>2, <2>3 DEF StatusInv, StatusTypes
<1>8. SettledOK'
  <2>1. now # Null
      BY <1>2, NullIsNothing
  <2>2. HoldsLease(claim[w]) => settledAt[i] = Null
      BY <1>2 DEF StatusInv, SettledOK, Settled
  <2> SUFFICES ASSUME NEW j \in Invoices
               PROVE  /\ settledAt'[j] # Null <=> jobs'[j].status \in Settled
                      /\ settledAt'[j] # Null => settledAt'[j] <= now
      BY <1>2 DEF SettledOK
  <2>3. /\ settledAt[j] # Null <=> jobs[j].status \in Settled
        /\ settledAt[j] # Null => settledAt[j] <= now
      BY DEF StatusInv, SettledOK
  <2>4. CASE j # i
      BY <1>2, <1>3, <1>6, <2>3, <2>4
  <2>5. CASE j = i
    <3>1. settledAt'[j] = IF jobs'[i].status \in Settled /\ settledAt[i] = Null THEN now
                          ELSE settledAt[i]
        BY <1>2, <1>3, <1>6, <2>5
    <3>2. now <= now
        BY <1>2
    <3> QED BY <1>2, <2>1, <2>2, <2>3, <2>5, <3>1, <3>2
  <2> QED BY <2>4, <2>5
<1>9. EmittedOK'
    BY <1>1, <1>2 DEF StatusInv, EmittedOK, IsBookedFor, ProviderNow
<1>10. SucceededShowsStatus'
  <2> SUFFICES ASSUME NEW j \in Invoices \ Legacy, jobs'[j].status = "succeeded"
               PROVE  columns'[j].revision # Null
      BY DEF SucceededShowsStatus
  <2>1. CASE j = i /\ HoldsLease(claim[w])
      BY <1>2, <1>3, <1>4, <1>5, <2>1, NullIsNothing
  <2>2. CASE ~(j = i /\ HoldsLease(claim[w]))
      BY <1>2, <1>3, <1>5, <2>2 DEF StatusInv, SucceededShowsStatus
  <2> QED BY <2>1, <2>2
<1> QED BY <1>7, <1>8, <1>9, <1>10 DEF StatusInv

\* The rest leaves the dispatch alone and writes no NULL.
LEMMA OutsideKeeps ==
    ASSUME StatusInv, UNCHANGED <<vars, settledAt>>, StatusTypes', EmittedOK',
           \A i \in Invoices : columns'[i] = columns[i] \/ columns'[i].revision \in Nat
    PROVE  StatusInv'
<1>1. SettledOK'
    BY DEF StatusInv, SettledOK, vars
<1>2. SucceededShowsStatus'
    BY NullIsNothing DEF StatusInv, SucceededShowsStatus, vars
<1> QED BY <1>1, <1>2 DEF StatusInv

LEMMA RemoteUpdateKeeps ==
    ASSUME IndInv, StatusInv, NEW i \in Invoices, RemoteUpdate(i) PROVE StatusInv'
<1>1. UNCHANGED <<vars, columns, seen, recorded, handler, syncer, settledAt>>
    BY DEF RemoteUpdate, history
<1>2. now' = now /\ transfers' = transfers
    BY <1>1 DEF vars
<1>3. /\ remote[i].revision \in 1 .. MaxRevision - 1 /\ remote[i].updatedAt < ProviderNow
      /\ Emit([j \in {i} |-> [revision |-> remote[i].revision + 1, updatedAt |-> ProviderNow]])
    BY DEF RemoteUpdate
<1> DEFINE r == [j \in {i} |-> remote[i].revision + 1]
<1>4. r \in [{i} -> 1 .. MaxRevision] /\ r[i] > remote[i].revision
    BY <1>3, RevisionAssumption
<1>5. [j \in {i} |-> [revision |-> r[j], updatedAt |-> ProviderNow]]
      = [j \in {i} |-> [revision |-> remote[i].revision + 1, updatedAt |-> ProviderNow]]
    OBVIOUS
<1>6. IsBookedFor(i)
    BY <1>3 DEF StatusInv, EmittedOK
<1>7. \A j \in Invoices : IsBookedFor(j)' <=> IsBookedFor(j)
    BY <1>2 DEF IsBookedFor
<1>8. /\ remote' \in [Invoices -> Remote]
      /\ events' \subseteq Event /\ events \subseteq events'
      /\ EmittedOK'
  <2>1. remote[i].revision < r[i]
      BY <1>3, <1>4 DEF StatusInv, StatusTypes, Remote
  <2> HIDE DEF r
  <2>2. Emit([j \in {i} |-> [revision |-> r[j], updatedAt |-> ProviderNow]])
      BY <1>3, <1>5
  <2> QED BY <1>1, <1>2, <1>3, <1>4, <1>6, <1>7, <2>1, <2>2, EmitKeeps DEF StatusInv, IndInv
<1>9. StatusTypes'
    BY <1>1, <1>8 DEF StatusInv, StatusTypes
<1> QED BY <1>1, <1>8, <1>9, OutsideKeeps

LEMMA HandlerKeeps ==
    ASSUME StatusInv, NEW h \in Handlers, ReceiveEvent(h) \/ RecordEvent(h) PROVE StatusInv'
<1>1. UNCHANGED <<vars, remote, seen, events, syncer, settledAt>>
    BY DEF ReceiveEvent, RecordEvent, history
<1>2. EmittedOK'
    BY <1>1 DEF StatusInv, EmittedOK, IsBookedFor, ProviderNow, vars
<1>3. ASSUME ReceiveEvent(h)
      PROVE  StatusTypes' /\ columns' = columns
  <2>1. PICK e \in events : handler' = [handler EXCEPT ![h] = [event |-> e, fresh |-> ~Stale(e)]]
      BY <1>3 DEF ReceiveEvent
  <2>2. PICK b \in BOOLEAN : b = ~Stale(e)
      BY Zenon
  <2>3. [event |-> e, fresh |-> b] \in Decision
      BY DEF Decision, StatusInv, StatusTypes
  <2>4. handler' = [handler EXCEPT ![h] = [event |-> e, fresh |-> b]]
      BY <2>1, <2>2, Zenon
  <2> QED BY <1>1, <1>3, <2>3, <2>4 DEF ReceiveEvent, StatusInv, StatusTypes
<1>4. ASSUME RecordEvent(h)
      PROVE  /\ StatusTypes'
             /\ \A i \in Invoices : columns'[i] = columns[i] \/ columns'[i].revision \in Nat
  <2> DEFINE e == handler[h].event
             row == [revision |-> e.revision, updatedAt |-> e.updatedAt]
  <2>1. e \in events /\ e \in Event
      BY <1>4 DEF RecordEvent, StatusInv, StatusTypes
  <2>2. e.revision \in Nat /\ e.updatedAt \in Int /\ e.invoice \in Invoices
      BY <2>1, RevisionAssumption DEF Event
  <2>3. row \in Columns
      BY <2>2 DEF Columns
  <2>4. columns' \in {columns, [columns EXCEPT ![e.invoice] = row]}
      BY <1>4 DEF RecordEvent
  <2>5. /\ recorded' = recorded \cup {e} /\ handler' = [handler EXCEPT ![h] = Null]
      BY <1>4 DEF RecordEvent
  <2>6. columns \in [Invoices -> Columns]
      BY DEF StatusInv, StatusTypes
  <2>7. columns' \in [Invoices -> Columns]
    <3> HIDE DEF row, e
    <3> QED BY <2>3, <2>4, <2>6
  <2>8. \A i \in Invoices : columns'[i] = columns[i] \/ columns'[i].revision \in Nat
      BY <2>2, <2>4, <2>6
  <2> HIDE DEF e, row
  <2>9. /\ recorded' \subseteq events' /\ handler' \in [Handlers -> Decision \cup {Null}]
        /\ \A g \in Handlers : handler'[g] # Null => handler'[g].event \in events'
      BY <1>1, <2>1, <2>5 DEF StatusInv, StatusTypes
  <2>10. StatusTypes'
      BY <1>1, <2>7, <2>9 DEF StatusInv, StatusTypes
  <2> QED BY <2>8, <2>10
<1> QED BY <1>1, <1>2, <1>3, <1>4, OutsideKeeps

LEMMA SyncerKeeps ==
    ASSUME IndInv, StatusInv, NEW s \in Syncers, SyncList(s) \/ SyncFind(s) \/ SyncRefresh(s)
    PROVE  /\ StatusInv'
           /\ \A i \in Invoices \ Legacy : columns'[i] = columns[i]
<1>1. UNCHANGED <<vars, remote, seen, events, recorded, handler, settledAt>>
    BY DEF SyncList, SyncFind, SyncRefresh, history
<1>2. EmittedOK'
    BY <1>1 DEF StatusInv, EmittedOK, IsBookedFor, ProviderNow, vars
<1>3. /\ syncer \in [Syncers -> [todo : SUBSET Legacy, found : Answer \cup {Null}]]
      /\ \A t \in Syncers : syncer[t].found # Null => syncer[t].found.invoice \in Legacy
      /\ columns \in [Invoices -> Columns]
      /\ remote \in [Invoices -> Remote]
      /\ syncer[s] \in [todo : SUBSET Legacy, found : Answer \cup {Null}]
    BY DEF StatusInv, StatusTypes
<1>4. ASSUME NEW next \in [todo : SUBSET Legacy, found : Answer \cup {Null}],
             next.found # Null => next.found.invoice \in Legacy,
             syncer' = [syncer EXCEPT ![s] = next],
             columns' \in [Invoices -> Columns]
      PROVE  StatusTypes'
    BY <1>1, <1>3, <1>4 DEF StatusInv, StatusTypes
<1>5. ASSUME SyncList(s)
      PROVE  StatusTypes' /\ columns' = columns
  <2>1. Candidates \subseteq Legacy
      BY DEF Candidates, StatusInv, SucceededShowsStatus
  <2>2. syncer' = [syncer EXCEPT ![s] = [todo |-> Candidates, found |-> syncer[s].found]]
    <3>1. [syncer[s] EXCEPT !.todo = Candidates] = [todo |-> Candidates, found |-> syncer[s].found]
        BY <1>3
    <3> QED BY <1>5, <3>1 DEF SyncList
  <2>3. syncer[s].found = Null
      BY <1>5 DEF SyncList, Idle
  <2> QED BY <1>3, <1>4, <1>5, <2>1, <2>2, <2>3 DEF SyncList
<1>6. ASSUME SyncFind(s)
      PROVE  StatusTypes' /\ columns' = columns
  <2>1. PICK i \in syncer[s].todo :
          \/ syncer' = [syncer EXCEPT ![s].found = [invoice |-> i, revision |-> remote[i].revision]]
          \/ syncer' = [syncer EXCEPT ![s].todo = syncer[s].todo \ {i}]
      BY <1>3, <1>6 DEF SyncFind
  <2>2. i \in Legacy /\ i \in Invoices
      BY <1>3, LegacyAssumption
  <2>3. [invoice |-> i, revision |-> remote[i].revision] \in Answer
      BY <1>3, <2>2 DEF Answer, Remote
  <2>4. CASE syncer' = [syncer EXCEPT ![s].found = [invoice |-> i, revision |-> remote[i].revision]]
    <3>1. syncer' = [syncer EXCEPT ![s] = [todo |-> syncer[s].todo,
                        found |-> [invoice |-> i, revision |-> remote[i].revision]]]
      <4>1. [syncer[s] EXCEPT !.found = [invoice |-> i, revision |-> remote[i].revision]]
            = [todo |-> syncer[s].todo,
               found |-> [invoice |-> i, revision |-> remote[i].revision]]
          BY <1>3
      <4> QED BY <2>4, <4>1
    <3> QED BY <1>3, <1>4, <1>6, <2>2, <2>3, <3>1 DEF SyncFind
  <2>5. CASE syncer' = [syncer EXCEPT ![s].todo = syncer[s].todo \ {i}]
    <3>1. syncer' = [syncer EXCEPT ![s] = [todo |-> syncer[s].todo \ {i}, found |-> syncer[s].found]]
      <4>1. PICK left : left = syncer[s].todo \ {i}
          OBVIOUS
      <4>2. [syncer[s] EXCEPT !.todo = left] = [todo |-> left, found |-> syncer[s].found]
          BY <1>3
      <4> QED BY <2>5, <4>1, <4>2
    <3> QED BY <1>3, <1>4, <1>6, <3>1 DEF SyncFind
  <2> QED BY <2>1, <2>4, <2>5
<1>7. ASSUME SyncRefresh(s)
      PROVE  /\ StatusTypes'
             /\ \A i \in Invoices : \/ columns'[i] = columns[i]
                                    \/ i \in Legacy /\ columns'[i].revision \in Nat
  <2> DEFINE i == syncer[s].found.invoice
             row == [revision |-> syncer[s].found.revision, updatedAt |-> now]
  <2>1. /\ syncer[s].found \in Answer /\ i \in Legacy /\ i \in Invoices
      BY <1>3, <1>7, LegacyAssumption DEF SyncRefresh
  <2>2. row \in Columns /\ row.revision \in Nat
      BY <2>1 DEF Columns, Answer, IndInv, TypeOK
  <2>3. columns' = [columns EXCEPT ![i] = row]
      BY <1>7 DEF SyncRefresh
  <2>4. syncer' = [syncer EXCEPT ![s] = [todo |-> syncer[s].todo \ {i}, found |-> Null]]
      BY <1>3, <1>7 DEF SyncRefresh
  <2> HIDE DEF i, row
  <2>5. columns' \in [Invoices -> Columns]
      BY <1>3, <2>1, <2>2, <2>3
  <2>6. StatusTypes'
      BY <1>3, <1>4, <2>4, <2>5
  <2> QED BY <1>3, <2>1, <2>2, <2>3, <2>6
<1>8. /\ StatusTypes'
      /\ \A i \in Invoices : \/ columns'[i] = columns[i]
                             \/ i \in Legacy /\ columns'[i].revision \in Nat
    BY <1>5, <1>6, <1>7
<1> QED BY <1>1, <1>2, <1>8, OutsideKeeps

LEMMA StatusInvNext == IndInv /\ StatusInv /\ [StatusNext]_allVars => StatusInv'
<1> SUFFICES ASSUME IndInv, StatusInv, [StatusNext]_allVars PROVE StatusInv'
    OBVIOUS
<1>1. CASE UNCHANGED allVars
  <2>1. StatusTypes' /\ EmittedOK' /\ columns' = columns /\ UNCHANGED <<vars, settledAt>>
      BY <1>1 DEF allVars, vars, statusVars, history, StatusInv, StatusTypes, EmittedOK,
                       IsBookedFor, ProviderNow
  <2> QED BY <2>1, OutsideKeeps
<1> QED BY <1>1, DispatchKeeps, FinishKeeps, RemoteUpdateKeeps, HandlerKeeps, SyncerKeeps
        DEF StatusNext

\* Types of the status columns, what is emitted, and what a settled job shows hold
\* together in every state.
THEOREM StatusInvHolds == StatusSpec => [](IndInv /\ StatusInv)
<1> QED BY StatusInitInv, StatusInvInit, StatusNextInv, StatusInvNext, PTL DEF StatusSpec

\* A job that succeeded under this code shows a status, for any number of workers,
\* requests and sync runs: no outcome of an older attempt erases it (_finish).
THEOREM SucceededShown == StatusSpec => []SucceededShowsStatus
<1>1. StatusInv => SucceededShowsStatus
    BY DEF StatusInv
<1> QED BY <1>1, StatusInvHolds, PTL

-----------------------------------------------------------------------------
\* What is shown after a job was settled, but for requests that overlap.

\* The events of a transfer later than the settling of its job.
Later(i) == {e \in events : e.invoice = i /\ AfterSettling(e)}

EventsOf(i) == {e \in events : e.invoice = i}

\* The columns of job i are as new as event e.
AsNewAs(i, e) == columns[i].updatedAt # Null /\ e.updatedAt <= columns[i].updatedAt

\* What is newer than the settling of a job comes from an event, and is as new as
\* all the events that are recorded and that no overlap has hidden.
ShownOK ==
    \A i \in Invoices \ Legacy : settledAt[i] # Null =>
        /\ columns[i].updatedAt # Null /\ columns[i].updatedAt > settledAt[i] =>
              \E f \in EventsOf(i) : /\ f.revision = columns[i].revision
                                  /\ f.updatedAt = columns[i].updatedAt
        /\ \A e \in (recorded \cap Later(i)) \ overlapped : AsNewAs(i, e)

\* What a request has decided about a settled job is still right when it writes, but for
\* the events recorded since its SELECT.
DecisionOK ==
    \A h \in Handlers : handler[h] # Null =>
        LET e == handler[h].event
            i == e.invoice
        IN  i \notin Legacy /\ settledAt[i] # Null =>
                IF handler[h].fresh
                THEN \A f \in (recorded \cap Later(i)) \ (since[h] \cup overlapped) :
                        f.updatedAt < e.updatedAt
                ELSE e \in Later(i) => AsNewAs(i, e) \/ since[h] # {}

LaterInv == ShownOK /\ DecisionOK

LEMMA LaterInit == StatusInit => LaterInv
<1> SUFFICES ASSUME StatusInit PROVE LaterInv
    OBVIOUS
<1>1. \A i \in Invoices \ Legacy : settledAt[i] = Null
    BY DEF StatusInit
<1>2. \A h \in Handlers : handler[h] = Null
    BY DEF StatusInit
<1> QED BY <1>1, <1>2 DEF LaterInv, ShownOK, DecisionOK

\* Events are only added, and the columns and readings stay as they are.
LEMMA LaterUndisturbed ==
    ASSUME StatusInv, LaterInv, UNCHANGED <<recorded, handler, history>>,
           events \subseteq events',
           \A i \in Invoices \ Legacy : columns'[i] = columns[i]
    PROVE  LaterInv'
<1>1. \A i \in Invoices : /\ Later(i) \subseteq Later(i)'
                          /\ recorded' \cap Later(i)' = recorded \cap Later(i)
    BY DEF Later, AfterSettling, StatusInv, StatusTypes, history
<1>2. \A h \in Handlers : handler[h] # Null =>
          /\ handler[h].event \in events /\ handler[h].event.invoice \in Invoices
    BY DEF StatusInv, StatusTypes, Event
<1>3. \A i \in Invoices \ Legacy : \A e : AsNewAs(i, e)' <=> AsNewAs(i, e)
    BY DEF AsNewAs
<1>4. ShownOK'
    BY <1>1, <1>3 DEF LaterInv, ShownOK, EventsOf, history
<1>5. DecisionOK'
  <2> SUFFICES ASSUME NEW h \in Handlers, handler[h] # Null,
                      handler[h].event.invoice \notin Legacy,
                      settledAt[handler[h].event.invoice] # Null
               PROVE  LET e == handler[h].event
                          i == e.invoice
                      IN  IF handler[h].fresh
                          THEN \A f \in (recorded \cap Later(i)) \ (since[h] \cup overlapped) :
                                  f.updatedAt < e.updatedAt
                          ELSE e \in Later(i) => AsNewAs(i, e)' \/ since[h] # {}
      BY <1>1, <1>2 DEF DecisionOK, Later, AfterSettling, history
  <2> QED BY <1>2, <1>3 DEF LaterInv, DecisionOK
<1> QED BY <1>4, <1>5 DEF LaterInv

\* When _finish settles a job, no event is later; afterwards it changes nothing.
LEMMA FinishShows ==
    ASSUME IndInv, StatusInv, StatusInv', LaterInv, NEW w \in Workers, FinishStatus(w)
    PROVE  LaterInv'
<1>1. TypeOK /\ Finish(w) /\ UNCHANGED <<recorded, events, remote, handler, since, overlapped>>
    BY DEF IndInv, FinishStatus
<1>0. PICK i \in Invoices : i = claim[w].invoice
    BY <1>1, FinishShape
<1>2. /\ i \in Invoices /\ now' = now /\ at[w] \in Nat /\ now \in Nat /\ at[w] <= now
      /\ HoldsLease(claim[w]) => jobs[i].status = "processing"
      /\ ~HoldsLease(claim[w]) => jobs' = jobs
    BY <1>0, <1>1, FinishShape DEF TypeOK, IndInv, LeaseAge
<1>3. \A j \in Invoices : j # i => columns'[j] = columns[j] /\ settledAt'[j] = settledAt[j]
    BY <1>0, <1>2 DEF FinishStatus, StatusInv, StatusTypes
<1>4. CASE settledAt[i] # Null \/ ~HoldsLease(claim[w])
  <2>1. ~HoldsLease(claim[w])
      BY <1>2, <1>4 DEF StatusInv, SettledOK, Settled
  <2>2. columns' = columns /\ settledAt'[i] = settledAt[i]
      BY <1>0, <1>2, <2>1 DEF FinishStatus, StatusInv, StatusTypes, SettledOK
  <2>3. settledAt' = settledAt
      BY <1>2, <1>3, <2>2 DEF StatusInv, StatusTypes
  <2> QED BY <1>1, <2>2, <2>3, LaterUndisturbed DEF history
<1>5. CASE settledAt[i] = Null /\ HoldsLease(claim[w])
  <2>1. \A e \in events : /\ e.invoice \in Invoices /\ e.updatedAt \in Int
                          /\ e.updatedAt <= ProviderNow
    <3>1. \A e \in events : e \in Event /\ remote[e.invoice] \in Remote
                            /\ e.updatedAt <= remote[e.invoice].updatedAt
                            /\ remote[e.invoice].updatedAt <= ProviderNow
        BY DEF StatusInv, StatusTypes, EmittedOK, Event
    <3> QED BY <1>2, <3>1, SkewAssumption DEF Event, Remote, ProviderNow
  <2>2. settledAt'[i] \in {Null, now}
      BY <1>0, <1>2, <1>5 DEF FinishStatus, StatusInv, StatusTypes
  <2>3. settledAt'[i] # Null => Later(i)' = {}
      BY <1>1, <1>2, <2>1, <2>2, SkewAssumption DEF Later, AfterSettling, ProviderNow
  <2>4. columns'[i].updatedAt \in {Null, at[w]}
      BY <1>0, <1>2, <1>5 DEF FinishStatus, FinishedColumns, NoColumns, StatusInv, StatusTypes
  <2>5. \A j \in Invoices : j # i => Later(j)' = Later(j)
      BY <1>1, <1>3 DEF Later, AfterSettling
  <2>6. ShownOK'
    <3> SUFFICES ASSUME NEW j \in Invoices \ Legacy, settledAt'[j] # Null
                 PROVE  /\ columns'[j].updatedAt # Null /\ columns'[j].updatedAt > settledAt'[j] =>
                              \E f \in EventsOf(j)' : /\ f.revision = columns'[j].revision
                                                   /\ f.updatedAt = columns'[j].updatedAt
                        /\ \A e \in (recorded' \cap Later(j)') \ overlapped : AsNewAs(j, e)'
        BY <1>1 DEF ShownOK
    <3>1. CASE j = i
      <4>1. Later(j)' = {} /\ settledAt'[j] = now
          BY <2>2, <2>3, <3>1
      <4>2. columns'[j].updatedAt \in {Null, at[w]}
          BY <2>4, <3>1
      <4>3. ~(columns'[j].updatedAt # Null /\ columns'[j].updatedAt > settledAt'[j])
          BY <1>2, <4>1, <4>2
      <4> QED BY <4>1, <4>3
    <3>2. CASE j # i
      <4>1. columns'[j] = columns[j] /\ settledAt'[j] = settledAt[j] /\ Later(j)' = Later(j)
          BY <1>3, <2>5, <3>2
      <4>2. \A e : AsNewAs(j, e)' <=> AsNewAs(j, e)
          BY <4>1 DEF AsNewAs
      <4> QED BY <1>1, <4>1, <4>2 DEF LaterInv, ShownOK, EventsOf
    <3> QED BY <3>1, <3>2
  <2>7. ASSUME NEW h \in Handlers, handler[h] # Null, NEW e \in events, e = handler[h].event,
               e.invoice \notin Legacy, settledAt'[e.invoice] # Null
        PROVE  IF handler[h].fresh
               THEN \A f \in (recorded \cap Later(e.invoice)') \ (since[h] \cup overlapped) :
                       f.updatedAt < e.updatedAt
               ELSE e \in Later(e.invoice)' => AsNewAs(e.invoice, e)' \/ since[h] # {}
    <3>1. CASE e.invoice = i
        BY <2>3, <2>7, <3>1
    <3>2. CASE e.invoice # i
      <4>1. /\ columns'[e.invoice] = columns[e.invoice]
            /\ settledAt'[e.invoice] = settledAt[e.invoice]
            /\ Later(e.invoice)' = Later(e.invoice)
          BY <1>3, <2>1, <2>5, <3>2
      <4>2. AsNewAs(e.invoice, e)' <=> AsNewAs(e.invoice, e)
          BY <4>1 DEF AsNewAs
      <4> QED BY <2>7, <4>1, <4>2 DEF LaterInv, DecisionOK
    <3> QED BY <3>1, <3>2
  <2>8. DecisionOK'
    <3>1. \A h \in Handlers : handler[h] # Null => handler[h].event \in events
        BY DEF StatusInv, StatusTypes
    <3> QED BY <1>1, <2>7, <3>1 DEF DecisionOK
  <2> QED BY <2>6, <2>8 DEF LaterInv
<1> QED BY <1>4, <1>5

\* The SELECT decides by what is shown now.
LEMMA ReceiveShows ==
    ASSUME StatusInv, LaterInv, NEW h \in Handlers, ReceiveEvent(h)
    PROVE  LaterInv'
<1>1. PICK e \in events : handler' = [handler EXCEPT ![h] = [event |-> e, fresh |-> ~Stale(e)]]
    BY DEF ReceiveEvent
<1>2. UNCHANGED <<columns, recorded, events, settledAt, since, overlapped>>
    BY DEF ReceiveEvent, history
<1>3. \A i : Later(i)' = Later(i)
    BY <1>2 DEF Later, AfterSettling
<1>4. \A i, f : AsNewAs(i, f)' <=> AsNewAs(i, f)
    BY <1>2 DEF AsNewAs
<1>5. ShownOK'
    BY <1>2, <1>3, <1>4 DEF LaterInv, ShownOK, EventsOf
<1>6. ASSUME e.invoice \notin Legacy, settledAt[e.invoice] # Null
      PROVE  /\ ~Stale(e) => \A f \in (recorded \cap Later(e.invoice)) \ overlapped :
                               f.updatedAt < e.updatedAt
             /\ Stale(e) => AsNewAs(e.invoice, e)
  <2> DEFINE i == e.invoice
  <2>1. /\ i \in Invoices \ Legacy /\ e.updatedAt \in Int
        /\ columns[i].updatedAt \in Int \cup {Null}
      BY <1>6 DEF StatusInv, StatusTypes, Event, Columns
  <2>2. \A f \in recorded : f.updatedAt \in Int
      BY DEF StatusInv, StatusTypes, Event
  <2>3. \A f \in (recorded \cap Later(i)) \ overlapped : AsNewAs(i, f)
      BY <1>6, <2>1 DEF LaterInv, ShownOK
  <2>4. ASSUME ~Stale(e), NEW f \in (recorded \cap Later(i)) \ overlapped
        PROVE  f.updatedAt < e.updatedAt
    <3>1. columns[i].updatedAt # Null /\ f.updatedAt <= columns[i].updatedAt
        BY <2>3, <2>4 DEF AsNewAs
    <3> QED BY <2>1, <2>2, <2>4, <3>1 DEF Stale
  <2>5. Stale(e) => AsNewAs(i, e)
      BY <2>1 DEF Stale, AsNewAs
  <2> QED BY <2>4, <2>5
<1>7. ASSUME NEW g \in Handlers, handler'[g] # Null
      PROVE  LET d == handler'[g].event
                 i == d.invoice
             IN  i \notin Legacy /\ settledAt[i] # Null =>
                     IF handler'[g].fresh
                     THEN \A f \in (recorded \cap Later(i)) \ (since[g] \cup overlapped) :
                             f.updatedAt < d.updatedAt
                     ELSE d \in Later(i) => AsNewAs(i, d) \/ since[g] # {}
  <2>1. CASE g # h
    <3>1. handler'[g] = handler[g]
        BY <1>1, <2>1 DEF StatusInv, StatusTypes
    <3> QED BY <1>7, <3>1 DEF LaterInv, DecisionOK
  <2>2. CASE g = h
    <3>1. PICK b \in BOOLEAN : b <=> ~Stale(e)
        BY Zenon
    <3>2. handler' = [handler EXCEPT ![h] = [event |-> e, fresh |-> b]]
        BY <1>1, <3>1, Zenon
    <3>3. handler'[g].event = e /\ handler'[g].fresh = b
        BY <2>2, <3>2 DEF StatusInv, StatusTypes
    <3> QED BY <1>6, <3>1, <3>3
  <2> QED BY <2>1, <2>2
<1>8. DecisionOK'
    BY <1>2, <1>3, <1>4, <1>7 DEF DecisionOK
<1> QED BY <1>5, <1>8 DEF LaterInv

\* The UPDATE writes what the SELECT has decided; what other requests have recorded in
\* between is in since, and what the others have read is noted in theirs.
LEMMA RecordShows ==
    ASSUME StatusInv, LaterInv, NEW h \in Handlers, RecordEvent(h)
    PROVE  LaterInv'
<1>1. PICK e \in events : e = handler[h].event
    BY DEF RecordEvent, StatusInv, StatusTypes
<1>2. PICK applies \in BOOLEAN : applies <=> handler[h].fresh /\ e \notin recorded
    BY Zenon
<1>3. /\ UNCHANGED <<events, settledAt>> /\ handler[h] # Null
      /\ recorded' = recorded \cup {e} /\ handler' = [handler EXCEPT ![h] = Null]
      /\ columns' = IF applies
                    THEN [columns EXCEPT ![e.invoice] = [revision |-> e.revision,
                                                         updatedAt |-> e.updatedAt]]
                    ELSE columns
    BY <1>1, <1>2 DEF RecordEvent
<1>4. \A j : Later(j)' = Later(j)
    BY <1>3 DEF Later, AfterSettling
<1>5. /\ e.invoice \in Invoices /\ e.updatedAt \in Int
      /\ columns \in [Invoices -> Columns]
    BY DEF StatusInv, StatusTypes, Event
<1>9. Overlap(h)
    BY DEF RecordEvent
<1>10. /\ \A g \in Handlers \ {h} : since[g] \subseteq since'[g]
       /\ \A g \in Handlers \ {h} : handler[g] # Null /\ handler[g].event.invoice = e.invoice
              /\ e \notin recorded => e \in since'[g]
       /\ overlapped \subseteq overlapped'
       /\ applies => since[h] \subseteq overlapped'
       /\ e \notin recorded /\ ~handler[h].fresh /\ since[h] # {} => e \in overlapped'
    BY <1>1, <1>2, <1>9 DEF Overlap
<1>6. ASSUME NEW g \in Handlers \ {h}, handler[g] # Null, NEW d \in events,
             d = handler[g].event, d.invoice \notin Legacy, settledAt[d.invoice] # Null
      PROVE  LET i == d.invoice
             IN  IF handler[g].fresh
                 THEN \A f \in (recorded' \cap Later(i)) \ (since'[g] \cup overlapped') :
                         f.updatedAt < d.updatedAt
                 ELSE d \in Later(i) => AsNewAs(i, d)' \/ since'[g] # {}
  <2> DEFINE i == d.invoice
  <2>3. IF handler[g].fresh
        THEN \A f \in (recorded \cap Later(i)) \ (since[g] \cup overlapped) :
                f.updatedAt < d.updatedAt
        ELSE d \in Later(i) => AsNewAs(i, d) \/ since[g] # {}
      BY <1>6 DEF LaterInv, DecisionOK
  <2>4. /\ since[g] \subseteq since'[g] /\ overlapped \subseteq overlapped'
        /\ i = e.invoice /\ e \notin recorded => e \in since'[g]
      BY <1>6, <1>10
  <2>5. i # e.invoice => e \notin Later(i)
      BY DEF Later
  <2>6. ASSUME handler[g].fresh, NEW f \in (recorded' \cap Later(i)) \ (since'[g] \cup overlapped')
        PROVE  f.updatedAt < d.updatedAt
    <3>1. f \in recorded
        BY <1>3, <2>4, <2>5, <2>6
    <3> QED BY <2>3, <2>4, <2>6, <3>1
  <2>7. ASSUME ~handler[g].fresh, d \in Later(i) PROVE AsNewAs(i, d)' \/ since'[g] # {}
    <3>1. CASE since[g] # {}
        BY <2>4, <3>1
    <3>2. CASE applies /\ i = e.invoice
        BY <1>2, <2>4, <3>2
    <3>3. CASE AsNewAs(i, d) /\ ~(applies /\ i = e.invoice)
      <4>1. columns'[i] = columns[i]
          BY <1>3, <1>5, <3>3
      <4> QED BY <3>3, <4>1 DEF AsNewAs
    <3> QED BY <2>3, <2>7, <3>1, <3>2, <3>3
  <2> HIDE DEF i
  <2> QED BY <2>6, <2>7 DEF i
<1>11. DecisionOK'
  <2>1. \A g \in Handlers : handler'[g] # Null => g # h /\ handler'[g] = handler[g]
      BY <1>3 DEF StatusInv, StatusTypes
  <2>2. \A g \in Handlers : handler[g] # Null => handler[g].event \in events
      BY DEF StatusInv, StatusTypes
  <2> QED BY <1>3, <1>4, <1>6, <2>1, <2>2 DEF DecisionOK
<1>7. ASSUME NEW j \in Invoices \ Legacy, settledAt[j] # Null
      PROVE  /\ columns'[j].updatedAt # Null /\ columns'[j].updatedAt > settledAt[j] =>
                   \E f \in EventsOf(j) : /\ f.revision = columns'[j].revision
                                       /\ f.updatedAt = columns'[j].updatedAt
             /\ \A f \in (recorded' \cap Later(j)) \ overlapped' : AsNewAs(j, f)'
  <2>1. /\ columns[j].updatedAt # Null /\ columns[j].updatedAt > settledAt[j] =>
              \E f \in EventsOf(j) : /\ f.revision = columns[j].revision
                                  /\ f.updatedAt = columns[j].updatedAt
        /\ \A f \in (recorded \cap Later(j)) \ overlapped : AsNewAs(j, f)
      BY <1>7 DEF LaterInv, ShownOK
  <2>2. e.invoice = j =>
            IF handler[h].fresh
            THEN \A f \in (recorded \cap Later(j)) \ (since[h] \cup overlapped) :
                    f.updatedAt < e.updatedAt
            ELSE e \in Later(j) => AsNewAs(j, e) \/ since[h] # {}
      BY <1>1, <1>3, <1>7 DEF LaterInv, DecisionOK
  <2>3. CASE ~applies \/ e.invoice # j
    <3>1. columns'[j] = columns[j]
        BY <1>3, <1>5, <2>3
    <3>2. \A f : AsNewAs(j, f)' <=> AsNewAs(j, f)
        BY <3>1 DEF AsNewAs
    <3>3. ASSUME NEW f \in (recorded' \cap Later(j)) \ overlapped' PROVE AsNewAs(j, f)
      <4>1. CASE f \in recorded
          BY <1>10, <2>1, <3>3, <4>1
      <4>2. CASE f = e /\ e \notin recorded
        <5>1. e.invoice = j /\ ~handler[h].fresh
            BY <1>2, <2>3, <3>3, <4>2 DEF Later
        <5>2. since[h] = {}
            BY <1>10, <3>3, <4>2, <5>1
        <5> QED BY <2>2, <3>3, <4>2, <5>1, <5>2
      <4> QED BY <1>3, <3>3, <4>1, <4>2
    <3> QED BY <2>1, <3>1, <3>2, <3>3
  <2>4. CASE applies /\ e.invoice = j
    <3>1. columns'[j] = [revision |-> e.revision, updatedAt |-> e.updatedAt]
        BY <1>3, <1>5, <2>4
    <3>2. e \in EventsOf(j)
        BY <2>4 DEF EventsOf
    <3>3. \A f \in (recorded' \cap Later(j)) \ overlapped' :
             f.updatedAt \in Int /\ f.updatedAt <= e.updatedAt
      <4>1. \A f \in (recorded \cap Later(j)) \ overlapped' : f.updatedAt < e.updatedAt
          BY <1>2, <1>10, <2>2, <2>4
      <4>2. \A f \in recorded : f.updatedAt \in Int
          BY DEF StatusInv, StatusTypes, Event
      <4> QED BY <1>3, <1>5, <4>1, <4>2
    <3>4. e.updatedAt # Null
        BY <1>5, NullIsNothing
    <3> QED BY <3>1, <3>2, <3>3, <3>4 DEF AsNewAs
  <2> QED BY <2>3, <2>4
<1>8. ShownOK'
    BY <1>3, <1>4, <1>7 DEF ShownOK, EventsOf
<1> QED BY <1>8, <1>11 DEF LaterInv

LEMMA LaterNext ==
    IndInv /\ StatusInv /\ StatusInv' /\ LaterInv /\ [StatusNext]_allVars => LaterInv'
<1> SUFFICES ASSUME IndInv, StatusInv, StatusInv', LaterInv, [StatusNext]_allVars
             PROVE  LaterInv'
    OBVIOUS
<1> USE DEF StatusInv, StatusTypes
<1>1. CASE UNCHANGED allVars
    BY <1>1, LaterUndisturbed DEF allVars, statusVars
<1>2. CASE OtherDispatch \/ ArriveStatus \/ \E w \in Workers : AskStatus(w)
  <2>1. UNCHANGED <<columns, recorded, handler, history>>
      BY <1>2 DEF OtherDispatch, ArriveStatus, AskStatus, statusVars
  <2>2. events \subseteq events'
      BY <1>2 DEF OtherDispatch, ArriveStatus, AskStatus, statusVars, EmitBooked, Emit
  <2> QED BY <2>1, <2>2, LaterUndisturbed
<1>3. ASSUME NEW i \in Invoices, RemoteUpdate(i) PROVE LaterInv'
    BY <1>3, LaterUndisturbed DEF RemoteUpdate, Emit
<1>4. ASSUME NEW s \in Syncers, SyncList(s) \/ SyncFind(s) \/ SyncRefresh(s) PROVE LaterInv'
  <2>1. UNCHANGED <<recorded, handler, history, events>>
      BY <1>4 DEF SyncList, SyncFind, SyncRefresh
  <2> QED BY <1>4, <2>1, SyncerKeeps, LaterUndisturbed
<1> QED BY <1>1, <1>2, <1>3, <1>4, FinishShows, ReceiveShows, RecordShows DEF StatusNext

\* What the provider does after a job is settled is shown, for any number of requests,
\* workers, sync runs and revisions, however the events are ordered or repeated
\* (_record_transfer_event).  Requests may overlap: only an event is excepted that was
\* recorded between the SELECT and the UPDATE of another request, or that was found old
\* by a status replaced since.
THEOREM LaterShown == StatusSpec => []LaterUpdatesShown
<1>1. IndInv /\ StatusInv /\ LaterInv => LaterUpdatesShown
  <2> SUFFICES ASSUME StatusInv, LaterInv, NEW e \in recorded \ overlapped,
                      e.invoice \notin Legacy, AfterSettling(e)
               PROVE  columns[e.invoice].revision >= e.revision
      BY DEF LaterUpdatesShown
  <2> DEFINE i == e.invoice
  <2>1. /\ i \in Invoices \ Legacy /\ e \in Later(i) /\ e \in events
        /\ settledAt[i] # Null /\ e.updatedAt > settledAt[i]
      BY DEF StatusInv, StatusTypes, Event, Later, AfterSettling
  <2>2. /\ settledAt[i] \in Nat /\ e.updatedAt \in Int
        /\ columns[i].updatedAt \in Int \cup {Null}
        /\ \A f \in EventsOf(i) : f \in events /\ f.invoice = i /\ f.updatedAt \in Int
                                  /\ f.revision \in Int
      BY <2>1 DEF StatusInv, StatusTypes, Event, EventsOf, Columns
  <2>3. columns[i].updatedAt # Null /\ e.updatedAt <= columns[i].updatedAt
      BY <2>1 DEF LaterInv, ShownOK, AsNewAs
  <2>4. columns[i].updatedAt > settledAt[i]
      BY <2>1, <2>2, <2>3
  <2>5. PICK f \in EventsOf(i) : /\ f.revision = columns[i].revision
                                 /\ f.updatedAt = columns[i].updatedAt
      BY <2>1, <2>3, <2>4 DEF LaterInv, ShownOK
  <2>6. e.revision <= f.revision
      BY <2>1, <2>2, <2>3, <2>5 DEF StatusInv, EmittedOK
  <2> QED BY <2>2, <2>5, <2>6 DEF Event, StatusInv, StatusTypes
<1>2. IndInv /\ StatusInv /\ StatusInv' /\ LaterInv /\ [StatusNext]_allVars => LaterInv'
    BY LaterNext
<1> QED BY <1>1, <1>2, StatusInitInv, StatusInvInit, StatusNextInv, StatusInvNext, LaterInit, PTL
        DEF StatusSpec

=============================================================================
