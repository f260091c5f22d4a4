------------------------- MODULE CreditEvents_proofs -------------------------
(***************************************************************************)
(* For any number of requests, issuers, tags and deliveries: what          *)
(* CreditEvents promises of the tables.  The invariant says what an open   *)
(* transaction knows of the rows it has read (RequestOK, IssuerOK), and    *)
(* that no two of them hold the same key (Apart).  The last section puts   *)
(* the workers of TransferDispatch beside the requests.                    *)
(***************************************************************************)
EXTENDS CreditToTransfer, Sequences, TLAPS

Labels == {"idle", "insert", "recover", "own", "match", "bind", "draft", "check", "job",
           "mark", "promote", "commit"}
RequestRecs == [at : Labels, d : Deliveries \cup {Null}, isNew : BOOLEAN,
                outcome : Outcomes \cup {Null}, tag : Tags \cup {Null},
                bound : BOOLEAN, draft : BOOLEAN, job : BOOLEAN]
IssuerRecs == [at : {"idle", "owner", "commit"}, tag : Tags \cup {Null},
               invoice : InvoiceIds \cup {Null}]

TablesOK == /\ events \in [EventIds -> Rows \cup {Null}]
            /\ owner \in [Tags -> InvoiceIds \cup {Null, NotOwned}]
            /\ jobs \subseteq [event : EventIds, invoice : InvoiceIds]
            /\ req \in [Requests -> RequestRecs]
            /\ issuer \in [Issuers -> IssuerRecs]

JobOf(invoice) == \E j \in jobs : j.invoice = invoice

\* The invoice carries a tag of ours.
Claimed(d) == \E t \in Registered : t \in d.tags \/ d.invoice \in InvoicesWith[t]

Accepted == {"queued", "duplicate_invoice"}

\* The event is on record with this payload, and not refused.
Recorded(d) == /\ events[d.event] # Null /\ events[d.event].payload = d.payload
               /\ events[d.event].outcome \in Accepted \cup {"invoice_unknown"}

\* A job is the job of a delivery that is on record.
JobOK(j) == \E d \in Deliveries : /\ d.event = j.event /\ d.invoice = j.invoice
                                  /\ d.kind = "credited" /\ d.payable
                                  /\ Recorded(d) /\ Claimed(d)

\* An owner that an event has bound has its job.
OwnerOK(t) == owner[t] \in InvoicesWith[t] \cup {Null, NotOwned} \/ JobOf(owner[t])

AcceptedOK(e) == events[e] # Null /\ events[e].outcome \in Accepted
                 => \E d \in Deliveries : /\ d.event = e /\ d.payload = events[e].payload
                                          /\ JobOf(d.invoice)

Queueing == {"own", "match", "bind", "draft", "check", "job", "mark", "promote"}

\* What the transaction q of a request knows of the tables.
RequestOK(q) ==
    /\ q.at # "idle" => q.d \in Deliveries
    /\ q.at \in {"idle", "insert", "recover"} => ~q.isNew /\ q.outcome = Null
    /\ q.isNew => q.outcome # Null /\ events[q.d.event] = Null
    /\ q.at = "recover" => events[q.d.event] # Null
    /\ q.at \in Queueing \cup {"recover"} \/ q.job => q.d.kind = "credited" /\ q.d.payable
    /\ q.at \in Queueing \/ q.job => q.isNew \/ Recorded(q.d)
    /\ q.outcome # Null /\ ~q.isNew => events[q.d.event] # Null /\ q.outcome \in Accepted
    /\ q.at = "commit" /\ q.outcome \in Accepted
       => q.d.kind = "credited" /\ q.d.payable /\ (q.isNew \/ Recorded(q.d))
    /\ q.at = "commit" /\ q.job => q.outcome = "queued"
    /\ q.job => q.at \in {"promote", "commit"}
    /\ q.bound => q.at \in {"draft", "check", "job", "mark", "promote", "commit"}
    /\ q.at \in {"bind", "draft"} \/ q.bound => q.tag \in Registered
    /\ q.at \in {"bind", "draft", "check", "job"} => Claimed(q.d) \/ JobOf(q.d.invoice)
    /\ q.at = "mark" => JobOf(q.d.invoice)
    /\ q.at = "promote" => q.job
    /\ q.at = "commit" /\ (q.bound \/ q.outcome \in Accepted)
       => q.job \/ JobOf(q.d.invoice)
    /\ q.job => Claimed(q.d) /\ ~JobExists(q.d)
    /\ q.bound => OwnersOf(q.d.invoice) \subseteq {q.tag}

\* What the transaction i of an issuer knows.
IssuerOK(i) ==
    /\ i.at # "idle" => i.tag \in Registered /\ i.invoice \in InvoicesWith[i.tag] \cup {Null}
    /\ i.at = "commit" /\ i.invoice # Null => OwnersOf(i.invoice) \subseteq {i.tag}

\* Two transactions hold different keys.
Apart(p, q) == /\ p.isNew /\ q.isNew => p.d.event # q.d.event
               /\ p.job /\ q.job => p.d.invoice # q.d.invoice /\ p.d.event # q.d.event
               /\ p.bound /\ q.bound => p.tag # q.tag /\ p.d.invoice # q.d.invoice
ApartFrom(q, i) == q.bound /\ i.at = "commit" => q.tag # i.tag /\ q.d.invoice # i.invoice
IssuersApart(i, k) == i.at = "commit" /\ k.at = "commit"
                      => i.tag # k.tag /\ (i.invoice = Null \/ i.invoice # k.invoice)

CreditInv == /\ TablesOK
             /\ OneJob /\ OneOwner
             /\ \A j \in jobs : JobOK(j)
             /\ \A t \in Tags : OwnerOK(t)
             /\ \A e \in EventIds : AcceptedOK(e)
             /\ \A r \in Requests : RequestOK(req[r])
             /\ \A s \in Issuers : IssuerOK(issuer[s])
             /\ \A q, r \in Requests : q # r => Apart(req[q], req[r])
             /\ \A r \in Requests, s \in Issuers : ApartFrom(req[r], issuer[s])
             /\ \A s, u \in Issuers : s # u => IssuersApart(issuer[s], issuer[u])

-----------------------------------------------------------------------------
\* Steps that leave the tables alone.

\* The invariant is kept by a request that changes only its own transaction, if what
\* it knows then is true and what it holds is its own.
LEMMA RequestStep ==
    ASSUME CreditInv, NEW r \in Requests, NEW next \in RequestRecs, RequestOK(next),
           \A q \in Requests \ {r} : Apart(next, req[q]),
           \A s \in Issuers : ApartFrom(next, issuer[s]),
           req' = [req EXCEPT ![r] = next], UNCHANGED <<events, jobs, owner, issuer>>
    PROVE  CreditInv'
<1>1. req' \in [Requests -> RequestRecs] /\ req'[r] = next
      /\ \A q \in Requests \ {r} : req'[q] = req[q]
  BY DEF CreditInv, TablesOK
<1>2. /\ TablesOK' /\ OneJob' /\ OneOwner'
      /\ (\A j \in jobs : JobOK(j))'
      /\ (\A t \in Tags : OwnerOK(t))'
      /\ (\A e \in EventIds : AcceptedOK(e))'
  <2>1. TablesOK'
    BY <1>1 DEF CreditInv, TablesOK
  <2>2. OneJob' /\ OneOwner'
    BY DEF CreditInv, OneJob, OneOwner, Registered
  <2>3. (\A j \in jobs : JobOK(j))'
    BY DEF CreditInv, JobOK, Recorded, Claimed, Registered
  <2>4. (\A t \in Tags : OwnerOK(t))'
    BY DEF CreditInv, OwnerOK, JobOf
  <2>5. (\A e \in EventIds : AcceptedOK(e))'
    BY DEF CreditInv, AcceptedOK, JobOf
  <2> QED BY <2>1, <2>2, <2>3, <2>4, <2>5
<1>3. \A q \in RequestRecs : RequestOK(q) <=> RequestOK(q)'
  BY DEF RequestOK, Recorded, Claimed, JobOf, JobExists, OwnersOf, Registered
<1>4. \A q \in Requests : RequestOK(req[q])'
  <2> SUFFICES ASSUME NEW q \in Requests PROVE RequestOK(req[q])'
    OBVIOUS
  <2>1. RequestOK(req'[q])
    BY <1>1 DEF CreditInv
  <2> QED BY <2>1, <1>1 DEF RequestOK, Recorded, Claimed, JobOf, JobExists, OwnersOf, Registered
<1>5. (\A s \in Issuers : IssuerOK(issuer[s]))'
  BY DEF CreditInv, IssuerOK, OwnersOf, Registered
<1>6. \A p, q \in Requests : p # q => Apart(req'[p], req'[q])
  BY <1>1 DEF CreditInv, Apart
<1>7. \A q \in Requests, s \in Issuers : ApartFrom(req'[q], issuer'[s])
  BY <1>1 DEF CreditInv
<1> QED BY <1>1, <1>2, <1>4, <1>5, <1>6, <1>7 DEF CreditInv, Apart, ApartFrom, IssuersApart

\* A transaction that has been rolled back holds nothing.
LEMMA NothingHeld ==
    /\ NoRequest \in RequestRecs /\ RequestOK(NoRequest)
    /\ \A q \in RequestRecs : Apart(NoRequest, q)
    /\ \A i \in IssuerRecs : ApartFrom(NoRequest, i)
BY CreditNullAssumption
   DEF NoRequest, RequestRecs, RequestOK, Apart, ApartFrom, Labels, Queueing, Outcomes

\* The same for an issuer.
LEMMA IssuerStepKeeps ==
    ASSUME CreditInv, NEW s \in Issuers, NEW next \in IssuerRecs, IssuerOK(next),
           \A r \in Requests : ApartFrom(req[r], next),
           \A u \in Issuers \ {s} : IssuersApart(next, issuer[u]) /\ IssuersApart(issuer[u], next),
           IssuerStep(s, next)
    PROVE  CreditInv'
<1> USE DEF IssuerStep
<1>1. issuer' \in [Issuers -> IssuerRecs] /\ issuer'[s] = next
      /\ \A u \in Issuers \ {s} : issuer'[u] = issuer[u]
  BY DEF CreditInv, TablesOK
<1>2. /\ TablesOK' /\ OneJob' /\ OneOwner'
      /\ (\A j \in jobs : JobOK(j))'
      /\ (\A t \in Tags : OwnerOK(t))'
      /\ (\A e \in EventIds : AcceptedOK(e))'
  <2>1. TablesOK'
    BY <1>1 DEF CreditInv, TablesOK
  <2>2. OneJob' /\ OneOwner'
    BY DEF CreditInv, OneJob, OneOwner, Registered
  <2>3. (\A j \in jobs : JobOK(j))'
    BY DEF CreditInv, JobOK, Recorded, Claimed, Registered
  <2>4. (\A t \in Tags : OwnerOK(t))'
    BY DEF CreditInv, OwnerOK, JobOf
  <2>5. (\A e \in EventIds : AcceptedOK(e))'
    BY DEF CreditInv, AcceptedOK, JobOf
  <2> QED BY <2>1, <2>2, <2>3, <2>4, <2>5
<1>3. (\A r \in Requests : RequestOK(req[r]))'
  BY DEF CreditInv, RequestOK, Recorded, Claimed, JobOf, JobExists, OwnersOf, Registered
<1>4. \A u \in Issuers : IssuerOK(issuer'[u])
  BY <1>1 DEF CreditInv
<1>5. (\A u \in Issuers : IssuerOK(issuer[u]))'
  BY <1>4 DEF IssuerOK, OwnersOf, Registered
<1>6. \A u, v \in Issuers : u # v => IssuersApart(issuer'[u], issuer'[v])
  BY <1>1 DEF CreditInv
<1>7. \A q \in Requests, u \in Issuers : ApartFrom(req'[q], issuer'[u])
  BY <1>1 DEF CreditInv
<1>8. (\A q, r \in Requests : q # r => Apart(req[q], req[r]))'
  BY DEF CreditInv, Apart
<1> QED BY <1>1, <1>2, <1>3, <1>5, <1>6, <1>7, <1>8 DEF CreditInv, ApartFrom, IssuersApart

-----------------------------------------------------------------------------
\* The statements of a request.

LEMMA Monitored == ASSUME CreditInv, NEW r \in Requests
    PROVE /\ req[r] \in RequestRecs /\ RequestOK(req[r])
          /\ \A q \in Requests \ {r} : Apart(req[r], req[q])
          /\ \A s \in Issuers : ApartFrom(req[r], issuer[s])
BY DEF CreditInv, TablesOK

\* A transaction that goes on with the same locks.
LEMMA GoesOn ==
    ASSUME CreditInv, NEW r \in Requests, NEW next \in RequestRecs, RequestOK(next),
           next.isNew => req[r].isNew, next.job => req[r].job,
           next.bound => req[r].bound /\ next.tag = req[r].tag, next.d = req[r].d,
           Step(r, next)
    PROVE  CreditInv'
<1>1. \A q \in Requests \ {r} : Apart(next, req[q])
  BY Monitored DEF Apart
<1>2. \A s \in Issuers : ApartFrom(next, issuer[s])
  BY Monitored DEF ApartFrom
<1> QED BY <1>1, <1>2, RequestStep DEF Step

LEMMA InsertKeeps ==
    ASSUME CreditInv, NEW r \in Requests, InsertEvent(r) \/ InsertDuplicate(r) \/ Recover(r)
    PROVE  CreditInv'
<1>0. req[r] \in RequestRecs /\ RequestOK(req[r])
  BY Monitored
<1>1. CASE InsertEvent(r)
  <2> DEFINE d == req[r].d
             next == [req[r] EXCEPT !.at = IF InitialOutcome(d) = "queued" THEN "own" ELSE "commit",
                                    !.isNew = TRUE, !.outcome = InitialOutcome(d)]
  <2>1. d \in Deliveries /\ InitialOutcome(d) \in Outcomes
    BY <1>0, <1>1 DEF InsertEvent, RequestOK, InitialOutcome, Outcomes
  <2>2. next \in RequestRecs
    BY <1>0, <2>1 DEF RequestRecs, Labels
  <2>3. RequestOK(next)
    BY <1>0, <1>1, <2>1, DeliveriesAssumption, CreditNullAssumption
       DEF InsertEvent, RequestOK, InitialOutcome, Queueing, RequestRecs, Accepted
  <2>4. \A q \in Requests \ {r} : Apart(next, req[q])
    <3> SUFFICES ASSUME NEW q \in Requests \ {r} PROVE Apart(next, req[q])
      OBVIOUS
    <3>1. ~(req[q].isNew /\ req[q].d.event = d.event)
      BY <1>1, Monitored DEF InsertEvent, EventHeld, RequestOK
    <3> QED BY <1>0, <1>1, <3>1 DEF InsertEvent, RequestOK, Apart, RequestRecs
  <2>5. \A s \in Issuers : ApartFrom(next, issuer[s])
    BY <1>0, <1>1 DEF InsertEvent, RequestOK, ApartFrom, RequestRecs
  <2> QED BY <1>1, <2>2, <2>3, <2>4, <2>5, RequestStep DEF InsertEvent, Step
<1>2. CASE InsertDuplicate(r)
  <2> DEFINE next == [req[r] EXCEPT !.at = IF req[r].d.kind = "credited" /\ req[r].d.payable
                                           THEN "recover" ELSE "commit"]
  <2>1. next \in RequestRecs
    BY <1>0 DEF RequestRecs, Labels
  <2>2. RequestOK(next)
    BY <1>0, <1>2, CreditNullAssumption DEF InsertDuplicate, RequestOK, Queueing, RequestRecs, Accepted,
       Outcomes
  <2> QED BY <1>0, <1>2, <2>1, <2>2, GoesOn DEF InsertDuplicate, RequestRecs
<1>3. CASE Recover(r)
  <2> DEFINE next == [req[r] EXCEPT !.at = IF Recoverable(req[r].d) THEN "own" ELSE "commit"]
  <2>1. next \in RequestRecs
    BY <1>0 DEF RequestRecs, Labels
  <2>2. RequestOK(next)
    BY <1>0, <1>3, CreditNullAssumption
       DEF Recover, Recoverable, Recorded, RequestOK, Queueing, RequestRecs, Outcomes, Accepted
  <2> QED BY <1>0, <1>3, <2>1, <2>2, GoesOn DEF Recover, RequestRecs
<1> QED BY <1>1, <1>2, <1>3

LEMMA DeliveredId == \A d \in Deliveries : d.invoice \in InvoiceIds /\ d.event \in EventIds
BY DEF InvoiceIds, EventIds

LEMMA OwnKeeps ==
    ASSUME CreditInv, NEW r \in Requests,
           OwnById(r) \/ OwnNoId(r) \/ OwnByTag(r) \/ OwnNot(r) \/ BindConflict(r)
    PROVE  CreditInv'
<1>0. req[r] \in RequestRecs /\ RequestOK(req[r])
  BY Monitored
<1>1. CASE OwnById(r)
  <2>1. PICK t \in OwnedById(req[r].d) : Step(r, [req[r] EXCEPT !.at = "draft", !.tag = t])
    BY <1>1 DEF OwnById
  <2> DEFINE next == [req[r] EXCEPT !.at = "draft", !.tag = t]
  <2>2. req[r].at = "own" /\ req[r].d \in Deliveries /\ t \in Tags /\ owner[t] = req[r].d.invoice
    BY <1>0, <1>1, <2>1 DEF OwnById, OwnedById, OwnersOf, RequestOK
  <2>3. req[r].d.invoice \in InvoiceIds
    BY <2>2, DeliveredId
  <2>4. t \in Registered /\ (Claimed(req[r].d) \/ JobOf(req[r].d.invoice))
    BY <2>2, <2>3, CreditNullAssumption DEF CreditInv, OwnerOK, Registered, Claimed
  <2>5. next \in RequestRecs
    BY <1>0, <2>2 DEF RequestRecs, Labels
  <2>6. RequestOK(next)
    BY <1>0, <2>2, <2>4 DEF RequestOK, Queueing, RequestRecs
  <2> QED BY <1>0, <2>1, <2>2, <2>5, <2>6, GoesOn DEF RequestRecs, RequestOK
<1>2. CASE OwnNoId(r)
  <2> DEFINE next == [req[r] EXCEPT !.at = "match"]
  <2>1. next \in RequestRecs
    BY <1>0 DEF RequestRecs, Labels
  <2>2. RequestOK(next)
    BY <1>0, <1>2 DEF OwnNoId, RequestOK, Queueing, RequestRecs
  <2> QED BY <1>0, <1>2, <2>1, <2>2, GoesOn DEF OwnNoId, RequestRecs
<1>3. CASE OwnByTag(r)
  <2>1. PICK t \in OwnedByTag(req[r].d) : Step(r, [req[r] EXCEPT !.at = "bind", !.tag = t])
    BY <1>3 DEF OwnByTag
  <2> DEFINE next == [req[r] EXCEPT !.at = "bind", !.tag = t]
  <2>2. t \in Registered /\ t \in Tags /\ Claimed(req[r].d)
    BY <2>1 DEF OwnedByTag, Matches, Claimed, Registered
  <2>3. next \in RequestRecs
    BY <1>0, <2>2 DEF RequestRecs, Labels
  <2>4. RequestOK(next)
    BY <1>0, <1>3, <2>2 DEF OwnByTag, RequestOK, Queueing, RequestRecs
  <2> QED BY <1>0, <1>3, <2>1, <2>3, <2>4, GoesOn DEF OwnByTag, RequestRecs, RequestOK
<1>4. CASE OwnNot(r) \/ BindConflict(r)
  <2> DEFINE next == [req[r] EXCEPT !.at = "commit", !.tag = Null,
                                    !.outcome = IF req[r].isNew THEN "invoice_unknown" ELSE Null]
  <2>1. req[r].at \in {"own", "match", "bind"} /\ Step(r, next)
    BY <1>4 DEF OwnNot, BindConflict, Disown
  <2>2. next \in RequestRecs
    BY <1>0 DEF RequestRecs, Labels, Outcomes
  <2>3. RequestOK(next)
    BY <1>0, <2>1, CreditNullAssumption DEF RequestOK, Queueing, RequestRecs, Outcomes, Accepted
  <2>4. ~next.bound
    BY <1>0, <2>1 DEF RequestOK, RequestRecs
  <2> QED BY <1>0, <2>1, <2>2, <2>3, <2>4, GoesOn DEF RequestRecs
<1> QED BY <1>1, <1>2, <1>3, <1>4

LEMMA BindKeeps == ASSUME CreditInv, NEW r \in Requests, Bind(r) PROVE CreditInv'
<1>0. req[r] \in RequestRecs /\ RequestOK(req[r]) /\ req[r].at = "bind"
  BY Monitored DEF Bind
<1> DEFINE t == req[r].tag
           i == req[r].d.invoice
<1>1. CASE /\ owner[t] = Null /\ OwnersOf(i) = {}
           /\ ~OwnerHeld(t, r) /\ ~BindingHeld(i, t, r)
           /\ Step(r, [req[r] EXCEPT !.at = "draft", !.bound = TRUE])
  <2> DEFINE next == [req[r] EXCEPT !.at = "draft", !.bound = TRUE]
  <2>1. next \in RequestRecs
    BY <1>0 DEF RequestRecs, Labels
  <2>2. RequestOK(next)
    BY <1>0, <1>1 DEF RequestOK, Queueing, RequestRecs
  <2>3. \A q \in Requests \ {r} : Apart(next, req[q])
    <3> SUFFICES ASSUME NEW q \in Requests \ {r} PROVE Apart(next, req[q])
      OBVIOUS
    <3>1. req[q].bound => req[q].tag # t /\ req[q].d.invoice # i
      BY <1>1 DEF OwnerHeld, BindingHeld
    <3>2. Apart(req[r], req[q])
      BY Monitored
    <3> QED BY <1>0, <3>1, <3>2 DEF Apart, RequestRecs
  <2>4. \A s \in Issuers : ApartFrom(next, issuer[s])
    BY <1>0, <1>1, RequestsAssumption DEF ApartFrom, OwnerHeld, BindingHeld
  <2> QED BY <1>1, <2>1, <2>2, <2>3, <2>4, RequestStep DEF Step
<1>2. CASE Step(r, [req[r] EXCEPT !.at = "draft"])
  <2> DEFINE next == [req[r] EXCEPT !.at = "draft"]
  <2>1. next \in RequestRecs
    BY <1>0 DEF RequestRecs, Labels
  <2>2. RequestOK(next)
    BY <1>0 DEF RequestOK, Queueing, RequestRecs
  <2> QED BY <1>0, <1>2, <2>1, <2>2, GoesOn DEF RequestRecs
<1> QED BY <1>1, <1>2 DEF Bind

\* A job of the same event is one of the same invoice.
LEMMA ExistingJob ==
    ASSUME CreditInv, NEW r \in Requests, req[r].at \in Queueing, JobExists(req[r].d)
    PROVE  JobOf(req[r].d.invoice)
<1>1. RequestOK(req[r]) /\ req[r].d \in Deliveries
  BY Monitored DEF RequestOK, Queueing
<1>2. PICK j \in jobs : j.invoice = req[r].d.invoice \/ j.event = req[r].d.event
  BY DEF JobExists
<1>3. PICK d \in Deliveries : d.event = j.event /\ d.invoice = j.invoice /\ Recorded(d)
  BY DEF CreditInv, JobOK
<1> QED BY <1>1, <1>2, <1>3, PayloadAssumption DEF RequestOK, Recorded, JobOf

LEMMA QueueKeeps ==
    ASSUME CreditInv, NEW r \in Requests, UpdateDraft(r) \/ CheckJob(r) \/ InsertJob(r)
    PROVE  CreditInv'
<1>0. req[r] \in RequestRecs /\ RequestOK(req[r])
  BY Monitored
<1>1. CASE UpdateDraft(r)
  <2> DEFINE next == [req[r] EXCEPT !.at = "check", !.draft = req[r].tag \in TrialTags]
  <2>1. next \in RequestRecs
    <3>1. (req[r].tag \in TrialTags) \in BOOLEAN
      OBVIOUS
    <3>2. \A b \in BOOLEAN : [req[r] EXCEPT !.at = "check", !.draft = b] \in RequestRecs
      BY <1>0 DEF RequestRecs, Labels
    <3> QED BY <3>1, <3>2
  <2>2. RequestOK(next)
    BY <1>0, <1>1 DEF UpdateDraft, RequestOK, Queueing, RequestRecs
  <2> QED BY <1>0, <1>1, <2>1, <2>2, GoesOn DEF UpdateDraft, RequestRecs
<1>2. CASE CheckJob(r)
  <2> DEFINE next == [req[r] EXCEPT !.at = IF \E j \in jobs : j.invoice = req[r].d.invoice
                                           THEN "mark" ELSE "job"]
  <2>1. next \in RequestRecs
    BY <1>0 DEF RequestRecs, Labels
  <2>2. RequestOK(next)
    BY <1>0, <1>2 DEF CheckJob, JobOf, RequestOK, Queueing, RequestRecs
  <2> QED BY <1>0, <1>2, <2>1, <2>2, GoesOn DEF CheckJob, RequestRecs
<1>3. CASE InsertJob(r) /\ JobExists(req[r].d)
  <2> DEFINE next == [req[r] EXCEPT !.at = "mark"]
  <2>1. next \in RequestRecs
    BY <1>0 DEF RequestRecs, Labels
  <2>2. JobOf(req[r].d.invoice)
    BY <1>3, ExistingJob DEF InsertJob, Queueing
  <2>3. RequestOK(next)
    BY <1>0, <1>3, <2>2 DEF InsertJob, RequestOK, Queueing, RequestRecs
  <2> QED BY <1>0, <1>3, <2>1, <2>3, GoesOn DEF InsertJob, RequestRecs
<1>4. CASE InsertJob(r) /\ ~JobExists(req[r].d)
  <2> DEFINE next == [req[r] EXCEPT !.at = "promote", !.job = TRUE]
  <2>1. next \in RequestRecs
    BY <1>0 DEF RequestRecs, Labels
  <2>2. RequestOK(next)
    BY <1>0, <1>4 DEF InsertJob, JobExists, JobOf, RequestOK, Queueing, RequestRecs
  <2>3. \A q \in Requests \ {r} : Apart(next, req[q])
    <3> SUFFICES ASSUME NEW q \in Requests \ {r} PROVE Apart(next, req[q])
      OBVIOUS
    <3>1. req[q].job => req[q].d.invoice # req[r].d.invoice
      BY <1>4 DEF InsertJob, JobHeld
    <3>2. req[q].job => req[q].d \in Deliveries /\ (req[q].isNew \/ Recorded(req[q].d))
      BY Monitored DEF RequestOK
    <3>3. req[r].d \in Deliveries /\ (req[r].isNew \/ Recorded(req[r].d))
      BY <1>0, <1>4 DEF InsertJob, RequestOK, Queueing
    <3>4. req[q].job => req[q].d.event # req[r].d.event
      <4> SUFFICES ASSUME req[q].job, req[q].d.event = req[r].d.event PROVE FALSE
        OBVIOUS
      <4>1. /\ Apart(req[r], req[q])
            /\ req[q].isNew => events[req[q].d.event] = Null
            /\ req[r].isNew => events[req[r].d.event] = Null
        BY Monitored DEF RequestOK
      <4>2. Recorded(req[q].d) /\ Recorded(req[r].d)
        BY <3>2, <3>3, <4>1 DEF Apart, Recorded
      <4> QED BY <3>1, <3>2, <3>3, <4>2, PayloadAssumption DEF Recorded
    <3> QED BY <1>0, <3>1, <3>4, Monitored DEF Apart, RequestRecs
  <2>4. \A s \in Issuers : ApartFrom(next, issuer[s])
    BY <1>0, Monitored DEF ApartFrom, RequestRecs
  <2> QED BY <1>4, <2>1, <2>2, <2>3, <2>4, RequestStep DEF InsertJob, Step
<1> QED BY <1>1, <1>2, <1>3, <1>4

LEMMA OutcomeKeeps ==
    ASSUME CreditInv, NEW r \in Requests, MarkDuplicate(r) \/ Promote(r)
    PROVE  CreditInv'
<1>0. req[r] \in RequestRecs /\ RequestOK(req[r]) /\ req[r].at \in {"mark", "promote"}
  BY Monitored DEF MarkDuplicate, Promote
<1>1. PICK o \in Accepted : /\ Step(r, [req[r] EXCEPT !.at = "commit", !.outcome = o])
                            /\ req[r].at = "promote" => o = "queued"
  BY DEF MarkDuplicate, Promote, WriteOutcome, Accepted
<1> DEFINE next == [req[r] EXCEPT !.at = "commit", !.outcome = o]
<1>2. next \in RequestRecs
  BY <1>0 DEF RequestRecs, Labels, Outcomes, Accepted
<1>3. RequestOK(next)
  <2>1. o # Null /\ o \in Outcomes
    BY CreditNullAssumption DEF Accepted, Outcomes
  <2>2. /\ req[r].at \in Queueing /\ req[r].d.kind = "credited" /\ req[r].d.payable
        /\ req[r].isNew \/ Recorded(req[r].d)
    BY <1>0 DEF RequestOK, Queueing
  <2> QED BY <1>0, <1>1, <2>1, <2>2 DEF RequestOK, Queueing, RequestRecs, Recorded
<1> QED BY <1>0, <1>1, <1>2, <1>3, GoesOn DEF RequestRecs

LEMMA RollbackKeeps == ASSUME CreditInv, NEW r \in Requests, Rollback(r) PROVE CreditInv'
<1>1. \A q \in Requests \ {r} : Apart(NoRequest, req[q])
  BY NothingHeld, Monitored
<1>2. \A s \in Issuers : ApartFrom(NoRequest, issuer[s])
  BY NothingHeld DEF CreditInv, TablesOK
<1> QED BY <1>1, <1>2, NothingHeld, RequestStep DEF Rollback

LEMMA ReceiveKeeps ==
    ASSUME CreditInv, NEW r \in Requests, NEW d \in Deliveries, Receive(r, d) PROVE CreditInv'
<1> DEFINE next == [NoRequest EXCEPT !.at = "insert", !.d = d]
<1>1. next \in RequestRecs
  BY DEF RequestRecs, Labels, NoRequest
<1>2. RequestOK(next)
  BY CreditNullAssumption DEF RequestOK, Queueing, NoRequest, Outcomes
<1>3. \A q \in Requests \ {r} : Apart(next, req[q])
  BY DEF Apart, NoRequest
<1>4. \A s \in Issuers : ApartFrom(next, issuer[s])
  BY DEF ApartFrom, NoRequest
<1> QED BY <1>1, <1>2, <1>3, <1>4, RequestStep DEF Receive, Step

-----------------------------------------------------------------------------
\* Steps that change the tables.

\* What a transaction knows stays true when rows are added and owners are bound.
LEMMA KnowledgeStays ==
    ASSUME CreditInv, NEW q \in RequestRecs, RequestOK(q),
           \A e \in EventIds : events[e] # Null
               => /\ events'[e] # Null /\ events'[e].payload = events[e].payload
                  /\ events[e].outcome \in Accepted \cup {"invoice_unknown"}
                     => events'[e].outcome \in Accepted \cup {"invoice_unknown"},
           jobs \subseteq jobs', Registered \subseteq Registered',
           q.isNew => events'[q.d.event] = Null,
           q.job => ~JobExists(q.d)',
           q.bound => OwnersOf(q.d.invoice)' \subseteq {q.tag}
    PROVE  RequestOK(q)'
<1>1. q.at # "idle" => q.d \in Deliveries /\ q.d.event \in EventIds
  BY DeliveredId DEF RequestOK
<1>2. JobOf(q.d.invoice) => JobOf(q.d.invoice)'
  BY DEF JobOf
<1>3. Claimed(q.d) => Claimed(q.d)'
  BY DEF Claimed
<1>4. q.at # "idle" /\ events[q.d.event] # Null => events'[q.d.event] # Null
  BY <1>1
<1>5. q.at # "idle" /\ Recorded(q.d) => Recorded(q.d)'
  BY <1>1 DEF Recorded
<1>6. q.outcome # Null \/ q.job => q.at # "idle"
  BY DEF RequestOK
<1> QED BY <1>2, <1>3, <1>4, <1>5, <1>6 DEF RequestOK, Queueing

LEMMA CommitKeeps == ASSUME CreditInv, NEW r \in Requests, Commit(r) PROVE CreditInv'
<1> PICK c : c = req[r]
  OBVIOUS
<1> PICK d : d = c.d
  OBVIOUS
<1> DEFINE job == [event |-> d.event, invoice |-> d.invoice]
<1>0. /\ c \in RequestRecs /\ RequestOK(c) /\ c.at = "commit"
      /\ d \in Deliveries /\ d.event \in EventIds /\ d.invoice \in InvoiceIds
  BY Monitored, DeliveredId DEF Commit, RequestOK
<1>1. /\ req' = [req EXCEPT ![r] = NoRequest] /\ issuer' = issuer
      /\ req' \in [Requests -> RequestRecs] /\ req'[r] = NoRequest
      /\ \A q \in Requests \ {r} : req'[q] = req[q]
  BY NothingHeld DEF Commit, CreditInv, TablesOK
<1>2. /\ events' \in [EventIds -> Rows \cup {Null}]
      /\ \A e \in EventIds \ {d.event} : events'[e] = events[e]
      /\ c.outcome # Null => events'[d.event] # Null /\ events'[d.event].outcome = c.outcome
      /\ c.outcome = Null => events' = events
      /\ c.outcome # Null /\ c.isNew => events'[d.event].payload = d.payload
      /\ events[d.event] # Null => events'[d.event].payload = events[d.event].payload
  <2>1. CASE c.outcome = Null
    BY <2>1 DEF Commit, CreditInv, TablesOK
  <2>2. CASE c.outcome # Null /\ c.isNew
    <3> DEFINE row == [payload |-> d.payload, outcome |-> c.outcome]
    <3>1. events' = [events EXCEPT ![d.event] = row] /\ events[d.event] = Null
      BY <1>0, <2>2 DEF Commit, RequestOK
    <3>2. row \in Rows
      BY <1>0, <2>2 DEF RequestRecs, Rows
    <3> HIDE DEF row
    <3>3. row # Null /\ row.outcome = c.outcome /\ row.payload = d.payload
      BY <3>2, CreditNullAssumption DEF row
    <3> QED BY <1>0, <2>2, <3>1, <3>2, <3>3 DEF CreditInv, TablesOK
  <2>3. CASE c.outcome # Null /\ ~c.isNew
    <3> DEFINE row == [events[d.event] EXCEPT !.outcome = c.outcome]
    <3>1. events[d.event] \in Rows
      BY <1>0, <2>3 DEF RequestOK, CreditInv, TablesOK
    <3>2. events' = [events EXCEPT ![d.event] = row]
      BY <2>3 DEF Commit
    <3>3. row \in Rows /\ row.outcome = c.outcome /\ row.payload = events[d.event].payload
      BY <1>0, <2>3, <3>1 DEF RequestRecs, Rows
    <3> HIDE DEF row
    <3> QED BY <1>0, <2>3, <3>2, <3>3, CreditNullAssumption DEF CreditInv, TablesOK
  <2> QED BY <1>0, <2>1, <2>2, <2>3 DEF RequestRecs
<1>3. \A e \in EventIds : events[e] # Null
          => /\ events'[e] # Null /\ events'[e].payload = events[e].payload
             /\ events[e].outcome \in Accepted \cup {"invoice_unknown"}
                => events'[e].outcome \in Accepted \cup {"invoice_unknown"}
  <2>1. c.outcome # Null /\ events[d.event] # Null => c.outcome \in Accepted
    BY <1>0 DEF RequestOK
  <2> QED BY <1>0, <1>2, <2>1
<1>4. /\ jobs' = IF c.job THEN jobs \cup {job} ELSE jobs
      /\ jobs \subseteq jobs' /\ jobs' \subseteq [event : EventIds, invoice : InvoiceIds]
  BY <1>0 DEF Commit, CreditInv, TablesOK
<1>5. /\ owner' \in [Tags -> InvoiceIds \cup {Null, NotOwned}]
      /\ c.bound => c.tag \in Tags /\ owner'[c.tag] = d.invoice
      /\ \A t \in Tags : owner'[t] = owner[t] \/ (c.bound /\ t = c.tag)
  BY <1>0 DEF Commit, CreditInv, TablesOK, RequestOK, Registered
<1>6. Registered \subseteq Registered'
  BY <1>0, <1>5, CreditNullAssumption DEF Registered
<1>7. c.job => /\ d.kind = "credited" /\ d.payable /\ Claimed(d) /\ ~JobExists(d)
               /\ Recorded(d)'
  <2> SUFFICES ASSUME c.job
               PROVE  /\ d.kind = "credited" /\ d.payable /\ Claimed(d) /\ ~JobExists(d)
                      /\ Recorded(d)'
    OBVIOUS
  <2>1. d.kind = "credited" /\ d.payable /\ Claimed(d) /\ ~JobExists(d)
    BY <1>0 DEF RequestOK
  <2>2. CASE c.isNew
    <3>1. c.outcome = "queued" /\ c.outcome # Null
      BY <1>0, <2>2 DEF RequestOK
    <3>2. events'[d.event] # Null /\ events'[d.event].payload = d.payload
          /\ events'[d.event].outcome = "queued"
      BY <1>2, <2>2, <3>1
    <3> QED BY <2>1, <3>2 DEF Recorded, Accepted
  <2>3. CASE ~c.isNew
    BY <1>0, <1>3, <2>3 DEF RequestOK, Recorded
  <2> QED BY <2>1, <2>2, <2>3
<1>8. OneJob'
  BY <1>4, <1>7 DEF CreditInv, OneJob, JobExists
<1>9. OneOwner'
  BY <1>0, <1>5, CreditNullAssumption DEF CreditInv, OneOwner, Registered, RequestOK, OwnersOf
<1>10. \A j \in jobs' : JobOK(j)'
  <2> SUFFICES ASSUME NEW j \in jobs' PROVE JobOK(j)'
    OBVIOUS
  <2>1. CASE j \in jobs
    <3>1. PICK e \in Deliveries : /\ e.event = j.event /\ e.invoice = j.invoice
                                  /\ e.kind = "credited" /\ e.payable
                                  /\ Recorded(e) /\ Claimed(e)
      BY <2>1 DEF CreditInv, JobOK
    <3>2. Recorded(e)' /\ Claimed(e)'
      BY <1>3, <1>6, <3>1, DeliveredId DEF Recorded, Claimed
    <3> QED BY <3>1, <3>2 DEF JobOK
  <2>2. CASE j \notin jobs
    <3>1. c.job /\ j = job
      BY <1>4, <2>2
    <3>2. Claimed(d)'
      BY <1>6, <1>7, <3>1 DEF Claimed
    <3> QED BY <1>0, <1>7, <3>1, <3>2 DEF JobOK
  <2> QED BY <2>1, <2>2
<1>11. c.bound \/ c.outcome \in Accepted => JobOf(d.invoice)'
  <2>1. c.job => JobOf(d.invoice)'
    <3>1. c.job => job \in jobs' /\ job.invoice = d.invoice
      BY <1>4
    <3> QED BY <3>1 DEF JobOf
  <2>2. JobOf(d.invoice) => JobOf(d.invoice)'
    BY <1>4 DEF JobOf
  <2> QED BY <1>0, <2>1, <2>2 DEF RequestOK
<1>12. \A t \in Tags : OwnerOK(t)'
  BY <1>0, <1>4, <1>5, <1>11 DEF CreditInv, OwnerOK, JobOf
<1>13. \A e \in EventIds : AcceptedOK(e)'
  <2> SUFFICES ASSUME NEW e \in EventIds, events'[e] # Null,
                      events'[e].outcome \in Accepted
               PROVE  \E x \in Deliveries : /\ x.event = e /\ x.payload = events'[e].payload
                                              /\ JobOf(x.invoice)'
    BY DEF AcceptedOK
  <2>1. CASE e = d.event /\ c.outcome # Null
    <3>1. c.outcome \in Accepted
      BY <1>2, <2>1
    <3>2. events'[e].payload = d.payload
      BY <1>0, <1>2, <2>1, <3>1 DEF RequestOK, Recorded
    <3> QED BY <1>0, <1>11, <2>1, <3>1, <3>2
  <2>2. CASE ~(e = d.event /\ c.outcome # Null)
    BY <1>2, <1>4, <2>2 DEF CreditInv, AcceptedOK, JobOf
  <2> QED BY <2>1, <2>2
<1>14. \A q \in Requests : RequestOK(req[q])'
  <2> SUFFICES ASSUME NEW q \in Requests PROVE RequestOK(req[q])'
    OBVIOUS
  <2>1. CASE q = r
    <3>1. RequestOK(NoRequest)'
      BY CreditNullAssumption DEF NoRequest, RequestOK, Queueing, Outcomes
    <3> QED BY <1>1, <2>1, <3>1 DEF RequestOK, Recorded, Claimed, JobOf, JobExists, OwnersOf, Registered
  <2>2. CASE q # r
    <3> PICK x : x = req[q]
      OBVIOUS
    <3>1. x \in RequestRecs /\ RequestOK(x) /\ Apart(x, c)
      BY <2>2, Monitored
    <3>2. x.isNew => events'[x.d.event] = Null
      <4> SUFFICES ASSUME x.isNew PROVE events'[x.d.event] = Null
        OBVIOUS
      <4>1. x.d \in Deliveries /\ x.d.event \in EventIds /\ events[x.d.event] = Null
        BY <3>1, DeliveredId DEF RequestOK
      <4>2. CASE c.outcome = Null
        BY <1>2, <4>1, <4>2
      <4>3. CASE c.outcome # Null
        BY <1>0, <1>2, <3>1, <4>1, <4>3 DEF Apart, RequestOK
      <4> QED BY <4>2, <4>3
    <3>3. x.job => ~JobExists(x.d)'
      BY <1>4, <3>1 DEF RequestOK, JobExists, Apart
    <3>4. x.bound => OwnersOf(x.d.invoice)' \subseteq {x.tag}
      BY <1>5, <3>1 DEF RequestOK, OwnersOf, Apart
    <3>5. RequestOK(x)'
      BY <1>3, <1>4, <1>6, <3>1, <3>2, <3>3, <3>4, KnowledgeStays
    <3> QED BY <1>1, <2>2, <3>5 DEF RequestOK, Recorded, Claimed, JobOf, JobExists, OwnersOf, Registered
  <2> QED BY <2>1, <2>2
<1>15. \A s \in Issuers : IssuerOK(issuer[s])'
  <2> SUFFICES ASSUME NEW s \in Issuers PROVE IssuerOK(issuer[s])'
    OBVIOUS
  <2>1. IssuerOK(issuer[s]) /\ ApartFrom(c, issuer[s])
    BY DEF CreditInv
  <2> QED BY <1>1, <1>5, <1>6, <2>1 DEF IssuerOK, ApartFrom, OwnersOf
<1>16. \A p, q \in Requests : p # q => Apart(req'[p], req'[q])
  BY <1>1, NothingHeld DEF CreditInv, Apart, NoRequest
<1>17. \A q \in Requests, s \in Issuers : ApartFrom(req'[q], issuer'[s])
  BY <1>1 DEF CreditInv, ApartFrom, NoRequest
<1>18. TablesOK'
  BY <1>1, <1>2, <1>4, <1>5 DEF CreditInv, TablesOK
<1> QED BY <1>1, <1>8, <1>9, <1>10, <1>12, <1>13, <1>14, <1>15, <1>16, <1>17, <1>18
        DEF CreditInv, Apart, ApartFrom, IssuersApart

LEMMA RegisterKeeps == ASSUME CreditInv, NEW t \in Tags, Register(t) PROVE CreditInv'
<1>1. /\ UNCHANGED <<events, jobs, req, issuer>>
      /\ owner' \in [Tags -> InvoiceIds \cup {Null, NotOwned}]
      /\ owner[t] = NotOwned /\ owner'[t] = Null
      /\ \A u \in Tags \ {t} : owner'[u] = owner[u]
  BY DEF Register, CreditInv, TablesOK
<1>2. Registered \subseteq Registered'
  BY <1>1, CreditNullAssumption DEF Registered
<1>3. \A i \in InvoiceIds : OwnersOf(i)' = OwnersOf(i)
  BY <1>1, CreditNullAssumption DEF OwnersOf
<1>4. TablesOK' /\ OneJob' /\ (\A e \in EventIds : AcceptedOK(e))'
  BY <1>1 DEF CreditInv, TablesOK, OneJob, AcceptedOK, JobOf
<1>5. OneOwner'
  BY <1>1 DEF CreditInv, OneOwner, Registered
<1>6. (\A j \in jobs : JobOK(j))'
  BY <1>1, <1>2 DEF CreditInv, JobOK, Recorded, Claimed
<1>7. (\A u \in Tags : OwnerOK(u))'
  BY <1>1 DEF CreditInv, OwnerOK, JobOf
<1>8. (\A r \in Requests : RequestOK(req[r]))'
  <2> SUFFICES ASSUME NEW r \in Requests PROVE RequestOK(req[r])'
    OBVIOUS
  <2> PICK q : q = req[r]
    OBVIOUS
  <2>1. q \in RequestRecs /\ RequestOK(q)
    BY Monitored
  <2>2. q.isNew => events'[q.d.event] = Null
    BY <1>1, <2>1 DEF RequestOK
  <2>3. q.job => ~JobExists(q.d)'
    BY <1>1, <2>1 DEF RequestOK, JobExists
  <2>4. q.bound => OwnersOf(q.d.invoice)' \subseteq {q.tag}
    BY <1>3, <2>1, DeliveredId DEF RequestOK
  <2>5. RequestOK(q)'
    BY <1>1, <1>2, <2>1, <2>2, <2>3, <2>4, KnowledgeStays
  <2> QED BY <1>1, <2>5 DEF RequestOK, Recorded, Claimed, JobOf, JobExists, OwnersOf, Registered
<1>9. (\A s \in Issuers : IssuerOK(issuer[s]))'
  BY <1>1, <1>2, CreditNullAssumption DEF CreditInv, IssuerOK, TablesOK, IssuerRecs, OwnersOf
<1> QED BY <1>1, <1>4, <1>5, <1>6, <1>7, <1>8, <1>9 DEF CreditInv, Apart, ApartFrom, IssuersApart

-----------------------------------------------------------------------------
\* The issuers.

LEMMA InvoiceWithId == \A t \in Tags : InvoicesWith[t] \subseteq InvoiceIds
BY DEF InvoiceIds

LEMMA NothingIssued ==
    /\ NoIssue \in IssuerRecs /\ IssuerOK(NoIssue)
    /\ \A q \in RequestRecs : ApartFrom(q, NoIssue)
    /\ \A i \in IssuerRecs : IssuersApart(NoIssue, i) /\ IssuersApart(i, NoIssue)
BY DEF NoIssue, IssuerRecs, IssuerOK, ApartFrom, IssuersApart

LEMMA EndIssue ==
    ASSUME CreditInv, NEW s \in Issuers, IssuerStep(s, NoIssue) PROVE CreditInv'
BY NothingIssued, IssuerStepKeeps DEF CreditInv, TablesOK

LEMMA BeginKeeps ==
    ASSUME CreditInv, NEW s \in Issuers, NEW t \in Registered,
           NEW i \in InvoicesWith[t] \cup {Null},
           IssuerStep(s, [at |-> "owner", tag |-> t, invoice |-> i])
    PROVE  CreditInv'
<1> DEFINE next == [at |-> "owner", tag |-> t, invoice |-> i]
<1>1. next \in IssuerRecs
  BY InvoiceWithId DEF IssuerRecs, Registered
<1>2. IssuerOK(next)
  BY DEF IssuerOK
<1>3. (\A r \in Requests : ApartFrom(req[r], next))
      /\ \A u \in Issuers \ {s} : IssuersApart(next, issuer[u]) /\ IssuersApart(issuer[u], next)
  BY DEF ApartFrom, IssuersApart
<1> QED BY <1>1, <1>2, <1>3, IssuerStepKeeps

LEMMA WriteOwnerKeeps == ASSUME CreditInv, NEW s \in Issuers, WriteOwner(s) PROVE CreditInv'
<1> DEFINE t == issuer[s].tag
           i == issuer[s].invoice
           next == [issuer[s] EXCEPT !.at = "commit"]
<1>0. issuer[s] \in IssuerRecs /\ IssuerOK(issuer[s]) /\ issuer[s].at = "owner"
  BY DEF CreditInv, TablesOK, WriteOwner
<1>1. ~OwnerHeld(t, s) /\ (i # Null => ~BindingHeld(i, t, s) /\ OwnersOf(i) \subseteq {t})
      /\ IssuerStep(s, next)
  BY DEF WriteOwner
<1>2. next \in IssuerRecs
  BY <1>0 DEF IssuerRecs
<1>3. IssuerOK(next)
  BY <1>0, <1>1 DEF IssuerOK, IssuerRecs
<1>4. \A r \in Requests : ApartFrom(req[r], next)
  <2> SUFFICES ASSUME NEW r \in Requests, req[r].bound
               PROVE  req[r].tag # t /\ req[r].d.invoice # i
    BY <1>0 DEF ApartFrom, IssuerRecs
  <2>1. req[r].tag # t
    BY <1>1, RequestsAssumption DEF OwnerHeld
  <2>2. req[r].d.invoice # Null
    BY Monitored, DeliveredId, CreditNullAssumption DEF RequestOK
  <2> QED BY <1>1, <2>1, <2>2, RequestsAssumption DEF BindingHeld
<1>5. \A u \in Issuers \ {s} : IssuersApart(next, issuer[u]) /\ IssuersApart(issuer[u], next)
  <2> SUFFICES ASSUME NEW u \in Issuers \ {s}, issuer[u].at = "commit"
               PROVE  issuer[u].tag # t /\ (i = Null \/ i # issuer[u].invoice)
    BY <1>0 DEF IssuersApart, IssuerRecs
  <2>1. issuer[u].tag # t
    BY <1>1 DEF OwnerHeld
  <2> QED BY <1>1, <2>1 DEF BindingHeld
<1> QED BY <1>1, <1>2, <1>3, <1>4, <1>5, IssuerStepKeeps

LEMMA CommitOwnerKeeps == ASSUME CreditInv, NEW s \in Issuers, CommitOwner(s) PROVE CreditInv'
<1> PICK k : k = issuer[s]
  OBVIOUS
<1>0. k \in IssuerRecs /\ IssuerOK(k) /\ k.at = "commit" /\ k.tag \in Tags
  BY DEF CreditInv, TablesOK, CommitOwner, IssuerOK, Registered
<1>1. /\ UNCHANGED <<events, jobs, req>>
      /\ issuer' \in [Issuers -> IssuerRecs] /\ issuer'[s] = NoIssue
      /\ \A u \in Issuers \ {s} : issuer'[u] = issuer[u]
      /\ owner' \in [Tags -> InvoiceIds \cup {Null, NotOwned}]
      /\ owner'[k.tag] = k.invoice
      /\ \A t \in Tags \ {k.tag} : owner'[t] = owner[t]
  BY <1>0, NothingIssued DEF CommitOwner, CreditInv, TablesOK, IssuerRecs
<1>2. k.invoice \in InvoicesWith[k.tag] \cup {Null} /\ k.invoice # NotOwned
  BY <1>0, CreditNullAssumption, InvoiceWithId DEF IssuerOK, IssuerRecs
<1>3. Registered \subseteq Registered'
  BY <1>0, <1>1, <1>2 DEF Registered
<1>4. TablesOK' /\ OneJob' /\ (\A e \in EventIds : AcceptedOK(e))'
  BY <1>1 DEF CreditInv, TablesOK, OneJob, AcceptedOK, JobOf
<1>5. OneOwner'
  BY <1>0, <1>1, <1>2 DEF CreditInv, OneOwner, Registered, IssuerOK, OwnersOf
<1>6. (\A j \in jobs : JobOK(j))'
  BY <1>1, <1>3 DEF CreditInv, JobOK, Recorded, Claimed
<1>7. (\A u \in Tags : OwnerOK(u))'
  BY <1>0, <1>1, <1>2 DEF CreditInv, OwnerOK, JobOf
<1>8. (\A r \in Requests : RequestOK(req[r]))'
  <2> SUFFICES ASSUME NEW r \in Requests PROVE RequestOK(req[r])'
    OBVIOUS
  <2> PICK q : q = req[r]
    OBVIOUS
  <2>1. q \in RequestRecs /\ RequestOK(q) /\ ApartFrom(q, k)
    BY Monitored
  <2>2. q.isNew => events'[q.d.event] = Null
    BY <1>1, <2>1 DEF RequestOK
  <2>3. q.job => ~JobExists(q.d)'
    BY <1>1, <2>1 DEF RequestOK, JobExists
  <2>4. q.bound => OwnersOf(q.d.invoice)' \subseteq {q.tag}
    BY <1>0, <1>1, <2>1 DEF RequestOK, ApartFrom, OwnersOf
  <2>5. RequestOK(q)'
    BY <1>1, <1>3, <2>1, <2>2, <2>3, <2>4, KnowledgeStays
  <2> QED BY <1>1, <2>5 DEF RequestOK, Recorded, Claimed, JobOf, JobExists, OwnersOf, Registered
<1>9. \A u \in Issuers : IssuerOK(issuer[u])'
  <2> SUFFICES ASSUME NEW u \in Issuers PROVE IssuerOK(issuer[u])'
    OBVIOUS
  <2>1. CASE u = s
    BY <1>1, <2>1 DEF IssuerOK, NoIssue
  <2>2. CASE u # s
    <3>1. IssuerOK(issuer[u]) /\ IssuersApart(k, issuer[u])
      BY <2>2 DEF CreditInv
    <3> QED BY <1>0, <1>1, <1>3, <2>2, <3>1 DEF IssuerOK, IssuersApart, OwnersOf
  <2> QED BY <2>1, <2>2
<1>10. \A u, v \in Issuers : u # v => IssuersApart(issuer'[u], issuer'[v])
  BY <1>1, NothingIssued DEF CreditInv, IssuersApart, NoIssue
<1>11. \A q \in Requests, u \in Issuers : ApartFrom(req'[q], issuer'[u])
  BY <1>1 DEF CreditInv, ApartFrom, NoIssue
<1> QED BY <1>1, <1>4, <1>5, <1>6, <1>7, <1>8, <1>9, <1>10, <1>11
        DEF CreditInv, Apart, ApartFrom, IssuersApart

-----------------------------------------------------------------------------
LEMMA CreditInit == Init => CreditInv
<1> SUFFICES ASSUME Init PROVE CreditInv
  OBVIOUS
<1>1. TablesOK
  BY NothingHeld, NothingIssued DEF Init, TablesOK
<1>2. OneJob /\ OneOwner /\ (\A j \in jobs : JobOK(j))
      /\ (\A t \in Tags : OwnerOK(t)) /\ (\A e \in EventIds : AcceptedOK(e))
  BY DEF Init, OneJob, OneOwner, Registered, OwnerOK, AcceptedOK
<1> QED BY <1>1, <1>2, NothingHeld, NothingIssued DEF Init, CreditInv, TablesOK

LEMMA CreditNext == CreditInv /\ [Next]_vars => CreditInv'
<1> SUFFICES ASSUME CreditInv, [Next]_vars PROVE CreditInv'
  OBVIOUS
<1>1. ASSUME NEW r \in Requests, Handle(r) PROVE CreditInv'
  BY <1>1, InsertKeeps, OwnKeeps, BindKeeps, QueueKeeps, OutcomeKeeps, CommitKeeps DEF Handle
<1>2. ASSUME NEW r \in Requests, Fail(r) PROVE CreditInv'
  BY <1>2, RollbackKeeps DEF Fail
<1>3. ASSUME NEW r \in Requests, NEW d \in Deliveries, Receive(r, d) PROVE CreditInv'
  BY <1>3, ReceiveKeeps
<1>4. ASSUME NEW t \in Tags, Register(t) PROVE CreditInv'
  BY <1>4, RegisterKeeps
<1>5. ASSUME NEW s \in Issuers, Issue(s) PROVE CreditInv'
  BY <1>5, WriteOwnerKeeps, EndIssue, CommitOwnerKeeps DEF Issue, WriteOwnerConflict
<1>6. ASSUME NEW s \in Issuers, NEW t \in Tags, Transition(s, t) \/ BindSmoke(s, t)
      PROVE  CreditInv'
  <2>1. t \in Registered
    BY <1>6, CreditNullAssumption DEF Transition, BindSmoke, Registered
  <2>2. PICK i \in InvoicesWith[t] \cup {Null} :
           IssuerStep(s, [at |-> "owner", tag |-> t, invoice |-> i])
    BY <1>6 DEF Transition, BindSmoke
  <2> QED BY <2>1, <2>2, BeginKeeps
<1>7. ASSUME NEW r \in Requests, NEW s \in Issuers, DeadlockVictim(r, s) PROVE CreditInv'
  BY <1>7, RollbackKeeps, EndIssue DEF DeadlockVictim
<1>8. ASSUME UNCHANGED vars PROVE CreditInv'
  BY <1>8 DEF vars, CreditInv, TablesOK, OneJob, OneOwner, JobOK, OwnerOK, AcceptedOK, RequestOK,
     IssuerOK, Apart, ApartFrom, IssuersApart, Recorded, Claimed, JobOf, JobExists, OwnersOf, Registered
<1> QED BY <1>1, <1>2, <1>3, <1>4, <1>5, <1>6, <1>7, <1>8 DEF Next

\* What open transactions know of the tables is true, and no two of them hold the
\* same key.
THEOREM CreditInvHolds == Spec => []CreditInv
BY CreditInit, CreditNext, PTL DEF Spec

-----------------------------------------------------------------------------
\* Rows have an outcome, owners an invoice, and jobs their event.
THEOREM CreditTypeCorrect == Spec => []CreditTypeOK
<1>1. CreditInv => CreditTypeOK
  BY CreditNullAssumption
     DEF CreditInv, TablesOK, CreditTypeOK, Rows, JobOK, Recorded
<1> QED BY <1>1, CreditInvHolds, PTL

\* An invoice, and an event, leads to at most one job.
THEOREM OneJobPerCredit == Spec => []OneJob
<1>1. CreditInv => OneJob
  BY DEF CreditInv
<1> QED BY <1>1, CreditInvHolds, PTL

\* A provider id is bound to at most one tag.
THEOREM OneOwnerPerInvoice == Spec => []OneOwner
<1>1. CreditInv => OneOwner
  BY DEF CreditInv
<1> QED BY <1>1, CreditInvHolds, PTL

\* No transaction commits an accepted event without its job, and none relies on a job
\* that is rolled back.
THEOREM AcceptedCreditsHaveJobs == Spec => []AcceptedHasJob
<1>1. CreditInv => AcceptedHasJob
  BY DEF CreditInv, Accepted, AcceptedOK, AcceptedHasJob, JobOf
<1> QED BY <1>1, CreditInvHolds, PTL

\* Only payable credits of our own invoices have jobs.
THEOREM OnlyOursQueued == Spec => []JobsAreOurs
<1>1. CreditInv => JobsAreOurs
  BY DEF CreditInv, JobOK, Claimed, JobsAreOurs
<1> QED BY <1>1, CreditInvHolds, PTL

-----------------------------------------------------------------------------
\* The inbox.

LEMMA VerdictIs == ASSUME NEW e \in EventIds
    PROVE /\ [x \in EventIds |-> Verdict(x)][e] = Verdict(e)
          /\ Verdict(e) = "none" <=> events[e] = Null
          /\ Verdict(e) = "accepted" <=> events[e] # Null /\ events[e].outcome \in Accepted
          /\ events[e] # Null /\ events[e].outcome = "invoice_unknown" => Verdict(e) = "unknown"
BY DEF Verdict, Accepted

\* COMMIT gives one verdict.
LEMMA CommitJudges ==
    ASSUME CreditInv, NEW r \in Requests, Commit(r) PROVE [Inbox!Next]_(Inbox!vars)
<1> PICK c : c = req[r]
  OBVIOUS
<1> DEFINE d == c.d
           e == d.event
           job == [event |-> e, invoice |-> d.invoice]
           before == [x \in EventIds |-> Verdict(x)]
           after == [x \in EventIds |-> Verdict(x)']
<1>0. /\ c \in RequestRecs /\ RequestOK(c) /\ c.at = "commit"
      /\ d \in Deliveries /\ e \in EventIds
  BY Monitored, DeliveredId DEF Commit, RequestOK
<1>1. /\ c.outcome = Null => events' = events
      /\ c.outcome # Null =>
            /\ events'[e] # Null /\ events'[e].outcome = c.outcome
            /\ \A x \in EventIds \ {e} : events'[x] = events[x]
      /\ jobs' = IF c.job THEN jobs \cup {job} ELSE jobs
  <2>1. /\ events' = IF c.outcome = Null THEN events
                     ELSE IF c.isNew
                     THEN [events EXCEPT ![e] = [payload |-> d.payload, outcome |-> c.outcome]]
                     ELSE [events EXCEPT ![e].outcome = c.outcome]
        /\ jobs' = IF c.job THEN jobs \cup {job} ELSE jobs
    BY DEF Commit
  <2>2. ASSUME c.outcome # Null, c.isNew
        PROVE  events'[e] # Null /\ events'[e].outcome = c.outcome
    <3> DEFINE row == [payload |-> d.payload, outcome |-> c.outcome]
    <3>1. row \in Rows /\ row.outcome = c.outcome
      BY <1>0, <2>2 DEF RequestRecs, Rows
    <3> HIDE DEF row
    <3> QED BY <1>0, <2>1, <2>2, <3>1, CreditNullAssumption DEF CreditInv, TablesOK, row
  <2>3. ASSUME c.outcome # Null, ~c.isNew
        PROVE  events'[e] # Null /\ events'[e].outcome = c.outcome
    <3> DEFINE row == [events[e] EXCEPT !.outcome = c.outcome]
    <3>1. events[e] \in Rows
      BY <1>0, <2>3 DEF RequestOK, CreditInv, TablesOK
    <3>2. row \in Rows /\ row.outcome = c.outcome
      BY <1>0, <2>3, <3>1 DEF RequestRecs, Rows
    <3>3. events' = [events EXCEPT ![e] = row]
      BY <2>1, <2>3
    <3> HIDE DEF row
    <3> QED BY <1>0, <3>2, <3>3, CreditNullAssumption DEF CreditInv, TablesOK
  <2> QED BY <1>0, <2>1, <2>2, <2>3 DEF CreditInv, TablesOK, RequestRecs
<1>2. c.outcome # Null => \A x \in EventIds \ {e} : Verdict(x)' = Verdict(x)
  BY <1>1 DEF Verdict
<1>3. c.job => c.outcome = "queued" /\ c.outcome \in Accepted
  BY <1>0 DEF RequestOK, Accepted
<1>4. CASE c.outcome = Null
  BY <1>1, <1>3, <1>4, CreditNullAssumption DEF Inbox!vars, Verdict, Accepted, Outcomes
<1>5. CASE c.outcome \in Accepted
  <2>1. /\ c.outcome # Null /\ d.kind = "credited" /\ d.payable
        /\ c.isNew \/ Recorded(d)
        /\ c.job \/ JobOf(d.invoice)
        /\ c.job => ~JobExists(d)
    BY <1>0, <1>5, CreditNullAssumption DEF RequestOK, Accepted, Outcomes
  <2>2. job \in PayableCredits /\ job.event = e /\ job.invoice = d.invoice
    BY <1>0, <2>1 DEF PayableCredits
  <2>3. Verdict(e)' = "accepted"
    BY <1>1, <1>5, <2>1 DEF Verdict, Accepted
  <2>4. after = [before EXCEPT ![e] = "accepted"]
    BY <1>0, <1>2, <2>1, <2>3
  <2>5. CASE Verdict(e) \in {"none", "unknown"}
    <3>1. Inbox!Accept(job)
      BY <1>0, <2>2, <2>4, <2>5, VerdictIs DEF Inbox!Accept, Inbox!Judge
    <3>2. Inbox!IsQueued(job.invoice) <=> JobOf(d.invoice)
      BY DEF Inbox!IsQueued, JobOf
    <3>3. CASE c.job
      <4>1. Inbox!Queue(job)
        BY <1>1, <2>1, <3>1, <3>2, <3>3 DEF Inbox!Queue, JobExists, JobOf
      <4> QED BY <2>2, <4>1 DEF Inbox!Next
    <3>4. CASE ~c.job
      <4>1. Inbox!Repeat(job)
        BY <1>1, <2>1, <3>1, <3>2, <3>4 DEF Inbox!Repeat
      <4> QED BY <2>2, <4>1 DEF Inbox!Next
    <3> QED BY <3>3, <3>4
  <2>6. CASE Verdict(e) = "accepted"
    <3>1. PICK x \in Deliveries : /\ x.event = e /\ x.payload = events[e].payload
                                  /\ JobOf(x.invoice)
      BY <1>0, <2>6, VerdictIs DEF CreditInv, AcceptedOK
    <3>2. Recorded(d)
      BY <1>0, <2>1, <2>6, VerdictIs DEF RequestOK
    <3>3. x.invoice = d.invoice
      BY <1>0, <3>1, <3>2, PayloadAssumption DEF Recorded
    <3>4. jobs' = jobs
      BY <1>1, <2>1, <3>1, <3>3 DEF JobOf, JobExists
    <3>5. after = before
      BY <1>0, <2>4, <2>6
    <3> QED BY <3>4, <3>5 DEF Inbox!vars
  <2>7. Verdict(e) \in {"none", "unknown", "accepted"}
    BY <1>0, <2>1, VerdictIs DEF RequestOK, Recorded
  <2> QED BY <2>5, <2>6, <2>7
<1>6. CASE c.outcome \notin Accepted \cup {Null}
  <2>1. c.isNew /\ Verdict(e) = "none"
    BY <1>0, <1>6, VerdictIs DEF RequestOK
  <2>2. Verdict(e)' \in {"refused", "unknown"}
    BY <1>1, <1>6 DEF Verdict, Accepted
  <2>3. after = [before EXCEPT ![e] = Verdict(e)'] /\ jobs' = jobs
    BY <1>0, <1>1, <1>2, <1>3, <1>6
  <2>4. Inbox!Refuse(e)
    BY <1>0, <2>1, <2>2, <2>3, VerdictIs DEF Inbox!Refuse, Inbox!Judge
  <2> QED BY <1>0, <2>4 DEF Inbox!Next
<1> QED BY <1>4, <1>5, <1>6

LEMMA InboxStep == CreditInv /\ [Next]_vars => [Inbox!Next]_(Inbox!vars)
<1> SUFFICES ASSUME CreditInv, [Next]_vars PROVE [Inbox!Next]_(Inbox!vars)
  OBVIOUS
<1>1. ASSUME UNCHANGED <<events, jobs>> PROVE UNCHANGED Inbox!vars
  BY <1>1 DEF Inbox!vars, Verdict
<1>2. ASSUME NEW r \in Requests, Handle(r) \/ Fail(r) PROVE Commit(r) \/ UNCHANGED <<events, jobs>>
  BY <1>2 DEF Handle, InsertEvent, InsertDuplicate, Recover, OwnById, OwnNoId, OwnByTag, OwnNot,
     Disown, Bind, BindConflict, UpdateDraft, CheckJob, InsertJob, MarkDuplicate, Promote,
     WriteOutcome, Step, Fail, Rollback
<1>3. ASSUME ~\E r \in Requests : Handle(r) \/ Fail(r) PROVE UNCHANGED <<events, jobs>>
  BY <1>3 DEF Next, vars, Receive, Step, Register, Issue, WriteOwner, WriteOwnerConflict,
     CommitOwner, Transition, BindSmoke, IssuerStep, DeadlockVictim, Rollback
<1> QED BY <1>1, <1>2, <1>3, CommitJudges

\* Requests that race, wait, fail and recover events implement the inbox of verdicts.
THEOREM InboxImplemented == Spec => ImplementsInbox
<1>1. Init => Inbox!Init
  BY DEF Init, Inbox!Init, Verdict
<1> QED BY <1>1, InboxStep, CreditInvHolds, PTL DEF Spec, ImplementsInbox, Inbox!Spec

-----------------------------------------------------------------------------
\* The credits and the workers together (CreditToTransfer).

\* What is proved of TransferDispatch, said of the rows of this table.
Proved == INSTANCE TransferDispatch_proofs
              WITH Invoices <- InvoiceIds, jobs <- rows, at <- reading, LastCredit <- 0

\* Both instances have the same operators.
LEMMA SameWork == Dispatch!Work <=> Proved!Work
    BY DEF Dispatch!Work, Dispatch!WorkerStep, Dispatch!AskProvider, Dispatch!ReadClock,
           Dispatch!ClaimNothing, Dispatch!ClaimJob, Dispatch!Start, Dispatch!Finish,
           Dispatch!Crash, Dispatch!Arrive, Dispatch!Tick, Dispatch!EnsureLookup,
           Dispatch!CreateAnswered, Dispatch!CreateUnknown, Dispatch!CreateRejected,
           Dispatch!CreateRefused, Dispatch!Recheck, Dispatch!FinalLookup,
           Dispatch!ReconcileLookup, Dispatch!HandleTimeout, Dispatch!HandleTransient,
           Dispatch!HandlePermanent, Dispatch!Goto, Dispatch!Conclude, Dispatch!BackToIdle,
           Dispatch!BuildTransferCommand, Dispatch!Booked, Dispatch!Claimable,
           Dispatch!Claimed, Dispatch!LeaseFrom, Dispatch!HoldsLease, Dispatch!Finished,
           Dispatch!Backoff, Dispatch!PowersOfTwo, Dispatch!StatusAfter, Dispatch!Result,
           Dispatch!Exhausted, Dispatch!Waiting, Dispatch!provider, Dispatch!worker,
           Proved!Work, Proved!WorkerStep, Proved!AskProvider, Proved!ReadClock,
           Proved!ClaimNothing, Proved!ClaimJob, Proved!Start, Proved!Finish, Proved!Crash,
           Proved!Arrive, Proved!Tick, Proved!EnsureLookup, Proved!CreateAnswered,
           Proved!CreateUnknown, Proved!CreateRejected, Proved!CreateRefused,
           Proved!Recheck, Proved!FinalLookup, Proved!ReconcileLookup,
           Proved!HandleTimeout, Proved!HandleTransient, Proved!HandlePermanent,
           Proved!Goto, Proved!Conclude, Proved!BackToIdle, Proved!BuildTransferCommand,
           Proved!Booked, Proved!Claimable, Proved!Claimed, Proved!LeaseFrom,
           Proved!HoldsLease, Proved!Finished, Proved!Backoff, Proved!PowersOfTwo,
           Proved!StatusAfter, Proved!Result, Proved!Exhausted, Proved!Waiting,
           Proved!provider, Proved!worker

LEMMA SameDispatch ==
    /\ Dispatch!Init <=> Proved!Init
    /\ [Dispatch!Next]_(Dispatch!vars) <=> [Proved!Next]_(Proved!vars)
    /\ Dispatch!AtMostOneTransfer <=> Proved!AtMostOneTransfer
<1>1. /\ Dispatch!Init <=> Proved!Init
      /\ UNCHANGED Dispatch!vars <=> UNCHANGED Proved!vars
      /\ Dispatch!AtMostOneTransfer <=> Proved!AtMostOneTransfer
    BY DEF Dispatch!Init, Dispatch!Absent, Dispatch!vars, Dispatch!AtMostOneTransfer,
           Proved!Init, Proved!Absent, Proved!vars, Proved!AtMostOneTransfer
<1>2. (\E i \in InvoiceIds, received \in 0 .. now : Dispatch!Enqueue(i, received))
      <=> (\E i \in InvoiceIds, received \in 0 .. now : Proved!Enqueue(i, received))
    BY DEF Dispatch!Enqueue, Dispatch!Absent, Dispatch!worker, Dispatch!provider,
           Proved!Enqueue, Proved!Absent, Proved!worker, Proved!provider
<1>3. Dispatch!Next <=> Proved!Next
    BY <1>2, SameWork DEF Dispatch!Next, Proved!Next
<1> QED BY <1>1, <1>3

\* A COMMIT queues at most one credit, of an invoice without a job.
LEMMA JobsGrow ==
    ASSUME CreditInv, [Next]_vars
    PROVE  \/ jobs' = jobs
           \/ \E c \in PayableCredits : ~JobOf(c.invoice) /\ jobs' = jobs \cup {c}
<1>1. [Inbox!Next]_(Inbox!vars)
    BY InboxStep
<1> QED BY <1>1 DEF Inbox!Next, Inbox!vars, Inbox!Refuse, Inbox!Queue, Inbox!Repeat,
                    Inbox!IsQueued, JobOf

\* Each half keeps its invariant, and the two agree on which rows there are.
FlowInv == CreditInv /\ Proved!IndInv /\ OneTable

LEMMA DispatchFacts ==
    ASSUME DispatchAssumption
    PROVE  /\ Proved!LeaseAssumption /\ Proved!RetryAssumption /\ Proved!AttemptsAssumption
           /\ Proved!BoundsAssumption /\ Proved!NoLeaseAssumption
    BY DEF DispatchAssumption, Proved!LeaseAssumption, Proved!RetryAssumption,
           Proved!AttemptsAssumption, Proved!BoundsAssumption, Proved!NoLeaseAssumption

\* The COMMIT of a job is an Enqueue, and no other step of the web server is seen by
\* the workers.
LEMMA CreditsEnqueue ==
    ASSUME FlowInv, CreditStep
    PROVE  /\ UNCHANGED Proved!vars \/ Proved!Next
           /\ OneTable'
<1> PICK received \in 0 .. now :
        rows' = [i \in InvoiceIds |-> IF i \in NewInvoices THEN Inserted(received) ELSE rows[i]]
    BY DEF CreditStep
<1>1. /\ rows \in [InvoiceIds -> Proved!Job]
      /\ UNCHANGED <<now, pc, reading, claim, result, transfers, inflight, crashes>>
    BY DEF FlowInv, Proved!IndInv, Proved!TypeOK, CreditStep
<1>2. Inserted(received) = [Proved!Absent EXCEPT !.status = "pending", !.nextAt = received]
      /\ Inserted(received).status = "pending"
    BY DEF Inserted, Dispatch!Absent, Proved!Absent
<1>3. CASE jobs' = jobs
  <2>1. NewInvoices = {}
      BY <1>3 DEF NewInvoices
  <2>2. rows' = rows
      BY <1>1, <2>1
  <2> QED BY <1>1, <1>3, <2>2 DEF FlowInv, OneTable, Proved!vars
<1>4. ASSUME NEW c \in PayableCredits, ~JobOf(c.invoice), jobs' = jobs \cup {c}
      PROVE  /\ UNCHANGED Proved!vars \/ Proved!Next
             /\ OneTable'
  <2>1. c \notin jobs /\ NewInvoices = {c.invoice}
      BY <1>4 DEF NewInvoices, JobOf
  <2>2. c.invoice \in InvoiceIds
      BY <1>4, DeliveredId DEF PayableCredits
  <2>3. rows[c.invoice].status = "absent"
      BY <1>4, <2>2 DEF FlowInv, OneTable, JobOf
  <2>4. rows' = [rows EXCEPT ![c.invoice] = Inserted(received)]
      BY <1>1, <2>1
  <2>5. Proved!Enqueue(c.invoice, received)
      BY <1>1, <1>2, <2>3, <2>4 DEF Proved!Enqueue, Proved!worker, Proved!provider
  <2>6. OneTable'
    <3> SUFFICES ASSUME NEW i \in InvoiceIds
                 PROVE  rows'[i].status # "absent" <=> \E j \in jobs' : j.invoice = i
        BY DEF OneTable
    <3>1. CASE i = c.invoice
        BY <1>1, <1>2, <1>4, <2>4, <3>1
    <3>2. CASE i # c.invoice
        BY <1>1, <1>4, <2>4, <3>2 DEF FlowInv, OneTable
    <3> QED BY <3>1, <3>2
  <2> QED BY <2>2, <2>5, <2>6 DEF Proved!Next
<1> QED BY <1>3, <1>4, JobsGrow DEF FlowInv, CreditStep

\* The workers see a table to which only credits add rows.
LEMMA FlowStep ==
    ASSUME DispatchAssumption, FlowInv, [CreditStep \/ DispatchStep]_flowVars
    PROVE  [Next]_vars /\ [Proved!Next]_(Proved!vars) /\ FlowInv'
<1>1. CASE CreditStep
  <2>1. Next /\ [Proved!Next]_(Proved!vars) /\ OneTable'
      BY <1>1, CreditsEnqueue DEF CreditStep
  <2>2. Proved!IndInv'
      BY <2>1, DispatchFacts, Proved!NextInv DEF FlowInv
  <2> QED BY <2>1, <2>2, CreditNext DEF FlowInv
<1>2. CASE DispatchStep
  <2>1. Proved!Work /\ UNCHANGED vars
      BY <1>2, SameWork DEF DispatchStep
  <2>2. Proved!Next /\ [Next]_vars
      BY <2>1 DEF Proved!Next
  <2>3. Proved!IndInv'
      BY <2>2, DispatchFacts, Proved!NextInv DEF FlowInv
  <2>4. OneTable'
    <3> SUFFICES ASSUME NEW i \in InvoiceIds
                 PROVE  rows'[i].status # "absent" <=> rows[i].status # "absent"
        BY <2>1 DEF FlowInv, OneTable, vars
    <3>1. CASE rows[i].status = "absent"
        BY <2>1, <3>1, DispatchFacts, Proved!NothingClaimsAbsent DEF FlowInv, Proved!IndInv
    <3>2. CASE rows[i].status # "absent"
        BY <2>2, <3>2, DispatchFacts, Proved!RowsRemain DEF FlowInv, Proved!IndInv
    <3> QED BY <3>1, <3>2
  <2> QED BY <2>2, <2>3, <2>4, CreditNext DEF FlowInv
<1>3. CASE UNCHANGED flowVars
  <2>1. [Next]_vars /\ [Proved!Next]_(Proved!vars)
      BY <1>3 DEF flowVars, Proved!vars
  <2>2. Proved!IndInv'
      BY <2>1, DispatchFacts, Proved!NextInv DEF FlowInv
  <2> QED BY <1>3, <2>1, <2>2, CreditNext DEF FlowInv, OneTable, flowVars, vars
<1> QED BY <1>1, <1>2, <1>3

LEMMA FlowInit == ASSUME DispatchAssumption, Init, Dispatch!Init PROVE FlowInv
<1>1. Proved!Init
    BY SameDispatch
<1>2. Proved!IndInv
    BY <1>1, DispatchFacts, Proved!InitInv
<1>3. OneTable
    BY <1>1 DEF Init, Proved!Init, Proved!Absent, OneTable
<1> QED BY <1>2, <1>3, CreditInit DEF FlowInv

LEMMA FlowInvHolds == ASSUME DispatchAssumption PROVE FlowSpec => []FlowInv
<1>1. Init /\ Dispatch!Init => FlowInv
    BY FlowInit
<1>2. FlowInv /\ [CreditStep \/ DispatchStep]_flowVars => FlowInv'
    BY FlowStep
<1> QED BY <1>1, <1>2, PTL DEF FlowSpec

\* The workers do not disturb the requests: CreditEvents describes the web server
\* also when the rows it inserts are claimed and written behind its back.
THEOREM FlowIsCredits == ASSUME DispatchAssumption PROVE FlowSpec => Spec
<1>1. FlowInv /\ [CreditStep \/ DispatchStep]_flowVars => [Next]_vars
    BY FlowStep
<1> QED BY <1>1, FlowInvHolds, PTL DEF FlowSpec, Spec

\* The COMMITs of EventStore.record and what the workers do are a behaviour of
\* TransferDispatch: its environment may queue any invoice once, and the requests
\* do no more than that.  What is proved of the workers holds of the whole.
THEOREM FlowIsDispatch == ASSUME DispatchAssumption PROVE FlowSpec => Dispatch!Spec
<1>1. FlowInv /\ [CreditStep \/ DispatchStep]_flowVars => [Dispatch!Next]_(Dispatch!vars)
    BY FlowStep, SameDispatch
<1> QED BY <1>1, FlowInvHolds, PTL DEF FlowSpec, Dispatch!Spec

\* No COMMIT inserts the row of an invoice that a worker has taken, and no worker
\* takes, or removes, a row that no credit has queued (_queue_transfer, claim).
THEOREM TablesAgree == ASSUME DispatchAssumption PROVE FlowSpec => []OneTable
<1>1. FlowInv => OneTable
    BY DEF FlowInv
<1> QED BY <1>1, FlowInvHolds, PTL

\* A credit on record as accepted has a row that the workers work on or have settled.
THEOREM AcceptedGoOn == ASSUME DispatchAssumption PROVE FlowSpec => []AcceptedIsDispatched
<1>1. FlowInv => AcceptedIsDispatched
  <2> SUFFICES ASSUME FlowInv, NEW e \in EventIds, events[e] # Null,
                      events[e].outcome \in {"queued", "duplicate_invoice"}
               PROVE  \E d \in Deliveries : d.event = e /\ rows[d.invoice].status # "absent"
      BY DEF AcceptedIsDispatched
  <2>1. PICK d \in Deliveries : d.event = e /\ JobOf(d.invoice)
      BY DEF FlowInv, CreditInv, Accepted, AcceptedOK
  <2>2. rows[d.invoice].status # "absent"
      BY <2>1, DeliveredId DEF FlowInv, OneTable, JobOf
  <2> QED BY <2>1, <2>2
<1> QED BY <1>1, FlowInvHolds, PTL

\* A transfer is booked only for a payable credit of an invoice of this environment,
\* also by a request that arrives after its worker has died (build_transfer_command,
\* _owns_invoice).
THEOREM OnlyOursPaid == ASSUME DispatchAssumption PROVE FlowSpec => []PaymentsAreOurs
<1>1. FlowInv => PaymentsAreOurs
  <2> SUFFICES ASSUME FlowInv, NEW n \in DOMAIN transfers
               PROVE  \E d \in Deliveries :
                         /\ d.invoice = transfers[n].invoice
                         /\ d.kind = "credited" /\ d.payable
                         /\ \E t \in Registered : t \in d.tags \/ d.invoice \in InvoicesWith[t]
      BY DEF PaymentsAreOurs
  <2>1. transfers[n].invoice \in InvoiceIds
    <3>1. transfers \in Seq(Proved!Transfer)
        BY DEF FlowInv, Proved!IndInv, Proved!TypeOK
    <3>2. transfers[n] \in Proved!Transfer
        BY <3>1
    <3> QED BY <3>2 DEF Proved!Transfer
  <2>2. rows[transfers[n].invoice].status # "absent"
      BY DEF FlowInv, Proved!IndInv, Proved!OnlyCreditsRequested
  <2>3. PICK j \in jobs : j.invoice = transfers[n].invoice
      BY <2>1, <2>2 DEF FlowInv, OneTable
  <2>4. JobOK(j)
      BY DEF FlowInv, CreditInv
  <2> QED BY <2>3, <2>4 DEF JobOK, Claimed
<1> QED BY <1>1, FlowInvHolds, PTL

\* However often the provider delivers the credits of an invoice, and however many
\* workers die while they pay it, at most one transfer is booked for it.
THEOREM FlowPaysOnce ==
    ASSUME DispatchAssumption PROVE FlowSpec => []Dispatch!AtMostOneTransfer
<1>1. FlowInv => Dispatch!AtMostOneTransfer
    BY SameDispatch DEF FlowInv, Proved!IndInv
<1> QED BY <1>1, FlowInvHolds, PTL

LEMMA SameLedger ==
    /\ Dispatch!Ledger!Init <=> Proved!Ledger!Init
    /\ [Dispatch!Ledger!Next]_(Dispatch!Ledger!vars) <=> [Proved!Ledger!Next]_(Proved!Ledger!vars)
    BY DEF Dispatch!Ledger!Init, Dispatch!Ledger!Next, Dispatch!Ledger!vars,
           Dispatch!Ledger!Accept, Dispatch!Ledger!Pay, Dispatch!Ledger!Succeed,
           Dispatch!Ledger!Fail, Dispatch!Ledger!IsPaid, Dispatch!DebtOutcome,
           Dispatch!ExternalIds, Proved!Ledger!Init, Proved!Ledger!Next, Proved!Ledger!vars,
           Proved!Ledger!Accept, Proved!Ledger!Pay, Proved!Ledger!Succeed, Proved!Ledger!Fail,
           Proved!Ledger!IsPaid, Proved!DebtOutcome, Proved!ExternalIds

\* From the delivery of a credit to its transfer the system implements the ledger of
\* debts: the COMMIT that queues the credit accepts the debt, and what requests and
\* workers do besides pays it at most once, and settles it once.
THEOREM FlowImplementsLedger ==
    ASSUME DispatchAssumption PROVE FlowSpec => Dispatch!ImplementsLedger
<1>1. Init /\ Dispatch!Init => Dispatch!Ledger!Init
    BY DEF Dispatch!Init, Dispatch!Absent, Dispatch!Ledger!Init, Dispatch!DebtOutcome
<1>2. FlowInv /\ [CreditStep \/ DispatchStep]_flowVars
      => [Dispatch!Ledger!Next]_(Dispatch!Ledger!vars)
    BY FlowStep, DispatchFacts, Proved!LedgerStep, SameLedger DEF FlowInv
<1> QED BY <1>1, <1>2, FlowInvHolds, PTL
           DEF FlowSpec, Dispatch!ImplementsLedger, Dispatch!Ledger!Spec

=============================================================================
