--------------------------- MODULE SmokeBatch_proofs ---------------------------
(***************************************************************************)
(* For any batch, any number of commands, requests and deliveries, and any *)
(* number of faults: what the smoke commands promise.  On top of the       *)
(* invariant of CreditEvents, whose steps all of these are: each command   *)
(* knows an invoice that the provider has, and holds its ordinals in       *)
(* order; whoever writes an owner writes an invoice that is booked for it. *)
(***************************************************************************)
EXTENDS SmokeBatch, CreditEvents_proofs

CommandRecs == [at : {"idle", "register", "lookup", "create", "recheck", "record", "bind", "done"},
                n : Nat, invoice : InvoiceIds \cup {Null}]

SmokeTypes == /\ command \in [Commands -> CommandRecs]
              /\ returned \in [Commands -> Seq(InvoiceIds)]
              /\ late \in [SmokeTags -> Nat]

\* What a command knows of its tag, of its invoice and of its transaction.
CommandOK(p) ==
    LET c == command[p]
    IN  /\ Running(p) => c.n \in DOMAIN Batch /\ Len(returned[p]) = c.n - 1
        /\ c.at \in {"lookup", "create", "recheck", "record", "bind"} => owner[TagOf(p)] # NotOwned
        /\ c.at \in {"record", "bind"} => c.invoice \in BookedOf(TagOf(p))
        /\ c.at = "bind" => issuer[p].tag = TagOf(p) /\ issuer[p].invoice = c.invoice
        /\ c.at # "bind" => issuer[p] = NoIssue

ReturnedOK(p) == \A n \in DOMAIN returned[p] :
    /\ n \in DOMAIN Batch
    /\ returned[p][n] \in BookedOf(Batch[n])

\* A request comes with an invoice that exists, and binds it to a tag that it carries.
RequestBooked(q) == /\ q.at # "idle" => q.d.invoice \in booked
                    /\ q.at = "bind" \/ q.bound => q.tag \in q.d.tags

OwnerBooked(t) == owner[t] \in BookedOf(t) \cup {Null, NotOwned}

\* Without another command and without a late request, a create request is made for
\* a tag that has no invoice.
Undisturbed == ~disturbed =>
    /\ \A t \in SmokeTags : late[t] = 0 /\ ~Duplicated(t)
    /\ \A p, q \in Commands : p # q => ~(Running(p) /\ Running(q))
    /\ \A p \in Commands : command[p].at = "create" => BookedOf(TagOf(p)) = {}

SmokeInv == /\ CreditInv /\ SmokeTypes
            /\ \A p \in Commands : CommandOK(p) /\ ReturnedOK(p)
            /\ \A r \in Requests : RequestBooked(req[r])
            /\ \A t \in SmokeTags : OwnerBooked(t)
            /\ Undisturbed

\* What a step may do to the invoices and to the owners.
Effects == /\ booked \subseteq booked'
           /\ Registered \subseteq Registered'
           /\ \A t \in SmokeTags : \/ owner'[t] = owner[t]
                                   \/ owner[t] = NotOwned /\ owner'[t] = Null
                                   \/ owner'[t] \in BookedOf(t)

-----------------------------------------------------------------------------
\* Facts about the batch.

LEMMA BatchTags == \A n \in DOMAIN Batch : n \in Nat \ {0} /\ n <= Len(Batch) /\ Batch[n] \in SmokeTags
BY BatchAssumption

LEMMA BatchStarts == 1 \in DOMAIN Batch /\ Len(Batch) \in Nat
BY BatchAssumption

LEMMA Idle == /\ NoCommand \in CommandRecs
              /\ [NoCommand EXCEPT !.at = "done"] \in CommandRecs
              /\ [NoCommand EXCEPT !.at = "register"] \in CommandRecs
BY DEF NoCommand, CommandRecs

\* What a command knows of one tag, it knows of no other.
LEMMA BookedIds == \A t \in SmokeTags : BookedOf(t) \subseteq InvoiceIds
BY InvoiceWithId DEF BookedOf, Tags

LEMMA OwnTag == ASSUME SmokeInv, NEW p \in Commands, Running(p)
    PROVE /\ TagOf(p) \in SmokeTags /\ TagOf(p) \in Tags
          /\ command[p] \in CommandRecs /\ CommandOK(p) /\ returned[p] \in Seq(InvoiceIds)
BY BatchTags DEF SmokeInv, SmokeTypes, CommandOK, TagOf, Tags

\* What is booked and registered stays so.
LEMMA KeepsBooked ==
    ASSUME SmokeInv, Effects
    PROVE  \A t \in SmokeTags :
              /\ BookedOf(t) \subseteq BookedOf(t)'
              /\ owner[t] # NotOwned => owner'[t] # NotOwned
BY DEF Effects, BookedOf, Registered, Tags

LEMMA ReturnedKeeps ==
    ASSUME SmokeInv, NEW p \in Commands, Effects, returned'[p] = returned[p]
    PROVE  ReturnedOK(p)'
<1> SUFFICES ASSUME NEW n \in DOMAIN returned[p] PROVE
      /\ n \in DOMAIN Batch
      /\ returned[p][n] \in BookedOf(Batch[n])'
  BY DEF ReturnedOK
<1>1. /\ n \in DOMAIN Batch /\ Batch[n] \in SmokeTags
      /\ returned[p][n] \in BookedOf(Batch[n])
  BY BatchTags DEF SmokeInv, ReturnedOK
<1> QED BY <1>1, KeepsBooked

\* What the tables and the provider do leaves a command what it knows.
LEMMA CommandKeeps ==
    ASSUME SmokeInv, NEW p \in Commands, Effects,
           command'[p] = command[p], returned'[p] = returned[p], issuer'[p] = issuer[p]
    PROVE  CommandOK(p)' /\ ReturnedOK(p)'
<1>1. CommandOK(p) /\ command[p] \in CommandRecs
  BY DEF SmokeInv, SmokeTypes
<1>2. Running(p)' <=> Running(p)
  BY DEF Running
<1>3. Running(p) => TagOf(p)' = TagOf(p) /\ TagOf(p) \in SmokeTags
  BY OwnTag DEF TagOf
<1>4. command[p].at \in {"lookup", "create", "recheck", "record", "bind"} => Running(p)
  BY DEF Running
<1>5. CommandOK(p)'
  BY <1>1, <1>2, <1>3, <1>4, KeepsBooked DEF CommandOK
<1> QED BY <1>5, ReturnedKeeps

LEMMA OwnersKeep == ASSUME SmokeInv, Effects PROVE (\A t \in SmokeTags : OwnerBooked(t))'
<1>1. \A t \in SmokeTags : BookedOf(t) \subseteq BookedOf(t)'
  BY DEF Effects, BookedOf
<1> QED BY <1>1 DEF SmokeInv, Effects, OwnerBooked

-----------------------------------------------------------------------------
\* The steps of a command.

\* A step of the command p alone.
Alone(p) == /\ req' = req
            /\ \A q \in Commands \ {p} : /\ command'[q] = command[q] /\ returned'[q] = returned[q]
                                         /\ issuer'[q] = issuer[q]

LEMMA AloneKeeps ==
    ASSUME SmokeInv, NEW p \in Commands, Effects, Alone(p), SmokeTypes',
           CommandOK(p)', ReturnedOK(p)', CreditInv', Undisturbed'
    PROVE  SmokeInv'
<1>1. \A q \in Commands : CommandOK(q)' /\ ReturnedOK(q)'
  BY CommandKeeps DEF Alone
<1>2. \A r \in Requests : RequestBooked(req[r])'
  BY DEF Alone, SmokeInv, RequestBooked, Effects
<1> QED BY <1>1, <1>2, OwnersKeep DEF SmokeInv

\* Nothing is owned, and no more than before is booked.
LEMMA NothingOwned == ASSUME UNCHANGED owner, booked \subseteq booked' PROVE Effects
BY DEF Effects, Registered

LEMMA Remembered == ASSUME Remember, ~disturbed'
    PROVE /\ ~disturbed
          /\ \A t \in SmokeTags : ~(late'[t] > 0)
          /\ \A p, q \in Commands : p # q => ~(Running(p)' /\ Running(q)')
BY DEF Remember

\* A command that runs alone books at most the first invoice of its tag.
LEMMA StaysCalm ==
    ASSUME SmokeInv, Remember, NEW p \in Commands, Running(p) \/ Running(p)',
           \A q \in Commands \ {p} : command'[q] = command[q],
           late' \in [SmokeTags -> Nat],
           \A t \in SmokeTags :
              \/ BookedOf(t)' = BookedOf(t)
              \/ command[p].at = "create" /\ t = TagOf(p) /\ \E i : BookedOf(t)' = BookedOf(t) \cup {i},
           command'[p].at = "create" => BookedOf(TagOf(p))' = {} /\ TagOf(p)' = TagOf(p)
    PROVE  Undisturbed'
<1> SUFFICES ASSUME ~disturbed' PROVE
       /\ \A t \in SmokeTags : late'[t] = 0 /\ ~Duplicated(t)'
       /\ \A q, u \in Commands : q # u => ~(Running(q)' /\ Running(u)')
       /\ \A q \in Commands : command'[q].at = "create" => BookedOf(TagOf(q))' = {}
  BY DEF Undisturbed
<1>1. /\ ~disturbed
      /\ \A t \in SmokeTags : late'[t] = 0
      /\ \A q, u \in Commands : q # u => ~(Running(q)' /\ Running(u)')
  BY Remembered
<1>2. \A t \in SmokeTags : ~Duplicated(t)
      /\ (command[p].at = "create" /\ t = TagOf(p) => BookedOf(t) = {})
  BY <1>1 DEF SmokeInv, Undisturbed
<1>3. \A t \in SmokeTags : ~Duplicated(t)'
  BY <1>2 DEF Duplicated
<1>4. ASSUME NEW q \in Commands, command'[q].at = "create" PROVE BookedOf(TagOf(q))' = {}
  <2>1. CASE q = p
    BY <1>4, <2>1 DEF TagOf
  <2>2. CASE q # p
    <3>1. Running(q) /\ Running(q)'
      BY <1>4, <2>2 DEF Running
    <3> QED BY <1>1, <2>2, <3>1 DEF SmokeInv, Undisturbed
  <2> QED BY <2>1, <2>2
<1> QED BY <1>1, <1>3, <1>4

LEMMA CreditStays == ASSUME CreditInv, UNCHANGED vars PROVE CreditInv'
BY CreditNext

\* The parts of a step that only the command p notices.
LEMMA Becomes ==
    ASSUME SmokeInv, NEW p \in Commands, NEW next \in CommandRecs, Become(p, next)
    PROVE  /\ command' \in [Commands -> CommandRecs] /\ command'[p] = next
           /\ \A q \in Commands \ {p} : command'[q] = command[q]
BY DEF Become, SmokeInv, SmokeTypes

\* A step of p in which nothing is booked and no table changes.
LEMMA QuietKeeps ==
    ASSUME SmokeInv, Remember, NEW p \in Commands, NEW next \in CommandRecs, Become(p, next),
           UNCHANGED <<vars, returned>>,
           booked' = booked, late' \in [SmokeTags -> Nat],
           Running(p), command[p].at # "bind",
           \/ next = NoCommand
           \/ /\ next.n = command[p].n /\ next.at \in {"lookup", "create", "recheck", "record"}
              /\ owner[TagOf(p)] # NotOwned
              /\ next.at = "create" => BookedOf(TagOf(p)) = {}
              /\ next.at = "record" => next.invoice \in BookedOf(TagOf(p))
    PROVE  SmokeInv' /\ Effects
<1>0. command' \in [Commands -> CommandRecs] /\ command'[p] = next
      /\ \A q \in Commands \ {p} : command'[q] = command[q]
  BY Becomes
<1>1. TagOf(p) \in SmokeTags /\ CommandOK(p) /\ ReturnedOK(p) /\ returned[p] \in Seq(InvoiceIds)
  BY OwnTag DEF SmokeInv
<1>2. CommandOK(p)'
  BY <1>0, <1>1 DEF CommandOK, NoCommand, Running, TagOf, BookedOf, vars
<1>3. ReturnedOK(p)'
  BY <1>1 DEF ReturnedOK, BookedOf, vars
<1>4. Undisturbed'
  BY <1>0, <1>1, StaysCalm DEF BookedOf, NoCommand, TagOf
<1>5. CreditInv'
  BY CreditStays DEF SmokeInv
<1>6. Alone(p) /\ Effects
  BY <1>0, NothingOwned DEF Alone, vars
<1>7. SmokeTypes'
  BY <1>0 DEF SmokeInv, SmokeTypes
<1> QED BY <1>2, <1>3, <1>4, <1>5, <1>6, <1>7, AloneKeeps

LEMMA LookUpKeeps ==
    ASSUME SmokeInv, Remember, NEW p \in Commands, LookUp(p) \/ CallFails(p)
    PROVE  SmokeInv' /\ Effects
<1>1. Running(p) /\ command[p].at \in {"lookup", "recheck", "create"}
  BY DEF LookUp, CallFails, Running
<1>2. CommandOK(p) /\ command[p] \in CommandRecs /\ TagOf(p) \in SmokeTags
  BY <1>1, OwnTag
<1>3. owner[TagOf(p)] # NotOwned /\ late' \in [SmokeTags -> Nat] /\ UNCHANGED <<vars, booked, returned>>
  BY <1>1, <1>2 DEF CommandOK, LookUp, CallFails, Provider, SmokeInv, SmokeTypes
<1>4. ASSUME Exit(p) PROVE SmokeInv' /\ Effects
  BY <1>1, <1>3, <1>4, Idle, QuietKeeps DEF Exit
<1>5. ASSUME NEW i \in BookedOf(TagOf(p)),
             Become(p, [command[p] EXCEPT !.at = "record", !.invoice = i])
      PROVE  SmokeInv' /\ Effects
  <2> DEFINE next == [command[p] EXCEPT !.at = "record", !.invoice = i]
  <2>1. next \in CommandRecs
    BY <1>2, BookedIds DEF CommandRecs
  <2>2. next.at = "record" /\ next.n = command[p].n /\ next.invoice = i
    BY <1>2 DEF CommandRecs
  <2> HIDE DEF next
  <2> QED BY <1>1, <1>3, <1>5, <2>1, <2>2, QuietKeeps DEF next
<1>6. ASSUME BookedOf(TagOf(p)) = {}, Goto(p, "create") PROVE SmokeInv' /\ Effects
  <2> DEFINE next == [command[p] EXCEPT !.at = "create"]
  <2>1. next \in CommandRecs /\ next.at = "create" /\ next.n = command[p].n
    BY <1>2 DEF CommandRecs
  <2>2. Become(p, next)
    BY <1>6 DEF Goto
  <2> HIDE DEF next
  <2> QED BY <1>1, <1>3, <1>6, <2>1, <2>2, QuietKeeps
<1> QED BY <1>4, <1>5, <1>6 DEF LookUp, CallFails

LEMMA StartKeeps ==
    ASSUME SmokeInv, Remember, NEW p \in Commands, StartCommand(p)
    PROVE  SmokeInv' /\ Effects
<1> DEFINE next == [NoCommand EXCEPT !.at = "register"]
<1>0. command' \in [Commands -> CommandRecs] /\ command'[p] = next
      /\ \A q \in Commands \ {p} : command'[q] = command[q]
  BY Becomes, Idle DEF StartCommand
<1>1. next.at = "register" /\ next.n = 1
  BY DEF NoCommand
<1>2. CommandOK(p) /\ issuer[p] = NoIssue
  BY DEF SmokeInv, CommandOK, StartCommand, Running
<1>3. /\ returned' \in [Commands -> Seq(InvoiceIds)] /\ returned'[p] = <<>>
      /\ \A q \in Commands \ {p} : returned'[q] = returned[q]
      /\ late' \in [SmokeTags -> Nat]
      /\ UNCHANGED <<vars, booked>>
  BY DEF StartCommand, Provider, SmokeInv, SmokeTypes
<1>4. CommandOK(p)'
  BY <1>0, <1>1, <1>2, <1>3, BatchStarts DEF CommandOK, Running, vars
<1>5. ReturnedOK(p)'
  BY <1>3 DEF ReturnedOK
<1>6. Undisturbed'
  <2>1. Running(p)' /\ command'[p].at # "create"
    BY <1>0, <1>1 DEF Running
  <2> QED BY <1>0, <1>3, <2>1, StaysCalm DEF BookedOf
<1>7. CreditInv' /\ Alone(p)
  BY <1>0, <1>3, CreditStays DEF SmokeInv, Alone, vars
<1>8. Effects /\ SmokeTypes'
  BY <1>0, <1>3, NothingOwned DEF SmokeTypes, vars
<1> QED BY <1>4, <1>5, <1>6, <1>7, <1>8, AloneKeeps

\* A create request books an invoice, or what becomes of it is open.
LEMMA BookKeeps ==
    ASSUME SmokeInv, Remember, NEW p \in Commands,
           CreateInvoice(p) \/ CreateUnknown(p)
           \/ (Kill(p) /\ command[p].at = "create")
    PROVE  SmokeInv' /\ Effects
<1> DEFINE t == TagOf(p)
<1>1. command[p].at = "create" /\ Running(p)
  BY DEF CreateInvoice, CreateUnknown, Running
<1>2. t \in SmokeTags /\ t \in Tags /\ command[p] \in CommandRecs /\ CommandOK(p) /\ ReturnedOK(p)
      /\ owner[t] # NotOwned /\ issuer[p] = NoIssue
  BY <1>1, OwnTag DEF SmokeInv, CommandOK
<1>3. /\ UNCHANGED <<req, owner, returned>>
      /\ late' \in [SmokeTags -> Nat]
      /\ booked' = booked \/ \E i \in InvoicesWith[t] \ booked : booked' = booked \cup {i}
  <2>1. UNCHANGED <<req, owner, returned>>
    BY DEF CreateInvoice, CreateUnknown, Kill, IssuerStep, vars
  <2>2. UnderWay(t) \/ CreateInvoice(p)
    BY DEF CreateUnknown, Kill
  <2>3. ASSUME UnderWay(t) PROVE late' \in [SmokeTags -> Nat]
    BY <1>2, <2>3 DEF UnderWay, Provider, SmokeInv, SmokeTypes
  <2>4. ASSUME UnderWay(t)
        PROVE  booked' = booked \/ \E i \in InvoicesWith[t] \ booked : booked' = booked \cup {i}
    BY <2>4 DEF UnderWay, Provider, Book
  <2>5. ASSUME CreateInvoice(p)
        PROVE  late' = late /\ \E i \in InvoicesWith[t] \ booked : booked' = booked \cup {i}
    BY <2>5 DEF CreateInvoice
  <2> QED BY <2>1, <2>2, <2>3, <2>4, <2>5 DEF SmokeInv, SmokeTypes
<1>4. issuer' = issuer /\ CreditInv'
  <2>1. CASE Kill(p)
    <3>1. IssuerStep(p, NoIssue)
      BY <2>1 DEF Kill
    <3>2. CreditInv'
      BY <3>1, EndIssue DEF SmokeInv, Commands
    <3>3. issuer' = issuer
      BY <1>2, <3>1 DEF SmokeInv, CreditInv, TablesOK, IssuerStep, Commands
    <3> QED BY <3>2, <3>3
  <2>2. CASE CreateInvoice(p) \/ CreateUnknown(p)
    BY <2>2, CreditStays DEF SmokeInv, CreateInvoice, CreateUnknown, vars
  <2> QED BY <2>1, <2>2
<1>5. PICK next \in CommandRecs :
         /\ Become(p, next)
         /\ \/ next = NoCommand
            \/ next.n = command[p].n /\ next.at = "recheck"
            \/ next.n = command[p].n /\ next.at = "record" /\ next.invoice \in InvoicesWith[t] \cap booked'
  <2>1. CASE CreateInvoice(p)
    <3>1. PICK i \in InvoicesWith[t] \ booked :
             /\ booked' = booked \cup {i}
             /\ Become(p, [command[p] EXCEPT !.at = "record", !.invoice = i])
      BY <2>1 DEF CreateInvoice
    <3> DEFINE next == [command[p] EXCEPT !.at = "record", !.invoice = i]
    <3>2. i \in InvoiceIds
      BY <1>2, InvoiceWithId
    <3>3. next \in CommandRecs /\ next.n = command[p].n /\ next.at = "record" /\ next.invoice = i
      BY <1>2, <3>2 DEF CommandRecs
    <3>4. Become(p, next) /\ i \in InvoicesWith[t] \cap booked'
      BY <3>1
    <3> HIDE DEF next
    <3> QED BY <3>3, <3>4
  <2>2. CASE CreateUnknown(p)
    <3> DEFINE next == [command[p] EXCEPT !.at = "recheck"]
    <3>1. next \in CommandRecs /\ next.n = command[p].n /\ next.at = "recheck"
      BY <1>2 DEF CommandRecs
    <3>2. Become(p, next)
      BY <2>2 DEF CreateUnknown, Goto
    <3> HIDE DEF next
    <3> QED BY <3>1, <3>2
  <2>3. CASE Kill(p)
    BY <2>3, Idle DEF Kill, Exit
  <2> QED BY <2>1, <2>2, <2>3
<1>6. command' \in [Commands -> CommandRecs] /\ command'[p] = next
      /\ \A q \in Commands \ {p} : command'[q] = command[q]
  BY <1>5, Becomes
<1>7. next = NoCommand \/ TagOf(p)' = t
  BY <1>5, <1>6 DEF TagOf
<1>8. CommandOK(p)'
  BY <1>1, <1>2, <1>3, <1>4, <1>5, <1>6, <1>7 DEF CommandOK, NoCommand, Running, BookedOf
<1>9. ReturnedOK(p)'
  BY <1>2, <1>3 DEF ReturnedOK, BookedOf
<1>10. Undisturbed'
  <2>1. command'[p].at # "create"
    BY <1>5, <1>6 DEF NoCommand
  <2>2. ASSUME NEW u \in SmokeTags PROVE
          \/ BookedOf(u)' = BookedOf(u)
          \/ u = t /\ \E i : BookedOf(u)' = BookedOf(u) \cup {i}
    <3>1. CASE u = t
      BY <1>3, <3>1 DEF BookedOf
    <3>2. CASE u # t
      <4>1. InvoicesWith[u] \cap InvoicesWith[t] = {}
        BY <1>2, <2>2, <3>2, OneTagAssumption DEF Tags
      <4> QED BY <1>3, <4>1 DEF BookedOf
    <3> QED BY <3>1, <3>2
  <2> QED BY <1>1, <1>3, <1>6, <2>1, <2>2, StaysCalm
<1>11. Alone(p) /\ SmokeTypes'
  BY <1>3, <1>4, <1>6 DEF Alone, SmokeInv, SmokeTypes
<1>12. Effects
  BY <1>3, NothingOwned
<1> QED BY <1>4, <1>8, <1>10, <1>9, <1>11, <1>12, AloneKeeps

-----------------------------------------------------------------------------
\* The transactions of a command.

LEMMA RegisterSmokeKeeps ==
    ASSUME SmokeInv, Remember, NEW p \in Commands, RegisterSmoke(p)
    PROVE  SmokeInv' /\ Effects
<1> DEFINE t == TagOf(p)
           next == [command[p] EXCEPT !.at = "lookup"]
<1>1. Running(p) /\ Become(p, next) /\ UNCHANGED <<booked, late, returned>>
  BY DEF RegisterSmoke, Running, Goto, Provider
<1>2. /\ t \in SmokeTags /\ t \in Tags /\ command[p] \in CommandRecs
      /\ CommandOK(p) /\ issuer[p] = NoIssue
  BY <1>1, OwnTag DEF CommandOK, RegisterSmoke
<1>3. next \in CommandRecs /\ next.at = "lookup" /\ next.n = command[p].n
  BY <1>2 DEF CommandRecs
<1> HIDE DEF next
<1>4. command' \in [Commands -> CommandRecs] /\ command'[p] = next
      /\ \A q \in Commands \ {p} : command'[q] = command[q]
  BY <1>1, <1>3, Becomes
<1>5. Effects /\ owner'[t] # NotOwned /\ UNCHANGED <<req, issuer>>
  <2>1. CASE Register(t)
    <3>1. owner[t] = NotOwned /\ owner' = [owner EXCEPT ![t] = Null] /\ UNCHANGED <<req, issuer>>
      BY <2>1 DEF Register
    <3>2. owner'[t] = Null /\ \A u \in Tags \ {t} : owner'[u] = owner[u]
      BY <1>2, <3>1 DEF SmokeInv, CreditInv, TablesOK
    <3> QED BY <1>1, <3>1, <3>2, CreditNullAssumption DEF Effects, Registered, Tags
  <2>2. CASE owner[t] # NotOwned /\ UNCHANGED vars
    BY <1>1, <2>2, NothingOwned DEF vars
  <2> QED BY <2>1, <2>2 DEF RegisterSmoke
<1>6. CreditInv'
  BY <1>2, RegisterKeeps, CreditStays DEF RegisterSmoke, SmokeInv
<1>7. CommandOK(p)'
  BY <1>1, <1>2, <1>3, <1>4, <1>5 DEF CommandOK, Running, TagOf
<1>8. ReturnedOK(p)' /\ SmokeTypes' /\ Alone(p)
  BY <1>1, <1>4, <1>5, ReturnedKeeps DEF SmokeInv, SmokeTypes, Alone
<1>9. Undisturbed'
  <2>1. late' \in [SmokeTags -> Nat]
    BY <1>1 DEF SmokeInv, SmokeTypes
  <2> QED BY <1>1, <1>3, <1>4, <2>1, StaysCalm DEF BookedOf
<1> QED BY <1>5, <1>6, <1>7, <1>8, <1>9, AloneKeeps

\* The invoice of the ordinal is booked, and bound to its tag.
LEMMA ReturnKeeps ==
    ASSUME SmokeInv, Remember, NEW p \in Commands, Return(p), Running(p), Effects, CreditInv',
           UNCHANGED <<req, booked, late>>,
           command[p].invoice \in BookedOf(TagOf(p)), owner'[TagOf(p)] = command[p].invoice,
           issuer'[p] = NoIssue, \A q \in Commands \ {p} : issuer'[q] = issuer[q]
    PROVE  SmokeInv' /\ Effects
<1> DEFINE c == command[p]
           t == TagOf(p)
           next == IF c.n = Len(Batch) THEN [NoCommand EXCEPT !.at = "done"]
                   ELSE [at |-> "register", n |-> c.n + 1, invoice |-> Null]
<1>1. /\ t \in SmokeTags /\ c \in CommandRecs /\ CommandOK(p) /\ returned[p] \in Seq(InvoiceIds)
      /\ c.n \in DOMAIN Batch /\ c.n \in Nat /\ Len(returned[p]) = c.n - 1 /\ Batch[c.n] = t
  BY OwnTag, BatchTags DEF CommandOK, TagOf
<1>2. next \in CommandRecs
  BY <1>1, Idle DEF CommandRecs
<1>3. command' \in [Commands -> CommandRecs] /\ command'[p] = next
      /\ \A q \in Commands \ {p} : command'[q] = command[q]
  BY <1>2, Becomes DEF Return
<1>4. /\ returned' \in [Commands -> Seq(InvoiceIds)]
      /\ returned'[p] = Append(returned[p], c.invoice)
      /\ \A q \in Commands \ {p} : returned'[q] = returned[q]
  <2>1. Append(returned[p], c.invoice) \in Seq(InvoiceIds)
    BY <1>1, BookedIds
  <2> QED BY <2>1 DEF Return, SmokeInv, SmokeTypes
<1>5. CommandOK(p)'
  <2>1. Len(returned'[p]) = c.n
    BY <1>1, <1>4
  <2>2. CASE c.n = Len(Batch)
    <3>1. next.at = "done"
      BY <2>2 DEF NoCommand
    <3> QED BY <1>3, <3>1 DEF CommandOK, Running
  <2>3. CASE c.n # Len(Batch)
    <3>1. next.at = "register" /\ next.n = c.n + 1
      BY <2>3
    <3>2. c.n + 1 \in DOMAIN Batch
      BY <1>1, <2>3, BatchAssumption
    <3> QED BY <1>1, <1>3, <2>1, <3>1, <3>2 DEF CommandOK, Running
  <2> QED BY <2>2, <2>3
<1>6. ReturnedOK(p)'
  <2> SUFFICES ASSUME NEW n \in DOMAIN returned'[p] PROVE
        /\ n \in DOMAIN Batch
        /\ returned'[p][n] \in BookedOf(Batch[n])'
    BY DEF ReturnedOK
  <2>1. CASE n = c.n
    <3>1. returned'[p][n] = c.invoice
      BY <1>1, <1>4, <2>1
    <3> QED BY <1>1, <2>1, <3>1 DEF BookedOf
  <2>2. CASE n # c.n
    <3>1. n \in DOMAIN returned[p] /\ returned'[p][n] = returned[p][n]
      BY <1>1, <1>4, <2>2
    <3>2. /\ n \in DOMAIN Batch /\ Batch[n] \in SmokeTags
          /\ returned[p][n] \in BookedOf(Batch[n])
      BY <3>1, BatchTags DEF SmokeInv, ReturnedOK
    <3> QED BY <3>1, <3>2, KeepsBooked
  <2> QED BY <2>1, <2>2
<1>7. SmokeTypes' /\ Alone(p)
  BY <1>3, <1>4 DEF SmokeInv, SmokeTypes, Alone
<1>8. Undisturbed'
  <2>1. command'[p].at # "create" /\ late' \in [SmokeTags -> Nat]
    BY <1>3 DEF NoCommand, SmokeInv, SmokeTypes
  <2> QED BY <1>3, <2>1, StaysCalm DEF BookedOf
<1> QED BY <1>5, <1>6, <1>7, <1>8, AloneKeeps

\* The command ends, or dies, and its transaction with it.
LEMMA ExitKeeps ==
    ASSUME SmokeInv, Remember, NEW p \in Commands, Running(p), Exit(p),
           IssuerStep(p, NoIssue), UNCHANGED <<booked, late, returned>>
    PROVE  SmokeInv' /\ Effects
<1>1. command' \in [Commands -> CommandRecs] /\ command'[p] = NoCommand
      /\ \A q \in Commands \ {p} : command'[q] = command[q]
  BY Becomes, Idle DEF Exit
<1>2. issuer'[p] = NoIssue /\ UNCHANGED <<req, owner>>
      /\ \A q \in Commands \ {p} : issuer'[q] = issuer[q]
  BY DEF IssuerStep, SmokeInv, CreditInv, TablesOK, Commands
<1>3. CreditInv'
  BY EndIssue DEF SmokeInv, Commands
<1>4. Effects
  BY <1>2, NothingOwned
<1>5. CommandOK(p)' /\ ReturnedOK(p)'
  BY <1>1, <1>2, <1>4, ReturnedKeeps DEF CommandOK, NoCommand, Running
<1>6. SmokeTypes' /\ Alone(p)
  BY <1>1, <1>2 DEF SmokeInv, SmokeTypes, Alone
<1>7. Undisturbed'
  <2>1. command'[p].at # "create" /\ late' \in [SmokeTags -> Nat]
    BY <1>1 DEF NoCommand, SmokeInv, SmokeTypes
  <2> QED BY <1>1, <2>1, StaysCalm DEF BookedOf
<1> QED BY <1>3, <1>4, <1>5, <1>6, <1>7, AloneKeeps

\* A transaction that goes on.
LEMMA IssueKeeps ==
    ASSUME SmokeInv, Remember, NEW p \in Commands, NEW c \in CommandRecs, NEW next,
           Running(p), command[p].at \in {"record", "bind"},
           c.at = "bind", c.n = command[p].n, c.invoice = command[p].invoice,
           command' = [command EXCEPT ![p] = c],
           next.tag = TagOf(p), next.invoice = c.invoice, IssuerStep(p, next), CreditInv',
           UNCHANGED <<booked, late, returned>>
    PROVE  SmokeInv' /\ Effects
<1>1. command' \in [Commands -> CommandRecs] /\ command'[p] = c
      /\ \A q \in Commands \ {p} : command'[q] = command[q]
  BY Becomes DEF Become
<1>2. issuer'[p] = next /\ UNCHANGED <<req, owner>>
      /\ \A q \in Commands \ {p} : issuer'[q] = issuer[q]
  BY DEF IssuerStep, SmokeInv, CreditInv, TablesOK, Commands
<1>3. CommandOK(p) /\ TagOf(p)' = TagOf(p)
  BY <1>1, OwnTag DEF TagOf
<1>4. Effects
  BY <1>2, NothingOwned
<1>5. CommandOK(p)' /\ ReturnedOK(p)'
  BY <1>1, <1>2, <1>3, <1>4, ReturnedKeeps DEF CommandOK, Running, BookedOf
<1>6. SmokeTypes' /\ Alone(p)
  BY <1>1, <1>2 DEF SmokeInv, SmokeTypes, Alone
<1>7. Undisturbed'
  <2>1. command'[p].at # "create" /\ late' \in [SmokeTags -> Nat]
    BY <1>1 DEF SmokeInv, SmokeTypes
  <2> QED BY <1>1, <2>1, StaysCalm DEF BookedOf
<1> QED BY <1>4, <1>5, <1>6, <1>7, AloneKeeps

LEMMA ReadOwnerKeeps ==
    ASSUME SmokeInv, Remember, NEW p \in Commands, ReadOwner(p)
    PROVE  SmokeInv' /\ Effects
<1> DEFINE t == TagOf(p)
           i == command[p].invoice
           next == [at |-> "owner", tag |-> t, invoice |-> i]
           c == [command[p] EXCEPT !.at = "bind"]
<1>1. command[p].at = "record" /\ Running(p) /\ UNCHANGED <<booked, late>>
  BY DEF ReadOwner, Running, Provider
<1>2. /\ t \in SmokeTags /\ t \in Tags /\ command[p] \in CommandRecs /\ CommandOK(p)
      /\ owner[t] # NotOwned /\ i \in BookedOf(t) /\ issuer[p] = NoIssue
  BY <1>1, OwnTag DEF CommandOK
<1>3. ASSUME Goto(p, "bind"), IssuerStep(p, next), UNCHANGED returned
      PROVE  SmokeInv' /\ Effects
  <2>1. CreditInv'
    BY <1>2, <1>3, BeginKeeps DEF SmokeInv, Commands, Registered, BookedOf
  <2>2. /\ c \in CommandRecs /\ c.at = "bind" /\ c.n = command[p].n /\ c.invoice = i
        /\ command' = [command EXCEPT ![p] = c]
    BY <1>2, <1>3 DEF CommandRecs, Goto, Become
  <2>3. next.tag = t /\ next.invoice = i
    OBVIOUS
  <2> HIDE DEF c, next
  <2> QED BY <1>1, <1>3, <2>1, <2>2, <2>3, IssueKeeps
<1>4. ASSUME owner[t] = i, Return(p), UNCHANGED vars PROVE SmokeInv' /\ Effects
  <2>1. CreditInv' /\ Effects
    BY <1>1, <1>4, CreditStays, NothingOwned DEF SmokeInv, vars
  <2> QED BY <1>1, <1>2, <1>4, <2>1, ReturnKeeps DEF vars
<1>5. ASSUME Exit(p), UNCHANGED <<vars, returned>> PROVE SmokeInv' /\ Effects
  <2>1. late' \in [SmokeTags -> Nat]
    BY <1>1 DEF SmokeInv, SmokeTypes
  <2> QED BY <1>1, <1>5, <2>1, Idle, QuietKeeps DEF Exit
<1> QED BY <1>3, <1>4, <1>5 DEF ReadOwner

LEMMA BindOwnerKeeps ==
    ASSUME SmokeInv, Remember, NEW p \in Commands, BindOwner(p)
    PROVE  SmokeInv' /\ Effects
<1> DEFINE t == TagOf(p)
           i == command[p].invoice
<1>1. command[p].at = "bind" /\ Running(p) /\ UNCHANGED <<booked, late>>
  BY DEF BindOwner, Running, Provider
<1>2. /\ t \in SmokeTags /\ t \in Tags /\ command[p] \in CommandRecs /\ CommandOK(p)
      /\ owner[t] # NotOwned /\ i \in BookedOf(t) /\ issuer[p].tag = t /\ issuer[p].invoice = i
      /\ issuer[p] \in IssuerRecs
  BY <1>1, OwnTag DEF CommandOK, SmokeInv, CreditInv, TablesOK, Commands
<1>3. ASSUME WriteOwner(p), UNCHANGED <<command, returned>> PROVE SmokeInv' /\ Effects
  <2> DEFINE next == [issuer[p] EXCEPT !.at = "commit"]
  <2>1. CreditInv'
    BY <1>3, WriteOwnerKeeps DEF SmokeInv, Commands
  <2>2. next.tag = t /\ next.invoice = i /\ IssuerStep(p, next)
    BY <1>2, <1>3 DEF WriteOwner, IssuerRecs
  <2>3. command' = [command EXCEPT ![p] = command[p]]
    BY <1>3 DEF SmokeInv, SmokeTypes
  <2> HIDE DEF next
  <2> QED BY <1>1, <1>2, <1>3, <2>1, <2>2, <2>3, IssueKeeps
<1>4. ASSUME WriteOwnerConflict(p), Exit(p), UNCHANGED returned PROVE SmokeInv' /\ Effects
  BY <1>1, <1>4, ExitKeeps DEF WriteOwnerConflict
<1>5. ASSUME CommitOwner(p), Return(p) PROVE SmokeInv' /\ Effects
  <2>1. CreditInv'
    BY <1>5, CommitOwnerKeeps DEF SmokeInv, Commands
  <2>2. /\ owner'[t] = i /\ \A u \in Tags \ {t} : owner'[u] = owner[u]
        /\ issuer'[p] = NoIssue /\ \A q \in Commands \ {p} : issuer'[q] = issuer[q]
        /\ UNCHANGED req
    BY <1>2, <1>5 DEF CommitOwner, SmokeInv, CreditInv, TablesOK, Commands
  <2>3. Effects
    <3>1. i # NotOwned
      BY <1>2, BookedIds, CreditNullAssumption
    <3> QED BY <1>1, <1>2, <2>2, <3>1 DEF Effects, Registered, Tags
  <2> QED BY <1>1, <1>2, <1>5, <2>1, <2>2, <2>3, ReturnKeeps
<1> QED BY <1>3, <1>4, <1>5 DEF BindOwner

LEMMA KillKeeps ==
    ASSUME SmokeInv, Remember, NEW p \in Commands, Kill(p)
    PROVE  SmokeInv' /\ Effects
<1>1. CASE command[p].at = "create"
  BY <1>1, BookKeeps
<1>2. CASE command[p].at # "create"
  BY <1>2, ExitKeeps DEF Kill, Provider
<1> QED BY <1>1, <1>2

-----------------------------------------------------------------------------
\* The provider and the web server.

\* A request that arrives late disturbs.
LEMMA ArriveKeeps ==
    ASSUME SmokeInv, Remember, NEW t \in SmokeTags, Arrive(t)
    PROVE  SmokeInv' /\ Effects
<1>1. /\ UNCHANGED <<vars, command, returned>> /\ booked \subseteq booked'
      /\ late[t] > 0 /\ late' \in [SmokeTags -> Nat]
  BY DEF Arrive, Book, SmokeInv, SmokeTypes
<1>2. Effects
  BY <1>1, NothingOwned DEF vars
<1>3. disturbed
  BY <1>1 DEF SmokeInv, Undisturbed
<1>4. Undisturbed'
  BY <1>3, Remembered DEF Undisturbed
<1>5. \A p \in Commands : CommandOK(p)' /\ ReturnedOK(p)'
  BY <1>1, <1>2, CommandKeeps DEF vars
<1>6. CreditInv' /\ SmokeTypes' /\ \A r \in Requests : RequestBooked(req[r])'
  BY <1>1, CreditStays DEF SmokeInv, SmokeTypes, RequestBooked, vars
<1> QED BY <1>2, <1>4, <1>5, <1>6, OwnersKeep DEF SmokeInv

\* A statement of a request other than COMMIT.
LEMMA StatementBooked ==
    ASSUME SmokeInv, NEW r \in Requests, Handle(r), ~Commit(r)
    PROVE  /\ UNCHANGED <<owner, issuer>>
           /\ \E next : req' = [req EXCEPT ![r] = next] /\ RequestBooked(next)
<1> DEFINE q == req[r]
<1>0. q \in RequestRecs /\ RequestOK(q) /\ RequestBooked(q)
  BY Monitored DEF SmokeInv
<1>1. ASSUME NEW next, Step(r, next), q.at # "idle", next.d = q.d, next.bound => q.bound,
             next.bound => next.tag = q.tag, next.at # "bind"
      PROVE  UNCHANGED <<owner, issuer>> /\ req' = [req EXCEPT ![r] = next] /\ RequestBooked(next)
  BY <1>0, <1>1 DEF Step, RequestBooked
<1>2. CASE InsertEvent(r)
  <2> DEFINE next == [q EXCEPT !.at = IF InitialOutcome(q.d) = "queued" THEN "own" ELSE "commit",
                               !.isNew = TRUE, !.outcome = InitialOutcome(q.d)]
  <2>1. next.d = q.d /\ next.bound = q.bound /\ next.tag = q.tag /\ next.at # "bind"
    BY <1>0 DEF RequestRecs
  <2>2. Step(r, next) /\ q.at # "idle"
    BY <1>2 DEF InsertEvent
  <2> HIDE DEF next
  <2> QED BY <1>1, <2>1, <2>2
<1>3. CASE InsertDuplicate(r) \/ Recover(r) \/ OwnNoId(r) \/ CheckJob(r)
  <2>1. PICK at \in {"recover", "commit", "own", "match", "mark", "job"} :
           Step(r, [q EXCEPT !.at = at]) /\ q.at # "idle"
    BY <1>3 DEF InsertDuplicate, Recover, OwnNoId, CheckJob
  <2> DEFINE next == [q EXCEPT !.at = at]
  <2>2. next.d = q.d /\ next.bound = q.bound /\ next.tag = q.tag /\ next.at # "bind"
    BY <1>0, <2>1 DEF RequestRecs
  <2> HIDE DEF next
  <2> QED BY <1>1, <2>1, <2>2 DEF next
<1>4. CASE OwnById(r)
  <2>1. PICK t \in OwnedById(q.d) : Step(r, [q EXCEPT !.at = "draft", !.tag = t])
    BY <1>4 DEF OwnById
  <2> DEFINE next == [q EXCEPT !.at = "draft", !.tag = t]
  <2>2. q.at = "own" /\ ~q.bound
    BY <1>0, <1>4 DEF OwnById, RequestOK
  <2>3. next.d = q.d /\ next.bound = q.bound /\ next.at # "bind"
    BY <1>0 DEF RequestRecs
  <2> HIDE DEF next
  <2> QED BY <1>1, <2>1, <2>2, <2>3 DEF next
<1>5. CASE OwnByTag(r)
  <2>1. PICK t \in OwnedByTag(q.d) : Step(r, [q EXCEPT !.at = "bind", !.tag = t])
    BY <1>5 DEF OwnByTag
  <2> DEFINE next == [q EXCEPT !.at = "bind", !.tag = t]
  <2>2. next.d = q.d /\ next.tag = t /\ t \in q.d.tags /\ q.at # "idle"
    BY <1>0, <1>5, <2>1 DEF RequestRecs, OwnByTag, OwnedByTag, Matches
  <2>3. RequestBooked(next)
    BY <1>0, <2>2 DEF RequestBooked
  <2> QED BY <2>1, <2>3 DEF Step
<1>6. CASE OwnNot(r) \/ BindConflict(r)
  <2> DEFINE next == [q EXCEPT !.at = "commit", !.tag = Null,
                               !.outcome = IF q.isNew THEN "invoice_unknown" ELSE Null]
  <2>1. q.at \in {"own", "match", "bind"} /\ Step(r, next)
    BY <1>6 DEF OwnNot, BindConflict, Disown
  <2>2. ~q.bound
    BY <1>0, <2>1 DEF RequestOK
  <2>3. next.d = q.d /\ next.bound = q.bound /\ next.at # "bind"
    BY <1>0 DEF RequestRecs
  <2> HIDE DEF next
  <2> QED BY <1>1, <2>1, <2>2, <2>3
<1>7. CASE Bind(r)
  <2>1. PICK bound \in BOOLEAN : \/ bound /\ Step(r, [q EXCEPT !.at = "draft", !.bound = TRUE])
                                 \/ ~bound /\ Step(r, [q EXCEPT !.at = "draft"])
    BY <1>7 DEF Bind
  <2>2. q.at = "bind" /\ q.tag \in q.d.tags /\ q.d.invoice \in booked
    BY <1>0, <1>7 DEF Bind, RequestBooked
  <2>3. ASSUME NEW next, Step(r, next), next.d = q.d, next.tag = q.tag
        PROVE  UNCHANGED <<owner, issuer>> /\ req' = [req EXCEPT ![r] = next] /\ RequestBooked(next)
    BY <2>2, <2>3 DEF Step, RequestBooked
  <2>4. CASE Step(r, [q EXCEPT !.at = "draft", !.bound = TRUE])
    <3> DEFINE next == [q EXCEPT !.at = "draft", !.bound = TRUE]
    <3>1. next.d = q.d /\ next.tag = q.tag
      BY <1>0 DEF RequestRecs
    <3> HIDE DEF next
    <3> QED BY <2>3, <2>4, <3>1 DEF next
  <2>5. CASE Step(r, [q EXCEPT !.at = "draft"])
    <3> DEFINE next == [q EXCEPT !.at = "draft"]
    <3>1. next.d = q.d /\ next.tag = q.tag
      BY <1>0 DEF RequestRecs
    <3> HIDE DEF next
    <3> QED BY <2>3, <2>5, <3>1 DEF next
  <2> QED BY <2>1, <2>4, <2>5
<1>8. CASE UpdateDraft(r) \/ InsertJob(r) \/ MarkDuplicate(r) \/ Promote(r)
  <2> DEFINE nexts == {[q EXCEPT !.at = "check", !.draft = q.tag \in TrialTags],
                       [q EXCEPT !.at = "mark"],
                       [q EXCEPT !.at = "promote", !.job = TRUE],
                       [q EXCEPT !.at = "commit", !.outcome = "duplicate_invoice"],
                       [q EXCEPT !.at = "commit", !.outcome = "queued"]}
  <2>1. PICK next \in nexts : Step(r, next) /\ q.at # "idle"
    BY <1>8 DEF UpdateDraft, InsertJob, MarkDuplicate, Promote, WriteOutcome
  <2>2. next.d = q.d /\ next.bound = q.bound /\ next.tag = q.tag /\ next.at # "bind"
    BY <1>0, <2>1 DEF RequestRecs
  <2> QED BY <1>1, <2>1, <2>2
<1> QED BY <1>2, <1>3, <1>4, <1>5, <1>6, <1>7, <1>8 DEF Handle

\* COMMIT writes an owner that is booked for its tag.
LEMMA CommitBooked ==
    ASSUME SmokeInv, NEW r \in Requests, Commit(r), booked' = booked
    PROVE  Effects /\ issuer' = issuer /\ req' = [req EXCEPT ![r] = NoRequest]
<1>1. issuer' = issuer /\ req' = [req EXCEPT ![r] = NoRequest]
      /\ owner' = IF req[r].bound THEN [owner EXCEPT ![req[r].tag] = req[r].d.invoice] ELSE owner
  BY DEF Commit
<1>2. CASE ~req[r].bound
  BY <1>1, <1>2, NothingOwned
<1>3. CASE req[r].bound
  <2> DEFINE t == req[r].tag
             i == req[r].d.invoice
  <2>1. /\ req[r].d \in Deliveries /\ i \in booked /\ t \in req[r].d.tags /\ t \in Tags
        /\ i \in InvoiceIds /\ i # NotOwned
    BY <1>3, Monitored, DeliveredId, CreditNullAssumption
       DEF SmokeInv, RequestBooked, RequestOK, Registered, Commit
  <2>2. t \in SmokeTags => i \in BookedOf(t)
    BY <2>1, OneTagAssumption DEF BookedOf
  <2>3. owner'[t] = i /\ \A u \in Tags \ {t} : owner'[u] = owner[u]
    BY <1>1, <1>3, <2>1 DEF SmokeInv, CreditInv, TablesOK
  <2> QED BY <1>1, <2>1, <2>2, <2>3 DEF Effects, Registered, Tags
<1> QED BY <1>1, <1>2, <1>3

LEMMA OthersKeep ==
    ASSUME SmokeInv, Remember, Others, UNCHANGED <<booked, late, command, returned, faults, kills>>
    PROVE  SmokeInv' /\ Effects
<1>1. CreditInv'
  BY CreditNext DEF SmokeInv, Others, Deliver, Next
<1>2. Effects /\ issuer' = issuer
      /\ \E r \in Requests : \E next : req' = [req EXCEPT ![r] = next] /\ RequestBooked(next)
  <2>0. RequestBooked(NoRequest)
    BY DEF RequestBooked, NoRequest
  <2>1. ASSUME NEW r \in Requests, Commit(r)
        PROVE  Effects /\ issuer' = issuer
               /\ \E next : req' = [req EXCEPT ![r] = next] /\ RequestBooked(next)
    BY <2>0, <2>1, CommitBooked
  <2>2. ASSUME NEW r \in Requests, Handle(r), ~Commit(r)
        PROVE  Effects /\ issuer' = issuer
               /\ \E next : req' = [req EXCEPT ![r] = next] /\ RequestBooked(next)
    BY <2>2, StatementBooked, NothingOwned
  <2>3. ASSUME NEW r \in Requests, Fail(r)
        PROVE  Effects /\ issuer' = issuer
               /\ \E next : req' = [req EXCEPT ![r] = next] /\ RequestBooked(next)
    BY <2>0, <2>3, NothingOwned DEF Fail, Rollback
  <2>4. ASSUME NEW r \in Requests, NEW d \in Deliveries, d.invoice \in booked, Receive(r, d)
        PROVE  Effects /\ issuer' = issuer
               /\ \E next : req' = [req EXCEPT ![r] = next] /\ RequestBooked(next)
    <3> DEFINE next == [NoRequest EXCEPT !.at = "insert", !.d = d]
    <3>1. RequestBooked(next)
      BY <2>4 DEF RequestBooked, NoRequest
    <3>2. req' = [req EXCEPT ![r] = next] /\ UNCHANGED <<owner, issuer>>
      BY <2>4 DEF Receive, Step
    <3> HIDE DEF next
    <3> QED BY <3>1, <3>2, NothingOwned
  <2> QED BY <2>1, <2>2, <2>3, <2>4 DEF Others, Deliver
<1>3. \A p \in Commands : CommandOK(p)' /\ ReturnedOK(p)'
  BY <1>2, CommandKeeps
<1>4. \A r \in Requests : RequestBooked(req[r])'
  <2>0. PICK r \in Requests : \E next : req' = [req EXCEPT ![r] = next] /\ RequestBooked(next)
    BY <1>2
  <2>1. PICK next : req' = [req EXCEPT ![r] = next] /\ RequestBooked(next)
    BY <2>0
  <2>2. req'[r] = next /\ \A q \in Requests \ {r} : req'[q] = req[q]
    BY <2>1 DEF SmokeInv, CreditInv, TablesOK
  <2> QED BY <2>1, <2>2 DEF SmokeInv, RequestBooked
<1>5. Undisturbed'
  BY Remembered DEF SmokeInv, Undisturbed, Duplicated, BookedOf, Running, TagOf
<1> QED BY <1>1, <1>2, <1>3, <1>4, <1>5, OwnersKeep DEF SmokeInv, SmokeTypes

-----------------------------------------------------------------------------
LEMMA SmokeStart == SmokeInit => SmokeInv
<1> SUFFICES ASSUME SmokeInit PROVE SmokeInv
  OBVIOUS
<1>1. CreditInv
  BY CreditInit DEF SmokeInit
<1>2. SmokeTypes
  BY Idle DEF SmokeInit, SmokeTypes
<1>3. \A p \in Commands : CommandOK(p) /\ ReturnedOK(p)
  BY DEF SmokeInit, Init, CommandOK, ReturnedOK, Running, NoCommand, Commands
<1>4. (\A r \in Requests : RequestBooked(req[r])) /\ \A t \in SmokeTags : OwnerBooked(t)
  BY DEF SmokeInit, Init, RequestBooked, NoRequest, OwnerBooked, Tags
<1>5. \A t \in SmokeTags : BookedOf(t) = {}
  BY OneTagAssumption, TagsAssumption DEF SmokeInit, BookedOf, Tags
<1>6. Undisturbed
  BY <1>5 DEF SmokeInit, Undisturbed, Duplicated, Running, NoCommand
<1> QED BY <1>1, <1>2, <1>3, <1>4, <1>6 DEF SmokeInv

LEMMA SmokeNextKeeps == SmokeInv /\ [SmokeNext]_allVars => SmokeInv' /\ Effects
<1> SUFFICES ASSUME SmokeInv, [SmokeNext]_allVars PROVE SmokeInv' /\ Effects
  OBVIOUS
<1>1. ASSUME NEW p \in Commands, StartCommand(p) \/ RunCommand(p), Remember
      PROVE  SmokeInv' /\ Effects
  BY <1>1, StartKeeps, RegisterSmokeKeeps, LookUpKeeps, BookKeeps, ReadOwnerKeeps, BindOwnerKeeps
     DEF RunCommand
<1>2. ASSUME NEW p \in Commands, CreateUnknown(p) \/ CallFails(p) \/ Kill(p), Remember
      PROVE  SmokeInv' /\ Effects
  BY <1>2, BookKeeps, LookUpKeeps, KillKeeps
<1>3. ASSUME NEW t \in SmokeTags, Arrive(t), Remember PROVE SmokeInv' /\ Effects
  BY <1>3, ArriveKeeps
<1>4. ASSUME UNCHANGED allVars PROVE SmokeInv' /\ Effects
  <2>1. /\ UNCHANGED vars /\ booked' = booked /\ late' = late /\ command' = command
        /\ returned' = returned /\ disturbed' = disturbed
    BY <1>4 DEF allVars, smokeVars
  <2>2. Effects /\ CreditInv'
    BY <2>1, NothingOwned, CreditStays DEF SmokeInv, vars
  <2>3. \A p \in Commands : CommandOK(p)' /\ ReturnedOK(p)'
    BY <2>1, <2>2, CommandKeeps DEF vars
  <2>4. Undisturbed'
    BY <2>1 DEF SmokeInv, Undisturbed, Duplicated, BookedOf, Running, TagOf
  <2> QED BY <2>1, <2>2, <2>3, <2>4, OwnersKeep DEF SmokeInv, SmokeTypes, RequestBooked, vars
<1> QED BY <1>1, <1>2, <1>3, <1>4, OthersKeep DEF SmokeNext

\* What a command knows is true, whatever the others do.
THEOREM SmokeInvHolds == SmokeSpec => []SmokeInv
BY SmokeStart, SmokeNextKeeps, PTL DEF SmokeSpec

-----------------------------------------------------------------------------
\* Commands that are run again book no second invoice, unless two overlap or a
\* request is late.
THEOREM NoSecondInvoice == SmokeSpec => []RetryReuses
<1>1. SmokeInv => RetryReuses
  BY DEF SmokeInv, Undisturbed, RetryReuses
<1> QED BY <1>1, SmokeInvHolds, PTL

-----------------------------------------------------------------------------
\* Who changes an owner that has an invoice.

\* A request holds the row of the owner from its UPDATE, which found NULL, to COMMIT.
BoundFree == \A r \in Requests : req[r].bound /\ req[r].tag \in SmokeTags => owner[req[r].tag] = Null

LEMMA BoundFreeStart == SmokeInit => BoundFree
BY DEF SmokeInit, Init, NoRequest, BoundFree

\* What a step does to the owners: it registers a tag, commits the provider id that a
\* request or a command has written, or leaves them alone.
LEMMA OwnerSteps ==
    ASSUME SmokeInv, [SmokeNext]_allVars
    PROVE  \/ owner' = owner
           \/ \E t \in SmokeTags : owner[t] = NotOwned /\ owner' = [owner EXCEPT ![t] = Null]
                                   /\ req' = req
           \/ \E p \in Commands : /\ TagOf(p) \in SmokeTags /\ Binding(p, TagOf(p))
                                  /\ issuer[p].at = "commit" /\ issuer[p].tag = TagOf(p)
                                  /\ owner' = [owner EXCEPT ![TagOf(p)] = command[p].invoice]
                                  /\ req' = req
           \/ \E r \in Requests : /\ Commit(r) /\ req[r].bound
                                  /\ owner' = [owner EXCEPT ![req[r].tag] = req[r].d.invoice]
<1>1. ASSUME NEW p \in Commands, RegisterSmoke(p)
      PROVE  owner' = owner
             \/ \E t \in SmokeTags : owner[t] = NotOwned /\ owner' = [owner EXCEPT ![t] = Null]
                                     /\ req' = req
  <2>1. TagOf(p) \in SmokeTags
    BY <1>1, OwnTag DEF RegisterSmoke, Running
  <2> QED BY <1>1, <2>1 DEF RegisterSmoke, Register, vars
<1>2. ASSUME NEW p \in Commands, BindOwner(p), owner' # owner
      PROVE  /\ TagOf(p) \in SmokeTags /\ Binding(p, TagOf(p))
             /\ issuer[p].at = "commit" /\ issuer[p].tag = TagOf(p)
             /\ owner' = [owner EXCEPT ![TagOf(p)] = command[p].invoice] /\ req' = req
  <2>1. TagOf(p) \in SmokeTags /\ CommandOK(p) /\ command[p].at = "bind"
    BY <1>2, OwnTag DEF BindOwner, Running
  <2>2. CommitOwner(p)
    BY <1>2 DEF BindOwner, WriteOwner, WriteOwnerConflict, IssuerStep
  <2> QED BY <2>1, <2>2 DEF CommandOK, CommitOwner, Binding
<1>3. ASSUME NEW p \in Commands,
             StartCommand(p) \/ LookUp(p) \/ CreateInvoice(p) \/ ReadOwner(p)
             \/ CreateUnknown(p) \/ CallFails(p) \/ Kill(p)
      PROVE  owner' = owner
  BY <1>3 DEF StartCommand, LookUp, CreateInvoice, ReadOwner, CreateUnknown, CallFails, Kill,
              IssuerStep, vars
<1>4. ASSUME NEW t \in SmokeTags, Arrive(t) PROVE owner' = owner
  BY <1>4 DEF Arrive, vars
<1>5. ASSUME Others
      PROVE  owner' = owner \/ \E r \in Requests : /\ Commit(r) /\ req[r].bound
                                  /\ owner' = [owner EXCEPT ![req[r].tag] = req[r].d.invoice]
  <2>1. ASSUME NEW r \in Requests, Handle(r), ~Commit(r) PROVE owner' = owner
    BY <2>1, StatementBooked
  <2>2. ASSUME NEW r \in Requests, Fail(r) PROVE owner' = owner
    BY <2>2 DEF Fail, Rollback
  <2>3. ASSUME NEW d \in Deliveries, Deliver(d) PROVE owner' = owner
    BY <2>3 DEF Deliver, Receive, Step
  <2>4. ASSUME NEW r \in Requests, Commit(r), owner' # owner
        PROVE  req[r].bound /\ owner' = [owner EXCEPT ![req[r].tag] = req[r].d.invoice]
    BY <2>4 DEF Commit
  <2> QED BY <1>5, <2>1, <2>2, <2>3, <2>4 DEF Others
<1>6. CASE UNCHANGED allVars
  BY <1>6 DEF allVars, vars
<1> QED BY <1>1, <1>2, <1>3, <1>4, <1>5, <1>6 DEF SmokeNext, RunCommand

\* Of a tag that has an invoice, only a command in the middle of binding it changes it.
LEMMA OwnerStays ==
    ASSUME SmokeInv, BoundFree, [SmokeNext]_allVars, NEW t \in SmokeTags, Final(t)
    PROVE  owner'[t] = owner[t]
<1>1. owner \in [Tags -> InvoiceIds \cup {Null, NotOwned}] /\ t \in Tags
  BY DEF SmokeInv, CreditInv, TablesOK, Tags
<1>2. ASSUME NEW u \in SmokeTags, owner[u] = NotOwned, owner' = [owner EXCEPT ![u] = Null]
      PROVE  owner'[t] = owner[t]
  BY <1>1, <1>2 DEF Final
<1>3. ASSUME NEW p \in Commands, Binding(p, TagOf(p)),
             owner' = [owner EXCEPT ![TagOf(p)] = command[p].invoice]
      PROVE  owner'[t] = owner[t]
  BY <1>1, <1>3 DEF Final
<1>4. ASSUME NEW r \in Requests, req[r].bound,
             owner' = [owner EXCEPT ![req[r].tag] = req[r].d.invoice]
      PROVE  owner'[t] = owner[t]
  BY <1>1, <1>4 DEF Final, BoundFree
<1> QED BY <1>2, <1>3, <1>4, OwnerSteps

\* A command comes to bind a tag only when it reads that the tag has no invoice.
LEMMA NobodyBegins ==
    ASSUME SmokeInv, [SmokeNext]_allVars, NEW t \in SmokeTags, Final(t), NEW q \in Commands
    PROVE  ~Binding(q, t)'
<1> SUFFICES ASSUME Binding(q, t)' PROVE FALSE
  OBVIOUS
<1>0. command \in [Commands -> CommandRecs] /\ ~Binding(q, t)
  BY DEF SmokeInv, SmokeTypes, Final
<1>1. command'[q] # command[q] /\ command'[q].at = "bind"
  BY <1>0 DEF Binding, TagOf
<1>2. ASSUME NEW p \in Commands, NEW next, Become(p, next)
      PROVE  p = q /\ next = command'[q]
  BY <1>0, <1>1, <1>2 DEF Become
<1>3. ASSUME NEW p \in Commands, NEW next \in {NoCommand, [NoCommand EXCEPT !.at = "register"]}
      PROVE  ~Become(p, next)
  BY <1>1, <1>2, <1>3 DEF NoCommand
<1>4. ASSUME NEW p \in Commands, Return(p) PROVE FALSE
  <2>1. PICK next \in {[NoCommand EXCEPT !.at = "done"],
                       [at |-> "register", n |-> command[p].n + 1, invoice |-> Null]} :
           Become(p, next)
    BY <1>4 DEF Return
  <2>2. next.at # "bind"
    BY DEF NoCommand
  <2> QED BY <1>1, <1>2, <2>1, <2>2
<1>5. ASSUME NEW p \in Commands, NEW at \in {"lookup", "create", "recheck"}, Goto(p, at) PROVE FALSE
  <2>1. [command[p] EXCEPT !.at = at].at = at
    BY <1>0 DEF CommandRecs
  <2> QED BY <1>1, <1>2, <1>5, <2>1 DEF Goto
<1>6. ASSUME NEW p \in Commands, NEW i,
             Become(p, [command[p] EXCEPT !.at = "record", !.invoice = i])
      PROVE  FALSE
  <2>1. [command[p] EXCEPT !.at = "record", !.invoice = i].at = "record"
    BY <1>0 DEF CommandRecs
  <2> QED BY <1>1, <1>2, <1>6, <2>1
<1>7. ASSUME NEW p \in Commands, ReadOwner(p) PROVE FALSE
  <2>1. owner[TagOf(p)] = Null /\ Goto(p, "bind")
    BY <1>3, <1>4, <1>7 DEF ReadOwner, Exit
  <2>2. p = q /\ command'[q] = [command[p] EXCEPT !.at = "bind"]
    BY <1>2, <2>1 DEF Goto
  <2>3. TagOf(q)' = TagOf(p)
    BY <1>0, <2>2 DEF TagOf, CommandRecs
  <2> QED BY <2>1, <2>3 DEF Binding, Final
<1>8. ASSUME NEW p \in Commands,
             StartCommand(p) \/ RegisterSmoke(p) \/ LookUp(p) \/ CreateInvoice(p) \/ BindOwner(p)
             \/ CreateUnknown(p) \/ CallFails(p) \/ Kill(p)
      PROVE  FALSE
  <2>1. ~StartCommand(p) /\ ~CallFails(p) /\ ~Kill(p)
    BY <1>3 DEF StartCommand, CallFails, Kill, Exit
  <2>2. ~RegisterSmoke(p) /\ ~CreateUnknown(p)
    BY <1>5 DEF RegisterSmoke, CreateUnknown
  <2>3. ~LookUp(p) /\ ~CreateInvoice(p)
    BY <1>3, <1>5, <1>6 DEF LookUp, CreateInvoice, Exit
  <2>4. ~BindOwner(p)
    BY <1>1, <1>3, <1>4 DEF BindOwner, Exit
  <2> QED BY <1>8, <2>1, <2>2, <2>3, <2>4
<1> QED BY <1>1, <1>7, <1>8 DEF SmokeNext, RunCommand, Arrive, allVars, smokeVars

LEMMA FinalStays ==
    ASSUME SmokeInv, BoundFree, [SmokeNext]_allVars
    PROVE  KeepsBinding
<1> SUFFICES ASSUME NEW t \in SmokeTags, Final(t) PROVE owner'[t] = owner[t] /\ Final(t)'
  BY DEF KeepsBinding
<1>1. owner'[t] = owner[t]
  BY OwnerStays
<1>2. \A q \in Commands : ~Binding(q, t)'
  BY NobodyBegins
<1> QED BY <1>1, <1>2 DEF Final

\* A request that holds the row of an owner has held it before, or has found it NULL.
LEMMA HoldsOwner ==
    ASSUME SmokeInv, NEW r \in Requests, Handle(r), ~Commit(r), req'[r].bound
    PROVE  \/ req[r].bound /\ req'[r].tag = req[r].tag
           \/ owner[req'[r].tag] = Null
<1> DEFINE q == req[r]
<1>0. q \in RequestRecs /\ RequestOK(q) /\ req \in [Requests -> RequestRecs]
  BY Monitored DEF SmokeInv, CreditInv, TablesOK
<1>1. ASSUME NEW next, Step(r, next) PROVE req'[r] = next
  BY <1>0, <1>1 DEF Step
<1>2. CASE Bind(r)
  <2> DEFINE next == [q EXCEPT !.at = "draft", !.bound = TRUE]
  <2>1. CASE owner[q.tag] = Null /\ Step(r, next)
    <3>1. next.tag = q.tag
      BY <1>0 DEF RequestRecs
    <3> HIDE DEF next
    <3> QED BY <1>1, <2>1, <3>1
  <2>2. CASE Step(r, [q EXCEPT !.at = "draft"])
    <3>1. [q EXCEPT !.at = "draft"].bound = q.bound /\ [q EXCEPT !.at = "draft"].tag = q.tag
      BY <1>0 DEF RequestRecs
    <3> QED BY <1>1, <2>2, <3>1
  <2> QED BY <1>2, <2>1, <2>2 DEF Bind
<1>3. CASE InsertEvent(r)
  <2> DEFINE next == [q EXCEPT !.at = IF InitialOutcome(q.d) = "queued" THEN "own" ELSE "commit",
                               !.isNew = TRUE, !.outcome = InitialOutcome(q.d)]
  <2>1. next.bound = q.bound /\ next.tag = q.tag
    BY <1>0 DEF RequestRecs
  <2>2. Step(r, next)
    BY <1>3 DEF InsertEvent
  <2> HIDE DEF next
  <2> QED BY <1>1, <2>1, <2>2
<1>4. CASE InsertDuplicate(r) \/ Recover(r) \/ OwnNoId(r) \/ CheckJob(r)
  <2>1. PICK at \in {"recover", "commit", "own", "match", "mark", "job"} :
           Step(r, [q EXCEPT !.at = at])
    BY <1>4 DEF InsertDuplicate, Recover, OwnNoId, CheckJob
  <2> DEFINE next == [q EXCEPT !.at = at]
  <2>2. next.bound = q.bound /\ next.tag = q.tag
    BY <1>0, <2>1 DEF RequestRecs
  <2> HIDE DEF next
  <2> QED BY <1>1, <2>1, <2>2 DEF next
<1>5. CASE OwnById(r) \/ OwnByTag(r) \/ OwnNot(r) \/ BindConflict(r)
  <2>1. ~q.bound
    BY <1>0, <1>5 DEF OwnById, OwnByTag, OwnNot, BindConflict, RequestOK
  <2>2. PICK t \in Tags \cup {Null} :
           \E next \in {[q EXCEPT !.at = "draft", !.tag = t], [q EXCEPT !.at = "bind", !.tag = t],
                        [q EXCEPT !.at = "commit", !.tag = t,
                                  !.outcome = IF q.isNew THEN "invoice_unknown" ELSE Null]} :
              Step(r, next)
    BY <1>5 DEF OwnById, OwnByTag, OwnNot, BindConflict, Disown, OwnedById, OwnedByTag, OwnersOf,
                Matches, Registered
  <2>3. PICK next : Step(r, next) /\ next.bound = q.bound
    BY <1>0, <2>2 DEF RequestRecs
  <2> QED BY <1>1, <2>1, <2>3
<1>6. CASE UpdateDraft(r) \/ InsertJob(r) \/ MarkDuplicate(r) \/ Promote(r)
  <2> DEFINE nexts == {[q EXCEPT !.at = "check", !.draft = q.tag \in TrialTags],
                       [q EXCEPT !.at = "mark"],
                       [q EXCEPT !.at = "promote", !.job = TRUE],
                       [q EXCEPT !.at = "commit", !.outcome = "duplicate_invoice"],
                       [q EXCEPT !.at = "commit", !.outcome = "queued"]}
  <2>1. PICK next \in nexts : Step(r, next)
    BY <1>6 DEF UpdateDraft, InsertJob, MarkDuplicate, Promote, WriteOutcome
  <2>2. next.bound = q.bound /\ next.tag = q.tag
    BY <1>0, <2>1 DEF RequestRecs
  <2> QED BY <1>1, <2>1, <2>2
<1> QED BY <1>2, <1>3, <1>4, <1>5, <1>6 DEF Handle

\* Two transactions do not hold the row of one owner.
LEMMA BoundFreeNext == SmokeInv /\ BoundFree /\ [SmokeNext]_allVars => BoundFree'
<1> SUFFICES ASSUME SmokeInv, BoundFree, [SmokeNext]_allVars,
                    NEW r \in Requests, req'[r].bound, req'[r].tag \in SmokeTags
             PROVE  owner'[req'[r].tag] = Null
  BY DEF BoundFree
<1> DEFINE t == req'[r].tag
<1>0. /\ owner \in [Tags -> InvoiceIds \cup {Null, NotOwned}] /\ t \in Tags
      /\ req \in [Requests -> RequestRecs] /\ Null # NotOwned
  BY CreditNullAssumption DEF SmokeInv, CreditInv, TablesOK, Tags
<1>1. ASSUME req'[r] = req[r] PROVE owner[t] = Null /\ owner'[t] = Null
  <2>1. owner[t] = Null /\ req[r].bound /\ req[r].tag = t
    BY <1>1 DEF BoundFree
  <2>2. ASSUME NEW u \in SmokeTags, owner[u] = NotOwned, owner' = [owner EXCEPT ![u] = Null]
        PROVE  owner'[t] = Null
    BY <1>0, <2>1, <2>2
  <2>3. ASSUME NEW p \in Commands, issuer[p].at = "commit",
               owner' = [owner EXCEPT ![issuer[p].tag] = command[p].invoice]
        PROVE  owner'[t] = Null
    <3>1. ApartFrom(req[r], issuer[p])
      BY DEF SmokeInv, CreditInv, Commands
    <3>2. issuer[p].tag # t
      BY <2>1, <2>3, <3>1 DEF ApartFrom
    <3> QED BY <1>0, <2>1, <2>3, <3>2
  <2>4. ASSUME NEW s \in Requests, Commit(s), req[s].bound,
               owner' = [owner EXCEPT ![req[s].tag] = req[s].d.invoice]
        PROVE  owner'[t] = Null
    <3>1. CASE s = r
      <4>1. req'[r] = NoRequest
        BY <1>0, <2>4, <3>1 DEF Commit
      <4> QED BY <4>1 DEF NoRequest
    <3>2. CASE s # r
      <4>1. Apart(req[s], req[r])
        BY <3>2 DEF SmokeInv, CreditInv
      <4>2. req[s].tag # t
        BY <2>1, <2>4, <4>1 DEF Apart
      <4> QED BY <1>0, <2>1, <4>2, <2>4
    <3> QED BY <3>1, <3>2
  <2> QED BY <2>1, <2>2, <2>3, <2>4, OwnerSteps
<1>2. CASE req'[r] # req[r]
  <2>1. Others
    <3>1. ASSUME NEW p \in Commands,
                 StartCommand(p) \/ RunCommand(p) \/ CreateUnknown(p) \/ CallFails(p) \/ Kill(p)
          PROVE  req' = req
      BY <3>1 DEF StartCommand, RunCommand, RegisterSmoke, Register, LookUp, CreateInvoice, ReadOwner,
                  BindOwner, WriteOwner, WriteOwnerConflict, CommitOwner, CreateUnknown, CallFails,
                  Kill, IssuerStep, vars
    <3>2. ASSUME NEW u \in SmokeTags, Arrive(u) PROVE req' = req
      BY <3>2 DEF Arrive, vars
    <3> QED BY <1>2, <3>1, <3>2 DEF SmokeNext, allVars, vars
  <2>2. ASSUME NEW s \in Requests, Handle(s), ~Commit(s) PROVE owner'[t] = Null
    <3>1. owner' = owner /\ \E next : req' = [req EXCEPT ![s] = next]
      BY <2>2, StatementBooked
    <3>2. s = r
      BY <1>0, <1>2, <3>1
    <3>3. (req[r].bound /\ t = req[r].tag) \/ owner[t] = Null
      BY <2>2, <3>2, HoldsOwner
    <3> QED BY <3>1, <3>3 DEF BoundFree
  <2>3. ASSUME NEW s \in Requests, Commit(s) \/ Fail(s) PROVE FALSE
    <3>1. req' = [req EXCEPT ![s] = NoRequest]
      BY <2>3 DEF Commit, Fail, Rollback
    <3> QED BY <1>0, <1>2, <3>1 DEF NoRequest
  <2>4. ASSUME NEW d \in Deliveries, Deliver(d) PROVE FALSE
    <3>1. PICK s \in Requests : req' = [req EXCEPT ![s] = [NoRequest EXCEPT !.at = "insert", !.d = d]]
      BY <2>4 DEF Deliver, Receive, Step
    <3> QED BY <1>0, <1>2, <3>1 DEF NoRequest
  <2> QED BY <2>1, <2>2, <2>3, <2>4 DEF Others
<1> QED BY <1>1, <1>2

-----------------------------------------------------------------------------
\* What a command returns stays bound, unless another one is in the middle of binding.

PrintedOK == \A p \in Commands : \A n \in DOMAIN returned[p] :
    \/ Batch[n] \in contested
    \/ Final(Batch[n]) /\ owner[Batch[n]] = returned[p][n]

\* A step leaves what a command has returned as it is, forgets it, or adds an invoice
\* that is bound by now.
LEMMA ReturnSteps ==
    ASSUME SmokeInv, SmokeNext, NEW p \in Commands
    PROVE  \/ returned'[p] = returned[p]
           \/ returned'[p] = <<>>
           \/ /\ Return(p) /\ command[p].at \in {"record", "bind"}
              /\ owner'[TagOf(p)] = command[p].invoice
<1>0. returned \in [Commands -> Seq(InvoiceIds)]
  BY DEF SmokeInv, SmokeTypes
<1>1. ASSUME NEW q \in Commands, StartCommand(q)
      PROVE  returned'[p] = returned[p] \/ returned'[p] = <<>>
  BY <1>0, <1>1 DEF StartCommand
<1>2. ASSUME NEW q \in Commands, Return(q), q # p PROVE returned'[p] = returned[p]
  BY <1>0, <1>2 DEF Return
<1>3. ASSUME NEW q \in Commands, ReadOwner(q)
      PROVE  \/ returned'[p] = returned[p]
             \/ /\ Return(p) /\ command[p].at \in {"record", "bind"}
                /\ owner'[TagOf(p)] = command[p].invoice
  BY <1>2, <1>3 DEF ReadOwner, vars
<1>4. ASSUME NEW q \in Commands, BindOwner(q)
      PROVE  \/ returned'[p] = returned[p]
             \/ /\ Return(p) /\ command[p].at \in {"record", "bind"}
                /\ owner'[TagOf(p)] = command[p].invoice
  <2>1. CASE CommitOwner(q) /\ Return(q) /\ q = p
    <3>1. CommandOK(p) /\ command[p].at = "bind" /\ TagOf(p) \in Tags
      BY <1>4, <2>1, OwnTag DEF BindOwner, Running
    <3>2. owner'[TagOf(p)] = command[p].invoice
      BY <2>1, <3>1 DEF CommandOK, CommitOwner, SmokeInv, CreditInv, TablesOK
    <3> QED BY <2>1, <3>1, <3>2
  <2> QED BY <1>2, <1>4, <2>1 DEF BindOwner
<1>5. ASSUME NEW q \in Commands,
             RegisterSmoke(q) \/ LookUp(q) \/ CreateInvoice(q) \/ CreateUnknown(q) \/ CallFails(q)
             \/ Kill(q)
      PROVE  returned' = returned
  BY <1>5 DEF RegisterSmoke, LookUp, CreateInvoice, CreateUnknown, CallFails, Kill
<1>6. ASSUME NEW t \in SmokeTags, Arrive(t) PROVE returned' = returned
  BY <1>6 DEF Arrive
<1> QED BY <1>1, <1>3, <1>4, <1>5, <1>6 DEF SmokeNext, RunCommand

LEMMA PrintedNext ==
    SmokeInv /\ SmokeInv' /\ BoundFree /\ PrintedOK /\ [SmokeNext]_allVars => PrintedOK'
<1> SUFFICES ASSUME SmokeInv, SmokeInv', BoundFree, PrintedOK, [SmokeNext]_allVars,
                    NEW p \in Commands, NEW n \in DOMAIN returned'[p]
             PROVE  \/ Batch[n] \in contested'
                    \/ Final(Batch[n])' /\ owner'[Batch[n]] = returned'[p][n]
  BY DEF PrintedOK
<1>0. Batch[n] \in SmokeTags /\ contested \subseteq contested'
  BY BatchTags DEF SmokeInv, ReturnedOK, SmokeNext, Remember, allVars, smokeVars
<1>1. ASSUME n \in DOMAIN returned[p], returned'[p][n] = returned[p][n]
      PROVE  \/ Batch[n] \in contested'
             \/ Final(Batch[n])' /\ owner'[Batch[n]] = returned'[p][n]
  BY <1>0, <1>1, FinalStays DEF PrintedOK, KeepsBinding
<1>2. CASE UNCHANGED allVars
  BY <1>1, <1>2 DEF allVars, smokeVars
<1>3. CASE SmokeNext /\ (returned'[p] = returned[p] \/ returned'[p] = <<>>)
  BY <1>1, <1>3
<1>4. ASSUME SmokeNext, Return(p), command[p].at \in {"record", "bind"},
             owner'[TagOf(p)] = command[p].invoice
      PROVE  \/ Batch[n] \in contested'
             \/ Final(Batch[n])' /\ owner'[Batch[n]] = returned'[p][n]
  <2>0. PICK t \in SmokeTags : t = TagOf(p)
    BY <1>4, OwnTag DEF Running
  <2> DEFINE c == command[p]
  <2>1. /\ c \in CommandRecs /\ CommandOK(p) /\ returned[p] \in Seq(InvoiceIds)
        /\ c.n \in DOMAIN Batch /\ c.n \in Nat /\ Len(returned[p]) = c.n - 1 /\ Batch[c.n] = t
        /\ c.invoice \in BookedOf(t) /\ c.invoice \in InvoiceIds
    BY <1>4, <2>0, OwnTag, BatchTags, BookedIds DEF CommandOK, TagOf, Running
  <2>2. returned'[p] = Append(returned[p], c.invoice)
    BY <1>4 DEF Return, SmokeInv, SmokeTypes
  <2>3. CASE n # c.n
    <3>1. n \in DOMAIN returned[p] /\ returned'[p][n] = returned[p][n]
      BY <2>1, <2>2, <2>3
    <3> QED BY <1>1, <3>1
  <2>4. CASE n = c.n
    <3>1. Batch[n] = t /\ returned'[p][n] = c.invoice
      BY <2>1, <2>2, <2>4
    <3>2. Returns(p)
      BY <2>1, <2>2 DEF Returns
    <3>3. CASE \E q \in Commands \ {p} : Binding(q, t)
      BY <1>4, <2>0, <3>1, <3>2, <3>3 DEF SmokeNext, Remember
    <3>4. CASE ~\E q \in Commands \ {p} : Binding(q, t)
      <4>1. command'[p].at # "bind" /\ \A q \in Commands \ {p} : command'[q] = command[q]
        <5>1. PICK next \in {[NoCommand EXCEPT !.at = "done"],
                             [at |-> "register", n |-> c.n + 1, invoice |-> Null]} : Become(p, next)
          BY <1>4 DEF Return
        <5>2. next.at # "bind"
          BY DEF NoCommand
        <5> QED BY <5>1, <5>2 DEF Become, SmokeInv, SmokeTypes
      <4>2. \A q \in Commands : ~Binding(q, t)'
        BY <3>4, <4>1 DEF Binding, TagOf
      <4>3. owner'[t] \notin {Null, NotOwned}
        BY <1>4, <2>0, <2>1, CreditNullAssumption
      <4> QED BY <1>4, <2>0, <3>1, <4>2, <4>3 DEF Final
    <3> QED BY <3>3, <3>4
  <2> QED BY <2>3, <2>4
<1> QED BY <1>2, <1>3, <1>4, ReturnSteps

LEMMA PrintedStart == SmokeInit => PrintedOK
BY DEF SmokeInit, PrintedOK

\* What a command returns is booked and bound to its tag, whatever else the provider
\* books for it, late or for another command, and whoever binds it beside the command:
\* unless another command had read NULL and was still in its transaction
\* (bind_provider_invoice).
THEOREM PrintedIsBound == SmokeSpec => []ReturnedIsBound
<1>1. SmokeInv /\ PrintedOK => ReturnedIsBound
  BY DEF SmokeInv, ReturnedOK, PrintedOK, ReturnedIsBound
<1> QED BY <1>1, SmokeInvHolds, BoundFreeStart, BoundFreeNext, PrintedStart, PrintedNext, PTL
        DEF SmokeSpec

\* Once no command is between its SELECT and its COMMIT, the binding of a tag is the last
\* one, for any number of invoices, commands and requests.
THEOREM BindingStays == SmokeSpec => BindingIsKept
<1>1. SmokeInv /\ BoundFree /\ [SmokeNext]_allVars => [KeepsBinding]_allVars
  BY FinalStays
<1> QED BY <1>1, SmokeInvHolds, BoundFreeStart, BoundFreeNext, PTL DEF SmokeSpec, BindingIsKept

=============================================================================
