----------------------------- MODULE CreditInbox -----------------------------
(***************************************************************************)
(* What the webhook promises, without requests, transactions or owners: a  *)
(* verdict on each event, given once.  Only an event whose invoice was     *)
(* unknown can still be accepted later.  The event that is accepted first  *)
(* for an invoice queues its credit in the same step; all others find it   *)
(* queued, and it stays so.  CreditEvents implements this module.          *)
(***************************************************************************)
CONSTANTS EventIds,
          Credits    \* payable credits that may be queued: [event, invoice]

VARIABLES verdict,   \* [EventIds -> {"none", "refused", "unknown", "accepted"}]
          queued     \* the credits that have been queued

vars == <<verdict, queued>>

IsQueued(invoice) == \E c \in queued : c.invoice = invoice

-----------------------------------------------------------------------------
Init == /\ verdict = [e \in EventIds |-> "none"]
        /\ queued = {}

Judge(e, v) == /\ verdict'[e] = v
               /\ verdict' = [verdict EXCEPT ![e] = v]

Refuse(e) == /\ verdict[e] = "none"
             /\ Judge(e, "refused") \/ Judge(e, "unknown")
             /\ UNCHANGED queued

Accept(c) == /\ verdict[c.event] \in {"none", "unknown"}
             /\ Judge(c.event, "accepted")

\* The first credit of an invoice.
Queue(c) == /\ Accept(c)
            /\ ~IsQueued(c.invoice)
            /\ queued' = queued \cup {c}

Repeat(c) == /\ Accept(c)
             /\ IsQueued(c.invoice)
             /\ UNCHANGED queued

Next == \/ \E e \in EventIds : Refuse(e)
        \/ \E c \in Credits : Queue(c) \/ Repeat(c)

Spec == Init /\ [][Next]_vars

=============================================================================
