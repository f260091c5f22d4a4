--------------------------- MODULE TransferLedger ---------------------------
(***************************************************************************)
(* What the transfer half of the system promises, without workers, leases  *)
(* or clocks: each credited invoice that is accepted is owed one transfer, *)
(* at most one transfer is ever paid for it, and it is reported as         *)
(* succeeded only when that transfer exists.  A payment may come after the *)
(* debt was given up as failed: a create request that timed out can still  *)
(* reach the provider.  TransferDispatch implements this module.           *)
(***************************************************************************)
EXTENDS Sequences

CONSTANTS Invoices,     \* provider invoices that can be credited
          ExternalIds   \* external ids under which a transfer can be booked

VARIABLES outcome,      \* [Invoices -> {"none", "owed", "succeeded", "failed"}]
          paid          \* the booked transfers, in order

vars == <<outcome, paid>>

IsPaid(i) == \E n \in DOMAIN paid : paid[n].invoice = i

-----------------------------------------------------------------------------
Init == /\ outcome = [i \in Invoices |-> "none"]
        /\ paid = <<>>

\* The credit of invoice i is accepted: from now on one transfer is owed.
Accept(i) == /\ outcome[i] = "none"
             /\ outcome' = [outcome EXCEPT ![i] = "owed"]
             /\ UNCHANGED paid

\* The provider books the only transfer of invoice i.
Pay(i) == /\ outcome[i] # "none"
          /\ ~IsPaid(i)
          /\ \E x \in ExternalIds : paid' = Append(paid, [externalId |-> x, invoice |-> i])
          /\ UNCHANGED outcome

\* The debt is reported settled: its transfer exists.
Succeed(i) == /\ outcome[i] = "owed"
              /\ IsPaid(i)
              /\ outcome' = [outcome EXCEPT ![i] = "succeeded"]
              /\ UNCHANGED paid

\* The debt is given up.
Fail(i) == /\ outcome[i] = "owed"
           /\ outcome' = [outcome EXCEPT ![i] = "failed"]
           /\ UNCHANGED paid

Next == \E i \in Invoices : Accept(i) \/ Pay(i) \/ Succeed(i) \/ Fail(i)

Spec == Init /\ [][Next]_vars

=============================================================================
