-------------------------- MODULE CreditToTransfer --------------------------
(***************************************************************************)
(* The two halves of the system over one database: the requests of         *)
(* CreditEvents insert the rows of transfer_jobs that the workers of       *)
(* TransferDispatch claim.  A row is seen twice: `jobs` has the columns of *)
(* the credit it came from, `rows` those of its dispatch.                  *)
(***************************************************************************)
EXTENDS CreditEvents

CONSTANTS Workers, LeaseSeconds, RetryBase, MaxAttempts, MaxTime, MaxCrashes, NoLease, NoClaim

\* What TransferDispatch assumes of them.
DispatchAssumption ==
    /\ LeaseSeconds \in Nat \ {0} /\ RetryBase \in Nat \ {0} /\ MaxAttempts \in Nat \ {0}
    /\ MaxTime \in Nat /\ MaxCrashes \in Nat
    /\ NoLease \notin Nat

VARIABLES now, rows, pc, reading, claim, result, transfers, inflight, crashes

Dispatch == INSTANCE TransferDispatch WITH Invoices <- InvoiceIds, jobs <- rows, at <- reading

flowVars == <<vars, now, rows, pc, reading, claim, result, transfers, inflight, crashes>>

\* The columns of dispatch in the INSERT of _queue_transfer.
Inserted(received) == [Dispatch!Absent EXCEPT !.status = "pending", !.nextAt = received]

\* The rows that a COMMIT makes visible to the workers.
NewInvoices == {j.invoice : j \in jobs' \ jobs}

\* A statement of the web server or of a writer of owned_invoices.
CreditStep ==
    /\ Next
    /\ \E received \in 0 .. now :
          rows' = [i \in InvoiceIds |-> IF i \in NewInvoices THEN Inserted(received) ELSE rows[i]]
    /\ UNCHANGED <<now, pc, reading, claim, result, transfers, inflight, crashes>>

\* A step of a worker, of the provider or of the clock.
DispatchStep == Dispatch!Work /\ UNCHANGED vars

FlowSpec == /\ Init /\ Dispatch!Init
            /\ [][CreditStep \/ DispatchStep]_flowVars

-----------------------------------------------------------------------------
\* What the halves promise together.

\* The two views are one table: no COMMIT inserts a row that a worker has already
\* taken, and no worker takes one that no credit has queued.
OneTable ==
    \A i \in InvoiceIds : rows[i].status # "absent" <=> \E j \in jobs : j.invoice = i

\* A credit that is on record as accepted has a row that the workers work on or have
\* settled, whatever happened to its requests.
AcceptedIsDispatched ==
    \A e \in EventIds :
        events[e] # Null /\ events[e].outcome \in {"queued", "duplicate_invoice"}
        => \E d \in Deliveries : d.event = e /\ rows[d.invoice].status # "absent"

\* Money leaves only for a payable credit of an invoice that carries a tag of this
\* environment, also when it leaves late.
PaymentsAreOurs ==
    \A n \in DOMAIN transfers : \E d \in Deliveries :
        /\ d.invoice = transfers[n].invoice
        /\ d.kind = "credited" /\ d.payable
        /\ \E t \in Registered : t \in d.tags \/ d.invoice \in InvoicesWith[t]

=============================================================================
