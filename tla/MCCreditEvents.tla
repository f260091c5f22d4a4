--------------------------- MODULE MCCreditEvents ---------------------------
\* Small worlds of tags, invoices and deliveries for CreditEvents.
EXTENDS CreditEvents, TLC

Symmetry == Permutations(Requests)

Credit(event, invoice, tags) ==
    [event |-> event, kind |-> "credited", invoice |-> invoice, tags |-> tags,
     payload |-> event, payable |-> TRUE]

\* The provider has two invoices for the tag of the draft.
TrialInvoices == [t \in Tags |-> IF t = "trial" THEN {"a", "b"} ELSE {"c"}]

\* An invoice with the tags of two owners; two events of one invoice, under the tags
\* of two owners; other content under a known id; an invoice of another environment.
MixedDeliveries == {Credit("e1", "a", {"trial", "smoke"}), Credit("e2", "c", {"trial"}),
                    Credit("e3", "c", {"smoke"}),
                    [Credit("e3", "c", {"smoke"}) EXCEPT !.payload = "changed", !.payable = FALSE],
                    Credit("e4", "x", {"elsewhere"})}

=============================================================================
