---------------------------- MODULE MCSmokeBatch ----------------------------
\* One tag, for which the provider may book two invoices.
EXTENDS SmokeBatch

Credit(event, invoice, tags) ==
    [event |-> event, kind |-> "credited", invoice |-> invoice, tags |-> tags,
     payload |-> event, payable |-> TRUE]

Invoices == [t \in Tags |-> {"c", "d"}]
Credits == {Credit("e1", "c", {"smoke"})}
OneTag == <<"smoke">>

=============================================================================
