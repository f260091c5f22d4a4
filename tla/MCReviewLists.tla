--------------------------- MODULE MCReviewLists ----------------------------
\* A small history of the review tables, and the queries of the client.
EXTENDS ReviewLists

Everything == [list |-> "", trial |-> Null, status |-> Null, credit |-> Null,
               from |-> 0, to |-> MaxTime + 1]
The(list) == [Everything EXCEPT !.list = list]

\* Two batches of the active run, one with its drafts, one of them credited; and
\* a credited smoke invoice.
Started ==
    [runs |-> {[id |-> 1, at |-> 0, status |-> "active"]},
     batches |-> {[id |-> 1, at |-> 0, trial |-> 1, status |-> "scheduled"],
                  [id |-> 2, at |-> 1, trial |-> 1, status |-> "scheduled"]},
     drafts |-> {[id |-> 1, at |-> 0, batch |-> 1, status |-> "created", invoice |-> 1],
                 [id |-> 3, at |-> 0, batch |-> 1, status |-> "created", invoice |-> 3]},
     events |-> {[id |-> 2, at |-> 0, invoice |-> 1, transfer |-> Null],
                 [id |-> 3, at |-> 0, invoice |-> 0, transfer |-> Null]},
     jobs |-> {[id |-> 1, at |-> 0, event |-> 2, invoice |-> 1, transfer |-> 1],
               [id |-> 3, at |-> 0, event |-> 3, invoice |-> 0, transfer |-> Null]},
     now |-> 0,
     queries |-> {[The("invoices") EXCEPT !.credit = "not_observed"],
                  [The("invoices") EXCEPT !.trial = 1, !.status = "created"],
                  [The("transfers") EXCEPT !.trial = 1],
                  [The("webhook-events") EXCEPT !.trial = 1]}]

\* A run that has ended, and the next one has not begun.
Ended == [Started EXCEPT !.runs = {[id |-> 1, at |-> 0, status |-> "completed"]},
                         !.batches = {[b EXCEPT !.status = "completed"] : b \in @},
                         !.queries = {The("trials"), [The("batches") EXCEPT !.status = "completed"],
                                      [The("transfers") EXCEPT !.from = 1]}]

TwoPasts == {Started, Ended}

=============================================================================
