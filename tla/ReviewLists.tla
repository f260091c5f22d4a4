----------------------------- MODULE ReviewLists -----------------------------
(***************************************************************************)
(* The lists of the review API.  A client walks through one list page by   *)
(* page, newest rows first: each answer carries a cursor, the sort key of  *)
(* the last row shown, and the next request asks for the rows after it.    *)
(* Nothing is kept on the server between two requests, while the other     *)
(* processes insert rows, whose timestamp they read some time before they  *)
(* commit, and change the columns that the filters and joins look at.      *)
(***************************************************************************)
EXTENDS Integers, FiniteSets

CONSTANTS Ids,       \* primary keys: numbers, for their order only
          Writers,   \* transactions that insert rows
          AtOnce,    \* batches of a run, and drafts of a batch, inserted together
          MaxTime,   \* bound of the clock
          MaxWrites, \* bound of the changes of the tables
          Limits,    \* page sizes the client asks for
          Past,      \* the tables before the first request, and the queries it may make:
                     \* [list, trial, status, credit, from, to]
          Null       \* SQL NULL, None

ASSUME IdsAssumption == Ids \subseteq Nat \ {0} /\ IsFiniteSet(Ids)
ASSUME LimitsAssumption == Limits \subseteq Nat \ {0}
ASSUME ReviewNullAssumption == Null \notin Int /\ Null \notin [at : Nat, id : Nat]
ASSUME BoundsAssumption == MaxTime \in Nat /\ AtOnce \in Nat \ {0}

VARIABLES runs,    \* trial_runs: set of [id, at, status]; at is the sort key
          batches, \* invoice_batches: set of [id, at, trial, status]
          drafts,  \* invoice_drafts: set of [id, at, batch, status, invoice]
          events,  \* webhook_events: set of [id, at, invoice, transfer]
          jobs,    \* transfer_jobs: set of [id, at, event, invoice, transfer]
          now,
          writer,  \* the transaction of each writer and the time it has read
          walk,    \* the client: its query, cursor, and the answer under way
          listed,  \* the rows the client has been shown
          lasting, \* history: the rows that were in the list all through the walk
          quiet,   \* history: no table has changed since the walk began
          writes   \* changes of the tables so far

tables == <<runs, batches, drafts, events, jobs>>
vars == <<runs, batches, drafts, events, jobs, now, writer, walk, listed, lasting, quiet, writes>>

\* The invoices of draft d are d and, when it was issued twice, -d; 0 is the one of
\* a smoke command.  The transfer of an invoice has the same number.
SmokeInvoice == 0
InvoicesOf(d) == {d.id, -d.id}

\* The tables that the schema and the writers allow: primary keys, a draft bound to one
\* of its own invoices, one job for an invoice, whose event is there.
Unique(rows) == \A a, b \in rows : a.id = b.id => a = b

Verdicts == {"scheduled", "completed", "degraded"}

TablesOK(rs, bs, ds, es, js) ==
    /\ rs \subseteq [id : Ids, at : Nat, status : {"active", "completed", "degraded"}]
    /\ bs \subseteq [id : Ids, at : Nat, trial : Ids, status : Verdicts]
    /\ ds \subseteq [id : Ids, at : Nat, batch : Ids, status : {"pending", "created", "unknown"},
                     invoice : Int \cup {Null}]
    /\ es \subseteq [id : Ids, at : Nat, invoice : Int \cup {Null}, transfer : Int \cup {Null}]
    /\ js \subseteq [id : Ids, at : Nat, event : Ids, invoice : Int, transfer : Int \cup {Null}]
    /\ Unique(rs) /\ Unique(bs) /\ Unique(ds) /\ Unique(es) /\ Unique(js)
    /\ \A d \in ds : d.invoice \in InvoicesOf(d) \cup {Null}
    /\ \A e \in es : e.invoice = Null \/ e.transfer = Null
    /\ \A i, j \in js : i.invoice = j.invoice => i = j
    /\ \A j \in js : \E e \in es : e.id = j.event /\ e.invoice = j.invoice

Queries == [list : {"trials", "batches", "invoices", "transfers", "webhook-events"},
            trial : Ids \cup {Null},
            status : {Null, "active", "scheduled", "completed", "degraded", "pending", "created",
                      "unknown"},
            credit : {Null, "credited", "not_observed"}, from : Nat, to : Nat]

ASSUME PastAssumption ==
    \A p \in Past : /\ TablesOK(p.runs, p.batches, p.drafts, p.events, p.jobs)
                    /\ p.now \in 0 .. MaxTime /\ p.queries \subseteq Queries

NoTransaction == [does |-> "nothing", at |-> 0, about |-> Null]

-----------------------------------------------------------------------------
\* The filters of the lists.

Key(row) == [at |-> row.at, id |-> row.id]
Keys(rows) == {Key(row) : row \in rows}

\* A parameter that is not given filters nothing.  Of the filters on plain columns there
\* is one of each kind.
Is(value, wanted) == wanted = Null \/ value = wanted

Within(row, q) == q.from <= row.at /\ row.at <= q.to

BatchesOf(trial) == {b.id : b \in {c \in batches : Is(c.trial, trial)}}

RunRows(q) == {r \in runs : Is(r.id, q.trial) /\ Is(r.status, q.status)}

BatchRows(q) == {b \in batches : Is(b.trial, q.trial) /\ Is(b.status, q.status)}

\* provider_invoice_id of the drafts of a trial, without NULL.
TrialInvoices(trial) == {d.invoice : d \in {c \in drafts : c.batch \in BatchesOf(trial)}} \ {Null}

Observed == {e.invoice : e \in events} \ {Null}

\* NULL is neither IN nor NOT IN.
WithCredit(d, credit) == \/ credit = Null
                         \/ credit = "credited" /\ d.invoice \in Observed
                         \/ credit = "not_observed" /\ d.invoice \notin Observed \cup {Null}

InvoiceRows(q) == {d \in drafts : /\ d.batch \in BatchesOf(q.trial)
                                  /\ Is(d.status, q.status) /\ WithCredit(d, q.credit)}

\* The invoice of a job is joined with the drafts; one of a smoke command has none.
JobsOf(trial) == {j \in jobs : j.invoice \in TrialInvoices(trial)}

TransferRows(q) == IF q.trial = Null THEN jobs ELSE JobsOf(q.trial)

\* Operators named Wrong... are slips that the properties must notice, each before
\* the definition it replaces: the transfers of other trials, too.
WrongEventRows(q) ==
    {e \in events : \/ q.trial = Null
                    \/ e.invoice \in TrialInvoices(q.trial)
                    \/ e.transfer # Null /\ \E j \in jobs : j.transfer = e.transfer}

\* The events about the invoices of a trial, and about the transfers of its jobs.
EventRows(q) ==
    {e \in events : \/ q.trial = Null
                    \/ e.invoice \in TrialInvoices(q.trial)
                    \/ /\ e.transfer # Null
                       /\ \E j \in JobsOf(q.trial) : j.transfer = e.transfer}

RowsOf(q) == CASE q.list = "trials" -> RunRows(q)
               [] q.list = "batches" -> BatchRows(q)
               [] q.list = "invoices" -> InvoiceRows(q)
               [] q.list = "transfers" -> TransferRows(q)
               [] q.list = "webhook-events" -> EventRows(q)

\* The sort keys of the rows that a query selects now.
Selected(q) == Keys({row \in RowsOf(q) : Within(row, q)})

-----------------------------------------------------------------------------
\* One page.

\* ORDER BY timestamp DESC, id DESC.
Precedes(k, l) == k.at > l.at \/ (k.at = l.at /\ k.id > l.id)

\* LIMIT: the first n keys.
FirstOf(n, keys) == {k \in keys : Cardinality({l \in keys : Precedes(l, k)}) < n}

\* The row of the cursor once more.
WrongAfter(cursor, keys) ==
    IF cursor = Null THEN keys ELSE {k \in keys : ~Precedes(k, cursor)}

After(cursor, keys) == IF cursor = Null THEN keys ELSE {k \in keys : Precedes(cursor, k)}

\* The cursor of the row that was fetched to see whether there is more.
WrongNextCursor(limit, found) ==
    IF Cardinality(found) <= limit THEN Null
    ELSE CHOOSE k \in found : \A l \in found : ~Precedes(k, l)

\* One row more than the page is fetched to see whether there is a next one.
NextCursor(limit, found) ==
    IF Cardinality(found) <= limit THEN Null
    ELSE CHOOSE k \in FirstOf(limit, found) : \A l \in FirstOf(limit, found) : ~Precedes(k, l)

-----------------------------------------------------------------------------
\* The client.

\* The first statement of _mapping_page.
Select(limit) ==
    LET found == FirstOf(limit + 1, After(walk.cursor, Selected(walk.query)))
    IN  /\ walk.at = "select"
        /\ walk' = [walk EXCEPT !.at = "count", !.page = FirstOf(limit, found),
                                !.next = NextCursor(limit, found)]
        /\ UNCHANGED <<tables, now, writer, listed, lasting, quiet, writes>>

\* The rows that are left.
WrongCount ==
    /\ walk.at = "count"
    /\ listed' = listed \cup walk.page
    /\ walk' = [walk EXCEPT !.at = IF walk.next = Null THEN "done" ELSE "select",
                            !.cursor = walk.next, !.page = {}, !.next = Null,
                            !.total = Cardinality(After(walk.cursor, Selected(walk.query)))]
    /\ UNCHANGED <<tables, now, writer, lasting, quiet, writes>>

\* The second statement, the count without the cursor, and the answer.
Count == /\ walk.at = "count"
         /\ listed' = listed \cup walk.page
         /\ walk' = [walk EXCEPT !.at = IF walk.next = Null THEN "done" ELSE "select",
                                 !.cursor = walk.next, !.page = {}, !.next = Null,
                                 !.total = Cardinality(Selected(walk.query))]
         /\ UNCHANGED <<tables, now, writer, lasting, quiet, writes>>

-----------------------------------------------------------------------------
\* The other processes.

\* A writer reads the clock; trial start may be told another time.
Stamp(w, does, about, at) ==
    /\ writer[w].does = "nothing"
    /\ writer' = [writer EXCEPT ![w] = [does |-> does, at |-> at, about |-> about]]
    /\ UNCHANGED <<tables, now>>

Doing(w, does) == writer[w].does = does
End(w) == writer' = [writer EXCEPT ![w] = NoTransaction] /\ UNCHANGED now
NewId(rows) == Ids \ {row.id : row \in rows}

\* TrialStore.create: the run, of which one may be active, and its batches.
CommitStart(w) ==
    LET at == writer[w].at
    IN  /\ Doing(w, "start") /\ End(w)
        /\ \A r \in runs : r.status # "active"
        /\ \E run \in NewId(runs), ids \in SUBSET NewId(batches) :
              /\ Cardinality(ids) = AtOnce
              /\ runs' = runs \cup {[id |-> run, at |-> at, status |-> "active"]}
              /\ \E slot \in [ids -> at .. at + AtOnce - 1] :
                    /\ \A i, j \in ids : slot[i] = slot[j] => i = j
                    /\ batches' = batches \cup {[id |-> i, at |-> slot[i], trial |-> run,
                                                 status |-> "scheduled"] : i \in ids}
        /\ UNCHANGED <<drafts, events, jobs>>

\* InvoiceStore.save: the drafts of a batch that are not there, all with one time.
CommitSave(w) ==
    /\ Doing(w, "save") /\ End(w)
    /\ \A d \in drafts : d.batch # writer[w].about
    /\ \E ids \in SUBSET NewId(drafts) :
          /\ Cardinality(ids) = AtOnce
          /\ drafts' = drafts \cup {[id |-> i, at |-> writer[w].at, batch |-> writer[w].about,
                                     status |-> "pending", invoice |-> Null] : i \in ids}
    /\ UNCHANGED <<runs, batches, events, jobs>>

\* The job of this event.
WrongHasJob(invoice) == \E k \in jobs : k.event = invoice

HasJob(invoice) == \E k \in jobs : k.invoice = invoice

\* EventStore.record of a credited invoice.  One that is owned (CreditEvents tells
\* when) has its draft bound, unless that is bound otherwise, and gets a job, unless
\* it has one.
CommitCredit(w) ==
    LET invoice == writer[w].about
        at == writer[w].at
    IN  /\ Doing(w, "credit") /\ End(w)
        /\ \E e \in NewId(events), j \in NewId(jobs), owned \in BOOLEAN :
              /\ events' = events \cup {[id |-> e, at |-> at, invoice |-> invoice,
                                         transfer |-> Null]}
              /\ drafts' = {IF owned /\ invoice \in InvoicesOf(d) /\ d.invoice \in {Null, invoice}
                            THEN [d EXCEPT !.status = "created", !.invoice = invoice]
                            ELSE d : d \in drafts}
              /\ jobs' = IF ~owned \/ HasJob(invoice) THEN jobs
                         ELSE jobs \cup {[id |-> j, at |-> at, event |-> e, invoice |-> invoice,
                                          transfer |-> Null]}
        /\ UNCHANGED <<runs, batches>>

\* EventStore.record of a transfer event.
CommitTransferEvent(w) ==
    /\ Doing(w, "transfer") /\ End(w)
    /\ \E e \in NewId(events) :
          events' = events \cup {[id |-> e, at |-> writer[w].at, invoice |-> Null,
                                  transfer |-> writer[w].about]}
    /\ UNCHANGED <<runs, batches, drafts, jobs>>

Rollback(w) == writer[w].does # "nothing" /\ End(w) /\ UNCHANGED tables

\* Updates of one row, which read no time that a list sorts by.  InvoiceStore.settle
\* gives a batch any status, a completed one too; "scheduled" stands for every status in
\* which it is not yet decided.
ChangeBatch(b, status) ==
    LET ending(verdict) ==
            {IF r.id = b.trial THEN [r EXCEPT !.status = verdict] ELSE r : r \in runs}
    IN  /\ batches' = (batches \ {b}) \cup {[b EXCEPT !.status = status]}
        /\ runs' = IF status = "degraded" THEN ending("degraded")
                   ELSE IF \A c \in batches' : c.trial = b.trial => c.status = "completed"
                   THEN ending("completed") ELSE runs
        /\ UNCHANGED <<drafts, events, jobs, now, writer>>

\* created, unknown_result and retry overwrite the provider id, with NULL unless the
\* invoice is known.
Transition(d, status, invoice) ==
    /\ status = "created" <=> invoice # Null
    /\ drafts' = (drafts \ {d}) \cup {[d EXCEPT !.status = status, !.invoice = invoice]}
    /\ UNCHANGED <<runs, batches, events, jobs, now, writer>>

Book(j) == /\ j.transfer = Null
           /\ jobs' = (jobs \ {j}) \cup {[j EXCEPT !.transfer = j.invoice]}
           /\ UNCHANGED <<runs, batches, drafts, events, now, writer>>

Tick == now < MaxTime /\ now' = now + 1 /\ UNCHANGED <<tables, writer>>

-----------------------------------------------------------------------------
\* The first request of a walk; one walk is enough, for the server does not know which
\* requests belong together.
Walk(q) == [at |-> "select", query |-> q, cursor |-> Null, page |-> {}, next |-> Null,
            total |-> 0]

Init == /\ \E p \in Past : /\ runs = p.runs /\ batches = p.batches /\ drafts = p.drafts
                           /\ events = p.events /\ jobs = p.jobs /\ now = p.now
                           /\ \E q \in p.queries : walk = Walk(q)
        /\ writer = [w \in Writers |-> NoTransaction]
        /\ listed = {} /\ lasting = Selected(walk.query) /\ quiet = TRUE /\ writes = 0

Bound == (UNION {InvoicesOf(d) : d \in drafts}) \cup {SmokeInvoice}

Write == \/ \E w \in Writers :
               \/ \E at \in 0 .. MaxTime : Stamp(w, "start", Null, at)
               \/ \E b \in batches : Stamp(w, "save", b.id, now)
               \/ \E invoice \in Bound : Stamp(w, "credit", invoice, now)
               \/ \E j \in jobs : Stamp(w, "transfer", j.invoice, now)
               \/ CommitStart(w) \/ CommitSave(w) \/ CommitCredit(w) \/ CommitTransferEvent(w)
               \/ Rollback(w)
         \/ \E b \in batches, status \in Verdicts : ChangeBatch(b, status)
         \/ \E d \in drafts, status \in {"created", "unknown"} :
               \E invoice \in InvoicesOf(d) \cup {Null} : Transition(d, status, invoice)
         \/ \E j \in jobs : Book(j)
         \/ Tick

\* Whatever the others do, the client goes on with what it has.  What happens after
\* the walk does not matter.
Elsewhere == /\ Write
             /\ UNCHANGED <<walk, listed>>
             /\ lasting' = lasting \cap Selected(walk.query)'
             /\ IF tables' = tables THEN UNCHANGED <<quiet, writes>>
                ELSE /\ walk.at \in {"select", "count"}
                     /\ writes < MaxWrites /\ writes' = writes + 1
                     /\ quiet' = FALSE

Next == \/ \E limit \in Limits : Select(limit)
        \/ Count
        \/ Elsewhere

Spec == Init /\ [][Next]_vars

-----------------------------------------------------------------------------
\* Properties.

\* The primary keys, and what the joins rely on: a job is joined with at most one
\* draft, and an event with at most one job.
ReviewTypeOK ==
    /\ TablesOK(runs, batches, drafts, events, jobs)
    /\ now \in 0 .. MaxTime /\ walk.query \in Queries
    /\ walk.at \in {"select", "count", "done"}
    /\ walk.page # {} => walk.at = "count"
    /\ lasting \subseteq Selected(walk.query)

\* A page goes on below everything that was shown, and shows no row again, although
\* rows have been inserted and changed since (_mapping_page).
PageContinues ==
    \A k \in listed, l \in walk.page : Precedes(k, l) /\ k.id # l.id

\* A client that has followed the cursors to the end has been shown every row that was
\* in the list all the time, in whatever order others were inserted, changed their
\* status or went to another trial (_page).
NothingLost == walk.at = "done" => lasting \subseteq listed

\* When nothing else happens, the total of the last page is the number of rows shown
\* on all pages, although it comes from a query of its own.
TotalAddsUp == walk.at = "done" /\ quiet => walk.total = Cardinality(listed)

\* The lists of one trial fit together through their different joins: a transfer that
\* is listed has its credit listed, and its invoice as credited; an event of a
\* transfer is listed together with the transfer.
ChainIsListed ==
    \A r \in runs :
        LET q == [list |-> "", trial |-> r.id, status |-> Null, credit |-> "credited"]
        IN  /\ \A j \in TransferRows(q) :
                  /\ \E e \in EventRows(q) : e.id = j.event
                  /\ \E d \in InvoiceRows(q) : d.invoice = j.invoice
            /\ \A e \in EventRows(q) :
                  e.transfer # Null => \E j \in TransferRows(q) : j.transfer = e.transfer

\* The server answers.
FairSpec == Spec /\ WF_vars(\E limit \in Limits : Select(limit)) /\ WF_vars(Count)

\* The walk comes to an end, whatever is inserted while it goes on.
WalkEnds == walk.at = "select" ~> walk.at = "done"

=============================================================================
