------------------------- MODULE ReviewLists_proofs -------------------------
(***************************************************************************)
(* What the review lists promise a client, for tables of any size, any     *)
(* page sizes and any number of writers.                                   *)
(***************************************************************************)
EXTENDS ReviewLists, FiniteSetTheorems, WellFoundedInduction, TLAPS

SortKeys == [at : Nat, id : Nat]

-----------------------------------------------------------------------------
\* The order of the lists, and what one page is.

LEMMA Order ==
    /\ \A k \in SortKeys : ~Precedes(k, k)
    /\ \A k, l, m \in SortKeys : Precedes(k, l) /\ Precedes(l, m) => Precedes(k, m)
    /\ \A k, l \in SortKeys : Precedes(k, l) \/ Precedes(l, k) \/ k = l
BY DEF SortKeys, Precedes

\* The place of a key in a list.
Before(k, keys) == {l \in keys : Precedes(l, k)}
Rank(k, keys) == Cardinality(Before(k, keys))

LEMMA Ranks ==
    ASSUME NEW K, K \subseteq SortKeys, IsFiniteSet(K)
    PROVE  /\ Cardinality(K) \in Nat
           /\ \A k \in K : Rank(k, K) \in Nat /\ Rank(k, K) < Cardinality(K)
           /\ \A k, l \in K : Precedes(k, l) => Rank(k, K) < Rank(l, K)
<1>1. \A k \in K : /\ IsFiniteSet(Before(k, K)) /\ Before(k, K) \subseteq K
                   /\ k \notin Before(k, K)
  <2> TAKE k \in K
  <2>1. Before(k, K) \in SUBSET K
    BY DEF Before
  <2>2. ~Precedes(k, k)
    BY Order
  <2> QED BY <2>1, <2>2, FS_Subset DEF Before
<1>2. ASSUME NEW S, IsFiniteSet(S), NEW T \in SUBSET S, T # S
      PROVE  Cardinality(T) \in Nat /\ Cardinality(S) \in Nat /\ Cardinality(T) < Cardinality(S)
  BY <1>2, FS_Subset, FS_CardinalityType
<1>3. \A k \in K : Rank(k, K) \in Nat /\ Rank(k, K) < Cardinality(K)
  BY <1>1, <1>2 DEF Rank
<1>4. ASSUME NEW k \in K, NEW l \in K, Precedes(k, l) PROVE Rank(k, K) < Rank(l, K)
  <2>1. k \in K /\ l \in K /\ \A m \in K : Precedes(m, k) => Precedes(m, l)
    BY <1>4, Order
  <2>2. Before(k, K) \in SUBSET Before(l, K) /\ k \in Before(l, K)
    BY <1>4, <2>1 DEF Before
  <2> QED BY <1>1, <1>2, <2>2 DEF Rank
<1> QED BY <1>3, <1>4, FS_CardinalityType

LEMMA Least == ASSUME NEW T, T \subseteq Nat, T # {}
               PROVE  \E x \in T : \A y \in T : x <= y
<1>1. PICK x \in T : \A y \in T : <<y, x>> \notin OpToRel(<, Nat)
  BY WFMin, NatLessThanWellFounded
<1>2. \A y \in T : ~(y < x)
  BY <1>1 DEF OpToRel
<1> QED BY <1>2

\* A set of keys that is not empty has a first and a last one.
LEMMA Ends ==
    ASSUME NEW K, K \subseteq SortKeys, IsFiniteSet(K), K # {}
    PROVE  /\ \E k \in K : Before(k, K) = {}
           /\ \E k \in K : \A l \in K : ~Precedes(k, l)
<1> USE Ranks
<1>1. \E k \in K : Before(k, K) = {}
  <2>1. PICK n \in {Rank(k, K) : k \in K} : \A m \in {Rank(k, K) : k \in K} : n <= m
    BY Least
  <2>2. PICK k \in K : n = Rank(k, K)
    BY <2>1
  <2>3. \A l \in K : ~Precedes(l, k)
    BY <2>1, <2>2
  <2> QED BY <2>3 DEF Before
<1>2. \E k \in K : \A l \in K : ~Precedes(k, l)
  <2> DEFINE Behind == {Cardinality(K) - Rank(k, K) : k \in K}
  <2>1. Behind \subseteq Nat /\ Behind # {}
    OBVIOUS
  <2>2. PICK n \in Behind : \A m \in Behind : n <= m
    BY <2>1, Least
  <2>3. PICK k \in K : n = Cardinality(K) - Rank(k, K)
    BY <2>2
  <2>4. \A l \in K : ~Precedes(k, l)
    <3> SUFFICES ASSUME NEW l \in K, Precedes(k, l) PROVE FALSE
      OBVIOUS
    <3>1. Cardinality(K) - Rank(l, K) \in Behind
      OBVIOUS
    <3> HIDE DEF Behind
    <3>2. n <= Cardinality(K) - Rank(l, K)
      BY <2>2, <3>1
    <3> QED BY <2>3, <3>2
  <2> QED BY <2>4
<1> QED BY <1>1, <1>2

\* The rows that are fetched are those of the page and the next one, if there is one.
LEMMA Fetched ==
    ASSUME NEW K, K \subseteq SortKeys, IsFiniteSet(K), NEW n \in Nat
    PROVE  /\ FirstOf(n, FirstOf(n + 1, K)) = FirstOf(n, K)
           /\ FirstOf(n + 1, K) \subseteq K /\ IsFiniteSet(FirstOf(n + 1, K))
           /\ Cardinality(FirstOf(n + 1, K)) <= n => FirstOf(n, K) = K
<1> DEFINE F == FirstOf(n + 1, K)
<1> USE Ranks
<1>1. F = {k \in K : Rank(k, K) < n + 1} /\ FirstOf(n, K) = {k \in K : Rank(k, K) < n}
      /\ FirstOf(n, F) = {k \in F : Rank(k, F) < n}
  BY DEF FirstOf, Rank, Before
<1>2. F \in SUBSET K /\ IsFiniteSet(F)
  BY <1>1, FS_Subset
<1> HIDE DEF F
<1>3. \A k \in F : \A l \in K : Precedes(l, k) => l \in F
  BY <1>1
<1>4. \A k \in F : Rank(k, F) = Rank(k, K)
  <2> TAKE k \in F
  <2>1. Before(k, F) = Before(k, K)
    BY <1>2, <1>3 DEF Before
  <2> QED BY <2>1 DEF Rank
<1>5. FirstOf(n, F) = FirstOf(n, K)
  BY <1>1, <1>2, <1>4
<1>6. ASSUME Cardinality(F) <= n PROVE FirstOf(n, K) = K
  <2>1. F = K
    <3> SUFFICES ASSUME K \ F # {} PROVE FALSE
      BY <1>2
    <3>1. K \ F \subseteq SortKeys /\ IsFiniteSet(K \ F)
      BY FS_Subset
    <3>2. PICK k \in K \ F : Before(k, K \ F) = {}
      BY <3>1, Ends
    <3>3. Before(k, K) \in SUBSET F
      BY <3>2 DEF Before
    <3>4. Rank(k, K) <= Cardinality(F)
      BY <1>2, <3>3, FS_Subset DEF Rank
    <3>5. Cardinality(F) \in Nat
      BY <1>2, FS_CardinalityType
    <3> QED BY <1>1, <1>6, <3>4, <3>5
  <2>2. \A k \in K : Rank(k, K) < n
    BY <1>6, <2>1
  <2> QED BY <1>1, <2>2
<1> QED BY <1>2, <1>5, <1>6 DEF F

\* The cursor is the last key of the page: all others of the page come before it, and
\* what is left comes after it.
LEMMA PageOK ==
    ASSUME NEW K, K \subseteq SortKeys, IsFiniteSet(K), NEW n \in Nat \ {0},
           NEW found, found = FirstOf(n + 1, K),
           NEW page, page = FirstOf(n, found),
           NEW next, next = NextCursor(n, found)
    PROVE  /\ page \subseteq K
           /\ next = Null => page = K
           /\ next # Null => /\ next \in page
                             /\ \A k \in page : k = next \/ Precedes(k, next)
                             /\ \A k \in K \ page : Precedes(next, k)
<1>0. page = FirstOf(n, K) /\ found \subseteq K /\ IsFiniteSet(found)
      /\ (Cardinality(found) <= n => page = K)
  BY Fetched
<1>1. page = {k \in K : Rank(k, K) < n} /\ page \subseteq K
  BY <1>0 DEF FirstOf, Rank, Before
<1>2. next = IF Cardinality(found) <= n THEN Null
             ELSE CHOOSE k \in page : \A l \in page : ~Precedes(k, l)
  BY DEF NextCursor
<1>3. CASE Cardinality(found) <= n
  BY <1>0, <1>2, <1>3
<1>4. CASE ~(Cardinality(found) <= n)
  <2>1. found # {}
    BY <1>4, FS_EmptySet
  <2>2. PICK k \in K : Before(k, K) = {}
    BY <1>0, <2>1, Ends
  <2>3. Rank(k, K) = 0
    BY <2>2, FS_EmptySet DEF Rank
  <2>4. k \in page
    BY <1>1, <2>3
  <2>5. page # {} /\ IsFiniteSet(page) /\ page \subseteq SortKeys
    BY <1>1, <2>4, FS_Subset
  <2>6. \E l \in page : \A m \in page : ~Precedes(l, m)
    BY <2>5, Ends
  <2>7. next \in page /\ \A l \in page : ~Precedes(next, l)
    BY <1>2, <1>4, <2>6
  <2>8. \A l \in page : l = next \/ Precedes(l, next)
    BY <2>5, <2>7, Order
  <2>9. ASSUME NEW l \in K \ page PROVE Precedes(next, l)
    <3>1. ~Precedes(l, next)
      BY <1>1, <2>7, Ranks
    <3>2. l # next /\ l \in SortKeys /\ next \in SortKeys
      BY <2>5, <2>7
    <3> QED BY <3>1, <3>2, Order
  <2>10. next # Null
    BY <2>5, <2>7, ReviewNullAssumption DEF SortKeys
  <2> QED BY <1>1, <2>7, <2>8, <2>9, <2>10
<1> QED BY <1>3, <1>4

-----------------------------------------------------------------------------
\* The tables, and what the writers do to them.

Stored(q) == CASE q.list = "trials" -> Keys(runs)
               [] q.list = "batches" -> Keys(batches)
               [] q.list = "invoices" -> Keys(drafts)
               [] q.list = "transfers" -> Keys(jobs)
               [] q.list = "webhook-events" -> Keys(events)

Tables == TablesOK(runs, batches, drafts, events, jobs)

Transactions == [does : {"nothing", "start", "save", "credit", "transfer"}, at : Nat,
                 about : Int \cup {Null}]
WritersOK == /\ now \in 0 .. MaxTime
             /\ writer \in [Writers -> Transactions]
             /\ \A w \in Writers : /\ writer[w].does = "save" => writer[w].about \in Ids
                                   /\ writer[w].does \in {"credit", "transfer"}
                                      => writer[w].about \in Int

\* A table keeps its rows and their sort keys.
Persists(rows, rows2) == Keys(rows) \subseteq Keys(rows2)

LEMMA KeysOK ==
    ASSUME NEW rows, \A r \in rows : r.id \in Ids /\ r.at \in Nat, Unique(rows)
    PROVE  /\ Keys(rows) \subseteq SortKeys /\ IsFiniteSet(Keys(rows))
           /\ \A k, l \in Keys(rows) : k.id = l.id => k = l
<1>1. Keys(rows) \subseteq SortKeys /\ \A k \in Keys(rows) : k.id \in Ids
  <2>1. \A r \in rows : Key(r) \in SortKeys /\ Key(r).id \in Ids
    BY IdsAssumption DEF Key, SortKeys
  <2> QED BY <2>1 DEF Keys
<1>2. \A k, l \in Keys(rows) : k.id = l.id => k = l
  BY DEF Keys, Key, Unique
<1>3. [k \in Keys(rows) |-> k.id] \in Injection(Keys(rows), Ids)
  BY <1>1, <1>2 DEF Injection, IsInjective
<1>4. IsFiniteSet(Keys(rows))
  BY <1>3, FS_Injection, IdsAssumption
<1> QED BY <1>1, <1>2, <1>4

\* What a query selects is a finite list of different keys.
LEMMA SelectedOK ==
    ASSUME Tables, NEW q \in Queries
    PROVE  /\ Selected(q) \subseteq Stored(q) /\ Stored(q) \subseteq SortKeys
           /\ IsFiniteSet(Selected(q))
           /\ \A k, l \in Stored(q) : k.id = l.id => k = l
<1>1. \A rows \in {runs, batches, drafts, events, jobs} :
         (\A r \in rows : r.id \in Ids /\ r.at \in Nat) /\ Unique(rows)
  BY DEF Tables, TablesOK
<1>2. \E rows \in {runs, batches, drafts, events, jobs} :
         Stored(q) = Keys(rows) /\ RowsOf(q) \subseteq rows
  BY DEF Queries, Stored, RowsOf, RunRows, BatchRows, InvoiceRows, TransferRows, JobsOf, EventRows
<1>3. PICK rows \in {runs, batches, drafts, events, jobs} :
         Stored(q) = Keys(rows) /\ RowsOf(q) \subseteq rows
  BY <1>2
<1>4. /\ Keys(rows) \subseteq SortKeys /\ IsFiniteSet(Keys(rows))
      /\ \A k, l \in Keys(rows) : k.id = l.id => k = l
  BY <1>1, KeysOK
<1>5. Selected(q) \in SUBSET Keys(rows)
  BY <1>3 DEF Selected, Keys
<1> QED BY <1>3, <1>4, <1>5, FS_Subset

TablesKept == /\ TablesOK(runs', batches', drafts', events', jobs')
              /\ Persists(runs, runs') /\ Persists(batches, batches') /\ Persists(drafts, drafts')
              /\ Persists(events, events') /\ Persists(jobs, jobs')

LEMMA Bounded ==
    ASSUME Tables
    PROVE  /\ \A d \in drafts : InvoicesOf(d) \subseteq Int
           /\ Bound \subseteq Int
           /\ \A j \in jobs : j.invoice \in Int
           /\ \A b \in batches : b.id \in Ids
<1>1. \A d \in drafts : d.id \in Ids
  BY DEF Tables, TablesOK
<1>2. \A d \in drafts : InvoicesOf(d) \subseteq Int
  <2>1. \A n \in Nat : n \in Int /\ -n \in Int
    OBVIOUS
  <2>2. \A d \in drafts : d.id \in Int /\ -d.id \in Int
    BY <1>1, <2>1, IdsAssumption
  <2> QED BY <2>2 DEF InvoicesOf
<1>3. Bound \subseteq Int
  BY <1>2 DEF Bound, SmokeInvoice
<1> QED BY <1>2, <1>3 DEF Tables, TablesOK

LEMMA StampKeeps ==
    ASSUME Tables, WritersOK, NEW w \in Writers, NEW does \in {"start", "save", "credit", "transfer"},
           NEW about, NEW at \in 0 .. MaxTime, Stamp(w, does, about, at),
           about \in Int \cup {Null}, does = "save" => about \in Ids,
           does \in {"credit", "transfer"} => about \in Int
    PROVE  WritersOK' /\ TablesKept
<1>1. UNCHANGED tables /\ now' = now
  BY DEF Stamp
<1>2. WritersOK'
  BY <1>1, BoundsAssumption DEF Stamp, WritersOK, Transactions
<1> QED BY <1>1, <1>2 DEF tables, Tables, TablesKept, Persists

LEMMA EndKeeps ==
    ASSUME WritersOK, NEW w \in Writers, End(w) PROVE WritersOK'
BY DEF WritersOK, End, NoTransaction, Transactions

LEMMA StartKeeps ==
    ASSUME Tables, WritersOK, NEW w \in Writers, CommitStart(w) PROVE TablesKept
<1> DEFINE at == writer[w].at
<1>1. at \in Nat
  BY DEF WritersOK, Transactions
<1>2. UNCHANGED <<drafts, events, jobs>>
  BY DEF CommitStart
<1>3. PICK run \in NewId(runs), ids \in SUBSET NewId(batches) :
         /\ runs' = runs \cup {[id |-> run, at |-> at, status |-> "active"]}
         /\ \E slot \in [ids -> at .. at + AtOnce - 1] :
               batches' = batches \cup {[id |-> i, at |-> slot[i], trial |-> run,
                                         status |-> "scheduled"] : i \in ids}
  BY DEF CommitStart
<1>4. PICK slot \in [ids -> at .. at + AtOnce - 1] :
         batches' = batches \cup {[id |-> i, at |-> slot[i], trial |-> run,
                                   status |-> "scheduled"] : i \in ids}
  BY <1>3
<1>5. run \in Ids /\ ids \subseteq Ids /\ \A i \in ids : slot[i] \in Nat
  BY <1>1, BoundsAssumption DEF NewId
<1>6. /\ runs' \subseteq [id : Ids, at : Nat, status : {"active", "completed", "degraded"}]
      /\ Unique(runs') /\ Persists(runs, runs')
  BY <1>1, <1>3, <1>5 DEF Tables, TablesOK, Unique, NewId, Persists, Keys
<1>7. /\ batches' \subseteq [id : Ids, at : Nat, trial : Ids, status : Verdicts]
      /\ Unique(batches') /\ Persists(batches, batches')
  BY <1>4, <1>5 DEF Tables, TablesOK, Verdicts, Unique, NewId, Persists, Keys
<1> QED BY <1>2, <1>6, <1>7 DEF Tables, TablesOK, TablesKept, Persists

LEMMA SaveKeeps ==
    ASSUME Tables, WritersOK, NEW w \in Writers, CommitSave(w) PROVE TablesKept
<1> DEFINE new(i) == [id |-> i, at |-> writer[w].at, batch |-> writer[w].about,
                      status |-> "pending", invoice |-> Null]
<1>1. writer[w].at \in Nat /\ writer[w].about \in Ids
  BY DEF WritersOK, Transactions, CommitSave, Doing
<1>2. UNCHANGED <<runs, batches, events, jobs>>
  BY DEF CommitSave
<1>3. PICK ids \in SUBSET NewId(drafts) : drafts' = drafts \cup {new(i) : i \in ids}
  BY DEF CommitSave
<1>4. /\ drafts' \subseteq [id : Ids, at : Nat, batch : Ids,
                            status : {"pending", "created", "unknown"}, invoice : Int \cup {Null}]
      /\ Unique(drafts') /\ Persists(drafts, drafts')
      /\ \A d \in drafts' : d.invoice \in InvoicesOf(d) \cup {Null}
  BY <1>1, <1>3 DEF Tables, TablesOK, Unique, NewId, Persists, Keys
<1> QED BY <1>2, <1>4 DEF Tables, TablesOK, TablesKept, Persists

LEMMA CreditKeeps ==
    ASSUME Tables, WritersOK, NEW w \in Writers, CommitCredit(w) PROVE TablesKept
<1> DEFINE invoice == writer[w].about
           at == writer[w].at
<1>1. at \in Nat /\ invoice \in Int
  BY DEF WritersOK, Transactions, CommitCredit, Doing
<1>2. UNCHANGED <<runs, batches>>
  BY DEF CommitCredit
<1> DEFINE credit(e) == [id |-> e, at |-> at, invoice |-> invoice, transfer |-> Null]
           bound(d, owned) == IF owned /\ invoice \in InvoicesOf(d) /\ d.invoice \in {Null, invoice}
                              THEN [d EXCEPT !.status = "created", !.invoice = invoice] ELSE d
           queued(j, e) == [id |-> j, at |-> at, event |-> e, invoice |-> invoice,
                            transfer |-> Null]
<1>3. PICK e \in NewId(events), j \in NewId(jobs), owned \in BOOLEAN :
         /\ events' = events \cup {credit(e)}
         /\ drafts' = {bound(d, owned) : d \in drafts}
         /\ jobs' = IF ~owned \/ HasJob(invoice) THEN jobs ELSE jobs \cup {queued(j, e)}
  BY DEF CommitCredit
<1>4. e \in Ids /\ j \in Ids
  BY DEF NewId
<1>5. /\ events' \subseteq [id : Ids, at : Nat, invoice : Int \cup {Null}, transfer : Int \cup {Null}]
      /\ Unique(events') /\ Persists(events, events')
      /\ \A f \in events' : f.invoice = Null \/ f.transfer = Null
  <2>1. PICK f : f = credit(e)
    OBVIOUS
  <2>2. /\ f \in [id : Ids, at : Nat, invoice : Int \cup {Null}, transfer : Int \cup {Null}]
        /\ f.id = e /\ f.transfer = Null
    BY <1>1, <1>4, <2>1
  <2>3. events' = events \cup {f}
    BY <1>3, <2>1
  <2> QED BY <2>2, <2>3 DEF Tables, TablesOK, Unique, NewId, Persists, Keys
<1>6. /\ drafts' \subseteq [id : Ids, at : Nat, batch : Ids,
                            status : {"pending", "created", "unknown"}, invoice : Int \cup {Null}]
      /\ Unique(drafts') /\ Persists(drafts, drafts')
      /\ \A d \in drafts' : d.invoice \in InvoicesOf(d) \cup {Null}
  <2>1. ASSUME NEW d \in drafts
        PROVE  /\ bound(d, owned) \in [id : Ids, at : Nat, batch : Ids,
                                       status : {"pending", "created", "unknown"},
                                       invoice : Int \cup {Null}]
               /\ bound(d, owned).id = d.id /\ bound(d, owned).at = d.at
               /\ bound(d, owned).invoice \in InvoicesOf(bound(d, owned)) \cup {Null}
    <3>1. /\ d \in [id : Ids, at : Nat, batch : Ids, status : {"pending", "created", "unknown"},
                    invoice : Int \cup {Null}]
          /\ d.invoice \in InvoicesOf(d) \cup {Null}
      BY DEF Tables, TablesOK
    <3> QED BY <1>1, <3>1 DEF InvoicesOf
  <2> HIDE DEF bound
  <2>2. Unique(drafts')
    BY <1>3, <2>1 DEF Tables, TablesOK, Unique
  <2>3. Persists(drafts, drafts')
    BY <1>3, <2>1 DEF Persists, Keys, Key
  <2> QED BY <1>3, <2>1, <2>2, <2>3
<1>7. /\ jobs' \subseteq [id : Ids, at : Nat, event : Ids, invoice : Int, transfer : Int \cup {Null}]
      /\ Unique(jobs') /\ Persists(jobs, jobs')
      /\ \A i, k \in jobs' : i.invoice = k.invoice => i = k
      /\ \A i \in jobs' : \E f \in events' : f.id = i.event /\ f.invoice = i.invoice
  <2>1. PICK k : k = queued(j, e)
    OBVIOUS
  <2>2. /\ k \in [id : Ids, at : Nat, event : Ids, invoice : Int, transfer : Int \cup {Null}]
        /\ k.id = j /\ k.event = e /\ k.invoice = invoice
    BY <1>1, <1>4, <2>1
  <2>3. credit(e) \in events' /\ credit(e).id = e /\ credit(e).invoice = invoice
        /\ events \subseteq events'
    BY <1>3
  <2> HIDE DEF credit
  <2>4. jobs' = jobs \/ (jobs' = jobs \cup {k} /\ \A i \in jobs : i.invoice # invoice)
    BY <1>3, <2>1 DEF HasJob
  <2>5. /\ jobs' \subseteq [id : Ids, at : Nat, event : Ids, invoice : Int,
                            transfer : Int \cup {Null}]
        /\ Unique(jobs') /\ Persists(jobs, jobs')
    BY <2>2, <2>4 DEF Tables, TablesOK, Unique, NewId, Persists, Keys
  <2>6. \A i, l \in jobs' : i.invoice = l.invoice => i = l
    BY <2>2, <2>4 DEF Tables, TablesOK
  <2>7. \A i \in jobs' : \E f \in events' : f.id = i.event /\ f.invoice = i.invoice
    BY <2>2, <2>3, <2>4 DEF Tables, TablesOK
  <2> QED BY <2>5, <2>6, <2>7
<1> QED BY <1>2, <1>5, <1>6, <1>7 DEF Tables, TablesOK, TablesKept, Persists

LEMMA TransferEventKeeps ==
    ASSUME Tables, WritersOK, NEW w \in Writers, CommitTransferEvent(w) PROVE TablesKept
<1>1. writer[w].at \in Nat /\ writer[w].about \in Int
  BY DEF WritersOK, Transactions, CommitTransferEvent, Doing
<1>2. UNCHANGED <<runs, batches, drafts, jobs>>
  BY DEF CommitTransferEvent
<1>3. PICK e \in NewId(events) :
         events' = events \cup {[id |-> e, at |-> writer[w].at, invoice |-> Null,
                                 transfer |-> writer[w].about]}
  BY DEF CommitTransferEvent
<1>4. PICK f : f = [id |-> e, at |-> writer[w].at, invoice |-> Null, transfer |-> writer[w].about]
  OBVIOUS
<1>5. /\ f \in [id : Ids, at : Nat, invoice : Int \cup {Null}, transfer : Int \cup {Null}]
      /\ f.id = e /\ f.invoice = Null
  BY <1>1, <1>4 DEF NewId
<1>6. events' = events \cup {f}
  BY <1>3, <1>4
<1>7. /\ events' \subseteq [id : Ids, at : Nat, invoice : Int \cup {Null}, transfer : Int \cup {Null}]
      /\ Unique(events') /\ Persists(events, events')
      /\ \A g \in events' : g.invoice = Null \/ g.transfer = Null
  BY <1>5, <1>6 DEF Tables, TablesOK, Unique, NewId, Persists, Keys
<1> QED BY <1>2, <1>6, <1>7 DEF Tables, TablesOK, TablesKept, Persists

\* A row that is updated keeps its place.
LEMMA Replaced ==
    ASSUME NEW rows, Unique(rows), NEW row \in rows, NEW row2, row2.id = row.id, row2.at = row.at,
           NEW rows2, rows2 = (rows \ {row}) \cup {row2}
    PROVE  Unique(rows2) /\ Persists(rows, rows2)
<1>1. Unique(rows2)
  BY DEF Unique
<1>2. \A r \in rows : \E r2 \in rows2 : Key(r2) = Key(r)
  BY DEF Key
<1> QED BY <1>1, <1>2 DEF Persists, Keys

LEMMA UpdateKeeps ==
    ASSUME Tables,
           \/ \E b \in batches, status \in Verdicts : ChangeBatch(b, status)
           \/ \E d \in drafts, status \in {"created", "unknown"} :
                 \E invoice \in InvoicesOf(d) \cup {Null} : Transition(d, status, invoice)
           \/ \E j \in jobs : Book(j)
    PROVE  TablesKept /\ UNCHANGED <<now, writer>>
<1>1. ASSUME NEW b \in batches, NEW status \in Verdicts, ChangeBatch(b, status)
      PROVE  TablesKept /\ UNCHANGED <<now, writer>>
  <2> DEFINE Run == [id : Ids, at : Nat, status : {"active", "completed", "degraded"}]
             BatchRow == [id : Ids, at : Nat, trial : Ids, status : Verdicts]
             ended(r, verdict) == IF r.id = b.trial THEN [r EXCEPT !.status = verdict] ELSE r
  <2>1. PICK b2 : b2 = [b EXCEPT !.status = status]
    OBVIOUS
  <2>2. batches' = (batches \ {b}) \cup {b2} /\ UNCHANGED <<drafts, events, jobs, now, writer>>
        /\ \/ runs' = runs
           \/ \E verdict \in {"completed", "degraded"} : runs' = {ended(r, verdict) : r \in runs}
    BY <1>1, <2>1 DEF ChangeBatch
  <2>3. b \in BatchRow /\ b2 \in BatchRow /\ b2.id = b.id /\ b2.at = b.at
    BY <2>1 DEF Tables, TablesOK
  <2>4. Unique(batches') /\ Persists(batches, batches')
    BY <2>2, <2>3, Replaced DEF Tables, TablesOK
  <2>5. batches' \subseteq BatchRow
    BY <2>2, <2>3 DEF Tables, TablesOK
  <2>6. \A r \in runs, verdict \in {"completed", "degraded"} :
           /\ ended(r, verdict) \in Run
           /\ ended(r, verdict).id = r.id /\ ended(r, verdict).at = r.at
    BY DEF Tables, TablesOK
  <2> HIDE DEF ended
  <2>7. runs' \subseteq Run /\ Unique(runs') /\ Persists(runs, runs')
    BY <2>2, <2>6 DEF Tables, TablesOK, Unique, Persists, Keys, Key
  <2> QED BY <2>2, <2>4, <2>5, <2>7 DEF Tables, TablesOK, TablesKept, Persists
<1>2. ASSUME NEW d \in drafts, NEW status \in {"created", "unknown"},
             NEW invoice \in InvoicesOf(d) \cup {Null}, Transition(d, status, invoice)
      PROVE  TablesKept /\ UNCHANGED <<now, writer>>
  <2> DEFINE Draft == [id : Ids, at : Nat, batch : Ids, status : {"pending", "created", "unknown"},
                       invoice : Int \cup {Null}]
  <2>1. PICK d2 : d2 = [d EXCEPT !.status = status, !.invoice = invoice]
    OBVIOUS
  <2>2. drafts' = (drafts \ {d}) \cup {d2} /\ UNCHANGED <<runs, batches, events, jobs, now, writer>>
    BY <1>2, <2>1 DEF Transition
  <2>3. d \in Draft /\ invoice \in Int \cup {Null}
    BY Bounded DEF Tables, TablesOK
  <2>4. d2 \in Draft /\ d2.id = d.id /\ d2.at = d.at /\ d2.invoice = invoice
    BY <2>1, <2>3
  <2>5. Unique(drafts') /\ Persists(drafts, drafts')
    BY <2>2, <2>4, Replaced DEF Tables, TablesOK
  <2>6. drafts' \subseteq Draft /\ \A c \in drafts' : c.invoice \in InvoicesOf(c) \cup {Null}
    BY <2>2, <2>4 DEF Tables, TablesOK, InvoicesOf
  <2> QED BY <2>2, <2>5, <2>6 DEF Tables, TablesOK, TablesKept, Persists
<1>3. ASSUME NEW j \in jobs, Book(j) PROVE TablesKept /\ UNCHANGED <<now, writer>>
  <2> DEFINE Job == [id : Ids, at : Nat, event : Ids, invoice : Int, transfer : Int \cup {Null}]
  <2>1. PICK j2 : j2 = [j EXCEPT !.transfer = j.invoice]
    OBVIOUS
  <2>2. jobs' = (jobs \ {j}) \cup {j2} /\ UNCHANGED <<runs, batches, drafts, events, now, writer>>
    BY <1>3, <2>1 DEF Book
  <2>3. j \in Job
    BY DEF Tables, TablesOK
  <2>4. /\ j2 \in Job /\ j2.id = j.id /\ j2.at = j.at /\ j2.event = j.event
        /\ j2.invoice = j.invoice
    BY <2>1, <2>3
  <2>5. Unique(jobs') /\ Persists(jobs, jobs')
    BY <2>2, <2>4, Replaced DEF Tables, TablesOK
  <2>6. /\ jobs' \subseteq Job
        /\ \A i, k \in jobs' : i.invoice = k.invoice => i = k
        /\ \A i \in jobs' : \E e \in events : e.id = i.event /\ e.invoice = i.invoice
    BY <2>2, <2>4 DEF Tables, TablesOK
  <2> QED BY <2>2, <2>5, <2>6 DEF Tables, TablesOK, TablesKept, Persists
<1> QED BY <1>1, <1>2, <1>3

LEMMA WriteKeeps == ASSUME Tables, WritersOK, Write PROVE TablesKept /\ WritersOK'
<1>1. ASSUME NEW w \in Writers, Rollback(w) PROVE TablesKept /\ WritersOK'
  BY <1>1, EndKeeps DEF Rollback, tables, Tables, TablesKept, Persists
<1>2. CASE Tick
  BY <1>2, BoundsAssumption DEF Tick, tables, Tables, TablesKept, Persists, WritersOK
<1>3. ASSUME NEW w \in Writers,
             CommitStart(w) \/ CommitSave(w) \/ CommitCredit(w) \/ CommitTransferEvent(w)
      PROVE  TablesKept /\ WritersOK'
  BY <1>3, EndKeeps, StartKeeps, SaveKeeps, CreditKeeps, TransferEventKeeps
     DEF CommitStart, CommitSave, CommitCredit, CommitTransferEvent
<1>4. ASSUME NEW w \in Writers,
             \/ \E at \in 0 .. MaxTime : Stamp(w, "start", Null, at)
             \/ \E b \in batches : Stamp(w, "save", b.id, now)
             \/ \E invoice \in Bound : Stamp(w, "credit", invoice, now)
             \/ \E j \in jobs : Stamp(w, "transfer", j.invoice, now)
      PROVE  TablesKept /\ WritersOK'
  <2>1. \A b \in batches : b.id \in Ids /\ b.id \in Int
    <3>1. \A n \in Nat : n \in Int
      OBVIOUS
    <3> QED BY <3>1, Bounded, IdsAssumption
  <2>2. now \in 0 .. MaxTime
    BY DEF WritersOK
  <2> QED BY <1>4, <2>1, <2>2, Bounded, StampKeeps
<1>5. CASE \/ \E b \in batches, status \in Verdicts : ChangeBatch(b, status)
           \/ \E d \in drafts, status \in {"created", "unknown"} :
                 \E invoice \in InvoicesOf(d) \cup {Null} : Transition(d, status, invoice)
           \/ \E j \in jobs : Book(j)
  <2>1. TablesKept /\ UNCHANGED <<now, writer>>
    BY <1>5, UpdateKeeps
  <2> QED BY <2>1 DEF WritersOK
<1> QED BY <1>1, <1>2, <1>3, <1>4, <1>5 DEF Write

-----------------------------------------------------------------------------
\* The walk.

WalkOK == /\ walk \in [at : {"select", "count", "done"}, query : Queries,
                       cursor : SortKeys \cup {Null}, page : SUBSET SortKeys,
                       next : SortKeys \cup {Null}, total : Nat]
          /\ walk.page # {} => walk.at = "count"
          /\ listed \subseteq Stored(walk.query) /\ walk.page \subseteq Stored(walk.query)
          /\ lasting \subseteq Selected(walk.query)

\* Where the walk is: everything shown lies before the cursor, everything that is still
\* to be shown behind it.
Selecting == walk.at = "select" =>
    /\ walk.cursor = Null => listed = {}
    /\ walk.cursor # Null => \A k \in listed : k = walk.cursor \/ Precedes(k, walk.cursor)
    /\ \A k \in lasting : k \in listed \/ walk.cursor = Null \/ Precedes(walk.cursor, k)

Counting == walk.at = "count" =>
    /\ \A k \in listed, l \in walk.page : Precedes(k, l)
    /\ walk.next # Null => /\ walk.next \in walk.page
                           /\ \A k \in walk.page : k = walk.next \/ Precedes(k, walk.next)
    /\ \A k \in lasting : \/ k \in listed \/ k \in walk.page
                          \/ walk.next # Null /\ Precedes(walk.next, k)

Undisturbed == quiet => /\ lasting = Selected(walk.query)
                        /\ listed \subseteq Selected(walk.query)
                        /\ walk.page \subseteq Selected(walk.query)
                        /\ walk.at = "done" => walk.total = Cardinality(Selected(walk.query))

ReviewInv == Tables /\ WritersOK /\ WalkOK /\ Selecting /\ Counting /\ NothingLost /\ Undisturbed

LEMMA SelectedSame ==
    ASSUME UNCHANGED tables, walk'.query = walk.query
    PROVE  Selected(walk.query)' = Selected(walk.query) /\ Stored(walk.query)' = Stored(walk.query)
BY DEF tables, Selected, RowsOf, RunRows, BatchRows, InvoiceRows, TransferRows, JobsOf, EventRows,
       TrialInvoices, BatchesOf, Observed, WithCredit, Stored

LEMMA SelectKeeps ==
    ASSUME ReviewInv, NEW limit \in Limits, Select(limit) PROVE ReviewInv'
<1> DEFINE K == After(walk.cursor, Selected(walk.query))
<1>1. PICK found : found = FirstOf(limit + 1, K)
  OBVIOUS
<1>2. PICK page : page = FirstOf(limit, found)
  OBVIOUS
<1>3. PICK next : next = NextCursor(limit, found)
  OBVIOUS
<1>4. /\ walk.at = "select" /\ UNCHANGED <<listed, lasting, quiet, now, writer>>
      /\ walk' = [walk EXCEPT !.at = "count", !.page = page, !.next = next]
      /\ UNCHANGED tables
  BY <1>1, <1>2, <1>3 DEF Select
<1>5. walk.query \in Queries /\ walk.cursor \in SortKeys \cup {Null}
  BY DEF ReviewInv, WalkOK
<1>6. /\ Selected(walk.query) \subseteq Stored(walk.query) /\ Stored(walk.query) \subseteq SortKeys
      /\ IsFiniteSet(Selected(walk.query))
  BY <1>5, SelectedOK DEF ReviewInv
<1>7. K \in SUBSET Selected(walk.query) /\ \A k \in K : walk.cursor = Null \/ Precedes(walk.cursor, k)
  BY DEF After
<1>8. \A k \in Selected(walk.query) : walk.cursor = Null \/ Precedes(walk.cursor, k) => k \in K
  BY DEF After
<1> HIDE DEF K
<1>9. K \subseteq SortKeys /\ IsFiniteSet(K) /\ limit \in Nat \ {0}
  BY <1>6, <1>7, FS_Subset, LimitsAssumption
<1>10. /\ page \subseteq K
       /\ next = Null => page = K
       /\ next # Null => /\ next \in page
                         /\ \A k \in page : k = next \/ Precedes(k, next)
                         /\ \A k \in K \ page : Precedes(next, k)
  BY <1>1, <1>2, <1>3, <1>9, PageOK
<1>11. /\ walk'.at = "count" /\ walk'.page = page /\ walk'.next = next /\ walk'.query = walk.query
       /\ walk' \in [at : {"select", "count", "done"}, query : Queries,
                     cursor : SortKeys \cup {Null}, page : SUBSET SortKeys,
                     next : SortKeys \cup {Null}, total : Nat]
  BY <1>4, <1>9, <1>10 DEF ReviewInv, WalkOK
<1>12. Selected(walk.query)' = Selected(walk.query) /\ Stored(walk.query)' = Stored(walk.query)
  BY <1>4, <1>11, SelectedSame
<1>13. Tables' /\ WritersOK'
  BY <1>4 DEF ReviewInv, Tables, WritersOK, tables
<1>14. WalkOK'
  BY <1>4, <1>6, <1>7, <1>10, <1>11, <1>12 DEF ReviewInv, WalkOK
<1>15. ASSUME NEW k \in listed, NEW l \in page PROVE Precedes(k, l)
  <2>1. walk.cursor # Null /\ Precedes(walk.cursor, l) /\ (k = walk.cursor \/ Precedes(k, walk.cursor))
    BY <1>4, <1>7, <1>10 DEF ReviewInv, Selecting
  <2>2. k \in SortKeys /\ l \in SortKeys /\ walk.cursor \in SortKeys
    BY <1>5, <1>6, <1>9, <1>10, <2>1 DEF ReviewInv, WalkOK
  <2> QED BY <2>1, <2>2, Order
<1>16. ASSUME NEW k \in lasting, k \notin listed
       PROVE  k \in page \/ (next # Null /\ Precedes(next, k))
  <2>1. k \in K
    BY <1>4, <1>8, <1>16 DEF ReviewInv, Selecting, WalkOK
  <2> QED BY <1>10, <2>1
<1>17. Counting' /\ Selecting' /\ NothingLost'
  BY <1>4, <1>10, <1>11, <1>15, <1>16 DEF Counting, Selecting, NothingLost
<1>18. Undisturbed'
  BY <1>4, <1>7, <1>10, <1>11, <1>12 DEF ReviewInv, Undisturbed
<1> QED BY <1>13, <1>14, <1>17, <1>18 DEF ReviewInv

LEMMA CountKeeps == ASSUME ReviewInv, Count PROVE ReviewInv'
<1>1. /\ walk.at = "count" /\ listed' = listed \cup walk.page
      /\ UNCHANGED <<lasting, quiet, now, writer>> /\ UNCHANGED tables
      /\ walk' = [walk EXCEPT !.at = IF walk.next = Null THEN "done" ELSE "select",
                              !.cursor = walk.next, !.page = {}, !.next = Null,
                              !.total = Cardinality(Selected(walk.query))]
  BY DEF Count
<1>2. walk \in [at : {"select", "count", "done"}, query : Queries,
                cursor : SortKeys \cup {Null}, page : SUBSET SortKeys,
                next : SortKeys \cup {Null}, total : Nat]
  BY DEF ReviewInv, WalkOK
<1>3. /\ Selected(walk.query) \subseteq Stored(walk.query) /\ Stored(walk.query) \subseteq SortKeys
      /\ Cardinality(Selected(walk.query)) \in Nat
  BY <1>2, SelectedOK, FS_CardinalityType DEF ReviewInv
<1>4. /\ walk'.at = IF walk.next = Null THEN "done" ELSE "select"
      /\ walk'.cursor = walk.next /\ walk'.page = {} /\ walk'.query = walk.query
      /\ walk'.total = Cardinality(Selected(walk.query))
      /\ walk' \in [at : {"select", "count", "done"}, query : Queries,
                    cursor : SortKeys \cup {Null}, page : SUBSET SortKeys,
                    next : SortKeys \cup {Null}, total : Nat]
  BY <1>1, <1>2, <1>3
<1>5. Selected(walk.query)' = Selected(walk.query) /\ Stored(walk.query)' = Stored(walk.query)
  BY <1>1, <1>4, SelectedSame
<1>6. Tables' /\ WritersOK'
  BY <1>1 DEF ReviewInv, Tables, WritersOK, tables
<1>7. WalkOK'
  BY <1>1, <1>4, <1>5 DEF ReviewInv, WalkOK
<1>8. Counting
  BY DEF ReviewInv
<1>9. Selecting' /\ Counting' /\ NothingLost'
  BY <1>1, <1>4, <1>8 DEF Counting, Selecting, NothingLost
<1>10. Undisturbed'
  BY <1>1, <1>4, <1>5 DEF ReviewInv, Undisturbed
<1> QED BY <1>6, <1>7, <1>9, <1>10 DEF ReviewInv

LEMMA ElsewhereKeeps == ASSUME ReviewInv, Elsewhere PROVE ReviewInv'
<1>1. /\ UNCHANGED <<walk, listed>> /\ lasting' = lasting \cap Selected(walk.query)'
      /\ tables' # tables => ~quiet'
      /\ tables' = tables => quiet' = quiet
  BY DEF Elsewhere
<1>2. TablesKept /\ WritersOK'
  BY WriteKeeps DEF Elsewhere, ReviewInv
<1>3. Tables'
  BY <1>2 DEF TablesKept, Tables
<1>4. Stored(walk.query) \subseteq Stored(walk.query)'
  <2>1. walk.query.list \in {"trials", "batches", "invoices", "transfers", "webhook-events"}
    BY DEF ReviewInv, WalkOK, Queries
  <2> QED BY <1>1, <1>2, <2>1 DEF TablesKept, Persists, Stored, Keys
<1>5. WalkOK'
  BY <1>1, <1>4 DEF ReviewInv, WalkOK
<1>6. Selecting' /\ Counting' /\ NothingLost'
  BY <1>1 DEF ReviewInv, Selecting, Counting, NothingLost
<1>7. Undisturbed'
  <2>1. CASE tables' # tables
    BY <1>1, <2>1 DEF Undisturbed
  <2>2. CASE tables' = tables
    <3>1. Selected(walk.query)' = Selected(walk.query)
      BY <1>1, <2>2, SelectedSame
    <3> QED BY <1>1, <2>2, <3>1 DEF ReviewInv, Undisturbed
  <2> QED BY <2>1, <2>2
<1> QED BY <1>2, <1>3, <1>5, <1>6, <1>7 DEF ReviewInv

LEMMA InitOK == ASSUME Init PROVE ReviewInv
<1>1. PICK p \in Past : /\ runs = p.runs /\ batches = p.batches /\ drafts = p.drafts
                        /\ events = p.events /\ jobs = p.jobs /\ now = p.now
                        /\ \E q \in p.queries : walk = Walk(q)
  BY DEF Init
<1>2. PICK q \in p.queries : walk = Walk(q)
  BY <1>1
<1>3. Tables /\ now \in 0 .. MaxTime /\ q \in Queries
  BY <1>1, PastAssumption DEF Tables
<1>4. writer = [w \in Writers |-> NoTransaction] /\ listed = {} /\ lasting = Selected(walk.query)
  BY DEF Init
<1>5. WritersOK
  BY <1>3, <1>4 DEF WritersOK, NoTransaction, Transactions
<1>6. WalkOK /\ walk.at = "select" /\ walk.cursor = Null /\ walk.page = {}
  BY <1>2, <1>3, <1>4 DEF WalkOK, Walk
<1> QED BY <1>3, <1>4, <1>5, <1>6 DEF ReviewInv, Selecting, Counting, NothingLost, Undisturbed

\* Where the client is in its list, whatever the writers do to it.
THEOREM ReviewInvHolds == Spec => []ReviewInv
<1>1. ASSUME ReviewInv, [Next]_vars PROVE ReviewInv'
  <2>1. CASE Next
    BY <1>1, <2>1, SelectKeeps, CountKeeps, ElsewhereKeeps DEF Next
  <2>2. CASE UNCHANGED vars
    <3>1. UNCHANGED tables /\ UNCHANGED <<now, writer, walk, listed, lasting, quiet>>
      BY <2>2 DEF vars, tables
    <3>2. Selected(walk.query)' = Selected(walk.query) /\ Stored(walk.query)' = Stored(walk.query)
      BY <3>1, SelectedSame
    <3> QED BY <1>1, <3>1, <3>2 DEF ReviewInv, Tables, tables, WritersOK, WalkOK, Selecting,
                                    Counting, NothingLost, Undisturbed
  <2> QED BY <1>1, <2>1, <2>2
<1> QED BY <1>1, InitOK, PTL DEF Spec

\* The type invariant of ReviewLists.
THEOREM ReviewTypeCorrect == Spec => []ReviewTypeOK
<1>1. ReviewInv => ReviewTypeOK
  BY DEF ReviewInv, Tables, WritersOK, WalkOK, ReviewTypeOK
<1> QED BY <1>1, ReviewInvHolds, PTL

\* No row is shown twice, in whatever way rows are inserted and changed between
\* two pages (_mapping_page).
THEOREM PagesContinue == Spec => []PageContinues
<1>1. ASSUME ReviewInv PROVE PageContinues
  <2> SUFFICES ASSUME NEW k \in listed, NEW l \in walk.page PROVE Precedes(k, l) /\ k.id # l.id
    BY DEF PageContinues
  <2>1. Precedes(k, l)
    BY <1>1 DEF ReviewInv, WalkOK, Counting
  <2>2. k \in Stored(walk.query) /\ l \in Stored(walk.query) /\ walk.query \in Queries
    BY <1>1 DEF ReviewInv, WalkOK
  <2>3. k \in SortKeys /\ (k.id = l.id => k = l)
    BY <1>1, <2>2, SelectedOK DEF ReviewInv
  <2> QED BY <2>1, <2>3, Order
<1> QED BY <1>1, ReviewInvHolds, PTL

\* A row that is in the list all the time is shown (_page).
THEOREM NothingIsLost == Spec => []NothingLost
<1>1. ReviewInv => NothingLost
  BY DEF ReviewInv
<1> QED BY <1>1, ReviewInvHolds, PTL

\* The count and the pages agree when nothing else happens.
THEOREM TotalsAgree == Spec => []TotalAddsUp
<1>1. ASSUME ReviewInv PROVE TotalAddsUp
  <2> SUFFICES ASSUME walk.at = "done", quiet PROVE walk.total = Cardinality(listed)
    BY DEF TotalAddsUp
  <2>1. listed = Selected(walk.query)
    BY <1>1 DEF ReviewInv, Undisturbed, NothingLost
  <2> QED BY <1>1, <2>1 DEF ReviewInv, Undisturbed
<1> QED BY <1>1, ReviewInvHolds, PTL

LEMMA IdsAreNumbers == \A id \in Ids : id # Null
<1>1. \A n \in Nat : n \in Int
  OBVIOUS
<1> QED BY <1>1, IdsAssumption, ReviewNullAssumption

\* The lists of a trial fit together (_trial_clauses and the joins of the lists).
THEOREM ChainListed == Spec => []ChainIsListed
<1>1. ASSUME Tables PROVE ChainIsListed
  <2> SUFFICES ASSUME NEW r \in runs,
                      NEW q, q = [list |-> "", trial |-> r.id, status |-> Null, credit |-> "credited"]
               PROVE  /\ \A j \in TransferRows(q) :
                            /\ \E e \in EventRows(q) : e.id = j.event
                            /\ \E d \in InvoiceRows(q) : d.invoice = j.invoice
                      /\ \A e \in EventRows(q) :
                            e.transfer # Null => \E j \in TransferRows(q) : j.transfer = e.transfer
    BY DEF ChainIsListed
  <2>1. q.trial = r.id /\ q.status = Null /\ q.credit = "credited" /\ q.trial # Null
    <3>1. r.id \in Ids
      BY <1>1 DEF Tables, TablesOK
    <3> QED BY <3>1, IdsAreNumbers
  <2>2. \A j \in jobs : \E e \in events : e.id = j.event /\ e.invoice = j.invoice
    BY <1>1 DEF Tables, TablesOK
  <2>3. \A e \in events : e.invoice = Null \/ e.transfer = Null
    BY <1>1 DEF Tables, TablesOK
  <2>4. TransferRows(q) = JobsOf(q.trial)
    BY <2>1 DEF TransferRows
  <2>5. \A j \in JobsOf(q.trial) : j \in jobs /\ j.invoice \in TrialInvoices(q.trial)
    BY DEF JobsOf
  <2>6. ASSUME NEW j \in JobsOf(q.trial)
        PROVE  /\ \E e \in EventRows(q) : e.id = j.event
               /\ \E d \in InvoiceRows(q) : d.invoice = j.invoice
    <3>1. PICK e \in events : e.id = j.event /\ e.invoice = j.invoice
      BY <2>2, <2>5
    <3>2. e \in EventRows(q)
      BY <2>5, <3>1 DEF EventRows
    <3>3. PICK d \in drafts : d.batch \in BatchesOf(q.trial) /\ d.invoice = j.invoice /\ d.invoice # Null
      BY <2>5 DEF TrialInvoices
    <3>4. d.invoice \in Observed
      BY <3>1, <3>3 DEF Observed
    <3>5. d \in InvoiceRows(q)
      BY <2>1, <3>3, <3>4 DEF InvoiceRows, WithCredit, Is
    <3> QED BY <3>1, <3>2, <3>3, <3>5
  <2>7. ASSUME NEW e \in EventRows(q), e.transfer # Null
        PROVE  \E j \in JobsOf(q.trial) : j.transfer = e.transfer
    BY <2>1, <2>3, <2>7 DEF EventRows, TrialInvoices
  <2> QED BY <2>4, <2>6, <2>7
<1>2. ReviewInv => ChainIsListed
  BY <1>1 DEF ReviewInv
<1> QED BY <1>2, ReviewInvHolds, PTL

=============================================================================
