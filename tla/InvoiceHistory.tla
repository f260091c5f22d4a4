--------------------------- MODULE InvoiceHistory ---------------------------
(***************************************************************************)
(* InvoiceIssuing with history variables that remember what the code       *)
(* cannot guard against: a process that dies, or is ended by the database, *)
(* with a draft in its hands, a create request that is still under way     *)
(* when its answer is given up, a tick that starts beside another one; and,*)
(* of a credit, that the rows it has read were written by others before it *)
(* writes the draft.                                                       *)
(***************************************************************************)
EXTENDS InvoiceIssuing

VARIABLES disturbed,   \* one of the first three has happened
          overtaken,   \* the requests whose rows were written since their first SELECT
          torn         \* the drafts that such a request was the last to write

historyVars == <<vars, disturbed, overtaken, torn>>

Runs(p) == proc[p].at # "idle"

Disturbance == \/ \E p, q \in Ticks : p # q /\ Runs(p) /\ Runs(q)
               \/ crashes > 0
               \/ \E d \in Drafts : late[d] > 0

GivesUp == \E p \in Ticks : DeadlockVictim(p)

Written(d) == drafts'[d] # drafts[d] \/ owner'[d] # owner[d]

\* A request that holds the owner binds it, whatever is written meanwhile.
Overtakes(r) == r \in overtaken /\ ~credit[r].bound

Remember ==
    /\ disturbed' = (disturbed \/ Disturbance' \/ GivesUp)
    /\ overtaken' = {r \in Requests : /\ credit[r].at # "idle" /\ credit'[r].at # "idle"
                                      /\ r \in overtaken \/ Written(credit[r].invoice[1])}
    /\ torn' = {d \in Drafts : IF drafts'[d] = drafts[d] THEN d \in torn
                               ELSE \E r \in Requests : BindDraft(r) /\ Overtakes(r)}

HistoryInit == Init /\ disturbed = FALSE /\ overtaken = {} /\ torn = {}

HistoryNext == Next /\ Remember

HistorySpec == HistoryInit /\ [][HistoryNext]_historyVars

\* When time waits for the processes, as in TimelySpec.
TimelyHistoryNext == /\ \/ \E p \in Ticks : TickStep(p)
                        \/ \E p \in Reconcilers : ReconcileStep(p)
                        \/ Environment
                        \/ Quiet /\ Clock
                     /\ Remember

TimelyHistorySpec == HistoryInit /\ [][TimelyHistoryNext]_historyVars /\ TimelyFairness

\* As long as no tick starts beside another one, dies or is the victim of a deadlock,
\* and no request is late, no draft is issued twice: neither lost answers, nor a
\* reconcile that settles the batch of a running tick, nor the webhook that binds a
\* draft in between make a tick ask the provider for an invoice that it already has
\* (_issue_draft, _settle_attempted_draft, reconcile).
OneInvoiceUndisturbed == disturbed \/ \A d \in Drafts : issued[d] <= 1

\* A CREATED draft has an invoice that the provider has booked with its tag, and its
\* owner, which the webhook asks, has the same one, however ticks, reconciles and
\* credits are interleaved (_transition, retry, reconcile and _owns_invoice write the
\* two rows on different paths).  The exception is a credit that found the owner
\* bound, by its id or when it wanted to bind it, after which the draft was set back
\* or bound by another transaction: it writes the draft and leaves the owner alone.
CreatedIsOwned ==
    \A d \in Drafts : drafts[d].status = "created" =>
        /\ \E n \in 1 .. issued[d] : drafts[d].invoice = <<d, n>>
        /\ d \in torn \/ owner[d] = drafts[d].invoice

-----------------------------------------------------------------------------
\* Why this holds: what the one running tick knows while nobody disturbs it.

\* An invoice leaves its trace in the row of the draft, or the tick that asked for
\* it is about to write one.
InvoicesLeaveTraces ==
    \A d \in Drafts : issued[d] > 0 =>
        \/ drafts[d].attempts > 0
        \/ \E p \in Ticks : proc[p].at = "write" /\ Current(p).draft = d

\* Of a draft that was read as untried and is not reached yet there is no invoice,
\* nor of the one that the tick is about to ask for.
Working == {"find", "create", "write"}

UntriedStaysUntried ==
    \A p \in Ticks : proc[p].at \in Working =>
        \A x \in proc[p].todo :
            x # Current(p) /\ x.attempts = 0 => issued[x.draft] = 0

CreatesTheFirst ==
    \A p \in Ticks : proc[p].at = "create" => issued[Current(p).draft] = 0

\* A tick takes each draft once.
DraftsTakenOnce ==
    \A p \in Ticks : \A x, y \in proc[p].todo : x.draft = y.draft => x = y

\* Why CreatedIsOwned holds: what a request has read of the owner is true until it is
\* overtaken, and nobody else writes the owner that it holds.
ReadIsTrue ==
    \A r \in Requests :
        LET id == credit[r].invoice
            bound == credit[r].bound
        IN  /\ credit[r].at = "tag" /\ r \notin overtaken => owner[id[1]] # id
            /\ credit[r].at = "owner" /\ r \notin overtaken => owner[id[1]] = Null
            /\ credit[r].at = "draft" /\ ~bound /\ r \notin overtaken => owner[id[1]] = id
            /\ bound => credit[r].at = "draft" /\ owner[id[1]] = Null

OneHolds ==
    \A r, q \in Requests :
        credit[r].bound /\ credit[q].bound /\ credit[r].invoice[1] = credit[q].invoice[1]
        => r = q

HistoryInv ==
    /\ DraftsTakenOnce
    /\ ReadIsTrue /\ OneHolds /\ CreatedIsOwned
    /\ disturbed \/ /\ ~Disturbance
                    /\ InvoicesLeaveTraces /\ UntriedStaysUntried /\ CreatesTheFirst
                    /\ OneInvoiceUndisturbed

=============================================================================
