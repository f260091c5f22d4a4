# Verification of starkbank-trial

TLA+ modules, TLC runs and TLAPS proofs about the program in `src/starkbank_trial`: a service
that issues random invoices through Stark Bank on a schedule, receives the webhook events of
their credits, and sends each credited net amount on as one transfer.

The provider moves money and forgets nothing, the processes are restarted and overlap, and a
timeout says nothing about what happened. Hence the questions asked here: is a transfer ever
paid twice, is an accepted credit ever lost, is an invoice issued twice, do commands that run
side by side undo each other's work, does what is shown agree with what is, and does everything
come to an end.

## The system

| Component | State | Operations | Hard because |
| --- | --- | --- | --- |
| Transfer worker, `application/transfers.py`, `persistence/transfer_store.py` | `transfer_jobs`: status, attempts, next_attempt_at, lease_until | `claim`, `process_one` and its handlers, `_finish` | leases run out under live workers; a create request times out and arrives later; workers die |
| Provider status, `transfer_store.py`, `event_store.py`, `cli.py` | provider_status, provider_status_updated_at of a job | `_finish`, `_record_transfer_event`, `refresh_provider_status` | three writers, no lock, events out of order |
| Webhook and event store, `http/app.py`, `application/webhooks.py`, `persistence/event_store.py` | `webhook_events`, `owned_invoices`, `transfer_jobs` | `record`, `record_ignored_workspace` | concurrent and repeated deliveries, one transaction of many statements under READ COMMITTED, deadlocks |
| Invoice issuing, `application/trials.py`, `persistence/invoice_store.py`, `trial_store.py` | `invoice_batches`, `invoice_drafts`, `owned_invoices` | `trial tick`, `trial reconcile` | cron overlap, lost answers, a provider that books any number of invoices with one tag |
| Trial runs, `trial_store.py`, `invoice_store.py` | `trial_runs`, `invoice_batches` | `create`, `settle`, `_degrade_exhausted_batches` | two transactions end the last two batches at once |
| Provider client, `infrastructure/starkbank_client.py` | none | `ensure_transfer`, `find_transfer`, `create_invoice`, `find_invoice`, `verify_event`, webhook administration | classes of errors decide what is retried |
| Smoke invoices, `application/smoke.py`, `persistence/invoice_store.py` | `owned_invoices` | `SmokeBatchService.run`, `register_smoke`, `record_smoke` | stops in the middle, is run again, runs twice at once, and the webhook binds the same tag |
| Webhook administration, `cli.py`, client, `live-mode.sh` | the provider's webhooks, the environment file | `setup-webhook`, `cleanup-webhooks`, the preflight of `worker run` | a failure between delete and create; nobody knows of the others; writes are switched off under a running process |
| Review API, `http/review.py`, `persistence/review_store.py` | none | five lists with filters, cursors and totals | pages while rows are inserted with earlier timestamps and filters change; two statements for one page |
| Schema and migrations; CLI, settings, logging; schedule, payers, money; deployment scripts | - | - | - |

They meet in the database. The webhook queues jobs (`_queue_transfer`) that the worker claims;
the worker's transfer makes the provider emit transfer events that come back to the webhook; the
issuer and the webhook both write `owned_invoices` and `invoice_drafts`; tick and reconcile both
settle batches, and the settling of a batch may end the run. There are no messages and no shared
memory: what one process knows of another is a row, a lease and a clock.

What makes each of them correct: one transfer per invoice and none reported that does not exist,
one holder of a job, every job settled in the end (worker); the latest status shown (provider
status); one job per invoice, no outcome without its job, only our own credits, every one of them
queued (webhook); one invoice per draft, draft and owner in agreement, no COMPLETED batch without
its invoices, every batch settled (issuing); a run that ends as its batches do (runs); a retry that
reuses what is there, what is printed bound to its tag, a binding that lasts, a batch that completes
(smoke invoices); a
complete webhook in the end and never one deleted, no write after the emergency stop, true output
(webhook administration); nothing repeated and nothing lost between pages, totals that add up,
lists that agree with each other (review API).
`PROJECT.json` lists the hazards behind these properties, each at its line of the code.

## Modules

| Module | Models |
| --- | --- |
| `TransferLedger` | abstract: a credit is owed, paid at most once, and settled once |
| `TransferDispatch` | the job queue, the workers, and the provider's transfer endpoint; implements `TransferLedger` |
| `TransferTimely` | `TransferDispatch` when time waits for the workers; liveness |
| `ProviderStatus` | extends `TransferDispatch` with the status columns, the webhook's transfer events and the sync command |
| `CreditInbox` | abstract: one verdict on each event, and one queued credit for each invoice |
| `CreditEvents` | the transaction of `EventStore.record` beside the writers of `owned_invoices`; implements `CreditInbox` |
| `CreditToTransfer` | `CreditEvents` and `TransferDispatch` over one table of jobs; proofs only |
| `SmokeBatch` | extends `CreditEvents` with the smoke commands and the provider's invoices |
| `InvoiceIssuing` | the drafts, owners and lease of one batch under ticks, reconciles and the webhook |
| `InvoiceHistory` | `InvoiceIssuing` with the history of deaths, late requests, overlaps and overtaken credits, at any speed and when time waits for the processes |
| `TrialRun` | runs and batches under concurrent settle and degrade transactions |
| `WebhookSetup` | the provider's webhooks for one URL under the commands, the workers and `live-mode.sh` |
| `ReviewLists` | the walk of a client through a list, page by page, beside all writers of the tables |
| `..._proofs` | theorems of `TransferDispatch`, `ProviderStatus`, `CreditEvents`, `SmokeBatch`, `InvoiceIssuing`, `TrialRun`, `WebhookSetup`, `ReviewLists` |
| `MC...` | model values, symmetry and small worlds for TLC |

Operators named `Wrong...` are slips of the kind a change to the code could bring in (a dropped
guard, a count taken before the update). Nothing uses them: each takes the place of the definition
after it, and then one of the properties must fail.

### Granularity

A transaction that is one statement or holds its row from the first read (`claim` with FOR UPDATE
SKIP LOCKED, `_finish`, `claim_due_batch`) is one action. Where a transaction reads without a lock
and writes later, each statement is an action (`CreditEvents`, `TrialRun`, `SaveRead` and
`SaveInsert`, `ReadCounter` and the UPDATE after it, `FindOwnerById` to `BindDraft`, `SettleCount`
and `SettleWrite`, `ReceiveEvent` and `RecordEvent`, `ReadOwner` and `BindOwner`, `Select` and
`Count`). Every call to the provider is an action of its own, and so is every reading of the clock
that is used later. The writers of `ReviewLists` commit in one action what a reader can see of them
at once; how their statements mix is the matter of the other modules.

### From code to model

* `TransferDispatch`. `jobs[i]` is the row of the job of invoice `i`; "absent" is no row.
  `pc[w]`, `at[w]`, `claim[w]`, `result[w]` are the locals of `process_one`: `ReadClock` and
  `ClaimJob` are `_claim`, `Start` the second reading of the clock, `EnsureLookup` to `Recheck`
  the calls of `ensure_transfer`, `FinalLookup` is `_finalize_after_lookup`, `ReconcileLookup`
  `_reconcile_unknown`, `Finish` the UPDATE of `_finish`. `inflight` are create requests whose
  answer is lost and which `Arrive` may still book. `Crash` is a killed worker, or one that ends
  with an exception nobody catches. `Enqueue(i, received)` is the COMMIT of `_queue_transfer`, with the
  clock reading of the receipt, which may be older. Amounts, error codes and tags are left out.
* `ProviderStatus`. A status is the number of its revision at the provider, so "newer" is `<`.
  `remote` is the transfer as the provider has it, `events` what it has emitted; `ReceiveEvent`
  may take any of them any number of times. Events carry the clock of the provider (`ProviderNow`),
  `_finish` and the sync command write ours. `Legacy` jobs come from before migration 0003. No action
  of the code reads `settledAt`, `since` and `overlapped`: when a job was settled, which events of the
  same transfer were recorded after the SELECT of a request, and which events such requests have
  hidden, or may have found old by a status that was replaced since.
* `CreditEvents`. `req[r].at` is the next statement of the transaction of request `r`. A
  statement waits while another transaction holds the row or the key (`EventHeld`, `JobHeld`,
  `OwnerHeld`, `DraftHeld`, `BindingHeld`). What a transaction wrote is in `req[r]` until
  `Commit`. `DeadlockVictim` is the one deadlock the code has: the webhook locks owner, then
  draft, `_transition` draft, then owner.
* `CreditToTransfer`. A row of `transfer_jobs` is seen twice: `jobs` is the set of credits it came from,
  `rows` the columns of its dispatch. A COMMIT of a request that adds to the one sets the other
  (`CreditStep`); a step of a worker, of the provider or of the clock is one of `TransferDispatch` and
  leaves the tables of the requests alone (`DispatchStep`). The transfer events that come back to
  the webhook are in `ProviderStatus`.
* `InvoiceIssuing`. `drafts` and `owner` are the two rows of each ordinal; `issued[d]` counts the
  invoices the provider has with the tag of draft `d`, `late[d]` the requests under way.
  `ClaimDueBatch` to `WriteOutcome` is `tick`, `Unknown` to `Reconcile` is `reconcile_invoices`,
  and both end in `SettleCount` and `SettleWrite`. `retry` and `reconcile` read the counter that they
  write back in a statement of its own (`ReadCounter`). `credit[r]` is the transaction of a webhook
  request in `_owns_invoice`: `FindOwnerById` and `FindOwnerByTag` are its SELECTs, `BindOwner` the
  UPDATE of the owner where it is NULL, whose row count is not looked at, `BindDraft` the UPDATE of the
  draft with the COMMIT. `credit[r].bound` says that the transaction has changed the owner and holds its
  row, for which `_transition` waits; as `_transition` holds the draft by then, this is a deadlock,
  which ends one of the two (`DeadlockVictim`, `RollbackCredit`). The other statements of the
  transaction are in `CreditEvents`.
* `InvoiceHistory` adds what no action of the code reads: `disturbed`; `overtaken`, the requests
  whose draft or owner was written by others since their first SELECT; and `torn`, the drafts last
  written by such a request that had not bound the owner itself.
* `SmokeBatch`. `command[p]` is where `SmokeBatchService.run` is and the invoice it has found or
  created, `returned[p]` its result. `booked` and `late` are the provider's invoices and the create
  requests under way. `RegisterSmoke` to `BindOwner` are the calls for one ordinal in their order;
  `ReadOwner` and `BindOwner` are the SELECT and the UPDATE of `bind_provider_invoice`, the second
  of which waits for the webhook that holds the row. The commands take the place of the issuers of
  `CreditEvents`, whose requests run as they are. `disturbed` and `contested` are history: two
  commands have overlapped or a request is late; and the tags of which a command has returned an
  invoice while another one was between SELECT and UPDATE.
* `WebhookSetup`. `webhooks`, `creating` and `deleting` are the provider and the requests on the way
  to it. `proc[p]` is where a command or worker is and what it has read: `stale` by the first look
  of the command, `todo` by the second, inside `ensure_webhook`. `mode`, `outdated` and `script` are
  the environment file, the containers older than it, and `live-mode.sh`; `shown` is what a command
  printed last. A webhook is complete if it has all subscriptions; which ones is left out.
* `ReviewLists`. The tables hold primary keys, the timestamps the lists sort by, and the columns that
  filters and joins look at. `Select` and `Count` are the two statements of `_mapping_page`, `walk`
  is the client with its cursor, `writer[w]` a transaction and the time it has read, which is older
  than its commit. A cursor is the sort key itself; its encoding keeps it.
  `ChangeBatch` is `settle` with `_settle_run`, which may reopen a batch and end a run either way.
* `TrialRun`. `txn[p]` holds what the transaction of process `p` wrote and decided.
  `SettleBatch`, `SettleRun`, `UpdateRuns`, `Commit` is `settle`; `DegradeBatches`, `SelectRuns`,
  `UpdateRuns`, `Commit` is `_degrade_exhausted_batches`. Any status may come out of the drafts.

## Runs

| Run | Instance | Shows |
| --- | --- | --- |
| `transfer_dispatch` | 1 job, 2 workers, 3 attempts, 2 deaths, clock to 5 | one transfer, no outcome of a superseded worker, and the ledger is implemented: nothing is reported as succeeded that is not booked, nothing settled changes |
| `transfer_liveness` | 2 jobs, 2 workers, 1 death | every accepted credit is settled, within the attempts, and nobody asks for the transfer of a settled job |
| `provider_status` | 2 workers, 2 requests, sync command, a legacy job | later updates are shown, except what overlapping requests hide from each other, and a settled job shows a status, with a provider whose clock is ahead |
| `provider_status_overwritten` | violation | a worker that gives up writes NULL over the status a transfer event has stored |
| `credit_events` | 2 requests, 1 issuer, 5 deliveries, a failure | no outcome without its job, only our credits, the inbox is implemented |
| `smoke_batch` | 2 commands, 1 request, a tag with 2 possible invoices, a fault, a death, a failure | a retry reuses, what is printed is bound, a binding with no command in the middle of it is final, the batch completes, the credit is queued |
| `invoice_overlap` | 2 drafts, 2 ticks, reconcile, 1 webhook request, a death, a late request | draft and owner agree but for overtaken credits, COMPLETED is true, the batch is settled for good, no draft issued twice before the first disturbance |
| `invoice_duplicate` | violation | reconcile frees a running tick's batch and a draft is issued twice |
| `trial_runs` | 2 runs of 2 batches, 2 processes | how the end of batches becomes the end of the run |
| `trial_stuck` | violation | two settles that overlap leave a run ACTIVE for ever |
| `webhook_setup` | 1 operator, 1 worker, 2 old webhooks, 2 faults, a death, a switch | the URL gets a complete webhook that nobody deletes, output is true, a disabled worker writes nothing |
| `review_lists` | 2 histories, 7 queries, 1 writer, 2 changes, pages of 1 and 2 | nothing repeated, nothing lost, totals add up, the lists of a trial agree, the walk ends |

### Bounds

`MaxTime`, `MaxCrashes`, `MaxKills`, `MaxFaults`, `MaxSwitches`, `MaxId`, `MaxLate`, `MaxWrites`,
`MaxFailures`, `MaxRevision`, `RunCount` and `LastCredit` bound what is unbounded in the program.
Each is large enough for what it has to show:

* The clock goes beyond a lease, so that a job is claimed under a live worker and
  again under that one. Two workers are enough for a superseded and a current holder; a third
  adds no new pair. `transfer_dispatch` has one job because jobs meet only in the order of
  claims; the liveness run has two, and the proofs any number.
* `transfer_liveness` accepts credits at 0 and ends at 6. A backoff of 1, and a lease of 2 that a
  death leaves behind, settle each job by 3: the bound of the clock excuses no job that is left.
  `invoice_overlap` is bounded likewise: its clock ends at 4. There one of the two drafts is paid (`Paid`)
  and has the create request that may be late (`Slow`), so that all transactions meet at it; the
  other one is what the batch has to wait for. The proofs allow any drafts in both sets.
* `MaxAttempts` and `BatchMaxAttempts` of 2 or 3 have a first, a middle and a last attempt. The
  proofs hold for every value.
* `provider_status` has the provider's clock one reading ahead, so that an update made at the reading
  of the settlement already has a later time, and the clock of the workers goes to 1: enough for
  two revisions with different times, one of them after the settlement by both clocks. Two
  requests are the pair that reads before and writes after each other. The proof allows every
  difference, and any number of requests.
* Two requests are the pair that races for a key. The deliveries of `MCCreditEvents` hold two
  events of one invoice, a second invoice of one draft, changed content under one id, an invoice
  with the tags of two owners and one of another environment. Ignored and foreign events end
  after their insert, as the one that is not payable does. One write of the issuer is one that a
  request can meet at each of its statements; the proofs allow any number.
* `LeaseSeconds = 9` in `invoice_duplicate` is beyond `MaxTime`: this run asks about overlap
  inside a lease. `invoice_overlap` has a lease of 1 and lets it run out.
* `smoke_batch` has one tag, as the tags of a batch are handled one after the other and meet in
  nothing but the output. Two invoices of it are enough to be wrong about which one is bound: a command
  that has read NULL does replace what the webhook or the other command bound.
* `webhook_setup`: one command and one worker are two processes that replace at once; one fault
  leaves a request under way and a second one hits the process that meets it. `MaxId` is out of
  reach, so that the bound stops no process.
* `review_lists`: with ids of 1 to 3 and readings of the clock a row may be inserted before, between
  and after what was shown, also with a time equal to that of the cursor. The two histories hold
  an active run and an ended one, a draft issued twice, and a smoke invoice; the queries use each
  list and each kind of filter, and a page of 1 makes every row the last of its page once.

The `invoice_...` runs turn deadlock checking off: a settled batch whose clock is at its bound has
nothing left to do. In all other runs some process can always go on (a worker polls, a request is
delivered or rolled back, a command is started again, a transaction starts).

### Fairness

* Workers: `worker_run` loops for ever and compose restarts it; hence weak fairness of
  `WorkerStep`. Time: weak fairness of the clock. Nothing is asked of the provider, of deaths, of
  delayed requests: they may happen or not.
* `TransferTimely` and `TimelySpec` of `InvoiceIssuing` let time pass only while no process has
  anything to do at the present reading (a call takes seconds, a lease minutes), and
  `TransferTimely` has an event received and committed at one reading. Without this a
  worker may be overtaken by its lease at each attempt, and the code promises nothing.
* Ticks: the crontab starts one every minute. A reconcile that runs goes on, none need be started; a
  webhook transaction that has begun ends, by COMMIT or rollback, none need begin.
  The clock needs strong fairness, since a reconcile may start again and again between two readings.
* Requests and running commands in `SmokeBatch`: strong fairness, because locks come and go and the
  database gives them out in turn. The provider delivers an event until it is answered with 200,
  and the database breaks deadlocks. The operator of one command runs it again until it is done
  (docs/SANDBOX.md); nothing is asked of the other one.
* `WebhookSetup`: a process that runs goes on, and the operator runs `setup-webhook` again; nothing
  is asked of faults, deaths, late requests and `live-mode.sh`.
* `ReviewLists`: the server answers. That the walk ends needs no fairness of the client's choices.

### Assumptions

* One clock for all processes. That of the provider differs from it by a constant (`Skew` in
  `ProviderStatus`): `LaterUpdatesShown` speaks of updates that are later than the settlement by both.
  Requests may overlap (gunicorn runs two workers of four threads); what they then hide from
  each other is `overlapped`.
* The provider refuses a second transfer with the same external_id and answers lookups with what
  it has booked.
* `OneInvoiceUndisturbed` ends with the first death of a process, late create request or start of a
  tick beside another: a tick that dies after the provider has booked and before `created` is
  written leaves `attempts = 0`, and the next one creates without a lookup. `RetryReuses` and
  `CreatesOnce` are limited in the same way, by their variables `disturbed`. The victim of a deadlock
  counts as a death.
* `CreatedIsOwned` exempts the drafts in `torn`, `ReturnedIsBound` the tags in `contested`: in
  both the code reads a row, and later writes what may no longer agree with it.
* Deliveries with one payload are the same delivery (`payload_hash`).
* Timestamps of two transactions are read before they commit, in any order; PostgreSQL compares
  the pair (timestamp, id) as `Precedes` does.

## Where the code and its documents disagree

Each is a run that ends in the violation of one property (`findings` in `PROJECT.json`).

1. `provider_status_overwritten`: provider_status is not always the latest status received
   (docs/REVIEW_API.md:63). The provider books a transfer and its answer is lost; the final lookup of the
   last attempt fails, which counts as not found; a request records the event of the transfer and
   stores its status; then `_finish` writes `permanent_failure` with NULL over it. That is the
   shortest trace. `ShowsLatestReceived` fails in longer ones as well:
   `_finish` with success writes the older status that its call has returned; on a legacy job beside
   one sync command (`refresh_provider_status` updates by id only); and with two requests (both pass
   the staleness test before either has written).
2. `invoice_duplicate`: `settle` clears a lease it does not hold; overlap of reconcile and two
   ticks issues a draft twice (README.md:87).
3. `trial_stuck`: `_settle_run` counts without a lock; overlap of the last two settles leaves the
   run ACTIVE, and its marker refuses the next one (README.md:87).

More were met on the way and have no run of their own:

* A credit whose rows are written between its statements leaves a draft CREATED without its owner: the
  request finds the owner by id, or finds it bound when it wants to bind it; an `unknown_result`, a
  `retry` or a `created` of a tick or reconcile sets the rows back or binds another invoice; and the
  UPDATE of the draft, which asks for NULL or the same id only, writes the draft alone
  (event_store.py:209-268). These are the drafts in `torn`; every other one agrees (`CreatedIsOwned`).
* One command is enough to replace a binding: between its SELECT, which finds NULL, and its UPDATE,
  which names the tag only (invoice_store.py:137-146), the webhook may bind another invoice of the tag.
  What such a command replaces may be what another one has printed (`contested`).
* Of two transfer events whose requests overlap the older one may be shown (`overlapped`):
  event_store.py:82 tests and updates in two statements.
* Of two redeliveries of an `invoice_unknown` event the loser marks the event that owns the job as
  `duplicate_invoice` (event_store.py:181, README.md:89). The job itself is safe (`OneJobPerCredit`),
  and in the inbox both outcomes are one verdict (`ImplementsInbox`).
* `record_ignored_workspace` stores the event of another workspace, of which SECURITY.md:32 says
  that it is not persisted.
* `_finalize_after_lookup` does not catch `ProviderPermanentError`: the worker ends, and as `claim`
  does not look at the maximum of attempts, the job is tried once more; `AttemptsBounded` counts
  such an end among the deaths.
* `setup-webhook` prints `replaced_webhook_ids` from its first look (cli.py:172); when the second one,
  in `ensure_webhook`, finds a complete webhook nothing was deleted. `OutputIsTrue` therefore speaks of
  `replaced` for `cleanup-webhooks` only.
* `credit_status=not_observed` is a NOT IN on `provider_invoice_id`: a draft without one is left out,
  though the list shows such drafts as `not_observed` (`WithCredit`).
* `pagination.limit` of an answer is the number of its items (`page_response` in http/review.py), not
  the limit that was asked for (docs/REVIEW_API.md:50).
* `live-mode.sh` says that the previous mode is restored even if its second `compose up` failed
  (`RecreateFails`), recreates the services only, so that a command that runs in a container of its
  own goes on (docs/OPERATIONS.md:94; `DisabledStops` speaks of workers), and reads and writes the
  environment file beside `release.sh`, which may put back the mode it had read.

## Proofs

All theorems hold for any number of invoices, workers, requests, deliveries, drafts, runs, batches,
webhooks, rows and processes and every value of the durations and maxima. The assumptions are the
named `ASSUME`s of the modules: durations and maxima are positive; NULL is no number, key or row;
ticks are not reconciles, requests not issuers, operators not workers; the payload tells deliveries
apart; row numbers are finitely many positive integers and the tables before a walk are ones that
the schema allows; the jobs settled before the status columns are finitely many; a smoke batch has
at least one ordinal, an invoice one tag, and its events carry it.

* `TransferDispatch_proofs`. `IndInv` is `TypeOK` with what makes the others inductive.
  `CommandsWellFormed` (every request was built by `build_transfer_command`) and the key
  external_id give `AtMostOneTransfer`. `SuccessIsBooked` gives `SucceededMeansBooked`. `OneHolder`
  is not inductive: a worker that read the clock long ago could give out a lease equal to an
  older one. `LeaseAge` (a lease ends no later than `LeaseSeconds` after its holder's last reading),
  `LeaseOrder` (the row has the latest of all leases, and a waiting row cannot be claimed at a
  reading that would repeat one) and `LeasesDiffer` say why it cannot. From these follow
  `NoStaleOutcome`, `SettledIsFinal` and `ImplementsLedger`: each step maps to a step of
  `TransferLedger` or a stutter, with the pair (status, transfers) for (outcome, paid).
  `OnlyCreditsRequested` is what a payment needs for its debt: no request without a row.

  The timely clock (`TransferTimely`) adds `TimelyInv`. While time waits for the workers, one that is
  inside a job has the row as it claimed it (`HolderIsPrompt`), because nothing is due longer than
  the present reading (`NothingOverdue`) and a worker with an old reading finds nothing to claim. So a
  row that waits, or that a dead worker has left, has an attempt left (`AttemptLeft`, with
  `RetriesInTime` for what a worker is about to write), each death using up one more:
  `AttemptsBounded`. And a worker that asks the provider holds a row that is not settled:
  `SettledAsksNothing`. Without the timely clock both fail.
* `ProviderStatus_proofs`, on top of `IndInv`, because every step is one of `TransferDispatch` or a
  stutter (`StatusStep`). `StatusInv`: a job is settled when `settledAt` says so, and the events of
  a transfer are ordered by time as by revision. `LaterUpdatesShown` needs two more facts, for any
  number of requests: `ShownOK`, that what is newer than the settlement came with an event and is
  as new as all later ones that are recorded and not `overlapped`, and `DecisionOK`, that what a request
  decided is right when it writes, but for what was recorded `since` its SELECT.
* `InvoiceIssuing_proofs`. `IssuingInv`: what a process or a request is about to write is true
  (`WritesWhatIsBooked`, `BindsWhatIsBooked`, `SettlesWhatIsIssued`) and stays so, because the provider
  never takes an invoice back. Without these `CreatedIsBooked` and `CompletedMeansIssued` are not
  inductive, as the answer and the write are different steps.

  The theorems about `HistorySpec` hold however slow a process is; what TLC runs is the timely part of it
  (`TimelyHistoryRefines`). `CreatedIsOwned` follows from `ReadIsTrue` and `OneHolds` in `HistoryInv`:
  what a request has read of the owner is true until it is overtaken, so that one that finds the
  owner bound writes the same invoice to the draft; and the owner that it has changed itself is
  held, by it alone, until it commits both.

  `HistoryInv` gives `OneInvoiceUndisturbed` as well. Until the first disturbance one tick
  runs at a time, so an invoice has left its trace in `attempts` or that tick is about to write it
  (`InvoicesLeaveTraces`), drafts that it read as untried and has not reached have no invoice
  (`UntriedStaysUntried`), and before a create request there is none either (`CreatesTheFirst`). A reconcile
  that settles the batch under the tick, and a credit that binds a draft, disturb none of these.
* `TrialRun_proofs`. `TrialInv`: `TxnOK` says that what an open transaction has decided agrees with
  its rows and with what was completed before; `SeesUnfinished` that, without overlap, one that
  ends no run has seen a batch that is unfinished still. `TransactionStep` covers all steps
  that leave the tables alone.

* `CreditEvents_proofs`. `CreditInv` says what an open transaction knows: `RequestOK` and `IssuerOK`
  for each statement it may be at (whose owner it has read, which row it has inserted and not yet
  committed), and `Apart`, that no two transactions hold the same key. The second is what the waiting
  in `EventHeld`, `JobHeld` and the others is for; with it a commit cannot add a second job
  (`OneJob`), nor an outcome whose job is another transaction's (`AcceptedHasJob`).
  `ImplementsInbox`: `CommitJudges` maps each COMMIT to a step of `CreditInbox` or a stutter. A
  request that recovers an event has read its row before; `Recorded` says that the row is not
  refused by then, and `AcceptedOK` that, if it is accepted, the job is there and this
  request inserts none.

  The last section composes the halves (`CreditToTransfer`). `FlowInv` is `CreditInv`, the `IndInv` of
  the workers, taken from `TransferDispatch_proofs` by INSTANCE, and `OneTable`. A COMMIT adds at most
  one job, of an invoice without a row (`JobsGrow`, from `ImplementsInbox` step by step), hence it is an
  `Enqueue` (`CreditsEnqueue`); a worker never brings a row into being or removes one
  (`NothingClaimsAbsent`, `RowsRemain`). So the whole is a behaviour of `CreditEvents` (`FlowIsCredits`)
  and of `TransferDispatch` (`FlowIsDispatch`), inherits the theorems of both, and promises what
  neither can say alone: an accepted credit has a row that is worked on or settled
  (`AcceptedIsDispatched`), and only credits of our own invoices are paid (`PaymentsAreOurs`).
  `FlowImplementsLedger` states the ledger of the whole. The maxima and durations are assumed as in
  `TransferDispatch` (`DispatchAssumption`, the hypothesis of these theorems).
* `SmokeBatch_proofs`, on top of `CreditInv`, which all its steps keep. `SmokeInv`: a command at
  record or bind has an invoice that is booked for its tag (`CommandOK`), a request that binds has
  one whose event carries the tag (`RequestBooked`), so whoever writes an owner writes a booked
  invoice (`Effects`). `Undisturbed` says why a single command books only the first invoice of a tag:
  between its lookup and its create request nothing else books.

  Who may replace an owner: a request only one that is NULL, as it holds the row from its UPDATE to its
  COMMIT (`BoundFree`), and a command only while it is in the middle of binding the tag (`OwnerSteps`,
  `OwnerStays`); and none gets there while the owner is bound (`NobodyBegins`). Hence a binding that no
  command is in the middle of is final (`BindingIsKept`, `FinalStays`), and what a command returns, whose
  tag is bound to it at that moment (`HoldsOwner`), stays bound unless another command was in the
  middle then (`ReturnedIsBound`, `PrintedOK`).
* `WebhookSetup_proofs`. `WebhookInv` says what each process knows of the provider: what it is about
  to delete was incomplete or is gone, and ids that are gone (`Lost`) never come back (`Evolves`).
  `StepShape` reduces every step to one of five: outside of replacements, or one that begins,
  deletes, creates or ends; `ExplainedInv` and `OnceInv` follow the two histories through these.
* `ReviewLists_proofs`. First the order: the keys of a finite set have a least one, `Fetched` is an
  initial part, and the cursor of a page is its last key with all that is left behind it (`PageOK`).
  Then the tables: each writer keeps `TablesOK` (`TablesKept`). `ReviewInv` puts what was shown before
  the cursor and what lasts and was not shown behind it, and, in a quiet walk, all rows into one of
  the two.

Checked by TLC only: what must happen in the end (`EverySettled`, `BatchCompletes`,
`BookedCreditsQueued`, `BatchIsSettled`, `WebhookIsSetUp`, `WalkEnds`), as fairness and ENABLED are
beyond the prover. Every invariant and action property of the passing runs is a theorem.

## Not modelled

* `cleanup-events` deletes events at the provider one by one and `list-webhooks` prints: nothing reads
  afterwards what they have done.
* The overview, its totals, the details of one row, and the configuration of the review API: each is
  one answer from one set of rows. Its token and rate limit, and the limits of requests: kept in
  front of the handlers, and stateless or per minute.
* Schedule, payers and money: pure functions; they appear as slots, ordinals and payability.
* Migrations run once and offline; legacy rows are the start of `ProviderStatus`.
* Settings, logging, argument parsing, images, release and restore scripts: no state of the program,
  or shell around docker.

## Plan

Done: the transfer half with its abstract specification and proofs, provider status, the webhook
transaction, smoke invoices, issuing, runs, webhook administration and the lists of the review API,
each with its proofs; every safety property of the runs is proved, and the webhook and the workers
are composed and the composition is proved to implement the ledger. What is left, in this order:

1. Abstract specifications of the other writers: an issuing batch as slots that are filled once, a
   trial run that ends when its batches do, and the refinements, up to the overlaps that the
   violation runs show.
2. The provider status in the composition, so that the transfer events of a payment come back to the
   webhook that queued it.
