# A verification of the trading system

TLA+ models, TLC runs and TLAPS proofs for this repository: the service that
turns operation tickets into orders at the exchange and its durable journal, the
control plane that publishes the tickets, the processes that train, forecast and
calibrate, and the research that decides whether anything may be traded.  Paths
are relative to the repository; `BybitContractBotV4/` and `ai_bot3/ai_bot3/` are
left out where the file name is unique.

## 1. The system

| part | state | operations | hard because |
|---|---|---|---|
| Execution state machine, `execution_state.py` | none | the table of allowed transitions | cancellations and fills cross: two terminal states may be upgraded |
| Execution journal, `ticket_store.py` | SQLite: tickets with lease and epoch, events, orders, fills, commands, positions, receipts, cursors, runtime rows | one `BEGIN IMMEDIATE` transaction each | two threads and, around a restart, two processes write it; reports come late, twice, out of order |
| Reconciler, `execution_reconciler.py` | locals of a visit | `recover_all`, `reconcile_ticket` | reads a snapshot, talks to the exchange, then writes |
| Consumer and polling, `ticket_consumer.py`, `execution_service.py`, `ticket_client.py` | locals; the cursor is in the journal | fetch, claim, receive, validate, claim, decide, size, submit; receipts | a failure at any call; two leases, one here and one in the control plane |
| Executor, `bybit_executor.py` | none | `submit_entry`, `cancel_target`, `submit_take_profits`, `submit_time_exit` | an unknown outcome must never be answered by sending again |
| Private stream, `private_stream.py` | counters | `on_order`, `on_execution` on a thread of their own | writes between any two steps of the loop |
| Main loop, `service_main.py` | ownership audit, last error | `start`, `run_once`, `_install_take_profits`, `_enforce_max_holding` | an exception ends the iteration and the next starts from the top |
| Receipts, `execution_reporter.py` | the outbox | `build`, `flush_receipts` | the id hashes state and event, the payload holds more |
| Interlocks, `risk_guard.py`, `incident_modes.py`, `runtime_context.py` | runtime rows: kill switch of the UTC day, incident mode, audit result | `evaluate`, `set_kill_switch`, the audit | read ticket by ticket while the stream and the audit write them; the day turns |
| Budget, `risk_guard.py`, `sizing.py`, `exchange_gateway.py` | high water mark, cached losses of the day | replay of the transaction log, `evaluate`, `size` | account, positions and losses are read one after the other, from a cache or a page |
| Soak monitor, `soak_monitor.py` | service runs, metrics | begin, sample, end | a crash leaves a run open |
| Rate limiter, `rate_limiter.py` | token buckets | `acquire` | several threads, exhausted budgets |
| Control plane, `core/control_plane.py`, `api/control_plane_api.py` | forecasts, decisions, tickets, outbox, claims, receipts | publish, page, claim, save | versions read in one transaction and used in another; calls that are lost or come late |
| Prediction worker and portfolio decision, `core/portfolio3_3_fixed.py`, `core/result_manager.py`, `core/decision/` | a queue with its pending keys, the locals of a save | enqueue, take, predict, `save_result`, close | one coroutine at a time, yet a timeout leaves its thread running |
| Candle cache and feature store, `core/data_fetch.py`, `core/kline_feature_store.py` | cache, `raw_kline`, `enhanced_kline` | fetch, update, recompute the tail, build a dataset | several processes share a cache that is truncated and replaced; pages, outages, late answers |
| Training and artifacts, `core/trainer3.py`, `core/brain_model.py`, `core/portfolio3_3_fixed.py` | `write/`, `read/`, `backup/`, the record of what was trained | `should_train`, the child, promotion, repair | a child is killed, times out or stays behind; files are written and copied one by one |
| Forecasting and calibration, `core/inferencer3_fixed.py`, `core/online_calibration.py` | recorded forecasts with their outcomes | load, predict, settle, calibrate, record | settlement reads a bounded batch from a cache that forgets |
| AI summaries, `api/api_server.py`, `core/market_context.py` | a file for each mode, one overview | scheduled refresh, refresh on request, the forecast process | three writers, one lock that the third does not have |
| Backtest and labels, `core/backtest/event_driven.py`, `core/labels/triple_barrier.py` | open positions, losses of day and week, drawdown | decide, fill, settle | what is known when: decisions, labels and losses at the boundary of a candle |
| Profitability rebuild and release, `core/evaluation/`, `core/training/`, `core/release/`, `scripts/run_profitability_rebuild.py` | claims of lockboxes, ledger of trials, reports, manifest | load, label, fold, claim, backtest, record, publish | may die between any two files; workers read them when they start |
| Research jobs, `core/jobs/` | events, sources, job rows, revisions, blackouts; no leases | submit, move, `save_revision`, blackout | workers save drafts of what they read earlier |
| Market data, sentiment, liquidation map, scheduler, configuration, pages | files | HTTP and rendering | input and output |

**Interactions.**  The main loop reconciles, audits, and polls; polling asks the
control plane for a page of tickets after the journal's cursor, claims one,
hands it to the consumer, which claims it again in the journal, decides and
calls the executor, which journals the order *before* it calls the exchange.
The stream thread writes order reports and executions into the same journal at
any time.  Everything the service knows after a crash is in the journal.  The
worker behind the control plane predicts with what the training process has
promoted to `read/`, from candles that both share, and publishes a ticket only of
calibrated forecasts and only if the manifest of a release authorizes it.

**What makes each part correct.**  The journal: an execution is booked once;
the state of a ticket and the lots booked on its order agree; a terminal ticket
stays terminal but for a fill; only one service instance holds a valid fence.
The loop: one create request at most for an order, whatever is lost; no order
without a journal entry; unknown outcomes are resolved; the journal is never
ahead of the exchange.  Exits: together never more than the entry traded.  Risk:
what stops new risk stops the next order, whatever was read before it.  Receipts:
the control plane has them in the journal's order, without a gap.  Publication:
decisions are numbered, differ and move on.  Training: what is promoted belongs
together, and nothing is judged on what it has seen.  Research: no test knows its
own future, a lockbox is claimed before it is opened, a release withdrawn
authorizes nobody.

## 2. Modules

| module | models | its state |
|---|---|---|
| `ExecutionState` | `execution_state.py` | constants only |
| `ExecutionStore` | `ticket_store.py`, one action for each writing method | the columns of the journal that guard something |
| `EntryExecution` | loop thread, stream thread, exchange, clock, control plane and crashes around the journal, from the page of tickets to the last fill of an entry | the journal, the loop's program counter and locals, the exchange |
| `OrderPromise` | what the service promises of an order, without journal, leases and threads | a phase, a request count and the booked executions for each ticket |
| `ProtectionExits` | take-profit children and the time exit, submitted by two threads, and their reconciliation | the journal, where each thread is in a submission, the exchange, kill switch |
| `CancelExecution` | a CANCEL ticket from its claim to the last visit that resolves it | the journal, the step of the service, target order and request at the exchange |
| `RiskControl` | startup, audit, interlocks, runs of the service | runtime rows, positions and orders of the account, the loop's locals |
| `RiskBudget` | account, portfolio, daily losses, guard and size of one ticket after the other | the ledger and its cache, positions, open orders, high water mark, what was read |
| `TicketDelivery` | tickets and receipts between the control plane and the service | the control plane's tables, cursor and outbox, the loop's locals, requests on the way |
| `Publication` | worker, `save_result`, decision and publication of tickets | the control plane's tables, the queue, the locals of a save, publications left in threads |
| `AiCache` | loop, request threads and forecast process on the summaries of a symbol | files, temporary files, the lock, the job of each thread |
| `KlineFeatureStore` | cache, candles and features of a symbol and timeframe | the closed candles, cache, tables, a load of each process |
| `ForecastSettlement` | forecasts recorded, settled and calibrated, over `KlineFeatureStore` | the recorded forecasts, calibration status |
| `ModelArtifacts` | the decision to train, the child, promotion, repair | `write/`, `read/`, `backup/`, the record, children |
| `ModeDataset` | dataset, splits, fitted models, the frame of a forecast | rows with the candle they know of, splits, what a model rests on |
| `EventBacktest` | `EventDrivenBacktest.run` | open positions, losses, drawdown |
| `ProfitabilityResearch` | the rebuild, its files, a worker that reads them, over `EventBacktest` | panels, folds, claims, ledger, reports, manifest |
| `ResearchJobs` | `job_store.py` and the workers that use it | jobs, revisions, sources, drafts |
| `ExecutionStoreProofs`, `EntryExecutionProofs`, `RestartProofs` (exits and CANCEL tickets), `DeliveryProofs` (delivery and AI summaries), `PublicationProofs`, `RiskProofs`, `TrainingProofs`, `ResearchProofs` | the theorems, section 4 | |
| `MCStores` (journal, decisions), `MCEntryExecution`, `MCProtectionExits`, `MCRestart`, `MCTicketDelivery`, `MCForecastSettlement`, `MCForecasts` (candles and settlement, AI summaries), `MCModels` (dataset, artifacts), `MCRisk` (interlocks, budget), `MCProfitabilityResearch`, `MCResearch` (rebuild, jobs) | instances for TLC | |

**How they compose.**  `EntryExecution`, `ProtectionExits` and `CancelExecution`
extend `ExecutionStore`: every write of a thread *is* an action of the journal,
and that nothing else is written is proved.  `EntryExecution` implements
`OrderPromise` under the mapping `Promise` (`KeepsPromise`).  `ForecastSettlement`
extends the candle store, `ProfitabilityResearch` the backtest.  `TicketDelivery`
takes the inside of `process` from `EntryExecution` as one step, and `Publication`
the receipts from `TicketDelivery` as a growing position version
(`PositionKnowledgeGrows`, proved there).  `MCStores`, `MCForecasts`, `MCModels`,
`MCRisk` and `MCResearch` check two components that share no variable in one run,
`part` saying which one moves in a behaviour: a property of one holds whatever the
other does.  In `MCRestart`
the two parts have the journal in common and would write different tickets of it.
A definition named `Mutant...` is a plausible bug, used by no behaviour.

### ExecutionStore

A method is one transaction, so it is one action.  A method that raises rolls
back and changes nothing: what it raises on is the negation of the action's
guard.  `state`, `ostatus`, `oid`, `fills`, `command` are columns; `owner` stands
for consumer id and lease token together, because a service instance has one
token for each ticket; `held[s][t]` is the epoch an instance got from its last
claim and passes with every fenced write; `live` are the leases not yet expired.
Quantities are counted in lots, one lot for an execution.  `receipt[t]` compares
the outbox row under the receipt id a rebuild would use now with what it would
produce now: no such row, the same, or something else.  Callers appear only as
the arguments they can pass, so the module covers every interleaving of
instances and threads, also those the loop of today never produces.

### EntryExecution

`pc` is where the loop thread is; each action is one transaction or one call.
The names follow `reconcile_ticket` (`ReadRecord`, `ReadOrders`, `CancelOverdue`,
`FindOrder`, `RestFound`, `AckFound`, `FetchExecutions`, `BookFetched`, `Refresh`,
`GiveUp`), `ExecutionService.run_once` (`FlushReceipt`, `Fetch`, `ClaimGrantedByPlane`,
`ClaimRefusedByPlane`, `BuildReceipt`, `Advance`), `TicketConsumer.process`
(`ReceiveTicket`, `Validate`, `ClaimLocally`, `ReadContext`, `RiskDecision`,
`SizingRejects`) and `submit_entry` (`ReserveEntry`, `ReserveRole`, `CreateOrder`,
`CreateAnswered`, `CreateFails`, `RecordSubmission`, `ConfirmRole`).  Journal
actions are those of `ExecutionStore`, so a guard is written once.  An exception
is `RaiseJournal` or `RaiseCall`: it drops the locals and the loop starts again,
as `service_main.py` does.  `StreamOrder` may deliver any status the order has
had, at any time, any number of times or never; `StreamExecution` any execution
it has got.  The exchange takes in, rejects or loses a request, trades and
cancels as it likes.  `Crash` starts a new session with empty locals.

Ages are events: `Age` puts a ticket's `updated_at` more than the grace period
back, every change of its state takes it out again.  The loop reads both clocks
once, at the start of a visit (`snap`), as the code does.

### ProtectionExits

One ticket whose entry is at the exchange.  Two threads, `loop` and `stream`, run
`submit_take_profits`: `at[th]` is where a thread is in it, `roles[th]` the levels
it has still to submit, `total[th]` the quantity it divides, read from the live
position or from the journal before the other thread went on.  The loop
reconciles every order of the ticket, audits the account (`Owned`: the live
position is the journal's, the snapshot's or none), closes a position held too
long and recovers take profits, in that order; an exception anywhere ends the
iteration.  An execution is one lot, a share of a level is rounded down to lots,
and a share of no lot is the minimum quantity the code refuses.  `StopLoss` is
the stop attached to the position, which trades without an order of ours.

### CancelExecution

`step` is where the service is: in `process` with a fetched CANCEL ticket, in
`cancel_target` (reserve the command, read the target's row, ask, confirm), or in
a visit of `reconcile_ticket` that finds it SUBMITTING.  The answer to the request
may be lost or late, and the order at the exchange fills or is cancelled
meanwhile.  What the stream and the target's own visits write is any true report
of it.  No producer in this repository emits CANCEL tickets today; the contract
and the service take them.

### RiskControl and RiskBudget

`RiskControl` goes through `start` and `run_once` with one step for each database
call or exchange call: recover, audit (what the journal knows, then open orders,
then positions), visit the symbols, poll, and for each ticket the reads of
portfolio and interlocks, the decision, the submission.  The interlocks
are read one ticket at a time; the stream thread sets the kill switch, the UTC
day turns, and somebody else trades in the account between any two steps.  What
the guard checks of one ticket alone is a free veto.  `Operator` is the release by
hand the runbook describes.

`RiskBudget` reads in the code's order: the account, its positions, the losses of
the day (replayed from the ledger, or from the cache of 15 seconds, `Ttl` here),
then decides and sizes, while fills, closes and closing records go on.  `granted`
is the ticket that the journal has in RISK_APPROVED: an exception of the exchange or
of the journal (`VisitFails`) and a restart leave it there, the next visit reads
account and portfolio again, but takes it to the sizer without a decision (`Kept`,
`ticket_consumer.py:105-132`), even if the losses cannot be read at all.  A ticket
whose lease the last session still holds is passed over by a restarted one.  Money is
counted in lots at the price of the ticket, so rounding to tick and step is left
out.  A record of the ledger names the order it closes with, and the losses are
replayed record by record as the gateway does.

### TicketDelivery

One symbol.  The loop's actions follow `flush_receipts` and `run_once` call by
call: receipts are rebuilt ticket by ticket, pending ones posted and marked one
by one, then a page is fetched and each of its tickets claimed, processed,
reported and passed.  A receipt is its ticket, the number of its events, what
else it says (`detail`, `position`); its id is ticket and event (`Id`), which is
what the code hashes.  `PostIsLost` and `ClaimIsLost` let a request whose caller
has given up be served at any later time, across crashes.  `PostLimit` is the
limit of `pending_receipts`; `OutboxFits` assumes that it holds everything, see
section 6.  `refused` is a history variable.

### Publication

One symbol.  The worker takes a mode, predicts, and runs `save_result`: `stage` is
the call it awaits, `seen`, `chosen` and `ticket` are its locals.  A forecast is its
mode (each has a horizon of its own), when it was made, and a quality: not
eligible, eligible, or good enough for `TicketPolicy.decide`.  `TimeOut` is
`asyncio.wait_for` cancelling the coroutine; a publication that a thread has
begun stays in `orphans` and may commit at any later time, or never.  Retries of a
prediction are part of `PredictFails`; `_pending_keys` is what is in the queue, so
that nothing is claimed of how the two are kept together.

### AiCache

One symbol: a file for each mode and the overview.  The loop and request threads
work under the symbol's lock; the forecast process has the same client without
the lock and writes mode files only.  `doing[t]` is a thread's step in the pass over
its files; a write opens the temporary file, flushes it and renames it, so that two
writers may meet in one temporary file: content and open writers are kept for
each file, and a file that does not parse reads as missing.

### KlineFeatureStore, ForecastSettlement, ModelArtifacts, ModeDataset

Candles are numbered in time.  The store's update fetches pages from the last
stored candle, or loads as many as wanted, then recomputes the tail; of a
feature row only the depth of its window is kept.  Each forecast process loads
through the same cache, one rewriting while another reads.  A forecast keeps the
candle its horizon ends in and the candle its outcome was taken from.  An
artifact is the dataset it was trained on, or missing, or torn; a child writes
model and scaler in two steps each, may be killed at each, or go on after its
parent gave it up.  A shutdown of the pool ends the child (`Terminated`) unless it
is left behind (`LeftBehind`): `kill_zombie_processes` returns at once within five
seconds of its last cleanup (`portfolio3_3_fixed.py:202-205`), SIGKILL and `os._exit`
(181-192) run no cleanup at all.  Children left behind, `Left`, go on beside the
child of the next pool: only the rename of the model has a lock, so that two
children may interleave in everything else, in the scaler's bytes too (`Mixed`).
Two history variables say when a promotion can be vouched for: `alone`, no child
left behind has written since the pool's child began to save, and `whole`, the
promotion copied all of what was so saved.  In `ModeDataset` a row is the candle it stands for and the newest
candle its features rest on; splits are index ranges computed as the code does,
and a fitted model remembers how far ahead its targets were.

### EventBacktest, ProfitabilityResearch, ResearchJobs

The backtest takes signals in decision order; a trade's path is anything, priced
by its triple-barrier label, and money is counted in the risk of a trade.  The
rebuild loads and labels each horizon, walks the folds, claims the lockbox, trades
it, and writes ledger, report and manifest one file after the other, with
exceptions and deaths between any two; a worker may start at any moment and reads
report and manifest twice.  `ResearchJobs` has one action for each method of the
store; workers keep drafts of a job while others move it on.

## 3. Runs

| run | instance | shows |
|---|---|---|
| `store` | a ticket and the CANCEL ticket that may supersede it, 2 instances, 2 executions of an order of 2 lots, epochs up to 2; beside it 3 modes, decisions of 2 horizons, 3 forecasts, queue of 2, one timeout or restart | fences are exclusive; state and booked lots agree; only fills move terminal tickets; decisions differ and move on |
| `entry` | 1 ticket with a stop loss, 2 sessions (one crash), an order of 2 lots | one request at most; the journal never ahead of the exchange; commands end as the order did; every step keeps `OrderPromise` |
| `entry_late` | 1 ticket, 2 sessions (one crash), an order of 2 lots, fair | unknown submissions are resolved; cancellations reach the journal, of partly traded orders too, whose executions may be reported after them |
| `exits_restart` | a target, a time exit, 2 sessions, 1 lot | each child requested once and only when journaled; no close before the kill switch |
| `exits_targets` | two targets of half the position, 2 lots, no restart; beside it two CANCEL tickets, one of which supersedes its target, with a restart | targets never exceed what the entry traded; the journal never ahead of the exchange; one cancel request at most |
| `exits_liveness` | a target, 1 lot, fair | a filled entry is protected or stops the service; the outcome of a child is learned |
| `delivery` | 2 tickets, pages of 2, 2 processes, 2 events for each ticket, one late request, fair | receipts arrive in order, the cursor skips nothing, published tickets are received |
| `forecasts` | 5 candles in pages of 2, one forecast process, 2 forecasts; beside it 1 mode and the overview, loop, one request, forecast process, 2 attempts; both fair | no candle is skipped; forecasts become calibrated; a fresh overview is never replaced by a failure; every file recovers with the gateway |
| `models` | 2 datasets, one child left behind at a time, fair; beside it 21 base candles of which 3 make a higher one | model and scaler belong together; the newest model is served; no part of the data has seen a later one; a model is asked for what it was fitted on |
| `risk` | 2 symbols, a midnight, a crash, one act of somebody else; days of 2 ticks, 2 closing records | one order at most after the kill switch; a crash is reported once; a handover lasts; losses stop approvals; leverage holds |
| `research` | 2 symbols, 2 horizons, 2 versions, 2 runs of the rebuild; 1 job, 2 events, 2 workers, 2 revisions | no look-ahead in a fold; a withdrawn release authorizes nobody who starts later; blackouts have their source; revisions keep their history |
| `risk_recheck` | that of `risk` | a statement of the documentation that the code does not keep, section 6 |

**Bounds.**  Two instances and two epochs are one hand-over of a lease, which is
where fencing can fail.  Two lots give the only three cases of an order: nothing,
something and all of it filled, and an execution that is reported after the order
is CANCELLED reopens the ticket; where the quantity does not matter there is one.
The liveness of entries is checked without the stop loss, whose command is decided
in the steps that `entry` has.  Executions are interchangeable: e1 trades first.
One ticket is enough in `EntryExecution` because a visit and `process` touch one
ticket only; the actions that relate two tickets, superseding and cancelling,
are in `store` and `exits_targets`.  `MaxEpoch` bounds the control plane's epochs;
an instance gets a new one only after a crash, so with these sessions the bound
cuts nothing off.  In `delivery`, two
tickets come in one page or in two, depending on when they are published, and
the second process meets the leases of the first; a limit of 4 holds all receipts.
Three forecasts are the first decision and its successor, one of them perhaps
published by a thread left behind.  Five candles are a first load and an outage
longer than a page; two datasets are what may be mixed, and as each may be trained
more than once a failed training comes between two that succeed; one child left
behind writes beside one or more successors.  21 base candles leave every part of the splits of LSTM and Brain non-empty, and put
boundaries inside a higher candle.
Two closing records are a loss and what follows it, over two days.  Two runs of
the rebuild with two versions are all ways to meet a claimed lockbox; candles of
two horizons cross at the boundary of a fold.  Symmetric sessions and symbols are
reduced by symmetry only in runs without liveness.  The theorems of section 4
remove these bounds for every safety property.

**Deadlock** is checked in every run: bounded as they are, the systems always have
a next step (the loops turn, time goes on, a worker may look again).

**Fairness.**  `WF` of the loop: the thread runs and `run_forever` never returns.  `Age` is weakly fair: time passes.  Calls that are tried again in every
iteration are strongly fair (the lookup and the fetch of an order; the audit and
the reading of the portfolio in `ProtectionExits`; the post, the fetch, the answer
to a claim and `process` in `TicketDelivery`): each may fail, yet one that is tried
again and again is answered some day.  Nothing is assumed of the stream, the
exchange, the create request, or of requests whose caller has given up.
Nothing is assumed of `Publication` and `RiskBudget`, of which no run claims
liveness.  `AiCache`: the next cycle comes, each thread goes on with its work (the
client's timeout ends a call), the forecast process finishes a write it has
begun, files age; nothing forces a request or a forecast, and the gateway may
change for ever: recovery is promised if it stays up.  Candles close, and a
prediction goes well infinitely often, without which nothing can be settled at
all.  `models`: the parent and the children work and the training schedule comes
round.  Faults of the training may go on for ever; then nothing is promised
(`NewestIsServed`).  `CancelFairness` (in `cancel_undecided` only): the loop goes
on, tickets age, a lookup tried again and again is answered.

Other definitions of the modules state properties that no run lists.  Proved in
section 4: the type invariants, `EpochFencesOut`, `JournaledBeforeWorking`,
`ExecutionBookedOnce`, `FilledEntrySticks`, `ExitOnlyAfterEntryFill`,
`DeliveredWasStored`, `PositionKnowledgeGrows`, `DecisionsNumbered`,
`TicketsAreExplained`, `OverviewWhole`, `DayLossBounded`, `ResultsWereClaimed`.
`NothingUnfeatured`, `TailIsWhole`, `SettledInOrder`, `NeverAdopts`,
`AttritionExplains` and those named in section 6 can be put into the cfg of their
module's run.

## 4. Proofs

Every safety property of every passing run is a theorem, for every value of the
constants; so is the refinement of `OrderPromise`.  Each inductive invariant below
was checked with TLC on a run before it was proved.

* **`ExecutionStoreProofs`**.  Leases: a fence is exclusive because no instance
  has ever been given an epoch greater than the ticket's, and only the owner has
  been given the current one (`LeaseInv`); claims are case-split by `LeaseCases`.
  The journal: `IInv` relates the state, the row and the booked lots of each
  ticket.  It is needed because `FillsDecideTheState` alone is not inductive: that
  a ticket becomes FILLED only by its last lot rests on no other write being able
  to set FILLED, and that a filled row sticks rests on `record_rest_submission`
  being refused once the ticket is past SUBMITTED.  Steps that book nothing are
  dealt with at once (`Quiet`), `RecordFill` by itself.
* **`EntryExecutionProofs`**.  The loop works on a ticket wherever its code uses
  one (`LocalsInv`); at most one create request leaves (`CreatedOnce`, strengthened
  by `RequestInv`: where the loop is about to send, the order is journaled and has
  had no request).  What the loop carries from a call into a later transaction
  must still be true of the exchange when it is written (`CarriedInv`); it is,
  because the exchange only moves forward and what it has once reported stays in
  its past (`PastGrows`).  `CommandInv` says the same of the command rows.  Every
  step of the threads is a step of the journal (`ServiceImplementsStore`), so that
  the theorems about the journal hold of the service; a ServiceStep leaves out
  the journal's `ConfirmCancellation`, which only a CANCEL ticket calls.  The
  refinement (`PromiseKept`) needs `PromiseInv` besides: the exchange has nothing
  that was not sent, and the ticket whose request is about to leave is still
  SUBMITTING, since nothing reported of an order that was not sent can move it.  A
  step of the service then leaves the promise of each ticket alone, asks, or books.
* **`RestartProofs`**, exits of two threads.  `ThreadsInv` says where the threads
  stand in a visit and in a submission; `EpochInv` bounds the epoch by the sessions
  that have run; `CloseInv` carries the kill switch to the place that sends a time
  exit; `RequestInv`: a child is requested only where its thread has just reserved
  it, and no two threads have reserved the same; `FollowInv`: the journal of the
  children follows the exchange.  `TargetsWithinEntry` rests on `SizeInv`: each
  reserved child has at most its share of what the entry has traded *by now*,
  although its thread divided an earlier quantity, and shares of fractions that
  make at most the whole make at most the quantity.  Sums over levels are
  recursive functions; their laws come from induction over finite sets
  (`SetInduction`, `RunningSums`).  `CancelInv`: a request leaves only from the
  step that has just reserved the command, and a reserved command sends every
  later visit and every successor past that step.
* **`DeliveryProofs`**.  The cursor skips nothing (`PageInv`: below a ticket of the
  rest of the page only tickets of the page have not been passed, and where the
  code advances the cursor the ticket is known).  What is marked as delivered is
  stored (`MarkInv`).  Receipts in order (`OrderInv`): the ids in the outbox
  differ; what is marked are the first entries; a flush posts all after them, so
  when it is over everything is marked, and only then is a new receipt built;
  whatever is on its way, late or not, is `Sendable`: an entry the control plane
  already has, or the next one.  `OutboxFits` is used where a flush must take the
  whole outbox, whose length is bounded by the number of different ids.  That
  `Pending` selects what is not marked is shown by a witness and by the least
  place where it would not (`Selected`).  `PositionKnowledgeGrows` follows from the
  order and from positions that grow along the outbox.  The AI summaries:
  `DecidedInv` is why a lock is enough for the overview: a thread that is about to
  rewrite it found it not good and, as only the holder writes it and a file only
  ages, it still is not; `WholeInv`: its temporary file has one writer at most.
* **`PublicationProofs`**.  Decisions are numbered, differ, move on, and explain
  their tickets.  The properties speak of published decisions, but a save reads the
  version, the forecasts and the latest decision before it publishes, and an
  interrupted save may publish later; so the invariant (`PublicationInv`) speaks of
  all `Candidates`: published, chosen, or left in a thread.  A chosen one never has
  more than the next version; if it still has the next version when it is
  published, nothing was published since it was compared.  `Shape` reduces the
  fifteen actions to what they do to candidates.
* **`RiskProofs`**.  `Reported` counts open runs, ended runs and crashes.  `Handed`:
  what the guard is about to decide with clear interlocks it has read before any
  finding, because the loop that decides is the one that audits.  `LastEntry`: once
  an entry has left with the kill switch on, the loop, which reads the interlocks
  of one ticket at a time, has read them again before the next.  The budget:
  `Accounts` types the sums over symbols; `Spare`: while a ticket is at hand its
  margin stays free, since what fills had its margin before and what closes gives
  it back; the laws of sums are lemmas (`SumSolves`, `SumChanges`).  `Known`: the metrics that the guard
  is about to decide with are those of the ledger at a moment that was within the
  age of the cache; only the guard approves (`OnlyGuardGrants`).
* **`TrainingProofs`**.  `NoCandleSkipped` rests on `FetchInv`: what was fetched
  continues the table it found, and only the training process writes the table.
  `PairedAfterPromotion` on `PairInv`: `DataInv` (what runs works on the data its
  parent asked for), `WriteInv` (while it is `alone`, each step of the pool's child
  vouches for the files it has finished; during a promotion the pool has no child)
  and `CopiedInv` (how far a promotion has come; `whole` says that it met no failure
  and no write of a child left behind).  `HoldoutUnseen` and
  `ServedAsTrained` on `RowsInv` (rows are in time order, one candle apart but for
  one gap, and know of no candle after their own) and `LeadsInv`; the purge covers
  what labels and look-backs reach over a boundary (`PurgeCovers`).  The
  specification of a component is written in the proof module from its own Init
  and Next (`ArtifactsSpec`, `DatasetSpec`), since `MCModels` only interleaves
  components without common variables.
* **`ResearchProofs`**.  `PutAway`: a manifest that was put away does not come back, and
  a worker that started later is off the way to an authorization at the report.  `Claimed`: a result belongs to a trial that owns its
  lockbox.  `Panels` and the order lemmas (`NthOfTimes`, `NthIsLater`, `TestIsLater`):
  the decisions of a test are later than all a training label knows.  `Aligned`: an
  open trade settles when its label is available, so what is due has been observed;
  `Losses` adds to the loss of a day what is still open and ends on it.
  `Based`: every blackout has its primary source, those out of force included.

The assumptions are those of the modules' ASSUMEs, which the code or its contract
gives: a ticket does not supersede itself; `NoTicket` and the like are none;
`"entry"` is no exit role; an order has at least one lot and finitely many
executions; the fractions of targets make at most the whole
(`ai_bot3/ai_bot3/contracts/operation_ticket_v1.py:121,144`); more epochs than sessions, so that the
bound cuts nothing off (`EpochsAssumption`); a flush can take the
outbox (`OutboxFits`, which the code does *not* guarantee beyond 100, section 6);
the sizes of windows, splits and folds are positive and a training set is large
enough to be split (`brain_model.py:512-521`, horizons of at most three candles,
`brain_model.py:38`).

**Only model-checked**: liveness, which is out of the prover's reach:
`SubmissionResolved`, `CancellationReachesJournal`, `ProtectedOrStopped`,
`ChildOutcomeReachesJournal`, `PublishedIsReceived`, `RecoversHere`,
`CalibratesHere`, `NewestIsServedHere`.  Where the proofs meet data
defined by recursion (selected sequences, sums), they do without the induction
theorems that take an operator and use a least counterexample instead.

## 5. Not modelled, and the plan

Left for the next step, in this order: `RateLimiter` (tokens, several threads) as a
component of its own, today an exception of a call; theorems of the safety
properties that no run lists (`SettledInOrder`, `TailIsWhole`, `NeverAdopts`); shorter
proofs where two modules prove the same law of sums.

Left out for good: the numbers of forecasting, training and features (floating
point); prompts and answers of the language model; HTTP, logs and pages, with the
read-modify-write of `symbols.json` (`api_server.py:729`), which is not protected at
all; the websocket's own health and sampled metrics; `append_ticket_event` and
checkpoints of research jobs, which nothing reads; the migration of old databases.
The legacy bot is not part of the execution path: its orders are what the audit
takes for foreign ones.

## 6. Where code and comments disagree

A listed run finds it:

* `risk_recheck`: ticket validity, kill switch, incident mode and account "are
  checked before an order is placed" (`docs/architecture_v1.md:64`).  An error or a
  crash between approval and reservation leaves a ticket in RISK_APPROVED; a later
  claim keeps that state (`ticket_store.py:511-520`) and `process` asks the guard only
  for tickets not yet approved (`ticket_consumer.py:110,132`): `CheckedBeforeOrder`.
  The same holds of the losses of the day: `LossesStopApprovals` is about approvals
  and not about entries.  The sizer does see such a ticket, with the margin of the
  moment, so that `GrossWithinLeverage` holds for it too.

A configuration beside the runs, or a property named here, finds it; each line
gives the module to run it with:

* `entry_rebuild.cfg` (`MCEntryExecution`): "Rebuilding is safe because receipt ids
  include the immutable state/event sequence" (`execution_service.py:42-44`).  What a
  receipt says changes without an event: a repeated claim, a second partial fill,
  a new position.  The conflict is raised before each poll.
* `SubmittedWasSent` in `exits_restart.cfg` without SYMMETRY (`MCProtectionExits`): "The
  deterministic child id makes retries safe across restarts"
  (`service_main.py:274-275`).  A time exit that was reserved but never sent is taken
  for a replay and logged as submitted for ever.
* `exits_overdue.cfg` (`MCProtectionExits`): "Submit one auditable reduce-only close
  when a ticket's hold clock expires" (`service_main.py:251`).  For a partially
  filled entry that was cancelled the journal refuses the close
  (`ticket_store.py:766`), in this and every later iteration.
* `cancel_undecided.cfg` (`MCRestart`): a CANCEL ticket left SUBMITTING is resolved by
  later visits (`docs/operations_runbook.md:68-70` says to keep it and query).  If its
  target is FAILED or SUPERSEDED, as it is whenever the CANCEL ticket supersedes
  its target, `confirm_cancellation` raises in every visit and `recover_all` never
  gets past it (`execution_reconciler.py:85`).  `CancelDecided` in its place holds.
* `CancelledAtExchange` (`MCRestart`, CANCEL part): `cancel_target` takes the answer to
  the request for the confirmation (the test at `test_execution_engine.py:548` uses
  an exchange that cancels at once).  An order that fills after an accepted
  request is CANCELLED in the journal and no longer reconciled; a fill that the
  stream loses is never booked, though a real fill may win the race
  (`docs/architecture_v1.md:58`).
* `CorrelatedWithinLimit` in `risk.cfg` with `CorrDiv = 3` (`MCRisk`): correlated exposure
  is among the final vetoes (`docs/architecture_v1.md:64`), but open orders are not
  counted; for the gross exposure the margin they hold makes up for it, for the
  correlated one nothing does.
* `feature_recompute.cfg` (`MCForecastSettlement`): "use a conservative default so tail
  recomputation is stable" (`kline_feature_store.py:461`).  The rows at the beginning
  of the recomputed tail lose part of their window.
* `settlement_outage.cfg` (`MCForecastSettlement`): the outcome is "the first candle
  after the end of the horizon" (`portfolio3_3_fixed.py:1124`).  After an outage longer
  than the cache it is the first candle that the cache still has.  `Calibrates`, with
  `Orphans = 1` and `MaxForecasts = 3`, fails there too: forecasts of a removed symbol
  never settle and fill the batch of 200 (`online_calibration.py:382`).
* `dataset_forecast.cfg` (`MCModels`): the last window "predicts next close"
  (`trainer3.py:594`).  It is shifted, so the target is the newest closed candle.
  `AttritionExplains` in its place: "Explain every material row reduction before
  Brain/LSTM training" (`kline_feature_store.py:611`), but the report's split is not the
  Brain's.
* `ExhaustedIsSkipped` in `forecasts.cfg` (`MCForecasts`): "Scheduled callers ... never re-run
  items that have already been marked" exhausted (`api_server.py:1249-1251`).  The code
  does in every cycle, and gives the overview all its attempts.
* `research_lockbox.cfg` (`MCProfitabilityResearch`): "Claim an immutable lockbox once;
  never recycle it for parameter selection" (`statistical_governance.py:227`).  A later
  version claims a lockbox that shares all but a candle with a consumed one.
  `SettledAreObserved` in its place: bars "are not considered observed until" they are
  available (`triple_barrier.py:32`); in the lockbox, where decisions of two horizons
  meet, they are.  `DeactivatedStopsTrading` in its place: "Preserve, but deactivate, a
  manifest" (`profitability_rebuild.py:85`); a worker that runs keeps its authorization.
* `research_blackout.cfg` (`ResearchJobs`): `event_blackout` (`job_store.py:349`) looks at every
  revision of every job; a newer one without blackout, or the end of the job, does
  not lift it.

Observed while modelling:

* `docs/architecture_v1.md:34` promises delivery at least once.  A process that
  restarts while its predecessor's lease runs is refused the claim, and
  `execution_service.py:67-70` passes the ticket: `\A t \in 1..cursor : t \in known`
  is violated in `TicketDelivery`, which is why `CursorSkipsNothing` has `refused`.
* More than 100 pending receipts (`ticket_store.py:1604`) are posted after the receipt
  of a new ticket: without `OutboxFits`, `ReceiptsInOrder` and
  `PositionKnowledgeGrows` are violated, and the next ticket requires an old position.
* `portfolio3_3_fixed.py:594` calls the work lock a double insurance for absolute
  serialism.  A timed-out save's thread and the next mode may publish two tickets
  with different prices for one decision:
  `\A d, e \in Range(tickets) : d.version = e.version => d = e` is violated in
  `Publication` with two prices.
* An order whose final status is journaled before its executions are fetched is
  not visited again when the fetch fails (`execution_reconciler.py:147,162,101-103`),
  against the comment at lines 27-28; and one whose ticket was given up is
  skipped although it may still be found (lines 101-103, 182-189).
* Targets are installed for a partial fill by the loop (`service_main.py:247`), but
  not by the stream; a level whose share falls below the minimum quantity sets the
  kill switch although its child is installed (`bybit_executor.py:250-273`).
* The audit may find the account not owned when an own order trades between
  reconciliation and audit (`service_main.py:379`), or while the service was down
  (`service_main.py:355`, before any reconciliation).
* The kill switch is a row of the UTC day and off again after midnight
  (`ticket_store.py:1411`); losses are counted by UTC day and cached for 15 seconds.
* A training that times out a second time leaves its child writing into `write/`; so
  does a shutdown of the pool within five seconds of the last cleanup, and the end
  of the process by SIGKILL or `os._exit` (`portfolio3_3_fixed.py:181-205`).  A child
  left behind writes beside its successor, and model and scaler of two datasets (or a
  torn scaler) may
  be promoted as a pair: with a `whole` that says only that no copy failed, the
  property is violated.  It heals: the next visit finds the dataset trained and
  records it as skipped, and the one after trains it again.
* The pending keys of the prediction queue follow the queue in steps of one event
  loop without an await between them (`portfolio3_3_fixed.py:735`); the model derives
  them, so nothing is shown of them.
* A training that times out a second time leaves its child writing into `write/`;
  `safe_load_model` looks for `.keras.bak`, the trainer saves `.bak1.keras`; the Brain's early
  stopping chooses on the holdout it reports; models with `mtf_*` columns cannot be
  asked at all; `results_dir` is never set (`inferencer3_fixed.py:684`).
* The volatility quantile of the rebuild is taken over the whole frame, the lockbox
  included (`profitability_rebuild.py:190`); execution evidence and ablation are
  constants, so no gate passes.
* In the research jobs a source that is reported again, now verified, stays
  unverified (`INSERT OR IGNORE`), `supersede` can name a job that does not exist, and
  `save_revision` does not check that the event belongs to the job.
