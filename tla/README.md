# A TLA+ model of lvr_trading_system

The modules in this directory model the trading system beside them
(`core/`, `app/`, `monitoring/`, ...), TLC checks them on small instances, and
TLAPS proves what is said about the safety of the event bus, its listeners, the
stream processors, the shared state, the application, the testnet executor, the
services around them, the parts an order passes and those that decide on one, for
instances of every size.

## 1. The system

The repository holds two programs that share libraries.

*The application* (`app/main.py`, class `TradingSystem`) runs one strategy in
one process: a websocket delivers ticks; every tick runs through features,
signal, learner, protection, sizing and risk check to an order; the executor
reports fills; the portfolio, the learner and the metrics take them in; once
per second the protection system looks at the metrics and may trip the kill
switch. Everything is asyncio on one event loop.

*The event-driven side* (`core/`, `processors/`, `engines/`, `validation/`) is a
set of processors that exchange events over a bus. The bus stores events in
PostgreSQL and broadcasts them over Redis; `DistributedState` keeps shared state
in PostgreSQL with a cache in Redis. `trading/loop.py` is meant to wire it, but
cannot be imported at this commit: it imports `StateConfig`, which
`core/state.py` does not define, and calls `bus.initialize` and `bus.consume`,
which do not exist. The components are modelled from their own code, not from
this wiring.

| Component | State it keeps | Operations | Interacts with | Hard part |
|---|---|---|---|---|
| event bus, `core/bus.py` | set of ids, events table, connections | publish, subscribe, health check, get_events | processors call it, its listeners call them | retries, lost replies, duplicates, cancellation, crash between row and broadcast |
| stream processors, `core/processor.py` | queue, remembered ids, counters | start, stop, handle, process loop | called by the bus, publish to it | bounded queue, sleeps in a handler, several listeners |
| distributed state, `core/state.py` | row, cache entry, lock | get, set, atomic_update, delete | processors | read-modify-write across awaits and processes, cache against table |
| event ordering, `core/event_ordering.py` | last sequence per symbol | process_event, reset | processors | gaps, late and repeated events |
| replay, `core/replay.py` | position in the log | replay, stream, snapshot | event bus, handlers | gaps in offsets, late commits |
| supervisor, `core/supervisor.py` | health and restart counts | start, stop, heartbeat, restart | every component | restart racing stop, dead components |
| application, `app/main.py` | running, kill switch, counters | tick, live loop, stop | everything below | awaits between a gate and the fill |
| protection and metrics, `monitoring/` | level, cooldown, counters | evaluate, record_* | application | escalation, masking, liveness |
| risk, `risk/` | limits, own level, losses | check_order, evaluate, size | application, risk processor | limits at their boundary |
| portfolio, `portfolio/` | positions, results, drawdown | update_from_fill, mark, reset | application | partial close, flip, daily reset |
| executors, `execution/` | orders, positions | submit, cancel, poll | exchange | lost answers, partial fills, polling |
| state store, `state/store.py` | buffer, checkpoints | append, flush, checkpoint, recover | application | crash between buffer and disk |
| governors, `engines/positivity.py`, `trade_scarcity.py`, `decision_resolver.py` | phase, budgets | evaluate, record, resolve | processors | hysteresis, callers that interleave between question and record |
| watchdogs, `monitoring/alerts.py`, `engines/reconciliation.py`, `strategy_survival.py`, `capital_efficiency.py` | breakers, rates, scores | alert, check, assess, allocate | everything | limits at their boundary |
| request scheduling, `engines/time_sync.py` | tokens, rate, queue, offset | acquire, respond, sync | exchange | rates that are cut and raised in rounded steps |
| assessment, `engines/drawdown_analyzer.py`, `execution_quality.py` | peaks, windows | update, score | application | what a window cannot see |
| learner, `learning/` | posterior per symbol | update | application | samples needed before trust |
| live data, `data/` | connections, prices | connect, reconnect, vote, grade | application | closed or broken sockets, silence, outliers |
| signals and regimes, `alpha/`, `regime/` | pools, windows, cached predictions | propose, deploy, kill, update | application, processors | signals that outlive their merit, stale predictions |
| event processors, `processors/` | queue, windows, keys in the shared state | process | bus, shared state | several processors behind each other's queues |
| model registry, `models/` | versions and their states | register, promote, roll back | learning processor, operators | calls that suspend in the middle |
| routing, `executors/`, and checks, `core/exchange_validator.py` | plan, exchanges, windows of orders | plan, route, validate | executors | recursion, sliding windows, rounding |
| vn.py bridge, `vnpy_bridge/` | kill switch, links, orders | send, arm, connect | exchange | a switch armed between check and order |

What makes each component correct, in a sentence: the bus stores an event once,
broadcasts only stored ones and a bounded number of times; a processor accounts
for every event, in order, once; an update of shared state is never lost and
the cache never shows what was not committed; the application books at most one
fill once it is restricted or halted, halts on a breach that lasts, and gets out
of its warm-up.

## 2. Modules

| Module | Models | Role |
|---|---|---|
| `DurableTopic` | promise of the bus | abstract specification |
| `EventBus`, `EventBus_proof` | `RedisEventBus.publish` and what it calls | implements `DurableTopic`; theorems |
| `PubSub` | `subscribe`, `_pubsub_listener` | routing between channels |
| `StreamProcessor` | `core/processor.py`, `base_processor.py` | from the connection to `process()` |
| `DistributedState`, `DistributedState_proof` | `core/state.py` | one key in table and cache; theorems |
| `Supervisor` | `core/supervisor.py` | heartbeats, restarts, stop |
| `StateStore` | `state/store.py` | buffer, log, table, checkpoints, crash |
| `Replay` | `core/replay.py` | reading the log while it grows |
| `EventOrdering` | `core/event_ordering.py` | sequence numbers per symbol |
| `TradingSystem`, `TradingSystem_proof` | `app/main.py` with `monitoring/` | the application; theorems |
| `TestnetExecution`, `TestnetExecution_proof` | `execution/testnet_engine.py` | orders against the exchange; theorems |
| `SimulatedExecution` | the other engines of `execution/` | books and positions of their own |
| `Portfolio` | `portfolio/portfolio.py` | fills, results, drawdown |
| `RiskGates` | `risk/` | level, checks, sizes |
| `OrderProcessors` | risk, execution and portfolio processor, position reconciler | from a decision to the books |
| `DecisionPipeline` | the processors before and after a trade | features to decisions, truths and gaps |
| `OrderRouting` | `executors/planner.py`, `router.py` | pieces and routes |
| `ExchangeValidator` | `core/exchange_validator.py` | windows, rounding, position limit |
| `SafetyAdapter` | `vnpy_bridge/` | adapter, gateway and feed |
| `LiveData` | `data/websocket.py`, `quality.py`, `consensus.py` | sockets, grades, votes |
| `RequestScheduling` | `engines/time_sync.py` | tokens, rate, queue, clock |
| `Watchdogs` | alerts, breakers, survival, capital | who watches the trading |
| `Services_proof` | the services: listeners, stores, replay, ordering, supervisor, data, scheduling, watchdogs | theorems |
| `Desk_proof` | the parts an order passes: portfolio, engines, processors, routing, validator, bridge | theorems |
| `Processing_proof` | events in a processor, and what decides on them: governors, risk, learning, registry, signals, pipeline, regimes, assessment | theorems |
| `Governors` | phases, trade rates, decision hierarchy | who may trade |
| `Learning` | `learning/bayes.py`, `DataSeparator` | what is learned, from which data |
| `ModelLifecycle` | `models/registry.py`, learning processor | versions of a model |
| `SignalPool` | `alpha/` | signals from proposal to death |
| `RegimeDetection` | `regime/` | regimes and cached predictions |
| `Assessment` | drawdown analyzer, execution quality | what results are taken for |
| `FiniteNumbers` | | lemmas on finite sets, their members in order and their sums |
| `MC...` | | instances for TLC |

Where one deployment cannot show every hazard (one process or two, with or without
failures, one event type or several), the choice is a variable that `Init` draws
from a constant set and no step changes: `faults`, `config`, `raises`, `use`,
`mode`, `online`, `storage`, `request`, `engine`, `day`, `intent`, `bridge`,
`floor`, `registry`, `factory`, `callbacks`. A property that only holds in some of
them says which.

**Composition.** What interacts is in one module: the application with its
protection and counters, the processors of a pipeline with the shared state
between them, the adapter with its gateway. What does not interact in the code
shares a model for TLC only: `MCServices`, `MCOrders` and `MCDecisions` have a
variable `part`, drawn by `Init`; one part runs and the others stay as they
began, so that their state spaces add up instead of multiplying. Each property
of such a run is a conjunction of named properties of the modules, and holds in
every part. `ServicesFair` and `DeskFair` state the fairness of the modules' own
`Fair` definitions for the part that runs.

**EventBus.** An action is the stretch of `publish` between two awaits:
`Publish` (duplicate in memory or admission, with the eviction of half of an
oversized set), `IsDuplicatePersistent`, `PersistToPostgres` (the INSERT reaches
the server and draws its offset), `InsertReply` (commit, unique violation or
failure before or after the commit), `SendTyped` and `SendSystem` (the two
broadcasts of an attempt; a failed one may have been sent), `RetryOrRaise`.
`Cancel` is a cancelled caller: `CancelledError` passes the `except Exception`.
`Crash` restarts a process with an empty set. `processedIds`, `rows`, `typed`
and `system` are `_processed_event_ids`, the events table and the messages on
the two channels. External: the BIGSERIAL draws offsets that are never given
back. (PostgreSQL reserves the word `offset`; the model takes the schema as
created.)

**StreamProcessor.** The event loop runs one coroutine at a time, so a listener
keeps control (`active`) through all its handler calls unless a handler
suspends, which only the sleep of a high-priority processor with a full queue
does. `Receive`, `Skip`, `Refuse`, `Enqueue`, `Awake` are the listener and
`_handle_event`; `Take`, `Succeed`, `Fail`, `FailQuietly` (`BaseProcessor`
swallows), `PublishResult` are `_process_loop`; `Start`, `Subscribe`, `Stop` the
life cycle. Events carry the number of their publication. How often Redis may
carry an event (`copies`) is what `EventBus!DeliveryBounds` allows. External:
what a second concurrent reader of a redis connection gets depends on the
client's version, so both are deployments (`oneReader`).

**PubSub.** The same listeners with two channels and suspending handlers: who
reads a message, whose handlers it calls.

**DistributedState.** One key; a value is the set of calls whose effect it
contains, so a lost update is a call that returned and is missing. Actions are
the awaits of `get`, `set`, `atomic_update`, the pessimistic variant and
`delete`. External: asyncpg hands out a JSON column as text (`core/bus.py` and
`core/replay.py` decode it, `core/state.py` does not); a row cached by `get()`
is unreadable for the next `get()`; `SET TRANSACTION` outside a transaction has
no effect, so writes run under READ COMMITTED with a row lock.

**TradingSystem.** A tick runs without suspension from its first gate to the
executor's first await (alerts only create tasks); an evaluation, `stop()` and
the executor's answer interleave with it. Drawdown and daily result are the
intervals between the thresholds, the daily result with its sign; what depends
on prices is a free choice. Nothing in the code stops the websocket, so ticks
go on after a halt. The executor is the order's fate (`Results`), which
`TestnetExecution` details; of the portfolio it keeps whether a position is open.
Symbols share the warm-up and its counter, while the learner counts per symbol: the
first symbol about which it becomes reliable ends the warm-up of all
(`app/main.py:674-679`), and a symbol without a single fill by then has an edge of 0
and is not traded any more. `WarmupEnds` therefore only says that *some* symbol
becomes reliable, and that needs a warm-up limit above what all symbols together can
take without one becoming reliable.

**TestnetExecution.** `submit_order` posts an order and books the answer; a
limit order is polled (`PollForFill`) a bounded number of times. `connect()`,
`disconnect()` and `get_position()` run between the awaits. The exchange is
external: it takes or refuses what reaches it, executes it lot by lot, cancels
it or lets it expire; a failed call may have arrived or arrive later. An answer may
lack the executed quantity, and then `submit_order` books all of the order
(`data.get('executedQty', order.quantity)`); it may lack the order's id, and then a
limit order is not polled. `bare` remembers the orders booked without a quantity,
the only ones that `NeverAhead` lets be reported ahead of the exchange. Without a
session (`online` false, which is what `requirements.txt` without aiohttp gives)
fills are made up (`SimulateOrder`). `cancel_order` only looks into a dictionary
that nothing fills, and is left out.

**Portfolio.** `UpdateFromFill`, `UpdateMarketPrices` and `ClosePosition` are the
methods with everything they call, in the code's order (a fill recomputes the
results, then the drawdown, and resets the day last). A drawdown is the pair of
loss and peak. History variables hold what the fills paid, the last price and
which positions were priced since their last fill, so that the books can be
compared with the money.

**Supervisor.** `start`, the heartbeat loop, a restart (stop, sleep, start) and
`stop()` are tasks that interleave at every await of a component; an instance may
die or fail to stop or to start. A restart awaits the component's `stop_fn` and
`start_fn` without a timeout, so that either may never return and the heartbeat loop
with it (`Hang`), and `_on_component_failure` may raise, which ends the pass of the
loop ("cut"): the components behind the failed one in the order of registration then
wait for a pass that gets as far. `Tick` ages heartbeats by one timeout. Two calls of
`restart_component` at once (only the heartbeat loop calls it) and a `stop()` that
hangs in a component are left out.

**StateStore.** Appending, the flush of a full buffer as a task, the flush loop with
its insert, the saves with their order of servers, `disconnect()`, a crash and
recovery. The file is written without an await and the table with one, which is why
a crash falls between them. A write of the file may fail half-way or at once; the
error is logged, the batch goes on to the table, and `unfiled` remembers it. A row
of the positions table cannot be read back (the constructor refuses it), so that
only Redis is ever read.

**Replay.** Writers draw offsets, commit in any order or burn theirs; `replay()`
fetches a page, handles it row by row and asks again from the next offset; the
simulation stops it, and snapshots are taken in between.

**EventOrdering.** `process_event` holds a `threading.Lock` across the callbacks'
awaits; another call, or one that a callback itself makes to `reset_sequence`
(`callbacks` has "reset"), then blocks the thread (`loopBlocked`).

**SimulatedExecution.** The latency of an order is a sleep, so that orders
overlap; what an order fills and the position it moves change together. The three
engines are a choice (`engine`), as is whether LIVE was confirmed.

**OrderProcessors, DecisionPipeline.** Each processor has its queue and handles
one event at a time; what it awaits in the shared state is a step of its own
where another processor writes the same key, and may raise, which
`BaseProcessor.process` swallows: what the handler did before stays, what was to
follow is lost, and nobody tries again. A processor hears whatever its channel
carries. So the portfolio processor, subscribed to channel ORDERS for two types, is
handed a fill once for each (`copies`; twice with the in-process bus, none to twice
where listeners share a connection) and books every copy, and it writes and publishes
an update for any event. The alpha processor asks no event for its type: it hears its
own signal and makes another of it, without end (`MaxHeard` bounds that in the
model), and the regime processor spends events without features on the regime. The
`PositiveExpectationEngine` gets truths twice. `RegimeProcessor` fills its cache
before the write that may fail. An event that another channel's listener would bring
in is covered by `OtherEvent`. The execution of orders in
`execution_processor.py` cannot be reached (the price is None where there is no
state, and the state has no `get_sync`); its handling of fills can.

**OrderRouting.** A plan is a stack of calls of `plan()`: all pieces of a split are
alike, so one of them stands for all. Without any depth twice the size is taken for
it, and a route needs an exchange that takes orders of that size.
**ExchangeValidator.** Sizes are counted in halves of the precision, so that
rounding half to even is visible. **SafetyAdapter.** `send_order` holds the lock of
the adapter from its first check to the gateway's answer; what the gateway has taken
it accepts after a sleep of 0.2 s, in a task of its own that asks neither the switch
nor the link again. The operator connects, disconnects and arms the switch at any
time. Health loops exist from `initialize()` on (each call starts one more and
forgets the one before, which `shutdown()` then does not cancel), and arm the switch
only where `enable_kill_switch` is set.

**LiveData, RequestScheduling, Watchdogs, Governors, Assessment.** Their parts do
not meet and have a next-state relation each. Clocks count the thresholds of the
code. Windows are shorter than in the code and keep their order. A statistic over
floating-point samples is computed exactly over small integers where a property
depends on it (slopes, scores, medians, CUSUM), and drawn where none does.

**Learning, ModelLifecycle, SignalPool, RegimeDetection, RiskGates.** The state is
that of the classes; a value that the code computes from samples alone is an
input drawn from a set that covers both sides of every threshold. `ModelLifecycle`
cuts every call at each `await` of `_transition_state`, so that operators and the
learning pipeline interleave, and the write or the publication there may raise: the
state is set already, the rest of the call is not done (`abandoned` remembers
promotions cut short). With a bus the publication always raises, for
`EventType.MODEL_STATE_CHANGED` is not defined, so that no promotion is ever recorded
there. In `SignalPool` the factory's path and the public methods are separate: a
caller may create, validate (in any state; a killed signal comes back to life),
deploy and record trades past the factory. `unexamined` are the signals that did so
or grew too old since the last evaluation. All three reasons to kill are there, and
a trade of any signal, deployed or not, evaluates the pool. `RiskGates` has
`apply_protection_action`, although nobody calls it. An update of a drawdown has a
result of the day of its own, independent of the change in value, and ends where its
alert cannot be published.

## 3. Runs

All passing runs check instances whose behaviours end (a bounded number of
calls, messages, orders or fills, or `stop()`), hence `CHECK_DEADLOCK FALSE`.

| Run | Shows | Bounds |
|---|---|---|
| `bus` | `DeliveryBounds`, `RememberedIsStored`, `NothingAfterCompletion`; `ExactlyOnceDelivery` when nothing fails; `PublishReturns`; `ImplementsTopic` | 3 tasks, 2 processes, 2 events, a set of 1 id, 2 attempts, 3 calls; no failures or all of them |
| `processor` | `TypeOK` with the queue's bound, `EveryEventAccounted`, `InOrder`, `ProcessedOnce`, `RememberedWasHandled`, `QueueDrains` | 3 events, a queue of 2, a memory of 2; four deployments: restarted with every event twice and one invalid, a `BaseProcessor` with 2 types, high priority with 1 and 2 types |
| `state` | `NoLostUpdate` and `VersionsNeverFall` for careful use, `CacheWasCommitted`, `LocksHaveOwners`, `CallsReturn` | 3 tasks, 3 calls, 2 attempts; updates in one process with every failure, updates and deletions in two, pessimistic updates with blind writes and deletions |
| `trading` | `OneLateFill`, `BreachHalts`; `WarmupEnds` if the warm-up limit is above what the symbols can take without the learner becoming reliable | 2 symbols, every level of drawdown and daily result, 5 orders, 2 ticks, 2 failures, 3 warm-up trades, 2 samples |
| `execution` | `NeverAhead`, `OneVerdict`, `PositionIsReported`, `SubmitReturns` | a limit order to buy and a market order to sell, 2 lots, 2 polls, 2 connections, with and without a session |
| `services` | `OneDelivery`, `StorageIsFaithful`, `ServicesAreContained`, `LimitsAreKept`, `ServicesProgress` | 14 parts, see below |
| `orders` | `AccountsBalance`, `FillsAreHeld`, `OrdersAreSentOnce`, `DeskProgress` | 6 parts, see below |
| `decisions` | `RiskIsGoverned`, `LearningIsSound`, `DecisionsAreDerived`, `AssessmentsAreSound`, `NothingIsUndone` | 16 parts, see below |

The parts of the last three, with what is asked of each:

| Part | Asked | Bounds |
|---|---|---|
| `pubsub` | `OneDelivery`, `SomeoneListens`, `EveryMessageRead` | 2 channels, 3 messages, 3 subscriptions, either client |
| `store` | `LogInOrder`, `EventsAccounted`, `FileBeforeTable`, `FallbackOnly`, `BufferDrains` | a buffer of 2, up to 4 events and 2 saves; healthy, PostgreSQL and the file failing and crashes, both servers failing |
| `replay` | `ReplayedInOrder`, `NothingSkipped`, `SmallSnapshotCurrent`, `ReplayEnds` | pages of 2, 4 offsets, failing rows, bounded and unbounded replays, a simulation |
| `ordering` | `OrderedFeedStaysOrdered`, `BlockedByCallback` | 2 symbols, 3 numbers, 3 arrivals; no callback, one that suspends, one that resets |
| `supervisor` | `NoSecondInstance`, `RestartsBounded`, `SilentIsHandled` | 2 components, 1 restart, 1 failure |
| `sockets`, `votes`, `monitor` | `SilentWhenStopped`, `GivenUpLast`; `PriceIsBetween`, `NoVoteIsValid`; `QuietIsUnhealthy` | 2 exchanges, 2 attempts, 4 breaks; 3 sources with 3 prices; a window of 4 |
| `rate`, `sync` | `RatesAgree`, `LowRateStays`; `OneOutlierIsIgnored` | 12 requests a second, a burst of 4, 7 answers; 6 readings |
| `alerts`, `healing`, `survival`, `capital` | `AlertsAreFew`; `FailingIsLeftAlone`; `NeverOnlyWarned`; `NothingIsUtilized` | 7 alerts, 6 checks, 3 assessments, 2 allocations of 4 strategies |
| `portfolio` | `ValueConserved`, `DrawdownBounds` | 1 symbol, 2 prices, fills of 1 or 2 lots, 4 fills, 2 days |
| `engine` | `HeldIsReported`, `EntryIsOfThisSide`, `OwnBook`, `NeverOverfilled` | 2 orders on 2 symbols, 3 depths of the book, 3 engines |
| `processors` | `OneSidedIsBooked`, `RiskIsBehind`, `MatchedIsEqual`, `BooksCatchUp` | up to 2 fills in 0 to 2 copies, a decision, a reconciliation, 2 failing writes, with and without a shared state |
| `routing` | `PlanKeepsLimits`, `SentByTheBest` | sizes, depths and types on both sides of every limit, 3 exchanges, 2 changes of them |
| `bridge` | `OneOrderPerRequest`, `EveryCallAudited`, `BrokenLinkArms` | 2 requests, 3 sends, 4 switches, paper and simulation, with and without the kill switch |
| `validator` | `AcceptedWithinRates`, `HoldingNearLimit`, `AcceptedFitExchange` | 4 calls, 2 orders a second, 3 a minute, an odd limit |
| `phases`, `rates`, `resolver` | `SevereStopsInTime`; `RatesHeld`, `ThreeSymbolsTradeOnce`; `DecisionsCounted` | a clock of 4, 3 symbols and one caller or 2 and two, 4 decisions |
| `limits`, `sizes`, `checks` | `HaltOutlastsLevel`, `SentIsBounded`; `AdaptiveSizeBounded`; `CompositeNeverDecides` | both sides of every limit, 12 steps of the multiplier, 4 stakes |
| `learner`, `drift`, `data` | `FirstTradeDecides`; `CusumIsBestSuffix`; `ValidationIsUnseen` | 3 samples, 5 trades; 11 performances; 14 rows in windows of 5, 4 and 2 |
| `models` | `OnlyJudgedTrade`, `QuietOperatorHasOneActive` | 3 versions; 1 operator with 7 moves, with a bus or with a failing write; 1 with rollbacks and a failing write, 6 moves; 2 with rollbacks, 5 moves |
| `signals` | `NoneOutlivesItsMerit`, `TurnoverSpaced`, `NeverRevived` | 2 signals from 3 proposals with outcomes and turnovers; 1 signal with 3 trades, or 2 with 2, and calls past the factory |
| `pipeline`, `truth` | `HistoryFirst`, `NothingIsWorthItsCost`, `RegimeIsRenewed`; `OnlyOverlapsLose` | 2 updates of 3 kinds of book, 4 events heard back, a clock of 3; 2 fills, 2 reconciliations |
| `regimes` | `CautionSurvives`, `PressureIsSpread`, `PredictionIsFresh` | 4 ticks, 3 volatilities, 2 answers, fresh and day-old predictions |
| `drawdowns`, `quality` | `TroughIsLowest`, `DepthIsNotUnderstated`, `GrowingLossesAskForNothing`, `SpikesHideEachOther`; `MissesNeverThrottle` | 4 updates of 3 values and 3 results of the day, 5 returns; 6 fills or misses |

The type invariants of the modules are part of `ServicesAreContained`,
`AccountsBalance` and `RiskIsGoverned`.

Two tasks and two processes give every pairwise race; a third task lets a
process race with itself and another one at once. Sets and queues of one or two
entries make eviction and overflow happen within three events. Two attempts
have a first, a last and a retry between. Four fills build a position up, close
it in part, reverse it and reverse it back. Thresholds counted in the code (5
ticks, 5 failures, 10 warm-up trades, 30 samples, 10 polls) are constants with
small values; only their order matters. Two components are the least number with
which the supervisor stops one while it restarts another; windows of three to
five entries are the shortest that fill, slide and are compared with themselves.

What the conditions in the properties leave out is where the code breaks them:

- `ExactlyOnceDelivery` needs that nothing fails: a retry repeats a broadcast
  that had its effect, and only `DeliveryBounds` remains.
- `EveryEventAccounted` excludes high priority: after the sleep the deque drops
  its oldest event uncounted. `InOrder` excludes overlapping handlers.
- `NoLostUpdate` needs one process and an existing key: the lock and the version
  are compared per object, and a new key has no version.
- `CacheWasCommitted` excludes the pessimistic update, which caches before its
  commit.
- `RememberedWasHandled` excludes `BaseProcessor`, whose `process()` hides what
  failed, and `ProcessedOnce` a bus that repeats events and a second subscription.
- `WarmupEnds` excludes LIVE, whose executor returns no fill events.
- `NeverAhead` excludes orders booked from an answer without a quantity.
- `ValueConserved` excludes short positions that were bought back in part or
  reversed: their entry becomes the price of the last fill, or stays that of the
  short.
- `EventsAccounted` and `FileBeforeTable` exclude the events of batches whose writing
  ended early, by an error of the file or at an event without a JSON form; those of
  `recover()` are of that kind.
- `NoSecondInstance` excludes instances whose stop failed, `SilentIsHandled` restarts
  that never return and components behind one whose failure callback raised.
- `OneSidedIsBooked` counts the copies the bus handed over, not the fills executed: a
  fill that came twice is booked twice; with fills of both sides or a triggered
  reconciliation only their number is known, not their sum. `RiskIsBehind` and
  `BooksCatchUp` exclude what the last failed write should have shown.
- `BrokenLinkArms` excludes adapters without a health loop or without a kill switch.
- `QuietOperatorHasOneActive` excludes a second operator and rollbacks, and allows the
  versions whose promotion was cut short; `OnlyOverlapsLose` excludes overlapping
  reconciliations and failed writes, `RegimeIsRenewed`, of the key, a failed write.
- `NoneOutlivesItsMerit` excludes signals that traded past the factory or grew old
  since the last evaluation, `NeverRevived` a new validation.
- `RatesHeld` allows as many trades more as there are further callers, who all ask
  before any of them records.
- `HoldingNearLimit` excludes orders that are accepted while another is in flight.

Some properties of this code say what it cannot do, and hold: no pooled edge pays
for its costs in `DecisionPipeline` (`NothingIsWorthItsCost`), the composite score
rejects no trade (`CompositeNeverDecides`), a strategy is never only warned
(`NeverOnlyWarned`), no allocation is valid (`NothingIsUtilized`), a rate that was
cut to four requests a second or less stays there (`LowRateStays`), misses never
throttle (`MissesNeverThrottle`).

Runs that TLC refutes, each a disagreement between the code and what it says of
itself (`findings` in PROJECT.json quotes the lines):

| Run | Property | What happens |
|---|---|---|
| `bus_retry_loses` | `AckedIsDelivered` | a caller whose call failed after its row was committed (the reply was lost) retries, finds the row and is taken for a duplicate |
| `pubsub_routing` | `RoutedByChannel` | the reading listener calls its own channel's handlers |
| `trading_starves` | `WarmupEnds` | 10 warm-up trades of all symbols together, 30 samples of one symbol needed |
| `order_plan` | `PlanReturns` | a piece has the participation of the whole and is split again, for ever |

Other claims are stated at the end of their modules, under "What the code says of
itself" or with their reason, and are refuted when they are made an INVARIANT or a
PROPERTY of the run of their part:

| Claim | Where | What happens |
|---|---|---|
| `AtomicUpdates` | `core/state.py` | two updates create the key without a version; one is lost (use `MCCreating`) |
| `DailyIsToday` | `portfolio/portfolio.py` | the result of the day becomes that of all days again |
| `DailyLossHalts` | `risk/limits.py` | a drawdown above 80 % of its limit is found first and only restricts |
| `ReducedIsHalved` | `risk/limits.py` | an order that is also clipped is sent unhalved |
| `StoppedIsDown` | `core/supervisor.py` | a restart that is under way starts its component after `stop()` |
| `ReplayReturns`, `SnapshotCurrent` | `core/replay.py` | a replay without an end waits for offsets that were burnt; a snapshot counts only the first page |
| `DuplicatesFiltered` | `core/event_ordering.py` | only the last number is known; an older one is delivered again |
| `RecoversAuthoritative` | `state/store.py` | Redis keeps what PostgreSQL once refused, and is read first |
| `RejectionsAreHeard` | `execution/simulator.py` | an order without liquidity is rejected without its callback |
| `PositionWithinLimit`, `ArmedBlocksAll` | `vnpy_bridge/` | each order is checked alone; what the gateway has taken is accepted after the switch was armed |
| `HoldingWithinLimit` | `core/exchange_validator.py` | orders in flight do not count, and rounding comes after the check |
| `TriggerChecksOnly` | `validation/position_reconciler.py` | a check that was asked for empties the position the portfolio holds |
| `ReconnectsByItself` | `data/websocket.py` | a socket that the exchange closes is left closed |
| `RequestsAreQueued`, `SteadyClockIsSound` | `engines/time_sync.py` | `put` is not awaited; a steady offset counts as drift at first |
| `QuietMinuteIsHeard` | `monitoring/alerts.py` | suppressed alerts count against the limit and keep it exceeded |
| `LeavesInStages` | `engines/positivity.py` | one good evaluation leads from HARD_STOP to NORMAL |
| `WinsDoNotLower`, `NoLeakage` | `learning/` | a win may lower the bounded mean; rows are both trained on and judged on |
| `OneActive` | `models/registry.py` | a rollback of a version that is not active takes the active one off the record, and a promotion makes a second; with a bus no promotion reaches the record, so that none retires its predecessor |
| `KillsAreReported` | `alpha/factory.py` | the first evaluation kills, the second reports |
| `GapsWithinWindow` | `processors/reality_gap.py` | the cut list is a local name (a window of 1, 3 fills, 3 reconciliations) |
| `PredictionExpires`, `CrisisIsCalibrated` | `regime/` | `timedelta.seconds` forgets days; a crisis is calibrated as normal |
| `GrowingLossesAreSeen`, `DrawdownIsReported` | `engines/drawdown_analyzer.py` | slowing losses ask for reserves, growing ones do not; only ended drawdowns are reported |

Seen while reading, and modelled as the code has it: the order-flow imbalance of
the microstructure detector is always 0 (the depth is appended before it is
compared); the latency score of the execution quality is taken from the slippages;
`reset()` of the risk engine says that it does not unhalt, and does; a daily profit
beyond the limit halts like a loss; the updates that the portfolio processor sends have
no symbol and are dropped by the validation of the processors that ask for them, so that
the risk processor never hears of a position (`RiskIsBehind`).

**Fairness.** Weak fairness of a worker's step stands for the event loop, which
runs every ready coroutine, and for servers that answer or fail in the end.
Nothing obliges a client to call, an event to arrive, a fault to happen or a
processor to be stopped. `BusySpec` of `TradingSystem` adds strong fairness of
sending and filling orders: it is the most favourable environment, so that
`WarmupEnds` fails in `trading_starves` for no lack of trading opportunities. The
services' loops (flush, heartbeat, replay, listeners), the supervisor's clock, the
processors' tasks, the gateway's tasks and the bridge's health loops, where there are
any, are weakly fair; a restart of the supervisor may hang, and its loop is fair only
as long as it does not. The operator, the exchange and the clocks of the other parts
are not fair. `decisions` and the remaining
parts have no obligations and no fairness.

**Refinement.** `EventBus` implements `DurableTopic` under
`INSTANCE DurableTopic WITH table <- rows, onChannel <- typed, onSystem <- system`:
every step of a publication stores a row, sends a message of a stored event a
bounded number of times, or stutters. TLC checks it in `bus` and TLAPS proves it.

## 4. Proofs

The theorems hold for all sets of events, tasks, processes, orders, channels,
components, sources, strategies, symbols, prices, intents, deployments and uses, and
all bounds and thresholds. They assume the named assumptions on the constants
(`ConstantsAssumption` of each core module; `SupervisorAssumption`,
`StoreAssumption`, `ReplayAssumption`, `OrderingAssumption`, `LiveAssumption`,
`SchedulingAssumption` and `WatchAssumption` of the services; `EngineAssumption`,
`OrderAssumption`, `RoutingAssumption`, `BridgeAssumption` and `ValidatorAssumption` of
the desk; `GovernorConstants`, `RiskConstants`, `LearningConstants`, `LifecycleConstants`,
`SignalConstants`, `PipelineConstants`, `RegimeConstants` and `AssessmentConstants` of the
decisions): numbers are natural numbers, what is summed or voted on is a finite set,
prices and weights are positive, a page has a place, the bucket a rate, the router two
exchanges to begin with, and what an exchange takes is a multiple of its precision.
Three theorems have hypotheses of their own (`LimitsStayKept`, `AccountsAreBalanced`
and `HeldAsFilled`, below). Each module has an inductive invariant with one
lemma or step per action.

| Module | Proved |
|---|---|
| `EventBus_proof` | `TypeOK`, `DeliveryBounds`, `OffsetsDistinct`, `CompletedIsDone`, `RememberedIsStored`, `NothingAfterCompletion`, `ExactlyOnceDelivery`, `ImplementsTopic` |
| `Processing_proof` | of events: `TypeOK`, `EveryEventAccounted`, `InOrder`, `RememberedWasHandled`, `ProcessedOnce`; of decisions: `RiskIsGoverned`, `LearningIsSound`, `DecisionsAreDerived`, `AssessmentsAreSound`, `NothingIsUndone`, with all their parts |
| `DistributedState_proof` | `TypeOK`, `LocksHaveOwners`, `CacheWasCommitted`, `NoLostUpdate`, `VersionsNeverFall` |
| `TradingSystem_proof` | `TypeOK`, `OneLateFill` |
| `TestnetExecution_proof` | `TypeOK`, `NeverAhead`, `OneVerdict`, `PositionIsReported` |
| `Services_proof` | `OneDelivery`, `StorageIsFaithful`, `ServicesAreContained`, `LimitsAreKept`, with all their parts |
| `Desk_proof` | `AccountsBalance`, `FillsAreHeld`, `OrdersAreSentOnce`, with all their parts |
| `FiniteNumbers` | the lemmas these rest on |

**EventBus.** The properties alone are not inductive: that an event is sent at
most `Retries` times needs that at most one call ever gets past the INSERT for it
(a call that sends has found no row before and made one, and rows are for
ever), that the number of messages is bounded by that call's attempt while it
works, and by `Retries` afterwards; distinct offsets need that an offset drawn by
an INSERT under way is below `nextOffset` and nobody else's. `IInv` says this per
event and per task. Most actions leave the pieces of an event alone, which one
lemma covers. Action properties and the implementation of `DurableTopic` follow
step by step from `IInv`. `ExactlyOnceDelivery` rests on a second invariant
(`FaultFreeInv`, inductive together with `IInv`): without failures an event without a
row went nowhere, one that is being sent is where its sender is, any other went
out once, and an acknowledged event has a row or somebody who works on it.

**StreamProcessor.** The accounting is a balance: every event that a handler took
is in the queue, in `process()`, or in exactly one of the counters, and the two
coroutines that share the queue are where their program counters say (`Reading`,
`Working`). `InOrder` needs the whole line from the wire to the first call of
`process()` in order: what is on the wire rises strictly and comes after what a
listener holds, and that after the queue and everything tried before; that there
is one holder at a time is what the deployments with overlapping handlers lack.
`ProcessedOnce` needs that no event is at two places of that line. The remembered
ids are among the calls that returned.

**DistributedState.** `TypeOK` needs that a task in a call has the call's number.
`LocksHaveOwners` is inductive with it. `CacheWasCommitted` needs
`StoresCommitted`: what a task is about to cache is a committed row.

**Updates.** Within one process, with a key that exists and updates only,
`NoLostUpdate` is not obvious, because the version is compared with the cache,
which may be behind the table: an update whose broadcast to the cache failed is
in the table only, and the next one overwrites it. `UpdateInv` says why that is
harmless. The update that is overwritten raised; every update that returned is in
the cache as well (`Current`); the cache is at most one update behind; what a
task has read contains all that returned, or is older than both table and
cache, so that the comparison will fail (`BaseFine`); who writes holds the one
lock and works on the latest version (`StageFine`, `WriterLeads`).

**TradingSystem.** An order under way passed its gates before anything tripped
(`OrderFits`), and one that the restriction or the kill switch overtook is the last,
with no late fill before it (`LateIsLast`). The type invariant is worth a proof here
because it has the bound of the warm-up trades, a counter of all symbols that is only
kept by the gate of each.

**TestnetExecution.** Per order: the exchange holds nothing before its request is
gone, a request is only made by a call, and a call that has not returned has no
result and no event. Nothing is made up online because a connected engine has an
open session (`SessionHeld`). `PositionIsReported` is about a sum over all orders.
`PositionInv` adds that everything a `get_position()` under way may bring back is
between what was sold and what was bought: an answer read before a fill and written
after it is off by what was reported meanwhile, and no more. A step changes the
quantity of one order, and `SignedMoves` says what that does to the sum.

**Services.** The services share no state: `ServicesNext` takes a step of one of
them, so each has its own invariant and every step of the whole is a step of it or
leaves it alone (`EachPartSteps`). The parts of the composed invariants, and what
each needs:

- *Listeners* (`BusInv`): a message which a listener holds is not also in the stream
  or with another listener, and the handlers it has still to call have not been
  called for it. A RuntimeError ends a listener only when another one is reading,
  which is why one is always left.
- *Stores* (`EventsInv`, `SavesInv`): what is buffered came after all that is in the
  file (`InOrder`), for a flush writes the buffer, or the part of it before the first
  event without a JSON form or before an error of the file, behind the file. A batch on
  its way to the table that the table can take is in the file already, or its writing
  ended early and its events are `unfiled` (`LogIsAhead`): the file is tried between the
  buffer's clearing and the insert. A position that is being written to
  Redis was refused by PostgreSQL (`FallbackRefused`).
- *Replay* (`ReplayInv`): a page rises from the cursor and skips no row that was
  there when it was read (`PageIsNext`). Rows that commit with a smaller offset later
  are the ones that are missed, and no others; `PagesAreNext` shows that the page
  query returns such a page.
- *Ordering* (`OrderingInv`): only a callback that suspends, or that takes the lock
  itself, is ever found holding it, so that nothing else blocks the loop.
- *Supervisor* (`SupervisorInv`): between the two halves of a restart nothing but
  instances whose stop failed is alive, and the component under restart has not used
  up its attempts (`RestartFits`); so neither `stop()` nor a failure in between, nor a
  restart that never returns, leads to a second instance or to more attempts than
  allowed.
- *Sockets, votes, monitor*: `MeanIsBetween` and `MedianIsNumber` give the price
  between the sources', `NeverConfident` that what outliers and shares of the weight
  leave of the confidence never reaches the threshold.
- *Requests* (`RateInv`): granted and left tokens together are the burst and what was
  earned, and nothing was earned beyond the rate in the seconds that were counted.
- *Clock* (`SyncInv`): the offset is the median of the last samples;
  `MedianAmongOthers` shows by counting that one sample cannot move it out of the
  others.
- *Alerts* (`AlertInv`): of the attempts after any time the deque tells all, or it is
  full of such attempts (`Remembered`); hence no minute has more alerts than the
  limit. `ThrottleInv` orders what passed by key.
- *Breakers* (`BreakerInv`): a breaker is open as soon as the failures in a row are as
  many as the threshold, and lets a check through only when its recovery timeout is
  over.
- *Survival and capital*: a score that warns is already low enough to act on
  (`ScoreFits`); `NeverUtilized` bounds the allocated part of the portfolio by a sum of
  rounded shares.

`LimitsStayKept` has two hypotheses, which the code does not enforce. The alert limit
is at most the length of the deque of attempts: `monitoring/alerts.py` keeps 60 and
uses a limit of 10, but a limit above 60, which a caller may ask for, would never
be reached. And a portfolio is worth more than a unit of money per
strategy in use. The configuration of the run satisfies both.

**Desk.** These parts share no state either (`StepOfEach`), and each has its invariant:

- *Portfolio* (`BooksInv`, `ResultsFit`): the result of a symbol, less its position
  at the entry price, is what its fills paid; that is inductive where `realized +
  unrealized = cash + value` is not, because it does not mention the last price. A
  drawdown is compared by cross-multiplication, and stays the fraction of the peak
  it was taken at.
- *Engines* (`EngineInv`): the position is a sum over the orders of its symbol, of
  which a step changes one (`SumChanges`); an order that sleeps has filled nothing,
  and on paper it is for the symbol of the book it took when it was submitted
  (`OrdersOpen`).
- *Processors* (`OrderInv`): the copies booked and the copies waiting in the queue
  together are those handed over, in number and in sum, and at most two per fill
  executed, the one being handed over included; `portfolio:global` is only behind
  what was taken while a handler is at work or after a write that failed; the
  position is no larger than its fills, which is what bounds the tolerance
  (`Fills`). `SumShifted` says that a sum over a queue is that over its tail and its
  head.
- *Routing* (`RoutingInv`): nothing goes before the plan is made, and a route is for
  a piece that waits (`PiecesWait`); after one split by the rate, what is within the
  rate is within the size (`OneSplitFits`), so that a second call of `plan` finds no
  more to split.
- *Bridge* (`BridgeInv`): a request is on its way, or accepted, only once the
  gateway knows it, and accepted at most once (`OrdersKnown`); rows of the audit,
  rows dropped and the call that sleeps are the calls that began.
- *Validator* (`ValidatorInv`): a window that forgot only what is too old recalls,
  after any time within its length, at least as many stamps as orders were accepted
  (`Recalls`), and it is never longer than its limit (`WindowCut`, `AfterCut`). The
  stamps of the second are the end of those of the minute (`AtTheEnd`), because
  nothing leaves the window of the minute that is in that of the second. At most one
  order is in flight as long as none overlapped, and rounding moves it by one half
  of the precision.

`AccountsAreBalanced` assumes of a run that no average of `update_from_fill` leaves a
remainder (`AveragesAreExact`): the code divides floating-point numbers, the model
integers, and what a division loses is not of the code's accounts. In the run prices are
8 apart and positions have two lots, so that every average is exact. `HeldAsFilled`
assumes that a day has less than 25 fills (`ShortDays`), of at most two lots and each
booked twice at most: the
reconciler takes a difference of up to 1 % for a match, and positions of more than 100
lots may match without being equal.

**Decisions.** The parts of `MCDecisions` share no state (`DecisionsStepParts`). Each has
its invariant, with a lemma for its start (`...Begins`), its steps (`...Steps`) and what
it implies (`...Says`); `DecisionsInv` is all of them:

- *Governors* (`GovernorInv`): a condition that has been severe since an evaluation
  below HARD_STOP was entered at that evaluation, which is also the last one, so
  that the next one after the interval stops (`PhaseInv`). The trades in a window
  and those that were allowed and not yet recorded are together at most the limit
  and one for every other caller (`RateInv`, `OtherCallers`, `WindowGrows`); with
  three symbols and one caller none that was allowed was traded today. Approvals in
  the history are among those counted (`ResolverInv`).
- *Risk* (`RiskInv`): level and halt fit the portfolio they were evaluated on, and
  the composite score is bounded by the weights of its parts (`CompositeIsBounded`).
- *Learning* (`LearningInv`): a step towards another mean never crosses zero
  (`MeanKeepsSign`). The CUSUM is `SuffixBest`, the most that the observations from
  some position on add up to, and a new one continues the best suffix or begins
  again (`SuffixGrows`).
- *Models* (`LifecycleInv`): a call that is suspended in a transition will only
  activate, fall back to or record a version that passed the gates (`CallIsSound`),
  also when it is cut short there; of one operator without rollbacks it also says
  which version is active at each await, beside those whose promotion was abandoned
  (`QuietCall`).
- *Signals* (`SignalInv`): what trades is not condemned unless it is `unexamined`,
  whoever trades anew has no score yet; histories of errors do not get shorter once
  they are long enough (`HistoryStays`); every trade in the window was recorded and
  is a cooldown from the next (`TurnKept`).
- *Pipeline* (`PipelineInv`): the ranges of what waits in each queue, from which no
  estimate comes to more than its costs, whatever other events the queues carry
  (`AlphaFacts`, `NoReturn`); the cached regime is the one in the key unless its
  write failed (`CacheIsWritten`); each holder of the key wrote what it had read
  unless another one wrote in between or its write failed (`KeySteps`).
- *Regimes* (`RegimeInv`): all flows are 0, as `ImbalanceIsNothing` shows of the
  code's order of statements; `MedianIsPositive` rests on `PlacedIsOne`, that a
  sequence of numbers has a k-th in order.
- *Assessment* (`AssessmentInv`): a drawdown there is is more than a percent deep,
  and its trough is the lowest value since it was found; `FallingAll`, that a series
  cannot slow down where all later rates are larger, gives
  `GrowingLossesAskForNothing`; `SpikesAlone` counts the squares of a window's equal
  spikes against its deviation. Without slippage the score is at least 70, so that
  it cannot fall twice by a fifth (`ScoreFacts`).

Their assumptions are the named `...Constants` of the modules: samples and thresholds
are numbers of the sign the code gives them, windows are not empty where something is
divided by their length, a registry, a floor and a caller are finite; `SignalConstants`
has the cooldown within the window, as the code's values (5 of 60 seconds) are.
`SpikesAlone` needs that the window has at most one more than the square of the deviations
that make a spike (`AssessmentConstants`): the code has 10 returns and 3 deviations.

**FiniteNumbers.** The theorems of the library about induction take an operator,
which the provers cannot instantiate. Its lemmas therefore say what they say of a
set: a set of numbers that has 0 and with each number the next has all
(`NumberInduction`), and a set of subsets of S that has the empty one and grows by one
element has S (`SubsetInduction`). From these follow least and largest members, the
member with a given number of smaller ones (`OrderStatistic`, `Places`), and that the
fold behind `SumFunctionOnSet` exists and what it does when a value changes, all values
grow, two functions are added or an index moves (`SumChanges`, `SumMonotone`, `SumAdds`,
`SumWithin`, `SumShifted`). Sequences of times have lemmas on what comes after a time
when one is added or dropped (`AfterAppend`, `AfterCut`).

Only model-checked: liveness (`PublishReturns`, `QueueDrains`, `CallsReturn`,
`BreachHalts`, `WarmupEnds`, `SubmitReturns`, and what is in `ServicesProgress` and
`DeskProgress`), which TLAPS does not handle. Every invariant and action property of a
passing run is a theorem.

## 5. Not modelled

Components marked `not_modelled` or `partly` in PROJECT.json say what is left out.
In short:

- *Functions of floating-point samples without control*: `features/`, `strategy/`,
  the fill and cost models, attribution, reality calibration.
- *Input and output*: loaders and generators of data, logging, tracing, metrics, the
  dashboard, the messages of alerts, deployment files.
- *Code that cannot run at this commit*: `trading/loop.py`, and the execution of
  orders in `processors/execution_processor.py`.
- *Code without a caller or an effect*: `drain` and `CompositeProcessor`, the
  in-process bus as such, `deescalate` and `check_anomalies`, `SignalPool.reset`,
  `restart_component` outside the heartbeat loop, `validate_candidate` with results
  that are not of the pipeline, `cancel_order` of the testnet engine, the heals of
  `ReconciliationEngine`, `validation/time_sync.py` and `data_validator.py`, which
  only the trading loop uses.
- *Failures that are assumed away*: queues that overflow in `OrderProcessors` and
  `DecisionPipeline` (`StreamProcessor` has them); a connection that fails while a
  listener waits on it (`core/bus.py:409` ends the listener); a non-graceful
  `stop()` of the supervisor and one that hangs; a request that `_validate_order` of
  the gateway refuses (`ValueError`: the audit row stays "pending"); a missing price
  in `close_all_positions`, which is taken for 0 (`portfolio/portfolio.py:382`).
- *Names that do not exist*: `processors/risk_processor.py:98` reads
  `self.initial_capital`, which nothing sets, so that a decision ends in an
  exception there, as it does in the model (and `:173` is never reached).
  `engines/positivity.py:291` names an `EventType` that does not exist after the
  phase was set: with a bus `evaluate` changes the phase as modelled and then
  raises. A `LearningProcessor` fails in `start()` for the same reason, so that
  `ModelLifecycle` takes its handler as something that a caller drives. The
  consensus of sources (`data/consensus.py:171`) builds a `SourceWeight` without a
  field that it needs; a call that raises there is no vote.
- *Left for an extension*: the health-check loops of the bus and of the supervisor,
  the search for missing events in `core/replay.py`, and a composition of
  `TradingSystem`, `TestnetExecution` and `Portfolio` in which an order's fate is
  that of the executor; today `Results` and whether a position is open stand for
  them.
