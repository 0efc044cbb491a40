# TLA+ models of the Titans trading engine

Titans (the repository this directory belongs to) is a header-only C++20 trading
engine. Its README promises "a hard boundary between a nanosecond-scale fast path
and an LLM-scale slow lane"; behind that boundary it has a simulated exchange, a
shadow-trading engine that runs strategies against it, an event bus and event loop,
a market-data client and recorder, a tick-to-trade pipeline that is measured, a
walk-forward evaluation of the slow lane's signal, and a harness (local, distributed
and against live models) for experiments on contaminated language-model context.

This directory holds specifications of the parts in which order, interleaving or
bookkeeping matter, the TLC configurations that check them on small instances, and
theorems about them that TLAPS checks for every value of the constants. Every
definition is read off the code; `PROJECT.json` records, under `map`, the lines each
one stands for. Paths below are relative to the repository (`include/` stands for
`include/titans/`, `tools/` for `src/tools/`).

To run everything here by hand:

    tlc -config MCLanes.cfg MCLanes.tla          # each .cfg with the module PROJECT.json names for it
    tlapm MatchingEngine_proofs.tla              # any *_proofs.tla, and Lemmas.tla

## 1. The system

### Components, their state and operations

| Component | Source | State it keeps | Operations that change it | What makes it correct |
|---|---|---|---|---|
| AdvisorySlot | `include/lanes/advisory.hpp` | a ring of advisories, a generation counter, a retry counter | `publish` (one writer), `try_read` (any number of readers) | a reader gets one whole advisory, never an older one than before; it never waits for the writer |
| SPSCQueue | `include/core/spsc_queue.hpp` | slots with tickets, `head_`, `tail_` | `try_push`, `push`, `try_pop`, `pop_bulk` | bounded FIFO; the two threads never meet in a slot; a spinning push gets in |
| Fast lane | `tools/lanes_demo_main.cpp`, `include/lanes/*` | the event at hand, `AdvisoryView` cache and counters | per event: `LaneBridge::offer`, `AdvisoryView::current`; at the end: stop, join | acts only on live advice, never blocks, loses nothing uncounted |
| Slow lane | same | flow window, calibration, cadence budget | drain the bridge, calibrate, publish | decides on the newest observation; notices the stop flag; reports its own lateness |
| L3 order book | `include/trading/order_book.hpp` | price levels with FIFO queues and cached totals, an index from id to level | `add_order`, `cancel_order`, `modify_order`, `execute_market_order`, `clear` | caches agree with the orders, price and time priority |
| L2 order book | same | two maps from price to quantity | `update_level`; best levels, vwap, depth, imbalance read it | its views agree with each other |
| Matching engine | `include/trading/matching_engine.hpp` | the book, client id to book id table | `submit_order` (market, limit, IOC, FOK), `cancel_order` | never crossed, never trades through a limit, never overfills; a submission returns |
| Shadow engine | `include/trading/shadow_engine.hpp` | variants (strategy + risk manager), books, subscriptions | `start`, `stop`, `process_order`, market data | every outcome reaches the strategy and its risk manager |
| Strategies | `include/strategy/strategy_base.hpp` | life-cycle state, pending orders, metrics | `initialize`, `start`, `stop`, `pause`, `resume`, `submit_order`, `cancel_order`, `cancel_all_orders`, `on_order_update` | what it believes to be pending is what rests |
| Risk manager | `include/trading/risk_manager.hpp` | positions, averages, rate counters, profit and loss, kill switch | `check_order`, `on_fill`, `on_price_update`, `emergency_stop`, `enable_trading`, `reset_daily` | limits hold for what is traded; accounts balance |
| Event bus, MPSCQueue | `include/core/event_bus.hpp`, `include/core/spsc_queue.hpp` | handlers by type, a multi-producer queue | `subscribe`, `publish`, `queue`, `process_queued` | every handler sees every event once, in order; nothing accepted is lost |
| Event loop | `include/core/event_loop.hpp` | descriptors, timers, posted callbacks, running flag | `add_fd`, `remove_fd`, `add_timer`, `cancel_timer`, `post`, `run_once`, `run`, `stop` | cancelled means never called again; the tables stay together |
| WebSocket client, feed handler | `include/market_data/websocket_client.hpp` | connection state, socket, buffers, reconnect attempts, streams | connect, handshake, read, ping, reconnect, disconnect, subscribe | one socket at a time; always something that brings it back |
| Logger, replay | `include/market_data/binary_logger.hpp`, `tools/replay_main.cpp` | buffer, file, file size; read position | open, write, flush, rotate, close; replay, replay of a range | what is replayed is what was logged, once and in order |
| Memory pools | `include/core/memory_pool.hpp` | free lists, blocks, a ring | allocate, free, reset; push, pop | no object or byte handed out twice |
| Latency pipeline, benchmark support | `tools/pipeline_main.cpp`, `include/bench/*`, `include/lanes/flow_policy.hpp` | book, flow window, calibration, schedule, histograms | one trade per iteration, a sweep over delays; record, correct, summarise | decisions are those of a lane without delay; no latency is reported low |
| Experiment coordinator and workers | `include/context/distributed_experiment.hpp` | task queue, task table, workers, results | submit, dispatch, heartbeat, process result, retry | each task ends once, whatever becomes of a worker |
| Local runner, batch files, saved results | `include/context/distributed_experiment.hpp`, `experiment_config_io.hpp`, `experiment_persistence.hpp` | two counters, results by index; the files of the batch directories and of the figures | load and expand, run on threads, tabulate, save | tables and files pair what belongs together, whatever the schedule |
| Versioned entities, contamination | `include/context/versioned_entity.hpp`, `contamination_injector.hpp` | histories of states with validity and provenance | add, invalidate, forget, inject | what is superseded is marked so, and nothing else is |
| Experiment harness, metrics | `include/context/experiment_harness.hpp`, `evaluation_metrics.hpp` | the event history, contexts, findings, answers | one event per step for each configuration | a comparison compares like with like; reports add up |
| Walk-forward evaluation | `tools/walkforward_main.cpp`, `include/eval/*`, `include/context/binance_dataset.hpp` | days, samples, folds, embargoes | read a day, judge it, calibrate | nothing from the future |
| Language-model back ends | `include/core/json.hpp`, `http_client.hpp`, `include/context/ollama_backend.hpp`, `llm_interface.hpp` | connections, partial answers, batches | complete, complete a batch, stream; parse | an answer is whole or an error |
| Live-model experiment | `examples/run_llm_experiment.cpp`, `include/context/context_contaminator.hpp` | two arms' tallies | ask, score, write, judge | the arms differ in the treatment only |

`PROJECT.json` lists further components that are left out, each with its reason: the
latency budget's arithmetic, QUBO subset selection, CUDA
kernels and the GPU monitor, debug support, plain types, the other research tools,
`src/main.cpp`, Python, scripts and usage examples. Section 6 says what is left out of the components that are
modelled in part.

### How they interact

- **Two threads, two shared objects.** The fast lane pushes observations into a
  `LaneBridge` (an SPSCQueue that drops when full); the slow lane drains it and
  publishes an `Advisory` into an `AdvisorySlot`, which the fast lane reads through an
  `AdvisoryView`. Nothing else is shared but the stop flag. The pipeline tool keeps one slow lane beside
  several passes over the same tape.
- **One thread, nested calls.** `StrategyBase::submit_order` publishes `OrderNew`
  on the event bus, which calls `ShadowEngine::process_order`, which builds a
  `MatchingEngine` over the symbol's L3 book, runs `submit_order` on it (publishing
  trades on the same bus from inside the matching loop) and then calls the strategy's
  `on_order_update`, which calls `RiskManager::on_fill`: all before the first call
  returns. The bus itself allows handlers that publish and subscribe.
- **Callbacks into mutable tables.** The event loop calls timers and descriptor
  handlers that add and remove timers and descriptors; the WebSocket client
  reconnects from such callbacks, and from inside its own read loop.
- **Messages.** The experiment coordinator and its workers exchange tasks, heartbeats
  and results, which may come late or never. A language-model back end exchanges requests and
  answers with a server that may stop at any byte.
- **One stream, many readers.** The experiment harness puts the same contaminated
  events to every configuration; the walk-forward tool puts the same days to every embargo.

### What is hard

`PROJECT.json` lists the hazards at their lines. The main families: a multi-word
struct copied while it is overwritten (`advisory.hpp:232`); slots reused lap after lap
(`spsc_queue.hpp:129`, `:242`); a cache judged by time, generation and age after failed reads
(`advisory.hpp:322`); totals and indexes kept beside the data they summarise
(`order_book.hpp:73`); two numberings of the same orders
(`matching_engine.hpp:134`); an outcome that must travel back along the path an order
took (`shadow_engine.hpp:343`); limits checked before and settled after
(`risk_manager.hpp:119`); timers and descriptors changed by the callbacks that walk
them (`event_loop.hpp:370`, `websocket_client.hpp:358`); a file cut at any cell
(`binary_logger.hpp:331`); an answer cut at any byte (`http_client.hpp:275`); retries, late results and workers that
disappear (`distributed_experiment.hpp:355`, `:377`); and, on the research side, numbers that look right
whatever they were computed from (`walkforward_main.cpp:526`, `context_contaminator.hpp:53`,
`evaluation_metrics.hpp:245`).

## 2. The modules

    lanes      LatestAdvisory <= AdvisorySlot --+-- MCHandover_proofs --+
               FifoQueue <===+== SPSCQueue -----+                      +-- Lemmas
                             +== RingBuffer ---+                       |
               ClaimQueue <===== MPSCQueue ----+-- MCBuffers_proofs ---+
             EventBus (on ClaimQueue) ---------+
             ObjectPool;  Arena;  BinaryLog ---+
               Lanes         (built on the first two abstractions) --+
               TickToTrade   --> FlowPolicy, L2OrderBook  -----------+-- Lanes_proofs
               StageTimes  ------------------------------------------+

    exchange   L3OrderBook --> MatchingEngine -- MatchingEngine_proofs
                                     |
                               ShadowTrading;   RiskManager   -- MCShadowTrading_proofs
                                                                 (on MatchingEngine_proofs)

    events     EventLoop --> WebSocketClient -- WebSocketClient_proofs

    research   Coordinator -----------------------------------+-- Coordinator_proofs
               VersionedEntity, ContextMethods --> Experiment -+
                                ContextMethods --> PairedArms -+
               RunMetrics;   LocalRun;   FlowPolicy --> WalkForward
               JsonText --> LlmExchange

(`A <= B`: B is shown to implement A. `A --> B`: B uses A, by EXTENDS or INSTANCE.)

A run whose constants are sets of model values and numbers is a `.cfg` on the component's own module
(`WebSocketClient`, `Coordinator`); the others have an `MC` module that
defines the values. Where several small
machines of one part of the system are checked, the MC module is their *sum*: a variable `part`, chosen
initially and never changed, says which of them moves, and the others stand still. A sum is not a
composition: it says nothing of interaction, and its state count is about the sum of the machines' counts. `MCBuffers`
(log, two queues, bus, pools, arena), `MCHandover`, `MCLanes` (the lanes of the demo, the decisions of the pipeline tool, its latencies),
`MCShadowTrading` and `MCExperiment` (the research side but for the coordinator) are sums. The bus has
more states than the other machines of `MCBuffers` together and a run of its own;
its constant `Parts` says which machines a run is about.

### AdvisorySlot and LatestAdvisory

`AdvisorySlot` models `publish` and `try_read` at the grain at which they can go
wrong. The `Advisory` struct is copied with a plain assignment, so both copies are
word by word, in any order (`WriteWord`, `ReadWord`); a word's value is the number of
the publication that wrote it, so a torn copy is one with two different numbers.
`BeginPublish`/`StoreGeneration` are the writer's load and store of `generation_`,
`SampleGeneration` and `NotLapped` the reader's two loads. `out[r]` is the caller's
`cached_`. `LatestAdvisory` is what users of the class count on: a register that is
sampled in one step and whose sample is either taken later or abandoned. The refinement
maps a reader between its first load and its lap test to an outstanding sample.

The copy in the source is a data race in the language's sense; on x86-64, where the
project is built and measured (`README.md:898`), a build's loads and stores of a
struct are its words' in some order, and steps of one thread take effect in
program order for the accesses this algorithm orders with acquire and release.
The models take shared accesses one at a time in that order: they are not a model
of weaker memory.

### SPSCQueue, RingBuffer and FifoQueue; MPSCQueue and ClaimQueue

One action per shared access. In `SPSCQueue`, `ppc = "construct"` and `cpc = "move"` are the intervals
during which a thread is inside a slot's data. `FifoQueue` is a bounded FIFO of atomic
operations that may refuse a push only when full and a pop only when empty; histories
`pushed` and `popped` are its state, and grow at the ticket stores, the points at which
an operation takes effect for the other thread. `RingBuffer` (of `memory_pool.hpp`, one slot kept empty) implements the
same FIFO with a slot less.

Producers of `MPSCQueue` compete for `tail_` with a compare-and-swap that may fail for no reason (`SwapFails`).
What it implements is weaker than a FIFO of atomic pushes and worth a specification of its own:
`ClaimQueue` has a push claim its position first and fill it later, and a claimed position holds up
everything behind it. `EventBus` is built on `ClaimQueue`.

### Lanes

The two loops of `run_once` in `tools/lanes_demo_main.cpp`, with `LaneBridge`,
`AdvisoryView`, `FreshnessPolicy`, the counts of `FreshnessMonitor`, and
`CadenceBudget`. Because the queue implements a FIFO and the slot a register, each is
one step per operation here. `fpc` runs event -> push -> (drop) -> advise -> read -> event
and ends with stop and join; `spc` runs outer -> poll -> count -> ... -> decide -> outer.
Time is the tape's (`obs.time`), as in the code: replay does not look at the wall
clock. What an advisory says is abstracted to whether it says anything; the flow
window and the calibration to how many observations they hold. A read that fails
because the writer lapped it is allowed when `LapsToFail` publications fell
into the call, which is what `ReadTerminates` of AdvisorySlot says of real failures.

### TickToTrade, FlowPolicy, L2OrderBook and StageTimes

`TickToTrade` is the replay loop of `tools/pipeline_main.cpp`: per trade the book, the
signal, the risk check and the order, with the slow lane that calibrates the flow policy's threshold beside all the
passes of a sweep. Here, unlike in Lanes, the window's contents and the threshold are kept. `FlowPolicy` and
`L2OrderBook` are operators: the window, the warning and the quantile; the book as a function from price to
quantity with every view the class offers. `StageTimes` is the other half of the tool, what it
measures: the schedule made of timestamps with millisecond resolution, the paced replay, the log-linear histogram, its
correction for coordinated omission, and what `print_end_to_end` concludes. The median of the gaps (`nth_element`) is stated by
its rank (`Ranked`), not by sorting.

### L3OrderBook and MatchingEngine

`L3OrderBook` defines what each call does to the book, as operators over its
variables; `MatchingEngine` owns the book and conjoins them with its own state.
A price level's queue is the set of its ids in increasing order, since ids are handed
out in order of arrival and a level is only appended to. `total` is the cached
`total_qty_`, which matching decisions read (`best_bid`, `best_ask`), `index` the
table `orders_`, whose clean-up after a trade misses the orders of levels that have
disappeared. `submit_order` is several steps because it publishes from inside: a round
of `process_limit_order` (`NextLevel`), one maker that trades (`FillFront`), the end of
`execute_market_order` (`EndExecute`), the remainder that rests (`RestRemainder`). The
history `left` says what each client order may still trade.

`Modify` takes any size, as `modify_order` does, also one that the order has traded already
(`order_book.hpp:74`, `:386`; nothing in the repository calls it). An order changed to what it has traded rests with
nothing to trade, and to less, with a negative quantity: `SubmitReturns` shows what comes of it.
Prices of fills, fees and timestamps are left out.

### ShadowTrading and RiskManager

`ShadowTrading` is `ShadowEngine::start`, `stop` and `process_order`, `StrategyBase` and the part of `RiskManager` they
set to work, over `INSTANCE MatchingEngine`, for one symbol. `current` is the `OrderNew` event being
delivered, with one delivery per subscription: `start()` after `stop()` subscribes
again, and nothing unsubscribes. The strategies' decisions are left open: any running
strategy may submit any order or cancel any pending one whenever no call is in progress.
The profit-and-loss limits may be breached by any fill. Which strategy sent an order, and which orders
a strategy has asked to cancel, are histories (`sender`, `cancelled`).

`RiskManager` is the class on its own, with its prices, averages, marks, rates by second and minute, loss limits and
64-bit products. What its fills have really paid (`cash`), what the divisions in an average may have lost (`rounding`) and how many
orders have passed (`passed`) are histories.

### EventBus

`publish` calls handlers on the caller's stack, so a dispatch is a frame of `stack` and a handler that publishes
pushes another. A handler may subscribe in the middle; the one thing it is kept from is to subscribe to the list that is being
walked, which would move the vector under a range-for loop.

### EventLoop and WebSocketClient

`EventLoop` defines the loop's own steps and its timer tables (`timer_queue_`, `timer_map_`) as operators; what a callback
does is given by `WebSocketClient`, which is the client, the feed handler that owns it, and the sockets
as the kernel shows them (`net`, external). Each callback runs to completion in one step, as on the loop's one thread;
`Post` and `Stop` come from other threads at any time.

### BinaryLog

`BinaryLogger` and `ReplayEngine` over files that are sequences of cells, so that a flush can cut a record and a
crash can keep any prefix (`Crash` at any moment; the buffer is lost). Names of files have the
second in them, so that two openings within a second empty the file. `Replay` and `ReplayRange` are the read loops as
recursive functions of the position.

### ObjectPool, Arena

`ObjectPool` with one pool for each thread, `Arena` with blocks, alignment, reset and reuse. Counts of the pool are
kept modulo `SizeValues`, the number of values of a `size_t`, since they do wrap.

### Coordinator

`ExperimentCoordinator` with its `ExperimentWorker`s. One action per handler of the coordinator (`Submit`,
`Register`, `ProcessHeartbeat`, `Dispatch`, `HandleResult`): each holds the coordinator's mutex from beginning to
end, `dispatch_tasks()` even while it posts the tasks, and what workers do at the same time concerns
state of their own. `Dispatch` serves the eligible workers in no particular order, as the code walks an
`unordered_map`. A task's copy in `pending_tasks_` carries its own `retry_count`, which dispatch
writes back to `all_tasks_`; the model keeps both.
A worker is its task queue and its threads (`Take`, `Finish`, `SendResult`, `LeaveLoop`), its heartbeat, and its life
cycle (`Stop`, `Crash`, `Restart`). Nothing repeats a post or looks at its outcome, so a task
that is dispatched may be missed, and a result may arrive after its thread has stopped waiting (`TimeOut`,
`ProcessLate`) or never. How often a task has been begun is a history.

A task id is its batch's and an index, and `get_batch_status` and `get_batch_results` take every task whose id *begins* with
the one asked about. So a batch is its set of tasks (`Batches`), and what an id can be asked about is another set of sets
(`Prefixed`): asked about `b1`, the tasks of `b1` and `b10`. Progress is a percentage of the tasks found.

External: the HTTP servers that would call the handlers and the program that calls
`dispatch_tasks()` are not in the repository. Batch ids are taken to be unique, so task ids are
(`TasksAssumption`); there are finitely many workers (`WorkersAssumption`).
`completed_results_` is kept as its keys.

### Experiment, VersionedEntity, ContextMethods and RunMetrics

`Experiment` replays one stream of observations and contaminations for all the configurations of a comparison at once:
the random draws of `run_experiment` do not depend on the configuration, so the store is shared and each configuration keeps
what it found, what got through and what was stale. `VersionedEntity` (the store, validity, the checks, the injections, confidences in percent)
and `ContextMethods` (which earlier events a model is shown) are operators. `Bind` has the aliasing of the code: the source's validity
is passed by reference, so that binding an entity to itself marks the state superseded before it is copied. `RunMetrics` computes the report from answers and findings.

### LocalRun

A process reads a batch file (or takes the grid of the demonstration), expands it into configurations, runs them on
threads that draw indices from `task_index`, joins them, prints the tables and saves the rows, the summary and, for the grid,
the figures. The four steps of a thread (draw, store, count, print) are actions of their own. Any process may be
killed, and a later one of the same batch id writes into the same directory; the figures of every demonstration go to one
directory, under names of their own. A result repeats its configuration: a run
has a seed and no other input.

### LlmExchange and JsonText

`LlmExchange` is a request over one connection: the server sends segments and may close or reset after any of them,
the client reads until `is_response_complete` or the end, decodes chunks, parses JSON, and a batch collects answers
of several threads in launch order; or a stream hands on its lines. `JsonText` is the parser and the serializer over
tokens, with the sticky `std::hex` of the serializer. It writes a value one level of nesting after the other, down to
`MaxDepth` levels, more than which no document of the run has.

### PairedArms

`run_llm_experiment`: two arms over the same events, the six contaminations applied to a prompt by `ContextContaminator`,
the parser of the answers (by substring search, as in the code), the degenerate-arm test and the exit code; and
`LLMExperimentRunner`, the library's other way to count.

### WalkForward

Passes over a day (labels, drift, the policy's run, the late run, the audit) as folds, each beside what it is to compute;
then the loop over days of `walkforward_main`, with embargoes, samples that are held back for one day, the aggregate and the exit code.

## 3. What the runs check

| Run | Bounds | States | Shows |
|---|---|---|---|
| `handover` | ring 4, 2 attempts, 2 words, 1 reader, 10 publications; queue of 2 slots, 2 values, 6 items | 60 k | `NoTornRead`, `ReadTerminates`, `ImplementsLatestAdvisory`, `NoSlotRace`, `ImplementsFifo`, `EveryPushSucceeds` |
| `lanes` | bridge 2, window 2, calibration 2, 5 events 0 or 2 apart, TTL 6, gate at half of 4, 2 generations; tapes of 4 trades of 3 kinds, 2 passes, TTL 2; schedules of 5 trades, 3 service times | 1.2 M | `ActsOnLiveAdvice`, `MeasurementsExact`, `AdviceMovesOn`, `LanesEnd`, `DecidesOnTheTape`, `BookViewsAgree`, `ScheduleKeepsTheTape`, `HistogramsHonest` |
| `coordinator` | 2 workers with 1 thread each, batches `b1` and `b10` of a task each, 2 attempts, 1 failure | 1.5 M | `InOnePlace`, `EndsOrIsLost` |
| `coordinator_crash` | 2 workers, 1 task, 1 failure | | **violates** `EveryTaskEnds` |
| `event_bus` | 1 queue slot, 1 other thread, 2 handlers, 2 queued and 2 direct events | 1.6 M | `DispatchExact`, `QueuedIsPublished` |
| `feed` | 1 stream, 2 attempts, 2 descriptors, 1 posted callback at a time, 2 calls, 2 faults | 1.7 M | `TimersExact`, `NeverForgotten`, `FeedComesBack` |
| `buffers` | log: buffer of 2 cells, records of 1 and 3; queue: 2 slots, 2 producers, 4 items; ring of 4; 2 pools, 3 blocks, counts modulo 16; arena of blocks of 4 | 695 k | `ReplayIsWhole`, `ImplementsClaimQueue`, `ImplementsFifo`, `ObjectsAccountedFor`, `ArenaReusesSafely` |
| `matching` | 4 orders of every type, 2 prices, 2 sizes, changes of size to less or more than was traded, cancels, clears | 1.1 M | `BookInOrder`, `NoOverfill`, `FokAllOrNothing`, `SubmitKeepsItsWord` |
| `matching_cancel` | 3 orders | | **violates** `CancelTakesOwnOrder` |
| `matching_return` | 4 orders, changes to size 1 | | **violates** `SubmitReturns` |
| `experiment` | studies of 2 entities, 2 values, 3 events, 14 configurations; batches of 3, streams of 3 lines; documents of 2 levels; arms of 3 or 4 events; series of 2 to 4 days of up to 6 trades; reports of 3 answers; batches of 2 to 6 runs on 2 threads, 2 processes | 926 k | `DetectionLimits`, `StrongerNeverWorse`, `ContextsAge`, `ReportsAddUp`, `AnswersAreWhole`, `ArmsAreComparable`, `NothingFromTheFuture` |
| `shadow_trading` | 2 strategies, 4 submissions, position limit 2, one order per second, 2 seconds, one restart; one risk manager with 3 fills at 2 prices | 631 k | `OrdersAreTracked`, `AccountsAddUp`, `RateWithinLimits` |

Each module's `TypeOK` is a conjunct of one of its invariants. For each of the properties
`PROJECT.json` names at least one mutant, a plausible bug of the code written beside the definition it
would change (`WriteSlot_Current`, `Judge_RecordLate`, `TotalAfter_Twice`, ...), that breaks it.

What the less obvious ones say:

- `ReadTerminates`: a read ends whatever the writer does, and gives up only if it was lapped in every attempt.
- `MeasurementsExact`: three counts by which the lanes are judged (observations offered, ages offered, late publications)
  are exact at every moment, and not truncated by the very checks they are to measure.
- `SubmitKeepsItsWord`: no trade through the limit, although the book is swept with a quantity and no limit; and every call returns, unless
  the level it faces has orders and nothing to trade (`NothingToTake`), which only a change of size to what was traded, or to less, brings about.
- `NoOverfill`: no trade takes more of an order than its client had left, summed over what it trades as taker and as maker.
- `FokAllOrNothing` has in it that the cached totals are exact.
- `EndsOrIsLost`: a task that was submitted ends, or its worker, its dispatch or its result was lost; ended stays ended, no result
  is withdrawn, and the percentage reported falls only when tasks are submitted that the same prefix finds (`EndedIsKept`). It excuses
  lost tasks, which is what the code does and not what it says: that no task is lost is `EveryTaskEnds`, which the code violates. Since both ways out are final, the first is stated as "again and again, every task has ended or is lost".
- `DispatchExact`: each handler is called for each event as often as its subscriptions say; out of number order only when nested.
- `NeverForgotten`: in every state of the client there is an event or a timer that will wake it, unless its attempts are used up.
- `ReplayIsWhole`: the replay of any file that any crash leaves behind is exactly the records that are whole in it, in order; a replay of a
  range gives records of the range only, and all of them when the file is in the order of its timestamps.
- `DecidesOnTheTape`: the fast lane's decisions equal those computed from the tape alone, in every pass and whatever the bridge dropped.
- `HistogramsHonest`: percentiles are never low and within the bucket's error; the correction never makes the tail worse than
  the wait the ticks really saw, for uniform arrivals; and the printed conclusions follow.
- `DetectionLimits`: what the reliability layer can and cannot catch, as the header's own comment has it, and its exceptions; of the states
  behind an entity's newest exactly the revived are not marked superseded, and the newest is marked when the entity was bound to itself.
- `StrongerNeverWorse`: over one stream, a configuration that filters more never lets more through.
- `TreatedIsDifferent` and `VerdictMeansSomething` (`ArmsAreComparable`): a trial counts as treated exactly when its prompt differs; and exit code 0
  means that both arms gave both answers.
- `MetricsAddUp` and `BatchIsInOrder` (`ReportsAddUp`): one run's report follows from its answers and findings; a batch's results are
  each of its own configuration whatever the schedule, its tables set runs on the same stream against each other and pass none over,
  and while a process saves, the rows on disk are its own and the summary is begun beside all of them. Of files that no process is writing it says nothing:
  section 5 has what they may hold.
- `NothingFromTheFuture`: each fold's threshold is a function of samples that closed before its day, less the embargo, and of all of them; the passes
  over a day compute what they stand for.
- `AccountsAddUp`: realized profit is cash plus the cost of what is held, up to rounding, until one of two things the class does not handle
  happens (a fill through zero, an overflow); each fill that adds to a position may lose less than the size of the new one.

**Why the bounds are enough.**
A ring of 4 with two attempts takes 2 x (4 - 1) publications to make a call fail and
10 allow a call after that, three laps of the ring; two words are enough for a copy to
be torn; readers do not affect each other (the proof covers any number).
Two slots are the least for which the queues are right, and 6 items are three laps of the one, 4 items two laps of the other; two
producers are enough for one to be overtaken, and for one to be held up by the other (the proof covers any number).
In `lanes` five events make the bridge overflow while calibration still runs, let
an advisory expire by time, by age and by generation, and leave room for two
publications during a read. The lifetime of two of the pipeline's advice ends within its tape. Four orders are the least with which a taker trades with two
makers at different prices and its remainder is hit by a later order; levels with two
orders of which the younger is cancelled or resized need three. Two strategies on one
book are enough for a strategy's resting order to be hit by another's and by its own.
Three events reach a dispatch within a dispatch within a dispatch. Two faults are a reset during a
connection that a Close frame was about to end. Records of one and three cells around a buffer of two are cut never, once and
twice. Three events let an old state be revived, superseded again and met by a later check.
Four days are the least in which a sample that was held back is released and used twice.

For the coordinator, two tasks and two workers are enough for tasks to overtake each other, for a
retried task to change workers, and for the progress of `b1` to fall when `b10` is submitted (within a batch of two, `Orders` is the order
of its indices; the proof covers any). The failure (a crash, a stop, a missed heartbeat, a missed
task, or a late or lost result) may come at any point and leaves one worker alone, without which
`EndsOrIsLost` could not hold.

**Deadlock** is checked in `handover` (whose threads poll for
ever) and in `coordinator` (whose workers send heartbeats for ever). In the others the system may really stop: the tape ends and the lanes are joined,
clients submit no more, the feed's loop is stopped, a comparison has seen its stream, a batch has been reported. For those `SubmitKeepsItsWord`, `QueuedIsPublished`, `FeedComesBack` and
`LanesEnd` say that nothing stops half way.

### What the violated properties show

*`matching_cancel`, `include/trading/matching_engine.hpp:134`.* `cancel_order` gives the caller's
id to the book, which numbers its orders itself; the table between the two numberings
(`:364`) is written and never read. As soon as one order did not rest, cancelling removes
another client's order.

*`matching_return`, `include/trading/matching_engine.hpp:199`.* An order of 2 trades 1 and is changed to 1. It stays in the
book, the only one of its level, whose total is 0. A limit order that accepts its price asks for the level's total, 0, again and again: the loop
counts on every round to trade something. `modify_order` has to refuse such a size, or take the order out.

*`coordinator_crash`, `include/context/distributed_experiment.hpp:377`.* A worker that misses its task, or dies with it, leaves it `Running`.
Another worker asks for work for ever; no timeout returns the task to the queue, although the header promises fault tolerance (`:9`) and `Config` has a
`task_timeout_s` (`:283`).

### Fairness

- `AdvisorySlot`: weak fairness of each reader's steps *inside a call*. The fast lane is
  pinned to a core; nothing is assumed of the writer, which may die in the middle of
  `publish()`, or of how often anyone calls.
- `SPSCQueue`: weak fairness of producer and consumer, each a running thread; only
  `EveryPushSucceeds`, about the spinning `push()`, uses it. `MPSCQueue`: the same, for a push that has begun.
- `Lanes`: weak fairness of the fast lane only. The slow lane waits for a language model
  and may hang for ever; the first half of `BothLanesEnd` (which `LanesEnd` states of the sum) holds all the same. Its second half
  states its own condition: *if* the slow lane keeps running.
- `MatchingEngine`: weak fairness of the steps of a call in progress
  (`Matching`), which is one thread's straight-line code. No client has to submit anything.
- `EventBus`: a thread that has claimed a slot fills it, and the bus's thread returns from its handlers and calls `process_queued` again.
- `WebSocketClient`: the loop's thread runs; `epoll_wait` returns with time passed now and then, strongly fair because it may be
  interrupted between; and the kernel accepts or refuses a connection in the end. Nothing is assumed of the peer.
- `Coordinator`: weak fairness of the workers' threads and heartbeat loops, of registration, and of
  `Dispatch`, which the program that embeds the coordinator has to keep calling. Nothing is
  assumed about restarts, or about late results ever arriving.

## 4. What is proved

All theorems hold for every value of the constants that the named assumptions admit.

**MCHandover_proofs**, of the slot (ring of at least 2, any number of attempts, words and readers):
`TypeCorrect`, `NoTornReads`, `SlotImplementsRegister`. The argument is a window. `RingHolds`: each of the last
`Ring` generations is whole in its slot, of the last `Ring - 1` while a publication is
overwriting the oldest. `CopyCoherent`: the words a reader has copied carry the generation it
sampled *as long as that generation is still in the window*. `NoTornRead` alone is not
inductive, as it says nothing of a copy in progress; with `CopyCoherent` the
reader's test `generation - g0 < Ring - 1` is exactly what accepts coherent copies
and no others. The refinement follows from the same invariant, as an accepted copy is `Whole(g0)`.

Of the queue (capacity of at least 2; see section 5 for capacity 1):
`QueueTypeCorrect`, `SlotsNeverRace`, `QueueBounded`, `QueueImplementsFifo`. The invariant assigns the positions
`Taken .. Taken + Capacity - 1` one slot each: those below `Sent` are `Filled` (ticket position + 1, and the
item that was pushed there), the rest `Free` (ticket = position). `Sent` and `Taken` count a ticket
store whose counter has not been advanced yet.

**MCBuffers_proofs** (the machines of `MCBuffers`, each under its own assumption).
`QueueImplementsClaims` (capacity of at least 2, any number of producers, items and bounds): the positions
`Taken .. Taken + Capacity - 1` own one slot each, as in `SPSCQueue`, but
between them the filled and the unfilled mix: a slot whose position was claimed and filled carries the next ticket and the item,
any other its own position. What makes the compare-and-swap of a producer right that loaded `tail_` long ago
is that tickets only grow (`Passed`): a ticket behind the position it loaded means that the queue was full, one equal to it and an unchanged
`tail_` that the slot is free now. The swap is the claim of `ClaimQueue`, the ticket store its filling, and the consumer's
ticket store its pop.
`RingIsFifo` (any capacity of at least 2): the indexes are the counts of items pushed and popped modulo
the capacity, which lie less than a ring apart, so that equal indexes mean empty and following ones full; the implementation relation is then read off
the slots between them.
`NoObjectIsLost` (any threads, pools and block size): every object of every block is in one place (`Placed`), whichever thread's list it has moved to, and
`available()` is right although the count of allocated objects wraps, because the two counts are kept modulo the same number; that needs the objects in
memory to be countable by a `size_t`, which is the assumption.
`ArenaIsSafe` (any block size, alignment and requests): `AreaCut` says that what was handed out since the last reset is cut from the blocks
without overlap, in the last of them below the cursor; `AreaAgain` that after a reset the blocks are still those the requests before it had filled, which is why the same
requests need none.
`ReplayIsFaithful` (any buffer, record sizes, file size and number of records and openings): the invariant `LogInv` says where each record of a file begins (`Starts`), that
the file is those records up to some cell (`Laid`), and that while a file is open what is on disk, in the buffer and still to be copied
is all of them (`WholeFile`), which is what a flush in the middle of a record and a crash at any moment take the first part of. `Replay` and
`ReplayRange` are recursive functions, of which the prover knows what they satisfy only if there is such a function; that there is one is proved first, since
the records end (`ReadingExists`), and what it returns is read off from the last record backwards (`ReplayFrom`, `RangeFrom`).
`DispatchIsExact` (any threads, types, handlers, queue and numbers of events): `DispatchExact` counts the calls of dispatches that are over; the
invariant counts them in every dispatch under way (`CallsCounted`): by the position of the loop in the first list, by that and the whole first list in the second. That the position
says who was called rests on `ListInv`, a subscription is in one list and once, and on `FrameInv`, a list does not grow while it is walked, so that one subscribed
before the event is met by the loop and one subscribed later is not. Order is the stack's: while a frame is on it, all that is published is published inside of its event.
The property counts what came through the queue by its place among the queued events (an earlier form compared filtered sequences, which the prover cannot unfold).

**Lanes_proofs** (any bridge, window, calibration, tape, lifetime, budget and freshness limit): `AdviceIsLive`, `AdviceOnlyMovesOn`,
`NothingUncounted`. `Known` says of everything under way (the queue, what the slow lane has in hand, the newest it drew, the slot, the sample, the
cache) that it comes from an observation the fast lane made, in the generation it names, since that generation began.
`Ordered` puts them in a row: the cache is no younger than the sample, the sample than the slot, the slot than what the slow lane holds,
and that than the queue. `Judged` repeats at the decision what the gates of `AdvisoryView` and `FreshnessPolicy` have tested;
`ActsOnLiveAdvice` follows from it and from `Known`, `AdviceMovesOn` from `Ordered` and from `Drains`, the
accounting of a drain. `NothingUncounted` is all of `MeasurementsExact`: what was offered to the bridge, the ages offered to the monitor, and the late
publications, whose count is compared with a sum over all publications and therefore goes by the lemmas on sums.
`DecisionsAreIdeal` (any tape, window, bridge, calibration and number of passes) is all of `DecidesOnTheTape`. The window is the last of the trades taken in in this
pass (`WindowInv`), in the order of the tape (`TapeInv`: read in the first pass, read again in the others), so what is decided on it is what
the tape before the trade says; and whoever has a threshold (the slow lane, the slot, the cache, the fast lane) has the quantile of the samples, which are all there once there is one and
never change again (`CalibrationInv`). In the first pass nobody has heard of a trade that is still to come (`PastInv`).
`ViewsOfTheBookAgree` (any trades, any depth): a side has finitely many levels and none is empty (`BooksInv`), and all that is read off it is a sum over the levels up to one of
them (`Depth`). A walk for such a sum takes each of those levels whole and none behind (`FillIs`), and the n best levels are those up to one level, since they can
be counted off one by one (`TopIs`).
`TapeIsKept` (any tape of times, clock and speed) is arithmetic with truncating division: the trades of one millisecond are consecutive, since the tape is sorted, so the place of a trade
in it is below their number (`PlaceInCrowd`), the spread of the one behind is at least the resolution higher (`SpreadMoves`) and stays below the millisecond's end (`SpreadInside`), and
a division by the speed keeps what is a multiple of it apart (`QuotientsApart`).
`LatenciesAreHonest` (any tape, speed, costs, delays and bucket size) is all of `HistogramsHonest`. Of the histogram: the index grows with the value (`IndexGrows`) and the upper end of its bucket
is not below it nor too far above (`IndexBounds`), so the first index with enough counts is that of the exact percentile (`PercentileIs`). Of the replay (`TimesInv`): a tick starts no earlier than the one
ahead of it was answered. Then, with one tick due every interval, what a stall owes to the tail beyond any latency (`Owed`, which is what the correction records of it: `CorrectedOwes`) is
paid tick by tick, one where the latency is shown and the rest carried over to the next (`OwedArrives`), until the handler has caught up and nothing is left (`TailPaid`). What is concluded follows from
the percentiles. The clock is exact here and the tapes start at 0, as in the module.

**WebSocketClient_proofs** (any descriptors, streams, attempts, calls, faults and posted callbacks): `TimersAreExact`, `ClientIsNeverForgotten`. Both assume that
`TimerIds` is infinite, as the loop counts its ids with 64 bits and never uses one again (`event_loop.hpp:199`); the run has as many as its bounds need.
`NeverForgotten` is not inductive: it is content with *some* event to come for a connection under way, and an event that says nothing would be
consumed and leave the client with none. The invariant asks for the one that tells how the attempt went (`LinkInv`): that the socket is writable if the peer is there, that it failed
if it is not, in the kernel or in the batch that is being handled. This in turn needs that handlers are only of sockets that are open (`SocketsInv`), since the kernel gives the number
of a closed one to the next, and that a reconnection that was scheduled is in the table (`TableInv`). The methods of the client call each other, so the invariant is
stated of the values they work on (`World`), and each of them has a lemma that a caller cites.

**Coordinator_proofs** (any tasks, batches, threads, limits and failures, finitely many workers): `TasksInOnePlace` and `EndedTasksStayEnded`. `InOnePlace` says only
that places exclude each other; the invariant says who excludes whom. `Single`: a place of each kind holds a task once.
`Apart`: within a worker, and against late results. `Stated`: pending is what waits in the coordinator's queue, and
whatever a worker holds is running and assigned to *it*, which is what keeps two workers from holding it, while messages are lost and workers
crash and return. `Counted`: an attempt is counted when it begins and a retry when it has failed, so the two differ by one exactly while
a run or its result is under way, and the copy of the counter that waits in the queue, which dispatch writes back, is the table's. That what is found under a prefix adds up is the
cardinality of four disjoint sets; that its percentage falls only with more tasks, that a share of a number does not fall while its numerator grows (`PercentGrows`). That what has ended stays so, which is the safety half of `EndsOrIsLost`, is `Stated` again: whoever may still report a result or be sent out
holds a task that is running or pending.
Of the study (any entities, values, gaps, length of stream, limits and set of configurations, `StudyAssumption`): `DetectionIsLimited`, `ProtectionNeverHurts`, `ContextsOnlyAge`.
`StudyInv` says that of the states of an entity behind its newest exactly those an injection has revived are not marked superseded, and that a newest one that is marked is a copy of the one before it (`Marked`), that observations come in the order of time
(`TimesGrow`), and how the counts of every two comparable configurations stand to each other. What a check counts are the valid versions of an entity behind its newest, which are the revived ones; so the findings of an injection are a function of the flags that only grows with them (`StrongerFinds`), and every turn of the loop adds no more to the tainted, the residue and the stale of a run with
more protection (`StrongerAccounts`). What a context shows shrinks as filters are added (`ContextShrinks`) and never goes back in time, because an event, once appended, is the newest of its entity (`AgeOfContexts`).

Of the live experiment's arms (any streams, strategies, answers and thresholds, `ArmsAssumption`): `ArmsMeasureTheTreatment`, all of `ArmsAreComparable`. What is selected from a history keeps the
order and every entry of the selected positions (`KeptEntries`), so a context is the event itself behind events at least an interval older (`ContextOfEvent`). Five of the six
contaminations append one record of the event's own entity which is younger than that (`InjectionIsFresh`), so it is the newest of the prompt and in no clean one (`InjectedIsNewest`); a retrieval adds
records of others only, which leaves the newest as it is and makes the prompt longer (`RetrievedIsForeign`). The verdict needs that each event asked about is counted once in the running
arm (`ArmsInv`, `CountedOnce`); that an arm which is not degenerate was answered both ways is arithmetic (`VerdictArithmetic`).

Of a batch run locally (any requests, finitely many threads, any number of processes, `RunAssumption`): `BatchesKeepOrder`, the part of `ReportsAddUp` about threads, progress and
files (`EachRunInItsPlace`, `SummaryBesideItsRows`). The property speaks of what is stored, counted and printed; the invariant `BatchInv` of who has what in hand: a
thread's index was drawn by no other (`ThreadsInv`), the results present are those counted and those stored but not counted yet (`ResultsInv`), and the figures printed and those drawn but not
printed are together 1 up to the counter (`FiguresInv`), so that a figure is behind its place by less than the threads there are. The directory of a
batch may have been written by an earlier process; a process that saves opens the rows anew, and then the summary, and appends to both from the results of the joined threads (`FilesInv`).

Of the walk-forward (any files, embargoes, quantile and cap of samples, `TapeAssumption` and `WalkAssumption`): `ThePastAlone`, all of `NothingFromTheFuture`. The property is about folds,
which are made of samples that were put together days before; the invariant `WalkInv` therefore says of the samples of each arm that they are a sequence
of what the embargo allows the next day, and of those held back that they are of the past (`SamplesInv`), so that a fold made from them is good for its day and stays so (`FoldsInv`). That a
sample closed before the next day's first trade is true only while no days overlap, which the loop records as a violation and goes on; `HeadlineInv` is the half that needs that there
is none, and `ReportedInv` hands it to the report. What the arithmetic of a day yields comes first: the run over a day is a recursive function of which it
is proved that there is one (`RunDay`), that its samples have times of the day's trades, that the last trade of a day in order is its latest, that striding and splitting
select positions of a sequence, and that sorting the files by time keeps each of them.

**Lemmas**: positions less than a ring apart have different slots; division with remainder; and sums over finite sets
(`SumFunctionOnSet`): that they exist, agree where their terms do, change by what one term changes, and are ordered as their terms are. An induction theorem that takes an operator
cannot be used, but the least counterexample can be named: `NatLeast` and `SmallestSet` give it, and every induction here is by contradiction with it.

**MatchingEngine_proofs** (any orders, prices, sizes and number of orders): `TypeCorrect`, `BookStaysInOrder`,
`NeverOverfilled`. The last needs who owns what: ids of
the book and of clients are handed out in order (`Numbering`), a book order belongs to
one client and the order being matched owns none yet (`Ownership`), what it may still
trade is what it has not filled (`Accounting`), and what rests of an order can trade what its client has left, whatever its size was changed to. That the book is never crossed does not depend on the cached totals: the
remainder of a limit order rests only when no opposite order is acceptable to it, whatever
the totals made it trade before. `BookStaysInOrder` names the definition `BookInOrder`, the conjunction of the three lemmas
about crossing, priority and the index. `FillOrKillIsWhole`: the total a price level caches is the sum of what
its orders have left to trade (`CachedTotals`), which partial fills, cancels and changes of size each have to keep, also between two trades of one
submission; so the liquidity that a fill-or-kill order was promised (`Backed`) is really there, and it ends with all or with nothing (`WholeOrNothing`). A change of size leaves the totals exact, also one that makes them 0 or negative.
`LimitsAreKept` proves the safety half of `SubmitKeepsItsWord`. `Reported`, what a caller may rely on in an answer, serves the next module.

**MCShadowTrading_proofs** (any strategies, orders and limits): `NoOrderIsForgotten`, about the order path on top of the exchange. The exchange's
invariant is taken from `MatchingEngine_proofs`, whose theorems are used through an instance over the same variables: each step of the call is a step of the exchange, the
rest leaves it alone. `OrdersAreTracked` speaks of the time after an answer; the invariant `PathInv` has to say what holds while an order is on
its way (`OnItsWay`): it is the newest of the exchange, pending at the strategy it names, and would be within the position limit if it were filled
whole, since nothing else moves that strategy's position meanwhile. The answer fills a part of it, and a part keeps within what the whole does.
With a second subscription an order is delivered twice and all of this is false, which is why the property ends with the restart.
`BooksBalance` and `RateIsLimited` are about `RiskManager` (any symbols, prices, quantities, limits and bound of an int64). The first is an identity that each kind of fill has
to keep: one that opens a position, that adds to it, that closes a part of it. Adding loses at most the new position to the division, and the
wrap-around of the cost is the identity while `exact` holds, for which an exact average has to be known not to be negative. An earlier form of `AccountsAddUp` bounded the loss by the number of
fills times the position limit; `on_fill` does not check that limit, and the bound is now the sum that the proof gives, which is tighter. The second says that the counters, once brought up to date, are
the orders that passed in this second and minute of the clock.
(`OnFill` names the position it changes: this version of the prover misreads an `@` inside another `EXCEPT`.)

**Model-checked only.** Every liveness property (`ReadTerminates`, `EveryPushSucceeds`, `BothLanesEnd`, `EndsOrIsLost`, `QueuedIsPublished`, `FeedComesBack`,
the second half of `SubmitKeepsItsWord`): fairness and ENABLED are outside what the prover handles.
Properties of recursive functions and folds over sequences: `AnswersAreWhole`, and of `ReportsAddUp` the arithmetic (`MetricsAddUp`,
`TablesCompareLikeWithLike`, `PassesAreExact`, `GrowthIsSeen`, `NothingIsLeftOut`). For these
the theory of each fold would have to be made first, by the least counterexample as in `Lemmas`.

## 5. Behaviours to know of

Found while reading the code for the models, which have them; none is claimed by a text of the repository beyond
the ones quoted, and the properties above are stated so as to leave them room.

*Lanes, queues.*
- With one slot, which the `static_assert` admits (`spsc_queue.hpp:31`), a filled ticket equals a free one and a push
  overwrites. No instantiation uses 1.
- A gap between publications is counted when the later one closes it (`freshness.hpp:158`): a slow lane that publishes once and goes
  silent is reported as passed (`docs/ROADMAP.md:77-79` knows of it). Nothing resets the flow window when the generation
  changes (`lanes_demo_main.cpp:472`).

*Exchange.*
- `modify_order` takes any size (`order_book.hpp:74`): to what an order has traded, and its level has an order and the total 0, which a
  limit order never gets past; to less, and quantities and totals are negative.
- Fills are priced at the taker's own price, 0 for a market order (`matching_engine.hpp:277`).
- Only a taker that was filled whole is told so; fills of resting orders and partial fills never reach the risk manager
  (`shadow_engine.hpp:343`). A cancelled order stays in the book (`strategy_base.hpp:318`: `OrderCancelled` has no subscriber).
  `start()` after `stop()` subscribes once more and every order is then processed twice (`shadow_engine.hpp:197`).
- `run_shadow_mode` of `src/main.cpp` starts the engine in live mode, and `run_live()` does not return.
- A fill that takes a position through zero keeps the old average price (`risk_manager.hpp:168-178`); the cost of a position is a 64-bit product
  of two numbers of eight decimals and overflows above some 922 dollars (`:174`); `reset_daily` admits the rate
  of a second or minute twice; `emergency_stop` cancels nothing.

*Events.*
- An event's priority (`event_bus.hpp:10`, `:47`) is never read: queued events are dispatched in the order of the queue.
- `queue()` copies an event by value and drops what a derived event adds (`event_bus.hpp:310`).
- An interval timer cancelled from its own callback is put back (`event_loop.hpp:370`; a comment at `:244` says otherwise);
  `stop()` before `run()` is overwritten (`:270`).
- The answer to the upgrade request is parsed as frames, whose first byte is that of a Close; `recv_buffer_` is never cleared;
  a Close inside the read loop schedules two reconnections (`websocket_client.hpp:358`). The project's own guide calls the client dormant
  (`PROJECT_ENGINEERING_GUIDE.md:323`).
- Rotation never resets `file_size_` (`binary_logger.hpp:366`), so that after the first each record rotates.
- An object freed on another thread moves there for good, and the counts wrap; a thread that ends frees its blocks under others' objects.

*Pipeline.*
- The comment at `pipeline_main.cpp:327` that the depth stays bounded holds while prices do not jump.
- Passes of the sweep share slot and bridge, so that advice can come from later on the tape; the threshold stays after
  its advisory has expired; a calibrated threshold of 0 is never applied.
- "The correction found nothing" speaks of a service time longer than the expected interval; the correction adds nothing for one
  of less than two intervals (`histogram.hpp:76-83`).

*Experiments.*
- Tasks of a worker that stops reporting stay `Running` (`distributed_experiment.hpp:377`), although the header promises fault
  tolerance (`:9`) and has a `task_timeout_s` that is read nowhere; a heartbeat replaces the count of current tasks by those waiting (`:328`);
  `get_batch_status` and `get_batch_results` find tasks by prefix (`:414`, `:439`), so that submitting `b10` lowers the progress of `b1`, and
  the results of both come as `b1`'s.
- An event whose entity is drawn as its own source binds the entity to itself: the state it copies is passed by reference and marked
  superseded first (`contamination_injector.hpp:136`, `versioned_entity.hpp:117`), and the entity has no newest state that is not superseded.
- Files of a batch are not replaced together (`experiment_persistence.hpp:121-155`): a process killed in its rows leaves the summary of an earlier one beside
  them. A demonstration killed after its summary has no figures, and `figures/` those of an earlier one
  (`run_distributed_experiment.cpp:107-110`). Two demonstrations within a second have one batch id (`:103`).
- A method listed under both its names (`experiment_config_io.hpp:33-34`) is run twice with one outcome and enters the significance test with every
  pair doubled. Rates that agree in whole percent give runs one identifier (`:153-155`), and `summary.csv` and the figures have no
  column for the rate. The progress line may end with a figure below the total: it is drawn before the lock is taken.
- Detected contaminations are counted twice (`evaluation_metrics.hpp:350-351`); persistence is measured for findings only, and is 0 for every baseline
  that finds none, so that no reduction against a baseline can be computed.
- The lie about provenance that a comment takes to be detectable (`experiment_harness.hpp:725-727`) is caught only beside a state that an
  earlier injection has revived.
- After a string with an unnamed control character the serializer writes numbers in base 16 (`json.hpp:410-431`, a sticky `std::hex`); text behind a
  value is ignored.
- An answer without a recognised length is complete with the first byte of its body (`http_client.hpp:295`); a cut one has `success` and only the
  JSON parser notices. A streamed line split over two chunks loses its token. `max_concurrent` of 0 loops for ever.
- An answer whose confidence is not a number ends the run by an uncaught exception before any trial is written (`llm_interface.hpp:258`);
  `LLMExperimentRunner` counts unread answers as wrong and ignores the context method.
- A day without calibration samples is a violation for the headline arm only (`walkforward_main.cpp:502`); an embargo longer than a day
  holds samples back for one day anyway; an arm whose prompt is cut off already between the two smallest sizes passes
  the growth check (`delivered.hpp:143-145` says it is refused).
- `metrics.hpp:91-93` says that the score is zero for a policy that sizes down on everything; on a day without toxic trades it is -1.

## 6. Abstractions, and what is not modelled

- One symbol, one book; several symbols are independent copies.
- Integers are unbounded unless said otherwise (`RiskManager`, `ObjectPool`). Counters of 64 bits count events; none wraps in a
  run, and quantities and prices are far below 2^63.
- In `ShadowTrading` a breach of a loss limit is a free choice after any fill. Real-valued scores are ratios of integers, kept as pairs or
  compared by cross multiplication.
- Bounds named `Max...` cut off behaviours; they appear in the guards of the actions that would exceed them and nowhere else.
- Parts of modelled components left out: `StrategyEngine` (no caller),
  `clear_handlers`, `modify_fd`, the `Timer` class, `set_limits` (no caller), `run_live`'s polling; printing, options and formats of files
  of the tools; bootstrap intervals, change points and deflated statistics; prompts and lists of models.
- Not modelled at all: components whose content is floating-point numerics (QUBO, CUDA kernels), the machine (GPU monitor, CPU pinning, clock
  calibration), or the form of text (logging). They have no state that two steps could
  disagree about, and TLC has nothing to explore in them.

## 7. What remains

- The latency budget, once it is more than arithmetic over constants.
- Larger instances of `feed` (two streams) and `shadow_trading` (three strategies), which symmetry alone does not make small enough.
