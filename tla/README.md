# Greenfield in TLA+

Greenfield is a research and paper-trading platform for crypto venues: it collects raw market data,
normalizes it, derives features and decisions, judges research hypotheses, and trades on paper (SHADOW:
audit only, no order; PAPER: simulated or Bybit Demo orders). This directory holds TLA+ models of its
parts, the TLC configurations that check them on small instances, and TLAPS proofs that hold for every
instance.

Every definition that models code is tied to its source lines in `PROJECT.json` (`map`), every property to
a slip of the code that would break it (`mutants`, the `Mutant_...` definitions beside the real ones), and
the hard spots of the code to the properties that guard them (`hazards`). Paths below are relative to the
repository root; `src/` is the Python package. The map names operations and the helpers that hold code of
their own; a helper whose lines lie inside its user's, and a step of the environment, has no entry, and where
the five collectors share a method word for word one of them stands for all.

To check: `tlc -config X.cfg M` with the pairs listed in section 3, `tlapm M.tla` for `SetSums` and the
modules named `...Proofs`.

## Contents

1. Inventory of the system
2. Modules and the code they model
3. Runs, bounds and fairness
4. Proofs
5. Where code and documentation disagree
6. What else was met while modelling
7. What is abstracted, only model-checked, or not modelled
8. Plan

## 1. Inventory of the system

Sizes are lines of Python in `src/`: data 20,400, execution 9,200, features 4,400, research 4,000, ml 2,100,
engines 1,800, strategies 1,700, backtesting 1,300, regimes 1,100, analytics 900, risk 800, monitoring 370,
portfolio 120. Scripts add 11,000 and tests 39,000. "Modelled by" names the module.

### 1.1 Execution

**Durable PAPER order store** (`execution/paper_reconciliation.py`; `PaperOrders`). State: SQLite tables of
orders, fills and positions. Operations: `begin_order`, `mark_submitted`, `apply_fill_result` (fill or
rejection), `mark_canceled`, `leg_group_status`, each one `BEGIN IMMEDIATE` transaction. Used by the Demo
reconciler, the Demo executor, the probe and the PAPER coordinator. Hard: executions delivered again, with
other content, in another order, or after a cancellation; verdicts on a leg group acted on later. Correct
when: an order's state says what is filled, books equal the recorded executions, history is never rewritten,
a settled verdict stays.

**Autonomous Demo lifecycle and daily risk ledger** (`execution/demo_autonomous_state.py`; `TradeState`).
State: one row per trade (OBSERVED, ENTRY_SUBMITTED, OPEN, EXIT_SUBMITTED, CLOSED, SAFETY_HOLD) and one per
UTC day (entries, PnL, cooldown, kill switch). Operations: `begin_trade`, the `mark_*` transitions,
`close_unsubmitted_safety_hold`, `authorize_entry`, `record_entry`, `record_close`, `activate_kill_switch`.
Hard: late and repeated transitions, two processes asking for the one slot, an authorization that is stale
when it is used. Correct when: one trade is active, phases and orders agree, a lost day is dead.

**Autonomous Demo executor** (`execution/demo_strategy_executor.py`, `demo_order_reconciler.py`,
`scripts/clear_unsubmitted_demo_strategy_hold.py`; `DemoExecution`, over `TradeSlot`) **and its stakes**
(`demo_autonomous_risk.py`; `DemoStakes`). State: a cycle's local variables; it writes both stores above and
orders at the exchange. Operation: `advance()`, one cycle: look at the active trade, reconcile its order,
watch the stop, exit, replace an exit that ended early, close. Hard: a crash between any two writes, an order
history ahead of the execution feed, partial fills that are cancelled, the operator's script beside it.
Correct when: everything live or open belongs to the active trade, nothing is sent twice, exits never exceed
the position, a closed trade is flat, the ledger knows every result, a position never stakes more than its
share.

**Bybit Demo gateway** (`execution/bybit_demo_gateway.py`; in `DemoExecution`). State: none; signed REST
calls that place orders and read orders, executions and positions.

**PAPER probes and the attended Demo commands** (`paper_execution_probe.py`, `execution_probe_journal.py`;
`ProbeExecution`; `demo_btc_round_trip.py`, `demo_paper_coordinator.py`, `demo_operator.py`; `AttendedDemo`).
State: a probe journal, the same stores. Hard: the same as the executor's, with deadlines inside a cycle and
an operator who repeats a command. Correct when: what is journalled is what happened, what is called
complete is over.

**SHADOW service** (`execution/shadow_loop.py`, `shadow_runtime.py`, `shadow_preflight.py`,
`shadow_service.py`, `shadow_store.py`; `risk/portfolio_state_store.py`; `ShadowSession`, over
`ShadowDecisions`). State: a SQLite queue with leases and a failure streak, a hash-chained audit journal, a
risk-state snapshot, immutable work artifacts. Operations: enqueue, claim, observe (decide, save, append),
acknowledge, retry or dead-letter, safety hold, start with reconciliation. Hard: four durable writes per item
and a crash or an I/O error between any two. Correct when: one record per observation, audit and risk state
agree whenever work is taken, the kill switch is final, every item settles.

**Portfolio risk engine** (`risk/portfolio_engine.py`; `PortfolioRisk`). State: open positions with notional
and risk, equity peak, the UTC day's PnL, kill switch. Hard: legs that share buckets, capacity after a loss,
day changes between closes. Correct when: no bucket, budget or count is exceeded by any sequence of legs, an
arbitrage is taken whole or not at all, a lost day takes no entry.

**PAPER session** (`paper_node.py`, `supervisor.py`, `session_recorder.py`, `session_state.py`,
`fill_tracking.py`, the `HoldForBarsStrategy` family; `PaperSession`). State: a JSON checkpoint, the
strategy's slot and pending intents, the day's loss. Hard: events lost while the node does not run, fills
delivered twice, a limit of restarts over restarts.

### 1.2 Data

**Raw capture** (`data/raw_store.py`, `raw_event.py`, `*_raw_collector.py`, `ordered_merge.py`;
`RawCapture`). State: a bounded queue between the socket callback and the writer thread, immutable Parquet
parts with manifests, the receive sequence of each connection. Hard: three threads, a full queue or disk, a
crash between a part and its manifest, a reconnect whose first part overlaps the last of the old connection.
Correct when: no event that is stored is lost or doubled, a connection's order is kept, a stop ends.

**Venue sequence gates and replays** (`*_adapter.py`, `*_replay.py`; `VenueFeeds`). State: the last sequence
number and the book of every stream. Hard: lost, repeated, spoilt updates, late snapshots. Correct when: a
book is shown only if it is the venue's.

**Normalizers** (`*normalized_event.py`; `SilverRows`) and **Gold features** (`features/materialization.py`,
`l2_materialization.py`, `bar_materialization.py`, `store.py`; `TradeGold`, `BookGold`). Functions from a
day's parts to immutable rows. Hard: each venue's own words, parts cut anywhere, midnight, late parts.
Correct when: a row says what the venue said and nothing that came later.

**The lake's closed day** (`normalization_pipeline.py`, `normalized_store.py`, `data_quality.py`,
`daily_data_maintenance.py`, catalog and Silver archive; `DataLake`), **archives of Binance's public data**
(`binance_*archive*.py`; `ArchiveMonth`), **historical downloads** (`ingest*.py`, `historical_backfill.py`,
`storage.py`, `point_in_time.py`; `Backfill`), **pollers** (`rest_poller.py`, `*_collector.py`, `*_storage.py`;
`PolledSeries`). State: files and their manifests, monthly partitions. Hard: kills between a file and its
manifest, second publications, two processes on one partition, the candle that still forms. Correct when:
nothing verified is lost, nothing unassessed is used, a repeated download is whole.

**Collector health, soak and Phase 1 gates** (`collector_health.py`, `raw_soak*.py`, `phase1_*.py`;
`SoakAudit`, `PhaseOne`) and the **alert receiver** (`monitoring/alert_receiver.py`; `AlertDelivery`). State:
health history, markers, reports, bundles, a durable journal behind HTTP. Hard: evidence of different
sessions put together, silence between samples, retries that race an answer.

### 1.3 Research and decisions

**Research orchestration and lock** (`research/orchestrator.py`, `queue.py`, `ledger.py`, `promotion.py`,
`degradation.py`, `locking.py`; `CycleLock`, `PromotionRegistry`, `ResearchCycle`). State: a lock file, an
append-only ledger of trials, a JSON registry of candidates. Hard: a stale lock, two writers of one registry,
a torn line. Correct when: one cycle runs at a time, what is selected is the best against all trials counted,
a champion was approved by a person.

**Model contests and splits** (`ml/`, `backtesting/walk_forward.py`; `ModelTournament`), **decision engines**
(`engines/`, `shadow_producer.py`, `shadow_orchestrator.py`; `DecisionEngines`), **carry screen**
(`scripts/screen_hyperliquid_bybit_funding_carry.py`; `CarryScreen`), **historical analogs**
(`regimes/analogs.py`; `HistoricalAnalogs`), **execution calibration** (`execution/calibration.py`;
`ExecutionCalibration`). Hard: knowledge of the future in what is learnt from the past, evidence that is
stale when chosen. Not modelled: as-of joins, strategies, regimes and features (numerical functions between
data frames), backtesting engine and fitted models, scripts' argument parsing, deployment, ATAS bridge.

### 1.4 How they interact

```
collectors -> raw store -> replay gates -> Silver rows -> Gold features -> engines -> SHADOW producer
                                                                                           | work artifact
                                                                                           v
            shadow queue -> loop -> runtime -> risk engine (staged copy) -> risk state, audit journal
strategy signal -> executor -> lifecycle store | order store | gateway -> exchange
                     ^ operator's clearing script              <- reconciler <-
research queue -> orchestrator (under the cycle lock) -> ledger -> promotion registry <- reviewer
collector health -> soak audit -> evidence bundle -> Phase 1 gate <- alert journal, recovery drills
```

Processes share only durable state (SQLite, files). Threads share memory in two places: the raw collector
(socket, writer, health) and the alert receiver (one handler per request). All other concurrency is between
processes, between a process and the exchange, and between a process and its own crashes.

## 2. Modules and the code they model

| Module | Models | State | Actions |
|---|---|---|---|
| `PaperOrders` | order store | `orders`, `fills`, `net` are the three tables | one per transaction |
| `TradeState` | lifecycle and daily ledger | `trades`, `risk` are the two tables | one per method; `CooldownElapses` is the clock |
| `DemoExecution` | executor, reconciler, gateway, clearing script | both stores, the exchange (`exch`, `executed`, `visible`), `pc` and `cur` for a running cycle, `day`, `operator`, `faults` | one per network call or transaction of `advance()`; the exchange fills, ends, publishes; a fault ends a cycle anywhere |
| `TradeSlot` | *abstract*: what autonomous Demo trading promises | a stage, an exposure and whether the entry was sent, per trade | take, send, move, hold, finish, release |
| `ProbeExecution`, `AttendedDemo` | probe with its journal; round trip and smoke test | those of `DemoExecution`, `journal`, `mode`, `complete` | one per call; deadlines |
| `DemoStakes` | sizing, stop, target, reasons to exit, the day's limits | the open position, the day's ledger, the market's price | enter, look, move, a second passes |
| `PortfolioRisk` | risk engine as `observe`, `close_virtual` and the safety hold use it | `book` is the snapshot | one per runtime operation |
| `ShadowSession` | SHADOW queue, loop, runtime, journal, risk-state store, start | `queue`, `streak`, `journal`, `intact`, `store`; the process is `pc`, `cur`, `engine`, `known` | one per durable write, and one per way it can fail |
| `ShadowDecisions` | *abstract*: what the service promises of an item | a verdict and an outcome per item, the stop | decide, finish, give up, stop |
| `RawCapture` | a collector process, its lake, the merge of what is read back | queue, batch, parts and manifests, health, the three threads' places | one per step of a thread; signals, kills, a failing disk |
| `VenueFeeds` | sequence gates, books and replay sessions of five venues | the venue's book, the connection, the live gate, Bronze | push, repeat, lose, spoil, connect |
| `SilverRows` | normalizers of five venues | a raw part and its rows | one per message |
| `TradeGold`, `BookGold` | daily Gold of trades, of the book, of bars | parts, accumulators, the feature store | assess, build, write, a stop |
| `Backfill`, `PolledSeries` | downloads and polls of monthly partitions | partitions, a download's pages, a poller's mark, the clock | request, assemble, merge, die |
| `DataLake`, `ArchiveMonth` | a closed day of the lake; a month of the public archive | files and manifests by content | one per write of each job; a kill |
| `SoakAudit`, `PhaseOne`, `AlertDelivery` | soak window and audit; documents of Phase 1 and its gate; alert receiver | history of samples; reports and markers; journal and handlers | one per write or request |
| `CycleLock`, `PromotionRegistry`, `ResearchCycle` | lock; champion/challenger registry; a cycle over both | the file and every worker's next system call; the registry file and every call in progress; the ledger | one per system call, read or write |
| `ModelTournament` | data sets, splits, windows, the two contests with their ledger | klines, labels, ledger, reports | one per trial and per write |
| `DecisionEngines`, `CarryScreen` | engines, Meta engine, producer; the hourly replay of the carry screen | setups, portfolio, work item; history and episodes | evaluate, choose, produce; an hour |
| `PaperSession` | strategy, risk engine, recorder and supervisor | slot, intents, checkpoint, the venue's position | one per event, bar or launch |
| `HistoricalAnalogs`, `ExecutionCalibration` | pure searches and statistics | a frame and its answer | one search |
| `SetSums` and the `...Proofs` modules | proofs; section 4 | | |
| `MC...` | instances for TLC | | |

`DemoExecution` EXTENDS `PaperOrders` and `TradeState`: a step of the executor is a conjunction of a
transaction of one store with the executor's own control, so the store actions that the proofs are about are
the ones the executor takes. `ProbeExecution` and `AttendedDemo` run over the same stores, reconciler and
exchange. `ResearchCycle` EXTENDS `CycleLock` and `PromotionRegistry` in the same way, `CarryScreen` the
engines, `BookGold` the merge and the store of `TradeGold`. `TradeSlot` and `ShadowDecisions` are related to
the detailed modules by refinement mappings (`Slot`, `Decisions`) and checked as properties; the first is
also proved.

### 2.1 PaperOrders

A call that raises rolls back and is no step, so an action's guard is the conjunction of the code's checks.
Quantities are multiples of the venue's step. A fill's price, costs and time are one opaque `body`, because
the code only compares them when an id is delivered again. Callers are arbitrary: no order of calls is
assumed. The average price and the realised PnL of the position ledger are not modelled.

### 2.2 TradeState

A trade is its observation (`trade_id` is derived from it). Prices and times are reduced to whether they
are set. `_transition`'s "no change of a value already set" is `Same`; the UNIQUE columns are the
quantifiers over other trades. `close_unsubmitted_safety_hold` reads, then transitions in a second
transaction; it is one action because nothing else leaves SAFETY_HOLD and its fields are frozen there.

### 2.3 DemoExecution, ProbeExecution, AttendedDemo

`pc` names the next call of the cycle. The reconciler reads the executions, applies them one transaction
each, then reads the order: `FetchExecutions`, `ApplyNext`, `FetchOrder`, so the exchange works in between
and the feed may lag behind the order's cumulative quantity. Abstractions: order quantities are 1 to
`MaxQty` steps and each execution is one step; sizing, levels and the stop or time decision are a free
choice at each cycle (`DemoStakes` has them); the realised PnL of a closed trade is any member of `Pnl`;
`fetch_order`, which asks for open orders and then for history, is one read; a SHORT mirrors a LONG. `place`
can be reached once per order because `orderLinkId` is unique at the exchange; `SentOnceOnRecord` says the
code never relies on that. The probe polls inside a cycle until a deadline, which the model lets pass at any
poll; reference quotes and markouts, which nothing waits for, are left out. The round trip and the smoke test
are run separately, because a resumed round trip does not look again whether the account is flat (section 6).

### 2.4 ShadowSession

One item is in hand at a time. `known` is how many lines the process's journal object has seen: after an
`fsync` that raised it is one short, and the next append breaks the chain (`intact`). The seven fault kinds
are the places the code can be interrupted: a crash; work that cannot be read; a save that raises before
or after `os.replace`; an append that writes nothing; an append whose `fsync` raises; a torn line; an
acknowledge that raises. Time is left out: a pending item may be due, and a lease of a dead process may
have expired, at any time. The engine's answer is a choice, except for the two rules that couple it to the
protocol (nothing is approved under the kill switch or for a key that is open).

### 2.5 PortfolioRisk and DemoStakes

`Staged` folds the legs of an observation over copies, exactly as `observe` does; a rejected leg discards
the copy, and `InFull` is the runtime's check that an arbitrage was not capped. Notional is in whole units
and limits are percentages rounded down, where the code uses floats. `update_equity` and
`clear_kill_switch` have no caller outside the tests and are left out. `DemoStakes`: prices are integers,
thresholds basis points, every order is filled at the price of its moment, fees are left out, one day.

### 2.6 CycleLock, PromotionRegistry, ResearchCycle

`acquire` is open, stat, unlink, open again; `release` is an unlink. The file's age is one bit, which only
a dead worker's file acquires: the orchestrator stops a cycle well below the stale limit, but looks at the
clock between two hypotheses only, so the model assumes that no single one runs for that long. A call of
the registry is one or two rounds of reading and writing the whole file, each a step, so two processes
interleave, one may die between them, and one that dies in a write leaves `Torn`. What a walk-forward run
measures is an input of a cycle; the degradation monitor asks for what its verdict allows, any verdict.

### 2.7 Raw capture, feeds, Silver, Gold

`RawCapture` is one collector process: the five collectors have the same threads and differ in their gates,
which are in `VenueFeeds`, where the disk is left out instead. A book is the set of updates applied to it.
The compactor's mirror and the configuration are not modelled. `SilverRows` keeps one price per side, two
messages per venue and two levels per message; the text of numbers is left out. `TradeGold` and `BookGold`
have one price level per book side (crossed books are left out), units of one per trade, the footprint
reduced to totals and point of control, the rows of one message together, and one clock.

### 2.8 Files and their evidence

A file is its content and a manifest also carries the time it was written, so two manifests of one content
are different files (`ArchiveMonth`); a document is its own SHA-256 (`PhaseOne`), where one drill stands for
five and the forecast for the preflight. `SoakAudit` has one collector for three, because the audit takes
them one by one. In `AlertDelivery` a payload is its own event id and two clock readings make a day; `forwarding` says whether the
running process has ALERT_FORWARD_URL (each start reads it anew: without it a receipt is all there is, and the
answer is 202), `waiting` is what Alertmanager knows of an alert, and `unended` names the files whose last line
was cut short, which the next record continues: both are then one line that is no JSON. `Backfill` counts time
in slots of the series, `PolledSeries` in minutes; a download's `pages` counts its requests, and the loop ends
after `MaxPages` of them (MAX_PAGES) as it ends after the last page, without an error.

### 2.9 Contests, engines, carry screen, session, lessons

`ModelTournament` reduces a model to the rows it is given and to a score; one runner at a time; the
screen's two label variants are one set of trials; `looks` counts, per edition of the klines, the runs that
evaluated trials on its holdout, `lost` those of them that ended before one of these trials was on the ledger. `DecisionEngines`: three of six families, a vote, its
soundness and its time for an evidence; targets of one symbol; the penalty 0.5 fixed (scores in quarters).
`CarryScreen`: one coin, one fee scenario, level prices in basis points with a constant reference.
`PaperSession`: `max_concurrent_positions` is 1, market orders are matched in one moment, events in order.
`HistoricalAnalogs`: one family of one feature, 1.4826 is 3/2, of returns only the sign.
`ExecutionCalibration`: one market, cost as a price difference, quantiles a hundredfold.

## 3. Runs, bounds and fairness

State counts are distinct states. A symmetry set is used only for safety properties. Runs that join
components which share no state begin with a choice of the one that moves (`focus`): the interleavings of two
parts without common state say no more than each of them.

| Run | Module, cfg | States | Question |
|---|---|---|---|
| `parts` | `MCParts` | 769,892 | The stores under arbitrary callers, the risk engine, the venues' feeds, Silver and Gold rows, analogs, calibration, stakes: each on its own |
| `demo` | `MCDemoExecution`, `MCDemoFaults.cfg` | 276,940 | Do executor, exchange and operator keep the executor's promises, with a fault anywhere, and implement `TradeSlot`? |
| `executors` | `MCExecutors` | 149,202 | Probe, round trip and smoke test with a fault; is what is submitted resolved? |
| `services` | `MCServices` | 584,911 | The SHADOW service through three faults, and that it implements `ShadowDecisions`; a collector process through signals, kills and a failing disk |
| `research` | `MCResearchCycle` | 983,652 | Cycles of two workers under the lock beside a reviewer on one registry |
| `records` | `MCRecords` | 1,373,915 | The programs that keep durable records, through kills and repeats; what decisions and contests may know |
| `demo_ledger_lost`, `probe_late_fill`, `portfolio_drawdown`, `cycle_lock_stolen`, `okx_reconnect`, `stale_candle` | | | Counterexamples; section 5 |

A run's mutants are slips of the code (a dropped guard, a swapped order, a bound off by one); each breaks its
property under the same cfg.

### 3.1 `parts`

*Order store*: two orders of up to two units in two leg groups, three execution ids with two contents. Two
units give the partial fill, three ids the overfill and the redelivery, two contents the conflict, two groups
the verdict that another group must not disturb. `BooksMatchFills` compares what is stored with the sum of
the recorded executions; `VerdictIsStable` is an action property.

*Lifecycle store*: two observations, two order ids, one day with two entries and a loss limit of two units. A
third trade would be indistinguishable in every guard; the limit is reached by two closes and earned back by
a third, which is the case `LossKillsTheDay` is about. `OneActiveTrade`, `PhaseMatchesOrders`.

*Risk engine*: three keys on two symbols and two venues, two equity levels, two sizes, two days, at most two
positions. The percentages are chosen so that sizes are cut to the room a limit leaves, and so that a loss or
a lower equity makes a room negative. `EntriesAreSound` judges every step that opens positions: within every
limit with the equity they were sized on, an arbitrage whole, no day that lost its envelope; of the correlated
positions an earlier leg is judged without the last, since correlation need not be transitive and only the leg
that is proposed is measured. `RiskIsBudgeted` is the committed risk and the number of positions. Both are also
proved.

*Feeds*: each of five venues, three updates, two connections, four messages, two of them lost, repeated or
spoilt. `ReplayIsFaithful`: a book that is shown is the venue's, and the replay fails on every feed the
collector found uncertain and on no other.

*Day* (`DayIsTrue` = `SilverIsTrue` and `GoldIsTrue`): every pair of messages of each venue, each of them
also spoilt; every tape of three trades over two connections, in time or late by a bucket; every five updates
of a book around midnight with a pause, a lost message and a second connection; every pair of bars missing
before a day, any partition unreadable; a build that is killed, parts that are sealed late.

*Lessons* (`LessonsAreCausal` = `AnalogsAreCausal` and `CalibrationIsCausal`): every history of six bars of
three kinds with up to two bars after the query, and the same search without them must agree; every order
beside two others over six quote tapes. `StakesAreBounded`: a day of six moves of a thousandth or more, three
ranges of candles, three entries.

### 3.2 `demo` and `executors`

`demo`: two trades over two UTC days with one entry allowed a day, orders of two units, at most three exit
orders per trade with two attempts allowed (`MaxExitAttempts`, the literal 5 of the code), one fault. Two
units give an exit cancelled half way and its residual replacement; the attempt limit is reached and passed;
two days let a trade open on one day and close on the next, and let a second trade start while the first
one's ledger entry is missing. The exchange may fill, cancel or reject a live order at any step and publishes
executions late. `ExposureIsOwned`, `SentOnceOnRecord` (`WriteAheadHolds` and `NeverResent`),
`DoneIsComplete` (`TerminalIsComplete` and `ClosedIsFlat`) and `ExitFitsPosition` hold with the fault,
`DailyTradeLimit` until one (section 6). All of them, and the refinement, are also proved.

`executors`: the strategy's executor with two trades and no fault; the probe, the round trip and the smoke
test with one request and one fault each. `ProbeEvidenceIsTrue`, `CompleteIsOver`, and the liveness property
`PhasesResolve`. Fairness: weak for the program's steps, because a service loop (or a timer, or the operator)
calls it again and again and every call returns, and for the probe's deadline; of `Execute \/ EndEarly` per
order, because the exchange fills or ends an order; of `Publish` per execution, because the feed catches up.
The operator of the clearing script, the day and faults are never owed. With a fault between the write-ahead
of an exit and its network call nothing resolves it (section 6), so the executor runs without faults here.

### 3.3 `services`

*SHADOW*: two items, two attempts each, a streak limit of two, any three of the seven fault kinds. Two items
are enough for one item's failure to be followed by another's decision; two attempts for a retry and a dead
letter; three faults let a fault strike the recovery from a fault, and that one's recovery again. Fairness:
`WF(Start)`, the supervisor restarts the service whenever it has ended; `WF(Worker)`, a running process goes
on. Work arrives as it pleases. `Settles` excepts a start that is refused, which is the code's answer to
disagreeing state. `AuditIsTrue` excepts `fsync` errors in its first part and errors of a save or an append in
its last: there the code itself continues with what it does not know.

*Collector*: one stream, a queue of one, batches of two, three events of two days, two connections, two runs,
one disk fault. A queue of one is full while the writer flushes; two days make two parts of one batch.
`StoredIsReadBack`; `ShutdownEnds` under weak fairness of the main and the writer thread and of the venue
closing a connection (section 6 says why the last one is needed).

### 3.4 `research`

Two workers, two hypotheses of two families of which the budget cuts one, two symbols, one crash, two cycles,
four calls of a reviewer, two reviews to retire. `ExclusiveUntilDeath`, `SelectionIsEarned`,
`ChampionIsApproved`, `RetiredForReviews`, and `DeadLockIsTakenOver` under weak fairness of every living
worker's steps (a timer starts cycles, which end within their budget) and of the ageing of a dead one's file.

### 3.5 `records`

*Soak*: three ticks, three samples, two mishaps (a kill, a stop, a reconnect, a collector from before the marker).
*Alerts*: one alert, two handlers, two days, two faults, with and without a forwarder. *Phase 1*: two sessions of two
commits, so that every pair of documents can be of different ones. *Archive*: two streams, two publications of each
ZIP, a kill. *Lake*: a day of two parts, one of which may be unsound, four jobs, a kill. *History*: five slots, two
pages of two rows, so that a range can be longer than a download, two downloads of six kinds of series, a slot the
venue may lack, a kill. *Readings*: four minutes of which three are listed, two processes on each of eight series, two
upsets. *Contest*: three trials of two families, klines extended once, one lost look of each edition; *splits*: 25
bars of two symbols, setups every third or fourth bar, a missing bar, barriers that are touched never, at once or now
and then. *Engines*: two candidates of two coins, three families, three seconds; *carry*: five hours, a settlement
every two, one first price at Bybit. *Session*: three orders, two processes, one failure more than allowed.
Properties: `AuditMissesNothing`, `AnsweredIsDelivered`, `AcceptedIsOneSession`, `NothingIsLost`, `LakeIsAccounted`,
`HistoryIsWhole`, `ReadingsAreKept`, `ContestIsHonest`, `SessionIsAccounted`, and the action property
`DecisionsAreSound` (each item of work is earned by what it was made of, each new episode of the carry screen by what
was known at its entry).
## 4. Proofs

All proofs are about the specifications as the runs check them, for any sets and bounds that satisfy the
named assumptions of the modules (`BoundAssumption`, `RiskAssumption`, `LockAssumption`, `DemoAssumption` and
so on): that limits are natural numbers, that a trade's orders are its own, that None is no order. Days need
no order among them, sets of trades, ids and callers may be infinite, and the number of faults, exits and
sessions is any. The risk engine's keys and buckets are finite (`BudgetAssumption`), since it adds over them,
and the mark of a rejected observation is no snapshot (`NoStateAssumption`).

| Module | Theorems | Property of a run |
|---|---|---|
| `StoreProofs` | `OrdTypeCorrect`, `StateMatchesFilledAlways`, `FillsHaveSubmittedOrdersAlways`, `HistoryIsAlwaysKept`, `VerdictIsAlwaysStable`, `BooksAlwaysMatchFills` | `VerdictIsStable`, `BooksMatchFills` |
| | `StTypeCorrect`, `OneActiveTradeAlways`, `PhaseMatchesOrdersAlways`, `OrdersAreNeverShared`, `ClosedIsAlwaysFinal`, `LossAlwaysKillsTheDay` | `OneActiveTrade`, `PhaseMatchesOrders`, `LossKillsTheDay` |
| `DemoExecutionProofs` | `DemoInvariant`, `DemoTypeCorrect`, `SentOnceOnRecordAlways`, `ExposureIsAlwaysOwned`, `DailyTradeLimitAlways`, `ExitAlwaysFitsPosition`, `DoneIsAlwaysComplete`, `SlotIsImplemented` | `SentOnceOnRecord`, `ExposureIsOwned`, `DailyTradeLimit`, `ExitFitsPosition`, `DoneIsComplete`, `ImplementsSlot` |
| `ShadowSessionProofs` | `ShadowInvariant`, `ShadowTypeCorrect`, `AuditIsAlwaysTrue`, `DecisionsAreImplemented` | `AuditIsTrue`, `ImplementsDecisions` |
| `ResearchCycleProofs` | `LockInvariant`, `LockTypeInvariant`, `AlwaysExclusiveUntilDeath`, `FileAlwaysShowsHolder`, `SelectionAlwaysEarned`, `CyclesNeverOverlap`, `ChampionApprovedInResearch`, `RetiredForReviewsInResearch` | `ExclusiveUntilDeath`, `SelectionIsEarned`, `ChampionIsApproved`, `RetiredForReviews` |
| | `ChampionAlwaysApproved`, `RetiredAlwaysForReviews` (the registry alone, for any callers) | the same two |
| `PhaseOneProofs` | `AcceptedAlwaysOneSession`, `AnsweredIsAlwaysDelivered`, `AuditNeverMisses` | `AcceptedIsOneSession`, `AnsweredIsDelivered`, `AuditMissesNothing` |
| `DataFilesProofs` | `ReadingsAlwaysKept`, `NothingIsEverLost`, `LakeAlwaysAccounted`, `HistoryAlwaysWhole` | `ReadingsAreKept`, `NothingIsLost`, `LakeIsAccounted`, `HistoryIsWhole` |
| `EntryRiskProofs` | `RiskInvariant`, `RiskTypeCorrect`, `RiskAlwaysBudgeted`, `EntriesAlwaysSound` | `RiskIsBudgeted`, `EntriesAreSound` |
| | `SessionAlwaysAccounted` | `SessionIsAccounted` |
| `SetSums` | lemmas about sums over finite sets | |

**`SetSums`.** The models add up quantities with `MapThenSumSet`, a fold whose definition picks the elements in
an order of its own. The lemmas say that the order does not matter and how a sum changes when one term or one
element changes, that termwise smaller terms have a smaller sum, and that two equal sums of which one is
termwise not larger are equal term by term. Without an induction scheme over sets, each is shown by a smallest
counterexample (`MinimalSubset`: a nonempty family of finite sets has a member none of whose proper subsets
is in it), which the natural numbers' well-foundedness gives.

**`StoreProofs`.** The order store: `OrdInv` adds to `OrdTypeOK` and `StateMatchesFilled` that a SUBMITTED order was
attempted and that a fill names such an order: without the first the second is not inductive; without the
second a new order could be begun under an id that has fills. The two action properties follow from `OrdInv`
and one step: the verdict of a group depends on its members only, and a terminal order never changes.
`BooksInv` adds that the fills on record are finite and that the filled quantity of every order and the net of
every symbol are the sums over them; one fill adds one term to one order's sum and to one symbol's.

The lifecycle (same module): `StInv` adds to the checked invariants that a trade which was never submitted carries
no trace of an order, and that a day at its loss limit is killed. Every method rewrites one row, so the
induction is two lemmas (`TradeRewrite`, `DayRewrite`) and one step per method that shows its new row to be
sound. `ClosedIsFinal` needs the first strengthening (a hold without an entry has no exit either),
`LossKillsTheDay` the second (a day is not revived by a gain).

**`DemoExecutionProofs`.** One induction carries all eight theorems. `DemoInv` joins `OrdInv` and `StInv` with
what ties the two stores, the exchange and the cycle in progress to each other:

- *Standing*, what holds whatever the cycle does: the exchange numbers an order's executions one after the
  other and knows only orders that were on record (`ExecutionsAreNumbered`, `ExchangeFollows`); what the store
  has is what happened (`RecordsAreExecutions`); a trade row names the trade's own orders, whose states its
  phase implies (`TradesNameOrders`); a live order is the one its trade waits for, and a live exit asks for
  what is left of the position (`LiveIsAwaited`); the position is the active trade's (`PositionIsOwned`); a
  terminal order is complete (`TerminalIsComplete`).
- *ClosedBooks*: what a trade that gave the slot back left: nothing live, entry and exits equal.
- *CycleIsSound*: what a cycle may rely on at each of its calls, because it read it before and nobody else can
  change it since: on the way to a submission (`EntryPath`, `ExitPath`), in a reconciliation (`Reconciling`),
  before it closes. This is where an interleaving of the exchange or of the clearing script would break it.
- *EntriesAreCounted*: the entries sent on a day, while no fault struck, are those counted and at most one
  that is about to be.

A step is a step of each store or leaves it alone (`StoreSteps`), so the stores' own inductions are used as
lemmas and are not repeated. What remains is one lemma per step of the cycle and of the exchange. Two of them
are not plain bookkeeping. An exit's size was read from the exchange before its record was written, and must
still be the position when it is sent: no other order of the account can be live in between, because the trade
that holds the slot waits for none. And a trade is closed on a position of zero, which is a statement about
the account, while `ClosedIsFlat` is about every order's executions: `CloseIsComplete` shows that sums of
recorded quantities which are termwise at most what happened, and equal in total, are equal termwise
(`SetSums`). `SlotIsImplemented` maps a trade row to a stage, the executions of its orders to an exposure,
and the exchange's knowledge of its entry to "sent": each step of the executor is one step of `TradeSlot` or
changes none of the three, where `ExposureFits` (an exposure is between nothing and `MaxQty`) comes from the
invariant.

**`ResearchCycleProofs`.** First the lock alone: `LockInv` says that until a worker dies no file is old, so no
worker is ever about to unlink another's, and that the file is its holder's. It is the absence of the unlink,
not the exclusive create alone, that excludes. Over it `ResearchInv` says what a cycle may rely on between two
of its reads and writes of the ledger: until a worker dies, a worker in a cycle holds the lock, the number of
trials it deflated by is still the ledger's, and the number it is about to write is still the next
(`ReadIsTrue`); a selection is the gate's choice from the results the cycle still has (`CycleOK`). Without the
lock the ledger of the second worker would grow between the first one's reading and its append, and
`TrialsAreCounted` would fail; that step (`RecordKeeps`) is where mutual exclusion is used. That the gate's
choice cleared and is the highest (`BestFacts`) rests on greatest and least elements of finite sets, shown by
a minimal counterexample as in `SetSums`. Finally `RegistryIsUsed`: every step of the composition is a step of the registry
with the worker or the reviewer as its caller, or leaves it alone, so the two promises of the registry carry
over. `QueueAssumption` says that the queue is finite and that the names it gives are candidates; the queue is
cut from folds over the configured families, so this is evaluated by TLC for the instance and assumed in the
proofs.

The registry alone (`PromotionRegistry`, for any callers). The invariant follows an entry through a call: the file and every copy of it
that a process still holds have complete lineages, and who asks for a champion is a person; so a champion in
any later file, whoever wrote it from whatever copy, was approved. `ReviewInv` adds that
the counter of reviews of every such copy is covered by the events of its lineage, with one event to spare
while the second round of `mark_degraded` is outstanding: the round a death tears off is forgotten, never
counted twice, so nobody is retired for fewer reviews than the threshold.

**`PhaseOneProofs`.** The gate compares documents with each other and never with the marker on disk; the
invariant says that every copy of a marker in a report, drill or bundle is the one on disk, which holds
because a marker is linked once and never replaced.

The same module proves two of the records that Phase 1 asks for. *Alerts*: `AlertInv` follows a handler from
write to write (`HandlerOK`): once it has written its receipt the file of that day holds it, which no other
thread can undo because a journal only grows (`Grows`, `PastIsKept`), and a handler on its way to a success has
reached the endpoint. A handler keeps the instant at which it received, so both of its records go to one
file, midnight or not. Each of these facts excepts the file that has a spoilt line: what was cut short, or glued to it,
is never a record again, and no other file is touched. A handler of a process without a forwarder ends with its
receipt and answers "stored", of which the property promises the receipt only. `AlertAssumption` keeps a handler
apart from the answers Alertmanager may hold. *Soak*:
`SoakInv` says that what was published since the marker adds up to no more than what the audit counts
(`Observed`, a sum over the samples), and that an outage longer than the gap left a silence in the history,
before its first sample, between two samples or after the last (`Silent`). For the first, a process is new
with all its counters at zero or the last sample is its own (`ShownIsSampled`), because no other collector
publishes in between; one more sample then adds at least what its process had not shown (`ShownIsCounted`).
For the second, no sample fills a silence (`SilenceStays`), and while a collector is down there is no sample
after it went down (`DownIsKnown`). `SoakAssumption` keeps the absent value apart from times and processes.

**`DataFilesProofs`.** *Pollers*: between a process's read of a partition and its write the file is what it
read, under the lock because nobody else holds it, without it because no second process ever ran; so a write
only adds, and what was written stays. *Archive*: until a source is unlinked for the first time, every
manifest belongs to the ZIP beside it, whatever was killed in between, and a month that is complete is frozen;
from then on the copies are the backup, which nothing writes again. The number of versions, streams and days
is any. *Lake*: the queue's status keeps its jobs away while the archiver or the maintenance runs, so Silver
only shrinks while it is being unlinked, what is unlinked is in the verified archive, and no part comes
between a day's report and the snapshot after it. *Downloads*: what a download must bring
(`Wanted`) and its cursor has passed (`Passed`), it has. One lemma per way of paging shows that a page brings
what its next cursor passes, or everything when it says that it is the last (`Brings`): a page of the newest or
oldest rows is closed upward or downward, and a page that is not full has all of them (`NewestPageFacts`,
`OldestPageFacts`, by cardinalities). For a download that MAX_PAGES ends, a page that is not the last
moves the cursor on by at least `Limit` slots or leaves nothing to bring (`Advances`), because rows are of
different slots (`RowsFillSlots`); so after `MaxPages` pages nothing is missing, or the cursor has passed
`MaxPages * Limit` slots of the range and what is missing lies beyond every row brought (`Missable`). Hyperliquid's page ends a download when it has a single row, which is
right because a page has room for two rows (`BackfillAssumption`; the venues' limits are 200 and more). In all four
the invariant had to say what a step in progress may still rely on; the checked properties alone say nothing
between two writes.

**`ShadowSessionProofs`.** `ShInv` says what the process may rely on at each of its durable writes. `InHand`:
the record about to be appended is the first of an empty journal, a refusal, an entry whose state is saved and
in the engine, or a hold whose state is saved. `Begun`: a journal begins with a checkpoint, so a journal
without one is never compared with a state. `JournalIsKept`: what the journal calls eligible is held, and a
hold it tells of kills, on disk and in the engine of a process that runs; that is why a restart forgets
neither, and why `AuditedEntryIsHeld` alone is not inductive (a save that raised is overwritten by the next
one, which starts from the engine). `DecidedOnce`: without a sync fault a process knows every line of the
file. `Reconciled`: the last checkpoint is the state on disk, or the record in hand makes it so. A line more
moves the last checkpoint only if it is one (`LatestOfAppend`), and decides its item only if none decided it
before (`DecisionOfAppend`), which is the heart of the refinement: `DecisionsAreImplemented` maps the first
record of an item to its verdict, a row's status to its outcome, a hold in the journal to "stopped". The
module's `IdAssumption` is what the code's id formats give: a hold's id is no item's, None is no value.

**`EntryRiskProofs`.** *Risk engine*: `RiskInv` adds to the type and the budget what an entry relies on between two
closes: what is held has a size and a risk, what is not has neither, and a day to which no older day's
result was booked has the PnL that was booked to it. One leg first (`LegTaken`: which of the sums a leg may
enlarge, and by how much, from `Capacity` being the least of its rooms), then the fold of `observe` as one or
two such legs (`Taken`); a sum over a bucket changes by one term (`SumChange` of `SetSums`). The attempt to
prove the correlated bucket refuted the property as it had been stated, "for each newly opened position, all
that is correlated with it fits": correlation is a set of pairs and need not be transitive, so with btc-eth and
eth-sol correlated, a leg in eth after one in btc is measured with both neighbours, while a leg in sol after
one in eth enlarges what eth is correlated with and is measured without btc (`portfolio_engine.py:227-275`).
`docs/GREENFIELD_V2_MASTER_PLAN.md:897-898` speaks of one shared bucket for correlated BTC, ETH and SOL; a set
of pairs above a threshold (`shadow_producer.py:147-151`) need not give one. `ExposureFits` now says what the
code promises, the last leg with everything and an earlier one without the last; where correlation is
transitive this is what the old statement said.

*PAPER session* (same module): a session's counters are proved from four independent invariants. The checkpoint
and the supervisor that runs know every failure (`RestartsAreKnown`). The engine's ledger is of the last day it
looked, and nothing was lost on a later one (`LedgerIsTrue`), so rolling the day over never forgets a loss. What the
recorder has seen are fills that happened, and what it scored is how many it has seen (`ScoresAreMarks`): an
event twice told, or two fills that look the same, add no mark. The risk at the venue is the hard one. As long
as a process was told everything, the position at the venue is the node's plus the entry fills it is still to
be told minus the closing ones (`OneBet`, counted over the queue of events, where one told again does not
count); the entry fills come before the closing ones; while an entry works nothing else is held or on its
way; and the engine says "nothing open", or a rejection of the pending entry is on its way, only when all is
quiet. This is why a late rejection of a second close must not give the risk back: it is not the pending
entry's. The queue, the number of restarts and the number of fills of an order are any.

**Out of the prover's reach** and left to TLC: everything about fairness (`PhasesResolve`, `Settles`,
`ShutdownEnds`, `DeadLockIsTakenOver`); what is computed by folds over data of any length (`ReplayIsFaithful`,
`StoredIsReadBack`'s merge, `DayIsTrue`, `LessonsAreCausal`, `ContestIsHonest`), which would need induction over
sequences with an operator as a parameter; and `StakesAreBounded`, whose loss bound multiplies and divides
unknowns and holds only while leverage times the stop stays below the whole, which the instance's constants
give. Open but within reach are the invariants that section 8 lists.
## 5. Where code and documentation disagree

Six disagreements have a run whose counterexample shows them:

- **`demo_ledger_lost`**: a crash between `mark_closed` and `record_close` loses the trade's result and its
  cooldown for the day's risk guard (`demo_strategy_executor.py:441`).
- **`probe_late_fill`**: a taker entry of the probe that is partly filled at the deadline is flattened while it
  is still live; what fills afterwards is open under a closed probe (`paper_execution_probe.py:414`).
- **`portfolio_drawdown`**: the equity peak is raised on the staged copy and lost when a leg is rejected, and
  never raised by a WAIT, so drawdown is measured from too low a peak (`shadow_runtime.py:326`).
- **`cycle_lock_stolen`**: two workers that saw the same stale file both unlink and both create
  (`locking.py:88`).
- **`okx_reconnect`**: a feed of OKX or Deribit without a gap, on two connections, cannot be replayed, because
  the replay keeps one gate over all connections (`okx_adapter.py:107`).
- **`stale_candle`**: a download stores the candle that still forms, no later one replaces it, and once its time
  is over the point-in-time reader takes it for closed (`point_in_time.py:73`).

## 6. What else was met while modelling

These are described by the models, or noted here, without a run of their own.

### 6.1 Demo trading

- An entry is not counted against the day when a crash falls between its submission and `record_entry`
  (`demo_strategy_executor.py:148-155`); hence the condition of `DailyTradeLimit`.
- An exit whose cycle ends between write-ahead and network call is SUBMITTED here and unknown at the exchange;
  every later cycle waits for it (lines 332-333). The probe and the round trip share this.
- An entry that the exchange cancels stays ENTRY_SUBMITTED for ever: `_close_rejected_entry` handles REJECTED
  only (line 372, against its docstring, 367-371).
- On the replacement path a lagging reconciliation is not given up as elsewhere: the cycle goes on to the
  position check and may put the trade on hold for books that are merely late (lines 409-415, against
  `demo_order_reconciler.py:25`).
- `fetch_executions` asks for one page of 100 executions (`bybit_demo_gateway.py:501`): an order filled in more
  would lag for ever.
- The cooldown is in the row of the day on which the trade closed (`demo_autonomous_state.py:543`): a trade
  after midnight finds a fresh row and no cooldown.
- `account_exposure` reads positions before open orders. A crash between `mark_open` and the journal entry
  leaves a filled probe unjournalled; two probe processes (nothing locks them out) could book one close twice;
  a late fill while the exit is submitted leaves EXIT_SUBMITTED pending.
- A round trip's close that was sized while the entry was still filling is FILLED and a position remains;
  `advance` returns CLOSE_UNRESOLVED, close-2 is never begun (`demo_btc_round_trip.py:203-211, 280-288`, against
  232-233). A resumed entry does not look again whether the account is flat, so a close may close foreign
  exposure on the symbol. A smoke order that ended before its cancel makes every repetition raise.
- With the ATR floor the ratio of target to stop falls below `target_multiple / stop_multiple` (only "target
  beyond stop" holds). A day's loss can exceed its limit by one trade. Sizes use live capital, the loss limit
  the day's first.

### 6.2 SHADOW, research, session

- After an append that raised `OSError` the SHADOW process keeps the engine it has swapped in
  (`shadow_runtime.py:366-370`), so audit and state differ while it works, and a retry of the item meets
  "already open" (`GREENFIELD_V2_MASTER_PLAN.md:1487-1491`).
- An item whose decision is audited is dead-lettered when its acknowledgement fails at the last attempt
  (`shadow_loop.py:490`; master plan lines 1510-1511). `ShadowDecisions` therefore lets a decided item be DEAD.
- A crash between the count of the failure that reaches the limit and the safety hold lets the next item be
  approved, and its success resets the streak (`shadow_loop.py:497`, against master plan 1509-1510).
- A retried item is claimed after items produced later, so an old decision may be applied to a newer portfolio;
  only an older day is refused. Two service processes on one journal are excluded by the deployment only.
- A dead worker's young lock file is refused until it is eight hours old (`locking.py:86-87`), where
  `VPS_DEPLOYMENT.md:109-112` speaks of a check of the process id. A cycle that outlives the stale limit loses
  its lock and then unlinks its successor's; the budget is compared only between hypotheses.
- Hypothesis ids are positional and `register_research_candidate` accepts every status, so a later cycle can
  take a champion back to candidate, or bring a retired one back. Two writers of the registry can undo each
  other's transition, a kill included. The degraded counter is never reset ("consecutive" is not). `n_trials`
  does not count the trial itself. A torn ledger line ends every later cycle without a report.
- A new PAPER process knows nothing of a position or order of the one before (`paper_node.py` switches
  execution reconciliation off; `session_state.py` speaks of the framework's own persistence) and may bet
  beside it: `SessionIsAccounted` is about processes that were told everything. The day's losses are in memory.
  An entry that the venue cancels or the node denies keeps the risk slot for ever. `restart_count` is never
  reset: it counts failures over the checkpoint's life, where the CLI says consecutive. A kill in
  `save_session_state` leaves a file no later start can read. A `fill_summary_fn` that raises after a good run
  counts as a failure. `n_intents` counts fills; two equal fills are scored once; closes are not scored.

### 6.3 Decisions and contests

- Each leg of an ARBITRAGE gets the whole allocated notional, which `_maximum_allocation` counts once
  (`shadow_producer.py:149-153`, `meta.py:231-265`): both legs together can take twice the gross room;
  `DecisionIsEarned` states that each leg fits. Evidence may be one data age and one setup age old when chosen.
- The carry screen's `price_at` reads the close of the candle that opened at or before the hour, a price known
  an hour later (`screen_hyperliquid_bybit_funding_carry.py:193-197`); `EpisodesAreCausal` is about the rows'
  timestamps. `minimum_net_edge_lower_bps` is not "the one binding criterion" (`engine_config`, 380-393): a
  negative entry basis always waits.
- `read_klines` includes its end, so a VALIDATION window contains the first candle of its TEST window
  (`walk_forward.py:3-9` says never on TEST); `ContestIsHonest` states that they share that bar and no other.
- The tournament evaluates its holdout before anything is on the ledger (`tournament_runner.py:288-396`): a kill
  or an error there lets the next run look at it again, where `ledger.py:126-130` says "at most once per (family,
  holdout_id)". The model has it: `ContestIsHonest` says that a holdout is looked at again only after a run that
  ended in this window, once for each (`looks`, `lost`). New klines make a new
  holdout id over mostly the same time. A kill while the trials are appended loses the rest for ever.
- Analog evidence is stamped with the query's time, not with that of the bar it rests on
  (`regime_analog_evidence.py:75`), so a stale last bar looks fresh; a bad row after the query refuses the
  search. `calibrate_execution` compares only the decision time with `calibrated_at`; with a negative median
  slippage BASE can charge more than ADVERSE (`calibration.py:277-316`). `compare_predicted_to_realized` does
  not ask that realized is later.

### 6.4 Capture and rows

- After `_fail_closed` the final status is "stopped" and the exit normal; only `dropped_event_count` shows it. A
  SIGKILL with a restart within 30 s loses the queue and still qualifies in the soak audit. A stop signal
  between `run_forever`'s test (`bybit_raw_collector.py:170`) and the new socket's start is forgotten until the
  venue ends the connection: `ShutdownEnds` holds because it does in the end. A clock that steps back within a
  connection makes a stream unreadable. The compactor run twice on a growing day leaves overlapping mirrors.
- A Bybit delta without levels leaves no Silver row, so the next does not follow and Gold refuses the day. A
  Coinbase or Deribit message that names several instruments refuses its whole part. Binance's synthesized
  snapshots have no Silver rows.
- Trade Gold merges by exchange time but demands that a connection's receive order never steps back: one pair
  of trades in the other order makes the build raise, although `ordered_merge.py` calls that ordinary. With two
  overlapping connections and a delay of a bucket, a bucket's `cvd` includes trades received after its
  timestamp; "nothing from the future" holds when every trade is received within a bucket of its time. A trade
  received after midnight of a trade before it is dropped by both days. A gap in a day refuses the whole day. A
  kill between a part and its manifest, in Silver and in Gold, blocks that version for ever.
- Market-data files (not modelled): the compactor of captured market files claims a check for "already
  compacted" that it does not have; a torn temporary file matches the readers' glob; `flush` on SIGTERM races
  with the socket thread.

### 6.5 Files and evidence

- Backfill: a range of more than `MAX_PAGES` (5000) pages ends short, without an error or a log line, and what was
  fetched is stored (`ingest.py:53` and the five other loops): `HistoryIsWhole` says that only such a range lacks
  rows, at its far end; the coverage audit is what shows it. A kill while a Bybit, funding, open-interest or long/short partition is rewritten in place leaves
  a file that every later download of the month fails on (`docs/DATA.md:229-230` says interrupted jobs can be
  repeated): in the model such a download raises and is not "done". Two downloads at once lose updates in place. Coverage "qualified" allows gaps. Pollers never take
  readings older than their mark; one failed order-book request loses a whole Hyperliquid poll.
- Lake: a quality report written for an early day blocks it for ever; a queue killed with SIGKILL leaves
  RUNNING, which the archiver refuses; late parts normalized after the queue's Gold are archived though no
  Gold has them; Gold can be made of less than had been complete before.
- Archive: a crash between a ZIP and its manifest leaves the ZIP without one for ever; a crash during prune
  blocks later rotations and loses nothing; a pruned month downloaded again cannot be rotated again; daily Gold
  of one month may be made of different Silver versions and the month is still declared ready
  (`binance_archive_quality.py`, `_audit_continuous_gold`).
- Phase 1: the drills asked for "during that same session" (`docs/PHASE_1_HANDOFF.md:126-131`) put "stopped"
  samples into the window, so an audit after them never qualifies. A reconnect passes for a restart drill.
  A collector from an earlier session counts for a new one's audit.
- Alerts: a connection cut while the endpoint answers is not a `ForwardingError`, so nothing is journalled; a
  torn journal line swallows the next record and the day's file is refused (both are modelled;
  `AnsweredIsDelivered` excepts that one file); without ALERT_FORWARD_URL Alertmanager gets a 202 for an alert
  that nobody forwards, and does not send it again; a repeat of a delivered alert whose
  forward fails makes that day's chain unqualified.

## 7. What is abstracted, only model-checked, or not modelled

Within the modelled parts: numbers (prices, fees, ATR, floats) are reduced to the few values the guards tell
apart; identifiers are model values; wall-clock time is the current day, "the cooldown is over", "the lease may
have run out", "the file is old"; SQLite transactions are atomic and durable, as the code assumes; the exchange
takes an order id once and never fills more than an order's quantity, and a reduce-only order never more than
the position. Hazards that a property covers are in `PROJECT.json`; the ones without are described in section 6.

Not modelled, with the reason, is every component so marked in `PROJECT.json`: as-of joins, strategies, regimes
and features, the backtesting engine and fitted models are numerical functions without state between calls;
scripts parse arguments around the packages; deployment, dashboards and the ATAS exporter are configuration.
Parts of modelled components that are left out (request signing, preflight probes, the compactor's mirror,
derivatives archives, reports' layout) are named in their components' notes.

Proved for every instance: section 4. Checked by TLC only: all other properties of section 3; of these, liveness
and what is computed by folds stay with TLC for good.

## 8. Plan

Proofs still to write, most important first. The bases they would use are named.

1. `ProbeExecution.ProbeEvidenceIsTrue` and `AttendedDemo.CompleteIsOver`: their cycles over the same stores,
   by the lemmas of `DemoExecutionProofs` on the exchange's steps.
2. `RawCapture.StoredIsReadBack` up to the merge.

Models that would be worth extending: two processes on one SHADOW journal, the gateway's pages, the derivatives
archives, drills with their own measurements.
