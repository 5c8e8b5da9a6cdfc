# A verification project for daytrader-bot

TLA+ models of the daytrader-bot trading service, TLC configurations that check
them on small instances, and TLAPS proofs that hold for every instance. Paths
are relative to the repository; `daytrader/` stands for `src/daytrader/`.

## 1. The system

A single long-lived Python process (`main.py`, kept alive by
`deploy/daytrader.service`) boots from a SQLite database and then runs jobs of
an APScheduler: a morning screening that writes a watchlist, a trading cycle
every few seconds, a flatten before the close and a report after it.

| Component | State it keeps | Operations | Talks to |
|---|---|---|---|
| Risk rules `daytrader/execution/risk_manager.py` | none | `resolve_stop`, `take_profit`, `update_trailing_stop`, `position_size`, `kelly_risk_pct`, `is_drawdown_breached`, `can_open_new` | called by the engine and the backtest |
| Execution engine `daytrader/execution/execution_engine.py` | `open_positions` (a dict keyed by symbol), `trade_date`, `halted`, `starting_equity` | `start_day`, `rehydrate`, `process_signals`, `manage_positions`, `flatten_all`, `check_kill_switch`, `_recompute_daily` | broker, repositories, risk rules |
| Virtual broker `daytrader/execution/virtual_broker.py` | a cash balance | `fill_market`, `submit_bracket`, `set_cash` | the engine |
| Live broker `daytrader/execution/live_broker.py` | none here; orders and positions at the venue | `submit_bracket`, `fill_market`, `replace_stop`, `cancel_symbol_orders`, `list_positions` | the venue (Alpaca) |
| Repositories `daytrader/persistence/` | tables `positions`, `daily_metrics`, `orders`, `fills`, `signals`, `scans`, `watchlist`, `equity_curve` | one transaction per call | SQLite |
| Application `daytrader/app.py` | the profit-factor gate's last verdict | `on_start`, `premarket_research`, `trading_cycle`, `market_flatten`, `market_close` | everything |
| Scheduler `daytrader/scheduler.py` | next run times | triggers, misfires, coalescing | the application, on a pool of threads |
| Market clock `daytrader/config/market_calendar.py` | none | `session_for`, `is_market_open`, `is_trading_day` | the application |
| Strategies and router `daytrader/strategy/`, `daytrader/ml/` | none | snapshot in, signals out; regime, meta-label, volatility and profit-factor gates | the application, the signals table |
| Research `daytrader/research/` | none | screen, score, rank, write the watchlist | data provider, watchlist and scans tables |
| Choice of days `daytrader/backtest/screener_parity.py`, `daytrader/strategy/vol_gate.py`, `backtest.py` | none | eligible and blocked days of a backtest | the replay |
| Bar cache `daytrader/backtest/data_store.py` | a parquet file per symbol | `get` | data provider, `backtest.py` |
| Label pipeline `scripts/run_meta_research_pipeline.py`, `scripts/train_meta_model.py`, `daytrader/backtest/labels.py` | label files, their parts, the model file | replay in batches, export, merge, train | `backtest.py` |
| Reporting `daytrader/reporting/` | files | `generate`: PDF, mail, mark as generated | positions, metrics, mail server |
| Backtest `daytrader/backtest/`, `backtest.py` | cash, positions, pending entries of a replay | `run` | risk rules, router |
| Data `daytrader/data/` | none | snapshots with indicators | market-data provider |

What is hard about it:

* **Two copies of the truth.** Every position lives in the dict in memory and
  as a row; cash lives in memory only and is recomputed from rows; the halt
  lives in both. Each repository call commits on its own, so a job is a
  sequence of commits between which the process can die (systemd restarts it)
  or a commit can raise (the job's `try` logs it and gives up).
* **Guards that must survive restarts**: the drawdown peak, the kill switch,
  the ratcheted stop.
* **Overlap.** The scheduler runs different jobs on different threads and the
  engine has no lock.
* **Time.** Fixed cron times against sessions that close early; misfires;
  positions that stay overnight when a flatten is missed.
* **The venue** (live mode): orders fill, partly fill, or are rejected while
  the engine waits or is down.
* **Two ways to the same answer.** The backtest's choice of days and the
  service's screen are to agree, and are computed from different frames by
  different code; neither may know how a day ends.
* **Files that outlive runs.** Caches and label parts of earlier runs, with
  other windows, thresholds and batch sizes, are picked up by the next.

What makes each component correct is listed with its properties in section 4,
for the components modelled, and in section 7 for those still to come;
`PROJECT.json` lists every hazard at its line.

## 2. The modules

| Module | Models | Kind |
|---|---|---|
| `RiskManager` | the risk rules | constant operators |
| `VirtualBroker` | slippage, fills, cash | constant operators |
| `ExecutionEngine` | the engine on the virtual broker, its tables, the jobs that drive it | state machine; EXTENDS the two above |
| `JobRace` | the cycle and the flatten as two threads on one book | state machine |
| `LiveExecution` | the engine on the live broker, and the venue behind it | state machine |
| `PfGate` | the profit-factor gate | constant operators |
| `Replay` | the backtest loop | state machine; EXTENDS `RiskManager`, `PfGate` |
| `Screening` | the morning screen, its watchlist, and a backtest's eligible and blocked days | state machine |
| `LabelPipeline` | the bar cache, batched label exports, their merge, and training | state machine |
| `Signals` | strategies, regime gate, meta filter: how one symbol's bars become signals | state machine; EXTENDS `RiskManager` |
| `Lifecycle` | the days of the service: scheduler, calendar, jobs, stages run by hand | state machine |
| `TradingDesk` | what the engine promises a reader of its database | abstract state machine |
| `MCRiskManager`, `MCSignals`, `MCExecutionEngine`, `MCReplay`, `MCLifecycle` | one trade under the rules; finite instances; `MCReplay` puts `Replay`, `Screening` and `LabelPipeline` into one run | for TLC |
| `RiskManagerProofs`, `ExecutionEngineProofs`, `LiveExecutionProofs`, `JobRaceProofs`, `BacktestProofs`, `LifecycleProofs`, `LabelPipelineProofs`, `RulesProofs` | theorems | for TLAPS |

### How `ExecutionEngine` corresponds to the code

*State.* `rows` is the positions table (the id of a row is its index),
`metrics` the daily metrics, `researched` the last day with a watchlist. `open`
is `engine.open_positions`, `cash` the virtual broker's balance, `tradeDate`
and `halted` the engine's attributes. The remaining variables are the locals of
the running job; `pc` says where it is. Of the statistics in a metrics row the
model keeps the peak, whether the worst drawdown has reached the limit, the
realized profit, the number of trades and the halt.

*Steps.* An action ends where something becomes durable or where the next
statement can fail. `_open_from_signal` is therefore `FillEntry` (the broker
fills, cash moves), `RecordEntry` (the row commits, the dict entry follows) and
`RefreshAfterEntry` (`_recompute_daily`); `_close_position` is `ExitPosition`
or `FlattenPosition` and then `RecordExit`; a trail is `TrailStop` (memory) and
then `UpdateStops` (row) if the stop has moved. A statement that only touches
memory is merged with its neighbour.

*Jobs.* `trading_cycle` is `BeginCycle` (account guard: value the book, refresh
the metrics, then refuse, flatten or go on), the signal loop, and the
management loop. A cycle whose profit-factor gate is closed is one without
signals. `market_flatten` is `EndOfDayFlatten` and the flatten loop, which the
kill switch shares. `on_start` is `Boot`, `premarket_research` is
`PremarketResearch`; both are `start_day`, that is `get_or_create`, the latch
and `rehydrate`.

*Failures.* `Crash` can happen at any point of any job. `DbError` is a commit
that raises inside a job: nothing of that commit is durable, memory keeps what
the job has done so far, the job ends. `PremarketError` is `start_day` raising
half way, after which the service runs on with a new date and an old, empty or
rebuilt book. At most `MaxDbErrors` commits raise.

*Data.* Prices and cash are integers and percentages whole numbers, so every
comparison the code makes on floats is exact here. A product with a percentage
is compared before it is divided. Fill prices after slippage are rounded down
to whole ticks. A signal's score stands for confidence x reward/risk x
meta-probability; only its order matters. Signals in a cycle are any small set,
snapshots price any subset of the symbols at any price.

### How `JobRace` corresponds to the code

The scheduler's default pool runs `trading_cycle` and `market_flatten` on
different threads, and neither takes a lock. `JobRace` keeps of the engine what
they can disagree on: the dict, the rows, how often a row was exited, and the
list of positions each job took before its loop (`list(...)` is one atomic
operation of the interpreter; the list is stale from then on). A loop over the
dict itself (`equity_value`, and the search for missing quotes in
`flatten_all`) is a state of its own, `scan`: when the other job changes the
dict during it, it may raise, and the job ends as its `try` block ends it.
Whether a position is due or an account in breach is left open. A cycle may begin
at any moment, also while the flatten is running: its interval has a phase of its
own, and `max_instances=1` is per job. `lateCycle` records that one has. Threads,
crashes and failing commits together would add nothing about the dict, so the
last two are left to `ExecutionEngine`.

### How `LiveExecution` corresponds to the code

*What it adds.* `ExecutionEngine` runs on the virtual broker, where an order is
a fill. Here `fill_market` and `submit_bracket` send an order that rests at the
venue, and everything the engine does only `if not self.broker.is_simulated` is
present: the reconciliation in `rehydrate`, `_sync_broker_exits`,
`replace_stop` and `cancel_symbol_orders`.

*State.* `shares`, `partly`, `orders` and `filled` are the venue's; the account
holds `Held`, the whole trades of `shares` and a `Part` for each entry that has
filled in part. `row` is the open
position, in memory and in the database at once: that the two are the same
trade is what `ExecutionEngine` is about. `known`, `sold`, `soldTwice`, `cut` and
the counters are bookkeeping. There is one symbol, because no call of the broker
concerns two, and trades are long. The price is left out: any resting order may
fill at any time, a trail may lift the stop to any higher level, an exit may be
due or not.

*Calls.* A call of the API that raises (`Raises`) was either refused or carried
out with the reply lost. Where the code catches the exception the job goes on
(`replace_stop`, `cancel_symbol_orders`, `list_positions`, the cancel of an
unfilled entry); elsewhere the job ends.

| Code | Actions |
|---|---|
| `start_day`, `_reconcile_with_broker` | `StartDay` |
| `submit_bracket` | `SubmitBracket`, `AwaitFill`, `CancelEntry`; then `RecordEntry` |
| `_sync_broker_exits` | `SyncBrokerExits` |
| `manage_positions` | `Trail`, `MirrorStop` (`replace_stop`), `Keep`, `ExitDue` |
| `_close_position` | `CancelSymbolOrders`, `FillMarket`, `AwaitExit`, `RecordExit` |
| `flatten_all` | `Flatten`, then the same |

*The venue*, outside `src/`, is what `live_broker.py` takes it for: entry and
legs are one request, the legs are held until the entry has filled, a leg that
fills ends the other, all orders are good for the day. An entry may
fill in part first (`EntryFillsInPart`): its legs stay held, and the polls take
the part's price for the fill (`AwaitFill`), so that the row says the whole
quantity. Legs and exits fill in one piece.

### How `Replay` corresponds to the code

`BacktestEngine.run` is one loop over timestamps whose body is numbered from 1
to 5 in the code; `pc` goes through the same phases. The pass over `pending` is
`StillPending`, `FillPending` or `DropPending` for the head of `queue`; the pass
over the positions is `ExitPosition` or `TrailPosition` for each that has a bar;
then `CheckKillSwitch` and, in a breach, `KillPosition` and `Halt`; then
`Evaluate`, once per signal; then `FlattenPosition` for each position whose
session ends. The order in which a dict is walked is left open, which only adds
behaviours.

The data set is chosen on the way: `NewDay` and `NextBar` take any non-empty set
of symbols, any bar for each, and decide which of the bars is its symbol's last
of the session, which the code looks up in `session_last`. A symbol may miss
bars or a whole session. Strategies, warm-up, eligible and blocked days and the
meta filter only decide which signals there are and which are passed on; here,
any. The flatten after the last timestamp is left out: `FlatAfterSession` shows
that it finds nothing. Percentages and prices are whole, costs of a fill are
rounded down to a tick.

### How `Screening` corresponds to the code

*State.* `history` is the completed sessions of each symbol, one bar a day with
its premarket volume up to the cutoff, and today's as far as it is known;
`scans` the audit table, `candidates` what the latest screen let pass, `watchlist`
the day's list. `Screen` is `Screener.screen` with `_record_scans`,
`WriteWatchlist` the rest of `ResearchEngine.run`; between the two the process may
die (`CrashInResearch`), and the research may run again.

*Data.* A mean or a percentage is kept as a pair of integers (`Ratio`) and
compared by multiplying out. What a provider shows in the morning (`Views`) is
chosen apart from what the session turns out to be (`Sessions`): it may have no
row of today yet, or one with another open. Missing closes do not occur. A
score of the news is any of a set, or none. The ATR of a day is a field of its
row.

*The backtest's days* are operators on the same history: `GapEligibleDays`,
`PremarketRvolEligibleDays`, `DayBlocked`. `OpenMarket` and `CloseMarket` let the
session begin and end, so that the choice of days can be compared before and
after. The SPY proxy is taken to be on. Filters over lists are written with
`Keep`, which takes the places to keep.

### How `LabelPipeline` corresponds to the code

*State.* `cache` is the store's file per symbol, as the days it spans and whether
its last one was still running when it was fetched; daily bars, which the
backtest loads the same way, are not kept apart. `parts` and `oos` are the label
files, number 0 the final one and the others the batches'; a row is a trade
with the threshold and the run that it comes from. `model` is the rows it was
fitted on and its folds. A file can also be torn (no reader opens it) or empty (no
bytes), which is what a writer that dies leaves. A write of the cache that fails
(`Load`; `data_store.py:76` logs it and goes on with the bars) leaves the older file or
a torn one, and is counted with the crashes.

*Steps.* `StartRun` is `main` with new arguments, then for each batch `SkipBatch`
or `Load`, `ExportIn`, `ExportOos`; then `Merge`, `MergeOos` and `Train`, or one
of the ways to fail. The replay of a batch is a set `Trades` of what it fills on
all days, of which the labels are those on days with bars; `Replay` is about how
it fills them. A trade whose session was cut short at the end of its data closes
there (`whole` is false), with the label of that.

*Bound.* No day passes in the middle of a run.

### How `Signals` corresponds to the code

*State.* `bars` is the session so far of one symbol, `prior` yesterday's daily
row, `setup` the configuration: which feed, the entry mode of the opening-range
strategy, whether the gap has to match, the modes of the regime and meta filters.
`recorded` is the signals table, `survivors` what the last
`StrategyRouter.evaluate` returned, with the daily frame and regime it used.
No strategy remembers anything: what a signal depends on is in `bars`.

*Steps.* `NextBar` appends a bar: a completed one in the replay, one that has
just begun in the service. `Forming` lets the last bar of the service go on: its
range and volume grow, its close and indicators move; the live snapshot ends at
`now` and contains it (`data/data_engine.py:125`). `Evaluate` is
`StrategyRouter.evaluate` for the symbol, from the regime to what is handed on:
the strategies are the operators `OpeningRangeBreakout`, `VwapPullback` and
`MomentumScalp`, which give the set of signals a strategy emits, empty for a
hold. A classifier that raises gives no regime, a provider that fails no daily
frame (`DailyFrames`), the meta model any scores (`Blocked`).

*Data.* A bar carries the indicators of its row; how the series are computed is
left out, so that any combination is a row. Whether the ATR percentile of the
daily frame is low is the flag `quiet` of its row. Today's row of a live daily
frame has the price of the last bar for its close and keeps yesterday's ATR.
Confidence, texts and timestamps are left out. Units are such that midpoints
and multiples of the ATR are whole; a quotient is compared by multiplying out.

`MCSignals` puts a chart and a trade under the risk rules (`MCRiskManager`) into
one run; a behaviour is about the one or the other (`focus`). A tick of the trade
takes the trail's distance from `TrailDistance`, as the engine does: from the ATR at
entry or, without one, from the stop as it is now.

### How `Lifecycle` corresponds to the code

*Time.* `day` and `now` move through a few instants of each day; `Sessions` is
the exchange's calendar. `Tick` adds to `due` the jobs whose cron time it passes,
if the process is up: the job store is in memory, so a process that is down
forgets them. A due job starts at any later instant within its
`misfire_grace_time` (the host may have slept, the pool may have been busy) and
is dropped by `Skip` after it. A cycle may begin whenever the market is open,
reads the clock and the watchlist once (`BeginCycle`) and then takes as long as
it takes; no job lasts until midnight.

*State.* `rows` and `closed` are the positions table, `memory` the engine's
dict, `tradeDate` its date, which new rows are booked under. `gateSaw` is the
day of the latest trade the profit-factor gate was evaluated on. Of a report
the model keeps which closed rows it lists.

*Jobs.* `Boot` is `on_start`. `PremarketResearch` starts the day and goes on to
screen; `WriteWatchlist` ends it, with any list. `PremarketError` is `start_day`
raising before, within or after `rehydrate`; the service runs on.
`MarketFlatten` and `FlattenError` are the flatten that comes to its end and the
one that does not, because a close raised or because, live, the venue is shut
(that it rejects orders then is what `app.py:148` says of it). `MarketClose`
warns of open positions and reports.

*By hand.* `README.md` and `deploy/LINUX.md` tell the operator to run
`main.py --once research` when there is no watchlist. That process has an engine
of its own; what it leaves behind is the list, next to a service that may not
have started the day.

*Seeded faults.* Operators whose names start with `Fault` are plausible slips
in the operator they precede. No specification uses them; substituting one for
its neighbour must make the property named in `PROJECT.json` fail, which shows
that the property depends on the code being right.

## 3. Assumptions

* `RiskConfigAssumption`, `BrokerConfigAssumption`: the ranges that the
  settings model validates. The slippage may be any percentage.
* `TradeAssumption`: whole numbers, a positive entry price, finitely many accounts.
* `EngineConfigAssumption`: finitely many symbols and signals, positive prices.
* `ExecutionEngine` runs one job at a time. The scheduler does not guarantee
  that; `JobRace` drops the assumption.
* `sizing` uses the fixed risk percentage; Kelly's percentage is covered in the
  rules' own run and theorem.
* `SignalsAssumption`: bars that close within their range, an opening price within
  the first one, positive daily closes, at most ten earlier sessions (the window of
  `relative_volume_tod`), and units in which midpoints are whole.
* `RangeHasWidth`: the first bar is more than a single price. The code takes a flat
  range for a billionth wide, which whole prices do not show.
* `BetsAreApart`: every enabled strategy has a list of regimes, and that of the VWAP
  pullback shares none with another's, as in `config/config.yaml:78` and in the
  settings' defaults. Both are hypotheses of the theorem that needs them, not
  assumptions of the model.
* `PfConfigAssumption`, `ReplayConfigAssumption`: the validated ranges of the
  gate; bars whose open and close are within their range.
* `LifecycleAssumption`: sessions are on weekdays and open before they close, all
  in minutes of a day.
* `MorningIsEarly`: the morning's job, with the hour by which it may be late, is
  over when the market opens and before the flatten. It is no assumption of the
  model (the times are settings, 07:00 and 15:55 by default) but a hypothesis of
  the theorems that need it.
* `ExecutionEngine` has the database to itself: nobody runs a stage by hand next
  to it. `Lifecycle` drops the assumption, and with it some of the guarantees
  (`DayIsStarted`).
* `ScreeningAssumption`, `PipelineAssumption`: thresholds are natural numbers,
  windows and counts positive; the trades of a replay lie within the bounded days.
  In the screening every history, session and view is of the same symbols, the two
  of the volatility gate among them, the histories have the same sessions, and
  prices are positive.
* `TickersAreDistinct`: the universe file lists a symbol once. Nothing in the code
  sees to it (`load_universe_symbols`), so it is a hypothesis of the one theorem
  that needs it. With a symbol in two batches TLC finds `ModelForCause` violated:
  the second batch may be served the bars that the first was refused.
* `FilesAreNotLabels`: a set of labels is no torn, empty or missing file. This is
  how the values are told apart, as with the model values of the run, where TLC
  could not enumerate the sets to check an assumption.
* `LiveAssumption`: a positive quantity, of which a part is less than the whole;
  a positive number of stop levels.
* A market order fills before the venue closes, possibly after the engine has
  given up polling for it.
* Fairness of `LiveExecution` (`LiveFairSpec`): a job that has started goes on;
  systemd restarts a dead process (`Restart=` in `deploy/daytrader.service`);
  the interval trigger starts cycles however often other jobs are started in
  between, hence strong fairness of `BeginCycle`; market orders fill. Nothing is
  assumed of resting orders, of the flatten or of the close.
* Fairness of `ExecutionEngine` (`FairSpec`, used by one run): a job that has started goes on taking
  steps. It is a loop in a running thread with nothing to wait for, so weak
  fairness of `JobStep` is what the code gives. Triggers, quotes, restarts and
  midnight are not assumed to happen.

## 4. What the runs show

| Run | Question |
|---|---|
| `rules` | What do strategies and filters make of a chart, replayed or live? Is the size of a trade the *largest* affordable one for accounts and Kelly percentages of either sign, and its iterated trailing stop, with an ATR, a function of the best price alone? |
| `engine_day` | One day, three symbols, up to two trades, a crash anywhere: do memory, database and what a restart would rebuild agree? Do trailing stops and closed rows only move one way, and does a kill switch that has begun end in a latched halt? |
| `engine_overnight` | Two days, one symbol traded both ways on fixed targets, with slippage and commissions, crashes and a failing commit: carried positions, failed mornings, guards that outlive both, what the cash may part from the rows by, and the refinement of `TradingDesk`. |
| `race_jobs` | Two jobs on one book, a cycle beginning at any moment of a flatten: what can an overlap damage, and what not? |
| `live_orders` | Orders that rest, fill late or in part, or are lost, with a failing call, a crash, a slow exit and an overnight close: which shares and orders are on the engine's books, and when are they protected? |
| `replay` | What is done offline, one of three parts at a time. Two sessions of two symbols whose bars may be missing: does the account balance, is every session left flat, does nothing look ahead? A morning's screens and the session after it: does a backtest choose the days that the service would, before it knows how they end? Runs of the label pipeline one after the other, with crashes, outages and a write that fails: which labels can reach the model? |
| `lifecycle` | A day that closes early and an ordinary one, with late and dropped jobs, a crash, a failing job and a stage run by hand: what do clock and calendar do to positions, dates, the gate and the report? |
| `finding_kill_crash`, `finding_flatten_race`, `finding_lost_position`, `finding_naked_crash`, `finding_live_gap` | Five places where the code does not do what its docs, comments or tests say. |

Properties, and the code they are about:

* `MemoryBacked`, `NothingForgotten`: the dict and the open rows are the same
  trades (`open_position`/`close_position` against the dict writes).
* `OneRowPerSymbol`: a symbol never has two open rows; the dict could not hold
  the second and nobody would exit it.
* `HaltedIsFlat`, `HaltedForCause`: the latched halt has no position and has its
  drawdown on record. `KillSwitchCompletes`: a kill switch that has begun comes to
  an end, and then the day is halted, or the process has died, or a commit has
  raised. `NoEntryAfterKill` is a finding: a day is traded again if the process dies
  between the last exit and the latch.
* `CashDriftsForCause`: the virtual cash is what `rehydrate` would rebuild from
  the rows, up to the fill that is on its way to its row, and parts from that for
  three causes only. An entry's commission is paid and is in no realized profit,
  so that `rehydrate` gives it back; the profit of a carried position is counted
  for the day it was opened on (`execution_engine.py:173`), so that the running
  process has it and the next one has not; and a commit that raises after its fill
  leaves the fill in the cash. The next cycle sells such a position a second time.
* `StopNeverLoosens`, `ClosedRowsAreFinal`, `GuardsOnlyTighten`: action
  properties, across restarts and failures.
* `ImplementsDesk`: read through the database, every step is a step of
  `TradingDesk` or invisible. A halted day is flat and stays flat, a symbol is
  held on one side only, the book respects its limit.

* `SoldOncePerJob` (`JobRace`): an overlap can sell a position twice, once per
  job, but no cycle ever sells it again.
* `LostForCause` (`JobRace`): an open row drops out of the dict in one way only.
  Both jobs have sold an earlier position of its symbol, and a cycle that began while
  the flatten was running has opened the new one; the flatten then `pop`s the
  symbol, meaning the old position. That it can happen is a finding (`NoneLost`).

* `SharesAreOnTheBooks` (`LiveExecution`): the account holds at most what the row
  says and nothing without a row, whatever fails or dies, *unless* an entry has
  gone astray (its reply was lost, the process died before its row was written,
  or it filled between the last poll and the cancel), an exit has outlasted
  its polls, or a row was closed while its entry had filled in part (`cut`): the
  exit sells the whole quantity, a boot sees a mismatch and drops the row, the
  close cancels the rest. The reconciliation closes every row that does not match
  the account, so these three are the only ways in which shares get lost; a part
  that is followed by the rest while the row is open ends as if it had been whole.
* `NakedOnlyInTrouble`: held shares have a stop resting at the venue or are
  being sold, as long as nothing has failed, died or stayed overnight, and no
  entry has filled in part only (the venue holds its legs back until the rest).
* `NoOrphanOrders`: no leg outlives its position, across crashes and closes, unless
  a cancel failed or the row was closed on a part.
* `VenueStopBehindRow`: the venue's stop is never above the engine's own, also
  when a `replace_stop` failed.
* `GhostRowsAreClosed`: a row whose shares a leg has sold is closed in the end.

* `RetestTwiceForCause` (`Signals`): the retest entry is signalled once per side
  and session *unless* the ATR has fallen since, which narrows the tolerance by
  which the first retest is recognised, or the bar that was signalled went on
  forming. `orb.py:230` says "exactly once per side per session".
* `LevelsProtectForCause`: a signal's stop is on the losing side of its price and
  its target on the winning side, but for a momentum signal without an ATR, a
  retest whose tolerance reaches the middle of the range, and a retest that
  closes a whole range beyond the level (its target is then behind it).
* `GapMatchForCause`: an entry that must match the gap matches the overnight one
  in the replay; in the service it matches the running price instead.
* `NeverBothBets`: with the regime enforced the engine is never handed a
  breakout and a mean reversion at once, unless the classifier failed.
* `SizeIsLargestAffordable`: the size of a trade.
* `StopFollowsBestPrice`: the trailing stop sees one price at a time and only its own
  last value. With an ATR at entry it is nevertheless a function of the best price
  alone, however the prices arrived. Without one this is so only until one
  initial risk has been gained: the distance is then derived from the stop *as it
  stands* (`execution_engine.py:363`), is nothing once the stop is at the entry, and
  grows with the stop afterwards. What remains true is that the stop is between
  the entry and the best price.

* `BooksBalance` (`Replay`): cash, less the positions at their entries, is the
  starting cash plus the trades' profits. It holds only with the commissions
  added back: they are in the profits and not in the cash, so the equity curve
  is better than the list of trades.
* `FillsFollowSignals`: a fill is on a later bar than its signal.
* `GateIsCausal`: the gate is closed all day exactly if the trades of *earlier* days
  close it, however the day's own trades end, and no day that they close has a signal.
* `FlatAfterSession`, `KilledDayIsFlat`: what a session and a kill leave.

* `LivePicksForCause` (`Screening`): after a session, the backtest selects it for a
  symbol exactly if the service's latest screen had let the symbol pass, *unless*
  one of six causes that the property names: the provider had no row of today
  yet (the screener does not look at the date of the last row and takes
  yesterday's for it), or another open; the 40 days of history hold fewer
  premarket sessions than the backtest's; without premarket bars the service
  falls back to the ratio of whole days; only the service asks for price and
  average volume, and only the backtest rejects exhausted gaps; with a threshold
  of zero the backtest selects no day at all.
* `SettledAtTheOpen`: which days a backtest may trade is settled at the open.
* `WatchlistIsOneRanking`: the list is the best of one screen, in falling order,
  whatever died between the audit and the list and however often it ran.

* `ModelForCause` (`LabelPipeline`): a model that a whole run of the pipeline has
  fitted was fitted on the labels that the run's arguments ask for. A label that
  does not belong is an older run's, in a part that this run has no batch for or
  may have had nothing to export to; a label that is missing is of a symbol
  without bars, of a batch that was resumed, or within the slack of the cache.
* `NoLeakage`: no fold is trained on a row whose trade overlaps the test block or
  its embargo, and no model on a held-out symbol or past its cutoff, whichever
  files were merged.

* `CarriedForCause` (`Lifecycle`): a row outlives a flatten that came to its end
  only if it was opened behind its back (the cycle runs on until 16:00) or if the
  engine had forgotten it after a failed morning. The other ways to be carried
  are a flatten that did not run, raised, or came after an early close.
* `DayIsStarted`: rows are booked under their own day, and no symbol is opened
  twice, because without a started day there is no watchlist and without a
  watchlist no cycle. Research run by hand breaks the chain: after a morning job
  that failed or was dropped, the service trades under yesterday's date, is
  measured against yesterday's peak, and may hold two rows of a symbol. The older
  of the two is out of the engine's sight for as long as it is open, so that a
  third can join it days later, without anything by hand on that day; the property
  therefore looks at all the days from the one row to the other.
* `UnwatchedForCause`: which open positions a cycle does not price: those carried
  into the day, and those whose symbol a rerun of the research has dropped.
* `GatePeeksForCause`: the service's gate counts trades of the same day only
  after a restart in mid session, and then it does, whatever
  `strategy/pf_gate.py:8` says.
* `IncompleteIsWarned`: a trade is missing from its day's report only if the
  report was preceded by the warning of `market_close`, or the trade was opened
  later, or something was run by hand (the fresh process of `--once report` knows
  of no position and never warns). A carried trade is in no report: its own day
  has been reported, and the day it is closed on does not list it.

### Bounds and why they are enough

Two symbols are the least with which one position of the book can go wrong
while another is handled, and the day's third finds the book full; two rows (`MaxTrades`) let a symbol be traded again
or two be held together; two days separate "today" from "carried". The engine's
prices are chosen per run from a level below every long's stop (85, also below the
short's target), one above the hinted short's stop that is one initial risk up for
the long (112), and one further up (125, also above the long's target): the day's
run has the last two, for two ratchets and for shorts that are stopped after
entering at a quote, the overnight run the outer two, for stops and targets of
both sides. One failing commit is
enough for each kind of torn job; a second would fall in a state that a crash
can also produce. Three orders at the
venue are an entry that goes astray, a second entry and its exit; one failing
call, one crash, one slow exit, one close and a first entry that fills in part
let each trouble meet each other;
three stop levels are two ratchets. Four timestamps in two sessions of a replay
let a trade finish, be judged by the gate the next day, and a pending entry wait
over a bar its symbol misses; two signals compete or follow each other; the four
bars are quiet, touch both levels, or gap through the long's or the short's
stop. Two days of the calendar, one closing early, with one crash, one failing
job and one stage run by hand, let a position be carried by each cause and meet
each kind of next morning; the instants are the jobs' times, the middle of a
session and two at which jobs are too late. A chart has an opening range of one
bar and three more, enough for a break, a retest and a second one, or for a
break, a retest and a bar over the retest's age; one of them may go on forming
once. Its eight bars break, hold, dip into or under the middle of the range, jump
by more than the range, or mirror a break and a retest below; their ATRs give
none, a narrow and a wide tolerance. One of yesterday's rows gives a gap up, the
other a gap down on a quiet symbol; live, where no frame shows yesterday's close,
one of them is enough for each entry mode. The four setups are breakout entries replayed and live,
and live retest entries with and without the gap filter. A morning is
screened at most twice; its symbols are one that is measured in several ways,
one that is always a candidate, and the index of the volatility gate; averages
are over two sessions and percentiles over three, so that a window is too short,
full, and longer than what the service asks for; a watchlist of two has an order, and
can be cut and not. Two runs of the pipeline, six
sets of arguments (no batches, batches of one and of two symbols, resumed, another
threshold, training only), one crash or failed write, one outage and two days let every file of
a run meet every later one. The cache's slack is a day. Every bound is a
constant of the configuration.

### Findings

1. *Kill switch and crash* (`execution_engine.py:501`): the exits are committed
   one by one and the latch last. If the process dies in between, the day has
   been killed and is not halted; the restarted process may trade again.
2. *Flatten and cycle* (`execution_engine.py:463`): an entry or exit of the
   cycle during the flatten's walk over the dict makes the flatten raise and
   close nothing; it is not run again that day.
3. *Crash in an exit* (`execution_engine.py:443`): the protective legs are
   lifted first and the market exit is sent second. If the process dies in
   between, the position has no stop until the next cycle exits it again.
4. *Gap of a live session* (`strategy/gap_features.py:22`): the service's daily
   frame ends with today's row, so that the gap is measured against the running
   price. A close beyond the range always looks like a gap the other way, and
   with `require_gap_direction_match` on, as in `config/config.yaml`, no breakout
   is signalled live, while the backtest, which cuts the frame off before today,
   signals it.
5. *Lost position* (`execution_engine.py:457`): the comment at line 46 calls the
   dict an "in-memory mirror of an open DB position". When cycle and flatten have
   both sold a position, and a cycle that began during the flatten opens its
   symbol again before the flatten gets to its `pop`, the `pop` removes the
   new position: its row stays open and nobody exits it until the next start.

`LiveExecution` also has a double sale, which no run singles out: `flatten_all`
does not look at the venue (only `manage_positions` calls `_sync_broker_exits`),
so a leg that filled after the last sync has sold the position, and the flatten
sells the row's quantity again (`execution_engine.py:477`); the account is then
short. `soldTwice` records it, and `NoOrphanOrders` makes an exception of it.

Three more disagreements are behaviours of the models that no run singles out:

* `execution_engine.py:358` says that a row without a captured ATR falls back to
  deriving it "from the (ATR-method) stop distance". The distance used is that of
  the stop as trailed, not of the initial one: after one initial risk the stop
  jumps to the entry or beyond; at the entry the distance is nothing, and the next
  price moves the stop to the best one and closes the trade. This is the exception
  of `StopFollowsBestPrice`, and it is not only about legacy rows: a signal with a
  stop of its own and no ATR opens such a position.
* `app.py:148` wants everything flat before the close, but `flatten_all` stops
  at the first close that raises (`execution_engine.py:469`), so that one failing
  commit or rejected order leaves all the positions behind it, too, and the job is
  not run again (`DbError` in `ExecutionEngine`, `FlattenError` in `Lifecycle`).
* `strategy/pf_gate.py:7` says that the gate only looks at earlier days. The service
  evaluates it on all closed rows, each morning and whenever it starts (`app.py:93`);
  after a restart in mid session they include the day's own. This is the exception of
  `GatePeeksForCause`.

Where docs and code part ways elsewhere: `strategy/router.py:10` says that
blocked signals are still persisted, which is true of the meta filter, while a
strategy that the regime blocks is not evaluated at all; `max_gap_pct` of
`config/config.yaml` is read by the backtest's choice of days and not by the
strategies the service builds; the volatility gate is wired into `backtest.py`
only. `max_gap_norm` (`config/config.yaml:64`) is passed on to
`gap_eligible_days`, but the daily frames given to it have no ATR column
(`backtest.py:322`), so that it never rejects a day there. `backtest.py:307`
tests a data frame for truth and raises when SPY is one of the symbols.

Of the label pipeline, beside what `ModelForCause` names: an export without rows
leaves the older file in place (`backtest/labels.py:49`), and the merge takes
every part on disk (`run_meta_research_pipeline.py:198`), so that a run with
fewer batches than the last one trains on rows of both, some of them twice. A
part of no bytes is passed over in silence. A part is recognised by `_oos` in its
name, so labels whose own name contains it would never be merged.

`deploy/crontab.example:19` announces a flatten at 16:15, but the stage it
runs, `--once report`, only reports: driven by cron, nothing flattens.

## 5. What is proved

Every theorem holds for all values of the constants that section 3 admits, with
any number of crashes, failures, orders, trades and bars.

### The rules

`RiskManagerProofs`: a trailed stop never protects less than the one it
replaces; once one initial risk ahead it protects the entry; a position's size
respects all three caps. `SumAdds` says of the sums that both the engine's book
and the replay's account are made of that a new element adds its value, in
whichever order the library's fold takes them.

`RulesProofs` follows one trade of `MCRiskManager` through any prices. Its size is
the largest that the caps allow (`SizeIsLargestAffordable`): `PositionSizeWithinCaps`
says that it is one of the numbers the caps allow, `PositionSizeIsLargest` that there
is no larger one, by the floors that the code takes; both hold for accounts under
water and for Kelly's percentages of either sign. The trailing stop
(`StopFollowsBestPrice`) rests on two invariants: the peak is the best of the prices
seen (`PeakIsBest`), and the stop is what that peak gives to the first stop
(`StopFollowsPeak`), which one more price keeps (`TrailFollows`). `StopFollowsPeak`
covers a trade without an ATR until the initial risk has been gained, and one that
has gained it keeps it (`GainGrows`); from then on each price leaves such a stop
between entry and peak (`TrailStaysBetween`), although the distance is the stop's own.

### The engine

`ExecutionEngineProofs`: `TypeOK`, `MemoryBacked`, `OneRowPerSymbol`,
`HaltedIsFlat`, `HaltedForCause`, `StopNeverLoosens`, `ClosedRowsAreFinal`,
`GuardsOnlyTighten`, `CashDriftsForCause`, the refinement `ImplementsDesk`, and
`NothingForgotten` for as long as no commit has failed: a morning that raises
half way leaves an old or an empty dict, and a commit that raises on a stop leaves
the row behind memory. `engine_day`, which checks it, has no failing commit.

The argument is one inductive invariant, `Inductive`. The properties alone are
not inductive; it adds

* `Started`: on a day with a watchlist, a running process has started that day,
  so its book has every open row and it knows of a latched halt. This is what
  keeps a second row from being opened after a half-done morning: without a
  watchlist no cycle runs;
* `Calendar`: halts and watchlists are never of the future;
* `Trading`: a job that can still open a position runs on a day that is not
  halted, and only the kill switch reaches the latch;
* `Loops`: what the loops have still to visit and what is in hand, so that the
  flatten loop ends with an empty book;
* `StopsAhead`: memory's stop is at least as tight as the row's. They differ
  when the commit of a stop has failed, and writing the memory's one later must
  not loosen the row's.

A second one, `Guarded`, rests on it: a day without a metrics row has no guard to
lose (`NoRowNoGuard`), so that the row a late `get_or_create` makes tightens
nothing; from its first exit to its latch a kill switch has its drawdown on
record (`KillForCause`); a fill on its way to its row still has its slot
(`RoomForTicket`), which is the desk's limit on the book. With both, each
step of the engine is shown to be a step of `TradingDesk` or to leave the desk's
view alone. `CashDriftsForCause` needs the sums: what joins or leaves the book
changes its total by exactly its own value. That a sum over a finite set is what
one expects is itself an induction, over well-founded sets and with the property
as a set, because the theorems that take it as an operator cannot be used.

### Two jobs on one book

`JobRaceProofs`: `LostForCause` and `SoldOncePerJob`, with no assumption about when a
cycle or the flatten begins. `close_position` and `pop` go by symbol and not by
position, so the first needs to know whose entry is dropped.

* `DropsItsOwn`, as long as no cycle has begun during the flatten: under the symbol of
  a position that a job has listed there is that position or none, and while the cycle
  may still enter the symbol is not free. Then nothing is lost at all.
* `Lists`, whatever begins when: the cycle drops only its own positions, as only it
  enters; under the symbol of a position that the flatten has listed there is that
  one or a later one.
* `Sales`: who has a position in hand has sold it, and a position that the flatten
  has listed and that has left the dict was sold by the cycle. So what the flatten
  drops instead of its own was opened after an earlier one that both have sold.

`SoldFor` counts: a row has been
sold by no more jobs than have lost their chance to sell it.

### Live trading

`LiveExecutionProofs`: the type invariant `LiveTypeOK`, `SharesAreOnTheBooks`,
`VenueStopBehindRow`, `NoOrphanOrders` and `NakedOnlyInTrouble` for every number of
orders, failing calls, crashes, slow exits, closes and partial fills, and for every
size of the part. The invariant `LiveInductive` adds

* `JobShape`: what the job has in hand at each point, so that a fill that is
  polled for belongs to no row yet;
* `OrderShape`: only stops have a level, an entry rests until it has filled, and
  the stops of a trade are behind the row that the trade has or will get;
* `WholeTrades`: the account holds a multiple of the quantity, so that less than
  a trade is nothing;
* `SharesBounded`: the bound on the account, in terms of strays that have
  *filled*, in part or whole: those never go away, while a stray that is still
  working may be cancelled. It needs the exit that fills under the job's eyes to
  have taken a whole trade out of the account before its row is closed
  (`HeldAtMost`), which after a part is more than there was, until the rest fills;
* `PartsAccounted`: a part belongs to a stray, to the entry in hand, to the row or
  to a row that was cut, so that without strays and cuts there is at most one.

A bound on the shares does not say that a closed row was *sold*, which is what
rids the venue of its legs. `LiveOrderly` adds what does:

* `Settled`: while nothing has gone wrong, the account holds exactly the trade in
  play; every other trade was bought and sold whole, and no leg of a sold trade is
  left. A row that the sync or a boot closes because the account does not hold
  it was therefore sold, and its legs went with the sale;
* `ExitsComeLast`, `ExitsSell`: an exit is sent when its trade has no other order
  left, and the one that was waited for has sold;
* `PartsStay`: a row closed on a part leaves that part in the account for good,
  so that an account without parts had no row cut;
* `StopStands`: the stop of the trade in play is at the venue until it is lifted
  for the exit or the trade is sold; a `replace_stop` moves it and keeps it.

### The replay

`BacktestProofs`, its first part: every run property of the backtest loop. `ReplayShape` carries
`FlatAfterSession`, `KilledDayIsFlat` and `FillsFollowSignals`:

* `PhaseShape`: what each phase has still to visit, and that entries wait in the
  queue only while they are looked at;
* `HeldInSession`: a position is of a session that is on, or that ends with this
  very bar and is still to be flattened. The pass over the ending
  sessions must therefore not skip anyone, whichever bars are missing;
* `KillVisitsAll`: the kill switch has every position still before it;
* `EntriesAreSourced`: a waiting entry comes from today's signal for its symbol,
  and one that may fill at this bar from an earlier bar's.

`BooksBalance` follows from the sums: an entry moves its owed value from the cash
to the book, an exit moves it back and adds profit and commission to the list.
`GateIsCausal` needs `GateLooksBack`: the trades are in the order of their days
(so that the trades before a day are a prefix of the list, whatever comes after)
and the gate of the running day was set by those before it, closed or open; what
has been signalled so far was signalled on days whose gate was open (`GateWasOpen`).

### The screening

`BacktestProofs`, its second part: every property of `Screening`, for any universe
(symbols listed twice included), histories, providers, scores and number of screens.

The sort and the filters both put finitely many places in a strict order. In such
an order every place has a rank of its own and every rank is taken (`RanksDiffer`,
`RanksAreTaken`), so that the places listed by their ranks are all of them, once and in
order (`ListIsComplete`). With the order of the places this says what `Keep` keeps
(`KeepIs`), with the order of the scores what `Ranked` ranks (`RankedIs`).

`SettledAtTheOpen` (an action property): two histories that agree on everything
before a day and on the open and premarket volume of that day (`SameTillOpen`) select
it or not alike (`SameEligible`, `SameRatios`), the gates look at earlier rows only, and
every step leaves the history as it was in that sense (`HistoryStep`, `DaysStay`).

`LivePicksForCause` compares a frame that the service saw in the morning with the
history after the close. `AuditIsOfTheMorning` says that every line of the audit was
measured on the completed sessions and one of the views of today, and still would be
(`PastStays`). That frame and the last days of the closed history differ in
today's row only (`MorningFrame`), so that gap and premarket ratio are the same unless one of
the named causes applies (`SameMeasures`). The hypothesis of equal premarket
averages cannot be dropped: the service asks for forty calendar days, while a
replay has all of its history.

`WatchlistIsOneRanking` needs that the candidates are exactly what passed of the
latest scans (`CandidatesPassed`), each symbol once, as the universe is resolved to
distinct symbols (`ResolvedSymbols`), and that scores are comparable: their
denominators are positive (`SumIsPositive`), so that outscoring by multiplying out is
transitive (`RatiosAreOrdered`). `WrittenIsRanking` then has the list of one screen, and the
invariant keeps it while later screens write other lines of the audit.

### The days of the service

`LifecycleProofs`: every run property of `Lifecycle`, for any calendar, any
instants, and any number of trades, failed jobs, crashes and stages run by hand.
`DayIsStarted` and `UnwatchedForCause` hold whatever the schedule is. The chain
behind them is `MorningComesFirst`: on a day without research by hand there is no
list until the morning's job has screened the market, no cycle without a list,
and so whatever is under way was started under today's date with a book that
`rehydrate` had loaded. Two facts about that book are needed: it holds the newest
row of every symbol that has one (`HoldsNewest`; rows are numbered in the order
they are opened in, `Numbered`), and where a row of the book is closed and an older
one of its symbol comes to light, research by hand lies between the two.

The other three need `MorningIsEarly`. A morning that starts in mid session would
rebuild the book, look at the trades of the day, or fail and forget the rows just
opened. Without it, and with a generous `misfire_grace_time`, TLC finds
`GatePeeksForCause` violated. With it, `NothingBeforeMorning` says that the day has
neither opened nor closed anything when the job starts, and then

* `ForgottenForCause`: the engine forgets a row, or loads a newer one in its
  place, only after a morning that failed on a later day than the row's
  (`CarriedForCause` is what the flatten makes of it);
* `UnreportedForCause`: when the day's report is written, an open row of its date
  is in the book and warned of, as otherwise a failed morning of a later day would
  lie between the row's day and today.

### The label pipeline

`LabelPipelineProofs`: both run properties, for any universe, trades and arguments,
and any number of runs, crashes, outages and files left behind by them.

`NoLeakage` needs only the types and `ModelFits` (what was fitted is what the
label file held and the run's filters let through). The purge compares a row with
the earliest entry and the latest exit of the test block, so `EarliestIsFirst` and
`LatestIsLast` make it hold of every single row of the block; the order of the
rows, and with it which of them make up a block, does not matter.

`ModelForCause` follows a trade from the bars to the model, with an invariant at
each station of `LabelsInv`:

* `ServedInWindow`, `AllServed`, `NotYetServed`: what the cache or the provider
  gives a backtest is within the window and up to today, has everything but the
  slack, and only the batch's own symbols get it. `NotYetServed` needs the batches
  to be apart (`BatchesAreApart`), or a later batch could be credited with what an
  earlier one lacked;
* `RowsBelong`, `LabelsOfRuns`: a label of this run is one that it asked for, and a
  part holds labels of its own number only, whichever run wrote it;
* `PartsForCause`: a part that was exported is this run's alone and complete, or
  nothing could be expected of it, and then the older file may have stayed;
* `Stages`, `MergedParts`: the run trains when all of its batches are through, on
  the parts on disk. A part that it has no batch for has no symbols in this run
  (`NothingBeyond`).

### The signals

`RulesProofs`: every run property of `Signals`, for any bars, daily rows and
configurations, any length of session, and however often a bar goes on forming.

That the opening range is what it was when a signal was recorded is
`RangeIsComplete`, who signals on it is past it, together with `BarsStep`, a bar that
is not the last stays as it is. `LevelsProtectForCause` is then a matter of each new
signal (`EmittedProtects`).

`RetestTwiceForCause` is about a strategy that remembers nothing and must find its
own earlier signal in the bars. `RetestsHappened` keeps what can be found: the bar of
a recorded retest reached back to the level, after another had closed beyond it. It
reaches no less far back when it goes on forming, since its range only grows; its
close may move, which is the exception the property makes. A second retest would
have the first one's bar after the first break (`FirstBreak`) and within a tolerance
that is no narrower (`ToleranceGrows`), and so would not be one.

`GapMatchForCause` rests on where the daily frame ends (`FrameEnds`) and on the open
being inside the range, so that a breakout is always past it (`BreaksPastTheOpen`);
`NeverBothBets` on the survivors coming from one evaluation under one regime
(`NewSurvivors`).

## 6. What is only model-checked

* Liveness: `KillSwitchCompletes`, `GhostRowsAreClosed`. The prover does not
  reach fairness.

The inductive invariants are checked by TLC on the instances of the runs before
they are proved; they are not among the runs' properties, because each of them
implies one that is.

## 7. Plan

Done, in this order: the rules, the engine, live trading, the two jobs, the replay,
the days of the service, the label pipeline, the signals and the screening, each
with its runs and its proofs. Next:

1. Kelly's percentage from the history of trades, which the sizing rule takes as
   any number.

## 8. What is not modelled, and why

* Indicators, news sentiment, bootstrap statistics and the meta-label model are
  floating-point series or calls to external models, whose results enter the
  models as arbitrary values.
* `scripts/sweep_orb_rvol.py` and `scripts/sweep_screener_rvol.py` run the modelled
  replay over grids of settings and print tables; `scripts/sim_gate_status.py`
  counts closed trades and prints a verdict. They keep no state.
* `main.py --once trade`, one cycle in a process of its own next to the service; of
  the stages by hand `Lifecycle` has the research and the report.
* The backtest's second cache, of daily bars (`backtest.py:297`): it is loaded by the
  same code as the first, and decides which days are replayed, which
  `LabelPipeline` takes as any.
* Partial fills of legs and exits: `LiveExecution` fills them in one piece.
* The command line of `backtest.py`, the parsing of settings, charts, PDF layout,
  mail and logging.

Components not modelled, or modelled in part, are listed with their reason in
`PROJECT.json`.
