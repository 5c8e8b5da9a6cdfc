-------------------------- MODULE ExecutionEngine --------------------------
(***************************************************************************)
(* The execution engine on the paper broker: execution/execution_engine.py *)
(* with the position and daily-metrics tables it persists to, driven by    *)
(* the jobs of app.py.  One job runs at a time; the process may die        *)
(* between any two of its effects and come back from the database, and any *)
(* of MaxDbErrors commits may raise, which the job's try block turns into  *)
(* an early end of the job.                                                *)
(*                                                                         *)
(* A job is a sequence of steps.  A step ends where an effect becomes      *)
(* durable or where the next effect could fail, so memory (cash, open,     *)
(* halted) and database (rows, metrics) can be told apart in every state   *)
(* a crash may meet.                                                       *)
(*                                                                         *)
(* Operators named Fault... are seeded faults, as in RiskManager.          *)
(***************************************************************************)
EXTENDS RiskManager, VirtualBroker, Sequences, FiniteSets, Functions

CONSTANTS
    None,               \* no symbol, no ticket, no reason
    Symbols,            \* tickers
    Prices,             \* quotes the data feed may return
    Signals,            \* what the strategies may ask for
    StartingEquity,     \* risk.starting_equity
    MaxDbErrors,        \* bound: commits that raise, 0 for a sound database
    MaxDay,             \* bound: trading days
    MaxTrades,          \* bound: rows of the positions table
    MaxSignals          \* bound: signals of one cycle

\* A strategy's request.  score stands for confidence x reward/risk x
\* meta-probability, of which the engine uses the order only.
Price == Nat \ {0}
Signal == [symbol : Symbols, side : Side, price : Price \cup {NoLevel},
           atr : Nat, stopHint : Price \cup {NoLevel},
           targetHint : Price \cup {NoLevel}, score : Nat]

ASSUME EngineConfigAssumption ==
    /\ Symbols # {} /\ IsFiniteSet(Symbols)
    /\ None \notin Symbols \cup {"EOD", "KILL_SWITCH"}
    /\ Prices # {} /\ Prices \subseteq Price
    /\ Signals \subseteq Signal /\ IsFiniteSet(Signals)
    /\ StartingEquity \in Nat \ {0}
    /\ MaxDbErrors \in Nat
    /\ MaxDay \in Nat \ {0}
    /\ MaxTrades \in Nat
    /\ MaxSignals \in Nat

VARIABLES
    \* the world
    day,            \* the calendar day
    dbErrors,       \* commits that have raised so far
    \* the database
    rows,           \* positions table; the id of a row is its index
    metrics,        \* daily_metrics table, one row per day
    researched,     \* the last day with a watchlist
    \* the memory of the process
    pc,             \* where the running job is
    tradeDate,      \* engine.trade_date
    cash,           \* the virtual broker's balance
    open,           \* engine.open_positions, a dict keyed by symbol
    halted,         \* engine.halted
    \* the locals of the running job
    prices,         \* the cycle's price snapshot
    pending,        \* signals not yet looked at
    opened,         \* signals this cycle turned into positions
    todo,           \* symbols the loop has still to visit
    cur,            \* the symbol being visited
    closing,        \* why flatten_all runs: EOD or KILL_SWITCH
    ticket,         \* the filled entry whose row is not yet committed
    pnl,            \* the profit of the filled exit not yet committed
    closedAny       \* whether manage_positions has closed something

database == <<rows, metrics, researched>>
memory   == <<tradeDate, cash, open, halted>>
locals   == <<prices, pending, opened, todo, cur, closing, ticket, pnl,
              closedAny>>
world    == <<day, dbErrors>>
vars     == <<world, database, pc, memory, locals>>

PcStates == {"down", "idle", "signals", "record", "booked", "manage",
             "ratchet", "check", "exit", "flatten", "latch"}

NoPrices == [s \in {} |-> 0]
NoPositions == [s \in {} |-> 0]
NoMetric == [peak |-> 0, breached |-> FALSE, realized |-> 0, trades |-> 0,
             halted |-> FALSE, exists |-> FALSE]
NewMetric == [peak |-> StartingEquity, breached |-> FALSE, realized |-> 0, trades |-> 0,
              halted |-> FALSE, exists |-> TRUE]

-----------------------------------------------------------------------------
(* Reading the books.  Of a row's exit_reason, killed keeps whether it is   *)
(* KILL_SWITCH.                                                            *)

Ids == 1..Len(rows)

FaultOpenIds == Ids                     \* the status filter forgotten
OpenIds == {i \in Ids : rows[i].status = "OPEN"}
ClosedIds(date) == {i \in Ids : rows[i].status = "CLOSED" /\ rows[i].date = date}

RealizedOn(date) == SumFunction([i \in ClosedIds(date) |-> rows[i].pnl])

\* What a cycle may know of the market: quotes for some of the symbols.
Snapshots == UNION {[S -> Prices] : S \in SUBSET Symbols}

\* Where the engine thinks a held share trades: the snapshot, else its entry.
MarkOf(s, quotes) == IF s \in DOMAIN quotes THEN quotes[s] ELSE open[s].entry

EquityValue(quotes) ==
    cash + SumFunction([s \in DOMAIN open |->
                           Signed(open[s].side, open[s].qty, MarkOf(s, quotes))])

\* The day's metrics row after _recompute_daily: the peak and the worst
\* drawdown only grow, the trade statistics are counted afresh.  breached
\* stands for max_drawdown_pct having reached the limit.
FaultPeakEquity(m, equity) == Larger(StartingEquity, equity)
PeakEquity(m, equity) == Larger(m.peak, Larger(StartingEquity, equity))

FaultWorstDrawdown(m, equity) == IsDrawdownBreached(PeakEquity(m, equity), equity)
WorstDrawdown(m, equity) ==
    IF IsDrawdownBreached(PeakEquity(m, equity), equity) THEN TRUE ELSE m.breached

Recomputed(m, equity) ==
    IF ~m.exists THEN m
    ELSE [m EXCEPT
            !.peak = PeakEquity(m, equity),
            !.breached = WorstDrawdown(m, equity),
            !.realized = RealizedOn(tradeDate),
            !.trades = Cardinality(ClosedIds(tradeDate))]

RecomputeDaily(quotes) ==
    metrics' = [metrics EXCEPT ![tradeDate] = Recomputed(@, EquityValue(quotes))]

-----------------------------------------------------------------------------
(* Rebuilding memory from the database: start_day and rehydrate.           *)

\* The dict keeps the last row read for a symbol.
LatestOpen(s) ==
    CHOOSE i \in OpenIds :
        /\ rows[i].symbol = s
        /\ \A j \in OpenIds : rows[j].symbol = s => j <= i

\* The running peak is not persisted; the initial risk is.
PositionOf(i) ==
    LET r == rows[i]
    IN  [id |-> i, side |-> r.side, qty |-> r.qty, entry |-> r.entry,
         stop |-> r.stop, target |-> r.target, atr |-> r.atr,
         risk |-> IF r.risk > 0 THEN r.risk ELSE Distance(r.entry, r.stop),
         peak |-> r.entry]

RehydratedBook == [s \in {rows[i].symbol : i \in OpenIds} |-> PositionOf(LatestOpen(s))]

RehydratedCash(date) ==
    StartingEquity + RealizedOn(date)
      - SumFunction([i \in OpenIds |-> Signed(rows[i].side, rows[i].qty, rows[i].entry)])

GetOrCreate(date) ==
    metrics' = [metrics EXCEPT ![date] = IF @.exists THEN @ ELSE NewMetric]

FaultLatched(date) == FALSE             \* a restart lifts the halt
Latched(date) == metrics[date].halted

StartDay(date) ==
    /\ tradeDate' = date
    /\ GetOrCreate(date)
    /\ halted' = Latched(date)
    /\ open' = RehydratedBook
    /\ cash' = RehydratedCash(date)

NoJob ==
    /\ prices' = NoPrices
    /\ pending' = {}
    /\ opened' = {}
    /\ todo' = {}
    /\ cur' = None
    /\ closing' = None
    /\ ticket' = None
    /\ pnl' = 0
    /\ closedAny' = FALSE

EndJob == pc' = "idle" /\ NoJob

-----------------------------------------------------------------------------
(* The process and the calendar.                                           *)

Init ==
    /\ day = 1
    /\ dbErrors = 0
    /\ rows = <<>>
    /\ metrics = [d \in 1..MaxDay |-> NoMetric]
    /\ researched = 0
    /\ pc = "down"
    /\ tradeDate = 1
    /\ cash = StartingEquity
    /\ open = NoPositions
    /\ halted = FALSE
    /\ prices = NoPrices
    /\ pending = {}
    /\ opened = {}
    /\ todo = {}
    /\ cur = None
    /\ closing = None
    /\ ticket = None
    /\ pnl = 0
    /\ closedAny = FALSE

\* Application.on_start: the service boots, or systemd restarts it.
Boot ==
    /\ pc = "down"
    /\ StartDay(day)
    /\ EndJob
    /\ UNCHANGED <<world, rows, researched>>

\* The process dies, wherever it is; only the database survives.
Crash ==
    /\ pc # "down"
    /\ pc' = "down"
    /\ tradeDate' = 1
    /\ cash' = StartingEquity
    /\ open' = NoPositions
    /\ halted' = FALSE
    /\ NoJob
    /\ UNCHANGED <<world, database>>

\* A commit of the running job raises; the job's try block logs it and
\* ends the job.  Memory stays as the job left it, except that the latch
\* sets engine.halted before it writes the metrics row.  A refresh commits
\* the metrics row before the equity point, and either may be the one to fail.
Refreshing ==
    \/ pc = "booked"
    \/ pc = "manage" /\ todo = {} /\ closedAny
    \/ pc = "flatten" /\ todo = {}

DbError ==
    /\ dbErrors < MaxDbErrors
    /\ dbErrors' = dbErrors + 1
    /\ \/ pc \in {"record", "ratchet", "exit", "latch"} /\ UNCHANGED metrics
       \/ Refreshing /\ (UNCHANGED metrics \/ RecomputeDaily(prices))
       \/ /\ pc = "idle" /\ researched = day
          /\ \E quotes \in Snapshots : RecomputeDaily(quotes)
    /\ halted' = (halted \/ pc = "latch")
    /\ EndJob
    /\ UNCHANGED <<day, rows, researched, tradeDate, cash, open>>

\* Midnight.  No job is scheduled around it.
NextDay ==
    /\ pc \in {"down", "idle"}
    /\ day < MaxDay
    /\ day' = day + 1
    /\ UNCHANGED <<dbErrors, database, pc, memory, locals>>

\* Application.premarket_research: the day is started afresh, then the
\* screener writes the watchlist, or fails and leaves the day without one.
PremarketResearch ==
    /\ pc = "idle"
    /\ researched # day
    /\ StartDay(day)
    /\ researched' \in {researched, day}
    /\ UNCHANGED <<world, rows, pc, locals>>

\* start_day raises half way and the service runs on with what it has: the
\* new date only, or also the day's latch and an emptied or rebuilt book.
\* The screener, next in the same try block, is not reached.
PremarketError ==
    /\ dbErrors < MaxDbErrors
    /\ dbErrors' = dbErrors + 1
    /\ pc = "idle"
    /\ researched # day
    /\ tradeDate' = day
    /\ \/ UNCHANGED <<metrics, halted, open>>
       \/ /\ GetOrCreate(day)
          /\ halted' = Latched(day)
          /\ open' \in {NoPositions, RehydratedBook}
    /\ UNCHANGED <<day, rows, researched, pc, cash, locals>>

-----------------------------------------------------------------------------
(* Application.trading_cycle: the account guard.                           *)

\* check_kill_switch values the book, refreshes the metrics and then either
\* lets the cycle go on, ends it because the day is halted, or starts to
\* flatten.
BeginCycle(quotes, signals) ==
    /\ pc = "idle"
    /\ researched = day
    /\ RecomputeDaily(quotes)
    /\ LET equity   == EquityValue(quotes)
           breached == IsDrawdownBreached(PeakEquity(metrics'[tradeDate], equity), equity)
       IN  \/ /\ halted
              /\ UNCHANGED <<pc, locals>>
           \/ /\ ~halted /\ breached
              /\ pc' = "flatten"
              /\ prices' = quotes
              /\ closing' = "KILL_SWITCH"
              /\ todo' = DOMAIN open
              /\ UNCHANGED <<pending, opened, cur, ticket, pnl, closedAny>>
           \/ /\ ~halted /\ ~breached
              /\ pc' = "signals"
              /\ prices' = quotes
              /\ pending' = signals
              /\ UNCHANGED <<opened, todo, cur, closing, ticket, pnl, closedAny>>
    /\ UNCHANGED <<world, rows, researched, memory>>

\* end_of_day_flatten, as the 15:55 job calls it.
EndOfDayFlatten ==
    /\ pc = "idle"
    /\ pc' = "flatten"
    /\ closing' = "EOD"
    /\ todo' = DOMAIN open
    /\ UNCHANGED <<world, database, memory,
                   prices, pending, opened, cur, ticket, pnl, closedAny>>

-----------------------------------------------------------------------------
(* process_signals and _open_from_signal.                                  *)

\* The highest score first; the sort is stable, so ties keep an order that
\* depends on arrival, here any.
Best(s) == s \in pending /\ \A t \in pending : t.score <= s.score

EntryPrice(s) ==
    IF s.price # NoLevel THEN s.price
    ELSE IF s.symbol \in DOMAIN prices THEN prices[s.symbol] ELSE NoLevel

StopFor(s) == ResolveStop(s.side, EntryPrice(s), s.atr, s.stopHint)

TargetFor(s) ==
    IF Trailing THEN NoLevel
    ELSE IF s.targetHint # NoLevel THEN s.targetHint
    ELSE TakeProfit(s.side, EntryPrice(s), StopFor(s))

QtyFor(s) ==
    PositionSize(EquityValue(prices), EntryPrice(s), StopFor(s), cash, MaxRiskPct)

Tradable(s) ==
    /\ EntryPrice(s) # NoLevel
    /\ ValidStop(s.side, EntryPrice(s), StopFor(s))
    /\ QtyFor(s) > 0

\* One R: what the trade risks per share, measured from the fill.
FaultInitialRisk(fill, stop) == fill - stop     \* the abs() forgotten
InitialRisk(fill, stop) == Distance(fill, stop)

\* One position per symbol.
FaultHeld(s) == FALSE
Held(s) == s.symbol \in DOMAIN open

\* What manage_positions visits: the book as the entries have left it.
BookToVisit == DOMAIN open

\* Skipped: the symbol is held already, or the trade has no price, no valid
\* stop or no size.
SkipSignal(s) ==
    /\ pc = "signals"
    /\ Best(s)
    /\ \/ Held(s)
       \/ CanOpenNew(Cardinality(DOMAIN open)) /\ ~Tradable(s)
    /\ pending' = pending \ {s}
    /\ UNCHANGED <<world, database, pc, memory,
                   prices, opened, todo, cur, closing, ticket, pnl, closedAny>>

\* The book is full: this signal and all that rank lower are left.
BookFull(s) ==
    /\ pc = "signals"
    /\ Best(s)
    /\ ~Held(s)
    /\ ~CanOpenNew(Cardinality(DOMAIN open))
    /\ pc' = "manage"
    /\ todo' = BookToVisit
    /\ UNCHANGED <<world, database, memory,
                   prices, pending, opened, cur, closing, ticket, pnl, closedAny>>

\* The broker fills the entry: the cash is spent, nothing is recorded yet.
FillEntry(s) ==
    /\ pc = "signals"
    /\ ~halted
    /\ Best(s)
    /\ ~Held(s)
    /\ CanOpenNew(Cardinality(DOMAIN open))
    /\ Tradable(s)
    /\ LET fill == ApplySlippage(EntryPrice(s), s.side)
           qty  == QtyFor(s)
           stop == StopFor(s)
       IN  /\ cash' = FillMarket(cash, s.side, qty, fill)
           /\ ticket' = [symbol |-> s.symbol, side |-> s.side, qty |-> qty,
                         entry |-> fill, stop |-> stop, target |-> TargetFor(s),
                         atr |-> s.atr, risk |-> InitialRisk(fill, stop),
                         date |-> tradeDate, status |-> "OPEN", pnl |-> 0,
                         killed |-> FALSE]
    /\ pending' = pending \ {s}
    /\ opened' = opened \cup {s}
    /\ pc' = "record"
    /\ UNCHANGED <<world, database, tradeDate, open, halted,
                   prices, todo, cur, closing, pnl, closedAny>>

\* positions.open_position commits, and the dict entry follows.
RecordEntry ==
    /\ pc = "record"
    /\ rows' = Append(rows, ticket)
    /\ open' = [s \in DOMAIN open \cup {ticket.symbol} |->
                   IF s = ticket.symbol
                   THEN [id |-> Len(rows) + 1, side |-> ticket.side,
                         qty |-> ticket.qty, entry |-> ticket.entry,
                         stop |-> ticket.stop, target |-> ticket.target,
                         atr |-> ticket.atr, risk |-> ticket.risk,
                         peak |-> ticket.entry]
                   ELSE open[s]]
    /\ ticket' = None
    /\ pc' = "booked"
    /\ UNCHANGED <<world, metrics, researched, tradeDate, cash, halted,
                   prices, pending, opened, todo, cur, closing, pnl, closedAny>>

\* The _recompute_daily that ends _open_from_signal.
RefreshAfterEntry ==
    /\ pc = "booked"
    /\ RecomputeDaily(prices)
    /\ pc' = "signals"
    /\ UNCHANGED <<world, rows, researched, memory, locals>>

SignalsDone ==
    /\ pc = "signals"
    /\ pending = {}
    /\ pc' = "manage"
    /\ todo' = BookToVisit
    /\ UNCHANGED <<world, database, memory,
                   prices, pending, opened, cur, closing, ticket, pnl, closedAny>>

-----------------------------------------------------------------------------
(* manage_positions: trail, then test the stop and the target.             *)

Trailed(pos, price) ==
    LET peak == Tighter(pos.side, pos.peak, price)
    IN  [pos EXCEPT
            !.peak = peak,
            !.stop = UpdateTrailingStop(pos.side, pos.stop, peak,
                         TrailDistance(pos.atr, pos.entry, pos.stop), pos.entry, pos.risk)]

StopHit(pos, price) == Gain(pos.side, pos.stop, price) <= 0
TargetHit(pos, price) ==
    pos.target # NoLevel /\ Gain(pos.side, pos.target, price) >= 0
ExitDue(pos, price) == StopHit(pos, price) \/ TargetHit(pos, price)

\* No quote in the snapshot: the position is left alone.
SkipUnpriced(s) ==
    /\ pc = "manage"
    /\ s \in todo
    /\ s \notin DOMAIN prices
    /\ todo' = todo \ {s}
    /\ UNCHANGED <<world, database, pc, memory,
                   prices, pending, opened, cur, closing, ticket, pnl, closedAny>>

FaultStopMoved(old, new) == new.stop > old.stop     \* longs only
StopMoved(old, new) == new.stop # old.stop

\* Peak and stop move in memory; a moved stop is then written to the row.
TrailStop(s) ==
    /\ pc = "manage"
    /\ s \in todo
    /\ s \in DOMAIN prices
    /\ LET moved == Trailed(open[s], prices[s])
       IN  /\ open' = [open EXCEPT ![s] = moved]
           /\ pc' = IF StopMoved(open[s], moved) THEN "ratchet" ELSE "check"
    /\ cur' = s
    /\ todo' = todo \ {s}
    /\ UNCHANGED <<world, database, tradeDate, cash, halted,
                   prices, pending, opened, closing, ticket, pnl, closedAny>>

UpdateStops ==
    /\ pc = "ratchet"
    /\ rows' = [rows EXCEPT ![open[cur].id].stop = open[cur].stop]
    /\ pc' = "check"
    /\ UNCHANGED <<world, metrics, researched, memory, locals>>

KeepPosition ==
    /\ pc = "check"
    /\ ~ExitDue(open[cur], prices[cur])
    /\ cur' = None
    /\ pc' = "manage"
    /\ UNCHANGED <<world, database, memory,
                   prices, pending, opened, todo, closing, ticket, pnl, closedAny>>

\* _close_position up to the broker's fill: the cash moves, nothing is
\* recorded yet.
FillExit(pos, price) ==
    LET fill == ApplySlippage(price, Opposite(pos.side))
    IN  /\ cash' = FillMarket(cash, Opposite(pos.side), pos.qty, fill)
        /\ pnl' = Gain(pos.side, pos.entry, fill) * pos.qty - Commission

ExitPosition ==
    /\ pc = "check"
    /\ ExitDue(open[cur], prices[cur])
    /\ FillExit(open[cur], prices[cur])
    /\ pc' = "exit"
    /\ UNCHANGED <<world, database, tradeDate, open, halted,
                   prices, pending, opened, todo, cur, closing, ticket, closedAny>>

\* positions.close_position commits, and the dict entry goes.
FaultClosed(row) ==                     \* of the profit, its size
    [row EXCEPT !.status = "CLOSED", !.pnl = Distance(pnl, 0), !.killed = closing = "KILL_SWITCH"]
Closed(row) ==
    [row EXCEPT !.status = "CLOSED", !.pnl = pnl, !.killed = closing = "KILL_SWITCH"]

FaultRemainingBook == open              \* the pop forgotten
RemainingBook == [s \in DOMAIN open \ {cur} |-> open[s]]

RecordExit ==
    /\ pc = "exit"
    /\ rows' = [rows EXCEPT ![open[cur].id] = Closed(@)]
    /\ open' = RemainingBook
    /\ pnl' = 0
    /\ cur' = None
    /\ closedAny' = TRUE
    /\ pc' = IF closing = None THEN "manage" ELSE "flatten"
    /\ UNCHANGED <<world, metrics, researched, tradeDate, cash, halted,
                   prices, pending, opened, todo, closing, ticket>>

\* The cycle ends; the metrics are refreshed if it closed anything.
EndManage ==
    /\ pc = "manage"
    /\ todo = {}
    /\ IF closedAny THEN RecomputeDaily(prices) ELSE UNCHANGED metrics
    /\ EndJob
    /\ UNCHANGED <<world, rows, researched, memory>>

-----------------------------------------------------------------------------
(* flatten_all and the latch of the kill switch.                           *)

\* A symbol outside the snapshot is quoted on its own; failing that, the
\* entry price is taken.
ExitQuotes(s) == IF s \in DOMAIN prices THEN {prices[s]}
                 ELSE Prices \cup {open[s].entry}

FlattenPosition(s) ==
    /\ pc = "flatten"
    /\ s \in todo
    /\ \E price \in ExitQuotes(s) : FillExit(open[s], price)
    /\ cur' = s
    /\ todo' = todo \ {s}
    /\ pc' = "exit"
    /\ UNCHANGED <<world, database, tradeDate, open, halted,
                   prices, pending, opened, closing, ticket, closedAny>>

FlattenDone ==
    /\ pc = "flatten"
    /\ todo = {}
    /\ RecomputeDaily(prices)
    /\ \/ closing = "KILL_SWITCH" /\ pc' = "latch" /\ UNCHANGED locals
       \/ closing = "EOD" /\ EndJob
    /\ UNCHANGED <<world, rows, researched, memory>>

\* The day's metrics row, if it exists, carries the halt.
FaultLatchedMetrics == metrics
LatchedMetrics ==
    [metrics EXCEPT ![tradeDate].halted = @ \/ metrics[tradeDate].exists]

\* The flag in memory, then the one in the metrics row.
SetHalted ==
    /\ pc = "latch"
    /\ halted' = TRUE
    /\ metrics' = LatchedMetrics
    /\ EndJob
    /\ UNCHANGED <<world, rows, researched, tradeDate, cash, open>>

-----------------------------------------------------------------------------
Arrivals == {S \in SUBSET Signals : /\ Cardinality(S) <= MaxSignals
                                    /\ \/ Len(rows) + Cardinality(S) <= MaxTrades
                                       \/ ~CanOpenNew(Cardinality(DOMAIN open))}

TradingCycle ==
    \/ \E quotes \in Snapshots, signals \in Arrivals : BeginCycle(quotes, signals)
    \/ \E s \in Signals : SkipSignal(s) \/ BookFull(s) \/ FillEntry(s)
    \/ RecordEntry \/ RefreshAfterEntry \/ SignalsDone
    \/ \E s \in Symbols : SkipUnpriced(s) \/ TrailStop(s)
    \/ UpdateStops \/ KeepPosition \/ ExitPosition \/ RecordExit \/ EndManage

Flatten ==
    \/ EndOfDayFlatten
    \/ \E s \in Symbols : FlattenPosition(s)
    \/ FlattenDone
    \/ SetHalted

Next ==
    \/ Boot \/ Crash \/ DbError \/ NextDay
    \/ PremarketResearch \/ PremarketError
    \/ TradingCycle
    \/ Flatten

Spec == Init /\ [][Next]_vars

\* A job that has started goes on running: it is a loop of the process
\* with no wait in it.  Nothing is assumed of triggers, quotes or restarts.
JobStep == pc # "idle" /\ (TradingCycle \/ Flatten)

FairSpec == Spec /\ WF_vars(JobStep)

-----------------------------------------------------------------------------
(* Types.                                                                  *)

Row == [symbol : Symbols, side : Side, qty : Nat \ {0}, entry : Int, stop : Int,
        target : Int \cup {NoLevel}, atr : Nat, risk : Nat, date : 1..MaxDay,
        status : {"OPEN", "CLOSED"}, pnl : Int, killed : BOOLEAN]

Position == [id : Nat \ {0}, side : Side, qty : Nat \ {0}, entry : Int,
             stop : Int, target : Int \cup {NoLevel}, atr : Nat, risk : Nat,
             peak : Int]

Metric == [peak : Nat, breached : BOOLEAN, realized : Int, trades : Nat,
           halted : BOOLEAN, exists : BOOLEAN]

\* Every variable has its type.
TypeOK ==
    /\ day \in 1..MaxDay
    /\ dbErrors \in 0..MaxDbErrors
    /\ rows \in Seq(Row)
    /\ metrics \in [1..MaxDay -> Metric]
    /\ researched \in 0..MaxDay
    /\ pc \in PcStates
    /\ tradeDate \in 1..MaxDay
    /\ cash \in Int
    /\ DOMAIN open \subseteq Symbols
    /\ open \in [DOMAIN open -> Position]
    /\ halted \in BOOLEAN
    /\ DOMAIN prices \subseteq Symbols
    /\ prices \in [DOMAIN prices -> Prices]
    /\ pending \subseteq Signals
    /\ opened \subseteq Signals
    /\ todo \subseteq Symbols
    /\ cur \in Symbols \cup {None}
    /\ closing \in {None, "EOD", "KILL_SWITCH"}
    /\ ticket \in Row \cup {None}
    /\ pnl \in Int
    /\ closedAny \in BOOLEAN

-----------------------------------------------------------------------------
(* Safety.                                                                 *)

\* Every position in memory has its own open row, with the same trade in
\* it, at every point where the process may die or a commit may fail: what
\* the engine manages is what a restart would manage (open_positions
\* against the positions table).
MemoryBacked ==
    \A s \in DOMAIN open :
        LET p == open[s] IN
        /\ p.id \in OpenIds
        /\ rows[p.id].symbol = s
        /\ rows[p.id].side = p.side
        /\ rows[p.id].qty = p.qty
        /\ rows[p.id].entry = p.entry

\* No symbol has two open rows, across crashes, restarts and failed
\* commits: a second row would be invisible to the dict keyed by symbol and
\* never be exited.
OneRowPerSymbol ==
    \A i, j \in OpenIds : rows[i].symbol = rows[j].symbol => i = j

\* A running process forgets no open row either: its book is the open rows
\* and its stops are theirs, but for the one stop just being written.
NothingForgotten ==
    pc # "down" =>
        \A i \in OpenIds :
            LET s == rows[i].symbol IN
            /\ s \in DOMAIN open
            /\ open[s].id = i
            /\ open[s].stop = rows[i].stop \/ (pc = "ratchet" /\ cur = s)

\* A day latched as halted holds no position, whatever crashed or failed
\* between the first kill-switch exit and the latch.
HaltedIsFlat ==
    metrics[day].halted => OpenIds = {}

\* The latch has its reason on record: the day's own row shows a drawdown
\* at the limit.
HaltedForCause ==
    \A d \in 1..MaxDay : metrics[d].halted => metrics[d].breached

-----------------------------------------------------------------------------
(* What a step may never do.                                               *)

\* The persisted stop of an open position only moves in the holder's favour,
\* also across restarts, which forget the peak the stop was trailed from.
StopNeverLoosens ==
    [][\A i \in OpenIds :
          Gain(rows[i].side, rows[i].stop, rows'[i].stop) >= 0]_vars

\* A closed row is history: no later step rewrites it or reopens it.
ClosedRowsAreFinal ==
    [][\A i \in Ids : rows[i].status = "CLOSED" => rows'[i] = rows[i]]_vars

\* Within a day the persisted peak and worst drawdown never shrink and the
\* halt is never lifted, also across restarts.
GuardsOnlyTighten ==
    [][\A d \in 1..MaxDay :
          /\ metrics'[d].peak >= metrics[d].peak
          /\ metrics[d].breached => metrics'[d].breached
          /\ metrics[d].halted => metrics'[d].halted]_vars

\* After the kill switch has closed a position, the day sees no new entry,
\* even when the process dies before the halt is latched.
NoEntryAfterKill ==
    [][Len(rows') > Len(rows) =>
          ~\E i \in Ids : rows[i].killed /\ rows[i].date = day]_vars

\* What the virtual cash has beyond the cash a restart would rebuild from the
\* rows, less the fill that is not recorded yet.
InHand ==
    CASE pc = "record" -> -Signed(ticket.side, ticket.qty, ticket.entry)
      [] pc = "exit" -> pnl + Signed(open[cur].side, open[cur].qty, open[cur].entry)
      [] OTHER -> 0

Drift == IF pc = "down" THEN 0 ELSE cash - RehydratedCash(tradeDate) - InHand

\* Two things rehydrate counts differently from the fills: an entry's
\* commission, which no row holds, and the profit of a position carried from
\* an earlier day, which is booked to that day.
KnownDrift ==
    (IF pc # "record" /\ pc' = "record" THEN -Commission ELSE 0)
      + (IF pc = "exit" /\ pc' # "exit" /\ rows[open[cur].id].date # tradeDate
         THEN pnl ELSE 0)

\* Apart from these two the cash parts from the books only where a commit
\* raises after its fill, and stays apart by as much until the day is started
\* again: no other order of entries, exits, halts, failures and restarts makes
\* or loses a cent (_open_from_signal, _close_position, rehydrate).
CashDriftsForCause ==
    [][Drift' \in {Drift + KnownDrift, 0} \/ dbErrors' > dbErrors]_vars

\* Once the kill switch has started to flatten, it comes to an end, however many
\* positions there are, and then the day is halted unless the process has died or
\* a commit has raised (check_kill_switch).
KillSwitchCompletes ==
    /\ (closing = "KILL_SWITCH") ~> (closing # "KILL_SWITCH")
    /\ [][closing = "KILL_SWITCH" /\ closing' # "KILL_SWITCH" =>
             metrics'[day].halted \/ pc' = "down" \/ dbErrors' > dbErrors]_vars

-----------------------------------------------------------------------------
(* The inductive invariant behind HaltedIsFlat, OneRowPerSymbol,           *)
(* MemoryBacked and StopNeverLoosens.                                      *)

\* Steps of a trading cycle that can still lead to a new position.
CyclePcs == {"signals", "record", "booked", "manage", "ratchet", "check"}

\* The memory may be ahead of the row, when a commit of a stop failed, but
\* never behind it.
StopsAhead ==
    \A s \in DOMAIN open :
        Gain(open[s].side, rows[open[s].id].stop, open[s].stop) >= 0

\* Days come one after the other.
Calendar ==
    /\ researched <= day
    /\ tradeDate <= day
    /\ \A d \in 1..MaxDay : d > day => ~metrics[d].halted

\* On a day with a watchlist, a running process has started that very day:
\* its book has every open row, and it knows of a latched halt.  Without a
\* watchlist it may have lost both, but then no cycle runs.
Started ==
    pc # "down" /\ researched = day =>
        /\ tradeDate = day
        /\ metrics[day].halted => halted
        /\ \A i \in OpenIds : /\ rows[i].symbol \in DOMAIN open
                              /\ open[rows[i].symbol].id = i

\* A cycle past the account guard trades a day that is not halted.
Trading ==
    /\ pc \in CyclePcs \cup {"latch"} => researched = day
    /\ pc \in {"flatten", "exit"} /\ closing # "EOD" => researched = day
    /\ pc \in CyclePcs => ~halted
    /\ pc \in CyclePcs \cup {"idle"} => closing = None
    /\ pc = "exit" /\ closing = None => ~halted
    /\ pc = "latch" => closing = "KILL_SWITCH"
    /\ pc = "flatten" => closing # None

\* Where the loops are: what is still to be visited, and what is in hand.
Loops ==
    /\ pc = "down" => open = NoPositions
    /\ pc \in {"manage", "ratchet", "check", "exit", "flatten"} => todo \subseteq DOMAIN open
    /\ pc \in {"ratchet", "check", "exit"} => cur \in DOMAIN open \ todo
    /\ pc \in {"ratchet", "check"} => cur \in DOMAIN prices
    /\ pc = "flatten" => DOMAIN open = todo
    /\ pc = "exit" /\ closing # None => DOMAIN open = todo \cup {cur}
    /\ pc = "latch" => DOMAIN open = {}
    /\ pc = "record" => /\ ticket \in Row
                        /\ ticket.status = "OPEN"
                        /\ ticket.symbol \notin DOMAIN open

Inductive ==
    /\ TypeOK
    /\ OneRowPerSymbol
    /\ MemoryBacked
    /\ StopsAhead
    /\ Calendar
    /\ Started
    /\ Trading
    /\ Loops
    /\ HaltedIsFlat

-----------------------------------------------------------------------------
(* What HaltedForCause, GuardsOnlyTighten, NothingForgotten and            *)
(* ImplementsDesk need besides.                                            *)

\* A day without a metrics row has no guard to lose.
NoRowNoGuard == \A d \in 1..MaxDay : ~metrics[d].exists => metrics[d] = NoMetric

\* From the first exit of the kill switch to its latch, the drawdown that set
\* it off is on record, if the day has a row to hold it.
KillForCause ==
    /\ closing = "KILL_SWITCH" /\ pc \in {"flatten", "exit", "latch"}
    /\ metrics[tradeDate].exists
    => metrics[tradeDate].breached

\* A filled entry still has the slot it was filled for.
RoomForTicket == pc = "record" => CanOpenNew(Cardinality(DOMAIN open))

\* As long as no commit has failed, nothing is forgotten.
Remembered == dbErrors = 0 => NothingForgotten

Guarded ==
    /\ NoRowNoGuard
    /\ KillForCause
    /\ HaltedForCause
    /\ RoomForTicket
    /\ Remembered

-----------------------------------------------------------------------------
(* The engine implements the abstract desk.                                *)

BookOf(s) ==
    IF \E i \in OpenIds : rows[i].symbol = s
    THEN rows[CHOOSE i \in OpenIds : rows[i].symbol = s].side
    ELSE "flat"

Desk == INSTANCE TradingDesk WITH
            book <- [s \in Symbols |-> BookOf(s)],
            halted <- metrics[day].halted

\* Read through the database, every step of the engine, crashes included, is
\* a step of the desk or invisible.
ImplementsDesk == Desk!DeskSpec
=============================================================================
