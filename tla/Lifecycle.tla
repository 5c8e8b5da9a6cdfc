----------------------------- MODULE Lifecycle -----------------------------
(***************************************************************************)
(* The days of the service: scheduler.py triggers the jobs of app.py by    *)
(* the clock, config/market_calendar.py says when the market is open, the  *)
(* process may die and be restarted, its host may sleep, and the operator  *)
(* may run a stage by hand (main.py --once).  Of the engine only which     *)
(* positions are open is kept, and under which date they are booked.       *)
(*                                                                         *)
(* Time moves through a few instants of each day.  A job that is due may   *)
(* start at a later instant, as on a host that slept: late jobs are        *)
(* dropped after their misfire_grace_time.  The cycle spans several steps, *)
(* so that time passes and other jobs run while it does.                   *)
(*                                                                         *)
(* Operators named Fault... are seeded faults, as in RiskManager.          *)
(***************************************************************************)
EXTENDS Integers, FiniteSets, Functions

CONSTANTS
    Symbols,
    Instants,           \* minutes of the day at which something happens
    Weekdays,           \* days the cron triggers fire on
    Sessions,           \* trading day -> [open, close]
    Premarket,          \* schedule.premarket_research
    FlattenTime,        \* schedule.flatten_time
    ReportTime,         \* schedule.report_time
    Simulated,          \* the virtual broker fills at any time
    MaxDay,             \* bound: days
    MaxTrades,          \* bound: positions opened
    MaxFailures,        \* bound: jobs cut short by an exception
    MaxCrashes,         \* bound: crashes
    MaxByHand           \* bound: stages run by hand

Days == 1..MaxDay

ASSUME LifecycleAssumption ==
    /\ IsFiniteSet(Symbols)
    /\ Instants \subseteq 0..1439 /\ 0 \in Instants
    /\ Weekdays \subseteq Days
    /\ DOMAIN Sessions \subseteq Weekdays
    /\ \A d \in DOMAIN Sessions :
           /\ {Sessions[d].open, Sessions[d].close} \subseteq 0..1439
           /\ Sessions[d].open < Sessions[d].close
    /\ {Premarket, FlattenTime, ReportTime} \subseteq 1..1439
    /\ Simulated \in BOOLEAN
    /\ {MaxDay, MaxTrades, MaxFailures, MaxCrashes, MaxByHand} \subseteq Nat
    /\ MaxDay # 0

Jobs == {"premarket", "flatten", "report"}

At(j) == CASE j = "premarket" -> Premarket
           [] j = "flatten"   -> FlattenTime
           [] j = "report"    -> ReportTime

\* misfire_grace_time, in minutes; a generous one lets the morning's job run
\* in the middle of the session.
FaultGrace(j) == 600
Grace(j) == IF j = "flatten" THEN 5 ELSE 60

IsTradingDay(d) == d \in DOMAIN Sessions
IsMarketOpen(d, t) == IsTradingDay(d) /\ Sessions[d].open <= t /\ t <= Sessions[d].close

VARIABLES
    day, now,
    up,             \* the service runs
    due,            \* jobs that have been triggered and have not started
    tradeDate,      \* engine.trade_date, and so the date of new rows
    gateSaw,        \* the last day a trade that the gate has looked at closed
    screening,      \* premarket_research is screening the market
    cycle,          \* the symbols the running cycle prices, and whether it runs
    watchlist,      \* watchlist_repo.symbols_for_day(today)
    rows,           \* open rows
    memory,         \* engine.open_positions: at most one row of a symbol
    closed,         \* closed rows
    report,         \* date -> what its last report has listed
    \* bookkeeping
    booted,         \* day of the last start of the service
    flattened,      \* days on which a flatten has run to its end
    warned,         \* dates reported with a warning of open positions
    byHand,         \* stages run by hand, with the day
    badMornings,    \* days that start_day has failed on
    failures, crashes, hands

clock   == <<day, now>>
engine  == <<tradeDate, gateSaw>>
book    == <<rows, memory, closed>>
tables  == <<watchlist, book, report>>
history == <<booted, flattened, warned, byHand, badMornings>>
counts  == <<failures, crashes, hands>>
lifecycleVars ==
    <<clock, up, due, engine, screening, cycle, tables, history, counts>>

Idle == [on |-> FALSE, symbols |-> {}]

LifecycleInit ==
    /\ day = 1 /\ now = 0
    /\ up = FALSE /\ due = {}
    /\ tradeDate = 0 /\ gateSaw = 0
    /\ screening = FALSE /\ cycle = Idle
    /\ watchlist = {}
    /\ rows = {} /\ memory = {} /\ closed = {}
    /\ report = [d \in {} |-> {}]
    /\ booted = 0 /\ flattened = {} /\ warned = {} /\ byHand = {}
    /\ badMornings = {}
    /\ failures = 0 /\ crashes = 0 /\ hands = 0

-----------------------------------------------------------------------------
(* Time and the scheduler.                                                 *)

Later == {t \in Instants : t > now}

\* Triggers that fall into a step of the clock; a process that is down
\* forgets them (the job store is in memory).
Triggered(d, from, to) ==
    IF up /\ d \in Weekdays THEN {j \in Jobs : from < At(j) /\ At(j) <= to} ELSE {}

Tick ==
    /\ Later # {}
    /\ now' = CHOOSE t \in Later : \A u \in Later : t <= u
    /\ due' = due \cup Triggered(day, now, now')
    /\ UNCHANGED <<day, up, engine, screening, cycle, tables, history, counts>>

\* What is due before midnight is past its grace after it.  No job is taken
\* to last until midnight.
Midnight ==
    /\ Later = {} /\ day < MaxDay
    /\ ~screening /\ ~cycle.on
    /\ day' = day + 1 /\ now' = 0
    /\ due' = {} /\ watchlist' = {}
    /\ UNCHANGED <<up, engine, screening, cycle, book, report, history, counts>>

Starts(j) == up /\ j \in due /\ now <= At(j) + Grace(j) /\ due' = due \ {j}

\* A job is dropped when it is too late, or returns where there is no
\* session; the report asks for none.
Idles(j) == now > At(j) + Grace(j) \/ (j # "report" /\ ~IsTradingDay(day))

Skip(j) ==
    /\ up /\ j \in due
    /\ Idles(j)
    /\ due' = due \ {j}
    /\ UNCHANGED <<clock, up, engine, screening, cycle, tables, history, counts>>

-----------------------------------------------------------------------------
(* The process.                                                            *)

LastClosed == IF closed = {} THEN 0
              ELSE CHOOSE d \in {c.on : c \in closed} : \A c \in closed : c.on <= d

\* rehydrate: later rows of a symbol replace earlier ones.
Rehydrated == {r \in rows : \A q \in rows : q.symbol = r.symbol => q.id <= r.id}

\* start_day and the profit-factor gate, whose trades are the latest closed.
Boot ==
    /\ ~up
    /\ up' = TRUE
    /\ tradeDate' = day
    /\ memory' = Rehydrated
    /\ gateSaw' = LastClosed
    /\ booted' = day
    /\ UNCHANGED <<clock, due, screening, cycle, watchlist, rows, closed, report,
                   flattened, warned, byHand, badMornings, counts>>

Crash ==
    /\ up /\ crashes < MaxCrashes
    /\ crashes' = crashes + 1
    /\ up' = FALSE /\ due' = {} /\ screening' = FALSE /\ cycle' = Idle
    /\ tradeDate' = 0 /\ memory' = {} /\ gateSaw' = 0
    /\ UNCHANGED <<clock, watchlist, rows, closed, report, history, failures, hands>>

-----------------------------------------------------------------------------
(* premarket_research: the day is started, then the market is screened.    *)

Fails == failures < MaxFailures /\ failures' = failures + 1

\* The date left to the next restart.
FaultBeginDay == UNCHANGED tradeDate
BeginDay == tradeDate' = day

PremarketResearch ==
    /\ Starts("premarket") /\ IsTradingDay(day)
    /\ BeginDay
    /\ memory' = Rehydrated
    /\ gateSaw' = LastClosed
    /\ screening' = TRUE
    /\ UNCHANGED <<clock, up, cycle, watchlist, rows, closed, report, history, counts>>

\* start_day raises before, within or after rehydrate, which empties the
\* book before it reads the rows.
PremarketError ==
    /\ Starts("premarket") /\ IsTradingDay(day)
    /\ Fails
    /\ BeginDay
    /\ memory' \in {memory, {}, Rehydrated}
    /\ badMornings' = badMornings \cup {day}
    /\ UNCHANGED <<clock, up, gateSaw, screening, cycle, watchlist, rows, closed, report,
                   booted, flattened, warned, byHand, crashes, hands>>

\* run: the list of the day is replaced.
WriteWatchlist(S) ==
    /\ screening
    /\ watchlist' = S
    /\ screening' = FALSE
    /\ UNCHANGED <<clock, up, due, engine, cycle, book, report, history, counts>>

\* No provider, or the screening raises: the list stays as it was.
ResearchAborted ==
    /\ screening
    /\ Fails
    /\ screening' = FALSE
    /\ UNCHANGED <<clock, up, due, engine, cycle, tables, history, crashes, hands>>

-----------------------------------------------------------------------------
(* trading_cycle: the clock and the watchlist are read once, then the      *)
(* market is asked for snapshots, then the engine acts.                    *)

\* What could be opened.
FaultPriced == {s \in watchlist : \A r \in memory : r.symbol # s}
Priced == watchlist

BeginCycle ==
    /\ up /\ ~cycle.on
    /\ IsMarketOpen(day, now)
    /\ watchlist # {}
    /\ cycle' = [on |-> TRUE, symbols |-> Priced]
    /\ UNCHANGED <<clock, up, due, engine, screening, tables, history, counts>>

Held == {r.symbol : r \in memory}
Opened == Cardinality(rows) + Cardinality(closed)

OpenFromSignal(s) ==
    /\ cycle.on /\ s \in cycle.symbols \ Held
    /\ Opened < MaxTrades
    /\ LET row == [id |-> Opened + 1, symbol |-> s, date |-> tradeDate, day |-> day,
                   afterFlatten |-> day \in flattened,
                   afterReport |-> tradeDate \in DOMAIN report]
       IN  rows' = rows \cup {row} /\ memory' = memory \cup {row}
    /\ UNCHANGED <<clock, up, due, engine, screening, cycle, watchlist, closed, report,
                   history, counts>>

Close(R) ==
    /\ rows' = rows \ R /\ memory' = memory \ R
    /\ closed' = closed \cup {[trade |-> r, on |-> day] : r \in R}

\* manage_positions, or the kill switch: whatever is priced may be closed.
Manage(r) ==
    /\ cycle.on /\ r \in memory /\ r.symbol \in cycle.symbols
    /\ Close({r})
    /\ UNCHANGED <<clock, up, due, engine, screening, cycle, watchlist, report, history, counts>>

EndCycle ==
    /\ cycle.on
    /\ cycle' = Idle
    /\ UNCHANGED <<clock, up, due, engine, screening, tables, history, counts>>

-----------------------------------------------------------------------------
(* market_flatten and market_close.                                        *)

\* Only what today's watchlist prices.
FaultToFlatten == {r \in memory : r.symbol \in watchlist}
ToFlatten == memory

\* The venue is open, or is the virtual broker, which always is.
OrdersFill == Simulated \/ IsMarketOpen(day, now)

MarketFlatten ==
    /\ Starts("flatten") /\ IsTradingDay(day)
    /\ OrdersFill \/ ToFlatten = {}
    /\ Close(ToFlatten)
    /\ flattened' = flattened \cup {day}
    /\ UNCHANGED <<clock, up, engine, screening, cycle, watchlist, report,
                   booted, warned, byHand, badMornings, counts>>

\* A close raises: those before it are done.
FlattenError ==
    /\ Starts("flatten") /\ IsTradingDay(day)
    /\ ToFlatten # {}
    /\ IF OrdersFill
       THEN Fails /\ \E R \in SUBSET ToFlatten : R # ToFlatten /\ Close(R)
       ELSE UNCHANGED <<book, failures>>
    /\ UNCHANGED <<clock, up, engine, screening, cycle, watchlist, report, history,
                   crashes, hands>>

\* get_closed_for_day
ClosedForDay(d) == {c \in closed : c.trade.date = d}

With(f, d, v) == [x \in DOMAIN f \cup {d} |-> IF x = d THEN v ELSE f[x]]

\* Positions still open are warned of, and the report is made all the same.
FaultWarn == UNCHANGED warned
Warn == warned' = IF memory = {} THEN warned ELSE warned \cup {day}

MarketClose ==
    /\ Starts("report")
    /\ Warn
    /\ \/ report' = With(report, day, ClosedForDay(day)) /\ UNCHANGED counts
       \/ Fails /\ UNCHANGED <<report, crashes, hands>>
    /\ UNCHANGED <<clock, up, engine, screening, cycle, watchlist, book,
                   booted, flattened, byHand, badMornings>>

-----------------------------------------------------------------------------
(* main.py --once, next to a service that may be running.                  *)

ByHand == hands < MaxByHand /\ hands' = hands + 1

\* Its engine is another; what is left behind is the watchlist.
OnceResearch(S) ==
    /\ ByHand
    /\ IsTradingDay(day)
    /\ watchlist' = S
    /\ byHand' = byHand \cup {<<"research", day>>}
    /\ UNCHANGED <<clock, up, due, engine, screening, cycle, book, report,
                   booted, flattened, warned, badMornings, failures, crashes>>

\* Its engine has not started a day, knows of no position and warns of none.
OnceReport ==
    /\ ByHand
    /\ report' = With(report, day, ClosedForDay(day))
    /\ byHand' = byHand \cup {<<"report", day>>}
    /\ UNCHANGED <<clock, up, due, engine, screening, cycle, watchlist, book,
                   booted, flattened, warned, badMornings, failures, crashes>>

-----------------------------------------------------------------------------
LifecycleNext ==
    \/ Tick \/ Midnight \/ (\E j \in Jobs : Skip(j))
    \/ Boot \/ Crash
    \/ PremarketResearch \/ PremarketError
    \/ (\E S \in SUBSET Symbols : WriteWatchlist(S)) \/ ResearchAborted
    \/ BeginCycle \/ (\E s \in Symbols : OpenFromSignal(s))
    \/ (\E r \in memory : Manage(r)) \/ EndCycle
    \/ MarketFlatten \/ FlattenError \/ MarketClose
    \/ (\E S \in SUBSET Symbols : OnceResearch(S)) \/ OnceReport

LifecycleSpec == LifecycleInit /\ [][LifecycleNext]_lifecycleVars
-----------------------------------------------------------------------------
Row == [id : 1..MaxTrades, symbol : Symbols, date : Days, day : Days,
        afterFlatten : BOOLEAN, afterReport : BOOLEAN]

\* Every variable has its type, and a process that is down holds nothing.
LifecycleTypeOK ==
    /\ day \in Days /\ now \in Instants
    /\ up \in BOOLEAN /\ due \subseteq Jobs
    /\ tradeDate \in 0..day /\ gateSaw \in 0..day
    /\ cycle \in [on : BOOLEAN, symbols : SUBSET Symbols]
    /\ screening \in BOOLEAN /\ watchlist \subseteq Symbols
    /\ rows \subseteq Row /\ memory \subseteq rows
    /\ closed \subseteq [trade : Row, on : Days]
    /\ DOMAIN report \subseteq 1..day /\ \A d \in DOMAIN report : report[d] \subseteq closed
    /\ ~up => due = {} /\ memory = {} /\ ~cycle.on /\ ~screening

\* A row outlives a flatten of market_flatten that came to its end only if it
\* was opened behind its back, by a cycle of the minutes that are left or one
\* that had begun before, or if a morning that failed, or a second row of the
\* symbol, has made the engine forget it.
CarriedForCause ==
    \A r \in rows : \A d \in flattened :
        r.day <= d =>
            \/ r.day = d /\ r.afterFlatten
            \/ \E e \in badMornings : r.day < e /\ e <= d

\* The day's premarket job is what makes a day: unless research is run by
\* hand, what is opened is booked under its own day, and no symbol is opened a
\* second time, although a failed morning leaves the engine with an empty book.
\* A second row may show when a later day holds the symbol no more.
Researched(d) == <<"research", d>> \in byHand

DayIsStarted ==
    \A r \in rows :
        /\ r.date = r.day \/ Researched(r.day)
        /\ \A q \in rows : q.symbol = r.symbol /\ q.id < r.id =>
               \E d \in q.day..r.day : Researched(d)

\* A running cycle leaves an open position unwatched, so that its stop and
\* target are not looked at, only if it was carried into the day or the list
\* was rewritten by hand.
UnwatchedForCause ==
    cycle.on => \A r \in rows :
        r.symbol \in cycle.symbols \/ r.day < day \/ Researched(day)

\* The profit-factor gate counts trades of the day it gates only after a
\* restart on that day ("causal: no same-day peeking", strategy/pf_gate.py).
GatePeeksForCause == gateSaw = day => booted = day

\* A closed trade missing from the report of its date was open when that was
\* written, and warned of, or was opened later; or the report was written or
\* research was run by hand.
IncompleteIsWarned ==
    \A c \in closed :
        LET d == c.trade.date
        IN  d \in DOMAIN report /\ c \notin report[d] =>
                \/ d \in warned \/ c.trade.afterReport
                \/ <<"report", d>> \in byHand \/ Researched(c.trade.day)

-----------------------------------------------------------------------------
(* The inductive invariants behind these properties.                       *)

\* Rows are numbered in the order they were opened in, and closed once.
Numbered ==
    /\ IsFiniteSet(rows) /\ IsFiniteSet(closed)
    /\ \A r \in rows : r.id <= Opened
    /\ \A c \in closed : c.trade.id <= Opened /\ c.trade \notin rows
    /\ \A r, q \in rows : r.id = q.id => r = q

\* What is on record is not of the future, and a running process has a date.
DayShape ==
    /\ up => tradeDate # 0
    /\ "premarket" \in due => now >= Premarket
    /\ \A r \in rows : r.day <= day
    /\ \A c \in closed : c.on <= day
    /\ flattened \subseteq 1..day /\ badMornings \subseteq 1..day

\* The engine holds the newest row of a symbol, if any.
HoldsNewest ==
    \A q \in memory, r \in rows : r.symbol = q.symbol => r.id <= q.id

\* Until the premarket job has screened the market there is no list, and
\* without a list no cycle: on a day without research by hand, whatever is under
\* way began with a morning that did not fail.
Underway == screening \/ cycle.on \/ watchlist # {}

MorningComesFirst ==
    ~Researched(day) =>
        /\ "premarket" \in due \/ now < Premarket => ~Underway
        /\ screening => watchlist = {} /\ ~cycle.on
        /\ \A r \in rows : r.day = day => r.symbol \in watchlist
        /\ cycle.on => cycle.symbols = watchlist
        /\ up /\ Underway =>
               /\ tradeDate = day
               /\ \A r \in rows :
                      r.symbol \in Held \/ \E d \in r.day..day : Researched(d)

LifecycleShape == LifecycleTypeOK /\ Numbered /\ DayShape /\ HoldsNewest

\* The morning's job, late as it may be, is over when the market opens, and
\* the flatten is later than that (the defaults are 07:00 and 15:55).
MorningIsEarly ==
    /\ \A d \in DOMAIN Sessions : Premarket + Grace("premarket") < Sessions[d].open
    /\ Premarket + Grace("premarket") < FlattenTime

\* Nothing is opened or closed before the market is.
NothingBeforeMorning ==
    /\ cycle.on => now > Premarket + Grace("premarket")
    /\ "flatten" \in due => now >= FlattenTime
    /\ \A r \in rows : r.day = day => now > Premarket + Grace("premarket")
    /\ \A c \in closed : c.on = day => now > Premarket + Grace("premarket")

\* Only a failed morning makes the engine forget a row, and only a forgotten
\* row lets another of its symbol be opened.
BadMorningBy(r) == \E e \in badMornings : r.day < e /\ e <= day

ForgottenForCause ==
    /\ up => \A r \in rows \ memory : BadMorningBy(r)
    /\ \A r, q \in rows : r.symbol = q.symbol /\ r.id < q.id => BadMorningBy(r)

\* A row that its day's report could not list is known of.
UnreportedForCause ==
    \A r \in rows : r.date \in DOMAIN report =>
        \/ r.date \in warned \/ r.afterReport
        \/ <<"report", r.date>> \in byHand \/ Researched(r.day)
=============================================================================
