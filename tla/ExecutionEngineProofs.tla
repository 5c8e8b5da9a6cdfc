----------------------- MODULE ExecutionEngineProofs -----------------------
(***************************************************************************)
(* Theorems about the execution engine for every set of symbols, quotes    *)
(* and signals, every configuration and every bound.                       *)
(***************************************************************************)
EXTENDS ExecutionEngine, RiskManagerProofs, SequenceTheorems

-----------------------------------------------------------------------------
(* The operators the actions are built from.                               *)

\* The absent symbol and reason are neither a symbol nor a reason.
LEMMA NoneIsNoReason == None \notin {"EOD", "KILL_SWITCH"} /\ None \notin Symbols
  BY EngineConfigAssumption

\* A fill moves an integer balance by integers.
LEMMA FillTypes ==
    ASSUME NEW side \in Side, NEW ref \in Int, NEW qty \in Int, NEW balance \in Int
    PROVE  /\ ApplySlippage(ref, side) \in Int
           /\ Opposite(side) \in Side
           /\ FillMarket(balance, side, qty, ref) \in Int
  BY BrokerConfigAssumption
     DEF ApplySlippage, Side, FillMarket, Signed, Opposite

\* A row of the table overwritten in place leaves a table of the same length
\* in which nothing else has changed.
LEMMA ExceptRow ==
    ASSUME NEW R, NEW s \in Seq(R), NEW k \in 1..Len(s), NEW r \in R,
           NEW t, t = [s EXCEPT ![k] = r]
    PROVE  /\ t \in Seq(R) /\ Len(t) = Len(s)
           /\ t[k] = r
           /\ \A i \in 1..Len(s) : i # k => t[i] = s[i]
  BY ExceptSeq

\* The value of a holding is an integer.
LEMMA SignedIsInt ==
    ASSUME NEW side, NEW qty \in Int, NEW price \in Int
    PROVE  Signed(side, qty, price) \in Int
  BY DEF Signed

\* Tables and books are finite.
LEMMA FiniteBooks ==
    ASSUME TypeOK
    PROVE  /\ IsFiniteSet(OpenIds)
           /\ \A date : IsFiniteSet(ClosedIds(date))
           /\ IsFiniteSet(DOMAIN open)
  <1>1. IsFiniteSet(Ids)
    <2>1. Len(rows) \in Int
      BY DEF TypeOK
    <2> QED BY <2>1, FS_Interval DEF Ids
  <1>2. OpenIds \subseteq Ids /\ \A date : ClosedIds(date) \subseteq Ids
    BY DEF OpenIds, ClosedIds
  <1> QED BY <1>1, <1>2, FS_Subset, EngineConfigAssumption DEF TypeOK

\* The cycle's own prices are a snapshot.
LEMMA PricesAreSnapshot ==
    ASSUME TypeOK PROVE prices \in Snapshots
  BY DEF TypeOK, Snapshots

\* The day's realized profit is an integer.
LEMMA RealizedIsInt ==
    ASSUME TypeOK, NEW date
    PROVE  RealizedOn(date) \in Int
  <1> DEFINE f == [i \in ClosedIds(date) |-> rows[i].pnl]
  <1>1. \A i \in DOMAIN f : f[i] \in Int
    <2> TAKE i \in DOMAIN f
    <2>1. rows[i] \in Row
      BY DEF ClosedIds, Ids, TypeOK
    <2> QED BY <2>1 DEF Row
  <1>2. IsFiniteSet(DOMAIN f)
    BY FiniteBooks
  <1> HIDE DEF f
  <1>3. SumFunction(f) \in Int
    BY <1>1, <1>2, FunctionSumIsInt
  <1> QED BY <1>3 DEF RealizedOn, f

\* Equity is an integer whatever the snapshot prices.
LEMMA EquityIsInt ==
    ASSUME TypeOK, NEW quotes \in Snapshots
    PROVE  EquityValue(quotes) \in Int
  <1> DEFINE f == [s \in DOMAIN open |-> Signed(open[s].side, open[s].qty, MarkOf(s, quotes))]
  <1>1. \A s \in DOMAIN f : f[s] \in Int
    <2> TAKE s \in DOMAIN f
    <2>1. open[s].qty \in Int /\ open[s].entry \in Int
      BY DEF TypeOK, Position
    <2>2. \A p \in Prices : p \in Int
      BY EngineConfigAssumption DEF Price
    <2>3. MarkOf(s, quotes) \in Int
      BY <2>1, <2>2 DEF MarkOf, Snapshots
    <2> QED BY <2>1, <2>3, SignedIsInt
  <1>2. IsFiniteSet(DOMAIN f)
    BY FiniteBooks
  <1> HIDE DEF f
  <1>3. SumFunction(f) \in Int
    BY <1>1, <1>2, FunctionSumIsInt
  <1> QED BY <1>3 DEF EquityValue, TypeOK, f

\* A refreshed metrics row is a metrics row.
LEMMA RecomputedIsMetric ==
    ASSUME TypeOK, NEW m \in Metric, NEW equity \in Int
    PROVE  /\ Recomputed(m, equity) \in Metric
           /\ Recomputed(m, equity).halted = m.halted
  <1>1. PeakEquity(m, equity) \in Nat
    BY EngineConfigAssumption DEF PeakEquity, Larger, Metric
  <1>2. WorstDrawdown(m, equity) \in BOOLEAN
    BY DEF WorstDrawdown, Metric
  <1>3. RealizedOn(tradeDate) \in Int
    BY RealizedIsInt
  <1>4. Cardinality(ClosedIds(tradeDate)) \in Nat
    BY FiniteBooks, FS_CardinalityType
  <1> QED BY <1>1, <1>2, <1>3, <1>4 DEF Recomputed, Metric

-----------------------------------------------------------------------------
(* Steps that leave the book alone: nothing of rows, open and the calendar *)
(* changes, and no halt is lifted or latched.                              *)

Bookless ==
    /\ UNCHANGED <<day, rows, researched, open, tradeDate>>
    /\ halted => halted'
    /\ \A d \in 1..MaxDay : metrics'[d].halted = metrics[d].halted
    /\ pc # "down"

\* A step that leaves the tables' open rows and the book alone keeps every part of
\* the invariant that is about them.
LEMMA BooklessStep ==
    ASSUME Inductive, Bookless
    PROVE  /\ OneRowPerSymbol' /\ MemoryBacked' /\ StopsAhead'
           /\ Calendar' /\ Started' /\ HaltedIsFlat'
  <1>1. OpenIds' = OpenIds
    BY DEF Bookless, OpenIds, Ids
  <1>2. OneRowPerSymbol' /\ MemoryBacked' /\ StopsAhead'
    BY <1>1 DEF Bookless, Inductive, OneRowPerSymbol, MemoryBacked, StopsAhead
  <1>3. Calendar' /\ HaltedIsFlat'
    BY <1>1 DEF Bookless, Inductive, Calendar, HaltedIsFlat, TypeOK
  <1>4. Started'
    BY <1>1 DEF Bookless, Inductive, Started, TypeOK
  <1> QED BY <1>2, <1>3, <1>4

\* _recompute_daily changes neither the latch of a day nor the type of its row.
LEMMA RecomputeDailyStep ==
    ASSUME TypeOK, NEW quotes \in Snapshots, RecomputeDaily(quotes)
    PROVE  /\ metrics' \in [1..MaxDay -> Metric]
           /\ \A d \in 1..MaxDay : metrics'[d].halted = metrics[d].halted
  <1>1. EquityValue(quotes) \in Int
    BY EquityIsInt
  <1>2. metrics[tradeDate] \in Metric
    BY DEF TypeOK
  <1> QED BY <1>1, <1>2, RecomputedIsMetric DEF RecomputeDaily, TypeOK

\* check_kill_switch keeps the invariant, whichever way it decides.
LEMMA BeginCycleStep ==
    ASSUME Inductive, NEW quotes \in Snapshots, NEW signals \in Arrivals,
           BeginCycle(quotes, signals)
    PROVE  Inductive'
  <1>1. /\ metrics' \in [1..MaxDay -> Metric]
        /\ \A d \in 1..MaxDay : metrics'[d].halted = metrics[d].halted
    BY RecomputeDailyStep DEF BeginCycle, Inductive
  <1>2. Bookless
    BY <1>1 DEF BeginCycle, Bookless, memory, world
  <1>3. /\ DOMAIN quotes \subseteq Symbols
        /\ quotes \in [DOMAIN quotes -> Prices]
        /\ signals \subseteq Signals
    BY DEF Snapshots, Arrivals
  <1>4. TypeOK'
    BY <1>1, <1>3 DEF BeginCycle, Inductive, TypeOK, memory, world, locals, PcStates
  <1>5. Trading'
    BY NoneIsNoReason DEF BeginCycle, Inductive, Trading, memory, world, locals, CyclePcs
  <1>6. Loops'
    BY DEF BeginCycle, Inductive, Loops, memory, world, locals
  <1> QED BY <1>2, <1>4, <1>5, <1>6, BooklessStep DEF Inductive

\* The start of the 15:55 job keeps the invariant.
LEMMA EndOfDayFlattenStep ==
    ASSUME Inductive, EndOfDayFlatten PROVE Inductive'
  <1>1. Bookless
    BY DEF EndOfDayFlatten, Bookless, memory, database, world, TypeOK, Inductive
  <1>2. TypeOK'
    BY DEF EndOfDayFlatten, Inductive, TypeOK, memory, database, world, PcStates
  <1>3. Trading' /\ Loops'
    BY NoneIsNoReason
       DEF EndOfDayFlatten, Inductive, Trading, Loops, memory, database, world, CyclePcs
  <1> QED BY <1>1, <1>2, <1>3, BooklessStep DEF Inductive

\* Skipping a signal keeps the invariant.
LEMMA SkipSignalStep ==
    ASSUME Inductive, NEW s \in Signals, SkipSignal(s) PROVE Inductive'
  <1>1. Bookless
    BY DEF SkipSignal, Bookless, memory, database, world
  <1>2. TypeOK'
    BY DEF SkipSignal, Inductive, TypeOK, memory, database, world
  <1>3. Trading' /\ Loops'
    BY DEF SkipSignal, Inductive, Trading, Loops, memory, database, world, CyclePcs
  <1> QED BY <1>1, <1>2, <1>3, BooklessStep DEF Inductive

\* Leaving the signal loop with a full book keeps the invariant.
LEMMA BookFullStep ==
    ASSUME Inductive, NEW s \in Signals, BookFull(s) PROVE Inductive'
  <1>1. Bookless
    BY DEF BookFull, Bookless, memory, database, world
  <1>2. TypeOK'
    BY DEF BookFull, BookToVisit, Inductive, TypeOK, memory, database, world, PcStates
  <1>3. Trading' /\ Loops'
    BY DEF BookFull, BookToVisit, Inductive, Trading, Loops, memory, database, world, CyclePcs
  <1> QED BY <1>1, <1>2, <1>3, BooklessStep DEF Inductive

\* Leaving the signal loop at its end keeps the invariant.
LEMMA SignalsDoneStep ==
    ASSUME Inductive, SignalsDone PROVE Inductive'
  <1>1. Bookless
    BY DEF SignalsDone, Bookless, memory, database, world
  <1>2. TypeOK'
    BY DEF SignalsDone, BookToVisit, Inductive, TypeOK, memory, database, world, PcStates
  <1>3. Trading' /\ Loops'
    BY DEF SignalsDone, BookToVisit, Inductive, Trading, Loops, memory, database, world, CyclePcs
  <1> QED BY <1>1, <1>2, <1>3, BooklessStep DEF Inductive

\* What a tradable signal is filled with: a price, a stop, a target, a size.
LEMMA EntryTypes ==
    ASSUME TypeOK, NEW s \in Signals, Tradable(s)
    PROVE  /\ s.symbol \in Symbols /\ s.side \in Side /\ s.atr \in Nat
           /\ EntryPrice(s) \in Int
           /\ StopFor(s) \in Int
           /\ TargetFor(s) \in Int \cup {NoLevel}
           /\ QtyFor(s) \in Nat \ {0}
  <1>1. s \in Signal
    BY EngineConfigAssumption
  <1>2. s.symbol \in Symbols /\ s.side \in Side /\ s.atr \in Nat
    BY <1>1 DEF Signal
  <1>3. EntryPrice(s) \in Int
    BY <1>1, EngineConfigAssumption DEF Tradable, EntryPrice, Signal, Price, TypeOK
  <1>4. StopFor(s) \in Int
    <2>1. s.stopHint \in Int \cup {NoLevel}
      BY <1>1 DEF Signal, Price
    <2>2. s.atr \in Int
      BY <1>2
    <2>3. ResolveStop(s.side, EntryPrice(s), s.atr, s.stopHint) \in Int
      BY <2>1, <2>2, <1>2, <1>3, ResolveStopIsPrice
    <2> QED BY <2>3 DEF StopFor
  <1>5. TargetFor(s) \in Int \cup {NoLevel}
    <2>1. s.targetHint \in Int \cup {NoLevel}
      BY <1>1 DEF Signal, Price
    <2>2. TakeProfit(s.side, EntryPrice(s), StopFor(s)) \in Int
      BY <1>2, <1>3, <1>4, RiskConfigAssumption DEF TakeProfit, Behind, Distance
    <2> QED BY <2>1, <2>2 DEF TargetFor
  <1>6. QtyFor(s) \in Nat \ {0}
    <2>1. EquityValue(prices) \in Int
      BY EquityIsInt, PricesAreSnapshot
    <2>2. MaxRiskPct \in Int
      BY RiskConfigAssumption
    <2>3. cash \in Int
      BY DEF TypeOK
    <2>4. QtyFor(s) \in Nat
      BY <2>1, <2>2, <2>3, <1>3, <1>4, PositionSizeWithinCaps DEF QtyFor
    <2> QED BY <2>4 DEF Tradable
  <1> QED BY <1>2, <1>3, <1>4, <1>5, <1>6

\* An entry fill keeps the invariant: its ticket is for a symbol not held.
LEMMA FillEntryStep ==
    ASSUME Inductive, NEW s \in Signals, FillEntry(s) PROVE Inductive'
  <1>1. Bookless
    BY DEF FillEntry, Bookless, database, world
  <1> DEFINE fill == ApplySlippage(EntryPrice(s), s.side)
  <1>2. TypeOK /\ Tradable(s)
    BY DEF FillEntry, Inductive
  <1>3. fill \in Int /\ InitialRisk(fill, StopFor(s)) \in Nat
    <2>1. EntryPrice(s) \in Int /\ StopFor(s) \in Int /\ s.side \in Side
      BY <1>2, EntryTypes
    <2>2. fill \in Int
      BY <2>1, <1>2, FillTypes DEF TypeOK
    <2> QED BY <2>1, <2>2 DEF InitialRisk, Distance
  <1>4. ticket' \in Row /\ ticket'.status = "OPEN" /\ ticket'.symbol = s.symbol
    BY <1>2, <1>3, EntryTypes DEF FillEntry, Row, TypeOK
  <1>5. cash' \in Int
    <2>1. fill \in Int /\ QtyFor(s) \in Int /\ s.side \in Side /\ cash \in Int
      BY <1>2, <1>3, EntryTypes DEF TypeOK
    <2>2. cash' = FillMarket(cash, s.side, QtyFor(s), fill)
      BY DEF FillEntry
    <2> QED BY <2>1, <2>2, FillTypes
  <1>6. TypeOK'
    BY <1>2, <1>4, <1>5 DEF FillEntry, TypeOK, database, world, PcStates
  <1>7. Trading' /\ Loops'
    BY <1>4 DEF FillEntry, Held, Inductive, Trading, Loops, database, world, CyclePcs
  <1> QED BY <1>1, <1>6, <1>7, BooklessStep DEF Inductive

\* The refresh after an entry keeps the invariant.
LEMMA RefreshAfterEntryStep ==
    ASSUME Inductive, RefreshAfterEntry PROVE Inductive'
  <1>1. /\ metrics' \in [1..MaxDay -> Metric]
        /\ \A d \in 1..MaxDay : metrics'[d].halted = metrics[d].halted
    BY RecomputeDailyStep, PricesAreSnapshot DEF RefreshAfterEntry, Inductive
  <1>2. Bookless
    BY <1>1 DEF RefreshAfterEntry, Bookless, memory, world
  <1>3. TypeOK'
    BY <1>1 DEF RefreshAfterEntry, Inductive, TypeOK, memory, world, locals, PcStates
  <1>4. Trading' /\ Loops'
    BY DEF RefreshAfterEntry, Inductive, Trading, Loops, memory, world, locals, CyclePcs
  <1> QED BY <1>2, <1>3, <1>4, BooklessStep DEF Inductive

\* Leaving an unpriced position alone keeps the invariant.
LEMMA SkipUnpricedStep ==
    ASSUME Inductive, NEW s \in Symbols, SkipUnpriced(s) PROVE Inductive'
  <1>1. Bookless
    BY DEF SkipUnpriced, Bookless, memory, database, world
  <1>2. TypeOK'
    BY DEF SkipUnpriced, Inductive, TypeOK, memory, database, world
  <1>3. Trading' /\ Loops'
    BY DEF SkipUnpriced, Inductive, Trading, Loops, memory, database, world, CyclePcs
  <1> QED BY <1>1, <1>2, <1>3, BooklessStep DEF Inductive

\* Finding no reason to exit keeps the invariant.
LEMMA KeepPositionStep ==
    ASSUME Inductive, KeepPosition PROVE Inductive'
  <1>1. Bookless
    BY DEF KeepPosition, Bookless, memory, database, world
  <1>2. TypeOK'
    BY DEF KeepPosition, Inductive, TypeOK, memory, database, world, PcStates
  <1>3. Trading' /\ Loops'
    BY DEF KeepPosition, Inductive, Trading, Loops, memory, database, world, CyclePcs
  <1> QED BY <1>1, <1>2, <1>3, BooklessStep DEF Inductive

\* An exit fill leaves an integer balance and an integer profit.
LEMMA FillExitTypes ==
    ASSUME TypeOK, NEW s \in DOMAIN open, NEW price \in Int, FillExit(open[s], price)
    PROVE  cash' \in Int /\ pnl' \in Int
  <1> DEFINE pos == open[s]
             fill == ApplySlippage(price, Opposite(pos.side))
  <1>1. pos \in Position /\ cash \in Int
    BY DEF TypeOK
  <1>2. pos.side \in Side /\ pos.qty \in Int /\ pos.entry \in Int
    BY <1>1 DEF Position
  <1>3. Opposite(pos.side) \in Side
    BY <1>2 DEF Opposite, Side
  <1>4. fill \in Int
    BY <1>1, <1>2, <1>3, FillTypes
  <1>5. FillMarket(cash, Opposite(pos.side), pos.qty, fill) \in Int
    BY <1>1, <1>2, <1>3, <1>4, FillTypes
  <1>6. Gain(pos.side, pos.entry, fill) \in Int
    BY <1>2, <1>4 DEF Gain
  <1>7. Gain(pos.side, pos.entry, fill) * pos.qty - Commission \in Int
    BY <1>2, <1>6, BrokerConfigAssumption
  <1> QED BY <1>5, <1>7 DEF FillExit

\* A quote of the snapshot is a positive integer.
LEMMA PricesAreInt ==
    ASSUME TypeOK, NEW s \in DOMAIN prices
    PROVE  prices[s] \in Int
  BY EngineConfigAssumption DEF TypeOK, Price

\* A quote to flatten at is an integer.
LEMMA ExitQuotesAreInt ==
    ASSUME TypeOK, NEW s \in DOMAIN open, NEW price \in ExitQuotes(s)
    PROVE  price \in Int
  <1>1. open[s].entry \in Int
    BY DEF TypeOK, Position
  <1>2. \A x \in Prices : x \in Int
    BY EngineConfigAssumption DEF Price
  <1>3. CASE s \in DOMAIN prices
    BY <1>3, PricesAreInt DEF ExitQuotes
  <1>4. CASE s \notin DOMAIN prices
    BY <1>1, <1>2, <1>4 DEF ExitQuotes
  <1> QED BY <1>3, <1>4

\* An exit fill of manage_positions keeps the invariant.
LEMMA ExitPositionStep ==
    ASSUME Inductive, ExitPosition PROVE Inductive'
  <1>1. Bookless
    BY DEF ExitPosition, Bookless, database, world
  <1>2. cash' \in Int /\ pnl' \in Int
    <2>1. cur \in DOMAIN open /\ cur \in DOMAIN prices /\ TypeOK
      BY DEF ExitPosition, Inductive, Loops
    <2>2. prices[cur] \in Int
      BY <2>1, PricesAreInt
    <2>3. FillExit(open[cur], prices[cur])
      BY DEF ExitPosition
    <2> QED BY <2>1, <2>2, <2>3, FillExitTypes
  <1>3. TypeOK'
    BY <1>2 DEF ExitPosition, Inductive, TypeOK, database, world, PcStates
  <1>4. Trading' /\ Loops'
    BY DEF ExitPosition, Inductive, Trading, Loops, database, world, CyclePcs
  <1> QED BY <1>1, <1>3, <1>4, BooklessStep DEF Inductive

\* A job that has ended leaves no local behind.
LEMMA NoJobTypes ==
    ASSUME NoJob
    PROVE  /\ DOMAIN prices' \subseteq Symbols
           /\ prices' \in [DOMAIN prices' -> Prices]
           /\ pending' \subseteq Signals /\ opened' \subseteq Signals
           /\ todo' \subseteq Symbols
           /\ cur' \in Symbols \cup {None}
           /\ closing' \in {None, "EOD", "KILL_SWITCH"} /\ closing' = None
           /\ ticket' \in Row \cup {None}
           /\ pnl' \in Int /\ closedAny' \in BOOLEAN
  <1>1. prices' = [s \in {} |-> 0]
    BY DEF NoJob, NoPrices
  <1>2. DOMAIN prices' = {}
    BY <1>1
  <1>3. prices' \in [{} -> Prices]
    BY <1>1
  <1>4. DOMAIN prices' \subseteq Symbols
    BY <1>2
  <1>5. prices' \in [DOMAIN prices' -> Prices]
    BY <1>2, <1>3
  <1>6. /\ pending' \subseteq Signals /\ opened' \subseteq Signals
        /\ todo' \subseteq Symbols
        /\ cur' = None /\ closing' = None /\ ticket' = None
    BY Zenon DEF NoJob
  <1>7. pnl' = 0
    BY Zenon DEF NoJob
  <1>8. closedAny' \in BOOLEAN
    BY Zenon DEF NoJob
  <1>9. pending' \subseteq Signals /\ opened' \subseteq Signals /\ todo' \subseteq Symbols
    BY Zenon, <1>6
  <1>10. cur' \in Symbols \cup {None} /\ ticket' \in Row \cup {None}
    BY Zenon, <1>6
  <1>11. pnl' \in Int
    BY <1>7
  <1> QED BY Zenon, <1>4, <1>5, <1>6, <1>8, <1>9, <1>10, <1>11

\* The end of a cycle keeps the invariant.
LEMMA EndManageStep ==
    ASSUME Inductive, EndManage PROVE Inductive'
  <1>1. /\ metrics' \in [1..MaxDay -> Metric]
        /\ \A d \in 1..MaxDay : metrics'[d].halted = metrics[d].halted
    <2>1. CASE closedAny
      BY <2>1, RecomputeDailyStep, PricesAreSnapshot DEF EndManage, Inductive
    <2>2. CASE ~closedAny
      BY <2>2 DEF EndManage, Inductive, TypeOK
    <2> QED BY <2>1, <2>2
  <1>2. Bookless
    BY <1>1 DEF EndManage, Bookless, memory, world
  <1>3. TypeOK'
    BY <1>1, NoJobTypes DEF EndManage, EndJob, Inductive, TypeOK, memory, world, PcStates
  <1>4. Trading' /\ Loops'
    BY DEF EndManage, EndJob, NoJob, Inductive, Trading, Loops, memory, world, CyclePcs
  <1> QED BY <1>2, <1>3, <1>4, BooklessStep DEF Inductive

\* An exit fill of flatten_all keeps the invariant.
LEMMA FlattenPositionStep ==
    ASSUME Inductive, NEW s \in Symbols, FlattenPosition(s) PROVE Inductive'
  <1>1. Bookless
    BY DEF FlattenPosition, Bookless, database, world
  <1>2. s \in DOMAIN open
    BY DEF FlattenPosition, Inductive, Loops
  <1>3. cash' \in Int /\ pnl' \in Int
    <2>1. PICK price \in ExitQuotes(s) : FillExit(open[s], price)
      BY DEF FlattenPosition
    <2>2. price \in Int
      BY <1>2, <2>1, ExitQuotesAreInt DEF Inductive
    <2> QED BY <1>2, <2>1, <2>2, FillExitTypes DEF Inductive
  <1>4. TypeOK'
    BY <1>3 DEF FlattenPosition, Inductive, TypeOK, database, world, PcStates
  <1>5. Trading' /\ Loops'
    BY <1>2 DEF FlattenPosition, Inductive, Trading, Loops, database, world, CyclePcs
  <1> QED BY <1>1, <1>4, <1>5, BooklessStep DEF Inductive

\* The end of the flatten loop keeps the invariant: nothing is left open.
LEMMA FlattenDoneStep ==
    ASSUME Inductive, FlattenDone PROVE Inductive'
  <1>1. /\ metrics' \in [1..MaxDay -> Metric]
        /\ \A d \in 1..MaxDay : metrics'[d].halted = metrics[d].halted
    BY RecomputeDailyStep, PricesAreSnapshot DEF FlattenDone, Inductive
  <1>2. Bookless
    BY <1>1 DEF FlattenDone, Bookless, memory, world
  <1>3. TypeOK'
    <2>1. CASE closing = "EOD" /\ EndJob
      BY <1>1, <2>1, NoJobTypes DEF FlattenDone, EndJob, Inductive, TypeOK,
                                    memory, world, PcStates
    <2>2. CASE pc' = "latch" /\ UNCHANGED locals
      BY <1>1, <2>2 DEF FlattenDone, Inductive, TypeOK, memory, world, locals, PcStates
    <2> QED BY <2>1, <2>2 DEF FlattenDone
  <1>4. Trading' /\ Loops'
    BY DEF FlattenDone, EndJob, NoJob, Inductive, Trading, Loops,
           memory, world, locals, CyclePcs
  <1> QED BY <1>2, <1>3, <1>4, BooklessStep DEF Inductive

-----------------------------------------------------------------------------
(* Steps that write to the book.                                           *)

\* Recording an entry keeps the invariant: the new row is the only open one of its
\* symbol.
LEMMA RecordEntryStep ==
    ASSUME Inductive, RecordEntry PROVE Inductive'
  <1> DEFINE n == Len(rows) + 1
             sym == ticket.symbol
  <1>1. /\ TypeOK /\ ticket \in Row /\ ticket.status = "OPEN"
        /\ sym \notin DOMAIN open /\ sym \in Symbols
        /\ pc = "record"
    BY DEF Inductive, Loops, RecordEntry, Row
  <1>2. /\ rows' = Append(rows, ticket) /\ rows' \in Seq(Row)
        /\ Len(rows) \in Nat /\ Len(rows') = n
        /\ rows'[n] = ticket
        /\ \A i \in 1..Len(rows) : rows'[i] = rows[i]
    BY <1>1 DEF RecordEntry, TypeOK
  <1>3. OpenIds' = OpenIds \cup {n} /\ n \notin OpenIds
    BY <1>1, <1>2 DEF OpenIds, Ids
  <1>4. /\ DOMAIN open' = DOMAIN open \cup {sym}
        /\ open'[sym].id = n /\ open'[sym].side = ticket.side
        /\ open'[sym].qty = ticket.qty /\ open'[sym].entry = ticket.entry
        /\ open'[sym].stop = ticket.stop
        /\ open'[sym] \in Position
        /\ \A s \in DOMAIN open : open'[s] = open[s]
    BY <1>1, <1>2 DEF RecordEntry, Row, Position
  <1>5. TypeOK'
    <2>1. open' \in [DOMAIN open' -> Position] /\ DOMAIN open' \subseteq Symbols
      BY <1>1, <1>4 DEF TypeOK, RecordEntry
    <2> QED BY <1>1, <1>2, <2>1 DEF RecordEntry, TypeOK, world, PcStates
  <1>6. MemoryBacked'
    BY <1>1, <1>2, <1>3, <1>4 DEF Inductive, MemoryBacked, OpenIds, Ids
  <1>7. researched = day /\ tradeDate = day /\ ~halted
    BY <1>1 DEF Inductive, Trading, Started, CyclePcs
  <1>8. \A i \in OpenIds : rows[i].symbol \in DOMAIN open /\ open[rows[i].symbol].id = i
    BY <1>1, <1>7 DEF Inductive, Started
  <1>9. OneRowPerSymbol'
    BY <1>1, <1>2, <1>3, <1>8 DEF Inductive, OneRowPerSymbol, OpenIds, Ids
  <1>10. StopsAhead'
    <2>1. Gain(ticket.side, ticket.stop, ticket.stop) >= 0
      BY <1>1 DEF Row, Gain
    <2>2. \A s \in DOMAIN open : open[s].id \in 1..Len(rows)
      BY DEF Inductive, MemoryBacked, OpenIds, Ids
    <2> QED BY <1>2, <1>4, <2>1, <2>2 DEF Inductive, StopsAhead
  <1>11. Calendar'
    BY DEF RecordEntry, Inductive, Calendar, world
  <1>12. Started'
    BY <1>2, <1>3, <1>4, <1>7, <1>8 DEF RecordEntry, Inductive, Started, OpenIds, Ids, world
  <1>13. HaltedIsFlat'
    BY <1>1, <1>7 DEF RecordEntry, Inductive, Started, HaltedIsFlat, world
  <1>14. Trading' /\ Loops'
    BY <1>1 DEF RecordEntry, Inductive, Trading, Loops, world, CyclePcs
  <1> QED BY <1>5, <1>6, <1>9, <1>10, <1>11, <1>12, <1>13, <1>14 DEF Inductive

\* Trailing keeps the invariant: the memory may only move ahead of the row.
LEMMA TrailStopStep ==
    ASSUME Inductive, NEW s \in Symbols, TrailStop(s) PROVE Inductive'
  <1> DEFINE old == open[s]
             new == Trailed(open[s], prices[s])
             peak == Tighter(old.side, old.peak, prices[s])
  <1>1. s \in DOMAIN open /\ s \in DOMAIN prices /\ TypeOK /\ prices[s] \in Int
    BY PricesAreInt DEF TrailStop, Inductive, Loops
  <1>2. old \in Position
    BY <1>1 DEF TypeOK
  <1>3. TrailDistance(old.atr, old.entry, old.stop) \in Int
    <2>1. Distance(old.entry, old.stop) \in Int /\ old.atr \in Nat
      BY <1>2 DEF Position, Distance
    <2>2. TrailMultiplier * Distance(old.entry, old.stop) \in Int
      BY <2>1, RiskConfigAssumption
    <2>3. (TrailMultiplier * Distance(old.entry, old.stop)) \div AtrMultiplier \in Int
      BY <2>2, RiskConfigAssumption, FloorDivision
    <2> QED BY <2>1, <2>3, RiskConfigAssumption DEF TrailDistance
  <1>4. peak \in Int
    BY <1>1, <1>2 DEF Tighter, Larger, Smaller, Position
  <1>5. /\ new.stop \in Int /\ Gain(old.side, old.stop, new.stop) >= 0
    <2>1. new.stop = UpdateTrailingStop(old.side, old.stop, peak,
                         TrailDistance(old.atr, old.entry, old.stop), old.entry, old.risk)
      BY <1>2 DEF Trailed, Position
    <2>2. /\ old.side \in Side /\ old.stop \in Int /\ old.entry \in Int
          /\ old.risk \in Int
      BY <1>2 DEF Position
    <2> QED BY <1>3, <1>4, <2>1, <2>2, TrailNeverLoosens
  <1>6. /\ new \in Position
        /\ new.id = old.id /\ new.side = old.side /\ new.qty = old.qty
        /\ new.entry = old.entry
    BY <1>2, <1>4, <1>5 DEF Trailed, Position
  <1>7. /\ DOMAIN open' = DOMAIN open
        /\ open'[s] = new
        /\ \A t \in DOMAIN open : t # s => open'[t] = open[t]
    BY <1>1 DEF TrailStop, TypeOK
  <1>8. OpenIds' = OpenIds /\ rows' = rows
    BY DEF TrailStop, database, OpenIds, Ids
  <1>9. TypeOK'
    <2>1. open' \in [DOMAIN open' -> Position]
      BY <1>1, <1>6, <1>7 DEF TypeOK, TrailStop
    <2> QED BY <1>1, <1>7, <2>1 DEF TrailStop, TypeOK, database, world, PcStates
  <1>10. MemoryBacked'
    BY <1>1, <1>6, <1>7, <1>8 DEF Inductive, MemoryBacked
  <1>11. StopsAhead'
    <2>1. Gain(old.side, rows[old.id].stop, old.stop) >= 0
      BY <1>1 DEF Inductive, StopsAhead
    <2>2. rows[old.id].stop \in Int /\ old.stop \in Int /\ old.side \in Side
      <3>1. old.id \in 1..Len(rows)
        BY <1>1 DEF Inductive, MemoryBacked, OpenIds, Ids
      <3>2. rows[old.id] \in Row
        BY <1>1, <3>1 DEF TypeOK
      <3> QED BY <1>2, <3>2 DEF Row, Position
    <2>3. Gain(old.side, rows[old.id].stop, new.stop) >= 0
      BY <1>5, <2>1, <2>2 DEF Gain, Side
    <2> QED BY <1>6, <1>7, <1>8, <2>3 DEF Inductive, StopsAhead
  <1>12. OneRowPerSymbol' /\ HaltedIsFlat' /\ Calendar'
    BY <1>8 DEF TrailStop, Inductive, OneRowPerSymbol, HaltedIsFlat, Calendar, database, world
  <1>13. Started'
    BY <1>1, <1>6, <1>7, <1>8 DEF TrailStop, Inductive, Started, database, world
  <1>14. Trading' /\ Loops'
    BY <1>1, <1>7 DEF TrailStop, Inductive, Trading, Loops, database, world, CyclePcs
  <1> QED BY <1>9, <1>10, <1>11, <1>12, <1>13, <1>14 DEF Inductive

\* update_stops overwrites the stop of one open row.
LEMMA UpdateStopsRow ==
    ASSUME Inductive, UpdateStops,
           NEW id, id = open[cur].id,
           NEW row, row = [rows[id] EXCEPT !.stop = open[cur].stop]
    PROVE  /\ TypeOK /\ cur \in DOMAIN open /\ open[cur] \in Position
           /\ id \in 1..Len(rows) /\ rows[id].status = "OPEN" /\ rows[id].symbol = cur
           /\ rows[id] \in Row /\ row \in Row
           /\ rows' \in Seq(Row) /\ Len(rows') = Len(rows)
           /\ rows'[id] = row
           /\ \A i \in 1..Len(rows) : i # id => rows'[i] = rows[i]
  <1>1. TypeOK /\ cur \in DOMAIN open /\ open[cur] \in Position
    BY DEF UpdateStops, Inductive, Loops, TypeOK
  <1>2. id \in 1..Len(rows) /\ rows[id].status = "OPEN" /\ rows[id].symbol = cur
    BY <1>1 DEF Inductive, MemoryBacked, OpenIds, Ids
  <1>3. rows[id] \in Row
    BY <1>1, <1>2 DEF TypeOK
  <1>4. row \in Row
    BY <1>1, <1>3 DEF Row, Position
  <1>5. rows' = [rows EXCEPT ![id] = row]
    BY DEF UpdateStops
  <1>6. rows \in Seq(Row)
    BY <1>1 DEF TypeOK
  <1> QED BY <1>1, <1>2, <1>3, <1>4, <1>5, <1>6, ExceptRow

\* Writing the stop to its row keeps the invariant.
LEMMA UpdateStopsStep ==
    ASSUME Inductive, UpdateStops PROVE Inductive'
  <1> DEFINE id == open[cur].id
             row == [rows[id] EXCEPT !.stop = open[cur].stop]
  <1>1. TypeOK /\ cur \in DOMAIN open /\ open[cur] \in Position
    BY UpdateStopsRow
  <1>2. id \in 1..Len(rows) /\ rows[id].status = "OPEN" /\ rows[id].symbol = cur
    BY UpdateStopsRow
  <1>3. /\ rows' \in Seq(Row) /\ Len(rows') = Len(rows)
        /\ rows'[id] = row
        /\ \A i \in 1..Len(rows) : i # id => rows'[i] = rows[i]
    BY UpdateStopsRow
  <1>4. rows[id] \in Row
    BY UpdateStopsRow
  <1>5. row.stop = open[cur].stop
    BY <1>4 DEF Row
  <1>6. /\ row.symbol = rows[id].symbol /\ row.status = rows[id].status
        /\ row.side = rows[id].side /\ row.qty = rows[id].qty
        /\ row.entry = rows[id].entry
    BY <1>4 DEF Row
  <1>7. /\ \A i \in 1..Len(rows) : /\ rows'[i].symbol = rows[i].symbol
                                    /\ rows'[i].status = rows[i].status
                                    /\ rows'[i].side = rows[i].side
                                    /\ rows'[i].qty = rows[i].qty
                                    /\ rows'[i].entry = rows[i].entry
    BY <1>3, <1>6
  <1>8. OpenIds' = OpenIds
    BY <1>3, <1>7 DEF OpenIds, Ids
  <1>9. TypeOK'
    BY <1>1, <1>3 DEF UpdateStops, TypeOK, memory, locals, world, PcStates
  <1>10. MemoryBacked' /\ OneRowPerSymbol'
    BY <1>7, <1>8 DEF UpdateStops, Inductive, MemoryBacked, OneRowPerSymbol, OpenIds, Ids, memory
  <1>11. StopsAhead'
    <2> SUFFICES ASSUME NEW s \in DOMAIN open
                 PROVE  Gain(open[s].side, rows'[open[s].id].stop, open[s].stop) >= 0
      BY DEF UpdateStops, StopsAhead, memory
    <2>1. open[s].id \in 1..Len(rows) /\ rows[open[s].id].symbol = s
      BY DEF Inductive, MemoryBacked, OpenIds, Ids
    <2>2. CASE open[s].id = id
      <3>1. s = cur
        BY <1>2, <2>1, <2>2
      <3>2. rows'[open[s].id].stop = open[s].stop
        BY <1>3, <1>5, <2>2, <3>1
      <3>3. open[s].stop \in Int
        BY <1>1, <3>1 DEF Position
      <3> QED BY <3>2, <3>3 DEF Gain
    <2>3. CASE open[s].id # id
      BY <1>3, <2>1, <2>3 DEF Inductive, StopsAhead
    <2> QED BY <2>2, <2>3
  <1>12. HaltedIsFlat' /\ Calendar'
    BY <1>8 DEF UpdateStops, Inductive, HaltedIsFlat, Calendar, memory, world
  <1>13. Started'
    BY <1>7, <1>8 DEF UpdateStops, Inductive, Started, memory, world, OpenIds, Ids
  <1>14. Trading' /\ Loops'
    BY DEF UpdateStops, Inductive, Trading, Loops, memory, locals, world, CyclePcs
  <1> QED BY <1>9, <1>10, <1>11, <1>12, <1>13, <1>14 DEF Inductive

\* close_position overwrites one open row with its closed form.
LEMMA RecordExitRow ==
    ASSUME Inductive, RecordExit,
           NEW id, id = open[cur].id,
           NEW row, row = Closed(rows[id])
    PROVE  /\ TypeOK /\ cur \in DOMAIN open
           /\ id \in 1..Len(rows) /\ id \in OpenIds /\ rows[id].symbol = cur
           /\ rows[id] \in Row /\ row \in Row
           /\ row.status = "CLOSED" /\ row.stop = rows[id].stop
           /\ rows' \in Seq(Row) /\ Len(rows') = Len(rows)
           /\ rows'[id] = row
           /\ \A i \in 1..Len(rows) : i # id => rows'[i] = rows[i]
  <1>1. TypeOK /\ cur \in DOMAIN open /\ pnl \in Int
    BY DEF RecordExit, Inductive, Loops, TypeOK
  <1>2. id \in 1..Len(rows) /\ id \in OpenIds /\ rows[id].symbol = cur
    BY <1>1 DEF Inductive, MemoryBacked, OpenIds, Ids
  <1>3. rows[id] \in Row
    BY <1>1, <1>2 DEF TypeOK
  <1>4. row \in Row /\ row.status = "CLOSED" /\ row.stop = rows[id].stop
    BY <1>1, <1>3 DEF Row, Closed
  <1>5. rows' = [rows EXCEPT ![id] = row]
    BY DEF RecordExit
  <1>6. rows \in Seq(Row)
    BY <1>1 DEF TypeOK
  <1> QED BY <1>1, <1>2, <1>3, <1>4, <1>5, <1>6, ExceptRow

\* Recording an exit keeps the invariant: row and dict entry go together.
LEMMA RecordExitStep ==
    ASSUME Inductive, RecordExit PROVE Inductive'
  <1> DEFINE id == open[cur].id
             row == Closed(rows[id])
  <1>1. /\ TypeOK /\ cur \in DOMAIN open /\ cur \notin todo
        /\ pc = "exit" /\ pnl \in Int
    BY DEF RecordExit, Inductive, Loops, TypeOK
  <1>2. id \in 1..Len(rows) /\ id \in OpenIds /\ rows[id].symbol = cur
    BY RecordExitRow
  <1>4. row.status = "CLOSED"
    BY RecordExitRow
  <1>6. /\ rows' \in Seq(Row) /\ Len(rows') = Len(rows)
        /\ rows'[id] = row
        /\ \A i \in 1..Len(rows) : i # id => rows'[i] = rows[i]
    BY RecordExitRow
  <1>7. OpenIds' = OpenIds \ {id}
    BY <1>4, <1>6 DEF OpenIds, Ids
  <1>8. /\ DOMAIN open' = DOMAIN open \ {cur}
        /\ \A s \in DOMAIN open' : open'[s] = open[s]
    BY DEF RecordExit, RemainingBook
  <1>9. TypeOK'
    <2>1. open' \in [DOMAIN open' -> Position] /\ DOMAIN open' \subseteq Symbols
      BY <1>1, <1>8 DEF TypeOK, RecordExit, RemainingBook
    <2> QED BY <1>1, <1>6, <2>1 DEF RecordExit, TypeOK, world, PcStates
  <1>10. \A s \in DOMAIN open' : /\ open[s].id \in 1..Len(rows)
                                  /\ open[s].id \in OpenIds
                                  /\ open[s].id # id
                                  /\ rows[open[s].id].symbol = s
    BY <1>2, <1>8 DEF Inductive, MemoryBacked, OpenIds, Ids
  <1>11. MemoryBacked'
    BY <1>6, <1>7, <1>8, <1>10 DEF Inductive, MemoryBacked
  <1>12. StopsAhead'
    BY <1>6, <1>8, <1>10 DEF Inductive, StopsAhead
  <1>13. \A i \in OpenIds' : i \in OpenIds /\ rows'[i] = rows[i] /\ i # id
    BY <1>6, <1>7 DEF OpenIds, Ids
  <1>14. OneRowPerSymbol'
    BY <1>13 DEF Inductive, OneRowPerSymbol
  <1>15. HaltedIsFlat' /\ Calendar'
    BY <1>7 DEF RecordExit, Inductive, HaltedIsFlat, Calendar, world
  <1>16. Started'
    <2>1. \A i \in OpenIds' : rows[i].symbol # cur
      BY <1>2, <1>13 DEF Inductive, OneRowPerSymbol
    <2> QED BY <1>1, <1>8, <1>13, <2>1 DEF RecordExit, Inductive, Started, world
  <1>17. Trading' /\ Loops'
    <2>1. /\ pc' = IF closing = None THEN "manage" ELSE "flatten"
          /\ UNCHANGED <<day, researched, halted, prices, todo, closing, ticket>>
      BY DEF RecordExit, world
    <2>2. Trading'
      BY <1>1, <2>1, NoneIsNoReason DEF Inductive, Trading, CyclePcs
    <2>3. closing # None => DOMAIN open = todo \cup {cur}
      BY <1>1 DEF Inductive, Loops
    <2>4. todo \subseteq DOMAIN open
      BY <1>1 DEF Inductive, Loops
    <2>5. Loops'
      BY <1>1, <1>8, <2>1, <2>3, <2>4 DEF Loops
    <2> QED BY <2>2, <2>5
  <1> QED BY <1>9, <1>11, <1>12, <1>14, <1>15, <1>16, <1>17 DEF Inductive

\* The latch keeps the invariant: it is reached with an empty book that knows every
\* open row.
LEMMA SetHaltedStep ==
    ASSUME Inductive, SetHalted PROVE Inductive'
  <1>1. /\ metrics' \in [1..MaxDay -> Metric]
        /\ \A d \in 1..MaxDay : d # tradeDate => metrics'[d] = metrics[d]
        /\ metrics[tradeDate].halted => metrics'[tradeDate].halted
    <2>1. /\ metrics \in [1..MaxDay -> Metric] /\ tradeDate \in 1..MaxDay
          /\ metrics' = [metrics EXCEPT ![tradeDate].halted =
                                           @ \/ metrics[tradeDate].exists]
      BY DEF SetHalted, LatchedMetrics, Inductive, TypeOK
    <2> DEFINE latched == [metrics[tradeDate] EXCEPT !.halted =
                               metrics[tradeDate].halted \/ metrics[tradeDate].exists]
    <2>2. latched \in Metric /\ (metrics[tradeDate].halted => latched.halted)
      BY <2>1 DEF Metric
    <2>3. metrics' = [metrics EXCEPT ![tradeDate] = latched]
      BY <2>1
    <2> HIDE DEF latched
    <2> QED BY <2>1, <2>2, <2>3
  <1>2. OpenIds' = OpenIds /\ rows' = rows /\ open' = open
    BY DEF SetHalted, OpenIds, Ids
  <1>3. tradeDate = day /\ OpenIds = {}
    <2>1. pc = "latch" /\ researched = day /\ DOMAIN open = {}
      BY DEF SetHalted, Inductive, Trading, Loops
    <2> QED BY <2>1 DEF Inductive, Started
  <1>4. TypeOK'
    BY <1>1, NoJobTypes DEF SetHalted, EndJob, Inductive, TypeOK, world, PcStates
  <1>5. OneRowPerSymbol' /\ MemoryBacked' /\ StopsAhead'
    BY <1>2 DEF Inductive, OneRowPerSymbol, MemoryBacked, StopsAhead
  <1>6. Calendar'
    BY <1>1, <1>3 DEF SetHalted, Inductive, Calendar, TypeOK, world
  <1>7. Started' /\ HaltedIsFlat'
    BY <1>2, <1>3 DEF SetHalted, EndJob, Inductive, Started, HaltedIsFlat, world
  <1>8. Trading' /\ Loops'
    BY NoneIsNoReason DEF SetHalted, EndJob, NoJob, Inductive, Trading, Loops, world, CyclePcs
  <1> QED BY <1>4, <1>5, <1>6, <1>7, <1>8 DEF Inductive

-----------------------------------------------------------------------------
(* Steps of the process and of the calendar.                               *)

\* The row a restart rebuilds a position from.
LEMMA RebuiltPosition ==
    ASSUME TypeOK, OneRowPerSymbol, NEW i \in OpenIds
    PROVE  /\ LatestOpen(rows[i].symbol) = i
           /\ PositionOf(i) \in Position
           /\ PositionOf(i).id = i /\ PositionOf(i).side = rows[i].side
           /\ PositionOf(i).qty = rows[i].qty /\ PositionOf(i).entry = rows[i].entry
           /\ PositionOf(i).stop = rows[i].stop
  <1>1. i \in 1..Len(rows) /\ Len(rows) \in Nat
    BY DEF OpenIds, Ids, TypeOK
  <1>2. rows[i] \in Row
    BY <1>1 DEF TypeOK
  <1>3. \A k \in OpenIds : rows[k].symbol = rows[i].symbol => k = i
    BY DEF OneRowPerSymbol
  <1>4. LatestOpen(rows[i].symbol) = i
    <2>1. \A j \in OpenIds : rows[j].symbol = rows[i].symbol => j <= i
      BY <1>1, <1>3
    <2> QED BY <1>3, <2>1 DEF LatestOpen
  <1>5. PositionOf(i) \in Position
    <2>1. Distance(rows[i].entry, rows[i].stop) \in Nat
      BY <1>2 DEF Distance, Row
    <2> QED BY <1>1, <1>2, <2>1 DEF PositionOf, Row, Position
  <1> QED BY <1>4, <1>5 DEF PositionOf

\* start_day leaves the process with exactly the open rows, and with the
\* day's own latch.
LEMMA StartDayBook ==
    ASSUME TypeOK, OneRowPerSymbol, UNCHANGED rows, open' = RehydratedBook
    PROVE  /\ DOMAIN open' \subseteq Symbols
           /\ open' \in [DOMAIN open' -> Position]
           /\ OpenIds' = OpenIds
           /\ MemoryBacked' /\ StopsAhead' /\ OneRowPerSymbol'
           /\ \A i \in OpenIds : /\ rows[i].symbol \in DOMAIN open'
                                 /\ open'[rows[i].symbol].id = i
  <1>1. OpenIds' = OpenIds
    BY DEF OpenIds, Ids
  <1>2. DOMAIN open' = {rows[i].symbol : i \in OpenIds}
    BY DEF RehydratedBook
  <1>3. \A i \in OpenIds : rows[i] \in Row
    BY DEF OpenIds, Ids, TypeOK
  <1>4. DOMAIN open' \subseteq Symbols
    BY <1>2, <1>3 DEF Row
  <1>5. \A s \in DOMAIN open' :
          \E i \in OpenIds : rows[i].symbol = s /\ open'[s] = PositionOf(i)
    <2> SUFFICES ASSUME NEW s \in DOMAIN open'
                 PROVE  \E i \in OpenIds : rows[i].symbol = s /\ open'[s] = PositionOf(i)
      OBVIOUS
    <2>1. PICK i \in OpenIds : rows[i].symbol = s
      BY <1>2
    <2>2. open'[s] = PositionOf(LatestOpen(s))
      BY <1>2 DEF RehydratedBook
    <2> QED BY <2>1, <2>2, RebuiltPosition
  <1>6. open' \in [DOMAIN open' -> Position]
    <2>1. \A s \in DOMAIN open' : open'[s] \in Position
      BY <1>5, RebuiltPosition
    <2> QED BY <2>1 DEF RehydratedBook
  <1>7. \A i \in OpenIds : /\ rows[i].symbol \in DOMAIN open'
                           /\ open'[rows[i].symbol].id = i
    <2> TAKE i \in OpenIds
    <2>1. rows[i].symbol \in DOMAIN open'
      BY <1>2
    <2>2. open'[rows[i].symbol] = PositionOf(LatestOpen(rows[i].symbol))
      BY <1>2 DEF RehydratedBook
    <2> QED BY <2>1, <2>2, RebuiltPosition
  <1>8. MemoryBacked'
    BY <1>1, <1>5, RebuiltPosition DEF MemoryBacked
  <1>9. StopsAhead'
    <2> SUFFICES ASSUME NEW s \in DOMAIN open'
                 PROVE  Gain(open'[s].side, rows[open'[s].id].stop, open'[s].stop) >= 0
      BY DEF StopsAhead
    <2>1. PICK i \in OpenIds : open'[s] = PositionOf(i)
      BY <1>5
    <2>2. open'[s].stop = rows[open'[s].id].stop
      BY <2>1, RebuiltPosition
    <2>3. open'[s].stop \in Int
      BY <1>6 DEF Position
    <2> QED BY <2>2, <2>3 DEF Gain
  <1>10. OneRowPerSymbol'
    BY <1>1 DEF OneRowPerSymbol
  <1> QED BY <1>1, <1>4, <1>6, <1>7, <1>8, <1>9, <1>10

\* get_or_create changes neither the latch of a day nor the type of its row.
LEMMA GetOrCreateStep ==
    ASSUME TypeOK, NEW date \in 1..MaxDay, GetOrCreate(date)
    PROVE  /\ metrics' \in [1..MaxDay -> Metric]
           /\ \A d \in 1..MaxDay : metrics'[d].halted => metrics[d].halted
           /\ metrics[date].exists => \A d \in 1..MaxDay : metrics'[d] = metrics[d]
  <1>1. NewMetric \in Metric /\ ~NewMetric.halted
    BY EngineConfigAssumption DEF NewMetric, Metric
  <1>2. metrics' = [metrics EXCEPT ![date] =
            IF metrics[date].exists THEN metrics[date] ELSE NewMetric]
    BY DEF GetOrCreate
  <1> QED BY <1>1, <1>2 DEF TypeOK

\* The rebuilt cash is an integer.
LEMMA RehydratedCashIsInt ==
    ASSUME TypeOK, NEW date
    PROVE  RehydratedCash(date) \in Int
  <1> DEFINE f == [i \in OpenIds |-> Signed(rows[i].side, rows[i].qty, rows[i].entry)]
  <1>1. \A i \in DOMAIN f : f[i] \in Int
    <2> TAKE i \in DOMAIN f
    <2>1. rows[i] \in Row
      BY DEF OpenIds, Ids, TypeOK
    <2>2. rows[i].qty \in Int /\ rows[i].entry \in Int
      BY <2>1 DEF Row
    <2> QED BY <2>2, SignedIsInt
  <1>2. IsFiniteSet(DOMAIN f)
    BY FiniteBooks
  <1> HIDE DEF f
  <1>3. SumFunction(f) \in Int
    BY <1>1, <1>2, FunctionSumIsInt
  <1>4. RealizedOn(date) \in Int
    BY RealizedIsInt
  <1> QED BY <1>3, <1>4, EngineConfigAssumption DEF RehydratedCash, f

\* start_day establishes what the invariant says of a running process.
LEMMA StartDayStep ==
    ASSUME Inductive, StartDay(day), UNCHANGED <<day, rows>>,
           researched' \in {researched, day}, pc # "down" => pc' # "down"
    PROVE  /\ metrics' \in [1..MaxDay -> Metric] /\ halted' \in BOOLEAN
           /\ cash' \in Int /\ tradeDate' = day
           /\ DOMAIN open' \subseteq Symbols /\ open' \in [DOMAIN open' -> Position]
           /\ OneRowPerSymbol' /\ MemoryBacked' /\ StopsAhead'
           /\ Calendar' /\ Started' /\ HaltedIsFlat'
  <1>1. TypeOK /\ OneRowPerSymbol /\ open' = RehydratedBook /\ day \in 1..MaxDay
        /\ tradeDate' = day /\ halted' = metrics[day].halted
    BY DEF Inductive, StartDay, Latched, TypeOK
  <1>2. /\ metrics' \in [1..MaxDay -> Metric]
        /\ \A d \in 1..MaxDay : metrics'[d].halted => metrics[d].halted
    BY <1>1, GetOrCreateStep DEF StartDay
  <1>3. halted' \in BOOLEAN
    BY <1>1 DEF TypeOK, Metric
  <1>4. cash' \in Int
    BY <1>1, RehydratedCashIsInt DEF StartDay
  <1>5. /\ DOMAIN open' \subseteq Symbols /\ open' \in [DOMAIN open' -> Position]
        /\ OneRowPerSymbol' /\ MemoryBacked' /\ StopsAhead' /\ OpenIds' = OpenIds
        /\ \A i \in OpenIds : /\ rows[i].symbol \in DOMAIN open'
                              /\ open'[rows[i].symbol].id = i
    BY <1>1, StartDayBook
  <1>6. Calendar'
    BY <1>1, <1>2 DEF Inductive, Calendar, TypeOK
  <1>7. Started'
    BY <1>1, <1>2, <1>5 DEF Started
  <1>8. HaltedIsFlat'
    BY <1>1, <1>2, <1>5 DEF Inductive, HaltedIsFlat
  <1> QED BY <1>1, <1>2, <1>3, <1>4, <1>5, <1>6, <1>7, <1>8

\* A boot keeps the invariant.
LEMMA BootStep ==
    ASSUME Inductive, Boot PROVE Inductive'
  <1>1. /\ StartDay(day) /\ UNCHANGED <<day, dbErrors, rows, researched>>
        /\ pc' = "idle" /\ NoJob /\ pc = "down"
    BY DEF Boot, EndJob, world
  <1>2. /\ metrics' \in [1..MaxDay -> Metric] /\ halted' \in BOOLEAN
        /\ cash' \in Int /\ tradeDate' = day
        /\ DOMAIN open' \subseteq Symbols /\ open' \in [DOMAIN open' -> Position]
        /\ OneRowPerSymbol' /\ MemoryBacked' /\ StopsAhead'
        /\ Calendar' /\ Started' /\ HaltedIsFlat'
    BY <1>1, StartDayStep
  <1>3. TypeOK'
    BY <1>1, <1>2, NoJobTypes DEF Inductive, TypeOK, PcStates
  <1>4. Trading' /\ Loops'
    BY <1>1, NoJobTypes DEF Trading, Loops, CyclePcs
  <1> QED BY <1>2, <1>3, <1>4 DEF Inductive

\* The morning job keeps the invariant.
LEMMA PremarketResearchStep ==
    ASSUME Inductive, PremarketResearch PROVE Inductive'
  <1>1. /\ StartDay(day) /\ UNCHANGED <<day, dbErrors, rows, pc>> /\ UNCHANGED locals
        /\ researched' \in {researched, day} /\ pc = "idle"
    BY DEF PremarketResearch, world
  <1>2. /\ metrics' \in [1..MaxDay -> Metric] /\ halted' \in BOOLEAN
        /\ cash' \in Int /\ tradeDate' = day
        /\ DOMAIN open' \subseteq Symbols /\ open' \in [DOMAIN open' -> Position]
        /\ OneRowPerSymbol' /\ MemoryBacked' /\ StopsAhead'
        /\ Calendar' /\ Started' /\ HaltedIsFlat'
    BY <1>1, StartDayStep
  <1>3. TypeOK'
    BY <1>1, <1>2 DEF Inductive, TypeOK, PcStates, locals
  <1>4. Trading' /\ Loops'
    BY <1>1 DEF Inductive, Trading, Loops, CyclePcs, locals
  <1> QED BY <1>2, <1>3, <1>4 DEF Inductive

\* With nothing in memory, what the invariant says of the book holds.
LEMMA EmptyBook ==
    ASSUME UNCHANGED rows, open' = NoPositions, Inductive
    PROVE  /\ DOMAIN open' = {} /\ DOMAIN open' \subseteq Symbols
           /\ open' \in [DOMAIN open' -> Position]
           /\ OpenIds' = OpenIds
           /\ OneRowPerSymbol' /\ MemoryBacked' /\ StopsAhead'
  <1>1. open' = [s \in {} |-> 0]
    BY DEF NoPositions
  <1>2. DOMAIN open' = {}
    BY <1>1
  <1>3. open' \in [{} -> Position]
    BY <1>1
  <1>4. OpenIds' = OpenIds
    BY DEF OpenIds, Ids
  <1>5. OneRowPerSymbol'
    BY <1>4 DEF Inductive, OneRowPerSymbol
  <1>6. MemoryBacked' /\ StopsAhead'
    BY <1>2 DEF MemoryBacked, StopsAhead
  <1> QED BY <1>2, <1>3, <1>4, <1>5, <1>6

\* A crash keeps the invariant: it leaves the database alone.
LEMMA CrashStep ==
    ASSUME Inductive, Crash PROVE Inductive'
  <1>1. /\ pc' = "down" /\ tradeDate' = 1 /\ cash' = StartingEquity
        /\ open' = NoPositions /\ NoJob
        /\ UNCHANGED <<day, dbErrors, rows, metrics, researched>>
    BY DEF Crash, world, database
  <1>2. halted' \in BOOLEAN
    BY Zenon DEF Crash
  <1>3. /\ DOMAIN open' = {} /\ DOMAIN open' \subseteq Symbols
        /\ open' \in [DOMAIN open' -> Position]
        /\ OpenIds' = OpenIds
        /\ OneRowPerSymbol' /\ MemoryBacked' /\ StopsAhead'
    BY <1>1, EmptyBook
  <1>4. 1 \in 1..MaxDay /\ StartingEquity \in Int
    BY EngineConfigAssumption
  <1>5. TypeOK'
    BY <1>1, <1>2, <1>3, <1>4, NoJobTypes DEF Inductive, TypeOK, PcStates
  <1>6. Calendar' /\ HaltedIsFlat'
    BY <1>1, <1>3 DEF Inductive, Calendar, HaltedIsFlat, TypeOK
  <1>7. Started' /\ Trading' /\ Loops'
    BY <1>1, NoJobTypes DEF Started, Trading, Loops, CyclePcs
  <1> QED BY <1>3, <1>5, <1>6, <1>7 DEF Inductive

\* Midnight keeps the invariant: the new day has neither watchlist nor latch.
LEMMA NextDayStep ==
    ASSUME Inductive, NextDay PROVE Inductive'
  <1>1. /\ day' = day + 1 /\ day' \in 1..MaxDay /\ day \in Nat
        /\ UNCHANGED <<dbErrors, rows, metrics, researched, pc, tradeDate, cash, open, halted>>
        /\ UNCHANGED locals /\ pc \in {"down", "idle"}
    BY EngineConfigAssumption DEF NextDay, memory, database, Inductive, TypeOK
  <1>2. OpenIds' = OpenIds
    BY <1>1 DEF OpenIds, Ids
  <1>3. TypeOK'
    BY <1>1 DEF Inductive, TypeOK, locals
  <1>4. OneRowPerSymbol' /\ MemoryBacked' /\ StopsAhead'
    BY <1>1, <1>2 DEF Inductive, OneRowPerSymbol, MemoryBacked, StopsAhead
  <1>5. Calendar' /\ HaltedIsFlat' /\ Started'
    <2>1. researched <= day /\ researched \in Int /\ tradeDate <= day /\ tradeDate \in Int
      BY DEF Inductive, Calendar, TypeOK
    <2>2. researched' # day'
      BY <1>1, <2>1
    <2>3. ~metrics'[day'].halted
      BY <1>1 DEF Inductive, Calendar
    <2>4. Calendar'
      BY <1>1, <2>1 DEF Inductive, Calendar
    <2> QED BY <2>2, <2>3, <2>4 DEF HaltedIsFlat, Started
  <1>6. Trading' /\ Loops'
    BY <1>1 DEF Inductive, Trading, Loops, locals, CyclePcs
  <1> QED BY <1>3, <1>4, <1>5, <1>6 DEF Inductive

\* A half-done start_day may leave memory empty while rows are open, but only
\* on a day that has no watchlist, on which no cycle runs.
LEMMA PremarketErrorStep ==
    ASSUME Inductive, PremarketError PROVE Inductive'
  <1>1. /\ pc = "idle" /\ researched # day /\ tradeDate' = day
        /\ UNCHANGED <<day, rows, researched, pc, cash>> /\ UNCHANGED locals
        /\ day \in 1..MaxDay /\ TypeOK /\ OneRowPerSymbol
    BY DEF PremarketError, Inductive, TypeOK
  <1>2. dbErrors' \in 0..MaxDbErrors
    BY EngineConfigAssumption DEF PremarketError, Inductive, TypeOK
  <1>3. \/ UNCHANGED <<metrics, halted, open>>
        \/ /\ GetOrCreate(day) /\ halted' = metrics[day].halted
           /\ open' = NoPositions \/ open' = RehydratedBook
    BY DEF PremarketError, Latched
  <1>4. /\ metrics' \in [1..MaxDay -> Metric] /\ halted' \in BOOLEAN
        /\ \A d \in 1..MaxDay : metrics'[d].halted => metrics[d].halted
    BY <1>1, <1>3, GetOrCreateStep DEF TypeOK, Metric
  <1>5. OpenIds' = OpenIds
    BY <1>1 DEF OpenIds, Ids
  <1>6. /\ DOMAIN open' \subseteq Symbols /\ open' \in [DOMAIN open' -> Position]
        /\ OneRowPerSymbol' /\ MemoryBacked' /\ StopsAhead'
    <2>1. CASE UNCHANGED open
      BY <1>1, <1>5, <2>1 DEF Inductive, TypeOK, OneRowPerSymbol, MemoryBacked, StopsAhead
    <2>2. CASE open' = NoPositions
      BY <1>1, <2>2, EmptyBook
    <2>3. CASE open' = RehydratedBook
      BY <1>1, <2>3, StartDayBook
    <2> QED BY <1>3, <2>1, <2>2, <2>3
  <1>7. TypeOK'
    BY <1>1, <1>2, <1>4, <1>6 DEF TypeOK, locals, PcStates
  <1>8. Calendar' /\ HaltedIsFlat' /\ Started'
    BY <1>1, <1>4, <1>5 DEF Inductive, Calendar, HaltedIsFlat, Started, TypeOK
  <1>9. Trading' /\ Loops'
    BY <1>1 DEF Inductive, Trading, Loops, locals, CyclePcs
  <1> QED BY <1>6, <1>7, <1>8, <1>9 DEF Inductive

\* A commit that raises keeps the invariant: the row is missed, not torn.
LEMMA DbErrorStep ==
    ASSUME Inductive, DbError PROVE Inductive'
  <1>1. /\ UNCHANGED <<day, rows, researched, tradeDate, cash, open>>
        /\ pc' = "idle" /\ NoJob /\ pc # "down"
    BY DEF DbError, EndJob, Refreshing
  <1>2. dbErrors' \in 0..MaxDbErrors
    BY EngineConfigAssumption DEF DbError, Inductive, TypeOK
  <1>3. halted' = (halted \/ pc = "latch")
    BY DEF DbError
  <1>4. halted' \in BOOLEAN /\ (halted => halted')
    BY Zenon, <1>3 DEF Inductive, TypeOK
  <1>5. /\ metrics' \in [1..MaxDay -> Metric]
        /\ \A d \in 1..MaxDay : metrics'[d].halted = metrics[d].halted
    <2>1. CASE UNCHANGED metrics
      BY <2>1 DEF Inductive, TypeOK
    <2>2. CASE \E quotes \in Snapshots : RecomputeDaily(quotes)
      BY <2>2, RecomputeDailyStep DEF Inductive
    <2> QED BY <2>1, <2>2, PricesAreSnapshot DEF DbError, Inductive
  <1>6. Bookless
    BY <1>1, <1>4, <1>5 DEF Bookless
  <1>7. TypeOK'
    BY <1>1, <1>2, <1>4, <1>5, NoJobTypes DEF Inductive, TypeOK, PcStates
  <1>8. Trading' /\ Loops'
    BY <1>1, NoJobTypes DEF Trading, Loops, CyclePcs
  <1> QED BY <1>6, <1>7, <1>8, BooklessStep DEF Inductive

-----------------------------------------------------------------------------
(* The invariant and what follows from it.                                 *)

\* The invariant holds at installation.
LEMMA InductiveInit == Init => Inductive
  <1> SUFFICES ASSUME Init PROVE Inductive
    OBVIOUS
  <1>1. OpenIds = {} /\ rows = <<>> /\ open = NoPositions /\ pc = "down"
    BY DEF Init, OpenIds, Ids
  <1>2. DOMAIN open = {} /\ open \in [DOMAIN open -> Position] /\ DOMAIN open \subseteq Symbols
    <2>1. open = [s \in {} |-> 0]
      BY <1>1 DEF NoPositions
    <2>2. DOMAIN open = {} /\ open \in [{} -> Position]
      BY <2>1
    <2> QED BY <2>2
  <1>3. prices \in [DOMAIN prices -> Prices] /\ DOMAIN prices \subseteq Symbols
    <2>1. prices = [s \in {} |-> 0]
      BY DEF Init, NoPrices
    <2>2. DOMAIN prices = {} /\ prices \in [{} -> Prices]
      BY <2>1
    <2> QED BY <2>2
  <1>4. metrics \in [1..MaxDay -> Metric] /\ \A d \in 1..MaxDay : ~metrics[d].halted
    BY DEF Init, NoMetric, Metric
  <1>5. MaxDay \in Nat \ {0} /\ MaxDbErrors \in Nat /\ StartingEquity \in Int
    BY EngineConfigAssumption
  <1>6. halted \in BOOLEAN /\ closedAny \in BOOLEAN
    BY Zenon DEF Init
  <1>7. TypeOK
    BY <1>2, <1>3, <1>4, <1>5, <1>6 DEF Init, TypeOK, PcStates
  <1>8. OneRowPerSymbol /\ MemoryBacked /\ StopsAhead /\ HaltedIsFlat
    BY <1>1, <1>2 DEF OneRowPerSymbol, MemoryBacked, StopsAhead, HaltedIsFlat
  <1>9. Calendar
    BY <1>4, <1>5 DEF Init, Calendar
  <1>10. Started /\ Trading /\ Loops
    BY <1>1 DEF Init, Started, Trading, Loops, CyclePcs
  <1> QED BY <1>7, <1>8, <1>9, <1>10 DEF Inductive

\* Every step keeps the invariant.
LEMMA InductiveNext == Inductive /\ [Next]_vars => Inductive'
  <1> SUFFICES ASSUME Inductive, [Next]_vars PROVE Inductive'
    OBVIOUS
  <1>1. CASE Boot
    BY <1>1, BootStep
  <1>2. CASE Crash
    BY <1>2, CrashStep
  <1>3. CASE DbError
    BY <1>3, DbErrorStep
  <1>4. CASE NextDay
    BY <1>4, NextDayStep
  <1>5. CASE PremarketResearch
    BY <1>5, PremarketResearchStep
  <1>6. CASE PremarketError
    BY <1>6, PremarketErrorStep
  <1>7. CASE TradingCycle
    BY <1>7, BeginCycleStep, SkipSignalStep, BookFullStep, FillEntryStep,
       RecordEntryStep, RefreshAfterEntryStep, SignalsDoneStep, SkipUnpricedStep,
       TrailStopStep, UpdateStopsStep, KeepPositionStep, ExitPositionStep,
       RecordExitStep, EndManageStep
       DEF TradingCycle
  <1>8. CASE Flatten
    BY <1>8, EndOfDayFlattenStep, FlattenPositionStep, FlattenDoneStep, SetHaltedStep
       DEF Flatten
  <1>9. CASE UNCHANGED vars
    <2>1. /\ UNCHANGED <<day, dbErrors, rows, metrics, researched, pc, tradeDate>>
          /\ UNCHANGED <<cash, open, halted>> /\ UNCHANGED locals
      BY <1>9 DEF vars, world, database, memory
    <2>2. OpenIds' = OpenIds
      BY <2>1 DEF OpenIds, Ids
    <2>3. TypeOK'
      BY <2>1 DEF Inductive, TypeOK, locals
    <2>4. OneRowPerSymbol' /\ MemoryBacked' /\ StopsAhead' /\ Calendar' /\ HaltedIsFlat'
      BY <2>1, <2>2 DEF Inductive, OneRowPerSymbol, MemoryBacked, StopsAhead,
                        Calendar, HaltedIsFlat
    <2>5. Started' /\ Trading' /\ Loops'
      BY <2>1, <2>2 DEF Inductive, Started, Trading, Loops, locals, CyclePcs
    <2> QED BY <2>3, <2>4, <2>5 DEF Inductive
  <1> QED BY <1>1, <1>2, <1>3, <1>4, <1>5, <1>6, <1>7, <1>8, <1>9 DEF Next

\* The invariant holds in every reachable state of the engine, through any
\* crashes, restarts, failed mornings and failed commits.
THEOREM InductiveInvariant == Spec => []Inductive
  BY InductiveInit, InductiveNext, PTL DEF Spec

\* Only three steps write to the positions table.
LEMMA WritersOfRows ==
    ASSUME [Next]_vars
    PROVE  UNCHANGED rows \/ RecordEntry \/ UpdateStops \/ RecordExit
  <1>1. CASE Boot \/ Crash \/ DbError \/ NextDay \/ PremarketResearch \/ PremarketError
    BY <1>1 DEF Boot, Crash, DbError, NextDay, PremarketResearch, PremarketError, database
  <1>2. CASE TradingCycle
    BY <1>2 DEF TradingCycle, BeginCycle, SkipSignal, BookFull, FillEntry,
                RefreshAfterEntry, SignalsDone, SkipUnpriced, TrailStop, KeepPosition,
                ExitPosition, EndManage, database
  <1>3. CASE Flatten
    BY <1>3 DEF Flatten, EndOfDayFlatten, FlattenPosition, FlattenDone, SetHalted, database
  <1>4. CASE UNCHANGED vars
    BY <1>4 DEF vars, database
  <1> QED BY <1>1, <1>2, <1>3, <1>4 DEF Next

\* No step moves a persisted stop against the holder.
LEMMA StopStep ==
    ASSUME Inductive, [Next]_vars, NEW i \in OpenIds
    PROVE  Gain(rows[i].side, rows[i].stop, rows'[i].stop) >= 0
  <1>1. i \in 1..Len(rows) /\ rows[i] \in Row /\ rows \in Seq(Row)
    BY DEF OpenIds, Ids, Inductive, TypeOK
  <1>2. Gain(rows[i].side, rows[i].stop, rows[i].stop) >= 0
    <2>1. rows[i].stop \in Int
      BY <1>1 DEF Row
    <2> QED BY <2>1 DEF Gain
  <1>3. CASE UNCHANGED rows
    BY <1>2, <1>3
  <1>4. CASE RecordEntry
    BY <1>1, <1>2, <1>4 DEF RecordEntry
  <1>5. CASE UpdateStops
    <2> DEFINE row == [rows[open[cur].id] EXCEPT !.stop = open[cur].stop]
    <2>1. /\ cur \in DOMAIN open /\ rows[open[cur].id] \in Row
          /\ rows'[open[cur].id] = row
          /\ i # open[cur].id => rows'[i] = rows[i]
      BY <1>1, <1>5, UpdateStopsRow
    <2>2. row.stop = open[cur].stop
      BY <2>1 DEF Row
    <2>3. rows[open[cur].id].side = open[cur].side
      BY <2>1 DEF Inductive, MemoryBacked
    <2>4. Gain(open[cur].side, rows[open[cur].id].stop, open[cur].stop) >= 0
      BY <2>1 DEF Inductive, StopsAhead
    <2>5. CASE i = open[cur].id
      BY <2>1, <2>2, <2>3, <2>4, <2>5
    <2>6. CASE i # open[cur].id
      BY <1>2, <2>1, <2>6
    <2> QED BY <2>5, <2>6
  <1>6. CASE RecordExit
    <2>1. /\ rows'[open[cur].id].stop = rows[open[cur].id].stop
          /\ i # open[cur].id => rows'[i] = rows[i]
      BY <1>1, <1>6, RecordExitRow
    <2> QED BY <1>2, <2>1
  <1> QED BY <1>3, <1>4, <1>5, <1>6, WritersOfRows

\* No step changes a closed row.
LEMMA ClosedRowStep ==
    ASSUME Inductive, [Next]_vars, NEW i \in Ids, rows[i].status = "CLOSED"
    PROVE  rows'[i] = rows[i]
  <1>1. i \in 1..Len(rows) /\ rows \in Seq(Row)
    BY DEF Ids, Inductive, TypeOK
  <1>2. CASE RecordEntry
    BY <1>1, <1>2 DEF RecordEntry
  <1>3. CASE UpdateStops
    BY <1>1, <1>3, UpdateStopsRow
  <1>4. CASE RecordExit
    BY <1>1, <1>4, RecordExitRow DEF OpenIds
  <1> QED BY <1>2, <1>3, <1>4, WritersOfRows

-----------------------------------------------------------------------------
(* The theorems.                                                           *)

\* Every variable keeps its type, whatever crashes or fails.
THEOREM TypeCorrect == Spec => []TypeOK
  <1>1. Inductive => TypeOK
    BY DEF Inductive
  <1> QED BY <1>1, InductiveInvariant, PTL

\* What the engine holds in memory is always backed by an open row of its own.
THEOREM MemoryIsBacked == Spec => []MemoryBacked
  <1>1. Inductive => MemoryBacked
    BY DEF Inductive
  <1> QED BY <1>1, InductiveInvariant, PTL

\* No symbol ever has two open rows, across any crashes, restarts and failed
\* commits.
THEOREM OneRowEach == Spec => []OneRowPerSymbol
  <1>1. Inductive => OneRowPerSymbol
    BY DEF Inductive
  <1> QED BY <1>1, InductiveInvariant, PTL

\* A day that is latched as halted is flat and stays flat: no restart, retry or
\* failed commit lets an entry through afterwards.
THEOREM HaltedStaysFlat == Spec => []HaltedIsFlat
  <1>1. Inductive => HaltedIsFlat
    BY DEF Inductive
  <1> QED BY <1>1, InductiveInvariant, PTL

\* The persisted stop of an open position never loosens, although a restart
\* forgets the peak and a failed commit leaves the row behind the memory.
THEOREM StopsNeverLoosen == Spec => StopNeverLoosens
  <1>1. Inductive /\ [Next]_vars =>
          [\A i \in OpenIds : Gain(rows[i].side, rows[i].stop, rows'[i].stop) >= 0]_vars
    BY StopStep
  <1> QED BY <1>1, InductiveInvariant, PTL DEF Spec, StopNeverLoosens

\* A closed row is never rewritten or reopened.
THEOREM ClosedRowsStayFinal == Spec => ClosedRowsAreFinal
  <1>1. Inductive /\ [Next]_vars =>
          [\A i \in Ids : rows[i].status = "CLOSED" => rows'[i] = rows[i]]_vars
    BY ClosedRowStep
  <1> QED BY <1>1, InductiveInvariant, PTL DEF Spec, ClosedRowsAreFinal

-----------------------------------------------------------------------------
(* The day's guards: peak, worst drawdown and halt in the metrics table.   *)

\* Only the refresh, the day's start and the latch write to the metrics table.
LEMMA WritersOfMetrics ==
    ASSUME TypeOK, [Next]_vars
    PROVE  \/ UNCHANGED metrics
           \/ \E quotes \in Snapshots : RecomputeDaily(quotes)
           \/ GetOrCreate(day) /\ pc' \in {pc, "idle"}
           \/ SetHalted
  <1>1. CASE Boot \/ PremarketResearch \/ PremarketError
    BY <1>1 DEF Boot, EndJob, StartDay, PremarketResearch, PremarketError
  <1>2. CASE Crash \/ NextDay
    BY <1>2 DEF Crash, NextDay, database
  <1>3. CASE DbError
    BY <1>3, PricesAreSnapshot DEF DbError
  <1>4. CASE TradingCycle
    BY <1>4, PricesAreSnapshot DEF TradingCycle, BeginCycle, SkipSignal, BookFull, FillEntry, RecordEntry,
                RefreshAfterEntry, SignalsDone, SkipUnpriced, TrailStop, UpdateStops,
                KeepPosition, ExitPosition, RecordExit, EndManage, database
  <1>5. CASE Flatten
    BY <1>5, PricesAreSnapshot DEF Flatten, EndOfDayFlatten, FlattenPosition, FlattenDone, database
  <1>6. CASE UNCHANGED vars
    BY <1>6 DEF vars, database
  <1> QED BY <1>1, <1>2, <1>3, <1>4, <1>5, <1>6 DEF Next

\* A refresh raises the peak or leaves it, and never forgets a breach; a day
\* without a row stays without.
LEMMA RecomputedGuards ==
    ASSUME TypeOK, NEW m \in Metric, NEW equity \in Int
    PROVE  /\ Recomputed(m, equity).peak >= m.peak
           /\ m.breached => Recomputed(m, equity).breached
           /\ Recomputed(m, equity).exists = m.exists
           /\ ~m.exists => Recomputed(m, equity) = m
           /\ m.exists /\ IsDrawdownBreached(PeakEquity(m, equity), equity)
                => Recomputed(m, equity).breached
  BY EngineConfigAssumption DEF Recomputed, PeakEquity, Larger, WorstDrawdown, Metric

\* What a step does to the metrics: guards tighten, and rows are created but
\* never removed.
LEMMA MetricsStep ==
    ASSUME Inductive, NoRowNoGuard, [Next]_vars, NEW d \in 1..MaxDay
    PROVE  /\ metrics'[d].peak >= metrics[d].peak
           /\ metrics[d].breached => metrics'[d].breached
           /\ metrics[d].halted => metrics'[d].halted
           /\ metrics[d].exists => metrics'[d].exists
           /\ ~metrics'[d].exists => metrics'[d] = NoMetric
  <1> DEFINE m == metrics[d]
  <1>1. m \in Metric /\ m.peak \in Nat /\ TypeOK /\ day \in 1..MaxDay /\ tradeDate \in 1..MaxDay
    BY DEF Inductive, TypeOK, Metric
  <1>2. ~m.exists => m = NoMetric
    BY DEF NoRowNoGuard
  <1>3. CASE UNCHANGED metrics
    BY <1>1, <1>2, <1>3
  <1>4. CASE \E quotes \in Snapshots : RecomputeDaily(quotes)
    <2>1. PICK quotes \in Snapshots : RecomputeDaily(quotes)
      BY <1>4
    <2>2. EquityValue(quotes) \in Int
      BY <1>1, EquityIsInt
    <2>3. metrics'[d] = IF d = tradeDate THEN Recomputed(m, EquityValue(quotes)) ELSE m
      BY <1>1, <2>1 DEF RecomputeDaily, TypeOK
    <2>4. /\ Recomputed(m, EquityValue(quotes)).peak >= m.peak
          /\ m.breached => Recomputed(m, EquityValue(quotes)).breached
          /\ Recomputed(m, EquityValue(quotes)).exists = m.exists
          /\ ~m.exists => Recomputed(m, EquityValue(quotes)) = m
          /\ Recomputed(m, EquityValue(quotes)).halted = m.halted
      BY <1>1, <2>2, RecomputedGuards, RecomputedIsMetric
    <2>5. CASE d = tradeDate
      BY <1>2, <2>3, <2>4, <2>5
    <2>6. CASE d # tradeDate
      BY <1>1, <1>2, <2>3, <2>6
    <2> QED BY <2>5, <2>6
  <1>5. CASE GetOrCreate(day)
    <2>1. metrics'[d] = IF d = day /\ ~m.exists THEN NewMetric ELSE m
      BY <1>1, <1>5 DEF GetOrCreate, TypeOK
    <2> QED BY <1>1, <1>2, <2>1, EngineConfigAssumption DEF NewMetric, NoMetric
  <1>6. CASE SetHalted
    <2>1. metrics'[d] = IF d = tradeDate THEN [m EXCEPT !.halted = @ \/ m.exists] ELSE m
      BY <1>1, <1>6 DEF SetHalted, LatchedMetrics, TypeOK
    <2> QED BY <1>1, <1>2, <2>1 DEF Metric, NoMetric
  <1> QED BY <1>3, <1>4, <1>5, <1>6, <1>1, WritersOfMetrics

\* A halted day has its breach on record after every step.
LEMMA HaltedForCauseStep ==
    ASSUME Inductive, NoRowNoGuard, KillForCause, HaltedForCause, [Next]_vars
    PROVE  HaltedForCause'
  <1> SUFFICES ASSUME NEW d \in 1..MaxDay, metrics'[d].halted PROVE metrics'[d].breached
    BY DEF HaltedForCause
  <1>1. metrics[d].breached => metrics'[d].breached
    BY MetricsStep
  <1>2. TypeOK /\ metrics[d] \in Metric
    BY DEF Inductive, TypeOK
  <1>3. CASE metrics[d].halted
    BY <1>1, <1>3 DEF HaltedForCause
  <1>4. CASE ~metrics[d].halted
    <2>1. ~UNCHANGED metrics
      BY <1>4
    <2>2. ~\E quotes \in Snapshots : RecomputeDaily(quotes)
      BY <1>2, <1>4, RecomputeDailyStep
    <2>3. ~GetOrCreate(day)
      BY <1>2, <1>4, GetOrCreateStep DEF TypeOK
    <2>4. SetHalted
      BY <2>1, <2>2, <2>3, WritersOfMetrics, <1>2
    <2>5. d = tradeDate /\ metrics[d].exists
      <3>1. metrics' = [metrics EXCEPT ![tradeDate].halted = @ \/ metrics[tradeDate].exists]
        BY <2>4 DEF SetHalted, LatchedMetrics
      <3>2. d = tradeDate
        BY <1>2, <1>4, <3>1 DEF TypeOK
      <3>3. metrics'[d].halted = (metrics[d].halted \/ metrics[d].exists)
        BY <1>2, <3>1, <3>2 DEF TypeOK, Metric
      <3> QED BY <1>4, <3>2, <3>3
    <2>6. pc = "latch" /\ closing = "KILL_SWITCH"
      BY <2>4 DEF SetHalted, Inductive, Trading
    <2> QED BY <1>1, <2>5, <2>6 DEF KillForCause
  <1> QED BY <1>3, <1>4

\* The two ways to be on the path of the kill switch: the account guard has just
\* sent the cycle there, or it was there already.
LEMMA KillPathStep ==
    ASSUME Inductive, [Next]_vars, closing' = "KILL_SWITCH",
           pc' \in {"flatten", "exit", "latch"}
    PROVE  \/ \E quotes \in Snapshots, signals \in Arrivals :
                 BeginCycle(quotes, signals) /\ pc' = "flatten"
           \/ /\ closing = "KILL_SWITCH" /\ pc \in {"flatten", "exit", "latch"}
              /\ UNCHANGED tradeDate
              /\ UNCHANGED metrics \/ RecomputeDaily(prices)
  <1>1. CASE Boot \/ Crash \/ DbError
    BY <1>1 DEF Boot, Crash, DbError, EndJob
  <1>2. CASE NextDay \/ PremarketResearch \/ PremarketError
    BY <1>2 DEF NextDay, PremarketResearch, PremarketError, locals
  <1>3. CASE \E quotes \in Snapshots, signals \in Arrivals : BeginCycle(quotes, signals)
    BY <1>3 DEF BeginCycle, locals
  <1>4. CASE RefreshAfterEntry \/ SignalsDone \/ UpdateStops \/ KeepPosition \/ EndManage
    BY <1>4 DEF RefreshAfterEntry, SignalsDone, UpdateStops, KeepPosition, EndManage, EndJob
  <1>5. CASE RecordEntry \/ (\E s \in Signals : SkipSignal(s) \/ BookFull(s) \/ FillEntry(s))
    BY <1>5 DEF RecordEntry, SkipSignal, BookFull, FillEntry
  <1>6. CASE \E s \in Symbols : SkipUnpriced(s) \/ TrailStop(s)
    BY <1>6 DEF SkipUnpriced, TrailStop
  <1>7. CASE ExitPosition
    BY <1>7, NoneIsNoReason DEF ExitPosition, Inductive, Trading, CyclePcs
  <1>8. CASE RecordExit \/ (\E s \in Symbols : FlattenPosition(s)) \/ FlattenDone
    BY <1>8 DEF RecordExit, FlattenPosition, FlattenDone, database, memory, locals, EndJob
  <1>9. CASE EndOfDayFlatten \/ SetHalted
    BY <1>9 DEF EndOfDayFlatten, SetHalted, EndJob
  <1>10. CASE UNCHANGED vars
    BY <1>10 DEF vars, database, memory, locals
  <1> QED BY <1>1, <1>2, <1>3, <1>4, <1>5, <1>6, <1>7, <1>8, <1>9, <1>10
          DEF Next, TradingCycle, Flatten

\* The kill switch sees its drawdown in the very row it has just refreshed, and
\* no later refresh takes it back.
LEMMA KillForCauseStep ==
    ASSUME Inductive, NoRowNoGuard, KillForCause, [Next]_vars
    PROVE  KillForCause'
  <1> SUFFICES ASSUME closing' = "KILL_SWITCH", pc' \in {"flatten", "exit", "latch"},
                      metrics'[tradeDate'].exists
               PROVE  metrics'[tradeDate'].breached
    BY DEF KillForCause
  <1>1. TypeOK /\ tradeDate \in 1..MaxDay /\ metrics[tradeDate] \in Metric
    BY DEF Inductive, TypeOK
  <1>2. CASE \E quotes \in Snapshots, signals \in Arrivals :
               BeginCycle(quotes, signals) /\ pc' = "flatten"
    <2>1. PICK quotes \in Snapshots, signals \in Arrivals :
                BeginCycle(quotes, signals) /\ pc' = "flatten"
      BY <1>2
    <2> DEFINE m == metrics[tradeDate]
               equity == EquityValue(quotes)
    <2>2. tradeDate' = tradeDate /\ pc = "idle"
      BY <2>1 DEF BeginCycle, memory
    <2>3. metrics'[tradeDate] = Recomputed(m, equity)
      BY <1>1, <2>1 DEF BeginCycle, RecomputeDaily, TypeOK
    <2>4. IsDrawdownBreached(PeakEquity(metrics'[tradeDate], equity), equity)
      BY <2>1, <2>2 DEF BeginCycle
    <2>5. equity \in Int
      BY <1>1, EquityIsInt
    <2>6. m.exists
      BY <1>1, <2>2, <2>3, <2>5, RecomputedGuards
    <2>7. PeakEquity(metrics'[tradeDate], equity) = PeakEquity(m, equity)
      <3>1. metrics'[tradeDate].peak = PeakEquity(m, equity)
        BY <1>1, <2>3, <2>6 DEF Recomputed, Metric
      <3> QED BY <1>1, <2>5, <3>1, EngineConfigAssumption DEF PeakEquity, Larger, Metric
    <2> QED BY <1>1, <2>2, <2>3, <2>4, <2>5, <2>6, <2>7, RecomputedGuards
  <1>3. CASE /\ closing = "KILL_SWITCH" /\ pc \in {"flatten", "exit", "latch"}
             /\ UNCHANGED tradeDate
             /\ UNCHANGED metrics \/ RecomputeDaily(prices)
    <2>1. metrics[tradeDate].exists => metrics[tradeDate].breached
      BY <1>3 DEF KillForCause
    <2>2. CASE UNCHANGED metrics
      BY <1>3, <2>1, <2>2
    <2>3. CASE RecomputeDaily(prices)
      <3>1. EquityValue(prices) \in Int
        BY <1>1, EquityIsInt, PricesAreSnapshot
      <3>2. metrics'[tradeDate] = Recomputed(metrics[tradeDate], EquityValue(prices))
        BY <1>1, <2>3 DEF RecomputeDaily, TypeOK
      <3> QED BY <1>1, <1>3, <2>1, <3>1, <3>2, RecomputedGuards
    <2> QED BY <1>3, <2>2, <2>3
  <1> QED BY <1>2, <1>3, KillPathStep

\* A fill leaves the book as its guard found it.
LEMMA RoomForTicketStep ==
    ASSUME RoomForTicket, [Next]_vars
    PROVE  RoomForTicket'
  <1> SUFFICES ASSUME pc' = "record" PROVE CanOpenNew(Cardinality(DOMAIN open'))
    BY DEF RoomForTicket, CanOpenNew
  <1>1. CASE \E s \in Signals : FillEntry(s)
    BY <1>1 DEF FillEntry
  <1>2. CASE UNCHANGED vars
    BY <1>2 DEF vars, memory, RoomForTicket
  <1>3. CASE Boot \/ Crash \/ DbError \/ NextDay \/ PremarketResearch \/ PremarketError
    BY <1>3 DEF Boot, Crash, DbError, EndJob, NextDay, PremarketResearch, PremarketError
  <1>4. CASE TradingCycle /\ ~\E s \in Signals : FillEntry(s)
    BY <1>4 DEF TradingCycle, BeginCycle, SkipSignal, BookFull, RecordEntry,
                RefreshAfterEntry, SignalsDone, SkipUnpriced, TrailStop, UpdateStops,
                KeepPosition, ExitPosition, RecordExit, EndManage, EndJob
  <1>5. CASE Flatten
    BY <1>5 DEF Flatten, EndOfDayFlatten, FlattenPosition, FlattenDone, SetHalted, EndJob
  <1> QED BY <1>1, <1>2, <1>3, <1>4, <1>5 DEF Next

-----------------------------------------------------------------------------
(* What a running process remembers.                                       *)

\* Steps that leave rows and book alone, outside a stop's write.
Quiet ==
    /\ UNCHANGED <<rows, open>>
    /\ pc \notin {"down", "ratchet"}

LEMMA QuietRemembers ==
    ASSUME NothingForgotten, Quiet
    PROVE  NothingForgotten'
  BY DEF NothingForgotten, Quiet, OpenIds, Ids

\* start_day reads every open row, and its stop with it.
LEMMA StartDayRemembers ==
    ASSUME Inductive, UNCHANGED rows, open' = RehydratedBook
    PROVE  NothingForgotten'
  <1>1. TypeOK /\ OneRowPerSymbol
    BY DEF Inductive
  <1>2. OpenIds' = OpenIds
    BY DEF OpenIds, Ids
  <1>3. \A i \in OpenIds : /\ rows[i].symbol \in DOMAIN open'
                           /\ open'[rows[i].symbol].id = i
                           /\ open'[rows[i].symbol].stop = rows[i].stop
    <2> TAKE i \in OpenIds
    <2>1. rows[i].symbol \in DOMAIN open'
      BY DEF RehydratedBook
    <2>2. open'[rows[i].symbol] = PositionOf(LatestOpen(rows[i].symbol))
      BY <2>1 DEF RehydratedBook
    <2>3. /\ LatestOpen(rows[i].symbol) = i /\ PositionOf(i).id = i
          /\ PositionOf(i).stop = rows[i].stop
      BY <1>1, RebuiltPosition
    <2> QED BY <2>1, <2>2, <2>3
  <1> QED BY <1>2, <1>3 DEF NothingForgotten

\* Row and dict entry of a new position appear together.
LEMMA RecordEntryRemembers ==
    ASSUME Inductive, NothingForgotten, RecordEntry
    PROVE  NothingForgotten'
  <1> DEFINE n == Len(rows) + 1
             sym == ticket.symbol
  <1>1. /\ TypeOK /\ ticket \in Row /\ ticket.status = "OPEN"
        /\ sym \notin DOMAIN open /\ pc = "record"
    BY DEF Inductive, Loops, RecordEntry
  <1>2. /\ rows' = Append(rows, ticket)
        /\ Len(rows) \in Nat /\ Len(rows') = n
        /\ rows'[n] = ticket
        /\ \A i \in 1..Len(rows) : rows'[i] = rows[i]
    BY <1>1 DEF RecordEntry, TypeOK
  <1>3. /\ DOMAIN open' = DOMAIN open \cup {sym}
        /\ open'[sym].id = n /\ open'[sym].stop = ticket.stop
        /\ \A s \in DOMAIN open : open'[s] = open[s]
    BY <1>1 DEF RecordEntry
  <1>4. OpenIds' = OpenIds \cup {n} /\ \A i \in OpenIds : i \in 1..Len(rows)
    BY <1>1, <1>2 DEF OpenIds, Ids
  <1> QED BY <1>1, <1>2, <1>3, <1>4 DEF NothingForgotten

\* Memory moves ahead of a row by the one stop that is written next.
LEMMA TrailStopRemembers ==
    ASSUME Inductive, NothingForgotten, NEW s \in Symbols, TrailStop(s)
    PROVE  NothingForgotten'
  <1> DEFINE new == Trailed(open[s], prices[s])
  <1>1. s \in DOMAIN open /\ open[s] \in Position /\ pc = "manage"
    BY DEF TrailStop, Inductive, Loops, TypeOK
  <1>2. /\ DOMAIN open' = DOMAIN open /\ open'[s] = new
        /\ \A t \in DOMAIN open : t # s => open'[t] = open[t]
        /\ cur' = s
        /\ new.stop = open[s].stop \/ pc' = "ratchet"
    BY <1>1 DEF TrailStop, StopMoved, TypeOK
  <1>3. new.id = open[s].id
    BY <1>1 DEF Trailed, Position
  <1>4. OpenIds' = OpenIds /\ UNCHANGED rows
    BY DEF TrailStop, database, OpenIds, Ids
  <1> QED BY <1>1, <1>2, <1>3, <1>4 DEF NothingForgotten

\* ... and the write brings the row up to it.
LEMMA UpdateStopsRemembers ==
    ASSUME Inductive, NothingForgotten, UpdateStops
    PROVE  NothingForgotten'
  <1> DEFINE id == open[cur].id
             row == [rows[id] EXCEPT !.stop = open[cur].stop]
  <1>1. /\ cur \in DOMAIN open
        /\ id \in 1..Len(rows) /\ rows[id].status = "OPEN" /\ rows[id].symbol = cur
        /\ rows[id] \in Row
        /\ Len(rows') = Len(rows)
        /\ rows'[id] = row
        /\ \A i \in 1..Len(rows) : i # id => rows'[i] = rows[i]
    BY UpdateStopsRow
  <1>2. row.stop = open[cur].stop /\ row.symbol = cur /\ row.status = "OPEN"
    BY <1>1 DEF Row
  <1>3. OpenIds' = OpenIds /\ \A i \in OpenIds : i \in 1..Len(rows)
    <2>1. Ids' = Ids
      BY <1>1 DEF Ids
    <2>2. \A i \in Ids : rows'[i].status = rows[i].status
      BY <1>1, <1>2 DEF Ids
    <2> QED BY <2>1, <2>2 DEF OpenIds, Ids
  <1>4. pc = "ratchet" /\ UNCHANGED open
    BY DEF UpdateStops, memory
  <1>5. \A i \in OpenIds : /\ rows[i].symbol \in DOMAIN open /\ open[rows[i].symbol].id = i
                           /\ i # id => rows[i].symbol # cur
    BY <1>1, <1>4 DEF NothingForgotten
  <1>6. \A i \in OpenIds :
          /\ rows'[i].symbol = rows[i].symbol
          /\ open[rows[i].symbol].stop = rows'[i].stop
    <2> TAKE i \in OpenIds
    <2>1. CASE i = id
      BY <1>1, <1>2, <2>1
    <2>2. CASE i # id
      <3>1. rows'[i] = rows[i]
        BY <1>1, <1>3, <2>2
      <3> QED BY <1>4, <1>5, <2>2, <3>1 DEF NothingForgotten
    <2> QED BY <2>1, <2>2
  <1> QED BY <1>3, <1>4, <1>5, <1>6 DEF NothingForgotten

\* A closed row and its dict entry go together.
LEMMA RecordExitRemembers ==
    ASSUME Inductive, NothingForgotten, RecordExit
    PROVE  NothingForgotten'
  <1> DEFINE id == open[cur].id
  <1>1. /\ id \in 1..Len(rows) /\ id \in OpenIds /\ rows[id].symbol = cur
        /\ Len(rows') = Len(rows)
        /\ rows'[id].status = "CLOSED"
        /\ \A i \in 1..Len(rows) : i # id => rows'[i] = rows[i]
    BY RecordExitRow
  <1>2. \A i \in OpenIds' : i \in OpenIds /\ i # id /\ rows'[i] = rows[i]
    BY <1>1 DEF OpenIds, Ids
  <1>3. \A i \in OpenIds' : rows[i].symbol # cur
    BY <1>1, <1>2 DEF Inductive, OneRowPerSymbol
  <1>4. /\ DOMAIN open' = DOMAIN open \ {cur}
        /\ \A s \in DOMAIN open' : open'[s] = open[s]
        /\ pc = "exit"
    BY DEF RecordExit, RemainingBook
  <1> QED BY <1>2, <1>3, <1>4 DEF NothingForgotten

\* As long as no commit fails, a running process knows every open row, and
\* every stop but the one it is writing.
LEMMA RememberedStep ==
    ASSUME Inductive, Remembered, [Next]_vars
    PROVE  Remembered'
  <1>1. dbErrors \in Nat
    BY EngineConfigAssumption DEF Inductive, TypeOK
  <1> SUFFICES ASSUME dbErrors' = 0 PROVE NothingForgotten'
    BY DEF Remembered
  <1>2. CASE Boot \/ PremarketResearch
    BY <1>2, StartDayRemembers DEF Boot, PremarketResearch, StartDay
  <1>3. CASE Crash
    BY <1>3 DEF Crash, NothingForgotten
  <1>4. CASE DbError \/ PremarketError
    BY <1>1, <1>4 DEF DbError, PremarketError
  <1>5. ASSUME NextDay \/ UNCHANGED vars PROVE NothingForgotten'
    <2>1. UNCHANGED <<dbErrors, rows, open, pc, cur>>
      BY <1>5 DEF NextDay, vars, world, database, memory, locals
    <2>2. NothingForgotten
      BY <2>1 DEF Remembered
    <2> QED BY <2>1, <2>2 DEF NothingForgotten, OpenIds, Ids
  <1>6. ASSUME TradingCycle PROVE NothingForgotten'
    <2>1. NothingForgotten
      BY <1>6 DEF TradingCycle, BeginCycle, SkipSignal, BookFull, FillEntry, RecordEntry,
                  RefreshAfterEntry, SignalsDone, SkipUnpriced, TrailStop, UpdateStops,
                  KeepPosition, ExitPosition, RecordExit, EndManage, world, Remembered
    <2>2. \/ Quiet \/ RecordEntry \/ UpdateStops \/ RecordExit
          \/ \E s \in Symbols : TrailStop(s)
      BY <1>6 DEF TradingCycle, BeginCycle, SkipSignal, BookFull, FillEntry,
                  RefreshAfterEntry, SignalsDone, SkipUnpriced, KeepPosition, ExitPosition,
                  EndManage, database, memory, Quiet
    <2> QED BY <2>1, <2>2, QuietRemembers, RecordEntryRemembers, UpdateStopsRemembers,
               RecordExitRemembers, TrailStopRemembers
  <1>7. ASSUME Flatten PROVE NothingForgotten'
    <2>1. NothingForgotten
      BY <1>7 DEF Flatten, EndOfDayFlatten, FlattenPosition, FlattenDone, SetHalted, world,
                  Remembered
    <2>2. Quiet
      BY <1>7 DEF Flatten, EndOfDayFlatten, FlattenPosition, FlattenDone, SetHalted,
                  database, memory, Quiet
    <2> QED BY <2>1, <2>2, QuietRemembers
  <1> QED BY <1>2, <1>3, <1>4, <1>5, <1>6, <1>7 DEF Next

-----------------------------------------------------------------------------
\* Both invariants together, through every step.
THEOREM GuardedInvariant == Spec => [](Inductive /\ Guarded)
  <1>1. Init => Guarded
    <2> SUFFICES ASSUME Init PROVE Guarded
      OBVIOUS
    <2>1. NoRowNoGuard /\ HaltedForCause
      BY DEF Init, NoRowNoGuard, HaltedForCause, NoMetric
    <2>2. KillForCause /\ RoomForTicket /\ Remembered
      BY DEF Init, KillForCause, RoomForTicket, Remembered, NothingForgotten
    <2> QED BY <2>1, <2>2 DEF Guarded
  <1>2. Inductive /\ Guarded /\ [Next]_vars => Guarded'
    <2> SUFFICES ASSUME Inductive, Guarded, [Next]_vars PROVE Guarded'
      OBVIOUS
    <2>1. NoRowNoGuard /\ KillForCause /\ HaltedForCause /\ RoomForTicket /\ Remembered
      BY DEF Guarded
    <2>2. NoRowNoGuard'
      <3>1. \A d \in 1..MaxDay : ~metrics'[d].exists => metrics'[d] = NoMetric
        BY <2>1, MetricsStep
      <3> QED BY <3>1 DEF NoRowNoGuard
    <2> QED BY <2>1, <2>2, KillForCauseStep, HaltedForCauseStep, RoomForTicketStep,
               RememberedStep DEF Guarded
  <1> QED BY <1>1, <1>2, InductiveInit, InductiveNext, PTL DEF Spec

\* Within a day the persisted peak and worst drawdown never shrink and a halt
\* is never lifted, through crashes, restarts and failed commits.
THEOREM GuardsStayTight == Spec => GuardsOnlyTighten
  <1>1. Inductive /\ Guarded /\ [Next]_vars =>
          [\A d \in 1..MaxDay :
             /\ metrics'[d].peak >= metrics[d].peak
             /\ metrics[d].breached => metrics'[d].breached
             /\ metrics[d].halted => metrics'[d].halted]_vars
    BY MetricsStep DEF Guarded
  <1> QED BY <1>1, GuardedInvariant, PTL DEF Spec, GuardsOnlyTighten

\* No day is latched as halted without a drawdown at the limit on its record.
THEOREM HaltsHaveCause == Spec => []HaltedForCause
  <1>1. Guarded => HaltedForCause
    BY DEF Guarded
  <1> QED BY <1>1, GuardedInvariant, PTL

\* Until a commit fails, a running process manages every open row at its own
\* stop, however often it has crashed and come back.
THEOREM EngineRemembers == Spec => [](dbErrors = 0 => NothingForgotten)
  <1>1. Guarded => (dbErrors = 0 => NothingForgotten)
    BY DEF Guarded, Remembered
  <1> QED BY <1>1, GuardedInvariant, PTL

-----------------------------------------------------------------------------
(* The engine implements the abstract desk.                                *)

\* Read through the table, a symbol with an open row is held on the side of that
\* row, any other is flat.
LEMMA BookOfRows ==
    ASSUME TypeOK, OneRowPerSymbol
    PROVE  /\ \A i \in OpenIds : /\ rows[i].symbol \in Symbols
                                 /\ BookOf(rows[i].symbol) = rows[i].side
                                 /\ rows[i].side \in {"BUY", "SELL"}
           /\ \A s \in Symbols : (\A i \in OpenIds : rows[i].symbol # s) => BookOf(s) = "flat"
  <1>1. \A i \in OpenIds : rows[i] \in Row
    BY DEF OpenIds, Ids, TypeOK
  <1>2. \A i \in OpenIds : BookOf(rows[i].symbol) = rows[i].side
    <2> TAKE i \in OpenIds
    <2> DEFINE s == rows[i].symbol
    <2>1. \A j \in OpenIds : rows[j].symbol = s => j = i
      BY DEF OneRowPerSymbol
    <2>2. (CHOOSE j \in OpenIds : rows[j].symbol = s) = i
      BY <2>1
    <2> QED BY <2>2 DEF BookOf
  <1> QED BY <1>1, <1>2 DEF BookOf, Row, Side

\* The same after a step.
LEMMA BookOfRowsNext ==
    ASSUME TypeOK', OneRowPerSymbol', NEW s \in Symbols
    PROVE  /\ \A i \in OpenIds' : rows'[i].symbol = s => BookOf(s)' = rows'[i].side
           /\ (\A i \in OpenIds' : rows'[i].symbol # s) => BookOf(s)' = "flat"
  <1>1. ASSUME NEW i \in OpenIds', rows'[i].symbol = s
        PROVE  BookOf(s)' = rows'[i].side
    <2>1. \A j \in OpenIds' : rows'[j].symbol = s => j = i
      BY <1>1 DEF OneRowPerSymbol
    <2>2. (CHOOSE j \in OpenIds' : rows'[j].symbol = s) = i
      BY <1>1, <2>1
    <2> QED BY <1>1, <2>2 DEF BookOf
  <1>2. (\A i \in OpenIds' : rows'[i].symbol # s) => BookOf(s)' = "flat"
    BY DEF BookOf
  <1> QED BY <1>1, <1>2

\* A step that leaves rows, calendar and latch alone is invisible on the desk.
LEMMA DeskStutters ==
    ASSUME UNCHANGED <<rows, day>>, metrics'[day].halted = metrics[day].halted
    PROVE  UNCHANGED Desk!deskVars
  <1>1. \A s \in Symbols : BookOf(s)' = BookOf(s)
    BY DEF BookOf, OpenIds, Ids
  <1> QED BY <1>1 DEF Desk!deskVars

\* A recorded entry is the desk's Enter: the halt is known to the engine, the
\* symbol is flat and the slot it was filled for is still free.
LEMMA RecordEntryEnters ==
    ASSUME Inductive, Guarded, RecordEntry, Inductive',
           NEW sym, sym = ticket.symbol, NEW side, side = ticket.side
    PROVE  Desk!Enter(sym, side)
  <1> DEFINE n == Len(rows) + 1
  <1>1. /\ TypeOK /\ OneRowPerSymbol /\ ticket \in Row /\ ticket.status = "OPEN"
        /\ sym \notin DOMAIN open /\ sym \in Symbols /\ pc = "record"
    BY DEF Inductive, Loops, RecordEntry, Row
  <1>2. /\ rows' = Append(rows, ticket)
        /\ Len(rows) \in Nat /\ Len(rows') = n
        /\ rows'[n] = ticket
        /\ \A i \in 1..Len(rows) : rows'[i] = rows[i]
    BY <1>1 DEF RecordEntry, TypeOK
  <1>3. OpenIds' = OpenIds \cup {n} /\ \A i \in OpenIds : i \in 1..Len(rows)
    BY <1>1, <1>2 DEF OpenIds, Ids
  <1>4. researched = day /\ ~halted
    BY <1>1 DEF Inductive, Trading, CyclePcs
  <1>5. ~metrics[day].halted
    BY <1>1, <1>4 DEF Inductive, Started
  <1>6. \A i \in OpenIds : rows[i].symbol \in DOMAIN open
    BY <1>1, <1>4 DEF Inductive, Started
  <1>7. BookOf(sym) = "flat"
    BY <1>1, <1>6, BookOfRows
  <1>8. Desk!Held = DOMAIN open
    <2>1. \A s \in DOMAIN open : /\ s \in Symbols
                                 /\ open[s].id \in OpenIds /\ rows[open[s].id].symbol = s
      BY DEF Inductive, MemoryBacked, TypeOK
    <2>2. \A s \in Symbols : BookOf(s) # "flat" <=> s \in DOMAIN open
      <3> TAKE s \in Symbols
      <3>1. CASE s \in DOMAIN open
        BY <1>1, <2>1, <3>1, BookOfRows
      <3>2. CASE s \notin DOMAIN open
        BY <1>1, <1>6, <3>2, BookOfRows
      <3> QED BY <3>1, <3>2
    <2> QED BY <2>1, <2>2 DEF Desk!Held
  <1>9. Cardinality(DOMAIN open) < MaxOpenPositions
    BY <1>1 DEF Guarded, RoomForTicket, CanOpenNew
  <1>10. [s \in Symbols |-> BookOf(s)]' = [[s \in Symbols |-> BookOf(s)] EXCEPT ![sym] = side]
    <2>1. TypeOK' /\ OneRowPerSymbol'
      BY DEF Inductive
    <2>2. BookOf(sym)' = side
      BY <1>1, <1>2, <1>3, <2>1, BookOfRowsNext
    <2>3. \A s \in Symbols : s # sym => BookOf(s)' = BookOf(s)
      <3> SUFFICES ASSUME NEW s \in Symbols, s # sym PROVE BookOf(s)' = BookOf(s)
        OBVIOUS
      <3>1. CASE \E i \in OpenIds : rows[i].symbol = s
        <4>1. PICK i \in OpenIds : rows[i].symbol = s
          BY <3>1
        <4>2. i \in OpenIds' /\ rows'[i] = rows[i]
          BY <1>2, <1>3, <4>1
        <4> QED BY <1>1, <2>1, <4>1, <4>2, BookOfRows, BookOfRowsNext
      <3>2. CASE \A i \in OpenIds : rows[i].symbol # s
        <4>1. \A i \in OpenIds' : rows'[i].symbol # s
          BY <1>2, <1>3, <3>2
        <4> QED BY <1>1, <2>1, <3>2, <4>1, BookOfRows, BookOfRowsNext
      <3> QED BY <3>1, <3>2
    <2> QED BY <1>1, <2>2, <2>3
  <1>11. UNCHANGED <<day, metrics>>
    BY DEF RecordEntry, world
  <1>12. Desk!Cardinality(Desk!Held) < MaxOpenPositions
    BY <1>8, <1>9 DEF Desk!Cardinality, Cardinality
  <1> QED BY <1>1, <1>5, <1>7, <1>10, <1>11, <1>12 DEF Desk!Enter

\* A recorded exit is the desk's Exit.
LEMMA RecordExitExits ==
    ASSUME Inductive, RecordExit, Inductive', NEW sym, sym = cur
    PROVE  sym \in Symbols /\ Desk!Exit(sym)
  <1> DEFINE id == open[sym].id
  <1>1. /\ TypeOK /\ OneRowPerSymbol /\ sym \in DOMAIN open /\ sym \in Symbols
        /\ id \in OpenIds /\ rows[id].symbol = sym
        /\ Len(rows') = Len(rows)
        /\ rows'[id].status = "CLOSED"
        /\ \A i \in 1..Len(rows) : i # id => rows'[i] = rows[i]
    BY RecordExitRow DEF Inductive, TypeOK
  <1>2. OpenIds' = OpenIds \ {id} /\ \A i \in OpenIds' : rows'[i] = rows[i]
    BY <1>1 DEF OpenIds, Ids
  <1>3. TypeOK' /\ OneRowPerSymbol'
    BY DEF Inductive
  <1>4. BookOf(sym) # "flat"
    BY <1>1, BookOfRows
  <1>5. BookOf(sym)' = "flat"
    <2>1. \A i \in OpenIds' : rows'[i].symbol # sym
      BY <1>1, <1>2 DEF OneRowPerSymbol
    <2> QED BY <1>1, <1>3, <2>1, BookOfRowsNext
  <1>6. \A s \in Symbols : s # sym => BookOf(s)' = BookOf(s)
    <2> SUFFICES ASSUME NEW s \in Symbols, s # sym PROVE BookOf(s)' = BookOf(s)
      OBVIOUS
    <2>1. CASE \E i \in OpenIds : rows[i].symbol = s
      <3>1. PICK i \in OpenIds : rows[i].symbol = s
        BY <2>1
      <3>2. i \in OpenIds' /\ rows'[i] = rows[i]
        BY <1>1, <1>2, <3>1
      <3> QED BY <1>1, <1>3, <3>1, <3>2, BookOfRows, BookOfRowsNext
    <2>2. CASE \A i \in OpenIds : rows[i].symbol # s
      <3>1. \A i \in OpenIds' : rows'[i].symbol # s
        BY <1>2, <2>2
      <3> QED BY <1>1, <1>3, <2>2, <3>1, BookOfRows, BookOfRowsNext
    <2> QED BY <2>1, <2>2
  <1>7. UNCHANGED <<day, metrics>>
    BY DEF RecordExit, world
  <1> QED BY <1>1, <1>4, <1>5, <1>6, <1>7 DEF Desk!Exit

\* The stop of a row is out of the desk's sight.
LEMMA UpdateStopsInvisible ==
    ASSUME Inductive, UpdateStops, Inductive'
    PROVE  UNCHANGED Desk!deskVars
  <1> DEFINE id == open[cur].id
  <1>1. /\ TypeOK /\ OneRowPerSymbol
        /\ id \in 1..Len(rows) /\ rows[id] \in Row
        /\ Len(rows') = Len(rows)
        /\ rows'[id] = [rows[id] EXCEPT !.stop = open[cur].stop]
        /\ \A i \in 1..Len(rows) : i # id => rows'[i] = rows[i]
    BY UpdateStopsRow DEF Inductive
  <1>2. \A i \in 1..Len(rows) : /\ rows'[i].symbol = rows[i].symbol
                                /\ rows'[i].status = rows[i].status
                                /\ rows'[i].side = rows[i].side
    BY <1>1 DEF Row
  <1>3. OpenIds' = OpenIds /\ \A i \in OpenIds : i \in 1..Len(rows)
    BY <1>1, <1>2 DEF OpenIds, Ids
  <1>4. TypeOK' /\ OneRowPerSymbol'
    BY DEF Inductive
  <1>5. \A s \in Symbols : BookOf(s)' = BookOf(s)
    <2> TAKE s \in Symbols
    <2>1. CASE \E i \in OpenIds : rows[i].symbol = s
      BY <1>1, <1>2, <1>3, <1>4, <2>1, BookOfRows, BookOfRowsNext
    <2>2. CASE \A i \in OpenIds : rows[i].symbol # s
      BY <1>1, <1>2, <1>3, <1>4, <2>2, BookOfRows, BookOfRowsNext
    <2> QED BY <2>1, <2>2
  <1>6. UNCHANGED <<day, metrics>>
    BY DEF UpdateStops, world
  <1> QED BY <1>5, <1>6 DEF Desk!deskVars

\* The latch is the desk's Halt: nothing is held any more.  On a day without a
\* metrics row it goes unseen.
LEMMA SetHaltedHalts ==
    ASSUME Inductive, SetHalted
    PROVE  Desk!Halt \/ UNCHANGED Desk!deskVars
  <1>1. /\ TypeOK /\ OneRowPerSymbol /\ tradeDate = day /\ OpenIds = {}
        /\ UNCHANGED <<day, rows>>
    <2>1. pc = "latch" /\ researched = day /\ DOMAIN open = {}
      BY DEF SetHalted, Inductive, Trading, Loops
    <2> QED BY <2>1 DEF Inductive, Started, SetHalted, world
  <1>2. \A s \in Symbols : BookOf(s) = "flat" /\ BookOf(s)' = BookOf(s)
    BY <1>1 DEF BookOf, OpenIds, Ids
  <1>3. metrics' = [metrics EXCEPT ![day].halted = @ \/ metrics[day].exists]
    BY <1>1 DEF SetHalted, LatchedMetrics
  <1>4. metrics[day] \in Metric /\ day \in 1..MaxDay
    BY <1>1 DEF TypeOK
  <1>5. metrics'[day].halted = (metrics[day].halted \/ metrics[day].exists)
    BY <1>1, <1>3, <1>4 DEF TypeOK, Metric
  <1>6. CASE metrics[day].exists \/ metrics[day].halted
    <2>1. Desk!Held = {}
      BY <1>2 DEF Desk!Held
    <2>2. metrics'[day'].halted = TRUE
      BY <1>1, <1>5, <1>6
    <2> QED BY <1>1, <1>2, <2>1, <2>2 DEF Desk!Halt
  <1>7. CASE ~metrics[day].exists /\ ~metrics[day].halted
    <2>1. metrics'[day].halted = metrics[day].halted
      BY <1>4, <1>5, <1>7 DEF Metric
    <2> QED BY <1>1, <2>1, DeskStutters
  <1> QED BY <1>6, <1>7

\* Midnight is the desk's NewDay.
LEMMA NextDayStartsAfresh ==
    ASSUME Inductive, NextDay
    PROVE  Desk!NewDay
  <1>1. /\ day' = day + 1 /\ day' \in 1..MaxDay /\ day \in Nat
        /\ UNCHANGED <<rows, metrics>>
    BY EngineConfigAssumption DEF NextDay, database, Inductive, TypeOK
  <1>2. \A s \in Symbols : BookOf(s)' = BookOf(s)
    BY <1>1 DEF BookOf, OpenIds, Ids
  <1>3. metrics'[day'].halted = FALSE
    <2>1. metrics[day + 1] \in Metric /\ ~metrics[day + 1].halted
      BY <1>1 DEF Inductive, Calendar, TypeOK
    <2> QED BY <1>1, <2>1 DEF Metric
  <1> QED BY <1>1, <1>2, <1>3 DEF Desk!NewDay

\* Every other step leaves what the desk shows.
LEMMA OtherStepsInvisible ==
    ASSUME Inductive, Guarded, [Next]_vars, ~NextDay, UNCHANGED rows, ~SetHalted
    PROVE  UNCHANGED Desk!deskVars
  <1>1. UNCHANGED day
    BY DEF Next, Boot, Crash, DbError, PremarketResearch, PremarketError, TradingCycle,
           BeginCycle, SkipSignal, BookFull, FillEntry, RecordEntry, RefreshAfterEntry,
           SignalsDone, SkipUnpriced, TrailStop, UpdateStops, KeepPosition, ExitPosition,
           RecordExit, EndManage, Flatten, EndOfDayFlatten, FlattenPosition, FlattenDone,
           vars, world
  <1>2. TypeOK /\ day \in 1..MaxDay /\ metrics[day].halted \in BOOLEAN
    BY DEF Inductive, TypeOK, Metric
  <1>3. metrics[day].halted => metrics'[day].halted
    BY <1>2, MetricsStep DEF Guarded
  <1>4. metrics'[day].halted = metrics[day].halted
    <2>1. CASE UNCHANGED metrics
      BY <2>1
    <2>2. CASE \E quotes \in Snapshots : RecomputeDaily(quotes)
      BY <1>2, <2>2, RecomputeDailyStep
    <2>3. CASE GetOrCreate(day)
      <3>1. /\ metrics'[day].halted => metrics[day].halted
            /\ metrics'[day] \in Metric
        BY <1>2, <2>3, GetOrCreateStep
      <3> QED BY <1>2, <1>3, <3>1 DEF Metric
    <2> QED BY <2>1, <2>2, <2>3, <1>2, WritersOfMetrics
  <1> QED BY <1>1, <1>4, DeskStutters

\* Read through its database, the engine is the abstract desk: every step of it,
\* crashes, restarts and failed commits included, enters, exits, halts, begins
\* a day, or is invisible.
THEOREM EngineImplementsDesk == Spec => ImplementsDesk
  <1>1. Init => Desk!DeskInit
    <2> SUFFICES ASSUME Init PROVE Desk!DeskInit
      OBVIOUS
    <2>1. OpenIds = {} /\ day = 1 /\ metrics[1] = NoMetric
      BY EngineConfigAssumption DEF Init, OpenIds, Ids
    <2>2. \A s \in Symbols : BookOf(s) = "flat"
      BY <2>1 DEF BookOf
    <2> QED BY <2>1, <2>2 DEF Desk!DeskInit, NoMetric
  <1>2. /\ Inductive /\ Guarded /\ [Next]_vars
        /\ (Inductive /\ Guarded)'
        => [Desk!DeskNext]_(Desk!deskVars)
    <2> SUFFICES ASSUME Inductive, Guarded, [Next]_vars, Inductive'
                 PROVE  Desk!DeskNext \/ UNCHANGED Desk!deskVars
      OBVIOUS
    <2>1. CASE RecordEntry
      <3>1. ticket.symbol \in Symbols /\ ticket.side \in {"BUY", "SELL"}
        BY <2>1 DEF RecordEntry, Inductive, Loops, Row, Side
      <3> QED BY <2>1, <3>1, RecordEntryEnters DEF Desk!DeskNext
    <2>2. CASE RecordExit
      BY <2>2, RecordExitExits DEF Desk!DeskNext
    <2>3. CASE UpdateStops
      BY <2>3, UpdateStopsInvisible
    <2>4. CASE SetHalted
      BY <2>4, SetHaltedHalts DEF Desk!DeskNext
    <2>5. CASE NextDay
      BY <2>5, NextDayStartsAfresh DEF Desk!DeskNext
    <2>6. CASE UNCHANGED rows /\ ~SetHalted /\ ~NextDay
      BY <2>6, OtherStepsInvisible
    <2> QED BY <2>1, <2>2, <2>3, <2>4, <2>5, <2>6, WritersOfRows
  <1> QED BY <1>1, <1>2, GuardedInvariant, PTL DEF Spec, ImplementsDesk, Desk!DeskSpec

-----------------------------------------------------------------------------
(* The cash and the books.                                                 *)

\* What the open rows cost.
Outlay == [i \in OpenIds |-> Signed(rows[i].side, rows[i].qty, rows[i].entry)]

\* The closed rows' profits.
Profits(date) == [i \in ClosedIds(date) |-> rows[i].pnl]

\* Both are finitely many integers.
LEMMA BooksAreInt ==
    ASSUME TypeOK, NEW date
    PROVE  /\ DOMAIN Outlay = OpenIds /\ IsFiniteSet(DOMAIN Outlay)
           /\ \A i \in DOMAIN Outlay : Outlay[i] \in Int
           /\ DOMAIN Profits(date) = ClosedIds(date) /\ IsFiniteSet(DOMAIN Profits(date))
           /\ \A i \in DOMAIN Profits(date) : Profits(date)[i] \in Int
           /\ SumFunction(Outlay) \in Int /\ SumFunction(Profits(date)) \in Int
           /\ RehydratedCash(date)
                = StartingEquity + SumFunction(Profits(date)) - SumFunction(Outlay)
           /\ RehydratedCash(date) \in Int
  <1>1. DOMAIN Outlay = OpenIds /\ DOMAIN Profits(date) = ClosedIds(date)
    BY DEF Outlay, Profits
  <1>2. IsFiniteSet(DOMAIN Outlay) /\ IsFiniteSet(DOMAIN Profits(date))
    BY <1>1, FiniteBooks
  <1>3. \A i \in DOMAIN Outlay : Outlay[i] \in Int
    <2> TAKE i \in DOMAIN Outlay
    <2>1. rows[i] \in Row
      BY <1>1 DEF OpenIds, Ids, TypeOK
    <2>2. rows[i].qty \in Int /\ rows[i].entry \in Int
      BY <2>1 DEF Row
    <2> QED BY <1>1, <2>2, SignedIsInt DEF Outlay
  <1>4. \A i \in DOMAIN Profits(date) : Profits(date)[i] \in Int
    <2> TAKE i \in DOMAIN Profits(date)
    <2>1. rows[i] \in Row
      BY <1>1 DEF ClosedIds, Ids, TypeOK
    <2> QED BY <1>1, <2>1 DEF Profits, Row
  <1>5. SumFunction(Outlay) \in Int
    BY <1>2, <1>3, FunctionSumIsInt
  <1>6. SumFunction(Profits(date)) \in Int
    BY <1>2, <1>4, FunctionSumIsInt
  <1>7. RehydratedCash(date)
          = StartingEquity + SumFunction(Profits(date)) - SumFunction(Outlay)
    BY DEF RehydratedCash, RealizedOn, Outlay, Profits
  <1> QED BY <1>1, <1>2, <1>3, <1>4, <1>5, <1>6, <1>7, RehydratedCashIsInt

\* The fill in hand and the drift are integers.
LEMMA DriftIsInt ==
    ASSUME Inductive
    PROVE  InHand \in Int /\ Drift \in Int
  <1>1. TypeOK /\ cash \in Int /\ pnl \in Int
    BY DEF Inductive, TypeOK
  <1>2. ASSUME pc = "record" PROVE Signed(ticket.side, ticket.qty, ticket.entry) \in Int
    <2>1. ticket.qty \in Int /\ ticket.entry \in Int
      BY <1>2 DEF Inductive, Loops, Row
    <2> QED BY <2>1, SignedIsInt
  <1>3. ASSUME pc = "exit" PROVE Signed(open[cur].side, open[cur].qty, open[cur].entry) \in Int
    <2>1. open[cur].qty \in Int /\ open[cur].entry \in Int
      BY <1>3 DEF Inductive, Loops, TypeOK, Position
    <2> QED BY <2>1, SignedIsInt
  <1>4. InHand \in Int
    BY <1>1, <1>2, <1>3 DEF InHand
  <1>5. RehydratedCash(tradeDate) \in Int
    BY <1>1, RehydratedCashIsInt
  <1> QED BY <1>1, <1>4, <1>5 DEF Drift

\* As long as rows and engine date stay, so does the cash a restart would rebuild.
LEMMA SameBooks ==
    ASSUME UNCHANGED <<rows, tradeDate>>
    PROVE  RehydratedCash(tradeDate)' = RehydratedCash(tradeDate)
  <1>1. OpenIds' = OpenIds
    BY DEF OpenIds, Ids
  <1>2. ClosedIds(tradeDate)' = ClosedIds(tradeDate)
    BY DEF ClosedIds, Ids
  <1> QED BY <1>1, <1>2 DEF RehydratedCash, RealizedOn

\* A step that moves no cash and writes no row keeps the drift.
LEMMA QuietDrift ==
    ASSUME Inductive, UNCHANGED <<rows, tradeDate, cash>>,
           pc \notin {"down", "record", "exit"}, pc' \notin {"down", "record", "exit"}
    PROVE  Drift' = Drift + KnownDrift
  <1>1. RehydratedCash(tradeDate)' = RehydratedCash(tradeDate)
    BY SameBooks
  <1>2. InHand = 0 /\ InHand' = 0
    BY DEF InHand
  <1>3. Drift' = Drift
    BY <1>1, <1>2 DEF Drift
  <1>4. KnownDrift = 0
    BY DEF KnownDrift
  <1> QED BY <1>3, <1>4, DriftIsInt

\* An entry's fill is in hand; its commission is gone for good.
LEMMA FillEntryDrift ==
    ASSUME Inductive, NEW s \in Signals, FillEntry(s)
    PROVE  Drift' = Drift + KnownDrift
  <1> DEFINE fill == ApplySlippage(EntryPrice(s), s.side)
             spent == Signed(s.side, QtyFor(s), fill)
  <1>1. TypeOK /\ Tradable(s) /\ cash \in Int
    BY DEF FillEntry, Inductive, TypeOK
  <1>2. EntryPrice(s) \in Int /\ QtyFor(s) \in Int /\ s.side \in Side
    BY <1>1, EntryTypes
  <1>3. fill \in Int
    BY <1>1, <1>2, FillTypes
  <1>4. spent \in Int
    BY <1>2, <1>3, SignedIsInt
  <1>5. cash' = cash - spent - Commission
    BY DEF FillEntry, FillMarket
  <1>6. InHand' = -spent /\ InHand = 0 /\ pc = "signals" /\ pc' = "record"
    BY DEF FillEntry, InHand
  <1>7. KnownDrift = -Commission
    BY <1>6, BrokerConfigAssumption DEF KnownDrift
  <1>8. UNCHANGED <<rows, tradeDate>>
    BY DEF FillEntry, database
  <1>9. RehydratedCash(tradeDate)' = RehydratedCash(tradeDate)
    BY <1>8, SameBooks
  <1>10. RehydratedCash(tradeDate) \in Int
    BY <1>1, RehydratedCashIsInt
  <1>11. Drift' = cash' - RehydratedCash(tradeDate) + spent
    BY <1>1, <1>4, <1>5, <1>6, <1>9, <1>10, BrokerConfigAssumption DEF Drift
  <1>12. Drift = cash - RehydratedCash(tradeDate)
    BY <1>1, <1>6, <1>10 DEF Drift
  <1> HIDE DEF spent
  <1> QED BY <1>1, <1>4, <1>5, <1>7, <1>10, <1>11, <1>12, BrokerConfigAssumption

\* Recording an entry turns the fill in hand into a row.
LEMMA RecordEntryDrift ==
    ASSUME Inductive, RecordEntry, TypeOK'
    PROVE  Drift' = Drift + KnownDrift
  <1> DEFINE n == Len(rows) + 1
             spent == Signed(ticket.side, ticket.qty, ticket.entry)
  <1>1. TypeOK /\ ticket \in Row /\ ticket.status = "OPEN" /\ cash \in Int
    BY DEF RecordEntry, Inductive, Loops, TypeOK
  <1>2. /\ Len(rows) \in Nat /\ Len(rows') = n /\ rows'[n] = ticket
        /\ \A i \in 1..Len(rows) : rows'[i] = rows[i]
    BY <1>1 DEF RecordEntry, TypeOK
  <1>3. /\ OpenIds' = OpenIds \cup {n} /\ n \notin OpenIds
        /\ ClosedIds(tradeDate)' = ClosedIds(tradeDate)
    BY <1>1, <1>2 DEF RecordEntry, OpenIds, ClosedIds, Ids
  <1>4. \A i \in OpenIds \cup ClosedIds(tradeDate) : rows'[i] = rows[i]
    BY <1>2 DEF OpenIds, ClosedIds, Ids
  <1>5. Profits(tradeDate)' = Profits(tradeDate)
    BY <1>3, <1>4 DEF Profits, RecordEntry
  <1>6. SumFunction(Outlay') = SumFunction(Outlay) + spent
    <2>1. DOMAIN Outlay = OpenIds /\ DOMAIN Outlay' = OpenIds \cup {n}
      BY <1>3 DEF Outlay
    <2>2. Outlay'[n] = spent
      BY <1>2, <1>3 DEF Outlay
    <2>3. \A i \in OpenIds : Outlay'[i] = Outlay[i]
      BY <1>3, <1>4 DEF Outlay
    <2>4. spent \in Int
      BY <1>1, SignedIsInt DEF Row
    <2>5. /\ IsFiniteSet(DOMAIN Outlay)
          /\ \A i \in DOMAIN Outlay : Outlay[i] \in Int
      BY <1>1, BooksAreInt
    <2>6. SumFunction(Outlay') = SumFunction(Outlay) + Outlay'[n]
      <3> DEFINE f == Outlay
                 g == Outlay'
      <3>1. /\ n \notin DOMAIN f /\ DOMAIN g = DOMAIN f \cup {n} /\ IsFiniteSet(DOMAIN f)
            /\ g[n] \in Int
            /\ \A i \in DOMAIN f : f[i] \in Int /\ g[i] = f[i]
        BY <1>3, <2>1, <2>2, <2>3, <2>4, <2>5
      <3> HIDE DEF f, g, n
      <3>2. SumFunction(g) = SumFunction(f) + g[n]
        BY <3>1, FunctionSumGrows
      <3> QED BY <3>2 DEF f, g
    <2> QED BY <2>2, <2>6
  <1>7. /\ SumFunction(Outlay) \in Int /\ SumFunction(Profits(tradeDate)) \in Int
        /\ RehydratedCash(tradeDate)
             = StartingEquity + SumFunction(Profits(tradeDate)) - SumFunction(Outlay)
    BY <1>1, BooksAreInt
  <1>8. RehydratedCash(tradeDate)'
             = StartingEquity + SumFunction(Profits(tradeDate)') - SumFunction(Outlay')
    BY DEF RehydratedCash, RealizedOn, Profits, Outlay
  <1>9. spent \in Int
    BY <1>1, SignedIsInt DEF Row
  <1>10. InHand = -spent /\ InHand' = 0 /\ KnownDrift = 0 /\ UNCHANGED cash
         /\ pc = "record" /\ pc' = "booked"
    BY DEF RecordEntry, InHand, KnownDrift
  <1> HIDE DEF spent
  <1>11. Drift = cash - RehydratedCash(tradeDate) + spent
    BY <1>1, <1>7, <1>9, <1>10, EngineConfigAssumption DEF Drift
  <1>12. Drift' = cash - RehydratedCash(tradeDate)'
    <2>1. RehydratedCash(tradeDate)' \in Int
      BY <1>5, <1>6, <1>7, <1>8, <1>9, EngineConfigAssumption
    <2> QED BY <1>1, <1>10, <2>1 DEF Drift
  <1> QED BY <1>1, <1>5, <1>6, <1>7, <1>8, <1>9, <1>10, <1>11, <1>12, EngineConfigAssumption

\* What an exit brings in is its profit and what the entry cost.
LEMMA ExitProceeds ==
    ASSUME NEW side \in Side, NEW qty \in Int, NEW entry \in Int, NEW fill \in Int
    PROVE  -Signed(Opposite(side), qty, fill)
             = Gain(side, entry, fill) * qty + Signed(side, qty, entry)
  <1>1. qty * fill \in Int /\ qty * entry \in Int
    OBVIOUS
  <1>2. (fill - entry) * qty = qty * fill - qty * entry
    OBVIOUS
  <1>3. (entry - fill) * qty = qty * entry - qty * fill
    OBVIOUS
  <1>4. CASE side = "BUY"
    BY <1>1, <1>2, <1>4 DEF Signed, Opposite, Gain
  <1>5. CASE side = "SELL"
    BY <1>1, <1>3, <1>5 DEF Signed, Opposite, Gain
  <1> QED BY <1>4, <1>5 DEF Side

\* An exit's fill is in hand, commission and all.
LEMMA FillExitDrift ==
    ASSUME Inductive, UNCHANGED <<rows, tradeDate, open>>,
           pc \notin {"down", "record", "exit"}, pc' = "exit",
           NEW s \in DOMAIN open, cur' = s, NEW price \in Int, FillExit(open[s], price)
    PROVE  Drift' = Drift + KnownDrift
  <1> DEFINE pos == open[s]
             fill == ApplySlippage(price, Opposite(pos.side))
             cost == Signed(pos.side, pos.qty, pos.entry)
             gain == Gain(pos.side, pos.entry, fill) * pos.qty
             paid == Signed(Opposite(pos.side), pos.qty, fill)
  <1>1. TypeOK /\ cash \in Int /\ pos \in Position
    BY DEF Inductive, TypeOK
  <1>2. pos.side \in Side /\ pos.qty \in Int /\ pos.entry \in Int
    BY <1>1 DEF Position
  <1>3. Opposite(pos.side) \in Side
    BY <1>2 DEF Opposite, Side
  <1>4. fill \in Int
    BY <1>1, <1>2, <1>3, FillTypes
  <1>5. cost \in Int /\ paid \in Int
    BY <1>2, <1>4, SignedIsInt
  <1>6. gain \in Int
    <2>1. Gain(pos.side, pos.entry, fill) \in Int
      BY <1>2, <1>4 DEF Gain
    <2> QED BY <1>2, <2>1
  <1>7. -paid = gain + cost
    BY <1>2, <1>4, ExitProceeds
  <1>8. cash' = cash - paid - Commission /\ pnl' = gain - Commission
    BY DEF FillExit, FillMarket
  <1>9. InHand' = pnl' + cost /\ InHand = 0 /\ KnownDrift = 0
    BY DEF InHand, KnownDrift
  <1>10. RehydratedCash(tradeDate)' = RehydratedCash(tradeDate)
    BY SameBooks
  <1>11. RehydratedCash(tradeDate) \in Int
    BY <1>1, RehydratedCashIsInt
  <1> HIDE DEF paid, gain, cost
  <1>12. Drift' = cash' - RehydratedCash(tradeDate) - InHand'
    BY <1>10 DEF Drift
  <1>13. Drift = cash - RehydratedCash(tradeDate)
    BY <1>1, <1>9, <1>11 DEF Drift
  <1> QED BY <1>1, <1>5, <1>6, <1>7, <1>8, <1>9, <1>11, <1>12, <1>13, BrokerConfigAssumption

\* Recording an exit moves its row from what is laid out to what is realized: by
\* the engine's own day if the position is of that day, else out of sight.
LEMMA RecordExitDrift ==
    ASSUME Inductive, RecordExit, TypeOK'
    PROVE  Drift' = Drift + KnownDrift
  <1> DEFINE id == open[cur].id
             cost == Signed(rows[id].side, rows[id].qty, rows[id].entry)
             today == rows[id].date = tradeDate
  <1>1. /\ TypeOK /\ cur \in DOMAIN open /\ cash \in Int /\ pnl \in Int
        /\ pc = "exit" /\ pc' \in {"manage", "flatten"} /\ UNCHANGED <<cash, tradeDate>>
    BY DEF RecordExit, Inductive, Loops, TypeOK
  <1>2. id \in 1..Len(rows) /\ id \in OpenIds /\ rows[id] \in Row
    BY RecordExitRow
  <1>3. /\ rows'[id] = Closed(rows[id]) /\ Len(rows') = Len(rows)
        /\ \A i \in 1..Len(rows) : i # id => rows'[i] = rows[i]
    BY RecordExitRow
  <1>4. /\ rows'[id].status = "CLOSED" /\ rows'[id].pnl = pnl
        /\ rows'[id].date = rows[id].date
    BY <1>2, <1>3 DEF Closed, Row
  <1>5. OpenIds' = OpenIds \ {id}
    BY <1>3, <1>4 DEF OpenIds, Ids
  <1>6. /\ id \notin ClosedIds(tradeDate)
        /\ ClosedIds(tradeDate)' = ClosedIds(tradeDate) \cup (IF today THEN {id} ELSE {})
    BY <1>1, <1>2, <1>3, <1>4 DEF OpenIds, ClosedIds, Ids
  <1>7. \A i \in OpenIds' \cup ClosedIds(tradeDate) : rows'[i] = rows[i]
    BY <1>2, <1>3, <1>5, <1>6 DEF OpenIds, ClosedIds, Ids
  <1>8. cost \in Int
    BY <1>2, SignedIsInt DEF Row
  <1>9. /\ SumFunction(Outlay) \in Int /\ SumFunction(Profits(tradeDate)) \in Int
        /\ DOMAIN Outlay = OpenIds /\ IsFiniteSet(DOMAIN Outlay)
        /\ \A i \in DOMAIN Outlay : Outlay[i] \in Int
        /\ DOMAIN Profits(tradeDate) = ClosedIds(tradeDate)
        /\ IsFiniteSet(DOMAIN Profits(tradeDate))
        /\ \A i \in DOMAIN Profits(tradeDate) : Profits(tradeDate)[i] \in Int
        /\ RehydratedCash(tradeDate)
             = StartingEquity + SumFunction(Profits(tradeDate)) - SumFunction(Outlay)
    BY <1>1, BooksAreInt
  <1>10. SumFunction(Outlay) = SumFunction(Outlay') + cost /\ SumFunction(Outlay') \in Int
    <2> DEFINE f == Outlay'
               g == Outlay
    <2>1. DOMAIN f = OpenIds \ {id}
      BY <1>5 DEF Outlay
    <2>2. \A i \in OpenIds \ {id} : f[i] = g[i]
      BY <1>5, <1>7 DEF Outlay
    <2>3. g[id] = cost
      BY <1>2 DEF Outlay
    <2>4. /\ id \notin DOMAIN f /\ DOMAIN g = DOMAIN f \cup {id} /\ IsFiniteSet(DOMAIN f)
          /\ g[id] \in Int
          /\ \A i \in DOMAIN f : f[i] \in Int /\ g[i] = f[i]
      BY <1>2, <1>8, <1>9, <2>1, <2>2, <2>3, FS_Subset
    <2> HIDE DEF f, g, id, cost
    <2>5. SumFunction(g) = SumFunction(f) + g[id] /\ SumFunction(f) \in Int
      BY <2>4, FunctionSumGrows, FunctionSumIsInt
    <2> QED BY <2>3, <2>5 DEF f, g
  <1>11. SumFunction(Profits(tradeDate)')
           = SumFunction(Profits(tradeDate)) + (IF today THEN pnl ELSE 0)
    <2>1. CASE ~today
      <3>1. ClosedIds(tradeDate)' = ClosedIds(tradeDate)
        BY <1>6, <2>1
      <3>2. Profits(tradeDate)' = Profits(tradeDate)
        BY <1>7, <3>1 DEF Profits
      <3> QED BY <1>9, <2>1, <3>2
    <2>2. CASE today
      <3> DEFINE f == Profits(tradeDate)
                 g == Profits(tradeDate)'
      <3>1. DOMAIN g = ClosedIds(tradeDate) \cup {id}
        BY <1>6, <2>2 DEF Profits
      <3>2. \A i \in ClosedIds(tradeDate) : f[i] = g[i]
        BY <1>7, <3>1 DEF Profits
      <3>3. g[id] = pnl
        BY <1>4, <3>1 DEF Profits
      <3>4. /\ id \notin DOMAIN f /\ DOMAIN g = DOMAIN f \cup {id} /\ IsFiniteSet(DOMAIN f)
            /\ g[id] \in Int
            /\ \A i \in DOMAIN f : f[i] \in Int /\ g[i] = f[i]
        BY <1>1, <1>6, <1>9, <3>1, <3>2, <3>3
      <3> HIDE DEF f, g, id
      <3>5. SumFunction(g) = SumFunction(f) + g[id]
        BY <3>4, FunctionSumGrows
      <3> QED BY <2>2, <3>3, <3>5 DEF f, g
    <2> QED BY <2>1, <2>2
  <1>12. RehydratedCash(tradeDate)'
             = StartingEquity + SumFunction(Profits(tradeDate)') - SumFunction(Outlay')
    BY DEF RehydratedCash, RealizedOn, Profits, Outlay
  <1>13. InHand = pnl + cost /\ InHand' = 0
    <2>1. /\ rows[id].side = open[cur].side /\ rows[id].qty = open[cur].qty
          /\ rows[id].entry = open[cur].entry
      BY <1>1 DEF Inductive, MemoryBacked
    <2> QED BY <1>1, <2>1 DEF InHand
  <1>14. KnownDrift = IF today THEN 0 ELSE pnl
    BY <1>1 DEF KnownDrift
  <1> HIDE DEF today, cost
  <1>15. Drift = cash - RehydratedCash(tradeDate) - (pnl + cost)
    BY <1>1, <1>13 DEF Drift
  <1>16. Drift' = cash - RehydratedCash(tradeDate)'
    <2>1. RehydratedCash(tradeDate)' \in Int
      BY <1>1, <1>9, <1>10, <1>11, <1>12, EngineConfigAssumption
    <2> QED BY <1>1, <1>13, <2>1 DEF Drift
  <1>17. CASE today
    <2>1. SumFunction(Profits(tradeDate)') = SumFunction(Profits(tradeDate)) + pnl
      BY <1>11, <1>17
    <2>2. KnownDrift = 0
      BY <1>14, <1>17
    <2> QED BY <1>1, <1>8, <1>9, <1>10, <1>12, <1>15, <1>16, <2>1, <2>2,
               EngineConfigAssumption
  <1>18. CASE ~today
    <2>1. SumFunction(Profits(tradeDate)') = SumFunction(Profits(tradeDate))
      BY <1>9, <1>11, <1>18
    <2>2. KnownDrift = pnl
      BY <1>14, <1>18
    <2> QED BY <1>1, <1>8, <1>9, <1>10, <1>12, <1>15, <1>16, <2>1, <2>2,
               EngineConfigAssumption
  <1> QED BY <1>17, <1>18

\* A stop written to its row is no money.
LEMMA UpdateStopsDrift ==
    ASSUME Inductive, UpdateStops
    PROVE  Drift' = Drift + KnownDrift
  <1> DEFINE id == open[cur].id
             row == [rows[id] EXCEPT !.stop = open[cur].stop]
  <1>1. /\ id \in 1..Len(rows) /\ rows[id] \in Row /\ rows[id].status = "OPEN"
        /\ rows'[id] = row /\ Len(rows') = Len(rows)
        /\ \A i \in 1..Len(rows) : i # id => rows'[i] = rows[i]
    BY UpdateStopsRow
  <1>2. /\ row.status = rows[id].status /\ row.side = rows[id].side
        /\ row.qty = rows[id].qty /\ row.entry = rows[id].entry
    BY <1>1 DEF Row
  <1>3. /\ UNCHANGED <<cash, tradeDate, open>>
        /\ pc = "ratchet" /\ pc' = "check"
    BY DEF UpdateStops, memory
  <1>4. OpenIds' = OpenIds /\ ClosedIds(tradeDate)' = ClosedIds(tradeDate)
    BY <1>1, <1>2, <1>3 DEF OpenIds, ClosedIds, Ids
  <1>5. \A i \in OpenIds : Signed(rows'[i].side, rows'[i].qty, rows'[i].entry)
                             = Signed(rows[i].side, rows[i].qty, rows[i].entry)
    BY <1>1, <1>2 DEF OpenIds, Ids
  <1>6. \A i \in ClosedIds(tradeDate) : rows'[i].pnl = rows[i].pnl
    BY <1>1 DEF ClosedIds, Ids
  <1>7. Outlay' = Outlay /\ Profits(tradeDate)' = Profits(tradeDate)
    BY <1>4, <1>5, <1>6 DEF Outlay, Profits
  <1>8. RehydratedCash(tradeDate)' = RehydratedCash(tradeDate)
    BY <1>7 DEF RehydratedCash, RealizedOn, Outlay, Profits
  <1>9. InHand = 0 /\ InHand' = 0 /\ KnownDrift = 0
    BY <1>3 DEF InHand, KnownDrift
  <1>10. Drift' = Drift
    BY <1>3, <1>8, <1>9 DEF Drift
  <1> QED BY <1>9, <1>10, DriftIsInt

\* Started afresh, the engine has the cash the books tell it.
LEMMA StartDayDrift ==
    ASSUME Inductive, StartDay(day), UNCHANGED rows, pc' = "idle"
    PROVE  Drift' = 0
  <1>1. day \in 1..MaxDay /\ TypeOK
    BY DEF Inductive, TypeOK
  <1>2. RehydratedCash(tradeDate)' = RehydratedCash(day)
    <2>1. OpenIds' = OpenIds
      BY DEF OpenIds, Ids
    <2>2. ClosedIds(tradeDate)' = ClosedIds(day)
      BY DEF StartDay, ClosedIds, Ids
    <2> QED BY <2>1, <2>2 DEF RehydratedCash, RealizedOn
  <1>3. RehydratedCash(day) \in Int
    BY <1>1, RehydratedCashIsInt
  <1>4. cash' = RehydratedCash(day) /\ InHand' = 0
    BY DEF StartDay, InHand
  <1> QED BY <1>2, <1>3, <1>4 DEF Drift

\* Every step of a cycle moves the drift by the known.
LEMMA TradingCycleDrift ==
    ASSUME Inductive, TradingCycle, TypeOK'
    PROVE  Drift' = Drift + KnownDrift
  <1>1. CASE \/ \E quotes \in Snapshots, signals \in Arrivals : BeginCycle(quotes, signals)
             \/ \E s \in Signals : SkipSignal(s) \/ BookFull(s)
             \/ RefreshAfterEntry \/ SignalsDone
             \/ \E s \in Symbols : SkipUnpriced(s) \/ TrailStop(s)
             \/ KeepPosition \/ EndManage
    BY <1>1, QuietDrift
       DEF BeginCycle, SkipSignal, BookFull, RefreshAfterEntry, SignalsDone, SkipUnpriced,
           TrailStop, KeepPosition, EndManage, EndJob, database, memory
  <1>2. CASE ExitPosition
    <2>1. cur \in DOMAIN open /\ cur \in DOMAIN prices /\ TypeOK
      BY <1>2 DEF ExitPosition, Inductive, Loops
    <2>2. prices[cur] \in Int
      BY <2>1, PricesAreInt
    <2>3. FillExit(open[cur], prices[cur])
      BY <1>2 DEF ExitPosition
    <2>4. /\ UNCHANGED <<rows, tradeDate, open>> /\ cur' = cur
          /\ pc = "check" /\ pc' = "exit"
      BY <1>2 DEF ExitPosition, database
    <2> QED BY <2>1, <2>2, <2>3, <2>4, FillExitDrift
  <1>3. CASE RecordEntry \/ UpdateStops \/ RecordExit \/ (\E s \in Signals : FillEntry(s))
    BY <1>3, RecordEntryDrift, UpdateStopsDrift, RecordExitDrift, FillEntryDrift
  <1> QED BY <1>1, <1>2, <1>3 DEF TradingCycle

\* ... and so does every step of a flatten.
LEMMA FlattenDrift ==
    ASSUME Inductive, Flatten
    PROVE  Drift' = Drift + KnownDrift
  <1>1. CASE EndOfDayFlatten \/ FlattenDone \/ SetHalted
    BY <1>1, QuietDrift DEF EndOfDayFlatten, FlattenDone, SetHalted, EndJob, database, memory
  <1>2. CASE \E s \in Symbols : FlattenPosition(s)
    <2>1. PICK s \in Symbols : FlattenPosition(s)
      BY <1>2
    <2>2. s \in DOMAIN open
      BY <2>1 DEF FlattenPosition, Inductive, Loops
    <2>3. PICK price \in ExitQuotes(s) : FillExit(open[s], price)
      BY <2>1 DEF FlattenPosition
    <2>4. price \in Int
      BY <2>2, ExitQuotesAreInt DEF Inductive
    <2>5. /\ UNCHANGED <<rows, tradeDate, open>> /\ cur' = s
          /\ pc = "flatten" /\ pc' = "exit"
      BY <2>1 DEF FlattenPosition, database
    <2> QED BY <2>2, <2>3, <2>4, <2>5, FillExitDrift
  <1> QED BY <1>1, <1>2 DEF Flatten

\* No step makes or loses a cent but those that fail.
LEMMA DriftStep ==
    ASSUME Inductive, [Next]_vars, TypeOK'
    PROVE  Drift' \in {Drift + KnownDrift, 0} \/ dbErrors' > dbErrors
  <1>1. CASE Boot \/ PremarketResearch
    BY <1>1, StartDayDrift DEF Boot, PremarketResearch, EndJob
  <1>2. CASE Crash
    BY <1>2 DEF Crash, Drift
  <1>3. CASE DbError \/ PremarketError
    <2>1. dbErrors \in Nat
      BY EngineConfigAssumption DEF Inductive, TypeOK
    <2> QED BY <1>3, <2>1 DEF DbError, PremarketError
  <1>4. CASE NextDay
    <2>1. UNCHANGED <<rows, tradeDate, cash, pc>> /\ pc \in {"down", "idle"}
      BY <1>4 DEF NextDay, database, memory
    <2>2. CASE pc = "down"
      BY <2>1, <2>2 DEF Drift
    <2>3. CASE pc = "idle"
      BY <2>1, <2>3, QuietDrift
    <2> QED BY <2>1, <2>2, <2>3
  <1>5. CASE TradingCycle
    BY <1>5, TradingCycleDrift
  <1>6. CASE Flatten
    BY <1>6, FlattenDrift
  <1>7. CASE UNCHANGED vars
    <2>1. UNCHANGED <<rows, tradeDate, cash, pc, ticket, pnl, open, cur>>
      BY <1>7 DEF vars, database, memory, locals
    <2>2. RehydratedCash(tradeDate)' = RehydratedCash(tradeDate)
      BY <2>1, SameBooks
    <2>3. InHand' = InHand
      BY <2>1 DEF InHand
    <2>4. Drift' = Drift
      BY <2>1, <2>2, <2>3 DEF Drift
    <2>5. KnownDrift = 0
      BY <2>1 DEF KnownDrift
    <2> QED BY <2>4, <2>5, DriftIsInt
  <1> QED BY <1>1, <1>2, <1>3, <1>4, <1>5, <1>6, <1>7 DEF Next

\* The paper cash parts from the books only by an entry's commission, by the
\* profit of a position carried from an earlier day, and where a commit raises
\* after its fill; starting the day afresh brings them together again.
THEOREM CashDriftIsKnown == Spec => CashDriftsForCause
  <1>1. Inductive /\ Inductive' /\ [Next]_vars =>
          [Drift' \in {Drift + KnownDrift, 0} \/ dbErrors' > dbErrors]_vars
    BY DriftStep DEF Inductive
  <1> QED BY <1>1, InductiveInvariant, PTL DEF Spec, CashDriftsForCause
=============================================================================
