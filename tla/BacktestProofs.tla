--------------------------- MODULE BacktestProofs ---------------------------
(***************************************************************************)
(* Theorems about the replay and about the screening that it shares with   *)
(* the service, for every data set: any bars, any sessions, any signals,   *)
(* any provider, any configuration.                                        *)
(***************************************************************************)
EXTENDS Replay, Screening, RiskManagerProofs, SequenceTheorems

-----------------------------------------------------------------------------
(* Prices, fills and the value of the account are integers.                *)

\* A fill of a price is a price, perhaps one no market would quote.
LEMMA FillIsInt ==
    ASSUME NEW side, NEW ref \in Int, NEW atr \in Nat
    PROVE  Fill(side, ref, atr) \in Int
  <1>1. SpreadPct * ref \in Int /\ ImpactPct * atr \in Int
    BY ReplayConfigAssumption
  <1>2. Slip(ref, atr) \in Int
    BY <1>1 DEF Slip
  <1> QED BY <1>2 DEF Fill

\* So is what is owed for a quantity.
LEMMA OwedIsInt ==
    ASSUME NEW side, NEW qty \in Int, NEW price \in Int
    PROVE  Owed(side, qty, price) \in Int
  BY DEF Owed

\* The books of the account are finite.
LEMMA BooksAreFinite ==
    ASSUME ReplayTypeOK
    PROVE  /\ IsFiniteSet(DOMAIN positions)
           /\ IsFiniteSet(DOMAIN trades) /\ DOMAIN trades = 1..Len(trades)
           /\ Len(trades) \in Nat
  <1>1. IsFiniteSet(DOMAIN positions)
    BY ReplayConfigAssumption, FS_Subset DEF ReplayTypeOK
  <1>2. Len(trades) \in Nat /\ DOMAIN trades = 1..Len(trades)
    BY DEF ReplayTypeOK
  <1>3. IsFiniteSet(1..Len(trades))
    BY <1>2, FS_Interval
  <1> QED BY <1>1, <1>2, <1>3

\* The fields of a held position.
LEMMA HeldPosition ==
    ASSUME ReplayTypeOK, NEW s \in DOMAIN positions
    PROVE  /\ positions[s] \in OpenPosition
           /\ positions[s].side \in Side /\ positions[s].entry \in Int
           /\ positions[s].stop \in Int /\ positions[s].target \in Int \cup {NoLevel}
           /\ positions[s].atr \in Nat /\ positions[s].risk \in Nat
           /\ positions[s].peak \in Int /\ positions[s].sig \in Nat
           /\ positions[s].qty \in Nat \ {0}
           /\ MarkOf(s) \in Int
  <1>1. positions[s] \in OpenPosition
    BY DEF ReplayTypeOK
  <1>2. MarkOf(s) \in Int
    BY <1>1 DEF MarkOf, ReplayTypeOK, OpenPosition, Price
  <1> QED BY <1>1, <1>2 DEF OpenPosition

\* The account can be valued.
LEMMA EquityIsInt ==
    ASSUME ReplayTypeOK PROVE Equity \in Int
  <1> DEFINE worth == [s \in DOMAIN positions |->
                          Owed(positions[s].side, positions[s].qty, MarkOf(s))]
  <1>1. \A s \in DOMAIN worth : worth[s] \in Int
    BY HeldPosition, OwedIsInt
  <1>2. IsFiniteSet(DOMAIN worth)
    BY BooksAreFinite
  <1> HIDE DEF worth
  <1>3. SumFunction(worth) \in Int
    BY <1>1, <1>2, FunctionSumIsInt
  <1> QED BY <1>3 DEF Equity, worth, ReplayTypeOK

\* The bars of a symbol are prices.
LEMMA BarIsPrices ==
    ASSUME NEW b \in Bars
    PROVE  {b.open, b.high, b.low, b.close} \subseteq Nat \ {0}
  BY ReplayConfigAssumption DEF Bar, Price

-----------------------------------------------------------------------------
(* The steps, by what they do to the account.                              *)

\* Steps that leave the account alone.
Quiet ==
    \/ NewDay \/ NextBar \/ StillPending \/ DropPending \/ BeginManage
    \/ CheckKillSwitch \/ Halt \/ EndEvaluate \/ EndBar

\* Steps that close a position.
Closes(s) == ExitPosition(s) \/ KillPosition(s) \/ FlattenPosition(s)

\* The steps of the replay.
LEMMA StepKinds ==
    ASSUME ReplayNext
    PROVE  \/ Quiet \/ FillPending
           \/ \E s \in Symbols : Closes(s) \/ TrailPosition(s)
           \/ \E r \in Requests, passed \in BOOLEAN : Evaluate(r, passed)
  BY DEF ReplayNext, Quiet, Closes

\* A timestamp's bars belong to sessions, which go on or end, and no other
\* session changes.
LEMMA ArriveEffect ==
    ASSUME NEW before \in [Symbols -> {"before", "on", "over"}], Arrive(before)
    PROVE  /\ DOMAIN bars' \subseteq Symbols /\ bars' \in [DOMAIN bars' -> Bars]
           /\ session' \in [Symbols -> {"before", "on", "over"}]
           /\ \A s \in DOMAIN bars' : session'[s] # "before" /\ before[s] # "over"
           /\ \A s \in Symbols \ DOMAIN bars' : session'[s] = before[s]
  BY DEF Arrive

\* What quiet steps leave alone.
LEMMA QuietEffect ==
    ASSUME Quiet
    PROVE  UNCHANGED <<cash, positions, signals, trades, lastClose>>
  BY DEF Quiet, NewDay, NextBar, StillPending, DropPending, BeginManage, CheckKillSwitch,
         Halt, EndEvaluate, EndBar, account

\* Quiet steps keep the types.
LEMMA QuietTypes ==
    ASSUME ReplayTypeOK, Quiet PROVE ReplayTypeOK'
  <1> USE DEF data, account, guards
  <1>1. CASE NewDay
    <2>1. /\ DOMAIN bars' \subseteq Symbols /\ bars' \in [DOMAIN bars' -> Bars]
          /\ session' \in [Symbols -> {"before", "on", "over"}]
      BY <1>1, ArriveEffect DEF NewDay
    <2>2. dayPeak' \in Int
      BY <1>1, EquityIsInt DEF NewDay
    <2>3. pfBlocked' \in BOOLEAN /\ halted' \in BOOLEAN
      BY <1>1 DEF NewDay, PfBlocked
    <2> QED BY <1>1, <2>1, <2>2, <2>3 DEF NewDay, ReplayTypeOK
  <1>2. CASE NextBar
    <2>1. /\ DOMAIN bars' \subseteq Symbols /\ bars' \in [DOMAIN bars' -> Bars]
          /\ session' \in [Symbols -> {"before", "on", "over"}]
      BY <1>2, ArriveEffect DEF NextBar, ReplayTypeOK
    <2> QED BY <1>2, <2>1 DEF NextBar, ReplayTypeOK
  <1>3. CASE StillPending
    <2>1. queue \in Seq(PendingEntry) /\ queue # <<>> /\ pending \in Seq(PendingEntry)
      BY <1>3 DEF StillPending, ReplayTypeOK
    <2>2. Head(queue) \in PendingEntry /\ Tail(queue) \in Seq(PendingEntry)
      BY <2>1, HeadTailProperties
    <2> QED BY <1>3, <2>1, <2>2 DEF StillPending, ReplayTypeOK
  <1>4. CASE DropPending
    <2>1. queue \in Seq(PendingEntry) /\ queue # <<>>
      BY <1>4 DEF DropPending, ReplayTypeOK
    <2>2. Tail(queue) \in Seq(PendingEntry)
      BY <2>1, HeadTailProperties
    <2> QED BY <1>4, <2>2 DEF DropPending, ReplayTypeOK
  <1>5. CASE BeginManage
    BY <1>5 DEF BeginManage, ReplayTypeOK
  <1>6. CASE CheckKillSwitch
    <2>1. dayPeak' \in Int
      BY <1>6, EquityIsInt DEF CheckKillSwitch, Larger, ReplayTypeOK
    <2>2. pc' \in {"kill", "evaluate"} /\ todo' \subseteq Symbols
      BY <1>6 DEF CheckKillSwitch, ReplayTypeOK
    <2> QED BY <1>6, <2>1, <2>2 DEF CheckKillSwitch, ReplayTypeOK
  <1>7. CASE Halt
    BY <1>7 DEF Halt, ReplayTypeOK
  <1>8. CASE EndEvaluate \/ EndBar
    BY <1>8 DEF EndEvaluate, EndBar, Ending, ReplayTypeOK
  <1> QED BY <1>1, <1>2, <1>3, <1>4, <1>5, <1>6, <1>7, <1>8 DEF Quiet

\* Closing a position settles it at a fill, and records a trade of today whose
\* profit, commission added, is what the position gained.
LEMMA CloseEffect ==
    ASSUME ReplayTypeOK, NEW s \in DOMAIN positions, positions[s].sig \in DOMAIN signals,
           NEW ref \in Int, NEW reason \in {"SL", "TP", "KILL_SWITCH", "EOD"},
           Close(s, ref, reason)
    PROVE  /\ DOMAIN positions' = DOMAIN positions \ {s}
           /\ \A t \in DOMAIN positions' : positions'[t] = positions[t]
           /\ positions' \in [DOMAIN positions' -> OpenPosition]
           /\ signals' \in Seq(GivenSignal) /\ DOMAIN signals' = DOMAIN signals
           /\ \A i \in DOMAIN signals : /\ signals'[i].symbol = signals[i].symbol
                                        /\ signals'[i].time = signals[i].time
                                        /\ signals'[i].day = signals[i].day
           /\ trades' \in Seq(ClosedTrade) /\ Len(trades') = Len(trades) + 1
           /\ \A k \in DOMAIN trades : trades'[k] = trades[k]
           /\ trades'[Len(trades) + 1].day = day
           /\ cash' \in Int
           /\ \E exit \in Int :
                 /\ cash' = cash + Owed(positions[s].side, positions[s].qty, exit)
                 /\ trades'[Len(trades) + 1].pnl + Commission
                      = Gain(positions[s].side, positions[s].entry, exit) * positions[s].qty
  <1> DEFINE pos == positions[s]
             exit == Fill(Opposite(pos.side), ref, pos.atr)
             profit == Gain(pos.side, pos.entry, exit) * pos.qty - Commission
             trade == [sig |-> pos.sig, day |-> day, ref |-> ref,
                       reason |-> reason, pnl |-> profit]
             sig == [signals[pos.sig] EXCEPT !.label = IF profit > 0 THEN "win" ELSE "loss"]
  <1>1. /\ pos.side \in Side /\ pos.entry \in Int /\ pos.atr \in Nat /\ pos.sig \in Nat
        /\ pos.qty \in Nat
    BY HeldPosition
  <1>2. exit \in Int
    BY <1>1, FillIsInt
  <1>3. cash' = cash + Owed(pos.side, pos.qty, exit) /\ cash' \in Int
    <2>1. Owed(pos.side, pos.qty, exit) \in Int
      BY <1>1, <1>2, OwedIsInt
    <2> QED BY <2>1 DEF Close, ReplayTypeOK
  <1>4. /\ DOMAIN positions' = DOMAIN positions \ {s}
        /\ \A t \in DOMAIN positions' : positions'[t] = positions[t]
        /\ positions' \in [DOMAIN positions' -> OpenPosition]
    BY DEF Close, Without, Restrict, ReplayTypeOK
  <1>5. trade \in ClosedTrade
    <2>1. Gain(pos.side, pos.entry, exit) \in Int
      BY <1>1, <1>2 DEF Gain
    <2>2. profit \in Int
      BY <1>1, <2>1, ReplayConfigAssumption
    <2> QED BY <1>1, <2>2 DEF ClosedTrade, ReplayTypeOK
  <1>6. trade.day = day /\ trade.pnl + Commission = Gain(pos.side, pos.entry, exit) * pos.qty
    <2>1. Gain(pos.side, pos.entry, exit) * pos.qty \in Int
      BY <1>1, <1>2 DEF Gain
    <2> QED BY <2>1, ReplayConfigAssumption
  <1>7. sig \in GivenSignal /\ sig.symbol = signals[pos.sig].symbol
        /\ sig.time = signals[pos.sig].time /\ sig.day = signals[pos.sig].day
    <2> DEFINE old == signals[pos.sig]
    <2>1. old \in GivenSignal
      BY DEF ReplayTypeOK
    <2> HIDE DEF profit, old
    <2>2. sig = [old EXCEPT !.label = IF profit > 0 THEN "win" ELSE "loss"]
      BY DEF old
    <2> HIDE DEF sig
    <2>3. sig \in GivenSignal /\ sig.symbol = old.symbol /\ sig.time = old.time /\ sig.day = old.day
      BY <2>1, <2>2 DEF GivenSignal, Labels
    <2> QED BY <2>3 DEF old
  <1>8. trades' = Append(trades, trade) /\ signals' = [signals EXCEPT ![pos.sig] = sig]
    BY DEF Close
  <1>9. trades \in Seq(ClosedTrade) /\ signals \in Seq(GivenSignal) /\ pos.sig \in 1..Len(signals)
    BY DEF ReplayTypeOK
  <1> HIDE DEF trade, sig, exit, profit
  <1>10. /\ trades' \in Seq(ClosedTrade) /\ Len(trades') = Len(trades) + 1
         /\ \A k \in DOMAIN trades : trades'[k] = trades[k]
         /\ trades'[Len(trades) + 1] = trade
    BY <1>5, <1>8, <1>9
  <1>11. /\ signals' \in Seq(GivenSignal) /\ Len(signals') = Len(signals)
         /\ \A i \in 1..Len(signals) : signals'[i] = IF i = pos.sig THEN sig ELSE signals[i]
    BY <1>7, <1>8, <1>9, ExceptSeq
  <1>12. DOMAIN signals' = DOMAIN signals /\ DOMAIN signals = 1..Len(signals)
    BY <1>9, <1>11
  <1> QED BY <1>2, <1>3, <1>4, <1>6, <1>7, <1>10, <1>11, <1>12

\* A closing step visits a position of the current loop and closes it at some
\* price.
LEMMA ClosesEffect ==
    ASSUME ReplayTypeOK, PhaseShape, NEW s \in Symbols, Closes(s)
    PROVE  /\ s \in DOMAIN positions /\ todo' = todo \ {s} /\ s \in todo
           /\ UNCHANGED <<time, day, bars, session, pc, queue, pending, dayPeak, halted, pfBlocked>>
           /\ DOMAIN lastClose' \subseteq Symbols /\ lastClose' \in [DOMAIN lastClose' -> Price]
           /\ \E ref \in Int, reason \in {"SL", "TP", "KILL_SWITCH", "EOD"} :
                 Close(s, ref, reason)
  <1> USE DEF data, guards
  <1>1. s \in todo /\ todo' = todo \ {s} /\ s \in DOMAIN positions
    BY DEF Closes, ExitPosition, KillPosition, FlattenPosition, Visit, PhaseShape
  <1>2. UNCHANGED <<time, day, bars, session, pc, queue, pending, dayPeak, halted, pfBlocked>>
    BY DEF Closes, ExitPosition, KillPosition, FlattenPosition
  <1>3. CASE ExitPosition(s)
    <2> DEFINE hit == ExitHit(positions[s], bars[s])
    <2>1. s \in DOMAIN bars /\ bars[s] \in Bars
      BY <1>1, <1>3 DEF ExitPosition, PhaseShape, ReplayTypeOK
    <2>2. bars[s].open \in Int /\ bars[s].close \in Price
      BY <2>1, BarIsPrices DEF Price
    <2>3. hit # <<>> /\ Close(s, hit[1], hit[2])
      BY <1>3 DEF ExitPosition
    <2>4. hit \in {<<StopFill(positions[s], bars[s]), "SL">>,
                   <<TargetFill(positions[s], bars[s]), "TP">>}
      BY <2>3 DEF ExitHit
    <2>5. hit[1] \in Int /\ hit[2] \in {"SL", "TP"}
      <3>1. StopFill(positions[s], bars[s]) \in Int
        BY <1>1, <2>2, HeldPosition DEF StopFill
      <3>2. CASE StopTouched(positions[s], bars[s])
        BY <3>1, <3>2 DEF ExitHit
      <3>3. CASE ~StopTouched(positions[s], bars[s])
        <4>1. TargetTouched(positions[s], bars[s])
          BY <2>3, <3>3 DEF ExitHit
        <4>2. positions[s].target \in Int
          BY <1>1, <4>1, HeldPosition DEF TargetTouched
        <4>3. TargetFill(positions[s], bars[s]) \in Int
          BY <2>2, <4>2 DEF TargetFill
        <4> QED BY <3>3, <4>1, <4>3 DEF ExitHit
      <3> QED BY <3>2, <3>3
    <2>6. DOMAIN lastClose' \subseteq Symbols /\ lastClose' \in [DOMAIN lastClose' -> Price]
      BY <1>3, <2>2 DEF ExitPosition, With, ReplayTypeOK
    <2> HIDE DEF hit
    <2> QED BY <1>1, <1>2, <2>3, <2>5, <2>6
  <1>4. CASE KillPosition(s) \/ FlattenPosition(s)
    <2>1. MarkOf(s) \in Int
      BY <1>1, HeldPosition
    <2>2. UNCHANGED lastClose
      BY <1>4 DEF KillPosition, FlattenPosition
    <2>3. \E reason \in {"SL", "TP", "KILL_SWITCH", "EOD"} : Close(s, MarkOf(s), reason)
      BY <1>4 DEF KillPosition, FlattenPosition
    <2> QED BY <1>1, <1>2, <2>1, <2>2, <2>3 DEF ReplayTypeOK
  <1> QED BY <1>3, <1>4 DEF Closes

\* What an entry that fills becomes, if it may: a position of a fresh symbol, for a
\* quantity of shares, paid or received for from cash.
LEMMA FillPendingEffect ==
    ASSUME ReplayTypeOK, FillPending,
           \A k \in DOMAIN queue : queue[k].sig \in DOMAIN signals
    PROVE  \E pe \in PendingEntry, pos \in OpenPosition :
           /\ pe = Head(queue) /\ pe = queue[1] /\ 1 \in DOMAIN queue
           /\ pe.symbol \in DOMAIN bars /\ pe.symbol \notin DOMAIN positions /\ ~halted
           /\ pos.sig = pe.sig /\ pos.time = time
           /\ DOMAIN positions' = DOMAIN positions \cup {pe.symbol}
           /\ positions'[pe.symbol] = pos
           /\ \A t \in DOMAIN positions : positions'[t] = positions[t]
           /\ positions' \in [DOMAIN positions' -> OpenPosition]
           /\ cash' = cash - Owed(pos.side, pos.qty, pos.entry) /\ cash' \in Int
           /\ signals' \in Seq(GivenSignal) /\ DOMAIN signals' = DOMAIN signals
           /\ \A i \in DOMAIN signals : /\ signals'[i].symbol = signals[i].symbol
                                        /\ signals'[i].time = signals[i].time
                                        /\ signals'[i].day = signals[i].day
           /\ queue' = Tail(queue) /\ queue' \in Seq(PendingEntry)
           /\ pc = "fill"
           /\ UNCHANGED <<time, day, bars, session, pc, trades, pending, lastClose, dayPeak,
                          halted, pfBlocked, todo>>
  <1> DEFINE pe == Head(queue)
             pos == Entered(pe)
             sig == [signals[pe.sig] EXCEPT !.filled = TRUE]
  <1>1. queue \in Seq(PendingEntry) /\ queue # <<>>
    BY DEF FillPending, ReplayTypeOK
  <1>2. /\ pe \in PendingEntry /\ Tail(queue) \in Seq(PendingEntry)
        /\ pe = queue[1] /\ 1 \in DOMAIN queue
    BY <1>1, HeadTailProperties
  <1>3. /\ pe.symbol \in Symbols /\ pe.side \in Side /\ pe.atr \in Nat /\ pe.sig \in Nat
        /\ pe.stopHint \in Int \cup {NoLevel} /\ pe.targetHint \in Int \cup {NoLevel}
    BY <1>2 DEF PendingEntry, Price
  <1>4. pe.symbol \in DOMAIN bars /\ pe.symbol \notin DOMAIN positions /\ ~halted /\ pos.qty > 0
    BY DEF FillPending, MayFill
  <1>5. pos \in OpenPosition /\ pos.sig = pe.sig /\ pos.time = time
    <2> DEFINE entry  == Fill(pe.side, bars[pe.symbol].open, pe.atr)
               stop   == ResolveStop(pe.side, entry, pe.atr, pe.stopHint)
               target == IF Trailing THEN NoLevel
                         ELSE IF pe.targetHint # NoLevel THEN pe.targetHint
                         ELSE TakeProfit(pe.side, entry, stop)
               size   == PositionSize(Equity, entry, stop, cash, MaxRiskPct)
               qty    == IF ValidStop(pe.side, entry, stop) THEN size ELSE 0
    <2>1. bars[pe.symbol].open \in Int
      BY <1>4, BarIsPrices DEF ReplayTypeOK
    <2>2. entry \in Int
      BY <1>3, <2>1, FillIsInt
    <2>7. pos = [side |-> pe.side, entry |-> entry, time |-> time, stop |-> stop,
                 target |-> target, atr |-> pe.atr, risk |-> Distance(entry, stop),
                 peak |-> entry, sig |-> pe.sig, qty |-> qty]
      BY DEF Entered
    <2> HIDE DEF entry, pos, pe
    <2>3. stop \in Int
      <3>1. pe.side \in Side /\ entry \in Int /\ pe.atr \in Int
            /\ pe.stopHint \in Int \cup {NoLevel}
        BY <1>3, <2>2
      <3>2. ResolveStop(pe.side, entry, pe.atr, pe.stopHint) \in Int
        BY <3>1, ResolveStopIsPrice
      <3> QED BY <3>2
    <2> HIDE DEF stop
    <2>4. Distance(entry, stop) \in Nat
      BY <2>2, <2>3 DEF Distance
    <2>5. target \in Int \cup {NoLevel}
      <3>1. RewardRisk * Distance(entry, stop) \in Int
        BY <2>4, RiskConfigAssumption
      <3>2. TakeProfit(pe.side, entry, stop) \in Int
        BY <2>2, <3>1 DEF TakeProfit, Behind
      <3> QED BY <1>3, <3>2
    <2>6. size \in Nat
      <3>1. cash \in Int
        BY DEF ReplayTypeOK
      <3>2. MaxRiskPct \in Int
        BY RiskConfigAssumption
      <3>3. Equity \in Int
        BY EquityIsInt
      <3> QED BY <2>2, <2>3, <3>1, <3>2, <3>3, PositionSizeWithinCaps
    <2>8. time \in Nat
      BY DEF ReplayTypeOK
    <2> HIDE DEF target, size
    <2>9. qty \in Nat \ {0}
      BY <1>4, <2>6, <2>7
    <2> HIDE DEF qty
    <2> QED BY <1>3, <2>2, <2>3, <2>4, <2>5, <2>7, <2>8, <2>9 DEF OpenPosition
  <1>6. /\ positions' = With(positions, pe.symbol, pos)
        /\ cash' = cash - Owed(pos.side, pos.qty, pos.entry)
        /\ signals' = [signals EXCEPT ![pe.sig] = sig]
        /\ queue' = Tail(queue) /\ pc = "fill"
        /\ UNCHANGED <<time, day, bars, session, pc, trades, pending, lastClose, dayPeak,
                       halted, pfBlocked, todo>>
    <2>1. pe.side = pos.side
      BY DEF Entered
    <2> QED BY <2>1 DEF FillPending, data, guards
  <1>7. sig \in GivenSignal /\ sig.symbol = signals[pe.sig].symbol
        /\ sig.time = signals[pe.sig].time /\ sig.day = signals[pe.sig].day
        /\ pe.sig \in 1..Len(signals) /\ signals \in Seq(GivenSignal)
    <2> DEFINE old == signals[pe.sig]
    <2>1. pe.sig \in DOMAIN signals
      BY <1>2
    <2>2. signals \in Seq(GivenSignal) /\ pe.sig \in 1..Len(signals) /\ old \in GivenSignal
      BY <2>1 DEF ReplayTypeOK
    <2>3. sig = [old EXCEPT !.filled = TRUE]
      OBVIOUS
    <2> HIDE DEF sig, old
    <2>4. sig \in GivenSignal /\ sig.symbol = old.symbol /\ sig.time = old.time /\ sig.day = old.day
      BY <2>2, <2>3 DEF GivenSignal
    <2> QED BY <2>2, <2>4 DEF old
  <1> HIDE DEF pe, pos, sig
  <1>8. /\ DOMAIN positions' = DOMAIN positions \cup {pe.symbol}
        /\ positions'[pe.symbol] = pos
        /\ \A t \in DOMAIN positions : positions'[t] = positions[t]
        /\ positions' \in [DOMAIN positions' -> OpenPosition]
    BY <1>4, <1>5, <1>6 DEF With, ReplayTypeOK
  <1>9. /\ signals' \in Seq(GivenSignal) /\ Len(signals') = Len(signals)
        /\ \A i \in 1..Len(signals) : signals'[i] = IF i = pe.sig THEN sig ELSE signals[i]
    BY <1>6, <1>7, ExceptSeq
  <1>10. /\ DOMAIN signals' = DOMAIN signals
         /\ \A i \in DOMAIN signals : /\ signals'[i].symbol = signals[i].symbol
                                      /\ signals'[i].time = signals[i].time
                                      /\ signals'[i].day = signals[i].day
    BY <1>7, <1>9
  <1>11. cash' \in Int
    <2>1. Owed(pos.side, pos.qty, pos.entry) \in Int
      BY <1>5, OwedIsInt DEF OpenPosition
    <2> QED BY <1>6, <2>1 DEF ReplayTypeOK
  <1>12. pe = Head(queue)
    BY DEF pe
  <1> QED BY <1>2, <1>4, <1>5, <1>6, <1>8, <1>9, <1>10, <1>11, <1>12

\* Trailing a position moves its peak and its stop, and nothing else of it.
LEMMA TrailEffect ==
    ASSUME ReplayTypeOK, PhaseShape, NEW s \in Symbols, TrailPosition(s)
    PROVE  /\ s \in DOMAIN positions /\ s \in todo /\ todo' = todo \ {s}
           /\ DOMAIN positions' = DOMAIN positions
           /\ positions' \in [DOMAIN positions' -> OpenPosition]
           /\ \A t \in DOMAIN positions : /\ positions'[t].side = positions[t].side
                                          /\ positions'[t].qty = positions[t].qty
                                          /\ positions'[t].entry = positions[t].entry
                                          /\ positions'[t].time = positions[t].time
                                          /\ positions'[t].sig = positions[t].sig
           /\ DOMAIN lastClose' \subseteq Symbols /\ lastClose' \in [DOMAIN lastClose' -> Price]
           /\ UNCHANGED <<time, day, bars, session, pc, cash, signals, trades, queue, pending,
                          dayPeak, halted, pfBlocked>>
  <1> DEFINE pos == positions[s]
             peak == Tighter(pos.side, pos.peak, Best(pos.side, bars[s]))
             stop == UpdateTrailingStop(pos.side, pos.stop, peak,
                                        TrailMultiplier * pos.atr, pos.entry, pos.risk)
             new == [pos EXCEPT !.peak = peak, !.stop = stop]
  <1>1. s \in todo /\ todo' = todo \ {s} /\ s \in DOMAIN positions /\ s \in DOMAIN bars
    BY DEF TrailPosition, Visit, PhaseShape
  <1>2. /\ pos \in OpenPosition /\ pos.side \in Side /\ pos.peak \in Int /\ pos.stop \in Int
        /\ pos.atr \in Nat /\ pos.entry \in Int /\ pos.risk \in Int
    BY <1>1, HeldPosition
  <1>3. bars[s].high \in Int /\ bars[s].low \in Int /\ bars[s].close \in Price
    BY <1>1, BarIsPrices DEF ReplayTypeOK, Price
  <1>4. peak \in Int
    BY <1>2, <1>3 DEF Tighter, Larger, Smaller, Best
  <1>5. positions' = [positions EXCEPT ![s].peak = peak, ![s].stop = stop]
    BY DEF TrailPosition
  <1>6. DOMAIN lastClose' \subseteq Symbols /\ lastClose' \in [DOMAIN lastClose' -> Price]
    BY <1>3 DEF TrailPosition, With, ReplayTypeOK
  <1>7. UNCHANGED <<time, day, bars, session, pc, cash, signals, trades, queue, pending,
                    dayPeak, halted, pfBlocked>>
    BY DEF TrailPosition, data, guards
  <1>8. positions' = [positions EXCEPT ![s] = new]
    BY <1>1, <1>5 DEF ReplayTypeOK
  <1> HIDE DEF pos, peak
  <1>9. stop \in Int
    <2>1. TrailMultiplier * pos.atr \in Int
      BY <1>2, RiskConfigAssumption
    <2> QED BY <1>2, <1>4, <2>1, TrailNeverLoosens
  <1> HIDE DEF stop
  <1>10. /\ new \in OpenPosition /\ new.side = pos.side /\ new.qty = pos.qty
         /\ new.entry = pos.entry /\ new.time = pos.time /\ new.sig = pos.sig
    BY <1>2, <1>4, <1>9 DEF OpenPosition
  <1> HIDE DEF new
  <1>11. /\ DOMAIN positions' = DOMAIN positions
         /\ positions' \in [DOMAIN positions' -> OpenPosition]
         /\ \A t \in DOMAIN positions : positions'[t] = IF t = s THEN new ELSE positions[t]
    BY <1>8, <1>10 DEF ReplayTypeOK
  <1>12. \A t \in DOMAIN positions : /\ positions'[t].side = positions[t].side
                                     /\ positions'[t].qty = positions[t].qty
                                     /\ positions'[t].entry = positions[t].entry
                                     /\ positions'[t].time = positions[t].time
                                     /\ positions'[t].sig = positions[t].sig
    BY <1>10, <1>11 DEF pos
  <1> QED BY <1>1, <1>6, <1>7, <1>11, <1>12

\* A signal of this timestamp is added, and at most a pending entry for it.
LEMMA EvaluateEffect ==
    ASSUME ReplayTypeOK, NEW r \in Requests, NEW passed \in BOOLEAN, Evaluate(r, passed)
    PROVE  /\ pc = "evaluate" /\ ~halted /\ ~pfBlocked
           /\ signals' \in Seq(GivenSignal) /\ Len(signals') = Len(signals) + 1
           /\ \A i \in DOMAIN signals : signals'[i] = signals[i]
           /\ signals'[Len(signals) + 1].symbol = r.symbol
           /\ signals'[Len(signals) + 1].time = time
           /\ signals'[Len(signals) + 1].day = day
           /\ pending' \in Seq(PendingEntry)
           /\ \A k \in DOMAIN pending' :
                 \/ k \in DOMAIN pending /\ pending'[k] = pending[k]
                 \/ pending'[k].symbol = r.symbol /\ pending'[k].sig = Len(signals) + 1
           /\ UNCHANGED <<time, day, bars, session, pc, cash, positions, trades, queue,
                          lastClose, dayPeak, halted, pfBlocked, todo>>
  <1> DEFINE new == [symbol |-> r.symbol, time |-> time, day |-> day,
                     filled |-> FALSE, label |-> "none"]
  <1>1. r \in Request /\ signals \in Seq(GivenSignal) /\ pending \in Seq(PendingEntry)
        /\ time \in Nat /\ day \in Nat
    BY ReplayConfigAssumption DEF ReplayTypeOK
  <1>2. new \in GivenSignal /\ new.symbol = r.symbol /\ new.time = time /\ new.day = day
    BY <1>1 DEF GivenSignal, Request, Labels
  <1>3. Pending(r) \in PendingEntry /\ Pending(r).symbol = r.symbol
        /\ Pending(r).sig = Len(signals) + 1
    BY <1>1 DEF Pending, PendingEntry, Request, SignalIdx
  <1>4. signals' = Append(signals, new)
    BY DEF Evaluate
  <1>5. pending' = Append(pending, Pending(r)) \/ pending' = pending
    BY DEF Evaluate
  <1>6. /\ pc = "evaluate" /\ ~halted /\ ~pfBlocked
        /\ UNCHANGED <<time, day, bars, session, pc, cash, positions, trades, queue,
                       lastClose, dayPeak, halted, pfBlocked, todo>>
    BY DEF Evaluate, MayEvaluate, data, guards
  <1> HIDE DEF new
  <1>7. /\ signals' \in Seq(GivenSignal) /\ Len(signals') = Len(signals) + 1
        /\ \A i \in DOMAIN signals : signals'[i] = signals[i]
        /\ signals'[Len(signals) + 1] = new
    BY <1>1, <1>2, <1>4
  <1>8. pending' \in Seq(PendingEntry)
    BY <1>1, <1>3, <1>5
  <1>9. \A k \in DOMAIN pending' :
           \/ k \in DOMAIN pending /\ pending'[k] = pending[k]
           \/ pending'[k].symbol = r.symbol /\ pending'[k].sig = Len(signals) + 1
    BY <1>1, <1>3, <1>5
  <1> QED BY <1>2, <1>6, <1>7, <1>8, <1>9

\* Both together.
LEMMA ClosingEffect ==
    ASSUME ReplayTypeOK, PhaseShape, EntriesAreSourced, NEW s \in Symbols, Closes(s)
    PROVE  /\ s \in DOMAIN positions /\ s \in todo /\ todo' = todo \ {s}
           /\ DOMAIN positions' = DOMAIN positions \ {s}
           /\ \A t \in DOMAIN positions' : positions'[t] = positions[t]
           /\ positions' \in [DOMAIN positions' -> OpenPosition]
           /\ signals' \in Seq(GivenSignal) /\ DOMAIN signals' = DOMAIN signals
           /\ \A i \in DOMAIN signals : /\ signals'[i].symbol = signals[i].symbol
                                        /\ signals'[i].time = signals[i].time
                                        /\ signals'[i].day = signals[i].day
           /\ trades' \in Seq(ClosedTrade) /\ Len(trades') = Len(trades) + 1
           /\ \A k \in DOMAIN trades : trades'[k] = trades[k]
           /\ trades'[Len(trades) + 1].day = day
           /\ cash' \in Int
           /\ DOMAIN lastClose' \subseteq Symbols /\ lastClose' \in [DOMAIN lastClose' -> Price]
           /\ UNCHANGED <<time, day, bars, session, pc, queue, pending, dayPeak, halted, pfBlocked>>
           /\ \E exit \in Int :
                 /\ cash' = cash + Owed(positions[s].side, positions[s].qty, exit)
                 /\ trades'[Len(trades) + 1].pnl + Commission
                      = Gain(positions[s].side, positions[s].entry, exit) * positions[s].qty
  <1>1. /\ s \in DOMAIN positions /\ s \in todo /\ todo' = todo \ {s}
        /\ UNCHANGED <<time, day, bars, session, pc, queue, pending, dayPeak, halted, pfBlocked>>
        /\ DOMAIN lastClose' \subseteq Symbols /\ lastClose' \in [DOMAIN lastClose' -> Price]
        /\ \E ref \in Int, reason \in {"SL", "TP", "KILL_SWITCH", "EOD"} :
              Close(s, ref, reason)
    BY ClosesEffect
  <1>2. PICK ref \in Int, reason \in {"SL", "TP", "KILL_SWITCH", "EOD"} : Close(s, ref, reason)
    BY <1>1
  <1>3. positions[s].sig \in DOMAIN signals
    BY <1>1 DEF EntriesAreSourced
  <1>4. /\ DOMAIN positions' = DOMAIN positions \ {s}
        /\ \A t \in DOMAIN positions' : positions'[t] = positions[t]
        /\ positions' \in [DOMAIN positions' -> OpenPosition]
        /\ signals' \in Seq(GivenSignal) /\ DOMAIN signals' = DOMAIN signals
        /\ \A i \in DOMAIN signals : /\ signals'[i].symbol = signals[i].symbol
                                     /\ signals'[i].time = signals[i].time
                                     /\ signals'[i].day = signals[i].day
        /\ trades' \in Seq(ClosedTrade) /\ Len(trades') = Len(trades) + 1
        /\ \A k \in DOMAIN trades : trades'[k] = trades[k]
        /\ trades'[Len(trades) + 1].day = day
        /\ cash' \in Int
        /\ \E exit \in Int :
              /\ cash' = cash + Owed(positions[s].side, positions[s].qty, exit)
              /\ trades'[Len(trades) + 1].pnl + Commission
                   = Gain(positions[s].side, positions[s].entry, exit) * positions[s].qty
    BY <1>1, <1>2, <1>3, CloseEffect
  <1> QED BY <1>1, <1>4

-----------------------------------------------------------------------------
(* Types and phases.                                                       *)

\* Every step of the replay keeps the types.
LEMMA TypesStep ==
    ASSUME ReplayShape, ReplayNext PROVE ReplayTypeOK'
  <1>1. ReplayTypeOK /\ PhaseShape /\ EntriesAreSourced
    BY DEF ReplayShape
  <1>2. CASE Quiet
    BY <1>1, <1>2, QuietTypes
  <1>3. CASE FillPending
    <2>1. \A k \in DOMAIN queue : queue[k].sig \in DOMAIN signals
      BY <1>1 DEF EntriesAreSourced, Sourced
    <2>2. PICK pe \in PendingEntry, pos \in OpenPosition :
           /\ pe.symbol \in DOMAIN bars
           /\ DOMAIN positions' = DOMAIN positions \cup {pe.symbol}
           /\ positions' \in [DOMAIN positions' -> OpenPosition]
           /\ cash' \in Int
           /\ signals' \in Seq(GivenSignal)
           /\ queue' \in Seq(PendingEntry)
           /\ UNCHANGED <<time, day, bars, session, pc, trades, pending, lastClose, dayPeak,
                          halted, pfBlocked, todo>>
      BY <1>1, <1>3, <2>1, FillPendingEffect
    <2> QED BY <1>1, <2>2 DEF ReplayTypeOK
  <1>4. CASE \E s \in Symbols : Closes(s)
    <2>1. PICK s \in Symbols : Closes(s)
      BY <1>4
    <2>2. /\ todo' = todo \ {s} /\ DOMAIN positions' = DOMAIN positions \ {s}
          /\ positions' \in [DOMAIN positions' -> OpenPosition]
          /\ signals' \in Seq(GivenSignal) /\ trades' \in Seq(ClosedTrade)
          /\ cash' \in Int
          /\ DOMAIN lastClose' \subseteq Symbols /\ lastClose' \in [DOMAIN lastClose' -> Price]
          /\ UNCHANGED <<time, day, bars, session, pc, queue, pending, dayPeak, halted, pfBlocked>>
      BY <1>1, <2>1, ClosingEffect
    <2> QED BY <1>1, <2>2 DEF ReplayTypeOK
  <1>5. CASE \E s \in Symbols : TrailPosition(s)
    <2>1. PICK s \in Symbols : TrailPosition(s)
      BY <1>5
    <2>2. /\ todo' = todo \ {s} /\ DOMAIN positions' = DOMAIN positions
          /\ positions' \in [DOMAIN positions' -> OpenPosition]
          /\ DOMAIN lastClose' \subseteq Symbols /\ lastClose' \in [DOMAIN lastClose' -> Price]
          /\ UNCHANGED <<time, day, bars, session, pc, cash, signals, trades, queue, pending,
                         dayPeak, halted, pfBlocked>>
      BY <1>1, <2>1, TrailEffect
    <2> QED BY <1>1, <2>2 DEF ReplayTypeOK
  <1>6. CASE \E r \in Requests, passed \in BOOLEAN : Evaluate(r, passed)
    <2>1. /\ signals' \in Seq(GivenSignal) /\ pending' \in Seq(PendingEntry)
          /\ UNCHANGED <<time, day, bars, session, pc, cash, positions, trades, queue,
                         lastClose, dayPeak, halted, pfBlocked, todo>>
      BY <1>1, <1>6, EvaluateEffect
    <2> QED BY <1>1, <2>1 DEF ReplayTypeOK
  <1> QED BY <1>2, <1>3, <1>4, <1>5, <1>6, StepKinds

\* When a session's symbols are done, the book is flat.
LEMMA FlatBetweenDays ==
    ASSUME ReplayShape, pc = "next", SessionsOver
    PROVE  DOMAIN positions = {}
  <1> SUFFICES ASSUME NEW s \in DOMAIN positions PROVE FALSE
    OBVIOUS
  <1>1. s \in Symbols /\ session[s] \in {"before", "on", "over"}
    BY DEF ReplayShape, ReplayTypeOK
  <1>2. session[s] # "before" /\ session[s] # "over"
    BY DEF ReplayShape, HeldInSession
  <1> QED BY <1>1, <1>2 DEF SessionsOver

\* Quiet steps keep phases, sessions and the kill switch in order.
LEMMA QuietPhases ==
    ASSUME ReplayShape, Quiet
    PROVE  PhaseShape' /\ HeldInSession' /\ KillVisitsAll'
  <1> USE DEF data, account, guards
  <1>1. ReplayTypeOK /\ PhaseShape /\ HeldInSession /\ KillVisitsAll
    BY DEF ReplayShape
  <1>2. positions' = positions
    BY QuietEffect
  <1>3. CASE NewDay
    <2>1. DOMAIN positions = {} /\ pc = "next"
      BY <1>3, FlatBetweenDays DEF NewDay
    <2>2. \A s \in DOMAIN bars' : session'[s] # "before"
      BY <1>3, ArriveEffect DEF NewDay
    <2>3. /\ pc' = "fill" /\ todo' = todo /\ queue' = <<>> /\ day' = day + 1 /\ day \in Nat
      BY <1>1, <1>3 DEF NewDay, ReplayTypeOK
    <2>4. todo = {}
      BY <1>1, <2>1 DEF PhaseShape
    <2>5. PhaseShape'
      BY <2>3, <2>4 DEF PhaseShape
    <2>6. HeldInSession'
      BY <1>2, <2>1, <2>2 DEF HeldInSession
    <2>7. KillVisitsAll'
      BY <1>2, <2>1 DEF KillVisitsAll
    <2> QED BY <2>5, <2>6, <2>7
  <1>4. CASE NextBar
    <2>1. /\ \A s \in DOMAIN bars' : session'[s] # "before"
          /\ \A s \in Symbols \ DOMAIN bars' : session'[s] = session[s]
      BY <1>1, <1>4, ArriveEffect DEF NextBar, ReplayTypeOK
    <2>2. pc = "next" /\ pc' = "fill" /\ UNCHANGED <<day, todo, halted>> /\ day > 0
      BY <1>4 DEF NextBar
    <2>3. PhaseShape'
      BY <1>1, <1>2, <2>2 DEF PhaseShape
    <2>4. HeldInSession'
      <3> SUFFICES ASSUME NEW s \in DOMAIN positions
                   PROVE  /\ session'[s] # "before"
                          /\ session'[s] = "over" => s \in DOMAIN bars'
        BY <1>2, <2>1, <2>2 DEF HeldInSession
      <3>1. s \in Symbols /\ session[s] # "before" /\ session[s] # "over"
        BY <1>1, <2>2 DEF HeldInSession, ReplayTypeOK
      <3> QED BY <2>1, <3>1
    <2>5. KillVisitsAll'
      BY <1>1, <1>2, <2>2 DEF KillVisitsAll
    <2> QED BY <2>3, <2>4, <2>5
  <1>5. CASE StillPending \/ DropPending
    <2>1. pc = "fill" /\ UNCHANGED <<bars, session, day, pc, todo, halted>>
      BY <1>5 DEF StillPending, DropPending
    <2> QED BY <1>1, <1>2, <2>1 DEF PhaseShape, HeldInSession, KillVisitsAll
  <1>6. CASE BeginManage
    <2>1. /\ pc = "fill" /\ pc' = "manage" /\ queue' = <<>>
          /\ todo' = DOMAIN positions \cap DOMAIN bars
          /\ UNCHANGED <<bars, session, day, halted>>
      BY <1>6 DEF BeginManage
    <2> QED BY <1>1, <1>2, <2>1 DEF PhaseShape, HeldInSession, KillVisitsAll
  <1>7. CASE CheckKillSwitch
    <2>1. /\ pc = "manage" /\ todo = {}
          /\ \/ pc' = "kill" /\ todo' = DOMAIN positions /\ ~halted
             \/ pc' = "evaluate" /\ todo' = todo
          /\ UNCHANGED <<bars, session, day, halted, queue>>
      BY <1>7 DEF CheckKillSwitch
    <2> QED BY <1>1, <1>2, <2>1 DEF PhaseShape, HeldInSession, KillVisitsAll
  <1>8. CASE Halt
    <2>1. /\ pc = "kill" /\ todo = {} /\ pc' = "evaluate"
          /\ UNCHANGED <<bars, session, day, queue, todo>>
      BY <1>8 DEF Halt
    <2> QED BY <1>1, <1>2, <2>1 DEF PhaseShape, HeldInSession, KillVisitsAll
  <1>9. CASE EndEvaluate
    <2>1. /\ pc = "evaluate" /\ pc' = "flatten" /\ todo' = Ending
          /\ UNCHANGED <<bars, session, day, halted, queue>>
      BY <1>9 DEF EndEvaluate
    <2> QED BY <1>1, <1>2, <2>1 DEF PhaseShape, HeldInSession, KillVisitsAll, Ending
  <1>10. CASE EndBar
    <2>1. /\ pc = "flatten" /\ todo = {} /\ pc' = "next"
          /\ UNCHANGED <<bars, session, day, halted, queue, todo>>
      BY <1>10 DEF EndBar
    <2> QED BY <1>1, <1>2, <2>1 DEF PhaseShape, HeldInSession, KillVisitsAll
  <1> QED BY <1>3, <1>4, <1>5, <1>6, <1>7, <1>8, <1>9, <1>10 DEF Quiet

\* So do the steps of the account: fills happen on a bar of the symbol, and what is
\* closed was the next to visit.
LEMMA PhasesStep ==
    ASSUME ReplayShape, ReplayNext
    PROVE  PhaseShape' /\ HeldInSession' /\ KillVisitsAll'
  <1>1. ReplayTypeOK /\ PhaseShape /\ HeldInSession /\ KillVisitsAll /\ EntriesAreSourced
    BY DEF ReplayShape
  <1>2. CASE Quiet
    BY <1>2, QuietPhases
  <1>3. CASE FillPending
    <2>1. \A k \in DOMAIN queue : queue[k].sig \in DOMAIN signals
      BY <1>1 DEF EntriesAreSourced, Sourced
    <2>2. PICK pe \in PendingEntry, pos \in OpenPosition :
           /\ pe.symbol \in DOMAIN bars /\ ~halted
           /\ DOMAIN positions' = DOMAIN positions \cup {pe.symbol}
           /\ pc = "fill"
           /\ UNCHANGED <<day, bars, session, pc, halted, todo>>
      BY <1>1, <1>3, <2>1, FillPendingEffect
    <2> QED BY <1>1, <2>2 DEF PhaseShape, HeldInSession, KillVisitsAll
  <1>4. CASE \E s \in Symbols : Closes(s)
    <2>1. PICK s \in Symbols : Closes(s)
      BY <1>4
    <2>2. /\ s \in todo /\ todo' = todo \ {s} /\ DOMAIN positions' = DOMAIN positions \ {s}
          /\ UNCHANGED <<day, bars, session, pc, queue, halted>>
      BY <1>1, <2>1, ClosingEffect
    <2> QED BY <1>1, <2>2 DEF PhaseShape, HeldInSession, KillVisitsAll
  <1>5. CASE \E s \in Symbols : TrailPosition(s)
    <2>1. PICK s \in Symbols : TrailPosition(s)
      BY <1>5
    <2>2. /\ todo' = todo \ {s} /\ DOMAIN positions' = DOMAIN positions
          /\ UNCHANGED <<day, bars, session, pc, queue, halted>>
      BY <1>1, <2>1, TrailEffect
    <2>3. pc = "manage"
      BY <2>1 DEF TrailPosition
    <2> QED BY <1>1, <2>2, <2>3 DEF PhaseShape, HeldInSession, KillVisitsAll
  <1>6. CASE \E r \in Requests, passed \in BOOLEAN : Evaluate(r, passed)
    <2>1. UNCHANGED <<day, bars, session, pc, positions, queue, halted, todo>>
      BY <1>1, <1>6, EvaluateEffect
    <2> QED BY <1>1, <2>1 DEF PhaseShape, HeldInSession, KillVisitsAll
  <1> QED BY <1>2, <1>3, <1>4, <1>5, <1>6, StepKinds

-----------------------------------------------------------------------------
(* Where entries and positions come from.                                  *)

\* A waiting entry stays sourced as signals are marked and added on its day.
LEMMA SourcedStays ==
    ASSUME NEW pe, Sourced(pe), day' = day, time \in Nat, time' \in Nat, time <= time',
           signals \in Seq(GivenSignal),
           pe.sig \in DOMAIN signals', signals'[pe.sig].symbol = signals[pe.sig].symbol,
           signals'[pe.sig].day = signals[pe.sig].day,
           signals'[pe.sig].time = signals[pe.sig].time
    PROVE  /\ pe.sig \in DOMAIN signals'
           /\ signals'[pe.sig].symbol = pe.symbol
           /\ signals'[pe.sig].day = day'
           /\ signals'[pe.sig].time <= time'
  <1>1. signals[pe.sig] \in GivenSignal
    BY DEF Sourced
  <1>2. signals[pe.sig].time \in Nat
    BY <1>1 DEF GivenSignal
  <1> QED BY <1>2 DEF Sourced

\* Quiet steps leave positions on their signals and entries on theirs: a new day
\* drops the entries, a later bar makes every pending one an earlier signal's.
LEMMA QuietEntries ==
    ASSUME ReplayShape, Quiet
    PROVE  EntriesAreSourced' /\ FillsFollowSignals'
  <1> USE DEF data, account, guards
  <1>1. ReplayTypeOK /\ PhaseShape /\ EntriesAreSourced /\ FillsFollowSignals
    BY DEF ReplayShape
  <1>2. UNCHANGED <<positions, signals>> /\ signals \in Seq(GivenSignal)
    BY <1>1, QuietEffect DEF ReplayTypeOK
  <1>3. time \in Nat /\ day \in Nat /\ queue \in Seq(PendingEntry) /\ pending \in Seq(PendingEntry)
    BY <1>1 DEF ReplayTypeOK
  <1>4. \A i \in DOMAIN signals : signals[i].time \in Nat
    <2> TAKE i \in DOMAIN signals
    <2>1. signals[i] \in GivenSignal
      BY <1>2
    <2> QED BY <2>1 DEF GivenSignal
  <1>5. CASE NewDay
    <2>1. DOMAIN positions = {} /\ queue' = <<>> /\ pending' = <<>>
      BY <1>5, FlatBetweenDays DEF NewDay
    <2> QED BY <1>2, <2>1 DEF EntriesAreSourced, FillsFollowSignals
  <1>6. CASE NextBar
    <2>1. queue' = pending /\ pending' = <<>> /\ time' = time + 1 /\ day' = day
      BY <1>6 DEF NextBar
    <2>2. FillsFollowSignals'
      BY <1>1, <1>2, <2>1 DEF FillsFollowSignals
    <2>3. \A k \in DOMAIN pending : Sourced(pending[k])
      BY <1>1 DEF EntriesAreSourced
    <2>4. \A k \in DOMAIN pending : /\ signals[pending[k].sig].time <= time'
                                     /\ signals[pending[k].sig].time < time'
      BY <1>3, <1>4, <2>1, <2>3 DEF Sourced
    <2>5. EntriesAreSourced'
      BY <1>1, <1>2, <2>1, <2>3, <2>4 DEF EntriesAreSourced, Sourced
    <2> QED BY <2>2, <2>5
  <1>7. CASE StillPending \/ DropPending
    <2>1. /\ queue # <<>> /\ queue' = Tail(queue) /\ UNCHANGED <<time, day>>
          /\ pending' = pending \/ pending' = Append(pending, Head(queue))
      BY <1>7 DEF StillPending, DropPending
    <2>2. /\ Tail(queue) \in Seq(PendingEntry) /\ Len(Tail(queue)) = Len(queue) - 1
          /\ \A k \in 1..Len(Tail(queue)) : Tail(queue)[k] = queue[k + 1]
          /\ Head(queue) = queue[1] /\ Len(queue) \in Nat \ {0}
      BY <1>3, <2>1, HeadTailProperties, EmptySeq
    <2>3. \A k \in DOMAIN queue : Sourced(queue[k]) /\ signals[queue[k].sig].time < time
      BY <1>1 DEF EntriesAreSourced
    <2>4. \A k \in DOMAIN queue' : Sourced(queue'[k]) /\ signals[queue'[k].sig].time < time
      <3> SUFFICES ASSUME NEW k \in DOMAIN queue'
                   PROVE  Sourced(queue'[k]) /\ signals[queue'[k].sig].time < time
        OBVIOUS
      <3>1. k + 1 \in DOMAIN queue /\ queue'[k] = queue[k + 1]
        BY <1>3, <2>1, <2>2
      <3> QED BY <2>3, <3>1
    <2>5. \A k \in DOMAIN pending' : Sourced(pending'[k])
      <3> SUFFICES ASSUME NEW k \in DOMAIN pending' PROVE Sourced(pending'[k])
        OBVIOUS
      <3>1. Head(queue) \in PendingEntry /\ Sourced(Head(queue))
        <4>1. 1 \in DOMAIN queue
          BY <1>3, <2>2
        <4> QED BY <1>3, <2>1, <2>2, <2>3, <4>1, HeadTailProperties
      <3>2. (k \in DOMAIN pending /\ pending'[k] = pending[k]) \/ pending'[k] = Head(queue)
        BY <1>3, <2>1, <3>1
      <3>3. k \in DOMAIN pending => Sourced(pending[k])
        BY <1>1 DEF EntriesAreSourced
      <3> QED BY <3>1, <3>2, <3>3
    <2>6. FillsFollowSignals'
      BY <1>1, <1>2, <2>1 DEF FillsFollowSignals
    <2>7. EntriesAreSourced'
      BY <1>1, <1>2, <2>1, <2>4, <2>5 DEF EntriesAreSourced, Sourced
    <2> QED BY <2>6, <2>7
  <1>8. CASE BeginManage \/ CheckKillSwitch \/ Halt \/ EndEvaluate \/ EndBar
    <2>1. UNCHANGED <<time, day, queue, pending>>
      BY <1>8 DEF BeginManage, CheckKillSwitch, Halt, EndEvaluate, EndBar
    <2> QED BY <1>1, <1>2, <2>1 DEF EntriesAreSourced, FillsFollowSignals, Sourced
  <1> QED BY <1>5, <1>6, <1>7, <1>8 DEF Quiet

\* A step that keeps what signals say, and neither the queue's entries nor the clock
\* moves, keeps entries on their signals.
LEMMA EntriesStay ==
    ASSUME EntriesAreSourced, ReplayTypeOK, UNCHANGED <<time, day>>,
           DOMAIN signals \subseteq DOMAIN signals',
           \A i \in DOMAIN signals : /\ signals'[i].symbol = signals[i].symbol
                                     /\ signals'[i].time = signals[i].time
                                     /\ signals'[i].day = signals[i].day
    PROVE  /\ \A k \in DOMAIN queue : /\ queue[k].sig \in DOMAIN signals'
                                      /\ signals'[queue[k].sig].symbol = queue[k].symbol
                                      /\ signals'[queue[k].sig].day = day'
                                      /\ signals'[queue[k].sig].time <= time'
                                      /\ signals'[queue[k].sig].time < time'
           /\ \A k \in DOMAIN pending : /\ pending[k].sig \in DOMAIN signals'
                                        /\ signals'[pending[k].sig].symbol = pending[k].symbol
                                        /\ signals'[pending[k].sig].day = day'
                                        /\ signals'[pending[k].sig].time <= time'
  BY DEF EntriesAreSourced, Sourced

\* Positions stay on their signals as long as they are those of before.
LEMMA PositionsStay ==
    ASSUME EntriesAreSourced, FillsFollowSignals, UNCHANGED <<time, day>>,
           DOMAIN signals \subseteq DOMAIN signals',
           \A i \in DOMAIN signals : /\ signals'[i].symbol = signals[i].symbol
                                     /\ signals'[i].time = signals[i].time
                                     /\ signals'[i].day = signals[i].day,
           NEW s \in DOMAIN positions, positions'[s].sig = positions[s].sig,
           positions'[s].time = positions[s].time
    PROVE  /\ positions'[s].sig \in DOMAIN signals'
           /\ signals'[positions'[s].sig].symbol = s
           /\ signals'[positions'[s].sig].time < positions'[s].time
           /\ signals'[positions'[s].sig].day = day'
  BY DEF EntriesAreSourced, FillsFollowSignals

\* Every step leaves positions on earlier signals of the day for their symbols.
LEMMA EntriesStep ==
    ASSUME ReplayShape, ReplayNext
    PROVE  EntriesAreSourced' /\ FillsFollowSignals'
  <1>1. ReplayTypeOK /\ PhaseShape /\ EntriesAreSourced /\ FillsFollowSignals
        /\ signals \in Seq(GivenSignal) /\ queue \in Seq(PendingEntry)
        /\ pending \in Seq(PendingEntry)
    BY DEF ReplayShape, ReplayTypeOK
  <1>2. CASE Quiet
    BY <1>2, QuietEntries
  <1>3. CASE FillPending
    <2>1. \A k \in DOMAIN queue : queue[k].sig \in DOMAIN signals
      BY <1>1 DEF EntriesAreSourced, Sourced
    <2>2. PICK pe \in PendingEntry, pos \in OpenPosition :
           /\ pe = queue[1] /\ 1 \in DOMAIN queue
           /\ pos.sig = pe.sig /\ pos.time = time
           /\ DOMAIN positions' = DOMAIN positions \cup {pe.symbol}
           /\ pe.symbol \notin DOMAIN positions
           /\ positions'[pe.symbol] = pos
           /\ \A t \in DOMAIN positions : positions'[t] = positions[t]
           /\ DOMAIN signals' = DOMAIN signals
           /\ \A i \in DOMAIN signals : /\ signals'[i].symbol = signals[i].symbol
                                        /\ signals'[i].time = signals[i].time
                                        /\ signals'[i].day = signals[i].day
           /\ queue' = Tail(queue)
           /\ UNCHANGED <<time, day, pending>>
      BY <1>1, <1>3, <2>1, FillPendingEffect
    <2>3. /\ \A k \in DOMAIN queue : /\ queue[k].sig \in DOMAIN signals'
                                     /\ signals'[queue[k].sig].symbol = queue[k].symbol
                                     /\ signals'[queue[k].sig].day = day'
                                     /\ signals'[queue[k].sig].time <= time'
                                     /\ signals'[queue[k].sig].time < time'
          /\ \A k \in DOMAIN pending : /\ pending[k].sig \in DOMAIN signals'
                                       /\ signals'[pending[k].sig].symbol = pending[k].symbol
                                       /\ signals'[pending[k].sig].day = day'
                                       /\ signals'[pending[k].sig].time <= time'
      BY <1>1, <2>2, EntriesStay
    <2>4. queue # <<>>
      BY <1>3 DEF FillPending
    <2>5. \A k \in DOMAIN queue' : k + 1 \in DOMAIN queue /\ queue'[k] = queue[k + 1]
      <3>1. /\ Tail(queue) \in Seq(PendingEntry) /\ Len(Tail(queue)) = Len(queue) - 1
            /\ \A k \in 1..Len(Tail(queue)) : Tail(queue)[k] = queue[k + 1]
        BY <1>1, <2>4, HeadTailProperties
      <3> QED BY <1>1, <2>2, <3>1
    <2>6. \A s \in DOMAIN positions' :
             /\ positions'[s].sig \in DOMAIN signals'
             /\ signals'[positions'[s].sig].symbol = s
             /\ signals'[positions'[s].sig].time < positions'[s].time
             /\ signals'[positions'[s].sig].day = day'
      <3> TAKE s \in DOMAIN positions'
      <3>1. CASE s = pe.symbol
        BY <2>2, <2>3, <3>1
      <3>2. CASE s # pe.symbol
        <4>1. s \in DOMAIN positions /\ positions'[s] = positions[s]
          BY <2>2, <3>2
        <4> QED BY <1>1, <2>2, <4>1, PositionsStay
      <3> QED BY <3>1, <3>2
    <2>7. FillsFollowSignals'
      BY <2>6 DEF FillsFollowSignals
    <2>8. EntriesAreSourced'
      BY <2>2, <2>3, <2>5, <2>6 DEF EntriesAreSourced, Sourced
    <2> QED BY <2>7, <2>8
  <1>4. CASE \E s \in Symbols : Closes(s) \/ TrailPosition(s)
    <2>1. PICK s \in Symbols : Closes(s) \/ TrailPosition(s)
      BY <1>4
    <2>2. /\ DOMAIN positions' \subseteq DOMAIN positions
          /\ \A t \in DOMAIN positions' : /\ positions'[t].sig = positions[t].sig
                                          /\ positions'[t].time = positions[t].time
          /\ DOMAIN signals' = DOMAIN signals
          /\ \A i \in DOMAIN signals : /\ signals'[i].symbol = signals[i].symbol
                                       /\ signals'[i].time = signals[i].time
                                       /\ signals'[i].day = signals[i].day
          /\ UNCHANGED <<time, day, queue, pending>>
      <3>1. CASE Closes(s)
        BY <1>1, <3>1, ClosingEffect
      <3>2. CASE TrailPosition(s)
        BY <1>1, <3>2, TrailEffect
      <3> QED BY <2>1, <3>1, <3>2
    <2>3. /\ \A k \in DOMAIN queue : /\ queue[k].sig \in DOMAIN signals'
                                     /\ signals'[queue[k].sig].symbol = queue[k].symbol
                                     /\ signals'[queue[k].sig].day = day'
                                     /\ signals'[queue[k].sig].time <= time'
                                     /\ signals'[queue[k].sig].time < time'
          /\ \A k \in DOMAIN pending : /\ pending[k].sig \in DOMAIN signals'
                                       /\ signals'[pending[k].sig].symbol = pending[k].symbol
                                       /\ signals'[pending[k].sig].day = day'
                                       /\ signals'[pending[k].sig].time <= time'
      BY <1>1, <2>2, EntriesStay
    <2>4. \A t \in DOMAIN positions' :
             /\ positions'[t].sig \in DOMAIN signals'
             /\ signals'[positions'[t].sig].symbol = t
             /\ signals'[positions'[t].sig].time < positions'[t].time
             /\ signals'[positions'[t].sig].day = day'
      <3> TAKE t \in DOMAIN positions'
      <3>1. t \in DOMAIN positions
        BY <2>2
      <3> QED BY <1>1, <2>2, <3>1, PositionsStay
    <2> QED BY <2>2, <2>3, <2>4 DEF EntriesAreSourced, FillsFollowSignals, Sourced
  <1>5. CASE \E r \in Requests, passed \in BOOLEAN : Evaluate(r, passed)
    <2>1. PICK r \in Requests, passed \in BOOLEAN : Evaluate(r, passed)
      BY <1>5
    <2>2. /\ signals' \in Seq(GivenSignal) /\ Len(signals') = Len(signals) + 1
          /\ \A i \in DOMAIN signals : signals'[i] = signals[i]
          /\ signals'[Len(signals) + 1].symbol = r.symbol
          /\ signals'[Len(signals) + 1].time = time
          /\ signals'[Len(signals) + 1].day = day
          /\ \A k \in DOMAIN pending' :
                \/ k \in DOMAIN pending /\ pending'[k] = pending[k]
                \/ pending'[k].symbol = r.symbol /\ pending'[k].sig = Len(signals) + 1
          /\ UNCHANGED <<time, day, positions, queue>>
      BY <1>1, <2>1, EvaluateEffect
    <2>3. DOMAIN signals \subseteq DOMAIN signals' /\ Len(signals) + 1 \in DOMAIN signals'
      BY <1>1, <2>2
    <2>4. /\ \A k \in DOMAIN queue : /\ queue[k].sig \in DOMAIN signals'
                                     /\ signals'[queue[k].sig].symbol = queue[k].symbol
                                     /\ signals'[queue[k].sig].day = day'
                                     /\ signals'[queue[k].sig].time <= time'
                                     /\ signals'[queue[k].sig].time < time'
          /\ \A k \in DOMAIN pending : /\ pending[k].sig \in DOMAIN signals'
                                       /\ signals'[pending[k].sig].symbol = pending[k].symbol
                                       /\ signals'[pending[k].sig].day = day'
                                       /\ signals'[pending[k].sig].time <= time'
      BY <1>1, <2>2, <2>3, EntriesStay
    <2>5. \A s \in DOMAIN positions :
             /\ positions[s].sig \in DOMAIN signals'
             /\ signals'[positions[s].sig].symbol = s
             /\ signals'[positions[s].sig].time < positions[s].time
             /\ signals'[positions[s].sig].day = day'
      BY <1>1, <2>2, <2>3 DEF EntriesAreSourced, FillsFollowSignals
    <2>6. time <= time
      BY <1>1 DEF ReplayTypeOK
    <2> QED BY <2>2, <2>3, <2>4, <2>5, <2>6 DEF EntriesAreSourced, FillsFollowSignals, Sourced
  <1> QED BY <1>2, <1>3, <1>4, <1>5, StepKinds

\* The invariant holds at the start.
LEMMA ReplayShapeInit ==
    ASSUME ReplayInit PROVE ReplayShape
  <1>1. ReplayTypeOK
    <2>1. /\ bars = Nothing /\ positions = Nothing /\ lastClose = Nothing
          /\ queue = <<>> /\ pending = <<>> /\ signals = <<>> /\ trades = <<>>
      BY DEF ReplayInit
    <2>2. /\ DOMAIN bars = {} /\ bars \in [DOMAIN bars -> Bars]
          /\ DOMAIN positions = {} /\ positions \in [DOMAIN positions -> OpenPosition]
          /\ DOMAIN lastClose = {} /\ lastClose \in [DOMAIN lastClose -> Price]
      BY <2>1 DEF Nothing
    <2>3. /\ signals \in Seq(GivenSignal) /\ trades \in Seq(ClosedTrade)
          /\ queue \in Seq(PendingEntry) /\ pending \in Seq(PendingEntry)
      BY <2>1
    <2>4. StartingCash \in Int
      BY ReplayConfigAssumption
    <2>5. /\ time \in Nat /\ day \in Nat /\ cash \in Int /\ dayPeak \in Int /\ todo \subseteq Symbols
          /\ session \in [Symbols -> {"before", "on", "over"}]
          /\ pc \in {"next", "fill", "manage", "kill", "evaluate", "flatten"}
      BY <2>4 DEF ReplayInit
    <2>6. halted \in BOOLEAN /\ pfBlocked \in BOOLEAN
      BY DEF ReplayInit
    <2> QED BY <2>2, <2>3, <2>5, <2>6 DEF ReplayTypeOK
  <1>2. PhaseShape /\ HeldInSession /\ KillVisitsAll
    BY DEF ReplayInit, PhaseShape, HeldInSession, KillVisitsAll, Nothing
  <1>3. EntriesAreSourced /\ FillsFollowSignals
    BY DEF ReplayInit, EntriesAreSourced, FillsFollowSignals, Nothing
  <1> QED BY <1>1, <1>2, <1>3 DEF ReplayShape

\* And every step keeps it.
LEMMA ReplayShapeStep ==
    ASSUME ReplayShape, [ReplayNext]_replayVars PROVE ReplayShape'
  <1>1. CASE ReplayNext
    BY <1>1, TypesStep, PhasesStep, EntriesStep DEF ReplayShape
  <1>2. CASE UNCHANGED replayVars
    BY <1>2 DEF replayVars, data, account, guards, ReplayShape, ReplayTypeOK, PhaseShape,
                HeldInSession, KillVisitsAll, EntriesAreSourced, FillsFollowSignals, Sourced
  <1> QED BY <1>1, <1>2

\* The inductive invariant of the replay.
THEOREM ReplayShapeInvariant == ReplaySpec => []ReplayShape
  <1>1. ReplayInit => ReplayShape
    BY ReplayShapeInit
  <1>2. ReplayShape /\ [ReplayNext]_replayVars => ReplayShape'
    BY ReplayShapeStep
  <1> QED BY <1>1, <1>2, PTL DEF ReplaySpec

\* Every variable has its type, whatever the bars: an entry's price, stop and size
\* are numbers even where slippage takes a price below nothing.
THEOREM ReplayTypes == ReplaySpec => []ReplayTypeOK
  <1>1. ReplayShape => ReplayTypeOK
    BY DEF ReplayShape
  <1> QED BY <1>1, ReplayShapeInvariant, PTL

\* Nothing is carried overnight: between timestamps a symbol is held only while its
\* session is on, wherever sessions end and bars are missing.
THEOREM FlatAfterEverySession == ReplaySpec => []FlatAfterSession
  <1>1. ReplayShape => FlatAfterSession
    <2> SUFFICES ASSUME ReplayShape, pc = "next", NEW s \in DOMAIN positions
                 PROVE  session[s] = "on"
      BY DEF FlatAfterSession
    <2>1. session[s] \in {"before", "on", "over"}
      BY DEF ReplayShape, ReplayTypeOK
    <2> QED BY <2>1 DEF ReplayShape, HeldInSession
  <1> QED BY <1>1, ReplayShapeInvariant, PTL

\* No look-ahead and no stale signal: a position was entered on a later bar than
\* its signal, for the signal's symbol and on the signal's day.
THEOREM NoLookAhead == ReplaySpec => []FillsFollowSignals
  <1>1. ReplayShape => FillsFollowSignals
    BY DEF ReplayShape
  <1> QED BY <1>1, ReplayShapeInvariant, PTL

\* A killed day is flat and stays flat: entries that waited when the kill switch
\* fired do not open the book again.
THEOREM KilledDayStaysFlat == ReplaySpec => []KilledDayIsFlat
  <1>1. ReplayShape => KilledDayIsFlat
    <2> SUFFICES ASSUME ReplayShape, halted PROVE positions = Nothing
      BY DEF KilledDayIsFlat
    <2>1. DOMAIN positions = {} /\ positions \in [DOMAIN positions -> OpenPosition]
      BY DEF ReplayShape, KillVisitsAll, ReplayTypeOK
    <2> QED BY <2>1 DEF Nothing
  <1> QED BY <1>1, ReplayShapeInvariant, PTL

-----------------------------------------------------------------------------
(* The account and the list of trades.                                     *)

HeldAtEntry == [s \in DOMAIN positions |->
                   Owed(positions[s].side, positions[s].qty, positions[s].entry)]
Earned == [i \in DOMAIN trades |-> trades[i].pnl + Commission]

\* Both are functions to integers over finite sets.
LEMMA BooksAreSummable ==
    ASSUME ReplayTypeOK
    PROVE  /\ IsFiniteSet(DOMAIN HeldAtEntry) /\ \A s \in DOMAIN HeldAtEntry : HeldAtEntry[s] \in Int
           /\ IsFiniteSet(DOMAIN Earned) /\ \A i \in DOMAIN Earned : Earned[i] \in Int
           /\ DOMAIN HeldAtEntry = DOMAIN positions /\ DOMAIN Earned = 1..Len(trades)
  <1>1. \A s \in DOMAIN positions :
           Owed(positions[s].side, positions[s].qty, positions[s].entry) \in Int
    BY HeldPosition, OwedIsInt
  <1>2. \A i \in DOMAIN trades : trades[i].pnl + Commission \in Int
    <2> TAKE i \in DOMAIN trades
    <2>1. trades[i] \in ClosedTrade
      BY DEF ReplayTypeOK
    <2> QED BY <2>1, ReplayConfigAssumption DEF ClosedTrade
  <1> QED BY <1>1, <1>2, BooksAreFinite DEF HeldAtEntry, Earned

\* What a position is owed more at its exit than at its entry is what it gained.
LEMMA OwedGrowsByGain ==
    ASSUME NEW side \in Side, NEW qty \in Int, NEW entry \in Int, NEW exit \in Int
    PROVE  Owed(side, qty, exit) = Owed(side, qty, entry) + Gain(side, entry, exit) * qty
  <1>1. qty * exit \in Int /\ qty * entry \in Int
    OBVIOUS
  <1>2. (exit - entry) * qty = qty * exit - qty * entry
    OBVIOUS
  <1>3. (entry - exit) * qty = qty * entry - qty * exit
    OBVIOUS
  <1>4. CASE side = "BUY"
    BY <1>1, <1>2, <1>4 DEF Owed, Gain
  <1>5. CASE side # "BUY"
    BY <1>1, <1>3, <1>5 DEF Owed, Gain
  <1> QED BY <1>4, <1>5

\* Every step keeps cash, positions and trades in balance.
LEMMA BalanceStep ==
    ASSUME ReplayShape, ReplayTypeOK', BooksBalance, [ReplayNext]_replayVars
    PROVE  BooksBalance'
  <1>1. ReplayTypeOK /\ PhaseShape /\ EntriesAreSourced
    BY DEF ReplayShape
  <1>2. /\ cash \in Int /\ StartingCash \in Int
        /\ SumFunction(HeldAtEntry) \in Int /\ SumFunction(Earned) \in Int
        /\ SumFunction(HeldAtEntry') \in Int
        /\ cash + SumFunction(HeldAtEntry) = StartingCash + SumFunction(Earned)
    <2>1. SumFunction(HeldAtEntry) \in Int /\ SumFunction(Earned) \in Int
      BY <1>1, BooksAreSummable, FunctionSumIsInt
    <2>2. /\ IsFiniteSet(DOMAIN HeldAtEntry')
          /\ \A s \in DOMAIN HeldAtEntry' : HeldAtEntry'[s] \in Int
      <3>1. \A s \in DOMAIN positions' :
               Owed(positions'[s].side, positions'[s].qty, positions'[s].entry) \in Int
        <4> TAKE s \in DOMAIN positions'
        <4>1. positions'[s] \in OpenPosition
          BY DEF ReplayTypeOK
        <4> QED BY <4>1, OwedIsInt DEF OpenPosition
      <3>2. IsFiniteSet(DOMAIN positions')
        BY ReplayConfigAssumption, FS_Subset DEF ReplayTypeOK
      <3> QED BY <3>1, <3>2 DEF HeldAtEntry
    <2>3. SumFunction(HeldAtEntry') \in Int
      BY <2>2, FunctionSumIsInt
    <2>4. cash \in Int /\ StartingCash \in Int
      BY <1>1, ReplayConfigAssumption DEF ReplayTypeOK
    <2>5. cash + SumFunction(HeldAtEntry) = StartingCash + SumFunction(Earned)
      BY DEF BooksBalance, HeldAtEntry, Earned
    <2> QED BY <2>1, <2>3, <2>4, <2>5
  <1> SUFFICES cash' + SumFunction(HeldAtEntry') = StartingCash + SumFunction(Earned')
    BY DEF BooksBalance, HeldAtEntry, Earned
  <1>3. CASE UNCHANGED <<cash, positions, trades>>
    <2>1. HeldAtEntry' = HeldAtEntry /\ Earned' = Earned
      BY <1>3 DEF HeldAtEntry, Earned
    <2> QED BY <1>2, <1>3, <2>1
  <1>4. CASE FillPending
    <2>1. \A k \in DOMAIN queue : queue[k].sig \in DOMAIN signals
      BY <1>1 DEF EntriesAreSourced, Sourced
    <2>2. PICK pe \in PendingEntry, pos \in OpenPosition :
           /\ pe.symbol \notin DOMAIN positions
           /\ DOMAIN positions' = DOMAIN positions \cup {pe.symbol}
           /\ positions'[pe.symbol] = pos
           /\ \A t \in DOMAIN positions : positions'[t] = positions[t]
           /\ cash' = cash - Owed(pos.side, pos.qty, pos.entry)
           /\ trades' = trades
      BY <1>1, <1>4, <2>1, FillPendingEffect
    <2> DEFINE owed == Owed(pos.side, pos.qty, pos.entry)
               x == pe.symbol
    <2>3. owed \in Int
      BY OwedIsInt DEF OpenPosition
    <2>4. /\ x \notin DOMAIN HeldAtEntry /\ DOMAIN HeldAtEntry' = DOMAIN HeldAtEntry \cup {x}
          /\ HeldAtEntry'[x] = owed
          /\ \A t \in DOMAIN HeldAtEntry : HeldAtEntry'[t] = HeldAtEntry[t]
      BY <2>2 DEF HeldAtEntry
    <2>5. IsFiniteSet(DOMAIN HeldAtEntry) /\ \A s \in DOMAIN HeldAtEntry : HeldAtEntry[s] \in Int
      BY <1>1, BooksAreSummable
    <2> HIDE DEF owed, x
    <2>6. SumFunction(HeldAtEntry') = SumFunction(HeldAtEntry) + owed
      BY <2>3, <2>4, <2>5, FunctionSumGrows
    <2>7. Earned' = Earned
      BY <2>2 DEF Earned
    <2>8. cash' = cash - owed
      BY <2>2 DEF owed
    <2> QED BY <1>2, <2>3, <2>6, <2>7, <2>8
  <1>5. CASE \E s \in Symbols : Closes(s)
    <2>1. PICK s \in Symbols : Closes(s)
      BY <1>5
    <2>2. /\ s \in DOMAIN positions
          /\ DOMAIN positions' = DOMAIN positions \ {s}
          /\ \A t \in DOMAIN positions' : positions'[t] = positions[t]
          /\ trades' \in Seq(ClosedTrade) /\ Len(trades') = Len(trades) + 1
          /\ \A k \in DOMAIN trades : trades'[k] = trades[k]
          /\ \E exit \in Int :
                /\ cash' = cash + Owed(positions[s].side, positions[s].qty, exit)
                /\ trades'[Len(trades) + 1].pnl + Commission
                     = Gain(positions[s].side, positions[s].entry, exit) * positions[s].qty
      BY <1>1, <2>1, ClosingEffect
    <2> DEFINE pos == positions[s]
               last == Len(trades) + 1
    <2>3. PICK exit \in Int :
             /\ cash' = cash + Owed(pos.side, pos.qty, exit)
             /\ trades'[last].pnl + Commission = Gain(pos.side, pos.entry, exit) * pos.qty
      BY <2>2
    <2> DEFINE got == Owed(pos.side, pos.qty, exit)
               paid == Owed(pos.side, pos.qty, pos.entry)
               profit == Gain(pos.side, pos.entry, exit) * pos.qty
    <2>4. pos.side \in Side /\ pos.qty \in Int /\ pos.entry \in Int
      BY <1>1, <2>2, HeldPosition
    <2>5. got \in Int /\ paid \in Int /\ profit \in Int /\ got = paid + profit
      <3> HIDE DEF pos
      <3>1. Gain(pos.side, pos.entry, exit) \in Int
        BY <2>4 DEF Gain
      <3>2. profit \in Int
        BY <2>4, <3>1
      <3>3. got = paid + profit
        BY <2>4, OwedGrowsByGain
      <3>4. got \in Int /\ paid \in Int
        BY <2>4, OwedIsInt
      <3> QED BY <3>2, <3>3, <3>4
    <2>6. /\ s \notin DOMAIN HeldAtEntry' /\ DOMAIN HeldAtEntry = DOMAIN HeldAtEntry' \cup {s}
          /\ HeldAtEntry[s] = paid
          /\ \A t \in DOMAIN HeldAtEntry' : HeldAtEntry'[t] = HeldAtEntry[t]
      BY <2>2 DEF HeldAtEntry
    <2>7. /\ IsFiniteSet(DOMAIN HeldAtEntry) /\ \A t \in DOMAIN HeldAtEntry : HeldAtEntry[t] \in Int
          /\ IsFiniteSet(DOMAIN Earned) /\ \A i \in DOMAIN Earned : Earned[i] \in Int
          /\ DOMAIN Earned = 1..Len(trades) /\ Len(trades) \in Nat /\ DOMAIN trades = 1..Len(trades)
      BY <1>1, BooksAreSummable, BooksAreFinite
    <2>8. IsFiniteSet(DOMAIN HeldAtEntry')
      BY <2>6, <2>7, FS_Subset
    <2>9. /\ last \notin DOMAIN Earned /\ DOMAIN Earned' = DOMAIN Earned \cup {last}
          /\ Earned'[last] = profit
          /\ \A i \in DOMAIN Earned : Earned'[i] = Earned[i]
      <3>1. DOMAIN trades' = 1..(Len(trades) + 1)
        BY <2>2
      <3> QED BY <2>2, <2>3, <2>7, <3>1 DEF Earned
    <2>10. cash' = cash + got
      BY <2>3
    <2> HIDE DEF got, paid, profit, last
    <2>11. SumFunction(HeldAtEntry) = SumFunction(HeldAtEntry') + paid
      <3>1. \A t \in DOMAIN HeldAtEntry' : HeldAtEntry'[t] \in Int /\ HeldAtEntry[t] = HeldAtEntry'[t]
        BY <2>6, <2>7
      <3>2. HeldAtEntry[s] \in Int
        BY <2>5, <2>6
      <3>3. SumFunction(HeldAtEntry) = SumFunction(HeldAtEntry') + HeldAtEntry[s]
        BY <2>6, <2>8, <3>1, <3>2, FunctionSumGrows
      <3> QED BY <2>6, <3>3
    <2>12. SumFunction(Earned') = SumFunction(Earned) + profit
      <3>1. \A i \in DOMAIN Earned : Earned[i] \in Int /\ Earned'[i] = Earned[i]
        BY <2>7, <2>9
      <3>2. Earned'[last] \in Int
        BY <2>5, <2>9
      <3>3. SumFunction(Earned') = SumFunction(Earned) + Earned'[last]
        BY <2>7, <2>9, <3>1, <3>2, FunctionSumGrows
      <3> QED BY <2>9, <3>3
    <2> QED BY <1>2, <2>5, <2>10, <2>11, <2>12
  <1>6. CASE \E s \in Symbols : TrailPosition(s)
    <2>1. PICK s \in Symbols : TrailPosition(s)
      BY <1>6
    <2>2. /\ DOMAIN positions' = DOMAIN positions
          /\ \A t \in DOMAIN positions : /\ positions'[t].side = positions[t].side
                                         /\ positions'[t].qty = positions[t].qty
                                         /\ positions'[t].entry = positions[t].entry
          /\ UNCHANGED <<cash, trades>>
      BY <1>1, <2>1, TrailEffect
    <2>3. HeldAtEntry' = HeldAtEntry /\ Earned' = Earned
      BY <2>2 DEF HeldAtEntry, Earned
    <2> QED BY <1>2, <2>2, <2>3
  <1>7. CASE Quiet
    BY <1>3, <1>7, QuietEffect
  <1>8. CASE \E r \in Requests, passed \in BOOLEAN : Evaluate(r, passed)
    <2>1. UNCHANGED <<cash, positions, trades>>
      BY <1>1, <1>8, EvaluateEffect
    <2> QED BY <1>3, <2>1
  <1>9. CASE UNCHANGED replayVars
    BY <1>3, <1>9 DEF replayVars, account
  <1> QED BY <1>4, <1>5, <1>6, <1>7, <1>8, <1>9, StepKinds

\* Cash, less what is held at its entry, is the start plus the profits of the list
\* of trades, commissions added back: the two books of the replay never part.
THEOREM BooksAlwaysBalance == ReplaySpec => []BooksBalance
  <1>1. ReplayInit => BooksBalance
    <2> SUFFICES ASSUME ReplayInit PROVE BooksBalance
      OBVIOUS
    <2>1. DOMAIN HeldAtEntry = {} /\ DOMAIN Earned = {} /\ cash = StartingCash
      BY DEF ReplayInit, HeldAtEntry, Earned, Nothing
    <2>2. SumFunction(HeldAtEntry) = 0 /\ SumFunction(Earned) = 0
      BY <2>1, EmptySum
    <2>3. cash + SumFunction(HeldAtEntry) = StartingCash + SumFunction(Earned)
      BY <2>1, <2>2
    <2> QED BY <2>3 DEF BooksBalance, HeldAtEntry, Earned
  <1>2. ReplayShape /\ ReplayShape' /\ BooksBalance /\ [ReplayNext]_replayVars => BooksBalance'
    BY BalanceStep DEF ReplayShape
  <1> QED BY <1>1, <1>2, ReplayShapeInvariant, PTL DEF ReplaySpec

-----------------------------------------------------------------------------
(* The gate.                                                               *)

\* Where trades are in the order of their days, those of earlier days come first.
LEMMA EarlierComeFirst ==
    ASSUME ReplayTypeOK, NEW d \in Int,
           \A k, l \in DOMAIN trades : k <= l => trades[k].day <= trades[l].day
    PROVE  \E n \in 0..Len(trades) :
              /\ {k \in DOMAIN trades : trades[k].day < d} = 1..n
              /\ EarlierTrades(d) = SubSeq(trades, 1, n)
  <1> DEFINE E(m) == {k \in 1..m : trades[k].day < d}
             N == {m \in Nat : m <= Len(trades) => \E n \in 0..m : E(m) = 1..n}
  <1>1. /\ Len(trades) \in Nat /\ DOMAIN trades = 1..Len(trades)
        /\ \A k \in DOMAIN trades : trades[k].day \in Int
    <2>1. \A k \in DOMAIN trades : trades[k].day \in Int
      <3> TAKE k \in DOMAIN trades
      <3>1. trades[k] \in ClosedTrade
        BY DEF ReplayTypeOK
      <3> QED BY <3>1 DEF ClosedTrade
    <2> QED BY <2>1, BooksAreFinite
  <1>2. 0 \in N
    <2>1. E(0) = 1..0
      OBVIOUS
    <2> QED BY <2>1
  <1>3. \A m \in Nat : m \in N => m + 1 \in N
    <2> SUFFICES ASSUME NEW m \in Nat, m \in N PROVE m + 1 \in N
      OBVIOUS
    <2> SUFFICES ASSUME m + 1 <= Len(trades)
                 PROVE  \E n \in 0..(m + 1) : E(m + 1) = 1..n
      <3> HIDE DEF E
      <3> QED OBVIOUS
    <2>1. PICK n \in 0..m : E(m) = 1..n
      BY <1>1
    <2>2. m + 1 \in DOMAIN trades /\ trades[m + 1].day \in Int
      BY <1>1
    <2>3. CASE trades[m + 1].day < d
      <3>1. \A k \in 1..(m + 1) : trades[k].day < d
        <4> TAKE k \in 1..(m + 1)
        <4>1. k \in DOMAIN trades /\ k <= m + 1 /\ trades[k].day \in Int
          BY <1>1
        <4>2. trades[k].day <= trades[m + 1].day
          BY <2>2, <4>1
        <4> QED BY <2>2, <2>3, <4>1, <4>2
      <3>2. E(m + 1) = 1..(m + 1)
        BY <3>1
      <3> QED BY <3>2
    <2>4. CASE ~(trades[m + 1].day < d)
      <3>1. E(m + 1) = E(m)
        BY <2>4
      <3> QED BY <2>1, <3>1
    <2> QED BY <2>3, <2>4
  <1> HIDE DEF N
  <1>4. Len(trades) \in N
    BY <1>1, <1>2, <1>3, NatSetInduction
  <1>5. PICK n \in 0..Len(trades) : E(Len(trades)) = 1..n
    BY <1>1, <1>4 DEF N
  <1>6. {k \in DOMAIN trades : trades[k].day < d} = 1..n
    BY <1>1, <1>5
  <1>7. Cardinality(1..n) = n
    BY <1>1, FS_Interval
  <1> QED BY <1>6, <1>7 DEF EarlierTrades

\* A trade of today leaves those of earlier days as they were.
LEMMA TodayLeavesEarlier ==
    ASSUME ReplayTypeOK, trades' \in Seq(ClosedTrade), Len(trades') = Len(trades) + 1,
           \A k \in DOMAIN trades : trades'[k] = trades[k],
           trades'[Len(trades) + 1].day = day,
           \A k, l \in DOMAIN trades : k <= l => trades[k].day <= trades[l].day,
           NEW d \in Int, d <= day
    PROVE  SubSeq(trades', 1, Cardinality({k \in DOMAIN trades' : trades'[k].day < d}))
             = EarlierTrades(d)
  <1>1. PICK n \in 0..Len(trades) :
           /\ {k \in DOMAIN trades : trades[k].day < d} = 1..n
           /\ EarlierTrades(d) = SubSeq(trades, 1, n)
    BY EarlierComeFirst
  <1>2. /\ trades \in Seq(ClosedTrade) /\ Len(trades) \in Nat /\ DOMAIN trades = 1..Len(trades)
        /\ DOMAIN trades' = 1..(Len(trades) + 1) /\ day \in Int
    BY BooksAreFinite DEF ReplayTypeOK
  <1>3. {k \in DOMAIN trades' : trades'[k].day < d} = {k \in DOMAIN trades : trades[k].day < d}
    BY <1>2
  <1>4. Cardinality(1..n) = n
    BY <1>2, FS_Interval
  <1>5. SubSeq(trades', 1, n) = SubSeq(trades, 1, n)
    <2>1. /\ SubSeq(trades, 1, n) \in Seq(ClosedTrade)
          /\ Len(SubSeq(trades, 1, n)) = n
          /\ \A i \in 1..n : SubSeq(trades, 1, n)[i] = trades[i]
      <3>1. \A i \in 1..n : trades[i] \in ClosedTrade
        BY <1>2
      <3> QED BY <1>2, <3>1, SubSeqProperties
    <2>2. /\ SubSeq(trades', 1, n) \in Seq(ClosedTrade)
          /\ Len(SubSeq(trades', 1, n)) = n
          /\ \A i \in 1..n : SubSeq(trades', 1, n)[i] = trades'[i]
      <3>1. \A i \in 1..n : trades'[i] \in ClosedTrade
        BY <1>2
      <3> QED BY <1>2, <3>1, SubSeqProperties
    <2>3. \A i \in 1..n : trades'[i] = trades[i]
      BY <1>2
    <2> QED BY <2>1, <2>2, <2>3, SeqEqual
  <1> QED BY <1>1, <1>3, <1>4, <1>5

\* Every step leaves the gate as the earlier days set it.
LEMMA GateStep ==
    ASSUME ReplayShape, GateLooksBack, GateWasOpen, [ReplayNext]_replayVars
    PROVE  GateLooksBack' /\ GateWasOpen'
  <1>1. /\ ReplayTypeOK /\ PhaseShape /\ EntriesAreSourced
        /\ day \in Nat /\ trades \in Seq(ClosedTrade) /\ signals \in Seq(GivenSignal)
        /\ Len(trades) \in Nat /\ DOMAIN trades = 1..Len(trades)
        /\ Len(signals) \in Nat /\ DOMAIN signals = 1..Len(signals)
    BY DEF ReplayShape, ReplayTypeOK
  <1>2. /\ \A k, l \in DOMAIN trades : k <= l => trades[k].day <= trades[l].day
        /\ \A k \in DOMAIN trades : trades[k].day <= day /\ trades[k].day \in Nat
        /\ \A i \in DOMAIN signals : signals[i].day <= day /\ signals[i].day \in Nat
        /\ day > 0 => (pfBlocked <=> PfBlocked(Pnls(EarlierTrades(day))))
    <2>1. \A k \in DOMAIN trades : trades[k] \in ClosedTrade
      BY <1>1
    <2>2. \A i \in DOMAIN signals : signals[i] \in GivenSignal
      BY <1>1
    <2> QED BY <2>1, <2>2 DEF GateLooksBack, ClosedTrade, GivenSignal
  <1>3. CASE UNCHANGED <<trades, signals, day, pfBlocked>>
    BY <1>3 DEF GateLooksBack, GateWasOpen, EarlierTrades
  <1>4. CASE NewDay
    <2>1. UNCHANGED <<trades, signals>> /\ day' = day + 1 /\ pfBlocked' = PfBlocked(Pnls(trades))
      BY <1>4 DEF NewDay, account
    <2>2. EarlierTrades(day + 1) = trades
      <3> DEFINE earlier == {k \in DOMAIN trades : trades[k].day < day + 1}
      <3>1. earlier = 1..Len(trades)
        BY <1>1, <1>2
      <3>2. Cardinality(1..Len(trades)) = Len(trades)
        <4>1. 1 \in Int /\ Len(trades) \in Int /\ Len(trades) >= 0
          BY <1>1
        <4>2. Cardinality(1..Len(trades))
                = IF 1 > Len(trades) THEN 0 ELSE Len(trades) - 1 + 1
          BY ONLY <4>1, FS_Interval
        <4> QED BY ONLY <4>1, <4>2
      <3>3. SubSeq(trades, 1, Len(trades)) = trades
        BY <1>1, SubSeqFull
      <3>4. EarlierTrades(day + 1) = SubSeq(trades, 1, Cardinality(earlier))
        BY DEF EarlierTrades
      <3> HIDE DEF earlier
      <3> QED BY ONLY <3>1, <3>2, <3>3, <3>4
    <2>3. GateWasOpen'
      BY <2>1 DEF GateWasOpen, EarlierTrades
    <2>4. EarlierTrades(day)' = trades
      BY <2>1, <2>2 DEF EarlierTrades
    <2>5. pfBlocked' <=> PfBlocked(Pnls(EarlierTrades(day)))'
      <3>1. PfBlocked(Pnls(EarlierTrades(day)))' <=> PfBlocked(Pnls(trades))
        BY Zenon, <2>4 DEF PfBlocked, Pnls
      <3> QED BY Zenon, <2>1, <3>1
    <2>6. \A k \in DOMAIN trades : trades[k].day <= day + 1
      BY <1>1, <1>2
    <2>7. \A i \in DOMAIN signals : signals[i].day <= day + 1
      BY <1>1, <1>2
    <2>8. GateLooksBack'
      BY <1>2, <2>1, <2>5, <2>6, <2>7 DEF GateLooksBack
    <2> QED BY <2>3, <2>8
  <1>5. CASE \E s \in Symbols : Closes(s)
    <2>1. PICK s \in Symbols : Closes(s)
      BY <1>5
    <2>2. /\ DOMAIN signals' = DOMAIN signals
          /\ \A i \in DOMAIN signals : signals'[i].day = signals[i].day
          /\ trades' \in Seq(ClosedTrade) /\ Len(trades') = Len(trades) + 1
          /\ \A k \in DOMAIN trades : trades'[k] = trades[k]
          /\ trades'[Len(trades) + 1].day = day
          /\ UNCHANGED <<day, pfBlocked>>
      BY <1>1, <2>1, ClosingEffect
    <2>3. DOMAIN trades' = 1..(Len(trades) + 1)
      BY <1>1, <2>2
    <2> DEFINE Now(d) == SubSeq(trades', 1, Cardinality({k \in DOMAIN trades' : trades'[k].day < d}))
    <2>4. \A d \in Int : d <= day => Now(d) = EarlierTrades(d)
      BY <1>1, <1>2, <2>2, TodayLeavesEarlier
    <2>5. GateWasOpen'
      <3> SUFFICES ASSUME NEW i \in DOMAIN signals
                   PROVE  ~PfBlocked(Pnls(Now(signals'[i].day)))
        BY <2>2 DEF GateWasOpen, EarlierTrades, PfBlocked, Pnls
      <3>1. signals'[i].day = signals[i].day
        BY <2>2
      <3> HIDE DEF Now
      <3>2. Now(signals[i].day) = EarlierTrades(signals[i].day)
        <4>1. signals[i].day \in Int /\ signals[i].day <= day
          BY <1>2
        <4> QED BY <2>4, <4>1
      <3>3. ~PfBlocked(Pnls(EarlierTrades(signals[i].day)))
        BY DEF GateWasOpen
      <3> QED BY Zenon, <3>1, <3>2, <3>3
    <2>6. GateLooksBack'
      <3>1. \A k, l \in DOMAIN trades' : k <= l => trades'[k].day <= trades'[l].day
        BY <1>1, <1>2, <2>2, <2>3
      <3>2. \A k \in DOMAIN trades' : trades'[k].day <= day
        BY <1>1, <1>2, <2>2, <2>3
      <3>3. \A i \in DOMAIN signals' : signals'[i].day <= day
        BY <1>2, <2>2
      <3>4. day > 0 => (pfBlocked <=> PfBlocked(Pnls(Now(day))))
        <4>1. Now(day) = EarlierTrades(day)
          BY <1>1, <2>4
        <4> HIDE DEF Now
        <4> QED BY Zenon, <1>2, <4>1
      <3>5. day' > 0 => (pfBlocked' <=> PfBlocked(Pnls(EarlierTrades(day)))')
        BY Zenon, <2>2, <3>4 DEF EarlierTrades, PfBlocked, Pnls
      <3> QED BY <2>2, <3>1, <3>2, <3>3, <3>5 DEF GateLooksBack
    <2> QED BY <2>5, <2>6
  <1>6. CASE \E r \in Requests, passed \in BOOLEAN : Evaluate(r, passed)
    <2>1. PICK r \in Requests, passed \in BOOLEAN : Evaluate(r, passed)
      BY <1>6
    <2>2. /\ pc = "evaluate" /\ ~pfBlocked
          /\ signals' \in Seq(GivenSignal) /\ Len(signals') = Len(signals) + 1
          /\ \A i \in DOMAIN signals : signals'[i] = signals[i]
          /\ signals'[Len(signals) + 1].day = day
          /\ UNCHANGED <<day, trades, pfBlocked>>
      BY <1>1, <2>1, EvaluateEffect
    <2>3. DOMAIN signals' = 1..(Len(signals) + 1)
      BY <2>2
    <2>4. ~PfBlocked(Pnls(EarlierTrades(day)))
      BY <1>1, <1>2, <2>2 DEF PhaseShape
    <2>5. \A i \in DOMAIN signals' : \/ i \in DOMAIN signals /\ signals'[i].day = signals[i].day
                                     \/ signals'[i].day = day
      BY <1>1, <2>2, <2>3
    <2>6. \A i \in DOMAIN signals' : ~PfBlocked(Pnls(EarlierTrades(signals'[i].day)))
      BY Zenon, <2>4, <2>5 DEF GateWasOpen
    <2>7. GateWasOpen'
      BY Zenon, <2>2, <2>6 DEF GateWasOpen, EarlierTrades, PfBlocked, Pnls
    <2>8. \A i \in DOMAIN signals' : signals'[i].day <= day
      BY <1>1, <1>2, <2>5
    <2>9. GateLooksBack'
      BY <1>2, <2>2, <2>8 DEF GateLooksBack, EarlierTrades
    <2> QED BY <2>7, <2>9
  <1>7. CASE FillPending
    <2>1. \A k \in DOMAIN queue : queue[k].sig \in DOMAIN signals
      BY <1>1 DEF EntriesAreSourced, Sourced
    <2>2. /\ DOMAIN signals' = DOMAIN signals
          /\ \A i \in DOMAIN signals : signals'[i].day = signals[i].day
          /\ UNCHANGED <<day, trades, pfBlocked>>
      <3>1. PICK pe \in PendingEntry, pos \in OpenPosition :
              /\ DOMAIN signals' = DOMAIN signals
              /\ \A i \in DOMAIN signals : signals'[i].day = signals[i].day
              /\ UNCHANGED <<day, trades, pfBlocked>>
        BY <1>1, <1>7, <2>1, FillPendingEffect
      <3> QED BY <3>1
    <2>3. \A i \in DOMAIN signals' : ~PfBlocked(Pnls(EarlierTrades(signals'[i].day)))
      BY Zenon, <2>2 DEF GateWasOpen
    <2>4. GateWasOpen'
      BY Zenon, <2>2, <2>3 DEF GateWasOpen, EarlierTrades, PfBlocked, Pnls
    <2>5. GateLooksBack'
      BY <1>2, <2>2 DEF GateLooksBack, EarlierTrades
    <2> QED BY <2>4, <2>5
  <1>8. CASE \E s \in Symbols : TrailPosition(s)
    <2>1. UNCHANGED <<trades, signals, day, pfBlocked>>
      BY <1>1, <1>8, TrailEffect
    <2> QED BY <1>3, <2>1
  <1>9. CASE Quiet /\ ~NewDay
    <2>1. UNCHANGED <<trades, signals, day, pfBlocked>>
      BY <1>9 DEF Quiet, NextBar, StillPending, DropPending, BeginManage, CheckKillSwitch,
                  Halt, EndEvaluate, EndBar, account, guards, data
    <2> QED BY <1>3, <2>1
  <1>10. CASE UNCHANGED replayVars
    BY <1>3, <1>10 DEF replayVars, account, data, guards
  <1> QED BY <1>4, <1>5, <1>6, <1>7, <1>8, <1>9, <1>10, StepKinds DEF Quiet

\* The gate peeks at nothing: all day it is closed exactly if the trades of the
\* days before close it, and no day on which they do has a signal.
THEOREM GateNeverPeeks == ReplaySpec => []GateIsCausal
  <1>1. ReplayInit => GateLooksBack /\ GateWasOpen
    BY DEF ReplayInit, GateLooksBack, GateWasOpen
  <1>2. ReplayShape /\ GateLooksBack /\ GateWasOpen /\ [ReplayNext]_replayVars
          => (GateLooksBack /\ GateWasOpen)'
    BY GateStep
  <1>3. GateLooksBack /\ GateWasOpen => GateIsCausal
    BY Zenon DEF GateLooksBack, GateIsCausal
  <1> QED BY <1>1, <1>2, <1>3, ReplayShapeInvariant, PTL DEF ReplaySpec

-----------------------------------------------------------------------------
(* Orders of finitely many elements, which the screening ranks and keeps.  *)

\* The elements of I that come before i in an order given as a set of pairs.
Before(I, R, i) == {j \in I : <<j, i>> \in R}
Rank(I, R, i)   == Cardinality(Before(I, R, i))

IsStrictOrder(I, R) ==
    /\ \A i \in I : <<i, i>> \notin R
    /\ \A i, j, k \in I : <<i, j>> \in R /\ <<j, k>> \in R => <<i, k>> \in R
    /\ \A i, j \in I : i = j \/ <<i, j>> \in R \/ <<j, i>> \in R

\* In a strict order of finitely many elements, each has a rank of its own.
LEMMA RanksRise ==
    ASSUME NEW I, IsFiniteSet(I), NEW R, IsStrictOrder(I, R),
           NEW i \in I, NEW j \in I, <<j, i>> \in R
    PROVE  Rank(I, R, j) < Rank(I, R, i)
  <1>1. /\ Before(I, R, i) \in SUBSET I /\ Before(I, R, j) \in SUBSET Before(I, R, i)
    BY DEF Before, IsStrictOrder
  <1>2. j \in Before(I, R, i) /\ j \notin Before(I, R, j)
    BY DEF Before, IsStrictOrder
  <1>3. IsFiniteSet(Before(I, R, i))
    BY <1>1, FS_Subset
  <1>4. /\ Cardinality(Before(I, R, j)) <= Cardinality(Before(I, R, i))
        /\ Cardinality(Before(I, R, j)) # Cardinality(Before(I, R, i))
        /\ IsFiniteSet(Before(I, R, j))
    BY <1>1, <1>2, <1>3, FS_Subset
  <1>5. Cardinality(Before(I, R, j)) \in Nat /\ Cardinality(Before(I, R, i)) \in Nat
    BY <1>3, <1>4, FS_CardinalityType
  <1> QED BY <1>4, <1>5 DEF Rank

LEMMA RanksFit ==
    ASSUME NEW I, IsFiniteSet(I), NEW R, IsStrictOrder(I, R), NEW i \in I
    PROVE  Rank(I, R, i) \in 0..Cardinality(I) - 1
  <1>1. Before(I, R, i) \in SUBSET I /\ i \notin Before(I, R, i)
    BY DEF Before, IsStrictOrder
  <1>2. /\ Cardinality(Before(I, R, i)) <= Cardinality(I)
        /\ Cardinality(Before(I, R, i)) # Cardinality(I)
        /\ IsFiniteSet(Before(I, R, i))
    BY <1>1, FS_Subset
  <1>3. Cardinality(Before(I, R, i)) \in Nat /\ Cardinality(I) \in Nat
    BY <1>2, FS_CardinalityType
  <1> QED BY <1>2, <1>3 DEF Rank

\* Every rank is taken, since there are as many as elements.
LEMMA RanksAreTaken ==
    ASSUME NEW I, IsFiniteSet(I), NEW R, IsStrictOrder(I, R), NEW k \in 1..Cardinality(I)
    PROVE  \E i \in I : Rank(I, R, i) = k - 1
  <1> DEFINE ranks == [i \in I |-> Rank(I, R, i)]
             T == 0..Cardinality(I) - 1
  <1>1. Cardinality(I) \in Nat
    BY FS_CardinalityType
  <1>2. IsFiniteSet(T) /\ Cardinality(T) = Cardinality(I)
    <2>1. 0 \in Int /\ Cardinality(I) - 1 \in Int
      BY <1>1
    <2>2. /\ IsFiniteSet(T)
          /\ Cardinality(T) = IF 0 > Cardinality(I) - 1 THEN 0 ELSE (Cardinality(I) - 1) - 0 + 1
      BY <2>1, FS_Interval
    <2> QED BY <1>1, <2>2
  <1>3. \A i, j \in I : Rank(I, R, i) = Rank(I, R, j) => i = j
    <2> SUFFICES ASSUME NEW i \in I, NEW j \in I, Rank(I, R, i) = Rank(I, R, j), i # j
                 PROVE  FALSE
      OBVIOUS
    <2>1. <<i, j>> \in R \/ <<j, i>> \in R
      BY DEF IsStrictOrder
    <2>2. Rank(I, R, i) \in Int /\ Rank(I, R, j) \in Int
      BY RanksFit
    <2> QED BY <2>1, <2>2, RanksRise
  <1>4. ranks \in [I -> T]
    BY RanksFit
  <1>5. ranks \in Injection(I, T)
    BY <1>3, <1>4 DEF Injection, IsInjective
  <1>6. ranks \in Surjection(I, T)
    <2> HIDE DEF ranks, T
    <2> QED BY <1>2, <1>5, FS_Injection
  <1>7. k - 1 \in T
    BY <1>1
  <1>8. \E i \in I : ranks[i] = k - 1
    <2> HIDE DEF ranks, T
    <2> QED BY <1>6, <1>7 DEF Surjection
  <1> QED BY <1>8

\* Ranks are not shared.
LEMMA RanksDiffer ==
    ASSUME NEW I, IsFiniteSet(I), NEW R, IsStrictOrder(I, R),
           NEW i \in I, NEW j \in I, Rank(I, R, i) = Rank(I, R, j)
    PROVE  i = j
  <1> SUFFICES ASSUME i # j
               PROVE  FALSE
    OBVIOUS
  <1>1. <<i, j>> \in R \/ <<j, i>> \in R
    BY DEF IsStrictOrder
  <1>2. Rank(I, R, i) \in Int /\ Rank(I, R, j) \in Int
    BY RanksFit
  <1> QED BY <1>1, <1>2, RanksRise

\* So the elements can be listed in their order, each of them once.
Listed(I, R) == [k \in 1..Cardinality(I) |-> CHOOSE i \in I : Rank(I, R, i) = k - 1]

LEMMA ListIsComplete ==
    ASSUME NEW I, IsFiniteSet(I), NEW R, IsStrictOrder(I, R)
    PROVE  /\ Cardinality(I) \in Nat
           /\ Listed(I, R) \in [1..Cardinality(I) -> I]
           /\ \A i \in I : \E k \in 1..Cardinality(I) : Listed(I, R)[k] = i
           /\ \A k, l \in 1..Cardinality(I) : Listed(I, R)[k] = Listed(I, R)[l] => k = l
           /\ \A k, l \in 1..Cardinality(I) :
                 <<Listed(I, R)[k], Listed(I, R)[l]>> \in R <=> k < l
  <1> DEFINE at(k) == CHOOSE i \in I : Rank(I, R, i) = k - 1
  <1>1. Cardinality(I) \in Nat
    BY FS_CardinalityType
  <1>2. \A k \in 1..Cardinality(I) : at(k) \in I /\ Rank(I, R, at(k)) = k - 1
    BY RanksAreTaken
  <1>3. \A k \in 1..Cardinality(I) : Listed(I, R)[k] = at(k)
    BY DEF Listed
  <1> HIDE DEF at
  <1>4. \A i \in I : \E k \in 1..Cardinality(I) : Listed(I, R)[k] = i
    <2> SUFFICES ASSUME NEW i \in I
                 PROVE  \E k \in 1..Cardinality(I) : Listed(I, R)[k] = i
      OBVIOUS
    <2>1. Rank(I, R, i) \in 0..Cardinality(I) - 1
      BY RanksFit
    <2>2. PICK k \in 1..Cardinality(I) : k - 1 = Rank(I, R, i)
      <3>1. Rank(I, R, i) + 1 \in 1..Cardinality(I) /\ (Rank(I, R, i) + 1) - 1 = Rank(I, R, i)
        BY <1>1, <2>1
      <3> QED BY <3>1
    <2>3. at(k) = i
      BY <1>2, <2>2, RanksDiffer
    <2> QED BY <1>3, <2>3
  <1>5. ASSUME NEW k \in 1..Cardinality(I), NEW l \in 1..Cardinality(I)
        PROVE  /\ Listed(I, R)[k] = Listed(I, R)[l] => k = l
               /\ <<Listed(I, R)[k], Listed(I, R)[l]>> \in R <=> k < l
    <2>1. /\ Rank(I, R, at(k)) = k - 1 /\ Rank(I, R, at(l)) = l - 1
          /\ at(k) \in I /\ at(l) \in I
      BY <1>2
    <2>2. at(k) = at(l) => k = l
      BY <2>1
    <2>3. <<at(k), at(l)>> \in R => k < l
      <3>1. <<at(k), at(l)>> \in R => Rank(I, R, at(k)) < Rank(I, R, at(l))
        BY <2>1, RanksRise
      <3> QED BY <2>1, <3>1
    <2>4. <<at(l), at(k)>> \in R => l < k
      <3>1. <<at(l), at(k)>> \in R => Rank(I, R, at(l)) < Rank(I, R, at(k))
        BY <2>1, RanksRise
      <3> QED BY <2>1, <3>1
    <2>5. k < l => <<at(k), at(l)>> \in R
      <3> SUFFICES ASSUME k < l, <<at(k), at(l)>> \notin R
                   PROVE  FALSE
        OBVIOUS
      <3>1. at(k) = at(l) \/ <<at(l), at(k)>> \in R
        BY <2>1 DEF IsStrictOrder
      <3> QED BY <2>2, <2>4, <3>1
    <2> QED BY <1>3, <2>2, <2>3, <2>5
  <1>6. Listed(I, R) \in [1..Cardinality(I) -> I]
    BY <1>2, <1>3 DEF Listed
  <1> QED BY <1>1, <1>4, <1>5, <1>6

-----------------------------------------------------------------------------
(* What is kept of a sequence.                                             *)

\* The pairs of places, the earlier first.
Earlier(I) == {p \in I \X I : p[1] < p[2]}

LEMMA PlacesAreOrdered ==
    ASSUME NEW I \in SUBSET Int
    PROVE  /\ IsStrictOrder(I, Earlier(I))
           /\ \A i \in I : Rank(I, Earlier(I), i) = Cardinality({j \in I : j < i})
  <1>1. \A i, j \in I : <<i, j>> \in Earlier(I) <=> i < j
    BY DEF Earlier
  <1>2. IsStrictOrder(I, Earlier(I))
    BY <1>1 DEF IsStrictOrder
  <1>3. \A i \in I : Before(I, Earlier(I), i) = {j \in I : j < i}
    BY <1>1 DEF Before
  <1> QED BY <1>2, <1>3 DEF Rank

\* Keeping takes the places in their order, each of them once.
LEMMA KeepPlaces ==
    ASSUME NEW S, NEW seq \in Seq(S), NEW kept \in SUBSET DOMAIN seq
    PROVE  \E place \in [1..Cardinality(kept) -> kept] :
              /\ Cardinality(kept) \in Nat
              /\ Keep(seq, kept) = [k \in 1..Cardinality(kept) |-> seq[place[k]]]
              /\ \A i \in kept : \E k \in 1..Cardinality(kept) : place[k] = i
              /\ \A k, l \in 1..Cardinality(kept) : place[k] = place[l] => k = l
  <1>1. IsFiniteSet(kept) /\ kept \in SUBSET Int
    <2>1. DOMAIN seq = 1..Len(seq) /\ Len(seq) \in Nat
      OBVIOUS
    <2>2. IsFiniteSet(DOMAIN seq)
      BY <2>1, FS_Interval
    <2> QED BY <2>1, <2>2, FS_Subset
  <1> DEFINE order == Earlier(kept)
             place == Listed(kept, order)
  <1>2. /\ IsStrictOrder(kept, order)
        /\ \A i \in kept : Rank(kept, order, i) = Cardinality({j \in kept : j < i})
    BY <1>1, PlacesAreOrdered
  <1>3. /\ Cardinality(kept) \in Nat
        /\ place \in [1..Cardinality(kept) -> kept]
        /\ \A i \in kept : \E k \in 1..Cardinality(kept) : place[k] = i
        /\ \A k, l \in 1..Cardinality(kept) : place[k] = place[l] => k = l
    <2> HIDE DEF order
    <2> QED BY <1>1, <1>2, ListIsComplete
  <1>4. ASSUME NEW k \in 1..Cardinality(kept)
        PROVE  place[k] = CHOOSE i \in kept : Cardinality({j \in kept : j < i}) = k - 1
    <2>1. place[k] = CHOOSE i \in kept : Rank(kept, order, i) = k - 1
      BY DEF Listed
    <2>2. \A i \in kept : Rank(kept, order, i) = k - 1
                            <=> Cardinality({j \in kept : j < i}) = k - 1
      BY <1>2
    <2> HIDE DEF place, order
    <2> QED BY <2>1, <2>2
  <1>5. Keep(seq, kept) = [k \in 1..Cardinality(kept) |-> seq[place[k]]]
    <2> DEFINE at(k) == CHOOSE i \in kept : Cardinality({j \in kept : j < i}) = k - 1
    <2>1. Keep(seq, kept) = [k \in 1..Cardinality(kept) |-> seq[at(k)]]
      BY DEF Keep
    <2>2. \A k \in 1..Cardinality(kept) : place[k] = at(k)
      BY <1>4
    <2> HIDE DEF place, at
    <2> QED BY <2>1, <2>2
  <1> HIDE DEF place
  <1> QED BY <1>3, <1>5

\* So it gives a sequence of what was kept, neither more nor less.
LEMMA KeepIs ==
    ASSUME NEW S, NEW seq \in Seq(S), NEW kept \in SUBSET DOMAIN seq
    PROVE  /\ Keep(seq, kept) \in Seq(S)
           /\ \A k \in DOMAIN Keep(seq, kept) : \E i \in kept : Keep(seq, kept)[k] = seq[i]
           /\ \A i \in kept : \E k \in DOMAIN Keep(seq, kept) : Keep(seq, kept)[k] = seq[i]
           /\ (\A i, j \in kept : seq[i] = seq[j] => i = j) => IsInjective(Keep(seq, kept))
  <1>1. PICK place \in [1..Cardinality(kept) -> kept] :
              /\ Cardinality(kept) \in Nat
              /\ Keep(seq, kept) = [k \in 1..Cardinality(kept) |-> seq[place[k]]]
              /\ \A i \in kept : \E k \in 1..Cardinality(kept) : place[k] = i
              /\ \A k, l \in 1..Cardinality(kept) : place[k] = place[l] => k = l
    BY KeepPlaces
  <1>2. /\ DOMAIN Keep(seq, kept) = 1..Cardinality(kept)
        /\ \A k \in 1..Cardinality(kept) : Keep(seq, kept)[k] = seq[place[k]] /\ place[k] \in kept
    BY <1>1
  <1>3. \A i \in kept : seq[i] \in S
    OBVIOUS
  <1>4. Keep(seq, kept) \in Seq(S)
    BY <1>1, <1>2, <1>3
  <1>5. (\A i, j \in kept : seq[i] = seq[j] => i = j) => IsInjective(Keep(seq, kept))
    <2> SUFFICES ASSUME \A i, j \in kept : seq[i] = seq[j] => i = j,
                        NEW k \in DOMAIN Keep(seq, kept), NEW l \in DOMAIN Keep(seq, kept),
                        Keep(seq, kept)[k] = Keep(seq, kept)[l]
                 PROVE  k = l
      BY DEF IsInjective
    <2>1. place[k] \in kept /\ place[l] \in kept /\ seq[place[k]] = seq[place[l]]
      BY <1>2
    <2>2. place[k] = place[l]
      BY <2>1
    <2> QED BY <1>1, <1>2, <2>2
  <1>6. \A k \in DOMAIN Keep(seq, kept) : \E i \in kept : Keep(seq, kept)[k] = seq[i]
    BY <1>2
  <1>7. \A i \in kept : \E k \in DOMAIN Keep(seq, kept) : Keep(seq, kept)[k] = seq[i]
    <2> TAKE i \in kept
    <2>1. PICK k \in 1..Cardinality(kept) : place[k] = i
      BY <1>1
    <2>2. k \in DOMAIN Keep(seq, kept) /\ Keep(seq, kept)[k] = seq[i]
      BY <1>2, <2>1
    <2> QED BY <2>2
  <1> QED BY <1>4, <1>5, <1>6, <1>7

-----------------------------------------------------------------------------
(* The days of a backtest: what is known when they open.                   *)

\* A front part of a sequence, element by element.
LEMMA SubSeqIs ==
    ASSUME NEW S, NEW f \in Seq(S), NEW n \in Nat, n <= Len(f)
    PROVE  SubSeq(f, 1, n) = [i \in 1..n |-> f[i]]
  OBVIOUS

\* The two histories agree on what is known when the last day of `f' opens.
SameTillOpen(f, g) ==
    /\ Len(f) <= Len(g)
    /\ \A i \in 1..Len(f) - 1 : f[i] = g[i]
    /\ Len(f) > 0 => f[Len(f)].open = g[Len(f)].open /\ f[Len(f)].pm = g[Len(f)].pm

\* They agree on the open of a day, and on all days before it.
LEMMA SameOpens ==
    ASSUME NEW f \in Seq(Row), NEW g \in Seq(Row), SameTillOpen(f, g), NEW d \in 1..Len(f)
    PROVE  /\ f[d].open = g[d].open /\ f[d].pm = g[d].pm
           /\ \A i \in 1..d - 1 : f[i] = g[i]
  <1>1. CASE d = Len(f)
    BY <1>1 DEF SameTillOpen
  <1>2. CASE d # Len(f)
    <2>1. Len(f) \in Nat /\ d \in 1..Len(f) - 1 /\ 1..d - 1 \subseteq 1..Len(f) - 1
      BY <1>2
    <2> QED BY <2>1 DEF SameTillOpen
  <1> QED BY <1>1, <1>2

\* Gap and premarket volume of a day look no further than its open.
LEMMA SameRatios ==
    ASSUME NEW f \in Seq(Row), NEW g \in Seq(Row), SameTillOpen(f, g), NEW d \in 2..Len(f)
    PROVE  /\ Gap(f, d) = Gap(g, d)
           /\ TodRvol(f, d) = TodRvol(g, d)
           /\ DailyRvol(f, d, f[d].pm) = DailyRvol(g, d, g[d].pm)
  <1>1. d \in 1..Len(f) /\ d - 1 \in 1..d - 1
    OBVIOUS
  <1>2. /\ f[d].open = g[d].open /\ f[d].pm = g[d].pm /\ f[d - 1] = g[d - 1]
        /\ \A i \in 1..d - 1 : f[i] = g[i]
    BY <1>1, SameOpens
  <1>3. [i \in 1..d - 1 |-> f[i].pm] = [i \in 1..d - 1 |-> g[i].pm]
    BY <1>2
  <1>4. [i \in 1..d - 1 |-> f[i].volume] = [i \in 1..d - 1 |-> g[i].volume]
    BY <1>2
  <1>5. PriorPm(f, d) = PriorPm(g, d)
    BY <1>3 DEF PriorPm
  <1>6. Gap(f, d) = Gap(g, d)
    BY <1>2 DEF Gap
  <1>7. TodRvol(f, d) = TodRvol(g, d)
    BY <1>2, <1>5 DEF TodRvol
  <1>8. DailyRvol(f, d, f[d].pm) = DailyRvol(g, d, g[d].pm)
    BY <1>2, <1>4 DEF DailyRvol
  <1> QED BY <1>6, <1>7, <1>8

\* So what makes a day eligible is settled when it opens.
LEMMA SameEligible ==
    ASSUME NEW f \in Seq(Row), NEW g \in Seq(Row), SameTillOpen(f, g), NEW d \in 1..Len(f)
    PROVE  /\ d \in GapEligibleDays(f) <=> d \in GapEligibleDays(g)
           /\ d \in PremarketRvolEligibleDays(f) <=> d \in PremarketRvolEligibleDays(g)
  <1>1. Len(f) \in Nat /\ Len(g) \in Nat /\ Len(f) <= Len(g)
    BY DEF SameTillOpen
  <1>2. CASE d = 1
    BY <1>1, <1>2 DEF GapEligibleDays, PremarketRvolEligibleDays
  <1>3. CASE d \in 2..Len(f)
    <2>1. d \in 2..Len(g) /\ f[d].pm = g[d].pm
      BY <1>1, <1>3, SameOpens
    <2>2. d \in GapEligibleDays(f) <=> d \in GapEligibleDays(g)
      BY <1>3, <2>1, SameRatios DEF GapEligibleDays
    <2>3. d \in PremarketRvolEligibleDays(f) <=> d \in PremarketRvolEligibleDays(g)
      <3>1. /\ TodRvol(f, d) = TodRvol(g, d)
            /\ DailyRvol(f, d, f[d].pm) = DailyRvol(g, d, g[d].pm)
        BY <1>3, SameRatios
      <3> QED BY <1>3, <2>1, <3>1 DEF PremarketRvolEligibleDays
    <2> QED BY <2>2, <2>3
  <1> QED BY <1>1, <1>2, <1>3

\* What is known of a symbol as its session opens, and as it closes.
Opening(bar, volume) ==
    [bar EXCEPT !.pm = volume, !.close = bar.open, !.volume = 0, !.atr = None]

\* Both are rows.
LEMMA RowsOfTheDay ==
    ASSUME NEW bar \in Row, NEW volume \in Nat
    PROVE  /\ Opening(bar, volume) \in Row /\ Opening(bar, volume).pm = volume
           /\ [bar EXCEPT !.pm = volume] \in Row /\ [bar EXCEPT !.pm = volume].pm = volume
           /\ [bar EXCEPT !.pm = volume].open = bar.open
  BY DEF Row, Opening

\* Everything is known of the same symbols.
LEMMA KnownSymbols ==
    ASSUME ScreeningTypeOK
    PROVE  /\ VixSymbol \in Known /\ SpySymbol \in Known
           /\ pm \in [Known -> Nat] /\ Expanded \in Seq(Known)
           /\ Sessions \subseteq [Known -> Row] /\ Views \subseteq [Known -> Row \cup {None}]
           /\ Today \in Nat
  <1>1. pm \in Premarkets /\ Known = DOMAIN pm
    BY DEF ScreeningTypeOK, Known
  <1>2. /\ pm \in [DOMAIN pm -> Nat] /\ {VixSymbol, SpySymbol} \subseteq DOMAIN pm
        /\ Expanded \in Seq(DOMAIN pm) /\ Sessions \subseteq [DOMAIN pm -> Row]
        /\ Views \subseteq [DOMAIN pm -> Row \cup {None}]
    BY <1>1, ScreeningAssumption
  <1>3. history[VixSymbol] \in Seq(Row)
    BY <1>1, <1>2 DEF ScreeningTypeOK
  <1>4. Today \in Nat
    BY <1>3 DEF Today
  <1> QED BY <1>1, <1>2, <1>4

\* A session that opens adds a row to every symbol.
LEMMA OpenRows ==
    ASSUME ScreeningTypeOK, NEW opens \in Sessions, OpenMarket(opens), NEW s \in Known
    PROVE  /\ history'[s] \in Seq(Row) /\ Len(history'[s]) = Today + 1
           /\ Last(history'[s]).pm = pm[s]
           /\ \A i \in 1..Today : history'[s][i] = history[s][i]
           /\ SameTillOpen(history[s], history'[s])
  <1>1. /\ opens[s] \in Row /\ pm[s] \in Nat /\ Today \in Nat
        /\ history[s] \in Seq(Row) /\ Len(history[s]) = Today
    BY KnownSymbols DEF ScreeningTypeOK
  <1> DEFINE row == Opening(opens[s], pm[s])
  <1>2. history'[s] = Append(history[s], row)
    BY DEF OpenMarket, Opening
  <1>3. row \in Row /\ row.pm = pm[s]
    BY <1>1, RowsOfTheDay
  <1> HIDE DEF row
  <1>4. /\ history'[s] \in Seq(Row) /\ Len(history'[s]) = Today + 1
        /\ history'[s][Today + 1] = row
        /\ \A i \in 1..Today : history'[s][i] = history[s][i]
    BY <1>1, <1>2, <1>3
  <1>5. Last(history'[s]) = row
    BY <1>4 DEF Last
  <1>6. SameTillOpen(history[s], history'[s])
    BY <1>1, <1>4 DEF SameTillOpen
  <1> QED BY <1>3, <1>4, <1>5, <1>6

\* A session that closes replaces the row by one with its open.
LEMMA CloseRows ==
    ASSUME ScreeningTypeOK, LastIsToday, NEW closes \in Sessions, CloseMarket(closes),
           NEW s \in Known
    PROVE  /\ history'[s] \in Seq(Row) /\ Len(history'[s]) = Today /\ Today > 0
           /\ Last(history'[s]).pm = pm[s]
           /\ SameTillOpen(history[s], history'[s])
  <1>1. /\ closes[s] \in Row /\ pm[s] \in Nat /\ Today \in Nat
        /\ history[s] \in Seq(Row) /\ Len(history[s]) = Today
    BY KnownSymbols DEF ScreeningTypeOK
  <1> DEFINE row == [closes[s] EXCEPT !.pm = pm[s]]
  <1>2. history'[s] = Front(history[s]) \o <<row>> /\ closes[s].open = Last(history[s]).open
    BY DEF CloseMarket
  <1>3. row \in Row /\ row.pm = pm[s] /\ row.open = closes[s].open
    BY <1>1, RowsOfTheDay
  <1>4. Today > 0 /\ Last(history[s]).pm = pm[s] /\ Last(history[s]) = history[s][Today]
    BY <1>1 DEF LastIsToday, CloseMarket, Last
  <1> HIDE DEF row
  <1>5. /\ Front(history[s]) \in Seq(Row) /\ Len(Front(history[s])) = Today - 1
        /\ \A i \in 1..Today - 1 : Front(history[s])[i] = history[s][i]
    BY <1>1, <1>4 DEF Front
  <1>6. /\ history'[s] \in Seq(Row) /\ Len(history'[s]) = Today
        /\ history'[s][Today] = row
        /\ \A i \in 1..Today - 1 : history'[s][i] = history[s][i]
    BY <1>1, <1>2, <1>3, <1>4, <1>5
  <1>7. Last(history'[s]) = row
    BY <1>6 DEF Last
  <1>8. SameTillOpen(history[s], history'[s])
    BY <1>1, <1>2, <1>3, <1>4, <1>6 DEF SameTillOpen
  <1> QED BY <1>3, <1>4, <1>6, <1>7, <1>8

\* Nothing else of the day touches the histories.
LEMMA HistoryStep ==
    ASSUME ScreeningTypeOK, LastIsToday, [ScreeningNext]_screenVars
    PROVE  /\ config' = config /\ pm' = pm /\ Today' \in {Today, Today + 1}
           /\ history' \in [Known -> Seq(Row)]
           /\ \A s \in Known : /\ Len(history'[s]) = Today'
                               /\ SameTillOpen(history[s], history'[s])
  <1>1. VixSymbol \in Known /\ Today \in Nat /\ pm \in [Known -> Nat]
    BY KnownSymbols
  <1>2. CASE history' = history /\ config' = config /\ pm' = pm
    <2>1. /\ Today' = Today
          /\ \A s \in Known : history[s] \in Seq(Row) /\ Len(history[s]) = Today
      BY <1>2 DEF Today, ScreeningTypeOK
    <2>2. \A s \in Known : SameTillOpen(history[s], history'[s])
      BY <1>1, <1>2, <2>1 DEF SameTillOpen
    <2> QED BY <1>2, <2>1, <2>2 DEF ScreeningTypeOK
  <1>3. CASE \E opens \in Sessions : OpenMarket(opens)
    <2>1. PICK opens \in Sessions : OpenMarket(opens)
      BY <1>3
    <2>2. \A s \in Known : /\ history'[s] \in Seq(Row) /\ Len(history'[s]) = Today + 1
                           /\ SameTillOpen(history[s], history'[s])
      BY <2>1, OpenRows
    <2>3. config' = config /\ pm' = pm /\ history' = [s \in Known |-> history'[s]]
      BY <2>1 DEF OpenMarket
    <2>4. Today' = Today + 1
      BY <1>1, <2>2 DEF Today
    <2> QED BY <2>2, <2>3, <2>4
  <1>4. CASE \E closes \in Sessions : CloseMarket(closes)
    <2>1. PICK closes \in Sessions : CloseMarket(closes)
      BY <1>4
    <2>2. \A s \in Known : /\ history'[s] \in Seq(Row) /\ Len(history'[s]) = Today
                           /\ SameTillOpen(history[s], history'[s])
      BY <2>1, CloseRows
    <2>3. config' = config /\ pm' = pm /\ history' = [s \in Known |-> history'[s]]
      BY <2>1 DEF CloseMarket
    <2>4. Today' = Today
      BY <1>1, <2>2 DEF Today
    <2> QED BY <2>2, <2>3, <2>4
  <1>5. \/ \E opens \in Sessions : OpenMarket(opens)
        \/ \E closes \in Sessions : CloseMarket(closes)
        \/ history' = history /\ config' = config /\ pm' = pm
    <2>1. ASSUME NEW views \in Views, NEW served \in Served, Screen(views, served)
          PROVE  history' = history /\ config' = config /\ pm' = pm
      BY <2>1 DEF Screen
    <2>2. ASSUME NEW moods, WriteWatchlist(moods)
          PROVE  history' = history /\ config' = config /\ pm' = pm
      BY <2>2 DEF WriteWatchlist
    <2>3. CrashInResearch => history' = history /\ config' = config /\ pm' = pm
      BY DEF CrashInResearch
    <2>4. UNCHANGED screenVars => history' = history /\ config' = config /\ pm' = pm
      BY DEF screenVars
    <2> QED BY <2>1, <2>2, <2>3, <2>4 DEF ScreeningNext
  <1> QED BY <1>2, <1>3, <1>4, <1>5

-----------------------------------------------------------------------------
(* The screen, types, and the last row.                                    *)

\* The day begins with types that fit and no session open.
LEMMA ScreenShapeInit == ScreeningInit => ScreeningTypeOK /\ LastIsToday
  <1> SUFFICES ASSUME ScreeningInit
               PROVE  ScreeningTypeOK /\ LastIsToday
    OBVIOUS
  <1>1. /\ config \in Configs /\ history \in Pasts /\ pm \in Premarkets
        /\ phase = "morning" /\ runs = 0 /\ scans = {}
    BY DEF ScreeningInit
  <1>2. /\ history \in [Known -> Seq(Row)]
        /\ \A s \in Known : Len(history[s]) = Today
    BY <1>1, ScreeningAssumption DEF Known, Today
  <1> QED BY <1>1, <1>2 DEF ScreeningTypeOK, LastIsToday

\* Every symbol of the universe once.
LEMMA ResolvedSymbols ==
    ASSUME ScreeningTypeOK
    PROVE  Resolved \in Seq(Known) /\ IsInjective(Resolved)
  <1> DEFINE first == {i \in DOMAIN Expanded : \A j \in 1..i - 1 : Expanded[j] # Expanded[i]}
  <1>1. Expanded \in Seq(Known) /\ DOMAIN Expanded = 1..Len(Expanded)
    BY KnownSymbols
  <1>2. ASSUME NEW i \in first, NEW j \in first, Expanded[i] = Expanded[j]
        PROVE  i = j
    <2>1. i \in 1..Len(Expanded) /\ j \in 1..Len(Expanded)
      BY <1>1
    <2>2. ~(i < j) /\ ~(j < i)
      BY <1>2, <2>1
    <2> QED BY <2>1, <2>2
  <1>3. first \in SUBSET DOMAIN Expanded /\ Resolved = Keep(Expanded, first)
    BY DEF Resolved
  <1> HIDE DEF first
  <1> QED BY <1>1, <1>2, <1>3, KeepIs

\* One screen: a line of the audit for every symbol that can be measured, and
\* what passes of them.
LEMMA ScreenEffect ==
    ASSUME ScreeningTypeOK, NEW views \in Views, NEW served \in Served, Screen(views, served)
    PROVE  \E scanned :
              /\ scanned \in Seq(ToSet(scanned)) /\ IsInjective(scanned)
              /\ scans' = scans \cup ToSet(scanned)
              /\ \A c \in ToSet(scanned) :
                    LET frame == LiveFrame(history[c.symbol], Shown(c.symbol, views[c.symbol]))
                    IN  /\ c.run = runs + 1 /\ c.symbol \in Known
                        /\ Len(frame) >= 2 /\ c.metrics = Measured(frame)
                        /\ c.today = (views[c.symbol] # None)
              /\ \A c, d \in ToSet(scanned) : c.symbol = d.symbol => c = d
              /\ candidates' \in Seq(ToSet(scanned)) /\ IsInjective(candidates')
              /\ ToSet(candidates') = {c \in ToSet(scanned) : PassesFilters(c.metrics)}
  <1> DEFINE Frame(s)   == LiveFrame(history[s], Shown(s, views[s]))
             fit        == {i \in DOMAIN Resolved : Resolved[i] \in served
                                                      /\ Len(Frame(Resolved[i])) >= 2}
             measurable == Keep(Resolved, fit)
             scan(s)    == [run |-> runs + 1, symbol |-> s, metrics |-> Measured(Frame(s)),
                            today |-> views[s] # None]
             scanned    == [i \in DOMAIN measurable |-> scan(measurable[i])]
             passing    == {i \in DOMAIN scanned : PassesFilters(scanned[i].metrics)}
  <1>1. /\ scans' = scans \cup ToSet(scanned)
        /\ candidates' = Keep(scanned, passing)
    BY DEF Screen
  <1>2. /\ measurable \in Seq(Known) /\ IsInjective(measurable)
        /\ \A k \in DOMAIN measurable : Len(Frame(measurable[k])) >= 2
    <2>1. Resolved \in Seq(Known) /\ IsInjective(Resolved)
      BY ResolvedSymbols
    <2>2. fit \in SUBSET DOMAIN Resolved /\ \A i \in fit : Len(Frame(Resolved[i])) >= 2
      OBVIOUS
    <2>3. \A i, j \in fit : Resolved[i] = Resolved[j] => i = j
      BY <2>1, <2>2 DEF IsInjective
    <2> HIDE DEF fit, Frame
    <2>4. /\ Keep(Resolved, fit) \in Seq(Known) /\ IsInjective(Keep(Resolved, fit))
          /\ \A k \in DOMAIN Keep(Resolved, fit) : \E i \in fit : Keep(Resolved, fit)[k] = Resolved[i]
      BY <2>1, <2>2, <2>3, KeepIs
    <2> QED BY <2>2, <2>4
  <1> HIDE DEF measurable, Frame
  <1>3. /\ DOMAIN measurable = 1..Len(measurable) /\ Len(measurable) \in Nat
        /\ \A k \in DOMAIN measurable : measurable[k] \in Known
    BY <1>2
  <1>4. /\ DOMAIN scanned = DOMAIN measurable
        /\ \A k \in DOMAIN measurable : scanned[k] = scan(measurable[k])
        /\ ToSet(scanned) = {scanned[k] : k \in DOMAIN measurable}
    BY DEF ToSet
  <1>5. \A s : scan(s).run = runs + 1 /\ scan(s).symbol = s /\ scan(s).metrics = Measured(Frame(s))
               /\ scan(s).today = (views[s] # None)
    OBVIOUS
  <1>6. scanned \in Seq(ToSet(scanned))
    BY <1>3, <1>4
  <1> HIDE DEF scan, scanned
  <1>7. IsInjective(scanned)
    <2> SUFFICES ASSUME NEW k \in DOMAIN measurable, NEW l \in DOMAIN measurable,
                        scanned[k] = scanned[l]
                 PROVE  k = l
      BY <1>4 DEF IsInjective
    <2>1. measurable[k] = measurable[l]
      BY <1>4, <1>5
    <2> QED BY <1>2, <2>1 DEF IsInjective
  <1>8. ASSUME NEW c \in ToSet(scanned)
        PROVE  /\ c = scan(c.symbol) /\ c.symbol \in Known
               /\ Len(Frame(c.symbol)) >= 2
    <2>1. PICK k \in DOMAIN measurable : c = scan(measurable[k])
      BY <1>4
    <2> QED BY <1>2, <1>3, <1>5, <2>1
  <1>9. passing \in SUBSET DOMAIN scanned
        /\ \A i \in DOMAIN scanned : i \in passing <=> PassesFilters(scanned[i].metrics)
    OBVIOUS
  <1> HIDE DEF passing
  <1>10. /\ candidates' \in Seq(ToSet(scanned)) /\ IsInjective(candidates')
         /\ \A k \in DOMAIN candidates' : \E i \in passing : candidates'[k] = scanned[i]
         /\ \A i \in passing : \E k \in DOMAIN candidates' : candidates'[k] = scanned[i]
    <2>1. \A i, j \in passing : scanned[i] = scanned[j] => i = j
      BY <1>7, <1>9 DEF IsInjective
    <2> QED BY <1>1, <1>6, <1>9, <2>1, KeepIs
  <1>11. ToSet(candidates') = {c \in ToSet(scanned) : PassesFilters(c.metrics)}
    <2>1. ToSet(candidates') = {candidates'[k] : k \in DOMAIN candidates'}
      BY DEF ToSet
    <2>2. ASSUME NEW c \in ToSet(candidates')
          PROVE  c \in ToSet(scanned) /\ PassesFilters(c.metrics)
      BY <1>4, <1>9, <1>10, <2>1
    <2>3. ASSUME NEW c \in ToSet(scanned), PassesFilters(c.metrics)
          PROVE  c \in ToSet(candidates')
      <3>1. PICK i \in DOMAIN scanned : c = scanned[i]
        BY <1>4
      <3> QED BY <1>9, <1>10, <2>1, <2>3, <3>1
    <2> QED BY <2>2, <2>3
  <1>12. \A c \in ToSet(scanned) :
            /\ c.run = runs + 1 /\ c.symbol \in Known
            /\ Len(Frame(c.symbol)) >= 2 /\ c.metrics = Measured(Frame(c.symbol))
            /\ c.today = (views[c.symbol] # None)
    BY <1>5, <1>8
  <1>13. \A c, d \in ToSet(scanned) : c.symbol = d.symbol => c = d
    BY <1>8
  <1> QED BY <1>1, <1>6, <1>7, <1>10, <1>11, <1>12, <1>13 DEF Frame

\* Every step of the day keeps them.
LEMMA ScreenShapeNext ==
    ASSUME ScreeningTypeOK, LastIsToday, [ScreeningNext]_screenVars
    PROVE  ScreeningTypeOK' /\ LastIsToday'
  <1>1. /\ config' = config /\ pm' = pm /\ Known' = Known
        /\ history' \in [Known -> Seq(Row)] /\ \A s \in Known : Len(history'[s]) = Today'
    BY HistoryStep DEF Known
  <1>2. ASSUME NEW opens \in Sessions, OpenMarket(opens)
        PROVE  ScreeningTypeOK' /\ LastIsToday'
    <2>1. \A s \in Known : Len(history'[s]) = Today + 1 /\ Last(history'[s]).pm = pm[s]
      BY <1>2, OpenRows
    <2>2. Today \in Nat
      BY KnownSymbols
    <2>3. phase' = "open" /\ runs' = runs /\ scans' = scans
      BY <1>2 DEF OpenMarket
    <2> QED BY <1>1, <2>1, <2>2, <2>3 DEF ScreeningTypeOK, LastIsToday
  <1>3. ASSUME NEW closes \in Sessions, CloseMarket(closes)
        PROVE  ScreeningTypeOK' /\ LastIsToday'
    <2>1. \A s \in Known : /\ Len(history'[s]) = Today /\ Today > 0
                           /\ Last(history'[s]).pm = pm[s]
      BY <1>3, CloseRows
    <2>2. phase' = "closed" /\ runs' = runs /\ scans' = scans
      BY <1>3 DEF CloseMarket
    <2> QED BY <1>1, <2>1, <2>2 DEF ScreeningTypeOK, LastIsToday
  <1>4. ASSUME NEW views \in Views, NEW served \in Served, Screen(views, served)
        PROVE  ScreeningTypeOK' /\ LastIsToday'
    <2>1. phase' = "screened" /\ runs' = runs + 1 /\ runs \in Nat
      BY <1>4 DEF Screen, ScreeningTypeOK
    <2>2. PICK scanned :
             /\ scans' = scans \cup ToSet(scanned)
             /\ \A c \in ToSet(scanned) : c.run = runs + 1 /\ c.symbol \in Known
      BY <1>4, ScreenEffect
    <2>3. \A c \in scans' : c.run \in 1..runs' /\ c.symbol \in Known
      BY <2>1, <2>2 DEF ScreeningTypeOK
    <2> QED BY <1>1, <2>1, <2>3 DEF ScreeningTypeOK, LastIsToday
  <1>5. ASSUME phase' \in {"morning", phase}, history' = history, runs' = runs, scans' = scans
        PROVE  ScreeningTypeOK' /\ LastIsToday'
    BY <1>1, <1>5 DEF ScreeningTypeOK, LastIsToday
  <1>6. ASSUME NEW moods, WriteWatchlist(moods)
        PROVE  phase' = "morning" /\ history' = history /\ runs' = runs /\ scans' = scans
    BY <1>6 DEF WriteWatchlist
  <1>7. CrashInResearch =>
          phase' = "morning" /\ history' = history /\ runs' = runs /\ scans' = scans
    BY DEF CrashInResearch
  <1>8. UNCHANGED screenVars =>
          phase' = phase /\ history' = history /\ runs' = runs /\ scans' = scans
    BY DEF screenVars
  <1> QED BY <1>2, <1>3, <1>4, <1>5, <1>6, <1>7, <1>8 DEF ScreeningNext

-----------------------------------------------------------------------------
(* The choice of days.                                                     *)

\* No step changes the choice of a day that has opened.
LEMMA DaysStay ==
    ASSUME ScreeningTypeOK, LastIsToday, [ScreeningNext]_screenVars, NEW s \in Known
    PROVE  TradedDays(s) = TradedDays(s)' \cap 1..Today
  <1>1. /\ config' = config /\ pm' = pm /\ Today' \in {Today, Today + 1} /\ Today \in Nat
        /\ Known' = Known /\ VixSymbol \in Known /\ SpySymbol \in Known
    BY HistoryStep, KnownSymbols DEF Known
  <1>2. \A t \in Known : /\ history[t] \in Seq(Row) /\ Len(history[t]) = Today
                         /\ history'[t] \in Seq(Row) /\ Len(history'[t]) = Today'
                         /\ SameTillOpen(history[t], history'[t])
    BY HistoryStep DEF ScreeningTypeOK
  <1>3. ASSUME NEW d \in 1..Today
        PROVE  d \in EligibleDays(s) <=> d \in EligibleDays(s)'
    <2> DEFINE f == history[s]
               g == history'[s]
    <2>1. f \in Seq(Row) /\ g \in Seq(Row) /\ SameTillOpen(f, g) /\ d \in 1..Len(f)
      BY <1>2
    <2>2. /\ d \in GapEligibleDays(f) <=> d \in GapEligibleDays(g)
          /\ d \in PremarketRvolEligibleDays(f) <=> d \in PremarketRvolEligibleDays(g)
      BY <2>1, SameEligible
    <2>3. PremarketRvolEligibleDays(g) = PremarketRvolEligibleDays(f)'
      BY <1>1 DEF PremarketRvolEligibleDays
    <2> QED BY <2>2, <2>3 DEF EligibleDays
  <1>4. ASSUME NEW d \in 1..Today
        PROVE  DayBlocked(d) <=> DayBlocked(d)'
    <2>1. ASSUME NEW t \in Known
          PROVE  PriorRows(t, d) = PriorRows(t, d)'
      <3> DEFINE f == history[t]
                 g == history'[t]
      <3>1. f \in Seq(Row) /\ g \in Seq(Row) /\ SameTillOpen(f, g) /\ d \in 1..Len(f)
        BY <1>2
      <3>2. \A i \in 1..d - 1 : f[i] = g[i]
        BY <3>1, SameOpens
      <3>3. SubSeq(f, 1, d - 1) = SubSeq(g, 1, d - 1)
        <4>1. /\ SubSeq(f, 1, d - 1) = [i \in 1..d - 1 |-> f[i]]
              /\ SubSeq(g, 1, d - 1) = [i \in 1..d - 1 |-> g[i]]
          BY <1>1, <3>1, SubSeqIs
        <4> QED BY <3>2, <4>1
      <3> QED BY <3>3 DEF PriorRows
    <2>2. PriorRows(VixSymbol, d) = PriorRows(VixSymbol, d)'
      BY <1>1, <2>1
    <2>3. PriorRows(SpySymbol, d) = PriorRows(SpySymbol, d)'
      BY <1>1, <2>1
    <2> QED BY <1>1, <2>2, <2>3 DEF DayBlocked
  <1>5. BlockedTradingDays = {d \in 1..Today : DayBlocked(d)}
    BY DEF BlockedTradingDays, Today
  <1>6. BlockedTradingDays' = {d \in 1..Today' : DayBlocked(d)'}
    BY DEF BlockedTradingDays, Today
  <1>7. EligibleDays(s) \subseteq 1..Today
    BY <1>1, <1>2 DEF EligibleDays, GapEligibleDays
  <1>8. 1..Today \subseteq 1..Today'
    BY <1>1
  <1>9. ASSUME NEW d \in 1..Today
        PROVE  d \in TradedDays(s) <=> d \in TradedDays(s)'
    BY <1>3, <1>4, <1>5, <1>6, <1>8 DEF TradedDays
  <1>10. TradedDays(s) \subseteq 1..Today
    BY <1>7 DEF TradedDays
  <1> QED BY <1>9, <1>10

-----------------------------------------------------------------------------
(* What the audit knows of the morning.                                    *)

\* The last elements of a sequence are a sequence, and which.
LEMMA LastOfIs ==
    ASSUME NEW S, NEW seq \in Seq(S), NEW n \in Nat
    PROVE  /\ LastOf(seq, n) \in Seq(S)
           /\ Len(LastOf(seq, n)) = IF Len(seq) > n THEN n ELSE Len(seq)
           /\ \A i \in 1..Len(LastOf(seq, n)) :
                 LastOf(seq, n)[i] = seq[Len(seq) - Len(LastOf(seq, n)) + i]
  <1> DEFINE from == IF Len(seq) > n THEN Len(seq) - n + 1 ELSE 1
  <1>1. LastOf(seq, n) = SubSeq(seq, from, Len(seq))
    BY DEF LastOf
  <1>2. Len(seq) \in Nat /\ from \in 1..Len(seq) + 1
    OBVIOUS
  <1>3. from = IF Len(seq) > n THEN Len(seq) - n + 1 ELSE 1
    OBVIOUS
  <1> HIDE DEF from
  <1>4. /\ SubSeq(seq, from, Len(seq)) \in Seq(S)
        /\ Len(SubSeq(seq, from, Len(seq))) = Len(seq) - from + 1
        /\ \A i \in 1..Len(seq) - from + 1 : SubSeq(seq, from, Len(seq))[i] = seq[from + i - 1]
    <2>1. \A i \in from..Len(seq) : seq[i] \in S
      BY <1>2
    <2> QED BY <1>2, <2>1, SubSeqProperties
  <1>5. Len(LastOf(seq, n)) = IF Len(seq) > n THEN n ELSE Len(seq)
    <2>1. Len(LastOf(seq, n)) = Len(seq) - from + 1
      BY <1>1, <1>4
    <2> QED BY <1>2, <1>3, <2>1
  <1>6. ASSUME NEW i \in 1..Len(LastOf(seq, n))
        PROVE  LastOf(seq, n)[i] = seq[Len(seq) - Len(LastOf(seq, n)) + i]
    <2>1. LastOf(seq, n)[i] = seq[from + i - 1]
      BY <1>1, <1>4
    <2>2. from + i - 1 = Len(seq) - Len(LastOf(seq, n)) + i
      BY <1>1, <1>2, <1>4
    <2> QED BY <2>1, <2>2
  <1> QED BY <1>1, <1>4, <1>5, <1>6

\* All but the last element.
LEMMA FrontIs ==
    ASSUME NEW S, NEW seq \in Seq(S), Len(seq) > 0
    PROVE  /\ Front(seq) \in Seq(S) /\ Len(Front(seq)) = Len(seq) - 1
           /\ \A i \in 1..Len(seq) - 1 : Front(seq)[i] = seq[i]
  <1>1. Front(seq) = SubSeq(seq, 1, Len(seq) - 1) /\ Len(seq) \in Nat
    BY DEF Front
  <1>2. \A i \in 1..Len(seq) - 1 : seq[i] \in S
    OBVIOUS
  <1>3. /\ SubSeq(seq, 1, Len(seq) - 1) \in Seq(S)
        /\ Len(SubSeq(seq, 1, Len(seq) - 1))
              = IF 1 <= Len(seq) - 1 THEN (Len(seq) - 1) - 1 + 1 ELSE 0
        /\ \A i \in 1..(Len(seq) - 1) - 1 + 1 :
              SubSeq(seq, 1, Len(seq) - 1)[i] = seq[1 + i - 1]
    BY <1>1, <1>2, SubSeqProperties
  <1>4. Len(Front(seq)) = Len(seq) - 1
    <2> HIDE DEF Front
    <2>1. Len(Front(seq)) = IF 1 <= Len(seq) - 1 THEN (Len(seq) - 1) - 1 + 1 ELSE 0
      BY <1>1, <1>3
    <2>2. \A n \in Nat \ {0} : (IF 1 <= n - 1 THEN (n - 1) - 1 + 1 ELSE 0) = n - 1
      OBVIOUS
    <2>3. Len(seq) \in Nat \ {0}
      BY <1>1
    <2> QED BY <2>1, <2>2, <2>3, Zenon
  <1>5. \A i \in 1..Len(seq) - 1 : Front(seq)[i] = seq[i]
    <2> TAKE i \in 1..Len(seq) - 1
    <2>1. i \in 1..(Len(seq) - 1) - 1 + 1 /\ 1 + i - 1 = i
      BY <1>1
    <2> QED BY <1>1, <1>3, <2>1
  <1> QED BY <1>1, <1>3, <1>4, <1>5

\* Sequences that agree everywhere are the same.
LEMMA SameSeq ==
    ASSUME NEW S, NEW f \in Seq(S), NEW g \in Seq(S), Len(f) = Len(g),
           \A i \in 1..Len(f) : f[i] = g[i]
    PROVE  f = g
  OBVIOUS

\* The morning's frame is what a replay sees of the same sessions, but for the
\* last row, which is what the provider showed.
LEMMA MorningFrame ==
    ASSUME NEW frame \in Seq(Row), Len(frame) > 0, NEW row \in Row
    PROVE  LET morning == LiveFrame(Front(frame), row)
               live    == LastOf(frame, LiveDays)
           IN  /\ morning \in Seq(Row) /\ live \in Seq(Row)
               /\ Len(morning) = Len(live) /\ Len(morning) > 0
               /\ morning[Len(morning)] = row
               /\ \A i \in 1..Len(morning) - 1 : morning[i] = live[i]
               /\ Len(morning) > 1 => /\ Len(frame) > 1
                                      /\ morning[Len(morning) - 1] = frame[Len(frame) - 1]
  <1> DEFINE past    == Front(frame)
             recent  == LastOf(past, LiveDays - 1)
             live    == LastOf(frame, LiveDays)
             morning == LiveFrame(past, row)
  <1>1. LiveDays \in Nat \ {0} /\ None \notin Row
    BY ScreeningAssumption
  <1>2. /\ past \in Seq(Row) /\ Len(past) = Len(frame) - 1
        /\ \A i \in 1..Len(frame) - 1 : past[i] = frame[i]
    BY FrontIs
  <1>3. morning = Append(recent, row)
    BY <1>1 DEF LiveFrame
  <1>4. /\ recent \in Seq(Row)
        /\ Len(recent) = IF Len(past) > LiveDays - 1 THEN LiveDays - 1 ELSE Len(past)
        /\ \A i \in 1..Len(recent) : recent[i] = past[Len(past) - Len(recent) + i]
    <2> HIDE DEF past
    <2> QED BY <1>1, <1>2, LastOfIs
  <1>5. /\ live \in Seq(Row)
        /\ Len(live) = IF Len(frame) > LiveDays THEN LiveDays ELSE Len(frame)
        /\ \A i \in 1..Len(live) : live[i] = frame[Len(frame) - Len(live) + i]
    BY <1>1, LastOfIs
  <1> HIDE DEF past, recent, live, morning
  <1>6. Len(live) = Len(recent) + 1 /\ Len(recent) \in Nat /\ Len(recent) <= Len(past)
    BY <1>1, <1>2, <1>4, <1>5
  <1>7. /\ morning \in Seq(Row) /\ Len(morning) = Len(recent) + 1
        /\ morning[Len(morning)] = row
        /\ \A i \in 1..Len(recent) : morning[i] = recent[i]
    BY <1>3, <1>4
  <1>8. ASSUME NEW i \in 1..Len(recent)
        PROVE  morning[i] = live[i]
    <2>1. Len(past) - Len(recent) + i \in 1..Len(frame) - 1
      BY <1>2, <1>6
    <2>2. i \in 1..Len(live) /\ Len(frame) - Len(live) + i = Len(past) - Len(recent) + i
      BY <1>2, <1>6
    <2>3. past[Len(past) - Len(recent) + i] = frame[Len(past) - Len(recent) + i]
      BY <1>2, <2>1
    <2>4. morning[i] = past[Len(past) - Len(recent) + i]
      BY <1>4, <1>7
    <2>5. live[i] = frame[Len(frame) - Len(live) + i]
      BY <1>5, <2>2
    <2> QED BY ONLY <2>2, <2>3, <2>4, <2>5
  <1>9. ASSUME Len(morning) > 1
        PROVE  Len(frame) > 1 /\ morning[Len(morning) - 1] = frame[Len(frame) - 1]
    <2>1. Len(recent) \in 1..Len(recent) /\ Len(frame) > 1
      BY <1>2, <1>6, <1>7, <1>9
    <2>2. recent[Len(recent)] = past[Len(past)]
      <3>1. Len(past) - Len(recent) + Len(recent) = Len(past)
        BY <1>2, <1>6
      <3> QED BY <1>4, <2>1, <3>1
    <2>3. past[Len(past)] = frame[Len(frame) - 1]
      BY <1>2, <2>1
    <2> QED BY <1>6, <1>7, <2>1, <2>2, <2>3
  <1> QED BY <1>5, <1>6, <1>7, <1>8, <1>9 DEF past, live, morning

\* The completed sessions of a morning stay as they were.
LEMMA PastStays ==
    ASSUME ScreeningTypeOK, LastIsToday, [ScreeningNext]_screenVars, NEW s \in Known
    PROVE  /\ Past(s)' = Past(s)
           /\ \A view : Shown(s, view)' = Shown(s, view)
  <1>1. /\ pm' = pm /\ history[s] \in Seq(Row) /\ history'[s] \in Seq(Row)
        /\ SameTillOpen(history[s], history'[s])
        /\ Len(history[s]) = Today /\ Today \in Nat
    BY HistoryStep, KnownSymbols DEF ScreeningTypeOK
  <1>2. \A view : Shown(s, view)' = Shown(s, view)
    BY <1>1 DEF Shown
  <1>3. ASSUME NEW opens \in Sessions, OpenMarket(opens)
        PROVE  Past(s)' = Past(s)
    <2>1. Len(history'[s]) = Today + 1 /\ phase = "morning" /\ phase' = "open"
      BY <1>3, OpenRows DEF OpenMarket
    <2>2. /\ Front(history'[s]) \in Seq(Row) /\ Len(Front(history'[s])) = Today
          /\ \A i \in 1..Today : Front(history'[s])[i] = history'[s][i]
      BY <1>1, <2>1, FrontIs
    <2>3. \A i \in 1..Today : history'[s][i] = history[s][i]
      BY <1>3, OpenRows
    <2>4. Front(history'[s]) = history[s]
      BY <1>1, <2>2, <2>3, SameSeq
    <2> QED BY <2>1, <2>4 DEF Past
  <1>4. ASSUME NEW closes \in Sessions, CloseMarket(closes)
        PROVE  Past(s)' = Past(s)
    <2>1. /\ Len(history'[s]) = Today /\ Today > 0
          /\ phase = "open" /\ phase' = "closed"
      BY <1>4, CloseRows DEF CloseMarket
    <2>2. /\ Front(history'[s]) \in Seq(Row) /\ Len(Front(history'[s])) = Today - 1
          /\ \A i \in 1..Today - 1 : Front(history'[s])[i] = history'[s][i]
      BY <1>1, <2>1, FrontIs
    <2>3. /\ Front(history[s]) \in Seq(Row) /\ Len(Front(history[s])) = Today - 1
          /\ \A i \in 1..Today - 1 : Front(history[s])[i] = history[s][i]
      BY <1>1, <2>1, FrontIs
    <2>4. \A i \in 1..Today - 1 : history'[s][i] = history[s][i]
      BY <1>1 DEF SameTillOpen
    <2>5. Front(history'[s]) = Front(history[s])
      BY <2>2, <2>3, <2>4, SameSeq
    <2> QED BY <2>1, <2>5 DEF Past
  <1>5. ASSUME history' = history, phase' = phase \/ {phase, phase'} \subseteq {"morning", "screened"}
        PROVE  Past(s)' = Past(s)
    BY <1>5 DEF Past
  <1>6. ASSUME NEW views \in Views, NEW served \in Served, Screen(views, served)
        PROVE  history' = history /\ {phase, phase'} \subseteq {"morning", "screened"}
    BY <1>6 DEF Screen
  <1>7. ASSUME NEW moods, WriteWatchlist(moods)
        PROVE  history' = history /\ {phase, phase'} \subseteq {"morning", "screened"}
    BY <1>7 DEF WriteWatchlist
  <1>8. CrashInResearch => history' = history /\ {phase, phase'} \subseteq {"morning", "screened"}
    BY DEF CrashInResearch
  <1>9. UNCHANGED screenVars => history' = history /\ phase' = phase
    BY DEF screenVars
  <1> QED BY <1>2, <1>3, <1>4, <1>5, <1>6, <1>7, <1>8, <1>9 DEF ScreeningNext

\* What a line of the audit says of its symbol.
Documented(c) ==
    \E views \in Views :
        LET frame == LiveFrame(Past(c.symbol), Shown(c.symbol, views[c.symbol]))
        IN  /\ Len(frame) >= 2
            /\ c.metrics = Measured(frame)
            /\ c.today = (views[c.symbol] # None)

\* No step makes the audit tell of another morning.
LEMMA AuditNext ==
    ASSUME ScreeningTypeOK, LastIsToday, AuditIsOfTheMorning, [ScreeningNext]_screenVars
    PROVE  AuditIsOfTheMorning'
  <1>1. \A c \in scans : c.symbol \in Known /\ c.run \in 1..runs
    BY DEF ScreeningTypeOK
  <1>2. ASSUME NEW c, c.symbol \in Known, Documented(c)
        PROVE  Documented(c)'
    <2>1. /\ Past(c.symbol)' = Past(c.symbol)
          /\ \A view : Shown(c.symbol, view)' = Shown(c.symbol, view)
      BY <1>2, PastStays
    <2> QED BY <1>2, <2>1 DEF Documented
  <1>3. AuditIsOfTheMorning <=>
            /\ \A c \in scans : Documented(c)
            /\ \A c, d \in scans : c.run = d.run /\ c.symbol = d.symbol => c = d
    BY DEF AuditIsOfTheMorning, Documented
  <1>4. AuditIsOfTheMorning' <=>
            /\ \A c \in scans' : Documented(c)'
            /\ \A c, d \in scans' : c.run = d.run /\ c.symbol = d.symbol => c = d
    BY DEF AuditIsOfTheMorning, Documented
  <1>5. CASE scans' = scans
    BY <1>1, <1>2, <1>3, <1>4, <1>5
  <1>6. ASSUME NEW views \in Views, NEW served \in Served, Screen(views, served)
        PROVE  AuditIsOfTheMorning'
    <2>1. PICK scanned :
              /\ scans' = scans \cup ToSet(scanned)
              /\ \A c \in ToSet(scanned) :
                    LET frame == LiveFrame(history[c.symbol], Shown(c.symbol, views[c.symbol]))
                    IN  /\ c.run = runs + 1 /\ c.symbol \in Known
                        /\ Len(frame) >= 2 /\ c.metrics = Measured(frame)
                        /\ c.today = (views[c.symbol] # None)
              /\ \A c, d \in ToSet(scanned) : c.symbol = d.symbol => c = d
      BY <1>6, ScreenEffect
    <2>2. \A c \in ToSet(scanned) : c.symbol \in Known /\ c.run = runs + 1
      BY <2>1
    <2>3. \A s : Past(s) = history[s]
      BY <1>6 DEF Past, Screen
    <2>4. \A c \in ToSet(scanned) : Documented(c)
      BY <2>1, <2>3 DEF Documented
    <2>5. \A c \in scans' : Documented(c)'
      BY <1>1, <1>2, <1>3, <2>1, <2>2, <2>4
    <2>6. \A c, d \in scans' : c.run = d.run /\ c.symbol = d.symbol => c = d
      <3>1. runs \in Nat
        BY DEF ScreeningTypeOK
      <3>2. \A c \in scans, d \in ToSet(scanned) : c.run # d.run
        BY <1>1, <2>2, <3>1
      <3> QED BY <1>3, <2>1, <3>2
    <2> QED BY <1>4, <2>5, <2>6
  <1> QED BY <1>5, <1>6
       DEF ScreeningNext, WriteWatchlist, CrashInResearch, OpenMarket, CloseMarket, screenVars

\* Screening once more starts the candidates anew; nothing else touches them.
LEMMA CandidatesNext ==
    ASSUME ScreeningTypeOK, LastIsToday, CandidatesPassed, [ScreeningNext]_screenVars
    PROVE  CandidatesPassed'
  <1>1. \A m : PassesFilters(m)' <=> PassesFilters(m)
    BY HistoryStep DEF PassesFilters
  <1>2. CASE UNCHANGED <<scans, candidates, runs>>
    <2>1. LatestScans' = LatestScans
      BY <1>2 DEF LatestScans
    <2> QED BY <1>1, <1>2, <2>1 DEF CandidatesPassed
  <1>3. ASSUME NEW views \in Views, NEW served \in Served, Screen(views, served)
        PROVE  CandidatesPassed'
    <2>1. PICK scanned :
              /\ scans' = scans \cup ToSet(scanned)
              /\ \A c \in ToSet(scanned) : c.run = runs + 1
              /\ candidates' \in Seq(ToSet(scanned)) /\ IsInjective(candidates')
              /\ ToSet(candidates') = {c \in ToSet(scanned) : PassesFilters(c.metrics)}
      BY <1>3, ScreenEffect
    <2>2. runs' = runs + 1 /\ runs \in Nat /\ \A c \in scans : c.run \in 1..runs
      BY <1>3 DEF Screen, ScreeningTypeOK
    <2>3. {c \in scans' : c.run = runs'} = ToSet(scanned)
      BY <2>1, <2>2
    <2>4. candidates' \in Seq(scans')
      BY <2>1
    <2>5. LatestScans' = ToSet(scanned)
      BY <2>3 DEF LatestScans
    <2> QED BY <1>1, <2>1, <2>4, <2>5 DEF CandidatesPassed
  <1> QED BY <1>2, <1>3
       DEF ScreeningNext, WriteWatchlist, CrashInResearch, OpenMarket, CloseMarket, screenVars

-----------------------------------------------------------------------------
(* Live and replay.                                                        *)

\* What an eligible day takes, spelled out.
LEMMA TodayEligible ==
    ASSUME ScreeningTypeOK, NEW s \in Known, Today > 1, config.rvolMode = "tod"
    PROVE  Today \in EligibleDays(s) <=>
              LET gap  == Magnitude(Gap(history[s], Today))
                  rvol == TodRvol(history[s], Today)
              IN  /\ AtLeastPct(gap, MinGapPct) /\ ~Exhausted(gap)
                  /\ config.minRvol > 0 /\ history[s][Today].pm > 0
                  /\ rvol # None /\ AtLeastPct(rvol, config.minRvol)
  <1>1. Len(history[s]) = Today /\ Today \in Nat
    BY KnownSymbols DEF ScreeningTypeOK
  <1>2. Today \in 2..Len(history[s])
    BY <1>1
  <1> QED BY <1>2 DEF EligibleDays, GapEligibleDays, PremarketRvolEligibleDays

\* When the provider showed today's open, and the premarket history that a replay
\* averages, live and replay computed the same.
LEMMA SameMeasures ==
    ASSUME ScreeningTypeOK, LastIsToday, AuditIsOfTheMorning, phase = "closed",
           NEW c \in scans, c.today,
           c.metrics.open = history[c.symbol][Today].open,
           LET live == LastOf(history[c.symbol], LiveDays)
           IN  PriorPm(live, Len(live)) = PriorPm(history[c.symbol], Today)
    PROVE  LET tod == TodRvol(history[c.symbol], Today)
           IN  /\ Today > 1
               /\ c.metrics.gap = Gap(history[c.symbol], Today)
               /\ tod # None => c.metrics.rvol = tod
  <1> DEFINE s     == c.symbol
             frame == history[s]
             live  == LastOf(frame, LiveDays)
  <1>1. /\ s \in Known /\ frame \in Seq(Row) /\ Len(frame) = Today /\ Today \in Nat
        /\ Today > 0 /\ Last(frame).pm = pm[s] /\ pm[s] \in Nat
    BY KnownSymbols DEF ScreeningTypeOK, LastIsToday
  <1>2. PICK views \in Views :
           LET morning == LiveFrame(Front(frame), Shown(s, views[s]))
           IN  /\ Len(morning) >= 2
               /\ c.metrics = Measured(morning)
               /\ views[s] # None
    BY DEF AuditIsOfTheMorning, Past
  <1> DEFINE row     == Shown(s, views[s])
             morning == LiveFrame(Front(frame), row)
             n       == Len(morning)
  <1>3. row \in Row /\ row.pm = pm[s]
    <2>1. views[s] \in Row
      BY <1>1, <1>2, KnownSymbols
    <2> QED BY <1>1, <1>2, <2>1, RowsOfTheDay DEF Shown
  <1> HIDE DEF row
  <1>4. /\ morning \in Seq(Row) /\ Len(live) = n /\ n >= 2 /\ n \in Nat
        /\ morning[n] = row
        /\ \A i \in 1..n - 1 : morning[i] = live[i]
        /\ Today > 1 /\ morning[n - 1] = frame[Today - 1]
    <2>1. /\ morning \in Seq(Row) /\ Len(morning) = Len(live)
          /\ morning[Len(morning)] = row
          /\ \A i \in 1..Len(morning) - 1 : morning[i] = live[i]
          /\ Len(morning) > 1 => /\ Len(frame) > 1
                                 /\ morning[Len(morning) - 1] = frame[Len(frame) - 1]
      <3> HIDE DEF frame
      <3> QED BY <1>1, <1>3, MorningFrame
    <2>2. Len(morning) >= 2 /\ Len(morning) \in Nat
      BY <1>2, <2>1 DEF row
    <2> QED BY <1>1, <2>1, <2>2
  <1>5. c.metrics = Measured(morning)
    BY <1>2 DEF row
  <1>6. frame[Today].pm = morning[n].pm
    BY <1>1, <1>3, <1>4 DEF Last
  <1> HIDE DEF morning, n, frame, live
  <1>7. /\ c.metrics.open = morning[n].open /\ c.metrics.gap = Gap(morning, n)
        /\ TodRvol(morning, n) # None => c.metrics.rvol = TodRvol(morning, n)
    BY <1>5 DEF Measured, ComputeMetrics, n
  <1>8. c.metrics.gap = Gap(frame, Today)
    BY <1>4, <1>7 DEF Gap, frame
  <1>9. TodRvol(morning, n) = TodRvol(frame, Today)
    <2>1. PriorPm(morning, n) = PriorPm(live, n)
      <3>1. [i \in 1..n - 1 |-> morning[i].pm] = [i \in 1..n - 1 |-> live[i].pm]
        BY <1>4
      <3> QED BY <3>1 DEF PriorPm
    <2>2. PriorPm(morning, n) = PriorPm(frame, Today)
      BY <1>4, <2>1 DEF frame, live
    <2> QED BY <1>6, <2>2 DEF TodRvol
  <1> QED BY <1>4, <1>7, <1>8, <1>9 DEF frame

\* What the last screen let pass is what passes of its scans.
LEMMA PickedMeansPassed ==
    ASSUME AuditIsOfTheMorning, CandidatesPassed, NEW c \in LatestScans
    PROVE  (\E i \in DOMAIN candidates : candidates[i].symbol = c.symbol)
             <=> PassesFilters(c.metrics)
  <1>1. ToSet(candidates) = {candidates[i] : i \in DOMAIN candidates}
    BY DEF ToSet
  <1>2. ASSUME NEW i \in DOMAIN candidates, candidates[i].symbol = c.symbol
        PROVE  PassesFilters(c.metrics)
    <2>1. candidates[i] \in LatestScans /\ PassesFilters(candidates[i].metrics)
      BY <1>1 DEF CandidatesPassed
    <2>2. candidates[i] = c
      BY <1>2, <2>1 DEF AuditIsOfTheMorning, LatestScans
    <2> QED BY <2>1, <2>2
  <1>3. ASSUME PassesFilters(c.metrics)
        PROVE  \E i \in DOMAIN candidates : candidates[i].symbol = c.symbol
    <2>1. c \in ToSet(candidates)
      BY <1>3 DEF CandidatesPassed
    <2> QED BY <1>1, <2>1
  <1> QED BY <1>2, <1>3

\* Where live and replay disagree, one of the exceptions is the reason.
LEMMA PicksFit ==
    ScreeningTypeOK /\ LastIsToday /\ AuditIsOfTheMorning /\ CandidatesPassed
      => LivePicksForCause
  <1> SUFFICES ASSUME ScreeningTypeOK, LastIsToday, AuditIsOfTheMorning, CandidatesPassed,
                      phase = "closed", config.rvolMode = "tod", NEW c \in LatestScans
               PROVE  LET frame    == history[c.symbol]
                          live     == LastOf(frame, LiveDays)
                          picked   == \E i \in DOMAIN candidates : candidates[i].symbol = c.symbol
                          selected == Today \in EligibleDays(c.symbol)
                      IN  \/ picked = selected
                          \/ ~c.today
                          \/ c.metrics.open # frame[Today].open
                          \/ PriorPm(live, Len(live)) # PriorPm(frame, Today)
                          \/ picked /\ \/ TodRvol(frame, Today) = None
                                       \/ config.minRvol = 0
                                       \/ Exhausted(Magnitude(c.metrics.gap))
                          \/ selected /\ ~Liquid(c.metrics)
    BY DEF LivePicksForCause
  <1> DEFINE frame    == history[c.symbol]
             live     == LastOf(frame, LiveDays)
             picked   == \E i \in DOMAIN candidates : candidates[i].symbol = c.symbol
             selected == Today \in EligibleDays(c.symbol)
             tod      == TodRvol(frame, Today)
  <1>1. SUFFICES ASSUME c.today, c.metrics.open = frame[Today].open,
                        PriorPm(live, Len(live)) = PriorPm(frame, Today)
                 PROVE  \/ picked = selected
                        \/ picked /\ \/ tod = None
                                     \/ config.minRvol = 0
                                     \/ Exhausted(Magnitude(c.metrics.gap))
                        \/ selected /\ ~Liquid(c.metrics)
    OBVIOUS
  <1>2. c \in scans /\ c.symbol \in Known
    BY DEF LatestScans, ScreeningTypeOK
  <1>3. /\ Today > 1 /\ c.metrics.gap = Gap(frame, Today)
        /\ tod # None => c.metrics.rvol = tod
    BY <1>1, <1>2, SameMeasures
  <1>4. selected <=> LET gap == Magnitude(c.metrics.gap)
                     IN  /\ AtLeastPct(gap, MinGapPct) /\ ~Exhausted(gap)
                         /\ config.minRvol > 0 /\ frame[Today].pm > 0
                         /\ tod # None /\ AtLeastPct(tod, config.minRvol)
    BY <1>2, <1>3, TodayEligible
  <1>5. picked <=> PassesFilters(c.metrics)
    BY PickedMeansPassed
  <1>6. tod # None => frame[Today].pm > 0
    <2>1. frame[Today].pm \in Int
      <3>1. frame \in Seq(Row) /\ Len(frame) = Today /\ Today \in Nat
        BY <1>2, KnownSymbols DEF ScreeningTypeOK
      <3>2. frame[Today] \in Row
        BY <1>3, <3>1
      <3> QED BY <3>2 DEF Row
    <2> QED BY <2>1 DEF TodRvol
  <1>7. config.minRvol \in Nat
    <2>1. config \in Configs
      BY DEF ScreeningTypeOK
    <2> QED BY <2>1, ScreeningAssumption
  <1> HIDE DEF picked, selected, tod, frame
  <1>8. PassesFilters(c.metrics) <=>
          /\ Liquid(c.metrics)
          /\ AtLeastPct(Magnitude(c.metrics.gap), MinGapPct)
          /\ AtLeastPct(c.metrics.rvol, config.minRvol)
    BY DEF PassesFilters
  <1>9. picked \in BOOLEAN /\ selected \in BOOLEAN
    BY DEF picked, selected
  <1> QED BY <1>3, <1>4, <1>5, <1>6, <1>7, <1>8, <1>9

-----------------------------------------------------------------------------
(* The ranking.                                                            *)

\* A numerator and a positive denominator.
IsRatio(r) == r.num \in Int /\ r.den \in Nat \ {0}

\* Products of positive numbers are positive, and do not hide an order.
LEMMA ProductPositive ==
    ASSUME NEW a \in Nat \ {0}, NEW b \in Nat \ {0}
    PROVE  a * b \in Nat \ {0}
  OBVIOUS

LEMMA TimesStrict ==
    ASSUME NEW a \in Int, NEW b \in Int, NEW c \in Nat \ {0}, a * c <= b * c
    PROVE  a <= b
  OBVIOUS

LEMMA TimesKeeps ==
    ASSUME NEW a \in Int, NEW b \in Int, NEW c \in Nat \ {0}, a <= b
    PROVE  a * c <= b * c
  OBVIOUS

\* Not outscoring is transitive, however the ratios are written.
LEMMA RatiosAreOrdered ==
    ASSUME NEW a, NEW b, NEW c, IsRatio(a), IsRatio(b), IsRatio(c),
           ~Outscores(a, b), ~Outscores(b, c)
    PROVE  ~Outscores(a, c)
  <1> DEFINE an == a.num  ad == a.den  bn == b.num  bd == b.den  cn == c.num  cd == c.den
  <1>1. /\ an \in Int /\ bn \in Int /\ cn \in Int
        /\ ad \in Nat \ {0} /\ bd \in Nat \ {0} /\ cd \in Nat \ {0}
        /\ an * bd <= bn * ad /\ bn * cd <= cn * bd
    BY DEF IsRatio, Outscores
  <1> HIDE DEF an, ad, bn, bd, cn, cd
  <1>2. (an * bd) * cd <= (bn * ad) * cd /\ (bn * cd) * ad <= (cn * bd) * ad
    <2>1. an * bd \in Int /\ bn * ad \in Int /\ bn * cd \in Int /\ cn * bd \in Int
      BY <1>1
    <2> QED BY <1>1, <2>1, TimesKeeps
  <1>3. (an * cd) * bd <= (cn * ad) * bd
    <2>1. (an * bd) * cd = (an * cd) * bd /\ (bn * ad) * cd = (bn * cd) * ad
          /\ (cn * bd) * ad = (cn * ad) * bd
      BY <1>1
    <2>2. (an * cd) * bd \in Int /\ (bn * cd) * ad \in Int /\ (cn * ad) * bd \in Int
      BY <1>1
    <2> QED BY <1>2, <2>1, <2>2
  <1>4. an * cd <= cn * ad
    <2>1. an * cd \in Int /\ cn * ad \in Int
      BY <1>1
    <2> QED BY <1>1, <1>3, <2>1, TimesStrict
  <1>5. an * cd \in Int /\ cn * ad \in Int
    BY <1>1
  <1> QED BY <1>4, <1>5 DEF Outscores, an, ad, cn, cd

\* Two ratios do not outscore each other.
LEMMA OutscoresOneWay ==
    ASSUME NEW a, NEW b, IsRatio(a), IsRatio(b), Outscores(a, b)
    PROVE  ~Outscores(b, a)
  <1>1. a.num * b.den \in Int /\ b.num * a.den \in Int
    BY DEF IsRatio
  <1> QED BY <1>1 DEF Outscores

\* The pairs of places of which the first goes ahead of the second.
AheadOf(n, scores) ==
    {p \in (1..n) \X (1..n) :
        \/ Outscores(scores[p[1]], scores[p[2]])
        \/ p[1] < p[2] /\ ~Outscores(scores[p[2]], scores[p[1]])}

LEMMA AheadPair ==
    ASSUME NEW n \in Nat, NEW scores, NEW i \in 1..n, NEW j \in 1..n
    PROVE  <<i, j>> \in AheadOf(n, scores) <=>
              \/ Outscores(scores[i], scores[j])
              \/ i < j /\ ~Outscores(scores[j], scores[i])
  BY DEF AheadOf

\* Going ahead is a strict order, ties going by their places.
LEMMA RankingIsOrder ==
    ASSUME NEW n \in Nat, NEW scores, DOMAIN scores = 1..n,
           \A i \in 1..n : IsRatio(scores[i])
    PROVE  IsStrictOrder(1..n, AheadOf(n, scores))
  <1> DEFINE R == AheadOf(n, scores)
             Above(i, j) == Outscores(scores[i], scores[j])
  <1>1. ASSUME NEW i \in 1..n, NEW j \in 1..n
        PROVE  <<i, j>> \in R <=> Above(i, j) \/ (i < j /\ ~Above(j, i))
    BY AheadPair
  <1>2. \A i, j, k \in 1..n : ~Above(i, j) /\ ~Above(j, k) => ~Above(i, k)
    BY RatiosAreOrdered
  <1>3. \A i, j \in 1..n : Above(i, j) => ~Above(j, i)
    BY OutscoresOneWay
  <1> HIDE DEF R, Above
  <1>4. \A i \in 1..n : <<i, i>> \notin R
    BY <1>1, <1>3
  <1>5. ASSUME NEW i \in 1..n, NEW j \in 1..n, i # j
        PROVE  <<i, j>> \in R \/ <<j, i>> \in R
    <2>1. i < j \/ j < i
      BY <1>5
    <2>2. /\ <<i, j>> \in R <=> Above(i, j) \/ (i < j /\ ~Above(j, i))
          /\ <<j, i>> \in R <=> Above(j, i) \/ (j < i /\ ~Above(i, j))
      BY <1>1
    <2> QED BY <2>1, <2>2
  <1>6. ASSUME NEW i \in 1..n, NEW j \in 1..n, NEW k \in 1..n, <<i, j>> \in R, <<j, k>> \in R
        PROVE  <<i, k>> \in R
    <2>1. ~Above(j, i) /\ ~Above(k, j)
      BY <1>1, <1>3, <1>6
    <2>2. ~Above(k, i)
      BY <1>2, <2>1
    <2>3. CASE Above(i, k)
      BY <1>1, <2>3
    <2>4. CASE ~Above(i, k)
      <3>1. ~Above(i, j)
        <4>1. Above(i, j) => Above(i, k)
          BY <1>2, <2>1
        <4> QED BY <2>4, <4>1
      <3>2. ~Above(j, k)
        <4>1. ~Above(j, i)
          BY <2>1
        <4> QED BY <1>2, <2>4, <4>1
      <3> QED BY <1>1, <1>6, <2>2, <3>1, <3>2
    <2> QED BY <2>3, <2>4
  <1> QED BY <1>4, <1>5, <1>6 DEF R, IsStrictOrder

\* The sort lists every candidate once, and none before one that outscores it.
LEMMA RankedIs ==
    ASSUME NEW n \in Nat, NEW scores, DOMAIN scores = 1..n,
           \A i \in 1..n : IsRatio(scores[i])
    PROVE  /\ Ranked(scores) \in [1..n -> 1..n]
           /\ \A k, l \in 1..n : Ranked(scores)[k] = Ranked(scores)[l] => k = l
           /\ \A k, l \in 1..n :
                 k < l => ~Outscores(scores[Ranked(scores)[l]], scores[Ranked(scores)[k]])
  <1> DEFINE R == AheadOf(n, scores)
             D == 1..n
  <1>1. IsStrictOrder(D, R)
    BY RankingIsOrder
  <1>2. IsFiniteSet(D) /\ Cardinality(D) = n
    BY FS_Interval
  <1>3. /\ Listed(D, R) \in [1..n -> D]
        /\ \A k, l \in 1..n : Listed(D, R)[k] = Listed(D, R)[l] => k = l
        /\ \A k, l \in 1..n : <<Listed(D, R)[k], Listed(D, R)[l]>> \in R <=> k < l
    <2> HIDE DEF D, R
    <2> QED BY <1>1, <1>2, ListIsComplete
  <1>4. Ranked(scores) = Listed(D, R)
    <2> DEFINE Ahead(i) == {j \in DOMAIN scores :
                              \/ Outscores(scores[j], scores[i])
                              \/ j < i /\ ~Outscores(scores[i], scores[j])}
               inRanked(k) == CHOOSE i \in DOMAIN scores : Cardinality(Ahead(i)) = k - 1
               inList(k)   == CHOOSE i \in D : Rank(D, R, i) = k - 1
    <2>1. Ranked(scores) = [k \in 1..n |-> inRanked(k)]
      BY DEF Ranked
    <2>2. Listed(D, R) = [k \in 1..n |-> inList(k)]
      BY <1>2 DEF Listed
    <2>3. ASSUME NEW i \in D
          PROVE  Ahead(i) = Before(D, R, i)
      <3>1. ASSUME NEW j \in D
            PROVE  <<j, i>> \in R <=>
                      \/ Outscores(scores[j], scores[i])
                      \/ j < i /\ ~Outscores(scores[i], scores[j])
        BY AheadPair
      <3>2. Ahead(i) = {j \in D : \/ Outscores(scores[j], scores[i])
                                  \/ j < i /\ ~Outscores(scores[i], scores[j])}
        OBVIOUS
      <3>3. Before(D, R, i) = {j \in D : <<j, i>> \in R}
        BY DEF Before
      <3> HIDE DEF D, R, Ahead
      <3> QED BY Zenon, <3>1, <3>2, <3>3
    <2>4. \A i \in D : Rank(D, R, i) = Cardinality(Ahead(i))
      BY <2>3 DEF Rank
    <2>5. DOMAIN scores = D
      OBVIOUS
    <2>6. ASSUME NEW k \in 1..n
          PROVE  inRanked(k) = inList(k)
      <3>1. \A i \in D : Rank(D, R, i) = k - 1 <=> Cardinality(Ahead(i)) = k - 1
        BY <2>4
      <3> HIDE DEF D, R, Ahead
      <3> QED BY <2>5, <3>1
    <2> HIDE DEF inRanked, inList, D, R
    <2> QED BY <2>1, <2>2, <2>6
  <1>5. ASSUME NEW k \in 1..n, NEW l \in 1..n, k < l
        PROVE  ~Outscores(scores[Listed(D, R)[l]], scores[Listed(D, R)[k]])
    <2> DEFINE i == Listed(D, R)[k]
               j == Listed(D, R)[l]
    <2>1. <<i, j>> \in R /\ i \in 1..n /\ j \in 1..n
      BY <1>3, <1>5
    <2> HIDE DEF i, j
    <2>2. Outscores(scores[i], scores[j]) \/ ~Outscores(scores[j], scores[i])
      BY <2>1 DEF AheadOf
    <2>3. ~Outscores(scores[j], scores[i])
      BY <2>1, <2>2, OutscoresOneWay
    <2> QED BY <2>3 DEF i, j
  <1> QED BY <1>3, <1>4, <1>5

-----------------------------------------------------------------------------
(* Scores.                                                                 *)

\* A row's prices and volumes.
LEMMA RowAt ==
    ASSUME NEW frame \in Seq(Row), NEW i \in 1..Len(frame)
    PROVE  /\ frame[i].open \in Nat \ {0} /\ frame[i].close \in Nat \ {0}
           /\ frame[i].volume \in Nat /\ frame[i].pm \in Nat
  <1>1. frame[i] \in Row
    OBVIOUS
  <1> QED BY <1>1 DEF Row

\* The places of a sequence are finitely many.
LEMMA PlacesAreFinite ==
    ASSUME NEW S, NEW seq \in Seq(S)
    PROVE  IsFiniteSet(DOMAIN seq) /\ DOMAIN seq = 1..Len(seq) /\ Len(seq) \in Nat
  <1>1. DOMAIN seq = 1..Len(seq) /\ Len(seq) \in Nat
    OBVIOUS
  <1>2. IsFiniteSet(1..Len(seq))
    BY <1>1, FS_Interval
  <1> QED BY <1>1, <1>2

\* What is measured are ratios, since prices are positive and an average is only
\* taken of a positive sum.
LEMMA TodIsRatio ==
    ASSUME NEW frame \in Seq(Row), NEW n \in 1..Len(frame), TodRvol(frame, n) # None
    PROVE  IsRatio(TodRvol(frame, n))
  <1> DEFINE volumes  == [i \in 1..n - 1 |-> frame[i].pm]
             positive == {i \in 1..n - 1 : volumes[i] > 0}
             kept     == Keep(volumes, positive)
             prior    == PriorPm(frame, n)
  <1>1. \A i \in 1..Len(frame) : frame[i].pm \in Nat
    BY RowAt
  <1>2. /\ volumes \in Seq(Nat) /\ positive \in SUBSET DOMAIN volumes
        /\ \A i \in positive : volumes[i] \in Nat \ {0}
    BY <1>1
  <1>3. kept \in Seq(Nat \ {0})
    <2>1. /\ kept \in Seq(Nat)
          /\ \A k \in DOMAIN kept : \E i \in positive : kept[k] = volumes[i]
      <3> HIDE DEF volumes, positive
      <3> QED BY <1>2, KeepIs
    <2>2. ASSUME NEW k \in 1..Len(kept)
          PROVE  kept[k] \in Nat \ {0}
      <3> HIDE DEF kept
      <3>1. k \in DOMAIN kept
        BY <2>1
      <3>2. PICK i \in positive : kept[k] = volumes[i]
        BY <2>1, <3>1
      <3> HIDE DEF volumes, positive
      <3> QED BY <1>2, <3>2
    <2> HIDE DEF kept
    <2> QED BY <2>1, <2>2
  <1>4. prior \in Seq(Nat \ {0})
    <2>1. Lookback \in Nat
      BY ScreeningAssumption
    <2>2. prior = LastOf(kept, Lookback)
      BY DEF PriorPm
    <2> HIDE DEF kept, prior
    <2> QED BY <1>3, <2>1, <2>2, LastOfIs
  <1>5. prior # <<>> /\ TodRvol(frame, n) = Ratio(frame[n].pm * Len(prior), SumSeq(prior))
    BY DEF TodRvol
  <1> HIDE DEF prior
  <1>6. IsFiniteSet(DOMAIN prior) /\ DOMAIN prior # {}
        /\ \A i \in DOMAIN prior : prior[i] \in Nat \ {0}
    <2>1. IsFiniteSet(DOMAIN prior) /\ DOMAIN prior = 1..Len(prior) /\ Len(prior) \in Nat
      BY <1>4, PlacesAreFinite
    <2>2. Len(prior) # 0
      BY <1>4, <1>5
    <2>3. \A i \in DOMAIN prior : prior[i] \in Nat \ {0}
      BY <1>4, <2>1
    <2>4. 1 \in DOMAIN prior
      BY <2>1, <2>2
    <2> QED BY <2>1, <2>3, <2>4
  <1>7. SumSeq(prior) \in Nat \ {0}
    <2>1. SumSeq(prior) = SumFunctionOnSet(prior, DOMAIN prior)
      BY DEF SumSeq, SumFunction
    <2> QED BY <1>6, <2>1, SumIsPositive
  <1>8. frame[n].pm * Len(prior) \in Int
    <2>1. frame[n].pm \in Nat /\ Len(prior) \in Nat
      BY <1>1, <1>4
    <2> QED BY <2>1
  <1> QED BY <1>5, <1>7, <1>8 DEF Ratio, IsRatio

\* The daily average, or zero without one.
LEMMA DailyIsRatio ==
    ASSUME NEW frame \in Seq(Row), NEW n \in 1..Len(frame), NEW volume \in Nat
    PROVE  IsRatio(DailyRvol(frame, n, volume))
  <1> DEFINE volumes == [i \in 1..n - 1 |-> frame[i].volume]
             prior   == LastOf(volumes, Lookback)
  <1>1. volumes \in Seq(Nat)
    <2>1. \A i \in 1..Len(frame) : frame[i].volume \in Nat
      BY RowAt
    <2> QED BY <2>1
  <1>2. prior \in Seq(Nat)
    <2>1. Lookback \in Nat
      BY ScreeningAssumption
    <2> HIDE DEF volumes
    <2> QED BY <1>1, <2>1, LastOfIs
  <1>3. DailyRvol(frame, n, volume) =
          IF SumSeq(prior) > 0 THEN Ratio(volume * Len(prior), SumSeq(prior)) ELSE Ratio(0, 1)
    BY DEF DailyRvol
  <1> HIDE DEF prior
  <1>4. SumSeq(prior) \in Int
    <2>1. IsFiniteSet(DOMAIN prior) /\ \A i \in DOMAIN prior : prior[i] \in Int
      BY <1>2, PlacesAreFinite
    <2> QED BY <2>1, FunctionSumIsInt DEF SumSeq
  <1>5. volume * Len(prior) \in Int
    BY <1>2
  <1> QED BY <1>3, <1>4, <1>5 DEF Ratio, IsRatio

LEMMA MeasuredIsRatios ==
    ASSUME NEW frame \in Seq(Row), Len(frame) >= 2
    PROVE  IsRatio(Measured(frame).gap) /\ IsRatio(Measured(frame).rvol)
  <1> DEFINE n == Len(frame)
  <1>1. n \in 1..Len(frame) /\ n - 1 \in 1..Len(frame)
    OBVIOUS
  <1>2. /\ frame[n].volume \in Nat /\ frame[n].open \in Nat
        /\ frame[n - 1].close \in Nat \ {0}
    BY <1>1, RowAt
  <1>3. IsRatio(Gap(frame, n))
    BY <1>2 DEF Gap, Ratio, IsRatio
  <1>4. IsRatio(DailyRvol(frame, n, frame[n].volume))
    BY <1>1, <1>2, DailyIsRatio
  <1>5. TodRvol(frame, n) # None => IsRatio(TodRvol(frame, n))
    BY <1>1, TodIsRatio
  <1>6. /\ Measured(frame).gap = Gap(frame, n)
        /\ Measured(frame).rvol = IF TodRvol(frame, n) # None THEN TodRvol(frame, n)
                                  ELSE DailyRvol(frame, n, frame[n].volume)
    BY DEF Measured, ComputeMetrics
  <1> QED BY <1>3, <1>4, <1>5, <1>6

\* Scores are ratios, with or without a mood.
LEMMA ScoreIsRatio ==
    ASSUME NEW m, IsRatio(m.gap), IsRatio(m.rvol), NEW sentiment \in Int \cup {None}
    PROVE  IsRatio(Score(m, sentiment))
  <1> DEFINE mood == IF sentiment = None THEN 0 ELSE sentiment
             gap  == Magnitude(m.gap)
  <1>1. mood \in Int
    OBVIOUS
  <1>2. gap.num \in Int /\ gap.den \in Nat \ {0}
    <2>1. gap = [m.gap EXCEPT !.num = IF @ < 0 THEN -@ ELSE @]
      BY DEF Magnitude
    <2> QED BY <2>1 DEF IsRatio
  <1>3. m.rvol.num \in Int /\ m.rvol.den \in Nat \ {0}
    BY DEF IsRatio
  <1>4. Score(m, sentiment) =
          Ratio(2 * m.rvol.num * gap.den + 20 * gap.num * m.rvol.den
                  + mood * m.rvol.den * gap.den,
                2 * m.rvol.den * gap.den)
    BY DEF Score
  <1> HIDE DEF mood, gap
  <1>5. 2 * m.rvol.den * gap.den \in Nat \ {0}
    <2>1. 2 * m.rvol.den \in Nat \ {0}
      BY <1>3
    <2> QED BY <1>2, <2>1, ProductPositive
  <1>6. 2 * m.rvol.num * gap.den + 20 * gap.num * m.rvol.den
                  + mood * m.rvol.den * gap.den \in Int
    BY <1>1, <1>2, <1>3
  <1> QED BY <1>4, <1>5, <1>6 DEF Ratio, IsRatio

\* Every line of the audit is measured.
LEMMA ScansAreMeasured ==
    ASSUME ScreeningTypeOK, LastIsToday, AuditIsOfTheMorning, NEW c \in scans
    PROVE  IsRatio(c.metrics.gap) /\ IsRatio(c.metrics.rvol)
  <1> DEFINE s == c.symbol
  <1>1. PICK views \in Views :
           LET frame == LiveFrame(Past(s), Shown(s, views[s]))
           IN  Len(frame) >= 2 /\ c.metrics = Measured(frame)
    BY DEF AuditIsOfTheMorning
  <1>2. /\ s \in Known /\ history[s] \in Seq(Row) /\ pm[s] \in Nat
        /\ views[s] \in Row \cup {None}
    BY <1>1, KnownSymbols DEF ScreeningTypeOK
  <1> DEFINE past == Past(s)
             row  == Shown(s, views[s])
             frame == LiveFrame(past, row)
  <1>3. past \in Seq(Row)
    <2>1. CASE phase \in {"open", "closed"}
      <3>1. Len(history[s]) > 0
        BY <1>2, <2>1 DEF LastIsToday
      <3> QED BY <1>2, <2>1, <3>1, FrontIs DEF Past
    <2>2. CASE phase \notin {"open", "closed"}
      BY <1>2, <2>2 DEF Past
    <2> QED BY <2>1, <2>2
  <1>4. row \in Row \cup {None}
    BY <1>2, RowsOfTheDay DEF Shown
  <1>5. frame \in Seq(Row)
    <2>1. LastOf(past, LiveDays - 1) \in Seq(Row)
      <3>1. LiveDays - 1 \in Nat
        BY ScreeningAssumption
      <3> HIDE DEF past
      <3> QED BY <1>3, <3>1, LastOfIs
    <2> HIDE DEF past, row
    <2> QED BY <1>4, <2>1 DEF LiveFrame
  <1>6. Len(frame) >= 2 /\ c.metrics = Measured(frame)
    BY <1>1
  <1> HIDE DEF frame
  <1> QED BY <1>5, <1>6, MeasuredIsRatios

-----------------------------------------------------------------------------
(* The watchlist.                                                          *)

\* The lesser of two numbers.
LEMMA MinOfTwo ==
    ASSUME NEW a \in Int, NEW b \in Int
    PROVE  Min({a, b}) = IF a <= b THEN a ELSE b
  <1> DEFINE m == IF a <= b THEN a ELSE b
             S == {a, b}
  <1>1. m \in S /\ m \in Int /\ \A x \in S : m <= x
    OBVIOUS
  <1>2. Min(S) \in S /\ \A x \in S : Min(S) <= x
    <2> HIDE DEF m, S
    <2> QED BY <1>1 DEF Min
  <1>3. Min(S) \in Int /\ m <= Min(S) /\ Min(S) <= m
    BY <1>1, <1>2
  <1> HIDE DEF m
  <1>4. Min(S) = m
    BY <1>1, <1>3
  <1> QED BY <1>4 DEF m

\* A list without repetition is as long as its range is large.
LEMMA ListedOnce ==
    ASSUME NEW S, NEW seq \in Seq(S), IsInjective(seq)
    PROVE  Cardinality(ToSet(seq)) = Len(seq)
  <1>1. IsFiniteSet(DOMAIN seq) /\ DOMAIN seq = 1..Len(seq) /\ Len(seq) \in Nat
    BY PlacesAreFinite
  <1>2. ToSet(seq) = {seq[i] : i \in DOMAIN seq}
    BY DEF ToSet
  <1>3. seq \in [DOMAIN seq -> ToSet(seq)]
    BY <1>1, <1>2
  <1>4. seq \in Surjection(DOMAIN seq, ToSet(seq)) /\ seq \in Injection(DOMAIN seq, ToSet(seq))
    BY <1>2, <1>3 DEF Surjection, Injection
  <1>5. Cardinality(ToSet(seq)) = Cardinality(DOMAIN seq)
    BY <1>1, <1>4, FS_Surjection
  <1> QED BY <1>1, <1>5, FS_Interval

\* What the watchlist is after it has been written.
LEMMA WriteEffect ==
    ASSUME ScreeningTypeOK, LastIsToday, AuditIsOfTheMorning, CandidatesPassed,
           NEW moods \in [DOMAIN candidates -> Sentiments], WriteWatchlist(moods)
    PROVE  \E n \in Nat : \E at \in [1..n -> DOMAIN candidates] :
              /\ n = Min({Len(candidates), MaxWatchlist})
              /\ \A k, l \in 1..n : at[k] = at[l] => k = l
              /\ watchlist' = [k \in 1..n |-> [symbol  |-> candidates[at[k]].symbol,
                                               metrics |-> candidates[at[k]].metrics,
                                               mood    |-> moods[at[k]]]]
              /\ \A k, l \in 1..n :
                    k < l => ~Outscores(Score(candidates[at[l]].metrics, moods[at[l]]),
                                        Score(candidates[at[k]].metrics, moods[at[k]]))
  <1> DEFINE N      == Len(candidates)
             scores == [i \in DOMAIN candidates |-> Score(candidates[i].metrics, moods[i])]
             order  == Ranked(scores)
             n      == Min({N, MaxWatchlist})
             top    == SubSeq(order, 1, n)
  <1>1. /\ candidates \in Seq(scans) /\ N \in Nat /\ DOMAIN candidates = 1..N
        /\ MaxWatchlist \in Nat \ {0}
    BY ScreeningAssumption DEF CandidatesPassed
  <1>2. \A i \in 1..N : IsRatio(scores[i])
    <2> TAKE i \in 1..N
    <2>1. candidates[i] \in scans /\ scores[i] = Score(candidates[i].metrics, moods[i])
      BY <1>1
    <2>2. moods[i] \in Int \cup {None}
      BY <1>1, ScreeningAssumption
    <2> HIDE DEF scores
    <2> QED BY <2>1, <2>2, ScansAreMeasured, ScoreIsRatio
  <1>3. DOMAIN scores = 1..N
    BY <1>1
  <1>4. \A i \in 1..N : scores[i] = Score(candidates[i].metrics, moods[i])
    BY <1>1
  <1>5. /\ order \in [1..N -> 1..N]
        /\ \A k, l \in 1..N : order[k] = order[l] => k = l
        /\ \A k, l \in 1..N : k < l => ~Outscores(scores[order[l]], scores[order[k]])
    <2> HIDE DEF scores, N
    <2> QED BY <1>1, <1>2, <1>3, RankedIs
  <1> HIDE DEF scores, order
  <1>6. n \in Nat /\ n <= N
    BY <1>1, MinOfTwo
  <1>7. order \in Seq(1..N) /\ Len(order) = N
    BY <1>1, <1>5
  <1>8. top = [k \in 1..n |-> order[k]] /\ DOMAIN top = 1..n
    <2> HIDE DEF n
    <2> QED BY <1>6, <1>7, SubSeqIs
  <1>9. watchlist' = [k \in DOMAIN top |-> [symbol  |-> candidates[top[k]].symbol,
                                            metrics |-> candidates[top[k]].metrics,
                                            mood    |-> moods[top[k]]]]
    <2>1. SubSeq(order, 1, Min({Len(order), MaxWatchlist})) = top
      BY <1>7
    <2> QED BY <2>1 DEF WriteWatchlist, ReplaceForDay, order, scores
  <1> HIDE DEF n, top
  <1>10. top \in [1..n -> 1..N] /\ \A k \in 1..n : top[k] = order[k] /\ k \in 1..N
    <2> HIDE DEF N
    <2>1. \A k \in 1..n : k \in 1..N
      BY <1>1, <1>6
    <2>2. \A k \in 1..n : top[k] = order[k]
      BY <1>8
    <2>3. \A k \in 1..n : order[k] \in 1..N
      BY <1>5, <2>1
    <2> QED BY <1>8, <2>1, <2>2, <2>3
  <1>11. \A k, l \in 1..n : top[k] = top[l] => k = l
    BY <1>5, <1>10
  <1>12. ASSUME NEW k \in 1..n, NEW l \in 1..n, k < l
         PROVE  ~Outscores(Score(candidates[top[l]].metrics, moods[top[l]]),
                           Score(candidates[top[k]].metrics, moods[top[k]]))
    <2>1. /\ scores[top[k]] = Score(candidates[top[k]].metrics, moods[top[k]])
          /\ scores[top[l]] = Score(candidates[top[l]].metrics, moods[top[l]])
      BY <1>4, <1>10
    <2>2. ~Outscores(scores[top[l]], scores[top[k]])
      BY <1>5, <1>10, <1>12
    <2> QED BY <2>1, <2>2
  <1>13. watchlist' = [k \in 1..n |-> [symbol  |-> candidates[top[k]].symbol,
                                      metrics |-> candidates[top[k]].metrics,
                                      mood    |-> moods[top[k]]]]
    BY <1>8, <1>9
  <1>14. top \in [1..n -> DOMAIN candidates] /\ n \in Nat
    BY <1>1, <1>6, <1>10
  <1>15. n = Min({Len(candidates), MaxWatchlist})
    BY DEF n
  <1> HIDE DEF N
  <1> USE <1>14
  <1> WITNESS n \in Nat
  <1> WITNESS top \in [1..n -> DOMAIN candidates]
  <1> QED BY <1>11, <1>12, <1>13, <1>15

\* What passed in one run.
Passed(r) == {c \in scans : c.run = r /\ PassesFilters(c.metrics)}

\* The list is a ranking of one run.
RankingOf(r) ==
    /\ \A i \in DOMAIN watchlist :
          \E c \in Passed(r) : /\ c.symbol = watchlist[i].symbol
                               /\ c.metrics = watchlist[i].metrics
    /\ IsInjective([i \in DOMAIN watchlist |-> watchlist[i].symbol])
    /\ Len(watchlist) = Min({Cardinality(Passed(r)), MaxWatchlist})
    /\ \A i \in 2..Len(watchlist) :
          ~Outscores(Score(watchlist[i].metrics, watchlist[i].mood),
                     Score(watchlist[i - 1].metrics, watchlist[i - 1].mood))

\* Writing the list makes it the ranking of the latest run.
LEMMA WrittenIsRanking ==
    ASSUME ScreeningTypeOK, LastIsToday, AuditIsOfTheMorning, CandidatesPassed,
           NEW moods \in [DOMAIN candidates -> Sentiments], WriteWatchlist(moods),
           watchlist' # <<>>
    PROVE  runs' \in 1..runs' /\ RankingOf(runs)'
  <1> DEFINE list == watchlist'
  <1>1. PICK n \in Nat : \E at \in [1..n -> DOMAIN candidates] :
              /\ n = Min({Len(candidates), MaxWatchlist})
              /\ \A k, l \in 1..n : at[k] = at[l] => k = l
              /\ list = [k \in 1..n |-> [symbol  |-> candidates[at[k]].symbol,
                                         metrics |-> candidates[at[k]].metrics,
                                         mood    |-> moods[at[k]]]]
              /\ \A k, l \in 1..n :
                    k < l => ~Outscores(Score(candidates[at[l]].metrics, moods[at[l]]),
                                        Score(candidates[at[k]].metrics, moods[at[k]]))
    BY WriteEffect
  <1>2. PICK at \in [1..n -> DOMAIN candidates] :
              /\ n = Min({Len(candidates), MaxWatchlist})
              /\ \A k, l \in 1..n : at[k] = at[l] => k = l
              /\ list = [k \in 1..n |-> [symbol  |-> candidates[at[k]].symbol,
                                         metrics |-> candidates[at[k]].metrics,
                                         mood    |-> moods[at[k]]]]
              /\ \A k, l \in 1..n :
                    k < l => ~Outscores(Score(candidates[at[l]].metrics, moods[at[l]]),
                                        Score(candidates[at[k]].metrics, moods[at[k]]))
    BY <1>1
  <1>3. /\ DOMAIN list = 1..n /\ Len(list) = n
        /\ \A k \in 1..n : /\ list[k].symbol = candidates[at[k]].symbol
                           /\ list[k].metrics = candidates[at[k]].metrics
                           /\ list[k].mood = moods[at[k]]
                           /\ at[k] \in DOMAIN candidates
    <2> DEFINE line(k) == [symbol  |-> candidates[at[k]].symbol,
                           metrics |-> candidates[at[k]].metrics,
                           mood    |-> moods[at[k]]]
    <2>1. list = [k \in 1..n |-> line(k)]
      BY <1>2
    <2>2. \A k \in 1..n : /\ line(k).symbol = candidates[at[k]].symbol
                         /\ line(k).metrics = candidates[at[k]].metrics
                         /\ line(k).mood = moods[at[k]]
      OBVIOUS
    <2> HIDE DEF list, line
    <2>3. DOMAIN list = 1..n /\ \A k \in 1..n : list[k] = line(k)
      BY <2>1
    <2>4. Len(list) = n
      <3>1. list \in Seq({line(k) : k \in 1..n})
        BY <2>1
      <3> QED BY <2>3, <3>1
    <2> QED BY <2>2, <2>3, <2>4
  <1>4. /\ runs' = runs /\ scans' = scans /\ config' = config
        /\ \A m : PassesFilters(m)' <=> PassesFilters(m)
    BY DEF WriteWatchlist, PassesFilters
  <1>5. Passed(runs)' = {c \in LatestScans : PassesFilters(c.metrics)}
    BY <1>4 DEF Passed, LatestScans
  <1>6. ToSet(candidates) = Passed(runs)' /\ IsInjective(candidates) /\ candidates \in Seq(scans)
    BY <1>5 DEF CandidatesPassed
  <1>7. \A i \in DOMAIN candidates : candidates[i] \in Passed(runs)'
    BY <1>6 DEF ToSet
  <1>8. \A i, j \in DOMAIN candidates : candidates[i].symbol = candidates[j].symbol => i = j
    <2>1. \A i \in DOMAIN candidates : candidates[i] \in scans /\ candidates[i].run = runs
      BY <1>5, <1>7 DEF LatestScans
    <2> QED BY <1>6, <2>1 DEF AuditIsOfTheMorning, IsInjective
  <1> HIDE DEF list
  <1>9. \A i \in DOMAIN list :
           \E c \in Passed(runs)' : c.symbol = list[i].symbol /\ c.metrics = list[i].metrics
    BY <1>3, <1>7
  <1>10. IsInjective([i \in DOMAIN list |-> list[i].symbol])
    <2> SUFFICES ASSUME NEW k \in 1..n, NEW l \in 1..n, list[k].symbol = list[l].symbol
                 PROVE  k = l
      BY <1>3 DEF IsInjective
    <2>1. candidates[at[k]].symbol = candidates[at[l]].symbol
      BY <1>3
    <2>2. at[k] = at[l]
      BY <1>3, <1>8, <2>1
    <2> QED BY <1>2, <2>2
  <1>11. Len(list) = Min({Cardinality(Passed(runs)'), MaxWatchlist})
    BY <1>2, <1>3, <1>6, ListedOnce
  <1>12. ASSUME NEW i \in 2..Len(list)
         PROVE  ~Outscores(Score(list[i].metrics, list[i].mood),
                           Score(list[i - 1].metrics, list[i - 1].mood))
    <2>1. i \in 1..n /\ i - 1 \in 1..n /\ i - 1 < i
      BY <1>3
    <2> QED BY <1>2, <1>3, <2>1
  <1>13. runs' \in 1..runs'
    <2>1. 1 \in DOMAIN candidates
      <3>1. n # 0
        BY <1>3 DEF list
      <3>2. 1 \in 1..n
        BY <3>1
      <3>3. at[1] \in DOMAIN candidates
        BY <1>3, <3>2
      <3> QED BY <1>6, <3>3
    <2>2. candidates[1] \in LatestScans
      BY <1>5, <1>7, <2>1
    <2> QED BY <1>4, <2>2 DEF LatestScans, ScreeningTypeOK
  <1>14. RankingOf(runs)' <=>
            /\ \A i \in DOMAIN list :
                  \E c \in Passed(runs)' : c.symbol = list[i].symbol /\ c.metrics = list[i].metrics
            /\ IsInjective([i \in DOMAIN list |-> list[i].symbol])
            /\ Len(list) = Min({Cardinality(Passed(runs)'), MaxWatchlist})
            /\ \A i \in 2..Len(list) :
                  ~Outscores(Score(list[i].metrics, list[i].mood),
                             Score(list[i - 1].metrics, list[i - 1].mood))
    BY DEF RankingOf, list
  <1> QED BY <1>9, <1>10, <1>11, <1>12, <1>13, <1>14

\* Only writing the list changes what it is the ranking of.
LEMMA WatchlistNext ==
    ASSUME ScreeningTypeOK, LastIsToday, AuditIsOfTheMorning, CandidatesPassed,
           WatchlistIsOneRanking, [ScreeningNext]_screenVars
    PROVE  WatchlistIsOneRanking'
  <1>1. WatchlistIsOneRanking <=> (watchlist # <<>> => \E r \in 1..runs : RankingOf(r))
    BY DEF WatchlistIsOneRanking, RankingOf, Passed
  <1>2. WatchlistIsOneRanking' <=> (watchlist' # <<>> => \E r \in 1..runs' : RankingOf(r)')
    BY DEF WatchlistIsOneRanking, RankingOf, Passed
  <1>3. runs \in Nat /\ \A m : PassesFilters(m)' <=> PassesFilters(m)
    BY HistoryStep DEF PassesFilters, ScreeningTypeOK
  <1>4. ASSUME watchlist' = watchlist, \A r \in 1..runs : Passed(r)' = Passed(r),
               1..runs \subseteq 1..runs'
        PROVE  WatchlistIsOneRanking'
    <2>1. \A r \in 1..runs : RankingOf(r) => RankingOf(r)'
      BY <1>4 DEF RankingOf
    <2> QED BY <1>1, <1>2, <1>4, <2>1
  <1>5. CASE watchlist' = watchlist /\ scans' = scans /\ runs' = runs
    <2>1. \A r \in 1..runs : Passed(r)' = Passed(r)
      BY <1>3, <1>5 DEF Passed
    <2> QED BY <1>4, <1>5, <2>1
  <1>6. ASSUME NEW views \in Views, NEW served \in Served, Screen(views, served)
        PROVE  WatchlistIsOneRanking'
    <2>1. PICK scanned : /\ scans' = scans \cup ToSet(scanned)
                         /\ \A c \in ToSet(scanned) : c.run = runs + 1
      BY <1>6, ScreenEffect
    <2>2. watchlist' = watchlist /\ runs' = runs + 1
      BY <1>6 DEF Screen
    <2>3. \A r \in 1..runs : Passed(r)' = Passed(r)
      BY <1>3, <2>1 DEF Passed
    <2> QED BY <1>3, <1>4, <2>2, <2>3
  <1>7. ASSUME NEW moods \in [DOMAIN candidates -> Sentiments], WriteWatchlist(moods)
        PROVE  WatchlistIsOneRanking'
    <2>1. runs' = runs
      BY <1>7 DEF WriteWatchlist
    <2> QED BY <1>2, <1>7, <2>1, WrittenIsRanking
  <1> QED BY <1>5, <1>6, <1>7
       DEF ScreeningNext, CrashInResearch, OpenMarket, CloseMarket, screenVars

-----------------------------------------------------------------------------
(* What the screening guarantees.                                          *)

\* The audit tells of the morning it was written on, the candidates of the latest
\* screen, and a day's row of what was known when it opened.
THEOREM ScreeningInvariant ==
    ScreeningSpec => [](ScreeningTypeOK /\ LastIsToday /\ AuditIsOfTheMorning /\ CandidatesPassed)
  <1>1. ScreeningInit => AuditIsOfTheMorning /\ CandidatesPassed
    <2> SUFFICES ASSUME ScreeningInit
                 PROVE  AuditIsOfTheMorning /\ CandidatesPassed
      OBVIOUS
    <2>1. scans = {} /\ candidates = <<>>
      BY DEF ScreeningInit
    <2>2. ToSet(candidates) = {}
      BY <2>1 DEF ToSet
    <2>3. candidates \in Seq(scans) /\ IsInjective(candidates)
      BY <2>1 DEF IsInjective
    <2> QED BY <2>1, <2>2, <2>3 DEF AuditIsOfTheMorning, CandidatesPassed, LatestScans
  <1> QED BY <1>1, ScreenShapeInit, ScreenShapeNext, AuditNext, CandidatesNext, PTL
       DEF ScreeningSpec

\* Whether a backtest trades a day is settled at its open: nothing that comes later
\* changes the choice (gap_eligible_days, premarket_rvol_eligible_days, vol_gate).
THEOREM DaysAreSettled == ScreeningSpec => SettledAtTheOpen
  <1>1. ScreeningTypeOK /\ LastIsToday /\ [ScreeningNext]_screenVars
          => [\A s \in Known : TradedDays(s) = TradedDays(s)' \cap 1..Today]_screenVars
    BY DaysStay
  <1> QED BY <1>1, ScreeningInvariant, PTL DEF ScreeningSpec, SettledAtTheOpen

\* Live picks a symbol and a backtest its day for the same reasons, but for those
\* that the property names (Screener.screen, screener_parity).
THEOREM LiveMatchesReplay == ScreeningSpec => []LivePicksForCause
  BY PicksFit, ScreeningInvariant, PTL

\* Whatever died between audit and list and however often the research ran, the
\* watchlist is the ranking of one screen (ResearchEngine.run, replace_for_date).
THEOREM WatchlistIsRanked == ScreeningSpec => []WatchlistIsOneRanking
  <1>1. ScreeningInit => WatchlistIsOneRanking
    BY DEF ScreeningInit, WatchlistIsOneRanking
  <1>2. ScreeningTypeOK /\ LastIsToday /\ AuditIsOfTheMorning /\ CandidatesPassed
          /\ WatchlistIsOneRanking /\ [ScreeningNext]_screenVars => WatchlistIsOneRanking'
    BY WatchlistNext
  <1> QED BY <1>1, <1>2, ScreeningInvariant, PTL DEF ScreeningSpec
=============================================================================
