---------------------------- MODULE RulesProofs ----------------------------
(***************************************************************************)
(* Theorems about the decisions of the rules: the signals of a session, for *)
(* any bars, any daily rows, any configuration and however often a bar goes *)
(* on forming; and the size and the trailing stop of one trade, for any     *)
(* account and any prices.                                                  *)
(***************************************************************************)
EXTENDS Signals, MCRiskManager, RiskManagerProofs, FunctionTheorems,
        FiniteSetTheorems, WellFoundedInduction, TLAPS

-----------------------------------------------------------------------------
(* The opening range.                                                      *)

\* A finite set of numbers that is not empty has a greatest one.
LEMMA GreatestExists ==
    ASSUME NEW S, IsFiniteSet(S), \A x \in S : x \in Int, S # {}
    PROVE  \E m \in S : \A x \in S : x <= m
  <1> DEFINE From(x) == {y \in S : x <= y}
             Tails   == {From(x) : x \in S}
  <1>1. IsWellFoundedOn(StrictSubsetOrdering(S), FiniteSubsetsOf(S))
    BY FS_StrictSubsetOrderingWellFounded
  <1>2. Tails \subseteq FiniteSubsetsOf(S)
    <2> SUFFICES ASSUME NEW x \in S
                 PROVE  From(x) \in FiniteSubsetsOf(S)
      OBVIOUS
    <2>1. From(x) \in SUBSET S
      OBVIOUS
    <2> QED BY <2>1, FS_Subset DEF FiniteSubsetsOf
  <1>3. Tails # {}
    OBVIOUS
  <1>4. PICK U \in Tails : \A V \in Tails : <<V, U>> \notin StrictSubsetOrdering(S)
    <2> HIDE DEF Tails
    <2> QED BY <1>1, <1>2, <1>3, WFMin
  <1>5. PICK m \in S : U = From(m)
    OBVIOUS
  <1>6. ASSUME NEW x \in S, ~(x <= m)
        PROVE  FALSE
    <2>1. m < x /\ x \in Int /\ m \in Int
      BY <1>6
    <2>2. m \in From(m) /\ m \notin From(x)
      BY <2>1
    <2>3. From(x) \subseteq From(m)
      <3> SUFFICES ASSUME NEW y \in S, x <= y
                   PROVE  m <= y
        OBVIOUS
      <3>1. y \in Int
        OBVIOUS
      <3> QED BY <2>1, <3>1
    <2>4. <<From(x), From(m)>> \in StrictSubsetOrdering(S)
      <3>1. From(x) \in SUBSET S /\ From(m) \in SUBSET S
        OBVIOUS
      <3>2. From(x) # From(m)
        BY <2>2
      <3> HIDE DEF From
      <3> QED BY <3>1, <3>2, <2>3 DEF StrictSubsetOrdering
    <2> QED BY <2>4, <1>4, <1>5
  <1> QED BY <1>6

LEMMA MaxIsGreatest ==
    ASSUME NEW S, IsFiniteSet(S), \A x \in S : x \in Int, NEW x \in S
    PROVE  Max(S) \in S /\ x <= Max(S)
  <1>1. PICK m \in S : \A y \in S : y <= m
    BY GreatestExists
  <1>2. \A y \in S : m >= y
    BY <1>1
  <1>3. Max(S) \in S /\ \A y \in S : Max(S) >= y
    BY <1>2 DEF Max
  <1> QED BY <1>3

LEMMA MinIsLeast ==
    ASSUME NEW S, IsFiniteSet(S), \A x \in S : x \in Int, NEW x \in S
    PROVE  Min(S) \in S /\ Min(S) <= x
  <1> DEFINE T == {-y : y \in S}
             f == [y \in S |-> -y]
  <1>1. f \in Surjection(S, T)
    BY DEF Surjection
  <1>2. IsFiniteSet(T)
    BY <1>1, FS_Surjection
  <1>3. T # {} /\ \A y \in T : y \in Int
    OBVIOUS
  <1>4. PICK m \in T : \A y \in T : y <= m
    <2> HIDE DEF T
    <2> QED BY <1>2, <1>3, GreatestExists
  <1>5. PICK z \in S : m = -z
    BY <1>4
  <1>6. ASSUME NEW y \in S
        PROVE  z <= y
    <2>1. -y <= -z
      BY <1>4, <1>5
    <2> QED BY <2>1
  <1>7. Min(S) \in S /\ \A y \in S : Min(S) <= y
    BY <1>6 DEF Min
  <1> QED BY <1>7

\* What the assumption says of a bar.
LEMMA BarsFit ==
    ASSUME NEW b \in Bars \cup {FirstBar}
    PROVE  /\ b.low \in Int /\ b.high \in Int /\ b.close \in Int /\ b.vwap \in Int
           /\ b.trend \in Int /\ b.edge \in Int /\ b.atr \in Nat
           /\ b.low <= b.close /\ b.close <= b.high
           /\ b.low % 2 = 0 /\ b.high % 2 = 0
  <1>1. /\ {b.low, b.high, b.vwap, b.trend, b.edge} \subseteq Int
        /\ {b.atr, b.volume} \subseteq Nat
        /\ b.close \in b.low..b.high
        /\ b.low % 2 = 0 /\ b.high % 2 = 0
    BY SignalsAssumption DEF SignalsAssumption
  <1> QED BY <1>1

LEMMA BarsAreBars ==
    ASSUME ChartTypeOK
    PROVE  /\ Len(bars) \in Nat \ {0} /\ DOMAIN bars = 1..Len(bars)
           /\ \A i \in 1..Len(bars) : bars[i] \in Bars \cup {FirstBar}
           /\ Now \in Bars \cup {FirstBar}
  <1>1. bars \in Seq(Bars \cup {FirstBar}) /\ Len(bars) > 0
    BY DEF ChartTypeOK
  <1>2. Len(bars) \in Nat \ {0} /\ DOMAIN bars = 1..Len(bars)
    BY <1>1
  <1>3. \A i \in 1..Len(bars) : bars[i] \in Bars \cup {FirstBar}
    BY <1>1, <1>2
  <1> QED BY <1>2, <1>3 DEF Now

\* The range spans the first bar, and the open with it.
LEMMA RangeSpans ==
    ASSUME ChartTypeOK
    PROVE  /\ RangeHigh \in Int /\ RangeLow \in Int
           /\ FirstBar.high <= RangeHigh /\ RangeLow <= FirstBar.low
           /\ RangeHigh % 2 = 0 /\ RangeLow % 2 = 0
           /\ RangeSize \in Int /\ RangeMid \in Int
  <1> DEFINE n == Smaller(OpeningBars, Len(bars))
             highs == {b.high : b \in OpeningRange}
             lows == {b.low : b \in OpeningRange}
  <1>1. n \in 1..Len(bars)
    BY BarsAreBars, SignalsAssumption DEF SignalsAssumption, Smaller
  <1>2. OpeningRange = {bars[i] : i \in 1..n}
    BY DEF OpeningRange
  <1>3. /\ OpeningRange \subseteq Bars \cup {FirstBar} /\ FirstBar \in OpeningRange
    <2> HIDE DEF n
    <2>1. bars[1] = FirstBar /\ 1 \in 1..n
      BY <1>1, BarsAreBars DEF ChartTypeOK
    <2>2. \A i \in 1..n : bars[i] \in Bars \cup {FirstBar}
      BY <1>1, BarsAreBars
    <2> QED BY <1>2, <2>1, <2>2
  <1>4. IsFiniteSet(OpeningRange)
    <2> DEFINE f == [i \in 1..n |-> bars[i]]
    <2> HIDE DEF n
    <2>1. f \in Surjection(1..n, OpeningRange)
      BY <1>2 DEF Surjection
    <2>2. IsFiniteSet(1..n)
      BY <1>1, BarsAreBars, FS_Interval
    <2> QED BY <2>1, <2>2, FS_Surjection
  <1> HIDE DEF n
  <1>5. IsFiniteSet(highs) /\ IsFiniteSet(lows)
    <2> DEFINE h == [b \in OpeningRange |-> b.high]
               l == [b \in OpeningRange |-> b.low]
    <2>1. h \in Surjection(OpeningRange, highs) /\ l \in Surjection(OpeningRange, lows)
      BY DEF Surjection
    <2> QED BY <1>4, <2>1, FS_Surjection
  <1>6. /\ \A x \in highs : x \in Int /\ x % 2 = 0
        /\ \A x \in lows : x \in Int /\ x % 2 = 0
        /\ FirstBar.high \in highs /\ FirstBar.low \in lows
    BY <1>3, BarsFit
  <1>7. RangeHigh = Max(highs) /\ RangeLow = Min(lows)
    BY DEF RangeHigh, RangeLow
  <1> HIDE DEF highs, lows
  <1>8. RangeHigh \in highs /\ FirstBar.high <= RangeHigh
    BY <1>5, <1>6, <1>7, MaxIsGreatest
  <1>9. RangeLow \in lows /\ RangeLow <= FirstBar.low
    BY <1>5, <1>6, <1>7, MinIsLeast
  <1>10. RangeHigh \in Int /\ RangeLow \in Int
    BY <1>6, <1>8, <1>9
  <1> QED BY <1>6, <1>8, <1>9, <1>10 DEF RangeSize, RangeMid

-----------------------------------------------------------------------------
(* Signals and bars.                                                       *)

\* Every signal is of the current bar, at its price.
LEMMA EmittedShape ==
    ASSUME ChartTypeOK, NEW daily, NEW s \in {ORB, VWAP, MOM}, NEW r \in Emitted(s, daily)
    PROVE  /\ r.strategy = s /\ r.side \in Side
           /\ r.bar = Len(bars) /\ r.price = Now.close /\ r.atr = Now.atr
           /\ r.stop \in Int /\ r.target \in Int
           /\ s = ORB => /\ Len(bars) > OpeningBars /\ r.side \in OrbSides(daily)
                         /\ r = IF setup.entry = "breakout" THEN BreakoutSignal(r.side)
                                ELSE RetestSignal(r.side)
           /\ s = VWAP => r \in VwapPullback
           /\ s = MOM => r \in MomentumScalp
  <1>1. /\ Now.close \in Int /\ Now.atr \in Nat /\ Now.vwap \in Int
        /\ RangeHigh \in Int /\ RangeLow \in Int /\ RangeSize \in Int /\ RangeMid \in Int
    BY BarsAreBars, BarsFit, RangeSpans
  <1>2. CASE s = ORB
    <2>1. r \in OpeningRangeBreakout(daily)
      BY <1>2 DEF Emitted, ORB, VWAP, MOM
    <2>2. PICK x \in OrbSides(daily) :
              r = IF setup.entry = "breakout" THEN BreakoutSignal(x) ELSE RetestSignal(x)
      BY <2>1 DEF OpeningRangeBreakout
    <2>3. x \in Side /\ Len(bars) > OpeningBars
      BY DEF OrbSides, OrbTrades
    <2>4. /\ r.strategy = ORB /\ r.side = x /\ r.bar = Len(bars)
          /\ r.price = Now.close /\ r.atr = Now.atr
      BY <2>2 DEF BreakoutSignal, RetestSignal, Found
    <2>5. r.stop \in Int /\ r.target \in Int
      <3>1. CASE setup.entry = "breakout"
        BY <1>1, <2>2, <3>1 DEF BreakoutSignal, Found, Level, Behind
      <3>2. CASE setup.entry # "breakout"
        BY <1>1, <2>2, <3>2 DEF RetestSignal, Found, Level, Behind
      <3> QED BY <3>1, <3>2
    <2> QED BY <1>2, <2>2, <2>3, <2>4, <2>5 DEF ORB, VWAP, MOM
  <1>3. CASE s = VWAP
    <2>1. r \in VwapPullback
      BY <1>3 DEF Emitted, ORB, VWAP, MOM
    <2>2. PICK x \in Side :
              r = Found(VWAP, x, Behind(x, Now.vwap, Now.atr), Behind(x, Now.close, -2 * Now.atr))
      BY <2>1 DEF VwapPullback
    <2>3. /\ r.strategy = VWAP /\ r.side = x /\ r.bar = Len(bars)
          /\ r.price = Now.close /\ r.atr = Now.atr
          /\ r.stop = Behind(x, Now.vwap, Now.atr) /\ r.target = Behind(x, Now.close, -2 * Now.atr)
      BY <2>2 DEF Found
    <2>4. r.stop \in Int /\ r.target \in Int
      BY <1>1, <2>3 DEF Behind
    <2> QED BY <1>3, <2>1, <2>3, <2>4 DEF ORB, VWAP, MOM
  <1>4. CASE s = MOM
    <2>1. r \in MomentumScalp
      BY <1>4 DEF Emitted, ORB, VWAP, MOM
    <2>2. PICK x \in Side :
              r = Found(MOM, x, Behind(x, Now.close, (3 * Now.atr) \div 2),
                        Behind(x, Now.close, -2 * Now.atr))
      BY <2>1 DEF MomentumScalp
    <2>3. /\ r.strategy = MOM /\ r.side = x /\ r.bar = Len(bars)
          /\ r.price = Now.close /\ r.atr = Now.atr
          /\ r.stop = Behind(x, Now.close, (3 * Now.atr) \div 2)
          /\ r.target = Behind(x, Now.close, -2 * Now.atr)
      BY <2>2 DEF Found
    <2>4. r.stop \in Int /\ r.target \in Int
      BY <1>1, <2>3 DEF Behind
    <2> QED BY <1>4, <2>1, <2>3, <2>4 DEF ORB, VWAP, MOM
  <1> QED BY <1>2, <1>3, <1>4

\* A bar that is complete stays as it is, and the last one's range only grows.
LEMMA BarsStep ==
    ASSUME ChartTypeOK, [SignalsNext]_chartVars
    PROVE  /\ setup' = setup /\ prior' = prior
           /\ bars' \in Seq(Bars \cup {FirstBar}) /\ Len(bars') \in Nat
           /\ Len(bars) <= Len(bars') /\ bars'[1] = FirstBar
           /\ \A i \in 1..(Len(bars) - 1) : bars'[i] = bars[i]
           /\ bars'[Len(bars)].low <= Now.low /\ bars'[Len(bars)].high >= Now.high
  <1>1. /\ bars \in Seq(Bars \cup {FirstBar}) /\ Len(bars) \in Nat \ {0}
        /\ DOMAIN bars = 1..Len(bars) /\ bars[1] = FirstBar
        /\ Now = bars[Len(bars)] /\ Now.low \in Int /\ Now.high \in Int
    BY BarsAreBars, BarsFit DEF ChartTypeOK, Now
  <1>0. setup' = setup /\ prior' = prior
    BY DEF SignalsNext, NextBar, Forming, Evaluate, chartVars
  <1>2. CASE UNCHANGED bars
    <2>1. Len(bars') = Len(bars) /\ bars' \in Seq(Bars \cup {FirstBar}) /\ bars'[1] = FirstBar
      BY <1>1, <1>2
    <2>2. bars'[Len(bars)] = Now /\ \A i \in 1..(Len(bars) - 1) : bars'[i] = bars[i]
      BY <1>1, <1>2
    <2> QED BY <1>0, <1>1, <2>1, <2>2
  <1>3. CASE NextBar
    <2>1. PICK b \in Bars : bars' = Append(bars, b)
      BY <1>3 DEF NextBar
    <2>2. /\ bars' \in Seq(Bars \cup {FirstBar}) /\ Len(bars') = Len(bars) + 1
          /\ \A i \in 1..Len(bars) : bars'[i] = bars[i]
      BY <1>1, <2>1
    <2>3. bars'[1] = FirstBar /\ bars'[Len(bars)] = Now
      BY <1>1, <2>2
    <2>4. Len(bars') \in Nat /\ Len(bars) <= Len(bars')
      BY <1>1, <2>2
    <2>5. \A i \in 1..(Len(bars) - 1) : bars'[i] = bars[i]
      BY <1>1, <2>2
    <2> QED BY <1>0, <1>1, <2>2, <2>3, <2>4, <2>5
  <1>4. CASE Forming
    <2>1. PICK b \in Bars : /\ b.high >= Now.high /\ b.low <= Now.low
                            /\ bars' = [bars EXCEPT ![Len(bars)] = b]
      BY <1>4 DEF Forming
    <2>2. Len(bars) > 1 /\ UNCHANGED <<setup, prior>>
      BY <1>4 DEF Forming
    <2>3. bars' \in Seq(Bars \cup {FirstBar}) /\ Len(bars') = Len(bars)
      BY <1>1, <2>1
    <2>4. bars'[Len(bars)] = b /\ \A i \in 1..Len(bars) : i # Len(bars) => bars'[i] = bars[i]
      <3>1. Len(bars) \in DOMAIN bars /\ DOMAIN bars = 1..Len(bars)
        BY BarsAreBars
      <3>2. bars' = [bars EXCEPT ![Len(bars)] = b]
        BY <2>1
      <3> QED BY <3>1, <3>2
    <2>5. Len(bars') \in Nat /\ Len(bars) <= Len(bars')
      <3>1. Len(bars) \in Nat
        BY <1>1
      <3> QED BY <2>3, <3>1
    <2>6. bars'[1] = FirstBar
      <3>1. 1 \in 1..Len(bars) /\ 1 # Len(bars) /\ bars[1] = FirstBar
        BY <1>1, <2>2
      <3> QED BY <2>4, <3>1
    <2>7. \A i \in 1..(Len(bars) - 1) : bars'[i] = bars[i]
      <3> SUFFICES ASSUME NEW i \in 1..(Len(bars) - 1)
                   PROVE  bars'[i] = bars[i]
        OBVIOUS
      <3>1. Len(bars) \in Nat
        BY BarsAreBars
      <3>2. i \in 1..Len(bars) /\ i # Len(bars)
        BY <3>1
      <3> QED BY <2>4, <3>2
    <2> QED BY <1>0, <2>1, <2>3, <2>4, <2>5, <2>6, <2>7
  <1> QED BY <1>2, <1>3, <1>4 DEF SignalsNext, Evaluate, chartVars

\* The range of a session that is past it stays.
LEMMA RangeStays ==
    ASSUME ChartTypeOK, [SignalsNext]_chartVars, Len(bars) > OpeningBars
    PROVE  /\ RangeHigh' = RangeHigh /\ RangeLow' = RangeLow
           /\ RangeSize' = RangeSize /\ RangeMid' = RangeMid
           /\ \A side : Level(side)' = Level(side)
  <1>1. /\ OpeningBars \in Nat /\ Len(bars) \in Nat /\ Len(bars') \in Nat
        /\ Len(bars) <= Len(bars') /\ \A i \in 1..(Len(bars) - 1) : bars'[i] = bars[i]
    BY BarsAreBars, BarsStep, SignalsAssumption DEF SignalsAssumption
  <1>2. /\ Smaller(OpeningBars, Len(bars)) = OpeningBars
        /\ Smaller(OpeningBars, Len(bars')) = OpeningBars
    BY <1>1 DEF Smaller
  <1>3. \A i \in 1..OpeningBars : bars'[i] = bars[i]
    BY <1>1
  <1>4. OpeningRange' = OpeningRange
    BY <1>2, <1>3 DEF OpeningRange
  <1>5. RangeHigh' = RangeHigh /\ RangeLow' = RangeLow
    BY <1>4 DEF RangeHigh, RangeLow
  <1> QED BY <1>5 DEF RangeSize, RangeMid, Level

-----------------------------------------------------------------------------
(* What is on record.                                                      *)

LEMMA EnabledStrategies == Enabled \subseteq {ORB, VWAP, MOM}
  BY SignalsAssumption DEF SignalsAssumption

\* A signal comes on record when a strategy that runs finds it.
LEMMA NewSignals ==
    ASSUME [SignalsNext]_chartVars, NEW r \in recorded'
    PROVE  \/ r \in recorded
           \/ /\ Evaluate /\ UNCHANGED <<setup, prior, bars, forms>>
              /\ \E daily \in DailyFrames, s \in Enabled : r \in Emitted(s, daily)
  <1>1. CASE Evaluate
    <2>0. PICK daily \in DailyFrames : \E regime \in Regimes(daily) :
              recorded' = recorded \cup UNION {Emitted(s, daily) : s \in Running(regime)}
      BY <1>1 DEF Evaluate
    <2>1. PICK regime \in Regimes(daily) :
              recorded' = recorded \cup UNION {Emitted(s, daily) : s \in Running(regime)}
      BY <2>0
    <2>2. UNCHANGED <<setup, prior, bars, forms>>
      BY <1>1 DEF Evaluate
    <2>3. Running(regime) \subseteq Enabled
      BY DEF Running
    <2> QED BY <1>1, <2>1, <2>2, <2>3
  <1>2. CASE NextBar \/ Forming \/ UNCHANGED chartVars
    BY <1>2 DEF NextBar, Forming, chartVars
  <1> QED BY <1>1, <1>2 DEF SignalsNext

LEMMA ChartInit == SignalsInit => ChartTypeOK /\ RangeIsComplete /\ RetestsHappened
  <1> SUFFICES ASSUME SignalsInit
               PROVE  ChartTypeOK /\ RangeIsComplete /\ RetestsHappened
    OBVIOUS
  <1>1. bars = <<FirstBar>> /\ recorded = {} /\ survivors = {}
    BY DEF SignalsInit
  <1>2. bars \in Seq(Bars \cup {FirstBar}) /\ Len(bars) > 0 /\ bars[1] = FirstBar
    BY <1>1
  <1>3. ChartTypeOK
    BY <1>1, <1>2 DEF ChartTypeOK, SignalsInit
  <1> QED BY <1>1, <1>3 DEF RangeIsComplete, RetestsHappened

LEMMA ChartNext ==
    ASSUME ChartTypeOK, RangeIsComplete, [SignalsNext]_chartVars
    PROVE  ChartTypeOK' /\ RangeIsComplete'
  <1>1. /\ setup' = setup /\ prior' = prior /\ bars' \in Seq(Bars \cup {FirstBar})
        /\ Len(bars') \in Nat /\ Len(bars) \in Nat \ {0} /\ Len(bars) <= Len(bars')
        /\ bars'[1] = FirstBar
    BY BarsStep, BarsAreBars
  <1>2. forms' \in Nat
    BY DEF ChartTypeOK, SignalsNext, NextBar, Forming, Evaluate, chartVars
  <1>3. ASSUME NEW r \in recorded'
        PROVE  /\ r.strategy \in Enabled /\ r.side \in Side
               /\ r.bar \in 1..Len(bars')
               /\ {r.price, r.stop, r.target} \subseteq Int /\ r.atr \in Nat
               /\ r.strategy = ORB => r.bar > OpeningBars
    <2>1. CASE r \in recorded
      <3>1. r.bar \in 1..Len(bars)
        BY <2>1 DEF ChartTypeOK
      <3>2. r.bar \in 1..Len(bars')
        BY <1>1, <3>1
      <3> QED BY <2>1, <3>2 DEF ChartTypeOK, RangeIsComplete
    <2>2. CASE \E daily \in DailyFrames, s \in Enabled : r \in Emitted(s, daily)
      <3>1. PICK daily \in DailyFrames, s \in Enabled : r \in Emitted(s, daily)
        BY <2>2
      <3>2. s \in {ORB, VWAP, MOM}
        BY EnabledStrategies
      <3>3. /\ r.strategy = s /\ r.side \in Side
            /\ r.bar = Len(bars) /\ r.price = Now.close /\ r.atr = Now.atr
            /\ r.stop \in Int /\ r.target \in Int
            /\ s = ORB => Len(bars) > OpeningBars
        BY <3>1, <3>2, EmittedShape
      <3>4. Now.close \in Int /\ Now.atr \in Nat
        BY BarsAreBars, BarsFit
      <3>5. r.bar \in 1..Len(bars')
        BY <1>1, <3>3
      <3> QED BY <3>3, <3>4, <3>5
    <2> QED BY <2>1, <2>2, NewSignals
  <1>4. setup' \in Setups /\ prior' \in Priors
    BY <1>1 DEF ChartTypeOK
  <1>5. Len(bars') > 0
    BY <1>1
  <1> QED BY <1>1, <1>2, <1>3, <1>4, <1>5 DEF ChartTypeOK, RangeIsComplete

-----------------------------------------------------------------------------
(* Levels.                                                                 *)

\* The opening range is not a single price.  The code measures a flat one as a
\* billionth, which whole prices do not show.
RangeHasWidth == FirstBar.low < FirstBar.high

LEMMA WidthIsPositive ==
    ASSUME ChartTypeOK, RangeHasWidth
    PROVE  RangeSize > 0 /\ RangeLow < RangeHigh
  <1>1. FirstBar.low \in Int /\ FirstBar.high \in Int
    BY BarsFit
  <1> QED BY <1>1, RangeSpans DEF RangeHasWidth, RangeSize

\* A new signal's stop and target are on their sides of its price.
LEMMA EmittedProtects ==
    ASSUME ChartTypeOK, RangeHasWidth, NEW daily, NEW s \in {ORB, VWAP, MOM},
           NEW r \in Emitted(s, daily)
    PROVE  Protects(r)
  <1>1. /\ Now.close \in Int /\ Now.atr \in Nat /\ Now.vwap \in Int
        /\ RangeHigh \in Int /\ RangeLow \in Int /\ RangeSize \in Int /\ RangeMid \in Int
        /\ RangeHigh % 2 = 0 /\ RangeLow % 2 = 0
    BY BarsAreBars, BarsFit, RangeSpans
  <1>2. RangeSize > 0 /\ RangeSize = RangeHigh - RangeLow
    BY WidthIsPositive DEF RangeSize
  <1>3. /\ r.strategy = s /\ r.side \in Side /\ r.price = Now.close /\ r.atr = Now.atr
    BY EmittedShape
  <1>4. CASE s = ORB /\ setup.entry = "breakout"
    <2>1. r.side \in OrbSides(daily) /\ r = BreakoutSignal(r.side)
      BY <1>4, EmittedShape
    <2>2. Gain(r.side, Level(r.side), Now.close) > 0
      BY <1>4, <2>1 DEF OrbSides, Beyond
    <2>3. r.stop = Level(Opposite(r.side)) /\ r.target = Behind(r.side, Now.close, -RangeSize)
      BY <2>1 DEF BreakoutSignal, Found
    <2>4. ValidStop(r.side, r.price, r.stop)
      BY <1>1, <1>2, <1>3, <2>2, <2>3 DEF ValidStop, Gain, Level, Opposite, Side
    <2>5. Gain(r.side, r.price, r.target) > 0
      BY <1>1, <1>2, <1>3, <2>3 DEF Gain, Behind, Side
    <2> QED BY <2>4, <2>5 DEF Protects
  <1>5. CASE s = ORB /\ setup.entry # "breakout"
    <2>1. r.side \in OrbSides(daily) /\ r = RetestSignal(r.side)
      BY <1>5, EmittedShape
    <2>2. 100 * Gain(r.side, Now.close, Level(r.side)) <= TouchPct * Now.atr
      BY <1>5, <2>1 DEF OrbSides, RetestNow, Retests
    <2>3. r.stop = RangeMid /\ r.target = Behind(r.side, Level(r.side), -RangeSize)
      BY <2>1 DEF RetestSignal, Found
    <2>4. setup.entry = "retest"
      BY <1>5, SignalsAssumption DEF SignalsAssumption, ChartTypeOK
    <2> DEFINE touch == TouchPct * Now.atr
    <2>5. touch \in Int /\ 2 * TouchPct * r.atr = 2 * touch
      BY <1>1, <1>3, SignalsAssumption DEF SignalsAssumption
    <2>6. 100 * Gain(r.side, r.price, Level(r.side)) <= touch
      BY <1>3, <2>2
    <2> HIDE DEF touch
    <2>7. 2 * RangeMid = RangeHigh + RangeLow
      BY <1>1 DEF RangeMid
    <2>8. ValidStop(r.side, r.price, r.stop) \/ 2 * touch >= 100 * RangeSize
      BY <1>1, <1>2, <1>3, <2>3, <2>5, <2>6, <2>7 DEF ValidStop, Gain, Level, Side
    <2>9. \/ Gain(r.side, r.price, r.target) > 0
          \/ Gain(r.side, Level(r.side), r.price) >= RangeSize
      BY <1>1, <1>2, <1>3, <2>3 DEF Gain, Level, Behind, Side
    <2> QED BY <1>3, <1>5, <2>4, <2>5, <2>8, <2>9 DEF Protects
  <1>6. CASE s = VWAP
    <2>1. PICK x \in Side :
              /\ r = Found(VWAP, x, Behind(x, Now.vwap, Now.atr),
                           Behind(x, Now.close, -2 * Now.atr))
              /\ Now.atr > 0 /\ Gain(x, Now.vwap, Now.close) >= 0
      BY <1>6, EmittedShape DEF VwapPullback
    <2>2. /\ r.side = x /\ r.stop = Behind(x, Now.vwap, Now.atr)
          /\ r.target = Behind(x, Now.close, -2 * Now.atr)
      BY <2>1 DEF Found
    <2>3. ValidStop(r.side, r.price, r.stop) /\ Gain(r.side, r.price, r.target) > 0
      BY <1>1, <1>3, <2>1, <2>2 DEF ValidStop, Gain, Behind, Side
    <2> QED BY <2>3 DEF Protects
  <1>7. CASE s = MOM
    <2>1. PICK x \in Side :
              r = Found(MOM, x, Behind(x, Now.close, (3 * Now.atr) \div 2),
                        Behind(x, Now.close, -2 * Now.atr))
      BY <1>7, EmittedShape DEF MomentumScalp
    <2>2. /\ r.side = x /\ r.stop = Behind(x, Now.close, (3 * Now.atr) \div 2)
          /\ r.target = Behind(x, Now.close, -2 * Now.atr)
      BY <2>1 DEF Found
    <2>3. CASE r.atr = 0
      BY <1>3, <1>7, <2>3 DEF Protects
    <2>4. CASE r.atr # 0
      <3>1. Now.atr > 0 /\ (3 * Now.atr) \div 2 > 0
        BY <1>1, <1>3, <2>4
      <3>2. ValidStop(r.side, r.price, r.stop) /\ Gain(r.side, r.price, r.target) > 0
        BY <1>1, <1>3, <2>2, <3>1 DEF ValidStop, Gain, Behind, Side
      <3> QED BY <3>2 DEF Protects
    <2> QED BY <2>3, <2>4
  <1> QED BY <1>4, <1>5, <1>6, <1>7

LEMMA LevelsNext ==
    ASSUME ChartTypeOK, RangeIsComplete, RangeHasWidth, LevelsProtectForCause,
           [SignalsNext]_chartVars
    PROVE  LevelsProtectForCause'
  <1> SUFFICES ASSUME NEW r \in recorded'
               PROVE  Protects(r)'
    BY DEF LevelsProtectForCause
  <1>1. setup' = setup
    BY BarsStep
  <1>2. CASE r \in recorded
    <2>1. Protects(r)
      BY <1>2 DEF LevelsProtectForCause
    <2>2. CASE r.strategy = ORB
      <3>1. Len(bars) > OpeningBars
        <4>1. r.bar > OpeningBars /\ r.bar \in 1..Len(bars) /\ OpeningBars \in Nat
          BY <1>2, <2>2, SignalsAssumption DEF RangeIsComplete, ChartTypeOK, SignalsAssumption
        <4> QED BY <4>1, BarsAreBars
      <3>2. RangeSize' = RangeSize /\ Level(r.side)' = Level(r.side)
        BY <3>1, RangeStays
      <3> QED BY <1>1, <2>1, <3>2 DEF Protects
    <2>3. CASE r.strategy # ORB
      BY <2>1, <2>3 DEF Protects
    <2> QED BY <2>2, <2>3
  <1>3. CASE UNCHANGED <<setup, prior, bars, forms>> /\
             \E daily \in DailyFrames, s \in Enabled : r \in Emitted(s, daily)
    <2>1. Protects(r)
      BY <1>3, EmittedProtects, EnabledStrategies
    <2>2. RangeSize' = RangeSize /\ Level(r.side)' = Level(r.side)
      BY <1>3 DEF RangeSize, RangeHigh, RangeLow, OpeningRange, Level
    <2> QED BY <1>1, <2>1, <2>2 DEF Protects
  <1> QED BY <1>2, <1>3, NewSignals

-----------------------------------------------------------------------------
(* Retests.                                                                *)

\* A tolerance grows with the ATR it is taken from.
LEMMA ToleranceGrows ==
    ASSUME NEW a \in Nat, NEW b \in Nat, a <= b
    PROVE  TouchPct * a \in Int /\ TouchPct * b \in Int /\ TouchPct * a <= TouchPct * b
  <1>1. TouchPct \in Nat
    BY SignalsAssumption DEF SignalsAssumption
  <1>2. b - a \in Nat
    OBVIOUS
  <1>3. TouchPct * (b - a) >= 0
    BY <1>1, <1>2
  <1>4. TouchPct * b = TouchPct * a + TouchPct * (b - a)
    BY <1>1
  <1> QED BY <1>1, <1>3, <1>4

\* The first bar that broke a level is no later than any other that did.
LEMMA FirstBreak ==
    ASSUME ChartTypeOK, NEW side, NEW i \in Breaks(side)
    PROVE  Min(Breaks(side)) \in Breaks(side) /\ Min(Breaks(side)) <= i
  <1> DEFINE Later == (OpeningBars + 1)..(Len(bars) - 1)
  <1>1. OpeningBars + 1 \in Int /\ Len(bars) - 1 \in Int
    BY BarsAreBars, SignalsAssumption DEF SignalsAssumption
  <1>2. IsFiniteSet(Later)
    BY <1>1, FS_Interval
  <1>3. Breaks(side) \in SUBSET Later
    BY DEF Breaks
  <1>4. IsFiniteSet(Breaks(side))
    <2> HIDE DEF Later
    <2> QED BY <1>2, <1>3, FS_Subset
  <1>5. \A x \in Breaks(side) : x \in Int
    BY <1>1, <1>3
  <1> QED BY <1>4, <1>5, MinIsLeast

\* What a retest signal saw.
LEMMA EmittedRetests ==
    ASSUME ChartTypeOK, setup.entry = "retest", NEW daily, NEW r \in Emitted(ORB, daily)
    PROVE  /\ RetestNow(r.side) /\ r.side \in Side
           /\ Len(bars) > OpeningBars
           /\ r.bar = Len(bars) /\ r.price = Now.close /\ r.atr = Now.atr
  <1>1. /\ r.side \in Side /\ r.side \in OrbSides(daily) /\ Len(bars) > OpeningBars
        /\ r.bar = Len(bars) /\ r.price = Now.close /\ r.atr = Now.atr
    BY EmittedShape
  <1>2. RetestNow(r.side)
    BY <1>1 DEF OrbSides
  <1> QED BY <1>1, <1>2

LEMMA RetestsNext ==
    ASSUME ChartTypeOK, RangeIsComplete, RetestsHappened, [SignalsNext]_chartVars
    PROVE  RetestsHappened'
  <1>0. setup' = setup
    BY BarsStep
  <1> SUFFICES ASSUME setup.entry = "retest", NEW r \in recorded', r.strategy = ORB
               PROVE  (/\ \E i \in (OpeningBars + 1)..(r.bar - 1) : Beyond(r.side, bars[i])
                       /\ 100 * Gain(r.side, Level(r.side), Reach(r.side, bars[r.bar]))
                            <= TouchPct * r.atr
                       /\ 100 * Gain(r.side, r.price, Level(r.side)) <= TouchPct * r.atr)'
    BY <1>0 DEF RetestsHappened
  <1>1. OpeningBars \in Nat /\ Len(bars) \in Nat /\ Now = bars[Len(bars)]
    BY BarsAreBars, SignalsAssumption DEF SignalsAssumption, Now
  <1>2. CASE r \in recorded
    <2>1. r.bar > OpeningBars /\ r.bar \in 1..Len(bars) /\ r.side \in Side
      BY <1>2 DEF RangeIsComplete, ChartTypeOK
    <2>2. Level(r.side)' = Level(r.side)
      BY <1>1, <2>1, RangeStays
    <2>3. PICK i \in (OpeningBars + 1)..(r.bar - 1) : Beyond(r.side, bars[i])
      BY <1>2 DEF RetestsHappened
    <2>4. /\ 100 * Gain(r.side, Level(r.side), Reach(r.side, bars[r.bar])) <= TouchPct * r.atr
          /\ 100 * Gain(r.side, r.price, Level(r.side)) <= TouchPct * r.atr
      BY <1>2 DEF RetestsHappened
    <2>5. \A k \in 1..(Len(bars) - 1) : bars'[k] = bars[k]
      BY BarsStep
    <2>6. Beyond(r.side, bars[i])'
      <3>1. i \in 1..(Len(bars) - 1)
        BY <1>1, <2>1, <2>3
      <3>2. bars'[i] = bars[i]
        BY <2>5, <3>1
      <3> QED BY <2>2, <2>3, <3>2 DEF Beyond
    <2>7. 100 * Gain(r.side, Level(r.side), Reach(r.side, bars[r.bar])')
            <= TouchPct * r.atr
      <3>1. CASE r.bar = Len(bars)
        <4>1. /\ bars'[r.bar].low <= bars[r.bar].low /\ bars'[r.bar].high >= bars[r.bar].high
          BY <1>1, <3>1, BarsStep
        <4>2. /\ bars[r.bar].low \in Int /\ bars[r.bar].high \in Int
              /\ bars'[r.bar].low \in Int /\ bars'[r.bar].high \in Int
          <5>1. bars[r.bar] \in Bars \cup {FirstBar}
            BY <2>1, BarsAreBars
          <5>2. bars'[r.bar] \in Bars \cup {FirstBar}
            <6>1. r.bar \in 1..Len(bars') /\ bars' \in Seq(Bars \cup {FirstBar})
              BY <1>1, <2>1, BarsStep
            <6> QED BY <6>1
          <5> QED BY <5>1, <5>2, BarsFit
        <4>3. Level(r.side) \in Int /\ TouchPct * r.atr \in Int
          <5>1. r.atr \in Nat
            BY <1>2 DEF ChartTypeOK
          <5> QED BY <5>1, RangeSpans, ToleranceGrows DEF Level
        <4>4. CASE r.side = "BUY"
          <5>1. 100 * (bars[r.bar].low - Level(r.side)) <= TouchPct * r.atr
            BY <2>4, <4>4 DEF Gain, Reach
          <5>2. 100 * (bars'[r.bar].low - Level(r.side)) <= TouchPct * r.atr
            BY <4>1, <4>2, <4>3, <5>1
          <5> QED BY <4>4, <5>2 DEF Gain, Reach
        <4>5. CASE r.side = "SELL"
          <5>1. 100 * (Level(r.side) - bars[r.bar].high) <= TouchPct * r.atr
            BY <2>4, <4>5 DEF Gain, Reach
          <5>2. 100 * (Level(r.side) - bars'[r.bar].high) <= TouchPct * r.atr
            BY <4>1, <4>2, <4>3, <5>1
          <5> QED BY <4>5, <5>2 DEF Gain, Reach
        <4> QED BY <2>1, <4>4, <4>5 DEF Side
      <3>2. CASE r.bar # Len(bars)
        <4>1. bars'[r.bar] = bars[r.bar]
          BY <1>1, <2>1, <2>5, <3>2
        <4> QED BY <2>4, <4>1 DEF Reach
      <3> QED BY <3>1, <3>2
    <2> QED BY <2>2, <2>3, <2>4, <2>6, <2>7
  <1>3. CASE UNCHANGED <<setup, prior, bars, forms>> /\
             \E daily \in DailyFrames, s \in Enabled : r \in Emitted(s, daily)
    <2>1. PICK daily \in DailyFrames, s \in Enabled : r \in Emitted(s, daily)
      BY <1>3
    <2>2. s = ORB
      BY <2>1, EmittedShape, EnabledStrategies
    <2>3. /\ RetestNow(r.side) /\ r.bar = Len(bars) /\ r.price = Now.close /\ r.atr = Now.atr
      BY <2>1, <2>2, EmittedRetests
    <2>4. PICK i \in (OpeningBars + 1)..(Len(bars) - 1) : Beyond(r.side, bars[i])
      BY <2>3 DEF RetestNow, Breaks
    <2>5. /\ 100 * Gain(r.side, Level(r.side), Reach(r.side, Now)) <= TouchPct * Now.atr
          /\ 100 * Gain(r.side, Now.close, Level(r.side)) <= TouchPct * Now.atr
      BY <2>3 DEF RetestNow, Retests
    <2>6. Level(r.side)' = Level(r.side) /\ bars' = bars
      BY <1>3 DEF Level, RangeHigh, RangeLow, OpeningRange
    <2> QED BY <1>1, <2>3, <2>4, <2>5, <2>6 DEF Beyond
  <1> QED BY <1>2, <1>3, NewSignals

\* A retest is not found again while its bar still counts as one.
LEMMA SecondRetest ==
    ASSUME ChartTypeOK, RangeIsComplete, RetestsHappened, setup.entry = "retest",
           NEW r \in recorded, r.strategy = ORB, r.bar < Len(bars),
           RetestNow(r.side), Now.atr >= r.atr
    PROVE  bars[r.bar].close # r.price
  <1> SUFFICES ASSUME bars[r.bar].close = r.price
               PROVE  FALSE
    OBVIOUS
  <1>1. /\ OpeningBars \in Nat /\ Len(bars) \in Nat
        /\ r.bar \in 1..Len(bars) /\ r.bar > OpeningBars /\ r.side \in Side
        /\ r.atr \in Nat /\ r.price \in Int /\ Now.atr \in Nat
    BY BarsAreBars, BarsFit, SignalsAssumption DEF SignalsAssumption, ChartTypeOK, RangeIsComplete
  <1>2. PICK i \in (OpeningBars + 1)..(r.bar - 1) : Beyond(r.side, bars[i])
    BY DEF RetestsHappened
  <1>3. i \in Breaks(r.side)
    BY <1>1, <1>2 DEF Breaks
  <1>4. Min(Breaks(r.side)) <= i /\ Min(Breaks(r.side)) \in Int
    <2>1. Min(Breaks(r.side)) \in Breaks(r.side) /\ Min(Breaks(r.side)) <= i
      BY <1>3, FirstBreak
    <2>2. \A x \in Breaks(r.side) : x \in Int
      BY <1>1 DEF Breaks
    <2> QED BY <2>1, <2>2
  <1>5. r.bar \in Between(r.side)
    BY <1>1, <1>2, <1>4 DEF Between
  <1>6. ~Retests(r.side, bars[r.bar])
    BY <1>5 DEF RetestNow
  <1>7. /\ 100 * Gain(r.side, Level(r.side), Reach(r.side, bars[r.bar])) <= TouchPct * r.atr
        /\ 100 * Gain(r.side, bars[r.bar].close, Level(r.side)) <= TouchPct * r.atr
    BY DEF RetestsHappened
  <1>8. TouchPct * r.atr \in Int /\ TouchPct * Now.atr \in Int
        /\ TouchPct * r.atr <= TouchPct * Now.atr
    BY <1>1, ToleranceGrows
  <1>9. /\ Gain(r.side, Level(r.side), Reach(r.side, bars[r.bar])) \in Int
        /\ Gain(r.side, bars[r.bar].close, Level(r.side)) \in Int
    <2>1. bars[r.bar].low \in Int /\ bars[r.bar].high \in Int /\ bars[r.bar].close \in Int
      BY <1>1, BarsAreBars, BarsFit
    <2>2. Level(r.side) \in Int
      BY RangeSpans DEF Level
    <2>3. Reach(r.side, bars[r.bar]) \in Int
      BY <2>1 DEF Reach
    <2> QED BY <2>1, <2>2, <2>3 DEF Gain
  <1> QED BY <1>6, <1>7, <1>8, <1>9 DEF Retests

LEMMA RetestTwiceNext ==
    ASSUME ChartTypeOK, RangeIsComplete, RetestsHappened, RetestTwiceForCause,
           [SignalsNext]_chartVars
    PROVE  RetestTwiceForCause'
  <1>0. setup' = setup
    BY BarsStep
  <1> SUFFICES ASSUME setup.entry = "retest",
                      NEW r \in recorded', r.strategy = ORB,
                      NEW s \in recorded', s.strategy = ORB,
                      r.side = s.side, r.bar < s.bar
               PROVE  s.atr < r.atr \/ bars'[r.bar].close # r.price
    BY <1>0 DEF RetestTwiceForCause
  <1>1. Len(bars) \in Nat /\ \A k \in 1..(Len(bars) - 1) : bars'[k] = bars[k]
    BY BarsStep, BarsAreBars
  <1>2. \A q \in recorded : q.bar \in 1..Len(bars) /\ q.atr \in Nat
    BY DEF ChartTypeOK
  <1>3. CASE r \in recorded /\ s \in recorded
    <2>1. bars'[r.bar] = bars[r.bar]
      BY <1>1, <1>2, <1>3
    <2> QED BY <1>3, <2>1 DEF RetestTwiceForCause
  <1>4. ASSUME NEW q \in recorded', q.strategy = ORB, q \notin recorded
        PROVE  /\ bars' = bars /\ q.bar = Len(bars) /\ q.atr = Now.atr /\ RetestNow(q.side)
    <2>1. PICK daily \in DailyFrames, x \in Enabled : q \in Emitted(x, daily)
      BY <1>4, NewSignals
    <2>2. x = ORB
      BY <1>4, <2>1, EmittedShape, EnabledStrategies
    <2>3. bars' = bars
      BY <1>4, NewSignals
    <2> QED BY <2>1, <2>2, <2>3, EmittedRetests
  <1>5. CASE r \in recorded /\ s \notin recorded
    <2>1. bars' = bars /\ s.bar = Len(bars) /\ s.atr = Now.atr /\ RetestNow(r.side)
      BY <1>4, <1>5
    <2>2. Now.atr \in Nat /\ r.atr \in Nat
      BY <1>2, <1>5, BarsAreBars, BarsFit
    <2>3. CASE Now.atr >= r.atr
      BY <1>5, <2>1, <2>3, SecondRetest
    <2>4. CASE ~(Now.atr >= r.atr)
      BY <2>1, <2>2, <2>4
    <2> QED BY <2>3, <2>4
  <1>6. CASE r \notin recorded
    <2>1. r.bar = Len(bars)
      BY <1>4, <1>6
    <2>2. s.bar \in 1..Len(bars)
      BY <1>1, <1>2, <1>4
    <2> QED BY <1>1, <2>1, <2>2
  <1> QED BY <1>3, <1>5, <1>6

-----------------------------------------------------------------------------
(* What the engine is handed.                                              *)

\* A signal reaches the engine from the evaluation that found it, of the chart
\* as it is, by a strategy that the regime of that evaluation lets run.
LEMMA NewSurvivors ==
    ASSUME [SignalsNext]_chartVars, survivors' # survivors, survivors' # {}
    PROVE  /\ UNCHANGED <<setup, prior, bars, forms>>
           /\ \E daily \in DailyFrames : \E regime \in Regimes(daily) :
                 \A f \in survivors' :
                    /\ f.daily = daily /\ f.regime = regime
                    /\ \E s \in Running(regime) : f.sig \in Emitted(s, daily)
  <1>1. Evaluate
    BY DEF SignalsNext, NextBar, Forming, chartVars
  <1>2. PICK daily \in DailyFrames : \E regime \in Regimes(daily) : \E blocked \in Blocked :
            survivors' = {[sig |-> r, daily |-> daily, regime |-> regime] :
                            r \in {f \in UNION {Emitted(s, daily) : s \in Running(regime)} :
                                     f.strategy \notin blocked}}
    BY <1>1 DEF Evaluate
  <1>3. PICK regime \in Regimes(daily) : \E blocked \in Blocked :
            survivors' = {[sig |-> r, daily |-> daily, regime |-> regime] :
                            r \in {f \in UNION {Emitted(s, daily) : s \in Running(regime)} :
                                     f.strategy \notin blocked}}
    BY <1>2
  <1>4. ASSUME NEW f \in survivors'
        PROVE  /\ f.daily = daily /\ f.regime = regime
               /\ \E s \in Running(regime) : f.sig \in Emitted(s, daily)
    <2>1. PICK r \in UNION {Emitted(s, daily) : s \in Running(regime)} :
              f = [sig |-> r, daily |-> daily, regime |-> regime]
      BY <1>3
    <2> QED BY <2>1
  <1>5. UNCHANGED <<setup, prior, bars, forms>>
    BY <1>1 DEF Evaluate
  <1> QED BY <1>4, <1>5

\* Who breaks out of a range is past the open, which lies in it.
LEMMA BreaksPastTheOpen ==
    ASSUME ChartTypeOK, NEW side \in Side, Beyond(side, Now)
    PROVE  Gain(side, OpenPrice, Now.close) > 0
  <1>1. /\ OpenPrice \in Int /\ FirstBar.low <= OpenPrice /\ OpenPrice <= FirstBar.high
        /\ FirstBar.low \in Int /\ FirstBar.high \in Int
    <2>1. FirstBar.low \in Int /\ FirstBar.high \in Int
      BY BarsFit
    <2> QED BY <2>1, SignalsAssumption DEF SignalsAssumption
  <1>2. Now.close \in Int
    BY BarsAreBars, BarsFit
  <1>3. /\ RangeHigh \in Int /\ RangeLow \in Int
        /\ FirstBar.high <= RangeHigh /\ RangeLow <= FirstBar.low
    BY RangeSpans
  <1> QED BY <1>1, <1>2, <1>3 DEF Beyond, Gain, Level, Side

\* The daily frame of a replay ends yesterday, that of the service today.
LEMMA FrameEnds ==
    ASSUME ChartTypeOK, NEW daily \in DailyFrames, daily # None
    PROVE  daily.close = IF setup.feed = "replay" THEN prior.close ELSE Now.close
  <1>1. prior # None
    BY DEF DailyFrames
  <1>2. prior \in [close : Nat \ {0}, atr : Nat, quiet : BOOLEAN]
    BY <1>1, SignalsAssumption DEF SignalsAssumption, ChartTypeOK
  <1>3. [prior EXCEPT !.close = Now.close].close = Now.close
    BY <1>2
  <1> QED BY <1>1, <1>3 DEF DailyFrames

LEMMA GapMatchNext ==
    ASSUME ChartTypeOK, GapMatchForCause, [SignalsNext]_chartVars
    PROVE  GapMatchForCause'
  <1>0. setup' = setup /\ prior' = prior
    BY BarsStep
  <1>1. CASE survivors' = survivors \/ survivors' = {}
    BY <1>0, <1>1 DEF GapMatchForCause
  <1>2. CASE survivors' # survivors /\ survivors' # {}
    <2> SUFFICES ASSUME NEW f \in survivors', f.sig.strategy = ORB, setup.matchGap, f.daily # None
                 PROVE  IF setup.feed = "replay"
                        THEN Gain(f.sig.side, prior.close, OpenPrice) >= 0
                        ELSE /\ Gain(f.sig.side, OpenPrice, f.sig.price) <= 0
                             /\ setup.entry # "breakout"
      BY <1>0 DEF GapMatchForCause
    <2>1. PICK daily \in DailyFrames : \E regime \in Regimes(daily) :
              f.daily = daily /\ \E s \in Running(regime) : f.sig \in Emitted(s, daily)
      BY <1>2, NewSurvivors
    <2>2. PICK s \in Enabled : f.sig \in Emitted(s, daily)
      BY <2>1 DEF Running
    <2>3. /\ s = ORB /\ f.sig.side \in Side /\ f.sig.price = Now.close
          /\ f.sig.side \in OrbSides(daily)
      BY <2>2, EmittedShape, EnabledStrategies
    <2>4. Gain(f.sig.side, daily.close, OpenPrice) >= 0
      BY <2>1, <2>3 DEF OrbSides, Confirmed, DirectionMatches
    <2>5. setup.entry = "breakout" => Beyond(f.sig.side, Now)
      BY <2>3 DEF OrbSides
    <2>6. daily.close = IF setup.feed = "replay" THEN prior.close ELSE Now.close
      BY <2>1, FrameEnds
    <2>7. CASE setup.feed = "replay"
      BY <2>4, <2>6, <2>7
    <2>8. CASE setup.feed # "replay"
      <3>1. Now.close \in Int /\ OpenPrice \in Int
        <4>1. FirstBar.low \in Int /\ FirstBar.high \in Int
          BY BarsFit
        <4> QED BY <4>1, BarsAreBars, BarsFit, SignalsAssumption DEF SignalsAssumption
      <3>2. Gain(f.sig.side, OpenPrice, Now.close) <= 0
        BY <2>3, <2>4, <2>6, <2>8, <3>1 DEF Gain, Side
      <3>3. setup.entry # "breakout"
        <4> SUFFICES ASSUME setup.entry = "breakout"
                     PROVE  FALSE
          OBVIOUS
        <4>1. Gain(f.sig.side, OpenPrice, Now.close) > 0
          BY <2>3, <2>5, BreaksPastTheOpen
        <4> QED BY <3>1, <3>2, <4>1 DEF Gain
      <3> QED BY <2>3, <2>8, <3>2, <3>3
    <2> QED BY <2>7, <2>8
  <1> QED BY <1>1, <1>2

\* The regimes that allow mean reversion allow nothing else, as in the lists
\* that the program comes with.
BetsAreApart ==
    VWAP \in Enabled =>
        \A s \in Enabled \ {VWAP} :
            {VWAP, s} \subseteq DOMAIN Allowed /\ Allowed[VWAP] \cap Allowed[s] = {}

LEMMA NeverBothNext ==
    ASSUME ChartTypeOK, BetsAreApart, NeverBothBets, [SignalsNext]_chartVars
    PROVE  NeverBothBets'
  <1>0. setup' = setup
    BY BarsStep
  <1>1. CASE survivors' = survivors \/ survivors' = {}
    BY <1>0, <1>1 DEF NeverBothBets
  <1>2. CASE survivors' # survivors /\ survivors' # {}
    <2> SUFFICES ASSUME setup.regime = "enforce", NEW f \in survivors', NEW g \in survivors',
                        f.regime # None, f.sig.strategy = VWAP, g.sig.strategy # VWAP
                 PROVE  FALSE
      BY <1>0 DEF NeverBothBets
    <2>1. PICK daily \in DailyFrames : \E regime \in Regimes(daily) :
              \A h \in survivors' :
                 /\ h.daily = daily /\ h.regime = regime
                 /\ \E s \in Running(regime) : h.sig \in Emitted(s, daily)
      BY <1>2, NewSurvivors
    <2>2. PICK regime \in Regimes(daily) :
              \A h \in survivors' :
                 /\ h.regime = regime
                 /\ \E s \in Running(regime) : h.sig \in Emitted(s, daily)
      BY <2>1
    <2>3. ASSUME NEW h \in survivors'
          PROVE  h.sig.strategy \in Enabled /\ RegimeAllows(regime, h.sig.strategy)
      <3>1. PICK s \in Running(regime) : h.sig \in Emitted(s, daily)
        BY <2>2
      <3>2. s \in Enabled /\ RegimeAllows(regime, s)
        BY DEF Running
      <3>3. h.sig.strategy = s
        BY <3>1, <3>2, EmittedShape, EnabledStrategies
      <3> QED BY <3>2, <3>3
    <2>4. regime # None
      BY <2>2
    <2>5. /\ VWAP \in Enabled /\ g.sig.strategy \in Enabled \ {VWAP}
          /\ {VWAP, g.sig.strategy} \subseteq DOMAIN Allowed
          /\ Allowed[VWAP] \cap Allowed[g.sig.strategy] = {}
      BY <2>3 DEF BetsAreApart
    <2>6. regime \in Allowed[VWAP] /\ regime \in Allowed[g.sig.strategy]
      BY <2>3, <2>4, <2>5 DEF RegimeAllows
    <2> QED BY <2>5, <2>6
  <1> QED BY <1>1, <1>2

-----------------------------------------------------------------------------
(* The theorems.                                                           *)

\* Every signal is an enabled strategy's, of a bar that has come, and one on the
\* opening range is of a bar past it; a retest is of a bar that touched the
\* level after another had closed beyond it (StrategyRouter.evaluate_snapshot,
\* OpeningRangeBreakoutStrategy.evaluate).
THEOREM SignalsAreOfTheChart ==
    SignalsSpec => [](ChartTypeOK /\ RangeIsComplete /\ RetestsHappened)
  <1> DEFINE Inv == ChartTypeOK /\ RangeIsComplete /\ RetestsHappened
  <1>1. SignalsInit => Inv
    BY ChartInit
  <1>2. Inv /\ [SignalsNext]_chartVars => Inv'
    BY ChartNext, RetestsNext
  <1> QED BY <1>1, <1>2, PTL DEF SignalsSpec

\* Whatever the bars, a level that has been entered on a retest is entered again
\* only when the ATR has fallen or the bar went on to close elsewhere
\* (OpeningRangeBreakoutStrategy._evaluate_retest).
THEOREM NoSecondRetest == SignalsSpec => []RetestTwiceForCause
  <1>1. SignalsInit => RetestTwiceForCause
    BY DEF SignalsInit, RetestTwiceForCause
  <1>2. /\ ChartTypeOK /\ RangeIsComplete /\ RetestsHappened /\ RetestTwiceForCause
        /\ [SignalsNext]_chartVars
        => RetestTwiceForCause'
    BY RetestTwiceNext
  <1> QED BY <1>1, <1>2, SignalsAreOfTheChart, PTL DEF SignalsSpec

\* Over an opening range that is not one price, the stop and the target of every
\* signal are on their sides of its price, but for the exceptions that the
\* property names (stop_hint and target_hint of the strategies).
THEOREM LevelsProtect ==
    ASSUME RangeHasWidth
    PROVE  SignalsSpec => []LevelsProtectForCause
  <1>1. SignalsInit => LevelsProtectForCause
    BY DEF SignalsInit, LevelsProtectForCause
  <1>2. /\ ChartTypeOK /\ RangeIsComplete /\ LevelsProtectForCause
        /\ [SignalsNext]_chartVars
        => LevelsProtectForCause'
    BY RangeHasWidth, LevelsNext
  <1> QED BY <1>1, <1>2, SignalsAreOfTheChart, PTL DEF SignalsSpec

\* For any bars and daily rows, an entry that has to match the gap matches the
\* overnight one in a replay; in the service what matches is on the wrong side
\* of the open, and never a breakout (require_gap_direction_match).
THEOREM GapsMatch == SignalsSpec => []GapMatchForCause
  <1>1. SignalsInit => GapMatchForCause
    BY DEF SignalsInit, GapMatchForCause
  <1>2. ChartTypeOK /\ GapMatchForCause /\ [SignalsNext]_chartVars => GapMatchForCause'
    BY GapMatchNext
  <1> QED BY <1>1, <1>2, SignalsAreOfTheChart, PTL DEF SignalsSpec

\* With lists that keep mean reversion apart, the engine is never handed it
\* together with a breakout, whatever regime the classifier finds
\* (StrategyRouter.evaluate_snapshot, regime_filter.allowed).
THEOREM BetsStayApart ==
    ASSUME BetsAreApart
    PROVE  SignalsSpec => []NeverBothBets
  <1>1. SignalsInit => NeverBothBets
    BY DEF SignalsInit, NeverBothBets
  <1>2. ChartTypeOK /\ NeverBothBets /\ [SignalsNext]_chartVars => NeverBothBets'
    BY BetsAreApart, NeverBothNext
  <1> QED BY <1>1, <1>2, SignalsAreOfTheChart, PTL DEF SignalsSpec

-----------------------------------------------------------------------------
(* One trade under the risk rules.                                         *)

\* The greatest of a set is the one member that no other exceeds.
LEMMA MaxIs ==
    ASSUME NEW S, \A x \in S : x \in Int, NEW m \in S, \A x \in S : x <= m
    PROVE  Max(S) = m
  <1>1. \A x \in S : m >= x
    OBVIOUS
  <1>2. Max(S) \in S /\ \A x \in S : Max(S) >= x
    BY <1>1 DEF Max
  <1>3. Max(S) \in Int /\ m \in Int /\ Max(S) >= m /\ Max(S) <= m
    BY <1>2
  <1> QED BY <1>3

LEMMA MinIs ==
    ASSUME NEW S, \A x \in S : x \in Int, NEW m \in S, \A x \in S : m <= x
    PROVE  Min(S) = m
  <1>1. Min(S) \in S /\ \A x \in S : Min(S) <= x
    BY DEF Min
  <1>2. Min(S) \in Int /\ m \in Int /\ Min(S) <= m /\ m <= Min(S)
    BY <1>1
  <1> QED BY <1>2

\* The inputs of a trade that is open.
TradeTypeOK ==
    /\ seen \subseteq Int /\ (trade = <<>> => seen = {})
    /\ held \in BOOLEAN /\ (held => trade # <<>>)
    /\ qty \in Nat /\ stop \in Int /\ peak \in Int
    /\ trade # <<>> =>
          /\ trade.side \in Side /\ trade.entry \in Nat \ {0} /\ trade.first \in Int
          /\ ValidStop(trade.side, trade.entry, trade.first)
          /\ trade.atr \in Nat /\ trade.pct \in Int
          /\ trade.equity \in Equities /\ trade.cash \in Cashes
          /\ qty = PositionSize(trade.equity, trade.entry, trade.first, trade.cash, trade.pct)

\* The peak is the best price that the trade has seen, its entry included.
PeakIsBest ==
    trade # <<>> =>
        /\ peak \in seen \cup {trade.entry}
        /\ \A p \in seen \cup {trade.entry} : Gain(trade.side, p, peak) >= 0

\* The stop that a best price gives at a distance.
StopFor(t, best, dist) ==
    IF Gain(t.side, t.entry, best) < Gain(t.side, t.first, t.entry) THEN t.first
    ELSE Tighter(t.side, Tighter(t.side, t.first, Behind(t.side, best, dist)), t.entry)

\* With an ATR the stop is the one of the peak; without one it is so until the
\* initial risk has been gained, and lies between the entry and the peak then.
StopFollowsPeak ==
    trade # <<>> =>
        IF \/ trade.atr > 0
           \/ Gain(trade.side, trade.entry, peak) < Gain(trade.side, trade.first, trade.entry)
        THEN stop = StopFor(trade, peak, TrailMultiplier * trade.atr)
        ELSE /\ Gain(trade.side, trade.entry, stop) >= 0
             /\ Gain(trade.side, stop, peak) >= 0

TradeInv == TradeTypeOK /\ PeakIsBest /\ StopFollowsPeak

LEMMA TradeInit == RiskInit => TradeInv
  <1> SUFFICES ASSUME RiskInit PROVE TradeInv
    OBVIOUS
  <1>1. /\ trade = <<>> /\ qty \in Nat /\ stop \in Int /\ peak \in Int
        /\ seen = {}
    BY DEF RiskInit
  <1>2. TradeTypeOK
    <2>1. held \in BOOLEAN /\ ~held
      BY Zenon DEF RiskInit
    <2> QED BY <1>1, <2>1, Zenon DEF TradeTypeOK
  <1>3. PeakIsBest /\ StopFollowsPeak
    BY <1>1, Zenon DEF PeakIsBest, StopFollowsPeak
  <1> QED BY <1>2, <1>3 DEF TradeInv

\* A trade opens at its entry, with its first stop.
LEMMA OpenShape ==
    ASSUME TradeTypeOK, NEW side \in Side, NEW entry \in Entries,
           NEW hint \in Hints \cup {NoLevel}, NEW atr \in Atrs,
           NEW equity \in Equities, NEW cash \in Cashes, NEW pct \in KellyPcts,
           Open(side, entry, hint, atr, equity, cash, pct)
    PROVE  /\ TradeTypeOK'
           /\ trade'.side \in Side /\ trade'.entry \in Int /\ trade'.first \in Int
           /\ ValidStop(trade'.side, trade'.entry, trade'.first)
           /\ stop' = trade'.first /\ peak' = trade'.entry /\ seen' = {}
  <1> DEFINE first == ResolveStop(side, entry, atr, hint)
  <1>1. /\ entry \in Nat \ {0} /\ atr \in Nat /\ hint \in Int \cup {NoLevel}
        /\ equity \in Int /\ cash \in Int /\ pct \in Int
    BY TradeAssumption DEF TradeAssumption
  <1>2. first \in Int
    BY <1>1, ResolveStopIsPrice
  <1>3. /\ trade = <<>> /\ ValidStop(side, entry, first)
        /\ trade' = [side |-> side, entry |-> entry, first |-> first,
                     atr |-> atr, equity |-> equity, cash |-> cash, pct |-> pct]
        /\ qty' = PositionSize(equity, entry, first, cash, pct)
        /\ stop' = first /\ peak' = entry /\ seen' = seen /\ held' = TRUE
    BY DEF Open
  <1> HIDE DEF first
  <1>4. /\ trade'.side = side /\ trade'.entry = entry /\ trade'.first = first
        /\ trade'.atr = atr /\ trade'.equity = equity
        /\ trade'.cash = cash /\ trade'.pct = pct
    BY <1>3
  <1>5. qty' \in Nat
    <2>1. entry \in Int /\ first \in Int
      BY <1>1, <1>2
    <2>2. \A n : n = PositionSize(equity, entry, first, cash, pct) => n \in Nat
      BY <1>1, <2>1, PositionSizeWithinCaps
    <2> QED BY <1>3, <2>2
  <1>6. TradeTypeOK'
    BY <1>1, <1>2, <1>3, <1>4, <1>5 DEF TradeTypeOK
  <1> QED BY <1>1, <1>2, <1>3, <1>4, <1>6 DEF TradeTypeOK

LEMMA OpenKeeps ==
    ASSUME TradeInv, NEW side \in Side, NEW entry \in Entries,
           NEW hint \in Hints \cup {NoLevel}, NEW atr \in Atrs,
           NEW equity \in Equities, NEW cash \in Cashes, NEW pct \in KellyPcts,
           Open(side, entry, hint, atr, equity, cash, pct)
    PROVE  TradeInv'
  <1>1. /\ TradeTypeOK'
        /\ trade'.side \in Side /\ trade'.entry \in Int /\ trade'.first \in Int
        /\ ValidStop(trade'.side, trade'.entry, trade'.first)
        /\ stop' = trade'.first /\ peak' = trade'.entry /\ seen' = {}
    BY OpenShape DEF TradeInv
  <1>2. PeakIsBest'
    BY <1>1 DEF PeakIsBest, Gain
  <1>3. StopFollowsPeak'
    <2>1. Gain(trade'.side, trade'.entry, trade'.entry)
            < Gain(trade'.side, trade'.first, trade'.entry)
      BY <1>1 DEF ValidStop, Gain
    <2> QED BY <1>1, <2>1 DEF StopFollowsPeak, StopFor
  <1> QED BY <1>1, <1>2, <1>3 DEF TradeInv

\* What is ahead of a price that is ahead of another is ahead of that one.
LEMMA GainAdds ==
    ASSUME NEW side, NEW a \in Int, NEW b \in Int, NEW c \in Int,
           Gain(side, a, b) >= 0, Gain(side, b, c) >= 0
    PROVE  Gain(side, a, c) >= 0
  BY DEF Gain

\* The trail applied once more to the stop of a best price gives the stop of a
\* price that is as good or better.
LEMMA TrailFollows ==
    ASSUME Trailing, NEW t, t.side \in Side, t.entry \in Int, t.first \in Int, NEW dist \in Int,
           ValidStop(t.side, t.entry, t.first),
           NEW old \in Int, NEW new \in Int, Gain(t.side, old, new) >= 0
    PROVE  UpdateTrailingStop(t.side, StopFor(t, old, dist), new, dist, t.entry,
                              Distance(t.entry, t.first)) = StopFor(t, new, dist)
  <1> DEFINE risk == Distance(t.entry, t.first)
  <1>1. risk = Gain(t.side, t.first, t.entry) /\ risk > 0 /\ risk \in Int
    BY DEF Distance, ValidStop, Gain, Side
  <1>2. Gain(t.side, t.entry, old) <= Gain(t.side, t.entry, new)
    BY DEF Gain, Side
  <1>3. CASE Gain(t.side, t.entry, new) < risk
    <2>1. StopFor(t, new, dist) = t.first /\ StopFor(t, old, dist) = t.first
      <3>1. Gain(t.side, t.entry, old) \in Int /\ Gain(t.side, t.entry, new) \in Int
        BY DEF Gain
      <3>2. Gain(t.side, t.entry, old) < risk
        BY <1>1, <1>2, <1>3, <3>1
      <3> HIDE DEF risk
      <3> QED BY <1>1, <1>3, <3>2 DEF StopFor
    <2> HIDE DEF risk
    <2> QED BY <1>1, <1>3, <2>1 DEF UpdateTrailingStop, risk
  <1>4. CASE ~(Gain(t.side, t.entry, new) < risk)
    <2> DEFINE trail == Behind(t.side, new, dist)
    <2>1. StopFor(t, new, dist) = Tighter(t.side, Tighter(t.side, t.first, trail), t.entry)
      BY <1>1, <1>4 DEF StopFor
    <2>2. UpdateTrailingStop(t.side, StopFor(t, old, dist), new, dist, t.entry, risk)
            = Tighter(t.side, Tighter(t.side, StopFor(t, old, dist), trail), t.entry)
      <3> HIDE DEF risk
      <3> QED BY <1>1, <1>4 DEF UpdateTrailingStop
    <2>3. CASE StopFor(t, old, dist) = t.first
      BY <2>1, <2>2, <2>3
    <2>4. CASE StopFor(t, old, dist)
                 = Tighter(t.side, Tighter(t.side, t.first, Behind(t.side, old, dist)), t.entry)
      <3> HIDE DEF risk
      <3> DEFINE was == Behind(t.side, old, dist)
      <3>1. was \in Int /\ trail \in Int /\ Gain(t.side, was, trail) >= 0
        BY DEF Behind, Gain, Side
      <3> HIDE DEF was, trail
      <3>2. StopFor(t, old, dist) = Tighter(t.side, Tighter(t.side, t.first, was), t.entry)
        BY <2>4 DEF was
      <3>3. Tighter(t.side, Tighter(t.side, Tighter(t.side, Tighter(t.side, t.first, was),
                                            t.entry), trail), t.entry)
              = Tighter(t.side, Tighter(t.side, t.first, trail), t.entry)
        <4>1. CASE t.side = "BUY"
          BY <3>1, <4>1 DEF Tighter, Gain, Larger
        <4>2. CASE t.side = "SELL"
          BY <3>1, <4>2 DEF Tighter, Gain, Smaller
        <4> QED BY <4>1, <4>2 DEF Side
      <3> QED BY <2>1, <2>2, <3>2, <3>3 DEF risk
    <2> QED BY <2>3, <2>4 DEF StopFor
  <1> QED BY <1>3, <1>4

\* Without an ATR, once the initial risk has been gained, the trail keeps the stop
\* between the entry and the best price, whatever the distance.
LEMMA TrailStaysBetween ==
    ASSUME Trailing, NEW side \in Side, NEW entry \in Int, NEW first \in Int,
           ValidStop(side, entry, first), NEW now \in Int, NEW dist \in Nat, NEW best \in Int,
           Gain(side, entry, best) >= Gain(side, first, entry), Gain(side, now, best) >= 0
    PROVE  LET new == UpdateTrailingStop(side, now, best, dist, entry, Distance(entry, first))
           IN  Gain(side, entry, new) >= 0 /\ Gain(side, new, best) >= 0
  <1> DEFINE risk == Distance(entry, first)
             new == UpdateTrailingStop(side, now, best, dist, entry, risk)
  <1>1. risk = Gain(side, first, entry) /\ risk > 0 /\ risk \in Int
    BY DEF Distance, ValidStop, Gain, Side
  <1> HIDE DEF risk
  <1>2. new = Tighter(side, Tighter(side, now, Behind(side, best, dist)), entry)
    <2>1. Gain(side, entry, best) \in Int
      BY DEF Gain
    <2> QED BY <1>1, <2>1 DEF UpdateTrailingStop
  <1> HIDE DEF new
  <1> DEFINE trail == Behind(side, best, dist)
             tight == Tighter(side, now, trail)
  <1>3. trail \in Int /\ Gain(side, trail, best) >= 0
    BY DEF Behind, Gain, Side
  <1>4. new = Tighter(side, tight, entry)
    BY <1>2
  <1>5. Gain(side, entry, best) >= 0
    BY <1>1 DEF Gain
  <1> HIDE DEF trail
  <1>6. tight \in {now, trail}
    BY DEF Tighter, Larger, Smaller
  <1> HIDE DEF tight
  <1>7. tight \in Int /\ Gain(side, tight, best) >= 0
    BY <1>3, <1>6
  <1>8. Gain(side, entry, new) >= 0 /\ Gain(side, new, best) >= 0
    <2>1. CASE side = "BUY"
      BY <1>4, <1>5, <1>7, <2>1 DEF Tighter, Larger, Gain
    <2>2. CASE side = "SELL"
      BY <1>4, <1>5, <1>7, <2>2 DEF Tighter, Smaller, Gain
    <2> QED BY <2>1, <2>2 DEF Side
  <1> QED BY <1>8 DEF new, risk

\* The distance is a number of ticks, with an ATR or without.
LEMMA TrailDistanceIsNat ==
    ASSUME NEW atr \in Nat, NEW entry \in Int, NEW now \in Int
    PROVE  TrailDistance(atr, entry, now) \in Nat
  <1>1. Distance(entry, now) \in Nat
    BY DEF Distance
  <1>2. TrailMultiplier * atr \in Nat /\ TrailMultiplier * Distance(entry, now) \in Nat
    BY <1>1, RiskConfigAssumption
  <1>3. (TrailMultiplier * Distance(entry, now)) \div AtrMultiplier \in Nat
    BY <1>2, RiskConfigAssumption
  <1> QED BY <1>2, <1>3 DEF TrailDistance

\* A tick leaves the types as they are, whether stops trail or not.
LEMMA TickTypes ==
    ASSUME TradeTypeOK, NEW price \in Ticks, Tick(price)
    PROVE  TradeTypeOK'
  <1>1. /\ trade # <<>> /\ trade' = trade /\ qty' = qty /\ price \in Int
        /\ trade.side \in Side /\ trade.entry \in Int /\ trade.first \in Int
        /\ trade.atr \in Nat /\ peak \in Int /\ stop \in Int
    BY TradeAssumption DEF Tick, TradeTypeOK, TradeAssumption
  <1>2. /\ peak' = Tighter(trade.side, peak, price) /\ seen' = seen \cup {price}
        /\ held' \in BOOLEAN
    BY DEF Tick
  <1>3. peak' \in Int /\ Distance(trade.entry, trade.first) \in Int
    BY <1>1, <1>2 DEF Tighter, Larger, Smaller, Distance
  <1>4. TrailDistance(trade.atr, trade.entry, stop) \in Int
    <2>1. TrailDistance(trade.atr, trade.entry, stop) \in Nat
      BY <1>1, TrailDistanceIsNat
    <2> QED BY <2>1
  <1>5. stop' \in Int
    <2>1. stop' = UpdateTrailingStop(trade.side, stop, peak',
                      TrailDistance(trade.atr, trade.entry, stop),
                      trade.entry, Distance(trade.entry, trade.first))
      BY DEF Tick
    <2> QED BY <1>1, <1>3, <1>4, <2>1, TrailNeverLoosens
  <1> QED BY <1>1, <1>2, <1>3, <1>5 DEF TradeTypeOK

\* A better price is a larger gain from any entry.
LEMMA GainGrows ==
    ASSUME NEW side \in Side, NEW entry \in Int, NEW from \in Int, NEW to \in Int,
           Gain(side, from, to) >= 0
    PROVE  /\ Gain(side, entry, from) \in Int /\ Gain(side, entry, to) \in Int
           /\ Gain(side, entry, from) <= Gain(side, entry, to)
  BY DEF Gain

\* A tick keeps the best price and the stop that it gives.
LEMMA TickKeeps ==
    ASSUME Trailing, TradeInv, NEW price \in Ticks, Tick(price)
    PROVE  TradeInv'
  <1> DEFINE dist == TrailDistance(trade.atr, trade.entry, stop)
             risk == Gain(trade.side, trade.first, trade.entry)
  <1>1. /\ trade # <<>> /\ trade' = trade /\ qty' = qty /\ price \in Int
        /\ trade.side \in Side /\ trade.entry \in Nat \ {0} /\ trade.first \in Int
        /\ ValidStop(trade.side, trade.entry, trade.first)
        /\ trade.atr \in Nat /\ peak \in Int /\ stop \in Int /\ seen \subseteq Int
    BY TradeAssumption DEF Tick, TradeInv, TradeTypeOK, TradeAssumption
  <1>2. /\ peak' = Tighter(trade.side, peak, price) /\ seen' = seen \cup {price}
        /\ stop' = UpdateTrailingStop(trade.side, stop, peak', dist,
                       trade.entry, Distance(trade.entry, trade.first))
    BY DEF Tick
  <1>3. /\ peak' \in {peak, price} /\ peak' \in Int
        /\ Gain(trade.side, peak, peak') >= 0 /\ Gain(trade.side, price, peak') >= 0
    BY <1>1, <1>2 DEF Tighter, Larger, Smaller, Gain, Side
  <1>4. PeakIsBest'
    <2>1. /\ peak \in seen \cup {trade.entry}
          /\ \A p \in seen \cup {trade.entry} : Gain(trade.side, p, peak) >= 0
      BY <1>1 DEF TradeInv, PeakIsBest
    <2>2. peak' \in seen' \cup {trade.entry}
      BY <1>2, <1>3, <2>1
    <2>3. ASSUME NEW p \in seen \cup {trade.entry}
          PROVE  Gain(trade.side, p, peak') >= 0
      <3>1. /\ p \in Int /\ peak \in Int /\ peak' \in Int
            /\ Gain(trade.side, p, peak) >= 0 /\ Gain(trade.side, peak, peak') >= 0
        BY <1>1, <1>3, <2>1
      <3> QED BY <3>1, GainAdds
    <2> QED BY <1>1, <1>2, <1>3, <2>2, <2>3 DEF PeakIsBest
  <1>5. TradeTypeOK'
    BY TickTypes DEF TradeInv
  <1>6. /\ Gain(trade.side, trade.entry, peak) <= Gain(trade.side, trade.entry, peak')
        /\ Gain(trade.side, trade.entry, peak) \in Int
        /\ Gain(trade.side, trade.entry, peak') \in Int /\ risk \in Int /\ risk > 0
    <2>1. trade.entry \in Int
      BY <1>1
    <2>2. risk \in Int /\ risk > 0
      BY <1>1, <2>1 DEF Gain, ValidStop
    <2> HIDE DEF risk
    <2>3. /\ trade.side \in Side /\ peak \in Int /\ peak' \in Int
          /\ Gain(trade.side, peak, peak') >= 0
      BY <1>1, <1>3
    <2> QED BY <2>1, <2>2, <2>3, GainGrows
  <1>7. dist \in Nat
    <2>1. trade.entry \in Int
      BY <1>1
    <2> QED BY <1>1, <2>1, TrailDistanceIsNat
  <1>8. StopFollowsPeak'
    <2>1. CASE trade.atr > 0
      <3>1. stop = StopFor(trade, peak, TrailMultiplier * trade.atr)
        BY <1>1, <2>1 DEF TradeInv, StopFollowsPeak
      <3>2. dist = TrailMultiplier * trade.atr /\ dist \in Int
        BY <1>7, <2>1 DEF TrailDistance
      <3>3. stop' = StopFor(trade, peak', dist)
        BY <1>1, <1>2, <1>3, <3>1, <3>2, TrailFollows
      <3> QED BY <1>1, <2>1, <3>2, <3>3 DEF StopFollowsPeak
    <2>2. CASE trade.atr = 0 /\ Gain(trade.side, trade.entry, peak') < risk
      <3>1. Gain(trade.side, trade.entry, peak) < risk
        BY <1>6, <2>2
      <3>2. stop = trade.first
        BY <1>1, <3>1 DEF TradeInv, StopFollowsPeak, StopFor
      <3>3. risk = Distance(trade.entry, trade.first)
        BY <1>1 DEF Distance, ValidStop, Gain, Side
      <3>4. stop' = stop
        BY <1>2, <1>6, <2>2, <3>3 DEF UpdateTrailingStop
      <3> QED BY <1>1, <2>2, <3>2, <3>4 DEF StopFollowsPeak, StopFor
    <2>3. CASE trade.atr = 0 /\ Gain(trade.side, trade.entry, peak') >= risk
      <3>1. Gain(trade.side, stop, peak') >= 0
        <4>1. CASE Gain(trade.side, trade.entry, peak) < risk
          <5>1. stop = trade.first
            BY <1>1, <4>1 DEF TradeInv, StopFollowsPeak, StopFor
          <5>2. trade.entry \in Int /\ Gain(trade.side, stop, trade.entry) >= 0
            BY <1>1, <1>6, <5>1
          <5>3. Gain(trade.side, trade.entry, peak') >= 0
            BY <1>6, <2>3
          <5> QED BY <1>1, <1>3, <5>2, <5>3, GainAdds
        <4>2. CASE ~(Gain(trade.side, trade.entry, peak) < risk)
          <5>1. Gain(trade.side, stop, peak) >= 0
            BY <1>1, <2>3, <4>2 DEF TradeInv, StopFollowsPeak
          <5> QED BY <1>1, <1>3, <5>1, GainAdds
        <4> QED BY <4>1, <4>2
      <3>2. Gain(trade.side, trade.entry, stop') >= 0 /\ Gain(trade.side, stop', peak') >= 0
        <4> HIDE DEF dist
        <4> QED BY <1>1, <1>2, <1>3, <1>7, <2>3, <3>1, TrailStaysBetween
      <3>3. ~(Gain(trade.side, trade.entry, peak') < risk)
        BY <1>6, <2>3
      <3> QED BY <1>1, <2>3, <3>2, <3>3 DEF StopFollowsPeak
    <2> QED BY <1>1, <1>6, <2>1, <2>2, <2>3
  <1> QED BY <1>4, <1>5, <1>8 DEF TradeInv

\* A trade that is over leaves nothing behind.
LEMMA CloseKeeps ==
    ASSUME TradeTypeOK, Close
    PROVE  TradeInv'
  BY DEF Close, TradeInv, TradeTypeOK, PeakIsBest, StopFollowsPeak

\* The size is the largest number of shares that the account allows.
LEMMA SizeIsMaximum ==
    ASSUME NEW equity \in Equities, NEW entry \in Nat \ {0}, NEW first \in Int, entry # first,
           NEW cash \in Cashes, NEW riskPct \in Int
    PROVE  PositionSize(equity, entry, first, cash, riskPct)
             = Max(Affordable(equity, entry, first, cash, riskPct) \cup {0})
  <1> DEFINE dist == Distance(entry, first)
             pct == Min({riskPct, MaxRiskPct})
             size == PositionSize(equity, entry, first, cash, riskPct)
             affordable == Affordable(equity, entry, first, cash, riskPct)
  <1>1. equity \in Int /\ cash \in Int
    BY TradeAssumption DEF TradeAssumption
  <1>2. MaxRiskPct \in Nat \ {0} /\ MaxPositionPct \in Nat \ {0}
    BY RiskConfigAssumption
  <1>3. pct = Smaller(riskPct, MaxRiskPct) /\ pct \in Int
    <2> DEFINE both == {riskPct, MaxRiskPct}
    <2>1. \A x \in both : x \in Int
      BY <1>2
    <2>2. Smaller(riskPct, MaxRiskPct) \in both /\ \A x \in both : Smaller(riskPct, MaxRiskPct) <= x
      BY <1>2 DEF Smaller
    <2> HIDE DEF both
    <2>3. Min(both) = Smaller(riskPct, MaxRiskPct)
      BY <2>1, <2>2, MinIs
    <2> QED BY <2>1, <2>2, <2>3 DEF both
  <1>4. dist \in Nat \ {0}
    BY DEF Distance
  <1>5. /\ size \in Nat
        /\ size > 0 => /\ entry * size <= cash
                       /\ (100 * entry) * size <= equity * MaxPositionPct
                       /\ (100 * dist) * size <= equity * pct
    <2>1. /\ size \in Nat
          /\ size > 0 => /\ entry * size <= cash
                         /\ (100 * entry) * size <= equity * MaxPositionPct
                         /\ (100 * Distance(entry, first)) * size
                               <= equity * Smaller(riskPct, MaxRiskPct)
      <3>1. entry \in Int /\ size = PositionSize(equity, entry, first, cash, riskPct)
        OBVIOUS
      <3>2. first \in Int /\ equity \in Int /\ cash \in Int /\ riskPct \in Int
        BY <1>1
      <3> HIDE DEF size
      <3> QED BY ONLY <3>1, <3>2, PositionSizeWithinCaps, ZenonT(60)
    <2> HIDE DEF pct, size
    <2> QED BY <1>3, <2>1
  <1>6. ASSUME NEW q \in Nat \ {0}, (100 * dist) * q <= equity * pct,
               (100 * entry) * q <= equity * MaxPositionPct, entry * q <= cash
        PROVE  q <= size
    <2>1. (100 * Distance(entry, first)) * q <= equity * Smaller(riskPct, MaxRiskPct)
      BY <1>3, <1>6
    <2> HIDE DEF pct, dist
    <2> QED BY <1>1, <1>6, <2>1, PositionSizeIsLargest
  <1>7. /\ Max(Equities) \in Int /\ equity <= Max(Equities)
        /\ Max(Cashes) \in Int /\ cash <= Max(Cashes)
    <2>1. /\ \A x \in Equities : x \in Int
          /\ \A x \in Cashes : x \in Int
          /\ IsFiniteSet(Equities) /\ IsFiniteSet(Cashes)
      BY TradeAssumption DEF TradeAssumption
    <2> QED BY <2>1, MaxIsGreatest
  <1>8. affordable = {q \in 1..(Max(Equities) + Max(Cashes)) :
                        /\ 100 * q * dist <= equity * pct
                        /\ 100 * q * entry <= equity * MaxPositionPct
                        /\ q * entry <= cash}
    BY DEF Affordable
  <1> HIDE DEF pct, dist, size, affordable
  <1>9. \A q \in affordable \cup {0} : q \in Int /\ q <= size
    <2> SUFFICES ASSUME NEW q \in affordable
                 PROVE  q \in Int /\ q <= size
      BY <1>5
    <2>1. /\ q \in Nat \ {0} /\ 100 * q * dist <= equity * pct
          /\ 100 * q * entry <= equity * MaxPositionPct
          /\ q * entry <= cash
      BY <1>7, <1>8
    <2>2. /\ (100 * dist) * q = 100 * q * dist /\ (100 * entry) * q = 100 * q * entry
          /\ entry * q = q * entry
      BY <1>4, <2>1
    <2>3. /\ (100 * dist) * q <= equity * pct
          /\ (100 * entry) * q <= equity * MaxPositionPct
          /\ entry * q <= cash
      BY <2>1, <2>2
    <2> QED BY <1>6, <2>1, <2>3
  <1>10. size \in affordable \cup {0}
    <2> SUFFICES ASSUME size > 0
                 PROVE  size \in affordable
      BY <1>5
    <2>1. /\ (100 * dist) * size = 100 * size * dist /\ (100 * entry) * size = 100 * size * entry
          /\ entry * size = size * entry /\ size <= entry * size
          /\ (100 * entry) * size >= 1 /\ (100 * entry) * size \in Int /\ entry * size \in Int
      BY <1>4, <1>5
    <2>2. equity >= 0
      <3>1. equity * MaxPositionPct >= 1
        <4>1. equity * MaxPositionPct \in Int
          BY <1>1, <1>2
        <4> QED BY <1>5, <2>1, <4>1
      <3> QED BY <1>1, <1>2, <3>1
    <2>3. size \in 1..(Max(Equities) + Max(Cashes))
      BY <1>1, <1>5, <1>7, <2>1, <2>2
    <2>4. /\ 100 * size * dist <= equity * pct
          /\ 100 * size * entry <= equity * MaxPositionPct
          /\ size * entry <= cash
      BY <1>5, <2>1
    <2> QED BY <1>8, <2>3, <2>4
  <1>11. size = Max(affordable \cup {0})
    BY <1>9, <1>10, MaxIs
  <1> QED BY <1>11 DEF size, affordable

LEMMA SizeFits ==
    ASSUME TradeTypeOK
    PROVE  SizeIsLargestAffordable
  <1> SUFFICES ASSUME trade # <<>>
               PROVE  SizeIsLargestAffordable
    BY DEF SizeIsLargestAffordable
  <1>1. /\ trade.entry \in Nat \ {0} /\ trade.first \in Int /\ trade.entry # trade.first
        /\ trade.pct \in Int /\ trade.equity \in Equities /\ trade.cash \in Cashes
        /\ qty = PositionSize(trade.equity, trade.entry, trade.first, trade.cash, trade.pct)
    BY DEF TradeTypeOK, ValidStop, Gain
  <1> QED BY <1>1, SizeIsMaximum DEF SizeIsLargestAffordable

\* The stop is the one of the property, which does not iterate.
LEMMA StopFits ==
    ASSUME TradeInv
    PROVE  StopFollowsBestPrice
  <1> SUFFICES ASSUME trade # <<>>
               PROVE  StopFollowsBestPrice
    BY DEF StopFollowsBestPrice
  <1> DEFINE prices == seen \cup {trade.entry}
             dist == TrailMultiplier * trade.atr
             trail == Behind(trade.side, peak, dist)
             levels == {trade.first, trade.entry, trail}
  <1>1. /\ trade.side \in Side /\ trade.entry \in Int /\ trade.first \in Int
        /\ trade.atr \in Nat /\ peak \in Int /\ \A p \in prices : p \in Int
        /\ peak \in prices /\ \A p \in prices : Gain(trade.side, p, peak) >= 0
    BY DEF TradeInv, TradeTypeOK, PeakIsBest
  <1>2. BestPrice = peak
    <2> HIDE DEF prices
    <2>1. CASE trade.side = "BUY"
      <3>1. \A p \in prices : p <= peak
        BY <1>1, <2>1 DEF Gain
      <3>2. Max(prices) = peak
        BY <1>1, <3>1, MaxIs
      <3> QED BY <2>1, <3>2 DEF BestPrice, prices
    <2>2. CASE trade.side = "SELL"
      <3>1. \A p \in prices : peak <= p
        BY <1>1, <2>2 DEF Gain
      <3>2. Min(prices) = peak
        BY <1>1, <3>1, MinIs
      <3> QED BY <2>2, <3>2 DEF BestPrice, prices
    <2> QED BY <1>1, <2>1, <2>2 DEF Side
  <1>3. HasGained <=> ~(Gain(trade.side, trade.entry, peak)
                          < Gain(trade.side, trade.first, trade.entry))
    <2>1. /\ Gain(trade.side, trade.entry, peak) \in Int
          /\ Gain(trade.side, trade.first, trade.entry) \in Int
      BY <1>1 DEF Gain
    <2> QED BY <1>2, <2>1 DEF HasGained
  <1>4. trail \in Int
    <2>1. dist \in Int
      BY <1>1, RiskConfigAssumption
    <2> HIDE DEF dist
    <2> QED BY <1>1, <2>1 DEF Behind
  <1>5. StopBehindBest(dist) = StopFor(trade, peak, dist)
    <2>1. StopBehindBest(dist) = IF ~HasGained THEN trade.first
                                 ELSE IF trade.side = "BUY" THEN Max(levels) ELSE Min(levels)
      BY <1>2 DEF StopBehindBest
    <2>2. StopFor(trade, peak, dist)
            = IF ~HasGained THEN trade.first
              ELSE Tighter(trade.side, Tighter(trade.side, trade.first, trail), trade.entry)
      BY <1>3 DEF StopFor
    <2>3. CASE trade.side = "BUY"
      <3> DEFINE top == Larger(Larger(trade.first, trail), trade.entry)
      <3>1. (\A x \in levels : x \in Int /\ x <= top) /\ top \in levels
        <4> HIDE DEF trail
        <4> QED BY <1>1, <1>4 DEF Larger
      <3> HIDE DEF levels, top
      <3>2. Max(levels) = top
        BY <3>1, MaxIs
      <3> QED BY <2>1, <2>2, <2>3, <3>2 DEF Tighter, top
    <2>4. CASE trade.side = "SELL"
      <3> DEFINE top == Smaller(Smaller(trade.first, trail), trade.entry)
      <3>1. (\A x \in levels : x \in Int /\ top <= x) /\ top \in levels
        <4> HIDE DEF trail
        <4> QED BY <1>1, <1>4 DEF Smaller
      <3> HIDE DEF levels, top
      <3>2. Min(levels) = top
        BY <3>1, MinIs
      <3> QED BY <2>1, <2>2, <2>4, <3>2 DEF Tighter, top
    <2> QED BY <1>1, <2>3, <2>4 DEF Side
  <1> HIDE DEF dist
  <1>6. IF trade.atr > 0 \/ ~HasGained THEN stop = StopFor(trade, peak, dist)
        ELSE Gain(trade.side, trade.entry, stop) >= 0 /\ Gain(trade.side, stop, peak) >= 0
    BY <1>3 DEF TradeInv, StopFollowsPeak, dist
  <1> QED BY <1>2, <1>5, <1>6 DEF StopFollowsBestPrice, dist

\* A trade gets the largest number of shares that the risk budget, the position
\* cap and the cash allow, whatever the account and the percentage, Kelly's
\* included (RiskManager.position_size).
THEOREM SizeIsAlwaysLargest == TradeSpec => []SizeIsLargestAffordable
  <1>1. RiskInit => TradeTypeOK
    BY TradeInit DEF TradeInv
  <1>2. TradeTypeOK /\ [RiskNext]_tradeVars => TradeTypeOK'
    <2> SUFFICES ASSUME TradeTypeOK, [RiskNext]_tradeVars
                 PROVE  TradeTypeOK'
      OBVIOUS
    <2>1. CASE \E price \in Ticks : Tick(price)
      BY <2>1, TickTypes
    <2>2. CASE \E side \in Side, entry \in Entries, hint \in Hints \cup {NoLevel},
                  atr \in Atrs, equity \in Equities, cash \in Cashes, pct \in KellyPcts :
                  Open(side, entry, hint, atr, equity, cash, pct)
      BY <2>2, OpenShape
    <2>3. CASE Close
      BY <2>3, CloseKeeps DEF TradeInv
    <2>4. CASE UNCHANGED tradeVars
      BY <2>4 DEF TradeTypeOK, tradeVars
    <2> QED BY <2>1, <2>2, <2>3, <2>4 DEF RiskNext
  <1> QED BY <1>1, <1>2, SizeFits, PTL DEF TradeSpec

\* However many prices come and in whichever order, the stop of a trade with an ATR
\* is the one that the best of them gives; without an ATR, where the distance follows
\* the moving stop, it is so until the initial risk has been gained, and from then on
\* the stop lies between the entry and the best price (manage_positions and
\* RiskManager.update_trailing_stop).
THEOREM StopAlwaysFollows ==
    ASSUME Trailing
    PROVE  TradeSpec => []StopFollowsBestPrice
  <1>1. TradeInv /\ [RiskNext]_tradeVars => TradeInv'
    <2> SUFFICES ASSUME TradeInv, [RiskNext]_tradeVars
                 PROVE  TradeInv'
      OBVIOUS
    <2>1. CASE \E price \in Ticks : Tick(price)
      BY <2>1, TickKeeps
    <2>2. CASE \E side \in Side, entry \in Entries, hint \in Hints \cup {NoLevel},
                  atr \in Atrs, equity \in Equities, cash \in Cashes, pct \in KellyPcts :
                  Open(side, entry, hint, atr, equity, cash, pct)
      BY <2>2, OpenKeeps
    <2>3. CASE Close
      BY <2>3, CloseKeeps DEF TradeInv
    <2>4. CASE UNCHANGED tradeVars
      BY <2>4 DEF TradeInv, TradeTypeOK, PeakIsBest, StopFollowsPeak, tradeVars
    <2> QED BY <2>1, <2>2, <2>3, <2>4 DEF RiskNext
  <1> QED BY <1>1, TradeInit, StopFits, PTL DEF TradeSpec
=============================================================================
