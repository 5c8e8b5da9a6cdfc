------------------------------ MODULE Signals ------------------------------
(***************************************************************************)
(* How a chart becomes signals: one symbol's session, its five-minute bars *)
(* arriving one after the other, and strategy/router.py evaluating what    *)
(* has arrived: the regime gate, the three strategies and the meta filter. *)
(*                                                                         *)
(* The same strategies see two kinds of chart.  The backtest (feed =       *)
(* "replay") evaluates completed bars and cuts the daily frame off before  *)
(* today (backtest/engine.py).  The service (feed = "live") asks its       *)
(* provider for all bars up to now (data/data_engine.py): the bar of the   *)
(* last minutes is still forming and may be evaluated in each of its       *)
(* shapes, and the last row of the daily frame is today's, which           *)
(* research/screener.py and the pivots of data_engine.py rely on.          *)
(*                                                                         *)
(* A bar carries its prices and the indicators of its row: ATR, VWAP, the  *)
(* trend EMA and `edge', by how much the fast EMA is above the slow one.   *)
(* Prices are in units in which midpoints and multiples of an ATR are      *)
(* whole.  Confidence and the texts of a signal are left out.              *)
(*                                                                         *)
(* Operators named Fault... are seeded faults.                             *)
(***************************************************************************)
EXTENDS RiskManager, Sequences, FiniteSets, FiniteSetsExt

CONSTANTS
    None,               \* no daily frame, and no regime
    Setups,             \* the configurations that are explored
    Priors,             \* yesterday's daily rows, or None
    FirstBar,           \* the first bar of the session
    OpenPrice,          \* the session's opening price
    Bars,               \* the bars that may follow
    MaxBars,            \* bound on the session's length
    MaxForms,           \* bound on how often a bar goes on forming
    PastVolumes,        \* volumes of earlier sessions, at most ten of them
    EveEdge,            \* the edge of yesterday's last bar
    Enabled,            \* the strategies that are switched on
    Allowed,            \* regime_filter.allowed, by strategy
    OpeningBars,        \* opening_range_minutes, in bars
    RetestMaxBars, TouchPct, MaxGapNorm, MaxEntryBars,
    MinBreakoutPct,     \* min_breakout_rvol, in percent
    VolumeConfirmation, MinWidthPct, MaxWidthAtr,
    MaxVwapPct,         \* max_distance_from_vwap_atr, in percent
    MinMomentumPct      \* min_relative_volume, in percent

ORB  == "opening_range_breakout"
VWAP == "vwap_pullback"
MOM  == "momentum_scalp"

ASSUME SignalsAssumption ==
    /\ OpeningBars \in Nat \ {0} /\ MaxBars \in Nat /\ MaxForms \in Nat
    /\ TouchPct \in Nat
    /\ \A s \in Setups : s.feed \in {"replay", "live"} /\ s.entry \in {"breakout", "retest"}
    /\ \A b \in Bars \cup {FirstBar} :
          /\ {b.low, b.high, b.vwap, b.trend, b.edge} \subseteq Int
          /\ {b.atr, b.volume} \subseteq Nat
          /\ b.close \in b.low..b.high
          /\ b.low % 2 = 0 /\ b.high % 2 = 0      \* midpoints are whole
    /\ Len(PastVolumes) \in 1..10
    /\ Enabled \subseteq {ORB, VWAP, MOM}
    /\ \A p \in Priors \ {None} : p \in [close : Nat \ {0}, atr : Nat, quiet : BOOLEAN]
    /\ OpenPrice \in FirstBar.low..FirstBar.high

VARIABLES
    setup,      \* the configuration: feed, entry mode, gap match, gates
    prior,      \* yesterday's daily row
    bars,       \* the session so far
    forms,      \* how often a bar went on forming
    recorded,   \* the signals table: every actionable signal
    survivors   \* what the last evaluation handed to the engine

chartVars == <<setup, prior, bars, forms, recorded, survivors>>

Now == bars[Len(bars)]

SignalsInit ==
    /\ setup \in Setups
    /\ prior \in Priors
    /\ bars = <<FirstBar>>
    /\ forms = 0
    /\ recorded = {} /\ survivors = {}

-----------------------------------------------------------------------------
(* Helpers of strategy/util.py and strategy/gap_features.py.               *)

\* The volumes the last one is compared with: those of the bar at the same
\* place of earlier sessions or, when none of them was that long, the last
\* twenty of the frame.
Comparable ==
    LET past == {i \in DOMAIN PastVolumes : Len(PastVolumes[i]) >= Len(bars)}
        row[i \in 0..Len(PastVolumes)] ==
            IF i = 0 THEN <<>> ELSE row[i - 1] \o PastVolumes[i]
        frame == row[Len(PastVolumes)]
                   \o [i \in 1..(Len(bars) - 1) |-> bars[i].volume]
    IN  IF past # {} THEN [i \in past |-> PastVolumes[i][Len(bars)]]
        ELSE [i \in Larger(1, Len(frame) - 19)..Len(frame) |-> frame[i]]

\* The relative volume is at least pct percent; without anything to compare
\* with it is zero.
RvolAtLeast(pct) ==
    LET total == MapThenSumSet(LAMBDA i : Comparable[i], DOMAIN Comparable)
    IN  IF total = 0 THEN pct <= 0
        ELSE 100 * Now.volume * Cardinality(DOMAIN Comparable) >= pct * total

OpeningRange == {bars[i] : i \in 1..Smaller(OpeningBars, Len(bars))}
RangeHigh == Max({b.high : b \in OpeningRange})
RangeLow  == Min({b.low : b \in OpeningRange})
RangeSize == RangeHigh - RangeLow
RangeMid  == (RangeHigh + RangeLow) \div 2

\* The edge of the range through which a side breaks out.
Level(side) == IF side = "BUY" THEN RangeHigh ELSE RangeLow

\* The gap that compute_gap_features sees: from the last row of the daily
\* frame it is given to the session's open.  Without one, or without a gap,
\* either side matches.
FaultMatch(daily, side) ==      \* the sides swapped
    daily = None \/ Gain(side, daily.close, OpenPrice) <= 0

DirectionMatches(daily, side) ==
    daily = None \/ Gain(side, daily.close, OpenPrice) >= 0

GapTooWide(daily) ==
    /\ MaxGapNorm > 0 /\ daily # None
    /\ daily.atr > 0
    /\ Distance(OpenPrice, daily.close) > MaxGapNorm * daily.atr

-----------------------------------------------------------------------------
(* Strategies: the signals each finds on the current bar, at most one.     *)

Found(strategy, side, stop, target) ==
    [strategy |-> strategy, side |-> side, bar |-> Len(bars),
     price |-> Now.close, atr |-> Now.atr, stop |-> stop, target |-> target]

VolumeOk ==
    IF MinBreakoutPct > 0 THEN RvolAtLeast(MinBreakoutPct)
    ELSE VolumeConfirmation => RvolAtLeast(100)

WidthOk(daily) ==
    LET dayAtr == IF daily # None THEN daily.atr ELSE Now.atr
    IN  /\ MinWidthPct > 0 => 100 * RangeSize >= MinWidthPct * OpenPrice
        /\ MaxWidthAtr > 0 /\ dayAtr > 0 => RangeSize <= MaxWidthAtr * dayAtr

\* What holds for an entry on either side and in either mode.
OrbTrades(daily) ==
    /\ Len(bars) > OpeningBars
    /\ MaxEntryBars > 0 => Len(bars) - 1 <= MaxEntryBars
    /\ ~GapTooWide(daily)
    /\ WidthOk(daily)

Confirmed(daily, side) ==
    /\ VolumeOk
    /\ setup.matchGap => DirectionMatches(daily, side)

Beyond(side, bar) == Gain(side, Level(side), bar.close) > 0

FaultTargetFromLevel(side) ==   \* the target measured from the level
    Found(ORB, side, Level(Opposite(side)), Behind(side, Level(side), -RangeSize))

BreakoutSignal(side) ==
    Found(ORB, side, Level(Opposite(side)), Behind(side, Now.close, -RangeSize))

RetestSignal(side) ==
    Found(ORB, side, RangeMid, Behind(side, Level(side), -RangeSize))

\* How far back a bar goes.
Reach(side, bar) == IF side = "BUY" THEN bar.low ELSE bar.high

\* A bar that reaches back to the level, within the tolerance that the ATR
\* of the current bar gives, and closes no further than that behind it.
Retests(side, bar) ==
    /\ 100 * Gain(side, Level(side), Reach(side, bar)) <= TouchPct * Now.atr
    /\ 100 * Gain(side, bar.close, Level(side)) <= TouchPct * Now.atr

\* The completed bars that closed beyond the level.
Breaks(side) ==
    {i \in (OpeningBars + 1)..(Len(bars) - 1) : Beyond(side, bars[i])}

FaultBetween(side) == {}        \* earlier retests and failures not looked at

\* The bars between the first of those and the current one.
Between(side) == (Min(Breaks(side)) + 1)..(Len(bars) - 1)

RetestNow(side) ==
    /\ Breaks(side) # {}
    /\ Len(bars) - Min(Breaks(side)) <= RetestMaxBars
    /\ \A i \in Between(side) :
          /\ Gain(side, RangeMid, bars[i].close) >= 0
          /\ ~Retests(side, bars[i])
    /\ Retests(side, Now)

OrbSides(daily) ==
    {s \in Side : /\ IF setup.entry = "breakout" THEN Beyond(s, Now) ELSE RetestNow(s)
                  /\ OrbTrades(daily)
                  /\ Confirmed(daily, s)}

\* A retest on both sides is signalled on the long one.
OpeningRangeBreakout(daily) ==
    IF setup.entry = "breakout"
    THEN {BreakoutSignal(s) : s \in OrbSides(daily)}
    ELSE {RetestSignal(s) : s \in {t \in OrbSides(daily) :
                                     t = "SELL" => "BUY" \notin OrbSides(daily)}}

\* A pullback to within a distance of the VWAP that holds it, in the
\* direction of the trend.
VwapPullback ==
    {Found(VWAP, s, Behind(s, Now.vwap, Now.atr), Behind(s, Now.close, -2 * Now.atr))
        : s \in {t \in Side :
                   /\ Now.atr > 0
                   /\ Gain(t, Now.trend, Now.close) > 0
                   /\ 100 * Distance(Now.close, Now.vwap) <= MaxVwapPct * Now.atr
                   /\ Gain(t, Now.vwap, Now.close) >= 0}}

\* A cross of the EMAs on this very bar with the volume to confirm it.
MomentumScalp ==
    LET before == IF Len(bars) = 1 THEN EveEdge ELSE bars[Len(bars) - 1].edge
    IN  {Found(MOM, s, Behind(s, Now.close, (3 * Now.atr) \div 2),
               Behind(s, Now.close, -2 * Now.atr))
            : s \in {t \in Side : /\ Gain(t, 0, before) <= 0
                                  /\ Gain(t, 0, Now.edge) > 0
                                  /\ RvolAtLeast(MinMomentumPct)}}

Emitted(strategy, daily) ==
    CASE strategy = ORB  -> OpeningRangeBreakout(daily)
      [] strategy = VWAP -> VwapPullback
      [] strategy = MOM  -> MomentumScalp

-----------------------------------------------------------------------------
(* The regime of the session (strategy/regime.py) and the router.          *)

\* The share of closes above the VWAP, or below it, reaches seven tenths.
OneSided ==
    LET above == Cardinality({i \in DOMAIN bars : bars[i].close > bars[i].vwap})
    IN  10 * Larger(above, Len(bars) - above) >= 7 * Len(bars)

\* The session's range reaches so many tenths of the daily ATR.
Extended(daily, tenths) ==
    /\ Len(bars) >= 3 /\ daily # None
    /\ daily.atr > 0
    /\ LET highs == {bars[i].high : i \in DOMAIN bars}
           lows  == {bars[i].low : i \in DOMAIN bars}
       IN  10 * (Max(highs) - Min(lows)) >= tenths * daily.atr

Classify(daily) ==
    IF daily # None /\ daily.quiet /\ ~Extended(daily, 5) THEN "quiet"
    ELSE IF Extended(daily, 8) /\ OneSided THEN "trend"
    ELSE "balanced"

FaultAllows(regime, strategy) == TRUE       \* the allowed list not consulted

RegimeAllows(regime, strategy) ==
    regime = None \/ strategy \notin DOMAIN Allowed \/ regime \in Allowed[strategy]

\* What get_bars gives for the daily frame; a failed request gives nothing.
DailyFrames ==
    IF prior = None THEN {None}
    ELSE IF setup.feed = "replay" THEN {prior}
    ELSE {None, [prior EXCEPT !.close = Now.close]}

\* StrategyRouter.evaluate_snapshot: the classifier may raise, which leaves
\* the regime unknown and every strategy allowed.
Regimes(daily) ==
    IF setup.regime = "off" THEN {None} ELSE {None, Classify(daily)}

Running(regime) ==
    {s \in Enabled : setup.regime = "enforce" => RegimeAllows(regime, s)}

\* The strategies whose signals the meta filter blocks: any, when it is
\* enforced, the scores being the model's.
Blocked == IF setup.meta = "enforce" THEN SUBSET Enabled ELSE {{}}

\* StrategyRouter.evaluate for the symbol: every signal is recorded, those
\* that pass the filter go on to the engine.
Evaluate ==
    \E daily \in DailyFrames : \E regime \in Regimes(daily) :
        LET found == UNION {Emitted(s, daily) : s \in Running(regime)}
        IN  /\ recorded' = recorded \cup found
            /\ \E blocked \in Blocked :
                  survivors' = {[sig |-> r, daily |-> daily, regime |-> regime] :
                                  r \in {f \in found : f.strategy \notin blocked}}
            /\ UNCHANGED <<setup, prior, bars, forms>>

\* A new bar begins (live) or is complete (replay).
NextBar ==
    /\ Len(bars) < MaxBars
    /\ \E b \in Bars : bars' = Append(bars, b)
    /\ survivors' = {}
    /\ UNCHANGED <<setup, prior, recorded, forms>>

\* Live, the bar that is forming goes on: its range and its volume only
\* grow, its close and its indicators move.
Forming ==
    /\ setup.feed = "live" /\ Len(bars) > 1 /\ forms < MaxForms
    /\ forms' = forms + 1
    /\ \E b \in Bars :
          /\ b.high >= Now.high /\ b.low <= Now.low /\ b.volume >= Now.volume
          /\ bars' = [bars EXCEPT ![Len(bars)] = b]
    /\ survivors' = {}
    /\ UNCHANGED <<setup, prior, recorded>>

SignalsNext == NextBar \/ Forming \/ Evaluate

SignalsSpec == SignalsInit /\ [][SignalsNext]_chartVars
-----------------------------------------------------------------------------
(* Properties.                                                             *)

\* A broken level is entered on its first retest and not again: two retest
\* signals of one side in one session need an ATR that has fallen since the
\* first, so that the bar of the first no longer counts as one, or a bar
\* that went on to close elsewhere after it was signalled
\* (OpeningRangeBreakoutStrategy._evaluate_retest, which remembers nothing).
RetestTwiceForCause ==
    setup.entry = "retest" =>
        \A r, s \in {q \in recorded : q.strategy = ORB} :
            r.side = s.side /\ r.bar < s.bar
              => s.atr < r.atr \/ bars[r.bar].close # r.price

Protects(r) ==
    LET retest == r.strategy = ORB /\ setup.entry = "retest"
        flat   == r.strategy = MOM /\ r.atr = 0
    IN  /\ \/ ValidStop(r.side, r.price, r.stop)
           \/ flat
           \/ retest /\ 2 * TouchPct * r.atr >= 100 * RangeSize
        /\ \/ Gain(r.side, r.price, r.target) > 0
           \/ flat
           \/ retest /\ Gain(r.side, Level(r.side), r.price) >= RangeSize

\* The stop that comes with a signal is on the losing side of its price and
\* the target on the winning side.  Exceptions: a momentum signal without an
\* ATR; the stop of a retest whose tolerance reaches the midpoint; the
\* target of a retest that closes a whole range beyond the level, which a
\* fixed take-profit would exit at once (stop_hint and target_hint of the
\* strategies).
LevelsProtectForCause == \A r \in recorded : Protects(r)

\* An entry that has to match the gap matches the overnight one, as long as
\* the daily frame ends yesterday.  With today's row at its end the gap is
\* taken from the running price: what matches is then an entry whose price
\* is on the wrong side of the open, and that is never a breakout
\* (require_gap_direction_match with the two feeds of the daily frame).
GapMatchForCause ==
    \A f \in survivors :
        LET r == f.sig IN
        r.strategy = ORB /\ setup.matchGap /\ f.daily # None =>
            IF setup.feed = "replay"
            THEN Gain(r.side, prior.close, OpenPrice) >= 0
            ELSE Gain(r.side, OpenPrice, r.price) <= 0 /\ setup.entry # "breakout"

\* Breakouts and mean reversion are opposite bets: with the regime enforced
\* the engine is never handed both in one evaluation, unless the classifier
\* failed (StrategyRouter.evaluate_snapshot, the default `allowed' lists).
NeverBothBets ==
    setup.regime = "enforce" =>
        \A f, g \in survivors :
            f.regime # None => ~(f.sig.strategy = VWAP /\ g.sig.strategy # VWAP)

\* A breakout in the direction of the overnight gap, with its volume and in
\* its window, is signalled, whichever feed the daily frame comes from.
AlignedBreakoutsSignal ==
    setup.entry = "breakout" /\ prior # None =>
        \A side \in Side, daily \in DailyFrames \ {None} :
            /\ OrbTrades(prior)
            /\ Confirmed(prior, side)
            /\ Beyond(side, Now)
            => OpeningRangeBreakout(daily) # {}

-----------------------------------------------------------------------------
(* What the proofs of these rest on.                                       *)

ChartTypeOK ==
    /\ setup \in Setups
    /\ prior \in Priors
    /\ bars \in Seq(Bars \cup {FirstBar})
    /\ Len(bars) > 0 /\ bars[1] = FirstBar
    /\ forms \in Nat
    /\ \A r \in recorded :
          /\ r.strategy \in Enabled /\ r.side \in Side
          /\ r.bar \in 1..Len(bars)
          /\ {r.price, r.stop, r.target} \subseteq Int /\ r.atr \in Nat

\* Who signals on the opening range has seen all of it.
RangeIsComplete ==
    \A r \in recorded : r.strategy = ORB => r.bar > OpeningBars

\* The bar of a retest signal touched the level when it was signalled, after a
\* bar that had closed beyond it.
RetestsHappened ==
    setup.entry = "retest" =>
        \A r \in recorded : r.strategy = ORB =>
            /\ \E i \in (OpeningBars + 1)..(r.bar - 1) : Beyond(r.side, bars[i])
            /\ 100 * Gain(r.side, Level(r.side), Reach(r.side, bars[r.bar])) <= TouchPct * r.atr
            /\ 100 * Gain(r.side, r.price, Level(r.side)) <= TouchPct * r.atr
=============================================================================
