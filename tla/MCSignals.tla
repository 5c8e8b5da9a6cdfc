----------------------------- MODULE MCSignals -----------------------------
(***************************************************************************)
(* Charts and trades small enough to enumerate: a run looks either at a    *)
(* chart (Signals) or at one trade under the risk rules (MCRiskManager).   *)
(***************************************************************************)
EXTENDS Signals, MCRiskManager

ChartBar(low, high, close, atr, vwap, trend, edge, volume) ==
    [low |-> low, high |-> high, close |-> close, atr |-> atr, vwap |-> vwap,
     trend |-> trend, edge |-> edge, volume |-> volume]

\* The opening range is 100 to 120.
TheFirstBar == ChartBar(100, 120, 114, 8, 110, 108, 0, 9)

\* Above the range: a break, a retest that holds, one that only counts with
\* a wide tolerance, a dip back into the range and one under the midpoint, a
\* jump by more than the range; below it: a break and a retest.  An ATR of 8
\* gives a tolerance of 2, one of 48 a tolerance beyond the midpoint.
TheBars ==
    { ChartBar(112, 128, 126, 8, 118, 116, 2, 9),
      ChartBar(118, 130, 124, 8, 122, 116, 3, 9),
      ChartBar(126, 134, 132, 48, 122, 116, -1, 6),
      ChartBar(104, 132, 112, 8, 118, 116, 3, 9),
      ChartBar(104, 132, 108, 48, 112, 110, -2, 9),
      ChartBar(120, 150, 144, 8, 124, 116, 4, 9),
      ChartBar(84, 104, 92, 8, 96, 100, -3, 9),
      ChartBar(90, 100, 96, 0, 98, 100, 1, 9) }

DailyRow(close, atr, quiet) == [close |-> close, atr |-> atr, quiet |-> quiet]

GapUp         == DailyRow(98, 30, FALSE)
GapDownQuiet  == DailyRow(130, 60, TRUE)
ThePriors     == {GapUp, GapDownQuiet}

\* No live daily frame shows yesterday's close, so that one row will do for
\* each entry mode: for breakouts the one with which the gap that is seen may
\* come out too wide.
TheLivePrior == IF setup.entry = "breakout" THEN GapUp ELSE GapDownQuiet

TheOpenPrice == 110

ThePast == << <<5, 5>>, <<5, 5, 5>> >>

Configured(feed, entry, match, regime, meta) ==
    [feed |-> feed, entry |-> entry, matchGap |-> match, regime |-> regime,
     meta |-> meta]

TheSetups ==
    { Configured("replay", "breakout", TRUE, "enforce", "enforce"),
      Configured("live", "breakout", TRUE, "enforce", "shadow"),
      Configured("live", "retest", FALSE, "off", "off"),
      Configured("live", "retest", TRUE, "shadow", "off") }

TheEnabled == {ORB, VWAP, MOM}

TheAllowed ==
    [s \in TheEnabled |-> IF s = VWAP THEN {"balanced"} ELSE {"trend"}]

VARIABLE focus      \* whether the run looks at a chart or at a trade

RulesInit ==
    /\ SignalsInit /\ RiskInit
    /\ \/ /\ focus = "chart"
          /\ setup.feed = "live" => prior = TheLivePrior
       \/ /\ focus = "trade"
          /\ setup = CHOOSE s \in Setups : TRUE
          /\ prior = CHOOSE p \in Priors : TRUE

ReadChart == focus = "chart" /\ SignalsNext /\ UNCHANGED <<tradeVars, focus>>
HoldTrade == focus = "trade" /\ RiskNext /\ UNCHANGED <<chartVars, focus>>

RulesNext == ReadChart \/ HoldTrade

RulesSpec == RulesInit /\ [][RulesNext]_<<chartVars, tradeVars, focus>>
=============================================================================
