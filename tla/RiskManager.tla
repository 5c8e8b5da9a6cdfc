---------------------------- MODULE RiskManager ----------------------------
(***************************************************************************)
(* The pure risk rules of execution/risk_manager.py: where a stop goes,    *)
(* how it trails, how many shares a trade gets and when the account is in  *)
(* breach of its drawdown limit.                                           *)
(*                                                                         *)
(* Prices, cash and equity are integers (ticks), percentages are whole     *)
(* numbers.  A product with a percentage is compared before the division,  *)
(* so every comparison is the exact one of the code.                       *)
(*                                                                         *)
(* Operators named Fault... are seeded faults: each is a plausible slip in *)
(* the operator it precedes, used to see that a property notices it.       *)
(***************************************************************************)
EXTENDS Integers

CONSTANTS
    NoLevel,            \* Python's None for a stop, a target or a price
    AtrMultiplier,      \* risk.stop_loss.atr_multiplier
    Trailing,           \* risk.take_profit.method = "trailing"
    TrailMultiplier,    \* risk.take_profit.trailing_atr_multiplier
    RewardRisk,         \* risk.take_profit.risk_reward_ratio
    MaxRiskPct,         \* risk.max_risk_per_trade_pct
    MaxPositionPct,     \* risk.max_position_size_pct
    MaxDrawdownPct,     \* risk.max_daily_drawdown_pct
    MaxOpenPositions    \* risk.max_open_positions

\* The ranges the settings model validates (config/settings.py, RiskConfig).
ASSUME RiskConfigAssumption ==
    /\ NoLevel \notin Int
    /\ Trailing \in BOOLEAN
    /\ AtrMultiplier \in Nat \ {0}
    /\ TrailMultiplier \in Nat \ {0}
    /\ RewardRisk \in Nat \ {0}
    /\ MaxRiskPct \in 1..100
    /\ MaxPositionPct \in 1..100
    /\ MaxDrawdownPct \in 1..100
    /\ MaxOpenPositions \in Nat \ {0}

Side == {"BUY", "SELL"}

Opposite(side) == IF side = "BUY" THEN "SELL" ELSE "BUY"

Larger(a, b) == IF a >= b THEN a ELSE b
Smaller(a, b) == IF a <= b THEN a ELSE b

FaultSignedDistance(a, b) == a - b      \* the abs() forgotten
Distance(a, b) == IF a >= b THEN a - b ELSE b - a

-----------------------------------------------------------------------------
(***************************************************************************)
(* Both sides of the market share one vocabulary: Gain is how far price    *)
(* `to' is ahead of price `from' for a holder of that side, Behind steps   *)
(* back from a price against the holder.                                   *)
(***************************************************************************)
Gain(side, from, to) == IF side = "BUY" THEN to - from ELSE from - to

Behind(side, price, dist) ==
    IF side = "BUY" THEN price - dist ELSE price + dist

\* The level of two that protects more of the holder's money.
Tighter(side, a, b) == IF side = "BUY" THEN Larger(a, b) ELSE Smaller(a, b)

-----------------------------------------------------------------------------
(* Stops and targets.                                                      *)

ValidStop(side, entry, stop) == Gain(side, stop, entry) > 0

\* A valid hint of the strategy wins.  Otherwise the ATR stop: no caller
\* passes support or resistance levels, so the structural method has none
\* to choose from and falls through to it as well.
ResolveStop(side, entry, atr, hint) ==
    IF hint # NoLevel /\ ValidStop(side, entry, hint)
    THEN hint
    ELSE Behind(side, entry, AtrMultiplier * atr)

TakeProfit(side, entry, stop) ==
    Behind(side, entry, -(RewardRisk * Distance(entry, stop)))

\* The distance a trailing stop keeps from the best price.  Without an ATR the
\* engine derives one from the distance of the stop, which is AtrMultiplier of
\* them: of the stop as it is now, not as it was at the entry.
TrailDistance(atr, entry, stop) ==
    IF atr > 0 THEN TrailMultiplier * atr
    ELSE (TrailMultiplier * Distance(entry, stop)) \div AtrMultiplier

\* The stop follows the price wherever it goes.
FaultNoRatchet(side, stop, peak, dist, entry, initialRisk) ==
    IF Trailing THEN Behind(side, peak, dist) ELSE stop

\* The trail starts once the trade is one initial risk ahead; it then locks
\* in the entry price and follows the peak at distance `dist'.  A position
\* whose initial risk is unknown trails from the start.
UpdateTrailingStop(side, stop, peak, dist, entry, initialRisk) ==
    LET trail == Tighter(side, stop, Behind(side, peak, dist))
    IN  IF ~Trailing THEN stop
        ELSE IF initialRisk <= 0 THEN trail
        ELSE IF Gain(side, entry, peak) < initialRisk THEN stop
        ELSE Tighter(side, trail, entry)

-----------------------------------------------------------------------------
(* Sizing and account guards.                                              *)

\* Shares bought by the tightest of the three caps: risk budget, position
\* size and cash.  riskPct is the fixed percentage or Kelly's.
PositionSize(equity, entry, stop, cash, riskPct) ==
    LET pct       == Smaller(Larger(riskPct, 0), MaxRiskPct)
        byRisk    == (equity * pct) \div (100 * Distance(entry, stop))
        byNotional == (equity * MaxPositionPct) \div (100 * entry)
        byCash    == cash \div entry
    IN  IF entry = stop \/ entry <= 0 THEN 0
        ELSE Larger(0, Smaller(byRisk, Smaller(byNotional, byCash)))

IsDrawdownBreached(reference, current) ==
    /\ reference > 0
    /\ (reference - current) * 100 >= MaxDrawdownPct * reference

CanOpenNew(count) == count < MaxOpenPositions
=============================================================================
