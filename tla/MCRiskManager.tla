--------------------------- MODULE MCRiskManager ---------------------------
(***************************************************************************)
(* One trade at a time under the risk rules: it is sized and given a stop  *)
(* when it opens, then prices tick and the stop trails until one hits it,  *)
(* the way ExecutionEngine._open_from_signal and manage_positions call the *)
(* rules.  The rules are compared with definitions that do not iterate.    *)
(***************************************************************************)
EXTENDS RiskManager, FiniteSetsExt

CONSTANTS Entries, Hints, Atrs, Equities, Cashes, KellyPcts, Ticks

\* Whole numbers: prices to enter at are positive, accounts may be under water.
ASSUME TradeAssumption ==
    /\ Entries \subseteq Nat \ {0} /\ Atrs \subseteq Nat
    /\ Hints \cup Ticks \cup Equities \cup Cashes \cup KellyPcts \subseteq Int
    /\ IsFiniteSet(Equities) /\ IsFiniteSet(Cashes)

VARIABLES
    trade,  \* the inputs of the trade, or the empty tuple before it opens
    qty,    \* shares
    stop,   \* the current stop
    peak,   \* the best price the trade has seen
    seen,   \* the prices it has seen
    held    \* whether the position is still open

tradeVars == <<trade, qty, stop, peak, seen, held>>

RiskInit ==
    /\ trade = <<>>
    /\ qty = 0 /\ stop = 0 /\ peak = 0
    /\ seen = {}
    /\ held = FALSE

Open(side, entry, hint, atr, equity, cash, pct) ==
    LET first == ResolveStop(side, entry, atr, hint)
    IN  /\ trade = <<>>
        /\ ValidStop(side, entry, first)
        /\ trade' = [side |-> side, entry |-> entry, first |-> first,
                     atr |-> atr, equity |-> equity, cash |-> cash, pct |-> pct]
        /\ qty' = PositionSize(equity, entry, first, cash, pct)
        /\ stop' = first
        /\ peak' = entry
        /\ held' = TRUE
        /\ UNCHANGED seen

\* The price that hits the stop is the last one; it moves the stop first.
Tick(price) ==
    /\ held
    /\ peak' = Tighter(trade.side, peak, price)
    /\ stop' = UpdateTrailingStop(trade.side, stop, peak',
                   TrailDistance(trade.atr, trade.entry, stop),
                   trade.entry, Distance(trade.entry, trade.first))
    /\ seen' = seen \cup {price}
    /\ held' = (Gain(trade.side, stop', price) > 0)
    /\ UNCHANGED <<trade, qty>>

\* The position leaves the book; another trade may follow.
Close ==
    /\ trade # <<>> /\ ~held
    /\ trade' = <<>>
    /\ qty' = 0 /\ stop' = 0 /\ peak' = 0
    /\ seen' = {}
    /\ UNCHANGED held

RiskNext ==
    \/ \E side \in Side, entry \in Entries, hint \in Hints \cup {NoLevel},
          atr \in Atrs, equity \in Equities, cash \in Cashes, pct \in KellyPcts :
          Open(side, entry, hint, atr, equity, cash, pct)
    \/ \E price \in Ticks : Tick(price)
    \/ Close

TradeSpec == RiskInit /\ [][RiskNext]_tradeVars

\* Accounts and percentages of both signs: an account can be under water,
\* and Kelly's percentage is not positive when the edge is not.
SomeEquities  == {-5, 30, 100}
SomeCashes    == {-3, 9, 47, 120}
SomeKellyPcts == {-1, 0, 5, 50}

-----------------------------------------------------------------------------
\* The numbers of shares that the account allows.
Affordable(equity, entry, first, cash, pct) ==
    {q \in 1..(Max(Equities) + Max(Cashes)) :
       /\ 100 * q * Distance(entry, first) <= equity * Min({pct, MaxRiskPct})
       /\ 100 * q * entry <= equity * MaxPositionPct
       /\ q * entry <= cash}

\* The size is the largest number of shares whose loss at the stop stays in
\* the risk budget, whose notional stays under the position cap and which
\* the cash can pay; none when the risk percentage or the account is not
\* positive (RiskManager.position_size).
SizeIsLargestAffordable ==
    trade # <<>> =>
        qty = Max(Affordable(trade.equity, trade.entry, trade.first, trade.cash, trade.pct)
                    \cup {0})

\* The best price, and the stop that it gives by itself: the first stop until one
\* initial risk has been gained, from then on the tightest of the first stop, the
\* entry and the trail at that distance behind it.
BestPrice ==
    LET prices == seen \cup {trade.entry}
    IN  IF trade.side = "BUY" THEN Max(prices) ELSE Min(prices)

HasGained ==
    Gain(trade.side, trade.entry, BestPrice) >= Gain(trade.side, trade.first, trade.entry)

StopBehindBest(dist) ==
    LET levels == {trade.first, trade.entry, Behind(trade.side, BestPrice, dist)}
    IN  IF ~HasGained THEN trade.first
        ELSE IF trade.side = "BUY" THEN Max(levels) ELSE Min(levels)

\* With an ATR, and without one until the initial risk has been gained, the stop is
\* a function of the best price, however the prices arrived.  Without one it then
\* depends on their order, since the distance is taken from the moving stop; it
\* still protects the entry and is never ahead of the best price
\* (RiskManager.update_trailing_stop, iterated by manage_positions).
StopFollowsBestPrice ==
    trade # <<>> =>
        IF trade.atr > 0 \/ ~HasGained
        THEN stop = StopBehindBest(TrailMultiplier * trade.atr)
        ELSE /\ Gain(trade.side, trade.entry, stop) >= 0
             /\ Gain(trade.side, stop, BestPrice) >= 0
=============================================================================
