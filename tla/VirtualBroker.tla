--------------------------- MODULE VirtualBroker ---------------------------
(***************************************************************************)
(* The paper broker of execution/virtual_broker.py: it fills every order   *)
(* at the reference price worsened by the slippage, and keeps nothing but  *)
(* a cash balance.  Positions are the engine's business.  Its realized_pnl *)
(* counter is written and never read, and left out.                        *)
(***************************************************************************)
EXTENDS Integers

CONSTANTS
    SlippagePct,    \* risk.slippage_pct
    Commission      \* risk.commission_per_trade, charged on every fill

ASSUME BrokerConfigAssumption ==
    /\ SlippagePct \in Nat
    /\ Commission \in Nat

\* Buys pay up, sells receive less; fill prices are whole ticks here.
ApplySlippage(ref, side) ==
    IF side = "BUY"
    THEN (ref * (100 + SlippagePct)) \div 100
    ELSE (ref * (100 - SlippagePct)) \div 100

\* What holding qty at a price adds to the books: shorts are owed.
Signed(side, qty, price) == IF side = "BUY" THEN qty * price ELSE -(qty * price)

\* The balance after a fill.
FillMarket(cash, side, qty, fill) == cash - Signed(side, qty, fill) - Commission
=============================================================================
