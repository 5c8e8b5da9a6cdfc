------------------------------- MODULE PfGate -------------------------------
(***************************************************************************)
(* The rolling profit-factor gate of strategy/pf_gate.py: no new entries   *)
(* after a bad run of closed trades.  Profits are integers, the factor is  *)
(* compared in percent before the division.                                *)
(***************************************************************************)
EXTENDS Integers, Sequences, Functions

CONSTANTS
    PfMode,         \* pf_gate.mode
    PfLookback,     \* pf_gate.lookback_trades
    PfMinTrades,    \* pf_gate.min_trades
    PfMinPct        \* pf_gate.min_pf, in percent

ASSUME PfConfigAssumption ==
    /\ PfMode \in {"off", "shadow", "enforce"}
    /\ PfLookback \in Nat \ {0}
    /\ PfMinTrades \in Nat \ {0}
    /\ PfMinPct \in Nat

Wins(pnls) == SumFunction(Restrict(pnls, {i \in DOMAIN pnls : pnls[i] > 0}))
Losses(pnls) == -SumFunction(Restrict(pnls, {i \in DOMAIN pnls : pnls[i] <= 0}))

\* wins / losses < min_pf; without losses the factor is infinite, or 1 if
\* there are no wins either.
ProfitFactorBelow(pnls) ==
    IF Losses(pnls) = 0 THEN Wins(pnls) = 0 /\ 100 < PfMinPct
    ELSE Wins(pnls) * 100 < PfMinPct * Losses(pnls)

Recent(pnls) ==
    SubSeq(pnls, IF Len(pnls) > PfLookback THEN Len(pnls) - PfLookback + 1 ELSE 1, Len(pnls))

\* In shadow mode the gate only reports.
PfBlocked(pnls) ==
    /\ PfMode = "enforce"
    /\ Len(Recent(pnls)) >= PfMinTrades
    /\ ProfitFactorBelow(Recent(pnls))
=============================================================================
