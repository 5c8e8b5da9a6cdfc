------------------------- MODULE MCExecutionEngine -------------------------
(* Instances of the execution engine small enough to enumerate.            *)
EXTENDS ExecutionEngine

CONSTANTS A, B, C

Request(s, side, price, atr, stop, target, score) ==
    [symbol |-> s, side |-> side, price |-> price, atr |-> atr,
     stopHint |-> stop, targetHint |-> target, score |-> score]

\* Longs and shorts on a hinted stop and on an ATR stop, two of them on one
\* symbol and two without a price of their own.  With two positions on the
\* book the third symbol's signal finds it full.
FourSignals ==
    { Request(A, "BUY", 100, 5, 88, NoLevel, 2),
      Request(A, "SELL", NoLevel, 6, NoLevel, NoLevel, 2),
      Request(B, "SELL", 100, 0, 112, 90, 3),
      Request(C, "BUY", NoLevel, 6, NoLevel, NoLevel, 1) }

\* The same symbol both ways.
BothWays ==
    { Request(A, "BUY", 100, 5, 88, NoLevel, 2),
      Request(A, "SELL", 100, 0, 112, 90, 3) }

\* Below the longs' stops, above the short's, and far above: with the entries
\* at 100 a long trails from either of the last two, from the last further.
ThreePrices == {85, 112, 125}
=============================================================================
