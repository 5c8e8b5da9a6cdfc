------------------------------- MODULE Replay -------------------------------
(***************************************************************************)
(* The event-driven backtest, backtest/engine.py: bars of several symbols  *)
(* are replayed in the order of time through the rules the live engine     *)
(* uses.  One timestamp is one round through the phases of the code's main *)
(* loop: fill what is pending, manage what is open, kill switch, evaluate, *)
(* flatten what ends its session.                                          *)
(*                                                                         *)
(* The data set is any sequence of bars in which a symbol may miss bars or *)
(* whole sessions and sessions may end at different times.  Strategies,    *)
(* warm-up, eligible and blocked days and the meta filter decide which     *)
(* signals there are: any.  The order in which one timestamp's positions   *)
(* and symbols are visited is left open.                                   *)
(*                                                                         *)
(* Operators named Fault... are seeded faults, as in RiskManager.          *)
(***************************************************************************)
EXTENDS RiskManager, PfGate, FiniteSets

CONSTANTS
    Symbols,
    Bars,           \* bars that may come
    Requests,       \* what strategies may ask for
    StartingCash,
    SpreadPct,      \* half the bid/ask spread, in percent of the price
    ImpactPct,      \* atr_impact_coeff, in percent
    Commission,     \* risk.commission_per_trade
    MaxTime,        \* bound: timestamps
    MaxDay,         \* bound: sessions
    MaxSignals      \* bound: signals

Price == Nat \ {0}
Bar == [open : Price, high : Price, low : Price, close : Price]
Request == [symbol : Symbols, side : Side, atr : Nat,
            stopHint : Price \cup {NoLevel}, targetHint : Price \cup {NoLevel}]

ASSUME ReplayConfigAssumption ==
    /\ Symbols # {} /\ IsFiniteSet(Symbols)
    /\ Bars \subseteq {b \in Bar : /\ b.low <= b.open /\ b.open <= b.high
                                   /\ b.low <= b.close /\ b.close <= b.high}
    /\ Requests \subseteq Request
    /\ StartingCash \in Nat \ {0}
    /\ {SpreadPct, ImpactPct, Commission, MaxTime, MaxDay, MaxSignals} \subseteq Nat

VARIABLES
    \* the data
    time, day,
    bars,           \* this timestamp's bars
    session,        \* today's session of a symbol: before, on, over
    \* the replay
    pc,
    cash,
    positions,      \* a dict keyed by symbol
    queue,          \* pending entries this timestamp has not looked at
    pending,        \* entries that wait for a bar of their symbol
    lastClose,      \* the last close seen while the symbol was held
    dayPeak, halted, pfBlocked,
    signals,        \* result.signals
    trades,         \* result.trades
    todo            \* positions the current loop has still to visit

data       == <<time, day, bars, session>>
account    == <<cash, positions, signals, trades>>
guards     == <<dayPeak, halted, pfBlocked>>
replayVars == <<data, pc, account, queue, pending, lastClose, guards, todo>>

Nothing == [s \in {} |-> 0]

ReplayInit ==
    /\ time = 0 /\ day = 0
    /\ bars = Nothing /\ session = [s \in Symbols |-> "before"]
    /\ pc = "next"
    /\ cash = StartingCash /\ positions = Nothing
    /\ queue = <<>> /\ pending = <<>>
    /\ lastClose = Nothing
    /\ dayPeak = StartingCash /\ halted = FALSE /\ pfBlocked = FALSE
    /\ signals = <<>> /\ trades = <<>>
    /\ todo = {}

-----------------------------------------------------------------------------
(* Fills and the account.                                                  *)

Slip(price, atr) == (SpreadPct * price + ImpactPct * atr) \div 100

Fill(side, ref, atr) ==
    IF side = "BUY" THEN ref + Slip(ref, atr) ELSE ref - Slip(ref, atr)

FaultOwed(side, qty, price) == qty * price      \* a short counted as a long
Owed(side, qty, price) == IF side = "BUY" THEN qty * price ELSE -(qty * price)

MarkOf(s) == IF s \in DOMAIN lastClose THEN lastClose[s] ELSE positions[s].entry

Equity ==
    cash + SumFunction([s \in DOMAIN positions |->
                           Owed(positions[s].side, positions[s].qty, MarkOf(s))])

Without(f, s) == Restrict(f, DOMAIN f \ {s})
With(f, s, v) == [x \in DOMAIN f \cup {s} |-> IF x = s THEN v ELSE f[x]]

Pnls(ts) == [i \in DOMAIN ts |-> ts[i].pnl]

\* close_position: the profit counts the commission, the cash does not.
Close(s, ref, reason) ==
    LET pos    == positions[s]
        exit   == Fill(Opposite(pos.side), ref, pos.atr)
        profit == Gain(pos.side, pos.entry, exit) * pos.qty - Commission
    IN  /\ cash' = cash + Owed(pos.side, pos.qty, exit)
        /\ positions' = Without(positions, s)
        /\ trades' = Append(trades, [sig |-> pos.sig, day |-> day, ref |-> ref,
                                     reason |-> reason, pnl |-> profit])
        /\ signals' = [signals EXCEPT ![pos.sig].label = IF profit > 0 THEN "win" ELSE "loss"]

-----------------------------------------------------------------------------
(* The next timestamp: a new day, or a later bar of the same session.      *)

\* Every symbol that has had a bar today has had its last one.
SessionsOver == \A s \in Symbols : session[s] # "on"

Arrive(before) ==
    \E S \in SUBSET {s \in Symbols : before[s] # "over"} \ {{}} :
        /\ bars' \in [S -> Bars]
        /\ \E last \in SUBSET S :
              session' = [s \in Symbols |-> IF s \in last THEN "over"
                                            ELSE IF s \in S THEN "on" ELSE before[s]]

NewDay ==
    /\ pc = "next" /\ time < MaxTime /\ day < MaxDay
    /\ SessionsOver
    /\ time' = time + 1 /\ day' = day + 1
    /\ Arrive([s \in Symbols |-> "before"])
    /\ dayPeak' = Equity
    /\ halted' = FALSE
    /\ pfBlocked' = PfBlocked(Pnls(trades))
    /\ queue' = <<>> /\ pending' = <<>>
    /\ pc' = "fill"
    /\ UNCHANGED <<account, lastClose, todo>>

NextBar ==
    /\ pc = "next" /\ time < MaxTime /\ day > 0
    /\ time' = time + 1
    /\ Arrive(session)
    /\ queue' = pending /\ pending' = <<>>
    /\ pc' = "fill"
    /\ UNCHANGED <<day, account, lastClose, guards, todo>>

-----------------------------------------------------------------------------
(* 1. Pending entries fill at the open of their symbol's next bar.         *)

StillPending ==
    /\ pc = "fill" /\ queue # <<>>
    /\ Head(queue).symbol \notin DOMAIN bars
    /\ queue' = Tail(queue)
    /\ pending' = Append(pending, Head(queue))
    /\ UNCHANGED <<data, pc, account, lastClose, guards, todo>>

\* The position an entry becomes; its quantity may be none.
Entered(pe) ==
    LET entry  == Fill(pe.side, bars[pe.symbol].open, pe.atr)
        stop   == ResolveStop(pe.side, entry, pe.atr, pe.stopHint)
        target == IF Trailing THEN NoLevel
                  ELSE IF pe.targetHint # NoLevel THEN pe.targetHint
                  ELSE TakeProfit(pe.side, entry, stop)
    IN  [side |-> pe.side, entry |-> entry, time |-> time, stop |-> stop,
         target |-> target, atr |-> pe.atr, risk |-> Distance(entry, stop),
         peak |-> entry, sig |-> pe.sig,
         qty |-> IF ValidStop(pe.side, entry, stop)
                 THEN PositionSize(Equity, entry, stop, cash, MaxRiskPct) ELSE 0]

\* The halt, or the position already held, forgotten.
FaultFillHalted(pe) ==
    pe.symbol \notin DOMAIN positions /\ CanOpenNew(Cardinality(DOMAIN positions))
MayFill(pe) ==
    /\ ~halted
    /\ pe.symbol \notin DOMAIN positions
    /\ CanOpenNew(Cardinality(DOMAIN positions))

FillPending ==
    /\ pc = "fill" /\ queue # <<>>
    /\ LET pe == Head(queue)
       IN  /\ pe.symbol \in DOMAIN bars
           /\ MayFill(pe)
           /\ Entered(pe).qty > 0
           /\ positions' = With(positions, pe.symbol, Entered(pe))
           /\ cash' = cash - Owed(pe.side, Entered(pe).qty, Entered(pe).entry)
           /\ signals' = [signals EXCEPT ![pe.sig].filled = TRUE]
    /\ queue' = Tail(queue)
    /\ UNCHANGED <<data, pc, trades, pending, lastClose, guards, todo>>

DropPending ==
    /\ pc = "fill" /\ queue # <<>>
    /\ LET pe == Head(queue)
       IN  /\ pe.symbol \in DOMAIN bars
           /\ MayFill(pe) => Entered(pe).qty <= 0
    /\ queue' = Tail(queue)
    /\ UNCHANGED <<data, pc, account, pending, lastClose, guards, todo>>

BeginManage ==
    /\ pc = "fill" /\ queue = <<>>
    /\ pc' = "manage"
    /\ todo' = DOMAIN positions \cap DOMAIN bars
    /\ UNCHANGED <<data, account, queue, pending, lastClose, guards>>

-----------------------------------------------------------------------------
(* 2. Open positions are managed on the bar.                               *)

\* How far the bar went for and against a holder.
Best(side, bar) == IF side = "BUY" THEN bar.high ELSE bar.low
Worst(side, bar) == IF side = "BUY" THEN bar.low ELSE bar.high

StopTouched(pos, bar) == Gain(pos.side, pos.stop, Worst(pos.side, bar)) <= 0
TargetTouched(pos, bar) ==
    pos.target # NoLevel /\ Gain(pos.side, pos.target, Best(pos.side, bar)) >= 0

\* Orders the open gapped through fill at the open.
StopFill(pos, bar) == IF Gain(pos.side, pos.stop, bar.open) <= 0 THEN bar.open ELSE pos.stop
TargetFill(pos, bar) ==
    IF Gain(pos.side, pos.target, bar.open) >= 0 THEN bar.open ELSE pos.target

ExitHit(pos, bar) ==
    IF StopTouched(pos, bar) THEN <<StopFill(pos, bar), "SL">>
    ELSE IF TargetTouched(pos, bar) THEN <<TargetFill(pos, bar), "TP">>
    ELSE <<>>

Visit(s) == s \in todo /\ todo' = todo \ {s}

ExitPosition(s) ==
    LET hit == ExitHit(positions[s], bars[s])
    IN  /\ pc = "manage" /\ Visit(s)
        /\ hit # <<>>
        /\ Close(s, hit[1], hit[2])
        /\ lastClose' = With(lastClose, s, bars[s].close)
        /\ UNCHANGED <<data, pc, queue, pending, guards>>

\* The bar's extreme trails the stop for the next bar.
TrailPosition(s) ==
    LET pos  == positions[s]
        peak == Tighter(pos.side, pos.peak, Best(pos.side, bars[s]))
    IN  /\ pc = "manage" /\ Visit(s)
        /\ ExitHit(pos, bars[s]) = <<>>
        /\ positions' = [positions EXCEPT
                            ![s].peak = peak,
                            ![s].stop = UpdateTrailingStop(pos.side, pos.stop, peak,
                                            TrailMultiplier * pos.atr, pos.entry, pos.risk)]
        /\ lastClose' = With(lastClose, s, bars[s].close)
        /\ UNCHANGED <<data, pc, cash, signals, trades, queue, pending, guards>>

-----------------------------------------------------------------------------
(* 3. The kill switch, on the marks of this timestamp.                     *)

CheckKillSwitch ==
    /\ pc = "manage" /\ todo = {}
    /\ dayPeak' = Larger(dayPeak, Equity)
    /\ IF ~halted /\ IsDrawdownBreached(dayPeak', Equity)
       THEN pc' = "kill" /\ todo' = DOMAIN positions
       ELSE pc' = "evaluate" /\ UNCHANGED todo
    /\ UNCHANGED <<data, account, queue, pending, lastClose, halted, pfBlocked>>

KillPosition(s) ==
    /\ pc = "kill" /\ Visit(s)
    /\ Close(s, MarkOf(s), "KILL_SWITCH")
    /\ UNCHANGED <<data, pc, queue, pending, lastClose, guards>>

Halt ==
    /\ pc = "kill" /\ todo = {}
    /\ halted' = TRUE
    /\ pc' = "evaluate"
    /\ UNCHANGED <<data, account, queue, pending, lastClose, dayPeak, pfBlocked, todo>>

-----------------------------------------------------------------------------
(* 4. Strategies see the completed bar, except the last of a session.      *)

FaultMayEvaluate == ~halted             \* the gate forgotten
MayEvaluate == ~halted /\ ~pfBlocked

FaultSignalIdx == Len(pending) + 1      \* the place among the pending entries
SignalIdx == Len(signals) + 1

Pending(r) ==
    [symbol |-> r.symbol, side |-> r.side, atr |-> r.atr, stopHint |-> r.stopHint,
     targetHint |-> r.targetHint, sig |-> SignalIdx]

\* A signal is recorded; it becomes a pending entry if the meta filter lets
\* it through and its symbol is not held.
Evaluate(r, passed) ==
    /\ pc = "evaluate"
    /\ MayEvaluate
    /\ Len(signals) < MaxSignals
    /\ r.symbol \in DOMAIN bars /\ session[r.symbol] # "over"
    /\ signals' = Append(signals, [symbol |-> r.symbol, time |-> time, day |-> day,
                                   filled |-> FALSE, label |-> "none"])
    /\ pending' = IF passed /\ r.symbol \notin DOMAIN positions
                  THEN Append(pending, Pending(r))
                  ELSE pending
    /\ UNCHANGED <<data, pc, cash, positions, trades, queue, lastClose, guards, todo>>

\* Sessions that end here; the code looks for this timestamp among the last
\* bars of the symbol.
FaultEndTogether == IF SessionsOver THEN DOMAIN positions \cap DOMAIN bars ELSE {}
Ending == {s \in DOMAIN positions : s \in DOMAIN bars /\ session[s] = "over"}

EndEvaluate ==
    /\ pc = "evaluate"
    /\ pc' = "flatten"
    /\ todo' = Ending
    /\ UNCHANGED <<data, account, queue, pending, lastClose, guards>>

-----------------------------------------------------------------------------
(* 5. End-of-session flatten.  The flatten after the last timestamp is     *)
(* left out: by FlatAfterSession it finds nothing.                         *)

FlattenPosition(s) ==
    /\ pc = "flatten" /\ Visit(s)
    /\ Close(s, MarkOf(s), "EOD")
    /\ UNCHANGED <<data, pc, queue, pending, lastClose, guards>>

EndBar ==
    /\ pc = "flatten" /\ todo = {}
    /\ pc' = "next"
    /\ UNCHANGED <<data, account, queue, pending, lastClose, guards, todo>>

-----------------------------------------------------------------------------
ReplayNext ==
    \/ NewDay \/ NextBar
    \/ StillPending \/ FillPending \/ DropPending \/ BeginManage
    \/ \E s \in Symbols : ExitPosition(s) \/ TrailPosition(s)
    \/ CheckKillSwitch \/ (\E s \in Symbols : KillPosition(s)) \/ Halt
    \/ (\E r \in Requests, passed \in BOOLEAN : Evaluate(r, passed)) \/ EndEvaluate
    \/ (\E s \in Symbols : FlattenPosition(s)) \/ EndBar

ReplaySpec == ReplayInit /\ [][ReplayNext]_replayVars
-----------------------------------------------------------------------------
Labels == {"none", "win", "loss"}

OpenPosition ==
    [side : Side, entry : Int, time : Nat, stop : Int, target : Int \cup {NoLevel}, atr : Nat,
     risk : Nat, peak : Int, sig : Nat, qty : Nat \ {0}]
PendingEntry ==
    [symbol : Symbols, side : Side, atr : Nat, stopHint : Price \cup {NoLevel},
     targetHint : Price \cup {NoLevel}, sig : Nat]
GivenSignal == [symbol : Symbols, time : Nat, day : Nat, filled : BOOLEAN, label : Labels]
ClosedTrade ==
    [sig : Nat, day : Nat, ref : Int, reason : {"SL", "TP", "KILL_SWITCH", "EOD"}, pnl : Int]

\* Every variable has its type.
ReplayTypeOK ==
    /\ time \in Nat /\ day \in Nat
    /\ DOMAIN bars \subseteq Symbols /\ bars \in [DOMAIN bars -> Bars]
    /\ session \in [Symbols -> {"before", "on", "over"}]
    /\ pc \in {"next", "fill", "manage", "kill", "evaluate", "flatten"}
    /\ cash \in Int
    /\ DOMAIN positions \subseteq Symbols /\ positions \in [DOMAIN positions -> OpenPosition]
    /\ signals \in Seq(GivenSignal) /\ trades \in Seq(ClosedTrade)
    /\ queue \in Seq(PendingEntry) /\ pending \in Seq(PendingEntry)
    /\ DOMAIN lastClose \subseteq Symbols /\ lastClose \in [DOMAIN lastClose -> Price]
    /\ dayPeak \in Int /\ halted \in BOOLEAN /\ pfBlocked \in BOOLEAN
    /\ todo \subseteq Symbols

\* Cash, less what is held at its entry, is the start plus the profits: the
\* account and the list of trades tell the same story, except that the cash
\* never pays the commissions the profits count (run: close_position).
BooksBalance ==
    cash + SumFunction([s \in DOMAIN positions |->
              Owed(positions[s].side, positions[s].qty, positions[s].entry)])
      = StartingCash + SumFunction([i \in DOMAIN trades |-> trades[i].pnl + Commission])

\* A symbol is held only while its session is on, so nothing is carried
\* overnight or left at the end, wherever sessions end and bars are missing.
FlatAfterSession ==
    pc = "next" => \A s \in DOMAIN positions : session[s] = "on"

\* A fill belongs to its symbol's signal of an earlier bar of the same day:
\* neither look-ahead to the signal's own bar nor a signal carried overnight.
\* Two rules of run() see to the latter, either of which would do: pending is
\* cleared on a new day, and a session's last bar gives no signals.
FillsFollowSignals ==
    \A s \in DOMAIN positions :
        LET sig == signals[positions[s].sig]
        IN  sig.symbol = s /\ sig.time < positions[s].time /\ sig.day = day

\* A killed day is flat and stays flat.
KilledDayIsFlat == halted => positions = Nothing

\* Trades are in the order of their days.
EarlierTrades(d) == SubSeq(trades, 1, Cardinality({k \in DOMAIN trades : trades[k].day < d}))

GateWasOpen ==
    \A i \in DOMAIN signals : ~PfBlocked(Pnls(EarlierTrades(signals[i].day)))

\* Whether a day trades is decided by the profits of earlier days alone, however
\* its own trades end: the gate is closed all day exactly if they close it, and
\* no day on which they do has a signal (pf_gate.py:7-8, evaluated in the new-day
\* branch of BacktestEngine.run).
GateIsCausal ==
    /\ GateWasOpen
    /\ day > 0 => (pfBlocked <=> PfBlocked(Pnls(EarlierTrades(day))))

-----------------------------------------------------------------------------
(* The inductive invariants behind these properties.                       *)

\* What a phase has still to visit, and that entries wait in a queue only
\* while they are looked at.
PhaseShape ==
    /\ todo \subseteq DOMAIN positions
    /\ pc = "manage" => todo \subseteq DOMAIN bars
    /\ pc \in {"next", "fill", "evaluate"} => todo = {}
    /\ pc # "fill" => queue = <<>>
    /\ pc # "next" => day > 0

\* A bar belongs to a session, and a position to one that is on, or that ends
\* with this bar and is still to be flattened.
HeldInSession ==
    /\ \A s \in DOMAIN bars : session[s] # "before"
    /\ \A s \in DOMAIN positions :
          /\ session[s] # "before"
          /\ session[s] = "over" => /\ s \in DOMAIN bars /\ pc # "next"
                                    /\ pc = "flatten" => s \in todo

\* The kill switch visits every position before it halts the day.
KillVisitsAll ==
    /\ pc = "kill" => DOMAIN positions \subseteq todo
    /\ halted => DOMAIN positions = {}

\* A waiting entry comes from today's signal for its symbol.
Sourced(pe) ==
    /\ pe.sig \in DOMAIN signals
    /\ signals[pe.sig].symbol = pe.symbol
    /\ signals[pe.sig].day = day
    /\ signals[pe.sig].time <= time

EntriesAreSourced ==
    /\ \A s \in DOMAIN positions : positions[s].sig \in DOMAIN signals
    /\ \A k \in DOMAIN queue : Sourced(queue[k]) /\ signals[queue[k].sig].time < time
    /\ \A k \in DOMAIN pending : Sourced(pending[k])

ReplayShape ==
    /\ ReplayTypeOK /\ PhaseShape /\ HeldInSession /\ KillVisitsAll
    /\ EntriesAreSourced /\ FillsFollowSignals

\* Trades are in the order of their days, and the gate was set by those
\* before today's.
GateLooksBack ==
    /\ \A k, l \in DOMAIN trades : k <= l => trades[k].day <= trades[l].day
    /\ \A k \in DOMAIN trades : trades[k].day <= day
    /\ \A i \in DOMAIN signals : signals[i].day <= day
    /\ day > 0 => (pfBlocked <=> PfBlocked(Pnls(EarlierTrades(day))))
=============================================================================
