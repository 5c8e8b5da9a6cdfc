--------------------------- MODULE LiveExecution ---------------------------
(***************************************************************************)
(* Live trading: the execution engine on live_broker.py and the venue      *)
(* behind it.  ExecutionEngine assumes that an order is a fill; here an    *)
(* order rests at the venue, which fills, ends or expires it whenever it   *)
(* likes, while the engine polls, times out, is refused, loses a reply or  *)
(* dies.  The price is left out: a resting order may fill at any time, a   *)
(* trail may lift the stop to any higher level, an exit may be due or not. *)
(*                                                                         *)
(* One symbol, because no call of the broker concerns two; the trades are  *)
(* long, those of a short are the mirror image.  ExecutionEngine shows     *)
(* that memory and the open row are the same trade (MemoryBacked,          *)
(* NothingForgotten), so that here row is both.                            *)
(*                                                                         *)
(* Operators named Fault... are seeded faults, as in RiskManager.          *)
(***************************************************************************)
EXTENDS Integers, FiniteSets

CONSTANTS
    NoRow,          \* no open position
    NoLevel,        \* an order without a stop price
    Qty,            \* shares of a trade
    Part,           \* shares of an entry that fills in part first; 0: none does
    MaxLevel,       \* stop levels 1..MaxLevel
    Bracket,        \* is there a target leg (BRACKET) or not (OTO)?
    MaxOrders,      \* bound: no entry is sent after so many orders
    MaxErrors,      \* bound: calls of the venue's API that raise
    MaxCrashes,     \* bound: deaths of the process
    MaxExpiries,    \* bound: closes of the venue
    MaxLate,        \* bound: exits that outlast their polls
    MaxParts        \* bound: no later order fills in part

ASSUME LiveAssumption ==
    /\ NoRow \notin [n : Nat, stop : Nat]
    /\ Qty \in Nat \ {0}
    /\ Part \in 0..(Qty - 1)
    /\ MaxLevel \in Nat \ {0} /\ NoLevel \notin 1..MaxLevel
    /\ Bracket \in BOOLEAN
    /\ {MaxOrders, MaxErrors, MaxCrashes, MaxExpiries, MaxLate, MaxParts} \subseteq Nat

VARIABLES
    \* the venue
    shares,     \* what filled entries have bought, less what was sold
    partly,     \* numbers of the entries that have filled in part only
    orders,     \* open orders; n is the number of the trade, which is that of
                \* its entry, and id tells the exits of a trade apart
    filled,     \* numbers of the entries that have filled
    \* the database
    row,        \* the open position: the entry's number and the stop
    \* the process
    pc,         \* where the running job is
    hand,       \* the number of the order the job is waiting for
    stop,       \* the stop of the entry in hand
    \* bookkeeping
    sent,       \* orders sent so far
    known,      \* entries that got a row
    sold,       \* trades a leg or an exit has sold
    soldTwice,  \* trades sold more than once
    cut,        \* entries whose row was closed when they had filled in part
    errors, crashes, expiries,
    late        \* exits the engine took for filled that were still open

venue   == <<shares, partly, orders, filled, sold, soldTwice>>
process == <<pc, hand, stop>>
counts  == <<errors, crashes, expiries, late>>
liveVars == <<venue, row, process, sent, known, cut, counts>>

PcStates == {"down", "idle", "signals", "await", "cancel", "record", "manage",
             "trail", "mirror", "decide", "lift", "sell", "awaitExit", "close"}

Levels == 1..MaxLevel
Order(kind, n, id, level) == [kind |-> kind, n |-> n, id |-> id, level |-> level]

LiveInit ==
    /\ shares = 0 /\ partly = {} /\ orders = {} /\ filled = {} /\ sold = {}
    /\ soldTwice = {} /\ cut = {}
    /\ row = NoRow
    /\ pc = "down" /\ hand = 0 /\ stop = NoLevel
    /\ sent = 0 /\ known = {}
    /\ errors = 0 /\ crashes = 0 /\ expiries = 0 /\ late = 0

-----------------------------------------------------------------------------
(* The venue.                                                              *)

\* What the account holds, negative when short.
Held == shares + Part * Cardinality(partly)

\* The legs of an entry are held until the entry has filled.
Resting(o) == ~\E e \in orders : e.kind = "entry" /\ e.n = o.n

EntryFillsInPart(o) ==
    /\ o.kind = "entry"
    /\ Part > 0 /\ o.n <= MaxParts /\ o.n \notin partly
    /\ partly' = partly \cup {o.n}
    /\ UNCHANGED <<shares, orders, filled, sold, soldTwice, row, process, sent, known, cut, counts>>

EntryFills(o) ==
    /\ o.kind = "entry"
    /\ partly' = partly \ {o.n}
    /\ shares' = shares + Qty
    /\ filled' = filled \cup {o.n}
    /\ orders' = orders \ {o}
    /\ UNCHANGED <<sold, soldTwice, row, process, sent, known, cut, counts>>

Sells(n) ==
    /\ shares' = shares - Qty
    /\ sold' = sold \cup {n}
    /\ soldTwice' = IF n \in sold THEN soldTwice \cup {n} ELSE soldTwice

\* A leg that fills ends the other leg.
LegFills(o) ==
    /\ o.kind \in {"stop", "target"}
    /\ Resting(o)
    /\ Sells(o.n)
    /\ orders' = {p \in orders : p.n # o.n \/ p.kind = "exit"}
    /\ UNCHANGED <<partly, filled, row, process, sent, known, cut, counts>>

ExitFills(o) ==
    /\ o.kind = "exit"
    /\ Sells(o.n)
    /\ orders' = orders \ {o}
    /\ UNCHANGED <<partly, filled, row, process, sent, known, cut, counts>>

\* All orders are good for the day only.  A market order has filled by then.
Close ==
    /\ expiries < MaxExpiries
    /\ pc \in {"idle", "down"}
    /\ \A o \in orders : o.kind # "exit"
    /\ orders' = {}
    /\ expiries' = expiries + 1
    /\ UNCHANGED <<shares, partly, filled, sold, soldTwice, row, process, sent, known, cut,
                   errors, crashes, late>>

-----------------------------------------------------------------------------
(* Calls of the API: refused, or carried out with the reply lost.          *)

Raises == errors < MaxErrors /\ errors' = errors + 1

\* The exception reaches the job's try block: nothing more is done.
JobEnds == pc' = "idle" /\ hand' = 0 /\ stop' = NoLevel

GoTo(where) == pc' = where /\ UNCHANGED <<hand, stop>>

Crash ==
    /\ pc # "down"
    /\ crashes < MaxCrashes
    /\ crashes' = crashes + 1
    /\ pc' = "down" /\ hand' = 0 /\ stop' = NoLevel
    /\ UNCHANGED <<venue, row, sent, known, cut, errors, expiries, late>>

\* The job raises where a call would otherwise have gone through.
CallRaises ==
    /\ Raises
    /\ pc \in {"await", "awaitExit"}
    /\ JobEnds
    /\ UNCHANGED <<venue, row, sent, known, cut, crashes, expiries, late>>

-----------------------------------------------------------------------------
(* start_day: rehydrate and _reconcile_with_broker.                        *)

\* A row is closed, maybe too early.
MarkCut ==
    cut' = IF row # NoRow /\ row' = NoRow THEN cut \cup ({row.n} \cap partly) ELSE cut

\* A row that does not match the account is closed.
Reconciled(holding) == IF row # NoRow /\ holding # Qty THEN NoRow ELSE row

\* At boot, or before the open on a new day, when no order is left.  The
\* reconciliation is skipped if the positions cannot be listed.
StartDay ==
    /\ pc = "down" \/ (pc = "idle" /\ orders = {})
    /\ pc' = "idle"
    /\ \/ row' = Reconciled(Held) /\ UNCHANGED errors
       \/ UNCHANGED row /\ Raises
    /\ MarkCut
    /\ UNCHANGED <<venue, hand, stop, sent, known, crashes, expiries, late>>

-----------------------------------------------------------------------------
(* process_signals: the entry.                                             *)

BeginCycle ==
    /\ pc = "idle"
    /\ GoTo("signals")
    /\ UNCHANGED <<venue, row, sent, known, cut, counts>>

SkipSignals ==
    /\ pc = "signals"
    /\ GoTo("manage")
    /\ UNCHANGED <<venue, row, sent, known, cut, counts>>

\* One position per symbol, as far as the engine knows.
FaultMayEnter == TRUE
MayEnter == row = NoRow

\* The entry and its protective legs are one request.
FaultBracketOrders(n, level) == {Order("entry", n, n, NoLevel)}
BracketOrders(n, level) ==
    {Order("entry", n, n, NoLevel), Order("stop", n, n, level)}
        \cup (IF Bracket THEN {Order("target", n, n, NoLevel)} ELSE {})

SubmitBracket(level) ==
    /\ pc = "signals"
    /\ MayEnter
    /\ sent < MaxOrders
    /\ sent' = sent + 1
    /\ \/ /\ orders' = orders \cup BracketOrders(sent + 1, level)
          /\ pc' = "await" /\ hand' = sent + 1 /\ stop' = level
          /\ UNCHANGED errors
       \/ /\ Raises
          /\ JobEnds
          /\ \/ UNCHANGED orders
             \/ orders' = orders \cup BracketOrders(sent + 1, level)
    /\ UNCHANGED <<shares, partly, filled, sold, soldTwice, row, known, cut,
                   crashes, expiries, late>>

\* _await_fill_price sees a price, which the first part has, or gives up after
\* its last poll.
AwaitFill ==
    /\ pc = "await"
    /\ GoTo(IF hand \in filled \cup partly THEN "record" ELSE "cancel")
    /\ UNCHANGED <<venue, row, sent, known, cut, counts>>

\* The unfilled entry is cancelled with its legs; one that has filled since
\* the last poll, or whose cancel fails, stays.  No result either way.
Working(n) == \E o \in orders : o.kind = "entry" /\ o.n = n

Without(n) == IF Working(n) THEN {o \in orders : o.n # n} ELSE orders

CancelEntry ==
    /\ pc = "cancel"
    /\ \/ orders' = Without(hand) /\ UNCHANGED errors
       \/ UNCHANGED orders /\ Raises
    /\ pc' = "manage" /\ hand' = 0 /\ stop' = NoLevel
    /\ UNCHANGED <<shares, partly, filled, sold, soldTwice, row, sent, known, cut,
                   crashes, expiries, late>>

\* For the whole quantity.
RecordEntry ==
    /\ pc = "record"
    /\ row' = [n |-> hand, stop |-> stop]
    /\ known' = known \cup {hand}
    /\ pc' = "manage" /\ hand' = 0 /\ stop' = NoLevel
    /\ UNCHANGED <<venue, sent, cut, counts>>

-----------------------------------------------------------------------------
(* manage_positions: the sync, the trail, the exit.                        *)

NothingToManage ==
    /\ pc = "manage"
    /\ row = NoRow
    /\ JobEnds
    /\ UNCHANGED <<venue, row, sent, known, cut, counts>>

\* _sync_broker_exits: the venue holds nothing, so a leg must have filled.
FaultExitedAtBroker == FALSE
ExitedAtBroker == Held = 0

SyncBrokerExits ==
    /\ pc = "manage"
    /\ row # NoRow
    /\ \/ ExitedAtBroker /\ row' = NoRow /\ JobEnds /\ UNCHANGED errors
       \/ ~ExitedAtBroker /\ GoTo("trail") /\ UNCHANGED <<row, errors>>
       \/ Raises /\ GoTo("trail") /\ UNCHANGED row
    /\ MarkCut
    /\ UNCHANGED <<venue, sent, known, crashes, expiries, late>>

\* Without a price the cycle passes over the position.
NoPrice ==
    /\ pc = "trail"
    /\ JobEnds
    /\ UNCHANGED <<venue, row, sent, known, cut, counts>>

\* The stop moves up, in memory and in the row, or stays.
Trail ==
    /\ pc = "trail"
    /\ \/ UNCHANGED row /\ GoTo("decide")
       \/ /\ \E level \in Levels :
                level > row.stop /\ row' = [row EXCEPT !.stop = level]
          /\ GoTo("mirror")
    /\ UNCHANGED <<venue, sent, known, cut, counts>>

\* replace_stop moves the first open order that has a stop price, whichever
\* trade it belongs to; errors are caught.
Moved(o, level) == (orders \ {o}) \cup {[o EXCEPT !.level = level]}

FaultMirroredLevel == MaxLevel          \* the peak instead of the trailed stop
MirroredLevel == row.stop

Replaceable == {o \in orders : o.level # NoLevel}

MirrorStop ==
    /\ pc = "mirror"
    /\ \/ \E o \in Replaceable : orders' = Moved(o, MirroredLevel) /\ UNCHANGED errors
       \/ Replaceable = {} /\ UNCHANGED <<orders, errors>>
       \/ UNCHANGED orders /\ Raises
    /\ GoTo("decide")
    /\ UNCHANGED <<shares, partly, filled, sold, soldTwice, row, sent, known, cut,
                   crashes, expiries, late>>

Keep ==
    /\ pc = "decide"
    /\ JobEnds
    /\ UNCHANGED <<venue, row, sent, known, cut, counts>>

ExitDue ==
    /\ pc = "decide"
    /\ GoTo("lift")
    /\ UNCHANGED <<venue, row, sent, known, cut, counts>>

\* flatten_all, by the 15:55 job or by the kill switch: no sync comes first.
Flatten ==
    /\ pc = "idle"
    /\ row # NoRow
    /\ GoTo("lift")
    /\ UNCHANGED <<venue, row, sent, known, cut, counts>>

-----------------------------------------------------------------------------
(* _close_position.                                                        *)

\* cancel_symbol_orders: every open order of the symbol; a cancel that
\* fails is logged and the others go on.  Ending an entry ends its legs.
FaultLeft == {o \in orders : o.kind = "stop"}   \* only the target is lifted
Left == {}

CancelSymbolOrders ==
    /\ pc = "lift"
    /\ \/ orders' = Left /\ UNCHANGED errors
       \/ /\ Raises
          /\ orders' \in {S \in SUBSET orders :
                \A o \in S, e \in orders \ S : e.kind = "entry" => e.n # o.n}
    /\ GoTo("sell")
    /\ UNCHANGED <<shares, partly, filled, sold, soldTwice, row, sent, known, cut,
                   crashes, expiries, late>>

\* fill_market: a market order for the quantity of the row.
FillMarket ==
    /\ pc = "sell"
    /\ sent' = sent + 1
    /\ \/ /\ orders' = orders \cup {Order("exit", row.n, sent + 1, NoLevel)}
          /\ pc' = "awaitExit" /\ hand' = sent + 1
          /\ UNCHANGED <<stop, errors>>
       \/ /\ Raises
          /\ JobEnds
          /\ \/ UNCHANGED orders
             \/ orders' = orders \cup {Order("exit", row.n, sent + 1, NoLevel)}
    /\ UNCHANGED <<shares, partly, filled, sold, soldTwice, row, known, cut,
                   crashes, expiries, late>>

\* _await_fill_price sees the fill, or gives up and fill_market reports the
\* reference price; the row is closed either way.
ExitOpen == \E o \in orders : o.kind = "exit" /\ o.id = hand

AwaitExit ==
    /\ pc = "awaitExit"
    /\ \/ ~ExitOpen /\ UNCHANGED late
       \/ ExitOpen /\ late < MaxLate /\ late' = late + 1
    /\ GoTo("close")
    /\ UNCHANGED <<venue, row, sent, known, cut, errors, crashes, expiries>>

RecordExit ==
    /\ pc = "close"
    /\ row' = NoRow
    /\ MarkCut
    /\ JobEnds
    /\ UNCHANGED <<venue, sent, known, counts>>

-----------------------------------------------------------------------------
Venue ==
    \/ \E o \in orders : EntryFillsInPart(o) \/ EntryFills(o) \/ LegFills(o) \/ ExitFills(o)
    \/ Close

Entry ==
    \/ SkipSignals
    \/ \E level \in Levels : SubmitBracket(level)
    \/ AwaitFill \/ CancelEntry \/ RecordEntry

Manage ==
    \/ NothingToManage \/ SyncBrokerExits \/ NoPrice \/ Trail \/ MirrorStop
    \/ Keep \/ ExitDue

ClosePosition == CancelSymbolOrders \/ FillMarket \/ AwaitExit \/ RecordExit

JobStep == Entry \/ Manage \/ ClosePosition \/ CallRaises

LiveNext ==
    \/ Venue
    \/ Crash \/ StartDay
    \/ BeginCycle \/ Flatten
    \/ JobStep

LiveSpec == LiveInit /\ [][LiveNext]_liveVars

\* A running job goes on; systemd restarts the process; the interval trigger
\* keeps starting cycles, whatever else is started in between; a market order
\* is filled.  Of resting orders nothing is assumed.
LiveFairSpec ==
    /\ LiveSpec
    /\ WF_liveVars(JobStep)
    /\ WF_liveVars(pc = "down" /\ StartDay)
    /\ SF_liveVars(BeginCycle)
    /\ WF_liveVars(\E o \in orders : ExitFills(o))

-----------------------------------------------------------------------------
\* Every variable has its type.
LiveTypeOK ==
    /\ shares \in Int
    /\ orders \subseteq [kind : {"entry", "stop", "target", "exit"}, n : 1..sent,
                         id : 1..sent, level : Levels \cup {NoLevel}]
    /\ filled \subseteq 1..sent /\ partly \subseteq (1..sent) \ filled
    /\ known \subseteq filled \cup partly /\ cut \subseteq known
    /\ row \in {NoRow} \cup [n : 1..sent, stop : Levels]
    /\ pc \in PcStates
    /\ hand \in 0..sent
    /\ stop \in Levels \cup {NoLevel}
    /\ soldTwice \subseteq sold /\ sold \subseteq filled \cup partly
    /\ sent \in Nat
    /\ errors \in 0..MaxErrors /\ crashes \in 0..MaxCrashes
    /\ expiries \in 0..MaxExpiries /\ late \in 0..MaxLate

\* Entries at the venue that the engine neither has on its books nor waits
\* for: the reply was lost, the process died, or the fill raced the cancel.
Stray ==
    {n \in 1..sent : /\ n \in filled \cup partly \/ Working(n)
                     /\ n \notin known
                     /\ ~(pc \in {"await", "cancel", "record"} /\ hand = n)}

Exiting == pc \in {"sell", "awaitExit"}

Covered == \E o \in orders : o.kind = "stop" /\ Resting(o)

\* The account holds no more than the row says, and no shares without a row,
\* unless an entry has gone astray, an exit has outlasted its polls, or a row was
\* closed when its entry had filled in part: reconciliation, the sync and the
\* exits never drop another row whose shares are still there, whatever fails or
\* dies, and a part that is followed by the rest ends as if it had been whole.
SharesAreOnTheBooks ==
    Stray = {} /\ cut = {} /\ late = 0 =>
        Held <= IF row # NoRow \/ pc \in {"await", "cancel", "record"} THEN Qty ELSE 0

\* Held shares have a stop resting at the venue except while they are being
\* sold, as long as nothing has failed, died, gone astray, outlasted its polls
\* or stayed overnight, and no entry has filled in part only
\* (submit_bracket, replace_stop, cancel_symbol_orders, fill_market).
NakedOnlyInTrouble ==
    /\ errors = 0 /\ crashes = 0 /\ expiries = 0 /\ late = 0
    /\ Stray = {} /\ partly = {} /\ Held > 0
    => Covered \/ Exiting

\* Nothing rests at the venue when the engine has no row and no job: no leg
\* outlives its position, even over crashes, unless a cancel failed, an entry
\* went astray, a position was sold twice, an exit outlasted its polls, or a row
\* was closed when the rest of its entry was still working.
NoOrphanOrders ==
    /\ pc \in {"idle", "down"} /\ row = NoRow
    /\ errors = 0 /\ Stray = {} /\ cut = {} /\ soldTwice = {} /\ late = 0
    => \A o \in orders : o.kind = "exit"

\* The stop at the venue is never above the engine's own: whichever of the
\* two triggers, the engine's books are right about the level.
VenueStopBehindRow ==
    row # NoRow =>
        \A o \in orders : o.kind = "stop" /\ o.n = row.n => o.level <= row.stop

\* A row whose shares are gone (a leg or a late exit filled) does not stay
\* on the books: the next cycle or the next boot closes it.
GhostRowsAreClosed ==
    (row # NoRow /\ Held = 0) ~> (row = NoRow \/ Held # 0)

-----------------------------------------------------------------------------
(* The inductive invariant behind SharesAreOnTheBooks and VenueStopBehindRow. *)

Entering == pc \in {"await", "cancel", "record"}

\* Strays that have filled.  Unlike those still working, they do not go away.
FilledStray == {n \in filled \cup partly : n \notin known /\ ~(Entering /\ hand = n)}

\* Where the job is, and what it then has in hand.
JobShape ==
    /\ Entering => /\ row = NoRow
                   /\ hand \in 1..sent /\ hand \notin known
                   /\ stop \in Levels
    /\ pc = "record" => hand \in filled \cup partly
    /\ pc \in {"trail", "mirror", "decide", "lift", "sell", "awaitExit", "close"} =>
           row # NoRow
    /\ row # NoRow => row.n \in known

\* Only stops have a level, an entry works until it has filled, only trades that
\* were entered are sold, and the stops of a trade are no higher than its row's.
OrderShape ==
    \A o \in orders :
        /\ o.kind = "stop" <=> o.level \in Levels
        /\ o.kind = "entry" => o.n \notin filled /\ o.id = o.n
        /\ o.kind = "exit" => o.n \in known
        /\ o.kind \in {"stop", "target"} => ~Resting(o) \/ o.n \in filled
        /\ o.kind = "stop" /\ row # NoRow /\ o.n = row.n => o.level <= row.stop
        /\ o.kind = "stop" /\ Entering /\ o.n = hand => o.level <= stop

\* Shares come and go by the trade, but for those of entries filled in part.
WholeTrades == \E k \in Int : shares = Qty * k

\* An entry that has filled in part is astray, in hand, on the books or was cut.
PartsAccounted ==
    \A n \in partly :
        \/ n \in FilledStray \cup cut
        \/ Entering /\ hand = n
        \/ row # NoRow /\ row.n = n

\* The exit of the row has filled, or was given up on.
Exited == pc = "close" \/ (pc = "awaitExit" /\ ~ExitOpen)

Bought(n) == IF n \in filled THEN Qty ELSE 0

\* What is held of whole trades, at most, while nothing has gone astray, been
\* cut or been given up on.  An exit sells the whole of a part, too.
HeldAtMost ==
    IF Entering THEN Bought(hand)
    ELSE IF row = NoRow THEN 0
    ELSE IF Exited THEN Bought(row.n) - Qty
    ELSE Bought(row.n)

SharesBounded == FilledStray = {} /\ cut = {} /\ late = 0 => shares <= HeldAtMost

LiveInductive ==
    /\ LiveTypeOK
    /\ JobShape
    /\ OrderShape
    /\ WholeTrades
    /\ PartsAccounted
    /\ SharesBounded

-----------------------------------------------------------------------------
(* The invariant behind NoOrphanOrders and NakedOnlyInTrouble; it leans on *)
(* LiveInductive.                                                          *)

\* The trade being entered or on the books.
InPlay(n) == (Entering /\ hand = n) \/ (row # NoRow /\ row.n = n)

InHand(n) == Bought(n) - (IF n \in sold THEN Qty ELSE 0)

\* Nothing has gone wrong that the books could not tell.
Untroubled == errors = 0 /\ FilledStray = {} /\ cut = {} /\ soldTwice = {} /\ late = 0

\* The account holds the trade in play and nothing else; every other trade was
\* sold whole, and its legs went with it.
Settlement ==
    /\ shares = 0 \/ Entering \/ row # NoRow
    /\ \A n \in 1..sent : InPlay(n) => shares = InHand(n)
    /\ \A n \in filled \cup known : InPlay(n) \/ n \in filled \cap sold
    /\ \A o \in orders : o.kind # "exit" => o.n \notin sold

Settled == Untroubled => Settlement

Selling == pc \in {"sell", "awaitExit", "close"}

\* An exit is sent when its trade has no other order left.
ExitsComeLast ==
    errors = 0 =>
        /\ Selling => \A o \in orders : o.kind = "exit"
        /\ \A o, p \in orders : o.kind = "exit" /\ p.n = o.n => p.kind = "exit"

\* The exit that is waited for is open or has sold the row's trade.
ExitsSell ==
    /\ pc = "awaitExit" =>
           row.n \in sold \/ Order("exit", row.n, hand, NoLevel) \in orders
    /\ pc = "close" /\ late = 0 => row.n \in sold

\* A row closed on an entry filled in part leaves that part behind for good.
PartsStay ==
    /\ partly # {} => Part > 0
    /\ pc = "down" /\ crashes = 0 => orders = {}
    /\ errors = 0 /\ crashes = 0 /\ FilledStray = {} /\ cut # {} =>
           \E n \in cut \cap partly : ~Working(n)

\* The stop of the trade in play is there until it is lifted or the trade sold.
StopStands ==
    /\ errors = 0 /\ crashes = 0 /\ expiries = 0 /\ late = 0
    /\ FilledStray = {} /\ cut = {}
    => \A n \in 1..sent : InPlay(n) =>
           \/ \E o \in orders : o.kind = "stop" /\ o.n = n
           \/ Selling
           \/ shares <= Bought(n) - Qty

LiveOrderly == Settled /\ ExitsComeLast /\ ExitsSell /\ PartsStay /\ StopStands

-----------------------------------------------------------------------------
(* What the code says of itself.                                           *)

\* "A process crash therefore never leaves a naked position"
\* (live_broker.py:9).
NeverNaked == Held > 0 => Covered \/ Exiting
=============================================================================
