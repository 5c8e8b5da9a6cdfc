------------------------------ MODULE JobRace ------------------------------
(***************************************************************************)
(* Two jobs on one book: the scheduler runs trading_cycle and              *)
(* market_flatten on different threads of its pool, and nothing locks      *)
(* engine.open_positions.  This module keeps of the engine what two        *)
(* threads can disagree on (who is held, which rows are open, how often a  *)
(* position was exited) and lets them interleave between any two effects.  *)
(* Prices decide nothing here: a position may or may not be due, an        *)
(* account may or may not be in breach.                                    *)
(*                                                                         *)
(* A thread that walks the dict itself, and not a list of it, raises when  *)
(* the other changes its size meanwhile ("dictionary changed size during   *)
(* iteration"); the job's try block then ends the job.  Single dict and    *)
(* arithmetic operations are atomic under the interpreter's lock.          *)
(***************************************************************************)
EXTENDS Naturals, Sequences, FiniteSets, Functions

CONSTANTS
    None,               \* no position in hand
    Symbols,            \* tickers
    MaxOpenPositions,   \* risk.max_open_positions
    MaxTrades           \* bound: rows of the positions table

ASSUME RaceAssumption ==
    /\ None \notin Nat
    /\ MaxOpenPositions \in Nat \ {0}
    /\ MaxTrades \in Nat

Jobs == {"cycle", "flatten"}
Other(j) == IF j = "cycle" THEN "flatten" ELSE "cycle"

VARIABLES
    rows,       \* positions table: symbol, status, how often it was exited
    book,       \* engine.open_positions: symbol to row
    halted,     \* engine.halted
    pc,         \* where each job is
    scan,       \* a walk over the dict: none, steady, or disturbed by the other
    todo,       \* the positions each job has listed and not yet visited
    cur,        \* the position each job is exiting
    pending,    \* symbols the cycle has signals for
    closedAny,  \* whether the cycle has closed something
    atFlatten,  \* rows open when the flatten began, unknown before
    done,       \* whether today's flatten has run
    lateCycle   \* history: whether a cycle has begun while the flatten ran

raceVars == <<rows, book, halted, pc, scan, todo, cur, pending, closedAny,
              atFlatten, done, lateCycle>>

Ids == 1..Len(rows)
OpenIds == {i \in Ids : rows[i].status = "OPEN"}

\* Walks: check_kill_switch, process_signals and _recompute_daily add up the
\* dict's values; flatten_all looks for symbols without a quote.
Walks == {"guard", "value", "refresh", "missing", "total"}

RaceInit ==
    /\ rows = <<>>
    /\ book = [s \in {} |-> 0]
    /\ halted = FALSE
    /\ pc = [j \in Jobs |-> "idle"]
    /\ scan = [j \in Jobs |-> "none"]
    /\ todo = [j \in Jobs |-> {}]
    /\ cur = [j \in Jobs |-> None]
    /\ pending = {}
    /\ closedAny = FALSE
    /\ atFlatten = {}
    /\ done = FALSE
    /\ lateCycle = FALSE

-----------------------------------------------------------------------------
(* Moving a job on.  A job that enters a walk starts a fresh one; a walk    *)
(* over an empty dict is over at once and cannot be disturbed.             *)

FreshWalk(where) == IF where \in Walks /\ DOMAIN book # {} THEN "steady" ELSE "none"

GoTo(j, where) ==
    /\ pc' = [pc EXCEPT ![j] = where]
    /\ scan' = [scan EXCEPT ![j] = FreshWalk(where)]

\* The same, by a step that also changes the dict under the other job's walk.
Disturb(j, where) ==
    /\ pc' = [pc EXCEPT ![j] = where]
    /\ scan' = [scan EXCEPT ![j] = IF where \in Walks /\ DOMAIN book' # {} THEN "steady"
                                                                        ELSE "none",
                            ![Other(j)] = IF @ = "steady" THEN "disturbed" ELSE @]

\* The walk raises; the job is over, whatever it had still to do.
WalkRaises(j) ==
    /\ pc[j] \in Walks
    /\ scan[j] = "disturbed"
    /\ GoTo(j, "idle")
    /\ todo' = [todo EXCEPT ![j] = {}]
    /\ IF j = "cycle" THEN pending' = {} /\ closedAny' = FALSE
                      ELSE UNCHANGED <<pending, closedAny>>
    /\ done' = (done \/ j = "flatten")
    /\ UNCHANGED <<rows, book, halted, cur, atFlatten, lateCycle>>

-----------------------------------------------------------------------------
(* Exits, shared by both jobs: fill, commit the row, drop the dict entry.  *)

\* The positions as a list: taken in one operation, stale from then on.
Listed == Range(book)

FillExit(j, i) ==
    /\ i \in todo[j]
    /\ rows' = [rows EXCEPT ![i].exits = @ + 1]
    /\ cur' = [cur EXCEPT ![j] = i]
    /\ todo' = [todo EXCEPT ![j] = @ \ {i}]

\* close_position overwrites the row without looking at its status.
CommitExit(j) ==
    /\ pc[j] \in {"exit", "sold"}
    /\ rows' = [rows EXCEPT ![cur[j]].status = "CLOSED"]
    /\ GoTo(j, IF pc[j] = "exit" THEN "pop" ELSE "drop")
    /\ UNCHANGED <<book, halted, todo, cur, pending, closedAny, atFlatten, done, lateCycle>>

\* open_positions.pop(symbol, None): by symbol, whatever is held there now.
FaultRemaining(s) == book
Remaining(s) == [t \in DOMAIN book \ {s} |-> book[t]]

DropEntry(j) ==
    /\ pc[j] \in {"pop", "drop"}
    /\ book' = Remaining(rows[cur[j]].symbol)
    /\ cur' = [cur EXCEPT ![j] = None]
    /\ LET where == IF pc[j] = "pop" THEN "manage" ELSE "sweep"
       IN  IF book' = book THEN GoTo(j, where) ELSE Disturb(j, where)
    /\ closedAny' = (closedAny \/ pc[j] = "pop")
    /\ UNCHANGED <<rows, halted, todo, pending, atFlatten, done, lateCycle>>

-----------------------------------------------------------------------------
(* flatten_all, by the flatten job or by the cycle's kill switch.          *)

ListAll(j) ==
    /\ pc[j] = "missing"
    /\ GoTo(j, "sweep")
    /\ todo' = [todo EXCEPT ![j] = Listed]
    /\ UNCHANGED <<rows, book, halted, cur, pending, closedAny, atFlatten, done, lateCycle>>

SweepNext(j, i) ==
    /\ pc[j] = "sweep"
    /\ FillExit(j, i)
    /\ GoTo(j, "sold")
    /\ UNCHANGED <<book, halted, pending, closedAny, atFlatten, done, lateCycle>>

SweepDone(j) ==
    /\ pc[j] = "sweep"
    /\ todo[j] = {}
    /\ GoTo(j, IF j = "cycle" THEN "total" ELSE "refresh")
    /\ UNCHANGED <<rows, book, halted, todo, cur, pending, closedAny, atFlatten, done, lateCycle>>

-----------------------------------------------------------------------------
(* The flatten job.                                                        *)

\* Once a day, at 15:55, while a cycle may be anywhere.
BeginFlatten ==
    /\ pc["flatten"] = "idle"
    /\ ~done
    /\ GoTo("flatten", "missing")
    /\ atFlatten' = OpenIds
    /\ UNCHANGED <<rows, book, halted, todo, cur, pending, closedAny, done, lateCycle>>

EndFlatten ==
    /\ pc["flatten"] = "refresh"
    /\ GoTo("flatten", "idle")
    /\ done' = TRUE
    /\ UNCHANGED <<rows, book, halted, todo, cur, pending, closedAny, atFlatten, lateCycle>>

-----------------------------------------------------------------------------
(* The trading cycle.                                                      *)

\* One cycle at a time (max_instances = 1), whatever the flatten is doing: its
\* interval has a phase of its own.
BeginCycle ==
    /\ pc["cycle"] = "idle"
    /\ GoTo("cycle", "guard")
    /\ lateCycle' = (lateCycle \/ pc["flatten"] # "idle")
    /\ UNCHANGED <<rows, book, halted, todo, cur, pending, closedAny, atFlatten, done>>

\* The walk of check_kill_switch is over: refuse, flatten, or go on.
Guard ==
    /\ pc["cycle"] = "guard"
    /\ \/ halted /\ GoTo("cycle", "idle") /\ UNCHANGED pending
       \/ ~halted /\ GoTo("cycle", "missing") /\ UNCHANGED pending
       \/ ~halted /\ GoTo("cycle", "value") /\ pending' \in SUBSET Symbols
    /\ UNCHANGED <<rows, book, halted, todo, cur, closedAny, atFlatten, done, lateCycle>>

\* The kill switch's flatten has refreshed the metrics: latch.
Latch ==
    /\ pc["cycle"] = "total"
    /\ halted' = TRUE
    /\ GoTo("cycle", "idle")
    /\ UNCHANGED <<rows, book, todo, cur, pending, closedAny, atFlatten, done, lateCycle>>

\* The walk that values the account, before the first signal and after each
\* entry, is over.
RankNext ==
    /\ pc["cycle"] = "value"
    /\ GoTo("cycle", "rank")
    /\ UNCHANGED <<rows, book, halted, todo, cur, pending, closedAny, atFlatten, done, lateCycle>>

FaultHeld(s) == FALSE
Held(s) == s \in DOMAIN book

SkipSignal(s) ==
    /\ pc["cycle"] = "rank"
    /\ s \in pending
    /\ pending' = pending \ {s}
    /\ UNCHANGED <<rows, book, halted, pc, scan, todo, cur, closedAny, atFlatten, done, lateCycle>>

\* Fill, row and dict entry: the flatten sees only the last of them, since
\* it looks at positions and never at symbols it does not hold.
OpenFromSignal(s) ==
    /\ pc["cycle"] = "rank"
    /\ s \in pending
    /\ ~Held(s)
    /\ Cardinality(DOMAIN book) < MaxOpenPositions
    /\ Len(rows) < MaxTrades
    /\ rows' = Append(rows, [symbol |-> s, status |-> "OPEN", exits |-> 0])
    /\ book' = [t \in DOMAIN book \cup {s} |-> IF t = s THEN Len(rows) + 1 ELSE book[t]]
    /\ pending' = pending \ {s}
    /\ Disturb("cycle", "value")
    /\ UNCHANGED <<halted, todo, cur, closedAny, atFlatten, done, lateCycle>>

\* Done with the signals, or the book is full.
BeginManage ==
    /\ pc["cycle"] = "rank"
    /\ pending = {} \/ Cardinality(DOMAIN book) >= MaxOpenPositions
    /\ GoTo("cycle", "manage")
    /\ pending' = {}
    /\ todo' = [todo EXCEPT !["cycle"] = Listed]
    /\ UNCHANGED <<rows, book, halted, cur, closedAny, atFlatten, done, lateCycle>>

KeepPosition(i) ==
    /\ pc["cycle"] = "manage"
    /\ i \in todo["cycle"]
    /\ todo' = [todo EXCEPT !["cycle"] = @ \ {i}]
    /\ UNCHANGED <<rows, book, halted, pc, scan, cur, pending, closedAny, atFlatten, done, lateCycle>>

ExitPosition(i) ==
    /\ pc["cycle"] = "manage"
    /\ FillExit("cycle", i)
    /\ GoTo("cycle", "exit")
    /\ UNCHANGED <<book, halted, pending, closedAny, atFlatten, done, lateCycle>>

EndManage ==
    /\ pc["cycle"] = "manage"
    /\ todo["cycle"] = {}
    /\ GoTo("cycle", IF closedAny THEN "refresh" ELSE "idle")
    /\ closedAny' = FALSE
    /\ UNCHANGED <<rows, book, halted, todo, cur, pending, atFlatten, done, lateCycle>>

EndCycle ==
    /\ pc["cycle"] = "refresh"
    /\ GoTo("cycle", "idle")
    /\ UNCHANGED <<rows, book, halted, todo, cur, pending, closedAny, atFlatten, done, lateCycle>>

-----------------------------------------------------------------------------
Exit(j) ==
    \/ WalkRaises(j)
    \/ ListAll(j)
    \/ \E i \in todo[j] : SweepNext(j, i)
    \/ SweepDone(j)
    \/ CommitExit(j)
    \/ DropEntry(j)

Cycle ==
    \/ BeginCycle \/ Guard \/ RankNext \/ Latch
    \/ \E s \in Symbols : SkipSignal(s) \/ OpenFromSignal(s)
    \/ BeginManage
    \/ \E i \in todo["cycle"] : KeepPosition(i) \/ ExitPosition(i)
    \/ EndManage \/ EndCycle

RaceNext ==
    \/ BeginFlatten \/ EndFlatten
    \/ Cycle
    \/ \E j \in Jobs : Exit(j)

RaceSpec == RaceInit /\ [][RaceNext]_raceVars
-----------------------------------------------------------------------------
\* Every open row is in the dict, "in-memory mirror of an open DB position"
\* (execution_engine.py:46), where the next cycle manages it.  The jobs break it:
\* entries are dropped by symbol and not by position (_close_position), and the
\* symbol may be another position's by then.
NoneLost == \A i \in OpenIds : i \in Range(book)

\* The one way to lose a position: a cycle that began while the flatten ran has
\* opened it, and the flatten then drops its symbol for an earlier position, which
\* both jobs have sold (_close_position against process_signals).
LostForCause ==
    \A i \in OpenIds \ Range(book) :
        /\ lateCycle
        /\ \E k \in Ids : /\ k < i /\ rows[k].symbol = rows[i].symbol
                          /\ rows[k].exits > 1

\* The damage of an overlap is bounded: a position is sold at most once by
\* each job, never again by a later cycle.
SoldOncePerJob ==
    \A i \in Ids : rows[i].exits <= Cardinality(Jobs)

\* When the flatten job has run, nothing that was open when it began is
\* still open (app.py: "Flatten everything BEFORE the close").
FlattenEmptiesBook ==
    done => \A i \in atFlatten : rows[i].status = "CLOSED"

-----------------------------------------------------------------------------
(* The inductive invariants behind LostForCause and SoldOncePerJob.        *)

RaceRow == [symbol : Symbols, status : {"OPEN", "CLOSED"}, exits : Nat]

FlattenPcs == {"idle", "missing", "sweep", "sold", "drop", "refresh"}
CyclePcs == FlattenPcs \cup {"guard", "total", "value", "rank", "manage", "exit", "pop"}

\* Every variable has its type.
RaceTypeOK ==
    /\ rows \in Seq(RaceRow)
    /\ DOMAIN book \subseteq Symbols
    /\ book \in [DOMAIN book -> Nat]
    /\ halted \in BOOLEAN
    /\ pc \in [Jobs -> CyclePcs]
    /\ pc["flatten"] \in FlattenPcs
    /\ scan \in [Jobs -> {"none", "steady", "disturbed"}]
    /\ todo \in [Jobs -> SUBSET Nat]
    /\ cur \in [Jobs -> Nat \cup {None}]
    /\ pending \subseteq Symbols
    /\ closedAny \in BOOLEAN
    /\ atFlatten \subseteq Nat
    /\ done \in BOOLEAN
    /\ lateCycle \in BOOLEAN

\* The dict holds a row of the symbol it is keyed by.
BookShape ==
    \A s \in DOMAIN book : book[s] \in Ids /\ rows[book[s]].symbol = s

\* What a job has in its hands at each point of it.
Selling == {"exit", "sold", "pop", "drop"}

JobShape ==
    \A j \in Jobs :
        /\ todo[j] \subseteq Ids
        /\ pc[j] \notin {"manage", "sweep"} \cup Selling => todo[j] = {}
        /\ IF pc[j] \in Selling THEN cur[j] \in Ids ELSE cur[j] = None
        /\ pc[j] \in {"pop", "drop"} => rows[cur[j]].status = "CLOSED"

\* The positions a job is going to drop, or may be.
Listing(j) == todo[j] \cup ({cur[j]} \ {None})

\* Where the cycle may still enter.
Entering == {"guard", "value", "rank"}

\* As long as no cycle begins during the flatten, a job that drops by symbol drops
\* its own position or nothing: no other one is held under that symbol, and while
\* the cycle may still enter, the position itself is, so that the symbol is not
\* free.
DropsItsOwn ==
    \A j \in Jobs :
        /\ cur[j] \notin todo[j]
        /\ \A i \in Listing(j) :
              /\ rows[i].symbol \in DOMAIN book => book[rows[i].symbol] = i
              /\ pc["cycle"] \in Entering => rows[i].symbol \in DOMAIN book

RaceShape == RaceTypeOK /\ BookShape /\ JobShape

Unlost == RaceShape /\ DropsItsOwn /\ NoneLost

\* Whatever begins when: the cycle drops its own positions, since only it enters;
\* what the flatten has listed is of different symbols, and what is held under one
\* of them is that position or a later one.
Lists ==
    /\ \A j \in Jobs : cur[j] \notin todo[j]
    /\ \A i \in Listing("cycle") :
          rows[i].symbol \in DOMAIN book => book[rows[i].symbol] = i
    /\ \A i, k \in Listing("flatten") : rows[i].symbol = rows[k].symbol => i = k
    /\ \A i \in Listing("flatten") :
          rows[i].symbol \in DOMAIN book => book[rows[i].symbol] >= i

\* Every job that has a position in hand has sold it, and what the flatten has
\* listed left the dict because the cycle sold it too.
Sales ==
    /\ \A j \in Jobs, i \in Ids : cur[j] = i => rows[i].exits >= 1
    /\ \A i \in Ids : (\A j \in Jobs : cur[j] = i) => rows[i].exits >= 2
    /\ \A i \in Listing("flatten") \ Range(book) :
          rows[i].exits >= (IF cur["flatten"] = i THEN 2 ELSE 1)

LossInv ==
    /\ RaceShape /\ Lists /\ Sales
    /\ ~lateCycle => DropsItsOwn /\ NoneLost
    /\ LostForCause

\* A job may still sell what it has listed, and what it could list.
MaySell(j, i) == i \in todo[j] \/ (i \in Range(book) /\ cur[j] # i)

\* A row was sold by no more jobs than may no longer sell it.
SoldFor == \A i \in Ids : rows[i].exits <= Cardinality({j \in Jobs : ~MaySell(j, i)})
=============================================================================
