---------------------------- MODULE TradingDesk ----------------------------
(***************************************************************************)
(* What the execution engine promises to whoever reads its database: a     *)
(* symbol is flat or held on one side; a day that is halted is flat and    *)
(* stays flat; only a new day lifts the halt; the book never outgrows its  *)
(* limit.  Prices, fills, jobs, crashes and restarts are all out of sight. *)
(***************************************************************************)
EXTENDS Integers, FiniteSets

CONSTANTS Symbols, MaxOpenPositions

VARIABLES
    day,        \* the calendar day
    book,       \* what is held of each symbol
    halted      \* whether trading is halted for the day

deskVars == <<day, book, halted>>

Holding == {"flat", "BUY", "SELL"}

Held == {s \in Symbols : book[s] # "flat"}

DeskInit ==
    /\ day = 1
    /\ book = [s \in Symbols |-> "flat"]
    /\ halted = FALSE

Enter(s, side) ==
    /\ ~halted
    /\ book[s] = "flat"
    /\ Cardinality(Held) < MaxOpenPositions
    /\ book' = [book EXCEPT ![s] = side]
    /\ UNCHANGED <<day, halted>>

Exit(s) ==
    /\ book[s] # "flat"
    /\ book' = [book EXCEPT ![s] = "flat"]
    /\ UNCHANGED <<day, halted>>

Halt ==
    /\ Held = {}
    /\ halted' = TRUE
    /\ UNCHANGED <<day, book>>

NewDay ==
    /\ day' = day + 1
    /\ halted' = FALSE
    /\ UNCHANGED book

DeskNext ==
    \/ \E s \in Symbols, side \in {"BUY", "SELL"} : Enter(s, side)
    \/ \E s \in Symbols : Exit(s)
    \/ Halt
    \/ NewDay

DeskSpec == DeskInit /\ [][DeskNext]_deskVars
=============================================================================
