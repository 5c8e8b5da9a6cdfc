---------------------------- MODULE MCLifecycle ----------------------------
(* Two days of the calendar, one that closes early and an ordinary one.    *)
EXTENDS Lifecycle, TLC

CONSTANTS A, B

TwoSessions ==
    [d \in {1, 2} |-> [open |-> 570, close |-> IF d = 1 THEN 780 ELSE 960]]

\* Midnight, the jobs' times, the middle of a session, and instants that are
\* too late for a job.
SomeInstants == {0, 420, 600, 955, 1000, 1100}

\* Nothing tells the symbols apart.
Symmetry == Permutations(Symbols)
=============================================================================
