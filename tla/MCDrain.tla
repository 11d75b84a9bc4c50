------------------------------ MODULE MCDrain ------------------------------
(* Instances of Drain for TLC.                                             *)
EXTENDS Drain

CONSTANTS loop, hand

MCDrains == {loop, hand}
MCLooping == {loop}
MCMine == {1, 2, 4}

Alone(sqlite, size, limit) ==
    [sqlite |-> sqlite, drains |-> {loop}, calm |-> TRUE, limit |-> limit,
     size |-> size, faults |-> 1]

Together(sqlite, size, limit, faults) ==
    [sqlite |-> sqlite, drains |-> {loop, hand}, calm |-> FALSE, limit |-> limit,
     size |-> size, faults |-> faults]

(* A log of four messages that is never rotated, or after two messages.    *)
MCHosts ==
    {Alone(b, n, k) : b \in BOOLEAN, n \in {1, 4}, k \in {1, 2}}
      \cup {Together(FALSE, 1, 2, 1), Together(FALSE, 4, 1, 1)}
      \cup {Together(TRUE, 4, 2, 1), Together(TRUE, 1, 1, 0)}
=============================================================================
