-------------------------- MODULE RegistryContract --------------------------
(***************************************************************************)
(* What the registry of the bus promises its listeners (server.py: hello,  *)
(* rename, _unregister), as a service that hands out names: a name goes to *)
(* a session only while no other session holds it, nobody but the session  *)
(* itself or a restart takes it away again, and a listener that can still  *)
(* read never loses its entry.                                             *)
(***************************************************************************)
CONSTANTS Sessions,
          NoName       \* the name of a listener without one: held by any number

VARIABLES held,        \* the name each session's entry carries: {} without entry
          listening    \* whether a listener of the session can still read

vars == <<held, listening>>

Init == /\ held = [s \in Sessions |-> {}]
        /\ listening = [s \in Sessions |-> FALSE]

Free(n, s) == n = NoName \/ \A t \in Sessions \ {s} : n \notin held[t]

\* The entry of s carries a name that no other session holds.
Takes(s) == \E n \in held'[s] : held'[s] = {n} /\ Free(n, s)

\* A session's new listener takes the place of one that reads no more.
Enters(s) == ~listening[s] /\ Takes(s)

Renamed(s) == held[s] # {} /\ listening'[s] = listening[s] /\ Takes(s)

FallsSilent(s) == listening[s] /\ ~listening'[s] /\ held'[s] = held[s]

Leaves(s) == held[s] # {} /\ held'[s] = {} /\ ~listening'[s]

\* One session is concerned, the others keep what they have.
Step(s) ==
  /\ \A t \in Sessions \ {s} : held'[t] = held[t] /\ listening'[t] = listening[t]
  /\ Enters(s) \/ Renamed(s) \/ FallsSilent(s) \/ Leaves(s)

Restarts == \A s \in Sessions : held'[s] = {} /\ ~listening'[s]

Next == (\E s \in Sessions : Step(s)) \/ Restarts

Spec == Init /\ [][Next]_vars
=============================================================================
