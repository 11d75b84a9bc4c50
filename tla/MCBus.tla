-------------------------------- MODULE MCBus --------------------------------
(***************************************************************************)
(* Instances of Bus for TLC: a1 and a2 are two processes of the agent      *)
(* luffy (a re-armed monitor, or a second session in the same directory,   *)
(* that falls back to luffy-2), b is another agent.                        *)
(***************************************************************************)
EXTENDS Bus, TLC

CONSTANTS c1, c2, c3, a1, a2, b, luffy, luffy2, zoro

MCFirstName == [s \in Sessions |-> IF s = b THEN zoro ELSE luffy]
MCFallback == [n \in Names |-> IF n = luffy THEN luffy2 ELSE Stopped]
MCExtends == {<<luffy2, luffy>>}

\* The sessions table decides only where a message is queued: it matters while
\* one can be.
Addresses ==
  IF \E m \in Messages : msgs[m].kind = "unused" THEN <<known, before>> ELSE <<>>

\* What the future and the properties depend on: of the swallowed messages, those
\* that no agent was handed.
ModuloHistory ==
  <<registry, hellos, asks, conn, Addresses, msgs, rows, reached, swallowed \ reached>>

\* Without messages nobody asks for the session seen last.
WithoutMessages == <<registry, hellos, asks, conn, known>>

ConnSymmetry == Permutations(Conns)
=============================================================================
