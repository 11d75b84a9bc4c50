------------------------------ MODULE BusWrites ------------------------------
(***************************************************************************)
(* Bus with a history of its sockets: which messages each one has taken    *)
(* from the server, whoever wrote them.  A listener's socket is written to *)
(* by its own handler (_replay_queued) and by the handlers of whoever      *)
(* sends to it (_handle_send, _handle_broadcast), and none of them knows   *)
(* what the others are about to write.  The history follows Bus step by    *)
(* step and takes part in nothing.                                         *)
(***************************************************************************)
EXTENDS Bus

VARIABLE written  \* history: how often each socket took each message, up to 2

varsW == <<vars, written>>

NothingWritten == [m \in Messages |-> 0]

\* A handler at work on a request begins to send m to c.
SendsDirect(c, m) ==
  \E d \in Conns :
    /\ conn[d].pc = "idle" /\ conn'[d].pc = "sending"
    /\ conn'[d].peer = c /\ m \in conn'[d].todo

SendsToAll(c, m) ==
  /\ msgs[m].kind = "unused" /\ msgs'[m].kind = "broadcast"
  /\ \E s \in Agents \ {msgs'[m].from} : registry[s] = c

\* In this step the server writes m to the socket of c.  The send of a closed
\* one raises and writes nothing.
Takes(c, m) ==
  /\ conn[c].sock # "closed"
  /\ Pushes(c, m) \/ SendsDirect(c, m) \/ SendsToAll(c, m)

\* A closed socket takes nothing more: its count is dropped.
Writes ==
  written' = [c \in Conns |->
    IF conn'[c].sock = "closed" THEN NothingWritten
    ELSE [m \in Messages |->
      IF Takes(c, m) /\ written[c][m] < 2 THEN written[c][m] + 1 ELSE written[c][m]]]

InitW == Init /\ written = [c \in Conns |-> NothingWritten]
NextW == Next /\ Writes
SpecW == InitW /\ [][NextW]_varsW

-----------------------------------------------------------------------------
\* No socket takes a message twice: a direct or a broadcast that reaches a
\* listener between its registration and the replay of its hello is not among
\* what the replay then finds pending, and a replay, however its awaits
\* interleave with sends, drains and marks, repeats nothing of its own.  (A
\* message may be written again to the session's next socket.)
\* (_handle_hello, _replay_queued, _handle_send, _handle_broadcast)
WrittenOnce ==
  \A c \in Conns : \A m \in Messages : written[c][m] < 2
=============================================================================
