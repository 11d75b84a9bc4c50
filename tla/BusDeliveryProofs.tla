------------------------- MODULE BusDeliveryProofs -------------------------
(***************************************************************************)
(* Theorems about Bus on what its sqlite rows say: the sessions table knows *)
(* who is served, and a direct that vanished was written to a half-open    *)
(* socket.                                                                 *)
(***************************************************************************)
EXTENDS BusProofs

----------------------------------------------------------------------------
(* Whoever a handler serves is active in the sessions table.               *)

Serving == {"replaying", "idle", "sending"}

\* A step that serves no new listener and writes no served one's row.
LEMMA ServedKept ==
  ASSUME ServedListenersActive,
         \A d \in Conns : Registered(d)' /\ conn'[d].pc \in Serving =>
           /\ Registered(d) /\ conn[d].pc \in Serving
           /\ conn'[d].sid = conn[d].sid
           /\ known'[conn[d].sid].status = known[conn[d].sid].status
  PROVE  ServedListenersActive'
BY DEF ServedListenersActive, Serving

LEMMA ReplayServes ==
  ASSUME TypeOK, NEW c \in Conns, NEW S, Replay(c, S)
  PROVE  /\ conn'[c].pc \in {"idle", "replaying"}
         /\ \A d \in Conns :
              /\ conn'[d].sid = conn[d].sid /\ conn'[d].role = conn[d].role
              /\ d # c => conn'[d] = conn[d]
<1>1. conn[c] \in ConnState
  BY DEF TypeOK
<1> DEFINE after == IF S = {} THEN [conn[c] EXCEPT !.pc = "idle", !.todo = {}]
                    ELSE [conn[c] EXCEPT !.pc = "replaying", !.todo = S]
<1>2. /\ after.pc \in {"idle", "replaying"}
      /\ after.sid = conn[c].sid /\ after.role = conn[c].role
  BY <1>1 DEF ConnState
<1>3. conn' = [conn EXCEPT ![c] = after]
  BY DEF Replay
<1> HIDE DEF after
<1> QED
  BY <1>2, <1>3 DEF TypeOK

LEMMA ServedEnvironment ==
  ASSUME Inv, ServedListenersActive, Environment
  PROVE  ServedListenersActive'
<1>0. TypeOK
  BY DEF Inv
<1>1. CASE \E c \in Conns : Drop(c)
  <2> PICK c \in Conns : Drop(c)
    BY <1>1
  <2>1. PICK k \in {"half", "closed"} : conn' = [conn EXCEPT ![c].sock = k]
    BY DEF Drop
  <2>2. \A d \in Conns : /\ conn'[d].sid = conn[d].sid /\ conn'[d].role = conn[d].role
                         /\ conn'[d].pc = conn[d].pc
    BY <1>0, <2>1 DEF TypeOK, ConnState
  <2> QED
    BY <2>2, ServedKept DEF Drop, Registered, Agents
<1>2. CASE Restart
  <2>1. \A d \in Conns : conn'[d].pc = "free"
    BY <1>2 DEF Restart, FreeConn
  <2> QED
    BY <2>1 DEF ServedListenersActive
<1>3. CASE UNCHANGED <<conn, registry, known>>
  BY <1>3 DEF ServedListenersActive, Registered, Agents
<1> QED
  BY <1>1, <1>2, <1>3 DEF Environment, HostDrains, HostReads, Age

LEMMA ServedHello ==
  ASSUME Inv, ServedListenersActive, NEW c \in Conns, Hello(c)
  PROVE  ServedListenersActive'
<1>0. TypeOK /\ BusAssumption
  BY BusAssumption DEF Inv
<1> PICK s \in Sessions, sock \in {"open", "half", "closed"} :
      HelloAgent(c, s, sock) \/ HelloNameTaken(c, s, sock)
  BY DEF Hello
<1>1. CASE HelloAgent(c, s, sock)
  <2> USE <1>1
  <2>1. conn'[c].pc = "welcome"
    BY DEF HelloAgent, FreeConn
  <2>2. ASSUME NEW d \in Conns, d # c
        PROVE  /\ conn'[d].sid = conn[d].sid /\ conn'[d].role = conn[d].role
               /\ conn'[d].pc = conn[d].pc
    BY <1>0, <2>2 DEF HelloAgent, TypeOK, ConnState
  <2>3. /\ UNCHANGED known
        /\ \A t \in Sessions : registry'[t] = registry[t] \/ registry'[t] = c
    BY <1>0 DEF HelloAgent, TypeOK
  <2>4. ASSUME NEW d \in Conns, Registered(d)', conn'[d].pc \in Serving
        PROVE  /\ Registered(d) /\ conn[d].pc \in Serving
               /\ conn'[d].sid = conn[d].sid
    <3>1. d # c
      BY <2>1, <2>4 DEF Serving
    <3>2. conn'[d].sid \in Sessions /\ registry'[conn'[d].sid] = d /\ conn'[d].role = "agent"
      BY <2>4 DEF Registered, Agents
    <3>3. registry[conn[d].sid] = d
      BY <2>2, <2>3, <3>1, <3>2
    <3> QED
      BY <1>0, <2>2, <2>4, <3>1, <3>2, <3>3 DEF Registered, Agents, BusAssumption
  <2> QED
    BY <2>3, <2>4, ServedKept
<1>2. CASE HelloNameTaken(c, s, sock)
  <2>1. \A d \in Conns : Registered(d)' => Registered(d)
    BY <1>0, <1>2 DEF HelloNameTaken, TypeOK, Registered, Agents, BusAssumption
  <2> QED
    BY <1>2, <2>1, ServedKept DEF HelloNameTaken
<1> QED
  BY <1>1, <1>2

LEMMA ServedProceed ==
  ASSUME Inv, ServedListenersActive, NEW c \in Conns, Proceed(c)
  PROVE  ServedListenersActive'
<1>0. TypeOK /\ HandlersSpeak /\ conn[c] \in ConnState
  BY DEF Inv, TypeOK
<1>1. CASE Welcomed(c) \/ WelcomeFails(c)
  <2>1. conn'[c].pc \notin Serving /\ \A d \in Conns : d # c => conn'[d] = conn[d]
    <3>1. CASE Welcomed(c)
      <4>1. conn' = [conn EXCEPT ![c] = [conn[c] EXCEPT !.pc = "joining"]]
        BY <3>1 DEF Welcomed
      <4>2. [conn[c] EXCEPT !.pc = "joining"].pc = "joining"
        BY <1>0 DEF ConnState
      <4> QED
        BY <1>0, <4>1, <4>2 DEF TypeOK, Serving
    <3>2. CASE WelcomeFails(c)
      BY <1>0, <3>2 DEF WelcomeFails, TypeOK, FreeConn, Serving
    <3> QED
      BY <1>1, <3>1, <3>2
  <2> QED
    BY <1>1, <2>1, ServedKept DEF Welcomed, WelcomeFails, Registered, Agents
<1>2. CASE Join(c)
  <2> DEFINE s == conn[c].sid
  <2>1. PICK S : Replay(c, S)
    BY <1>2 DEF Join
  <2>2. /\ s \in Sessions
        /\ known' = [known EXCEPT ![s] = [name |-> conn[c].name, status |-> "active"]]
        /\ UNCHANGED registry
    BY <1>0, <1>2 DEF Join, HandlersSpeak, Running
  <2>3. known'[s].status = "active" /\ \A t \in Sessions : t # s => known'[t] = known[t]
    BY <1>0, <2>2 DEF TypeOK
  <2>4. \A d \in Conns : /\ conn'[d].sid = conn[d].sid /\ conn'[d].role = conn[d].role
                         /\ d # c => conn'[d] = conn[d]
    BY <1>0, <2>1, ReplayServes
  <2>5. ASSUME NEW d \in Conns, Registered(d)', conn'[d].pc \in Serving
        PROVE  known'[conn'[d].sid].status = "active"
    <3>1. conn[d].sid \in Sessions /\ Registered(d)
      BY <2>2, <2>4, <2>5 DEF Registered, Agents
    <3>2. CASE conn[d].sid = s
      BY <2>3, <2>4, <3>2
    <3>3. CASE conn[d].sid # s
      <4>1. d # c
        BY <3>3
      <4> QED
        BY <2>3, <2>4, <2>5, <3>1, <3>3, <4>1 DEF ServedListenersActive, Serving
    <3> QED
      BY <3>2, <3>3
  <2> QED
    BY <2>5 DEF ServedListenersActive, Serving
<1>3. CASE Replayed(c) \/ ReplayFails(c)
  <2>1. PICK S : Replay(c, S)
    BY <1>3 DEF Replayed, ReplayFails
  <2>2. \A d \in Conns : /\ conn'[d].sid = conn[d].sid /\ conn'[d].role = conn[d].role
                         /\ d # c => conn'[d] = conn[d]
    BY <1>0, <2>1, ReplayServes
  <2>3. conn[c].pc \in Serving /\ UNCHANGED <<registry, known>>
    BY <1>3 DEF Replayed, ReplayFails, Serving
  <2> QED
    BY <2>2, <2>3, ServedKept DEF Registered, Agents
<1>4. CASE Sent(c)
  <2>1. conn[c].pc \in Serving /\ UNCHANGED <<registry, known>>
    BY <1>4 DEF Sent, Serving
  <2>2. \A d \in Conns : /\ conn'[d].sid = conn[d].sid /\ conn'[d].role = conn[d].role
                         /\ d # c => conn'[d] = conn[d]
    BY <1>0, <1>4 DEF Sent, TypeOK, ConnState
  <2> QED
    BY <2>1, <2>2, ServedKept DEF Registered, Agents
<1> QED
  BY <1>1, <1>2, <1>3, <1>4 DEF Proceed

LEMMA ServedRequest ==
  ASSUME Inv, ServedListenersActive, NEW c \in Conns, Request(c)
  PROVE  ServedListenersActive'
<1>0. TypeOK /\ HandlersSpeak /\ EntriesOwned /\ BusAssumption /\ conn[c] \in ConnState
  BY BusAssumption DEF Inv, TypeOK
<1>1. CASE \E s \in Sessions : HelloControl(c, s)
  <2> PICK s \in Sessions : HelloControl(c, s)
    BY <1>1
  <2>1. conn'[c].role = "control" /\ \A d \in Conns : d # c => conn'[d] = conn[d]
    BY <1>0 DEF HelloControl, TypeOK, FreeConn
  <2> QED
    BY <2>1, ServedKept DEF HelloControl, Registered, Agents
<1>2. ASSUME NEW m \in Messages, NEW r, NEW t, SendDirect(c, t, m, r)
      PROVE  ServedListenersActive'
  <2>1. PICK p : conn' = [conn EXCEPT ![c].pc = "sending", ![c].peer = p, ![c].todo = {m}]
    BY <1>2, Zenon DEF SendDirect
  <2>2. conn[c].pc = "idle" /\ UNCHANGED <<registry, known>>
    BY <1>2, Zenon DEF SendDirect, Dispatching
  <2>3. \A d \in Conns : /\ conn'[d].sid = conn[d].sid /\ conn'[d].role = conn[d].role
                         /\ d # c => conn'[d] = conn[d]
    BY <1>0, <2>1 DEF TypeOK, ConnState
  <2>4. \A d \in Conns : conn'[d].pc \in Serving => conn[d].pc \in Serving
    BY <2>2, <2>3 DEF Serving
  <2> QED
    BY <2>2, <2>3, <2>4, ServedKept DEF Registered, Agents
<1>3. CASE \E n \in RenameNames : Rename(c, n)
  <2> PICK n \in RenameNames : Rename(c, n)
    BY <1>3
  <2> DEFINE e == registry[conn[c].sid]
             entry == [conn EXCEPT ![e] = [conn[e] EXCEPT !.name = n]]
  <2>0. e \in Conns /\ conn' = [entry EXCEPT ![c] = [entry[c] EXCEPT !.name = n]]
    BY <1>0, LiveNamed DEF Rename
  <2>1. /\ entry \in [Conns -> ConnState]
        /\ \A d \in Conns : /\ entry[d].sid = conn[d].sid /\ entry[d].role = conn[d].role
                            /\ entry[d].pc = conn[d].pc
    <3>1. n \in Names \cup {NoName} /\ [conn[e] EXCEPT !.name = n] \in ConnState
      BY <1>0, <2>0, ConnTyped DEF BusAssumption, TypeOK
    <3> QED
      BY <1>0, <2>0, <3>1 DEF TypeOK, ConnState
  <2> HIDE DEF entry
  <2>2. \A d \in Conns : /\ conn'[d].sid = conn[d].sid /\ conn'[d].role = conn[d].role
                         /\ conn'[d].pc = conn[d].pc
    BY <2>0, <2>1 DEF ConnState
  <2> QED
    BY <2>2, ServedKept DEF Rename, Registered, Agents
<1>4. CASE Leave(c)
  <2> DEFINE s == conn[c].sid
  <2>0. s \in Sessions
    BY <1>0, <1>4 DEF Leave, HandlersSpeak, Running
  <2>1. conn'[c].pc = "free" /\ \A d \in Conns : d # c => conn'[d] = conn[d]
    BY <1>0, <1>4 DEF Leave, TypeOK, FreeConn
  <2>2. \/ UNCHANGED <<registry, known>>
        \/ /\ registry[s] = c
           /\ registry' = [registry EXCEPT ![s] = NoConn]
           /\ known' = [known EXCEPT ![s].status = "ended"]
    BY <1>4 DEF Leave
  <2>3. ASSUME NEW d \in Conns, Registered(d)', conn'[d].pc \in Serving
        PROVE  /\ Registered(d) /\ conn[d].pc \in Serving
               /\ conn'[d].sid = conn[d].sid
               /\ known'[conn[d].sid].status = known[conn[d].sid].status
    <3>1. d # c /\ conn'[d] = conn[d]
      BY <2>1, <2>3 DEF Serving
    <3>2. conn[d].sid \in Sessions /\ conn[d].role = "agent" /\ registry'[conn[d].sid] = d
      BY <2>3, <3>1 DEF Registered, Agents
    <3>3. CASE UNCHANGED <<registry, known>>
      BY <2>3, <3>1, <3>3 DEF Registered, Agents
    <3>4. CASE /\ registry[s] = c
               /\ registry' = [registry EXCEPT ![s] = NoConn]
               /\ known' = [known EXCEPT ![s].status = "ended"]
      <4>1. conn[d].sid # s
        BY <1>0, <2>0, <3>2, <3>4 DEF TypeOK, BusAssumption
      <4>2. registry[conn[d].sid] = d /\ known'[conn[d].sid] = known[conn[d].sid]
        BY <1>0, <3>2, <3>4, <4>1 DEF TypeOK
      <4> QED
        BY <1>0, <2>3, <3>1, <3>2, <4>2 DEF Registered, Agents, BusAssumption
    <3> QED
      BY <2>2, <3>3, <3>4
  <2> QED
    BY <2>3, ServedKept
<1>5. CASE UNCHANGED <<conn, registry, known>>
  BY <1>5 DEF ServedListenersActive, Registered, Agents
<1> QED
  BY <1>1, <1>2, <1>3, <1>4, <1>5 DEF Request, SendQueued, Broadcast, Ping

\* The listener a handler serves is active in the sessions table, for any
\* number of sessions and of handlers of one session that end in any order.
THEOREM ServedAreActive == Spec => []ServedListenersActive
<1>1. Init => ServedListenersActive
  BY DEF Init, ServedListenersActive, FreeConn
<1>2. Inv /\ ServedListenersActive /\ [Next]_vars => ServedListenersActive'
  <2> SUFFICES ASSUME Inv, ServedListenersActive, [Next]_vars PROVE ServedListenersActive'
    OBVIOUS
  <2>1. CASE UNCHANGED vars
    BY <2>1 DEF vars, ServedListenersActive, Registered, Agents
  <2> QED
    BY <2>1, ServedEnvironment, ServedHello, ServedProceed, ServedRequest DEF Next
<1> QED
  BY <1>1, <1>2, Invariance, PTL DEF Spec

----------------------------------------------------------------------------
(* Nothing vanishes but into a half-open socket.  A row is marked after an *)
(* await: what makes the mark safe is that the write before the await      *)
(* reached somebody, or a half-open socket, or a socket that is closed and *)
(* cannot be opened again while a handler still refers to it.              *)

WrittenTo(m, d) == m \in reached \/ m \in swallowed \/ conn[d].sock = "closed"

\* The message handler c awaits the end of a write of.
Writing(c) ==
  /\ conn[c].pc = "replaying" => WrittenTo(Oldest(conn[c].todo), c)
  /\ conn[c].pc = "sending" => /\ conn[c].peer \in Conns
                               /\ WrittenTo(Oldest(conn[c].todo), conn[c].peer)

WritesRecorded == \A c \in Conns : Writing(c)

\* A message id that is not used has no rows to attach or to answer.
UnusedUnsent ==
  \A m \in Messages : msgs[m].kind = "unused" => \A s \in Sessions : rows[m][s] = "absent"

DeliveryInv == WritesRecorded /\ UnusedUnsent /\ LostOnlyToHalfOpenSockets

HistoryGrows == reached \subseteq reached' /\ swallowed \subseteq swallowed'

\* A socket that broke stays broken while a handler refers to it.
BrokenStaysBroken ==
  \A d \in Conns : conn[d].sock = "closed" /\ ~Unused(d) => conn'[d].sock = "closed"

LEMMA OldestOfOne == BusAssumption => \A m \in Messages : Oldest({m}) = m
BY DEF Oldest, BusAssumption

LEMMA WritesKept ==
  ASSUME WritesRecorded, HistoryGrows, BrokenStaysBroken,
         \A e \in Conns :
           \/ conn'[e].pc \notin {"replaying", "sending"}
           \/ /\ conn'[e].pc = conn[e].pc /\ conn'[e].todo = conn[e].todo
              /\ conn'[e].peer = conn[e].peer
           \/ Writing(e)'
  PROVE  WritesRecorded'
<1> SUFFICES ASSUME NEW e \in Conns,
                    conn'[e].pc \in {"replaying", "sending"},
                    conn'[e].pc = conn[e].pc, conn'[e].todo = conn[e].todo,
                    conn'[e].peer = conn[e].peer
             PROVE  Writing(e)'
  BY DEF WritesRecorded, Writing
<1>1. Writing(e)
  BY DEF WritesRecorded
<1>2. CASE conn[e].pc = "replaying"
  <2>1. ~Unused(e)
    BY <1>2 DEF Unused
  <2> QED
    BY <1>1, <1>2, <2>1 DEF Writing, WrittenTo, HistoryGrows, BrokenStaysBroken
<1>3. CASE conn[e].pc = "sending"
  <2>1. conn[e].peer \in Conns /\ ~Unused(conn[e].peer)
    BY <1>1, <1>3 DEF Unused, Writing
  <2> QED
    BY <1>1, <1>3, <2>1 DEF Writing, WrittenTo, HistoryGrows, BrokenStaysBroken
<1> QED
  BY <1>2, <1>3

\* Every replay records the write of its next message.
LEMMA ReplayWrites ==
  ASSUME TypeOK, WritesRecorded, NEW c \in Conns, NEW S, Replay(c, S)
  PROVE  HistoryGrows /\ WritesRecorded'
<1>0. conn[c] \in ConnState
  BY DEF TypeOK
<1>1. HistoryGrows
  BY DEF Replay, Handed, Lost, HistoryGrows
<1>2. CASE S = {}
  <2>1. conn' = [conn EXCEPT ![c].pc = "idle", ![c].todo = {}]
    BY <1>2 DEF Replay
  <2>2. /\ conn'[c].pc = "idle" /\ conn'[c].sock = conn[c].sock
        /\ \A e \in Conns : e # c => conn'[e] = conn[e]
    BY <1>0, <2>1 DEF TypeOK, ConnState
  <2> QED
    BY <1>1, <2>2, WritesKept DEF BrokenStaysBroken
<1>3. CASE S # {}
  <2>1. conn' = [conn EXCEPT ![c].pc = "replaying", ![c].todo = S]
    BY <1>3 DEF Replay
  <2>2. /\ conn'[c].pc = "replaying" /\ conn'[c].sock = conn[c].sock
        /\ conn'[c].todo = S
        /\ \A e \in Conns : e # c => conn'[e] = conn[e]
    BY <1>0, <2>1 DEF TypeOK, ConnState
  <2>3. reached' = Handed(Oldest(S), c) /\ swallowed' = Lost(Oldest(S), c)
    BY <1>3 DEF Replay
  <2>4. Oldest(S) \in reached' \/ Oldest(S) \in swallowed' \/ conn[c].sock = "closed"
    BY <1>0, <2>3 DEF Handed, Lost, ConnState
  <2>5. Writing(c)'
    BY <2>2, <2>4 DEF Writing, WrittenTo
  <2> QED
    BY <1>1, <2>2, <2>5, WritesKept DEF BrokenStaysBroken
<1> QED
  BY <1>1, <1>2, <1>3

LEMMA EnvironmentWrites ==
  ASSUME Inv, WritesRecorded, Environment
  PROVE  HistoryGrows /\ WritesRecorded'
<1>0. TypeOK
  BY DEF Inv
<1>1. CASE \E c \in Conns : Drop(c)
  <2> PICK c \in Conns : Drop(c)
    BY <1>1
  <2>1. PICK k \in {"half", "closed"} :
          /\ conn' = [conn EXCEPT ![c].sock = k]
          /\ conn[c].sock # "closed"
    BY DEF Drop
  <2>2. \A d \in Conns :
          /\ conn'[d].pc = conn[d].pc /\ conn'[d].todo = conn[d].todo
          /\ conn'[d].peer = conn[d].peer
          /\ conn'[d].sock = IF d = c THEN k ELSE conn[d].sock
    BY <1>0, <2>1 DEF TypeOK, ConnState
  <2>3. BrokenStaysBroken
    BY <2>1, <2>2 DEF BrokenStaysBroken
  <2>4. HistoryGrows
    BY DEF Drop, HistoryGrows
  <2> QED
    BY <2>2, <2>3, <2>4, WritesKept
<1>2. CASE Restart
  <2>1. \A d \in Conns : conn'[d].pc = "free"
    BY <1>2 DEF Restart, FreeConn
  <2> QED
    BY <1>2, <2>1 DEF Restart, HistoryGrows, WritesRecorded, Writing
<1>3. CASE UNCHANGED conn /\ HistoryGrows
  BY <1>3, WritesKept DEF BrokenStaysBroken
<1> QED
  BY <1>1, <1>2, <1>3 DEF Environment, HostDrains, HostReads, Age, HistoryGrows

LEMMA HelloWrites ==
  ASSUME Inv, WritesRecorded, NEW c \in Conns, Hello(c)
  PROVE  HistoryGrows /\ WritesRecorded'
<1>0. TypeOK
  BY DEF Inv
<1> PICK s \in Sessions, sock \in {"open", "half", "closed"} :
      HelloAgent(c, s, sock) \/ HelloNameTaken(c, s, sock)
  BY DEF Hello
<1>1. CASE HelloAgent(c, s, sock)
  <2> USE <1>1
  <2>1. conn'[c].pc = "welcome" /\ Unused(c)
    BY DEF HelloAgent, FreeConn, Connects
  <2>2. ASSUME NEW d \in Conns, d # c
        PROVE  /\ conn'[d].pc = conn[d].pc /\ conn'[d].todo = conn[d].todo
               /\ conn'[d].peer = conn[d].peer
               /\ conn'[d].sock \in {"closed", conn[d].sock}
    BY <1>0, <2>2 DEF HelloAgent, TypeOK, ConnState
  <2>3. HistoryGrows /\ BrokenStaysBroken
    BY <2>1, <2>2 DEF HelloAgent, HistoryGrows, BrokenStaysBroken
  <2> QED
    BY <2>1, <2>2, <2>3, WritesKept
<1>2. CASE HelloNameTaken(c, s, sock)
  BY <1>2, WritesKept DEF HelloNameTaken, HistoryGrows, BrokenStaysBroken
<1> QED
  BY <1>1, <1>2

LEMMA ProceedWrites ==
  ASSUME Inv, WritesRecorded, NEW c \in Conns, Proceed(c)
  PROVE  HistoryGrows /\ WritesRecorded'
<1>0. TypeOK /\ conn[c] \in ConnState
  BY DEF Inv, TypeOK
<1>1. CASE Welcomed(c)
  <2>1. conn' = [conn EXCEPT ![c] = [conn[c] EXCEPT !.pc = "joining"]]
    BY <1>1 DEF Welcomed
  <2>2. /\ [conn[c] EXCEPT !.pc = "joining"].pc = "joining"
        /\ [conn[c] EXCEPT !.pc = "joining"].sock = conn[c].sock
    BY <1>0 DEF ConnState
  <2>3. conn'[c].pc = "joining" /\ conn'[c].sock = conn[c].sock
        /\ \A e \in Conns : e # c => conn'[e] = conn[e]
    BY <1>0, <2>1, <2>2 DEF TypeOK
  <2> QED
    BY <1>1, <2>3, WritesKept DEF Welcomed, HistoryGrows, BrokenStaysBroken
<1>2. CASE WelcomeFails(c)
  <2>1. conn'[c].pc = "dead" /\ conn'[c].sock = "closed"
        /\ \A e \in Conns : e # c => conn'[e] = conn[e]
    BY <1>0, <1>2 DEF WelcomeFails, TypeOK, FreeConn
  <2> QED
    BY <1>2, <2>1, WritesKept DEF WelcomeFails, HistoryGrows, BrokenStaysBroken
<1>3. CASE Join(c) \/ Replayed(c) \/ ReplayFails(c)
  <2>1. \E S : Replay(c, S)
    BY <1>3 DEF Join, Replayed, ReplayFails
  <2> QED
    BY <1>0, <2>1, ReplayWrites
<1>4. CASE Sent(c)
  <2>1. conn'[c].pc = "idle" /\ conn'[c].sock = conn[c].sock
        /\ \A e \in Conns : e # c => conn'[e] = conn[e]
    BY <1>0, <1>4 DEF Sent, TypeOK, ConnState
  <2> QED
    BY <1>4, <2>1, WritesKept DEF Sent, HistoryGrows, BrokenStaysBroken
<1> QED
  BY <1>1, <1>2, <1>3, <1>4 DEF Proceed

LEMMA SendWrites ==
  ASSUME Inv, WritesRecorded, BusAssumption, NEW c \in Conns, NEW m \in Messages,
         NEW r, NEW t, SendDirect(c, t, m, r)
  PROVE  HistoryGrows /\ WritesRecorded'
<1>0. TypeOK /\ conn[c] \in ConnState
  BY DEF Inv, TypeOK
<1>1. PICK s \in Matches(t) :
        /\ conn' = [conn EXCEPT ![c].pc = "sending", ![c].peer = registry[s], ![c].todo = {m}]
        /\ reached' = Handed(m, registry[s]) /\ swallowed' = Lost(m, registry[s])
  BY Zenon DEF SendDirect
<1> DEFINE p == registry[s]
<1>2. p \in Conns
  BY <1>0, MatchesLive, LiveNamed
<1> HIDE DEF p
<1>3. /\ conn'[c].pc = "sending" /\ conn'[c].peer = p /\ conn'[c].todo = {m}
      /\ \A d \in Conns : conn'[d].sock = conn[d].sock
      /\ \A d \in Conns : d # c => conn'[d] = conn[d]
  BY <1>0, <1>1 DEF TypeOK, ConnState, p
<1>4. m \in reached' \/ m \in swallowed' \/ conn[p].sock = "closed"
  <2>1. conn[p].sock \in {"open", "half", "closed"}
    BY <1>0, <1>2 DEF TypeOK, ConnState
  <2> QED
    BY <1>1, <2>1 DEF Handed, Lost, p
<1>5. Writing(c)'
  BY <1>2, <1>3, <1>4, OldestOfOne DEF Writing, WrittenTo
<1>6. HistoryGrows
  BY <1>1 DEF Handed, Lost, HistoryGrows
<1> QED
  BY <1>3, <1>5, <1>6, WritesKept DEF BrokenStaysBroken

LEMMA RequestWrites ==
  ASSUME Inv, WritesRecorded, NEW c \in Conns, Request(c)
  PROVE  HistoryGrows /\ WritesRecorded'
<1>0. TypeOK /\ BusAssumption /\ conn[c] \in ConnState
  BY BusAssumption DEF Inv, TypeOK
<1>1. CASE \E s \in Sessions : HelloControl(c, s)
  <2> PICK s \in Sessions : HelloControl(c, s)
    BY <1>1
  <2>1. /\ conn'[c].pc = "idle" /\ Unused(c)
        /\ \A e \in Conns : e # c => conn'[e] = conn[e]
    BY <1>0 DEF HelloControl, TypeOK, FreeConn
  <2> QED
    BY <2>1, WritesKept DEF HelloControl, HistoryGrows, BrokenStaysBroken
<1>2. ASSUME NEW m \in Messages, NEW r, NEW t, SendDirect(c, t, m, r)
      PROVE  HistoryGrows /\ WritesRecorded'
  BY <1>0, <1>2, SendWrites
<1>3. CASE \E n \in RenameNames : Rename(c, n)
  <2> PICK n \in RenameNames : Rename(c, n)
    BY <1>3
  <2> DEFINE e == registry[conn[c].sid]
             entry == [conn EXCEPT ![e] = [conn[e] EXCEPT !.name = n]]
  <2>0. e \in Conns /\ conn' = [entry EXCEPT ![c] = [entry[c] EXCEPT !.name = n]]
    BY <1>0, LiveNamed DEF Rename
  <2>1. /\ entry \in [Conns -> ConnState]
        /\ \A d \in Conns : /\ entry[d].pc = conn[d].pc /\ entry[d].todo = conn[d].todo
                            /\ entry[d].peer = conn[d].peer /\ entry[d].sock = conn[d].sock
    <3>1. n \in Names \cup {NoName} /\ [conn[e] EXCEPT !.name = n] \in ConnState
      BY <1>0, <2>0, ConnTyped DEF BusAssumption, TypeOK
    <3> QED
      BY <1>0, <2>0, <3>1 DEF TypeOK, ConnState
  <2> HIDE DEF entry
  <2>2. \A d \in Conns : /\ conn'[d].pc = conn[d].pc /\ conn'[d].todo = conn[d].todo
                         /\ conn'[d].peer = conn[d].peer /\ conn'[d].sock = conn[d].sock
    BY <2>0, <2>1 DEF ConnState
  <2>3. HistoryGrows /\ BrokenStaysBroken
    BY <2>2 DEF Rename, HistoryGrows, BrokenStaysBroken
  <2> QED
    BY <2>2, <2>3, WritesKept
<1>4. CASE Leave(c)
  <2>1. /\ conn'[c].pc = "free" /\ conn'[c].sock = "closed"
        /\ \A e \in Conns : e # c => conn'[e] = conn[e]
    BY <1>0, <1>4 DEF Leave, TypeOK, FreeConn
  <2> QED
    BY <1>4, <2>1, WritesKept DEF Leave, HistoryGrows, BrokenStaysBroken
<1>5. CASE UNCHANGED conn /\ HistoryGrows
  BY <1>5, WritesKept DEF BrokenStaysBroken
<1> QED
  BY <1>1, <1>2, <1>3, <1>4, <1>5 DEF Request, SendQueued, Broadcast, Ping, HistoryGrows

----------------------------------------------------------------------------
(* A row stops being outstanding only for a message that was handed out or *)
(* written to a half-open socket.                                          *)

Left(m) == m \in reached \/ m \in swallowed

\* What a step may do to the row of m and s.
RowKept(m, s) ==
  \/ rows'[m][s] = rows[m][s]
  \/ rows[m][s] = "absent" /\ msgs'[m].kind # "unused"
  \/ rows[m][s] # "absent" /\ rows'[m][s] \in {"pending", "delivered"}
  \/ rows[m][s] # "absent" /\ Left(m)'

\* A message accepted in this step has a row that waits for its session.
Accepted(m) ==
  \/ msgs'[m].kind = msgs[m].kind
  \/ /\ msgs'[m].kind # "unused"
     /\ msgs'[m].kind \in {"direct", "queued"} => Outstanding(rows', m)

LEMMA RowsKept ==
  ASSUME UnusedUnsent, LostOnlyToHalfOpenSockets, HistoryGrows,
         \A m \in Messages : Accepted(m) /\ \A s \in Sessions : RowKept(m, s)
  PROVE  UnusedUnsent' /\ LostOnlyToHalfOpenSockets'
<1>1. UnusedUnsent'
  <2> SUFFICES ASSUME NEW m \in Messages, msgs'[m].kind = "unused", NEW s \in Sessions
               PROVE  rows'[m][s] = "absent"
    BY DEF UnusedUnsent
  <2>1. rows[m][s] = "absent"
    BY DEF Accepted, UnusedUnsent
  <2> QED
    BY <2>1 DEF RowKept
<1>2. LostOnlyToHalfOpenSockets'
  <2> SUFFICES ASSUME NEW m \in Messages, msgs'[m].kind \in {"direct", "queued"}
               PROVE  m \in reached' \/ Outstanding(rows', m) \/ m \in swallowed'
    BY DEF LostOnlyToHalfOpenSockets
  <2>1. CASE msgs'[m].kind # msgs[m].kind
    BY <2>1 DEF Accepted
  <2>2. CASE msgs'[m].kind = msgs[m].kind
    <3>1. CASE Left(m)
      BY <3>1 DEF Left, HistoryGrows
    <3>2. CASE Outstanding(rows, m)
      <4> PICK s \in Sessions : rows[m][s] \in {"pending", "delivered"}
        BY <3>2 DEF Outstanding
      <4>1. rows'[m][s] \in {"pending", "delivered"} \/ Left(m)'
        BY DEF RowKept
      <4> QED
        BY <4>1 DEF Outstanding, Left
    <3> QED
      BY <2>2, <3>1, <3>2 DEF LostOnlyToHalfOpenSockets, Left
  <2> QED
    BY <2>1, <2>2
<1> QED
  BY <1>1, <1>2

LEMMA ConsumedRow ==
  \A r \in Rows : \A m, s : \A k \in Messages : \A t \in Sessions :
    LET q == Consumed(r, m, s) IN q[k][t] = r[k][t] \/ (k = m /\ r[k][t] # "absent")
BY DEF Consumed, Rows

LEMMA AnsweredRow ==
  \A r \in Rows : \A m, s : \A k \in Messages : \A t \in Sessions :
    \/ Answered(r, m, s)[k][t] = r[k][t]
    \/ k = m /\ m # NoMessage /\ r[k][t] # "absent"
BY DEF Answered, Rows

LEMMA RecipientsOfOne ==
  \A r \in Rows : \A m, S : \A k \in Messages : \A t \in Sessions :
    LET q == Recipients(r, m, S)
    IN  /\ q[k][t] = r[k][t] \/ (k = m /\ r[k][t] = "absent" /\ q[k][t] = "pending")
        /\ k = m /\ t \in S /\ r[k][t] = "absent" => q[k][t] = "pending"
BY DEF Recipients, Rows

LEMMA EnvironmentRows ==
  ASSUME Inv, Environment, NEW m \in Messages
  PROVE  Accepted(m) /\ \A s \in Sessions : RowKept(m, s)
<1>0. TypeOK
  BY DEF Inv
<1>1. CASE \E k \in Messages, t \in Sessions : HostDrains(k, t) \/ HostReads(k, t)
  <2> PICK k \in Messages, t \in Sessions : HostDrains(k, t) \/ HostReads(k, t)
    BY <1>1
  <2>1. PICK v \in {"delivered", "read"} : rows' = [rows EXCEPT ![k][t] = v]
    BY DEF HostDrains, HostReads
  <2>2. rows[k][t] \in {"pending", "delivered"} /\ k \in reached' /\ UNCHANGED msgs
    BY DEF HostDrains, HostReads
  <2>3. \A s \in Sessions : rows'[m][s] = rows[m][s] \/ (m = k /\ s = t)
    BY <1>0, <2>1 DEF TypeOK
  <2> QED
    BY <2>2, <2>3 DEF RowKept, Accepted, Left
<1>2. CASE \E k \in Messages : Age(k)
  <2> PICK k \in Messages : Age(k)
    BY <1>2
  <2>1. msgs' = [msgs EXCEPT ![k].fresh = FALSE] /\ UNCHANGED rows
    BY DEF Age
  <2>2. msgs'[m].kind = msgs[m].kind
    BY <1>0, <2>1 DEF TypeOK, MessageRow
  <2> QED
    BY <2>1, <2>2 DEF RowKept, Accepted
<1>3. CASE UNCHANGED <<msgs, rows>>
  BY <1>3 DEF RowKept, Accepted
<1> QED
  BY <1>1, <1>2, <1>3 DEF Environment, Drop, Restart

\* What was missed is attached as a new row of a message that exists.
LEMMA JoinRows ==
  ASSUME Inv, NEW c \in Conns, Join(c), NEW m \in Messages
  PROVE  Accepted(m) /\ \A s \in Sessions : RowKept(m, s)
<1>0. rows \in Rows /\ UNCHANGED msgs
  BY DEF Inv, TypeOK, Rows, Join
<1> DEFINE missed == CatchUpBroadcasts(rows, conn[c].sid)
<1>1. rows' = CatchUpDirect(missed, conn[c].sid, conn[c].name)
  BY DEF Join
<1>2. missed \in Rows
  BY <1>0, CatchUpsTyped
<1>3. \A s \in Sessions : missed[m][s] = rows[m][s]
                          \/ (rows[m][s] = "absent" /\ msgs[m].kind # "unused")
  BY <1>0, RecipientsRow DEF CatchUpBroadcasts
<1> HIDE DEF missed
<1>4. \A s \in Sessions : rows'[m][s] = missed[m][s]
                          \/ (missed[m][s] = "absent" /\ msgs[m].kind # "unused")
  BY <1>1, <1>2, RecipientsRow DEF CatchUpDirect
<1> QED
  BY <1>0, <1>3, <1>4 DEF Accepted, RowKept

LEMMA ProceedRows ==
  ASSUME Inv, WritesRecorded, NEW c \in Conns, Proceed(c), NEW m \in Messages
  PROVE  Accepted(m) /\ \A s \in Sessions : RowKept(m, s)
<1>0. rows \in Rows /\ HistoryGrows
  BY ProceedWrites DEF Inv, TypeOK, Rows
<1>1. CASE Join(c)
  BY <1>1, JoinRows
<1>2. CASE Replayed(c) \/ Sent(c)
  <2> DEFINE o == Oldest(conn[c].todo)
  <2>1. UNCHANGED msgs
    BY <1>2 DEF Replayed, Sent
  <2>2. UNCHANGED rows \/ (Left(o) /\ \E s : rows' = Consumed(rows, o, s))
    <3>1. Writing(c)
      BY DEF WritesRecorded
    <3> QED
      BY <1>2, <3>1 DEF Replayed, Sent, Writing, WrittenTo, Left
  <2> HIDE DEF o
  <2>3. \A s \in Sessions : rows'[m][s] = rows[m][s]
                            \/ (m = o /\ Left(o) /\ rows[m][s] # "absent")
    BY <1>0, <2>2, ConsumedRow
  <2> QED
    BY <1>0, <2>1, <2>3 DEF Accepted, RowKept, Left, HistoryGrows
<1>3. CASE UNCHANGED <<msgs, rows>>
  BY <1>3 DEF RowKept, Accepted
<1> QED
  BY <1>1, <1>2, <1>3 DEF Proceed, Welcomed, WelcomeFails, ReplayFails

\* A stored message has its recipients' rows, and the row that its answer
\* closes belongs to an older message that was handed out.
LEMMA StoredRows ==
  ASSUME Inv, UnusedUnsent, HistoryGrows, BusAssumption,
         NEW k \in Messages, NEW S \in SUBSET Sessions, NEW from, NEW to, NEW kind,
         kind \in {"direct", "queued", "broadcast"}, kind # "broadcast" => S # {},
         NEW a \in Sessions, NEW r \in Answerable(a),
         Stored(k, kind, from, to),
         rows' = Answered(Recipients(rows, k, S), r, a),
         NEW m \in Messages
  PROVE  Accepted(m) /\ \A s \in Sessions : RowKept(m, s)
<1>0. rows \in Rows /\ msgs \in [Messages -> MessageRow]
  BY DEF Inv, TypeOK, Rows
<1> DEFINE q == Recipients(rows, k, S)
<1>1. q \in Rows /\ rows' = Answered(q, r, a)
  BY <1>0, RecipientsTyped
<1>2. /\ msgs[k].kind = "unused" /\ msgs'[k].kind = kind
      /\ m # k => msgs'[m] = msgs[m]
  BY <1>0 DEF Stored
<1>3. \A s \in Sessions : rows[k][s] = "absent"
  BY <1>2 DEF UnusedUnsent
<1>4. r = NoMessage \/ (r \in reached /\ r # k)
  BY <1>3 DEF Answerable
<1>5. \A s \in Sessions :
        /\ q[m][s] = rows[m][s] \/ (m = k /\ rows[m][s] = "absent" /\ q[m][s] = "pending")
        /\ m = k /\ s \in S => q[m][s] = "pending"
  BY <1>0, <1>3, RecipientsOfOne
<1> HIDE DEF q
<1>6. \A s \in Sessions :
        rows'[m][s] = q[m][s] \/ (m = r /\ r # NoMessage /\ q[m][s] # "absent")
  <2>1. \A s \in Sessions :
          Answered(q, r, a)[m][s] = q[m][s] \/ (m = r /\ r # NoMessage /\ q[m][s] # "absent")
    BY <1>1, AnsweredRow
  <2> QED
    BY <1>1, <2>1
<1>7. CASE m = k
  <2>1. \A s \in Sessions : rows'[m][s] = q[m][s]
    BY <1>4, <1>6, <1>7
  <2>2. kind # "broadcast" => Outstanding(rows', m)
    BY <1>5, <1>7, <2>1 DEF Outstanding
  <2>3. Accepted(m)
    BY <1>2, <1>7, <2>2 DEF Accepted
  <2> QED
    BY <1>2, <1>3, <1>7, <2>3 DEF RowKept
<1>8. CASE m # k
  <2>1. \A s \in Sessions : rows'[m][s] = rows[m][s]
                            \/ (m \in reached /\ rows[m][s] # "absent")
    BY <1>4, <1>5, <1>6, <1>8
  <2> QED
    BY <1>2, <1>8, <2>1 DEF Accepted, RowKept, Left, HistoryGrows
<1> QED
  BY <1>7, <1>8

LEMMA RequestRows ==
  ASSUME Inv, WritesRecorded, UnusedUnsent, NEW c \in Conns, Request(c), NEW m \in Messages
  PROVE  Accepted(m) /\ \A s \in Sessions : RowKept(m, s)
<1>0. BusAssumption /\ HistoryGrows
  BY BusAssumption, RequestWrites
<1>1. conn[c].pc = "idle" => conn[c].sid \in Sessions
  BY DEF Inv, HandlersSpeak, Running
<1>2. ASSUME NEW k \in Messages, NEW r \in Answerable(conn[c].sid), NEW t, SendDirect(c, t, k, r)
      PROVE  Accepted(m) /\ \A s \in Sessions : RowKept(m, s)
  <2>1. PICK s \in Matches(t) :
          /\ conn[c].pc = "idle"
          /\ Stored(k, "direct", conn[c].sid, NameOf(s))
          /\ rows' = Answered(Recipients(rows, k, {s}), r, conn[c].sid)
    BY <1>2, Zenon DEF SendDirect, Dispatching
  <2>2. {s} \in SUBSET Sessions
    BY MatchesLive DEF Agents
  <2> QED
    BY <1>0, <1>1, <2>1, <2>2, StoredRows
<1>3. ASSUME NEW k \in Messages, NEW r \in Answerable(conn[c].sid), NEW t, SendQueued(c, t, k, r)
      PROVE  Accepted(m) /\ \A s \in Sessions : RowKept(m, s)
  <2>1. PICK last \in LatestSessionFor(t) :
          /\ conn[c].pc = "idle"
          /\ Stored(k, "queued", conn[c].sid, t)
          /\ rows' = Answered(Recipients(rows, k, {last}), r, conn[c].sid)
    BY <1>3 DEF SendQueued, Dispatching
  <2>2. {last} \in SUBSET Sessions
    BY DEF LatestSessionFor, KnownAs
  <2> QED
    BY <1>0, <1>1, <2>1, <2>2, StoredRows
<1>4. ASSUME NEW k \in Messages, NEW r \in Answerable(conn[c].sid), Broadcast(c, k, r)
      PROVE  Accepted(m) /\ \A s \in Sessions : RowKept(m, s)
  <2>1. /\ conn[c].pc = "idle"
        /\ Stored(k, "broadcast", conn[c].sid, NoName)
        /\ rows' = Answered(Recipients(rows, k, Agents \ {conn[c].sid}), r, conn[c].sid)
    BY <1>4 DEF Broadcast, Dispatching
  <2>2. Agents \ {conn[c].sid} \in SUBSET Sessions
    BY DEF Agents
  <2> QED
    BY <1>0, <1>1, <2>1, <2>2, StoredRows
<1>5. CASE UNCHANGED <<msgs, rows>>
  BY <1>5 DEF RowKept, Accepted
<1> QED
  BY <1>2, <1>3, <1>4, <1>5 DEF Request, HelloControl, Rename, Ping, Leave

LEMMA DeliveryInductive == Inv /\ DeliveryInv /\ [Next]_vars => DeliveryInv'
<1> SUFFICES ASSUME Inv, DeliveryInv, [Next]_vars PROVE DeliveryInv'
  OBVIOUS
<1> USE DEF DeliveryInv
<1>1. CASE Environment
  BY <1>1, EnvironmentWrites, EnvironmentRows, RowsKept
<1>2. ASSUME NEW c \in Conns, Hello(c) PROVE DeliveryInv'
  <2>1. UNCHANGED <<msgs, rows>>
    BY <1>2 DEF Hello, HelloAgent, HelloNameTaken
  <2>2. \A m \in Messages : Accepted(m) /\ \A s \in Sessions : RowKept(m, s)
    BY <2>1 DEF Accepted, RowKept
  <2> QED
    BY <1>2, <2>2, HelloWrites, RowsKept
<1>3. ASSUME NEW c \in Conns, Proceed(c) PROVE DeliveryInv'
  BY <1>3, ProceedWrites, ProceedRows, RowsKept
<1>4. ASSUME NEW c \in Conns, Request(c) PROVE DeliveryInv'
  BY <1>4, RequestWrites, RequestRows, RowsKept
<1>5. CASE UNCHANGED vars
  <2>1. HistoryGrows /\ BrokenStaysBroken
    BY <1>5 DEF vars, HistoryGrows, BrokenStaysBroken
  <2>2. WritesRecorded'
    BY <1>5, <2>1, WritesKept DEF vars
  <2>3. \A m \in Messages : Accepted(m) /\ \A s \in Sessions : RowKept(m, s)
    BY <1>5 DEF vars, Accepted, RowKept
  <2> QED
    BY <2>1, <2>2, <2>3, RowsKept
<1> QED
  BY <1>1, <1>2, <1>3, <1>4, <1>5 DEF Next

LEMMA DeliveryInvariance == Spec => []DeliveryInv
<1>1. Init => DeliveryInv
  BY DEF Init, DeliveryInv, WritesRecorded, Writing, UnusedUnsent,
         LostOnlyToHalfOpenSockets, FreeConn
<1> QED
  BY <1>1, DeliveryInductive, Invariance, PTL DEF Spec

\* An accepted direct that nobody was handed and that no row keeps for a later
\* drain was written to a half-open socket: with any number of handlers,
\* takeovers, restarts and drains there is no other way to lose one.
THEOREM LossIsToHalfOpenSockets == Spec => []LostOnlyToHalfOpenSockets
<1>1. DeliveryInv => LostOnlyToHalfOpenSockets
  BY DEF DeliveryInv
<1> QED
  BY <1>1, DeliveryInvariance, PTL

----------------------------------------------------------------------------
(* The rows of every message keep to DeliveryContract.                     *)

\* The step of the contract for m, or none.
Keeps(m) ==
  \/ msgs'[m].kind = msgs[m].kind /\ rows'[m] = rows[m]
  \/ Deliveries!Step(m)

\* One row of m moves.
LEMMA RowMoves ==
  ASSUME TypeOK, NEW m \in Messages, NEW s \in Sessions, NEW v,
         msgs' \in [Messages -> MessageRow], msgs'[m].kind = msgs[m].kind,
         rows'[m] = [rows[m] EXCEPT ![s] = v],
         \/ rows[m][s] = "pending" /\ v = "delivered"
         \/ rows[m][s] \in {"pending", "delivered"} /\ v = "read"
         \/ v = rows[m][s]
  PROVE  Keeps(m)
<1>1. CASE v = rows[m][s]
  BY <1>1 DEF Keeps, TypeOK
<1>2. CASE v # rows[m][s]
  <2>1. Deliveries!Moves(m, s, v)
    BY DEF Deliveries!Moves
  <2>2. Deliveries!Delivered(m, s) \/ Deliveries!Read(m, s)
    BY <1>2, <2>1 DEF Deliveries!Delivered, Deliveries!Read, Deliveries!Unread
  <2> QED
    BY <2>2 DEF Keeps, Deliveries!Step
<1> QED
  BY <1>1, <1>2

LEMMA PromiseEnvironment ==
  ASSUME Inv, Environment, NEW m \in Messages
  PROVE  Keeps(m)
<1>0. TypeOK /\ msgs' \in [Messages -> MessageRow]
  BY EnvironmentTyped DEF Inv, TypeOK
<1>1. ASSUME NEW k \in Messages, NEW t \in Sessions, HostDrains(k, t) \/ HostReads(k, t)
      PROVE  Keeps(m)
  <2>1. PICK v : /\ rows' = [rows EXCEPT ![k][t] = v] /\ UNCHANGED msgs
                 /\ \/ rows[k][t] = "pending" /\ v = "delivered"
                    \/ rows[k][t] \in {"pending", "delivered"} /\ v = "read"
    BY <1>1 DEF HostDrains, HostReads
  <2>2. rows'[m] = IF m = k THEN [rows[m] EXCEPT ![t] = v] ELSE rows[m]
    BY <1>0, <2>1 DEF TypeOK
  <2>3. CASE m = k
    BY <1>0, <2>1, <2>2, <2>3, RowMoves
  <2> QED
    BY <2>1, <2>2, <2>3 DEF Keeps
<1>2. ASSUME NEW k \in Messages, Age(k)
      PROVE  Keeps(m)
  <2>1. msgs' = [msgs EXCEPT ![k].fresh = FALSE] /\ UNCHANGED rows
    BY <1>2 DEF Age
  <2>2. msgs'[m].kind = msgs[m].kind
    BY <1>0, <2>1 DEF TypeOK, MessageRow
  <2> QED
    BY <2>1, <2>2 DEF Keeps
<1>3. CASE UNCHANGED <<msgs, rows>>
  BY <1>3 DEF Keeps
<1> QED
  BY <1>1, <1>2, <1>3 DEF Environment, Drop, Restart

LEMMA ConsumedMoves ==
  ASSUME TypeOK, NEW k, NEW s, NEW m \in Messages, UNCHANGED msgs,
         rows' = Consumed(rows, k, s)
  PROVE  Keeps(m)
<1>0. rows \in Rows /\ msgs' \in [Messages -> MessageRow]
  BY DEF TypeOK, Rows
<1>1. CASE k = m /\ s \in Sessions
  <2> DEFINE v == Consumed(rows, m, s)[m][s]
  <2>1. rows' = [rows EXCEPT ![m][s] = v]
    BY <1>0, <1>1 DEF Consumed, Rows
  <2>2. \/ rows[m][s] = "pending" /\ v = "delivered"
        \/ rows[m][s] \in {"pending", "delivered"} /\ v = "read"
        \/ v = rows[m][s]
    BY <1>0, <1>1 DEF Consumed, Rows, DeliveryState
  <2> HIDE DEF v
  <2>3. rows'[m] = [rows[m] EXCEPT ![s] = v]
    BY <1>0, <2>1 DEF Rows
  <2> QED
    BY <1>0, <1>1, <2>2, <2>3, RowMoves
<1>2. CASE ~(k = m /\ s \in Sessions)
  <2>1. rows'[m] = rows[m]
    BY <1>0, <1>2 DEF Consumed, Rows
  <2> QED
    BY <2>1 DEF Keeps
<1> QED
  BY <1>1, <1>2

LEMMA PromiseJoin ==
  ASSUME Inv, NEW c \in Conns, Join(c), NEW m \in Messages
  PROVE  Keeps(m)
<1> DEFINE s == conn[c].sid
           missed == CatchUpBroadcasts(rows, s)
<1>0. rows \in Rows /\ msgs \in [Messages -> MessageRow] /\ UNCHANGED msgs /\ s \in Sessions
  BY DEF Inv, TypeOK, Rows, Join, HandlersSpeak, Running
<1>1. rows' = CatchUpDirect(missed, s, conn[c].name) /\ missed \in Rows
  BY <1>0, CatchUpsTyped DEF Join
<1>2. CASE rows'[m] = rows[m]
  BY <1>0, <1>2 DEF Keeps
<1>3. CASE rows'[m] # rows[m]
  <2>1. \A r \in Rows : r[m] # Recipients(r, m, {s})[m] =>
          /\ r[m][s] = "absent"
          /\ Recipients(r, m, {s})[m] = [r[m] EXCEPT ![s] = "pending"]
    BY <1>0 DEF Recipients, Rows
  <2>2. CASE msgs[m].kind = "broadcast"
    <3>1. rows'[m] = missed[m]
      BY <1>1, <2>2 DEF CatchUpDirect
    <3>2. missed[m] = Recipients(rows, m, {s})[m]
      BY <1>3, <3>1 DEF CatchUpBroadcasts
    <3>3. rows[m][s] = "absent" /\ rows'[m] = [rows[m] EXCEPT ![s] = "pending"]
      BY <1>0, <1>3, <2>1, <3>1, <3>2
    <3>4. Deliveries!CaughtUp(m, s)
      BY <1>0, <2>2, <3>3 DEF Deliveries!CaughtUp, Deliveries!Unread, Deliveries!Moves
    <3> QED
      BY <1>0, <3>4 DEF Keeps, Deliveries!Step
  <2>3. CASE msgs[m].kind # "broadcast"
    <3>1. missed[m] = rows[m]
      BY <2>3 DEF CatchUpBroadcasts
    <3> HIDE DEF missed
    <3>2. /\ rows'[m] = Recipients(missed, m, {s})[m]
          /\ msgs[m].kind \in {"direct", "queued"}
          /\ \E t \in Sessions \ {s} : rows[m][t] \in {"pending", "delivered"}
          /\ ~ReadBySome(missed, m)
      BY <1>1, <1>3, <3>1 DEF CatchUpDirect
    <3>3. rows[m][s] = "absent" /\ rows'[m] = [rows[m] EXCEPT ![s] = "pending"]
      BY <1>1, <1>3, <2>1, <3>1, <3>2
    <3>4. Deliveries!PassedOn(m, s)
      BY <1>0, <3>1, <3>2, <3>3 DEF Deliveries!PassedOn, Deliveries!Unread, Deliveries!Moves, ReadBySome
    <3> QED
      BY <1>0, <3>4 DEF Keeps, Deliveries!Step
  <2> QED
    BY <2>2, <2>3
<1> QED
  BY <1>2, <1>3

LEMMA PromiseProceed ==
  ASSUME Inv, NEW c \in Conns, Proceed(c), NEW m \in Messages
  PROVE  Keeps(m)
<1>1. CASE Join(c)
  BY <1>1, PromiseJoin
<1>2. CASE Replayed(c) \/ Sent(c)
  <2>1. UNCHANGED msgs /\ (UNCHANGED rows \/ \E k, s : rows' = Consumed(rows, k, s))
    BY <1>2 DEF Replayed, Sent
  <2> QED
    BY <2>1, ConsumedMoves DEF Inv, Keeps
<1>3. CASE UNCHANGED <<msgs, rows>>
  BY <1>3 DEF Keeps
<1> QED
  BY <1>1, <1>2, <1>3 DEF Proceed, Welcomed, WelcomeFails, ReplayFails

\* A message that is sent is stored; the one it answers is an older one, and
\* one session has read it.
LEMMA PromiseStored ==
  ASSUME Inv, UnusedUnsent, NEW k \in Messages, NEW S \in SUBSET Sessions,
         NEW from, NEW to, NEW kind \in {"direct", "queued", "broadcast"},
         kind = "broadcast" \/ \E s \in Sessions : S = {s},
         NEW a \in Sessions, NEW r \in Answerable(a), NoMessage \notin Messages,
         Stored(k, kind, from, to), rows' = Answered(Recipients(rows, k, S), r, a),
         msgs' \in [Messages -> MessageRow], NEW m \in Messages
  PROVE  Keeps(m)
<1>0. TypeOK /\ rows \in Rows
  BY DEF Inv, TypeOK, Rows
<1> DEFINE q == Recipients(rows, k, S)
<1>1. /\ q \in Rows /\ rows' = Answered(q, r, a)
      /\ msgs[k].kind = "unused" /\ msgs'[k].kind = kind /\ (m # k => msgs'[m] = msgs[m])
      /\ \A s \in Sessions : rows[k][s] = "absent"
      /\ q = [rows EXCEPT ![k] = [s \in Sessions |-> IF s \in S THEN "pending" ELSE "absent"]]
  <2>1. q \in Rows /\ rows' = Answered(q, r, a)
    BY <1>0, RecipientsTyped
  <2>2. /\ msgs[k].kind = "unused"
        /\ msgs' = [msgs EXCEPT ![k] = [kind |-> kind, from |-> from, to |-> to, fresh |-> TRUE]]
    BY DEF Stored
  <2>3. msgs'[k].kind = kind /\ (m # k => msgs'[m] = msgs[m])
    BY <1>0, <2>2 DEF TypeOK
  <2>4. \A s \in Sessions : rows[k][s] = "absent"
    BY <2>2 DEF UnusedUnsent
  <2>5. q = [rows EXCEPT ![k] = [s \in Sessions |-> IF s \in S THEN "pending" ELSE "absent"]]
    BY <2>4 DEF Recipients
  <2> HIDE DEF q
  <2> QED
    BY <2>1, <2>2, <2>3, <2>4, <2>5
<1>2. r = NoMessage \/ r # k
  BY <1>1 DEF Answerable
<1> HIDE DEF q
<1>3. CASE m = k
  <2>1. rows'[m] = [s \in Sessions |-> IF s \in S THEN "pending" ELSE "absent"]
    BY <1>0, <1>1, <1>2, <1>3 DEF Answered, Rows
  <2>2. Deliveries!Stored(m, kind, S)
    BY <1>1, <1>3, <2>1 DEF Deliveries!Stored
  <2> QED
    BY <2>2 DEF Keeps, Deliveries!Step
<1>4. CASE m # k
  <2>1. q[m] = rows[m] /\ msgs'[m].kind = msgs[m].kind
    BY <1>0, <1>1, <1>4 DEF Rows
  <2>2. CASE r # m \/ r = NoMessage
    <3>1. rows'[m] = rows[m]
      BY <1>1, <2>1, <2>2 DEF Answered, Rows
    <3> QED
      BY <2>1, <3>1 DEF Keeps
  <2>3. CASE r = m /\ r # NoMessage
    <3> DEFINE v == IF rows[m][a] \in {"pending", "delivered"} THEN "read" ELSE rows[m][a]
    <3>1. rows'[m] = [rows[m] EXCEPT ![a] = v]
      BY <1>1, <2>1, <2>3 DEF Answered, Rows
    <3> QED
      BY <1>0, <2>1, <3>1, RowMoves
  <2> QED
    BY <2>2, <2>3
<1> QED
  BY <1>3, <1>4

LEMMA PromiseRequest ==
  ASSUME Inv, UnusedUnsent, NEW c \in Conns, Request(c), NEW m \in Messages
  PROVE  Keeps(m)
<1>0. BusAssumption /\ NoMessage \notin Messages /\ msgs' \in [Messages -> MessageRow]
  BY BusAssumption, RequestTyped DEF Inv, TypeOK, BusAssumption
<1>1. conn[c].pc = "idle" => conn[c].sid \in Sessions
  BY DEF Inv, HandlersSpeak, Running
<1>2. ASSUME NEW k \in Messages, NEW r \in Answerable(conn[c].sid), NEW t, SendDirect(c, t, k, r)
      PROVE  Keeps(m)
  <2>1. PICK s \in Matches(t) :
          /\ conn[c].pc = "idle"
          /\ Stored(k, "direct", conn[c].sid, NameOf(s))
          /\ rows' = Answered(Recipients(rows, k, {s}), r, conn[c].sid)
    BY <1>2, Zenon DEF SendDirect, Dispatching
  <2>2. s \in Sessions /\ {s} \in SUBSET Sessions
    BY MatchesLive DEF Agents
  <2> QED
    BY <1>0, <1>1, <2>1, <2>2, PromiseStored
<1>3. ASSUME NEW k \in Messages, NEW r \in Answerable(conn[c].sid), NEW t, SendQueued(c, t, k, r)
      PROVE  Keeps(m)
  <2>1. PICK last \in LatestSessionFor(t) :
          /\ conn[c].pc = "idle"
          /\ Stored(k, "queued", conn[c].sid, t)
          /\ rows' = Answered(Recipients(rows, k, {last}), r, conn[c].sid)
    BY <1>3 DEF SendQueued, Dispatching
  <2>2. last \in Sessions /\ {last} \in SUBSET Sessions
    BY DEF LatestSessionFor, KnownAs
  <2> QED
    BY <1>0, <1>1, <2>1, <2>2, PromiseStored
<1>4. ASSUME NEW k \in Messages, NEW r \in Answerable(conn[c].sid), Broadcast(c, k, r)
      PROVE  Keeps(m)
  <2>1. /\ conn[c].pc = "idle"
        /\ Stored(k, "broadcast", conn[c].sid, NoName)
        /\ rows' = Answered(Recipients(rows, k, Agents \ {conn[c].sid}), r, conn[c].sid)
    BY <1>4 DEF Broadcast, Dispatching
  <2>2. Agents \ {conn[c].sid} \in SUBSET Sessions
    BY DEF Agents
  <2> QED
    BY <1>0, <1>1, <2>1, <2>2, PromiseStored
<1>5. CASE UNCHANGED <<msgs, rows>>
  BY <1>5 DEF Keeps
<1> QED
  BY <1>2, <1>3, <1>4, <1>5 DEF Request, HelloControl, Rename, Ping, Leave

LEMMA StepKeeps ==
  ASSUME Inv, UnusedUnsent, [Next]_vars, NEW m \in Messages
  PROVE  Keeps(m)
<1>1. ASSUME NEW c \in Conns, Hello(c) PROVE Keeps(m)
  BY <1>1 DEF Hello, HelloAgent, HelloNameTaken, Keeps
<1>2. CASE UNCHANGED vars
  BY <1>2 DEF vars, Keeps
<1> QED
  BY <1>1, <1>2, PromiseEnvironment, PromiseProceed, PromiseRequest DEF Next

\* The bus implements DeliveryContract for any number of sessions, messages
\* and handlers: every message keeps to its steps, several of them in one hello.
THEOREM KeepsDeliveryPromise == Spec => DeliveryPromise
<1>1. Init => Deliveries!Init
  BY DEF Init, Deliveries!Init
<1>2. Inv /\ DeliveryInv /\ [Next]_vars => [Deliveries!Next]_(Deliveries!vars)
  BY StepKeeps DEF DeliveryInv, Deliveries!Next, Deliveries!vars, Keeps
<1> QED
  BY <1>1, <1>2, Invariance, DeliveryInvariance, PTL DEF Spec, DeliveryPromise, Deliveries!Spec
=============================================================================
