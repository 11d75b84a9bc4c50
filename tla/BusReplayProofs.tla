-------------------------- MODULE BusReplayProofs --------------------------
(***************************************************************************)
(* Theorems about what Bus writes to a listener's socket: a hello drains   *)
(* the queue of its name, as long as no helper renames the listener in the *)
(* middle of its hello (a rename moves no row) and the backlog fits into   *)
(* one replay; and no socket is written a message twice.                   *)
(***************************************************************************)
EXTENDS BusDeliveryProofs, BusWrites, FiniteSetTheorems

InHello == {"welcome", "joining", "replaying"}

\* No rename of a listener is served before its hello is over.
NotRenamed ==
  \A e \in Conns : conn[e].pc \in InHello /\ conn'[e].pc \in InHello
                   => conn'[e].name = conn[e].name

\* What a hello may have to push.
Backlog(e) ==
  {m \in Messages : /\ msgs[m].kind = "queued"
                    /\ msgs[m].to = conn[e].name \/ rows[m][conn[e].sid] = "pending"}

BacklogFits ==
  \A e \in Conns : conn[e].pc = "joining" =>
    IsFiniteSet(Backlog(e)) /\ Cardinality(Backlog(e)) <= ReplayLimit

----------------------------------------------------------------------------
(* The invariants.                                                         *)

\* A handler in a hello whose socket the server can still write to holds its
\* session's entry, under the name its process asked for.
Held(e) ==
  conn[e].pc \in InHello /\ conn[e].sock # "closed"
    => Registered(e) /\ conn[e].name = asks[conn[e].sid]

\* A queued message is for a name, and some session has a row of it.
QueuedKnown ==
  \A m \in Messages : msgs[m].kind = "queued" =>
    msgs[m].to \in Names /\ \E s \in Sessions : rows[m][s] # "absent"

\* What is queued for the name of e is still to be pushed or has gone.
Drained(e) ==
  \A m \in Messages :
    msgs[m].kind = "queued" /\ msgs[m].to = conn[e].name /\ msgs[m].from # conn[e].sid
      => \/ m \in conn[e].todo
         \/ rows[m][conn[e].sid] \in {"delivered", "read"}
         \/ ReadBySome(rows, m)

TodoAttached(e) == \A m \in conn[e].todo : rows[m][conn[e].sid] # "absent"

Covers(e) ==
  conn[e].pc = "replaying" /\ conn[e].sock # "closed" => Drained(e) /\ TodoAttached(e)

ReplayInv == QueuedKnown /\ \A e \in Conns : Held(e) /\ Covers(e)

----------------------------------------------------------------------------
(* What a step does to a hello: the hello of handler e begins, goes on     *)
(* while somebody else acts, or advances.                                  *)

\* Handler e is in a hello after the step, or has completed one by it.
Greeting(e) ==
  /\ conn'[e].sock # "closed"
  /\ conn'[e].pc \in InHello \/ (conn'[e].pc = "idle" /\ conn[e].pc \in InHello)

SameListener(e) ==
  /\ conn[e].sock # "closed"
  /\ conn'[e].role = conn[e].role /\ conn'[e].sid = conn[e].sid
  /\ conn'[e].name = conn[e].name
  /\ registry'[conn[e].sid] = registry[conn[e].sid]
  /\ asks'[conn[e].sid] = asks[conn[e].sid]

Begins(e) == conn'[e].pc = "welcome" /\ Held(e)'

GoesOn(e) ==
  /\ SameListener(e)
  /\ conn'[e].pc = conn[e].pc /\ conn'[e].todo = conn[e].todo

Advances(e) ==
  /\ SameListener(e)
  /\ \/ conn[e].pc = "welcome" /\ conn'[e].pc = "joining"
     \/ Join(e)
     \/ Replayed(e)

HelloSteps == \A e \in Conns : Greeting(e) => Begins(e) \/ GoesOn(e) \/ Advances(e)

LEMMA GoingOn ==
  ASSUME NEW e \in Conns, conn'[e] = conn[e], UNCHANGED <<registry, asks>>, Greeting(e)
  PROVE  GoesOn(e)
BY DEF GoesOn, SameListener, Greeting, InHello

LEMMA EnvironmentHellos ==
  ASSUME Inv, Environment
  PROVE  HelloSteps
<1>0. TypeOK
  BY DEF Inv
<1>1. CASE \E c \in Conns : Drop(c)
  <2> PICK c \in Conns : Drop(c)
    BY <1>1
  <2>1. PICK k \in {"half", "closed"} : conn' = [conn EXCEPT ![c].sock = k] /\ conn[c].sock # "closed"
    BY DEF Drop
  <2>2. \A e \in Conns :
          /\ conn'[e].pc = conn[e].pc /\ conn'[e].role = conn[e].role
          /\ conn'[e].sid = conn[e].sid /\ conn'[e].name = conn[e].name
          /\ conn'[e].todo = conn[e].todo
          /\ conn'[e].sock = IF e = c THEN k ELSE conn[e].sock
    BY <1>0, <2>1 DEF TypeOK, ConnState
  <2> QED
    BY <2>1, <2>2 DEF Drop, HelloSteps, GoesOn, SameListener, Greeting
<1>2. CASE Restart
  <2>1. \A e \in Conns : conn'[e].pc = "free"
    BY <1>2 DEF Restart, FreeConn
  <2> QED
    BY <2>1 DEF HelloSteps, Greeting, InHello
<1>3. CASE UNCHANGED <<conn, registry, asks>>
  BY <1>3, GoingOn DEF HelloSteps
<1> QED
  BY <1>1, <1>2, <1>3 DEF Environment, HostDrains, HostReads, Age

\* A listener in its hello cannot lose its entry to a refused hello of its own
\* session: the name it asks for is its own.
LEMMA HelloHellos ==
  ASSUME Inv, \A e \in Conns : Held(e), NEW c \in Conns, Hello(c)
  PROVE  HelloSteps
<1>0. TypeOK /\ BusAssumption /\ UniqueNames /\ HandlersSpeak
  BY BusAssumption DEF Inv
<1> SUFFICES ASSUME NEW e \in Conns, Greeting(e)
             PROVE  Begins(e) \/ GoesOn(e) \/ Advances(e)
  BY DEF HelloSteps
<1> PICK s \in Sessions, sock \in {"open", "half", "closed"} :
      HelloAgent(c, s, sock) \/ HelloNameTaken(c, s, sock)
  BY DEF Hello
<1>1. CASE HelloAgent(c, s, sock)
  <2> USE <1>1
  <2>1. CASE e = c
    <3> DEFINE v == [FreeConn EXCEPT !.pc = "welcome", !.sid = s, !.name = asks[s], !.sock = sock]
    <3>1. v.pc = "welcome" /\ v.sid = s /\ v.name = asks[s] /\ v.role = "agent"
      BY DEF FreeConn
    <3>2. conn'[c] = v
      BY DEF HelloAgent
    <3> HIDE DEF v
    <3>3. registry'[s] = c /\ UNCHANGED asks
      BY <1>0 DEF HelloAgent, TypeOK
    <3> QED
      BY <1>0, <2>1, <3>1, <3>2, <3>3 DEF Begins, Held, Registered, Agents, BusAssumption
  <2>2. CASE e # c
    <3>1. conn'[e] = IF e = registry[s] THEN [conn[e] EXCEPT !.sock = "closed"] ELSE conn[e]
      BY <2>2 DEF HelloAgent
    <3>2. e # registry[s] /\ conn'[e] = conn[e]
      BY <1>0, <3>1 DEF Greeting, TypeOK, ConnState
    <3>3. conn[e].pc \in InHello /\ conn[e].sock # "closed"
      BY <3>2 DEF Greeting, InHello
    <3>4. registry[conn[e].sid] = e
      BY <3>3 DEF Held, Registered
    <3>5. conn[e].sid # s
      BY <3>2, <3>4
    <3>6. registry'[conn[e].sid] = registry[conn[e].sid] /\ UNCHANGED asks
      BY <1>0, <3>5 DEF HelloAgent, TypeOK
    <3> QED
      BY <3>2, <3>3, <3>6 DEF GoesOn, SameListener
  <2> QED
    BY <2>1, <2>2
<1>2. CASE HelloNameTaken(c, s, sock)
  <2>1. UNCHANGED conn /\ conn[e].pc \in InHello /\ conn[e].sock # "closed"
    BY <1>2 DEF HelloNameTaken, Greeting, InHello
  <2>2. Registered(e) /\ conn[e].name = asks[conn[e].sid]
    BY <2>1 DEF Held
  <2>3. conn[e].sid # s
    <3> SUFFICES ASSUME conn[e].sid = s PROVE FALSE
      OBVIOUS
    <3>1. s \in Agents /\ NameOf(s) = asks[s]
      BY <2>2 DEF Registered, NameOf
    <3>2. PICK t \in Holders(asks[s]) \ {s} : asks[s] # NoName
      BY <1>2 DEF HelloNameTaken, NameTaken
    <3> QED
      BY <1>0, <3>1, <3>2 DEF UniqueNames, Holders
  <2>4. registry'[conn[e].sid] = registry[conn[e].sid]
    BY <1>0, <1>2, <2>3 DEF HelloNameTaken, TypeOK
  <2>5. asks' = asks \/ \E n : asks' = [asks EXCEPT ![s] = n]
    BY <1>2 DEF HelloNameTaken, RetryName
  <2>6. conn[e].sid \in Sessions
    BY <2>2 DEF Registered, Agents
  <2>7. asks'[conn[e].sid] = asks[conn[e].sid]
    BY <1>0, <2>3, <2>5, <2>6 DEF TypeOK
  <2> QED
    BY <2>1, <2>4, <2>7 DEF GoesOn, SameListener
<1> QED
  BY <1>1, <1>2

\* A replay that goes on keeps its listener.
LEMMA ReplayListener ==
  ASSUME TypeOK, NEW c \in Conns, NEW S, Replay(c, S)
  PROVE  /\ \A e \in Conns : e # c => conn'[e] = conn[e]
         /\ conn'[c].role = conn[c].role /\ conn'[c].sid = conn[c].sid
         /\ conn'[c].name = conn[c].name /\ conn'[c].sock = conn[c].sock
         /\ conn'[c].todo = S
         /\ conn'[c].pc = IF S = {} THEN "idle" ELSE "replaying"
<1>1. conn[c] \in ConnState
  BY DEF TypeOK
<1>2. CASE S = {}
  <2>1. conn' = [conn EXCEPT ![c].pc = "idle", ![c].todo = {}]
    BY <1>2 DEF Replay
  <2> QED
    BY <1>1, <1>2, <2>1 DEF TypeOK, ConnState
<1>3. CASE S # {}
  <2>1. conn' = [conn EXCEPT ![c].pc = "replaying", ![c].todo = S]
    BY <1>3 DEF Replay
  <2> QED
    BY <1>1, <1>3, <2>1 DEF TypeOK, ConnState
<1> QED
  BY <1>2, <1>3

LEMMA ProceedHellos ==
  ASSUME Inv, NEW c \in Conns, Proceed(c)
  PROVE  HelloSteps
<1>0. TypeOK /\ conn[c] \in ConnState
  BY DEF Inv, TypeOK
<1>1. UNCHANGED <<registry, asks>>
  BY DEF Proceed, Welcomed, WelcomeFails, Join, Replayed, ReplayFails, Sent
<1> SUFFICES ASSUME NEW e \in Conns, Greeting(e)
             PROVE  Begins(e) \/ GoesOn(e) \/ Advances(e)
  BY DEF HelloSteps
<1>2. CASE Welcomed(c)
  <2> DEFINE v == [conn[c] EXCEPT !.pc = "joining"]
  <2>1. /\ v.pc = "joining" /\ v.role = conn[c].role /\ v.sid = conn[c].sid
        /\ v.name = conn[c].name
    BY <1>0 DEF ConnState
  <2>2. conn' = [conn EXCEPT ![c] = v] /\ conn[c].pc = "welcome" /\ conn[c].sock # "closed"
    BY <1>2 DEF Welcomed
  <2> HIDE DEF v
  <2>3. conn'[c] = v /\ (e # c => conn'[e] = conn[e])
    BY <1>0, <2>2 DEF TypeOK
  <2> QED
    BY <1>1, <2>1, <2>2, <2>3, GoingOn DEF Advances, SameListener
<1>3. CASE WelcomeFails(c)
  <2>1. conn'[c].pc = "dead" /\ (e # c => conn'[e] = conn[e])
    BY <1>0, <1>3 DEF WelcomeFails, TypeOK, FreeConn
  <2>2. e # c
    BY <2>1 DEF Greeting, InHello
  <2> QED
    BY <1>1, <2>1, <2>2, GoingOn
<1>4. CASE Join(c) \/ Replayed(c) \/ ReplayFails(c)
  <2>1. PICK S : Replay(c, S)
    BY <1>4 DEF Join, Replayed, ReplayFails
  <2>2. /\ e # c => conn'[e] = conn[e]
        /\ conn'[c].role = conn[c].role /\ conn'[c].sid = conn[c].sid
        /\ conn'[c].name = conn[c].name /\ conn'[c].sock = conn[c].sock
    BY <1>0, <2>1, ReplayListener
  <2>3. CASE e = c
    <3>1. conn[c].sock # "closed"
      BY <2>2, <2>3 DEF Greeting
    <3>2. Join(c) \/ Replayed(c)
      BY <1>4, <3>1 DEF ReplayFails
    <3> QED
      BY <1>1, <2>2, <2>3, <3>1, <3>2 DEF Advances, SameListener
  <2> QED
    BY <1>1, <2>2, <2>3, GoingOn
<1>5. CASE Sent(c)
  <2>1. conn[c].pc = "sending" /\ conn'[c].pc = "idle" /\ (e # c => conn'[e] = conn[e])
    BY <1>0, <1>5 DEF Sent, TypeOK, ConnState
  <2>2. e # c
    BY <2>1 DEF Greeting, InHello
  <2> QED
    BY <1>1, <2>1, <2>2, GoingOn
<1> QED
  BY <1>2, <1>3, <1>4, <1>5 DEF Proceed

LEMMA RequestHellos ==
  ASSUME Inv, \A e \in Conns : Held(e), NotRenamed, NEW c \in Conns, Request(c)
  PROVE  HelloSteps
<1>0. TypeOK /\ EntriesOwned /\ HandlersSpeak /\ BusAssumption /\ conn[c] \in ConnState
  BY BusAssumption DEF Inv, TypeOK
<1> SUFFICES ASSUME NEW e \in Conns, Greeting(e)
             PROVE  Begins(e) \/ GoesOn(e) \/ Advances(e)
  BY DEF HelloSteps
<1>1. CASE \E s \in Sessions : HelloControl(c, s)
  <2>1. /\ conn[c].pc \in {"free", "dead"} /\ conn'[c].pc = "idle"
        /\ e # c => conn'[e] = conn[e]
        /\ UNCHANGED <<registry, asks>>
    BY <1>0, <1>1 DEF HelloControl, Unused, TypeOK, FreeConn
  <2>2. e # c
    BY <2>1 DEF Greeting, InHello
  <2> QED
    BY <2>1, <2>2, GoingOn
<1>2. ASSUME NEW m \in Messages, NEW r, NEW t, SendDirect(c, t, m, r)
      PROVE  GoesOn(e)
  <2>1. PICK p : conn' = [conn EXCEPT ![c].pc = "sending", ![c].peer = p, ![c].todo = {m}]
    BY <1>2, Zenon DEF SendDirect
  <2>2. UNCHANGED <<registry, asks>>
    BY <1>2, Zenon DEF SendDirect
  <2>3. conn'[c].pc = "sending" /\ (e # c => conn'[e] = conn[e])
    BY <1>0, <2>1 DEF TypeOK, ConnState
  <2>4. e # c
    BY <2>3 DEF Greeting, InHello
  <2> QED
    BY <2>2, <2>3, <2>4, GoingOn
<1>3. CASE \E n \in RenameNames : Rename(c, n)
  <2> PICK n \in RenameNames : Rename(c, n)
    BY <1>3
  <2> DEFINE x == registry[conn[c].sid]
             entry == [conn EXCEPT ![x] = [conn[x] EXCEPT !.name = n]]
  <2>0. x \in Conns /\ conn' = [entry EXCEPT ![c] = [entry[c] EXCEPT !.name = n]]
    BY <1>0, LiveNamed DEF Rename
  <2>1. /\ entry \in [Conns -> ConnState]
        /\ \A d \in Conns : /\ entry[d].pc = conn[d].pc /\ entry[d].todo = conn[d].todo
                            /\ entry[d].role = conn[d].role /\ entry[d].sid = conn[d].sid
                            /\ entry[d].sock = conn[d].sock
    <3>1. n \in Names \cup {NoName} /\ [conn[x] EXCEPT !.name = n] \in ConnState
      BY <1>0, <2>0, ConnTyped DEF BusAssumption, TypeOK
    <3> QED
      BY <1>0, <2>0, <3>1 DEF TypeOK, ConnState
  <2> HIDE DEF entry
  <2>2. /\ conn'[e].pc = conn[e].pc /\ conn'[e].todo = conn[e].todo
        /\ conn'[e].role = conn[e].role /\ conn'[e].sid = conn[e].sid
        /\ conn'[e].sock = conn[e].sock
    BY <2>0, <2>1 DEF ConnState
  <2>3. conn[e].pc \in InHello /\ conn'[e].name = conn[e].name
    BY <2>2 DEF NotRenamed, Greeting, InHello
  <2> QED
    BY <2>2, <2>3 DEF Rename, GoesOn, SameListener, Greeting
<1>4. CASE Leave(c)
  <2>1. /\ conn[c].pc = "idle" /\ conn'[c].pc = "free" /\ UNCHANGED asks
        /\ e # c => conn'[e] = conn[e]
    BY <1>0, <1>4 DEF Leave, TypeOK, FreeConn
  <2>2. e # c /\ conn'[e] = conn[e] /\ conn[e].pc \in InHello /\ conn[e].sock # "closed"
    BY <2>1 DEF Greeting, InHello
  <2>3. conn[e].sid \in Sessions /\ registry[conn[e].sid] = e
    BY <2>2 DEF Held, Registered, Agents
  <2>4. conn[c].sid \in Sessions
    BY <1>0, <2>1 DEF HandlersSpeak, Running
  <2>5. registry'[conn[e].sid] = registry[conn[e].sid]
    BY <1>0, <1>4, <2>2, <2>3, <2>4 DEF Leave, TypeOK
  <2> QED
    BY <2>1, <2>2, <2>5 DEF GoesOn, SameListener
<1>5. CASE UNCHANGED <<conn, registry, asks>>
  BY <1>5, GoingOn
<1> QED
  BY <1>1, <1>2, <1>3, <1>4, <1>5 DEF Request, SendQueued, Broadcast, Ping

LEMMA NextHellos ==
  ASSUME Inv, \A e \in Conns : Held(e), NotRenamed, [Next]_vars
  PROVE  HelloSteps
<1>1. CASE UNCHANGED vars
  BY <1>1, GoingOn DEF HelloSteps, vars
<1> QED
  BY <1>1, EnvironmentHellos, HelloHellos, ProceedHellos, RequestHellos DEF Next

LEMMA HeldKept ==
  ASSUME \A e \in Conns : Held(e), HelloSteps
  PROVE  \A e \in Conns : Held(e)'
<1> SUFFICES ASSUME NEW e \in Conns, conn'[e].pc \in InHello, conn'[e].sock # "closed"
             PROVE  Held(e)'
  BY DEF Held
<1>1. Begins(e) \/ GoesOn(e) \/ Advances(e)
  BY DEF HelloSteps, Greeting
<1>2. CASE Begins(e)
  BY <1>2 DEF Begins
<1>3. CASE GoesOn(e) \/ Advances(e)
  <2>1. SameListener(e) /\ conn[e].pc \in InHello
    BY <1>3 DEF GoesOn, Advances, InHello, Join, Replayed
  <2> QED
    BY <2>1 DEF SameListener, Held, Registered, Agents
<1> QED
  BY <1>1, <1>2, <1>3

----------------------------------------------------------------------------
(* What a step does to the queue.                                          *)

\* A message that is queued in this step is for a name which only its sender
\* holds, if anybody.
QueuedAway(m) ==
  msgs'[m].kind = "queued" =>
    \/ /\ msgs[m].kind = "queued" /\ msgs'[m].to = msgs[m].to
       /\ msgs'[m].from = msgs[m].from
    \/ /\ msgs[m].kind # "queued"
       /\ msgs'[m].to \in Names /\ Holders(msgs'[m].to) \subseteq {msgs'[m].from}

LEMMA StoredQueued ==
  ASSUME TypeOK, NEW k \in Messages, NEW kind, NEW from, NEW to, Stored(k, kind, from, to),
         kind = "queued" => to \in Names /\ Holders(to) \subseteq {from},
         NEW m \in Messages
  PROVE  QueuedAway(m)
<1> DEFINE v == [kind |-> kind, from |-> from, to |-> to, fresh |-> TRUE]
<1>1. v.kind = kind /\ v.from = from /\ v.to = to
  OBVIOUS
<1>2. msgs[k].kind = "unused" /\ msgs' = [msgs EXCEPT ![k] = v]
  BY DEF Stored
<1> HIDE DEF v
<1>3. msgs'[m] = IF m = k THEN v ELSE msgs[m]
  BY <1>2 DEF TypeOK
<1> QED
  BY <1>1, <1>2, <1>3 DEF QueuedAway

LEMMA NextQueued ==
  ASSUME Inv, [Next]_vars, NEW m \in Messages
  PROVE  QueuedAway(m)
<1>0. TypeOK /\ BusAssumption
  BY BusAssumption DEF Inv
<1>1. UNCHANGED msgs => QueuedAway(m)
  BY DEF QueuedAway
<1>2. ASSUME NEW k \in Messages, Age(k) PROVE QueuedAway(m)
  <2>1. msgs' = [msgs EXCEPT ![k].fresh = FALSE]
    BY <1>2 DEF Age
  <2>2. msgs'[m].kind = msgs[m].kind /\ msgs'[m].to = msgs[m].to /\ msgs'[m].from = msgs[m].from
    BY <1>0, <2>1 DEF TypeOK, MessageRow
  <2> QED
    BY <2>2 DEF QueuedAway
<1>3. CASE Environment
  BY <1>1, <1>2, <1>3 DEF Environment, Drop, HostDrains, HostReads, Restart
<1>4. ASSUME NEW c \in Conns, Hello(c) \/ Proceed(c) PROVE QueuedAway(m)
  BY <1>1, <1>4 DEF Hello, HelloAgent, HelloNameTaken, Proceed, Welcomed, WelcomeFails,
                    Join, Replayed, ReplayFails, Sent
<1>5. ASSUME NEW c \in Conns, Request(c) PROVE QueuedAway(m)
  <2>1. ASSUME NEW k \in Messages, NEW r, NEW t, SendDirect(c, t, k, r)
        PROVE  QueuedAway(m)
    <3>1. \E from, to : Stored(k, "direct", from, to)
      BY <2>1, Zenon DEF SendDirect
    <3> QED
      BY <1>0, <3>1, StoredQueued
  <2>2. ASSUME NEW k \in Messages, NEW r, NEW t \in Names, SendQueued(c, t, k, r)
        PROVE  QueuedAway(m)
    <3>1. Stored(k, "queued", conn[c].sid, t) /\ Matches(t) \subseteq {conn[c].sid}
      BY <2>2 DEF SendQueued, UnknownPeer
    <3>2. t \notin Agents
      BY <1>0 DEF Agents, BusAssumption
    <3>3. Holders(t) \subseteq {conn[c].sid}
      BY <3>1, <3>2 DEF Matches
    <3> QED
      BY <1>0, <3>1, <3>3, StoredQueued
  <2>3. ASSUME NEW k \in Messages, NEW r, Broadcast(c, k, r)
        PROVE  QueuedAway(m)
    BY <1>0, <2>3, StoredQueued DEF Broadcast
  <2> QED
    BY <1>1, <1>5, <2>1, <2>2, <2>3 DEF Request, HelloControl, Rename, Ping, Leave
<1> QED
  BY <1>1, <1>3, <1>4, <1>5 DEF Next, vars

\* Rows only move forward, told by their states.
LEMMA ForwardRows ==
  ASSUME NEW r \in Rows, NEW q \in Rows, Forward(r, q), NEW m \in Messages, NEW s \in Sessions
  PROVE  /\ r[m][s] # "absent" => q[m][s] # "absent"
         /\ r[m][s] \in {"delivered", "read"} => q[m][s] \in {"delivered", "read"}
         /\ r[m][s] = "read" => q[m][s] = "read"
<1>1. r[m][s] \in DeliveryState /\ q[m][s] \in DeliveryState /\ Progress[r[m][s]] <= Progress[q[m][s]]
  BY DEF Rows, Forward
<1> QED
  BY <1>1 DEF DeliveryState, Progress

LEMMA QueuedKept ==
  ASSUME Inv, UnusedUnsent, QueuedKnown, [Next]_vars
  PROVE  QueuedKnown'
<1>0. rows \in Rows /\ rows' \in Rows /\ Forward(rows, rows')
  BY BusAssumption, Inductive, StepForward DEF Inv, TypeOK, Rows
<1> SUFFICES ASSUME NEW m \in Messages, msgs'[m].kind = "queued"
             PROVE  msgs'[m].to \in Names /\ \E s \in Sessions : rows'[m][s] # "absent"
  BY DEF QueuedKnown
<1>1. QueuedAway(m)
  BY NextQueued
<1>2. CASE msgs[m].kind = "queued"
  BY <1>0, <1>1, <1>2, ForwardRows DEF QueuedAway, QueuedKnown
<1>3. CASE msgs[m].kind # "queued"
  <2>1. Keeps(m)
    BY <1>3, StepKeeps DEF vars
  <2>2. PICK s \in Sessions : Deliveries!Stored(m, "queued", {s})
    BY <1>3, <2>1 DEF Keeps, Deliveries!Step, Deliveries!Stored, Deliveries!PassedOn,
        Deliveries!CaughtUp, Deliveries!Delivered, Deliveries!Read, Deliveries!Purged, Deliveries!Moves
  <2>3. rows'[m][s] = "pending"
    BY <2>2 DEF Deliveries!Stored
  <2> QED
    BY <1>1, <1>3, <2>3 DEF QueuedAway
<1> QED
  BY <1>2, <1>3

----------------------------------------------------------------------------
(* A hello takes up the whole queue of its name and pushes it to the end.  *)

\* The limit of a replay is not reached by a backlog that fits.
LEMMA ReplayTakesAll ==
  ASSUME BusAssumption, NEW r, NEW s, NEW Q, IsFiniteSet(Q), Cardinality(Q) <= ReplayLimit,
         \A m \in Messages : msgs[m].kind = "queued" /\ r[m][s] = "pending" => m \in Q
  PROVE  PendingQueued(r, s) = {m \in Messages : msgs[m].kind = "queued" /\ r[m][s] = "pending"}
<1> DEFINE all == {m \in Messages : msgs[m].kind = "queued" /\ r[m][s] = "pending"}
           earlier(m) == {k \in all : k < m}
<1>1. ASSUME NEW m \in all PROVE Cardinality(earlier(m)) < ReplayLimit
  <2>1. m \in Q /\ earlier(m) \in SUBSET (Q \ {m})
    <3>1. m \in Nat /\ \A k \in earlier(m) : k \in Nat /\ k < m /\ k \in Q
      BY DEF BusAssumption
    <3>2. \A k \in earlier(m) : k \in Q \ {m}
      BY <3>1
    <3> QED
      BY <3>2
  <2>2. IsFiniteSet(Q \ {m}) /\ Cardinality(Q \ {m}) = Cardinality(Q) - 1
    BY <2>1, FS_RemoveElement
  <2>3. Cardinality(earlier(m)) <= Cardinality(Q \ {m}) /\ IsFiniteSet(earlier(m))
    BY <2>1, <2>2, FS_Subset
  <2>4. Cardinality(earlier(m)) \in Nat /\ Cardinality(Q) \in Nat
    BY <2>3, FS_CardinalityType
  <2> HIDE DEF earlier, all
  <2> QED
    BY <2>2, <2>3, <2>4 DEF BusAssumption
<1> QED
  BY <1>1 DEF PendingQueued

LEMMA JoinCovers ==
  ASSUME Inv, QueuedKnown, BacklogFits, NEW c \in Conns, Join(c)
  PROVE  Drained(c)' /\ TodoAttached(c)'
<1> DEFINE s == conn[c].sid
           n == conn[c].name
           missed == CatchUpBroadcasts(rows, s)
           all == {m \in Messages : msgs[m].kind = "queued" /\ rows'[m][s] = "pending"}
<1>0. /\ TypeOK /\ BusAssumption /\ rows \in Rows /\ UNCHANGED msgs
      /\ s \in Sessions /\ conn[c].pc = "joining"
  BY BusAssumption DEF Inv, TypeOK, Rows, Join, HandlersSpeak, Running
<1>1. /\ rows' = CatchUpDirect(missed, s, n) /\ missed \in Rows /\ rows' \in Rows
      /\ Replay(c, PendingQueued(rows', s))
  BY <1>0, CatchUpsTyped DEF Join
<1>2. Forward(rows, rows')
  BY StepForward DEF Next, Proceed
<1>3. ASSUME NEW m \in Messages, msgs[m].kind = "queued"
      PROVE  /\ missed[m] = rows[m]
             /\ rows'[m][s] = IF /\ rows[m][s] = "absent"
                                /\ n # NoName /\ msgs[m].to = n
                                /\ \E t \in Sessions \ {s} : rows[m][t] \in {"pending", "delivered"}
                                /\ ~ReadBySome(rows, m)
                             THEN "pending" ELSE rows[m][s]
  <2>1. missed[m] = rows[m]
    BY <1>3 DEF CatchUpBroadcasts
  <2> HIDE DEF missed, s, n
  <2>2. ReadBySome(missed, m) <=> ReadBySome(rows, m)
    BY <2>1 DEF ReadBySome
  <2>3. Recipients(missed, m, {s})[m][s] = IF rows[m][s] = "absent" THEN "pending" ELSE rows[m][s]
    BY <1>0, <1>1, <2>1 DEF Recipients, Rows
  <2> QED
    BY <1>0, <1>1, <1>3, <2>1, <2>2, <2>3 DEF CatchUpDirect
<1> HIDE DEF missed
<1>4. PendingQueued(rows', s) = all
  <2>1. \A m \in Messages : msgs[m].kind = "queued" /\ rows'[m][s] = "pending" => m \in Backlog(c)
    BY <1>3 DEF Backlog
  <2>2. IsFiniteSet(Backlog(c)) /\ Cardinality(Backlog(c)) <= ReplayLimit
    BY <1>0 DEF BacklogFits
  <2> HIDE DEF s
  <2> QED
    BY <1>0, <2>1, <2>2, ReplayTakesAll
<1>5. conn'[c].todo = all /\ conn'[c].sid = s /\ conn'[c].name = n
  BY <1>0, <1>1, <1>4, ReplayListener
<1>6. TodoAttached(c)'
  BY <1>5 DEF TodoAttached
<1>7. Drained(c)'
  <2> SUFFICES ASSUME NEW m \in Messages, msgs[m].kind = "queued", msgs[m].to = n,
                      ~ReadBySome(rows', m)
               PROVE  rows'[m][s] \in {"pending", "delivered", "read"}
    BY <1>0, <1>5 DEF Drained
  <2>1. n # NoName /\ \E t \in Sessions : rows[m][t] # "absent"
    BY <1>0 DEF QueuedKnown, BusAssumption
  <2>2. \A t \in Sessions : rows[m][t] \in DeliveryState /\ rows[m][t] # "read"
    BY <1>0, <1>1, <1>2, ForwardRows DEF ReadBySome, Rows
  <2>3. ~ReadBySome(rows, m)
    BY <2>2 DEF ReadBySome
  <2> QED
    BY <1>0, <1>3, <2>1, <2>2, <2>3 DEF DeliveryState
<1> QED
  BY <1>6, <1>7

LEMMA ReplayedCovers ==
  ASSUME Inv, NEW c \in Conns, Drained(c), TodoAttached(c), Replayed(c)
  PROVE  Drained(c)' /\ TodoAttached(c)'
<1> DEFINE s == conn[c].sid
           o == Oldest(conn[c].todo)
<1>0. /\ TypeOK /\ rows \in Rows /\ s \in Sessions /\ UNCHANGED msgs
      /\ conn[c].todo \subseteq Messages
  BY DEF Inv, TypeOK, Rows, Replayed, HandlersSpeak, Running, ConnState
<1>1. rows' = Consumed(rows, o, s) /\ rows' \in Rows /\ Replay(c, conn[c].todo \ {o})
  BY <1>0, ConsumedTyped DEF Replayed
<1>2. Forward(rows, rows')
  BY StepForward DEF Next, Proceed
<1>3. conn'[c].todo = conn[c].todo \ {o} /\ conn'[c].sid = s /\ conn'[c].name = conn[c].name
  BY <1>0, <1>1, ReplayListener
<1>4. o \in conn[c].todo => rows'[o][s] \in {"delivered", "read"}
  <2>1. o \in conn[c].todo => o \in Messages /\ rows[o][s] # "absent"
    BY <1>0 DEF TodoAttached
  <2> HIDE DEF o, s
  <2> QED
    BY <1>0, <1>1, <2>1 DEF Consumed, Rows, DeliveryState
<1> HIDE DEF o
<1>5. TodoAttached(c)'
  BY <1>0, <1>1, <1>2, <1>3, ForwardRows DEF TodoAttached
<1>6. Drained(c)'
  <2> SUFFICES ASSUME NEW m \in Messages, msgs[m].kind = "queued", msgs[m].to = conn[c].name,
                      msgs[m].from # s
               PROVE  m \in conn'[c].todo \/ rows'[m][s] \in {"delivered", "read"} \/ ReadBySome(rows', m)
    BY <1>0, <1>3 DEF Drained
  <2>1. m \in conn[c].todo \/ rows[m][s] \in {"delivered", "read"} \/ ReadBySome(rows, m)
    BY DEF Drained
  <2> QED
    BY <1>0, <1>1, <1>2, <1>3, <1>4, <2>1, ForwardRows DEF ReadBySome
<1> QED
  BY <1>5, <1>6

\* What others do meanwhile queues nothing for the name, which is held.
LEMMA CoversGoesOn ==
  ASSUME Inv, [Next]_vars, NEW e \in Conns, Held(e), Covers(e), GoesOn(e)
  PROVE  Covers(e)'
<1> SUFFICES ASSUME conn[e].pc = "replaying", conn[e].sock # "closed"
             PROVE  Drained(e)' /\ TodoAttached(e)'
  BY DEF Covers, GoesOn, SameListener
<1> DEFINE s == conn[e].sid
<1>0. /\ BusAssumption /\ rows \in Rows /\ rows' \in Rows /\ Forward(rows, rows')
      /\ s \in Sessions /\ conn[e].todo \subseteq Messages
  BY BusAssumption, Inductive, StepForward DEF Inv, TypeOK, Rows, HandlersSpeak, Running, ConnState
<1>1. Drained(e) /\ TodoAttached(e) /\ Registered(e)
  BY DEF Covers, Held, InHello
<1>2. conn'[e].sid = s /\ conn'[e].name = conn[e].name /\ conn'[e].todo = conn[e].todo
  BY DEF GoesOn, SameListener
<1>3. TodoAttached(e)'
  <2> SUFFICES ASSUME NEW m \in conn[e].todo PROVE rows'[m][s] # "absent"
    BY <1>2 DEF TodoAttached
  <2>1. m \in Messages /\ rows[m][s] # "absent"
    BY <1>0, <1>1 DEF TodoAttached
  <2> QED
    BY <1>0, <2>1, ForwardRows
<1>4. Drained(e)'
  <2> SUFFICES ASSUME NEW m \in Messages, msgs'[m].kind = "queued",
                      msgs'[m].to = conn[e].name, msgs'[m].from # s
               PROVE  m \in conn[e].todo \/ rows'[m][s] \in {"delivered", "read"} \/ ReadBySome(rows', m)
    BY <1>2 DEF Drained
  <2>1. s \in Holders(conn[e].name)
    BY <1>1 DEF Holders, NameOf, Registered
  <2>2. msgs[m].kind = "queued" /\ msgs[m].to = conn[e].name /\ msgs[m].from # s
    BY <2>1, NextQueued DEF QueuedAway
  <2>3. m \in conn[e].todo \/ rows[m][s] \in {"delivered", "read"} \/ ReadBySome(rows, m)
    BY <1>1, <2>2 DEF Drained
  <2> QED
    BY <1>0, <2>3, ForwardRows DEF ReadBySome
<1> QED
  BY <1>3, <1>4

LEMMA ReplayInductive ==
  ASSUME Inv, UnusedUnsent, ReplayInv, BacklogFits, NotRenamed, [Next]_vars
  PROVE  ReplayInv'
<1>1. HelloSteps /\ QueuedKnown'
  BY NextHellos, QueuedKept DEF ReplayInv
<1>2. \A e \in Conns : Held(e)'
  BY <1>1, HeldKept DEF ReplayInv
<1>3. ASSUME NEW e \in Conns PROVE Covers(e)'
  <2> SUFFICES ASSUME conn'[e].pc = "replaying", conn'[e].sock # "closed"
               PROVE  Covers(e)'
    BY DEF Covers
  <2>1. GoesOn(e) \/ Advances(e)
    BY <1>1 DEF HelloSteps, Greeting, Begins, InHello
  <2>2. CASE GoesOn(e)
    BY <2>2, CoversGoesOn DEF ReplayInv
  <2>3. CASE Join(e)
    BY <2>3, JoinCovers DEF ReplayInv, Covers
  <2>4. CASE Replayed(e)
    BY <2>4, ReplayedCovers DEF ReplayInv, Covers, Replayed
  <2> QED
    BY <2>1, <2>2, <2>3, <2>4 DEF Advances
<1> QED
  BY <1>1, <1>2, <1>3 DEF ReplayInv

\* Whoever completes a hello has been pushed all that others queued for its
\* name and nobody read, whatever is sent, drained or taken over meanwhile, if
\* nobody renames it during the hello and its backlog fits into one replay.
THEOREM HelloDrains ==
  Spec /\ []BacklogFits /\ [][NotRenamed]_vars => HelloDrainsQueue
<1> DEFINE Drains ==
             \A c \in Conns :
               /\ conn[c].pc \in {"joining", "replaying"}
               /\ conn'[c].pc = "idle" /\ conn'[c].sock # "closed"
               => \A m \in Messages :
                    /\ msgs[m].kind = "queued" /\ msgs[m].to = conn[c].name
                    /\ msgs[m].from # conn[c].sid
                    => rows'[m][conn[c].sid] \in {"delivered", "read"} \/ ReadBySome(rows', m)
<1>1. Init => ReplayInv
  BY DEF Init, ReplayInv, QueuedKnown, Held, Covers, FreeConn, InHello
<1>2. NotRenamed \/ UNCHANGED vars => NotRenamed
  BY DEF NotRenamed, vars
<1>3. Inv /\ DeliveryInv /\ ReplayInv /\ BacklogFits /\ [NotRenamed]_vars /\ [Next]_vars => ReplayInv'
  BY <1>2, ReplayInductive DEF DeliveryInv
<1>4. Inv /\ ReplayInv /\ BacklogFits /\ [NotRenamed]_vars /\ [Next]_vars => [Drains]_vars
  <2> SUFFICES ASSUME Inv, ReplayInv, BacklogFits, NotRenamed, [Next]_vars, NEW c \in Conns,
                      conn[c].pc \in {"joining", "replaying"},
                      conn'[c].pc = "idle", conn'[c].sock # "closed",
                      NEW m \in Messages, msgs[m].kind = "queued",
                      msgs[m].to = conn[c].name, msgs[m].from # conn[c].sid
               PROVE  rows'[m][conn[c].sid] \in {"delivered", "read"} \/ ReadBySome(rows', m)
    BY <1>2
  <2>1. Join(c) \/ (Replayed(c) /\ Drained(c) /\ TodoAttached(c))
    <3>1. HelloSteps
      BY NextHellos DEF ReplayInv
    <3>2. Advances(c)
      BY <3>1 DEF HelloSteps, Greeting, Begins, GoesOn, InHello
    <3> QED
      BY <3>2 DEF Advances, Replayed, ReplayInv, Covers
  <2>2. Drained(c)'
    BY <2>1, JoinCovers, ReplayedCovers DEF ReplayInv
  <2>3. PICK S : Replay(c, S)
    BY <2>1 DEF Join, Replayed
  <2>4. conn'[c].todo = {} /\ conn'[c].sid = conn[c].sid /\ conn'[c].name = conn[c].name
    BY <2>3, ReplayListener DEF Inv
  <2>5. UNCHANGED msgs
    BY <2>1 DEF Join, Replayed
  <2> QED
    BY <2>2, <2>4, <2>5 DEF Drained
<1> QED
  BY <1>1, <1>3, <1>4, Invariance, DeliveryInvariance, PTL DEF Spec, HelloDrainsQueue

----------------------------------------------------------------------------
(* No socket takes a message twice.  What was written to a socket was      *)
(* stored before; of the queued messages, only those were written to it    *)
(* that its replay has done with.                                          *)

EndedClosed == \A c \in Conns : conn[c].pc \in {"free", "dead"} => conn[c].sock = "closed"

WrittenTyped == written \in [Conns -> [Messages -> 0..1]]

\* What the socket of c may have taken so far.
WrittenSoFar(c) ==
  IF conn[c].sock = "closed" THEN written[c] = NothingWritten
  ELSE /\ conn[c].pc = "replaying" => \A m \in conn[c].todo : m \in Messages /\ msgs[m].kind = "queued"
       /\ \A m \in Messages : written[c][m] > 0 =>
            /\ msgs[m].kind # "unused"
            /\ msgs[m].kind = "queued" =>
                 /\ conn[c].pc \notin {"welcome", "joining"}
                 /\ conn[c].pc = "replaying" => m \notin conn[c].todo \ {Oldest(conn[c].todo)}

WrittenInv == EndedClosed /\ WrittenTyped /\ \A c \in Conns : WrittenSoFar(c)

\* A step pushes to c the oldest of what is left to push.
PushesNext(c) ==
  /\ conn'[c].pc = "replaying" /\ Oldest(conn'[c].todo) \in conn'[c].todo
  /\ \/ /\ conn[c].pc = "joining"
        /\ \A m \in conn'[c].todo : m \in Messages /\ msgs[m].kind = "queued"
     \/ /\ conn[c].pc = "replaying"
        /\ conn'[c].todo = conn[c].todo \ {Oldest(conn[c].todo)}

\* What a step does to the socket of c and its handler.
Onward(c) ==
  \/ conn'[c].sock = "closed"
  \/ conn[c].sock = "closed" /\ conn'[c].pc # "replaying"
  \/ /\ conn[c].sock # "closed"
     /\ \/ conn'[c].pc \notin InHello
        \/ conn'[c].pc = conn[c].pc /\ conn'[c].todo = conn[c].todo
        \/ conn[c].pc = "welcome" /\ conn'[c].pc = "joining"
        \/ PushesNext(c)

\* A handler that begins to send m has just stored it.
SendsNew(c) ==
  conn[c].pc = "idle" /\ conn'[c].pc = "sending" =>
    \A m \in conn'[c].todo : msgs[m].kind = "unused" /\ msgs'[m].kind = "direct"

EndsClosed(c) == conn'[c].pc \in {"free", "dead"} => conn'[c].sock = "closed"

WritesStep == \A e \in Conns : Onward(e) /\ SendsNew(e) /\ EndsClosed(e)

LEMMA IdleStep ==
  ASSUME EndedClosed, NEW e \in Conns,
         conn'[e].pc = conn[e].pc, conn'[e].todo = conn[e].todo,
         conn'[e].sock = conn[e].sock \/ conn'[e].sock = "closed" \/ conn[e].sock # "closed"
  PROVE  Onward(e) /\ SendsNew(e) /\ EndsClosed(e)
BY DEF Onward, SendsNew, EndsClosed, EndedClosed

LEMMA EnvironmentOnward ==
  ASSUME Inv, EndedClosed, Environment
  PROVE  WritesStep
<1>0. TypeOK
  BY DEF Inv
<1>1. CASE \E c \in Conns : Drop(c)
  <2>1. PICK c \in Conns, k \in {"half", "closed"} :
          conn' = [conn EXCEPT ![c].sock = k] /\ conn[c].sock # "closed"
    BY <1>1 DEF Drop
  <2>2. \A e \in Conns : /\ conn'[e].pc = conn[e].pc /\ conn'[e].todo = conn[e].todo
                         /\ conn'[e].sock = IF e = c THEN k ELSE conn[e].sock
    BY <1>0, <2>1 DEF TypeOK, ConnState
  <2> QED
    BY <2>1, <2>2, IdleStep DEF WritesStep
<1>2. CASE Restart
  <2>1. \A e \in Conns : conn'[e].pc = "free" /\ conn'[e].sock = "closed"
    BY <1>2 DEF Restart, FreeConn
  <2> QED
    BY <2>1 DEF WritesStep, Onward, SendsNew, EndsClosed
<1>3. CASE UNCHANGED conn
  BY <1>3, IdleStep DEF WritesStep
<1> QED
  BY <1>1, <1>2, <1>3 DEF Environment, HostDrains, HostReads, Age

LEMMA HelloOnward ==
  ASSUME Inv, EndedClosed, NEW c \in Conns, Hello(c)
  PROVE  WritesStep
<1>0. TypeOK
  BY DEF Inv
<1> PICK s \in Sessions, sock \in {"open", "half", "closed"} :
      HelloAgent(c, s, sock) \/ HelloNameTaken(c, s, sock)
  BY DEF Hello
<1>1. CASE HelloAgent(c, s, sock)
  <2>1. conn'[c].pc = "welcome" /\ conn[c].sock = "closed"
    BY <1>1 DEF HelloAgent, FreeConn, Connects, Unused, EndedClosed
  <2>2. ASSUME NEW e \in Conns, e # c
        PROVE  /\ conn'[e].pc = conn[e].pc /\ conn'[e].todo = conn[e].todo
               /\ conn'[e].sock \in {"closed", conn[e].sock}
    BY <1>0, <1>1, <2>2 DEF HelloAgent, TypeOK, ConnState
  <2>3. Onward(c) /\ SendsNew(c) /\ EndsClosed(c)
    BY <2>1 DEF Onward, SendsNew, EndsClosed
  <2> QED
    BY <2>2, <2>3, IdleStep DEF WritesStep
<1>2. CASE HelloNameTaken(c, s, sock)
  BY <1>2, IdleStep DEF HelloNameTaken, WritesStep
<1> QED
  BY <1>1, <1>2

\* Only handler c moves, and it is not at the end of its connection.
LEMMA OneMoves ==
  ASSUME EndedClosed, NEW c \in Conns, \A e \in Conns : e # c => conn'[e] = conn[e],
         Onward(c), SendsNew(c), EndsClosed(c)
  PROVE  WritesStep
BY IdleStep DEF WritesStep

LEMMA ReplayOnward ==
  ASSUME Inv, EndedClosed, NEW c \in Conns, Join(c) \/ Replayed(c) \/ ReplayFails(c)
  PROVE  WritesStep
<1>0. TypeOK
  BY DEF Inv
<1>1. PICK S : /\ Replay(c, S)
               /\ \/ conn[c].pc = "joining" /\ \A m \in S : m \in Messages /\ msgs[m].kind = "queued"
                  \/ conn[c].pc = "replaying" /\ S = conn[c].todo \ {Oldest(conn[c].todo)}
                  \/ conn[c].pc = "replaying" /\ S = {}
  <2>1. Join(c) => conn[c].pc = "joining" /\ \E r, s : Replay(c, PendingQueued(r, s))
    BY DEF Join
  <2>2. \A r, s : \A m \in PendingQueued(r, s) : m \in Messages /\ msgs[m].kind = "queued"
    BY DEF PendingQueued
  <2> QED
    BY <2>1, <2>2 DEF Replayed, ReplayFails
<1>2. /\ \A e \in Conns : e # c => conn'[e] = conn[e]
      /\ conn'[c].todo = S /\ conn'[c].sock = conn[c].sock
      /\ conn'[c].pc = IF S = {} THEN "idle" ELSE "replaying"
  BY <1>0, <1>1, ReplayListener
<1>3. S # {} => Oldest(S) \in S
  BY <1>1 DEF Replay
<1>4. Onward(c) /\ SendsNew(c) /\ EndsClosed(c)
  BY <1>1, <1>2, <1>3 DEF Onward, PushesNext, InHello, SendsNew, EndsClosed
<1> QED
  BY <1>2, <1>4, OneMoves

LEMMA ProceedOnward ==
  ASSUME Inv, EndedClosed, NEW c \in Conns, Proceed(c)
  PROVE  WritesStep
<1>0. TypeOK /\ conn[c] \in ConnState
  BY DEF Inv, TypeOK
<1> DEFINE Moved == /\ \A e \in Conns : e # c => conn'[e] = conn[e]
                    /\ conn[c].pc # "idle"
                    /\ \/ conn[c].pc = "welcome" /\ conn'[c].pc = "joining"
                       \/ conn'[c].pc = "dead" /\ conn'[c].sock = "closed"
                       \/ conn'[c].pc = "idle"
<1>1. Moved => WritesStep
  <2> SUFFICES ASSUME Moved PROVE WritesStep
    OBVIOUS
  <2>1. Onward(c) /\ SendsNew(c) /\ EndsClosed(c)
    BY DEF Onward, InHello, SendsNew, EndsClosed
  <2> QED
    BY <2>1, OneMoves
<1>2. Welcomed(c) => Moved
  <2>1. Welcomed(c) => conn[c].pc = "welcome" /\ conn' = [conn EXCEPT ![c].pc = "joining"]
    BY DEF Welcomed
  <2> QED
    BY <1>0, <2>1 DEF TypeOK, ConnState
<1>3. WelcomeFails(c) => Moved
  BY <1>0 DEF WelcomeFails, TypeOK, FreeConn
<1>4. Sent(c) => Moved
  <2>1. Sent(c) => /\ conn[c].pc = "sending"
                   /\ conn' = [conn EXCEPT ![c].pc = "idle", ![c].peer = NoConn, ![c].todo = {}]
    BY DEF Sent
  <2> QED
    BY <1>0, <2>1 DEF TypeOK, ConnState
<1> HIDE DEF Moved
<1> QED
  BY <1>1, <1>2, <1>3, <1>4, ReplayOnward DEF Proceed

LEMMA RequestOnward ==
  ASSUME Inv, EndedClosed, NEW c \in Conns, Request(c)
  PROVE  WritesStep
<1>0. TypeOK /\ BusAssumption /\ conn[c] \in ConnState
  BY BusAssumption DEF Inv, TypeOK
<1>1. CASE (\E s \in Sessions : HelloControl(c, s)) \/ Leave(c)
  <2>1. \E v : /\ conn' = [conn EXCEPT ![c] = v]
               /\ v.pc = "idle" \/ (v.pc = "free" /\ v.sock = "closed")
    <3>1. Leave(c) => conn' = [conn EXCEPT ![c] = FreeConn]
      BY DEF Leave
    <3>2. ASSUME NEW s, HelloControl(c, s)
          PROVE  \E v : conn' = [conn EXCEPT ![c] = v] /\ v.pc = "idle"
      <4> DEFINE v == [FreeConn EXCEPT !.pc = "idle", !.role = "control", !.sid = s,
                                       !.name = NameOf(s), !.sock = "open"]
      <4>1. v.pc = "idle"
        BY DEF FreeConn
      <4>2. conn' = [conn EXCEPT ![c] = v]
        BY <3>2 DEF HelloControl
      <4> HIDE DEF v
      <4> QED
        BY <4>1, <4>2
    <3>3. FreeConn.pc = "free" /\ FreeConn.sock = "closed"
      BY DEF FreeConn
    <3> QED
      BY <1>1, <3>1, <3>2, <3>3
  <2>2. /\ \A e \in Conns : e # c => conn'[e] = conn[e]
        /\ conn'[c].pc = "idle" \/ (conn'[c].pc = "free" /\ conn'[c].sock = "closed")
    BY <1>0, <2>1 DEF TypeOK
  <2>3. Onward(c) /\ SendsNew(c) /\ EndsClosed(c)
    BY <2>2 DEF Onward, InHello, SendsNew, EndsClosed
  <2> QED
    BY <2>2, <2>3, OneMoves
<1>2. ASSUME NEW m \in Messages, NEW r, NEW t, SendDirect(c, t, m, r)
      PROVE  WritesStep
  <2>1. PICK p : conn' = [conn EXCEPT ![c].pc = "sending", ![c].peer = p, ![c].todo = {m}]
    BY <1>2, Zenon DEF SendDirect
  <2>2. \E from, to : Stored(m, "direct", from, to)
    BY <1>2, Zenon DEF SendDirect
  <2>3. msgs[m].kind = "unused" /\ msgs'[m].kind = "direct"
    BY <1>0, <2>2 DEF Stored, TypeOK
  <2>4. /\ conn'[c].pc = "sending" /\ conn'[c].todo = {m}
        /\ \A e \in Conns : e # c => conn'[e] = conn[e]
    BY <1>0, <2>1 DEF TypeOK, ConnState
  <2>5. Onward(c) /\ SendsNew(c) /\ EndsClosed(c)
    BY <2>3, <2>4 DEF Onward, InHello, SendsNew, EndsClosed
  <2> QED
    BY <2>4, <2>5, OneMoves
<1>3. CASE \E n \in RenameNames : Rename(c, n)
  <2> PICK n \in RenameNames : Rename(c, n)
    BY <1>3
  <2> DEFINE x == registry[conn[c].sid]
             entry == [conn EXCEPT ![x] = [conn[x] EXCEPT !.name = n]]
  <2>0. x \in Conns /\ conn' = [entry EXCEPT ![c] = [entry[c] EXCEPT !.name = n]]
    BY <1>0, LiveNamed DEF Rename
  <2>1. /\ entry \in [Conns -> ConnState]
        /\ \A d \in Conns : /\ entry[d].pc = conn[d].pc /\ entry[d].todo = conn[d].todo
                            /\ entry[d].sock = conn[d].sock
    <3>1. n \in Names \cup {NoName} /\ [conn[x] EXCEPT !.name = n] \in ConnState
      BY <1>0, <2>0, ConnTyped DEF BusAssumption, TypeOK
    <3> QED
      BY <1>0, <2>0, <3>1 DEF TypeOK, ConnState
  <2> HIDE DEF entry
  <2>2. \A e \in Conns : /\ conn'[e].pc = conn[e].pc /\ conn'[e].todo = conn[e].todo
                         /\ conn'[e].sock = conn[e].sock
    BY <2>0, <2>1 DEF ConnState
  <2> QED
    BY <2>2, IdleStep DEF WritesStep
<1>4. CASE UNCHANGED conn
  BY <1>4, IdleStep DEF WritesStep
<1> QED
  BY <1>1, <1>2, <1>3, <1>4 DEF Request, SendQueued, Broadcast, Ping

\* What was stored stays stored.
LEMMA KindsKept ==
  ASSUME Inv, Next, NEW m \in Messages, msgs[m].kind # "unused"
  PROVE  msgs'[m].kind = msgs[m].kind
<1>0. TypeOK
  BY DEF Inv
<1>1. ASSUME NEW k \in Messages, NEW kind, NEW from, NEW to, Stored(k, kind, from, to)
      PROVE  msgs'[m].kind = msgs[m].kind
  BY <1>0, <1>1 DEF Stored, TypeOK
<1>2. ASSUME NEW k \in Messages, Age(k)
      PROVE  msgs'[m].kind = msgs[m].kind
  <2>1. msgs' = [msgs EXCEPT ![k].fresh = FALSE]
    BY <1>2 DEF Age
  <2> QED
    BY <1>0, <2>1 DEF TypeOK, MessageRow
<1>3. CASE Environment
  BY <1>2, <1>3 DEF Environment, Drop, HostDrains, HostReads, Restart
<1>4. ASSUME NEW c \in Conns, Hello(c) \/ Proceed(c)
      PROVE  msgs'[m].kind = msgs[m].kind
  BY <1>4 DEF Hello, HelloAgent, HelloNameTaken, Proceed, Welcomed, WelcomeFails,
              Join, Replayed, ReplayFails, Sent
<1>5. ASSUME NEW c \in Conns, Request(c)
      PROVE  msgs'[m].kind = msgs[m].kind
  <2>1. ASSUME NEW k \in Messages, NEW r, NEW t,
               SendDirect(c, t, k, r) \/ SendQueued(c, t, k, r) \/ Broadcast(c, k, r)
        PROVE  \E kind, from, to : Stored(k, kind, from, to)
    BY <2>1, Zenon DEF SendDirect, SendQueued, Broadcast
  <2> QED
    BY <1>1, <1>5, <2>1 DEF Request, HelloControl, Rename, Ping, Leave
<1> QED
  BY <1>3, <1>4, <1>5 DEF Next

LEMMA NextOnward == ASSUME Inv, EndedClosed, Next PROVE WritesStep
BY EnvironmentOnward, HelloOnward, ProceedOnward, RequestOnward DEF Next

\* What a socket takes it has not taken before; a queued message, only by its
\* replay.
LEMMA TakesNew ==
  ASSUME Inv, WrittenInv, WritesStep, NEW c \in Conns, NEW m \in Messages,
         conn'[c].sock # "closed", Takes(c, m), Next
  PROVE  /\ written[c][m] = 0 /\ msgs'[m].kind # "unused"
         /\ msgs'[m].kind = "queued" => PushesNext(c) /\ m = Oldest(conn'[c].todo)
<1>0. /\ TypeOK /\ conn[c].sock # "closed" /\ written[c][m] \in 0..1
      /\ WrittenSoFar(c) /\ Onward(c)
  BY DEF Inv, WrittenInv, WrittenTyped, Takes, WritesStep
<1>1. msgs[m].kind = "unused" => written[c][m] = 0
  BY <1>0 DEF WrittenSoFar
<1>2. CASE Pushes(c, m)
  <2>1. PushesNext(c)
    BY <1>0, <1>2 DEF Pushes, Onward, InHello
  <2>2. m = Oldest(conn'[c].todo) /\ m \in conn'[c].todo
    BY <1>2, <2>1 DEF Pushes, PushesNext
  <2>3. msgs[m].kind = "queued" /\ written[c][m] = 0
    BY <1>0, <2>1, <2>2 DEF PushesNext, WrittenSoFar
  <2>4. msgs'[m].kind = "queued"
    BY <2>3, KindsKept
  <2> QED
    BY <2>1, <2>2, <2>3, <2>4
<1>3. CASE SendsDirect(c, m)
  <2>1. msgs[m].kind = "unused" /\ msgs'[m].kind = "direct"
    BY <1>3 DEF SendsDirect, WritesStep, SendsNew
  <2> QED
    BY <1>1, <2>1
<1>4. CASE SendsToAll(c, m)
  BY <1>1, <1>4 DEF SendsToAll
<1> QED
  BY <1>2, <1>3, <1>4 DEF Takes

LEMMA WrittenInductive ==
  ASSUME Inv, WrittenInv, NextW
  PROVE  WrittenInv'
<1>0. Next /\ Writes /\ WritesStep /\ TypeOK
  BY NextOnward DEF NextW, WrittenInv, Inv
<1>1. EndedClosed'
  BY <1>0 DEF WritesStep, EndsClosed, EndedClosed
<1>2. ASSUME NEW c \in Conns, conn'[c].sock = "closed"
      PROVE  written'[c] = NothingWritten
  BY <1>0, <1>2 DEF Writes
<1>3. ASSUME NEW c \in Conns, conn'[c].sock # "closed", NEW m \in Messages
      PROVE  /\ written[c][m] \in 0..1
             /\ written'[c][m] = IF Takes(c, m) THEN 1 ELSE written[c][m]
  <2>1. written[c][m] \in 0..1
    BY DEF WrittenInv, WrittenTyped
  <2>2. written'[c][m] = IF Takes(c, m) /\ written[c][m] < 2 THEN written[c][m] + 1 ELSE written[c][m]
    BY <1>0, <1>3 DEF Writes
  <2>3. Takes(c, m) => written[c][m] = 0
    BY <1>0, <1>3, TakesNew
  <2> QED
    BY <2>1, <2>2, <2>3
<1>4. WrittenTyped'
  <2>1. ASSUME NEW c \in Conns PROVE written'[c] \in [Messages -> 0..1]
    <3>1. CASE conn'[c].sock = "closed"
      BY <1>2, <3>1 DEF NothingWritten
    <3>2. CASE conn'[c].sock # "closed"
      <4>1. written'[c] = [m \in Messages |->
              IF Takes(c, m) /\ written[c][m] < 2 THEN written[c][m] + 1 ELSE written[c][m]]
        BY <1>0, <3>2 DEF Writes
      <4>2. \A m \in Messages : written'[c][m] \in 0..1
        BY <1>3, <3>2
      <4> QED
        BY <4>1, <4>2
    <3> QED
      BY <3>1, <3>2
  <2>2. DOMAIN written' = Conns /\ written' = [c \in Conns |-> written'[c]]
    BY <1>0 DEF Writes
  <2> QED
    BY <2>1, <2>2 DEF WrittenTyped
<1>5. ASSUME NEW c \in Conns PROVE WrittenSoFar(c)'
  <2>1. CASE conn'[c].sock = "closed"
    BY <1>2, <2>1 DEF WrittenSoFar
  <2>2. CASE conn'[c].sock # "closed" /\ conn[c].sock = "closed"
    <3>1. conn'[c].pc # "replaying"
      BY <1>0, <2>2 DEF WritesStep, Onward
    <3>2. written[c] = NothingWritten
      BY <2>2 DEF WrittenInv, WrittenSoFar
    <3>3. \A m \in Messages : written'[c][m] = 0
      BY <1>3, <2>2, <3>2 DEF Takes, NothingWritten
    <3> QED
      BY <2>2, <3>1, <3>3 DEF WrittenSoFar
  <2>3. CASE conn'[c].sock # "closed" /\ conn[c].sock # "closed"
    <3>1. WrittenSoFar(c) /\ Onward(c)
      BY <1>0 DEF WrittenInv, WritesStep
    <3>2. ASSUME conn'[c].pc = "replaying", NEW m \in conn'[c].todo
          PROVE  m \in Messages /\ msgs'[m].kind = "queued"
      <4>1. m \in Messages /\ msgs[m].kind = "queued"
        BY <2>3, <3>1, <3>2 DEF WrittenSoFar, Onward, PushesNext, InHello
      <4> QED
        BY <1>0, <4>1, KindsKept
    <3>3. ASSUME NEW m \in Messages, written'[c][m] > 0
          PROVE  /\ msgs'[m].kind # "unused"
                 /\ msgs'[m].kind = "queued" =>
                      /\ conn'[c].pc \notin {"welcome", "joining"}
                      /\ conn'[c].pc = "replaying" => m \notin conn'[c].todo \ {Oldest(conn'[c].todo)}
      <4>1. CASE Takes(c, m)
        BY <1>0, <2>3, <4>1, TakesNew DEF PushesNext
      <4>2. CASE ~Takes(c, m)
        <5>1. written[c][m] > 0
          BY <1>3, <2>3, <3>3, <4>2
        <5>2. msgs[m].kind # "unused" /\ msgs'[m].kind = msgs[m].kind
          BY <1>0, <2>3, <3>1, <5>1, KindsKept DEF WrittenSoFar
        <5>3. msgs[m].kind = "queued" =>
                /\ conn[c].pc \notin {"welcome", "joining"}
                /\ conn[c].pc = "replaying" => m \notin conn[c].todo \ {Oldest(conn[c].todo)}
          BY <2>3, <3>1, <5>1 DEF WrittenSoFar
        <5> QED
          BY <2>3, <3>1, <5>2, <5>3 DEF Onward, PushesNext, InHello
      <4> QED
        BY <4>1, <4>2
    <3> QED
      BY <2>3, <3>2, <3>3 DEF WrittenSoFar
  <2> QED
    BY <2>1, <2>2, <2>3
<1> QED
  BY <1>1, <1>4, <1>5 DEF WrittenInv

\* No listener is written a message twice over one socket, however many senders
\* and however the awaits of its replay interleave with them, with drains and
\* marks by the host, with renames and with broken sockets.
THEOREM NoSecondWrite == SpecW => []WrittenOnce
<1>1. InitW => WrittenInv
  BY DEF InitW, Init, FreeConn, WrittenInv, EndedClosed, WrittenTyped, NothingWritten, WrittenSoFar
<1>2. Inv /\ WrittenInv /\ [NextW]_varsW => WrittenInv'
  <2>1. Inv /\ WrittenInv /\ NextW => WrittenInv'
    BY WrittenInductive
  <2>2. WrittenInv /\ UNCHANGED varsW => WrittenInv'
    BY DEF WrittenInv, EndedClosed, WrittenTyped, WrittenSoFar, varsW, vars
  <2> QED
    BY <2>1, <2>2
<1>3. WrittenInv => WrittenOnce
  BY DEF WrittenInv, WrittenTyped, WrittenOnce
<1>4. (InitW => Init) /\ ([NextW]_varsW => [Next]_vars)
  BY DEF InitW, NextW, varsW
<1> QED
  BY <1>1, <1>2, <1>3, <1>4, Invariance, PTL DEF Spec, SpecW
=============================================================================
