----------------------------- MODULE BusProofs -----------------------------
(***************************************************************************)
(* Theorems about Bus for any number of connections, sessions, names and   *)
(* messages: its types, that names identify listeners, that the registry   *)
(* implements RegistryContract, and that rows only move forward.           *)
(***************************************************************************)
EXTENDS Bus, TLAPS

Rows == [Messages -> [Sessions -> DeliveryState]]

\* An entry of the registry is the ClientState of its own session; its
\* handler may be dead, but its connection has not been given to another.
EntriesOwned ==
  \A s \in Agents :
    LET e == conn[registry[s]] IN e.sid = s /\ e.role = "agent" /\ e.pc # "free"

\* A handler that runs speaks for a session.
HandlersSpeak == \A c \in Conns : conn[c].pc \in Running => conn[c].sid \in Sessions

Inv == /\ TypeOK /\ EntriesOwned /\ HandlersSpeak
       /\ UniqueNames /\ OpenListenersRegistered

----------------------------------------------------------------------------
(* What the operators on delivery rows return.                             *)

LEMMA ConsumedTyped == \A r \in Rows : \A m, s : Consumed(r, m, s) \in Rows
<1> TAKE r \in Rows
<1> TAKE m, s
<1> DEFINE v == IF s \in Live THEN IF r[m][s] = "absent" THEN r[m][s] ELSE "read"
                ELSE IF r[m][s] = "pending" THEN "delivered" ELSE r[m][s]
           ofM == [r[m] EXCEPT ![s] = v]
<1>1. Consumed(r, m, s) = [r EXCEPT ![m] = ofM]
  BY DEF Consumed
<1>2. m \in Messages => ofM \in [Sessions -> DeliveryState]
  <2>1. m \in Messages /\ s \in Sessions => v \in DeliveryState
    BY DEF Rows, DeliveryState
  <2> HIDE DEF v
  <2> QED
    BY <2>1 DEF Rows
<1> HIDE DEF ofM
<1> QED
  BY <1>1, <1>2 DEF Rows

LEMMA AnsweredTyped == \A r \in Rows : \A m, s : Answered(r, m, s) \in Rows
<1> TAKE r \in Rows
<1> TAKE m, s
<1> DEFINE v == IF r[m][s] \in {"pending", "delivered"} THEN "read" ELSE r[m][s]
           ofM == [r[m] EXCEPT ![s] = v]
<1>1. Answered(r, m, s) = IF m = NoMessage THEN r ELSE [r EXCEPT ![m] = ofM]
  BY DEF Answered
<1>2. m \in Messages => ofM \in [Sessions -> DeliveryState]
  <2>1. m \in Messages /\ s \in Sessions => v \in DeliveryState
    BY DEF Rows, DeliveryState
  <2> HIDE DEF v
  <2> QED
    BY <2>1 DEF Rows
<1> HIDE DEF ofM
<1> QED
  BY <1>1, <1>2 DEF Rows

LEMMA RecipientsTyped == \A r \in Rows : \A m, S : Recipients(r, m, S) \in Rows
<1> TAKE r \in Rows
<1> TAKE m, S
<1> DEFINE ofM == [s \in Sessions |->
             IF s \in S /\ r[m][s] = "absent" THEN "pending" ELSE r[m][s]]
<1>1. Recipients(r, m, S) = [r EXCEPT ![m] = ofM]
  BY DEF Recipients
<1>2. m \in Messages => ofM \in [Sessions -> DeliveryState]
  BY DEF Rows, DeliveryState
<1> HIDE DEF ofM
<1> QED
  BY <1>1, <1>2 DEF Rows

LEMMA CatchUpsTyped ==
  \A r \in Rows : \A s, n : /\ CatchUpBroadcasts(r, s) \in Rows
                           /\ CatchUpDirect(r, s, n) \in Rows
<1> TAKE r \in Rows
<1> TAKE s, n
<1>1. \A m \in Messages : Recipients(r, m, {s})[m] \in [Sessions -> DeliveryState]
  BY RecipientsTyped DEF Rows
<1>2. \A m \in Messages : r[m] \in [Sessions -> DeliveryState]
  BY DEF Rows
<1>3. CatchUpBroadcasts(r, s) \in Rows
  BY <1>1, <1>2 DEF CatchUpBroadcasts, Rows
<1>4. CatchUpDirect(r, s, n) \in Rows
  BY <1>1, <1>2 DEF CatchUpDirect, Rows
<1> QED
  BY <1>3, <1>4
----------------------------------------------------------------------------
(* Types of the larger updates.                                            *)

LEMMA FreeTyped == FreeConn \in ConnState
BY DEF FreeConn, ConnState, Running

\* A handler's ClientState stays one when its fields take typed values.
LEMMA ConnTyped ==
  \A e \in ConnState :
    /\ \A pc \in Running \cup {"free", "dead"} :
         [e EXCEPT !.pc = pc] \in ConnState
    /\ \A pc \in Running, S \in SUBSET Messages :
         [e EXCEPT !.pc = pc, !.todo = S] \in ConnState
    /\ \A pc \in Running, S \in SUBSET Messages, d \in Conns \cup {NoConn} :
         [e EXCEPT !.pc = pc, !.peer = d, !.todo = S] \in ConnState
    /\ \A k \in {"half", "closed"} : [e EXCEPT !.sock = k] \in ConnState
    /\ \A n \in Names \cup {NoName} : [e EXCEPT !.name = n] \in ConnState
<1> TAKE e \in ConnState
<1>1. \A pc \in Running \cup {"free", "dead"} : [e EXCEPT !.pc = pc] \in ConnState
  BY DEF ConnState
<1>2. \A pc \in Running : \A S \in SUBSET Messages :
        [e EXCEPT !.pc = pc, !.todo = S] \in ConnState
  BY DEF ConnState
<1>3. \A pc \in Running : \A S \in SUBSET Messages : \A d \in Conns \cup {NoConn} :
        [e EXCEPT !.pc = pc, !.peer = d, !.todo = S] \in ConnState
  BY DEF ConnState
<1>4. \A k \in {"half", "closed"} : [e EXCEPT !.sock = k] \in ConnState
  BY DEF ConnState
<1>5. \A n \in Names \cup {NoName} : [e EXCEPT !.name = n] \in ConnState
  BY DEF ConnState
<1> QED
  BY <1>1, <1>2, <1>3, <1>4, <1>5

\* The order of last_seen_at is one of sessions and of hellos under way.
Order == (Sessions \cup Conns) \X (Sessions \cup Conns)

LEMMA SeenTyped ==
  ASSUME TypeOK
  PROVE  /\ \A S : Without(S) \subseteq Order
         /\ \A s \in Sessions : \A n : Seen(s, n) \subseteq Order
         /\ \A c, n : \A s \in Sessions : SeenAtHello(c, s, n) \subseteq Order
<1>1. \A S : Without(S) \subseteq Order
  BY DEF TypeOK, Without, Order
<1>2. \A n : KnownAs(n) \subseteq Sessions /\ Joining \subseteq Conns
  BY DEF KnownAs, Joining
<1>3. \A s \in Sessions : \A n : Seen(s, n) \subseteq Order
  BY <1>1, <1>2 DEF Seen, Order
<1>4. \A c, n : \A s \in Sessions : SeenAtHello(c, s, n) \subseteq Order
  BY <1>1, <1>2 DEF SeenAtHello, Order
<1> QED
  BY <1>1, <1>3, <1>4

\* Replaying touches the handler's own state and the fate of one message.
LEMMA ReplayTyped ==
  ASSUME TypeOK, NEW c \in Conns
  PROVE  \A S \in SUBSET Messages : Replay(c, S) =>
           /\ conn' \in [Conns -> ConnState]
           /\ reached' \subseteq Messages /\ swallowed' \subseteq Messages
<1> TAKE S \in SUBSET Messages
<1> HAVE Replay(c, S)
<1>1. conn[c] \in ConnState
  BY DEF TypeOK
<1> DEFINE after == IF S = {} THEN [conn[c] EXCEPT !.pc = "idle", !.todo = {}]
                    ELSE [conn[c] EXCEPT !.pc = "replaying", !.todo = S]
<1>2. after \in ConnState
  BY <1>1, ConnTyped DEF Running
<1>3. conn' = [conn EXCEPT ![c] = after]
  BY DEF Replay
<1> HIDE DEF after
<1>4. conn' \in [Conns -> ConnState]
  BY <1>2, <1>3 DEF TypeOK
<1>5. reached' \subseteq Messages /\ swallowed' \subseteq Messages
  BY DEF Replay, Handed, Lost, TypeOK
<1> QED
  BY <1>4, <1>5

\* What Stored writes is a message.
LEMMA StoredTyped ==
  ASSUME TypeOK, NEW m \in Messages
  PROVE  \A kind \in {"direct", "queued", "broadcast"},
            from \in Sessions \cup {NoSession}, to \in Names \cup {NoName} :
           Stored(m, kind, from, to) => msgs' \in [Messages -> MessageRow]
BY DEF Stored, TypeOK, MessageRow

----------------------------------------------------------------------------
(* TypeOK is inductive with HandlersSpeak: a handler that runs writes the  *)
(* rows of its session, so it must have one.                               *)

LEMMA EnvironmentTyped == TypeOK /\ Environment => TypeOK'
<1> SUFFICES ASSUME TypeOK, Environment PROVE TypeOK'
  OBVIOUS
<1>1. CASE \E c \in Conns : Drop(c)
  <2> PICK c \in Conns : Drop(c)
    BY <1>1
  <2>1. PICK k \in {"half", "closed"} : conn' = [conn EXCEPT ![c] = [conn[c] EXCEPT !.sock = k]]
    BY DEF Drop
  <2>2. conn' \in [Conns -> ConnState]
    <3> DEFINE after == [conn[c] EXCEPT !.sock = k]
    <3>1. after \in ConnState
      BY ConnTyped DEF TypeOK
    <3>2. conn' = [conn EXCEPT ![c] = after]
      BY <2>1
    <3> HIDE DEF after
    <3> QED
      BY <3>1, <3>2 DEF TypeOK
  <2> QED
    BY <2>2 DEF Drop, TypeOK
<1>2. CASE \E m \in Messages, s \in Sessions : HostDrains(m, s) \/ HostReads(m, s)
  <2> PICK m \in Messages, s \in Sessions : HostDrains(m, s) \/ HostReads(m, s)
    BY <1>2
  <2>1. PICK v \in {"delivered", "read"} : rows' = [rows EXCEPT ![m] = [rows[m] EXCEPT ![s] = v]]
    BY DEF HostDrains, HostReads
  <2>2. rows' \in [Messages -> [Sessions -> DeliveryState]]
    <3> DEFINE ofM == [rows[m] EXCEPT ![s] = v]
    <3>1. ofM \in [Sessions -> DeliveryState]
      BY DEF TypeOK, DeliveryState
    <3>2. rows' = [rows EXCEPT ![m] = ofM]
      BY <2>1
    <3> HIDE DEF ofM
    <3> QED
      BY <3>1, <3>2 DEF TypeOK
  <2> QED
    BY <2>2 DEF HostDrains, HostReads, TypeOK
<1>3. CASE \E m \in Messages : Age(m)
  <2> PICK m \in Messages : Age(m)
    BY <1>3
  <2> DEFINE old == [msgs[m] EXCEPT !.fresh = FALSE]
  <2>1. old \in MessageRow
    BY DEF TypeOK, MessageRow
  <2>2. msgs' = [msgs EXCEPT ![m] = old]
    BY DEF Age
  <2> HIDE DEF old
  <2>3. msgs' \in [Messages -> MessageRow]
    BY <2>1, <2>2 DEF TypeOK
  <2> QED
    BY <2>3 DEF Age, TypeOK
<1>4. CASE Restart
  <2>1. conn' \in [Conns -> ConnState] /\ registry' \in [Sessions -> Conns \cup {NoConn}]
    BY <1>4, FreeTyped DEF Restart
  <2>2. known' \in [Sessions -> SessionRow]
    BY <1>4 DEF Restart, TypeOK, SessionRow
  <2>3. before' \subseteq Order
    BY <1>4, SeenTyped DEF Restart
  <2> QED
    BY <1>4, <2>1, <2>2, <2>3 DEF Restart, TypeOK, Order
<1> QED
  BY <1>1, <1>2, <1>3, <1>4 DEF Environment

LEMMA HelloTyped ==
  ASSUME TypeOK, NEW c \in Conns, Hello(c), BusAssumption
  PROVE  TypeOK'
<1> PICK s \in Sessions, sock \in {"open", "half", "closed"} :
      HelloAgent(c, s, sock) \/ HelloNameTaken(c, s, sock)
  BY DEF Hello
<1>0. hellos' \in 0..MaxHellos
  BY DEF HelloAgent, HelloNameTaken, Connects, TypeOK, BusAssumption
<1>1. CASE HelloAgent(c, s, sock)
  <2> USE <1>1
  <2> DEFINE new == [FreeConn EXCEPT !.pc = "welcome", !.sid = s, !.name = asks[s], !.sock = sock]
             after(d) == [conn[d] EXCEPT !.sock = "closed"]
  <2>1. asks[s] \in Names \cup {NoName}
    BY DEF HelloAgent, TypeOK
  <2>2. new \in ConnState
    BY <2>1 DEF FreeConn, ConnState, Running
  <2>3. \A d \in Conns : conn[d] \in ConnState /\ after(d) \in ConnState
    BY ConnTyped DEF TypeOK
  <2>4. conn' = [d \in Conns |-> IF d = c THEN new ELSE IF d = registry[s] THEN after(d) ELSE conn[d]]
    BY DEF HelloAgent
  <2> HIDE DEF new, after
  <2>5. conn' \in [Conns -> ConnState]
    BY <2>2, <2>3, <2>4
  <2>6. registry' \in [Sessions -> Conns \cup {NoConn}]
    BY DEF HelloAgent, TypeOK
  <2>7. before' \subseteq Order
    BY DEF HelloAgent, TypeOK, Joining, Order
  <2> QED
    BY <1>0, <2>5, <2>6, <2>7 DEF HelloAgent, TypeOK, Order
<1>2. CASE HelloNameTaken(c, s, sock)
  <2>1. asks[s] \in Names
    BY <1>2 DEF HelloNameTaken, NameTaken, TypeOK
  <2>2. asks' \in [Sessions -> Names \cup {NoName, Stopped}]
    BY <1>2, <2>1 DEF HelloNameTaken, RetryName, TypeOK, BusAssumption
  <2>3. registry' \in [Sessions -> Conns \cup {NoConn}]
    BY <1>2 DEF HelloNameTaken, TypeOK
  <2> QED
    BY <1>2, <1>0, <2>2, <2>3 DEF HelloNameTaken, TypeOK
<1> QED
  BY <1>1, <1>2

LEMMA ProceedTyped ==
  ASSUME TypeOK, HandlersSpeak, NEW c \in Conns, Proceed(c)
  PROVE  TypeOK'
<1>0. conn[c] \in ConnState
  BY DEF TypeOK
<1>1. CASE Welcomed(c)
  <2> DEFINE after == [conn[c] EXCEPT !.pc = "joining"]
  <2>1. after \in ConnState
    BY <1>0, ConnTyped DEF Running
  <2>2. conn' = [conn EXCEPT ![c] = after]
    BY <1>1 DEF Welcomed
  <2> HIDE DEF after
  <2>3. conn' \in [Conns -> ConnState]
    BY <2>1, <2>2 DEF TypeOK
  <2> QED
    BY <1>1, <2>3 DEF Welcomed, TypeOK
<1>2. CASE WelcomeFails(c)
  <2> DEFINE after == [FreeConn EXCEPT !.pc = "dead", !.sid = conn[c].sid, !.name = conn[c].name]
  <2>1. after \in ConnState
    BY <1>0 DEF FreeConn, ConnState
  <2>2. conn' = [conn EXCEPT ![c] = after]
    BY <1>2 DEF WelcomeFails
  <2> HIDE DEF after
  <2>3. conn' \in [Conns -> ConnState]
    BY <2>1, <2>2 DEF TypeOK
  <2>4. before' \subseteq Order
    BY <1>2, SeenTyped DEF WelcomeFails
  <2> QED
    BY <1>2, <2>3, <2>4 DEF WelcomeFails, TypeOK, Order
<1>3. CASE Join(c)
  <2> DEFINE s == conn[c].sid
             n == conn[c].name
             attached == CatchUpDirect(CatchUpBroadcasts(rows, s), s, n)
             row == [name |-> n, status |-> "active"]
  <2>1. s \in Sessions
    BY <1>3 DEF Join, HandlersSpeak, Running
  <2>2. attached \in Rows
    BY CatchUpsTyped DEF TypeOK, Rows
  <2>3. PendingQueued(attached, s) \in SUBSET Messages
    BY DEF PendingQueued
  <2>4. row \in SessionRow
    BY <1>0 DEF ConnState, SessionRow
  <2>5. /\ known' = [known EXCEPT ![s] = row]
        /\ before' = SeenAtHello(c, s, n)
        /\ rows' = attached
        /\ Replay(c, PendingQueued(attached, s))
        /\ UNCHANGED <<hellos, asks, registry, msgs>>
    BY <1>3 DEF Join
  <2> HIDE DEF s, n, attached, row
  <2>6. before' \subseteq Order
    BY <2>1, <2>5, SeenTyped
  <2>7. /\ conn' \in [Conns -> ConnState]
        /\ reached' \subseteq Messages /\ swallowed' \subseteq Messages
    BY <2>3, <2>5, ReplayTyped
  <2>8. known' \in [Sessions -> SessionRow]
    BY <2>4, <2>5 DEF TypeOK
  <2> QED
    BY <2>2, <2>5, <2>6, <2>7, <2>8 DEF TypeOK, Rows, Order
<1>4. CASE Replayed(c)
  <2>1. rows' \in Rows
    BY <1>4, ConsumedTyped DEF Replayed, TypeOK, Rows
  <2>2. conn[c].todo \ {Oldest(conn[c].todo)} \in SUBSET Messages
    BY <1>0 DEF ConnState
  <2>3. /\ conn' \in [Conns -> ConnState]
        /\ reached' \subseteq Messages /\ swallowed' \subseteq Messages
    BY <1>4, <2>2, ReplayTyped DEF Replayed
  <2> QED
    BY <1>4, <2>1, <2>3 DEF Replayed, TypeOK, Rows
<1>5. CASE ReplayFails(c)
  <2>1. {} \in SUBSET Messages
    OBVIOUS
  <2>2. /\ conn' \in [Conns -> ConnState]
        /\ reached' \subseteq Messages /\ swallowed' \subseteq Messages
    BY <1>5, <2>1, ReplayTyped DEF ReplayFails
  <2> QED
    BY <1>5, <2>2 DEF ReplayFails, TypeOK
<1>6. CASE Sent(c)
  <2> DEFINE after == [conn[c] EXCEPT !.pc = "idle", !.peer = NoConn, !.todo = {}]
  <2>1. after \in ConnState
    <3>1. "idle" \in Running /\ {} \in SUBSET Messages /\ NoConn \in Conns \cup {NoConn}
      BY DEF Running
    <3> QED
      BY <1>0, <3>1, ConnTyped
  <2>2. conn' = [conn EXCEPT ![c] = after]
    BY <1>6 DEF Sent
  <2> HIDE DEF after
  <2>3. conn' \in [Conns -> ConnState]
    BY <2>1, <2>2 DEF TypeOK
  <2>4. rows' \in Rows
    BY <1>6, ConsumedTyped DEF Sent, TypeOK, Rows
  <2> QED
    BY <1>6, <2>3, <2>4 DEF Sent, TypeOK, Rows
<1> QED
  BY <1>1, <1>2, <1>3, <1>4, <1>5, <1>6 DEF Proceed

LEMMA MatchesLive == \A t : Matches(t) \subseteq Agents
BY DEF Matches, Holders

LEMMA LiveNamed == TypeOK => \A s \in Agents : registry[s] \in Conns /\ NameOf(s) \in Names \cup {NoName}
BY DEF TypeOK, Agents, NameOf, ConnState

LEMMA RequestTyped ==
  ASSUME TypeOK, HandlersSpeak, BusAssumption, NEW c \in Conns, Request(c)
  PROVE  TypeOK'
<1>0. /\ conn[c] \in ConnState
      /\ conn[c].pc = "idle" => conn[c].sid \in Sessions
  BY DEF TypeOK, HandlersSpeak, Running
<1>1. CASE \E s \in Sessions : HelloControl(c, s)
  <2> PICK s \in Sessions : HelloControl(c, s)
    BY <1>1
  <2> DEFINE after == [FreeConn EXCEPT !.pc = "idle", !.role = "control", !.sid = s,
                                       !.name = NameOf(s), !.sock = "open"]
  <2>1. NameOf(s) \in Names \cup {NoName}
    BY LiveNamed DEF HelloControl
  <2>2. after \in ConnState
    BY <2>1 DEF FreeConn, ConnState, Running
  <2>3. conn' = [conn EXCEPT ![c] = after]
    BY DEF HelloControl
  <2> HIDE DEF after
  <2>4. conn' \in [Conns -> ConnState]
    BY <2>2, <2>3 DEF TypeOK
  <2> QED
    BY <2>4 DEF HelloControl, TypeOK
<1>2. ASSUME NEW m \in Messages, NEW r, NEW t, SendDirect(c, t, m, r)
      PROVE  TypeOK'
  <2> DEFINE from == conn[c].sid
             after(p) == [conn[c] EXCEPT !.pc = "sending", !.peer = p, !.todo = {m}]
  <2>1. PICK s \in Matches(t) :
          /\ conn[c].pc = "idle"
          /\ Stored(m, "direct", from, NameOf(s))
          /\ rows' = Answered(Recipients(rows, m, {s}), r, from)
          /\ reached' = Handed(m, registry[s])
          /\ swallowed' = Lost(m, registry[s])
          /\ conn' = [conn EXCEPT ![c].pc = "sending", ![c].peer = registry[s], ![c].todo = {m}]
          /\ UNCHANGED <<hellos, asks, registry, known, before>>
    BY <1>2, Zenon DEF SendDirect, Dispatching
  <2>2. registry[s] \in Conns /\ NameOf(s) \in Names \cup {NoName}
    BY MatchesLive, LiveNamed
  <2>3. after(registry[s]) \in ConnState
    <3>1. "sending" \in Running /\ {m} \in SUBSET Messages /\ registry[s] \in Conns \cup {NoConn}
      BY <2>2 DEF Running
    <3> QED
      BY <1>0, <3>1, ConnTyped
  <2>4. conn' \in [Conns -> ConnState]
    <3>1. conn' = [conn EXCEPT ![c] = after(registry[s])]
      BY <2>1
    <3> HIDE DEF after
    <3> QED
      BY <2>3, <3>1 DEF TypeOK
  <2>5. rows' \in Rows
    BY <2>1, RecipientsTyped, AnsweredTyped DEF TypeOK, Rows
  <2>6. msgs' \in [Messages -> MessageRow]
    BY <1>0, <2>1, <2>2, StoredTyped
  <2>7. reached' \subseteq Messages /\ swallowed' \subseteq Messages
    BY <2>1 DEF Handed, Lost, TypeOK
  <2> QED
    BY <2>1, <2>4, <2>5, <2>6, <2>7 DEF TypeOK, Rows
<1>3. ASSUME NEW m \in Messages, NEW r, NEW t \in Names, SendQueued(c, t, m, r)
      PROVE  TypeOK'
  <2>1. PICK last \in LatestSessionFor(t) :
          /\ conn[c].pc = "idle"
          /\ Stored(m, "queued", conn[c].sid, t)
          /\ rows' = Answered(Recipients(rows, m, {last}), r, conn[c].sid)
          /\ UNCHANGED <<hellos, asks, registry, conn, known, before, reached, swallowed>>
    BY <1>3 DEF SendQueued, Dispatching
  <2>2. rows' \in Rows
    BY <2>1, RecipientsTyped, AnsweredTyped DEF TypeOK, Rows
  <2>3. msgs' \in [Messages -> MessageRow]
    BY <1>0, <2>1, StoredTyped
  <2> QED
    BY <2>1, <2>2, <2>3 DEF TypeOK, Rows
<1>4. ASSUME NEW m \in Messages, NEW r, Broadcast(c, m, r)
      PROVE  TypeOK'
  <2>1. rows' \in Rows
    BY <1>4, RecipientsTyped, AnsweredTyped DEF Broadcast, TypeOK, Rows
  <2>2. msgs' \in [Messages -> MessageRow]
    BY <1>0, <1>4, StoredTyped DEF Broadcast, Dispatching
  <2>3. reached' \subseteq Messages /\ swallowed' \subseteq Messages
    BY <1>4 DEF Broadcast, TypeOK
  <2> QED
    BY <1>4, <2>1, <2>2, <2>3 DEF Broadcast, TypeOK, Rows
<1>5. CASE \E n \in RenameNames : Rename(c, n)
  <2> PICK n \in RenameNames : Rename(c, n)
    BY <1>5
  <2> DEFINE e == registry[conn[c].sid]
             entry == [conn EXCEPT ![e] = [conn[e] EXCEPT !.name = n]]
             speaker == [entry[c] EXCEPT !.name = n]
  <2>1. n \in Names \cup {NoName}
    BY DEF BusAssumption
  <2>2. entry \in [Conns -> ConnState]
    <3>1. e \in Conns
      BY LiveNamed DEF Rename
    <3>2. [conn[e] EXCEPT !.name = n] \in ConnState
      BY <2>1, <3>1, ConnTyped DEF TypeOK
    <3> QED
      BY <3>1, <3>2 DEF TypeOK
  <2>3. conn' = [entry EXCEPT ![c] = speaker]
    BY DEF Rename
  <2> HIDE DEF entry
  <2>4. speaker \in ConnState
    BY <2>1, <2>2, ConnTyped
  <2> HIDE DEF speaker
  <2>5. conn' \in [Conns -> ConnState]
    BY <2>2, <2>3, <2>4
  <2> QED
    BY <2>5 DEF Rename, TypeOK
<1>6. CASE Ping(c)
  <2>1. before' \subseteq Order
    BY <1>0, <1>6, SeenTyped DEF Ping, Dispatching
  <2> QED
    BY <1>6, <2>1 DEF Ping, TypeOK, Order
<1>7. CASE Leave(c)
  <2> DEFINE s == conn[c].sid
             ended == [known[s] EXCEPT !.status = "ended"]
  <2>1. s \in Sessions
    BY <1>0, <1>7 DEF Leave
  <2>2. conn' \in [Conns -> ConnState]
    BY <1>7, FreeTyped DEF Leave, TypeOK
  <2>3. ended \in SessionRow
    <3>1. known[s] \in SessionRow
      BY <2>1 DEF TypeOK
    <3> QED
      BY <3>1 DEF SessionRow
  <2>4. \/ registry' = [registry EXCEPT ![s] = NoConn] /\ known' = [known EXCEPT ![s] = ended]
           /\ before' = Seen(s, known[s].name)
        \/ UNCHANGED <<registry, known, before>>
    BY <1>7 DEF Leave
  <2> HIDE DEF ended
  <2>5. /\ registry' \in [Sessions -> Conns \cup {NoConn}]
        /\ known' \in [Sessions -> SessionRow]
    BY <2>3, <2>4 DEF TypeOK
  <2>6. before' \subseteq Order
    BY <2>1, <2>4, SeenTyped DEF TypeOK, Order
  <2> QED
    BY <1>7, <2>2, <2>5, <2>6 DEF Leave, TypeOK, Order
<1> QED
  BY <1>1, <1>2, <1>3, <1>4, <1>5, <1>6, <1>7 DEF Request

----------------------------------------------------------------------------
(* Who owns an entry.  Only a hello and a rename change what the registry  *)
(* says of a session that stays in it.                                     *)

\* Every entry of the next state is one of this state, of the same identity.
EntriesKept ==
  \A s \in Agents' :
    LET e == registry[s] IN
    /\ s \in Agents /\ registry'[s] = e
    /\ conn'[e].sid = conn[e].sid /\ conn'[e].name = conn[e].name
    /\ conn[e].role = "agent" => conn'[e].role = "agent"
    /\ conn[e].pc # "free" => conn'[e].pc # "free"

\* Every open listener of the next state is one of this state, with its entry.
OpenKept ==
  \A d \in Conns : conn'[d].role = "agent" /\ conn'[d].sock = "open" =>
    /\ conn[d].role = "agent" /\ conn[d].sock = "open" /\ conn'[d].sid = conn[d].sid
    /\ registry'[conn[d].sid] = registry[conn[d].sid]

LEMMA KeptEntries ==
  ASSUME EntriesKept, OpenKept, EntriesOwned, UniqueNames, OpenListenersRegistered
  PROVE  EntriesOwned' /\ UniqueNames' /\ OpenListenersRegistered'
<1>1. EntriesOwned'
  BY DEF EntriesKept, EntriesOwned
<1>2. UniqueNames'
  BY DEF EntriesKept, UniqueNames, NameOf
<1>3. OpenListenersRegistered'
  BY DEF OpenKept, OpenListenersRegistered, Registered, Agents
<1> QED
  BY <1>1, <1>2, <1>3

\* A handler's next ClientState of the same session and name.
SameClient(e, f) ==
  /\ f.sid = e.sid /\ f.name = e.name
  /\ e.role = "agent" => f.role = "agent"
  /\ e.pc # "free" => f.pc # "free"
  /\ f.pc \in Running => e.pc \in Running
  /\ f.role = "agent" /\ f.sock = "open" => e.role = "agent" /\ e.sock = "open"

LEMMA KeptClient ==
  ASSUME TypeOK, HandlersSpeak, registry' = registry, NEW c \in Conns,
         conn' = [conn EXCEPT ![c] = conn'[c]], SameClient(conn[c], conn'[c])
  PROVE  EntriesKept /\ OpenKept /\ HandlersSpeak'
<1>1. \A d \in Conns : SameClient(conn[d], conn'[d])
  BY DEF TypeOK, SameClient
<1>2. EntriesKept
  BY <1>1 DEF EntriesKept, SameClient, Agents, TypeOK
<1>3. HandlersSpeak'
  BY <1>1 DEF HandlersSpeak, SameClient
<1>4. OpenKept
  BY <1>1 DEF OpenKept, SameClient
<1> QED
  BY <1>2, <1>3, <1>4

LEMMA KeptAll ==
  ASSUME HandlersSpeak, registry' = registry, conn' = conn
  PROVE  EntriesKept /\ OpenKept /\ HandlersSpeak'
<1>1. EntriesKept
  BY DEF EntriesKept, Agents
<1>2. HandlersSpeak'
  BY DEF HandlersSpeak
<1>3. OpenKept
  BY DEF OpenKept
<1> QED
  BY <1>1, <1>2, <1>3

LEMMA ReplayKeeps ==
  ASSUME TypeOK, HandlersSpeak, registry' = registry, NEW c \in Conns,
         conn[c].pc \in {"joining", "replaying"}, NEW S, Replay(c, S)
  PROVE  EntriesKept /\ OpenKept /\ HandlersSpeak'
<1>1. conn[c] \in ConnState
  BY DEF TypeOK
<1>2. conn' = [conn EXCEPT ![c] = conn'[c]]
  BY DEF Replay, TypeOK
<1>3. \/ conn'[c] = [conn[c] EXCEPT !.pc = "idle", !.todo = {}]
      \/ conn'[c] = [conn[c] EXCEPT !.pc = "replaying", !.todo = S]
  BY DEF Replay, TypeOK
<1>4. SameClient(conn[c], conn'[c])
  BY <1>1, <1>3 DEF SameClient, ConnState, Running
<1> QED
  BY <1>2, <1>4, KeptClient

LEMMA ProceedKeeps ==
  ASSUME TypeOK, HandlersSpeak, EntriesOwned, NEW c \in Conns, Proceed(c)
  PROVE  EntriesKept /\ OpenKept /\ HandlersSpeak'
<1>0. conn[c] \in ConnState
  BY DEF TypeOK
<1>1. CASE Welcomed(c)
  <2>1. conn'[c] = [conn[c] EXCEPT !.pc = "joining"] /\ conn' = [conn EXCEPT ![c] = conn'[c]]
    BY <1>1 DEF Welcomed, TypeOK
  <2>2. SameClient(conn[c], conn'[c])
    BY <1>0, <1>1, <2>1 DEF Welcomed, SameClient, ConnState, Running
  <2> QED
    BY <1>1, <2>1, <2>2, KeptClient DEF Welcomed
<1>2. CASE WelcomeFails(c)
  <2>1. /\ conn'[c] = [FreeConn EXCEPT !.pc = "dead", !.sid = conn[c].sid, !.name = conn[c].name]
        /\ conn' = [conn EXCEPT ![c] = conn'[c]]
    BY <1>2 DEF WelcomeFails, TypeOK
  <2>2. SameClient(conn[c], conn'[c])
    BY <1>0, <1>2, <2>1 DEF WelcomeFails, SameClient, FreeConn, ConnState, Running
  <2> QED
    BY <1>2, <2>1, <2>2, KeptClient DEF WelcomeFails
<1>3. CASE Join(c)
  <2>1. /\ conn[c].pc = "joining" /\ registry' = registry
        /\ \E S : Replay(c, S)
    BY <1>3 DEF Join
  <2> QED
    BY <2>1, ReplayKeeps
<1>4. CASE Replayed(c)
  BY <1>4, ReplayKeeps DEF Replayed
<1>5. CASE ReplayFails(c)
  BY <1>5, ReplayKeeps DEF ReplayFails
<1>6. CASE Sent(c)
  <2>1. /\ conn'[c] = [conn[c] EXCEPT !.pc = "idle", !.peer = NoConn, !.todo = {}]
        /\ conn' = [conn EXCEPT ![c] = conn'[c]]
    BY <1>6 DEF Sent, TypeOK
  <2>2. SameClient(conn[c], conn'[c])
    <3>1. conn[c].pc = "sending"
      BY <1>6 DEF Sent
    <3>2. /\ conn'[c].sid = conn[c].sid /\ conn'[c].name = conn[c].name
          /\ conn'[c].role = conn[c].role /\ conn'[c].pc = "idle"
          /\ conn'[c].sock = conn[c].sock
      BY <1>0, <2>1 DEF ConnState
    <3> QED
      BY <3>1, <3>2 DEF SameClient, Running
  <2> QED
    BY <1>6, <2>1, <2>2, KeptClient DEF Sent
<1> QED
  BY <1>1, <1>2, <1>3, <1>4, <1>5, <1>6 DEF Proceed

LEMMA EnvironmentKeeps ==
  ASSUME TypeOK, HandlersSpeak, Environment
  PROVE  EntriesKept /\ OpenKept /\ HandlersSpeak'
<1>1. CASE \E c \in Conns : Drop(c)
  <2> PICK c \in Conns : Drop(c)
    BY <1>1
  <2>1. conn[c] \in ConnState
    BY DEF TypeOK
  <2>2. PICK k \in {"half", "closed"} :
          conn' = [conn EXCEPT ![c] = [conn[c] EXCEPT !.sock = k]]
    BY DEF Drop
  <2>3. /\ conn'[c] = [conn[c] EXCEPT !.sock = k]
        /\ conn' = [conn EXCEPT ![c] = conn'[c]]
    BY <2>2 DEF TypeOK
  <2>4. SameClient(conn[c], conn'[c])
    BY <2>1, <2>3 DEF SameClient, ConnState
  <2> QED
    BY <2>3, <2>4, KeptClient DEF Drop
<1>2. CASE \E m \in Messages, s \in Sessions : HostDrains(m, s) \/ HostReads(m, s)
  BY <1>2, KeptAll DEF HostDrains, HostReads
<1>3. CASE \E m \in Messages : Age(m)
  BY <1>3, KeptAll DEF Age
<1>4. CASE Restart
  <2>1. registry' = [s \in Sessions |-> NoConn] /\ conn' = [c \in Conns |-> FreeConn]
    BY <1>4 DEF Restart
  <2>2. EntriesKept
    BY <2>1 DEF EntriesKept, Agents
  <2>3. HandlersSpeak'
    BY <2>1 DEF HandlersSpeak, FreeConn, Running
  <2>4. OpenKept
    BY <2>1 DEF OpenKept, FreeConn
  <2> QED
    BY <2>2, <2>3, <2>4
<1> QED
  BY <1>1, <1>2, <1>3, <1>4 DEF Environment

LEMMA HelloTakenKeeps ==
  ASSUME TypeOK, HandlersSpeak, NEW c, NEW s \in Sessions, NEW sock, HelloNameTaken(c, s, sock)
  PROVE  EntriesKept /\ OpenKept /\ HandlersSpeak'
<1>1. registry' = [registry EXCEPT ![s] = NoConn] /\ conn' = conn
  BY DEF HelloNameTaken
<1>2. EntriesKept
  BY <1>1 DEF EntriesKept, Agents, TypeOK
<1>3. HandlersSpeak'
  BY <1>1 DEF HandlersSpeak
<1>4. OpenKept
  <2>1. \A d \in Conns : ~(conn[d].role = "agent" /\ conn[d].sid = s /\ conn[d].sock = "open")
    BY DEF HelloNameTaken, Connects
  <2> QED
    BY <1>1, <2>1 DEF OpenKept, TypeOK
<1> QED
  BY <1>2, <1>3, <1>4

\* The entry a listener's hello makes is of a name that no other one has.
LEMMA HelloAgentKeeps ==
  ASSUME TypeOK, HandlersSpeak, EntriesOwned, UniqueNames, OpenListenersRegistered,
         BusAssumption,
         NEW c \in Conns, NEW s \in Sessions, NEW sock, HelloAgent(c, s, sock)
  PROVE  HandlersSpeak' /\ EntriesOwned' /\ UniqueNames' /\ OpenListenersRegistered'
<1>1. /\ registry' = [registry EXCEPT ![s] = c]
      /\ ~NameTaken(asks[s], s) /\ Unused(c)
      /\ conn' = [d \in Conns |->
           IF d = c
           THEN [FreeConn EXCEPT !.pc = "welcome", !.sid = s, !.name = asks[s], !.sock = sock]
           ELSE IF d = registry[s] THEN [conn[d] EXCEPT !.sock = "closed"] ELSE conn[d]]
  BY DEF HelloAgent, Connects
<1>2. /\ conn'[c].sid = s /\ conn'[c].name = asks[s]
      /\ conn'[c].role = "agent" /\ conn'[c].pc = "welcome"
  BY <1>1 DEF FreeConn
<1>3. \A d \in Conns \ {c} :
        /\ conn'[d].sid = conn[d].sid /\ conn'[d].name = conn[d].name
        /\ conn'[d].role = conn[d].role /\ conn'[d].pc = conn[d].pc
        /\ conn'[d].sock = "open" => conn[d].sock = "open"
  <2> TAKE d \in Conns \ {c}
  <2>1. conn[d] \in ConnState
    BY DEF TypeOK
  <2>2. conn'[d] \in {conn[d], [conn[d] EXCEPT !.sock = "closed"]}
    BY <1>1
  <2> QED
    BY <2>1, <2>2 DEF ConnState
<1>4. \A t \in Agents' \ {s} :
        t \in Agents /\ registry'[t] = registry[t] /\ registry[t] \in Conns \ {c}
  BY <1>1 DEF Agents, Unused, TypeOK
<1>5. registry'[s] = c
  BY <1>1 DEF TypeOK
<1>6. HandlersSpeak'
  BY <1>2, <1>3 DEF HandlersSpeak
<1>7. EntriesOwned'
  BY <1>2, <1>3, <1>4, <1>5 DEF EntriesOwned
<1>8. \A t \in Agents' \ {s} : NameOf(t)' = NameOf(t)
  BY <1>3, <1>4 DEF NameOf
<1>9. NameOf(s)' = asks[s]
  BY <1>2, <1>5 DEF NameOf
<1>10. \A t \in Agents' \ {s} : asks[s] # NoName => NameOf(t) # asks[s]
  BY <1>1, <1>4 DEF NameTaken, Holders
<1>11. UniqueNames'
  BY <1>4, <1>8, <1>9, <1>10 DEF UniqueNames
<1>12. OpenListenersRegistered'
  <2> SUFFICES ASSUME NEW d \in Conns, conn'[d].role = "agent", conn'[d].sock = "open"
               PROVE  Registered(d)'
    BY DEF OpenListenersRegistered
  <2>1. CASE d = c
    BY <1>2, <1>5, <2>1 DEF Registered, Agents, BusAssumption
  <2>2. CASE d # c
    <3>1. conn'[d].sid = conn[d].sid /\ conn[d].sid # s /\ Registered(d)
      BY <1>3, <2>2 DEF OpenListenersRegistered, HelloAgent, Connects
    <3>2. registry'[conn[d].sid] = registry[conn[d].sid]
      BY <1>1, <3>1 DEF TypeOK, Registered, Agents
    <3> QED
      BY <1>3, <2>2, <3>1, <3>2 DEF Registered, Agents
  <2> QED
    BY <2>1, <2>2
<1> QED
  BY <1>6, <1>7, <1>11, <1>12

LEMMA RenameKeeps ==
  ASSUME TypeOK, HandlersSpeak, EntriesOwned, UniqueNames, OpenListenersRegistered,
         NEW c \in Conns, NEW n, Rename(c, n)
  PROVE  HandlersSpeak' /\ EntriesOwned' /\ UniqueNames' /\ OpenListenersRegistered'
<1> DEFINE s == conn[c].sid
           e == registry[s]
<1>1. /\ s \in Agents /\ ~NameTaken(n, s) /\ registry' = registry
      /\ conn' = [conn EXCEPT ![e].name = n, ![c].name = n]
  BY DEF Rename
<1>2. \A d \in Conns :
        /\ conn'[d].sid = conn[d].sid /\ conn'[d].role = conn[d].role
        /\ conn'[d].pc = conn[d].pc /\ conn'[d].sock = conn[d].sock
        /\ conn'[d].name = IF d \in {c, e} THEN n ELSE conn[d].name
  <2> TAKE d \in Conns
  <2> DEFINE once == [conn[d] EXCEPT !.name = n]
             twice == [once EXCEPT !.name = n]
  <2>1. conn[d] \in ConnState
    BY DEF TypeOK
  <2>2. /\ d \notin {c, e} => conn'[d] = conn[d]
        /\ d \in {c, e} => conn'[d] \in {once, twice}
    BY <1>1 DEF TypeOK
  <2> QED
    BY <2>1, <2>2 DEF ConnState
<1>3. \A t \in Agents : registry[t] \in Conns
  BY LiveNamed
<1>4. \A t \in Agents \ {s} : registry[t] \notin {c, e}
  BY <1>1 DEF EntriesOwned
<1>5. \A t \in Agents' : t \in Agents
  BY <1>1 DEF Agents
<1>6. HandlersSpeak'
  BY <1>2 DEF HandlersSpeak
<1>7. EntriesOwned'
  <2>1. \A t \in Agents' : /\ registry'[t] = registry[t]
                         /\ conn[registry[t]].sid = t
                         /\ conn[registry[t]].role = "agent" /\ conn[registry[t]].pc # "free"
    BY <1>1, <1>5 DEF EntriesOwned
  <2> QED
    BY <1>2, <1>3, <1>5, <2>1 DEF EntriesOwned
<1>8. \A t \in Agents : NameOf(t)' = IF t = s THEN n ELSE NameOf(t)
  <2> TAKE t \in Agents
  <2>1. NameOf(t)' = conn'[registry[t]].name
    BY <1>1 DEF NameOf
  <2>2. registry[t] \in {c, e} <=> t = s
    BY <1>1, <1>4
  <2> QED
    BY <1>2, <1>3, <2>1, <2>2 DEF NameOf
<1>9. \A t \in Agents \ {s} : n # NoName => NameOf(t) # n
  BY <1>1 DEF NameTaken, Holders
<1> HIDE DEF s, e
<1>10. UniqueNames'
  BY <1>5, <1>8, <1>9 DEF UniqueNames
<1>11. OpenListenersRegistered'
  BY <1>1, <1>2 DEF OpenListenersRegistered, Registered, Agents
<1> QED
  BY <1>6, <1>7, <1>10, <1>11

\* Every other request: the speaker's own state, or nothing of the registry.
LEMMA RequestKeeps ==
  ASSUME TypeOK, HandlersSpeak, EntriesOwned, OpenListenersRegistered,
         NEW c \in Conns, Request(c),
         ~ \E n \in RenameNames : Rename(c, n)
  PROVE  EntriesKept /\ OpenKept /\ HandlersSpeak'
<1>0. conn[c] \in ConnState
  BY DEF TypeOK
<1>1. CASE \E s \in Sessions : HelloControl(c, s)
  <2> PICK s \in Sessions : HelloControl(c, s)
    BY <1>1
  <2>1. Unused(c) /\ registry' = registry
    BY DEF HelloControl
  <2>2. /\ conn'[c].sid = s /\ conn'[c].role = "control"
        /\ \A d \in Conns \ {c} : conn'[d] = conn[d]
    BY DEF HelloControl, FreeConn, TypeOK
  <2>3. \A t \in Agents : registry[t] \in Conns \ {c}
    BY <2>1, LiveNamed DEF Unused, Agents
  <2>4. EntriesKept
    BY <2>1, <2>2, <2>3 DEF EntriesKept, Agents
  <2>5. HandlersSpeak'
    BY <2>2 DEF HandlersSpeak
  <2>6. OpenKept
    BY <2>1, <2>2 DEF OpenKept
  <2> QED
    BY <2>4, <2>5, <2>6
<1>2. ASSUME NEW m, NEW r, NEW t, SendDirect(c, t, m, r)
      PROVE  EntriesKept /\ OpenKept /\ HandlersSpeak'
  <2>1. PICK p : /\ conn[c].pc = "idle" /\ registry' = registry
                 /\ conn' = [conn EXCEPT ![c].pc = "sending", ![c].peer = p, ![c].todo = {m}]
    BY <1>2, Zenon DEF SendDirect, Dispatching
  <2>2. /\ conn'[c] = [conn[c] EXCEPT !.pc = "sending", !.peer = p, !.todo = {m}]
        /\ conn' = [conn EXCEPT ![c] = conn'[c]]
    BY <2>1 DEF TypeOK
  <2>3. /\ conn'[c].sid = conn[c].sid /\ conn'[c].name = conn[c].name
        /\ conn'[c].role = conn[c].role /\ conn'[c].pc = "sending"
        /\ conn'[c].sock = conn[c].sock
    BY <1>0, <2>2 DEF ConnState
  <2>4. SameClient(conn[c], conn'[c])
    BY <2>1, <2>3 DEF SameClient, Running
  <2> QED
    BY <2>1, <2>2, <2>4, KeptClient
<1>3. ASSUME NEW m, NEW r, NEW t, SendQueued(c, t, m, r)
      PROVE  EntriesKept /\ OpenKept /\ HandlersSpeak'
  BY <1>3, KeptAll DEF SendQueued
<1>4. ASSUME NEW m, NEW r, Broadcast(c, m, r)
      PROVE  EntriesKept /\ OpenKept /\ HandlersSpeak'
  BY <1>4, KeptAll DEF Broadcast
<1>5. CASE Ping(c)
  BY <1>5, KeptAll DEF Ping
<1>6. CASE Leave(c)
  <2> DEFINE s == conn[c].sid
  <2>1. /\ conn' = [conn EXCEPT ![c] = FreeConn]
        /\ registry' = IF registry[s] = c THEN [registry EXCEPT ![s] = NoConn] ELSE registry
    BY <1>6 DEF Leave
  <2>2. \A t \in Agents' : t \in Agents /\ registry'[t] = registry[t] /\ registry[t] \in Conns
    BY <2>1, LiveNamed DEF Agents, TypeOK
  <2>3. \A t \in Agents' : registry[t] # c
    BY <2>1, <2>2 DEF EntriesOwned, Agents, TypeOK
  <2>4. EntriesKept
    BY <2>1, <2>2, <2>3 DEF EntriesKept, TypeOK
  <2>5. HandlersSpeak'
    BY <2>1 DEF HandlersSpeak, FreeConn, Running, TypeOK
  <2>6. OpenKept
    <3> SUFFICES ASSUME NEW d \in Conns, conn'[d].role = "agent", conn'[d].sock = "open"
                 PROVE  /\ conn'[d] = conn[d]
                        /\ registry'[conn[d].sid] = registry[conn[d].sid]
      BY DEF OpenKept
    <3>1. d # c /\ conn'[d] = conn[d]
      BY <2>1 DEF FreeConn, TypeOK
    <3>2. Registered(d)
      BY <3>1 DEF OpenListenersRegistered
    <3> QED
      BY <2>1, <3>1, <3>2 DEF Registered, TypeOK
  <2> QED
    BY <2>4, <2>5, <2>6
<1> QED
  BY <1>1, <1>2, <1>3, <1>4, <1>5, <1>6 DEF Request
----------------------------------------------------------------------------
(* Theorems.                                                               *)

LEMMA Initially == BusAssumption /\ Init => Inv
<1> SUFFICES ASSUME BusAssumption, Init PROVE Inv
  OBVIOUS
<1>1. TypeOK
  <2>1. /\ registry \in [Sessions -> Conns \cup {NoConn}]
        /\ hellos \in 0..MaxHellos
        /\ asks \in [Sessions -> Names \cup {NoName, Stopped}]
    BY DEF Init, BusAssumption
  <2>2. conn \in [Conns -> ConnState]
    BY FreeTyped DEF Init
  <2>3. known \in [Sessions -> SessionRow]
    BY DEF Init, SessionRow
  <2>4. msgs \in [Messages -> MessageRow]
    BY DEF Init, MessageRow
  <2>5. rows \in [Messages -> [Sessions -> DeliveryState]]
    BY DEF Init, DeliveryState
  <2> QED
    BY <2>1, <2>2, <2>3, <2>4, <2>5 DEF Init, TypeOK
<1>2. EntriesOwned /\ UniqueNames /\ OpenListenersRegistered
  BY DEF Init, EntriesOwned, UniqueNames, OpenListenersRegistered, Agents, FreeConn
<1>3. HandlersSpeak
  BY DEF Init, HandlersSpeak, FreeConn, Running
<1> QED
  BY <1>1, <1>2, <1>3 DEF Inv

LEMMA Inductive == BusAssumption /\ Inv /\ [Next]_vars => Inv'
<1> SUFFICES ASSUME BusAssumption, Inv, [Next]_vars PROVE Inv'
  OBVIOUS
<1> USE DEF Inv
<1>1. CASE UNCHANGED vars
  <2> USE <1>1 DEF vars
  <2>1. TypeOK'
    BY DEF TypeOK
  <2>2. EntriesKept /\ OpenKept /\ HandlersSpeak'
    BY KeptAll
  <2> QED
    BY <2>1, <2>2, KeptEntries
<1>2. CASE Environment
  BY <1>2, EnvironmentTyped, EnvironmentKeeps, KeptEntries
<1>3. ASSUME NEW c \in Conns, Hello(c)
      PROVE  Inv'
  <2>1. TypeOK'
    BY <1>3, HelloTyped
  <2>2. PICK s \in Sessions, sock \in {"open", "half", "closed"} :
          HelloAgent(c, s, sock) \/ HelloNameTaken(c, s, sock)
    BY <1>3 DEF Hello
  <2>3. HandlersSpeak' /\ EntriesOwned' /\ UniqueNames' /\ OpenListenersRegistered'
    BY <2>2, HelloAgentKeeps, HelloTakenKeeps, KeptEntries
  <2> QED
    BY <2>1, <2>3
<1>4. ASSUME NEW c \in Conns, Proceed(c)
      PROVE  Inv'
  BY <1>4, ProceedTyped, ProceedKeeps, KeptEntries
<1>5. ASSUME NEW c \in Conns, Request(c)
      PROVE  Inv'
  <2>1. TypeOK'
    BY <1>5, RequestTyped
  <2>2. HandlersSpeak' /\ EntriesOwned' /\ UniqueNames' /\ OpenListenersRegistered'
    BY <1>5, RequestKeeps, RenameKeeps, KeptEntries
  <2> QED
    BY <2>1, <2>2
<1> QED
  BY <1>1, <1>2, <1>3, <1>4, <1>5 DEF Next

LEMMA Invariance == Spec => []Inv
<1>1. Init => Inv
  BY Initially, BusAssumption
<1>2. Inv /\ [Next]_vars => Inv'
  BY Inductive, BusAssumption
<1> QED
  BY <1>1, <1>2, PTL DEF Spec

\* Handlers, registry, store and history keep their types: in particular a
\* handler that writes rows always has a session to write them for, whatever
\* was replaced, renamed or restarted meanwhile.
THEOREM TypeInvariant == Spec => []TypeOK
<1>1. Inv => TypeOK
  BY DEF Inv
<1> QED
  BY <1>1, Invariance, PTL

\* No two listeners of the registry carry one name, for any number of
\* sessions that connect, take each other over, rename and fall.
THEOREM NamesUnique == Spec => []UniqueNames
<1>1. Inv => UniqueNames
  BY DEF Inv
<1> QED
  BY <1>1, Invariance, PTL

\* A listener whose socket is open is its session's entry, whoever took over,
\* left late or failed a hello meanwhile: no handler's late _unregister and no
\* refused hello makes a working listener unreachable.
THEOREM OpenStaysRegistered == Spec => []OpenListenersRegistered
<1>1. Inv => OpenListenersRegistered
  BY DEF Inv
<1> QED
  BY <1>1, Invariance, PTL

----------------------------------------------------------------------------
(* The registry keeps to RegistryContract.                                 *)

EntryNames(s) == IF s \in Agents THEN {NameOf(s)} ELSE {}

Reads(s) ==
  \E c \in Conns : conn[c].role = "agent" /\ conn[c].sid = s /\ conn[c].sock = "open"

\* A step of session s, told by what changes for it.
LEMMA RegisterStep ==
  ASSUME NEW s \in Sessions,
         \A t \in Sessions \ {s} : EntryNames(t)' = EntryNames(t) /\ Reads(t)' = Reads(t),
         \/ /\ ~Reads(s)
            /\ \E n \in EntryNames(s)' :
                 /\ EntryNames(s)' = {n}
                 /\ (n = NoName \/ \A t \in Sessions \ {s} : n \notin EntryNames(t))
         \/ /\ EntryNames(s) # {} /\ Reads(s)' = Reads(s)
            /\ \E n \in EntryNames(s)' :
                 /\ EntryNames(s)' = {n}
                 /\ (n = NoName \/ \A t \in Sessions \ {s} : n \notin EntryNames(t))
         \/ Reads(s) /\ ~Reads(s)' /\ EntryNames(s)' = EntryNames(s)
         \/ EntryNames(s) # {} /\ EntryNames(s)' = {} /\ ~Reads(s)'
  PROVE  Register!Step(s)
BY DEF Register!Step, Register!Enters, Register!Renamed, Register!FallsSilent,
       Register!Leaves, Register!Takes, Register!Free, EntryNames, Reads

\* A step that brings no entry and no reader, and takes them from session s
\* alone.  (What the registry says of the others is unchanged.)
Spares(s) ==
  \A t \in Sessions \ {s} : /\ t \in Agents => t \in Agents'
                            /\ Reads(t) => Reads(t)'

RegisterKeeps ==
  \/ Register!Next
  \/ \A t \in Sessions : EntryNames(t)' = EntryNames(t) /\ Reads(t)' = Reads(t)

LEMMA KeptRegister ==
  ASSUME EntriesKept, OpenKept, OpenListenersRegistered', NEW s, Spares(s)
  PROVE  RegisterKeeps
<1>1. \A t \in Sessions : EntryNames(t)' = IF t \in Agents' THEN EntryNames(t) ELSE {}
  BY DEF EntriesKept, EntryNames, NameOf
<1>2. \A t \in Sessions : Reads(t)' => Reads(t)
  BY DEF OpenKept, Reads
<1>3. \A t \in Sessions : Reads(t)' => t \in Agents'
  BY DEF OpenListenersRegistered, Registered, Reads
<1>4. \A t \in Sessions \ {s} : EntryNames(t)' = EntryNames(t) /\ Reads(t)' = Reads(t)
  <2> TAKE t \in Sessions \ {s}
  <2>1. EntryNames(t)' = EntryNames(t)
    BY <1>1 DEF Spares, EntryNames
  <2>2. Reads(t)' <=> Reads(t)
    BY <1>2 DEF Spares
  <2> QED
    BY <2>1, <2>2 DEF Reads
<1>5. CASE s \in Sessions /\ ~(EntryNames(s)' = EntryNames(s) /\ (Reads(s)' <=> Reads(s)))
  <2>1. CASE s \in Agents'
    BY <1>1, <1>2, <1>4, <1>5, <2>1, RegisterStep DEF RegisterKeeps, Register!Next
  <2>2. CASE s \notin Agents' /\ EntryNames(s) # {}
    BY <1>1, <1>3, <1>4, <1>5, <2>2, RegisterStep DEF RegisterKeeps, Register!Next
  <2>3. CASE s \notin Agents' /\ EntryNames(s) = {}
    BY <1>1, <1>2, <1>3, <1>4, <1>5, <2>3, RegisterStep DEF RegisterKeeps, Register!Next
  <2> QED
    BY <2>1, <2>2, <2>3
<1>6. CASE ~(s \in Sessions /\ ~(EntryNames(s)' = EntryNames(s) /\ (Reads(s)' <=> Reads(s))))
  <2>1. \A t \in Sessions : EntryNames(t)' = EntryNames(t) /\ (Reads(t)' <=> Reads(t))
    BY <1>4, <1>6
  <2> QED
    BY <2>1 DEF RegisterKeeps, Reads
<1> QED
  BY <1>5, <1>6

\* A step that leaves the entries, and every socket with its owner, spares all.
LEMMA SparesAll ==
  ASSUME registry' = registry,
         \A d \in Conns : conn[d].role = "agent" /\ conn[d].sock = "open" =>
           conn'[d].role = "agent" /\ conn'[d].sock = "open" /\ conn'[d].sid = conn[d].sid
  PROVE  Spares(NoSession)
BY DEF Spares, Agents, Reads

LEMMA EnvironmentRegister ==
  ASSUME Inv, OpenListenersRegistered', Environment
  PROVE  RegisterKeeps
<1> USE DEF Inv
<1>1. EntriesKept /\ OpenKept
  BY EnvironmentKeeps
<1>2. CASE \E c \in Conns : Drop(c)
  <2> PICK c \in Conns : Drop(c)
    BY <1>2
  <2>1. registry' = registry /\ \A d \in Conns \ {c} : conn'[d] = conn[d]
    BY DEF Drop, TypeOK
  <2>2. Spares(conn[c].sid)
    BY <2>1 DEF Spares, Agents, Reads
  <2> QED
    BY <1>1, <2>2, KeptRegister
<1>3. CASE Restart
  <2>1. \A t \in Sessions : registry'[t] = NoConn /\ \A d \in Conns : conn'[d].sock = "closed"
    BY <1>3 DEF Restart, FreeConn
  <2>2. \A t \in Sessions : EntryNames(t)' = {} /\ ~Reads(t)'
    BY <2>1 DEF EntryNames, Reads, Agents
  <2>3. Register!Restarts
    BY <2>2 DEF Register!Restarts, EntryNames, Reads
  <2> QED
    BY <2>3 DEF RegisterKeeps, Register!Next
<1>4. CASE UNCHANGED <<registry, conn>>
  BY <1>1, <1>4, SparesAll, KeptRegister
<1> QED
  BY <1>2, <1>3, <1>4 DEF Environment, HostDrains, HostReads, Age

\* A hello gives a free name to a session whose former listener reads no more.
LEMMA HelloRegister ==
  ASSUME Inv, Inv', BusAssumption, NEW c \in Conns, Hello(c)
  PROVE  RegisterKeeps
<1> USE DEF Inv
<1>1. ASSUME NEW s \in Sessions, NEW sock, HelloNameTaken(c, s, sock)
      PROVE  RegisterKeeps
  <2>1. EntriesKept /\ OpenKept
    BY <1>1, HelloTakenKeeps
  <2>2. registry' = [registry EXCEPT ![s] = NoConn] /\ conn' = conn
    BY <1>1 DEF HelloNameTaken
  <2>3. Spares(s)
    BY <2>2 DEF Spares, Agents, Reads, TypeOK
  <2> QED
    BY <2>1, <2>3, KeptRegister
<1>2. ASSUME NEW s \in Sessions, NEW sock, HelloAgent(c, s, sock)
      PROVE  RegisterKeeps
  <2>1. /\ registry' = [registry EXCEPT ![s] = c]
        /\ ~NameTaken(asks[s], s) /\ Unused(c)
        /\ conn' = [d \in Conns |->
             IF d = c
             THEN [FreeConn EXCEPT !.pc = "welcome", !.sid = s, !.name = asks[s], !.sock = sock]
             ELSE IF d = registry[s] THEN [conn[d] EXCEPT !.sock = "closed"] ELSE conn[d]]
        /\ ~Reads(s)
    BY <1>2 DEF HelloAgent, Connects, Reads
  <2>2. conn'[c].sid = s /\ conn'[c].name = asks[s]
    BY <2>1 DEF FreeConn
  <2>3. EntryNames(s)' = {asks[s]}
    BY <2>1, <2>2, BusAssumption DEF EntryNames, NameOf, Agents, TypeOK, BusAssumption
  <2>4. \A t \in Sessions \ {s} : EntryNames(t)' = EntryNames(t)
    <3> TAKE t \in Sessions \ {s}
    <3>1. registry'[t] = registry[t] /\ registry[t] # c
      BY <2>1 DEF TypeOK, Unused
    <3>2. t \in Agents => registry[t] \in Conns /\ registry[t] # registry[s]
      BY LiveNamed DEF EntriesOwned, Agents
    <3> QED
      BY <2>1, <3>1, <3>2 DEF EntryNames, NameOf, Agents
  <2>5. \A t \in Sessions \ {s} : Reads(t)' = Reads(t)
    <3> TAKE t \in Sessions \ {s}
    <3>1. ~(conn[c].role = "agent" /\ conn[c].sock = "open")
      BY <2>1 DEF OpenListenersRegistered, Registered, Unused, Agents
    <3>2. \A d \in Conns : conn[d].sid = t /\ conn[d].role = "agent" /\ d # c => conn'[d] = conn[d]
      BY <2>1 DEF EntriesOwned, Agents, TypeOK
    <3>3. \A d \in Conns : conn'[d].sid = t => conn[d].sid = t /\ d # c
      BY <2>1, <2>2 DEF ConnState, TypeOK
    <3>4. \A d \in Conns \ {c} : conn'[d].role = conn[d].role
      BY <2>1 DEF ConnState, TypeOK
    <3>5. Reads(t)' <=> Reads(t)
      BY <3>1, <3>2, <3>3, <3>4 DEF Reads
    <3> QED
      BY <3>5 DEF Reads
  <2>6. asks[s] = NoName \/ \A t \in Sessions \ {s} : asks[s] \notin EntryNames(t)
    BY <2>1 DEF NameTaken, Holders, EntryNames
  <2>7. Register!Step(s)
    BY <2>1, <2>3, <2>4, <2>5, <2>6, RegisterStep
  <2> QED
    BY <2>7 DEF RegisterKeeps, Register!Next
<1> QED
  BY <1>1, <1>2 DEF Hello

LEMMA ReplaySpares ==
  ASSUME TypeOK, NEW c \in Conns, NEW S, Replay(c, S), UNCHANGED registry
  PROVE  Spares(NoSession)
<1>1. \A d \in Conns : /\ conn'[d].role = conn[d].role /\ conn'[d].sid = conn[d].sid
                       /\ conn'[d].sock = conn[d].sock
  <2> TAKE d \in Conns
  <2>1. conn[d] \in ConnState
    BY DEF TypeOK
  <2>2. \/ conn'[d] = conn[d]
        \/ conn'[d] = [conn[d] EXCEPT !.pc = "idle", !.todo = {}]
        \/ conn'[d] = [conn[d] EXCEPT !.pc = "replaying", !.todo = S]
    BY DEF Replay, TypeOK
  <2> QED
    BY <2>1, <2>2 DEF ConnState
<1> QED
  BY <1>1, SparesAll

LEMMA ProceedRegister ==
  ASSUME Inv, OpenListenersRegistered', NEW c \in Conns, Proceed(c)
  PROVE  RegisterKeeps
<1> USE DEF Inv
<1>0. EntriesKept /\ OpenKept /\ conn[c] \in ConnState
  BY ProceedKeeps DEF TypeOK
<1>1. CASE Welcomed(c)
  <2>1. Spares(NoSession)
    BY <1>0, <1>1, SparesAll DEF Welcomed, TypeOK, ConnState
  <2> QED
    BY <1>0, <2>1, KeptRegister
<1>2. CASE WelcomeFails(c)
  <2>1. registry' = registry /\ conn[c].sock = "closed" /\ \A d \in Conns \ {c} : conn'[d] = conn[d]
    BY <1>2 DEF WelcomeFails, TypeOK
  <2>2. Spares(NoSession)
    BY <2>1, SparesAll
  <2> QED
    BY <1>0, <2>2, KeptRegister
<1>3. CASE Join(c) \/ Replayed(c) \/ ReplayFails(c)
  <2>1. PICK S : Replay(c, S)
    BY <1>3 DEF Join, Replayed, ReplayFails
  <2>2. UNCHANGED registry
    BY <1>3 DEF Join, Replayed, ReplayFails
  <2> QED
    BY <1>0, <2>1, <2>2, ReplaySpares, KeptRegister
<1>4. CASE Sent(c)
  <2>1. /\ registry' = registry
        /\ conn' = [conn EXCEPT ![c].pc = "idle", ![c].peer = NoConn, ![c].todo = {}]
    BY <1>4 DEF Sent
  <2>2. conn'[c] = [conn[c] EXCEPT !.pc = "idle", !.peer = NoConn, !.todo = {}]
    BY <2>1 DEF TypeOK
  <2>3. /\ conn'[c].role = conn[c].role /\ conn'[c].sid = conn[c].sid
        /\ conn'[c].sock = conn[c].sock
    BY <1>0, <2>2 DEF ConnState
  <2>4. \A d \in Conns \ {c} : conn'[d] = conn[d]
    BY <2>1 DEF TypeOK
  <2> QED
    BY <1>0, <2>1, <2>3, <2>4, SparesAll, KeptRegister
<1> QED
  BY <1>1, <1>2, <1>3, <1>4 DEF Proceed

\* A rename gives the entry a free name; the helper that asks for it is not
\* the entry of another session.
LEMMA RenameRegister ==
  ASSUME Inv, NEW c \in Conns, NEW n, Rename(c, n)
  PROVE  RegisterKeeps
<1> USE DEF Inv
<1> PICK s \in Sessions, e \in Conns : s = conn[c].sid /\ e = registry[s]
  BY LiveNamed DEF Rename, Agents
<1>1. /\ s \in Agents /\ ~NameTaken(n, s) /\ registry' = registry
      /\ conn' = [conn EXCEPT ![e].name = n, ![c].name = n]
  BY DEF Rename
<1>2. \A d \in Conns :
        /\ conn'[d].sid = conn[d].sid /\ conn'[d].role = conn[d].role
        /\ conn'[d].sock = conn[d].sock
        /\ conn'[d].name = IF d \in {c, e} THEN n ELSE conn[d].name
  <2> TAKE d \in Conns
  <2> DEFINE once == [conn[d] EXCEPT !.name = n]
             twice == [once EXCEPT !.name = n]
  <2>1. conn[d] \in ConnState
    BY DEF TypeOK
  <2>2. /\ d \notin {c, e} => conn'[d] = conn[d]
        /\ d \in {c, e} => conn'[d] \in {once, twice}
    BY <1>1 DEF TypeOK
  <2> QED
    BY <2>1, <2>2 DEF ConnState
<1>3. \A t \in Agents : registry[t] \in Conns
  BY LiveNamed
<1>4. \A t \in Agents \ {s} : registry[t] \notin {c, e}
  BY <1>1 DEF EntriesOwned
<1>5. s \in Agents' /\ Agents' = Agents
  BY <1>1 DEF Agents
<1>6. \A t \in Sessions : Reads(t)' = Reads(t)
  <2> TAKE t \in Sessions
  <2>1. Reads(t)' <=> Reads(t)
    BY <1>2 DEF Reads
  <2> QED
    BY <2>1 DEF Reads
<1>7. EntryNames(s)' = {n} /\ EntryNames(s) # {}
  BY <1>1, <1>2, <1>3, <1>5 DEF EntryNames, NameOf
<1>8. \A t \in Sessions \ {s} : EntryNames(t)' = EntryNames(t)
  <2> TAKE t \in Sessions \ {s}
  <2>1. t \in Agents => conn'[registry'[t]].name = conn[registry[t]].name
    BY <1>1, <1>2, <1>3, <1>4
  <2> QED
    BY <1>5, <2>1 DEF EntryNames, NameOf
<1>9. n = NoName \/ \A t \in Sessions \ {s} : n \notin EntryNames(t)
  BY <1>1 DEF NameTaken, Holders, EntryNames
<1>10. \E k \in EntryNames(s)' :
         /\ EntryNames(s)' = {k}
         /\ (k = NoName \/ \A t \in Sessions \ {s} : k \notin EntryNames(t))
  BY <1>7, <1>9
<1>11. Register!Step(s)
  <2>1. Reads(s)' = Reads(s) /\ \A t \in Sessions \ {s} : EntryNames(t)' = EntryNames(t) /\ Reads(t)' = Reads(t)
    BY <1>6, <1>8
  <2> QED
    BY <1>7, <1>10, <2>1, RegisterStep
<1> QED
  BY <1>11 DEF RegisterKeeps, Register!Next

LEMMA RequestRegister ==
  ASSUME Inv, OpenListenersRegistered', NEW c \in Conns, Request(c)
  PROVE  RegisterKeeps
<1> USE DEF Inv
<1>0. conn[c] \in ConnState
  BY DEF TypeOK
<1>1. CASE \E n \in RenameNames : Rename(c, n)
  BY <1>1, RenameRegister
<1>2. CASE ~ \E n \in RenameNames : Rename(c, n)
  <2>0. EntriesKept /\ OpenKept
    BY <1>2, RequestKeeps
  <2>1. ASSUME NEW s, HelloControl(c, s) PROVE RegisterKeeps
    <3>1. Unused(c) /\ registry' = registry /\ \A d \in Conns \ {c} : conn'[d] = conn[d]
      BY <2>1 DEF HelloControl, TypeOK
    <3>2. ~(conn[c].role = "agent" /\ conn[c].sock = "open")
      BY <3>1 DEF OpenListenersRegistered, Registered, Unused, Agents
    <3> QED
      BY <2>0, <3>1, <3>2, SparesAll, KeptRegister
  <2>2. ASSUME NEW m, NEW r, NEW t, SendDirect(c, t, m, r) PROVE RegisterKeeps
    <3>1. PICK p : /\ registry' = registry
                   /\ conn' = [conn EXCEPT ![c].pc = "sending", ![c].peer = p, ![c].todo = {m}]
      BY <2>2, Zenon DEF SendDirect
    <3>2. /\ conn'[c] = [conn[c] EXCEPT !.pc = "sending", !.peer = p, !.todo = {m}]
          /\ \A d \in Conns \ {c} : conn'[d] = conn[d]
      BY <3>1 DEF TypeOK
    <3>3. /\ conn'[c].role = conn[c].role /\ conn'[c].sid = conn[c].sid
          /\ conn'[c].sock = conn[c].sock
      BY <1>0, <3>2 DEF ConnState
    <3> QED
      BY <2>0, <3>1, <3>2, <3>3, SparesAll, KeptRegister
  <2>3. CASE Leave(c)
    <3>1. /\ \A d \in Conns \ {c} : conn'[d] = conn[d]
          /\ \A t \in Sessions \ {conn[c].sid} : registry'[t] = registry[t]
      BY <2>3 DEF Leave, TypeOK
    <3>2. Spares(conn[c].sid)
      BY <3>1 DEF Spares, Agents, Reads
    <3> QED
      BY <2>0, <3>2, KeptRegister
  <2>4. CASE UNCHANGED <<registry, conn>>
    BY <2>0, <2>4, SparesAll, KeptRegister
  <2> QED
    BY <1>2, <2>1, <2>2, <2>3, <2>4 DEF Request, SendQueued, Broadcast, Ping
<1> QED
  BY <1>1, <1>2

\* The bus implements RegistryContract for any number of sessions, names and
\* connections: names pass from hand to hand as the service promises, whichever
\* handlers end late.
THEOREM KeepsRegistryPromise == Spec => RegistryPromise
<1>1. Init => Register!Init
  BY DEF Init, Register!Init, Agents, FreeConn
<1>2. Inv /\ Inv' /\ [Next]_vars => [Register!Next]_(Register!vars)
  <2> SUFFICES ASSUME Inv, Inv', [Next]_vars PROVE RegisterKeeps
    BY DEF RegisterKeeps, Register!vars, EntryNames, Reads
  <2>1. CASE UNCHANGED vars
    BY <2>1 DEF vars, RegisterKeeps, EntryNames, Reads, Agents, NameOf
  <2>2. OpenListenersRegistered'
    BY DEF Inv
  <2>3. CASE Next
    BY <2>2, <2>3, BusAssumption, EnvironmentRegister, HelloRegister, ProceedRegister, RequestRegister
    DEF Next
  <2> QED
    BY <2>1, <2>3
<1> QED
  BY <1>1, <1>2, Invariance, PTL DEF Spec, RegistryPromise, Register!Spec

----------------------------------------------------------------------------
(* Rows only move forward.                                                 *)

Forward(r, q) ==
  \A m \in Messages : \A s \in Sessions : Progress[r[m][s]] <= Progress[q[m][s]]

LEMMA ProgressTyped == \A v \in DeliveryState : Progress[v] \in Nat
BY DEF Progress, DeliveryState

LEMMA ForwardStays == \A r \in Rows : Forward(r, r)
BY ProgressTyped DEF Forward, Rows

LEMMA ForwardTwice ==
  \A r, q, p \in Rows : Forward(r, q) /\ Forward(q, p) => Forward(r, p)
<1> TAKE r, q, p \in Rows
<1> HAVE Forward(r, q) /\ Forward(q, p)
<1>1. \A m \in Messages : \A s \in Sessions :
        /\ Progress[r[m][s]] \in Nat /\ Progress[q[m][s]] \in Nat /\ Progress[p[m][s]] \in Nat
  BY ProgressTyped DEF Rows
<1> QED
  BY <1>1 DEF Forward

\* One row moves from v to w, the others stay.
LEMMA ForwardRow ==
  \A r, q \in Rows :
    (\A m \in Messages : \A s \in Sessions :
       \/ q[m][s] = r[m][s]
       \/ r[m][s] = "absent"
       \/ r[m][s] = "pending" /\ q[m][s] = "delivered"
       \/ q[m][s] = "read")
    => Forward(r, q)
<1> TAKE r, q \in Rows
<1> HAVE \A m \in Messages : \A s \in Sessions :
       \/ q[m][s] = r[m][s]
       \/ r[m][s] = "absent"
       \/ r[m][s] = "pending" /\ q[m][s] = "delivered"
       \/ q[m][s] = "read"
<1>1. \A m \in Messages : \A s \in Sessions :
        r[m][s] \in DeliveryState /\ q[m][s] \in DeliveryState
  BY DEF Rows
<1> QED
  BY <1>1 DEF Forward, Progress, DeliveryState

LEMMA ConsumedForward == \A r \in Rows : \A m, s : Forward(r, Consumed(r, m, s))
<1> TAKE r \in Rows
<1> TAKE m, s
<1> DEFINE q == Consumed(r, m, s)
<1>1. \A k \in Messages : \A t \in Sessions :
        \/ q[k][t] = r[k][t]
        \/ r[k][t] = "pending" /\ q[k][t] = "delivered"
        \/ q[k][t] = "read"
  BY DEF Consumed, Rows
<1>2. q \in Rows
  BY ConsumedTyped
<1>3. Forward(r, q)
  <2> HIDE DEF q
  <2> QED
    BY <1>1, <1>2, ForwardRow
<1> QED
  BY <1>3

LEMMA AnsweredForward == \A r \in Rows : \A m, s : Forward(r, Answered(r, m, s))
<1> TAKE r \in Rows
<1> TAKE m, s
<1> DEFINE q == Answered(r, m, s)
<1>1. \A k \in Messages : \A t \in Sessions : q[k][t] = r[k][t] \/ q[k][t] = "read"
  BY DEF Answered, Rows
<1>2. q \in Rows
  BY AnsweredTyped
<1>3. Forward(r, q)
  <2> HIDE DEF q
  <2> QED
    BY <1>1, <1>2, ForwardRow
<1> QED
  BY <1>3

LEMMA RecipientsRow ==
  \A r \in Rows : \A m, S : \A k \in Messages : \A t \in Sessions :
    LET q == Recipients(r, m, S) IN q[k][t] = r[k][t] \/ r[k][t] = "absent"
BY DEF Recipients, Rows

LEMMA RecipientsForward == \A r \in Rows : \A m, S : Forward(r, Recipients(r, m, S))
BY RecipientsRow, RecipientsTyped, ForwardRow

LEMMA CatchUpsForward ==
  \A r \in Rows : \A s, n : /\ Forward(r, CatchUpBroadcasts(r, s))
                           /\ Forward(r, CatchUpDirect(r, s, n))
<1> TAKE r \in Rows
<1> TAKE s, n
<1>1. CatchUpBroadcasts(r, s) \in Rows /\ CatchUpDirect(r, s, n) \in Rows
  BY CatchUpsTyped
<1>2. \A m \in Messages : \A t \in Sessions :
        \/ CatchUpBroadcasts(r, s)[m][t] = r[m][t]
        \/ r[m][t] = "absent"
  BY RecipientsRow DEF CatchUpBroadcasts
<1>3. \A m \in Messages : \A t \in Sessions :
        \/ CatchUpDirect(r, s, n)[m][t] = r[m][t]
        \/ r[m][t] = "absent"
  BY RecipientsRow DEF CatchUpDirect
<1> QED
  BY <1>1, <1>2, <1>3, ForwardRow

LEMMA AnsweredRecipientsForward ==
  \A r \in Rows : \A m, S, o, s : Forward(r, Answered(Recipients(r, m, S), o, s))
<1> TAKE r \in Rows
<1> TAKE m, S, o, s
<1>1. Recipients(r, m, S) \in Rows /\ Answered(Recipients(r, m, S), o, s) \in Rows
  BY RecipientsTyped, AnsweredTyped
<1>2. Forward(r, Recipients(r, m, S))
  BY RecipientsForward
<1>3. Forward(Recipients(r, m, S), Answered(Recipients(r, m, S), o, s))
  BY <1>1, AnsweredForward
<1> QED
  BY <1>1, <1>2, <1>3, ForwardTwice

LEMMA HostsForward ==
  ASSUME TypeOK, NEW m \in Messages, NEW s \in Sessions,
         HostDrains(m, s) \/ HostReads(m, s)
  PROVE  Forward(rows, rows')
<1>1. rows \in Rows /\ rows' \in Rows
  BY EnvironmentTyped DEF TypeOK, Rows, Environment
<1>2. \A k \in Messages : \A t \in Sessions :
        \/ rows'[k][t] = rows[k][t]
        \/ rows[k][t] = "pending" /\ rows'[k][t] = "delivered"
        \/ rows'[k][t] = "read"
  BY <1>1 DEF HostDrains, HostReads, Rows
<1> QED
  BY <1>1, <1>2, ForwardRow

LEMMA StepForward == Inv /\ [Next]_vars => Forward(rows, rows')
<1> SUFFICES ASSUME Inv, [Next]_vars PROVE Forward(rows, rows')
  OBVIOUS
<1>0. rows \in Rows /\ TypeOK
  BY DEF Inv, TypeOK, Rows
<1>1. CASE UNCHANGED rows
  BY <1>0, <1>1, ForwardStays
<1>2. CASE \E m \in Messages, s \in Sessions : HostDrains(m, s) \/ HostReads(m, s)
  BY <1>0, <1>2, HostsForward
<1>3. CASE \E c \in Conns : Join(c)
  <2> PICK c \in Conns : Join(c)
    BY <1>3
  <2> DEFINE missed == CatchUpBroadcasts(rows, conn[c].sid)
  <2>1. rows' = CatchUpDirect(missed, conn[c].sid, conn[c].name)
    BY DEF Join
  <2>2. missed \in Rows /\ Forward(rows, missed)
    BY <1>0, CatchUpsTyped, CatchUpsForward
  <2> HIDE DEF missed
  <2>3. rows' \in Rows /\ Forward(missed, rows')
    BY <2>1, <2>2, CatchUpsTyped, CatchUpsForward
  <2> QED
    BY <1>0, <2>2, <2>3, ForwardTwice
<1>4. CASE \E c \in Conns : Replayed(c) \/ Sent(c)
  <2>1. rows' = rows \/ \E m, s : rows' = Consumed(rows, m, s)
    BY <1>4 DEF Replayed, Sent
  <2> QED
    BY <1>0, <2>1, ConsumedForward, ForwardStays
<1>5. ASSUME NEW c, NEW m, NEW r, NEW t,
             SendDirect(c, t, m, r) \/ SendQueued(c, t, m, r) \/ Broadcast(c, m, r)
      PROVE  Forward(rows, rows')
  <2>1. \E S, s : rows' = Answered(Recipients(rows, m, S), r, s)
    BY <1>5, Zenon DEF SendDirect, SendQueued, Broadcast
  <2> QED
    BY <1>0, <2>1, AnsweredRecipientsForward
<1>6. \/ UNCHANGED rows
      \/ \E m \in Messages, s \in Sessions : HostDrains(m, s) \/ HostReads(m, s)
      \/ \E c \in Conns : Join(c) \/ Replayed(c) \/ Sent(c)
      \/ \E c, m, r, t : SendDirect(c, t, m, r) \/ SendQueued(c, t, m, r) \/ Broadcast(c, m, r)
  <2>1. CASE Environment
    BY <2>1 DEF Environment, Drop, Age, Restart
  <2>2. ASSUME NEW c \in Conns, Hello(c) PROVE UNCHANGED rows
    BY <2>2 DEF Hello, HelloAgent, HelloNameTaken
  <2>3. ASSUME NEW c \in Conns, Proceed(c)
        PROVE  UNCHANGED rows \/ Join(c) \/ Replayed(c) \/ Sent(c)
    BY <2>3 DEF Proceed, Welcomed, WelcomeFails, ReplayFails
  <2>4. ASSUME NEW c \in Conns, Request(c)
        PROVE  \/ UNCHANGED rows
               \/ \E m, r, t : SendDirect(c, t, m, r) \/ SendQueued(c, t, m, r)
                                \/ Broadcast(c, m, r)
    BY <2>4 DEF Request, HelloControl, Rename, Ping, Leave
  <2> QED
    BY <2>1, <2>2, <2>3, <2>4 DEF Next, vars
<1> QED
  BY <1>1, <1>2, <1>3, <1>4, <1>5, <1>6

\* A delivery row never goes back, whatever the order in which the server, its
\* catch-ups and the hosts write it: what a session was handed is not handed
\* out as new, and what it read stays read.
THEOREM RowsForward == Spec => RowsMoveForward
<1>1. Inv /\ [Next]_vars =>
        [\A m \in Messages : \A s \in Sessions :
           Progress[rows[m][s]] <= Progress[rows'[m][s]]]_vars
  BY StepForward DEF Forward
<1> QED
  BY <1>1, Invariance, PTL DEF Spec, RowsMoveForward
=============================================================================
