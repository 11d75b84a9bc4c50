-------------------------------- MODULE Bus --------------------------------
(***************************************************************************)
(* The websocket bus of server.py: the in-memory registry of listeners,    *)
(* the handler coroutines that share it, the sqlite rows they write, and   *)
(* the sockets, clients and turn-level drains around them.                 *)
(*                                                                         *)
(* The server is one asyncio process.  A handler runs alone until it       *)
(* awaits a socket, so an action is the code between two such awaits: the  *)
(* registry lock is never held across one and adds no step.  An await that *)
(* is followed by no change of state (an error, list_ok, renamed, pong) is *)
(* part of the action before it.                                           *)
(***************************************************************************)
EXTENDS Integers, FiniteSets

CONSTANTS
  Conns,         \* connections (one websocket and the handler serving it)
  Sessions,      \* session ids, one per listener process
  Names,         \* agent names
  Messages,      \* message ids, numbered in the order of messages.seq
  FirstName,     \* FirstName[s]: the name the process of s is started with
  Fallback,      \* Fallback[n]: the first candidate offered for a taken n
  RenameNames,   \* the names a rename request may ask for
  Extends,       \* <<n, p>>: the name n starts with the (other) name p
  DirectWindow,      \* TRUE: direct catch-up is bounded (default: 24 hours)
  BroadcastCatchUp,  \* TRUE: broadcast catch-up is on (default: off)
  Live,          \* sessions labelled claude: receive strategy live_monitor
  MaxHellos,     \* bound: listener connections in a behaviour
  ReplayLimit,   \* pending_queued_for_session's limit (100 in the code)
  NoConn, NoSession, NoName, NoMessage,
  Stopped        \* asks[s] once the process of s is out of collision retries

ASSUME BusAssumption ==
  /\ Messages \subseteq Nat
  /\ FirstName \in [Sessions -> Names \cup {NoName}]
  /\ Fallback \in [Names -> Names \cup {Stopped}]
  /\ RenameNames \subseteq Names \cup {NoName}
  /\ Extends \subseteq Names \X Names
  /\ DirectWindow \in BOOLEAN /\ BroadcastCatchUp \in BOOLEAN
  /\ Live \subseteq Sessions
  /\ ReplayLimit \in Nat \ {0}
  /\ MaxHellos \in Nat
  /\ NoConn \notin Conns
  /\ NoSession \notin Sessions
  /\ NoName \notin Names
  /\ Stopped \notin Names \cup {NoName}
  /\ NoMessage \notin Messages
  /\ Names \cap Sessions = {}
  /\ Conns \cap Sessions = {}

VARIABLES
  registry,  \* session id -> the connection of its ClientState
  hellos,    \* listener connections so far, capped by MaxHellos
  asks,      \* session id -> the name its client will ask for next
  conn,      \* connection -> its socket, its ClientState and its handler
  known,     \* the sessions table: name and status of each session id
  before,    \* order of last_seen_at: <<s, t>> of one name, s last seen before t;
             \* <<c, x>>: handler c, still to write its row, got its hello before x
  msgs,      \* the messages table
  rows,      \* the message_deliveries table: delivery_state per session
  reached,   \* history: messages that some agent was handed
  swallowed  \* history: messages written to a socket nobody reads any more

vars == <<registry, hellos, asks, conn, known, before, msgs, rows, reached, swallowed>>

(***************************************************************************)
(* Types.  A handler's pc names the await it is suspended in:              *)
(*   welcome   close of the socket it replaced, then send of welcome       *)
(*   joining   broadcast of peer_joined                                    *)
(*   replaying send of the least queued message of todo                    *)
(*   idle      the next frame of its own socket                            *)
(*   sending   send of the message in todo to the socket of peer           *)
(* A handler that ended is free; one that ended on an exception raised     *)
(* before its ClientState reached _handler is dead.                        *)
(* A socket is open, half (the client is gone and the server has not       *)
(* noticed: sends still succeed) or closed (sends raise ConnectionClosed). *)
(***************************************************************************)
Running == {"welcome", "joining", "replaying", "idle", "sending"}

ConnState ==
  [pc   : Running \cup {"free", "dead"},
   role : {"agent", "control"},
   sid  : Sessions \cup {NoSession},
   name : Names \cup {NoName},
   sock : {"open", "half", "closed"},
   peer : Conns \cup {NoConn},
   todo : SUBSET Messages]

FreeConn == [pc |-> "free", role |-> "agent", sid |-> NoSession,
             name |-> NoName, sock |-> "closed", peer |-> NoConn, todo |-> {}]

SessionRow ==
  [name : Names \cup {NoName},
   status : {"absent", "active", "ended"}]  \* ended: disconnected or stale

MessageRow ==
  [kind : {"unused", "direct", "queued", "broadcast"},
   from : Sessions \cup {NoSession},
   to   : Names \cup {NoName},
   fresh : BOOLEAN]  \* created_at lies inside the catch-up window

DeliveryState == {"absent", "pending", "delivered", "read"}

TypeOK ==
  /\ registry \in [Sessions -> Conns \cup {NoConn}]
  /\ hellos \in 0..MaxHellos
  /\ asks \in [Sessions -> Names \cup {NoName, Stopped}]
  /\ conn \in [Conns -> ConnState]
  /\ known \in [Sessions -> SessionRow]
  /\ before \subseteq (Sessions \cup Conns) \X (Sessions \cup Conns)
  /\ msgs \in [Messages -> MessageRow]
  /\ rows \in [Messages -> [Sessions -> DeliveryState]]
  /\ reached \subseteq Messages
  /\ swallowed \subseteq Messages

Init ==
  /\ registry = [s \in Sessions |-> NoConn]
  /\ hellos = 0
  /\ asks = FirstName
  /\ conn = [c \in Conns |-> FreeConn]
  /\ known = [s \in Sessions |-> [name |-> NoName, status |-> "absent"]]
  /\ before = {}
  /\ msgs = [m \in Messages |-> [kind |-> "unused", from |-> NoSession,
                                 to |-> NoName, fresh |-> TRUE]]
  /\ rows = [m \in Messages |-> [s \in Sessions |-> "absent"]]
  /\ reached = {}
  /\ swallowed = {}

-----------------------------------------------------------------------------
(* The registry. *)

Agents == {s \in Sessions : registry[s] # NoConn}
NameOf(s) == conn[registry[s]].name
Holders(n) == {s \in Agents : NameOf(s) = n}

\* A connection is a new one once no handler and no entry refers to the old.
Unused(c) ==
  /\ conn[c].pc \in {"free", "dead"}
  /\ \A s \in Sessions : registry[s] # c
  /\ \A d \in Conns : conn[d].peer # c

\* Frames received before the socket broke are still served.
Dispatching(c) == conn[c].pc = "idle"

\* A control connection speaks only while its listener is registered.
ListenerAlive(c) == conn[c].role = "control" => conn[c].sid \in Agents

-----------------------------------------------------------------------------
(* The sqlite store.                                                       *)

KnownAs(n) == {s \in Sessions : known[s].status # "absent" /\ known[s].name = n}

\* Registered by a hello whose time is still to be written to the sessions row.
Joining == {c \in Conns : conn[c].pc \in {"welcome", "joining"}}

Without(S) == {p \in before : p[1] \notin S /\ p[2] \notin S}

\* last_seen_at of s, whose row has name n, becomes the latest of that name.
Seen(s, n) == Without({s}) \cup (((KnownAs(n) \ {s}) \cup Joining) \X {s})

\* last_seen_at of s, whose row takes name n, becomes the time of c's hello.
SeenAtHello(c, s, n) ==
  LET others == KnownAs(n) \ {s}
      later == {t \in others : <<c, t>> \in before}
      earlier == (others \ later) \cup {d \in Joining : <<d, c>> \in before}
  IN  Without({s, c}) \cup (earlier \X {s}) \cup ({s} \X later)

\* order by last_seen_at desc limit 1
LatestSessionFor(n) ==
  {s \in KnownAs(n) : \A t \in KnownAs(n) : <<s, t>> \notin before}

Outstanding(r, m) == \E s \in Sessions : r[m][s] \in {"pending", "delivered"}
ReadBySome(r, m) == \E s \in Sessions : r[m][s] = "read"

\* Mutant of Consumed: mark_delivered without its case on the current state.
ConsumedAnyhow(r, m, s) ==
  [r EXCEPT ![m][s] = IF @ = "absent" THEN @ ELSE IF s \in Live THEN "read" ELSE "delivered"]

\* The push was written: read for a live monitor, delivered for a hook host.
Consumed(r, m, s) ==
  [r EXCEPT ![m][s] =
     IF s \in Live THEN IF @ = "absent" THEN @ ELSE "read"
     ELSE IF @ = "pending" THEN "delivered" ELSE @]

\* A reply whose text is a known answer closes the row of the original.
Answered(r, original, s) ==
  IF original = NoMessage THEN r
  ELSE [r EXCEPT ![original][s] =
          IF @ \in {"pending", "delivered"} THEN "read" ELSE @]

\* Mutant of Recipients: insert or replace.
RecipientsAnew(r, m, S) ==
  [r EXCEPT ![m] = [s \in Sessions |-> IF s \in S THEN "pending" ELSE r[m][s]]]

\* insert or ignore into message_deliveries, pending, for each session of S.
Recipients(r, m, S) ==
  [r EXCEPT ![m] = [s \in Sessions |->
     IF s \in S /\ r[m][s] = "absent" THEN "pending" ELSE r[m][s]]]

\* Broadcasts of the window the session missed.
CatchUpBroadcasts(r, s) ==
  [m \in Messages |->
     IF BroadcastCatchUp /\ msgs[m].kind = "broadcast" /\ msgs[m].fresh /\ msgs[m].from # s
     THEN Recipients(r, m, {s})[m] ELSE r[m]]

\* Mutant of CatchUpDirect: queued messages age like the others.
CatchUpFresh(r, s, n) ==
  [m \in Messages |->
     IF /\ n # NoName /\ msgs[m].kind \in {"direct", "queued"} /\ msgs[m].to = n
        /\ \E t \in Sessions \ {s} : r[m][t] \in {"pending", "delivered"}
        /\ msgs[m].fresh
        /\ ~ReadBySome(r, m)
     THEN Recipients(r, m, {s})[m] ELSE r[m]]

\* Mutant of CatchUpDirect: any row of another session counts, also a read one.
CatchUpAnyRow(r, s, n) ==
  [m \in Messages |->
     IF /\ n # NoName /\ msgs[m].kind \in {"direct", "queued"} /\ msgs[m].to = n
        /\ \E t \in Sessions \ {s} : r[m][t] # "absent"
        /\ msgs[m].fresh \/ msgs[m].kind = "queued"
     THEN Recipients(r, m, {s})[m] ELSE r[m]]

\* Directs of the name that a previous session left unread.
CatchUpDirect(r, s, n) ==
  [m \in Messages |->
     IF /\ n # NoName /\ msgs[m].kind \in {"direct", "queued"} /\ msgs[m].to = n
        /\ \E t \in Sessions \ {s} : r[m][t] \in {"pending", "delivered"}
        /\ msgs[m].fresh \/ msgs[m].kind = "queued"
        /\ ~ReadBySome(r, m)
     THEN Recipients(r, m, {s})[m] ELSE r[m]]

\* Mutant of PendingQueued: a direct that was pushed live counts as well.
PendingAnyKind(r, s) ==
  LET all == {m \in Messages : msgs[m].kind # "broadcast" /\ r[m][s] = "pending"}
  IN  {m \in all : Cardinality({k \in all : k < m}) < ReplayLimit}

\* Queued messages not yet pushed to s, at most ReplayLimit, oldest first.
PendingQueued(r, s) ==
  LET all == {m \in Messages : msgs[m].kind = "queued" /\ r[m][s] = "pending"}
  IN  {m \in all : Cardinality({k \in all : k < m}) < ReplayLimit}

Oldest(S) == CHOOSE m \in S : \A k \in S : m <= k

-----------------------------------------------------------------------------
(* Sockets, clients and hosts.                                             *)

\* What a websocket send of m to c leaves behind it.
Handed(m, c) == IF conn[c].sock = "open" THEN reached \cup {m} ELSE reached
Lost(m, c) == IF conn[c].sock = "half" THEN swallowed \cup {m} ELSE swallowed

\* The network or the client's death breaks c's socket; the server notices it
\* at once (FIN, RST) or keeps a half-open socket it can still write to.
Drop(c) ==
  /\ conn[c].pc # "free"
  /\ \/ conn[c].sock = "open" /\ conn' = [conn EXCEPT ![c].sock = "half"]
     \/ conn[c].sock # "closed" /\ conn' = [conn EXCEPT ![c].sock = "closed"]
  /\ UNCHANGED <<hellos, asks, registry, known, before, msgs, rows, reached, swallowed>>

\* The agent of a session drains its sqlite rows (drain.py, the MCP tools, the
\* polling loop): another process, with or without a listener connected.
HostDrains(m, s) ==
  /\ rows[m][s] = "pending"
  /\ rows' = [rows EXCEPT ![m][s] = "delivered"]
  /\ reached' = reached \cup {m}
  /\ UNCHANGED <<hellos, asks, registry, conn, known, before, msgs, swallowed>>

\* The agent marks a message read, replied, skipped or failed.
HostReads(m, s) ==
  /\ rows[m][s] \in {"pending", "delivered"}
  /\ rows' = [rows EXCEPT ![m][s] = "read"]
  /\ reached' = reached \cup {m}
  /\ UNCHANGED <<hellos, asks, registry, conn, known, before, msgs, swallowed>>

\* A stored message grows older than the catch-up window of its kind.
Age(m) ==
  /\ msgs[m].fresh
  /\ \/ msgs[m].kind \in {"direct", "queued"} /\ DirectWindow
     \/ msgs[m].kind = "broadcast" /\ BroadcastCatchUp
  /\ msgs' = [msgs EXCEPT ![m].fresh = FALSE]
  /\ UNCHANGED <<hellos, asks, registry, conn, known, before, rows, reached, swallowed>>

-----------------------------------------------------------------------------
(* Hello of a listener.                                                    *)

\* A process connects again only after it gave up its previous socket, but it
\* may have died between its hello frame and the handler's turn to read it.
Connects(c, s, sock) ==
  /\ hellos < MaxHellos /\ hellos' = hellos + 1
  /\ Unused(c)
  /\ sock \in {"open", "half", "closed"}
  /\ \A d \in Conns : ~(conn[d].role = "agent" /\ conn[d].sid = s /\ conn[d].sock = "open")

\* Mutant of NameTaken: a holder whose socket broke no longer counts.
NameTakenByOpen(n, s) ==
  n # NoName /\ \E t \in Holders(n) \ {s} : conn[registry[t]].sock = "open"

NameTaken(n, s) == n # NoName /\ Holders(n) \ {s} # {}

\* Mutant of HelloAgent: who asks for a name evicts its holder if the holder's
\* socket broke.
HelloAgentEvicts(c, s, sock) ==
  /\ Connects(c, s, sock)
  /\ asks[s] # Stopped
  /\ ~NameTakenByOpen(asks[s], s)
  /\ registry' = [t \in Sessions |->
       IF t = s THEN c
       ELSE IF asks[s] # NoName /\ t \in Holders(asks[s]) THEN NoConn ELSE registry[t]]
  /\ conn' = [d \in Conns |->
       IF d = c
       THEN [FreeConn EXCEPT !.pc = "welcome", !.sid = s, !.name = asks[s], !.sock = sock]
       ELSE IF d = registry[s] THEN [conn[d] EXCEPT !.sock = "closed"] ELSE conn[d]]
  /\ before' = before \cup (Joining \X {c})
  /\ UNCHANGED <<asks, known, msgs, rows, reached, swallowed>>

\* First frame of an agent: with the nonce of its own entry it takes that
\* entry's place and closes its socket.  A hello of a session nobody holds
\* needs no nonce.
HelloAgent(c, s, sock) ==
  /\ Connects(c, s, sock)
  /\ asks[s] # Stopped
  /\ ~NameTaken(asks[s], s)
  /\ registry' = [registry EXCEPT ![s] = c]
  /\ conn' = [d \in Conns |->
       IF d = c
       THEN [FreeConn EXCEPT !.pc = "welcome", !.sid = s, !.name = asks[s], !.sock = sock]
       ELSE IF d = registry[s] THEN [conn[d] EXCEPT !.sock = "closed"] ELSE conn[d]]
  /\ before' = before \cup (Joining \X {c})
  /\ UNCHANGED <<asks, known, msgs, rows, reached, swallowed>>

\* The client retries with the first candidate, or stops.
RetryName(s) == asks' = [asks EXCEPT ![s] = Fallback[@]]

\* The name belongs to another session.  The hello's own former entry has
\* already been removed when the name is looked up, and is not put back.  A
\* client that is gone by then does not read the refusal.
HelloNameTaken(c, s, sock) ==
  /\ Connects(c, s, sock)
  /\ asks[s] # Stopped
  /\ NameTaken(asks[s], s)
  /\ registry' = [registry EXCEPT ![s] = NoConn]
  /\ IF sock = "open" THEN RetryName(s) ELSE UNCHANGED asks
  /\ UNCHANGED <<conn, known, before, msgs, rows, reached, swallowed>>

Welcomed(c) ==
  /\ conn[c].pc = "welcome" /\ conn[c].sock # "closed"
  /\ conn' = [conn EXCEPT ![c].pc = "joining"]
  /\ UNCHANGED <<hellos, asks, registry, known, before, msgs, rows, reached, swallowed>>

\* The send of welcome raises ConnectionClosed.  _handler has no ClientState
\* yet, so its finally clause does not unregister.
WelcomeFails(c) ==
  /\ conn[c].pc = "welcome" /\ conn[c].sock = "closed"
  /\ conn' = [conn EXCEPT ![c] = [FreeConn EXCEPT !.pc = "dead", !.sid = conn[c].sid,
                                                  !.name = conn[c].name]]
  /\ before' = Without({c})
  /\ UNCHANGED <<hellos, asks, registry, known, msgs, rows, reached, swallowed>>

\* Handler c pushes the oldest of the queued messages S, or is done replaying.
Replay(c, S) ==
  IF S = {}
  THEN /\ conn' = [conn EXCEPT ![c].pc = "idle", ![c].todo = {}]
       /\ UNCHANGED <<reached, swallowed>>
  ELSE /\ conn' = [conn EXCEPT ![c].pc = "replaying", ![c].todo = S]
       /\ \E m \in S : m = Oldest(S) /\ reached' = Handed(m, c) /\ swallowed' = Lost(m, c)

\* peer_joined is out: the session row is written, missed messages are
\* attached to the session, and the queued ones among them looked up.
Join(c) ==
  LET s == conn[c].sid
      n == conn[c].name
      attached == CatchUpDirect(CatchUpBroadcasts(rows, s), s, n)
  IN  /\ conn[c].pc = "joining"
      /\ known' = [known EXCEPT ![s] = [name |-> n, status |-> "active"]]
      /\ before' = SeenAtHello(c, s, n)
      /\ rows' = attached
      /\ Replay(c, PendingQueued(attached, s))
      /\ UNCHANGED <<hellos, asks, registry, msgs>>

\* Mutant of Replayed: the replay ends with its first message.
ReplayedOnce(c) ==
  /\ conn[c].pc = "replaying" /\ conn[c].sock # "closed"
  /\ rows' = Consumed(rows, Oldest(conn[c].todo), conn[c].sid)
  /\ Replay(c, {})
  /\ UNCHANGED <<hellos, asks, registry, known, before, msgs>>

\* A replayed message is out: mark it, push the next one.
Replayed(c) ==
  /\ conn[c].pc = "replaying" /\ conn[c].sock # "closed"
  /\ rows' = Consumed(rows, Oldest(conn[c].todo), conn[c].sid)
  /\ Replay(c, conn[c].todo \ {Oldest(conn[c].todo)})
  /\ UNCHANGED <<hellos, asks, registry, known, before, msgs>>

ReplayFails(c) ==
  /\ conn[c].pc = "replaying" /\ conn[c].sock = "closed"
  /\ Replay(c, {})
  /\ UNCHANGED <<hellos, asks, registry, known, before, msgs, rows>>

-----------------------------------------------------------------------------
(* Requests.  c speaks as session conn[c].sid, its own or its listener's.  *)

\* A helper (send, list, rename) attaches to the listener of s.
HelloControl(c, s) ==
  /\ Unused(c)
  /\ s \in Agents
  /\ conn' = [conn EXCEPT ![c] =
       [FreeConn EXCEPT !.pc = "idle", !.role = "control", !.sid = s,
                        !.name = NameOf(s), !.sock = "open"]]
  /\ UNCHANGED <<hellos, asks, registry, known, before, msgs, rows, reached, swallowed>>

\* An id, else a name, else the only name that starts with the text typed.
Matches(t) ==
  IF t \in Agents THEN {t}
  ELSE IF Holders(t) # {} THEN Holders(t)
  ELSE {s \in Agents : <<NameOf(s), t>> \in Extends}

Ambiguous(t) ==
  t \notin Agents /\ Holders(t) = {} /\ Cardinality(Matches(t)) > 1

UnknownPeer(t, from) == Matches(t) \subseteq {from}

Stored(m, kind, from, to) ==
  /\ msgs[m].kind = "unused"
  /\ \A k \in Messages : k < m => msgs[k].kind # "unused"
  /\ msgs' = [msgs EXCEPT ![m] = [kind |-> kind, from |-> from, to |-> to, fresh |-> TRUE]]

\* A direct to a live session: stored as pending for it, then written to its
\* socket.  r is the message it answers, NoMessage when it answers none.
SendDirect(c, t, m, r) ==
  \E s \in Matches(t) :
    LET from == conn[c].sid
        p == registry[s]
    IN  /\ Dispatching(c) /\ ListenerAlive(c)
        /\ ~Ambiguous(t) /\ s # from
        /\ Stored(m, "direct", from, NameOf(s))
        /\ rows' = Answered(Recipients(rows, m, {s}), r, from)
        /\ reached' = Handed(m, p)
        /\ swallowed' = Lost(m, p)
        /\ conn' = [conn EXCEPT ![c].pc = "sending", ![c].peer = p, ![c].todo = {m}]
        /\ UNCHANGED <<hellos, asks, registry, known, before>>

\* Mutant of Sent: the row is marked although the write raised.
SentAnyhow(c) ==
  LET p == conn[c].peer
  IN  /\ conn[c].pc = "sending"
      /\ rows' = Consumed(rows, Oldest(conn[c].todo), conn[p].sid)
      /\ conn' = [conn EXCEPT ![c].pc = "idle", ![c].peer = NoConn, ![c].todo = {}]
      /\ UNCHANGED <<hellos, asks, registry, known, before, msgs, reached, swallowed>>

\* The write returned: mark the row, unless the socket was found closed.
Sent(c) ==
  LET p == conn[c].peer
  IN  /\ conn[c].pc = "sending"
      /\ rows' = IF conn[p].sock = "closed" THEN rows
                 ELSE Consumed(rows, Oldest(conn[c].todo), conn[p].sid)
      /\ conn' = [conn EXCEPT ![c].pc = "idle", ![c].peer = NoConn, ![c].todo = {}]
      /\ UNCHANGED <<hellos, asks, registry, known, before, msgs, reached, swallowed>>

\* No live session matches, but the name is one the store has seen.
SendQueued(c, t, m, r) ==
  \E last \in LatestSessionFor(t) :
    LET from == conn[c].sid
    IN  /\ Dispatching(c) /\ ListenerAlive(c)
        /\ UnknownPeer(t, from)
        /\ t # conn[c].name
        /\ Stored(m, "queued", from, t)
        /\ rows' = Answered(Recipients(rows, m, {last}), r, from)
        /\ UNCHANGED <<hellos, asks, registry, conn, known, before, reached, swallowed>>

\* To every other listener.  The rows are never marked by the server.
Broadcast(c, m, r) ==
  LET from == conn[c].sid
      to == Agents \ {from}
  IN  /\ Dispatching(c) /\ ListenerAlive(c)
      /\ Stored(m, "broadcast", from, NoName)
      /\ rows' = Answered(Recipients(rows, m, to), r, from)
      /\ reached' = IF \E s \in to : conn[registry[s]].sock = "open"
                    THEN reached \cup {m} ELSE reached
      /\ swallowed' = IF \E s \in to : conn[registry[s]].sock = "half"
                      THEN swallowed \cup {m} ELSE swallowed
      /\ UNCHANGED <<hellos, asks, registry, conn, known, before>>

\* The entry takes the name, and so does the helper's own copy of it.  The
\* sessions table is not written.
Rename(c, n) ==
  LET s == conn[c].sid
  IN  /\ Dispatching(c)
      /\ s \in Agents
      /\ ~NameTaken(n, s)
      /\ conn' = [conn EXCEPT ![registry[s]].name = n, ![c].name = n]
      /\ UNCHANGED <<hellos, asks, registry, known, before, msgs, rows, reached, swallowed>>

\* A ping moves last_seen_at of an active session.
Ping(c) ==
  /\ Dispatching(c) /\ conn[c].role = "agent"
  /\ known[conn[c].sid].status = "active"
  /\ before' = Seen(conn[c].sid, known[conn[c].sid].name)
  /\ UNCHANGED <<hellos, asks, registry, conn, known, msgs, rows, reached, swallowed>>

\* Mutants of Leave: the session's entry goes whoever owns it, the session's
\* row ends although it was replaced, the row takes a status nobody reads.
LeaveAnyEntry(c) ==
  LET s == conn[c].sid
  IN  /\ conn[c].pc = "idle"
      /\ conn' = [conn EXCEPT ![c] = FreeConn]
      /\ registry' = [registry EXCEPT ![s] = NoConn]
      /\ known' = [known EXCEPT ![s].status = "ended"]
      /\ before' = Seen(s, known[s].name)
      /\ UNCHANGED <<hellos, asks, msgs, rows, reached, swallowed>>

LeaveEndsSession(c) ==
  LET s == conn[c].sid
  IN  /\ conn[c].pc = "idle"
      /\ conn' = [conn EXCEPT ![c] = FreeConn]
      /\ registry' = IF registry[s] = c THEN [registry EXCEPT ![s] = NoConn] ELSE registry
      /\ known' = IF conn[c].role = "agent" THEN [known EXCEPT ![s].status = "ended"] ELSE known
      /\ before' = Seen(s, known[s].name)
      /\ UNCHANGED <<hellos, asks, msgs, rows, reached, swallowed>>

LeaveClosed(c) ==
  LET s == conn[c].sid
  IN  /\ conn[c].pc = "idle"
      /\ conn' = [conn EXCEPT ![c] = FreeConn]
      /\ IF registry[s] = c
         THEN /\ registry' = [registry EXCEPT ![s] = NoConn]
              /\ known' = [known EXCEPT ![s].status = "closed"]
              /\ before' = Seen(s, known[s].name)
         ELSE UNCHANGED <<registry, known, before>>
      /\ UNCHANGED <<hellos, asks, msgs, rows, reached, swallowed>>

\* bye, or the socket is closed: the handler unregisters its ClientState if
\* it is still the session's entry.
Leave(c) ==
  LET s == conn[c].sid
  IN  /\ conn[c].pc = "idle"
      /\ conn' = [conn EXCEPT ![c] = FreeConn]
      /\ IF registry[s] = c
         THEN /\ registry' = [registry EXCEPT ![s] = NoConn]
              /\ known' = [known EXCEPT ![s].status = "ended"]
              /\ before' = Seen(s, known[s].name)
         ELSE UNCHANGED <<registry, known, before>>
      /\ UNCHANGED <<hellos, asks, msgs, rows, reached, swallowed>>

\* The server process ends (idle shutdown, crash, reboot) and another one is
\* spawned: memory and sockets are gone, the store stays.  Sessions whose
\* process died and whose grace lapsed become stale.
Restart ==
  \E gone \in SUBSET {s \in Sessions : known[s].status = "active"} :
    /\ \E c \in Conns : conn[c].pc # "free"
    /\ registry' = [s \in Sessions |-> NoConn]
    /\ conn' = [c \in Conns |-> FreeConn]
    /\ known' = [s \in Sessions |->
         IF s \in gone THEN [known[s] EXCEPT !.status = "ended"] ELSE known[s]]
    /\ before' = Without(Conns)
    /\ UNCHANGED <<hellos, asks, msgs, rows, reached, swallowed>>

-----------------------------------------------------------------------------
Hello(c) ==
  \E s \in Sessions, sock \in {"open", "half", "closed"} :
    HelloAgent(c, s, sock) \/ HelloNameTaken(c, s, sock)

\* The server's own steps: each ends an await.
Proceed(c) ==
  \/ Welcomed(c) \/ WelcomeFails(c) \/ Join(c)
  \/ Replayed(c) \/ ReplayFails(c) \/ Sent(c)

\* An agent answers what it was handed.
Answerable(s) ==
  {NoMessage} \cup {r \in reached : s \in Sessions /\ rows[r][s] # "absent"}

Request(c) ==
  \/ \E s \in Sessions : HelloControl(c, s)
  \/ \E m \in Messages : \E r \in Answerable(conn[c].sid) :
       \/ \E t \in Names \cup Sessions : SendDirect(c, t, m, r)
       \/ \E t \in Names : SendQueued(c, t, m, r)
       \/ Broadcast(c, m, r)
  \/ \E n \in RenameNames : Rename(c, n)
  \/ Ping(c)
  \/ Leave(c)

Environment ==
  \/ \E c \in Conns : Drop(c)
  \/ \E m \in Messages, s \in Sessions : HostDrains(m, s) \/ HostReads(m, s)
  \/ \E m \in Messages : Age(m)
  \/ Restart

Next == Environment \/ \E c \in Conns : Hello(c) \/ Proceed(c) \/ Request(c)

Spec == Init /\ [][Next]_vars

-----------------------------------------------------------------------------
(* Properties.                                                             *)

Registered(c) == conn[c].role = "agent" /\ conn[c].sid \in Agents
                 /\ registry[conn[c].sid] = c

\* Names identify listeners: whatever the order of hellos, renames and
\* handlers ending, two registry entries never carry one name, so a direct
\* by name has one recipient.  (_handle_hello, _handle_rename)
UniqueNames ==
  \A s, t \in Agents : s # t /\ NameOf(s) # NoName => NameOf(s) # NameOf(t)

\* The registry serves names as RegistryContract promises: each step concerns
\* the entry of one session, a name is given only while no other session holds
\* it, and an entry goes while its listener reads only by that listener's own
\* end.  (_handle_hello, _handle_rename, _unregister)
Register == INSTANCE RegistryContract WITH
  held <- [s \in Sessions |-> IF s \in Agents THEN {NameOf(s)} ELSE {}],
  listening <- [s \in Sessions |->
     \E c \in Conns : conn[c].role = "agent" /\ conn[c].sid = s /\ conn[c].sock = "open"]

RegistryPromise == Register!Spec

\* A listener that can still read is the one its session is registered by:
\* neither a replacement nor the late _unregister of a replaced handler ever
\* evicts it.  (_handle_hello, _unregister)
OpenListenersRegistered ==
  \A c \in Conns :
    conn[c].role = "agent" /\ conn[c].sock = "open" => Registered(c)

\* The store and the registry agree on who is there: the listener a handler
\* serves is active in the sessions table, whatever an older handler of the
\* same session wrote before or after it.  (_persist_session,
\* _mark_session_disconnected)
ServedListenersActive ==
  \A c \in Conns :
    Registered(c) /\ conn[c].pc \in {"replaying", "idle", "sending"}
      => known[conn[c].sid].status = "active"

\* No accepted direct vanishes: somebody was handed a copy, or a row is left
\* to drain or re-attach, unless the bus wrote it to a half-open socket and
\* took the write for the delivery.  (_handle_send, _replay_queued,
\* _mark_consumed)
LostOnlyToHalfOpenSockets ==
  \A m \in Messages : msgs[m].kind \in {"direct", "queued"} =>
    \/ m \in reached
    \/ Outstanding(rows, m)
    \/ m \in swallowed

\* Whoever completes a hello under a name has been pushed, by the time it
\* dispatches, every message that another session queued for that name and that
\* nobody read.  (_catch_up_direct, _replay_queued)
HelloDrainsQueue ==
  [][\A c \in Conns :
       /\ conn[c].pc \in {"joining", "replaying"}
       /\ conn'[c].pc = "idle" /\ conn'[c].sock # "closed"
       => \A m \in Messages :
            /\ msgs[m].kind = "queued" /\ msgs[m].to = conn[c].name
            /\ msgs[m].from # conn[c].sid
            => rows'[m][conn[c].sid] \in {"delivered", "read"} \/ ReadBySome(rows', m)
    ]_vars

\* Handler c writes queued message m to its socket in this step.
Pushes(c, m) ==
  /\ conn'[c].pc = "replaying" /\ conn'[c].todo # conn[c].todo
  /\ m = Oldest(conn'[c].todo)

Progress == [absent |-> 0, pending |-> 1, delivered |-> 2, read |-> 3]

\* Rows only move forward: the server, its peers and the hosts race on a row
\* and none of them puts it back.  (mark_delivered, mark_read, insert or ignore)
RowsMoveForward ==
  [][\A m \in Messages : \A s \in Sessions :
       Progress[rows[m][s]] <= Progress[rows'[m][s]]]_vars

\* The bus treats the rows of every message as DeliveryContract promises and
\* forgets no reading, for it never purges: in particular no order of hellos,
\* answers and drains attaches a message that one session of the name has read
\* to another one.  (catch_up_direct, catch_up_broadcasts, mark_delivered)
Deliveries == INSTANCE DeliveryContract WITH
  kind <- [m \in Messages |-> msgs[m].kind],
  state <- rows,
  Remembered <- {"direct", "queued", "broadcast"}

DeliveryPromise == Deliveries!Spec

-----------------------------------------------------------------------------
(* What the repository says and the code does not do.                      *)

\* _listener_alive_locked: "the handler exits on disconnect" and takes its
\* entry with it, so an entry always has a handler.
EntriesHaveHandlers ==
  \A s \in Agents : conn[registry[s]].pc # "dead"

\* test_offline_queue.py: "A replayed message must not be pushed again".
\* A message some session has read is not handed to another one.
NoPushAfterAnyRead ==
  [][\A c \in Conns : \A m \in Messages :
       Pushes(c, m) => ~ReadBySome(rows, m)]_vars
=============================================================================
