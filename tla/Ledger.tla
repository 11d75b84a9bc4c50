------------------------------- MODULE Ledger -------------------------------
(***************************************************************************)
(* The delivery ledger of storage.py: one row per message and session in   *)
(* the table message_deliveries, and every function that writes it.  The   *)
(* callers (the bus, the drains, the MCP tools, the Codex monitor) are     *)
(* separate processes that share the file, so any function may be called   *)
(* at any time; each one commits before it returns and is one action.      *)
(*                                                                         *)
(* All sessions here are listeners of one agent name, the name directs are *)
(* addressed to: those are the sessions catch_up_direct can move a message *)
(* between.                                                                *)
(***************************************************************************)
EXTENDS Integers

CONSTANTS
  Messages, Sessions,
  Senders,          \* Senders[m]: the session m is sent from
  DirectWindow,     \* INTERAGENTS_DIRECT_CATCHUP_SECONDS; 0: no bound
  BroadcastWindow,  \* INTERAGENTS_BROADCAST_CATCHUP_SECONDS; 0: no catch-up
  Retention,        \* INTERAGENTS_RETENTION_DAYS; 0: no purge
  TransportRetries, \* TRUE: a host uses the transport_failed functions, which
                    \* storage.py offers and no module of the repository calls
  MaxAttempts,      \* retry_transport_failures' max_attempts
  MaxClock          \* bound on the clock

ASSUME LedgerAssumption ==
  /\ DirectWindow \in Nat /\ BroadcastWindow \in Nat /\ Retention \in Nat
  /\ TransportRetries \in BOOLEAN
  /\ MaxAttempts \in Nat /\ MaxClock \in Nat

VARIABLES
  now,       \* the clock
  messages,  \* the table messages
  rows,      \* the table message_deliveries
  consumed   \* history: <<m, s>> such that session s has read message m

vars == <<now, messages, rows, consumed>>

Dispositions == {"question_sent", "replied", "skipped", "failed"}

Row ==
  [state : {"absent", "pending", "delivered", "read", "failed"},
   disposition : Dispositions \cup {"none"},
   read_at : Nat,   \* 0: null
   attempts : Nat]

NoRow == [state |-> "absent", disposition |-> "none", read_at |-> 0, attempts |-> 0]

\* Mutant of Attached: a state that no reader of the table knows.
AttachedQueued == [NoRow EXCEPT !.state = "queued"]

Attached == [NoRow EXCEPT !.state = "pending"]

Message ==
  [kind : {"unused", "direct", "queued", "broadcast", "purged"},
   created_at : Nat,
   expires_at : Nat]  \* 0: null

TypeOK ==
  /\ now \in Nat
  /\ messages \in [Messages -> Message]
  /\ rows \in [Messages -> [Sessions -> Row]]
  /\ consumed \subseteq Messages \X Sessions

Init ==
  /\ now = 1
  /\ messages = [m \in Messages |-> [kind |-> "unused", created_at |-> 0, expires_at |-> 0]]
  /\ rows = [m \in Messages |-> [s \in Sessions |-> NoRow]]
  /\ consumed = {}

Outstanding(row) == row.state \in {"pending", "delivered"}

\* The time column of an update: coalesce(read_at, now).
ReadTime(row) == IF row.read_at = 0 THEN now ELSE row.read_at

\* Insert or ignore a pending row of m for each session of S.
Insert(m, S) ==
  [s \in Sessions |->
     IF s \in S /\ rows[m][s].state = "absent" THEN Attached ELSE rows[m][s]]

SetRow(m, s, row) == rows' = [rows EXCEPT ![m][s] = row]

-----------------------------------------------------------------------------
Tick == now < MaxClock /\ now' = now + 1 /\ UNCHANGED <<messages, rows, consumed>>

StoreMessage(m, kind, to, expires) ==
  /\ messages[m].kind = "unused"
  /\ messages' = [messages EXCEPT ![m] =
       [kind |-> kind, created_at |-> now, expires_at |-> expires]]
  /\ rows' = [rows EXCEPT ![m] = Insert(m, to)]
  /\ UNCHANGED <<now, consumed>>

\* Mutant of MarkDelivered: whatever the state of the row.
MarkDeliveredAnyhow(m, s) ==
  /\ rows[m][s].state # "absent"
  /\ SetRow(m, s, [rows[m][s] EXCEPT !.state = "delivered"])
  /\ UNCHANGED <<now, messages, consumed>>

MarkDelivered(m, s) ==
  /\ rows[m][s].state = "pending"
  /\ SetRow(m, s, [rows[m][s] EXCEPT !.state = "delivered"])
  /\ UNCHANGED <<now, messages, consumed>>

MarkRead(m, s) ==
  /\ rows[m][s].state \in {"pending", "delivered", "read"}
  /\ SetRow(m, s, [rows[m][s] EXCEPT !.state = "read", !.read_at = ReadTime(rows[m][s])])
  /\ consumed' = consumed \cup {<<m, s>>}
  /\ UNCHANGED <<now, messages>>

\* Mutant of MarkDisposition: deciding is not reading.
MarkDispositionUntimed(m, s, d) ==
  LET row == rows[m][s]
  IN  /\ row.state # "absent"
      /\ SetRow(m, s, [row EXCEPT !.state = IF Outstanding(row) THEN "read" ELSE @,
                                   !.disposition = d])
      /\ consumed' = consumed \cup {<<m, s>>}
      /\ UNCHANGED <<now, messages>>

\* By the agent, or by the bus for a reply whose text is a known answer.
MarkDisposition(m, s, d) ==
  LET row == rows[m][s]
  IN  /\ row.state # "absent"
      /\ SetRow(m, s, [row EXCEPT !.state = IF Outstanding(row) THEN "read" ELSE @,
                                   !.read_at = ReadTime(row), !.disposition = d])
      /\ consumed' = consumed \cup {<<m, s>>}
      /\ UNCHANGED <<now, messages>>

MarkTransportFailed(m, s) ==
  /\ TransportRetries
  /\ rows[m][s].state # "absent" /\ rows[m][s].disposition = "none"
  /\ rows[m][s].attempts <= MaxAttempts  \* bound on the counter
  /\ SetRow(m, s, [rows[m][s] EXCEPT !.state = "failed", !.attempts = @ + 1])
  /\ UNCHANGED <<now, messages, consumed>>

\* Mutant of RetryTransportFailures: what the agent decided does not count.
RetryDecided ==
  /\ rows' = [m \in Messages |-> [s \in Sessions |->
       IF rows[m][s].state = "failed" /\ rows[m][s].attempts < MaxAttempts
       THEN [rows[m][s] EXCEPT !.state = "pending"] ELSE rows[m][s]]]
  /\ UNCHANGED <<now, messages, consumed>>

RetryTransportFailures ==
  LET retried(row) == /\ row.state = "failed" /\ row.disposition = "none"
                      /\ row.attempts < MaxAttempts
  IN  /\ \E m \in Messages, s \in Sessions : retried(rows[m][s])
      /\ rows' = [m \in Messages |-> [s \in Sessions |->
           IF retried(rows[m][s]) THEN [rows[m][s] EXCEPT !.state = "pending"]
           ELSE rows[m][s]]]
      /\ UNCHANGED <<now, messages, consumed>>

\* A session of the name connects: directs left unread by its namesakes.
InDirectWindow(m) ==
  \/ DirectWindow = 0 \/ messages[m].kind = "queued"
  \/ messages[m].created_at >= now - DirectWindow

\* Mutant of Reattachable: a stale row counts although another was read.
ReattachableStale(m, s) ==
  /\ messages[m].kind \in {"direct", "queued"}
  /\ InDirectWindow(m)
  /\ \E t \in Sessions \ {s} : Outstanding(rows[m][t])

Reattachable(m, s) ==
  /\ messages[m].kind \in {"direct", "queued"}
  /\ InDirectWindow(m)
  /\ \E t \in Sessions \ {s} : Outstanding(rows[m][t])
  /\ \A t \in Sessions : rows[m][t].state # "read"

CatchUpDirect(s) ==
  /\ rows' = [m \in Messages |->
       IF Reattachable(m, s) THEN Insert(m, {s}) ELSE rows[m]]
  /\ UNCHANGED <<now, messages, consumed>>

\* A session connects: broadcasts of the window it has no row of.
Missed(m, s) ==
  /\ messages[m].kind = "broadcast" /\ Senders[m] # s
  /\ messages[m].created_at >= now - BroadcastWindow

CatchUpBroadcasts(s) ==
  /\ BroadcastWindow > 0
  /\ rows' = [m \in Messages |->
       IF Missed(m, s) THEN Insert(m, {s}) ELSE rows[m]]
  /\ UNCHANGED <<now, messages, consumed>>

\* Mutant of Settled: any row that was once read.
SettledByTime(row) ==
  row.state # "absent" /\ row.read_at # 0 /\ row.read_at < now - Retention

\* Rows that are settled for longer than the retention, then messages that
\* expired that long ago and that nobody has left to drain.
Settled(row) ==
  /\ row.state # "absent"
  /\ row.disposition \in {"replied", "skipped", "failed"} \/ row.state = "read"
  /\ row.read_at # 0 /\ row.read_at < now - Retention

\* Mutant of Purge: outstanding rows do not hold their message back.
PurgeLapsed ==
  /\ Retention > 0
  /\ rows' = [m \in Messages |-> [s \in Sessions |->
       IF Settled(rows[m][s]) THEN NoRow ELSE rows[m][s]]]
  /\ messages' = [m \in Messages |->
       IF messages[m].expires_at # 0 /\ messages[m].expires_at < now - Retention
       THEN [messages[m] EXCEPT !.kind = "purged"] ELSE messages[m]]
  /\ UNCHANGED <<now, consumed>>

Purge ==
  LET kept == [m \in Messages |-> [s \in Sessions |->
                 IF Settled(rows[m][s]) THEN NoRow ELSE rows[m][s]]]
      lapsed(m) == /\ messages[m].expires_at # 0
                   /\ messages[m].expires_at < now - Retention
                   /\ \A s \in Sessions : ~Outstanding(kept[m][s])
  IN  /\ Retention > 0
      /\ rows' = kept
      /\ messages' = [m \in Messages |->
           IF lapsed(m) THEN [messages[m] EXCEPT !.kind = "purged"] ELSE messages[m]]
      /\ UNCHANGED <<now, consumed>>

Next ==
  \/ Tick
  \/ \E m \in Messages, e \in {0, now} :
       \/ \E s \in Sessions \ {Senders[m]}, kind \in {"direct", "queued"} :
            StoreMessage(m, kind, {s}, e)
       \/ \E S \in SUBSET (Sessions \ {Senders[m]}) : StoreMessage(m, "broadcast", S, e)
  \/ \E m \in Messages, s \in Sessions :
       \/ MarkDelivered(m, s) \/ MarkRead(m, s) \/ MarkTransportFailed(m, s)
       \/ \E d \in Dispositions : MarkDisposition(m, s, d)
  \/ \E s \in Sessions : CatchUpDirect(s) \/ CatchUpBroadcasts(s)
  \/ RetryTransportFailures
  \/ Purge

Spec == Init /\ [][Next]_vars

-----------------------------------------------------------------------------
(* Properties.                                                             *)

\* A row waits for its agent only while nothing was decided about it: no
\* order of marks, replies, retries and purges hands a settled message out
\* again on the next drain.  (drain_pending, mark_disposition)
OutstandingUndecided ==
  \A m \in Messages, s \in Sessions :
    Outstanding(rows[m][s]) => rows[m][s].disposition = "none"

\* purge_expired relies on "read_at, always set on those paths": a row that
\* is read or decided has a time of reading, or it could never be purged.
SettledHasReadTime ==
  \A m \in Messages, s \in Sessions :
    rows[m][s].state = "read" \/ rows[m][s].disposition # "none"
      => /\ rows[m][s].read_at # 0
         /\ messages[m].created_at <= rows[m][s].read_at

\* A message that is read stays read.  A direct one session of the name has
\* read is attached to no other, and a broadcast is not handed again to the
\* session that read it, even after the purge deleted the row that says so.
\* (catch_up_direct, catch_up_broadcasts, purge_expired)
Resurrects(m) ==
  \/ /\ messages[m].kind \in {"direct", "queued"}
     /\ \E t \in Sessions : <<m, t>> \in consumed
     /\ \E s \in Sessions : rows[m][s].state = "absent" /\ rows'[m][s].state # "absent"
  \/ \E s \in Sessions :
       <<m, s>> \in consumed /\ ~Outstanding(rows[m][s]) /\ Outstanding(rows'[m][s])

ReadStaysRead ==
  [][\A m \in Messages : messages[m].kind # "queued" => ~Resurrects(m)]_vars

\* Only a settled row is ever deleted, and no row outlives its message while
\* somebody still has to drain it.  (purge_expired)
OutstandingKept ==
  [][\A m \in Messages, s \in Sessions :
       Outstanding(rows[m][s]) => rows'[m][s].state # "absent"]_vars

OutstandingHasMessage ==
  \A m \in Messages, s \in Sessions :
    Outstanding(rows[m][s]) => messages[m].kind \notin {"unused", "purged"}

\* The kinds of message whose reading outlives the row that recorded it: a row
\* is deleted only once its message is too old to be attached again.
Remembered ==
  {k \in {"direct", "queued", "broadcast"} :
     \/ Retention = 0
     \/ k = "direct" /\ DirectWindow \in 1..Retention
     \/ k = "broadcast" /\ BroadcastWindow <= Retention}

\* The ledger keeps the promise of DeliveryContract through every order of
\* marks, decisions, catch-ups and purges.  What a purged row said is told by
\* the history `consumed`: its session has read the message.
\* (mark_delivered, mark_read, mark_disposition, catch_up_direct,
\* catch_up_broadcasts, purge_expired)
Deliveries == INSTANCE DeliveryContract WITH
  kind <- [m \in Messages |-> messages[m].kind],
  state <- [m \in Messages |-> [s \in Sessions |->
             IF rows[m][s].state = "absent" /\ <<m, s>> \in consumed
             THEN "read" ELSE rows[m][s].state]]

DeliveryPromise == Deliveries!Spec
=============================================================================
