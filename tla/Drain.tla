------------------------------- MODULE Drain -------------------------------
(***************************************************************************)
(* Reading the messages of one session: the bus writes each message to     *)
(* messages.log and then to a row of the database, drain.py prints pending *)
(* rows or, when there are none, the log from the session's cursor, and    *)
(* loop.py repeats it.                                                     *)
(*                                                                         *)
(* Messages are numbered in the order in which the bus logs them, and the  *)
(* log's unit is one message: the current file holds base + 1 .. sent, and *)
(* a cursor or a position counts messages of the current file.  Left out:  *)
(* what is live (the socket's pushes), --peek, which changes nothing, log  *)
(* lines lost to a disk error, and dispositions.                           *)
(***************************************************************************)
EXTENDS Naturals, FiniteSets

CONSTANTS MaxMsgs,  \* bound: how many messages the bus takes
          Mine,     \* those that are for this session
          Drains,   \* drain processes
          Looping,  \* those that loop.py runs
          Hosts     \* the conditions under which they run

(* host.sqlite: the database is on; host.drains: the drains that run;      *)
(* host.calm: it is one drain, which nothing kills; host.limit: --limit;   *)
(* host.size: the log's size past which it is rotated; host.faults: a      *)
(* bound on what goes wrong.                                               *)
Host == [sqlite: BOOLEAN, drains: SUBSET Drains, calm: BOOLEAN,
         limit: Nat \ {0}, size: Nat, faults: Nat]

ASSUME DrainAssumption ==
    /\ MaxMsgs \in Nat
    /\ Mine \subseteq 1..MaxMsgs
    /\ Looping \subseteq Drains
    /\ Hosts \subseteq Host
    /\ \A h \in Hosts : h.calm => \A d, e \in h.drains : d = e

VARIABLES
    host,     \* the conditions, and the bounds that are left
    sent,     \* the last message in the log
    base,     \* the last one before the current log file
    storing,  \* the message the bus has logged and not yet stored, or 0
    row,      \* each message's row for this session
    cursor,   \* the session's cursor file
    step,     \* where each drain is
    batch,    \* the rows it selected and has not yet marked
    pos,      \* its position in the log
    printed,  \* how often each message was printed, up to 2
    skipped,  \* history: the last message logged before a reconnection
    jumped,   \* history: unprinted messages without a row that a cursor jumped over
    early     \* history: messages read from the log before their row

vars == <<host, sent, base, storing, row, cursor, step, batch, pos, printed,
          skipped, jumped, early>>
bus == <<sent, base, storing, row>>

Msgs == 1..MaxMsgs
Steps == {"idle", "printing", "marking", "jumping", "landing", "opening", "reading",
          "saving"}

(* Every variable has its type; the rotated part is a part of what was     *)
(* sent, and a drain that prints rows has some.                            *)
TypeOK ==
    /\ host \in Host
    /\ sent \in 0..MaxMsgs /\ base \in 0..sent /\ storing \in {0, sent}
    /\ row \in [Msgs -> {"none", "pending", "delivered"}]
    /\ cursor \in 0..MaxMsgs
    /\ step \in [Drains -> Steps]
    /\ batch \in [Drains -> SUBSET Mine]
    /\ pos \in [Drains -> 0..MaxMsgs]
    /\ printed \in [Msgs -> 0..2]
    /\ skipped \in 0..sent
    /\ jumped \in SUBSET Mine /\ early \in SUBSET Mine
    /\ \A d \in Drains : step[d] \in {"printing", "marking"} <=> batch[d] # {}

Init ==
    /\ host \in Hosts
    /\ sent = 0 /\ base = 0 /\ storing = 0
    /\ row = [m \in Msgs |-> "none"]
    /\ cursor = 0
    /\ step = [d \in Drains |-> "idle"]
    /\ batch = [d \in Drains |-> {}]
    /\ pos = [d \in Drains |-> 0]
    /\ printed = [m \in Msgs |-> 0]
    /\ skipped = 0
    /\ jumped = {} /\ early = {}

Size == sent - base
Effective(p) == IF p > Size THEN 0 ELSE p

Fault == host.faults > 0 /\ host' = [host EXCEPT !.faults = @ - 1]

----------------------------------------------------------------------------
(* The bus, in one thread: _log_message, then _persist_message.            *)

Log ==
    /\ storing = 0 /\ sent < MaxMsgs
    /\ sent' = sent + 1
    /\ base' = IF Size > host.size THEN sent ELSE base
    /\ storing' = IF host.sqlite THEN sent' ELSE 0
    /\ UNCHANGED <<host, row, cursor, step, batch, pos, printed, skipped, jumped, early>>

(* A message that a cursor jumped over and that is then stored has its row.*)
Store ==
    /\ storing > 0
    /\ row' = IF storing \in Mine THEN [row EXCEPT ![storing] = "pending"] ELSE row
    /\ storing' = 0
    /\ jumped' = jumped \ {storing}
    /\ UNCHANGED <<host, sent, base, cursor, step, batch, pos, printed, skipped, early>>

(* The insert fails, or the bus dies before it.                            *)
StoreFails ==
    /\ storing > 0
    /\ Fault
    /\ storing' = 0
    /\ UNCHANGED <<sent, base, row, cursor, step, batch, pos, printed, skipped, jumped, early>>

(* The listener connects again: _init_drain_cursor.                        *)
Reconnect ==
    /\ Fault
    /\ cursor' = Size
    /\ skipped' = sent
    /\ UNCHANGED <<bus, step, batch, pos, printed, jumped, early>>

----------------------------------------------------------------------------
(* A drain.                                                                *)

Moves(d, from, to) ==
    /\ step[d] = from
    /\ step' = [step EXCEPT ![d] = to]
    /\ UNCHANGED <<host, sent, base, storing, skipped>>

Once(m) == [printed EXCEPT ![m] = IF @ = 2 THEN 2 ELSE @ + 1]
First(d) == {m \in batch[d] : \A k \in batch[d] : m <= k}

Pending == {m \in Mine : row[m] = "pending"}

\* Mutant: drain_pending with its default, delivered rows included.
SelectedAll ==
    LET found == {m \in Mine : row[m] \in {"pending", "delivered"}}
    IN  {m \in found : Cardinality({k \in found : k < m}) < host.limit}

(* drain_pending: the oldest pending rows, as many as the limit allows.    *)
Selected ==
    {m \in Pending : Cardinality({k \in Pending : k < m}) < host.limit}

Begin(d) ==
    /\ d \in host.drains
    /\ Moves(d, "idle", IF host.sqlite /\ Selected # {} THEN "printing" ELSE "opening")
    /\ batch' = [batch EXCEPT ![d] = IF host.sqlite THEN Selected ELSE {}]
    /\ UNCHANGED <<row, cursor, pos, printed, jumped, early>>

\* Mutant: a row is marked first and printed afterwards.
MarkFirst(d) ==
    /\ Moves(d, "printing", "marking")
    /\ \E m \in First(d) : row' = [row EXCEPT ![m] = "delivered"]
    /\ UNCHANGED <<cursor, batch, pos, printed, jumped, early>>

PrintRow(d) ==
    /\ Moves(d, "printing", "marking")
    /\ \E m \in First(d) : printed' = Once(m)
    /\ UNCHANGED <<row, cursor, batch, pos, jumped, early>>

\* Mutant: the cursor stays when rows were printed.
MarkAndStay(d) ==
    /\ Moves(d, "marking", IF batch[d] = First(d) THEN "idle" ELSE "printing")
    /\ \E m \in First(d) : row' = [row EXCEPT ![m] = "delivered"]
    /\ batch' = [batch EXCEPT ![d] = @ \ First(d)]
    /\ UNCHANGED <<cursor, pos, printed, jumped, early>>

\* Mutant: one row is printed and marked, and the rest forgotten.
MarkAndBreak(d) ==
    /\ Moves(d, "marking", "jumping")
    /\ \E m \in First(d) : row' = [row EXCEPT ![m] = "delivered"]
    /\ batch' = [batch EXCEPT ![d] = @ \ First(d)]
    /\ UNCHANGED <<cursor, pos, printed, jumped, early>>

(* mark_delivered: one commit for each row.                                *)
Mark(d) ==
    /\ Moves(d, "marking", IF batch[d] = First(d) THEN "jumping" ELSE "printing")
    /\ \E m \in First(d) : row' = [row EXCEPT ![m] = "delivered"]
    /\ batch' = [batch EXCEPT ![d] = @ \ First(d)]
    /\ UNCHANGED <<cursor, pos, printed, jumped, early>>

(* Rows were printed: the cursor is to go to the end of the log.           *)
Jump(d) ==
    /\ Moves(d, "jumping", "landing")
    /\ pos' = [pos EXCEPT ![d] = Size]
    /\ UNCHANGED <<row, cursor, batch, printed, jumped, early>>

Open(d) ==
    /\ Moves(d, "opening", "reading")
    /\ pos' = [pos EXCEPT ![d] = Effective(cursor)]
    /\ UNCHANGED <<row, cursor, batch, printed, jumped, early>>

Between(p, q) == {m \in Mine : base + p < m /\ m <= base + q}

(* Where a reader at p stops: at the line that reaches the limit, else at  *)
(* the end.                                                                *)
Ends(p) ==
    {q \in p..Size :
        /\ Cardinality(Between(p, q)) <= host.limit
        /\ q = Size \/ (base + q \in Mine /\ Cardinality(Between(p, q)) = host.limit)}

\* Mutant: the position read is the end of the log, whatever the limit.
ReadToEnd(d) ==
    /\ Moves(d, "reading", "saving")
    /\ \E q \in Ends(pos[d]) :
          printed' = [m \in Msgs |-> IF m \in Between(pos[d], q) THEN Once(m)[m] ELSE printed[m]]
    /\ pos' = [pos EXCEPT ![d] = Size]
    /\ UNCHANGED <<row, cursor, batch, jumped, early>>

(* The lines the file has when the reader reaches them, read at one time:  *)
(* lines that come later would only make the reading longer, and a rotation*)
(* leaves the open file as it is.                                          *)
Read(d) ==
    /\ Moves(d, "reading", "saving")
    /\ \E q \in IF pos[d] > Size THEN {pos[d]} ELSE Ends(pos[d]) :
          LET lines == Between(pos[d], q)
          IN  /\ printed' = [m \in Msgs |-> IF m \in lines THEN Once(m)[m] ELSE printed[m]]
              /\ pos' = [pos EXCEPT ![d] = q]
              /\ early' = early \cup {m \in lines : m = storing \/ row[m] = "pending"}
    /\ UNCHANGED <<row, cursor, batch, jumped>>

(* The unprinted messages without a row that a cursor set to p jumps over. *)
OnlyLogged(p) ==
    {m \in Mine : m <= sent /\ m <= base + p /\ row[m] = "none" /\ printed[m] = 0}

(* _write_cursor, with what was read or with the end that was looked up.   *)
Save(d) ==
    \E from \in {"saving", "landing"} :
        /\ Moves(d, from, "idle")
        /\ cursor' = pos[d]
        /\ pos' = [pos EXCEPT ![d] = 0]
        /\ jumped' = IF from = "landing" THEN jumped \cup OnlyLogged(pos[d]) ELSE jumped
        /\ UNCHANGED <<row, batch, printed, early>>

(* A drain is killed, or an error of the database ends it.                 *)
Kill(d) ==
    /\ step[d] # "idle" /\ ~host.calm
    /\ Fault
    /\ step' = [step EXCEPT ![d] = "idle"]
    /\ batch' = [batch EXCEPT ![d] = {}]
    /\ pos' = [pos EXCEPT ![d] = 0]
    /\ UNCHANGED <<bus, cursor, printed, skipped, jumped, early>>

----------------------------------------------------------------------------
Works(d) ==
    Begin(d) \/ PrintRow(d) \/ Mark(d) \/ Jump(d) \/ Open(d) \/ Read(d) \/ Save(d)

Next ==
    \/ Log \/ Store \/ StoreFails \/ Reconnect
    \/ \E d \in Drains : Works(d) \/ Kill(d)

Spec == Init /\ [][Next]_vars

(* The bus goes on with what it began, and loop.py drains again and again. *)
FairSpec == Spec /\ WF_vars(Store) /\ \A d \in Looping : WF_vars(Works(d))

----------------------------------------------------------------------------
(* A later drain still finds the message: a row, the bus about to store    *)
(* one, or the log from the cursor on.                                     *)
InReach(m) == row[m] = "pending" \/ storing = m \/ base + Effective(cursor) < m

(* A message for this session is printed or still in reach of a drain,     *)
(* whatever drains overlap, are killed or race with the bus.  A message    *)
(* without a row has three ways out: a cursor jumped over it because others*)
(* had rows, the listener connected again, the log was rotated.            *)
NothingLost ==
    \A m \in Mine : m <= sent =>
        \/ printed[m] > 0 \/ InReach(m)
        \/ row[m] = "none" /\ (m \in jumped \/ m <= skipped \/ base > 0)

(* A drain that runs alone and is never killed prints a message twice only    *)
(* if it read it from the log before the bus had stored its row.           *)
ReadOnce ==
    host.calm => \A m \in Mine : printed[m] = 2 => m \in early

(* Where a loop runs every message is printed in the end unless it got out *)
(* of reach, however the limit divides the work.                           *)
Drained ==
    \A m \in Mine :
        (m <= sent /\ Looping \subseteq host.drains) ~> (printed[m] > 0 \/ ~InReach(m))
=============================================================================
