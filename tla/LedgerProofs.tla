---------------------------- MODULE LedgerProofs ----------------------------
(***************************************************************************)
(* Theorems about Ledger for any number of messages and sessions and any   *)
(* clock, and their proofs.                                                *)
(***************************************************************************)
EXTENDS Ledger, TLAPS

LEMMA RowTyped ==
  ASSUME TypeOK, NEW m \in Messages, NEW s \in Sessions
  PROVE  rows[m][s] \in Row
BY DEF TypeOK

LEMMA ReadTimeTyped ==
  ASSUME TypeOK, NEW m \in Messages, NEW s \in Sessions
  PROVE  ReadTime(rows[m][s]) \in Nat
<1>1. rows[m][s].read_at \in Nat
  BY RowTyped DEF Row
<1> QED
  BY <1>1 DEF ReadTime, TypeOK

\* What Insert returns: rows that exist keep their value.
LEMMA InsertTyped ==
  ASSUME NEW m \in Messages, NEW S, TypeOK
  PROVE  Insert(m, S) \in [Sessions -> Row]
BY DEF Insert, TypeOK, Row, Attached, NoRow

\* What SetRow does: one row takes the value, the others keep theirs.
LEMMA RowSet ==
  ASSUME TypeOK
  PROVE  \A m \in Messages, s \in Sessions : \A row \in Row :
           LET after == [rows EXCEPT ![m][s] = row]
           IN  /\ after \in [Messages -> [Sessions -> Row]]
               /\ \A k \in Messages, t \in Sessions :
                    after[k][t] = IF k = m /\ t = s THEN row ELSE rows[k][t]
<1> SUFFICES ASSUME NEW m \in Messages, NEW s \in Sessions, NEW row \in Row
             PROVE  LET after == [rows EXCEPT ![m][s] = row]
                    IN  /\ after \in [Messages -> [Sessions -> Row]]
                        /\ \A k \in Messages, t \in Sessions :
                             after[k][t] = IF k = m /\ t = s THEN row ELSE rows[k][t]
  OBVIOUS
<1> DEFINE ofM == [rows[m] EXCEPT ![s] = row]
<1>1. rows \in [Messages -> [Sessions -> Row]] /\ rows[m] \in [Sessions -> Row]
  BY DEF TypeOK
<1>2. ofM \in [Sessions -> Row] /\ \A t \in Sessions : ofM[t] = IF t = s THEN row ELSE rows[m][t]
  BY <1>1
<1>3. [rows EXCEPT ![m][s] = row] = [rows EXCEPT ![m] = ofM]
  BY <1>1
<1> HIDE DEF ofM
<1> QED
  BY <1>1, <1>2, <1>3

LEMMA TypeCorrect == Spec => []TypeOK
<1>1. Init => TypeOK
  BY DEF Init, TypeOK, Message, Row, NoRow
<1>2. TypeOK /\ [Next]_vars => TypeOK'
  <2> SUFFICES ASSUME TypeOK, [Next]_vars PROVE TypeOK'
    OBVIOUS
  <2> USE LedgerAssumption
  <2>1. CASE Tick
    BY <2>1 DEF Tick, TypeOK
  <2>2. ASSUME NEW m \in Messages, NEW e \in {0, now}, NEW S,
               NEW kind \in {"direct", "queued", "broadcast"}, StoreMessage(m, kind, S, e)
        PROVE  TypeOK'
    BY <2>2, InsertTyped DEF StoreMessage, TypeOK, Message
  <2>3. ASSUME NEW m \in Messages, NEW s \in Sessions, MarkDelivered(m, s)
        PROVE  TypeOK'
    <3>1. [rows[m][s] EXCEPT !.state = "delivered"] \in Row
      BY RowTyped DEF Row
    <3>2. rows' \in [Messages -> [Sessions -> Row]]
      BY <3>1, <2>3, RowSet DEF SetRow, MarkDelivered
    <3> QED
      BY <3>2, <2>3 DEF MarkDelivered, TypeOK
  <2>4. ASSUME NEW m \in Messages, NEW s \in Sessions, MarkRead(m, s)
        PROVE  TypeOK'
    <3>1. [rows[m][s] EXCEPT !.state = "read", !.read_at = ReadTime(rows[m][s])] \in Row
      BY RowTyped, ReadTimeTyped DEF Row
    <3>2. rows' \in [Messages -> [Sessions -> Row]]
      BY <3>1, <2>4, RowSet DEF SetRow, MarkRead
    <3> QED
      BY <3>2, <2>4 DEF MarkRead, TypeOK
  <2>5. ASSUME NEW m \in Messages, NEW s \in Sessions, MarkTransportFailed(m, s)
        PROVE  TypeOK'
    <3>1. [rows[m][s] EXCEPT !.state = "failed", !.attempts = @ + 1] \in Row
      <4>1. \A row \in Row, n \in Nat : [row EXCEPT !.state = "failed", !.attempts = n] \in Row
        BY DEF Row
      <4>2. rows[m][s].attempts + 1 \in Nat
        BY RowTyped DEF Row
      <4> QED
        BY <4>1, <4>2, RowTyped
    <3>2. rows' \in [Messages -> [Sessions -> Row]]
      BY <3>1, <2>5, RowSet DEF SetRow, MarkTransportFailed
    <3> QED
      BY <3>2, <2>5 DEF MarkTransportFailed, TypeOK
  <2>6. ASSUME NEW m \in Messages, NEW s \in Sessions, NEW d \in Dispositions,
               MarkDisposition(m, s, d)
        PROVE  TypeOK'
    <3> DEFINE row == rows[m][s]
               new == [row EXCEPT !.state = IF Outstanding(row) THEN "read" ELSE @,
                                  !.read_at = ReadTime(row), !.disposition = d]
    <3>1. new \in Row
      BY RowTyped, ReadTimeTyped DEF Row
    <3>2. SetRow(m, s, new) /\ UNCHANGED <<now, messages>>
          /\ consumed' = consumed \cup {<<m, s>>}
      BY <2>6 DEF MarkDisposition
    <3> HIDE DEF new
    <3>3. rows' \in [Messages -> [Sessions -> Row]]
      BY <3>1, <3>2, RowSet DEF SetRow
    <3> QED
      BY <3>2, <3>3 DEF TypeOK
  <2>7. ASSUME NEW s \in Sessions, CatchUpDirect(s)
        PROVE  TypeOK'
    BY <2>7, InsertTyped DEF CatchUpDirect, TypeOK
  <2>8. ASSUME NEW s \in Sessions, CatchUpBroadcasts(s)
        PROVE  TypeOK'
    BY <2>8, InsertTyped DEF CatchUpBroadcasts, TypeOK
  <2>9. CASE RetryTransportFailures
    <3>1. \A row \in Row : [row EXCEPT !.state = "pending"] \in Row
      BY DEF Row
    <3>2. rows' \in [Messages -> [Sessions -> Row]]
      BY <3>1, <2>9, RowTyped DEF RetryTransportFailures
    <3> QED
      BY <3>2, <2>9 DEF RetryTransportFailures, TypeOK
  <2>10. CASE Purge
    <3>1. rows' \in [Messages -> [Sessions -> Row]]
      <4>1. NoRow \in Row
        BY DEF NoRow, Row
      <4> QED
        BY <4>1, <2>10, RowTyped DEF Purge
    <3>2. messages' \in [Messages -> Message]
      <4>1. \A msg \in Message : [msg EXCEPT !.kind = "purged"] \in Message
        BY DEF Message
      <4> QED
        BY <4>1, <2>10 DEF Purge, TypeOK
    <3> QED
      BY <3>1, <3>2, <2>10 DEF Purge, TypeOK
  <2>11. CASE UNCHANGED vars
    BY <2>11 DEF vars, TypeOK
  <2> QED
    BY <2>1, <2>2, <2>3, <2>4, <2>5, <2>6, <2>7, <2>8, <2>9, <2>10, <2>11 DEF Next
<1> QED
  BY <1>1, <1>2, PTL DEF Spec

\* Every row and message keeps its shape under every function of storage.py.
THEOREM TypeInvariant == Spec => []TypeOK
BY TypeCorrect

-----------------------------------------------------------------------------
(* What one step may do to one row, to one message and to the clock.       *)

Attaches(m, s) ==
  /\ rows[m][s].state = "absent" /\ rows'[m][s] = Attached
  /\ \/ messages[m].kind = "unused" /\ messages'[m].kind # "unused"
     \/ Reattachable(m, s)
     \/ Missed(m, s)

Delivers(m, s) ==
  /\ rows[m][s].state = "pending"
  /\ rows'[m][s] = [rows[m][s] EXCEPT !.state = "delivered"]

Reads(m, s) ==
  /\ rows[m][s].state \in {"pending", "delivered", "read"}
  /\ rows'[m][s] = [rows[m][s] EXCEPT !.state = "read", !.read_at = ReadTime(rows[m][s])]

Decides(m, s) ==
  /\ rows[m][s].state # "absent"
  /\ \E d \in Dispositions :
       rows'[m][s] = [rows[m][s] EXCEPT
         !.state = IF Outstanding(rows[m][s]) THEN "read" ELSE @,
         !.read_at = ReadTime(rows[m][s]), !.disposition = d]

Fails(m, s) ==
  /\ TransportRetries
  /\ rows[m][s].state # "absent" /\ rows[m][s].disposition = "none"
  /\ rows'[m][s] = [rows[m][s] EXCEPT !.state = "failed", !.attempts = @ + 1]

Retries(m, s) ==
  /\ rows[m][s].state = "failed" /\ rows[m][s].disposition = "none"
  /\ rows'[m][s] = [rows[m][s] EXCEPT !.state = "pending"]

Deletes(m, s) ==
  /\ Retention > 0
  /\ Settled(rows[m][s]) /\ rows'[m][s] = NoRow

RowStep(m, s) ==
  \/ rows'[m][s] = rows[m][s]
  \/ Attaches(m, s) \/ Delivers(m, s) \/ Reads(m, s) \/ Decides(m, s)
  \/ Fails(m, s) \/ Retries(m, s) \/ Deletes(m, s)

ConsumedStep(m, s) ==
  <<m, s>> \in consumed' => <<m, s>> \in consumed \/ Reads(m, s) \/ Decides(m, s)

MessageStep(m) ==
  \/ messages'[m] = messages[m]
  \/ /\ messages[m].kind = "unused" /\ messages'[m].created_at = now
     /\ messages'[m].kind \in {"direct", "queued", "broadcast"}
     /\ consumed' = consumed
  \/ /\ messages'[m] = [messages[m] EXCEPT !.kind = "purged"]
     /\ messages[m].expires_at # 0
     /\ \A s \in Sessions : ~Outstanding(rows'[m][s])

\* A row that SetRow edits, and every other row of the table.
LEMMA SetRowSteps ==
  ASSUME TypeOK
  PROVE  \A k \in Messages, t \in Sessions : \A row \in Row : SetRow(k, t, row) =>
           \A m \in Messages, s \in Sessions :
             rows'[m][s] = IF m = k /\ s = t THEN row ELSE rows[m][s]
BY RowSet DEF SetRow

\* Every step of the ledger is one of the steps above, for every row,
LEMMA RowCases ==
  ASSUME TypeOK, TypeOK', [Next]_vars, NEW m \in Messages, NEW s \in Sessions
  PROVE  RowStep(m, s) /\ ConsumedStep(m, s)
<1> USE LedgerAssumption
<1>1. CASE Tick
  BY <1>1 DEF Tick, RowStep, ConsumedStep
<1>2. ASSUME NEW k \in Messages, NEW e \in {0, now}, NEW S,
             NEW kind \in {"direct", "queued", "broadcast"}, StoreMessage(k, kind, S, e)
      PROVE  RowStep(m, s) /\ ConsumedStep(m, s)
  <2>1. RowStep(m, s)
    BY <1>2 DEF StoreMessage, Insert, RowStep, Attaches, TypeOK
  <2> QED
    BY <1>2, <2>1 DEF StoreMessage, ConsumedStep
<1>3. ASSUME NEW k \in Messages, NEW t \in Sessions, MarkDelivered(k, t)
      PROVE  RowStep(m, s) /\ ConsumedStep(m, s)
  <2>1. [rows[k][t] EXCEPT !.state = "delivered"] \in Row
    BY RowTyped DEF Row
  <2>2. RowStep(m, s)
    BY <1>3, <2>1, SetRowSteps DEF MarkDelivered, RowStep, Delivers
  <2> QED
    BY <1>3, <2>2 DEF MarkDelivered, ConsumedStep
<1>4. ASSUME NEW k \in Messages, NEW t \in Sessions, MarkRead(k, t)
      PROVE  RowStep(m, s) /\ ConsumedStep(m, s)
  <2> DEFINE new == [rows[k][t] EXCEPT !.state = "read", !.read_at = ReadTime(rows[k][t])]
  <2>1. new \in Row
    BY RowTyped, ReadTimeTyped DEF Row
  <2>2. SetRow(k, t, new)
    BY <1>4 DEF MarkRead
  <2> HIDE DEF new
  <2>3. rows'[m][s] = IF m = k /\ s = t THEN new ELSE rows[m][s]
    BY <2>1, <2>2, SetRowSteps
  <2> USE DEF new
  <2>4. m = k /\ s = t => Reads(m, s)
    BY <1>4, <2>3 DEF MarkRead, Reads
  <2> QED
    BY <1>4, <2>3, <2>4 DEF MarkRead, RowStep, ConsumedStep
<1>5. ASSUME NEW k \in Messages, NEW t \in Sessions, MarkTransportFailed(k, t)
      PROVE  RowStep(m, s) /\ ConsumedStep(m, s)
  <2> DEFINE new == [rows[k][t] EXCEPT !.state = "failed", !.attempts = @ + 1]
  <2>1. new \in Row
    <3>1. \A row \in Row, n \in Nat : [row EXCEPT !.state = "failed", !.attempts = n] \in Row
      BY DEF Row
    <3>2. rows[k][t].attempts + 1 \in Nat
      BY RowTyped DEF Row
    <3> QED
      BY <3>1, <3>2, RowTyped
  <2>2. SetRow(k, t, new)
    BY <1>5 DEF MarkTransportFailed
  <2> HIDE DEF new
  <2>3. rows'[m][s] = IF m = k /\ s = t THEN new ELSE rows[m][s]
    BY <2>1, <2>2, SetRowSteps
  <2> USE DEF new
  <2>4. m = k /\ s = t => Fails(m, s)
    BY <1>5, <2>3 DEF MarkTransportFailed, Fails
  <2> QED
    BY <1>5, <2>3, <2>4 DEF MarkTransportFailed, RowStep, ConsumedStep
<1>6. ASSUME NEW k \in Messages, NEW t \in Sessions, NEW d \in Dispositions,
             MarkDisposition(k, t, d)
      PROVE  RowStep(m, s) /\ ConsumedStep(m, s)
  <2> DEFINE row == rows[k][t]
             new == [row EXCEPT !.state = IF Outstanding(row) THEN "read" ELSE @,
                                !.read_at = ReadTime(row), !.disposition = d]
  <2>1. new \in Row
    BY RowTyped, ReadTimeTyped DEF Row
  <2>2. SetRow(k, t, new) /\ row.state # "absent" /\ UNCHANGED <<now, messages>>
        /\ consumed' = consumed \cup {<<k, t>>}
    BY <1>6 DEF MarkDisposition
  <2> HIDE DEF new
  <2>3. rows'[m][s] = IF m = k /\ s = t THEN new ELSE rows[m][s]
    BY <2>1, <2>2, SetRowSteps
  <2> USE DEF new
  <2>4. m = k /\ s = t => Decides(m, s)
    BY <2>2, <2>3 DEF Decides
  <2> QED
    BY <2>2, <2>3, <2>4 DEF RowStep, ConsumedStep
<1>7. ASSUME NEW t \in Sessions, CatchUpDirect(t)
      PROVE  RowStep(m, s) /\ ConsumedStep(m, s)
  <2>1. RowStep(m, s)
    BY <1>7 DEF CatchUpDirect, Insert, RowStep, Attaches, TypeOK
  <2> QED
    BY <1>7, <2>1 DEF CatchUpDirect, ConsumedStep
<1>8. ASSUME NEW t \in Sessions, CatchUpBroadcasts(t)
      PROVE  RowStep(m, s) /\ ConsumedStep(m, s)
  <2>1. RowStep(m, s)
    BY <1>8 DEF CatchUpBroadcasts, Insert, RowStep, Attaches, TypeOK
  <2> QED
    BY <1>8, <2>1 DEF CatchUpBroadcasts, ConsumedStep
<1>9. CASE RetryTransportFailures
  <2>1. RowStep(m, s)
    BY <1>9 DEF RetryTransportFailures, RowStep, Retries
  <2> QED
    BY <1>9, <2>1 DEF RetryTransportFailures, ConsumedStep
<1>10. CASE Purge
  <2>1. RowStep(m, s)
    BY <1>10 DEF Purge, RowStep, Deletes
  <2> QED
    BY <1>10, <2>1 DEF Purge, ConsumedStep
<1>11. CASE UNCHANGED vars
  BY <1>11 DEF vars, RowStep, ConsumedStep
<1> QED
  BY <1>1, <1>2, <1>3, <1>4, <1>5, <1>6, <1>7, <1>8, <1>9, <1>10, <1>11 DEF Next

\* for every message,
LEMMA MessageCases ==
  ASSUME TypeOK, TypeOK', [Next]_vars, NEW m \in Messages
  PROVE  MessageStep(m)
<1>1. CASE Tick \/ RetryTransportFailures \/ UNCHANGED vars
  BY <1>1 DEF Tick, RetryTransportFailures, vars, MessageStep
<1>2. ASSUME NEW k \in Messages, NEW e \in {0, now}, NEW S,
             NEW kind \in {"direct", "queued", "broadcast"}, StoreMessage(k, kind, S, e)
      PROVE  MessageStep(m)
  BY <1>2 DEF StoreMessage, MessageStep, TypeOK
<1>3. ASSUME NEW k \in Messages, NEW t \in Sessions,
             \/ MarkDelivered(k, t) \/ MarkRead(k, t) \/ MarkTransportFailed(k, t)
             \/ \E d \in Dispositions : MarkDisposition(k, t, d)
      PROVE  MessageStep(m)
  BY <1>3 DEF MarkDelivered, MarkRead, MarkTransportFailed, MarkDisposition, MessageStep
<1>4. ASSUME NEW t \in Sessions, CatchUpDirect(t) \/ CatchUpBroadcasts(t)
      PROVE  MessageStep(m)
  BY <1>4 DEF CatchUpDirect, CatchUpBroadcasts, MessageStep
<1>5. CASE Purge
  BY <1>5 DEF Purge, MessageStep
<1> QED
  BY <1>1, <1>2, <1>3, <1>4, <1>5 DEF Next

\* and for the clock.
LEMMA ClockCases ==
  ASSUME TypeOK, [Next]_vars
  PROVE  now \in Nat /\ now' \in {now, now + 1}
BY DEF TypeOK, Next, vars, Tick, StoreMessage, MarkDelivered, MarkRead, MarkDisposition,
       MarkTransportFailed, RetryTransportFailures, CatchUpDirect, CatchUpBroadcasts, Purge

-----------------------------------------------------------------------------
(* A row that waits for its agent is undecided.                            *)

\* The invariant is inductive as it stands: only a retry turns a row that is
\* not outstanding into one that is, and it requires that nothing was decided.
LEMMA UndecidedStep ==
  ASSUME TypeOK, TypeOK', [Next]_vars, OutstandingUndecided
  PROVE  OutstandingUndecided'
<1> SUFFICES ASSUME NEW m \in Messages, NEW s \in Sessions, Outstanding(rows'[m][s])
             PROVE  rows'[m][s].disposition = "none"
  BY DEF OutstandingUndecided, Outstanding
<1>1. RowStep(m, s)
  BY RowCases
<1>2. rows[m][s] \in Row /\ (Outstanding(rows[m][s]) => rows[m][s].disposition = "none")
  BY RowTyped DEF OutstandingUndecided
<1>3. CASE rows'[m][s] = rows[m][s]
  BY <1>2, <1>3 DEF Outstanding
<1>4. CASE Attaches(m, s)
  BY <1>4 DEF Attaches, Attached, NoRow
<1>5. CASE Delivers(m, s)
  BY <1>2, <1>5 DEF Delivers, Outstanding, Row
<1>6. CASE Reads(m, s)
  BY <1>2, <1>6 DEF Reads, Outstanding, Row
<1>7. CASE Decides(m, s)
  BY <1>2, <1>7 DEF Decides, Outstanding, Row
<1>8. CASE Fails(m, s)
  BY <1>2, <1>8 DEF Fails, Row
<1>9. CASE Retries(m, s)
  BY <1>2, <1>9 DEF Retries, Row
<1>10. CASE Deletes(m, s)
  BY <1>10 DEF Deletes, NoRow
<1> QED
  BY <1>1, <1>3, <1>4, <1>5, <1>6, <1>7, <1>8, <1>9, <1>10 DEF RowStep

\* drain_pending never hands out a message its agent has answered, skipped or
\* given up, whatever marks, retries, catch-ups and purges came in between.
THEOREM Undecided == Spec => []OutstandingUndecided
<1>1. Init => OutstandingUndecided
  BY DEF Init, OutstandingUndecided, Outstanding, NoRow
<1>2. TypeOK /\ TypeOK' /\ OutstandingUndecided /\ [Next]_vars => OutstandingUndecided'
  BY UndecidedStep
<1> QED
  BY <1>1, <1>2, TypeCorrect, PTL DEF Spec

\* purge_expired and every other function leave a row alone that an agent
\* still has to drain.
THEOREM Kept == Spec => OutstandingKept
<1>1. TypeOK /\ TypeOK' /\ OutstandingUndecided /\ [Next]_vars
        => [\A m \in Messages, s \in Sessions :
              Outstanding(rows[m][s]) => rows'[m][s].state # "absent"]_vars
  <2> SUFFICES ASSUME TypeOK, TypeOK', OutstandingUndecided, [Next]_vars,
                      NEW m \in Messages, NEW s \in Sessions, Outstanding(rows[m][s])
               PROVE  rows'[m][s].state # "absent"
    OBVIOUS
  <2>1. RowStep(m, s) /\ rows[m][s] \in Row
    BY RowCases, RowTyped
  <2>2. ~Deletes(m, s)
    BY DEF Deletes, Settled, OutstandingUndecided, Outstanding
  <2>3. CASE Delivers(m, s) \/ Retries(m, s) \/ Attaches(m, s)
    BY <2>1, <2>3 DEF Delivers, Retries, Attaches, Attached, NoRow, Row
  <2>4. CASE Reads(m, s)
    BY <2>1, <2>4 DEF Reads, Row
  <2>5. CASE Decides(m, s)
    BY <2>1, <2>5 DEF Decides, Row
  <2>6. CASE Fails(m, s)
    BY <2>1, <2>6 DEF Fails, Row
  <2> QED
    BY <2>1, <2>2, <2>3, <2>4, <2>5, <2>6 DEF RowStep, Outstanding
<1> QED
  BY <1>1, TypeCorrect, Undecided, PTL DEF Spec, OutstandingKept

-----------------------------------------------------------------------------
(* The times of a row.                                                     *)

UnusedHaveNoRows ==
  \A m \in Messages : messages[m].kind = "unused" =>
    /\ messages[m].expires_at = 0
    /\ \A s \in Sessions : rows[m][s] = NoRow /\ <<m, s>> \notin consumed

\* SettledHasReadTime is not inductive: a row that failed after it was read
\* keeps its old read_at, which the next mark keeps in turn.
TimesOrdered ==
  /\ now # 0
  /\ \A m \in Messages : messages[m].created_at <= now
  /\ \A m \in Messages, s \in Sessions :
       /\ rows[m][s].read_at # 0 => messages[m].created_at <= rows[m][s].read_at
       /\ rows[m][s].state = "read" \/ rows[m][s].disposition # "none"
            => rows[m][s].read_at # 0

TimesInv == TypeOK /\ UnusedHaveNoRows /\ TimesOrdered

LEMMA TimesInit == Init => TimesInv
BY DEF Init, TimesInv, TypeOK, UnusedHaveNoRows, TimesOrdered, Message, Row, NoRow

LEMMA UnusedStep ==
  ASSUME TimesInv, TypeOK', [Next]_vars
  PROVE  UnusedHaveNoRows'
<1> SUFFICES ASSUME NEW m \in Messages, messages'[m].kind = "unused"
             PROVE  /\ messages'[m].expires_at = 0
                    /\ \A s \in Sessions : rows'[m][s] = NoRow /\ <<m, s>> \notin consumed'
  BY DEF UnusedHaveNoRows
<1>1. MessageStep(m) /\ messages[m] \in Message
  BY MessageCases DEF TimesInv, TypeOK
<1>2. messages[m].kind = "unused" /\ messages'[m] = messages[m]
  BY <1>1 DEF MessageStep, Message
<1>3. ASSUME NEW s \in Sessions PROVE rows'[m][s] = NoRow /\ <<m, s>> \notin consumed'
  <2>1. RowStep(m, s) /\ ConsumedStep(m, s)
    BY RowCases DEF TimesInv
  <2>2. rows[m][s] = NoRow /\ <<m, s>> \notin consumed
    BY <1>2 DEF TimesInv, UnusedHaveNoRows
  <2>3. ~Attaches(m, s)
    BY <1>2 DEF Attaches, Reattachable, Missed
  <2> QED
    BY <2>1, <2>2, <2>3 DEF RowStep, ConsumedStep, NoRow, Delivers, Reads, Decides,
                            Fails, Retries, Deletes, Settled
<1> QED
  BY <1>2, <1>3 DEF TimesInv, UnusedHaveNoRows

LEMMA TimesStep ==
  ASSUME TimesInv, TypeOK', [Next]_vars
  PROVE  TimesOrdered'
<1> USE DEF TimesInv
<1>1. now \in Nat /\ now' \in Nat /\ now <= now' /\ now # 0 /\ now' # 0
  BY ClockCases DEF TimesOrdered
<1>2. ASSUME NEW m \in Messages
      PROVE  messages'[m].created_at <= now'
  <2>1. messages[m] \in Message /\ messages[m].created_at <= now
    BY DEF TypeOK, TimesOrdered
  <2>2. messages'[m].created_at \in {messages[m].created_at, now}
    BY <2>1, MessageCases DEF MessageStep, Message
  <2> QED
    BY <1>1, <2>1, <2>2 DEF Message
<1>3. ASSUME NEW m \in Messages, NEW s \in Sessions
      PROVE  /\ rows'[m][s].read_at # 0 => messages'[m].created_at <= rows'[m][s].read_at
             /\ rows'[m][s].state = "read" \/ rows'[m][s].disposition # "none"
                  => rows'[m][s].read_at # 0
  <2>1. RowStep(m, s) /\ MessageStep(m) /\ rows[m][s] \in Row /\ messages[m] \in Message
    BY RowCases, MessageCases, RowTyped DEF TypeOK
  <2>2. /\ messages[m].created_at <= now
        /\ rows[m][s].read_at # 0 => messages[m].created_at <= rows[m][s].read_at
        /\ rows[m][s].state = "read" \/ rows[m][s].disposition # "none"
             => rows[m][s].read_at # 0
    BY DEF TimesOrdered
  <2>3. CASE messages[m].kind = "unused"
    <3>1. rows[m][s] = NoRow
      BY <2>3 DEF UnusedHaveNoRows
    <3>2. rows'[m][s] \in {NoRow, Attached}
      BY <2>1, <3>1 DEF RowStep, NoRow, Attaches, Delivers, Reads, Decides, Fails,
                        Retries, Deletes
    <3> QED
      BY <3>2 DEF NoRow, Attached
  <2>4. CASE messages[m].kind # "unused"
    <3>1. messages'[m].created_at = messages[m].created_at
      BY <2>1, <2>4 DEF MessageStep, Message
    <3>2. CASE rows'[m][s] = rows[m][s]
      BY <2>2, <3>1, <3>2
    <3>3. CASE Attaches(m, s) \/ Deletes(m, s)
      BY <3>3 DEF Attaches, Deletes, NoRow, Attached
    <3>4. CASE Delivers(m, s) \/ Retries(m, s) \/ Fails(m, s)
      BY <2>1, <2>2, <3>1, <3>4 DEF Delivers, Retries, Fails, Row
    <3>5. CASE Reads(m, s) \/ Decides(m, s)
      <4>1. rows'[m][s].read_at = ReadTime(rows[m][s])
        BY <2>1, <3>5 DEF Reads, Decides, Row
      <4> QED
        BY <1>1, <2>1, <2>2, <3>1, <4>1 DEF ReadTime, Row, Message
    <3> QED
      BY <2>1, <3>2, <3>3, <3>4, <3>5 DEF RowStep
  <2> QED
    BY <2>3, <2>4
<1> QED
  BY <1>1, <1>2, <1>3 DEF TimesOrdered

LEMMA TimesInvariant == Spec => []TimesInv
<1>1. TimesInv /\ TypeOK' /\ [Next]_vars => TimesInv'
  BY UnusedStep, TimesStep DEF TimesInv
<1> QED
  BY <1>1, TimesInit, TypeCorrect, PTL DEF Spec

\* purge_expired's "read_at, always set on those paths": what is read or
\* decided carries the time of its first reading, never before the message
\* was stored, so it can be purged.
THEOREM ReadTimes == Spec => []SettledHasReadTime
<1>1. TimesInv => SettledHasReadTime
  BY DEF TimesInv, TimesOrdered, SettledHasReadTime
<1> QED
  BY <1>1, TimesInvariant, PTL

-----------------------------------------------------------------------------
(* What is read stays read.                                                *)

\* No host reports transport failures, and a message leaves the catch-up
\* windows before the purge forgets that it was read.
SafeSettings ==
  /\ ~TransportRetries
  /\ Retention = 0 \/ (DirectWindow \in 1..Retention /\ BroadcastWindow <= Retention)

LEMMA SafelyRemembered == SafeSettings => {"direct", "broadcast"} \subseteq Remembered
BY DEF SafeSettings, Remembered

NeverFailed == \A m \in Messages, s \in Sessions : rows[m][s].state # "failed"

\* Why a message that was read is not attached again: a row still says so, or
\* the message is too old.
DirectsSpent ==
  \A m \in Messages, t \in Sessions :
    messages[m].kind \in Remembered \ {"broadcast"} /\ <<m, t>> \in consumed
      => \/ \E s \in Sessions : rows[m][s].state = "read"
         \/ ~InDirectWindow(m)

BroadcastsSpent ==
  \A m \in Messages, s \in Sessions :
    messages[m].kind \in Remembered \cap {"broadcast"} /\ <<m, s>> \in consumed
      => \/ rows[m][s].state = "read"
         \/ messages[m].created_at < now - BroadcastWindow

SpentInv == TimesInv /\ NeverFailed /\ DirectsSpent /\ BroadcastsSpent

\* A row that is read stays so, unless it is deleted once its message is too
\* old to be attached.
LEMMA ReadRowStep ==
  ASSUME ~TransportRetries, SpentInv, TypeOK', [Next]_vars,
         NEW m \in Messages, NEW s \in Sessions, rows[m][s].state = "read",
         messages'[m] = messages[m], messages[m].kind \in Remembered
  PROVE  \/ rows'[m][s].state = "read"
         \/ IF messages[m].kind = "broadcast" THEN messages[m].created_at < now' - BroadcastWindow
            ELSE ~InDirectWindow(m)'
<1> USE DEF SpentInv, TimesInv
<1>1. RowStep(m, s) /\ rows[m][s] \in Row /\ messages[m] \in Message
  BY RowCases, RowTyped DEF TypeOK
<1>2. CASE Reads(m, s) \/ Decides(m, s)
  BY <1>1, <1>2 DEF Reads, Decides, Outstanding, Row
<1>3. CASE Deletes(m, s)
  <2>1. /\ rows[m][s].read_at \in Nat /\ rows[m][s].read_at < now - Retention
        /\ messages[m].created_at \in Nat /\ messages[m].created_at <= rows[m][s].read_at
        /\ \/ messages[m].kind = "direct" /\ DirectWindow \in 1..Retention
           \/ messages[m].kind = "broadcast" /\ BroadcastWindow <= Retention
    BY <1>1, <1>3, LedgerAssumption DEF Deletes, Settled, TimesOrdered, Remembered, Row, Message
  <2>2. /\ now \in Nat /\ now' \in Nat /\ now <= now'
        /\ DirectWindow \in Nat /\ BroadcastWindow \in Nat /\ Retention \in Nat
    BY ClockCases, LedgerAssumption
  <2>3. \/ /\ messages[m].kind = "direct" /\ DirectWindow # 0
           /\ messages[m].created_at < now' - DirectWindow
        \/ messages[m].kind = "broadcast" /\ messages[m].created_at < now' - BroadcastWindow
    BY <2>1, <2>2
  <2> QED
    BY <2>1, <2>2, <2>3 DEF InDirectWindow
<1> QED
  BY <1>1, <1>2, <1>3 DEF RowStep, Attaches, Delivers, Fails, Retries

LEMMA SpentStep ==
  ASSUME ~TransportRetries, SpentInv, TypeOK', [Next]_vars
  PROVE  NeverFailed' /\ DirectsSpent' /\ BroadcastsSpent'
<1> USE DEF SpentInv, TimesInv
<1>0. /\ now \in Nat /\ now' \in Nat /\ now <= now'
      /\ DirectWindow \in Nat /\ BroadcastWindow \in Nat
  BY ClockCases, LedgerAssumption
<1>1. NeverFailed'
  <2> SUFFICES ASSUME NEW m \in Messages, NEW s \in Sessions
               PROVE  rows'[m][s].state # "failed"
    BY DEF NeverFailed
  <2>1. RowStep(m, s) /\ rows[m][s] \in Row /\ rows[m][s].state # "failed"
    BY RowCases, RowTyped DEF NeverFailed
  <2>2. CASE Reads(m, s) \/ Decides(m, s)
    BY <2>1, <2>2 DEF Reads, Decides, Row
  <2>3. CASE Delivers(m, s)
    BY <2>1, <2>3 DEF Delivers, Row
  <2>4. CASE Attaches(m, s) \/ Deletes(m, s)
    BY <2>4 DEF Attaches, Deletes, Attached, NoRow
  <2> QED
    BY <2>1, <2>2, <2>3, <2>4 DEF RowStep, Fails, Retries
\* A session that has just read a message has a row that says so.
<1>2. ASSUME NEW m \in Messages, NEW s \in Sessions,
             messages'[m].kind \in Remembered, <<m, s>> \in consumed'
      PROVE  /\ messages'[m] = messages[m]
             /\ <<m, s>> \in consumed \/ rows'[m][s].state = "read"
  <2>1. /\ RowStep(m, s) /\ ConsumedStep(m, s) /\ MessageStep(m)
        /\ rows[m][s] \in Row /\ rows[m][s].state # "failed" /\ messages[m] \in Message
    BY RowCases, MessageCases, RowTyped DEF NeverFailed, TypeOK
  <2>2. messages'[m] = messages[m]
    BY <1>2, <2>1 DEF MessageStep, Message, UnusedHaveNoRows, Remembered
  <2> QED
    BY <1>2, <2>1, <2>2 DEF ConsumedStep, Reads, Decides, Outstanding, Row
<1>3. DirectsSpent'
  <2> SUFFICES ASSUME NEW m \in Messages, NEW t \in Sessions,
                      messages'[m].kind \in Remembered \ {"broadcast"}, <<m, t>> \in consumed'
               PROVE  \/ \E s \in Sessions : rows'[m][s].state = "read"
                      \/ ~InDirectWindow(m)'
    BY DEF DirectsSpent
  <2>1. messages'[m] = messages[m] /\ messages[m] \in Message
    BY <1>2 DEF TypeOK
  <2>2. CASE <<m, t>> \notin consumed
    BY <1>2, <2>2
  <2>3. ASSUME NEW s \in Sessions, rows[m][s].state = "read"
        PROVE  rows'[m][s].state = "read" \/ ~InDirectWindow(m)'
    BY <2>1, <2>3, ReadRowStep
  <2>4. CASE ~InDirectWindow(m)
    BY <1>0, <2>1, <2>4 DEF InDirectWindow, Message
  <2> QED
    BY <2>1, <2>2, <2>3, <2>4 DEF DirectsSpent
<1>4. BroadcastsSpent'
  <2> SUFFICES ASSUME NEW m \in Messages, NEW s \in Sessions,
                      messages'[m].kind \in Remembered \cap {"broadcast"}, <<m, s>> \in consumed'
               PROVE  \/ rows'[m][s].state = "read"
                      \/ messages'[m].created_at < now' - BroadcastWindow
    BY DEF BroadcastsSpent
  <2>1. messages'[m] = messages[m] /\ messages[m].created_at \in Nat
    BY <1>2 DEF TypeOK, Message
  <2>2. CASE <<m, s>> \notin consumed
    BY <1>2, <2>2
  <2>3. CASE rows[m][s].state = "read"
    BY <2>1, <2>3, ReadRowStep
  <2>4. CASE messages[m].created_at < now - BroadcastWindow
    BY <1>0, <2>1, <2>4
  <2> QED
    BY <2>1, <2>2, <2>3, <2>4 DEF BroadcastsSpent
<1> QED
  BY <1>1, <1>3, <1>4

LEMMA SpentInvariant == ~TransportRetries => (Spec => []SpentInv)
<1> SUFFICES ASSUME ~TransportRetries PROVE Spec => []SpentInv
  OBVIOUS
<1>1. Init => SpentInv
  <2>1. Init => TimesInv
    BY TimesInit
  <2> QED
    BY <2>1 DEF Init, SpentInv, NeverFailed, DirectsSpent, BroadcastsSpent, NoRow
<1>2. SpentInv /\ TimesInv' /\ [Next]_vars => SpentInv'
  BY SpentStep DEF SpentInv, TimesInv
<1> QED
  BY <1>1, <1>2, TimesInvariant, PTL DEF Spec

\* A spent message is not resurrected by the next step.
LEMMA SpentStaysRead ==
  ASSUME SafeSettings, SpentInv, TypeOK', [Next]_vars,
         NEW m \in Messages, messages[m].kind # "queued"
  PROVE  ~Resurrects(m)
<1> USE DEF SpentInv, TimesInv
<1>0. messages[m] \in Message /\ messages[m].created_at \in Nat /\ now \in Nat
      /\ BroadcastWindow \in Nat /\ {"direct", "broadcast"} \subseteq Remembered
  BY LedgerAssumption, SafelyRemembered DEF TypeOK, Message
<1>1. ASSUME NEW t \in Sessions, NEW s \in Sessions, messages[m].kind = "direct",
             <<m, t>> \in consumed, rows[m][s].state = "absent", rows'[m][s].state # "absent"
      PROVE  FALSE
  <2>1. Attaches(m, s)
    BY <1>1, RowCases DEF RowStep, Delivers, Reads, Decides, Fails, Retries, Deletes, Settled
  <2>2. Reattachable(m, s)
    BY <1>1, <2>1 DEF Attaches, Missed
  <2> QED
    BY <1>0, <1>1, <2>2 DEF Reattachable, DirectsSpent
<1>2. ASSUME NEW s \in Sessions, <<m, s>> \in consumed,
             ~Outstanding(rows[m][s]), Outstanding(rows'[m][s])
      PROVE  FALSE
  <2>1. RowStep(m, s) /\ rows[m][s] \in Row /\ rows[m][s].state # "failed"
    BY RowCases, RowTyped DEF NeverFailed
  <2>2. Attaches(m, s)
    <3>1. CASE Reads(m, s) \/ Decides(m, s)
      BY <1>2, <2>1, <3>1 DEF Reads, Decides, Outstanding, Row
    <3>2. CASE Deletes(m, s)
      BY <1>2, <3>2 DEF Deletes, NoRow, Outstanding
    <3> QED
      BY <1>2, <2>1, <3>1, <3>2 DEF RowStep, Delivers, Fails, Retries, Outstanding, SafeSettings
  <2>3. CASE Reattachable(m, s)
    BY <1>0, <1>2, <2>3 DEF Reattachable, DirectsSpent
  <2>4. CASE Missed(m, s)
    BY <1>0, <1>2, <2>2, <2>4 DEF Missed, Attaches, BroadcastsSpent
  <2>5. CASE messages[m].kind = "unused"
    BY <1>2, <2>5 DEF UnusedHaveNoRows
  <2> QED
    BY <2>2, <2>3, <2>4, <2>5 DEF Attaches
<1> QED
  BY <1>1, <1>2 DEF Resurrects

\* With settings under which the purge forgets a reading only after the
\* windows have forgotten the message, a direct or a broadcast that was read
\* is never attached again.  Queued messages know no window, and the theorem
\* does not hold of them.
THEOREM StaysRead == SafeSettings => (Spec => ReadStaysRead)
<1> SUFFICES ASSUME SafeSettings PROVE Spec => ReadStaysRead
  OBVIOUS
<1>1. Spec => []SpentInv
  BY SpentInvariant DEF SafeSettings
<1>2. SpentInv /\ TimesInv' /\ [Next]_vars
        => [\A m \in Messages : messages[m].kind # "queued" => ~Resurrects(m)]_vars
  BY SpentStaysRead DEF TimesInv
<1> QED
  BY <1>1, <1>2, TimesInvariant, PTL DEF Spec, ReadStaysRead
-----------------------------------------------------------------------------
(* What is still to be drained has its message.                            *)

\* Where no host reports transport failures a step that leaves a row to
\* drain stored its message, attached a message of a live kind, or found the
\* row so.
LEMMA OutstandingStep ==
  ASSUME ~TransportRetries, TypeOK, TypeOK', NeverFailed, [Next]_vars,
         NEW m \in Messages, NEW s \in Sessions
  PROVE  /\ rows'[m][s].state # "failed"
         /\ Outstanding(rows'[m][s]) =>
              \/ Outstanding(rows[m][s])
              \/ messages[m].kind = "unused" /\ messages'[m].kind # "unused"
              \/ messages[m].kind \in {"direct", "queued", "broadcast"}
<1>1. RowStep(m, s) /\ rows[m][s] \in Row /\ rows[m][s].state # "failed"
  BY RowCases, RowTyped DEF NeverFailed
<1>2. CASE Reads(m, s) \/ Decides(m, s)
  <2>1. CASE Reads(m, s)
    BY <1>1, <2>1 DEF Reads, Outstanding, Row
  <2>2. CASE Decides(m, s)
    <3>1. PICK d \in Dispositions :
            rows'[m][s] = [rows[m][s] EXCEPT
              !.state = IF Outstanding(rows[m][s]) THEN "read" ELSE @,
              !.read_at = ReadTime(rows[m][s]), !.disposition = d]
      BY <2>2, Zenon DEF Decides
    <3>2. rows'[m][s].state = IF Outstanding(rows[m][s]) THEN "read" ELSE rows[m][s].state
      <4>1. \A row \in Row : \A state, read_at, e :
              [row EXCEPT !.state = state, !.read_at = read_at, !.disposition = e].state = state
        BY DEF Row
      <4> QED
        BY <1>1, <3>1, <4>1
    <3> QED
      BY <1>1, <3>2 DEF Outstanding
  <2> QED
    BY <1>2, <2>1, <2>2
<1>3. CASE Delivers(m, s)
  BY <1>1, <1>3 DEF Delivers, Outstanding, Row
<1>4. CASE Attaches(m, s)
  BY <1>4 DEF Attaches, Attached, NoRow, Reattachable, Missed
<1>5. CASE Deletes(m, s)
  BY <1>5 DEF Deletes, NoRow, Outstanding
<1> QED
  BY <1>1, <1>2, <1>3, <1>4, <1>5 DEF RowStep, Fails, Retries

LEMMA HasMessageStep ==
  ASSUME ~TransportRetries, TypeOK, TypeOK', NeverFailed, OutstandingHasMessage,
         [Next]_vars
  PROVE  NeverFailed' /\ OutstandingHasMessage'
<1>1. NeverFailed'
  BY OutstandingStep DEF NeverFailed
<1>2. OutstandingHasMessage'
  <2> SUFFICES ASSUME NEW m \in Messages, NEW s \in Sessions, Outstanding(rows'[m][s])
               PROVE  messages'[m].kind \notin {"unused", "purged"}
    BY DEF OutstandingHasMessage, Outstanding
  <2>1. MessageStep(m) /\ messages[m] \in Message
    BY MessageCases DEF TypeOK
  <2>2. CASE messages'[m] = messages[m]
    BY <2>2, OutstandingStep DEF OutstandingHasMessage
  <2> QED
    BY <2>1, <2>2 DEF MessageStep
<1> QED
  BY <1>1, <1>2

\* No purge leaves a row that waits for its agent without the text it refers
\* to, unless a host takes failed rows back (retry_transport_failures), which
\* the purge does not count as outstanding.
THEOREM HasMessage == ~TransportRetries => (Spec => []OutstandingHasMessage)
<1> SUFFICES ASSUME ~TransportRetries PROVE Spec => []OutstandingHasMessage
  OBVIOUS
<1>1. Init => NeverFailed /\ OutstandingHasMessage
  BY DEF Init, NeverFailed, OutstandingHasMessage, Outstanding, NoRow
<1>2. TypeOK /\ TypeOK' /\ NeverFailed /\ OutstandingHasMessage /\ [Next]_vars
        => NeverFailed' /\ OutstandingHasMessage'
  BY HasMessageStep
<1> QED
  BY <1>1, <1>2, TypeCorrect, PTL DEF Spec
-----------------------------------------------------------------------------
(* The ledger implements DeliveryContract.                                 *)

\* What is told of the row of m and s: a deleted row was read.
Told(m, s) ==
  IF rows[m][s].state = "absent" /\ <<m, s>> \in consumed THEN "read" ELSE rows[m][s].state

ReadsRecorded ==
  \A m \in Messages, s \in Sessions : rows[m][s].state = "read" => <<m, s>> \in consumed

LEMMA RecordedStep ==
  ASSUME TypeOK, ReadsRecorded, [Next]_vars
  PROVE  ReadsRecorded'
<1> SUFFICES ASSUME NEW m \in Messages, NEW s \in Sessions, rows'[m][s].state = "read"
             PROVE  <<m, s>> \in consumed'
  BY DEF ReadsRecorded
<1>0. rows[m][s] \in Row
  BY RowTyped
<1>1. ASSUME UNCHANGED consumed, rows'[m][s].state \in {rows[m][s].state, "absent", "pending", "delivered", "failed"}
      PROVE  <<m, s>> \in consumed'
  BY <1>1 DEF ReadsRecorded
<1>2. CASE Tick \/ UNCHANGED vars
  BY <1>1, <1>2 DEF Tick, vars
<1>3. ASSUME NEW k \in Messages, NEW S, NEW kind, NEW e, StoreMessage(k, kind, S, e)
      PROVE  <<m, s>> \in consumed'
  BY <1>1, <1>3 DEF StoreMessage, Insert, Attached, NoRow, TypeOK
<1>4. ASSUME NEW k \in Messages, NEW t \in Sessions, NEW row, SetRow(k, t, row),
             rows[k][t] \in Row,
             \/ row.state # "read" /\ UNCHANGED consumed
             \/ consumed' = consumed \cup {<<k, t>>}
      PROVE  <<m, s>> \in consumed'
  <2>1. rows'[m][s] = IF m = k /\ s = t THEN row ELSE rows[m][s]
    BY <1>4 DEF SetRow, TypeOK
  <2> QED
    BY <1>4, <2>1 DEF ReadsRecorded
<1>5. ASSUME NEW k \in Messages, NEW t \in Sessions, MarkDelivered(k, t)
      PROVE  <<m, s>> \in consumed'
  <2>1. rows[k][t] \in Row /\ [rows[k][t] EXCEPT !.state = "delivered"].state # "read"
    BY RowTyped DEF Row
  <2> QED
    BY <1>4, <1>5, <2>1 DEF MarkDelivered
<1>6. ASSUME NEW k \in Messages, NEW t \in Sessions, MarkTransportFailed(k, t)
      PROVE  <<m, s>> \in consumed'
  <2> DEFINE row == [rows[k][t] EXCEPT !.state = "failed", !.attempts = @ + 1]
  <2>1. rows[k][t] \in Row /\ row.state # "read"
    BY RowTyped DEF Row
  <2>2. SetRow(k, t, row) /\ UNCHANGED consumed
    BY <1>6 DEF MarkTransportFailed
  <2> HIDE DEF row
  <2> QED
    BY <1>4, <2>1, <2>2
<1>7. ASSUME NEW k \in Messages, NEW t \in Sessions,
             MarkRead(k, t) \/ \E d \in Dispositions : MarkDisposition(k, t, d)
      PROVE  <<m, s>> \in consumed'
  <2>1. PICK row : SetRow(k, t, row) /\ consumed' = consumed \cup {<<k, t>>}
    BY <1>7, Zenon DEF MarkRead, MarkDisposition
  <2>2. rows[k][t] \in Row
    BY RowTyped
  <2> QED
    BY <1>4, <2>1, <2>2
<1>8. ASSUME NEW t \in Sessions, CatchUpDirect(t) \/ CatchUpBroadcasts(t)
      PROVE  <<m, s>> \in consumed'
  BY <1>1, <1>8 DEF CatchUpDirect, CatchUpBroadcasts, Insert, Attached, NoRow, TypeOK
<1>9. CASE RetryTransportFailures
  <2>1. [rows[m][s] EXCEPT !.state = "pending"].state = "pending"
    BY <1>0 DEF Row
  <2> QED
    BY <1>1, <1>9, <2>1 DEF RetryTransportFailures
<1>10. CASE Purge
  BY <1>1, <1>10 DEF Purge, NoRow
<1> QED
  BY <1>2, <1>3, <1>5, <1>6, <1>7, <1>8, <1>9, <1>10 DEF Next

\* The step of the contract for m, or none.
Keeps(m) ==
  \/ messages'[m].kind = messages[m].kind /\ \A s \in Sessions : Told(m, s)' = Told(m, s)
  \/ Deliveries!Step(m)

\* What is told of one row of m changes.
LEMMA OneMoves ==
  ASSUME NEW m \in Messages, NEW s \in Sessions, messages'[m].kind = messages[m].kind,
         \A t \in Sessions \ {s} : Told(m, t)' = Told(m, t)
  PROVE  \A v : Told(m, s)' = v => Deliveries!Moves(m, s, v)
BY DEF Deliveries!Moves, Told

\* A mark or a decision.
LEMMA PromiseMarked ==
  ASSUME TypeOK, NEW k \in Messages, NEW s \in Sessions, NEW row \in Row, SetRow(k, s, row),
         UNCHANGED messages, consumed' \in {consumed, consumed \cup {<<k, s>>}},
         \/ rows[k][s].state = "pending" /\ row.state = "delivered"
         \/ rows[k][s].state \in {"pending", "delivered"} /\ row.state = "read"
         \/ rows[k][s].state # "absent" /\ row.state = rows[k][s].state,
         NEW m \in Messages
  PROVE  Keeps(m)
<1>1. \A t \in Sessions : rows'[m][t] = IF m = k /\ t = s THEN row ELSE rows[m][t]
  BY SetRowSteps
<1>2. \A t \in Sessions : ~(m = k /\ t = s) => Told(m, t)' = Told(m, t)
  BY <1>1 DEF Told
<1>3. CASE m # k
  BY <1>2, <1>3 DEF Keeps
<1>4. CASE m = k
  <2>1. Told(k, s) = rows[k][s].state /\ Told(k, s)' = row.state
    BY <1>1, <1>4 DEF Told
  <2>2. Deliveries!Moves(k, s, row.state)
    BY <1>2, <1>4, <2>1, OneMoves
  <2>3. CASE row.state = rows[k][s].state
    BY <1>2, <1>4, <2>1, <2>3 DEF Keeps
  <2>4. CASE rows[k][s].state = "pending" /\ row.state = "delivered"
    <3>1. Deliveries!Delivered(k, s)
      BY <2>1, <2>2, <2>4 DEF Deliveries!Delivered, Told
    <3> QED
      BY <1>4, <3>1 DEF Keeps, Deliveries!Step
  <2>5. CASE rows[k][s].state \in {"pending", "delivered"} /\ row.state = "read"
    <3>1. Deliveries!Read(k, s)
      BY <2>1, <2>2, <2>5 DEF Deliveries!Read, Deliveries!Unread, Told
    <3> QED
      BY <1>4, <3>1 DEF Keeps, Deliveries!Step
  <2> QED
    BY <2>3, <2>4, <2>5
<1> QED
  BY <1>3, <1>4

LEMMA PromiseMarks ==
  ASSUME TypeOK, NeverFailed, NEW k \in Messages, NEW s \in Sessions,
         \/ MarkDelivered(k, s) \/ MarkRead(k, s)
         \/ \E d \in Dispositions : MarkDisposition(k, s, d),
         NEW m \in Messages
  PROVE  Keeps(m)
<1>0. rows[k][s] \in Row /\ rows[k][s].state # "failed" /\ ReadTime(rows[k][s]) \in Nat
  BY RowTyped, ReadTimeTyped DEF NeverFailed
<1>1. CASE MarkDelivered(k, s)
  <2> DEFINE row == [rows[k][s] EXCEPT !.state = "delivered"]
  <2>1. row \in Row /\ row.state = "delivered"
    BY <1>0 DEF Row
  <2>2. SetRow(k, s, row) /\ rows[k][s].state = "pending" /\ UNCHANGED <<messages, consumed>>
    BY <1>1 DEF MarkDelivered
  <2> HIDE DEF row
  <2> QED
    BY <2>1, <2>2, PromiseMarked
<1>2. CASE MarkRead(k, s)
  <2> DEFINE row == [rows[k][s] EXCEPT !.state = "read", !.read_at = ReadTime(rows[k][s])]
  <2>1. row \in Row /\ row.state = "read"
    BY <1>0 DEF Row
  <2>2. /\ SetRow(k, s, row) /\ rows[k][s].state \in {"pending", "delivered", "read"}
        /\ UNCHANGED messages /\ consumed' = consumed \cup {<<k, s>>}
    BY <1>2 DEF MarkRead
  <2> HIDE DEF row
  <2> QED
    BY <2>1, <2>2, PromiseMarked
<1>3. ASSUME NEW d \in Dispositions, MarkDisposition(k, s, d)
      PROVE  Keeps(m)
  <2> DEFINE row == [rows[k][s] EXCEPT !.state = IF Outstanding(rows[k][s]) THEN "read" ELSE @,
                                       !.read_at = ReadTime(rows[k][s]), !.disposition = d]
  <2>1. row \in Row /\ row.state = IF Outstanding(rows[k][s]) THEN "read" ELSE rows[k][s].state
    BY <1>0 DEF Row
  <2>2. /\ SetRow(k, s, row) /\ rows[k][s].state # "absent"
        /\ UNCHANGED messages /\ consumed' = consumed \cup {<<k, s>>}
    BY <1>3 DEF MarkDisposition
  <2> HIDE DEF row
  <2> QED
    BY <2>1, <2>2, PromiseMarked DEF Outstanding
<1> QED
  BY <1>1, <1>2, <1>3

LEMMA PromiseStored ==
  ASSUME TimesInv, NEW k \in Messages, NEW S \in SUBSET Sessions, NEW e,
         NEW kind \in {"direct", "queued", "broadcast"}, StoreMessage(k, kind, S, e),
         kind = "broadcast" \/ \E s \in Sessions : S = {s},
         NEW m \in Messages
  PROVE  Keeps(m)
<1>0. TypeOK
  BY DEF TimesInv
<1>1. CASE m # k
  BY <1>0, <1>1 DEF StoreMessage, Keeps, Told, TypeOK
<1>2. CASE m = k
  <2>1. messages[m].kind = "unused" /\ messages'[m].kind = kind
    BY <1>0, <1>2 DEF StoreMessage, TypeOK
  <2>2. \A s \in Sessions : Told(m, s)' = IF s \in S THEN "pending" ELSE "absent"
    <3>1. \A s \in Sessions : rows[m][s] = NoRow /\ <<m, s>> \notin consumed
      BY <2>1 DEF TimesInv, UnusedHaveNoRows
    <3>2. rows'[m] = Insert(m, S) /\ UNCHANGED consumed
      BY <1>0, <1>2 DEF StoreMessage, TypeOK
    <3> QED
      BY <3>1, <3>2 DEF Insert, Told, Attached, NoRow
  <2>3. Deliveries!Stored(m, kind, S)
    BY <2>1, <2>2 DEF Deliveries!Stored, Told
  <2> QED
    BY <2>3 DEF Keeps, Deliveries!Step
<1> QED
  BY <1>1, <1>2

\* The catch-ups attach a message that is remembered only while nobody is told
\* to have read it.
LEMMA PromiseAttached ==
  ASSUME SpentInv, NEW s \in Sessions, CatchUpDirect(s) \/ CatchUpBroadcasts(s),
         NEW m \in Messages
  PROVE  Keeps(m)
<1> USE DEF SpentInv, TimesInv
<1>0. UNCHANGED <<messages, consumed>>
  BY DEF CatchUpDirect, CatchUpBroadcasts
<1>1. \/ rows'[m] = rows[m]
      \/ rows'[m] = Insert(m, {s}) /\ (Reattachable(m, s) \/ Missed(m, s))
  BY DEF CatchUpDirect, CatchUpBroadcasts
<1>2. CASE rows'[m] = rows[m] \/ rows[m][s].state # "absent"
  <2>1. \A t \in Sessions : rows'[m][t] = rows[m][t]
    BY <1>1, <1>2 DEF Insert
  <2> QED
    BY <1>0, <2>1 DEF Keeps, Told
<1>3. CASE rows[m][s].state = "absent" /\ rows'[m] = Insert(m, {s})
           /\ (Reattachable(m, s) \/ Missed(m, s))
  <2>1. \A t \in Sessions \ {s} : Told(m, t)' = Told(m, t)
    BY <1>0, <1>3 DEF Insert, Told
  <2>2. Told(m, s)' = "pending" /\ Told(m, s) \in {"absent", "read"}
    BY <1>3 DEF Insert, Told, Attached, NoRow
  <2>3. Deliveries!Moves(m, s, "pending")
    BY <1>0, <2>1, <2>2, OneMoves
  <2>4. CASE Reattachable(m, s)
    <3>1. messages[m].kind \in {"direct", "queued"}
          /\ \E t \in Sessions \ {s} : Told(m, t) \in {"pending", "delivered"}
      BY <2>4 DEF Reattachable, Told, Outstanding
    <3>2. messages[m].kind \in Remembered => \A t \in Sessions : Told(m, t) # "read"
      BY <2>4, <3>1 DEF Reattachable, Told, DirectsSpent
    <3>3. Deliveries!PassedOn(m, s)
      BY <2>2, <2>3, <3>1, <3>2 DEF Deliveries!PassedOn, Deliveries!Unread, Told
    <3> QED
      BY <3>3 DEF Keeps, Deliveries!Step
  <2>5. CASE Missed(m, s)
    <3>1. messages[m].kind = "broadcast" /\ messages[m].created_at >= now - BroadcastWindow
      BY <2>5 DEF Missed
    <3>2. "broadcast" \in Remembered => Told(m, s) # "read"
      <4>1. messages[m].created_at \in Nat /\ now \in Nat /\ BroadcastWindow \in Nat
        BY LedgerAssumption DEF TypeOK, Message
      <4> QED
        BY <1>3, <3>1, <4>1 DEF Told, BroadcastsSpent
    <3>3. Deliveries!CaughtUp(m, s)
      BY <2>2, <2>3, <3>1, <3>2 DEF Deliveries!CaughtUp, Deliveries!Unread, Told
    <3> QED
      BY <3>3 DEF Keeps, Deliveries!Step
  <2> QED
    BY <1>3, <2>4, <2>5
<1> QED
  BY <1>1, <1>2, <1>3

\* The purge deletes only rows that are read, and texts nobody has unread.
LEMMA PromisePurged ==
  ASSUME SpentInv, OutstandingUndecided, ReadsRecorded, TypeOK', Purge, NEW m \in Messages
  PROVE  Keeps(m)
<1> USE DEF SpentInv, TimesInv
<1>1. \A s \in Sessions : Told(m, s)' = Told(m, s)
  <2> SUFFICES ASSUME NEW s \in Sessions PROVE Told(m, s)' = Told(m, s)
    OBVIOUS
  <2>1. rows[m][s] \in Row /\ rows[m][s].state # "failed" /\ UNCHANGED consumed
        /\ rows'[m][s] = IF Settled(rows[m][s]) THEN NoRow ELSE rows[m][s]
    BY RowTyped DEF Purge, NeverFailed
  <2>2. Settled(rows[m][s]) => rows[m][s].state = "read" /\ <<m, s>> \in consumed
    BY <2>1 DEF Settled, OutstandingUndecided, Outstanding, ReadsRecorded, Row
  <2> QED
    BY <2>1, <2>2 DEF Told, NoRow
<1>2. MessageStep(m) /\ messages[m] \in Message
  BY MessageCases DEF Next, TypeOK
<1>3. CASE messages'[m].kind = messages[m].kind
  BY <1>1, <1>3 DEF Keeps
<1>4. CASE messages'[m].kind # messages[m].kind
  <2>1. messages'[m].kind = "purged" /\ messages[m].kind \in {"direct", "queued", "broadcast"}
        /\ \A s \in Sessions : ~Outstanding(rows'[m][s])
    <3>1. messages[m].kind # "unused"
      <4>1. messages'[m].kind = "purged" /\ messages[m].expires_at # 0
        BY <1>2, <1>4 DEF Purge, Message
      <4> QED
        BY <4>1 DEF UnusedHaveNoRows
    <3> QED
      BY <1>2, <1>4, <3>1 DEF MessageStep, Message
  <2>2. \A s \in Sessions : Told(m, s) \notin {"pending", "delivered"}
    BY <1>1, <2>1 DEF Told, Outstanding
  <2>3. Deliveries!Purged(m)
    BY <1>1, <2>1, <2>2 DEF Deliveries!Purged, Deliveries!Unread, Deliveries!Kinds, Told
  <2> QED
    BY <2>3 DEF Keeps, Deliveries!Step
<1> QED
  BY <1>3, <1>4

\* Where no host takes failed rows back, the ledger keeps the promise with any
\* windows and any retention; these decide which kinds of message it remembers.
THEOREM KeepsDeliveryPromise == ~TransportRetries => (Spec => DeliveryPromise)
<1> SUFFICES ASSUME ~TransportRetries PROVE Spec => DeliveryPromise
  OBVIOUS
<1>1. Init => Deliveries!Init /\ ReadsRecorded
  BY DEF Init, Deliveries!Init, ReadsRecorded, NoRow
<1>2. TypeOK /\ ReadsRecorded /\ [Next]_vars => ReadsRecorded'
  BY RecordedStep
<1>3. SpentInv /\ OutstandingUndecided /\ ReadsRecorded /\ TypeOK' /\ [Next]_vars
        => [Deliveries!Next]_(Deliveries!vars)
  <2> SUFFICES ASSUME SpentInv, OutstandingUndecided, ReadsRecorded, TypeOK', Next, NEW m \in Messages
               PROVE  Keeps(m)
    BY DEF Deliveries!Next, Deliveries!vars, Keeps, Told, vars
  <2> USE DEF SpentInv, TimesInv
  <2>1. CASE Tick
    BY <2>1 DEF Tick, Keeps, Told
  <2>2. ASSUME NEW k \in Messages, NEW e \in {0, now},
               \/ \E s \in Sessions \ {Senders[k]}, kind \in {"direct", "queued"} :
                    StoreMessage(k, kind, {s}, e)
               \/ \E S \in SUBSET (Sessions \ {Senders[k]}) : StoreMessage(k, "broadcast", S, e)
        PROVE  Keeps(m)
    BY <2>2, PromiseStored
  <2>3. ASSUME NEW k \in Messages, NEW s \in Sessions,
               \/ MarkDelivered(k, s) \/ MarkRead(k, s)
               \/ \E d \in Dispositions : MarkDisposition(k, s, d)
        PROVE  Keeps(m)
    BY <2>3, PromiseMarks
  <2>4. ASSUME NEW s \in Sessions, CatchUpDirect(s) \/ CatchUpBroadcasts(s)
        PROVE  Keeps(m)
    BY <2>4, PromiseAttached
  <2>5. CASE Purge
    BY <2>5, PromisePurged
  <2>6. ~RetryTransportFailures
    BY DEF RetryTransportFailures, NeverFailed
  <2> QED
    BY <2>1, <2>2, <2>3, <2>4, <2>5, <2>6 DEF Next, MarkTransportFailed
<1> QED
  BY <1>1, <1>2, <1>3, SpentInvariant, Undecided, TypeCorrect, PTL
     DEF Spec, DeliveryPromise, Deliveries!Spec
=============================================================================
