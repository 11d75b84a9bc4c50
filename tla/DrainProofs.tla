---------------------------- MODULE DrainProofs ----------------------------
(* Proofs about Drain for any number of messages and drains, any limit and *)
(* any size of the log.                                                    *)
EXTENDS Drain, TLAPS

LEMMA HostKept ==
    ASSUME TypeOK, [Next]_vars
    PROVE  /\ host' \in Host
           /\ host'.sqlite = host.sqlite /\ host'.calm = host.calm
           /\ host'.drains = host.drains
<1>1. CASE Fault
  BY <1>1 DEF TypeOK, Host, Fault
<1>2. CASE host' = host
  BY <1>2 DEF TypeOK
<1> QED
  BY <1>1, <1>2 DEF Next, Log, Store, StoreFails, Reconnect, Works, Kill, Begin, PrintRow,
        Mark, Jump, Open, Read, Save, Moves, vars

LEMMA FirstIsOne ==
    ASSUME TypeOK, NEW d \in Drains, NEW m \in First(d)
    PROVE  m \in Mine /\ m \in Msgs /\ m \in Nat /\ m \in batch[d] /\ First(d) = {m}
<1>1. \A k \in batch[d] : k \in Mine /\ k \in Msgs /\ k \in Nat
  BY DrainAssumption DEF TypeOK, Msgs
<1> QED
  BY <1>1 DEF First

LEMMA OnceMore ==
    ASSUME TypeOK, NEW m \in Msgs
    PROVE  /\ Once(m) \in [Msgs -> 0..2]
           /\ \A k \in Msgs : Once(m)[k] > 0 <=> k = m \/ printed[k] > 0
           /\ \A k \in Msgs \ {m} : Once(m)[k] = printed[k]
           /\ printed[m] = 0 => Once(m)[m] = 1
<1> DEFINE n == IF printed[m] = 2 THEN 2 ELSE printed[m] + 1
<1>1. n \in 0..2 /\ n > 0 /\ (printed[m] = 0 => n = 1)
  BY DEF TypeOK
<1>2. Once(m) = [printed EXCEPT ![m] = n]
  BY DEF Once
<1> HIDE DEF n
<1> QED
  BY <1>1, <1>2 DEF TypeOK

LEMMA SaveStep ==
    ASSUME NEW d \in Drains, Save(d)
    PROVE  /\ step[d] \in {"saving", "landing"}
           /\ step' = [step EXCEPT ![d] = "idle"]
           /\ cursor' = pos[d] /\ pos' = [pos EXCEPT ![d] = 0]
           /\ jumped \subseteq jumped'
           /\ step[d] = "saving" => jumped' = jumped
           /\ step[d] = "landing" => jumped' = jumped \cup OnlyLogged(pos[d])
           /\ UNCHANGED <<host, sent, base, storing, skipped, row, batch, printed, early>>
<1>1. PICK from \in {"saving", "landing"} :
          /\ Moves(d, from, "idle")
          /\ cursor' = pos[d]
          /\ pos' = [pos EXCEPT ![d] = 0]
          /\ jumped' = IF from = "landing" THEN jumped \cup OnlyLogged(pos[d]) ELSE jumped
          /\ UNCHANGED <<row, batch, printed, early>>
  BY DEF Save
<1>2. step[d] = from /\ step' = [step EXCEPT ![d] = "idle"]
      /\ UNCHANGED <<host, sent, base, storing, skipped>>
  BY <1>1 DEF Moves
<1> QED
  BY <1>1, <1>2

LEMMA TypePreserved ==
    ASSUME TypeOK, [Next]_vars
    PROVE  TypeOK'
<1> USE DrainAssumption DEF TypeOK, Msgs, Steps
<1>0. host' \in Host
  BY HostKept
<1>1. CASE Log
  <2>1. sent' \in 0..MaxMsgs /\ base' \in 0..sent' /\ storing' \in {0, sent'} /\ skipped' \in 0..sent'
    BY <1>1 DEF Log
  <2> QED
    BY <1>0, <1>1, <2>1 DEF Log
<1>2. CASE Store \/ StoreFails
  BY <1>0, <1>2 DEF Store, StoreFails
<1>3. CASE Reconnect
  <2>1. Size \in 0..MaxMsgs
    BY DEF Size
  <2> QED
    BY <1>0, <1>3, <2>1 DEF Reconnect, bus
<1>4. ASSUME NEW d \in Drains, Begin(d)
      PROVE  TypeOK'
  <2>1. Selected \subseteq Mine
    BY DEF Selected, Pending
  <2> QED
    BY <1>0, <1>4, <2>1 DEF Begin, Moves
<1>5. ASSUME NEW d \in Drains, PrintRow(d)
      PROVE  TypeOK'
  <2>1. PICK m \in First(d) : printed' = Once(m)
    BY <1>5 DEF PrintRow
  <2>2. printed' \in [Msgs -> 0..2]
    BY <2>1, FirstIsOne, OnceMore
  <2> QED
    <3>1. step[d] = "printing" /\ step' = [step EXCEPT ![d] = "marking"] /\ batch' = batch
      BY <1>5 DEF PrintRow, Moves
    <3>2. \A e \in Drains : step'[e] \in {"printing", "marking"} <=> batch'[e] # {}
      BY <3>1
    <3> QED
      BY <1>0, <1>5, <2>2, <3>1, <3>2 DEF PrintRow, Moves
<1>6. ASSUME NEW d \in Drains, Mark(d)
      PROVE  TypeOK'
  <2>1. row' \in [Msgs -> {"none", "pending", "delivered"}]
    BY <1>6 DEF Mark
  <2>2. First(d) \subseteq batch[d]
    BY DEF First
  <2> QED
    <3>1. /\ step[d] = "marking"
          /\ step' = [step EXCEPT ![d] = IF batch[d] = First(d) THEN "jumping" ELSE "printing"]
          /\ batch' = [batch EXCEPT ![d] = batch[d] \ First(d)]
      BY <1>6 DEF Mark, Moves
    <3>2. batch' \in [Drains -> SUBSET Mine] /\ step' \in [Drains -> Steps]
      BY <3>1
    <3>3. batch'[d] = {} <=> batch[d] = First(d)
      BY <2>2, <3>1
    <3>4. \A e \in Drains : step'[e] \in {"printing", "marking"} <=> batch'[e] # {}
      BY <3>1, <3>3
    <3> QED
      BY <1>0, <1>6, <2>1, <3>2, <3>4 DEF Mark, Moves
<1>7. ASSUME NEW d \in Drains, Jump(d) \/ Open(d) \/ Save(d)
      PROVE  TypeOK'
  <2>1. Size \in 0..MaxMsgs /\ Effective(cursor) \in 0..MaxMsgs
    BY DEF Size, Effective
  <2>2. CASE Jump(d)
    BY <1>0, <2>1, <2>2 DEF Jump, Moves
  <2>3. CASE Open(d)
    BY <1>0, <2>1, <2>3 DEF Open, Moves
  <2>4. CASE Save(d)
    <3>1. OnlyLogged(pos[d]) \subseteq Mine
      BY DEF OnlyLogged
    <3>2. jumped' \in SUBSET Mine
      BY <2>4, <3>1, SaveStep
    <3>3. step' = [step EXCEPT ![d] = "idle"] /\ step[d] \in {"saving", "landing"}
          /\ cursor' = pos[d] /\ pos' = [pos EXCEPT ![d] = 0]
      BY <2>4, SaveStep
    <3>4. UNCHANGED <<host, sent, base, storing, skipped, row, batch, printed, early>>
      BY <2>4, SaveStep
    <3> QED
      BY <1>0, <3>2, <3>3, <3>4
  <2> QED
    BY <1>7, <2>2, <2>3, <2>4
<1>8. ASSUME NEW d \in Drains, Read(d)
      PROVE  TypeOK'
  <2>1. PICK q \in IF pos[d] > Size THEN {pos[d]} ELSE Ends(pos[d]) :
            LET lines == Between(pos[d], q)
            IN  /\ printed' = [m \in Msgs |-> IF m \in lines THEN Once(m)[m] ELSE printed[m]]
                /\ pos' = [pos EXCEPT ![d] = q]
                /\ early' = early \cup {m \in lines : m = storing \/ row[m] = "pending"}
    BY <1>8 DEF Read
  <2>2. q \in 0..MaxMsgs
    BY <2>1 DEF Ends, Size
  <2>3. printed' \in [Msgs -> 0..2]
    BY <2>1, OnceMore
  <2>4. early' \in SUBSET Mine
    BY <2>1 DEF Between
  <2> QED
    BY <1>0, <1>8, <2>1, <2>2, <2>3, <2>4 DEF Read, Moves
<1>9. ASSUME NEW d \in Drains, Kill(d)
      PROVE  TypeOK'
  BY <1>0, <1>9 DEF Kill, bus
<1>10. CASE UNCHANGED vars
  BY <1>10 DEF vars
<1> QED
  BY <1>1, <1>2, <1>3, <1>4, <1>5, <1>6, <1>7, <1>8, <1>9, <1>10 DEF Next, Works

(* Every variable has its type, and a drain that prints has rows to print. *)
THEOREM TypeInvariant == Spec => []TypeOK
<1>1. Init => TypeOK
  BY DrainAssumption DEF Init, TypeOK, Msgs, Steps
<1> QED
  BY <1>1, TypePreserved, PTL DEF Spec

----------------------------------------------------------------------------
(* A message that only the log has and that no drain has printed, with no  *)
(* jump, rotation or reconnection to excuse its loss.                      *)
Owed(m) ==
    /\ m \in Mine /\ m <= sent /\ m > skipped /\ m \notin jumped /\ base = 0
    /\ row[m] = "none" /\ printed[m] = 0

(* Rows are marked after they are printed.                                 *)
PrintedFirst ==
    /\ \A m \in Mine : row[m] = "delivered" => printed[m] > 0
    /\ \A d \in Drains : step[d] = "marking" => \A m \in First(d) : printed[m] > 0

(* As long as the log is not rotated no position is past its end, nor past *)
(* a message that is owed.                                                 *)
Within == base = 0 => cursor <= sent /\ \A d \in Drains : pos[d] <= sent

Behind ==
    \A m \in Mine : Owed(m) =>
      /\ m > cursor
      /\ \A d \in Drains : step[d] \in {"reading", "saving"} => m > pos[d]

Ahead == PrintedFirst /\ Within /\ Behind

LEMMA Positions ==
    ASSUME TypeOK
    PROVE  /\ Size \in 0..MaxMsgs /\ base + Size = sent
           /\ Effective(cursor) \in 0..Size /\ Effective(cursor) <= cursor
           /\ \A p \in Nat : Effective(p) \in 0..Size
  BY DrainAssumption DEF TypeOK, Size, Effective

LEMMA Reading ==
    ASSUME TypeOK, NEW d \in Drains, Read(d)
    PROVE  \E q \in Nat :
              /\ q >= pos[d] /\ (q <= Size \/ q = pos[d])
              /\ pos' = [pos EXCEPT ![d] = q]
              /\ early' = early \cup {m \in Between(pos[d], q) : m = storing \/ row[m] = "pending"}
              /\ \A m \in Msgs \ Between(pos[d], q) : printed'[m] = printed[m]
              /\ \A m \in Between(pos[d], q) : printed'[m] > 0 /\ (printed[m] = 0 => printed'[m] = 1)
<1>1. PICK q \in IF pos[d] > Size THEN {pos[d]} ELSE Ends(pos[d]) :
          LET lines == Between(pos[d], q)
          IN  /\ printed' = [m \in Msgs |-> IF m \in lines THEN Once(m)[m] ELSE printed[m]]
              /\ pos' = [pos EXCEPT ![d] = q]
              /\ early' = early \cup {m \in lines : m = storing \/ row[m] = "pending"}
  BY DEF Read
<1>2. pos[d] \in Nat /\ Size \in Nat
  BY Positions, DrainAssumption DEF TypeOK
<1>3. q \in Nat /\ q >= pos[d] /\ (q <= Size \/ q = pos[d])
  BY <1>1, <1>2 DEF Ends
<1>4. Between(pos[d], q) \subseteq Msgs
  BY DrainAssumption DEF Between, Msgs
<1>5. \A m \in Msgs : Once(m)[m] > 0 /\ (printed[m] = 0 => Once(m)[m] = 1)
  BY OnceMore
<1>6. \A m \in Msgs \ Between(pos[d], q) : printed'[m] = printed[m]
  BY <1>1
<1>7. \A m \in Between(pos[d], q) : printed'[m] = Once(m)[m]
  BY <1>1, <1>4
<1> QED
  BY <1>1, <1>3, <1>4, <1>5, <1>6, <1>7

LEMMA PrintedMore ==
    ASSUME TypeOK, [Next]_vars, NEW m \in Msgs, printed[m] > 0
    PROVE  printed'[m] > 0
<1>1. ASSUME NEW d \in Drains, PrintRow(d)
      PROVE  printed'[m] > 0
  BY <1>1, FirstIsOne, OnceMore DEF PrintRow
<1>2. ASSUME NEW d \in Drains, Read(d)
      PROVE  printed'[m] > 0
  <2>1. PICK q \in Nat :
           /\ \A k \in Msgs \ Between(pos[d], q) : printed'[k] = printed[k]
           /\ \A k \in Between(pos[d], q) : printed'[k] > 0
    BY <1>2, Reading
  <2> QED
    BY <2>1
<1>3. CASE UNCHANGED printed
  BY <1>3
<1> QED
  BY <1>1, <1>2, <1>3 DEF Next, Log, Store, StoreFails, Reconnect, Works, Kill, Begin,
        Mark, Jump, Open, Save, Moves, vars

LEMMA PrintedFirstKept ==
    ASSUME TypeOK, PrintedFirst, [Next]_vars
    PROVE  PrintedFirst'
<1> USE DrainAssumption DEF TypeOK, PrintedFirst, Msgs
<1>0. \A m \in Mine : m \in Msgs /\ (printed[m] > 0 => printed'[m] > 0)
  BY PrintedMore
<1>1. ASSUME UNCHANGED <<row, step, batch>>
      PROVE  PrintedFirst'
  BY <1>0, <1>1 DEF First
<1>2. CASE Store \/ StoreFails
  <2>1. /\ UNCHANGED <<step, batch, printed>>
        /\ row' = row \/ row' = [row EXCEPT ![storing] = "pending"]
    BY <1>2 DEF Store, StoreFails
  <2>2. \A m \in Mine : row'[m] = row[m] \/ row'[m] = "pending"
    BY <2>1
  <2> QED
    BY <2>1, <2>2 DEF First
<1>3. ASSUME NEW d \in Drains, Begin(d)
      PROVE  PrintedFirst'
  BY <1>3 DEF Begin, Moves, First
<1>4. ASSUME NEW d \in Drains, PrintRow(d)
      PROVE  PrintedFirst'
  <2>1. PICK m \in First(d) : printed' = Once(m)
    BY <1>4 DEF PrintRow
  <2>2. m \in Msgs /\ First(d) = {m} /\ printed'[m] > 0
    BY <2>1, FirstIsOne, OnceMore
  <2>3. First(d)' = First(d) /\ \A e \in Drains : First(e)' = First(e) /\ First(e) \subseteq Mine
    BY <1>4 DEF PrintRow, First
  <2> QED
    BY <1>0, <1>4, <2>2, <2>3 DEF PrintRow, Moves
<1>5. ASSUME NEW d \in Drains, Mark(d)
      PROVE  PrintedFirst'
  <2>1. PICK m \in First(d) : row' = [row EXCEPT ![m] = "delivered"]
    BY <1>5 DEF Mark
  <2>2. m \in Msgs /\ First(d) = {m}
    BY FirstIsOne
  <2> QED
    BY <1>5, <2>1, <2>2 DEF Mark, Moves, First
<1>6. ASSUME NEW d \in Drains, Jump(d) \/ Open(d) \/ Save(d) \/ Read(d)
      PROVE  PrintedFirst'
  <2>1. /\ UNCHANGED <<row, batch>>
        /\ \E to \in {"saving", "landing", "reading", "idle"} : step' = [step EXCEPT ![d] = to]
    BY <1>6 DEF Jump, Open, Save, Read, Moves
  <2>2. \A e \in Drains : First(e)' = First(e) /\ First(e) \subseteq Mine
    BY <2>1 DEF First
  <2> QED
    BY <1>0, <2>1, <2>2
<1>7. ASSUME NEW d \in Drains, Kill(d)
      PROVE  PrintedFirst'
  BY <1>7 DEF Kill, bus, First
<1> QED
  BY <1>1, <1>2, <1>3, <1>4, <1>5, <1>6, <1>7 DEF Next, Works, Log, Reconnect, bus, vars

LEMMA PositionsKept ==
    ASSUME TypeOK, Within, Behind, [Next]_vars
    PROVE  Within' /\ Behind'
<1>0. /\ TypeOK'
      /\ sent \in Nat /\ base \in Nat /\ skipped \in Nat /\ cursor \in Nat
      /\ \A d \in Drains : pos[d] \in Nat
      /\ \A m \in Mine : m \in Msgs /\ m \in Nat /\ m > 0
      /\ base + Size = sent /\ Size \in Nat
  <2>1. TypeOK'
    BY TypePreserved
  <2>2. /\ sent \in Nat /\ base \in Nat /\ skipped \in Nat /\ cursor \in Nat
        /\ \A d \in Drains : pos[d] \in Nat
        /\ \A m \in Mine : m \in Msgs /\ m \in Nat /\ m > 0
    BY DrainAssumption DEF TypeOK, Msgs
  <2>3. base + Size = sent /\ Size \in Nat
    BY Positions, DrainAssumption
  <2> QED
    BY <2>1, <2>2, <2>3
\* A step that moves no position and frees nothing of its excuse.
<1>1. ASSUME UNCHANGED <<sent, base, skipped, cursor>>,
             \A m \in Mine : Owed(m)' => Owed(m),
             \A d \in Drains : pos'[d] = pos[d] \/ pos'[d] = 0,
             \A d \in Drains : step'[d] \in {"reading", "saving"} =>
                 step[d] \in {"reading", "saving"} /\ pos'[d] = pos[d]
      PROVE  Within' /\ Behind'
  BY <1>0, <1>1 DEF Within, Behind
<1>2. \A m \in Mine : sent' = sent /\ skipped' = skipped /\ base' = base
          /\ (row'[m] = "none" => row[m] = "none" /\ (m \in jumped => m \in jumped'))
          => (Owed(m)' => Owed(m))
  <2> SUFFICES ASSUME NEW m \in Mine, sent' = sent, skipped' = skipped, base' = base,
                      row'[m] = "none" => row[m] = "none" /\ (m \in jumped => m \in jumped'),
                      Owed(m)'
               PROVE  Owed(m)
    OBVIOUS
  <2>1. printed[m] \in 0..2 /\ ~(printed[m] > 0)
    <3>1. printed'[m] = 0
      BY DEF Owed
    <3>2. ~(printed'[m] > 0)
      BY <3>1
    <3> QED
      BY <1>0, <3>2, PrintedMore DEF TypeOK
  <2> QED
    BY <1>0, <2>1 DEF Owed
<1>3. CASE Log
  <2>1. base' = 0 => base = 0
    BY <1>0, <1>3 DEF Log, TypeOK, Host
  <2>2. sent' = sent + 1 /\ UNCHANGED <<row, cursor, step, pos, printed, skipped, jumped>>
    BY <1>3 DEF Log
  <2>3. Within'
    BY <1>0, <2>1, <2>2 DEF Within
  <2>4. \A m \in Mine : Owed(m)' => Owed(m) \/ (m > sent /\ base = 0)
    BY <1>0, <2>1, <2>2 DEF Owed
  <2>5. Behind'
    BY <1>0, <2>2, <2>4 DEF Behind, Within
  <2> QED
    BY <2>3, <2>5
<1>4. CASE Store \/ StoreFails
  <2>1. UNCHANGED <<sent, base, skipped, cursor, step, pos>>
    BY <1>4 DEF Store, StoreFails
  <2>2. \/ row' = row /\ (storing \notin Mine \/ jumped' = jumped)
        \/ storing \in Mine /\ row' = [row EXCEPT ![storing] = "pending"]
    BY <1>4 DEF Store, StoreFails
  <2>3. jumped \ {storing} \subseteq jumped'
    BY <1>4 DEF Store, StoreFails
  <2>4. \A m \in Mine : row'[m] = "none" => row[m] = "none" /\ (m \in jumped => m \in jumped')
    BY <1>0, <2>2, <2>3 DEF TypeOK
  <2> QED
    BY <1>1, <1>2, <2>1, <2>4
<1>5. CASE Reconnect
  <2>1. \A m \in Mine : ~Owed(m)'
    BY <1>0, <1>5 DEF Reconnect, bus, Owed
  <2>2. Within'
    BY <1>0, <1>5 DEF Reconnect, bus, Within
  <2> QED
    BY <2>1, <2>2 DEF Behind
<1>6. ASSUME NEW d \in Drains, Works(d) \/ Kill(d)
      PROVE  Within' /\ Behind'
  <2>0. /\ UNCHANGED <<sent, base, skipped>> /\ jumped \subseteq jumped'
        /\ \A m \in Mine : row'[m] = "none" => row[m] = "none"
    <3>1. UNCHANGED <<sent, base, skipped>>
      BY <1>6, SaveStep DEF Works, Kill, bus, Begin, PrintRow, Mark, Jump, Open, Read, Moves
    <3>2. row' = row \/ \E m \in First(d) : row' = [row EXCEPT ![m] = "delivered"]
      BY <1>6, SaveStep DEF Works, Kill, bus, Begin, PrintRow, Mark, Jump, Open, Read, Moves
    <3>3. jumped \subseteq jumped'
      BY <1>6, SaveStep DEF Works, Kill, bus, Begin, PrintRow, Mark, Jump, Open, Read
    <3> QED
      BY <1>0, <3>1, <3>2, <3>3 DEF TypeOK
  <2>1. \A m \in Mine : Owed(m)' => Owed(m)
    BY <1>2, <2>0
  <2>2. CASE Begin(d) \/ PrintRow(d) \/ Mark(d) \/ Kill(d)
    <3>1. cursor' = cursor /\ \E to \in {"printing", "opening", "marking", "jumping", "idle"} :
                                step' = [step EXCEPT ![d] = to]
      BY <2>2 DEF Begin, PrintRow, Mark, Kill, bus, Moves
    <3>2. pos' = pos \/ pos' = [pos EXCEPT ![d] = 0]
      BY <2>2 DEF Begin, PrintRow, Mark, Kill
    <3> QED
      BY <1>1, <2>0, <2>1, <3>1, <3>2 DEF TypeOK
  <2>3. ASSUME NEW p \in Nat, pos' = [pos EXCEPT ![d] = p], cursor' = cursor,
               base = 0 => p <= sent, \A m \in Mine : Owed(m)' => m > p,
               \E to \in {"reading", "saving"} : step' = [step EXCEPT ![d] = to]
        PROVE  Within' /\ Behind'
    <3>1. Within'
      BY <1>0, <2>0, <2>3 DEF Within, TypeOK
    <3>2. Behind'
      BY <1>0, <2>0, <2>1, <2>3 DEF Behind, TypeOK
    <3> QED
      BY <3>1, <3>2
  <2>4. CASE Jump(d)
    <3>1. /\ cursor' = cursor /\ pos' = [pos EXCEPT ![d] = Size]
          /\ step' = [step EXCEPT ![d] = "landing"]
      BY <2>4 DEF Jump, Moves
    <3>2. base = 0 => Size <= sent
      BY <1>0
    <3>3. Within'
      BY <1>0, <2>0, <3>1, <3>2 DEF Within, TypeOK
    <3>4. Behind'
      BY <1>0, <2>1, <3>1 DEF Behind, TypeOK
    <3> QED
      BY <3>3, <3>4
  <2>5. CASE Open(d)
    <3>1. Effective(cursor) \in Nat /\ Effective(cursor) <= cursor
      BY Positions
    <3>2. base = 0 => Effective(cursor) <= sent
      BY <1>0, <3>1 DEF Within
    <3>3. \A m \in Mine : Owed(m)' => m > Effective(cursor)
      BY <1>0, <2>1, <3>1 DEF Behind
    <3> QED
      BY <2>3, <2>5, <3>1, <3>2, <3>3 DEF Open, Moves
  <2>6. CASE Read(d)
    <3>1. PICK q \in Nat :
             /\ q >= pos[d] /\ (q <= Size \/ q = pos[d])
             /\ pos' = [pos EXCEPT ![d] = q]
             /\ \A m \in Between(pos[d], q) : printed'[m] > 0
      BY <2>6, Reading
    <3>2. base = 0 => q <= sent
      BY <1>0, <3>1 DEF Within
    <3>3. ASSUME NEW m \in Mine, Owed(m)'
          PROVE  m > q
      <4>1. m > pos[d] /\ base = 0
        BY <2>1, <2>6, <3>3 DEF Behind, Read, Moves, Owed
      <4>2. ~(printed'[m] > 0)
        BY <3>3 DEF Owed
      <4>3. m \notin Between(pos[d], q)
        BY <3>1, <4>2
      <4> QED
        BY <1>0, <4>1, <4>3 DEF Between
    <3> QED
      BY <2>3, <2>6, <3>1, <3>2, <3>3 DEF Read, Moves
  <2>7. CASE Save(d)
    <3>1. /\ step' = [step EXCEPT ![d] = "idle"]
          /\ cursor' = pos[d] /\ pos' = [pos EXCEPT ![d] = 0]
          /\ UNCHANGED <<sent, row, printed>>
          /\ step[d] = "saving" \/ jumped' = jumped \cup OnlyLogged(pos[d])
      BY <2>7, SaveStep
    <3>2. Within'
      BY <1>0, <2>0, <3>1 DEF Within, TypeOK
    <3>3. ASSUME NEW m \in Mine, Owed(m)'
          PROVE  m > cursor'
      <4>1. CASE step[d] = "saving"
        BY <2>1, <3>1, <3>3, <4>1 DEF Behind
      <4>2. CASE jumped' = jumped \cup OnlyLogged(pos[d])
        <5>1. m <= sent /\ base = 0 /\ row[m] = "none" /\ printed[m] = 0 /\ m \notin jumped'
          BY <2>0, <2>1, <3>1, <3>3 DEF Owed
        <5>2. ~(m <= base + pos[d])
          BY <4>2, <5>1 DEF OnlyLogged
        <5> QED
          BY <1>0, <3>1, <5>1, <5>2
      <4> QED
        BY <3>1, <4>1, <4>2
    <3>4. Behind'
      BY <1>0, <2>0, <2>1, <3>1, <3>3 DEF Behind, TypeOK
    <3> QED
      BY <3>2, <3>4
  <2> QED
    BY <1>6, <2>2, <2>4, <2>5, <2>6, <2>7 DEF Works
<1>7. CASE UNCHANGED vars
  BY <1>7 DEF vars, Within, Behind, Owed
<1> QED
  BY <1>3, <1>4, <1>5, <1>6, <1>7 DEF Next

(* Rows are marked only after they are printed and the cursor moves only   *)
(* over what was printed, so that a message for this session stays in      *)
(* reach until it is printed, but for the losses that are excused.         *)
THEOREM NoneIsLost == Spec => []NothingLost
<1>1. Init => Ahead
  BY DrainAssumption DEF Init, Ahead, PrintedFirst, Within, Behind, Owed, First, Msgs
<1>2. TypeOK /\ Ahead => NothingLost
  <2> SUFFICES ASSUME TypeOK, Ahead, NEW m \in Mine, m <= sent, ~(printed[m] > 0), ~InReach(m)
               PROVE  row[m] = "none" /\ (m \in jumped \/ m <= skipped \/ base > 0)
    BY DEF NothingLost
  <2>0. /\ m \in Msgs /\ m \in Nat /\ m > 0 /\ skipped \in Nat /\ base \in Nat /\ cursor \in Nat
        /\ printed[m] = 0
    BY DrainAssumption DEF TypeOK, Msgs
  <2>1. row[m] = "none"
    BY <2>0 DEF TypeOK, Ahead, PrintedFirst, InReach
  <2>2. ~(m > base + Effective(cursor)) /\ Effective(cursor) <= cursor /\ Effective(cursor) \in Nat
    BY <2>0, Positions DEF InReach
  <2>3. ~Owed(m) \/ m > cursor
    BY DEF Ahead, Behind
  <2> QED
    BY <2>0, <2>1, <2>2, <2>3 DEF Owed
<1> QED
  BY <1>1, <1>2, PrintedFirstKept, PositionsKept, TypeInvariant, PTL
     DEF Spec, Ahead

----------------------------------------------------------------------------
Due(m) == row[m] = "pending" \/ storing = m

(* One drain works, and the rows it holds are pending.                     *)
Solo ==
    /\ \A d, e \in host.drains : d = e
    /\ \A d \in Drains : step[d] # "idle" => d \in host.drains
    /\ \A d \in Drains : \A m \in batch[d] : row[m] = "pending"

(* A message the bus has not logged is nowhere, one it has not stored has  *)
(* no row.                                                                 *)
NotYet ==
    /\ \A m \in Msgs : m > sent => printed[m] = 0 /\ row[m] = "none"
    /\ \A m \in Mine : m = storing => row[m] = "none"

(* What was printed was printed once, its row is delivered, or about to be,*)
(* and it is behind the position from which the drain reads next.          *)
Unread(m) ==
    /\ printed[m] <= 1
    /\ storing = m => printed[m] = 0
    /\ row[m] = "pending" /\ (\A d \in Drains : step[d] = "marking" => m \notin First(d))
         => printed[m] = 0
    /\ ~Due(m) => \A d \in Drains :
         step[d] \in {"reading", "saving", "landing"} /\ m > base + Effective(pos[d]) => printed[m] = 0
    /\ ~Due(m) /\ (\A d \in Drains : step[d] \in {"idle", "opening"})
         /\ m > base + Effective(cursor) => printed[m] = 0

OnlyReader == host.calm => Solo /\ NotYet /\ \A m \in Mine \ early : Unread(m)

LEMMA SoloKept ==
    ASSUME TypeOK, host.calm, Solo, NotYet, [Next]_vars
    PROVE  Solo'
<1> USE DrainAssumption DEF TypeOK, Solo
<1>0. host'.drains = host.drains
  BY HostKept
<1>1. CASE Log \/ Reconnect
  BY <1>0, <1>1 DEF Log, Reconnect, bus
<1>2. CASE Store \/ StoreFails
  <2>1. /\ UNCHANGED <<step, batch>>
        /\ row' = row \/ row' = [row EXCEPT ![storing] = "pending"]
    BY <1>2 DEF Store, StoreFails
  <2>2. \A m \in Mine : row[m] = "pending" => row'[m] = "pending"
    BY <2>1 DEF Msgs
  <2> QED
    BY <1>0, <2>1, <2>2
<1>3. ASSUME NEW d \in Drains, Begin(d)
      PROVE  Solo'
  BY <1>0, <1>3 DEF Begin, Moves, Selected, Pending
<1>4. ASSUME NEW d \in Drains, PrintRow(d) \/ Jump(d) \/ Open(d) \/ Read(d) \/ Save(d)
      PROVE  Solo'
  <2>1. step[d] # "idle" /\ \E to \in Steps : step' = [step EXCEPT ![d] = to]
    BY <1>4, SaveStep DEF PrintRow, Jump, Open, Read, Moves, Steps
  <2>2. UNCHANGED <<row, batch>>
    BY <1>4, SaveStep DEF PrintRow, Jump, Open, Read, Moves
  <2>3. d \in host.drains /\ \A e \in Drains : e # d => step'[e] = step[e]
    BY <2>1
  <2> QED
    BY <1>0, <2>2, <2>3
<1>5. ASSUME NEW d \in Drains, Mark(d)
      PROVE  Solo'
  <2>1. PICK m \in First(d) : row' = [row EXCEPT ![m] = "delivered"]
    BY <1>5 DEF Mark
  <2>2. m \in Msgs /\ First(d) = {m}
    BY FirstIsOne
  <2>3. step[d] = "marking" /\ \E to \in Steps : step' = [step EXCEPT ![d] = to]
    BY <1>5 DEF Mark, Moves, Steps
  <2>4. batch' = [batch EXCEPT ![d] = batch[d] \ {m}]
    BY <1>5, <2>2 DEF Mark
  <2>5. \A e \in Drains \ {d} : batch[e] = {}
    BY <2>3
  <2> QED
    BY <1>0, <2>1, <2>2, <2>3, <2>4, <2>5 DEF Msgs
<1>6. ASSUME NEW d \in Drains, Kill(d)
      PROVE  Solo'
  BY <1>6 DEF Kill
<1>7. CASE UNCHANGED vars
  BY <1>7 DEF vars
<1> QED
  BY <1>1, <1>2, <1>3, <1>4, <1>5, <1>6, <1>7 DEF Next, Works

LEMMA NotYetKept ==
    ASSUME TypeOK, host.calm, Solo, NotYet, [Next]_vars
    PROVE  NotYet'
<1>0. /\ sent \in Nat /\ Msgs \subseteq Nat /\ \A m \in Mine : m \in Msgs /\ m \in Nat /\ m > 0
      /\ \A d \in Drains : pos[d] \in Nat
      /\ base \in Nat /\ base + Size = sent
  <2>1. base + Size = sent
    BY Positions
  <2>2. sent \in Nat /\ base \in Nat /\ \A d \in Drains : pos[d] \in Nat
    BY DrainAssumption DEF TypeOK
  <2>3. MaxMsgs \in Nat /\ Mine \subseteq 1..MaxMsgs
    BY DrainAssumption
  <2>4. Msgs \subseteq Nat /\ \A m \in Mine : m \in Msgs /\ m \in Nat /\ m > 0
    BY <2>3 DEF Msgs
  <2> QED
    BY <2>1, <2>2, <2>4
<1>1. CASE Log
  BY <1>0, <1>1 DEF Log, NotYet
<1>2. CASE Store \/ StoreFails
  <2>1. /\ sent' = sent /\ printed' = printed /\ storing' = 0
        /\ row' = row \/ row' = [row EXCEPT ![storing] = "pending"]
    BY <1>2 DEF Store, StoreFails
  <2>2. storing <= sent
    BY <1>0 DEF TypeOK
  <2> QED
    BY <1>0, <2>1, <2>2 DEF NotYet, TypeOK
<1>3. ASSUME NEW d \in Drains, PrintRow(d)
      PROVE  NotYet'
  <2>1. PICK m \in First(d) : printed' = Once(m)
    BY <1>3 DEF PrintRow
  <2>2. m \in Msgs /\ m \in batch[d] /\ row[m] = "pending"
    BY FirstIsOne DEF Solo
  <2>3. ~(m > sent) /\ \A k \in Msgs \ {m} : printed'[k] = printed[k]
    BY <2>1, <2>2, OnceMore DEF NotYet
  <2>4. UNCHANGED <<sent, row, storing>>
    BY <1>3 DEF PrintRow, Moves
  <2> QED
    BY <2>3, <2>4 DEF NotYet
<1>4. ASSUME NEW d \in Drains, Mark(d)
      PROVE  NotYet'
  <2>1. PICK m \in First(d) : row' = [row EXCEPT ![m] = "delivered"]
    BY <1>4 DEF Mark
  <2>2. m \in Msgs /\ m \in Mine /\ m \in batch[d] /\ row[m] = "pending"
    BY FirstIsOne DEF Solo
  <2>3. UNCHANGED <<sent, printed, storing>>
    BY <1>4 DEF Mark, Moves
  <2>4. \A k \in Msgs \ {m} : row'[k] = row[k]
    BY <2>1 DEF TypeOK
  <2> QED
    BY <1>0, <2>2, <2>3, <2>4 DEF NotYet
<1>5. ASSUME NEW d \in Drains, Read(d)
      PROVE  NotYet'
  <2>1. PICK q \in Nat :
           /\ q >= pos[d] /\ (q <= Size \/ q = pos[d])
           /\ \A m \in Msgs \ Between(pos[d], q) : printed'[m] = printed[m]
    BY <1>5, Reading
  <2>2. Size \in Nat
    BY Positions, DrainAssumption
  <2>3. \A m \in Between(pos[d], q) : ~(m > sent)
    BY <1>0, <2>1, <2>2 DEF Between
  <2>4. UNCHANGED <<sent, row, storing>>
    BY <1>5 DEF Read, Moves
  <2> QED
    BY <2>1, <2>3, <2>4 DEF NotYet
<1>6. CASE UNCHANGED <<sent, row, printed, storing>>
  BY <1>6 DEF NotYet
<1> QED
  BY <1>1, <1>2, <1>3, <1>4, <1>5, <1>6 DEF Next, Works, Reconnect, Begin, Jump, Open, Save,
        Kill, Moves, bus, vars

LEMMA UnreadKept ==
    ASSUME TypeOK, host.calm, Solo, NotYet, [Next]_vars,
           NEW m \in Mine, m \notin early, Unread(m), m \notin early'
    PROVE  Unread(m)'
<1>0. /\ m \in Msgs /\ m \in Nat /\ m > 0
      /\ sent \in Nat /\ base \in Nat /\ cursor \in Nat /\ Size \in Nat /\ base + Size = sent
      /\ printed[m] \in 0..2
      /\ \A d \in Drains : pos[d] \in Nat
  <2>1. Size \in Nat /\ base + Size = sent
    BY Positions, DrainAssumption
  <2> QED
    BY <2>1, DrainAssumption DEF TypeOK, Msgs
<1>1. m > sent => printed[m] = 0
  BY <1>0 DEF NotYet
<1>2. \A d, e \in Drains : step[d] # "idle" /\ e # d => step[e] = "idle"
  BY DEF Solo
\* A message that is not printed is not disturbed.
<1>3. ASSUME printed'[m] = 0
      PROVE  Unread(m)'
  BY <1>3 DEF Unread
<1>4. CASE Log
  <2>1. /\ sent' = sent + 1 /\ base' \in {base, sent}
        /\ UNCHANGED <<row, cursor, step, batch, pos, printed>>
    BY <1>4 DEF Log
  <2> SUFFICES ASSUME printed[m] # 0
               PROVE  Unread(m)'
    BY <1>3, <2>1
  <2>2. m <= sent /\ storing # m /\ storing' # m
    BY <1>0, <1>1, <1>4 DEF Log
  <2>3. \A d \in Drains : First(d)' = First(d)
    BY <2>1 DEF First
  <2>4. ASSUME NEW p \in Nat, m > base' + Effective(p)'
        PROVE  m > base + Effective(p)
    <3>0. Effective(p)' \in Nat
      BY <2>4 DEF Effective
    <3>1. base' # sent \/ base = sent
      BY <1>0, <2>2, <2>4, <3>0
    <3>2. base' = base
      BY <2>1, <3>1
    <3> QED
      BY <1>0, <2>1, <2>4, <3>2 DEF Effective, Size
  <2> QED
    BY <1>0, <2>1, <2>2, <2>3, <2>4 DEF Unread, Due
<1>5. CASE Store \/ StoreFails
  <2>1. /\ UNCHANGED <<sent, base, cursor, step, batch, pos, printed>> /\ storing' = 0
        /\ row' = row \/ row' = [row EXCEPT ![storing] = "pending"]
    BY <1>5 DEF Store, StoreFails
  <2>2. CASE storing = m
    BY <1>3, <2>1, <2>2 DEF Unread
  <2>3. CASE storing # m
    <3>1. row'[m] = row[m] /\ storing' # m
      BY <1>0, <2>1, <2>3 DEF TypeOK
    <3>2. \A d \in Drains : First(d)' = First(d)
      BY <2>1 DEF First
    <3>3. Size' = Size /\ \A p \in Nat : Effective(p)' = Effective(p)
      BY <2>1 DEF Effective, Size
    <3> QED
      BY <1>0, <2>1, <2>3, <3>1, <3>2, <3>3 DEF Unread, Due
  <2> QED
    BY <2>2, <2>3
<1>6. CASE Reconnect
  <2>1. UNCHANGED <<sent, base, storing, row, step, batch, pos, printed>> /\ cursor' = Size
    BY <1>6 DEF Reconnect, bus
  <2>2. \A d \in Drains : First(d)' = First(d)
    BY <2>1 DEF First
  <2>3. Size' = Size /\ \A p \in Nat : Effective(p)' = Effective(p)
    BY <2>1 DEF Effective, Size
  <2>4. Effective(Size) = Size
    BY <1>0 DEF Effective
  <2>5. m > base + Effective(cursor)' => printed[m] = 0
    BY <1>0, <1>1, <2>1, <2>3, <2>4
  <2> QED
    BY <1>0, <2>1, <2>2, <2>3, <2>5 DEF Unread, Due
<1>7. ASSUME NEW d \in Drains, Works(d)
      PROVE  Unread(m)'
  <2>0. /\ UNCHANGED <<sent, base, storing>>
        /\ Size' = Size /\ \A p \in Nat : Effective(p)' = Effective(p)
    <3>1. UNCHANGED <<sent, base, storing>>
      BY <1>7 DEF Works, Begin, PrintRow, Mark, Jump, Open, Read, Save, Moves
    <3> QED
      BY <3>1 DEF Effective, Size
  <2>1. CASE Begin(d)
    <3>1. /\ step[d] = "idle" /\ step'[d] \in {"printing", "opening"}
          /\ \A e \in Drains \ {d} : step'[e] = step[e] /\ batch'[e] = batch[e]
          /\ UNCHANGED <<row, cursor, pos, printed>>
      BY <2>1 DEF Begin, Moves, TypeOK
    <3>2. \A e \in Drains \ {d} : First(e)' = First(e)
      BY <3>1 DEF First
    <3> QED
      BY <1>0, <2>0, <3>1, <3>2 DEF Unread, Due
  <2>2. CASE PrintRow(d)
    <3>1. PICK k \in First(d) : printed' = Once(k)
      BY <2>2 DEF PrintRow
    <3>2. k \in Msgs /\ k \in Mine /\ First(d) = {k} /\ row[k] = "pending"
      BY FirstIsOne DEF Solo
    <3>3. /\ step[d] = "printing" /\ step'[d] = "marking"
          /\ \A e \in Drains \ {d} : step[e] = "idle" /\ step'[e] = "idle"
          /\ UNCHANGED <<row, cursor, batch, pos>>
      BY <1>2, <2>2 DEF PrintRow, Moves, TypeOK
    <3>4. First(d)' = First(d)
      BY <3>3 DEF First
    <3>5. CASE m = k
      <4>1. printed[m] = 0 /\ storing # m
        BY <3>2, <3>3, <3>5 DEF Unread, NotYet
      <4>2. printed'[m] = 1
        BY <1>0, <3>1, <3>5, <4>1, OnceMore
      <4> QED
        BY <2>0, <3>2, <3>3, <3>4, <3>5, <4>1, <4>2 DEF Unread, Due
    <3>6. CASE m # k
      <4>1. printed'[m] = printed[m]
        BY <1>0, <3>1, <3>2, <3>6, OnceMore
      <4> QED
        BY <2>0, <3>3, <4>1 DEF Unread, Due
    <3> QED
      BY <3>5, <3>6
  <2>3. CASE Mark(d)
    <3>1. PICK k \in First(d) : row' = [row EXCEPT ![k] = "delivered"]
      BY <2>3 DEF Mark
    <3>2. k \in Msgs /\ k \in Mine /\ First(d) = {k} /\ row[k] = "pending"
      BY FirstIsOne DEF Solo
    <3>3. /\ step[d] = "marking" /\ step'[d] \in {"jumping", "printing"}
          /\ \A e \in Drains \ {d} : step[e] = "idle" /\ step'[e] = "idle"
          /\ UNCHANGED <<cursor, pos, printed>>
      BY <1>2, <2>3 DEF Mark, Moves, TypeOK
    <3>4. CASE m = k
      <4>1. row'[m] = "delivered" /\ storing # m
        BY <3>1, <3>2, <3>4 DEF TypeOK, NotYet
      <4> QED
        BY <2>0, <3>3, <4>1 DEF Unread, Due
    <3>5. CASE m # k
      <4>1. row'[m] = row[m] /\ m \notin First(d)
        BY <1>0, <3>1, <3>2, <3>5 DEF TypeOK
      <4> QED
        BY <2>0, <3>3, <4>1 DEF Unread, Due
    <3> QED
      BY <3>4, <3>5
  <2>4. CASE Jump(d)
    <3>1. /\ step[d] = "jumping" /\ step'[d] = "landing" /\ pos'[d] = Size
          /\ \A e \in Drains \ {d} : step[e] = "idle" /\ step'[e] = "idle"
          /\ UNCHANGED <<row, cursor, batch, printed>>
      BY <1>2, <2>4 DEF Jump, Moves, TypeOK
    <3>2. m > base + Effective(Size) => printed[m] = 0
      BY <1>0, <1>1 DEF Effective
    <3> QED
      BY <1>0, <2>0, <3>1, <3>2 DEF Unread, Due
  <2>5. CASE Open(d)
    <3>1. /\ step[d] = "opening" /\ step'[d] = "reading" /\ pos'[d] = Effective(cursor)
          /\ \A e \in Drains \ {d} : step[e] = "idle" /\ step'[e] = "idle"
          /\ UNCHANGED <<row, cursor, batch, printed>>
      BY <1>2, <2>5 DEF Open, Moves, TypeOK
    <3>2. Effective(cursor) \in Nat /\ Effective(Effective(cursor)) = Effective(cursor)
      BY <1>0 DEF Effective
    <3>3. ~Due(m) /\ m > base + Effective(cursor) => printed[m] = 0
      BY <3>1 DEF Unread
    <3> QED
      BY <1>0, <2>0, <3>1, <3>2, <3>3 DEF Unread, Due
  <2>6. CASE Read(d)
    <3>1. /\ step[d] = "reading" /\ step'[d] = "saving"
          /\ \A e \in Drains \ {d} : step[e] = "idle" /\ step'[e] = "idle"
          /\ UNCHANGED <<row, cursor, batch>>
      BY <1>2, <2>6 DEF Read, Moves, TypeOK
    <3>2. PICK q \in Nat :
             /\ q >= pos[d] /\ (q <= Size \/ q = pos[d])
             /\ pos' = [pos EXCEPT ![d] = q]
             /\ early' = early \cup {k \in Between(pos[d], q) : k = storing \/ row[k] = "pending"}
             /\ \A k \in Msgs \ Between(pos[d], q) : printed'[k] = printed[k]
             /\ \A k \in Between(pos[d], q) : printed[k] = 0 => printed'[k] = 1
      BY <2>6, Reading
    <3>3. pos'[d] = q
      BY <3>2 DEF TypeOK
    <3>4. CASE m \in Between(pos[d], q)
      <4>1. ~Due(m)
        BY <3>2, <3>4 DEF Due
      <4>2. base + pos[d] < m /\ m <= base + q
        BY <3>4 DEF Between
      <4>3. q <= Size /\ Effective(pos[d]) = pos[d] /\ Effective(q) = q
        BY <1>0, <3>2, <4>2 DEF Effective
      <4>4. printed[m] = 0
        BY <3>1, <4>1, <4>2, <4>3 DEF Unread
      <4>5. printed'[m] = 1 /\ ~(m > base + Effective(q))
        BY <1>0, <3>2, <3>4, <4>2, <4>3, <4>4
      <4>6. ~Due(m)'
        BY <2>0, <3>1, <4>1 DEF Due
      <4> QED
        BY <2>0, <3>1, <3>2, <3>3, <4>5, <4>6 DEF Unread, Due
    <3>5. CASE m \notin Between(pos[d], q)
      <4>1. printed'[m] = printed[m]
        BY <1>0, <3>2, <3>5
      <4>2. m > base + Effective(q) => m > base + Effective(pos[d])
        BY <1>0, <3>2 DEF Effective
      <4> QED
        BY <1>0, <2>0, <3>1, <3>2, <3>3, <4>1, <4>2 DEF Unread, Due
    <3> QED
      BY <3>4, <3>5
  <2>7. CASE Save(d)
    <3>1. /\ step[d] \in {"saving", "landing"} /\ step'[d] = "idle" /\ cursor' = pos[d]
          /\ \A e \in Drains \ {d} : step[e] = "idle" /\ step'[e] = "idle"
          /\ UNCHANGED <<row, batch, printed>>
      BY <1>2, <2>7 DEF Save, Moves, TypeOK
    <3> QED
      BY <1>0, <2>0, <3>1 DEF Unread, Due
  <2> QED
    BY <1>7, <2>1, <2>2, <2>3, <2>4, <2>5, <2>6, <2>7 DEF Works
<1>8. ASSUME NEW d \in Drains, Kill(d)
      PROVE  Unread(m)'
  BY <1>8 DEF Kill
<1>9. CASE UNCHANGED vars
  BY <1>9 DEF vars, Unread, Due, First, Effective, Size
<1> QED
  BY <1>4, <1>5, <1>6, <1>7, <1>8, <1>9 DEF Next

LEMMA EarlyGrows ==
    ASSUME [Next]_vars
    PROVE  early \subseteq early'
  BY DEF Next, Log, Store, StoreFails, Reconnect, Works, Kill, Begin, PrintRow, Mark, Jump,
         Open, Read, Save, vars

(* A drain that works alone and is not killed prints each message once:    *)
(* what it printed has its row delivered and is behind its cursor, unless  *)
(* it was read from the log in the time the bus needs to store the row.    *)
THEOREM PrintsOnce == Spec => []ReadOnce
<1>1. Init => OnlyReader
  <2> SUFFICES ASSUME Init, host.calm
               PROVE  Solo /\ NotYet /\ \A m \in Mine \ early : Unread(m)
    BY DEF OnlyReader
  <2>1. Solo
    BY DrainAssumption DEF Init, Solo
  <2>2. \A m \in Msgs : printed[m] = 0 /\ row[m] = "none"
    BY DEF Init
  <2>3. \A m \in Mine : m \in Msgs
    BY DrainAssumption DEF Msgs
  <2> QED
    BY <2>1, <2>2, <2>3 DEF NotYet, Unread
<1>2. TypeOK /\ OnlyReader => ReadOnce
  <2> SUFFICES ASSUME OnlyReader, host.calm, NEW m \in Mine \ early
               PROVE  printed[m] # 2
    BY DEF ReadOnce
  <2>1. printed[m] <= 1
    BY DEF OnlyReader, Unread
  <2> QED
    BY <2>1
<1>3. TypeOK /\ OnlyReader /\ [Next]_vars => OnlyReader'
  <2> SUFFICES ASSUME TypeOK, OnlyReader, [Next]_vars, host'.calm
               PROVE  Solo' /\ NotYet' /\ \A m \in Mine \ early' : Unread(m)'
    BY DEF OnlyReader
  <2>1. host.calm
    BY HostKept
  <2> QED
    BY <2>1, SoloKept, NotYetKept, UnreadKept, EarlyGrows DEF OnlyReader
<1> QED
  BY <1>1, <1>2, <1>3, TypeInvariant, PTL DEF Spec
=============================================================================
