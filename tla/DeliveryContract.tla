-------------------------- MODULE DeliveryContract --------------------------
(***************************************************************************)
(* What the store promises about a message, whoever writes its rows and in *)
(* whatever order (storage.py, tests/test_offline_queue.py): a session's   *)
(* copy only moves forward, a message to one agent is passed on to another *)
(* session of the name only while somebody has it unread and nobody has    *)
(* read it, and its text goes only when nobody has it unread.              *)
(***************************************************************************)
CONSTANTS Messages, Sessions,
          Remembered    \* the kinds of message whose reading is never forgotten

VARIABLES kind,         \* the kind of each message
          state         \* how far each session has come with each message

vars == <<kind, state>>

Kinds == {"direct", "queued", "broadcast"}

Init == /\ kind = [m \in Messages |-> "unused"]
        /\ state = [m \in Messages |-> [s \in Sessions |-> "absent"]]

Unread(m, s) == state[m][s] \in {"pending", "delivered"}

Moves(m, s, to) == /\ state'[m] = [state[m] EXCEPT ![s] = to]
                   /\ kind'[m] = kind[m]

Stored(m, k, S) ==
  /\ kind[m] = "unused"
  /\ kind'[m] = k
  /\ state'[m] = [s \in Sessions |-> IF s \in S THEN "pending" ELSE "absent"]

PassedOn(m, s) ==
  /\ kind[m] \in {"direct", "queued"}
  /\ \E t \in Sessions \ {s} : Unread(m, t)
  /\ ~Unread(m, s)
  /\ kind[m] \in Remembered => \A t \in Sessions : state[m][t] # "read"
  /\ Moves(m, s, "pending")

CaughtUp(m, s) ==
  /\ kind[m] = "broadcast"
  /\ ~Unread(m, s)
  /\ "broadcast" \in Remembered => state[m][s] # "read"
  /\ Moves(m, s, "pending")

Delivered(m, s) == state[m][s] = "pending" /\ Moves(m, s, "delivered")

Read(m, s) == Unread(m, s) /\ Moves(m, s, "read")

Purged(m) ==
  /\ kind[m] \in Kinds
  /\ \A s \in Sessions : ~Unread(m, s)
  /\ kind'[m] = "purged"
  /\ state'[m] = state[m]

Step(m) ==
  \/ \E s \in Sessions : \/ Stored(m, "direct", {s}) \/ Stored(m, "queued", {s})
                         \/ PassedOn(m, s) \/ CaughtUp(m, s)
                         \/ Delivered(m, s) \/ Read(m, s)
  \/ \E S \in SUBSET Sessions : Stored(m, "broadcast", S)
  \/ Purged(m)

\* A step of the store may move several messages, each by a step of its own.
Next == \A m \in Messages : UNCHANGED <<kind[m], state[m]>> \/ Step(m)

Spec == Init /\ [][Next]_vars
=============================================================================
