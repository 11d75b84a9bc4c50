------------------------- MODULE CodexMonitorProofs -------------------------
(***************************************************************************)
(* Theorems about CodexMonitor for any set of requests and any number of   *)
(* crashes: its types, and that it keeps the promise of RequestContract.   *)
(***************************************************************************)
EXTENDS CodexMonitor, TLAPS

----------------------------------------------------------------------------
(* The inductive invariant.  TypeOK is not inductive by itself: the text   *)
(* SendAccepted hands to the bus is an outcome only because the job in     *)
(* hand is in the outbox then.                                             *)

\* What the process's place says of the job in hand.  The last conjunct is
\* what Journal.__init__ establishes: while the process lives, no job but
\* the one in hand is running.
Hand ==
    /\ pc \in {"running", "executing"} => jobs[current].status = "running"
    /\ pc \in {"replying", "sending", "confirming", "finishing"} =>
           jobs[current].status = "reply"
    /\ pc = "finishing" => Acknowledged(current)
    /\ \A m \in Requests :
           pc # "down" /\ jobs[m].status = "running" =>
               pc \in {"running", "executing"} /\ m = current

\* Nothing was said to m's sender, nor is on its way.
Untold(m) == recorded[m] = {} /\ \A t \in Outcomes : <<m, t>> \notin inflight

\* Nothing but t was said to m's sender, or is on its way.
OnlyTold(m, t) ==
    /\ recorded[m] \subseteq {t}
    /\ \A u \in Outcomes : <<m, u>> \in inflight => u = t

\* What the status of a job says of the request's past.
FateOfAbsent(m) == jobs[m].status = "absent" => executions[m] = 0 /\ Untold(m)

FateOfRunning(m) ==
    jobs[m].status = "running" =>
        /\ m \in Actionable
        /\ Untold(m)
        /\ current = m /\ pc = "running" => executions[m] = 0
        /\ current = m /\ pc = "executing" => executions[m] = 1

FateOfReply(m) ==
    jobs[m].status = "reply" =>
        /\ m \in Actionable
        /\ OnlyTold(m, jobs[m].reply)
        /\ jobs[m].reply = "answer" => executions[m] = 1

FateOfDone(m) ==
    jobs[m].status = "done" =>
        \/ m \in Informational /\ Untold(m)
        \/ \E t \in Outcomes : recorded[m] = {t} /\ OnlyTold(m, t)

Fate(m) == /\ executions[m] \in {0, 1}
           /\ FateOfAbsent(m)
           /\ FateOfRunning(m)
           /\ FateOfReply(m)
           /\ FateOfDone(m)

Inv == TypeOK /\ Hand /\ \A m \in Requests : Fate(m)

----------------------------------------------------------------------------
\* The values a job takes, and what is known of their fields.
LEMMA JobTyped ==
  /\ NoJob \in Jobs
  /\ \A s \in {"absent", "running", "done"} : [status |-> s, reply |-> "none"] \in Jobs
  /\ \A t \in Outcomes : Replying(t) \in Jobs
  /\ \A j \in Jobs : /\ j.status \in {"absent", "running", "done", "reply"}
                     /\ j.status = "reply" => j.reply \in Outcomes
                     /\ Quarantine(j) \in Jobs
BY DEF Jobs, NoJob, Replying, Outcomes, Quarantine

\* A request is in hand in every state of the process but three.
LEMMA InHand ==
  ASSUME TypeOK, pc \in Working
  PROVE  current \in Requests
BY DEF TypeOK, Working, Between

\* A job in the outbox has one of the outcomes for its text.
LEMMA OutboxTyped ==
  ASSUME TypeOK, NEW m \in Requests, jobs[m].status = "reply"
  PROVE  jobs[m].reply \in Outcomes
BY JobTyped DEF TypeOK

\* Typing of the steps of the bus and the people around the monitor.
LEMMA AroundTyped == TypeOK /\ Around => TypeOK'
<1> SUFFICES ASSUME TypeOK, Around PROVE TypeOK'
  OBVIOUS
<1>1. CASE \E m \in Requests : Accept(m) \/ Push(m) \/ HumanDrain(m)
  <2> PICK m \in Requests : Accept(m) \/ Push(m) \/ HumanDrain(m)
    BY <1>1
  <2>1. rows' \in [Requests -> RowStates] /\ accepted' \subseteq Requests
    BY DEF Accept, Push, HumanDrain, TypeOK, RowStates
  <2>2. UNCHANGED <<jobs, executions, inflight, recorded, pc, todo, current, crashes>>
    BY DEF Accept, Push, HumanDrain
  <2> QED
    BY <2>1, <2>2 DEF TypeOK
<1>2. CASE \E m \in Requests, t \in Outcomes : BusRecords(m, t) \/ LoseReply(m, t)
  <2> PICK m \in Requests, t \in Outcomes : BusRecords(m, t) \/ LoseReply(m, t)
    BY <1>2
  <2>1. rows' \in [Requests -> RowStates]
    BY DEF BusRecords, LoseReply, TypeOK, RowStates
  <2>2. inflight' \subseteq Requests \X Outcomes
    BY DEF BusRecords, LoseReply, TypeOK
  <2>3. recorded' \in [Requests -> SUBSET Outcomes]
    BY DEF BusRecords, LoseReply, TypeOK
  <2>4. UNCHANGED <<accepted, jobs, executions, pc, todo, current, crashes>>
    BY DEF BusRecords, LoseReply
  <2> QED
    BY <2>1, <2>2, <2>3, <2>4 DEF TypeOK
<1> QED
  BY <1>1, <1>2 DEF Around

\* Typing of the steps of the process.
LEMMA ProcessTyped == TypeOK /\ Hand /\ (Process \/ Crash) => TypeOK'
<1> SUFFICES ASSUME TypeOK, Hand, Process \/ Crash PROVE TypeOK'
  OBVIOUS
<1> USE RequestsAssumption
<1>1. CASE Start
  BY <1>1, JobTyped DEF Start, TypeOK, Between, Working
<1>2. CASE Scan
  <2>1. Recovered \in [Requests -> RowStates]
    BY DEF Recovered, TypeOK, RowStates
  <2> QED
    BY <1>2, <2>1 DEF Scan, Unanswered, TypeOK, Between, Working
<1>3. CASE EndPass
  BY <1>3 DEF EndPass, TypeOK, Between, Working
<1>4. CASE \E m \in Requests : TakeDone(m) \/ TakeReply(m)
  BY <1>4 DEF TakeDone, TakeReply, Take, TypeOK, Between, Working
<1>5. CASE \E m \in Requests : Skip(m) \/ Run(m)
  BY <1>5, JobTyped DEF Skip, Run, TakeNew, Take, TypeOK, Between, Working
<1>6. CASE TurnStarts
  BY <1>6, InHand DEF TurnStarts, TypeOK, Between, Working
<1>7. CASE TurnCompletes \/ TurnFails
  BY <1>7, InHand, JobTyped DEF TurnCompletes, TurnFails, TypeOK, Between, Working, Outcomes
<1>8. CASE CheckOutbox
  BY <1>8 DEF CheckOutbox, TypeOK, Between, Working
<1>9. CASE \E m \in Requests : SendAccepted(m)
  <2> PICK m \in Requests : SendAccepted(m)
    BY <1>9
  <2>1. jobs[m].reply \in Outcomes => inflight' \subseteq Requests \X Outcomes
    BY DEF SendAccepted, TypeOK
  <2>2. jobs[m].reply \in Outcomes
    BY OutboxTyped DEF SendAccepted, Hand
  <2> QED
    BY <2>1, <2>2 DEF SendAccepted, TypeOK, Between, Working
<1>10. CASE SendRejected
  BY <1>10 DEF SendRejected, LeaveInOutbox, TypeOK, Between, Working
<1>11. CASE Confirm
  BY <1>11 DEF Confirm, LeaveInOutbox, TypeOK, Between, Working
<1>12. CASE Finish
  BY <1>12, InHand, JobTyped DEF Finish, TypeOK, Between, Working
<1>13. CASE Mark
  BY <1>13, InHand DEF Mark, TypeOK, Between, Working, RowStates
<1>14. CASE Crash
  BY <1>14 DEF Crash, TypeOK, Between, Working
<1> QED
  BY <1>1, <1>2, <1>3, <1>4, <1>5, <1>6, <1>7, <1>8, <1>9, <1>10,
     <1>11, <1>12, <1>13, <1>14 DEF Process

\* The place of the process and the job in hand agree after every step.
LEMMA HandKept == TypeOK /\ Hand /\ [Next]_vars => Hand'
<1> SUFFICES ASSUME TypeOK, Hand, [Next]_vars PROVE Hand'
  OBVIOUS
<1> USE DEF Hand, Acknowledged
<1>1. CASE Around
  <2>1. UNCHANGED <<jobs, pc, current>>
    BY <1>1 DEF Around, Accept, Push, HumanDrain, BusRecords, LoseReply
  <2>2. \A m \in Requests : recorded[m] \subseteq recorded'[m]
    <3>1. CASE \E m \in Requests : Accept(m) \/ Push(m) \/ HumanDrain(m)
      BY <3>1 DEF Accept, Push, HumanDrain
    <3>2. CASE \E m \in Requests, t \in Outcomes : BusRecords(m, t) \/ LoseReply(m, t)
      BY <3>2 DEF BusRecords, LoseReply, TypeOK
    <3> QED
      BY <1>1, <3>1, <3>2 DEF Around
  <2>3. pc = "finishing" => current \in Requests
    BY InHand DEF Working
  <2> QED
    BY <2>1, <2>2, <2>3
<1>2. CASE Start
  BY <1>2, JobTyped DEF Start, Quarantine, Replying, TypeOK
<1>3. CASE Scan \/ EndPass
  BY <1>3 DEF Scan, EndPass
<1>4. CASE \E m \in Requests : TakeDone(m) \/ TakeReply(m)
  BY <1>4 DEF TakeDone, TakeReply, Take
<1>5. CASE \E m \in Requests : Skip(m) \/ Run(m)
  BY <1>5 DEF Skip, Run, TakeNew, Take, TypeOK
<1>6. CASE TurnStarts
  BY <1>6 DEF TurnStarts
<1>7. CASE TurnCompletes \/ TurnFails
  BY <1>7, InHand DEF TurnCompletes, TurnFails, Replying, TypeOK, Working
<1>8. CASE CheckOutbox
  BY <1>8 DEF CheckOutbox
<1>9. CASE \E m \in Requests : SendAccepted(m)
  BY <1>9 DEF SendAccepted
<1>10. CASE SendRejected
  BY <1>10 DEF SendRejected, LeaveInOutbox
<1>11. CASE Confirm
  BY <1>11 DEF Confirm, LeaveInOutbox
<1>12. CASE Finish
  BY <1>12, InHand DEF Finish, TypeOK, Working
<1>13. CASE Mark
  BY <1>13 DEF Mark
<1>14. CASE Crash
  BY <1>14 DEF Crash
<1>15. CASE UNCHANGED vars
  BY <1>15 DEF vars
<1> QED
  BY <1>1, <1>2, <1>3, <1>4, <1>5, <1>6, <1>7, <1>8, <1>9, <1>10, <1>11,
     <1>12, <1>13, <1>14, <1>15 DEF Next, Process

\* The past of a request reads the same after a step that leaves its job,
\* its runs and what its sender was told alone, and does not take it in hand.
LEMMA FateFrame ==
  ASSUME NEW m \in Requests, Fate(m),
         jobs'[m] = jobs[m], executions'[m] = executions[m],
         recorded'[m] = recorded[m],
         \A t \in Outcomes : <<m, t>> \in inflight' => <<m, t>> \in inflight,
         current' = m /\ pc' \in {"running", "executing"} => current = m /\ pc = pc'
  PROVE  Fate(m)'
BY DEF Fate, FateOfAbsent, FateOfRunning, FateOfReply, FateOfDone, Untold, OnlyTold

\* Every action keeps the fate of every request.
LEMMA FateKept ==
  ASSUME Inv, [Next]_vars, NEW m \in Requests
  PROVE  Fate(m)'
<1> TypeOK /\ Hand /\ Fate(m)
  BY DEF Inv
<1>1. CASE \E k \in Requests : Accept(k) \/ Push(k) \/ HumanDrain(k)
  BY <1>1, FateFrame DEF Accept, Push, HumanDrain
<1>2. CASE \E k \in Requests, t \in Outcomes : BusRecords(k, t)
  <2> PICK k \in Requests, t \in Outcomes : BusRecords(k, t)
    BY <1>2
  <2>1. /\ <<k, t>> \in inflight
        /\ inflight' = inflight \ {<<k, t>>}
        /\ recorded' = [recorded EXCEPT ![k] = @ \cup {t}]
        /\ UNCHANGED <<jobs, executions, pc, current>>
    BY DEF BusRecords
  <2>2. CASE k # m
    BY <2>1, <2>2, FateFrame DEF TypeOK
  <2>3. CASE k = m
    <3>1. recorded'[m] = recorded[m] \cup {t} /\ ~Untold(m)
      BY <2>1, <2>3 DEF TypeOK, Untold
    <3>2. jobs[m].status \in {"reply", "done"}
      BY <3>1, JobTyped DEF TypeOK, Fate, FateOfAbsent, FateOfRunning
    <3>3. FateOfReply(m)'
      BY <2>1, <2>3, <3>1 DEF Fate, FateOfReply, OnlyTold
    <3>4. FateOfDone(m)'
      BY <2>1, <2>3, <3>1 DEF Fate, FateOfDone, OnlyTold
    <3> QED
      BY <2>1, <3>2, <3>3, <3>4 DEF Fate, FateOfAbsent, FateOfRunning
  <2> QED
    BY <2>2, <2>3
<1>3. CASE \E k \in Requests, t \in Outcomes : LoseReply(k, t)
  BY <1>3, FateFrame DEF LoseReply
<1>4. CASE Start
  <2>1. jobs'[m] = Quarantine(jobs[m]) /\ UNCHANGED <<executions, recorded, inflight>> /\ pc' = "idle"
    BY <1>4 DEF Start
  <2>2. CASE jobs[m].status = "running"
    <3>1. jobs'[m] = Replying("interrupted")
      BY <2>1, <2>2 DEF Quarantine
    <3> QED
      BY <2>1, <2>2, <3>1 DEF Replying, Fate, FateOfAbsent, FateOfRunning, FateOfReply,
                              FateOfDone, Untold, OnlyTold
  <2>3. CASE jobs[m].status # "running"
    BY <2>1, <2>3, FateFrame DEF Quarantine
  <2> QED
    BY <2>2, <2>3
<1>5. CASE Scan \/ EndPass \/ \E k \in Requests : TakeDone(k) \/ TakeReply(k)
  BY <1>5, FateFrame DEF Scan, EndPass, TakeDone, TakeReply, Take
<1>6. CASE \E k \in Requests : Skip(k) \/ Run(k)
  <2> PICK k \in Requests : Skip(k) \/ Run(k)
    BY <1>6
  <2>1. /\ jobs[k].status \notin {"done", "reply"}
        /\ pc = "taking" /\ current' = k
        /\ UNCHANGED <<executions, recorded, inflight>>
    BY DEF Skip, Run, TakeNew, Take
  <2>2. CASE k # m
    BY <2>1, <2>2, FateFrame DEF Skip, Run, TakeNew, TypeOK
  <2>3. CASE k = m
    <3>1. jobs[m].status = "absent"
      BY <2>1, <2>3, JobTyped DEF TypeOK, Hand
    <3>2. executions[m] = 0 /\ Untold(m)
      BY <3>1 DEF Fate, FateOfAbsent
    <3>3. \/ m \in Informational /\ jobs'[m].status = "done"
          \/ m \in Actionable /\ jobs'[m].status = "running" /\ pc' = "running"
      BY <2>3 DEF Skip, Run, TakeNew, TypeOK
    <3> QED
      BY <2>1, <3>2, <3>3 DEF Fate, FateOfAbsent, FateOfRunning, FateOfReply,
                              FateOfDone, Untold
  <2> QED
    BY <2>2, <2>3
<1>7. CASE TurnStarts
  <2>1. current \in Requests /\ jobs[current].status = "running"
    BY <1>7, InHand DEF TurnStarts, Working, Hand
  <2>2. CASE current # m
    BY <1>7, <2>1, <2>2, FateFrame DEF TurnStarts, TypeOK
  <2>3. CASE current = m
    BY <1>7, <2>1, <2>3 DEF TurnStarts, TypeOK, Fate, FateOfAbsent, FateOfRunning,
                            FateOfReply, FateOfDone, Untold
  <2> QED
    BY <2>2, <2>3
<1>8. CASE TurnCompletes \/ TurnFails
  <2>1. current \in Requests /\ jobs[current].status = "running"
    BY <1>8, InHand DEF TurnCompletes, TurnFails, Working, Hand
  <2>2. CASE current # m
    BY <1>8, <2>1, <2>2, FateFrame DEF TurnCompletes, TurnFails, TypeOK
  <2>3. CASE current = m
    <3>1. \/ jobs'[m] = Replying("answer") /\ pc = "executing"
          \/ jobs'[m] = Replying("failed")
      BY <1>8, <2>1, <2>3 DEF TurnCompletes, TurnFails, TypeOK
    <3>2. UNCHANGED <<executions, recorded, inflight>>
      BY <1>8 DEF TurnCompletes, TurnFails
    <3> QED
      BY <2>1, <2>3, <3>1, <3>2 DEF Replying, Fate, FateOfAbsent, FateOfRunning,
                                    FateOfReply, FateOfDone, Untold, OnlyTold
  <2> QED
    BY <2>2, <2>3
<1>9. CASE CheckOutbox \/ SendRejected \/ Confirm
  BY <1>9, FateFrame DEF CheckOutbox, SendRejected, Confirm, LeaveInOutbox
<1>10. CASE \E k \in Requests : SendAccepted(k)
  <2> PICK k \in Requests : SendAccepted(k)
    BY <1>10
  <2>1. /\ jobs[k].status = "reply"
        /\ inflight' = inflight \cup {<<k, jobs[k].reply>>}
        /\ pc' = "confirming"
        /\ UNCHANGED <<jobs, executions, recorded>>
    BY DEF SendAccepted, Hand
  <2>2. CASE k # m
    BY <2>1, <2>2, FateFrame
  <2>3. CASE k = m
    BY <2>1, <2>3 DEF Fate, FateOfAbsent, FateOfRunning, FateOfReply, FateOfDone, OnlyTold
  <2> QED
    BY <2>2, <2>3
<1>11. CASE Finish
  <2>1. /\ current \in Requests /\ jobs[current].status = "reply"
        /\ Acknowledged(current)
        /\ pc' = "marking"
        /\ UNCHANGED <<executions, recorded, inflight>>
    BY <1>11, InHand DEF Finish, Working, Hand
  <2>2. CASE current # m
    BY <1>11, <2>1, <2>2, FateFrame DEF Finish, TypeOK
  <2>3. CASE current = m
    <3>1. jobs'[m].status = "done" /\ jobs[m].reply \in Outcomes
      BY <1>11, <2>1, <2>3, OutboxTyped DEF Finish, TypeOK
    <3>2. recorded[m] = {jobs[m].reply} /\ OnlyTold(m, jobs[m].reply)
      BY <2>1, <2>3 DEF Acknowledged, Fate, FateOfReply, OnlyTold
    <3>3. FateOfDone(m)'
      BY <2>1, <3>1, <3>2 DEF FateOfDone, OnlyTold
    <3> QED
      BY <2>1, <3>1, <3>3 DEF Fate, FateOfAbsent, FateOfRunning, FateOfReply
  <2> QED
    BY <2>2, <2>3
<1>12. CASE Mark \/ Crash
  BY <1>12, FateFrame DEF Mark, Crash
<1>13. CASE UNCHANGED vars
  BY <1>13, FateFrame DEF vars
<1> QED
  BY <1>1, <1>2, <1>3, <1>4, <1>5, <1>6, <1>7, <1>8, <1>9, <1>10, <1>11,
     <1>12, <1>13 DEF Next, Process, Around

LEMMA InvHolds == Spec => []Inv
<1>1. Init => Inv
  BY RequestsAssumption, JobTyped
     DEF Init, Inv, TypeOK, Hand, Fate, FateOfAbsent, FateOfRunning, FateOfReply,
         FateOfDone, Untold, NoJob, RowStates, Between, Working
<1>2. Inv /\ [Next]_vars => Inv'
  <2> SUFFICES ASSUME Inv, [Next]_vars PROVE Inv'
    OBVIOUS
  <2>1. TypeOK'
    <3>1. CASE UNCHANGED vars
      BY <3>1 DEF vars, Inv, TypeOK
    <3> QED
      BY <3>1, AroundTyped, ProcessTyped DEF Inv, Next
  <2>2. Hand'
    BY HandKept DEF Inv
  <2>3. \A m \in Requests : Fate(m)'
    BY FateKept
  <2> QED
    BY <2>1, <2>2, <2>3 DEF Inv
<1> QED
  BY <1>1, <1>2, PTL DEF Spec

----------------------------------------------------------------------------
\* Every variable keeps its type, whatever the number of requests: no job
\* waits in the outbox without a text, no step works on a row it left.
THEOREM TypeInvariant == Spec => []TypeOK
<1>1. Inv => TypeOK
  BY DEF Inv
<1> QED
  BY InvHolds, <1>1, PTL

\* The journal closes a request that asked for work only after the bus
\* recorded its reply.
THEOREM ClosedWhenTold == Spec => []DoneIsAcknowledged
<1>1. Inv => DoneIsAcknowledged
  BY DEF Inv, Fate, FateOfDone, DoneIsAcknowledged, Actionable
<1> QED
  BY InvHolds, <1>1, PTL

\* The monitor implements its contract: every step runs a request for the
\* first time, tells its sender the one outcome, or changes neither.
THEOREM KeepsPromise == Spec => Contract
<1>1. Init => Promise!Init
  BY DEF Init, Promise!Init
<1>2. Inv /\ [Next]_vars => [Promise!Next]_(Promise!vars)
  <2> SUFFICES ASSUME Inv, [Next]_vars PROVE [Promise!Next]_(Promise!vars)
    OBVIOUS
  <2> USE DEF Promise!vars
  <2>1. CASE TurnStarts
    <3>1. current \in Requests /\ executions[current] = 0 /\ recorded[current] = {}
      BY <2>1, InHand DEF TurnStarts, Inv, Working, Hand, Fate, FateOfRunning, Untold
    <3>2. Promise!Run(current)
      BY <2>1, <3>1 DEF TurnStarts, Promise!Run
    <3> QED
      BY <3>1, <3>2 DEF Promise!Next
  <2>2. CASE \E m \in Requests, t \in Outcomes : BusRecords(m, t)
    <3> PICK m \in Requests, t \in Outcomes : BusRecords(m, t)
      BY <2>2
    <3>1. <<m, t>> \in inflight /\ recorded' = [recorded EXCEPT ![m] = @ \cup {t}]
          /\ UNCHANGED executions
      BY DEF BusRecords
    <3>2. jobs[m].status \in {"reply", "done"}
      BY <3>1, JobTyped DEF Inv, TypeOK, Fate, FateOfAbsent, FateOfRunning, Untold
    <3>3. CASE t \in recorded[m]
      <4>1. recorded' = recorded
        BY <3>1, <3>3 DEF Inv, TypeOK
      <4> QED
        BY <3>1, <4>1
    <3>4. CASE t \notin recorded[m]
      <4>1. jobs[m].status = "reply" /\ t = jobs[m].reply /\ recorded[m] = {}
        BY <3>1, <3>2, <3>4 DEF Inv, Fate, FateOfReply, FateOfDone, OnlyTold, Untold
      <4>2. t = "answer" => executions[m] = 1
        BY <4>1 DEF Inv, Fate, FateOfReply
      <4>3. recorded' = [recorded EXCEPT ![m] = {t}]
        BY <3>1, <4>1
      <4>4. Promise!Tell(m, t)
        BY <3>1, <4>1, <4>2, <4>3 DEF Promise!Tell
      <4> QED
        BY <4>4 DEF Promise!Next
    <3> QED
      BY <3>3, <3>4
  <2>3. CASE ~TurnStarts /\ ~(\E m \in Requests, t \in Outcomes : BusRecords(m, t))
    <3>1. UNCHANGED <<executions, recorded>>
      BY <2>3 DEF vars, Next, Process, Around, Accept, Push, HumanDrain, LoseReply, Start,
                  Scan, EndPass, TakeDone, TakeReply, Skip, Run, TakeNew, Take,
                  TurnCompletes, TurnFails, CheckOutbox, SendAccepted, SendRejected,
                  LeaveInOutbox, Confirm, Finish, Mark, Crash
    <3> QED
      BY <3>1
  <2> QED
    BY <2>1, <2>2, <2>3
<1> QED
  BY <1>1, <1>2, InvHolds, PTL DEF Spec, Contract, Promise!Spec
=============================================================================
