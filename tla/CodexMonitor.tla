---------------------------- MODULE CodexMonitor ----------------------------
(***************************************************************************)
(* The Codex adapter (adapters/codex/monitor.py, journal.py, rpc.py): one  *)
(* process that takes the requests the bus stored for it, runs each in a   *)
(* Codex thread and sends the final answer back, keeping a durable job per *)
(* request so that a crash at any point neither repeats a request nor      *)
(* loses its reply.  The process and the bus share the message table: both *)
(* write rows of it, in steps of their own.                                *)
(***************************************************************************)
EXTENDS Naturals, FiniteSets

CONSTANTS Requests,       \* message ids addressed to the monitor
          Informational,  \* those it skips: done:/status:/answer:, other peers
          Offline,        \* those whose sender's session is never reachable
          NoRequest,      \* the value of `current` between two requests
          MaxCrashes      \* bound: how often the process dies unasked

ASSUME RequestsAssumption ==
    /\ Informational \subseteq Requests
    /\ Offline \subseteq Requests
    /\ NoRequest \notin Requests
    /\ MaxCrashes \in Nat

Actionable == Requests \ Informational

(* The outcomes a sender is told: the answer of a finished turn, the text  *)
(* saved when a turn fails or times out, and the one Journal.__init__      *)
(* writes for a job that a crash left running.                             *)
Outcomes == {"answer", "failed", "interrupted"}

VARIABLES
    accepted,    \* requests the bus has logged for the monitor
    rows,        \* their delivery rows, as far as the monitor reads them
    jobs,        \* Journal.jobs: id -> status and reply
    executions,  \* history: how often Codex started a turn for a request
    inflight,    \* replies handed to the bus and not yet processed there
    recorded,    \* outcomes the bus recorded for the request's sender
    pc,          \* where Monitor.work is
    todo,        \* the rows of this pass not yet processed
    current,     \* the row in Monitor.process
    crashes      \* how often the process was killed

vars == <<accepted, rows, jobs, executions, inflight, recorded,
          pc, todo, current, crashes>>

RowStates == {"absent", "waiting", "drained", "decided"}

NoJob == [status |-> "absent", reply |-> "none"]
Replying(t) == [status |-> "reply", reply |-> t]

(* A job carries a text exactly while it is waiting to be sent: save()     *)
(* replaces the whole row and clears the reply in every other status.      *)
Jobs == {[status |-> s, reply |-> "none"] : s \in {"absent", "running", "done"}}
          \cup {Replying(t) : t \in Outcomes}

Between == {"down", "idle", "taking"}
Working == {"skipping", "running", "executing", "replying", "sending",
            "confirming", "finishing", "marking"}

(* Every variable has its type; a request is in hand exactly between       *)
(* taking a row and leaving it.  In particular no job waits in the outbox  *)
(* without a text to send.                                                 *)
TypeOK ==
    /\ accepted \subseteq Requests
    /\ rows \in [Requests -> RowStates]
    /\ jobs \in [Requests -> Jobs]
    /\ executions \in [Requests -> Nat]
    /\ inflight \subseteq Requests \X Outcomes
    /\ recorded \in [Requests -> SUBSET Outcomes]
    /\ pc \in Between \cup Working
    /\ todo \subseteq Requests
    /\ current \in IF pc \in Between THEN {NoRequest} ELSE Requests
    /\ crashes \in 0..MaxCrashes

Init ==
    /\ accepted = {}
    /\ rows = [m \in Requests |-> "absent"]
    /\ jobs = [m \in Requests |-> NoJob]
    /\ executions = [m \in Requests |-> 0]
    /\ inflight = {}
    /\ recorded = [m \in Requests |-> {}]
    /\ pc = "down"
    /\ todo = {}
    /\ current = NoRequest
    /\ crashes = 0

----------------------------------------------------------------------------
(* The bus and the people around the monitor.                              *)

(* The bus logs a request and stores its row; a bus without SQLite, or one *)
(* whose insert fails, only logs it.                                       *)
Accept(m) ==
    /\ m \notin accepted
    /\ accepted' = accepted \cup {m}
    /\ \E stored \in {"waiting", rows[m]} : rows' = [rows EXCEPT ![m] = stored]
    /\ UNCHANGED <<jobs, executions, inflight, recorded, pc, todo, current, crashes>>

(* The listener's on_message callback: persist what the bus did not.       *)
Push(m) ==
    /\ pc # "down"
    /\ m \in accepted
    /\ rows[m] = "absent"
    /\ rows' = [rows EXCEPT ![m] = "waiting"]
    /\ UNCHANGED <<accepted, jobs, executions, inflight, recorded,
                   pc, todo, current, crashes>>

(* A person drains the session's inbox: the row is read, not answered.     *)
HumanDrain(m) ==
    /\ rows[m] = "waiting"
    /\ rows' = [rows EXCEPT ![m] = "drained"]
    /\ UNCHANGED <<accepted, jobs, executions, inflight, recorded,
                   pc, todo, current, crashes>>

(* The bus processes a reply: it logs and stores it, and a bus with SQLite *)
(* writes the disposition of the request it answers.                       *)
BusRecords(m, t) ==
    /\ <<m, t>> \in inflight
    /\ inflight' = inflight \ {<<m, t>>}
    /\ recorded' = [recorded EXCEPT ![m] = @ \cup {t}]
    /\ rows' \in {rows, [rows EXCEPT ![m] = IF @ = "absent" THEN @ ELSE "decided"]}
    /\ UNCHANGED <<accepted, jobs, executions, pc, todo, current, crashes>>

(* The bus dies, or its listener check fails, before it records a reply.   *)
LoseReply(m, t) ==
    /\ <<m, t>> \in inflight
    /\ inflight' = inflight \ {<<m, t>>}
    /\ UNCHANGED <<accepted, rows, jobs, executions, recorded,
                   pc, todo, current, crashes>>

----------------------------------------------------------------------------
(* The monitor's process.                                                  *)

\* Mutant: an interrupted job is forgotten, to be taken as new.
QuarantineForgets(job) ==
    IF job.status = "running" THEN NoJob ELSE job

\* Mutant: the status is updated without a text to send.
QuarantineMute(job) ==
    IF job.status = "running" THEN [job EXCEPT !.status = "reply"] ELSE job

Quarantine(job) ==
    IF job.status = "running" THEN Replying("interrupted") ELSE job

(* The process starts: Journal.__init__ turns every job a crash left       *)
(* running into a reply, and the listener connects to the bus.             *)
Start ==
    /\ pc = "down"
    /\ pc' = "idle"
    /\ jobs' = [m \in Requests |-> Quarantine(jobs[m])]
    /\ UNCHANGED <<accepted, rows, executions, inflight, recorded,
                   todo, current, crashes>>

(* recover_log: the log holds every accepted request.                      *)
Recovered == [m \in Requests |->
    IF m \in accepted /\ rows[m] = "absent" THEN "waiting" ELSE rows[m]]

\* Mutant: the pass takes the rows only, not the outbox.
UnansweredRows(deliveries) ==
    {m \in Requests : deliveries[m] \in {"waiting", "drained"}}

(* The rows of one pass: every row without a disposition, read or not, and *)
(* every reply in the outbox, whatever its row says.                       *)
Unanswered(deliveries) ==
    {m \in Requests : deliveries[m] \in {"waiting", "drained"}}
        \cup {m \in Requests : jobs[m].status = "reply"}

(* One pass of Monitor.work begins: read the log, then the rows.           *)
Scan ==
    /\ pc = "idle"
    /\ rows' = Recovered
    /\ todo' = Unanswered(rows')
    /\ pc' = "taking"
    /\ UNCHANGED <<accepted, jobs, executions, inflight, recorded, current, crashes>>

EndPass ==
    /\ pc = "taking"
    /\ todo = {}
    /\ pc' = "idle"
    /\ UNCHANGED <<accepted, rows, jobs, executions, inflight, recorded,
                   todo, current, crashes>>

(* process() looks up the job of the next row of the pass.                 *)
Take(m) ==
    /\ pc = "taking"
    /\ m \in todo
    /\ todo' = todo \ {m}
    /\ UNCHANGED <<accepted, rows, executions, inflight, recorded, crashes>>

TakeDone(m) ==
    /\ Take(m)
    /\ jobs[m].status = "done"
    /\ UNCHANGED <<jobs, pc, current>>

TakeReply(m) ==
    /\ Take(m)
    /\ jobs[m].status = "reply"
    /\ pc' = "replying"
    /\ current' = m
    /\ UNCHANGED jobs

(* A job in any other status falls through to a skip or to an execution.   *)
TakeNew(m, status, next) ==
    /\ Take(m)
    /\ jobs[m].status \notin {"done", "reply"}
    /\ jobs' = [jobs EXCEPT ![m] = [status |-> status, reply |-> "none"]]
    /\ pc' = next
    /\ current' = m

\* Mutant: the job of a skipped message is saved, its row forgotten.
SkipUnmarked(m) == m \in Informational /\ TakeNew(m, "done", "taking")

Skip(m) == m \in Informational /\ TakeNew(m, "done", "skipping")
Run(m)  == m \in Actionable /\ TakeNew(m, "running", "running")

(* Codex accepts turn/start: from here on the request may have effects.    *)
TurnStarts ==
    /\ pc = "running"
    /\ pc' = "executing"
    /\ executions' = [executions EXCEPT ![current] = @ + 1]
    /\ UNCHANGED <<accepted, rows, jobs, inflight, recorded, todo, current, crashes>>

TurnCompletes ==
    /\ pc = "executing"
    /\ pc' = "replying"
    /\ jobs' = [jobs EXCEPT ![current] = Replying("answer")]
    /\ UNCHANGED <<accepted, rows, executions, inflight, recorded,
                   todo, current, crashes>>

(* The turn fails, is refused or runs out of time: save the reply and stop *)
(* the process, leaving the rest of the pass for the next start.           *)
TurnFails ==
    /\ pc \in {"running", "executing"}
    /\ pc' = "down"
    /\ jobs' = [jobs EXCEPT ![current] = Replying("failed")]
    /\ todo' = {}
    /\ current' = NoRequest
    /\ UNCHANGED <<accepted, rows, executions, inflight, recorded, crashes>>

Acknowledged(m) == jobs[m].reply \in recorded[m]

(* deliver() looks for the reply among the recorded messages first.        *)
CheckOutbox ==
    /\ pc = "replying"
    /\ pc' = IF Acknowledged(current) THEN "finishing" ELSE "sending"
    /\ UNCHANGED <<accepted, rows, jobs, executions, inflight, recorded,
                   todo, current, crashes>>

(* send._run reaches the bus and hears no error within its second.         *)
SendAccepted(m) ==
    /\ pc = "sending"
    /\ current = m
    /\ m \notin Offline
    /\ pc' = "confirming"
    /\ inflight' = inflight \cup {<<m, jobs[m].reply>>}
    /\ UNCHANGED <<accepted, rows, jobs, executions, recorded, todo, current, crashes>>

(* The reply waits in the outbox; the pass goes on with the next row.      *)
LeaveInOutbox ==
    /\ pc' = "taking"
    /\ current' = NoRequest
    /\ UNCHANGED <<accepted, rows, jobs, executions, inflight, recorded,
                   todo, crashes>>

SendRejected == pc = "sending" /\ LeaveInOutbox

\* Mutant: a send without an error counts as delivered.
ConfirmSilence ==
    /\ pc = "confirming"
    /\ pc' = "finishing"
    /\ UNCHANGED <<accepted, rows, jobs, executions, inflight, recorded,
                   todo, current, crashes>>

(* Silence from the bus confirms nothing: look for the reply once more.    *)
Confirm ==
    /\ pc = "confirming"
    /\ IF Acknowledged(current)
         THEN /\ pc' = "finishing"
              /\ UNCHANGED <<accepted, rows, jobs, executions, inflight,
                             recorded, todo, current, crashes>>
         ELSE LeaveInOutbox

Finish ==
    /\ pc = "finishing"
    /\ pc' = "marking"
    /\ jobs' = [jobs EXCEPT ![current] = [status |-> "done", reply |-> "none"]]
    /\ UNCHANGED <<accepted, rows, executions, inflight, recorded,
                   todo, current, crashes>>

(* mark(): the journal says done already; a crash before this step leaves  *)
(* the row undecided.                                                      *)
Mark ==
    /\ pc \in {"skipping", "marking"}
    /\ pc' = "taking"
    /\ rows' = [rows EXCEPT ![current] = "decided"]
    /\ current' = NoRequest
    /\ UNCHANGED <<accepted, jobs, executions, inflight, recorded, todo, crashes>>

(* The process is killed, or an exception nobody handles ends it.          *)
Crash ==
    /\ pc # "down"
    /\ crashes < MaxCrashes
    /\ crashes' = crashes + 1
    /\ pc' = "down"
    /\ todo' = {}
    /\ current' = NoRequest
    /\ UNCHANGED <<accepted, rows, jobs, executions, inflight, recorded>>

----------------------------------------------------------------------------
Process ==
    \/ Start \/ Scan \/ EndPass
    \/ \E m \in Requests : TakeDone(m) \/ TakeReply(m) \/ Skip(m) \/ Run(m)
    \/ TurnStarts \/ TurnCompletes \/ TurnFails
    \/ CheckOutbox \/ (\E m \in Requests : SendAccepted(m)) \/ SendRejected
    \/ Confirm \/ Finish \/ Mark

Around ==
    \/ \E m \in Requests : Accept(m) \/ Push(m) \/ HumanDrain(m)
    \/ \E m \in Requests, t \in Outcomes : BusRecords(m, t) \/ LoseReply(m, t)

Next == Process \/ Around \/ Crash

Spec == Init /\ [][Next]_vars

(* The process goes on while it lives and its supervisor restarts it (the  *)
(* README's service "restarts after exit"); a turn ends because run_turn   *)
(* is under a timeout.  A reachable bus does not refuse or lose every one  *)
(* of infinitely many attempts.                                            *)
Fairness ==
    /\ WF_vars(Process)
    /\ \A m \in Actionable \ Offline :
           /\ SF_vars(SendAccepted(m))
           /\ SF_vars(\E t \in Outcomes : BusRecords(m, t))

FairSpec == Spec /\ Fairness

----------------------------------------------------------------------------
Promise == INSTANCE RequestContract
             WITH Requests <- Requests, Answer <- "answer",
                  runs <- executions, told <- recorded

(* Through crashes, failed turns, lost and repeated sends, a request is    *)
(* executed at most once and its sender is told one outcome only, an       *)
(* answer only of an executed request (Monitor.process, Journal.__init__). *)
Contract == Promise!Spec

(* A job of a request that asked for work is closed only when the bus has  *)
(* recorded its reply (deliver: a quiet send is not an acknowledgement).   *)
DoneIsAcknowledged ==
    \A m \in Actionable : jobs[m].status = "done" => recorded[m] # {}

(* Every request of a reachable sender is answered and its job closed,     *)
(* even when a person drained it first, when the bus had already decided   *)
(* its row before a crash, or when the outbox holds replies to senders     *)
(* that never come back (Monitor.work's union of rows and outbox).         *)
Answered ==
    \A m \in Actionable \ Offline :
        m \in accepted ~> (jobs[m].status = "done" /\ recorded[m] # {})

(* A message that asks for nothing is consumed without a turn: its job is  *)
(* closed however often the process dies, and its row leaves the           *)
(* disposition none unless a crash came between the journal's save and the *)
(* mark, which are transactions of two databases (Monitor.process).        *)
NotesConsumed ==
    \A m \in Informational :
        m \in accepted ~> (rows[m] = "decided" \/ (crashes > 0 /\ jobs[m].status = "done"))
=============================================================================
