------------------------------ MODULE Session ------------------------------
(***************************************************************************)
(* The state file of one AI agent session: its listener (client.py) writes *)
(* <key>.session when it is connected, the helper commands (list, send,    *)
(* drain, disconnect through discover.py) read it to find the listener and *)
(* remove it when they judge it stale.  A lock on <key>.lock keeps a       *)
(* second listener of the session away, and helpers from removing the file *)
(* of a live one; the listener's own exit handler runs without it.         *)
(*                                                                         *)
(* A listener process stands for its session id, nonce and pid, which are  *)
(* fixed for its life.  Left out: the walk up the process tree that finds  *)
(* the key, and a pid that the system gave to another program.             *)
(***************************************************************************)
EXTENDS Naturals

CONSTANTS Listeners,  \* listener processes started for the session
          Helpers,    \* helper commands run in the session
          Nobody      \* the value of a missing file, a free lock, no pid

ASSUME SessionAssumption ==
    /\ Nobody \notin Listeners \cup Helpers
    /\ Listeners \cap Helpers = {}

VARIABLES
    stage,  \* where each listener process is in client.main
    lock,   \* who holds the lock
    file,   \* the listener that <key>.session names
    step,   \* where each helper is
    seen    \* the listener whose state the helper read

vars == <<stage, lock, file, step, seen>>

Bound == {"running", "welcomed", "connected"}
Stages == {"off", "declined", "released", "gone"} \cup Bound
Holding == {"comparing", "unlinking"}
Steps == {"idle", "judging", "awaiting", "locking"} \cup Holding

(* Every variable has its type; the lock is held by the listener that runs *)
(* or the helper that cleans up, and a helper has a listener in mind while *)
(* it is busy.                                                             *)
TypeOK ==
    /\ stage \in [Listeners -> Stages]
    /\ lock \in Listeners \cup Helpers \cup {Nobody}
    /\ file \in Listeners \cup {Nobody}
    /\ step \in [Helpers -> Steps]
    /\ seen \in [Helpers -> Listeners \cup {Nobody}]
    /\ \A l \in Listeners : stage[l] \in Bound <=> lock = l
    /\ \A h \in Helpers : step[h] \in Holding <=> lock = h
    /\ \A h \in Helpers : step[h] # "idle" => seen[h] \in Listeners

Init ==
    /\ stage = [l \in Listeners |-> "off"]
    /\ lock = Nobody
    /\ file = Nobody
    /\ step = [h \in Helpers |-> "idle"]
    /\ seen = [h \in Helpers |-> Nobody]

Alive(l) == stage[l] \in Bound \cup {"released"}
Registered(l) == stage[l] \in {"welcomed", "connected"}

----------------------------------------------------------------------------
(* A listener: Client.run, the lock and the exit handler.                  *)

Moves(l, from, to) ==
    /\ stage[l] \in from
    /\ stage' = [stage EXCEPT ![l] = to]
    /\ UNCHANGED <<step, seen>>

\* Mutant: the lock is asked for and its answer is not looked at.
StartAnyway(l) ==
    /\ Moves(l, {"off"}, "running")
    /\ lock' = l
    /\ UNCHANGED file

(* _acquire_ppid_lock; a listener that does not get the lock says that     *)
(* another one is running, and ends without an exit handler.               *)
Start(l) ==
    /\ Moves(l, {"off"}, IF lock = Nobody THEN "running" ELSE "declined")
    /\ lock' = IF lock = Nobody THEN l ELSE lock
    /\ UNCHANGED file

(* The server registers the listener and welcomes it.                      *)
Welcome(l) ==
    /\ Moves(l, {"running"}, "welcomed")
    /\ UNCHANGED <<lock, file>>

(* _write_session_state: a new file takes the old one's place at once.     *)
WriteState(l) ==
    /\ Moves(l, {"welcomed"}, "connected")
    /\ file' = l
    /\ UNCHANGED lock

Drop(l) ==
    /\ Moves(l, {"welcomed", "connected"}, "running")
    /\ UNCHANGED <<lock, file>>

(* SIGTERM, SIGINT or a refusal: run() returns, and its finally clause     *)
(* closes the lock's descriptor.                                           *)
Stop(l) ==
    /\ Moves(l, Bound, "released")
    /\ lock' = Nobody
    /\ UNCHANGED file

(* The exit handler removes whatever file is there.                        *)
DeleteState(l) ==
    /\ Moves(l, {"released"}, "gone")
    /\ file' = Nobody
    /\ UNCHANGED lock

(* SIGKILL: no handler runs, the kernel releases the lock.                 *)
Kill(l) ==
    /\ Alive(l)
    /\ Moves(l, {stage[l]}, "gone")
    /\ lock' = IF lock = l THEN Nobody ELSE lock
    /\ UNCHANGED file

----------------------------------------------------------------------------
(* A helper: find_listener_state, its judgement, unlink_if_matches.        *)

HelperMoves(h, from, to) ==
    /\ step[h] = from
    /\ step' = [step EXCEPT ![h] = to]

Look(h) ==
    /\ file # Nobody
    /\ HelperMoves(h, "idle", "judging")
    /\ seen' = [seen EXCEPT ![h] = file]
    /\ UNCHANGED <<stage, lock, file>>

(* list --self, drain and disconnect ask for the pid, send and list ask    *)
(* the bus, which answers unknown_peer for a listener it has not now.      *)
Stale(l) == ~Alive(l) \/ ~Registered(l)

JudgeStale(h) ==
    /\ HelperMoves(h, "judging", "locking")
    /\ Stale(seen[h])
    /\ UNCHANGED <<stage, lock, file, seen>>

(* Leave the file alone: the listener answers, a dead one still has its    *)
(* socket registered, or the bus is out of reach.                          *)
Leave(h) ==
    /\ HelperMoves(h, "judging", "idle")
    /\ UNCHANGED <<stage, lock, file, seen>>

(* disconnect sends SIGTERM, which makes the listener Stop in its own time *)
(* and waits three seconds for the process to end.                         *)
Disconnect(h) ==
    /\ HelperMoves(h, "judging", "awaiting")
    /\ Alive(seen[h])
    /\ UNCHANGED <<stage, lock, file, seen>>

SawItEnd(h) ==
    /\ HelperMoves(h, "awaiting", "locking")
    /\ ~Alive(seen[h])
    /\ UNCHANGED <<stage, lock, file, seen>>

GiveUp(h) ==
    /\ HelperMoves(h, "awaiting", "idle")
    /\ UNCHANGED <<stage, lock, file, seen>>

\* Mutant: a held lock does not stop the cleanup.
TryLockAnyway(h) ==
    /\ HelperMoves(h, "locking", IF lock = Nobody THEN "comparing" ELSE "unlinking")
    /\ lock' = h
    /\ UNCHANGED <<stage, file, seen>>

TryLock(h) ==
    /\ HelperMoves(h, "locking", IF lock = Nobody THEN "comparing" ELSE "idle")
    /\ lock' = IF lock = Nobody THEN h ELSE lock
    /\ UNCHANGED <<stage, file, seen>>

\* Mutant: the lock alone is taken as proof that the state is stale.
CompareNothing(h) ==
    /\ HelperMoves(h, "comparing", "unlinking")
    /\ UNCHANGED <<stage, lock, file, seen>>

(* Under the lock: is it still the state this helper read?                 *)
Compare(h) ==
    /\ HelperMoves(h, "comparing", IF file = seen[h] THEN "unlinking" ELSE "idle")
    /\ lock' = IF file = seen[h] THEN h ELSE Nobody
    /\ UNCHANGED <<stage, file, seen>>

Unlink(h) ==
    /\ HelperMoves(h, "unlinking", "idle")
    /\ file' = Nobody
    /\ lock' = Nobody
    /\ UNCHANGED <<stage, seen>>

(* A helper is interrupted.                                                *)
Abort(h) ==
    /\ step[h] # "idle"
    /\ HelperMoves(h, step[h], "idle")
    /\ lock' = IF lock = h THEN Nobody ELSE lock
    /\ UNCHANGED <<stage, file, seen>>

----------------------------------------------------------------------------
Listener(l) ==
    Start(l) \/ Welcome(l) \/ WriteState(l) \/ Drop(l) \/ Stop(l)
      \/ DeleteState(l) \/ Kill(l)

Helper(h) ==
    Look(h) \/ JudgeStale(h) \/ Leave(h) \/ Disconnect(h) \/ SawItEnd(h)
      \/ GiveUp(h) \/ TryLock(h) \/ Compare(h) \/ Unlink(h) \/ Abort(h)

Next == (\E l \in Listeners : Listener(l)) \/ (\E h \in Helpers : Helper(h))

Spec == Init /\ [][Next]_vars

----------------------------------------------------------------------------
(* While a listener serves the session the state file is its own or is     *)
(* missing: it never names another listener.                               *)
FileNamesHolder ==
    \A l \in Listeners : stage[l] = "connected" => file \in {l, Nobody}

(* A helper about to remove the file finds there the state it read and     *)
(* judged, of a listener that does not run, or nothing at all: it never    *)
(* removes what a fresh listener wrote in the meantime.                    *)
CleanupSparesOthers ==
    \A h \in Helpers : step[h] = "unlinking" =>
        /\ file \in {seen[h], Nobody}
        /\ stage[seen[h]] \notin Bound

(* The file of a listener that runs goes only when an earlier listener of  *)
(* the session, which released the lock and did not finish its exit        *)
(* handler yet, removes it: no helper takes it, however wrong its judgement *)
(* of a listener that is between two connections.                          *)
TakenOnlyByExit ==
    [][\A l \in Listeners : lock = l /\ file = l /\ file' # l =>
           \E k \in Listeners \ {l} : stage[k] = "released" /\ stage'[k] = "gone"]_vars
=============================================================================
