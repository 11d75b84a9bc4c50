------------------------------ MODULE Election ------------------------------
(***************************************************************************)
(* How the listeners of one machine find, start and trust the bus server   *)
(* of one endpoint: spawn.py (probe, bind, spawn, wait), server.py (publish *)
(* the identity files, listen, stop, remove the files) and shared.py (the  *)
(* identity check of client.py).  Nothing but the kernel's bind and listen *)
(* is atomic: the two identity files are written, read and removed in      *)
(* steps of their own, by processes that know nothing of each other.       *)
(*                                                                         *)
(* Left out: ports and hosts other than the endpoint's, the legacy file    *)
(* names, a foreign process on the port, and the instant between           *)
(* truncating a file and writing its one line.                             *)
(***************************************************************************)
EXTENDS Naturals, FiniteSets

CONSTANTS Clients,   \* listener processes
          Servers,   \* process ids a server can get
          NoServer,  \* what a missing file names
          Hosts,     \* the environments to consider
          MaxAlive   \* bound: server processes alive at a time

(* exclusive: bind() refuses an address that another socket holds without  *)
(* listening yet.  BSD and macOS do; Linux, with SO_REUSEADDR set on both, *)
(* does not.  slow: a server may take longer to start than a client waits. *)
(* byHand: somebody also runs server.py directly.  faults: how often a     *)
(* server stops (idle, SIGTERM) or is killed.                              *)
Host == [exclusive : BOOLEAN, slow : BOOLEAN, byHand : BOOLEAN, faults : Nat]

ASSUME ElectionAssumption ==
    /\ NoServer \notin Servers
    /\ Hosts \subseteq Host
    /\ MaxAlive \in Nat

VARIABLES
    host,      \* the environment of this behaviour
    step,      \* where each client is in Client.run
    link,      \* the server a connected client is connected to
    seen,      \* the pid a client read in verify_server_identity
    stage,     \* where each server process is in Server.serve
    pidFile,   \* the server named by server.<port>.pid
    metaFile,  \* the server named by server.<port>.pid.meta
    faults,    \* how many servers stopped or were killed
    killed,    \* servers that had no chance to clean up
    disturbed  \* history: servers whose files another one wrote or removed

files == <<pidFile, metaFile>>
history == <<faults, killed, disturbed>>
vars == <<host, step, link, seen, stage, files, history>>

Steps == {"off", "probing", "binding", "bound", "waiting", "verifying",
          "looking", "matching", "connecting", "connected", "refused", "left"}
Checking == {"looking", "matching"}

Contending == {"starting", "named", "published"}
Publishing == {"named", "published", "serving"}
Clearing == {"clearPid", "unlinkPid", "clearMeta", "unlinkMeta"}
Stages == {"ended"} \cup Contending \cup {"serving"} \cup Clearing

(* Every variable has its type; a client is connected to a server that     *)
(* serves, and remembers a pid exactly while it checks it.                 *)
TypeOK ==
    /\ host \in Hosts
    /\ step \in [Clients -> Steps]
    /\ link \in [Clients -> Servers \cup {NoServer}]
    /\ seen \in [Clients -> Servers \cup {NoServer}]
    /\ stage \in [Servers -> Stages]
    /\ pidFile \in Servers \cup {NoServer}
    /\ metaFile \in Servers \cup {NoServer}
    /\ faults \in 0..host.faults
    /\ killed \subseteq Servers
    /\ disturbed \subseteq Servers
    /\ \A c \in Clients :
           /\ step[c] = "connected" <=> link[c] # NoServer
           /\ link[c] # NoServer => stage[link[c]] = "serving"
           /\ step[c] \in Checking <=> seen[c] # NoServer

Init ==
    /\ host \in Hosts
    /\ step = [c \in Clients |-> "off"]
    /\ link = [c \in Clients |-> NoServer]
    /\ seen = [c \in Clients |-> NoServer]
    /\ stage = [p \in Servers |-> "ended"]
    /\ pidFile = NoServer
    /\ metaFile = NoServer
    /\ faults = 0
    /\ killed = {}
    /\ disturbed = {}

----------------------------------------------------------------------------
(* The kernel's view of the endpoint.                                      *)

Alive(p) == stage[p] # "ended"
Listening == {p \in Servers : stage[p] = "serving"}

(* Somebody holds a bound socket that does not listen yet: a client about  *)
(* to spawn, or the server that inherited it.                              *)
Coming == \/ \E c \in Clients : step[c] = "bound"
          \/ \E p \in Servers : stage[p] \in Contending

CanBind == Listening = {} /\ (host.exclusive => ~Coming)

(* A process id that nothing remembers; which one does not matter, for     *)
(* they are only compared.                                                 *)
Unused(p) ==
    /\ ~Alive(p)
    /\ p \notin {pidFile, metaFile}
    /\ \A c \in Clients : seen[c] # p

Begin ==
    /\ Cardinality({q \in Servers : Alive(q)}) < MaxAlive
    /\ \E p \in Servers : Unused(p)
    /\ LET p == CHOOSE q \in Servers : Unused(q)
       IN  /\ stage' = [stage EXCEPT ![p] = "starting"]
           /\ killed' = killed \ {p}
           /\ disturbed' = disturbed \ {p}
    /\ UNCHANGED faults

----------------------------------------------------------------------------
(* A client: Client.run, ensure_server_running, verify_server_identity.    *)

ClientMoves(c, from, to) ==
    /\ step[c] = from
    /\ step' = [step EXCEPT ![c] = to]
    /\ UNCHANGED host

Start(c) ==
    /\ ClientMoves(c, "off", "probing")
    /\ UNCHANGED <<link, seen, stage, files, history>>

Leave(c) ==
    /\ ClientMoves(c, "connected", "left")
    /\ link' = [link EXCEPT ![c] = NoServer]
    /\ UNCHANGED <<seen, stage, files, history>>

(* is_server_up: a TCP connect that is closed at once.                     *)
Probe(c) ==
    /\ ClientMoves(c, "probing", IF Listening = {} THEN "binding" ELSE "verifying")
    /\ UNCHANGED <<link, seen, stage, files, history>>

\* Mutant: whoever loses the bind does not wait for the winner's server.
BindNoWait(c) ==
    /\ ClientMoves(c, "binding", IF CanBind THEN "bound" ELSE "verifying")
    /\ UNCHANGED <<link, seen, stage, files, history>>

(* EADDRINUSE, EACCES: somebody else has won; wait for the server.         *)
Bind(c) ==
    /\ ClientMoves(c, "binding", IF CanBind THEN "bound" ELSE "waiting")
    /\ UNCHANGED <<link, seen, stage, files, history>>

(* Popen hands the bound socket on; the client closes its own copy.        *)
Spawn(c) ==
    /\ ClientMoves(c, "bound", "waiting")
    /\ Begin
    /\ UNCHANGED <<link, seen, files>>

(* wait_for_server polls for two or five seconds.  run() ignores its       *)
(* answer and goes on to the identity check either way.                    *)
ServerUp(c) ==
    /\ Listening # {}
    /\ ClientMoves(c, "waiting", "verifying")
    /\ UNCHANGED <<link, seen, stage, files, history>>

\* Mutant: the wait has no end of its own.
GiveUpNever(c) ==
    /\ Listening = {}
    /\ host.slow /\ Coming
    /\ ClientMoves(c, "waiting", "verifying")
    /\ UNCHANGED <<link, seen, stage, files, history>>

GiveUpWaiting(c) ==
    /\ Listening = {}
    /\ host.slow \/ ~Coming
    /\ ClientMoves(c, "waiting", "verifying")
    /\ UNCHANGED <<link, seen, stage, files, history>>

(* os.kill(pid, 0) reaches a process that runs, and one that was killed    *)
(* until the listener that spawned it reaps it or ends.                    *)
Signalled(p) == IF Alive(p) THEN {TRUE} ELSE IF p \in killed THEN BOOLEAN ELSE {FALSE}

(* No pid file, or one that names a dead process: refuse, and stop the     *)
(* listener for good.                                                      *)
ReadPid(c) ==
    \E live \in IF pidFile = NoServer THEN {FALSE} ELSE Signalled(pidFile) :
        /\ ClientMoves(c, "verifying", IF live THEN "looking" ELSE "refused")
        /\ seen' = [seen EXCEPT ![c] = IF live THEN pidFile ELSE NoServer]
        /\ UNCHANGED <<link, stage, files, history>>

Conclude(c, from, trusted) ==
    /\ ClientMoves(c, from, IF trusted THEN "connecting" ELSE "refused")
    /\ seen' = [seen EXCEPT ![c] = NoServer]
    /\ UNCHANGED <<link, stage, files, history>>

(* Without a meta file the process's command line decides, which a process *)
(* that has ended, reaped or not, no longer shows.                         *)
LookForMeta(c) ==
    IF metaFile # NoServer
      THEN /\ ClientMoves(c, "looking", "matching")
           /\ UNCHANGED <<link, seen, stage, files, history>>
      ELSE Conclude(c, "looking", Alive(seen[c]))

MatchMeta(c) == Conclude(c, "matching", metaFile = seen[c])

(* The websocket handshake and the hello that puts the listener in the     *)
(* registry.                                                               *)
Connect(c, p) ==
    /\ p \in Listening
    /\ ClientMoves(c, "connecting", "connected")
    /\ link' = [link EXCEPT ![c] = p]
    /\ UNCHANGED <<seen, stage, files, history>>

(* ConnectionRefusedError: back off and start over.                        *)
Retry(c) ==
    /\ Listening = {}
    /\ ClientMoves(c, "connecting", "probing")
    /\ UNCHANGED <<link, seen, stage, files, history>>

----------------------------------------------------------------------------
(* A server: Server.serve and _unlink_own_identity.                        *)

ServerMoves(p, from, to) ==
    /\ stage[p] = from
    /\ stage' = [stage EXCEPT ![p] = to]
    /\ UNCHANGED host

(* Somebody runs server.py by hand: without --fd it binds the address.     *)
StartDirect ==
    /\ host.byHand
    /\ CanBind
    /\ Begin
    /\ UNCHANGED <<host, step, link, seen, files>>

(* What p writes or removes is lost to every other server that published.  *)
Touches(p) ==
    /\ disturbed' = disturbed \cup {q \in Servers \ {p} : stage[q] \in Publishing}
    /\ UNCHANGED <<step, link, seen, faults, killed>>

PublishPid(p) ==
    /\ ServerMoves(p, "starting", "named")
    /\ pidFile' = p
    /\ UNCHANGED metaFile
    /\ Touches(p)

\* Mutant: a meta file that exists already is left alone.
PublishMetaOnce(p) ==
    /\ ServerMoves(p, "named", "published")
    /\ metaFile' = IF metaFile = NoServer THEN p ELSE metaFile
    /\ UNCHANGED pidFile
    /\ Touches(p)

PublishMeta(p) ==
    /\ ServerMoves(p, "named", "published")
    /\ metaFile' = p
    /\ UNCHANGED pidFile
    /\ Touches(p)

Fault ==
    /\ faults < host.faults
    /\ faults' = faults + 1

(* The connections of p break.                                             *)
Dropped(p) ==
    /\ step' = [c \in Clients |-> IF link[c] = p THEN "probing" ELSE step[c]]
    /\ link' = [c \in Clients |-> IF link[c] = p THEN NoServer ELSE link[c]]

\* Mutant: a server that cannot listen ends without cleaning up.
ListenOrDie(p) ==
    /\ ServerMoves(p, "published", IF Listening = {} THEN "serving" ELSE "ended")
    /\ UNCHANGED <<step, link, seen, files, history>>

\* Mutant: the server listens before it publishes the second file.
ListenEarly(p) ==
    /\ stage[p] \in {"named", "published"}
    /\ ServerMoves(p, stage[p], IF Listening = {} THEN "serving" ELSE "clearPid")
    /\ UNCHANGED <<step, link, seen, files, history>>

(* listen() fails if another socket listens: take the files back and end.  *)
Listen(p) ==
    /\ ServerMoves(p, "published", IF Listening = {} THEN "serving" ELSE "clearPid")
    /\ UNCHANGED <<step, link, seen, files, history>>

(* _idle_shutdown_loop: nobody is registered.                              *)
IdleStop(p) ==
    /\ Fault
    /\ \A c \in Clients : link[c] # p
    /\ ServerMoves(p, "serving", "clearPid")
    /\ UNCHANGED <<step, link, seen, files, killed, disturbed>>

\* Mutant: the connections outlive the server that stops.
TerminateQuietly(p) ==
    /\ Fault
    /\ ServerMoves(p, "serving", "clearPid")
    /\ UNCHANGED <<step, link, seen, files, killed, disturbed>>

(* SIGTERM: close the listening socket and the connections.                *)
Terminate(p) ==
    /\ Fault
    /\ ServerMoves(p, "serving", "clearPid")
    /\ Dropped(p)
    /\ UNCHANGED <<seen, files, killed, disturbed>>

ReadOwnPid(p) ==
    /\ ServerMoves(p, "clearPid", IF pidFile = p THEN "unlinkPid" ELSE "clearMeta")
    /\ UNCHANGED <<step, link, seen, files, history>>

UnlinkPid(p) ==
    /\ ServerMoves(p, "unlinkPid", "clearMeta")
    /\ pidFile' = NoServer
    /\ UNCHANGED metaFile
    /\ Touches(p)

ReadOwnMeta(p) ==
    /\ ServerMoves(p, "clearMeta", IF metaFile = p THEN "unlinkMeta" ELSE "ended")
    /\ UNCHANGED <<step, link, seen, files, history>>

UnlinkMeta(p) ==
    /\ ServerMoves(p, "unlinkMeta", "ended")
    /\ metaFile' = NoServer
    /\ UNCHANGED pidFile
    /\ Touches(p)

Kill(p) ==
    /\ Fault
    /\ Alive(p)
    /\ ServerMoves(p, stage[p], "ended")
    /\ Dropped(p)
    /\ killed' = killed \cup {p}
    /\ UNCHANGED <<seen, files, disturbed>>

----------------------------------------------------------------------------
Client(c) ==
    \/ Probe(c) \/ Bind(c) \/ Spawn(c)
    \/ ServerUp(c) \/ GiveUpWaiting(c)
    \/ ReadPid(c) \/ LookForMeta(c) \/ MatchMeta(c)
    \/ (\E p \in Servers : Connect(c, p)) \/ Retry(c)

Server(p) ==
    \/ PublishPid(p) \/ PublishMeta(p) \/ Listen(p)
    \/ ReadOwnPid(p) \/ UnlinkPid(p) \/ ReadOwnMeta(p) \/ UnlinkMeta(p)

Around ==
    \/ \E c \in Clients : Start(c) \/ Leave(c)
    \/ StartDirect
    \/ \E p \in Servers : IdleStop(p) \/ Terminate(p) \/ Kill(p)

Next ==
    \/ \E c \in Clients : Client(c)
    \/ \E p \in Servers : Server(p)
    \/ Around

Spec == Init /\ [][Next]_vars

(* The kernel runs every process that can go on; no user has to start a    *)
(* listener, no server has to stop.                                        *)
Fairness ==
    /\ \A c \in Clients : WF_vars(Client(c))
    /\ \A p \in Servers : WF_vars(Server(p))

FairSpec == Spec /\ Fairness

----------------------------------------------------------------------------
(* The files of a serving server name it, unless another server process    *)
(* overwrote or removed them after it published: "publish identity before  *)
(* TCP probes can succeed" (Server.serve), and no third way to lose them.  *)
ServingIsPublished ==
    \A p \in Listening \ disturbed : pidFile = p /\ metaFile = p

(* The identity check turns a listener away from a server that serves only *)
(* when another server process touched that server's files, or when the    *)
(* check began before it served (verify_server_identity, three reads).     *)
RefusalNeedsDisturbance ==
    [][\A c \in Clients :
         step[c] \in {"verifying"} \cup Checking /\ step'[c] = "refused"
           => \A p \in Listening :
                step[c] = "verifying" \/ seen[c] = p => p \in disturbed]_vars

(* A file outlives the server it names only when that server was killed:   *)
(* whoever fails to listen, stops or loses a race takes back what is still *)
(* its own (_unlink_own_identity on every way out of serve).               *)
OrphansWereKilled ==
    \A p \in Servers \ killed : p \in {pidFile, metaFile} => Alive(p)

(* The server process p has the endpoint's socket, listening or about to.  *)
Holds(p) == stage[p] \in Contending \cup {"serving"}

(* Where bind() elects one process, one server at a time has the socket;   *)
(* until something stops or is killed no server is started in vain, and    *)
(* where servers start in time no listener is turned away, whoever lost    *)
(* which race: "every other caller must observe that server coming up"     *)
(* (ensure_server_running, serve, verify_server_identity).                 *)
BindElects ==
    host.exclusive =>
        /\ \A p, q \in Servers : Holds(p) /\ Holds(q) => p = q
        /\ faults = 0 => \A p \in Servers : stage[p] \notin Clearing
        /\ faults = 0 /\ ~host.slow => \A c \in Clients : step[c] # "refused"

(* No listener starts over for ever: it gets connected or gives up.        *)
Settles ==
    \A c \in Clients : step[c] = "probing" ~> step[c] \in {"connected", "refused"}

(* Nothing unkind happens any more, and whoever stopped has cleaned up.    *)
Calm ==
    /\ ~host.slow
    /\ faults = host.faults
    /\ \A p \in Servers : stage[p] \notin Clearing
    /\ \A p \in disturbed : stage[p] \notin Publishing

(* Where bind() elects one process, every listener that starts, or starts  *)
(* over after a server died, gets connected: the files a killed server     *)
(* left behind and the wait of the ones that lost the bind do no harm      *)
(* (ensure_server_running, serve, verify_server_identity).                 *)
ElectedServes ==
    \A c \in Clients :
        (host.exclusive /\ Calm /\ step[c] = "probing") ~> step[c] = "connected"

(* The same without the condition on bind(), which the tests take for      *)
(* granted everywhere.                                                     *)
AlwaysServes ==
    \A c \in Clients : (Calm /\ step[c] = "probing") ~> step[c] = "connected"
=============================================================================
