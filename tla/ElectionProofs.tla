--------------------------- MODULE ElectionProofs ---------------------------
(***************************************************************************)
(* Theorems about Election for any number of listeners and server          *)
(* processes and any environment: what the identity files say of the       *)
(* server that serves, of the servers that are gone, and of the listeners  *)
(* that were turned away, and what an exclusive bind() elects.             *)
(***************************************************************************)
EXTENDS Election, TLAPS

----------------------------------------------------------------------------
(* The inductive invariant.                                                *)

\* A server that published keeps what it published until another server
\* process touches the files.
Kept(p) ==
    /\ stage[p] \in Publishing /\ p \notin disturbed => pidFile = p
    /\ stage[p] \in {"published", "serving"} /\ p \notin disturbed => metaFile = p

\* A file that names a server which was not killed will be looked at again
\* by that server.
WillClear(p) ==
    p \notin killed =>
        /\ pidFile = p => stage[p] \in Publishing \cup {"clearPid", "unlinkPid"}
        /\ metaFile = p => stage[p] \in {"published", "serving"} \cup Clearing

Inv == TypeOK /\ \A p \in Servers : Kept(p) /\ WillClear(p)

USE DEF Alive, Listening

----------------------------------------------------------------------------
LEMMA HostTyped ==
  ASSUME TypeOK
  PROVE  host.faults \in Nat /\ faults \in Nat /\ faults <= host.faults
BY ElectionAssumption DEF TypeOK, Host

\* The process Begin starts is a server id that nothing remembers.
LEMMA BeginsUnused ==
  ASSUME Begin
  PROVE  \E p \in Servers : /\ Unused(p)
                            /\ stage' = [stage EXCEPT ![p] = "starting"]
                            /\ killed' = killed \ {p}
                            /\ disturbed' = disturbed \ {p}
                            /\ faults' = faults
<1> DEFINE p == CHOOSE q \in Servers : Unused(q)
<1>1. p \in Servers /\ Unused(p)
  BY DEF Begin
<1> QED
  BY <1>1 DEF Begin

\* What a listener concludes from the pid file.
PidRead(c, live) ==
  /\ ClientMoves(c, "verifying", IF live THEN "looking" ELSE "refused")
  /\ seen' = [seen EXCEPT ![c] = IF live THEN pidFile ELSE NoServer]
  /\ UNCHANGED <<link, stage, files, history>>
  /\ live => pidFile # NoServer
  /\ pidFile # NoServer /\ Alive(pidFile) => live

LEMMA ReadsSignalled ==
  ASSUME NEW c, ReadPid(c)
  PROVE  \E live \in BOOLEAN : PidRead(c, live)
BY DEF ReadPid, Signalled, PidRead

\* The part of TypeOK that the client's own steps concern.
Linked(c) ==
    /\ step[c] = "connected" <=> link[c] # NoServer
    /\ link[c] # NoServer => stage[link[c]] = "serving"
    /\ step[c] \in Checking <=> seen[c] # NoServer

LEMMA ClientTyped ==
  ASSUME TypeOK, NEW c \in Clients, Client(c) \/ Start(c) \/ Leave(c)
  PROVE  TypeOK'
<1> USE DEF TypeOK, ClientMoves, files, history, Steps, Checking
<1>1. CASE Start(c)
  BY <1>1 DEF Start
<1>2. CASE Leave(c)
  BY <1>2 DEF Leave
<1>3. CASE Probe(c)
  BY <1>3 DEF Probe
<1>4. CASE Bind(c)
  BY <1>4 DEF Bind
<1>5. CASE Spawn(c)
  <2> PICK p \in Servers : /\ Unused(p)
                           /\ stage' = [stage EXCEPT ![p] = "starting"]
                           /\ killed' = killed \ {p}
                           /\ disturbed' = disturbed \ {p}
                           /\ faults' = faults
    BY <1>5, BeginsUnused DEF Spawn
  <2>1. \A d \in Clients : link[d] # p
    BY ElectionAssumption DEF Unused
  <2> QED
    BY <1>5, <2>1 DEF Spawn, Stages, Contending
<1>6. CASE ServerUp(c)
  BY <1>6 DEF ServerUp
<1>7. CASE GiveUpWaiting(c)
  BY <1>7 DEF GiveUpWaiting
<1>8. CASE ReadPid(c)
  <2> PICK live \in BOOLEAN : PidRead(c, live)
    BY <1>8, ReadsSignalled
  <2> QED
    BY DEF PidRead
<1>9. CASE LookForMeta(c)
  <2>1. CASE metaFile # NoServer
    BY <1>9, <2>1 DEF LookForMeta
  <2>2. CASE metaFile = NoServer
    BY <1>9, <2>2 DEF LookForMeta, Conclude
  <2> QED
    BY <2>1, <2>2
<1>10. CASE MatchMeta(c)
  BY <1>10 DEF MatchMeta, Conclude
<1>11. CASE \E p \in Servers : Connect(c, p)
  BY <1>11, ElectionAssumption DEF Connect
<1>12. CASE Retry(c)
  BY <1>12 DEF Retry
<1> QED
  BY <1>1, <1>2, <1>3, <1>4, <1>5, <1>6, <1>7, <1>8, <1>9, <1>10, <1>11, <1>12
  DEF Client

LEMMA ServerTyped ==
  ASSUME TypeOK, NEW p \in Servers, Server(p) \/ IdleStop(p) \/ Terminate(p) \/ Kill(p)
  PROVE  TypeOK'
<1> USE DEF TypeOK, ServerMoves, files, history, Stages, Contending, Clearing
<1>1. CASE PublishPid(p)
  BY <1>1 DEF PublishPid, Touches
<1>2. CASE PublishMeta(p)
  BY <1>2 DEF PublishMeta, Touches
<1>3. CASE Listen(p)
  BY <1>3 DEF Listen
<1>4. CASE ReadOwnPid(p)
  BY <1>4 DEF ReadOwnPid
<1>5. CASE UnlinkPid(p)
  BY <1>5 DEF UnlinkPid, Touches
<1>6. CASE ReadOwnMeta(p)
  BY <1>6 DEF ReadOwnMeta
<1>7. CASE UnlinkMeta(p)
  BY <1>7 DEF UnlinkMeta, Touches
<1>8. CASE IdleStop(p)
  BY <1>8, HostTyped DEF IdleStop, Fault
<1>9. ASSUME Dropped(p), UNCHANGED <<host, seen>>,
             \E s \in {"clearPid", "ended"} : stage' = [stage EXCEPT ![p] = s]
      PROVE  /\ step' \in [Clients -> Steps]
             /\ link' \in [Clients -> Servers \cup {NoServer}]
             /\ \A c \in Clients : Linked(c)'
  BY <1>9, ElectionAssumption DEF Dropped, Linked, Steps, Checking
<1>10. CASE Terminate(p)
  BY <1>10, <1>9, HostTyped DEF Terminate, Fault, Linked
<1>11. CASE Kill(p)
  BY <1>11, <1>9, HostTyped DEF Kill, Fault, Linked
<1> QED
  BY <1>1, <1>2, <1>3, <1>4, <1>5, <1>6, <1>7, <1>8, <1>10, <1>11 DEF Server

LEMMA DirectTyped ==
  ASSUME TypeOK, StartDirect
  PROVE  TypeOK'
<1> PICK p \in Servers : /\ Unused(p)
                         /\ stage' = [stage EXCEPT ![p] = "starting"]
                         /\ killed' = killed \ {p}
                         /\ disturbed' = disturbed \ {p}
                         /\ faults' = faults
  BY BeginsUnused DEF StartDirect
<1>1. \A d \in Clients : link[d] # p
  BY ElectionAssumption DEF Unused, TypeOK
<1> QED
  BY <1>1 DEF StartDirect, TypeOK, files, Stages, Contending

LEMMA StepTyped == TypeOK /\ [Next]_vars => TypeOK'
<1> SUFFICES ASSUME TypeOK, [Next]_vars PROVE TypeOK'
  OBVIOUS
<1>1. CASE UNCHANGED vars
  BY <1>1 DEF vars, files, history, TypeOK
<1>2. CASE Next
  BY <1>2, ClientTyped, ServerTyped, DirectTyped DEF Next, Around
<1> QED
  BY <1>1, <1>2

\* Types and links are preserved by every step.
THEOREM TypeInvariant == Spec => []TypeOK
<1>1. Init => TypeOK
  BY ElectionAssumption DEF Init, TypeOK, Host, Steps, Stages, Checking
<1> QED
  BY <1>1, StepTyped, PTL DEF Spec

----------------------------------------------------------------------------
(* The files.                                                              *)

LEMMA InitKept == Init => \A p \in Servers : Kept(p) /\ WillClear(p)
BY ElectionAssumption DEF Init, Kept, WillClear, Publishing

\* A client's step writes no file; the process it may start is in none.
LEMMA BeginKeeps ==
  ASSUME Inv, Begin, UNCHANGED files
  PROVE  \A q \in Servers : Kept(q)' /\ WillClear(q)'
<1> PICK p \in Servers : /\ Unused(p)
                         /\ stage' = [stage EXCEPT ![p] = "starting"]
                         /\ killed' = killed \ {p}
                         /\ disturbed' = disturbed \ {p}
                         /\ faults' = faults
  BY BeginsUnused
<1> QED
  BY DEF Inv, TypeOK, Unused, Kept, WillClear, files, Publishing, Clearing

LEMMA ClientKeeps ==
  ASSUME Inv, NEW c \in Clients, Client(c) \/ Start(c) \/ Leave(c)
  PROVE  \A q \in Servers : Kept(q)' /\ WillClear(q)'
<1>1. CASE Spawn(c)
  BY <1>1, BeginKeeps DEF Spawn
<1>2. CASE ~Spawn(c)
  <2>1. UNCHANGED <<stage, files, history>>
    BY <1>2 DEF Client, Start, Leave, Probe, Bind, ServerUp, GiveUpWaiting, ReadPid,
                LookForMeta, MatchMeta, Conclude, Connect, Retry
  <2> QED
    BY <2>1 DEF Inv, Kept, WillClear, files, history
<1> QED
  BY <1>1, <1>2

\* The steps of a server that write or remove a file.
LEMMA WriterKeeps ==
  ASSUME Inv, NEW p \in Servers,
         PublishPid(p) \/ PublishMeta(p) \/ UnlinkPid(p) \/ UnlinkMeta(p)
  PROVE  \A q \in Servers : Kept(q)' /\ WillClear(q)'
<1> USE ElectionAssumption DEF Inv, TypeOK, Kept, WillClear, ServerMoves, Touches,
                               Publishing, Clearing
<1>1. CASE PublishPid(p)
  BY <1>1 DEF PublishPid
<1>2. CASE PublishMeta(p)
  BY <1>2 DEF PublishMeta
<1>3. CASE UnlinkPid(p)
  BY <1>3 DEF UnlinkPid
<1>4. CASE UnlinkMeta(p)
  BY <1>4 DEF UnlinkMeta
<1> QED
  BY <1>1, <1>2, <1>3, <1>4

\* The steps of a server that leave the files alone.
LEMMA OtherKeeps ==
  ASSUME Inv, NEW p \in Servers,
         \/ Listen(p) \/ ReadOwnPid(p) \/ ReadOwnMeta(p)
         \/ IdleStop(p) \/ Terminate(p) \/ Kill(p)
  PROVE  \A q \in Servers : Kept(q)' /\ WillClear(q)'
<1> USE DEF Inv, TypeOK, Kept, WillClear, ServerMoves, files, history, Publishing, Clearing
<1>1. CASE Listen(p)
  BY <1>1 DEF Listen
<1>2. CASE ReadOwnPid(p)
  BY <1>2 DEF ReadOwnPid
<1>3. CASE ReadOwnMeta(p)
  BY <1>3 DEF ReadOwnMeta
<1>4. CASE IdleStop(p)
  BY <1>4 DEF IdleStop
<1>5. CASE Terminate(p)
  BY <1>5 DEF Terminate
<1>6. CASE Kill(p)
  BY <1>6 DEF Kill
<1> QED
  BY <1>1, <1>2, <1>3, <1>4, <1>5, <1>6

LEMMA StepKeeps == Inv /\ [Next]_vars => Inv'
<1> SUFFICES ASSUME Inv, [Next]_vars PROVE Inv'
  OBVIOUS
<1>1. TypeOK'
  BY StepTyped DEF Inv
<1>2. CASE UNCHANGED vars
  BY <1>1, <1>2 DEF vars, files, history, Inv, Kept, WillClear
<1>3. CASE StartDirect
  BY <1>1, <1>3, BeginKeeps DEF StartDirect, Inv
<1>4. CASE Next /\ ~StartDirect
  <2>1. \A q \in Servers : Kept(q)' /\ WillClear(q)'
    BY <1>4, ClientKeeps, WriterKeeps, OtherKeeps DEF Next, Around, Server
  <2> QED
    BY <1>1, <2>1 DEF Inv
<1> QED
  BY <1>2, <1>3, <1>4

LEMMA InvHolds == Spec => []Inv
<1>1. Init => TypeOK
  BY ElectionAssumption DEF Init, TypeOK, Host, Steps, Stages, Checking
<1>2. Init => Inv
  BY <1>1, InitKept DEF Inv
<1> QED
  BY <1>2, StepKeeps, PTL DEF Spec

\* The identity of a serving server stands unless another process touched it.
THEOREM PublishedWhileServing == Spec => []ServingIsPublished
<1>1. Inv => ServingIsPublished
  BY DEF Inv, Kept, ServingIsPublished, Publishing
<1> QED
  BY InvHolds, <1>1, PTL

\* Only a server that was killed leaves files behind.
THEOREM CleansUp == Spec => []OrphansWereKilled
<1>1. Inv => OrphansWereKilled
  BY DEF Inv, WillClear, OrphansWereKilled, Publishing, Clearing
<1> QED
  BY InvHolds, <1>1, PTL

\* A listener that is turned away from a serving server was misled by the
\* files of another one.
THEOREM MisledOnly == Spec => RefusalNeedsDisturbance
<1> DEFINE Turned(c) == step[c] \in {"verifying"} \cup Checking /\ step'[c] = "refused"
           Misled(c) == \A p \in Listening :
                           step[c] = "verifying" \/ seen[c] = p => p \in disturbed
<1>1. ASSUME Inv, [Next]_vars, NEW c \in Clients, Turned(c)
      PROVE  Misled(c)
  <2> USE ElectionAssumption DEF Inv, TypeOK, Kept, ClientMoves, Publishing
  <2>1. ReadPid(c) \/ LookForMeta(c) \/ MatchMeta(c)
    <3>1. CASE UNCHANGED vars
      BY <1>1, <3>1 DEF vars, Checking
    <3>2. CASE \E d \in Clients : Client(d) \/ Start(d) \/ Leave(d)
      <4> PICK d \in Clients : Client(d) \/ Start(d) \/ Leave(d)
        BY <3>2
      <4>1. CASE ReadPid(d)
        <5>1. \E s : step' = [step EXCEPT ![d] = s]
          BY <4>1 DEF ReadPid
        <5>2. d = c
          BY <1>1, <5>1 DEF Checking
        <5> QED
          BY <4>1, <5>2
      <4>2. CASE ~ReadPid(d)
        BY <1>1, <4>2 DEF Checking, Client, Start, Leave, Probe, Bind, Spawn, ServerUp,
                        GiveUpWaiting, LookForMeta, MatchMeta, Conclude,
                        Connect, Retry
      <4> QED
        BY <4>1, <4>2
    <3>3. CASE \E p \in Servers : Server(p) \/ IdleStop(p) \/ Terminate(p) \/ Kill(p)
      BY <1>1, <3>3 DEF Checking, Server, PublishPid, PublishMeta, UnlinkPid, UnlinkMeta,
                        Touches, Listen, ReadOwnPid, ReadOwnMeta, IdleStop, Terminate,
                        Kill, Dropped
    <3>4. CASE StartDirect
      BY <1>1, <3>4 DEF Checking, StartDirect
    <3> QED
      BY <1>1, <3>1, <3>2, <3>3, <3>4 DEF Next, Around
  <2>2. CASE ReadPid(c)
    <3> PICK live \in BOOLEAN : PidRead(c, live)
      BY <2>2, ReadsSignalled
    <3> QED
      BY <1>1 DEF PidRead, Checking, Alive, Listening
  <2>3. CASE LookForMeta(c)
    BY <1>1, <2>3 DEF LookForMeta, Conclude
  <2>4. CASE MatchMeta(c)
    BY <1>1, <2>4 DEF MatchMeta, Conclude
  <2> QED
    BY <2>1, <2>2, <2>3, <2>4
<1>2. Inv /\ [Next]_vars => [\A c \in Clients : Turned(c) => Misled(c)]_vars
  BY <1>1
<1> QED
  BY InvHolds, <1>2, PTL DEF Spec, RefusalNeedsDisturbance

----------------------------------------------------------------------------
(* The election.                                                           *)

\* Where bind() is exclusive, one process at a time has the socket.
OneHolder ==
  /\ \A p, q \in Servers : Holds(p) /\ Holds(q) => p = q
  /\ \A c \in Clients : step[c] = "bound" =>
       /\ \A p \in Servers : ~Holds(p)
       /\ \A d \in Clients : step[d] = "bound" => d = c

\* Until a fault, a server that got the socket keeps it, and its files.
Undisturbed ==
  \A p \in Servers : stage[p] \notin Clearing /\ (Holds(p) => p \notin disturbed)

\* Until a fault, a listener that is past its bind has a server to come or one
\* that serves, and a listener that checks has read the pid of that one.
Served ==
  \A c \in Clients :
    /\ step[c] # "refused"
    /\ step[c] = "waiting" => Coming \/ Listening # {}
    /\ step[c] \in {"verifying", "connecting"} \cup Checking => Listening # {}
    /\ step[c] \in Checking => seen[c] \in Listening

Elected ==
  host.exclusive =>
    /\ OneHolder
    /\ faults = 0 => Undisturbed
    /\ faults = 0 /\ ~host.slow => Served

LEMMA FaultsGrow ==
  ASSUME TypeOK, [Next]_vars
  PROVE  host' = host /\ (faults' = 0 => faults = 0)
<1>1. CASE UNCHANGED vars
  BY <1>1 DEF vars, history
<1>2. CASE \E c \in Clients : Client(c) \/ Start(c) \/ Leave(c)
  BY <1>2 DEF Client, Start, Leave, Probe, Bind, Spawn, Begin, ServerUp, GiveUpWaiting, ReadPid,
              LookForMeta, MatchMeta, Conclude, Connect, Retry, ClientMoves, history
<1>3. CASE \E p \in Servers : Server(p) \/ IdleStop(p) \/ Terminate(p) \/ Kill(p)
  BY <1>3, HostTyped DEF Server, PublishPid, PublishMeta, UnlinkPid, UnlinkMeta, Touches, Listen,
              ReadOwnPid, ReadOwnMeta, IdleStop, Terminate, Kill, Fault, ServerMoves, history
<1>4. CASE StartDirect
  BY <1>4 DEF StartDirect, Begin
<1> QED
  BY <1>1, <1>2, <1>3, <1>4 DEF Next, Around

LEMMA OneHolderBegins ==
  ASSUME TypeOK, Begin, \A p \in Servers : ~Holds(p)
  PROVE  \E p \in Servers : /\ stage' = [stage EXCEPT ![p] = "starting"]
                            /\ p \notin disturbed' /\ disturbed' \subseteq disturbed
                            /\ \A q \in Servers : Holds(q)' <=> q = p
                            /\ \A q \in Servers : stage'[q] # "serving"
<1> PICK p \in Servers : /\ Unused(p)
                         /\ stage' = [stage EXCEPT ![p] = "starting"]
                         /\ disturbed' = disturbed \ {p}
  BY BeginsUnused
<1> QED
  BY DEF TypeOK, Holds, Contending

LEMMA OneHolderStep ==
  ASSUME TypeOK, host.exclusive, OneHolder, [Next]_vars
  PROVE  OneHolder'
<1> USE DEF OneHolder
<1>1. CASE UNCHANGED vars
  BY <1>1 DEF vars, Holds
<1>2. ASSUME NEW c \in Clients, Client(c) \/ Start(c) \/ Leave(c)
      PROVE  OneHolder'
  <2>1. CASE Bind(c)
    <3>1. stage' = stage /\ (step'[c] = "bound" => CanBind) /\ step' = [step EXCEPT ![c] = step'[c]]
      BY <2>1 DEF Bind, ClientMoves, TypeOK
    <3>2. CanBind => /\ \A p \in Servers : ~Holds(p)
                     /\ \A d \in Clients : step[d] # "bound"
      BY DEF CanBind, Coming, Holds
    <3> QED
      BY <3>1, <3>2 DEF Holds, TypeOK
  <2>2. CASE Spawn(c)
    <3>1. /\ step' = [step EXCEPT ![c] = "waiting"] /\ step[c] = "bound" /\ Begin
      BY <2>2 DEF Spawn, ClientMoves
    <3>2. PICK p \in Servers : \A q \in Servers : Holds(q)' <=> q = p
      BY <3>1, OneHolderBegins
    <3>3. \A d \in Clients : step'[d] # "bound"
      BY <3>1 DEF TypeOK
    <3> QED
      BY <3>2, <3>3
  <2>3. CASE ~Bind(c) /\ ~Spawn(c)
    <3>1. CASE ReadPid(c)
      <4> PICK live \in BOOLEAN : PidRead(c, live)
        BY <3>1, ReadsSignalled
      <4> QED
        BY DEF PidRead, ClientMoves, Holds, TypeOK
    <3>2. CASE ~ReadPid(c)
      <4>1. stage' = stage /\ \A d \in Clients : step'[d] = "bound" => step[d] = "bound"
        BY <1>2, <2>3, <3>2 DEF Client, Start, Leave, Probe, ServerUp, GiveUpWaiting, LookForMeta,
                                MatchMeta, Conclude, Connect, Retry, ClientMoves, TypeOK
      <4> QED
        BY <4>1 DEF Holds
    <3> QED
      BY <3>1, <3>2
  <2> QED
    BY <2>1, <2>2, <2>3
<1>3. ASSUME NEW p \in Servers, Server(p) \/ IdleStop(p) \/ Terminate(p) \/ Kill(p)
      PROVE  OneHolder'
  <2>1. \A q \in Servers : Holds(q)' => Holds(q)
    BY <1>3 DEF Server, PublishPid, PublishMeta, UnlinkPid, UnlinkMeta, Listen, ReadOwnPid,
                ReadOwnMeta, IdleStop, Terminate, Kill, ServerMoves, Holds, Contending, TypeOK
  <2>2. \A d \in Clients : step'[d] = "bound" => step[d] = "bound"
    BY <1>3 DEF Server, PublishPid, PublishMeta, UnlinkPid, UnlinkMeta, Listen, ReadOwnPid,
                ReadOwnMeta, IdleStop, Terminate, Kill, Touches, Dropped
  <2> QED
    BY <2>1, <2>2
<1>4. CASE StartDirect
  <2>1. Begin /\ CanBind /\ step' = step
    BY <1>4 DEF StartDirect
  <2>2. /\ \A p \in Servers : ~Holds(p)
        /\ \A d \in Clients : step[d] # "bound"
    BY <2>1 DEF CanBind, Coming, Holds
  <2> QED
    BY <2>1, <2>2, OneHolderBegins
<1> QED
  BY <1>1, <1>2, <1>3, <1>4 DEF Next, Around

LEMMA UndisturbedStep ==
  ASSUME TypeOK, host.exclusive, OneHolder, Undisturbed, [Next]_vars, faults' = faults
  PROVE  Undisturbed'
<1> USE DEF Undisturbed
<1>1. CASE UNCHANGED vars
  BY <1>1 DEF vars, history, Holds
<1>2. ASSUME Begin, \A p \in Servers : ~Holds(p)
      PROVE  Undisturbed'
  <2> PICK p \in Servers : /\ stage' = [stage EXCEPT ![p] = "starting"]
                           /\ p \notin disturbed' /\ disturbed' \subseteq disturbed
                           /\ \A q \in Servers : Holds(q)' <=> q = p
    BY <1>2, OneHolderBegins
  <2> QED
    BY DEF TypeOK, Clearing
<1>3. ASSUME NEW c \in Clients, Client(c) \/ Start(c) \/ Leave(c)
      PROVE  Undisturbed'
  <2>1. CASE Spawn(c)
    BY <1>2, <2>1 DEF Spawn, ClientMoves, OneHolder
  <2>2. CASE ~Spawn(c)
    <3>1. UNCHANGED <<stage, disturbed>>
      BY <1>3, <2>2 DEF Client, Start, Leave, Probe, Bind, ServerUp, GiveUpWaiting, ReadPid,
                        LookForMeta, MatchMeta, Conclude, Connect, Retry, history
    <3> QED
      BY <3>1 DEF Holds
  <2> QED
    BY <2>1, <2>2
<1>4. ASSUME NEW p \in Servers, Server(p) \/ IdleStop(p) \/ Terminate(p) \/ Kill(p)
      PROVE  Undisturbed'
  <2>1. ~(IdleStop(p) \/ Terminate(p) \/ Kill(p))
    BY HostTyped DEF IdleStop, Terminate, Kill, Fault
  <2>2. ~(ReadOwnPid(p) \/ UnlinkPid(p) \/ ReadOwnMeta(p) \/ UnlinkMeta(p))
    BY DEF ReadOwnPid, UnlinkPid, ReadOwnMeta, UnlinkMeta, ServerMoves, Clearing
  <2>3. CASE PublishPid(p) \/ PublishMeta(p)
    <3>1. Holds(p) /\ disturbed' = disturbed \cup {q \in Servers \ {p} : stage[q] \in Publishing}
      BY <2>3 DEF PublishPid, PublishMeta, ServerMoves, Touches, Holds, Contending
    <3>2. disturbed' = disturbed
      BY <3>1 DEF OneHolder, Holds, Publishing, Contending
    <3>3. \A q \in Servers : stage'[q] \notin Clearing /\ (Holds(q)' => Holds(q))
      BY <2>3 DEF PublishPid, PublishMeta, ServerMoves, Holds, Contending, Clearing, TypeOK
    <3> QED
      BY <3>2, <3>3
  <2>4. CASE Listen(p)
    <3>1. Holds(p) /\ stage[p] = "published" /\ disturbed' = disturbed
      BY <2>4 DEF Listen, ServerMoves, Holds, Contending, history
    <3>2. Listening = {}
      BY <3>1 DEF OneHolder, Holds
    <3>3. stage' = [stage EXCEPT ![p] = "serving"]
      BY <2>4, <3>2 DEF Listen, ServerMoves
    <3> QED
      BY <3>1, <3>3 DEF Holds, Contending, Clearing, TypeOK
  <2> QED
    BY <1>4, <2>1, <2>2, <2>3, <2>4 DEF Server
<1>5. CASE StartDirect
  BY <1>2, <1>5 DEF StartDirect, CanBind, Coming, Holds
<1> QED
  BY <1>1, <1>3, <1>4, <1>5 DEF Next, Around

\* Who serves is the only one that has the socket, and both files name it.
LEMMA ServedKnown ==
  ASSUME Inv, OneHolder, Undisturbed
  PROVE  \A p \in Listening : pidFile = p /\ metaFile = p /\ \A q \in Servers : Holds(q) => q = p
BY DEF Inv, Kept, Publishing, Holds, OneHolder, Undisturbed

\* A new server: nobody is checking yet, for nobody serves.
LEMMA ServedBegins ==
  ASSUME TypeOK, Served, Begin, \A p \in Servers : ~Holds(p),
         \A d \in Clients : step'[d] = step[d] \/ step'[d] = "waiting"
  PROVE  Served'
<1> PICK p \in Servers : stage' = [stage EXCEPT ![p] = "starting"]
  BY OneHolderBegins
<1>1. Listening = {} /\ Coming'
  BY DEF Holds, Coming, Contending, TypeOK
<1> QED
  BY <1>1 DEF Served, Checking

LEMMA ServedClientStep ==
  ASSUME Inv, host.exclusive, ~host.slow, OneHolder, Undisturbed, Served,
         NEW c \in Clients, Client(c) \/ Start(c) \/ Leave(c)
  PROVE  Served'
<1>0. TypeOK /\ ElectionAssumption
  BY ElectionAssumption DEF Inv
<1>1. CASE Spawn(c)
  <2>1. /\ step' = [step EXCEPT ![c] = "waiting"] /\ step[c] = "bound" /\ Begin
    BY <1>1 DEF Spawn, ClientMoves
  <2> QED
    BY <1>0, <2>1, ServedBegins DEF OneHolder, TypeOK
<1>2. CASE ~Spawn(c)
  <2>1. UNCHANGED <<stage, pidFile, metaFile>>
    BY <1>2 DEF Client, Start, Leave, Probe, Bind, ServerUp, GiveUpWaiting, ReadPid,
                LookForMeta, MatchMeta, Conclude, Connect, Retry, files
  <2>2. \A d \in Clients \ {c} : step'[d] = step[d] /\ seen'[d] = seen[d]
    BY <1>0, <1>2 DEF Client, Start, Leave, Probe, Bind, ServerUp, GiveUpWaiting, ReadPid,
                LookForMeta, MatchMeta, Conclude, Connect, Retry, ClientMoves, TypeOK
  <2>3. Listening' = Listening /\ (step[c] # "bound" /\ Coming => Coming')
    BY <2>1, <2>2 DEF Coming
  <2>4. /\ step'[c] # "refused"
        /\ step'[c] = "waiting" => Coming' \/ Listening # {}
        /\ step'[c] \in {"verifying", "connecting"} \cup Checking => Listening # {}
        /\ step'[c] \in Checking => seen'[c] \in Listening
    <3>1. CASE Start(c) \/ Leave(c) \/ Probe(c) \/ ServerUp(c) \/ Retry(c)
      BY <1>0, <3>1 DEF Start, Leave, Probe, ServerUp, Retry, ClientMoves, Checking, TypeOK
    <3>2. CASE Bind(c)
      <4>1. step'[c] = IF CanBind THEN "bound" ELSE "waiting"
        BY <1>0, <3>2 DEF Bind, ClientMoves, TypeOK
      <4>2. ~CanBind => Coming' \/ Listening # {}
        BY <2>3, <3>2 DEF CanBind, Bind, ClientMoves
      <4> QED
        BY <4>1, <4>2 DEF Checking
    <3>3. CASE GiveUpWaiting(c)
      BY <3>3 DEF GiveUpWaiting, Served, ClientMoves
    <3>4. CASE ReadPid(c)
      <4>1. Listening # {} /\ step[c] = "verifying"
        BY <3>4 DEF ReadPid, ClientMoves, Served
      <4>2. pidFile \in Listening /\ pidFile # NoServer /\ Alive(pidFile)
        BY <1>0, <4>1, ServedKnown DEF ElectionAssumption
      <4> PICK live \in BOOLEAN : PidRead(c, live)
        BY <3>4, ReadsSignalled
      <4> QED
        BY <1>0, <4>2 DEF PidRead, ClientMoves, Checking, TypeOK
    <3>5. CASE LookForMeta(c) \/ MatchMeta(c)
      <4>1. step[c] \in Checking
        BY <3>5 DEF LookForMeta, MatchMeta, Conclude, ClientMoves, Checking
      <4>2. seen[c] \in Listening /\ metaFile = seen[c] /\ metaFile # NoServer
        BY <1>0, <4>1, ServedKnown DEF Served, ElectionAssumption
      <4> QED
        BY <1>0, <3>5, <4>2 DEF LookForMeta, MatchMeta, Conclude, ClientMoves, Checking, TypeOK
    <3>6. CASE \E p \in Servers : Connect(c, p)
      BY <1>0, <3>6 DEF Connect, ClientMoves, Checking, TypeOK
    <3> QED
      BY <1>2, <3>1, <3>2, <3>3, <3>4, <3>5, <3>6 DEF Client
  <2>5. Coming \/ Listening # {} => Coming' \/ Listening # {}
    <3>1. CASE step[c] # "bound"
      BY <2>3, <3>1
    <3>2. CASE step[c] = "bound"
      BY <1>2, <3>2 DEF Client, Start, Leave, Probe, Bind, ServerUp, GiveUpWaiting, ReadPid,
                LookForMeta, MatchMeta, Conclude, Connect, Retry, ClientMoves
    <3> QED
      BY <3>1, <3>2
  <2> QED
    BY <2>2, <2>3, <2>4, <2>5 DEF Served
<1> QED
  BY <1>1, <1>2

LEMMA ServedServerStep ==
  ASSUME Inv, OneHolder, Undisturbed, Served, faults' = faults,
         NEW p \in Servers, Server(p) \/ IdleStop(p) \/ Terminate(p) \/ Kill(p)
  PROVE  Served'
<1>0. TypeOK
  BY DEF Inv
<1>1. ~(IdleStop(p) \/ Terminate(p) \/ Kill(p))
  BY <1>0, HostTyped DEF IdleStop, Terminate, Kill, Fault
<1>2. ~(ReadOwnPid(p) \/ UnlinkPid(p) \/ ReadOwnMeta(p) \/ UnlinkMeta(p))
  BY DEF Undisturbed, ReadOwnPid, UnlinkPid, ReadOwnMeta, UnlinkMeta, ServerMoves, Clearing
<1>3. UNCHANGED <<step, seen>>
  BY <1>1, <1>2 DEF Server, PublishPid, PublishMeta, Listen, Touches
<1>4. CASE PublishPid(p) \/ PublishMeta(p)
  <2>1. Coming' /\ Listening = {}
    BY <1>0, <1>4 DEF PublishPid, PublishMeta, ServerMoves, Coming, Contending, OneHolder, Holds, TypeOK
  <2> QED
    BY <1>3, <2>1 DEF Served
<1>5. CASE Listen(p)
  <2>1. Listening = {} /\ p \in Listening'
    BY <1>0, <1>5 DEF Listen, ServerMoves, OneHolder, Holds, Contending, TypeOK
  <2> QED
    BY <1>3, <2>1 DEF Served
<1> QED
  BY <1>1, <1>2, <1>4, <1>5 DEF Server

LEMMA ServedStep ==
  ASSUME Inv, host.exclusive, ~host.slow, OneHolder, Undisturbed, Served,
         [Next]_vars, faults' = faults
  PROVE  Served'
<1>1. CASE UNCHANGED vars
  BY <1>1 DEF vars, Served, Coming
<1>2. CASE StartDirect
  <2>1. Begin /\ step' = step /\ \A p \in Servers : ~Holds(p)
    BY <1>2 DEF StartDirect, CanBind, Coming, Holds
  <2> QED
    BY <2>1, ServedBegins DEF Inv
<1> QED
  BY <1>1, <1>2, ServedClientStep, ServedServerStep DEF Next, Around

\* Where bind() is exclusive the election works: one server at a time has the
\* socket; before the first fault none is started in vain, and where servers
\* start in time no listener is turned away.
THEOREM ElectsOne == Spec => []BindElects
<1>1. Init => Elected
  BY DEF Init, Elected, OneHolder, Undisturbed, Served, Holds, Contending, Clearing, Checking
<1>2. Inv /\ Elected /\ [Next]_vars => Elected'
  <2> SUFFICES ASSUME Inv, Elected, [Next]_vars, host.exclusive PROVE Elected'
    BY FaultsGrow DEF Elected, Inv
  <2>1. TypeOK /\ OneHolder /\ OneHolder'
    BY OneHolderStep DEF Elected, Inv
  <2>2. faults' = 0 => faults = 0 /\ Undisturbed /\ Undisturbed'
    BY <2>1, FaultsGrow, UndisturbedStep DEF Elected
  <2>3. faults' = 0 /\ ~host.slow => Served'
    BY <2>1, <2>2, FaultsGrow, ServedStep DEF Elected
  <2> QED
    BY <2>1, <2>2, <2>3, FaultsGrow DEF Elected
<1>3. Elected => BindElects
  BY DEF Elected, BindElects, OneHolder, Undisturbed, Served
<1> QED
  BY <1>1, <1>2, <1>3, InvHolds, PTL DEF Spec
=============================================================================
