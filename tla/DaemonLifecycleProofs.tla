----------------------- MODULE DaemonLifecycleProofs ------------------------
(***************************************************************************)
(* For any number of daemons, clients and builds: the lock of serve lets   *)
(* one daemon serve for as long as none leaves by itself, and retire stops *)
(* older daemons only.                                                     *)
(***************************************************************************)
EXTENDS DaemonLifecycle, TLAPS

\* The daemon has its lock file open and serve has not returned.
Holds(d) == daemon[d] = "opened" \/ Locked(d)

\* One lock file was ever made, and who holds its lock is alone.
OneLock ==
    /\ \A d \in Daemons : Holds(d) => opened[d] = lockPath /\ lockPath # NoFile
    /\ \A d, e \in Daemons : Locked(d) /\ Locked(e) => d = e
    /\ \A d \in Daemons : daemon[d] = "serving" => sockPath = d
    /\ \A d \in Daemons : daemon[d] \notin {"leaving", "unlinked", "ending"}

\* A daemon that listened once never comes to listen again.
Served(d) == daemon[d] \in {"serving", "leaving", "unlinked", "ending", "refused",
                          "gone"}

\* What a client that heard an old version, or none, may still act on.
Judged ==
    \A c \in Clients :
        /\ client[c] \in {"asking", "retire"} => peer[c] \in Daemons /\ Served(peer[c])
        /\ client[c] = "retire" /\ daemon[peer[c]] = "serving" =>
               build[peer[c]] < Build(c)

-----------------------------------------------------------------------------
\* The initial state has every part of the invariants.
LEMMA InitHolds == Init => TypeOK /\ OneLock /\ Judged
  BY LifecycleAssumption DEF Init, TypeOK, OneLock, Judged, Holds, Locked, Served,
     DaemonPlaces, ClientPlaces, Rounds

\* Every step keeps the types: a daemon's own steps and a client's.
LEMMA TypeStep ==
    ASSUME TypeOK, Judged, [Next]_vars
    PROVE  TypeOK'
<1> USE LifecycleAssumption DEF TypeOK, DaemonPlaces, ClientPlaces, Rounds
<1>1. ASSUME NEW d \in Daemons, Serve(d)
      PROVE  TypeOK'
  BY <1>1 DEF Serve, OpenLock, TryLock, RemoveStale, Bind, ServeFails, IdleExit,
     ConnectionCloses, UnlinkSocket, UnlinkLock, End, Dies, DaemonGoes, CloseLock, files, clientVars
<1>2. ASSUME NEW c \in Clients, Seek(c)
      PROVE  TypeOK'
  <2>1. CASE Connect(c)
    <3>1. sockPath \in Daemons
      BY <2>1 DEF Connect, Answers
    <3> QED
      BY <2>1, <3>1 DEF Connect, ClientGoes, RoundLeft, daemonVars, files
  <2>2. CASE Spawn(c)
    BY <2>2 DEF Spawn, NewDaemon, ClientGoes, DaemonGoes, RoundLeft, files
  <2>3. CASE CannotRun(c) \/ RunsOut(c) \/ SpawnEnds(c) \/ RetireEnds(c) \/ Disconnect(c)
    BY <2>3 DEF CannotRun, RunsOut, SpawnEnds, RetireEnds, Disconnect, ClientGoes, HangUp, daemonVars, files
  <2>4. CASE Asked(c)
    BY <2>4 DEF Asked, ClientGoes, HangUp, daemonVars, files
  <2>5. CASE Retire(c)
    BY <2>5 DEF Retire, ClientGoes, CloseLock, HangUp, files
  <2> QED
    BY <1>2, <2>1, <2>2, <2>3, <2>4, <2>5 DEF Seek
<1>3. CASE UNCHANGED vars
  BY <1>3 DEF vars, daemonVars, clientVars, files
<1> QED
  BY <1>1, <1>2, <1>3 DEF Next

\* What a client holds of its daemon stays true while anyone moves: a daemon
\* keeps its build, and one that stopped serving does not serve again.
LEMMA JudgedStep ==
    ASSUME TypeOK, Judged, [Next]_vars
    PROVE  Judged'
<1> USE LifecycleAssumption DEF TypeOK, Judged, Served
<1>1. ASSUME NEW d \in Daemons, Serve(d)
      PROVE  Judged'
  <2>1. UNCHANGED <<build, clientVars>>
    BY <1>1 DEF Serve, OpenLock, TryLock, RemoveStale, Bind, ServeFails, IdleExit,
       ConnectionCloses, UnlinkSocket, UnlinkLock, End, Dies
  <2>2. \A e \in Daemons : Served(e) =>
            Served(e)' /\ (daemon'[e] = "serving" => daemon[e] = "serving")
    BY <1>1 DEF Serve, OpenLock, TryLock, RemoveStale, Bind, ServeFails, IdleExit,
       ConnectionCloses, UnlinkSocket, UnlinkLock, End, Dies, DaemonGoes, CloseLock
  <2> QED
    BY <2>1, <2>2 DEF clientVars
<1>2. ASSUME NEW c \in Clients, Seek(c)
      PROVE  Judged'
  <2>1. CASE Connect(c)
    <3>1. sockPath \in Daemons /\ Served(sockPath)
      BY <2>1 DEF Connect, Answers, Listens
    <3> QED
      BY <2>1, <3>1 DEF Connect, ClientGoes, daemonVars
  <2>2. CASE Spawn(c)
    BY <2>2 DEF Spawn, NewDaemon, ClientGoes, DaemonGoes
  <2>3. CASE CannotRun(c) \/ RunsOut(c) \/ SpawnEnds(c) \/ RetireEnds(c) \/ Disconnect(c)
    BY <2>3 DEF CannotRun, RunsOut, SpawnEnds, RetireEnds, Disconnect, ClientGoes, HangUp, daemonVars
  <2>4. CASE Asked(c)
    BY <2>4 DEF Asked, ClientGoes, HangUp, Older, daemonVars
  <2>5. CASE Retire(c)
    BY <2>5 DEF Retire, ClientGoes, CloseLock, HangUp
  <2> QED
    BY <1>2, <2>1, <2>2, <2>3, <2>4, <2>5 DEF Seek
<1>3. CASE UNCHANGED vars
  BY <1>3 DEF vars, daemonVars, clientVars
<1> QED
  BY <1>1, <1>2, <1>3 DEF Next

\* The lock stays with one daemon through every step that starts no leaving.
LEMMA LockStep ==
    ASSUME TypeOK, Judged, OneLock, [Next]_vars, NoneLeaves'
    PROVE  OneLock'
<1> USE LifecycleAssumption DEF TypeOK, OneLock, Holds, Locked
<1>1. ASSUME NEW d \in Daemons, Serve(d)
      PROVE  OneLock'
  <2>1. CASE OpenLock(d)
    BY <2>1 DEF OpenLock, DaemonGoes
  <2>2. CASE TryLock(d)
    BY <2>2 DEF TryLock, Taken, DaemonGoes, CloseLock, files
  <2>3. CASE RemoveStale(d)
    BY <2>3 DEF RemoveStale, DaemonGoes
  <2>4. CASE Bind(d)
    BY <2>4 DEF Bind, DaemonGoes
  <2>5. CASE IdleExit(d) \/ ConnectionCloses(d)
    BY <2>5 DEF IdleExit, ConnectionCloses, DaemonGoes, NoneLeaves
  <2>6. CASE UnlinkSocket(d) \/ UnlinkLock(d) \/ End(d)
    BY <2>6 DEF UnlinkSocket, UnlinkLock, End, DaemonGoes, CloseLock
  <2>7. CASE ServeFails(d) \/ Dies(d)
    BY <2>7 DEF ServeFails, Dies, DaemonGoes, CloseLock, files
  <2> QED
    BY <1>1, <2>1, <2>2, <2>3, <2>4, <2>5, <2>6, <2>7 DEF Serve
<1>2. ASSUME NEW c \in Clients, Seek(c)
      PROVE  OneLock'
  <2>1. CASE Spawn(c)
    BY <2>1 DEF Spawn, NewDaemon, DaemonGoes, files
  <2>2. CASE Retire(c)
    BY <2>2 DEF Retire, ClientGoes, CloseLock, HangUp, Judged, files
  <2>3. CASE UNCHANGED daemonVars
    BY <2>3 DEF daemonVars, files
  <2> QED
    BY <1>2, <2>1, <2>2, <2>3 DEF Seek, Connect, CannotRun, RunsOut, SpawnEnds, Asked, RetireEnds,
       Disconnect
<1>3. CASE UNCHANGED vars
  BY <1>3 DEF vars, daemonVars, files
<1> QED
  BY <1>1, <1>2, <1>3 DEF Next

-----------------------------------------------------------------------------
\* Types, with what a client holds of its daemon, at every state.
THEOREM LifecycleTypeCorrect == Spec => [](TypeOK /\ Judged)
<1>1. Init => TypeOK /\ Judged
  BY InitHolds
<1>2. TypeOK /\ Judged /\ [Next]_vars => (TypeOK /\ Judged)'
  BY TypeStep, JudgedStep
<1> QED
  BY <1>1, <1>2, PTL DEF Spec

\* One daemon serves and the socket leads to it for as long as none left by
\* itself, for any number of clients, builds, spawns and crashes: the lock of
\* serve is enough but for its own cleanup.
THEOREM OneDaemonServes == Spec => OneServesUntilOneLeaves
<1>1. Init => OneLock
  BY InitHolds
<1>2. TypeOK /\ Judged /\ OneLock /\ [Next]_vars /\ NoneLeaves' => OneLock'
  BY LockStep
<1>3. OneLock => OneServes
  BY DEF OneLock, OneServes, Locked
<1> QED
  BY <1>1, <1>2, <1>3, LifecycleTypeCorrect, PTL DEF Spec, OneServesUntilOneLeaves

\* Of connect and retire: a kill ends no daemon in service whose build is the
\* client's or newer, for any builds that meet.
THEOREM NewerIsNotRetired == Spec => RetiresOnlyOlder
<1> DEFINE Stops(c) == \A d \in Daemons : daemon[d] = "serving" /\ daemon'[d] # "serving" =>
                           build[d] < Build(c)
           Kept == \A c \in Clients : client[c] = "retire" /\ client'[c] = "retiring" => Stops(c)
<1>1. TypeOK /\ Judged /\ [Next]_vars => [Kept]_vars
  <2> SUFFICES ASSUME TypeOK, Judged, Next,
                      NEW c \in Clients, client[c] = "retire", client'[c] = "retiring"
               PROVE  Stops(c)
    OBVIOUS
  <2>1. Retire(c)
    <3>1. \A d \in Daemons : Serve(d) => UNCHANGED client
      BY DEF Serve, OpenLock, TryLock, RemoveStale, Bind, ServeFails, IdleExit,
         ConnectionCloses, UnlinkSocket, UnlinkLock, End, Dies, clientVars
    <3>2. \A b \in Clients : Seek(b) => b = c /\ Retire(c)
      BY DEF Seek, Connect, Spawn, CannotRun, RunsOut, SpawnEnds, Asked, Retire, RetireEnds,
         Disconnect, ClientGoes, TypeOK
    <3> QED
      BY <3>1, <3>2 DEF Next
  <2> QED
    BY <2>1 DEF Retire, Judged, TypeOK
<1> QED
  BY <1>1, LifecycleTypeCorrect, PTL DEF Spec, RetiresOnlyOlder

=============================================================================
