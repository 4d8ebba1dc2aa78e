-------------------------- MODULE DaemonLifecycle ---------------------------
(***************************************************************************)
(* The daemons of one tmux session and the clients that look for one:      *)
(* DaemonClient::connect, spawn_daemon and retire (client.rs) against      *)
(* serve (daemon/server.rs), by way of two paths in one directory, the     *)
(* socket and the lock file.                                               *)
(*                                                                         *)
(* A path names a file; the file outlives its path for those who opened    *)
(* it.  So a lock file is known by the daemon that created it, and the     *)
(* path holds one of them or none.  Files are removed by path, whoever     *)
(* made what is there.                                                     *)
(***************************************************************************)
EXTENDS Naturals

CONSTANTS
    Daemons,      \* bound: the daemons that may be spawned
    Clients,
    Build(_),     \* the version of a client, and of the daemons it spawns
    NoFile        \* nothing at a path

ASSUME LifecycleAssumption ==
    /\ NoFile \notin Daemons
    /\ \A c \in Clients : Build(c) \in Nat \ {0}   \* 0: no readable version

VARIABLES
    daemon,       \* daemon -> where it is
    build,        \* daemon -> its version
    opened,       \* daemon -> the lock file it has open
    lockPath,     \* the lock file at the lock path
    sockPath,     \* whose socket is at the socket path
    client,       \* client -> where it is
    peer,         \* client -> the daemon it is connected to
    round         \* client -> rounds of connect's loop it has begun

files == <<lockPath, sockPath>>
daemonVars == <<daemon, build, opened, files>>
clientVars == <<client, peer, round>>
vars == <<daemonVars, clientVars>>

Rounds == 3

\* serve is over for a daemon refused the lock, and its event loop goes on.
DaemonPlaces == {"unborn", "starting", "opened", "locked", "cleared", "serving",
                 "leaving", "unlinked", "ending", "refused", "gone"}
ClientPlaces == {"connect", "spawned", "asking", "retire", "retiring", "connected",
                 "failed", "done"}

Init ==
    /\ daemon = [d \in Daemons |-> "unborn"]
    /\ build = [d \in Daemons |-> 0]
    /\ opened = [d \in Daemons |-> NoFile]
    /\ lockPath = NoFile /\ sockPath = NoFile
    /\ client = [c \in Clients |-> "connect"]
    /\ peer = [c \in Clients |-> NoFile]
    /\ round = [c \in Clients |-> 0]

-----------------------------------------------------------------------------
\* serve

DaemonGoes(d, from, to) == daemon[d] = from /\ daemon' = [daemon EXCEPT ![d] = to]

\* The lock file is closed: serve returned or the process is gone.
CloseLock(d) == opened' = [opened EXCEPT ![d] = NoFile]

\* A lock lasts as long as its file is open: until serve returns.
Locked(d) == daemon[d] \in {"locked", "cleared", "serving", "leaving", "unlinked", "ending"}

\* File::create opens the file at the path or makes one.
OpenLock(d) ==
    /\ DaemonGoes(d, "starting", "opened")
    /\ lockPath' = IF lockPath = NoFile THEN d ELSE lockPath
    /\ opened' = [opened EXCEPT ![d] = lockPath']
    /\ UNCHANGED <<build, sockPath, clientVars>>

\* Mutant: a lock is granted whoever holds it.
NeverTaken(d) == FALSE

\* try_lock_exclusive fails: another daemon holds the lock of this file.
Taken(d) == \E e \in Daemons \ {d} : Locked(e) /\ opened[e] = opened[d]

TryLock(d) ==
    /\ \/ DaemonGoes(d, "opened", "locked") /\ ~Taken(d) /\ UNCHANGED opened
       \/ DaemonGoes(d, "opened", "refused") /\ Taken(d) /\ CloseLock(d)
    /\ UNCHANGED <<build, files, clientVars>>

RemoveStale(d) ==
    /\ DaemonGoes(d, "locked", "cleared")
    /\ sockPath' = NoFile
    /\ UNCHANGED <<build, opened, lockPath, clientVars>>

\* bind makes the socket, where none is at the path.
Bind(d) ==
    /\ DaemonGoes(d, "cleared", "serving")
    /\ sockPath = NoFile /\ sockPath' = d
    /\ UNCHANGED <<build, opened, lockPath, clientVars>>

\* The directory, the lock file or the socket cannot be made, or accept fails:
\* serve returns with no cleanup, the lock and the listener go, and the daemon
\* lives on as one that was refused.
ServeFails(d) ==
    /\ \E from \in {"starting", "cleared", "serving"} : DaemonGoes(d, from, "refused")
    /\ CloseLock(d)
    /\ UNCHANGED <<build, files, clientVars>>

\* The token is cancelled by the idle timeout: the count of accepted clients
\* was zero for long.  One without an answer may not have been accepted yet.
IdleExit(d) ==
    /\ DaemonGoes(d, "serving", "leaving")
    /\ \A c \in Clients : ~(client[c] = "connected" /\ peer[c] = d)
    /\ UNCHANGED <<build, opened, files, clientVars>>

\* The token is cancelled by run: the event loop ended with its connection.
ConnectionCloses(d) ==
    /\ DaemonGoes(d, "serving", "leaving")
    /\ UNCHANGED <<build, opened, files, clientVars>>

\* The cleanup removes what is at the two paths.
UnlinkSocket(d) ==
    /\ DaemonGoes(d, "leaving", "unlinked")
    /\ sockPath' = NoFile
    /\ UNCHANGED <<build, opened, lockPath, clientVars>>

UnlinkLock(d) ==
    /\ DaemonGoes(d, "unlinked", "ending")
    /\ lockPath' = NoFile
    /\ UNCHANGED <<build, opened, sockPath, clientVars>>

\* serve returns, the lock and the listener go, and run ends.
End(d) ==
    /\ DaemonGoes(d, "ending", "gone")
    /\ CloseLock(d)
    /\ UNCHANGED <<build, files, clientVars>>

\* A daemon that dies leaves both files where they are.  One that was refused
\* holds neither, and its death is seen by nobody.
Dies(d) ==
    /\ daemon[d] \notin {"unborn", "refused", "gone"}
    /\ daemon' = [daemon EXCEPT ![d] = "gone"]
    /\ CloseLock(d)
    /\ UNCHANGED <<build, files, clientVars>>

-----------------------------------------------------------------------------
\* connect

Listens(d) == daemon[d] \in {"serving", "leaving", "unlinked", "ending"}

\* A connection to the socket path succeeds.
Answers == sockPath # NoFile /\ Listens(sockPath)

ClientGoes(c, from, to) == client[c] = from /\ client' = [client EXCEPT ![c] = to]

\* The connection is dropped.
HangUp(c) == peer' = [peer EXCEPT ![c] = NoFile]

\* Mutant: the loop makes one round too many.
AnotherRound(c) == round[c] <= Rounds

\* connect's loop is not over.
RoundLeft(c) == round[c] < Rounds

\* A round of connect's loop begins: someone answers ...
Connect(c) ==
    /\ ClientGoes(c, "connect", "asking")
    /\ RoundLeft(c) /\ Answers
    /\ round' = [round EXCEPT ![c] = @ + 1]
    /\ peer' = [peer EXCEPT ![c] = sockPath]
    /\ UNCHANGED daemonVars

\* Which of the daemons is spawned makes no difference.
NewDaemon == CHOOSE d \in Daemons : daemon[d] = "unborn"

\* ... or nobody does, and spawn_daemon starts one of this build.
Spawn(c) ==
    /\ ClientGoes(c, "connect", "spawned")
    /\ RoundLeft(c) /\ ~Answers
    /\ \E d \in Daemons : daemon[d] = "unborn"
    /\ round' = [round EXCEPT ![c] = @ + 1]
    /\ DaemonGoes(NewDaemon, "unborn", "starting")
    /\ build' = [build EXCEPT ![NewDaemon] = Build(c)]
    /\ UNCHANGED <<opened, files, peer>>

\* spawn_daemon cannot start a process, or retire has no pid or no kill.
CannotRun(c) ==
    /\ \/ ClientGoes(c, "connect", "failed") /\ RoundLeft(c) /\ ~Answers
       \/ ClientGoes(c, "retire", "failed")
    /\ HangUp(c)
    /\ UNCHANGED <<daemonVars, round>>

\* The loop ran out: the daemon kept changing.
RunsOut(c) ==
    /\ ClientGoes(c, "connect", "failed")
    /\ ~RoundLeft(c)
    /\ UNCHANGED <<daemonVars, peer, round>>

\* spawn_daemon returns once anyone answers, or fails after five seconds.
SpawnEnds(c) ==
    /\ ClientGoes(c, "spawned", IF Answers THEN "connect" ELSE "failed")
    /\ UNCHANGED <<daemonVars, peer, round>>

\* Mutant: any daemon of another build is retired.
Unlike(theirs, mine) == theirs # mine

\* The daemon runs an older build.
Older(theirs, mine) == theirs < mine

\* The daemon says its version, over a connection it accepted even when it no
\* longer serves; one whose connection closes is older than any.
\* A daemon of this build is the one to use, a newer one is refused.
Asked(c) ==
    /\ client[c] = "asking"
    /\ \E theirs \in {0, build[peer[c]]} :
         /\ IF theirs = 0 THEN daemon[peer[c]] # "serving" ELSE daemon[peer[c]] # "gone"
         /\ \/ theirs = Build(c) /\ ClientGoes(c, "asking", "connected") /\ UNCHANGED peer
            \/ Older(theirs, Build(c)) /\ ClientGoes(c, "asking", "retire") /\ UNCHANGED peer
            \/ theirs # Build(c) /\ ~Older(theirs, Build(c))
               /\ ClientGoes(c, "asking", "failed") /\ HangUp(c)
    /\ UNCHANGED <<daemonVars, round>>

\* The connection is dropped, then retire: SIGTERM, which nothing handles ...
Retire(c) ==
    /\ ClientGoes(c, "retire", "retiring")
    /\ daemon' = [daemon EXCEPT ![peer[c]] = "gone"]
    /\ CloseLock(peer[c])
    /\ HangUp(c)
    /\ UNCHANGED <<build, files, round>>

\* ... and a wait until nobody answers; whoever does after five seconds is
\* taken for the old daemon.
RetireEnds(c) ==
    /\ ClientGoes(c, "retiring", IF Answers THEN "failed" ELSE "connect")
    /\ UNCHANGED <<daemonVars, peer, round>>

\* The client's own process ends.
Disconnect(c) ==
    /\ ClientGoes(c, "connected", "done")
    /\ HangUp(c)
    /\ UNCHANGED <<daemonVars, round>>

-----------------------------------------------------------------------------
Serve(d) == OpenLock(d) \/ TryLock(d) \/ RemoveStale(d) \/ Bind(d) \/ ServeFails(d)
            \/ IdleExit(d) \/ ConnectionCloses(d) \/ UnlinkSocket(d) \/ UnlinkLock(d)
            \/ End(d) \/ Dies(d)

Seek(c) == Connect(c) \/ Spawn(c) \/ CannotRun(c) \/ RunsOut(c) \/ SpawnEnds(c)
           \/ Asked(c) \/ Retire(c) \/ RetireEnds(c) \/ Disconnect(c)

Next == (\E d \in Daemons : Serve(d)) \/ (\E c \in Clients : Seek(c))

Spec == Init /\ [][Next]_vars

-----------------------------------------------------------------------------
\* Properties

TypeOK ==
    /\ daemon \in [Daemons -> DaemonPlaces]
    /\ build \in [Daemons -> Nat]
    /\ opened \in [Daemons -> Daemons \cup {NoFile}]
    /\ lockPath \in Daemons \cup {NoFile} /\ sockPath \in Daemons \cup {NoFile}
    /\ client \in [Clients -> ClientPlaces]
    /\ peer \in [Clients -> Daemons \cup {NoFile}]
    /\ round \in [Clients -> 0..Rounds]

\* One daemon serves the session, and the socket path leads to it: a client
\* that finds a daemon finds the one with the panes and the approvals (the
\* lock that serve takes "to prevent duplicate daemons").
OneServes ==
    \A d \in Daemons : daemon[d] = "serving" =>
        /\ sockPath = d
        /\ \A e \in Daemons : daemon[e] = "serving" => e = d

NoneLeaves == \A d \in Daemons : daemon[d] # "leaving"

\* However many daemons are spawned at once, killed at any point, retired and
\* replaced by another build, one serves and the socket leads to it, as long
\* as none leaves by itself: it is the cleanup of serve, which removes the
\* lock file by its path, that the lock does not withstand.
OneServesUntilOneLeaves == []NoneLeaves => []OneServes

\* A client never stops a daemon in service of its own build or a newer one,
\* though the answer it acts on is older than its kill and the daemon may have
\* been replaced since (connect and retire).
RetiresOnlyOlder ==
    [][\A c \in Clients : client[c] = "retire" /\ client'[c] = "retiring" =>
          \A d \in Daemons : daemon[d] = "serving" /\ daemon'[d] # "serving" =>
              build[d] < Build(c)]_vars

=============================================================================
