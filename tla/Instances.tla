------------------------------ MODULE Instances ------------------------------
(***************************************************************************)
(* One daemon at a time: the lifetime lock, the control socket and the     *)
(* advertisement file (internal/control), the startup and the end of a     *)
(* process and the detached child (cmd/singctl, internal/daemon), and the  *)
(* client of --stop.                                                       *)
(*                                                                         *)
(* A process is a PID; its run tells two processes of the same PID apart,  *)
(* as the start token does.  The lock belongs to an open file, which a     *)
(* parent shares with its child.  Crash takes a process at any step and    *)
(* leaves its files; os.Exit on an error path is such an end too.          *)
(***************************************************************************)
EXTENDS Naturals, FiniteSets

CONSTANTS
  PIDs,       \* process identifiers
  None,
  MaxRuns     \* bound on the processes that are started

ASSUME InstanceConstantsOK == None \notin PIDs /\ MaxRuns \in Nat

VARIABLES
  pc,         \* PID -> the step of main it is at
  role,       \* PID -> "headless", "daemon", "child", "stop" or "none"
  run,        \* PID -> its start token
  holders,    \* the processes with the locked file open
  sock,       \* the process that bound the socket path, None if there is no such file
  adv,        \* instance.json: <<pid, start token>>, or None
  seen,       \* PID -> the advertisement it has read
  child,      \* PID -> the child it has spawned
  cancelled,  \* the processes asked to stop
  stopped,    \* <<confirmed, hit>> of every STOP that was sent, as <<pid, token>>
  reported    \* <<child, seen>> of every parent that reported success

files == <<sock, adv>>
nvars == <<pc, role, run, holders, sock, adv, seen, child, cancelled, stopped, reported>>

Roles == {"headless", "daemon", "child", "stop"}
Alive(p) == pc[p] # "gone"

\* The listener closes with its process; the path stays.
Listening(p) == pc[p] \in {"advertise", "running", "shutdown", "withdraw", "close"}
Peer == IF sock # None /\ Listening(sock) THEN sock ELSE None

Token(p) == <<p, run[p]>>

InstanceInit ==
  /\ pc = [p \in PIDs |-> "gone"] /\ role = [p \in PIDs |-> "none"]
  /\ run = [p \in PIDs |-> 0]
  /\ holders = {} /\ sock = None /\ adv = None
  /\ seen = [p \in PIDs |-> None] /\ child = [p \in PIDs |-> None]
  /\ cancelled = {} /\ stopped = {} /\ reported = {}

-----------------------------------------------------------------------------
(* Steps of main. *)

Goto(p, step) == pc' = [pc EXCEPT ![p] = step]

\* The end of a process: the kernel closes its files, and with the last of them the
\* lock is free.
Gone(p) ==
  /\ Goto(p, "gone") /\ holders' = holders \ {p} /\ cancelled' = cancelled \ {p}
  /\ role' = [role EXCEPT ![p] = "none"]
  /\ seen' = [seen EXCEPT ![p] = None] /\ child' = [child EXCEPT ![p] = None]
Lives == UNCHANGED <<holders, cancelled, role, seen, child>>

\* RUN is used up by every process of a PID.
Runs == {t \in PIDs \X (1 .. MaxRuns) : t[2] <= run[t[1]]}

Launch(p, r) ==
  /\ pc[p] = "gone" /\ Cardinality(Runs) < MaxRuns
  /\ run' = [run EXCEPT ![p] = @ + 1]
  /\ role' = [role EXCEPT ![p] = r]

Start(p) ==
  /\ \E r \in Roles \ {"child"} : Launch(p, r)
  /\ Goto(p, "read")
  /\ UNCHANGED <<holders, files, seen, child, cancelled, stopped, reported>>

\* ReadInstance; the file is replaced by a rename, so it is read whole.
ReadInstance(p) ==
  /\ pc[p] \in {"read", "wait"}
  /\ seen' = [seen EXCEPT ![p] = adv]
  /\ Goto(p, IF pc[p] = "wait" THEN "waitQuery" ELSE "query")
  /\ UNCHANGED <<role, run, holders, files, child, cancelled, stopped, reported>>

\* IsCurrent asks over the socket; the reply must carry the PID and the token.  The
\* query may also fail.
IsCurrent(p) == seen[p] # None /\ Peer # None /\ Token(Peer) = seen[p]

\* decideStartup and runControlCommand.
Decide(p, current) ==
  /\ CASE role[p] = "stop" /\ current -> Goto(p, "confirm") /\ Lives
       [] role[p] = "headless" /\ current -> Gone(p)
       [] role[p] = "stop" /\ ~current -> Goto(p, "kill") /\ Lives
       [] OTHER -> Goto(p, "lock") /\ Lives
  /\ UNCHANGED <<run, files, stopped, reported>>

Query(p) ==
  /\ pc[p] = "query"
  /\ \E current \in {IsCurrent(p), FALSE} : Decide(p, current)

\* Mutant: the lock is not looked at.
AcquireInstanceLockNot(p) ==
  /\ pc[p] = "lock"
  /\ holders' = holders \cup {p} /\ Goto(p, "probe")
  /\ UNCHANGED <<role, run, files, seen, child, cancelled, stopped, reported>>

AcquireInstanceLock(p) ==
  /\ pc[p] = "lock"
  /\ \/ /\ holders = {} /\ holders' = {p} /\ Goto(p, "probe")
        /\ UNCHANGED <<role, seen, child, cancelled>>
     \/ holders # {} /\ Gone(p)
  /\ UNCHANGED <<run, files, stopped, reported>>

\* The flock of an inherited descriptor is granted: it is the same open file.
AdoptInstanceLock(p) ==
  /\ pc[p] = "adopt" /\ p \in holders
  /\ Goto(p, "probe")
  /\ UNCHANGED <<role, run, holders, files, seen, child, cancelled, stopped, reported>>

\* RecoverState: nothing that answers is removed.
SocketProbe(p) ==
  /\ pc[p] = "probe"
  /\ Goto(p, IF Peer = None THEN "unlink" ELSE "refused")
  /\ UNCHANGED <<role, run, holders, files, seen, child, cancelled, stopped, reported>>

Unlink(p) ==
  /\ pc[p] = "unlink"
  /\ sock' = None /\ Goto(p, "clean")
  /\ UNCHANGED <<role, run, holders, adv, seen, child, cancelled, stopped, reported>>

Clean(p) ==
  /\ pc[p] = "clean"
  /\ adv' = None
  /\ Goto(p, IF role[p] = "daemon" THEN "spawn" ELSE "listen")
  /\ UNCHANGED <<role, run, holders, sock, seen, child, cancelled, stopped, reported>>

-----------------------------------------------------------------------------
(* The parent of a detached child. *)

\* The child inherits the locked file.  (The check for a running instance just before
\* finds none: RecoverState has removed the advertisement under the lock.)
Spawn(p) ==
  /\ pc[p] = "spawn"
  /\ \E c \in PIDs \ {p} :
       /\ Launch(c, "child")
       /\ child' = [child EXCEPT ![p] = <<c, run[c] + 1>>]
       /\ pc' = [pc EXCEPT ![p] = "wait", ![c] = "adopt"]
       /\ holders' = holders \cup {c}
  /\ UNCHANGED <<files, seen, cancelled, stopped, reported>>

\* waitForInstance: an instance that is not the parent and answers; after five seconds
\* the parent reports a failure and leaves the child alone.
WaitQuery(p) ==
  /\ pc[p] = "waitQuery"
  /\ \/ /\ seen[p] # None /\ seen[p][1] # p /\ IsCurrent(p)
        /\ reported' = reported \cup {<<child[p], seen[p]>>}
        /\ Gone(p)
     \/ Goto(p, "wait") /\ Lives /\ UNCHANGED reported
     \/ Gone(p) /\ UNCHANGED reported
  /\ UNCHANGED <<run, files, stopped>>

-----------------------------------------------------------------------------
(* The instance. *)

\* Server.Start: a path that is there and does not answer is replaced.
Listen(p) ==
  /\ pc[p] = "listen"
  /\ IF Peer = None THEN sock' = p /\ Goto(p, "advertise") ELSE Goto(p, "refused") /\ UNCHANGED sock
  /\ UNCHANGED <<role, run, holders, adv, seen, child, cancelled, stopped, reported>>

\* WriteInstance, by a rename; when it fails the socket is closed again.
Advertise(p) ==
  /\ pc[p] = "advertise"
  /\ \/ adv' = Token(p) /\ Goto(p, "running") /\ Lives /\ UNCHANGED sock
     \/ sock' = None /\ Gone(p) /\ UNCHANGED adv
  /\ UNCHANGED <<run, stopped, reported>>

\* Mutant: the advertisement is withdrawn before the cores are shut down.
CancelWithdraws(p) ==
  /\ pc[p] = "running" /\ p \in cancelled
  /\ Goto(p, "shutdown") /\ adv' = None
  /\ UNCHANGED <<role, run, holders, sock, seen, child, cancelled, stopped, reported>>

\* The context is cancelled, by STOP or by a signal, and runHeadless shuts the cores down.
Cancel(p) ==
  /\ pc[p] = "running" /\ p \in cancelled
  /\ Goto(p, "shutdown")
  /\ UNCHANGED <<role, run, holders, files, seen, child, cancelled, stopped, reported>>

\* Executor.Shutdown closes both cores and does not look at its context: it returns when
\* they have closed, which may be never.  (With an error main exits without its deferred
\* calls, which is a Crash.)
Shutdown(p) ==
  /\ pc[p] = "shutdown"
  /\ Goto(p, "withdraw")
  /\ UNCHANGED <<role, run, holders, files, seen, child, cancelled, stopped, reported>>

\* Mutant: the lock goes first.
WithdrawUnlocked(p) ==
  /\ pc[p] = "withdraw"
  /\ adv' = None /\ Goto(p, "close") /\ holders' = holders \ {p}
  /\ UNCHANGED <<role, run, sock, seen, child, cancelled, stopped, reported>>

\* The deferred calls, last first: RemoveInstance, Server.Close, InstanceLock.Close.
Withdraw(p) ==
  /\ pc[p] = "withdraw"
  /\ adv' = None /\ Goto(p, "close")
  /\ UNCHANGED <<role, run, holders, sock, seen, child, cancelled, stopped, reported>>

CloseServer(p) ==
  /\ pc[p] = "close"
  /\ sock' = None /\ Goto(p, "unlock")
  /\ UNCHANGED <<role, run, holders, adv, seen, child, cancelled, stopped, reported>>

Unlock(p) ==
  /\ pc[p] \in {"unlock", "refused"}
  /\ Gone(p)
  /\ UNCHANGED <<run, files, stopped, reported>>

\* A kill, or an error that ends in os.Exit: no deferred call is run.
Crash(p) ==
  /\ Alive(p)
  /\ Gone(p)
  /\ UNCHANGED <<run, files, stopped, reported>>

-----------------------------------------------------------------------------
(* The client of --stop: the prompt names a PID, the request goes to the socket. *)

RequestStop(p) ==
  /\ pc[p] = "confirm"
  /\ stopped' = IF Peer = None THEN stopped ELSE stopped \cup {<<seen[p], Token(Peer)>>}
  /\ Goto(p, "gone")
  /\ cancelled' = cancelled \cup ({Peer} \ {None})
  /\ role' = [role EXCEPT ![p] = "none"] /\ seen' = [seen EXCEPT ![p] = None]
  /\ UNCHANGED <<run, holders, files, child, reported>>

\* No instance answered: whoever holds the ports is sent a SIGTERM.
KillHolders(p) ==
  /\ pc[p] = "kill"
  /\ cancelled' = cancelled \cup {q \in PIDs : pc[q] \in {"running", "shutdown"}}
  /\ Goto(p, "gone")
  /\ role' = [role EXCEPT ![p] = "none"] /\ seen' = [seen EXCEPT ![p] = None]
  /\ UNCHANGED <<run, holders, files, child, stopped, reported>>

-----------------------------------------------------------------------------

Main(p) ==
  \/ ReadInstance(p) \/ Query(p) \/ AcquireInstanceLock(p) \/ AdoptInstanceLock(p)
  \/ SocketProbe(p) \/ Unlink(p) \/ Clean(p) \/ Spawn(p) \/ WaitQuery(p)
  \/ Listen(p) \/ Advertise(p) \/ Cancel(p) \/ Shutdown(p) \/ Withdraw(p)
  \/ CloseServer(p) \/ Unlock(p) \/ KillHolders(p)

InstanceNext ==
  \E p \in PIDs : Main(p) \/ Start(p) \/ Crash(p) \/ RequestStop(p)

InstanceSpec == InstanceInit /\ [][InstanceNext]_nvars

-----------------------------------------------------------------------------

\* At most one process runs cores or is on its way there, however starts, detached
\* children, stops and crashes overlap.
OneDaemon ==
  \A p, q \in PIDs :
    /\ pc[p] \in {"unlink", "clean", "listen", "advertise", "running", "shutdown", "withdraw", "close"}
    /\ pc[q] \in {"listen", "advertise", "running", "shutdown", "withdraw", "close"}
    => p = q

\* What runs can be found: the socket path leads to it and the advertisement names
\* this very process, whatever files earlier ones left behind or removed late.  That
\* includes a daemon that was asked to stop and hangs while its cores close.
RunningIsFound ==
  \A p \in PIDs : pc[p] \in {"running", "shutdown"} => Peer = p /\ adv = Token(p)

\* The holder of the lock never takes over from someone who still answers, and a
\* parent that reports success has seen its own child.
TakeoverIsSafe ==
  /\ \A p \in PIDs : pc[p] # "refused"
  /\ \A r \in reported : r[1] = r[2]

\* --stop asks the user about a PID and prints that it asked that PID to stop.
StopHitsConfirmed == \A s \in stopped : s[1] = s[2]
=============================================================================
