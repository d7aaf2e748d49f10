--------------------------- MODULE InstancesProofs ---------------------------
(***************************************************************************)
(* TLAPS proofs about Instances, for any set of PIDs and any number of     *)
(* starts: one daemon runs, it can be found, and taking over is safe.      *)
(***************************************************************************)
EXTENDS Instances, TLAPS

\* The steps of main between taking, or inheriting, the lock and the end.
Holding ==
  {"adopt", "probe", "unlink", "clean", "spawn", "wait", "waitQuery", "listen",
   "advertise", "running", "shutdown", "withdraw", "close", "unlock", "refused"}
Steps == Holding \cup {"gone", "read", "query", "lock", "confirm", "kill"}

\* Where a parent only watches its child.
Watching == {"wait", "waitQuery"}

Tokens == PIDs \X Nat

\* The types of the processes and of the files they leave.
InstanceTypeOK ==
  /\ pc \in [PIDs -> Steps] /\ role \in [PIDs -> Roles \cup {"none"}]
  /\ run \in [PIDs -> Nat]
  /\ holders \subseteq PIDs /\ cancelled \subseteq PIDs
  /\ sock \in PIDs \cup {None} /\ adv \in Tokens \cup {None}
  /\ seen \in [PIDs -> Tokens \cup {None}] /\ child \in [PIDs -> Tokens \cup {None}]

\* The lock is held exactly by those whose step says so.
Locked == \A p \in PIDs : p \in holders <=> pc[p] \in Holding

\* Two share the lock only as a parent that watches and the very child it spawned.
Guards(p, q) == pc[p] \in Watching /\ child[p] = Token(q) /\ role[q] = "child"
Shared == \A p, q \in holders : p = q \/ Guards(p, q) \/ Guards(q, p)

\* Only a daemon's parent spawns and waits; a child does neither.
Parents == \A p \in PIDs : pc[p] \in Watching \cup {"spawn"} => role[p] = "daemon"

\* Whoever listens owns the socket path, whoever runs is advertised.
Served ==
  \A p \in PIDs : (Listening(p) => sock = p) /\ (pc[p] \in {"running", "shutdown"} => adv = Token(p))

InstanceInv == InstanceTypeOK /\ Locked /\ Shared /\ Parents /\ Served /\ TakeoverIsSafe

-----------------------------------------------------------------------------

\* Beside a parent that watches, one process at most is past the lock.
LEMMA Alone ==
  ASSUME InstanceInv, NEW p \in PIDs, NEW q \in PIDs,
         pc[p] \in Holding \ Watching, pc[q] \in Holding \ Watching
  PROVE  p = q
  BY DEF InstanceInv, Locked, Shared, Guards

\* A process past the lock that does not listen finds that nobody does.
LEMMA NobodyAnswers ==
  ASSUME InstanceInv, NEW p \in PIDs, pc[p] \in {"probe", "listen"}
  PROVE  Peer = None
<1> SUFFICES ASSUME sock # None, Listening(sock) PROVE FALSE
  BY DEF Peer
<1>1. sock \in PIDs /\ pc[sock] \in Holding \ Watching
  BY DEF InstanceInv, InstanceTypeOK, Listening, Holding, Watching
<1>2. sock = p
  BY <1>1, Alone DEF Holding, Watching
<1> QED BY <1>2 DEF Listening

LEMMA InstanceInitInv == ASSUME InstanceInit PROVE InstanceInv
  BY InstanceConstantsOK DEF InstanceInit, InstanceInv, InstanceTypeOK, Locked, Shared, Parents,
     Served, TakeoverIsSafe, Holding, Steps, Watching, Listening

-----------------------------------------------------------------------------
(***************************************************************************)
(* One lemma per kind of step.                                             *)
(***************************************************************************)

\* A process that moves on, past the lock or before it, keeps the invariant when it does
\* not begin to listen, to run, to spawn or to wait.
LEMMA MoveInv ==
  ASSUME InstanceInv, NEW p \in PIDs, NEW step \in Steps, Goto(p, step),
         pc[p] \in Holding <=> step \in Holding,
         pc[p] \in Watching <=> step \in Watching,
         step # "spawn", step # "refused", Listening(p) <=> Listening(p)',
         step \notin {"running", "shutdown"},
         UNCHANGED <<role, run, holders, sock, adv, child, reported>>,
         seen' \in [PIDs -> Tokens \cup {None}], cancelled' \subseteq PIDs
  PROVE  InstanceInv'
<1> USE DEF InstanceInv, Goto
<1>1. InstanceTypeOK'
  BY DEF InstanceTypeOK
<1>2. Locked' /\ Parents'
  BY DEF InstanceTypeOK, Locked, Parents, Watching
<1>3. Shared'
  BY DEF InstanceTypeOK, Shared, Guards, Token
<1>4. Served'
  BY DEF InstanceTypeOK, Served, Listening, Token
<1>5. TakeoverIsSafe'
  BY DEF InstanceTypeOK, TakeoverIsSafe
<1> QED BY <1>1, <1>2, <1>3, <1>4, <1>5

\* A process that ends, in order or not, leaves the others as they were; so does one
\* that takes its socket path with it while nobody else listens.
LEMMA GoneInv ==
  ASSUME InstanceInv, NEW p \in PIDs, Gone(p), UNCHANGED <<run, adv>>,
         sock' = sock \/ (sock' = None /\ \A q \in PIDs \ {p} : ~Listening(q)),
         \A r \in reported' : r[1] = r[2]
  PROVE  InstanceInv'
<1> USE DEF InstanceInv, Gone, Goto
<1>1. InstanceTypeOK'
  BY DEF InstanceTypeOK, Steps
<1>2. Locked' /\ Parents'
  BY DEF InstanceTypeOK, Locked, Parents, Watching, Holding
<1>3. Shared'
  BY DEF InstanceTypeOK, Shared, Guards, Token
<1>4. Served'
  BY DEF InstanceTypeOK, Served, Listening, Token
<1>5. TakeoverIsSafe'
  BY DEF InstanceTypeOK, TakeoverIsSafe
<1> QED BY <1>1, <1>2, <1>3, <1>4, <1>5

LEMMA StartInv == ASSUME InstanceInv, NEW p \in PIDs, Start(p) PROVE InstanceInv'
<1> USE DEF InstanceInv, Start, Launch, Goto, files
<1>1. InstanceTypeOK'
  BY DEF InstanceTypeOK, Steps, Roles
<1>2. Locked' /\ Parents'
  BY DEF InstanceTypeOK, Locked, Parents, Watching, Holding
<1>3. Shared'
  BY DEF InstanceTypeOK, Locked, Shared, Guards, Token, Holding
<1>4. Served'
  BY DEF InstanceTypeOK, Served, Listening, Token
<1>5. TakeoverIsSafe'
  BY DEF InstanceTypeOK, TakeoverIsSafe
<1> QED BY <1>1, <1>2, <1>3, <1>4, <1>5

LEMMA QueryInv == ASSUME InstanceInv, NEW p \in PIDs, Query(p) PROVE InstanceInv'
<1>1. PICK current \in {IsCurrent(p), FALSE} : Decide(p, current)
  BY DEF Query
<1>2. pc[p] = "query" /\ UNCHANGED <<run, sock, adv, reported>>
  BY <1>1 DEF Query, Decide, files
<1>3. CASE Gone(p)
  BY <1>2, <1>3, GoneInv DEF InstanceInv, TakeoverIsSafe
<1>4. CASE Lives /\ \E step \in {"confirm", "kill", "lock"} : Goto(p, step)
  <2>1. PICK step \in {"confirm", "kill", "lock"} : Goto(p, step)
    BY <1>4
  <2>2. Listening(p) <=> Listening(p)'
    BY <1>2, <2>1 DEF Listening, Goto, InstanceInv, InstanceTypeOK
  <2> QED BY <1>2, <1>4, <2>1, <2>2, MoveInv
          DEF Lives, Holding, Watching, Steps, InstanceInv, InstanceTypeOK
<1> QED BY <1>1, <1>3, <1>4 DEF Decide

LEMMA ReadInv == ASSUME InstanceInv, NEW p \in PIDs, ReadInstance(p) PROVE InstanceInv'
<1>1. PICK step \in {"waitQuery", "query"} : Goto(p, step) /\ (step = "waitQuery" <=> pc[p] = "wait")
  BY DEF ReadInstance
<1>2. Listening(p) <=> Listening(p)'
  BY <1>1 DEF ReadInstance, Listening, Goto, InstanceInv, InstanceTypeOK
<1>3. seen' \in [PIDs -> Tokens \cup {None}]
  BY DEF ReadInstance, InstanceInv, InstanceTypeOK
<1> QED BY <1>1, <1>2, <1>3, MoveInv
        DEF ReadInstance, files, Holding, Watching, Steps, InstanceInv, InstanceTypeOK

LEMMA LockInv == ASSUME InstanceInv, NEW p \in PIDs, AcquireInstanceLock(p) PROVE InstanceInv'
<1>1. CASE Gone(p)
  BY <1>1, GoneInv DEF AcquireInstanceLock, files, InstanceInv, TakeoverIsSafe
<1>2. CASE /\ holders = {} /\ holders' = {p} /\ Goto(p, "probe")
           /\ UNCHANGED <<role, seen, child, cancelled>>
  <2> USE <1>2 DEF InstanceInv, AcquireInstanceLock, Goto, files
  <2>1. InstanceTypeOK'
    BY DEF InstanceTypeOK, Steps, Holding
  <2>2. Locked' /\ Parents' /\ Shared'
    BY DEF InstanceTypeOK, Locked, Parents, Shared, Watching, Holding
  <2>3. Served'
    BY DEF InstanceTypeOK, Served, Listening, Token
  <2>4. TakeoverIsSafe'
    BY DEF InstanceTypeOK, TakeoverIsSafe
  <2> QED BY <2>1, <2>2, <2>3, <2>4
<1> QED BY <1>1, <1>2 DEF AcquireInstanceLock

\* Steps of the holder of the lock that only move on: adopting and probing.
LEMMA ProbeInv ==
  ASSUME InstanceInv, NEW p \in PIDs, AdoptInstanceLock(p) \/ SocketProbe(p)
  PROVE  InstanceInv'
<1>1. PICK step \in {"probe", "unlink"} : Goto(p, step)
  BY NobodyAnswers DEF AdoptInstanceLock, SocketProbe
<1>2. Listening(p) <=> Listening(p)'
  BY <1>1 DEF AdoptInstanceLock, SocketProbe, Listening, Goto, InstanceInv, InstanceTypeOK
<1> QED BY <1>1, <1>2, MoveInv
        DEF AdoptInstanceLock, SocketProbe, files, Holding, Watching, Steps, InstanceInv, InstanceTypeOK

\* The holder changes the files: nobody else listens or runs, so nobody misses them.
LEMMA FilesInv ==
  ASSUME InstanceInv, NEW p \in PIDs, NEW step \in Holding \ Watching, Goto(p, step),
         pc[p] \in Holding \ Watching, step # "refused", step = "spawn" => role[p] = "daemon",
         UNCHANGED <<role, run, holders, seen, child, cancelled, reported>>,
         sock' \in PIDs \cup {None}, adv' \in Tokens \cup {None},
         Listening(p)' => sock' = p, step \in {"running", "shutdown"} => adv' = Token(p)
  PROVE  InstanceInv'
<1> USE DEF InstanceInv, Goto
<1>1. InstanceTypeOK'
  BY DEF InstanceTypeOK, Steps
<1>2. Locked' /\ Parents'
  BY DEF InstanceTypeOK, Locked, Parents
<1>3. Shared'
  BY DEF InstanceTypeOK, Shared, Guards, Token
<1>4. Served'
  <2> SUFFICES ASSUME NEW q \in PIDs
               PROVE  (Listening(q)' => sock' = q) /\ (pc'[q] \in {"running", "shutdown"} => adv' = Token(q)')
    BY DEF Served
  <2>1. CASE q = p
    BY <2>1 DEF InstanceTypeOK, Token
  <2>2. CASE q # p
    <3>1. pc[q] \notin Holding \ Watching
      BY <2>2, Alone
    <3> QED BY <2>2, <3>1 DEF InstanceTypeOK, Listening, Holding, Watching
  <2> QED BY <2>1, <2>2
<1>5. TakeoverIsSafe'
  BY DEF InstanceTypeOK, TakeoverIsSafe
<1> QED BY <1>1, <1>2, <1>3, <1>4, <1>5

LEMMA HolderInv ==
  ASSUME InstanceInv, NEW p \in PIDs,
         Unlink(p) \/ Clean(p) \/ Listen(p) \/ Cancel(p) \/ Shutdown(p)
         \/ Withdraw(p) \/ CloseServer(p)
  PROVE  InstanceInv'
<1> USE DEF Goto, Listening, files, Holding, Watching
<1>0. InstanceTypeOK
  BY DEF InstanceInv
<1>1. CASE Unlink(p)
  BY <1>0, <1>1, FilesInv DEF Unlink, InstanceTypeOK
<1>2. CASE Clean(p)
  <2>1. PICK step \in {"spawn", "listen"} : Goto(p, step) /\ (step = "spawn" => role[p] = "daemon")
    BY <1>2 DEF Clean
  <2> QED BY <1>0, <1>2, <2>1, FilesInv DEF Clean, InstanceTypeOK
<1>3. CASE Listen(p)
  <2>1. sock' = p /\ Goto(p, "advertise")
    BY <1>3, NobodyAnswers DEF Listen
  <2> QED BY <1>0, <1>3, <2>1, FilesInv DEF Listen, InstanceTypeOK
<1>4. CASE Cancel(p)
  BY <1>0, <1>4, FilesInv DEF Cancel, InstanceTypeOK, InstanceInv, Served
<1>5. CASE Shutdown(p)
  BY <1>0, <1>5, FilesInv DEF Shutdown, InstanceTypeOK, InstanceInv, Served
<1>6. CASE Withdraw(p)
  BY <1>0, <1>6, FilesInv DEF Withdraw, InstanceTypeOK, InstanceInv, Served
<1>7. CASE CloseServer(p)
  BY <1>0, <1>7, FilesInv DEF CloseServer, InstanceTypeOK
<1> QED BY <1>1, <1>2, <1>3, <1>4, <1>5, <1>6, <1>7

\* The parent was alone with the lock, and the child inherits it.
LEMMA SpawnInv == ASSUME InstanceInv, NEW p \in PIDs, Spawn(p) PROVE InstanceInv'
<1> USE DEF InstanceInv
<1>1. PICK c \in PIDs \ {p} :
        /\ pc[c] = "gone"
        /\ run' = [run EXCEPT ![c] = @ + 1] /\ role' = [role EXCEPT ![c] = "child"]
        /\ child' = [child EXCEPT ![p] = <<c, run[c] + 1>>]
        /\ pc' = [pc EXCEPT ![p] = "wait", ![c] = "adopt"]
        /\ holders' = holders \cup {c}
  BY DEF Spawn, Launch
<1>2. pc[p] = "spawn" /\ UNCHANGED <<sock, adv, seen, cancelled, reported>>
  BY DEF Spawn, files
<1>3. holders = {p}
  BY <1>2 DEF InstanceTypeOK, Locked, Shared, Parents, Guards, Holding, Watching
<1>4. InstanceTypeOK'
  BY <1>1, <1>2 DEF InstanceTypeOK, Steps, Holding, Roles, Tokens
<1>5. Locked' /\ Parents'
  BY <1>1, <1>2 DEF InstanceTypeOK, Locked, Parents, Watching, Holding
<1>6. Shared'
  <2>1. Guards(p, c)'
    BY <1>1 DEF InstanceTypeOK, Guards, Watching, Token
  <2> QED BY <1>1, <1>3, <2>1 DEF Shared
<1>7. Served'
  BY <1>1, <1>2 DEF InstanceTypeOK, Served, Listening, Token
<1>8. TakeoverIsSafe'
  BY <1>1, <1>2 DEF InstanceTypeOK, TakeoverIsSafe
<1> QED BY <1>4, <1>5, <1>6, <1>7, <1>8

\* Whoever answers a parent that waits is its child.
LEMMA WaitInv == ASSUME InstanceInv, NEW p \in PIDs, WaitQuery(p) PROVE InstanceInv'
<1>0. pc[p] = "waitQuery" /\ UNCHANGED <<run, sock, adv>>
  BY DEF WaitQuery, files
<1>1. CASE seen[p] # None /\ IsCurrent(p) /\ reported' = reported \cup {<<child[p], seen[p]>>} /\ Gone(p)
  <2>1. sock \in PIDs /\ Listening(sock) /\ Token(sock) = seen[p]
    BY <1>1 DEF IsCurrent, Peer, InstanceInv, InstanceTypeOK
  <2>2. sock \in holders /\ p \in holders /\ sock # p
    BY <1>0, <2>1 DEF Listening, InstanceInv, Locked, Holding
  <2>3. Guards(p, sock)
    BY <2>1, <2>2 DEF InstanceInv, Shared, Guards, Listening, Watching
  <2>4. child[p] = seen[p]
    BY <2>1, <2>3 DEF Guards
  <2>5. \A r \in reported' : r[1] = r[2]
    BY <1>1, <2>4 DEF InstanceInv, TakeoverIsSafe
  <2> QED BY <1>0, <1>1, <2>5, GoneInv
<1>2. CASE Goto(p, "wait") /\ Lives /\ UNCHANGED reported
  <2>1. Listening(p) <=> Listening(p)'
    BY <1>0, <1>2 DEF Listening, Goto, InstanceInv, InstanceTypeOK
  <2> QED BY <1>0, <1>2, <2>1, MoveInv
          DEF Lives, Holding, Watching, Steps, InstanceInv, InstanceTypeOK
<1>3. CASE Gone(p) /\ UNCHANGED reported
  BY <1>0, <1>3, GoneInv DEF InstanceInv, TakeoverIsSafe
<1> QED BY <1>1, <1>2, <1>3 DEF WaitQuery

LEMMA AdvertiseInv == ASSUME InstanceInv, NEW p \in PIDs, Advertise(p) PROVE InstanceInv'
<1>0. pc[p] = "advertise" /\ UNCHANGED <<run, reported>> /\ InstanceTypeOK
  BY DEF Advertise, InstanceInv
<1>1. CASE adv' = Token(p) /\ Goto(p, "running") /\ Lives /\ UNCHANGED sock
  <2>1. sock = p
    BY <1>0 DEF InstanceInv, Served, Listening
  <2>2. Token(p) \in Tokens
    BY <1>0 DEF InstanceTypeOK, Token, Tokens
  <2> QED BY <1>0, <1>1, <2>1, <2>2, FilesInv DEF Lives, Holding, Watching, InstanceTypeOK
<1>2. CASE sock' = None /\ Gone(p) /\ UNCHANGED adv
  <2>1. \A q \in PIDs \ {p} : ~Listening(q)
    BY <1>0, Alone DEF Listening, Holding, Watching
  <2> QED BY <1>0, <1>2, <2>1, GoneInv DEF InstanceInv, TakeoverIsSafe
<1> QED BY <1>1, <1>2 DEF Advertise

LEMMA EndInv == ASSUME InstanceInv, NEW p \in PIDs, Unlock(p) \/ Crash(p) PROVE InstanceInv'
  BY GoneInv DEF Unlock, Crash, files, InstanceInv, TakeoverIsSafe

\* The client of --stop never held the lock.
LEMMA StopInv == ASSUME InstanceInv, NEW p \in PIDs, RequestStop(p) \/ KillHolders(p) PROVE InstanceInv'
<1> USE DEF InstanceInv, RequestStop, KillHolders, Goto, files
<1>1. InstanceTypeOK'
  BY DEF InstanceTypeOK, Steps, Peer
<1>2. Locked' /\ Parents'
  BY DEF InstanceTypeOK, Locked, Parents, Watching, Holding
<1>3. Shared'
  BY DEF InstanceTypeOK, Locked, Shared, Guards, Token, Holding
<1>4. Served'
  BY DEF InstanceTypeOK, Served, Listening, Token
<1>5. TakeoverIsSafe'
  BY DEF InstanceTypeOK, TakeoverIsSafe
<1> QED BY <1>1, <1>2, <1>3, <1>4, <1>5

LEMMA InstanceStep == ASSUME InstanceInv, [InstanceNext]_nvars PROVE InstanceInv'
<1>1. CASE UNCHANGED nvars
  BY <1>1 DEF nvars, InstanceInv, InstanceTypeOK, Locked, Shared, Guards, Parents, Served,
     TakeoverIsSafe, Listening, Token
<1>2. ASSUME NEW p \in PIDs, Main(p) \/ Start(p) \/ Crash(p) \/ RequestStop(p)
      PROVE  InstanceInv'
  BY <1>2, ReadInv, QueryInv, LockInv, ProbeInv, HolderInv, SpawnInv, WaitInv, AdvertiseInv,
     EndInv, StopInv, StartInv DEF Main
<1> QED BY <1>1, <1>2 DEF InstanceNext

-----------------------------------------------------------------------------

\* Who holds the lock, which files are whose and who waits for whom, in every reachable
\* state of any number of processes.
THEOREM InstanceInvariance == InstanceSpec => []InstanceInv
<1>1. InstanceInit => InstanceInv
  BY InstanceInitInv
<1>2. InstanceInv /\ [InstanceNext]_nvars => InstanceInv'
  BY InstanceStep
<1> QED BY <1>1, <1>2, PTL DEF InstanceSpec

\* The lifetime lock of internal/control lets at most one process run cores or be on
\* its way there, its detached child included.
THEOREM DaemonIsAlone == InstanceSpec => []OneDaemon
<1>1. InstanceInv => OneDaemon
  BY Alone DEF OneDaemon, Holding, Watching
<1> QED BY <1>1, InstanceInvariance, PTL

\* The socket path leads to the running daemon and instance.json names it, whatever
\* crashed before it and whoever removes files late.
THEOREM DaemonIsFound == InstanceSpec => []RunningIsFound
<1>1. InstanceInv => RunningIsFound
  BY InstanceConstantsOK DEF InstanceInv, Served, RunningIsFound, Peer, Listening
<1> QED BY <1>1, InstanceInvariance, PTL

\* RecoverState and Server.Start under the lock never meet a live peer, and a parent
\* reports success for its own child only.
THEOREM TakeoverNeverDisplaces == InstanceSpec => []TakeoverIsSafe
<1>1. InstanceInv => TakeoverIsSafe
  BY DEF InstanceInv
<1> QED BY <1>1, InstanceInvariance, PTL
=============================================================================
