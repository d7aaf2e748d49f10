------------------------------ MODULE AppRouting ------------------------------
(***************************************************************************)
(* Applications routed through the proxy on macOS: the saved list          *)
(* (appStore), the router's PIDs and reference counts (darwinRouter), the  *)
(* targets of the network extension (darwinController), the requests of    *)
(* the Executor that tie them together, and the cached list of running     *)
(* applications.                                                           *)
(*                                                                         *)
(* Requests run one goroutine each, step by step; the processes of the     *)
(* system come and go between any two steps and PIDs are reused.  A        *)
(* request refused because the proxy is stopped or its argument is empty   *)
(* changes nothing and has no action.                                      *)
(***************************************************************************)
EXTENDS Naturals, FiniteSets

CONSTANTS
  PIDs, Apps,   \* process identifiers, bundle identifiers
  Requests,     \* the requests that may be in flight together
  None,
  MaxStarts,    \* bound on the processes that start
  MaxCalls,     \* bound on the requests that take several steps
  MaxEnds       \* bound on the ends of the daemon

ASSUME AppConstantsOK ==
  /\ None \notin PIDs \cup Apps /\ None \notin BOOLEAN /\ None \notin Nat
  /\ None \notin [app : Apps \cup {None}, start : Nat]
  /\ {MaxStarts, MaxCalls, MaxEnds} \subseteq Nat

VARIABLES
  proc,      \* PID -> the process: its application (None outside a bundle), its start
  starts,    \* processes started so far, which makes a start unique
  up, ends,  \* "up", "closing" or "down"; the ends of the daemon so far
  entries,   \* appStore: application -> enabled, None if it has no entry
  disk,      \* what proxied-apps.json holds
  byPID,     \* darwinRouter: PID -> application, None if it is not routed
  refs,      \* darwinRouter: application -> routed PIDs
  file,      \* the targets in the extension's config.json
  flushed,   \* the last SetTargets reached the file
  req,       \* request -> what it is doing
  calls,     \* the requests so far
  scan,      \* the goroutine in ListApplications
  cache,     \* appCache with appIdentity, None if there is none
  wanted     \* application -> what its last answered request asked for, None if that failed

rvars == <<byPID, refs>>
svars == <<entries, disk>>
tvars == <<file, flushed>>
lvars == <<scan, cache>>
pvars == <<proc, starts>>
dvars == <<up, ends>>
avars == <<proc, starts, up, ends, entries, disk, byPID, refs, file, flushed, req, calls,
           scan, cache, wanted>>

NoRequest == [pc |-> "idle", app |-> None, on |-> None, routes |-> FALSE, todo |-> {}, ok |-> TRUE,
              val |-> {}]
NoScan == [pc |-> "idle", todo |-> {}, pid |-> None, before |-> None, id |-> None,
           apps |-> <<>>, ids |-> <<>>, cacheable |-> TRUE]

AppOf(p) == IF proc[p] = None THEN None ELSE proc[p].app     \* BundleIDForPID
Identity(p) == IF proc[p] = None THEN None ELSE proc[p].start \* processIdentity
Enabled(list) == {a \in Apps : list[a] = TRUE}
Routed == {a \in Apps : refs[a] > 0}                          \* RoutedBundleIDs

AInit ==
  /\ proc = [p \in PIDs |-> None] /\ starts = 0
  /\ up = "up" /\ ends = 0
  /\ entries = [a \in Apps |-> None] /\ disk = entries
  /\ byPID = [p \in PIDs |-> None] /\ refs = [a \in Apps |-> 0]
  /\ file = {} /\ flushed = TRUE
  /\ req = [r \in Requests |-> NoRequest] /\ calls = 0
  /\ scan = NoScan /\ cache = None
  /\ wanted = [a \in Apps |-> None]

-----------------------------------------------------------------------------
(* The system's processes. *)

Born(p, a) ==
  /\ proc[p] = None /\ starts < MaxStarts
  /\ starts' = starts + 1
  /\ proc' = [proc EXCEPT ![p] = [app |-> a, start |-> starts + 1]]

Fork(p, a) == Born(p, a) /\ UNCHANGED <<dvars, svars, rvars, tvars, req, calls, lvars, wanted>>

Dies(p) ==
  /\ proc[p] # None /\ proc' = [proc EXCEPT ![p] = None]
  /\ UNCHANGED <<starts, dvars, svars, rvars, tvars, req, calls, lvars, wanted>>

-----------------------------------------------------------------------------
(* The router's bookkeeping; each call is one critical section. *)

Register(p, a) ==
  IF byPID[p] # None THEN UNCHANGED rvars
  ELSE byPID' = [byPID EXCEPT ![p] = a] /\ refs' = [refs EXCEPT ![a] = @ + 1]

Deregister(p) ==
  IF byPID[p] = None THEN UNCHANGED rvars
  ELSE byPID' = [byPID EXCEPT ![p] = None] /\ refs' = [refs EXCEPT ![byPID[p]] = @ - 1]

Cleanup == byPID' = [p \in PIDs |-> None] /\ refs' = [a \in Apps |-> 0]

\* RoutePID and RestartProxied: the process is recorded if it belongs to a bundle.
RoutePID(p) ==
  /\ up # "down" /\ AppOf(p) # None
  /\ Register(p, AppOf(p))
  /\ UNCHANGED <<pvars, dvars, svars, tvars, req, calls, lvars, wanted>>

UnroutePID(p) ==
  /\ up # "down" /\ byPID[p] # None
  /\ Deregister(p)
  /\ UNCHANGED <<pvars, dvars, svars, tvars, req, calls, lvars, wanted>>

\* SIGTERM: the process may ignore it.
StopProxied(p) ==
  /\ up # "down" /\ proc[p] # None
  /\ Deregister(p)
  /\ proc' \in {proc, [proc EXCEPT ![p] = None]}
  /\ UNCHANGED <<starts, dvars, svars, tvars, req, calls, lvars, wanted>>

\* A command outside a bundle is started all the same and the call fails.
LaunchProxied(p, a) ==
  /\ up # "down" /\ Born(p, a)
  /\ IF a = None THEN UNCHANGED rvars ELSE Register(p, a)
  /\ UNCHANGED <<dvars, svars, tvars, req, calls, lvars, wanted>>

\* Part of ApplySettings: the ports changed.
ResetRouter ==
  /\ up # "down" /\ Cleanup
  /\ UNCHANGED <<pvars, dvars, svars, tvars, req, calls, lvars, wanted>>

-----------------------------------------------------------------------------
(* Requests that change the list. *)

Begin(r, next) ==
  /\ up # "down" /\ req[r] = NoRequest /\ calls < MaxCalls /\ calls' = calls + 1
  /\ req' = [req EXCEPT ![r] = next]

Call(r, next) == Begin(r, next) /\ wanted' = [wanted EXCEPT ![next.app] = None]

Step(r, pc) == req' = [req EXCEPT ![r].pc = pc]

\* The reply; a failed one leaves open what holds for the application.
Answer(r, ok) ==
  /\ req' = [req EXCEPT ![r] = NoRequest]
  /\ wanted' = [wanted EXCEPT ![req[r].app] = IF ok THEN req[r].on ELSE None]

RouteApp(r, a) ==
  LET pids == {p \in PIDs : AppOf(p) = a} IN
  /\ pids # {}
  /\ Call(r, [NoRequest EXCEPT !.pc = "add", !.app = a, !.on = TRUE, !.routes = TRUE,
                              !.todo = pids])
  /\ UNCHANGED <<pvars, dvars, svars, rvars, tvars, lvars>>

\* AddPID of one of them, which resolves the bundle once more and asks whether the
\* extension is available; the first error is returned after the last.
AddPID(r) ==
  /\ req[r].pc = "add"
  /\ \E p \in req[r].todo, available \in BOOLEAN :
       LET ok == available /\ AppOf(p) # None IN
       /\ IF ok THEN Register(p, AppOf(p)) ELSE UNCHANGED rvars
       /\ IF req[r].todo = {p} /\ ~(req[r].ok /\ ok)
          THEN Answer(r, FALSE)
          ELSE /\ req' = [req EXCEPT ![r].todo = @ \ {p}, ![r].ok = @ /\ ok,
                                     ![r].pc = IF req[r].todo = {p} THEN "change" ELSE "add"]
               /\ UNCHANGED wanted
  /\ UNCHANGED <<pvars, dvars, svars, tvars, calls, lvars>>

\* RemoveProxiedApp and UnrouteApp take the PIDs of the bundle and unroute each;
\* UnrouteApp ends there.
RemoveProxiedApp(r, a) ==
  /\ Call(r, [NoRequest EXCEPT !.pc = "drop", !.app = a, !.todo = {p \in PIDs : byPID[p] = a}])
  /\ UNCHANGED <<pvars, dvars, svars, rvars, tvars, lvars>>

UnrouteApp(r, a) ==
  /\ Begin(r, [NoRequest EXCEPT !.pc = "unroute", !.app = a,
                                !.todo = {p \in PIDs : byPID[p] = a}])
  /\ UNCHANGED <<pvars, dvars, svars, rvars, tvars, lvars, wanted>>

DropPID(r) ==
  /\ req[r].pc \in {"drop", "unroute"}
  /\ \E p \in req[r].todo :
       Deregister(p) /\ req' = [req EXCEPT ![r].todo = @ \ {p}]
  /\ UNCHANGED <<pvars, dvars, svars, tvars, calls, lvars, wanted>>

Dropped(r) ==
  /\ req[r].todo = {}
  /\ \/ req[r].pc = "drop" /\ Step(r, "change") /\ UNCHANGED cache
     \/ req[r].pc = "unroute" /\ req' = [req EXCEPT ![r] = NoRequest] /\ cache' = None
  /\ UNCHANGED <<pvars, dvars, svars, rvars, tvars, calls, scan, wanted>>

\* An application without an entry is refused.
SetProxiedAppEnabled(r, a, on) ==
  /\ entries[a] # None /\ entries' = [entries EXCEPT ![a] = on]
  /\ Call(r, [NoRequest EXCEPT !.pc = "save", !.app = a, !.on = on])
  /\ UNCHANGED <<pvars, dvars, disk, rvars, tvars, lvars>>

\* Launch of a bundle with the application then saved; without a bundle identifier
\* the call fails with the process running.
LaunchProxiedApp(r, p, a) ==
  /\ Born(p, a) /\ Register(p, a)
  /\ Call(r, [NoRequest EXCEPT !.pc = "change", !.app = a, !.on = TRUE])
  /\ UNCHANGED <<dvars, svars, tvars, lvars>>

\* Upsert or Remove.
Change(r) ==
  /\ req[r].pc = "change"
  /\ entries' = [entries EXCEPT ![req[r].app] = req[r].on]
  /\ Step(r, "save")
  /\ UNCHANGED <<pvars, dvars, disk, rvars, tvars, calls, lvars, wanted>>

\* save takes its copy under the lock and writes it without.
Save(r) ==
  /\ req[r].pc = "save"
  /\ req' = [req EXCEPT ![r].pc = "write", ![r].val = entries]
  /\ UNCHANGED <<pvars, dvars, svars, rvars, tvars, calls, lvars, wanted>>

\* With it the store has changed, and RouteApp drops the cached list.
Write(r) ==
  /\ req[r].pc = "write"
  /\ \/ /\ disk' = req[r].val /\ UNCHANGED wanted
        /\ req' = [req EXCEPT ![r].pc = "enabled", ![r].val = {}]
        /\ cache' = IF req[r].routes THEN None ELSE cache
     \/ Answer(r, FALSE) /\ UNCHANGED <<disk, cache>>
  /\ UNCHANGED <<pvars, dvars, entries, rvars, tvars, calls, scan>>

-----------------------------------------------------------------------------
(* RecomputeAppTargets: three reads and writes under three locks. *)

\* Mutant: the saved list is left out of the union.
EnabledBundleIDsNone(r) ==
  /\ req[r].pc = "enabled"
  /\ req' = [req EXCEPT ![r].pc = "routed", ![r].val = {}]
  /\ UNCHANGED <<pvars, dvars, svars, rvars, tvars, calls, lvars, wanted>>

EnabledBundleIDs(r) ==
  /\ req[r].pc = "enabled"
  /\ req' = [req EXCEPT ![r].pc = "routed", ![r].val = Enabled(entries)]
  /\ UNCHANGED <<pvars, dvars, svars, rvars, tvars, calls, lvars, wanted>>

ListRoutedApps(r) ==
  /\ req[r].pc = "routed"
  /\ req' = [req EXCEPT ![r].pc = "set", ![r].val = @ \cup Routed]
  /\ UNCHANGED <<pvars, dvars, svars, rvars, tvars, calls, lvars, wanted>>

Flush(targets) == file' = targets /\ flushed' = TRUE
FlushFails == flushed' = FALSE /\ UNCHANGED file

SetTargets(r) ==
  /\ req[r].pc = "set"
  /\ \/ Flush(req[r].val) /\ Answer(r, TRUE)
     \/ FlushFails /\ Answer(r, FALSE)
  /\ UNCHANGED <<pvars, dvars, svars, rvars, calls, lvars>>

-----------------------------------------------------------------------------
(* The end and the start of the daemon. *)

\* Executor.Shutdown; the handlers of the control server are still running.
Shutdown ==
  /\ up = "up" /\ up' = "closing"
  /\ Cleanup /\ (Flush({}) \/ FlushFails)
  /\ UNCHANGED <<pvars, ends, svars, req, calls, lvars, wanted>>

\* Main returns after Shutdown, or the process dies without it.
End ==
  /\ up # "down" /\ up' = "down" /\ ends < MaxEnds /\ ends' = ends + 1
  /\ Cleanup
  /\ req' = [r \in Requests |-> NoRequest] /\ scan' = NoScan /\ cache' = None
  /\ UNCHANGED <<pvars, svars, tvars, calls, wanted>>

\* NewExecutor loads the list and main recomputes the targets before it serves.
Start ==
  /\ up = "down" /\ up' = "up"
  /\ entries' = disk
  /\ (Flush(Enabled(disk)) \/ FlushFails)
  /\ UNCHANGED <<pvars, ends, disk, rvars, req, calls, lvars, wanted>>

-----------------------------------------------------------------------------
(* ListApplications: a miss lists the processes and resolves one at a time. *)

Rows ==
  /\ up # "down" /\ scan = NoScan /\ calls < MaxCalls /\ calls' = calls + 1
  /\ scan' = [NoScan EXCEPT !.pc = "next", !.todo = {p \in PIDs : proc[p] # None}]
  /\ UNCHANGED <<pvars, dvars, svars, rvars, tvars, req, cache, wanted>>

Identify ==
  /\ scan.pc = "next"
  /\ \E p \in scan.todo :
       scan' = [scan EXCEPT !.pc = "resolve", !.todo = @ \ {p}, !.pid = p, !.before = Identity(p)]
  /\ UNCHANGED <<pvars, dvars, svars, rvars, tvars, req, calls, cache, wanted>>

Resolve ==
  /\ scan.pc = "resolve"
  /\ scan' = [scan EXCEPT !.pc = "verify", !.id = AppOf(scan.pid)]
  /\ UNCHANGED <<pvars, dvars, svars, rvars, tvars, req, calls, cache, wanted>>

With(f, x, y) == [z \in DOMAIN f \cup {x} |-> IF z = x THEN y ELSE f[z]]

\* Mutant: the identity is read once, after the bundle.
VerifyOnce ==
  /\ scan.pc = "verify"
  /\ LET p == scan.pid
         verified == Identity(p) # None IN
     scan' = [scan EXCEPT !.pc = "next", !.pid = None, !.before = None, !.id = None,
                !.cacheable = @ /\ verified,
                !.ids = IF verified THEN With(@, p, Identity(p)) ELSE @,
                !.apps = IF scan.id # None THEN With(@, p, scan.id) ELSE @]
  /\ UNCHANGED <<pvars, dvars, svars, rvars, tvars, req, calls, cache, wanted>>

\* resolveApplicationPID: a PID whose identity changed is left out; what could not be
\* verified is shown, and nothing of this list is cached.
Verify ==
  /\ scan.pc = "verify"
  /\ LET p == scan.pid
         verified == scan.before # None /\ Identity(p) = scan.before
         shown == scan.id # None /\ (scan.before = None \/ verified) IN
     scan' = [scan EXCEPT !.pc = "next", !.pid = None, !.before = None, !.id = None,
                !.cacheable = @ /\ verified,
                !.ids = IF verified THEN With(@, p, scan.before) ELSE @,
                !.apps = IF shown THEN With(@, p, scan.id) ELSE @]
  /\ UNCHANGED <<pvars, dvars, svars, rvars, tvars, req, calls, cache, wanted>>

Publish ==
  /\ scan.pc = "next" /\ scan.todo = {}
  /\ cache' = IF scan.cacheable THEN [apps |-> scan.apps, ids |-> scan.ids] ELSE None
  /\ scan' = NoScan
  /\ UNCHANGED <<pvars, dvars, svars, rvars, tvars, req, calls, wanted>>

\* A hit: within thirty seconds, and every process seen is still the same one.
Valid == cache # None /\ \A p \in DOMAIN cache.ids : Identity(p) = cache.ids[p]

-----------------------------------------------------------------------------

ANext ==
  \/ \E p \in PIDs, a \in Apps \cup {None} : Fork(p, a) \/ LaunchProxied(p, a)
  \/ \E p \in PIDs : Dies(p) \/ RoutePID(p) \/ UnroutePID(p) \/ StopProxied(p)
  \/ \E r \in Requests :
       \/ \E a \in Apps :
            \/ RouteApp(r, a) \/ UnrouteApp(r, a) \/ RemoveProxiedApp(r, a)
            \/ \E on \in BOOLEAN : SetProxiedAppEnabled(r, a, on)
            \/ \E p \in PIDs : LaunchProxiedApp(r, p, a)
       \/ AddPID(r) \/ DropPID(r) \/ Dropped(r) \/ Change(r) \/ Save(r) \/ Write(r)
       \/ EnabledBundleIDs(r) \/ ListRoutedApps(r) \/ SetTargets(r)
  \/ ResetRouter \/ Shutdown \/ End \/ Start
  \/ Rows \/ Identify \/ Resolve \/ Verify \/ Publish

ASpec == AInit /\ [][ANext]_avars

-----------------------------------------------------------------------------

Quiet == up = "up" /\ \A r \in Requests : req[r] = NoRequest

\* An application whose last request was answered with success and asked for it to be
\* routed is a target of the extension, whatever happened to its processes, to other
\* applications and to the daemon since, unless writing the targets has just failed.
EnabledIsCaptured ==
  Quiet /\ flushed => \A a \in Apps : wanted[a] = TRUE => a \in file

\* A list served from the cache shows every process under the application it belongs
\* to, although PIDs were reused while and after it was put together.
CacheIsTruthful ==
  Valid => \A p \in DOMAIN cache.apps : AppOf(p) = cache.apps[p]

\* What stays captured is wanted by the list or by a routed process.
CaptureHasReason == Quiet /\ flushed => file \subseteq Enabled(entries) \cup Routed

\* A process that was routed is captured.
RoutedIsCaptured == Quiet /\ flushed => Routed \subseteq file

\* After an orderly end nothing is captured.
NothingCapturedWhenDown == [][up = "closing" /\ flushed /\ up' = "down" => file = {}]_avars
=============================================================================
