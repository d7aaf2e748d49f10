--------------------------- MODULE RuntimeManager ---------------------------
(***************************************************************************)
(* The lifecycle manager of internal/runtime/manager.go: it owns the two   *)
(* sing-box cores (the persistent proxy listener and the on-demand TUN     *)
(* forwarder) and moves between off, proxy-only, VPN and suspended.        *)
(*                                                                         *)
(* The manager's mutex is held only around reads and writes of its five    *)
(* fields, so one action of this module is one critical section, or one    *)
(* slow call made outside the mutex (building, starting or closing a core, *)
(* probing the interface).  Every method but Shutdown runs its work in a   *)
(* background goroutine (a worker) while the caller waits for it, at most  *)
(* for TransitionTimeout; a worker that outlives its caller goes on.       *)
(***************************************************************************)
EXTENDS Naturals

CONSTANTS
  Clients,      \* goroutines that call the manager (control commands, monitor loop)
  Workers,      \* slots for background goroutines started by transition
  ProxyCores,   \* identities of proxy cores; a closed core's identity is reused
  FwdCores,     \* identities of forwarder cores
  Ifaces,       \* physical interfaces the proxy can be bound to
  None,         \* nil core, "" interface
  MaxGen,       \* bound on the number of Shutdowns
  Timeouts      \* TRUE: a worker may take longer than TransitionTimeout

Cores   == ProxyCores \cup FwdCores
States  == {"stopped", "proxyOnly", "vpn", "suspended"}
Results == {"ok", "err", "timeout"}
Ops     == {"startProxy", "startForwarder", "stopForwarder", "forwarderExited",
            "suspend", "resume", "bindPhysical", "unbind", "refresh"}
PCs     == {"idle", "check", "orphans", "probe", "takeFwd", "closeFwd",
            "closeProxy", "take", "dial", "commit", "discard", "publish",
            "dialFwd", "commitFwd", "discardFwd", "publishFwd", "setState",
            "strand"}

ASSUME ConstantsOK ==
  /\ MaxGen \in Nat
  /\ Timeouts \in BOOLEAN
  /\ ProxyCores \cap FwdCores = {}
  /\ None \notin Cores \cup Ifaces \cup Workers
  /\ Workers \cap Results = {}

VARIABLES
  state, proxy, fwd, bound, gen,  \* the fields of Manager
  running, \* the cores that have been started and not closed
  bind,    \* the interface each core's configuration binds its egress to
  w,       \* the local state of each worker
  held,    \* the cores only that worker has a reference to
  caller   \* the worker each client waits for, or what its last call returned

fields == <<state, proxy, fwd, bound, gen>>
vars   == <<fields, running, bind, w, held, caller>>

Idle == [op |-> "none", pc |-> "idle", gen |-> 0, target |-> None,
         prev |-> None, try |-> 1, stage |-> "main", to |-> "stopped"]

Init ==
  /\ state = "stopped" /\ proxy = None /\ fwd = None /\ bound = None /\ gen = 0
  /\ running = {}
  /\ bind = [c \in Cores |-> None]
  /\ w = [p \in Workers |-> Idle]
  /\ held = [p \in Workers |-> {}]
  /\ caller = [c \in Clients |-> "ok"]

Waiting(c) == caller[c] \in Workers

-----------------------------------------------------------------------------
(***************************************************************************)
(* transition: stamp the generation, start the worker, wait for its result *)
(* or for the timeout, whichever comes first.                              *)
(***************************************************************************)

Transition(c, p, op, target) ==
  /\ ~Waiting(c)
  /\ w[p].pc = "idle"
  /\ w' = [w EXCEPT ![p] = [Idle EXCEPT !.op = op, !.pc = "check",
                                        !.gen = gen, !.target = target]]
  /\ caller' = [caller EXCEPT ![c] = p]
  /\ UNCHANGED <<fields, running, bind, held>>

\* Mutant: the wait for the worker is not abandoned while it starts a core.
TimeOutNotInStart(c) ==
  /\ Timeouts
  /\ Waiting(c)
  /\ w[caller[c]].op \in Ops /\ w[caller[c]].pc \notin {"dial", "dialFwd"}
  /\ caller' = [caller EXCEPT ![c] = "timeout"]
  /\ UNCHANGED <<fields, running, bind, w, held>>

\* time.After fires first: the caller leaves, the work is not cancelled.
TimeOut(c) ==
  /\ Timeouts
  /\ Waiting(c)
  /\ w[caller[c]].op \in Ops
  /\ caller' = [caller EXCEPT ![c] = "timeout"]
  /\ UNCHANGED <<fields, running, bind, w, held>>

\* Worker p moves to local state r; on return the slot is freed and the caller,
\* if it still waits, gets the result.
Step(p, r) ==
  /\ w' = [w EXCEPT ![p] = IF r.pc \in Results THEN Idle ELSE r]
  /\ caller' = IF r.pc \in Results
                 THEN [c \in Clients |-> IF caller[c] = p THEN r.pc ELSE caller[c]]
                 ELSE caller

At(r, label)  == [r EXCEPT !.pc = label]
SetTo(r, s)   == [r EXCEPT !.pc = "setState", !.to = s]
Recreate(r, t) == [r EXCEPT !.pc = "take", !.target = t, !.try = 1]
Rollback(r)   == [Recreate(r, r.prev) EXCEPT !.stage = "rollback"]

\* Closing the cores of S that only worker p has.
CloseHeld(p, S) ==
  /\ running' = running \ (held[p] \cap S)
  /\ held' = [held EXCEPT ![p] = held[p] \ S]

-----------------------------------------------------------------------------
(***************************************************************************)
(* What recreateProxy returns to the method that called it, and what the   *)
(* method does next.                                                       *)
(***************************************************************************)
AfterRecreate(r, ok) ==
  CASE r.stage = "rollback" \/ r.op \in {"stopForwarder", "forwarderExited"} ->
         SetTo(r, IF ok THEN "proxyOnly" ELSE "stopped")
    [] r.op \in {"startForwarder", "bindPhysical"} /\ r.stage = "main" /\ ~ok ->
         Rollback(r)
    [] r.op = "startForwarder" /\ r.stage = "main" /\ ok -> At(r, "dialFwd")
    [] r.op = "unbind" /\ r.stage = "main" /\ ~ok        -> SetTo(r, "stopped")
    [] r.op = "refresh" /\ r.stage = "main" /\ ~ok       -> At(r, "strand")
    [] OTHER                                             -> At(r, "ok")

\* dialProxy returned.  StartProxy and ResumeProxy call it directly; recreateProxy
\* tries a second time after a failure and reports the first error even when the
\* second attempt worked.
AfterDial(r, ok) ==
  CASE r.op \in {"startProxy", "resume"} -> IF ok THEN SetTo(r, "proxyOnly") ELSE At(r, "err")
    [] r.op \notin {"startProxy", "resume"} /\ r.try = 1 /\ ~ok ->
         [r EXCEPT !.try = 2, !.pc = "dial"]
    [] OTHER -> AfterRecreate(r, ok /\ r.try = 1)

-----------------------------------------------------------------------------
(***************************************************************************)
(* The first critical section of each method.                              *)
(***************************************************************************)

CheckStartProxy(p) ==
  /\ w[p].op = "startProxy"
  /\ Step(p, At(w[p], IF proxy # None THEN "ok" ELSE "orphans"))
  /\ UNCHANGED <<fields, held>>

\* Mutant: the early return in VPN mode is missing.
CheckStartForwarderAgain(p) ==
  /\ w[p].op = "startForwarder"
  /\ Step(p, IF proxy = None THEN At(w[p], "err") ELSE [At(w[p], "probe") EXCEPT !.prev = bound])
  /\ UNCHANGED <<fields, held>>

\* Already in VPN: nothing to do.  Without a proxy there is nothing to rebind.
CheckStartForwarder(p) ==
  /\ w[p].op = "startForwarder"
  /\ Step(p, CASE state = "vpn"                   -> At(w[p], "ok")
               [] state # "vpn" /\ proxy = None   -> At(w[p], "err")
               [] OTHER                           -> [At(w[p], "probe") EXCEPT !.prev = bound])
  /\ UNCHANGED <<fields, held>>

CheckStopForwarder(p) ==
  /\ w[p].op \in {"stopForwarder", "forwarderExited"}
  /\ Step(p, At(w[p], IF state = "vpn" THEN "takeFwd" ELSE "ok"))
  /\ UNCHANGED <<fields, held>>

TakeBoth(p) == held' = [held EXCEPT ![p] = {fwd, proxy} \ {None}]

CheckSuspend(p) ==
  /\ w[p].op = "suspend"
  /\ TakeBoth(p)
  /\ fwd' = None /\ proxy' = None /\ bound' = None
  /\ Step(p, At(w[p], "closeFwd"))
  /\ UNCHANGED <<state, gen>>

CheckResume(p) ==
  /\ w[p].op = "resume"
  /\ Step(p, At(w[p], IF state = "suspended" /\ proxy = None THEN "dial" ELSE "ok"))
  /\ UNCHANGED <<fields, held>>

CheckBindPhysical(p) ==
  /\ w[p].op = "bindPhysical"
  /\ Step(p, CASE state # "proxyOnly" \/ proxy = None -> At(w[p], "ok")
               [] state = "proxyOnly" /\ proxy # None /\ w[p].target = None -> At(w[p], "err")
               [] state = "proxyOnly" /\ proxy # None /\ w[p].target # None /\ bound = w[p].target ->
                    At(w[p], "ok")
               [] OTHER -> [Recreate(w[p], w[p].target) EXCEPT !.prev = bound])
  /\ UNCHANGED <<fields, held>>

CheckUnbind(p) ==
  /\ w[p].op = "unbind"
  /\ Step(p, IF state = "proxyOnly" THEN Recreate(w[p], None) ELSE At(w[p], "ok"))
  /\ UNCHANGED <<fields, held>>

CheckRefresh(p) ==
  /\ w[p].op = "refresh"
  /\ Step(p, IF proxy = None THEN At(w[p], "err") ELSE Recreate(w[p], bound))
  /\ UNCHANGED <<fields, held>>

Check(p) ==
  /\ w[p].pc = "check"
  /\ UNCHANGED <<running, bind>>
  /\ \/ CheckStartProxy(p)
     \/ CheckStartForwarder(p)
     \/ CheckStopForwarder(p)
     \/ CheckSuspend(p)
     \/ CheckResume(p)
     \/ CheckBindPhysical(p)
     \/ CheckUnbind(p)
     \/ CheckRefresh(p)

-----------------------------------------------------------------------------
(***************************************************************************)
(* dialProxy, recreateProxy and rollbackProxy.                             *)
(***************************************************************************)

\* CleanupOrphans before the first dial of StartProxy; an error ends the call.
CleanupOrphans(p) ==
  /\ w[p].pc = "orphans"
  /\ \E ok \in BOOLEAN : Step(p, At(w[p], IF ok THEN "dial" ELSE "err"))
  /\ UNCHANGED <<fields, running, bind, held>>

\* Mutant: a nil proxy is closed like any other.
TakeProxyNil(p) ==
  /\ w[p].pc = "take"
  /\ held' = [held EXCEPT ![p] = {proxy}]
  /\ proxy' = None
  /\ Step(p, At(w[p], "closeProxy"))
  /\ UNCHANGED <<state, fwd, bound, gen, running, bind>>

\* Mutant: the taken proxy stays published while it is being closed.
TakeProxyPublished(p) ==
  /\ w[p].pc = "take"
  /\ held' = [held EXCEPT ![p] = {proxy} \ {None}]
  /\ Step(p, At(w[p], "closeProxy"))
  /\ UNCHANGED <<fields, running, bind>>

\* recreateProxy takes the published proxy, whoever published it.
TakeProxy(p) ==
  /\ w[p].pc = "take"
  /\ held' = [held EXCEPT ![p] = {proxy} \ {None}]
  /\ proxy' = None
  /\ Step(p, At(w[p], "closeProxy"))
  /\ UNCHANGED <<state, fwd, bound, gen, running, bind>>

\* A closed proxy was taken by recreateProxy, by SuspendForCisco (which scrubs the
\* routes and then records the state) or by Shutdown, which alone reports an error
\* of closing.
CloseProxy(p) ==
  /\ w[p].pc = "closeProxy"
  /\ CloseHeld(p, ProxyCores)
  /\ \E res \in {"ok", "err"} :
       Step(p, CASE w[p].op = "suspend"  -> SetTo(w[p], "suspended")
                 [] w[p].op = "shutdown" -> At(w[p], res)
                 [] OTHER                -> At(w[p], "dial"))
  /\ UNCHANGED <<fields, bind>>

\* The listeners are on fixed local ports: a proxy core cannot start while another
\* one has them.
ListenerFree == running \cap ProxyCores = {}

\* ProxyConfig, the factory and core.Start: a running core only this worker knows
\* of, or an error (a core that fails to start is closed at once).
DialProxy(p) ==
  /\ w[p].pc = "dial"
  /\ \/ /\ Step(p, AfterDial(w[p], FALSE))
        /\ UNCHANGED <<running, bind, held>>
     \/ \E c \in ProxyCores :
          /\ ListenerFree
          /\ running' = running \cup {c}
          /\ bind' = [bind EXCEPT ![c] = w[p].target]
          /\ held' = [held EXCEPT ![p] = {c}]
          /\ Step(p, At(w[p], "commit"))
  /\ UNCHANGED fields

\* committed: is the generation still the one the transition began with?
CommitProxy(p) ==
  /\ w[p].pc = "commit"
  /\ Step(p, At(w[p], IF w[p].gen = gen THEN "publish" ELSE "discard"))
  /\ UNCHANGED <<fields, running, bind, held>>

\* Mutant: a superseded core is dropped without being closed.
DiscardProxyUnclosed(p) ==
  /\ w[p].pc = "discard"
  /\ held' = [held EXCEPT ![p] = {}]
  /\ Step(p, AfterDial(w[p], FALSE))
  /\ UNCHANGED <<fields, running, bind>>

DiscardProxy(p) ==
  /\ w[p].pc = "discard"
  /\ CloseHeld(p, ProxyCores)
  /\ Step(p, AfterDial(w[p], FALSE))
  /\ UNCHANGED <<fields, bind>>

\* Mutant: the binding is not recorded with the core.
PublishProxyNoBound(p) ==
  /\ w[p].pc = "publish"
  /\ \E c \in held[p] : proxy' = c
  /\ held' = [held EXCEPT ![p] = {}]
  /\ Step(p, AfterDial(w[p], TRUE))
  /\ UNCHANGED <<state, fwd, bound, gen, running, bind>>

\* The mutex is taken again to publish; the generation is not looked at again.
PublishProxy(p) ==
  /\ w[p].pc = "publish"
  /\ \E c \in held[p] : proxy' = c
  /\ bound' = w[p].target
  /\ held' = [held EXCEPT ![p] = {}]
  /\ Step(p, AfterDial(w[p], TRUE))
  /\ UNCHANGED <<state, fwd, gen, running, bind>>

\* Mutant: a failure is reported and not recorded.
SetStateIfOk(p) ==
  /\ w[p].pc = "setState"
  /\ state' = IF w[p].gen = gen /\ w[p].to # "stopped" THEN w[p].to ELSE state
  /\ Step(p, At(w[p], IF w[p].stage = "rollback" \/ w[p].to = "stopped" THEN "err" ELSE "ok"))
  /\ UNCHANGED <<proxy, fwd, bound, gen, running, bind, held>>

\* The closing critical section of most methods: record the state if no Shutdown
\* came in between.
SetState(p) ==
  /\ w[p].pc = "setState"
  /\ state' = IF w[p].gen = gen THEN w[p].to ELSE state
  /\ Step(p, At(w[p], IF w[p].stage = "rollback" \/ w[p].to = "stopped" THEN "err" ELSE "ok"))
  /\ UNCHANGED <<proxy, fwd, bound, gen, running, bind, held>>

\* Mutant: a failed refresh records the state but leaves the forwarder running.
StrandForwarder(p) ==
  /\ w[p].pc = "strand"
  /\ state' = IF w[p].gen = gen /\ proxy = None THEN "stopped" ELSE state
  /\ Step(p, At(w[p], "err"))
  /\ UNCHANGED <<proxy, fwd, bound, gen, running, bind, held>>

\* RefreshProxy failed.  If nothing restored the proxy the forwarder is stranded
\* without an upstream, so it is taken down too.
Strand(p) ==
  /\ w[p].pc = "strand"
  /\ IF w[p].gen = gen /\ proxy = None
       THEN /\ held' = [held EXCEPT ![p] = {fwd} \ {None}]
            /\ fwd' = None /\ state' = "stopped" /\ bound' = None
            /\ Step(p, At(w[p], "closeFwd"))
       ELSE /\ Step(p, At(w[p], "err"))
            /\ UNCHANGED <<fwd, state, bound, held>>
  /\ UNCHANGED <<proxy, gen, running, bind>>

-----------------------------------------------------------------------------
(***************************************************************************)
(* The forwarder: StartForwarder after its check, teardownForwarder.       *)
(***************************************************************************)

\* Mutant: the forwarder starts without the proxy having been rebound.
ProbeNoRebind(p) ==
  /\ w[p].pc = "probe"
  /\ \/ Step(p, At(w[p], "err"))
     \/ Step(p, At(w[p], "dialFwd"))
  /\ UNCHANGED <<fields, running, bind, held>>

\* PhysicalDefault: an error, or no interface, ends the call.
ProbeInterface(p) ==
  /\ w[p].pc = "probe"
  /\ \/ Step(p, At(w[p], "err"))
     \/ \E i \in Ifaces : Step(p, Recreate(w[p], i))
  /\ UNCHANGED <<fields, running, bind, held>>

\* ForwarderConfig, the factory and core.Start; every failure rolls the proxy back.
\* The TUN device is named by the system, so two forwarders can run side by side.
DialForwarder(p) ==
  /\ w[p].pc = "dialFwd"
  /\ \/ /\ Step(p, Rollback(w[p]))
        /\ UNCHANGED <<running, held>>
     \/ \E c \in FwdCores \ running :
          /\ running' = running \cup {c}
          /\ held' = [held EXCEPT ![p] = {c}]
          /\ Step(p, At(w[p], "commitFwd"))
  /\ UNCHANGED <<fields, bind>>

CommitForwarder(p) ==
  /\ w[p].pc = "commitFwd"
  /\ Step(p, At(w[p], IF w[p].gen = gen THEN "publishFwd" ELSE "discardFwd"))
  /\ UNCHANGED <<fields, running, bind, held>>

DiscardForwarder(p) ==
  /\ w[p].pc = "discardFwd"
  /\ CloseHeld(p, FwdCores)
  /\ Step(p, At(w[p], "err"))
  /\ UNCHANGED <<fields, bind>>

PublishForwarder(p) ==
  /\ w[p].pc = "publishFwd"
  /\ \E c \in held[p] : fwd' = c
  /\ state' = "vpn"
  /\ held' = [held EXCEPT ![p] = {}]
  /\ Step(p, At(w[p], "ok"))
  /\ UNCHANGED <<proxy, bound, gen, running, bind>>

TakeForwarder(p) ==
  /\ w[p].pc = "takeFwd"
  /\ held' = [held EXCEPT ![p] = {fwd} \ {None}]
  /\ fwd' = None
  /\ Step(p, At(w[p], "closeFwd"))
  /\ UNCHANGED <<state, proxy, bound, gen, running, bind>>

\* The taken forwarder is closed, always before any proxy taken with it.
CloseForwarder(p) ==
  /\ w[p].pc = "closeFwd"
  /\ CloseHeld(p, FwdCores)
  /\ Step(p, CASE w[p].op \in {"suspend", "shutdown"} -> At(w[p], "closeProxy")
               [] w[p].op = "refresh"                 -> At(w[p], "err")
               [] OTHER                               -> Recreate(w[p], None))
  /\ UNCHANGED <<fields, bind>>

-----------------------------------------------------------------------------
(***************************************************************************)
(* Shutdown runs in the caller, takes whatever is published and closes it. *)
(***************************************************************************)
Shutdown(c, p) ==
  /\ ~Waiting(c)
  /\ w[p].pc = "idle"
  /\ gen < MaxGen
  /\ gen' = gen + 1
  /\ TakeBoth(p)
  /\ fwd' = None /\ proxy' = None /\ state' = "stopped"
  /\ w' = [w EXCEPT ![p] = [Idle EXCEPT !.op = "shutdown", !.pc = "closeFwd", !.gen = gen']]
  /\ caller' = [caller EXCEPT ![c] = p]
  /\ UNCHANGED <<bound, running, bind>>

-----------------------------------------------------------------------------

\* Every step a worker takes on its own.
Work(p) ==
  \/ Check(p) \/ CleanupOrphans(p) \/ SetState(p) \/ Strand(p)
  \/ TakeProxy(p) \/ CloseProxy(p) \/ DialProxy(p)
  \/ CommitProxy(p) \/ DiscardProxy(p) \/ PublishProxy(p)
  \/ ProbeInterface(p) \/ DialForwarder(p)
  \/ CommitForwarder(p) \/ DiscardForwarder(p) \/ PublishForwarder(p)
  \/ TakeForwarder(p) \/ CloseForwarder(p)

\* Only BindProxyToPhysical takes an interface from its caller.
Targets(op) == IF op = "bindPhysical" THEN Ifaces \cup {None} ELSE {None}

Call(c, p) ==
  \/ \E op \in Ops : \E t \in Targets(op) : Transition(c, p, op, t)
  \/ Shutdown(c, p)

Next ==
  \/ \E c \in Clients, p \in Workers : Call(c, p)
  \/ \E c \in Clients : TimeOut(c)
  \/ \E p \in Workers : Work(p)

Spec == Init /\ [][Next]_vars

\* The timer always fires, and closing a core is assumed to return; nothing is
\* assumed of building or starting one (a stuck Start never returns).
FairSpec ==
  /\ Spec
  /\ \A c \in Clients : WF_vars(TimeOut(c))
  /\ \A p \in Workers : WF_vars(CloseForwarder(p)) /\ WF_vars(CloseProxy(p))

-----------------------------------------------------------------------------
(***************************************************************************)
(* Properties.                                                             *)
(***************************************************************************)

WorkerStates ==
  [op : Ops \cup {"none", "shutdown"}, pc : PCs, gen : Nat,
   target : Ifaces \cup {None}, prev : Ifaces \cup {None}, try : {1, 2},
   stage : {"main", "rollback"}, to : States]

\* The fields of Manager, the cores and the workers' locals stay within their types.
TypeOK ==
  /\ state \in States
  /\ proxy \in ProxyCores \cup {None}
  /\ fwd \in FwdCores \cup {None}
  /\ bound \in Ifaces \cup {None}
  /\ gen \in Nat
  /\ running \in SUBSET Cores
  /\ bind \in [Cores -> Ifaces \cup {None}]
  /\ w \in [Workers -> WorkerStates]
  /\ held \in [Workers -> SUBSET Cores]
  /\ caller \in [Clients -> Workers \cup Results]

Published == {proxy, fwd} \ {None}

\* A core has one owner at a time: it is published in the manager, or exactly one
\* goroutine holds it.  So no core is ever closed twice, or closed while another
\* goroutine is still about to publish it.
SingleOwner ==
  /\ \A p \in Workers : held[p] \cap Published = {}
  /\ \A p, q \in Workers : p # q => held[p] \cap held[q] = {}

\* The manager's fields tell the truth about the listener: a published proxy is
\* running and is bound to the interface recorded in bound (BoundInterface), and a
\* published forwarder is running, whatever the interleaving of transitions,
\* timeouts and Shutdowns.
PublishedIsUp ==
  /\ proxy # None => proxy \in running /\ bind[proxy] = bound
  /\ fwd # None => fwd \in running

\* The listener is never orphaned: a running proxy core is published or in the hands
\* of a goroutine that will publish or close it.  dialProxy overwrites m.proxy
\* without closing what was there, so this rests on the port being exclusive.
ListenerOwned ==
  \A c \in ProxyCores \cap running : c = proxy \/ \E p \in Workers : c \in held[p]

\* A forwarder core that runs is published or held: a second StartForwarder must not
\* lose the TUN of the first one.
ForwarderOwned ==
  \A c \in FwdCores \cap running : c = fwd \/ \E p \in Workers : c \in held[p]

\* No traffic loop: whenever our TUN and our proxy both run, the proxy's egress is
\* pinned to a physical interface, so that it escapes the TUN.
NoTunLoop ==
  running \cap FwdCores # {} => \A c \in ProxyCores \cap running : bind[c] # None

Quiescent == \A p \in Workers : w[p].pc = "idle"

\* Between calls the state is what the cores are: VPN means both cores run and the
\* proxy is bound, proxy-only means the proxy alone, suspended means neither, and no
\* running core is out of the manager's reach.
StateMatchesCores ==
  Quiescent =>
    /\ running = Published
    /\ state = "vpn" => fwd # None /\ proxy # None /\ bound # None
    /\ state = "proxyOnly" => proxy # None /\ fwd = None
    /\ state = "suspended" => proxy = None /\ fwd = None
    /\ state = "stopped" => fwd = None

\* What a method has done to the manager when it returns res to its caller.
Done(op, target, res) ==
  CASE op = "startProxy" -> (res = "ok") <=> (proxy' # None)
    [] op = "startForwarder" ->
         /\ (res = "ok") <=> (fwd' # None)
         /\ res = "ok" => state' = "vpn" /\ proxy' # None /\ bound' # None
    [] op \in {"stopForwarder", "forwarderExited"} -> fwd' = None
    [] op = "suspend" -> running' = {} /\ state' = "suspended"
    [] op = "resume" -> (res = "ok") <=> (state' # "suspended")
    [] op = "bindPhysical" -> res = "ok" /\ state' = "proxyOnly" => bound' = target
    [] op = "unbind" -> res = "ok" /\ state' = "proxyOnly" => bound' = None
    [] op = "refresh" -> (res = "ok" \/ fwd' # None) => proxy' # None
    [] OTHER -> running' = {} /\ state' = "stopped"

\* The result a caller gets is true of what runs, success and failure, whichever steps
\* of the method failed, were tried again or rolled back: StartForwarder that failed
\* leaves no forwarder and one that succeeded a bound proxy under it, a forwarder to be
\* stopped is gone even when the proxy cannot be brought back, a failed resume can be
\* tried again, and a refresh never leaves a forwarder without its proxy.
ResultIsTrue ==
  [][\A c \in Clients : Waiting(c) /\ caller'[c] \in {"ok", "err"} =>
        Done(w[caller[c]].op, w[caller[c]].target, caller'[c])]_vars

\* Shutdown is never wedged: every call returns, although a worker may be stuck for
\* ever inside a core's Start.
CallersReturn == \A c \in Clients : Waiting(c) ~> ~Waiting(c)

(***************************************************************************)
(* The inductive invariant behind SingleOwner, PublishedIsUp and           *)
(* ListenerOwned: what each worker holds is a function of where it is.     *)
(***************************************************************************)
EmptyHanded == {"idle", "check", "orphans", "probe", "takeFwd", "take", "dial",
                "dialFwd", "setState", "strand"}

HandsOf(p) ==
  /\ held[p] \subseteq running
  /\ w[p].pc \in EmptyHanded => held[p] = {}
  /\ w[p].pc \in {"commit", "discard", "publish"} =>
       \E c \in ProxyCores : held[p] = {c} /\ bind[c] = w[p].target
  /\ w[p].pc \in {"commitFwd", "discardFwd", "publishFwd"} =>
       \E c \in FwdCores : held[p] = {c}
  /\ w[p].pc = "closeProxy" => held[p] \subseteq ProxyCores
  /\ w[p].pc = "closeFwd" /\ w[p].op \notin {"suspend", "shutdown"} =>
       held[p] \subseteq FwdCores

Hands == \A p \in Workers : HandsOf(p)

OneListener == \A c, d \in ProxyCores \cap running : c = d

IInv == TypeOK /\ Hands /\ OneListener /\ SingleOwner /\ PublishedIsUp /\ ListenerOwned

(***************************************************************************)
(* What the comments of manager.go say and the code does not do.           *)
(***************************************************************************)

Superseded(p) == w[p].pc # "idle" /\ w[p].gen # gen

\* "a completion that arrives late checks gen (bumped by Shutdown) and discards
\* itself": a superseded worker publishes no core.
LateCompletionDiscarded ==
  [][\A p \in Workers : Superseded(p) /\ w'[p] # w[p] =>
        /\ proxy' # proxy => proxy' = None
        /\ fwd' # fwd => fwd' = None]_vars

\* A superseded transition "can't clobber newer state": the rollback of a
\* StartForwarder overtaken by a Shutdown does not take down the proxy that a later
\* StartProxy has published.
NewerProxySurvives ==
  [][\A p \in Workers : Superseded(p) /\ w'[p] # w[p] /\ w[p].stage = "rollback" =>
        ~(proxy # None /\ proxy' = None)]_vars

\* proxyRunning (State() # StateStopped) "reports whether the proxy listeners are
\* up": between calls a stopped manager has no listener.
StoppedMeansNoListener == Quiescent /\ state = "stopped" => proxy = None
=============================================================================
