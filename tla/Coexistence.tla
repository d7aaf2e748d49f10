---------------------------- MODULE Coexistence ----------------------------
(***************************************************************************)
(* The manager driven by its two real callers.  A control command runs the *)
(* executor's EnableVPN, EnableProxy or Stop; the monitor polls the        *)
(* network (Cisco connected? which physical interface?), debounces, runs   *)
(* Decide and sends an event over a bounded channel; the executor's Loop   *)
(* receives events and enacts them (Apply) on the same manager.  Commands, *)
(* polls and Apply run in goroutines of their own and nothing serialises   *)
(* them: Overlap says whether a call of the manager may begin while        *)
(* another one is still at work.                                           *)
(***************************************************************************)
EXTENDS RuntimeManager, CoexistPolicy, Sequences

CONSTANTS
  User,       \* the goroutine serving a control command
  Loop,       \* the goroutine running Executor.Loop
  OutCap,     \* capacity of the event channel (16 in cmd/singctl/main.go)
  Threshold,  \* debounce threshold (2 in cmd/singctl/main.go)
  MaxChanges, \* bound on the number of changes of the network
  Overlap     \* TRUE: manager calls of User and Loop may overlap

ASSUME CoexistConstantsOK ==
  /\ Clients = {User, Loop} /\ User # Loop
  /\ OutCap \in Nat \ {0} /\ Threshold \in Nat \ {0} /\ MaxChanges \in Nat
  /\ Overlap \in BOOLEAN

VARIABLES
  cisco, phys, changes,  \* the network: is Cisco connected, the physical interface (None: no network)
  deb, prevCisco, prevPhys, poll,  \* the monitor; poll is the poll in progress
  refreshes,  \* history: how often it decided on a refresh, up to MaxChanges + 1
  out,        \* the event channel
  lastCisco,  \* the executor's cached observation (coexistMu)
  seen,       \* history: Cisco as the latest poll observed it
  cmd,        \* what the command goroutine does next
  asked,      \* history: the last command asked for a runtime, and was not Stop
  ev          \* the event Loop is applying

netVars == <<cisco, phys, changes>>
monVars == <<deb, prevCisco, prevPhys, poll, refreshes>>
exeVars == <<lastCisco, seen, cmd, asked, ev>>
cvars   == <<vars, netVars, monVars, out, exeVars>>

NoPoll  == [at |-> "idle", cisco |-> FALSE, phys |-> None, changed |-> FALSE, boundPhys |-> FALSE,
            act |-> "none"]
NoEvent == [at |-> "idle", act |-> "none", cisco |-> FALSE, phys |-> None]

CoInit ==
  /\ Init
  /\ cisco \in BOOLEAN /\ phys \in Ifaces /\ changes = 0
  /\ deb = NewDebouncer /\ prevCisco = "unknown" /\ prevPhys = None /\ poll = NoPoll
  /\ refreshes = 0
  /\ out = <<>>
  /\ lastCisco = FALSE /\ seen = FALSE
  /\ cmd = "none" /\ asked = FALSE /\ ev = NoEvent

-----------------------------------------------------------------------------
(* The network. *)

CiscoFlips ==
  /\ changes < MaxChanges /\ changes' = changes + 1
  /\ cisco' = ~cisco
  /\ UNCHANGED <<vars, phys, monVars, out, exeVars>>

PhysChanges ==
  /\ changes < MaxChanges /\ changes' = changes + 1
  /\ phys' \in (Ifaces \cup {None}) \ {phys}
  /\ UNCHANGED <<vars, cisco, monVars, out, exeVars>>

-----------------------------------------------------------------------------
(* Monitor.poll: observe and debounce, ask the runtime, decide and send. *)

\* Detector.Observe (a poll whose detector fails does nothing), then the onPoll callback (PushDisplay
\* caches the observation), the debouncer, and the comparison with the interface seen before.
PollObserve ==
  /\ poll.at = "idle"
  /\ lastCisco' = cisco /\ seen' = cisco
  /\ deb' = Observe(deb, IF cisco THEN "active" ELSE "inactive", Threshold)
  /\ poll' = [NoPoll EXCEPT !.at = "state", !.cisco = cisco, !.phys = phys,
                            !.changed = phys # None /\ prevPhys \notin {None, phys}]
  /\ prevPhys' = IF phys # None THEN phys ELSE prevPhys
  /\ UNCHANGED <<vars, netVars, prevCisco, refreshes, out, cmd, asked, ev>>

\* ProxyBoundToPhysical, the monitor's boundFn: State(), then BoundInterface(), each
\* under the manager's mutex.
PollState ==
  /\ poll.at = "state"
  /\ poll' = [poll EXCEPT !.at = IF state = "proxyOnly" THEN "iface" ELSE "decide"]
  /\ UNCHANGED <<vars, netVars, deb, prevCisco, prevPhys, refreshes, out, exeVars>>

PollIface ==
  /\ poll.at = "iface"
  /\ poll' = [poll EXCEPT !.at = "decide", !.boundPhys = bound # None]
  /\ UNCHANGED <<vars, netVars, deb, prevCisco, prevPhys, refreshes, out, exeVars>>

\* Executor.Mode, the monitor's modeFn: whatever is not VPN counts as proxy.
Mode == IF state = "vpn" THEN "vpn" ELSE "proxy"

Decision ==
  Decide([mode |-> Mode, prevCisco |-> prevCisco, newCisco |-> deb.committed,
          intent |-> "none", physChanged |-> poll.changed, boundPhys |-> poll.boundPhys])

\* The one call Apply makes for a decision.
ActOf(actions) ==
  CASE actions \cap {"failClosed", "stopForwarder"} # {} -> "stop"
    [] "unbindProxy" \in actions  -> "unbind"
    [] "refreshProxy" \in actions -> "refresh"

\* A decision to do nothing ends the poll.
Decided ==
  /\ poll.at = "decide"
  /\ poll' = IF Decision.actions = {} THEN NoPoll
             ELSE [poll EXCEPT !.at = "send", !.act = ActOf(Decision.actions)]
  /\ refreshes' = IF "refreshProxy" \in Decision.actions /\ refreshes <= MaxChanges
                    THEN refreshes + 1 ELSE refreshes

\* Mutant: the committed state is remembered only by a poll that sends nothing.
PollDecideForgets ==
  /\ Decided
  /\ prevCisco' = IF Decision.actions = {} THEN deb.committed ELSE prevCisco
  /\ UNCHANGED <<vars, netVars, deb, prevPhys, out, exeVars>>

\* modeFn, Decide, and what the monitor remembers.
PollDecide ==
  /\ Decided
  /\ prevCisco' = deb.committed
  /\ UNCHANGED <<vars, netVars, deb, prevPhys, out, exeVars>>

\* The event of the poll in progress.
Event == [act |-> poll.act, cisco |-> poll.cisco, phys |-> poll.phys]

\* Sending blocks while the channel is full.
PollSend ==
  /\ poll.at = "send"
  /\ Len(out) < OutCap
  /\ out' = Append(out, Event)
  /\ poll' = NoPoll
  /\ UNCHANGED <<vars, netVars, deb, prevCisco, prevPhys, refreshes, exeVars>>

-----------------------------------------------------------------------------
(* Executor.Loop and Apply. *)

MayCall == Overlap \/ Quiescent

Call1(c, op) == MayCall /\ \E p \in Workers : Transition(c, p, op, None)

\* Mutant: a refresh brings up a proxy that is not there.
ApplyOpStarts(act) ==
  CASE act = "stop"   -> "stopForwarder"
    [] act = "unbind" -> "unbind"
    [] OTHER          -> IF proxy = None THEN "startProxy" ELSE "refresh"

\* The call for the event at the head of the channel.
ApplyOp(act) ==
  CASE act = "stop"   -> "stopForwarder"
    [] act = "unbind" -> "unbind"
    [] OTHER          -> IF state = "suspended" THEN "resume" ELSE "refresh"

ApplyBegin ==
  /\ ev.at = "idle" /\ out # <<>>
  /\ Call1(Loop, ApplyOp(Head(out).act))
  /\ out' = Tail(out)
  /\ ev' = [at |-> "call", act |-> Head(out).act,
            cisco |-> Head(out).cisco, phys |-> Head(out).phys]
  /\ UNCHANGED <<netVars, monVars, lastCisco, seen, cmd, asked>>

\* Apply ends with PushDisplay of the snapshot the event was decided on.
ApplyEnd ==
  /\ ev.at = "call" /\ ~Waiting(Loop)
  /\ lastCisco' = ev.cisco
  /\ ev' = NoEvent
  /\ UNCHANGED <<vars, netVars, monVars, out, seen, cmd, asked>>

-----------------------------------------------------------------------------
(* Control commands: EnableVPN, EnableProxy, Stop. *)

Command(next, wants) ==
  /\ cmd' = next /\ asked' = wants
  /\ UNCHANGED <<netVars, monVars, out, lastCisco, seen, ev>>

EnableVPN ==
  /\ cmd = "none"
  /\ ~lastCisco
  /\ Call1(User, "startProxy")
  /\ Command("vpn", TRUE)

\* StartProxy returned without an error: start the forwarder.
EnableVPNForwarder ==
  /\ cmd = "vpn" /\ caller[User] = "ok"
  /\ Call1(User, "startForwarder")
  /\ Command("wait", TRUE)

EnableProxy ==
  /\ cmd = "none"
  /\ Call1(User, IF state = "vpn" THEN "stopForwarder" ELSE "startProxy")
  /\ Command("wait", TRUE)

Stop ==
  /\ cmd = "none"
  /\ MayCall
  /\ \E p \in Workers : Shutdown(User, p)
  /\ Command("wait", FALSE)

CommandReturns ==
  /\ \/ cmd = "wait" /\ ~Waiting(User)
     \/ cmd = "vpn" /\ caller[User] \in {"err", "timeout"}
  /\ Command("none", asked)
  /\ UNCHANGED vars

-----------------------------------------------------------------------------

\* The workers; the prober reports the interface the machine has now.
CoWork(p) ==
  /\ Work(p)
  /\ w[p].pc = "probe" => w'[p].target \in {phys, None}
  /\ UNCHANGED <<netVars, monVars, out, exeVars>>

CoTimeOut(c) == TimeOut(c) /\ UNCHANGED <<netVars, monVars, out, exeVars>>

Poll == PollObserve \/ PollState \/ PollIface \/ PollDecide \/ PollSend

CoNext ==
  \/ CiscoFlips \/ PhysChanges
  \/ PollObserve \/ PollState \/ PollIface \/ PollDecide \/ PollSend
  \/ ApplyBegin \/ ApplyEnd
  \/ EnableVPN \/ EnableVPNForwarder \/ EnableProxy \/ Stop \/ CommandReturns
  \/ \E p \in Workers : CoWork(p)
  \/ \E c \in Clients : CoTimeOut(c)

CoSpec == CoInit /\ [][CoNext]_cvars

\* The ticker keeps the monitor polling, Loop and the workers are goroutines that
\* run (no lock keeps either waiting, so when Overlap is FALSE a call that is enabled
\* again and again is made), and the cores' calls are assumed to return.  Commands
\* are not owed.
CoFairSpec ==
  /\ CoSpec
  /\ WF_cvars(Poll)
  /\ SF_cvars(ApplyBegin) /\ WF_cvars(ApplyEnd)
  /\ SF_cvars(EnableVPNForwarder) /\ WF_cvars(CommandReturns)
  /\ \A p \in Workers : WF_cvars(CoWork(p))

-----------------------------------------------------------------------------

\* The monitor's and the executor's own state stays within its types.
CoTypeOK ==
  /\ TypeOK
  /\ deb \in [committed : CiscoStates, pending : CiscoStates, count : 0..Threshold]
  /\ out \in Seq([act : {"stop", "unbind", "refresh"}, cisco : BOOLEAN,
                   phys : Ifaces \cup {None}])
  /\ Len(out) <= OutCap
  /\ poll.at \in {"idle", "state", "iface", "decide", "send"}
  /\ ev.at \in {"idle", "call"} /\ cmd \in {"none", "vpn", "wait"}
  /\ lastCisco \in BOOLEAN /\ prevCisco \in CiscoStates /\ prevPhys \in Ifaces \cup {None}

\* Our TUN always yields to Cisco: once Cisco stays connected, every forwarder is
\* gone for good, whatever was in flight when it connected (rule b, level-triggered).
TunYieldsToCisco == (<>[]cisco) => <>[](running \cap FwdCores = {} /\ state # "vpn")

\* A refresh drops every connection, so each one has a reason of its own: there are
\* never more of them than changes of the network.  Neither the first observation, a
\* blip, a network that was away for a while, nor the same edge seen by two polls
\* causes one.
RefreshIsEarned == refreshes <= changes

\* Stop is final: decisions that were waiting in the channel when the user stopped the
\* runtime, and later ones, are enacted without bringing anything up again.
StopIsFinal == ~asked /\ Quiescent => running = {}

\* The level-triggered rules do not thrash: when the user leaves it alone and the network
\* has changed for the last time, the monitor in the end has nothing more to ask for,
\* whatever calls of the manager failed.
Settles == (<>[](cmd = "none")) => <>[](poll.at # "send" /\ out = <<>> /\ ev.at = "idle")

\* "Physical interface changed under our TUN - rebind the proxy": when Loop has
\* successfully applied that decision and we are still in VPN mode, the proxy is
\* bound to the interface the decision was made for.
RefreshRebinds ==
  [][ApplyEnd /\ ev.act = "refresh" /\ caller[Loop] = "ok" /\ state = "vpn"
       => bound = ev.phys]_cvars

\* STATUS and EnableVPN work from "the live" Cisco state: the cached observation is
\* the one the latest poll made.
CachedCiscoIsLatest == lastCisco = seen
=============================================================================
