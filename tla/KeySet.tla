------------------------------- MODULE KeySet -------------------------------
(***************************************************************************)
(* The executor's key set (internal/app/executor.go, subscriptions.go):    *)
(* keys entered by hand, subscriptions with the links last fetched, and    *)
(* firewall rules are the inputs; applyEffective builds a new              *)
(* runtime.Manager from them, swaps it in and saves the manual keys.       *)
(*                                                                         *)
(* Every control connection is served by a goroutine of its own, and mu,   *)
(* subMu, cfgMu and fwMu are each held for a single read or write only.    *)
(* One action here is one such critical section, or one call of the        *)
(* manager, of the disk or of the network.  A manager is seen from outside *)
(* as a mode (RuntimeManager looks inside it; Coexistence has the monitor, *)
(* which alone puts it in StateSuspended).                                 *)
(*                                                                         *)
(* Keys are share links: what LoadLink parses is the keys joined by        *)
(* newlines, and splitLinks cuts that text at each scheme, so it gives     *)
(* back the same links.  A WireGuard file (KEYS-ADD-CONFIG) among the keys *)
(* is left out: Sniff claims the whole joined text as one file, so adding  *)
(* a key next to it is not the identity that SetManual makes of it.  A     *)
(* command whose argument does not parse returns before it reads or        *)
(* changes anything, and is left out.                                      *)
(***************************************************************************)
EXTENDS SequencesExt

CONSTANTS
  Procs,     \* goroutines serving control commands
  Main,      \* the goroutine of main, which loads the saved keys at startup
  Keys,      \* share links
  URLs,      \* subscription URLs
  Rules,     \* firewall rules
  Mgrs,      \* identities of managers; an unreachable one that is off is reused
  None,
  Feeds,     \* the sequences of links a panel can return
  Commands,  \* the commands that are issued
  MaxManual, \* bound on the number of manual keys
  MaxStarts, \* bound on the number of restarts
  Serial,    \* TRUE: a command begins only when no other one is being served
  MaxFaults  \* bound on the writes of files and the closings of cores that fail

ASSUME KeySetConstantsOK ==
  /\ Main \notin Procs
  /\ None \notin Keys \cup URLs \cup Rules \cup Mgrs
  /\ Feeds \subseteq Seq(Keys) /\ <<>> \notin Feeds
  /\ MaxManual \in Nat /\ MaxStarts \in Nat /\ Serial \in BOOLEAN /\ MaxFaults \in Nat

VARIABLES
  manual, subs, fw,  \* the inputs: manual, subs and fwRules
  mgr, links,        \* the manager in use and the links it was built from
  mode,              \* the mode each manager is in
  built,             \* the configuration each manager was built from
  disk,              \* profile.txt, subscriptions.json, firewall.json
  starts,            \* how often the process has been restarted
  faults,            \* how often a write or a close has failed
  l                  \* the local state of each goroutine

inputs  == <<manual, subs, fw>>
runtime == <<mgr, links, mode, built>>
kvars   == <<inputs, runtime, disk, starts, faults, l>>

All == Procs \cup {Main}

AtRest == [op |-> "none", pc |-> "idle", key |-> None, arg |-> None, buf |-> <<>>,
           recs |-> <<>>, changed |-> FALSE, round |-> 1, prev |-> "off", m |-> None,
           res |-> "ok"]

KInit ==
  /\ manual = <<>> /\ subs = <<>> /\ fw = {}
  /\ mgr = None /\ links = <<>>
  /\ mode = [m \in Mgrs |-> "off"]
  /\ built = [m \in Mgrs |-> [links |-> <<>>, fw |-> {}]]
  /\ disk = [manual |-> <<>>, subs |-> <<>>, fw |-> {}]
  /\ starts = 0 /\ faults = 0
  /\ l = [p \in All |-> AtRest]

-----------------------------------------------------------------------------
(* effectiveLinks and subscriptionOwning. *)

SubLinks(ss) == FlattenSeq([i \in DOMAIN ss |-> ss[i].links])

\* Manual keys first, then each subscription's in order; the first occurrence counts.
EffectiveLinks(ms, ss) ==
  FoldLeft(LAMBDA acc, k : IF Contains(acc, k) THEN acc ELSE Append(acc, k),
           <<>>, ms \o SubLinks(ss))

\* A manual key wins even if a subscription repeats it.
SubscriptionOwning(k) == ~Contains(manual, k) /\ Contains(SubLinks(subs), k)

\* StateLabel
StateLabel == IF mgr = None THEN "off" ELSE mode[mgr]

-----------------------------------------------------------------------------

Go(p, label)   == l' = [l EXCEPT ![p].pc = label]
Return(p, res) == l' = [l EXCEPT ![p] = [AtRest EXCEPT !.res = res]]

\* A write or a close fails.
Fault == faults < MaxFaults /\ faults' = faults + 1

Busy(p)  == l[p].pc # "idle"
Settled  == \A p \in All : ~Busy(p)
MayBegin == Serial => Settled

First ==
  [addLink |-> "prev", deleteLink |-> "links", renameLink |-> "links", settings |-> "links",
   addSub |-> "dup", removeSub |-> "drop", refresh |-> "copy", firewallAdd |-> "fwEdit",
   firewallRemove |-> "fwEdit", proxy |-> "getMgr", vpn |-> "getMgr", off |-> "clearRead"]

\* A control command arrives.
Begin(p, op, key, arg) ==
  /\ MayBegin
  /\ ~Busy(p)
  /\ l' = [l EXCEPT ![p] = [AtRest EXCEPT !.op = op, !.pc = First[op], !.key = key,
                                          !.arg = arg,
                                          !.prev = IF op \in {"proxy", "vpn"} THEN op ELSE "off"]]
  /\ UNCHANGED <<inputs, runtime, disk, starts, faults>>

\* The key of deleteLink and renameLink is what the index the client sent stands for
\* in CurrentLinks; an index out of range is refused, and so is a name SetLabel refuses.
ReadLinks(p) ==
  /\ l[p].pc = "links"
  /\ IF l[p].op = "settings"
       THEN IF links = <<>> THEN Return(p, "ok")
            ELSE l' = [l EXCEPT ![p].buf = links, ![p].pc = "prev"]
       ELSE \/ Return(p, "err")
            \/ \E k \in ToSet(links) : l' = [l EXCEPT ![p].key = k, ![p].pc = "owner"]
  /\ UNCHANGED <<inputs, runtime, disk, starts, faults>>

CheckOwner(p) ==
  /\ l[p].pc = "owner"
  /\ IF SubscriptionOwning(l[p].key) THEN Return(p, "err")
     ELSE \/ Go(p, "readManual")
          \/ l[p].op = "renameLink" /\ Return(p, "err")
  /\ UNCHANGED <<inputs, runtime, disk, starts, faults>>

\* The new manual keys, computed from a copy: one appended, all equal ones removed,
\* or the first equal one replaced.
Combine(p) ==
  CASE l[p].op = "addLink"    -> Append(manual, l[p].key)
    [] l[p].op = "deleteLink" -> SelectSeq(manual, LAMBDA k : k # l[p].key)
    [] l[p].op = "renameLink" ->
         IF Contains(manual, l[p].key)
           THEN ReplaceAt(manual, SelectInSeq(manual, LAMBDA k : k = l[p].key), l[p].arg)
           ELSE manual

ReadManual(p) ==
  /\ l[p].pc = "readManual"
  /\ l' = [l EXCEPT ![p].buf = Combine(p), ![p].pc = "setManual"]
  /\ UNCHANGED <<inputs, runtime, disk, starts, faults>>

\* AddLink, ApplySettings and startup go through LoadLink, which takes the joined share
\* links apart again and applies at once; the others look at the mode between the two.
SetManual(p) ==
  /\ l[p].pc = "setManual"
  /\ manual' = l[p].buf
  /\ Go(p, IF l[p].op \in {"addLink", "settings", "load"} THEN "effective" ELSE "prev")
  /\ UNCHANGED <<subs, fw, runtime, disk, starts, faults>>

ReadPrev(p) ==
  /\ l[p].pc = "prev"
  /\ l' = [l EXCEPT ![p].prev = StateLabel,
                    ![p].pc = CASE l[p].op = "addLink"  -> "readManual"
                                [] l[p].op = "settings" -> "setManual"
                                [] OTHER                -> "effective"]
  /\ UNCHANGED <<inputs, runtime, disk, starts, faults>>

-----------------------------------------------------------------------------
(* Subscriptions and firewall rules. *)

HasURL(ss, u) == \E i \in DOMAIN ss : ss[i].url = u

CheckDuplicate(p) ==
  /\ l[p].pc = "dup"
  /\ IF HasURL(subs, l[p].arg) THEN Return(p, "err") ELSE Go(p, "fetch")
  /\ UNCHANGED <<inputs, runtime, disk, starts, faults>>

\* The network is asked outside every lock; a failure ends the call.
FetchNew(p) ==
  /\ l[p].pc = "fetch" /\ l[p].op = "addSub"
  /\ \/ Return(p, "err")
     \/ \E f \in Feeds : l' = [l EXCEPT ![p].recs = <<[url |-> l[p].arg, links |-> f]>>,
                                       ![p].pc = "append"]
  /\ UNCHANGED <<inputs, runtime, disk, starts, faults>>

AppendSub(p) ==
  /\ l[p].pc = "append"
  /\ subs' = subs \o l[p].recs
  /\ Go(p, "readSubs")
  /\ UNCHANGED <<manual, fw, runtime, disk, starts, faults>>

\* Every record with that URL goes; the others keep their order.
DropSub(p) ==
  /\ l[p].pc = "drop"
  /\ LET kept == {i \in DOMAIN subs : subs[i].url # l[p].arg} IN
     IF kept # DOMAIN subs
       THEN /\ \E at \in [1..Cardinality(kept) -> kept] :
                 /\ \A i, j \in DOMAIN at : i < j => at[i] < at[j]
                 /\ subs' = [i \in DOMAIN at |-> subs[at[i]]]
            /\ Go(p, "readSubs")
       ELSE Return(p, "err") /\ UNCHANGED subs
  /\ UNCHANGED <<manual, fw, runtime, disk, starts, faults>>

CopySubs(p) ==
  /\ l[p].pc = "copy"
  /\ IF subs = <<>> THEN Return(p, "ok")
     ELSE l' = [l EXCEPT ![p].recs = subs, ![p].pc = "fetch"]
  /\ UNCHANGED <<inputs, runtime, disk, starts, faults>>

\* Every record of the copy is fetched again; one that fails keeps its links.
FetchAll(p) ==
  /\ l[p].pc = "fetch" /\ l[p].op = "refresh"
  /\ \E got \in [DOMAIN l[p].recs -> Feeds \cup {<<>>}] :
       LET new == [i \in DOMAIN got |->
                     [l[p].recs[i] EXCEPT !.links = IF got[i] = <<>> THEN @ ELSE got[i]]]
       IN l' = [l EXCEPT ![p].recs = new, ![p].changed = new # l[p].recs, ![p].pc = "merge"]
  /\ UNCHANGED <<inputs, runtime, disk, starts, faults>>

\* Mutant: the refreshed copy replaces the list.
MergeReplaces(p) ==
  /\ l[p].pc = "merge"
  /\ subs' = l[p].recs
  /\ Go(p, "readSubs")
  /\ UNCHANGED <<manual, fw, runtime, disk, starts, faults>>

\* The copy is matched by URL: each updated record replaces the first one with its URL,
\* and of several updated ones with the same URL the last one stays.
Merged(ss, updated) ==
  [i \in DOMAIN ss |->
     LET same    == {j \in DOMAIN updated : updated[j].url = ss[i].url}
         isFirst == \A j \in DOMAIN ss : ss[j].url = ss[i].url => i <= j
     IN IF isFirst /\ same # {} THEN updated[Max(same)] ELSE ss[i]]

Merge(p) ==
  /\ l[p].pc = "merge"
  /\ subs' = Merged(subs, l[p].recs)
  /\ Go(p, "readSubs")
  /\ UNCHANGED <<manual, fw, runtime, disk, starts, faults>>

\* persistSubscriptions: the snapshot is taken under subMu and written after it.
ReadSubs(p) ==
  /\ l[p].pc = "readSubs"
  /\ l' = [l EXCEPT ![p].recs = subs, ![p].pc = "writeSubs"]
  /\ UNCHANGED <<inputs, runtime, disk, starts, faults>>

\* Mutant: a refresh is not saved.
WriteSubsNot(p) ==
  /\ l[p].pc = "writeSubs"
  /\ disk' = IF l[p].op = "refresh" THEN disk ELSE [disk EXCEPT !.subs = l[p].recs]
  /\ IF l[p].op = "refresh" /\ ~l[p].changed THEN Return(p, "ok") ELSE Go(p, "prev")
  /\ UNCHANGED <<inputs, runtime, starts, faults>>

\* What cannot be written is passed over.
WriteSubs(p) ==
  /\ l[p].pc = "writeSubs"
  /\ \/ disk' = [disk EXCEPT !.subs = l[p].recs] /\ UNCHANGED faults
     \/ Fault /\ UNCHANGED disk
  /\ IF l[p].op = "refresh" /\ ~l[p].changed THEN Return(p, "ok") ELSE Go(p, "prev")
  /\ UNCHANGED <<inputs, runtime, starts>>

\* FirewallAdd and FirewallRemove: a rule already there, or not there, is refused.
EditFirewall(p) ==
  /\ l[p].pc = "fwEdit"
  /\ LET new == IF l[p].op = "firewallAdd" THEN fw \cup {l[p].arg} ELSE fw \ {l[p].arg} IN
     /\ fw' = new
     /\ IF new = fw THEN Return(p, "err")
        ELSE l' = [l EXCEPT ![p].recs = new, ![p].pc = "fwSave"]
  /\ UNCHANGED <<manual, subs, runtime, disk, starts, faults>>

\* Mutant: the rule is saved and never applied.
SaveFirewallNoReload(p) ==
  /\ l[p].pc = "fwSave"
  /\ disk' = [disk EXCEPT !.fw = l[p].recs]
  /\ Return(p, "ok")
  /\ UNCHANGED <<inputs, runtime, starts, faults>>

\* With no manager the rule waits for the next start; a failed write ends the call.
SaveFirewall(p) ==
  /\ l[p].pc = "fwSave"
  /\ \/ /\ disk' = [disk EXCEPT !.fw = l[p].recs]
        /\ IF mgr = None THEN Return(p, "ok") ELSE Go(p, "prev")
        /\ UNCHANGED faults
     \/ /\ Fault
        /\ Return(p, "err")
        /\ UNCHANGED disk
  /\ UNCHANGED <<inputs, runtime, starts>>

-----------------------------------------------------------------------------
(* applyEffective and clearLinks. *)

ReadEffective(p) ==
  /\ l[p].pc = "effective"
  /\ LET eff == EffectiveLinks(manual, subs) IN
     l' = [l EXCEPT ![p].buf = eff, ![p].pc = IF eff = <<>> THEN "clearRead" ELSE "readOld"]
  /\ UNCHANGED <<inputs, runtime, disk, starts, faults>>

ReadOld(p) ==
  /\ l[p].pc = "readOld"
  /\ l' = [l EXCEPT ![p].m = mgr, ![p].pc = IF mgr = None THEN "build" ELSE "shutOld"]
  /\ UNCHANGED <<inputs, runtime, disk, starts, faults>>

\* Mutant: the old manager is left as it is.
ShutOldNot(p) ==
  /\ l[p].pc = "shutOld"
  /\ Go(p, "build")
  /\ UNCHANGED <<inputs, runtime, disk, starts, faults>>

\* The error of Shutdown is ignored.
ShutOld(p) ==
  /\ l[p].pc = "shutOld"
  /\ mode' = [mode EXCEPT ![l[p].m] = "off"]
  /\ Go(p, "build")
  /\ UNCHANGED <<inputs, mgr, links, built, disk, starts, faults>>

Reachable == {mgr} \cup {l[p].m : p \in All}

\* The builder gets the links read before and the firewall rules of this moment.
Build(p) ==
  /\ l[p].pc = "build"
  /\ \E m \in Mgrs \ Reachable :
       /\ mode[m] = "off"
       /\ built' = [built EXCEPT ![m] = [links |-> l[p].buf, fw |-> fw]]
       /\ l' = [l EXCEPT ![p].m = m, ![p].pc = "swap"]
  /\ UNCHANGED <<inputs, mgr, links, mode, disk, starts, faults>>

\* Mutant: the links are computed a second time.
SwapReread(p) ==
  /\ l[p].pc = "swap"
  /\ mgr' = l[p].m
  /\ links' = EffectiveLinks(manual, subs)
  /\ Go(p, "readSave")
  /\ UNCHANGED <<inputs, mode, built, disk, starts, faults>>

Swap(p) ==
  /\ l[p].pc = "swap"
  /\ mgr' = l[p].m
  /\ links' = l[p].buf
  /\ Go(p, "readSave")
  /\ UNCHANGED <<inputs, mode, built, disk, starts, faults>>

\* clearLinks shuts the manager down twice (through Stop, and by itself); the command
\* MODE off does it once and keeps the manager.  Shutdown always leaves the manager
\* stopped, but when a core fails to close the first call's error ends the command.
ClearRead(p) ==
  /\ l[p].pc = "clearRead"
  /\ IF mgr = None
       THEN IF l[p].op = "off" THEN Return(p, "ok") ELSE Go(p, "clear")
       ELSE l' = [l EXCEPT ![p].m = mgr, ![p].pc = "clearShut"]
  /\ UNCHANGED <<inputs, runtime, disk, starts, faults>>

ClearShut(p) ==
  /\ l[p].pc = "clearShut"
  /\ mode' = [mode EXCEPT ![l[p].m] = "off"]
  /\ \/ /\ IF l[p].op = "off" THEN Return(p, "ok")
           ELSE l' = [l EXCEPT ![p].round = 2,
                               ![p].pc = IF l[p].round = 1 THEN "clearRead" ELSE "clear"]
        /\ UNCHANGED faults
     \/ Fault /\ l[p].round = 1 /\ Return(p, "err")
  /\ UNCHANGED <<inputs, mgr, links, built, disk, starts>>

Clear(p) ==
  /\ l[p].pc = "clear"
  /\ mgr' = None
  /\ links' = <<>>
  /\ Go(p, "readSave")
  /\ UNCHANGED <<inputs, mode, built, disk, starts, faults>>

ReadSave(p) ==
  /\ l[p].pc = "readSave"
  /\ l' = [l EXCEPT ![p].buf = manual, ![p].pc = "writeSave"]
  /\ UNCHANGED <<inputs, runtime, disk, starts, faults>>

\* Mutant: the mode is not restored.
WriteSaveModeLost(p) ==
  /\ l[p].pc = "writeSave"
  /\ disk' = [disk EXCEPT !.manual = l[p].buf]
  /\ Return(p, "ok")
  /\ UNCHANGED <<inputs, runtime, starts, faults>>

WriteSave(p) ==
  /\ l[p].pc = "writeSave"
  /\ \/ disk' = [disk EXCEPT !.manual = l[p].buf] /\ UNCHANGED faults
     \/ Fault /\ UNCHANGED disk
  /\ Go(p, "getMgr")
  /\ UNCHANGED <<inputs, runtime, starts>>

-----------------------------------------------------------------------------
(* EnableProxy and EnableVPN, as commands or to restore the mode. *)

\* Nothing to restore when it was off; errNoProxy without a manager.
GetManager(p) ==
  /\ l[p].pc = "getMgr"
  /\ IF l[p].prev = "off" THEN Return(p, "ok")
     ELSE IF mgr = None THEN Return(p, "err")
     ELSE l' = [l EXCEPT ![p].m = mgr, ![p].pc = "start"]
  /\ UNCHANGED <<inputs, runtime, disk, starts, faults>>

\* The listener ports are fixed: another manager's proxy keeps ours from starting.
PortFree(m) == \A n \in Mgrs \ {m} : mode[n] = "off"

\* The outcomes of EnableProxy and EnableVPN on manager m, as <<result, mode>>.  Cisco
\* or a timeout makes a call fail with the mode as it was; a core that does not start
\* leaves the manager stopped, or in proxy mode when only the forwarder failed.
Outcomes(want, m) ==
  {<<"err", mode[m]>>}
  \cup IF mode[m] = want THEN {<<"ok", want>>}
       ELSE IF mode[m] = "off" /\ ~PortFree(m) THEN {}
       ELSE {<<"ok", want>>, <<"err", "off">>} \cup {<<"err", "proxy">> : x \in {want} \cap {"vpn"}}

\* At startup ApplyAutostart may try proxy mode when vpn failed because of Cisco, and
\* calls Stop when all failed; a mode given as a flag is tried once.
Start(p) ==
  /\ l[p].pc = "start"
  /\ \E o \in Outcomes(l[p].prev, l[p].m) :
       /\ mode' = [mode EXCEPT ![l[p].m] = o[2]]
       /\ \/ Return(p, o[1])
          \/ /\ l[p].op = "load" /\ o[1] = "err"
             /\ \/ l' = [l EXCEPT ![p].op = "off", ![p].pc = "clearRead"]
                \/ l[p].prev = "vpn" /\ l' = [l EXCEPT ![p].prev = "proxy", ![p].pc = "getMgr"]
  /\ UNCHANGED <<inputs, mgr, links, built, disk, starts, faults>>

-----------------------------------------------------------------------------
(* The process dies and is started again. *)

\* The saved keys are read, subscriptions and rules are restored; the control socket is
\* open before main goes on with Startup.
Restart(auto) ==
  /\ starts < MaxStarts
  /\ starts' = starts + 1
  /\ manual' = <<>> /\ subs' = disk.subs /\ fw' = disk.fw
  /\ mgr' = None /\ links' = <<>>
  /\ mode' = [m \in Mgrs |-> "off"]
  /\ built' = [m \in Mgrs |-> [links |-> <<>>, fw |-> {}]]
  /\ l' = [p \in All |->
             IF p # Main THEN AtRest
             ELSE [AtRest EXCEPT !.op = "load", !.prev = auto, !.buf = disk.manual,
                                 !.pc = "startup"]]
  /\ UNCHANGED <<disk, faults>>

\* runHeadless: LoadLink with the saved keys, or Reload when there are only
\* subscriptions, then the mode.
Startup ==
  /\ l[Main].pc = "startup"
  /\ Go(Main, IF l[Main].buf # <<>> THEN "setManual"
              ELSE IF subs # <<>> THEN "effective" ELSE "getMgr")
  /\ UNCHANGED <<inputs, runtime, disk, starts, faults>>

-----------------------------------------------------------------------------

Issue(p, op) ==
  /\ op \in Commands
  /\ \/ op = "addLink" /\ Len(manual) < MaxManual /\ \E k \in Keys : Begin(p, op, k, None)
     \/ op = "renameLink" /\ \E k \in Keys : Begin(p, op, None, k)
     \/ op \in {"addSub", "removeSub"} /\ \E u \in URLs : Begin(p, op, None, u)
     \/ op \in {"firewallAdd", "firewallRemove"} /\ \E r \in Rules : Begin(p, op, None, r)
     \/ op \in {"deleteLink", "settings", "refresh", "proxy", "vpn", "off"}
        /\ Begin(p, op, None, None)

Serve(p) ==
  \/ ReadLinks(p) \/ CheckOwner(p) \/ ReadManual(p) \/ SetManual(p) \/ ReadPrev(p)
  \/ CheckDuplicate(p) \/ FetchNew(p) \/ AppendSub(p) \/ DropSub(p)
  \/ CopySubs(p) \/ FetchAll(p) \/ Merge(p) \/ ReadSubs(p) \/ WriteSubs(p)
  \/ EditFirewall(p) \/ SaveFirewall(p)
  \/ ReadEffective(p) \/ ReadOld(p) \/ ShutOld(p) \/ Build(p) \/ Swap(p)
  \/ ClearRead(p) \/ ClearShut(p) \/ Clear(p) \/ ReadSave(p) \/ WriteSave(p)
  \/ GetManager(p) \/ Start(p)

KNext ==
  \/ \E p \in Procs, op \in DOMAIN First : Issue(p, op)
  \/ \E p \in All : Serve(p)
  \/ Startup
  \/ \E auto \in {"off", "proxy", "vpn"} : Restart(auto)

KSpec == KInit /\ [][KNext]_kvars

-----------------------------------------------------------------------------
(* Properties. *)

Links == Seq(Keys)
Subs  == Seq([url : URLs, links : Links])
Modes == {"off", "proxy", "vpn"}

\* The types of the executor's fields, of the files and of the managers; a manager in
\* use has links, and nobody is in more than one command.
KTypeOK ==
  /\ manual \in Links /\ subs \in Subs /\ fw \subseteq Rules
  /\ mgr \in Mgrs \cup {None} /\ links \in Links /\ (mgr = None) = (links = <<>>)
  /\ mode \in [Mgrs -> Modes]
  /\ built \in [Mgrs -> [links : Links, fw : SUBSET Rules]]
  /\ disk \in [manual : Links, subs : Subs, fw : SUBSET Rules]
  /\ starts \in 0..MaxStarts /\ faults \in 0..MaxFaults
  /\ \A p \in All : l[p].prev \in Modes /\ l[p].m \in Mgrs \cup {None}

\* Between commands, if no write or close has failed, the runtime runs exactly the
\* effective set: the manager was built from manual keys and subscription links as they
\* are now, without duplicates, and from the firewall rules as they are now; with
\* nothing to run there is no manager (applyEffective is reached by every edit).
RuntimeRunsEffective ==
  Settled /\ faults = 0 =>
    LET eff == EffectiveLinks(manual, subs) IN
    /\ links = eff
    /\ IF eff = <<>> THEN mgr = None
       ELSE mgr # None /\ built[mgr] = [links |-> eff, fw |-> fw]

\* Between commands, if no write or close has failed, the files hold what a restart
\* needs to come up with the same keys, subscriptions and rules (the saves of applyEffective, clearLinks,
\* persistSubscriptions and the firewall commands), wherever an earlier crash struck.
RestartRestores ==
  Settled /\ faults = 0 => disk = [manual |-> manual, subs |-> subs, fw |-> fw]

\* Between commands no manager but the one in use has its cores up: applyEffective
\* shuts the old one down before it swaps in the new one.
NoOrphanRuntime ==
  Settled => \A m \in Mgrs : mode[m] # "off" => m = mgr

Edits == {"addLink", "deleteLink", "renameLink", "settings", "addSub", "removeSub",
          "refresh", "firewallAdd", "firewallRemove"}

\* An edit that reports success leaves the runtime in the mode it had before the edit
\* shut the old manager down (AddLink, ApplySettings and applyPreservingMode).
EditKeepsMode ==
  [][\A p \in Procs :
       (/\ l[p].op \in Edits /\ l[p].pc \in {"writeSave", "getMgr", "start"}
        /\ l'[p].pc = "idle" /\ l'[p].res = "ok" /\ starts' = starts)
          => StateLabel' = l[p].prev]_kvars

\* A subscription that was removed while a refresh was fetching it is not brought back
\* by the refresh (RefreshSubscriptions matches by URL): a URL enters the list only by
\* SUB-ADD, or from the file at a restart.
RefreshNeverResurrects ==
  [][\A u \in URLs : (HasURL(subs', u) /\ ~HasURL(subs, u))
       => \/ starts' # starts
          \/ \E p \in Procs : l[p].op = "addSub" /\ l[p].arg = u]_kvars

\* Whatever the commands that overlap, the links that KEYS-GET reports are the ones
\* the manager in use was built from: mgr and links change together, under mu.
ReportedIsBuilt ==
  mgr # None => built[mgr].links = links

-----------------------------------------------------------------------------
(* What the comments of the code say, and the code does not do. *)

\* "They are never persisted as manual keys" (the links of a subscription): only
\* KEYS-ADD and KEYS-RENAME put a new key into profile.txt.
SubscriptionLinksNotSaved ==
  [][\A k \in Keys : (Contains(disk'.manual, k) /\ ~Contains(disk.manual, k))
       => \E p \in Procs : l[p].op \in {"addLink", "renameLink"}]_kvars

\* "AddLink appends another server to the set": when KEYS-ADD reports success, and no
\* other command than KEYS-ADD is about, its key is among the manual keys.
AddedKeyIsKept ==
  [][\A p \in Procs : (l[p].op = "addLink" /\ Busy(p) /\ l'[p].pc = "idle" /\ l'[p].res = "ok")
       => Contains(manual', l[p].key)]_kvars
=============================================================================
