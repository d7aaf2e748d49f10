---------------------------- MODULE KeySetProofs ----------------------------
(***************************************************************************)
(* Proofs about the key set, for every set of goroutines, keys, URLs,      *)
(* rules and managers.  However commands overlap, what KEYS-GET reports is *)
(* what the manager in use was built from, and a removed subscription is   *)
(* not brought back.  With one command at a time the runtime runs the      *)
(* effective set, no manager is orphaned, an edit keeps the mode and the   *)
(* files hold what a restart needs.                                        *)
(***************************************************************************)
EXTENDS KeySet, FiniteSetTheorems, WellFoundedInduction, TLAPS

-----------------------------------------------------------------------------
(* The local state of a goroutine. *)

\* The fields a local state has.
Local(r) ==
  r \in [op : {r.op}, pc : {r.pc}, key : {r.key}, arg : {r.arg}, buf : {r.buf}, recs : {r.recs},
         changed : {r.changed}, round : {r.round}, prev : {r.prev}, m : {r.m}, res : {r.res}]

Locals == DOMAIN l = All /\ \A p \in All : Local(l[p])

\* A step of p changes the local state of p only.
Moves(p) == Locals' /\ \A q \in All : q # p => l'[q] = l[q]

LEMMA MoveOf ==
  ASSUME Locals, NEW p \in All, NEW r, Local(r), l' = [l EXCEPT ![p] = r]
  PROVE  Moves(p) /\ l'[p] = r
BY DEF Locals, Moves

LEMMA GoMoves ==
  ASSUME Locals, NEW p \in All, NEW label, Go(p, label)
  PROVE  /\ Moves(p) /\ l'[p].pc = label /\ l'[p].op = l[p].op /\ l'[p].m = l[p].m
         /\ l'[p].buf = l[p].buf /\ l'[p].recs = l[p].recs /\ l'[p].prev = l[p].prev
         /\ l'[p].arg = l[p].arg /\ l'[p].changed = l[p].changed
<1> DEFINE r == [l[p] EXCEPT !.pc = label]
<1>1. l' = [l EXCEPT ![p] = r]
  BY DEF Go
<1>2. Local(l[p])
  BY DEF Locals
<1>3. /\ Local(r) /\ r.pc = label /\ r.op = l[p].op /\ r.m = l[p].m
      /\ r.buf = l[p].buf /\ r.recs = l[p].recs /\ r.prev = l[p].prev
      /\ r.arg = l[p].arg /\ r.changed = l[p].changed
  BY <1>2 DEF Local
<1> HIDE DEF r
<1> QED
  BY <1>1, <1>3, MoveOf

LEMMA ReturnMoves ==
  ASSUME Locals, NEW p \in All, NEW res, Return(p, res)
  PROVE  Moves(p) /\ l'[p].pc = "idle" /\ l'[p].op = "none" /\ l'[p].res = res
<1> DEFINE r == [AtRest EXCEPT !.res = res]
<1>1. l' = [l EXCEPT ![p] = r]
  BY DEF Return
<1>2. Local(r) /\ r.pc = "idle" /\ r.op = "none" /\ r.res = res
  BY DEF Local, AtRest
<1> HIDE DEF r
<1> QED
  BY <1>1, <1>2, MoveOf

\* A step of a command moves its goroutine only, and only Build leads to the swap.
LEMMA ServeMoves ==
  ASSUME Locals, NEW p \in All, Serve(p)
  PROVE  /\ Busy(p) /\ Moves(p)
         /\ l'[p].pc = "swap" => Build(p)
<1>0. Local(l[p])
  BY DEF Locals
<1> USE DEF Busy
<1>1. CASE ReadLinks(p)
  <2>1. ASSUME NEW k, l' = [l EXCEPT ![p].key = k, ![p].pc = "owner"]
        PROVE  Moves(p) /\ l'[p].pc # "swap"
    BY <2>1, <1>0 DEF Locals, Moves, Local
  <2>2. ASSUME l' = [l EXCEPT ![p].buf = links, ![p].pc = "prev"]
        PROVE  Moves(p) /\ l'[p].pc # "swap"
    BY <2>2, <1>0 DEF Locals, Moves, Local
  <2>3. ASSUME NEW res, Return(p, res)
        PROVE  Moves(p) /\ l'[p].pc # "swap"
    BY <2>3, ReturnMoves
  <2> QED
    BY <2>1, <2>2, <2>3, <1>1 DEF ReadLinks
<1>2. CASE CheckOwner(p) \/ CheckDuplicate(p) \/ DropSub(p)
  BY <1>2, GoMoves, ReturnMoves DEF CheckOwner, CheckDuplicate, DropSub
<1>3. CASE ReadManual(p) \/ ReadSubs(p) \/ ReadOld(p) \/ ReadSave(p)
  BY <1>0, <1>3 DEF Locals, Moves, Local, ReadManual, ReadSubs, ReadOld, ReadSave
<1>4. CASE ReadEffective(p)
  BY <1>0, <1>4 DEF Locals, Moves, Local, ReadEffective
<1>5. CASE ReadPrev(p)
  BY <1>0, <1>5 DEF Locals, Moves, Local, ReadPrev
<1>6. CASE SetManual(p) \/ AppendSub(p) \/ ShutOld(p) \/ Swap(p) \/ Clear(p) \/ WriteSave(p)
  BY <1>6, GoMoves DEF SetManual, AppendSub, ShutOld, Swap, Clear, WriteSave
<1>14. CASE Merge(p)
  <2>1. l[p].pc = "merge" /\ Go(p, "readSubs")
    BY <1>14, Zenon DEF Merge
  <2> QED
    BY <2>1, GoMoves
<1>7. CASE FetchNew(p)
  <2>1. ASSUME NEW f, l' = [l EXCEPT ![p].recs = <<[url |-> l[p].arg, links |-> f]>>,
                                     ![p].pc = "append"]
        PROVE  Moves(p) /\ l'[p].pc # "swap"
    BY <2>1, <1>0 DEF Locals, Moves, Local
  <2> QED
    BY <1>7, <2>1, ReturnMoves DEF FetchNew
<1>8. CASE CopySubs(p) \/ EditFirewall(p) \/ ClearRead(p) \/ GetManager(p)
  <2>1. ASSUME NEW v, NEW label \in {"fetch", "fwSave"},
               l' = [l EXCEPT ![p].recs = v, ![p].pc = label]
        PROVE  Moves(p) /\ l'[p].pc # "swap"
    BY <2>1, <1>0 DEF Locals, Moves, Local
  <2>2. ASSUME NEW v, NEW label \in {"clearShut", "start"},
               l' = [l EXCEPT ![p].m = v, ![p].pc = label]
        PROVE  Moves(p) /\ l'[p].pc # "swap"
    BY <2>2, <1>0 DEF Locals, Moves, Local
  <2>3. CASE CopySubs(p)
    BY <2>1, <2>3, ReturnMoves DEF CopySubs
  <2>4. CASE EditFirewall(p)
    BY <2>1, <2>4, ReturnMoves DEF EditFirewall
  <2>5. CASE ClearRead(p)
    BY <2>2, <2>5, GoMoves, ReturnMoves DEF ClearRead
  <2>6. CASE GetManager(p)
    BY <2>2, <2>6, ReturnMoves DEF GetManager
  <2> QED
    BY <1>8, <2>3, <2>4, <2>5, <2>6
<1>9. CASE FetchAll(p)
  <2>1. PICK new, c : l' = [l EXCEPT ![p].recs = new, ![p].changed = c, ![p].pc = "merge"]
    BY <1>9 DEF FetchAll
  <2> QED
    BY <1>0, <1>9, <2>1 DEF Locals, Moves, Local, FetchAll
<1>10. CASE WriteSubs(p) \/ SaveFirewall(p)
  BY <1>10, GoMoves, ReturnMoves DEF WriteSubs, SaveFirewall
<1>11. CASE Build(p)
  <2>1. PICK m : l' = [l EXCEPT ![p].m = m, ![p].pc = "swap"]
    BY <1>11 DEF Build
  <2>2. l[p].pc = "build"
    BY <1>11 DEF Build
  <2> QED
    BY <1>0, <1>11, <2>1, <2>2 DEF Locals, Moves, Local
<1>12. CASE ClearShut(p)
  BY <1>0, <1>12, ReturnMoves DEF Locals, Moves, Local, ClearShut
<1>13. CASE Start(p)
  BY <1>0, <1>13, ReturnMoves DEF Locals, Moves, Local, Start
<1> QED
  BY <1>1, <1>2, <1>3, <1>4, <1>5, <1>6, <1>7, <1>8, <1>9, <1>10, <1>11, <1>12, <1>13, <1>14 DEF Serve

\* A command begins on a goroutine at rest.
LEMMA IssueMoves ==
  ASSUME Locals, NEW p \in All, NEW op \in DOMAIN First, Issue(p, op)
  PROVE  /\ Moves(p) /\ ~Busy(p) /\ MayBegin /\ l'[p].op = op
         /\ \/ op = "addLink" /\ l'[p].pc = "prev"
            \/ op \in {"deleteLink", "renameLink", "settings"} /\ l'[p].pc = "links"
            \/ op = "addSub" /\ l'[p].pc = "dup"
            \/ op = "removeSub" /\ l'[p].pc = "drop"
            \/ op = "refresh" /\ l'[p].pc = "copy"
            \/ op \in {"firewallAdd", "firewallRemove"} /\ l'[p].pc = "fwEdit"
            \/ op \in {"proxy", "vpn"} /\ l'[p].pc = "getMgr"
            \/ op = "off" /\ l'[p].pc = "clearRead"
         /\ UNCHANGED <<inputs, runtime, disk, starts, faults>>
<1>1. PICK key, arg : Begin(p, op, key, arg)
  BY DEF Issue
<1> DEFINE r == [AtRest EXCEPT !.op = op, !.pc = First[op], !.key = key, !.arg = arg,
                               !.prev = IF op \in {"proxy", "vpn"} THEN op ELSE "off"]
<1>2. l' = [l EXCEPT ![p] = r]
  BY <1>1 DEF Begin
<1>3. Local(r) /\ r.op = op /\ r.pc = First[op]
  BY DEF Local, AtRest
<1> HIDE DEF r
<1>4. Moves(p) /\ l'[p].op = op /\ l'[p].pc = First[op]
  BY <1>2, <1>3, MoveOf
<1>5. \/ op = "addLink" /\ First[op] = "prev"
      \/ op \in {"deleteLink", "renameLink", "settings"} /\ First[op] = "links"
      \/ op = "addSub" /\ First[op] = "dup"
      \/ op = "removeSub" /\ First[op] = "drop"
      \/ op = "refresh" /\ First[op] = "copy"
      \/ op \in {"firewallAdd", "firewallRemove"} /\ First[op] = "fwEdit"
      \/ op \in {"proxy", "vpn"} /\ First[op] = "getMgr"
      \/ op = "off" /\ First[op] = "clearRead"
  BY DEF Issue, First
<1> QED
  BY <1>1, <1>4, <1>5 DEF Begin

\* The steps that change nothing but the goroutine's local state.
Thinks(p) ==
  \/ ReadLinks(p) \/ CheckOwner(p) \/ ReadManual(p) \/ ReadPrev(p) \/ CheckDuplicate(p)
  \/ FetchNew(p) \/ CopySubs(p) \/ FetchAll(p) \/ ReadSubs(p) \/ ReadEffective(p)
  \/ ReadOld(p) \/ ClearRead(p) \/ ReadSave(p) \/ GetManager(p)

LEMMA ThinksAside ==
  ASSUME NEW p \in All, Thinks(p)
  PROVE  UNCHANGED <<inputs, runtime, disk, starts, faults>>
BY DEF Thinks, ReadLinks, CheckOwner, ReadManual, ReadPrev, CheckDuplicate, FetchNew, CopySubs,
       FetchAll, ReadSubs, ReadEffective, ReadOld, ClearRead, ReadSave, GetManager

\* The steps that touch an input or a file.
Edit(p) ==
  \/ SetManual(p) \/ AppendSub(p) \/ DropSub(p) \/ Merge(p) \/ WriteSubs(p)
  \/ EditFirewall(p) \/ SaveFirewall(p) \/ WriteSave(p)

LEMMA EditAside ==
  ASSUME NEW p \in All, Edit(p)
  PROVE  UNCHANGED <<runtime, starts>>
<1>1. CASE SetManual(p) \/ AppendSub(p) \/ WriteSubs(p) \/ EditFirewall(p) \/ SaveFirewall(p)
           \/ WriteSave(p)
  BY <1>1 DEF SetManual, AppendSub, WriteSubs, EditFirewall, SaveFirewall, WriteSave
<1>2. CASE DropSub(p)
  BY <1>2, Zenon DEF DropSub
<1>3. CASE Merge(p)
  BY <1>3, Zenon DEF Merge
<1> QED
  BY <1>1, <1>2, <1>3 DEF Edit

-----------------------------------------------------------------------------
(* What is reported is what was built, however commands overlap. *)

\* A goroutine about to swap holds a manager of its own, built from its links.
Swapping(p) ==
  l[p].pc = "swap" =>
    /\ l[p].m \in Mgrs /\ l[p].m # mgr
    /\ built[l[p].m].links = l[p].buf

BuiltInv ==
  /\ Locals
  /\ DOMAIN built = Mgrs /\ mgr \in Mgrs \cup {None}
  /\ ReportedIsBuilt
  /\ \A p \in All : Swapping(p)
  /\ \A p, q \in All : p # q /\ l[p].pc = "swap" /\ l[q].pc = "swap" => l[p].m # l[q].m

LEMMA BuiltInit ==
  ASSUME KInit PROVE BuiltInv
<1>1. Local(AtRest) /\ AtRest.pc = "idle"
  BY DEF Local, AtRest
<1>2. DOMAIN l = All /\ \A p \in All : l[p] = AtRest
  BY DEF KInit
<1>3. Locals /\ \A p \in All : l[p].pc = "idle"
  BY <1>1, <1>2 DEF Locals
<1>4. DOMAIN built = Mgrs /\ mgr = None
  BY DEF KInit
<1> QED
  BY <1>3, <1>4 DEF BuiltInv, Swapping, ReportedIsBuilt

\* A step that leaves the manager in use and what managers were built from alone.
LEMMA BuiltAside ==
  ASSUME BuiltInv, NEW p \in All, Moves(p), l'[p].pc # "swap",
         UNCHANGED <<mgr, links, built>>
  PROVE  BuiltInv'
<1>1. \A q \in All : l'[q].pc = "swap" => q # p /\ l'[q] = l[q]
  BY DEF Moves
<1>2. Locals' /\ DOMAIN built' = Mgrs /\ mgr' \in Mgrs \cup {None} /\ ReportedIsBuilt'
  BY DEF BuiltInv, Moves, ReportedIsBuilt
<1>3. \A q \in All : Swapping(q)'
  BY <1>1 DEF BuiltInv, Swapping
<1>4. \A q, r \in All : q # r /\ l'[q].pc = "swap" /\ l'[r].pc = "swap" => l'[q].m # l'[r].m
  BY <1>1 DEF BuiltInv
<1> QED
  BY <1>2, <1>3, <1>4 DEF BuiltInv

LEMMA BuildBuilt ==
  ASSUME BuiltInv, NEW p \in All, Build(p)
  PROVE  BuiltInv'
<1>1. PICK m \in Mgrs \ Reachable :
        /\ built' = [built EXCEPT ![m] = [links |-> l[p].buf, fw |-> fw]]
        /\ l' = [l EXCEPT ![p].m = m, ![p].pc = "swap"]
  BY DEF Build
<1>2. m # mgr /\ \A q \in All : m # l[q].m
  BY DEF Reachable
<1>3. UNCHANGED <<mgr, links>>
  BY DEF Build
<1>4. Moves(p)
  BY ServeMoves DEF BuiltInv, Serve
<1>5. l'[p].m = m /\ l'[p].buf = l[p].buf
  <2>1. Local(l[p])
    BY DEF BuiltInv, Locals
  <2> QED
    BY <1>1, <2>1 DEF BuiltInv, Locals, Local
<1>6. /\ DOMAIN built' = Mgrs /\ built'[m].links = l[p].buf
      /\ \A n \in Mgrs : n # m => built'[n] = built[n]
  BY <1>1 DEF BuiltInv
<1>7. ReportedIsBuilt'
  BY <1>2, <1>3, <1>6 DEF BuiltInv, ReportedIsBuilt
<1>8. \A q \in All : Swapping(q)'
  <2> SUFFICES ASSUME NEW q \in All, l'[q].pc = "swap"
               PROVE  /\ l'[q].m \in Mgrs /\ l'[q].m # mgr'
                      /\ built'[l'[q].m].links = l'[q].buf
    BY DEF Swapping
  <2>1. CASE q = p
    BY <1>1, <1>2, <1>3, <1>5, <1>6, <2>1
  <2>2. CASE q # p
    BY <1>2, <1>3, <1>4, <1>6, <2>2 DEF BuiltInv, Swapping, Moves
  <2> QED
    BY <2>1, <2>2
<1>9. \A q, r \in All : q # r /\ l'[q].pc = "swap" /\ l'[r].pc = "swap" => l'[q].m # l'[r].m
  BY <1>2, <1>4, <1>5 DEF BuiltInv, Moves
<1> QED
  BY <1>3, <1>4, <1>6, <1>7, <1>8, <1>9 DEF BuiltInv, Moves

LEMMA SwapBuilt ==
  ASSUME BuiltInv, NEW p \in All, Swap(p) \/ Clear(p)
  PROVE  BuiltInv'
<1>1. Moves(p) /\ l'[p].pc = "readSave" /\ UNCHANGED built
  BY GoMoves DEF BuiltInv, Swap, Clear
<1>2. \A q \in All : l'[q].pc = "swap" => q # p /\ l'[q] = l[q]
  BY <1>1 DEF Moves
<1>3. CASE Swap(p)
  <2>1. l[p].pc = "swap" /\ mgr' = l[p].m /\ links' = l[p].buf
    BY <1>3 DEF Swap
  <2>2. mgr' \in Mgrs \cup {None} /\ ReportedIsBuilt'
    BY <1>1, <2>1 DEF BuiltInv, Swapping, ReportedIsBuilt
  <2>3. \A q \in All : Swapping(q)'
    BY <1>1, <1>2, <2>1 DEF BuiltInv, Swapping
  <2> QED
    BY <1>1, <1>2, <2>2, <2>3 DEF BuiltInv, Moves
<1>4. CASE Clear(p)
  <2>1. mgr' = None
    BY <1>4 DEF Clear
  <2>2. \A q \in All : Swapping(q)'
    BY <1>1, <1>2, <2>1, KeySetConstantsOK DEF BuiltInv, Swapping
  <2> QED
    BY <1>1, <1>2, <2>1, <2>2 DEF BuiltInv, Moves, ReportedIsBuilt
<1> QED
  BY <1>3, <1>4

LEMMA ServeBuilt ==
  ASSUME BuiltInv, NEW p \in All, Serve(p)
  PROVE  BuiltInv'
<1>1. Moves(p) /\ (l'[p].pc = "swap" => Build(p))
  BY ServeMoves DEF BuiltInv
<1>2. CASE Thinks(p) \/ Edit(p)
  <2>1. UNCHANGED <<mgr, links, built>>
    BY <1>2, ThinksAside, EditAside DEF runtime
  <2>2. CASE Build(p)
    BY <2>2, BuildBuilt
  <2>3. CASE ~Build(p)
    BY <1>1, <2>1, <2>3, BuiltAside
  <2> QED
    BY <2>2, <2>3
<1>3. CASE Build(p)
  BY <1>3, BuildBuilt
<1>4. CASE Swap(p) \/ Clear(p)
  BY <1>4, SwapBuilt
<1>5. CASE ~Build(p) /\ (ShutOld(p) \/ ClearShut(p) \/ Start(p))
  <2>1. UNCHANGED <<mgr, links, built>>
    BY <1>5 DEF ShutOld, ClearShut, Start
  <2> QED
    BY <1>1, <1>5, <2>1, BuiltAside
<1> QED
  BY <1>2, <1>3, <1>4, <1>5 DEF Serve, Thinks, Edit

\* Main goes on after a start, and a restart forgets everything.
LEMMA RestartLocals ==
  ASSUME NEW auto, Restart(auto)
  PROVE  /\ Locals'
         /\ \A p \in All : l'[p].pc = IF p = Main THEN "startup" ELSE "idle"
         /\ l'[Main].op = "load" /\ l'[Main].buf = disk.manual
<1> DEFINE r == [AtRest EXCEPT !.op = "load", !.prev = auto, !.buf = disk.manual,
                               !.pc = "startup"]
<1>1. l' = [p \in All |-> IF p # Main THEN AtRest ELSE r]
  BY DEF Restart
<1>2. /\ Local(AtRest) /\ Local(r) /\ AtRest.pc = "idle" /\ r.pc = "startup" /\ r.op = "load"
      /\ r.buf = disk.manual
  BY DEF Local, AtRest
<1> HIDE DEF r
<1>3. DOMAIN l' = All /\ \A p \in All : l'[p] = IF p # Main THEN AtRest ELSE r
  BY <1>1
<1>4. Main \in All
  BY DEF All
<1> QED
  BY <1>2, <1>3, <1>4 DEF Locals

LEMMA BuiltStep ==
  ASSUME BuiltInv, [KNext]_kvars
  PROVE  BuiltInv'
<1>1. ASSUME NEW p \in Procs, NEW op \in DOMAIN First, Issue(p, op)
      PROVE  BuiltInv'
  <2>1. p \in All
    BY DEF All
  <2>2. Moves(p) /\ l'[p].pc # "swap" /\ UNCHANGED <<mgr, links, built>>
    BY <1>1, <2>1, IssueMoves DEF BuiltInv, runtime
  <2> QED
    BY <2>1, <2>2, BuiltAside
<1>2. ASSUME NEW p \in All, Serve(p) PROVE BuiltInv'
  BY <1>2, ServeBuilt
<1>3. CASE Startup
  <2>1. Main \in All
    BY DEF All
  <2>2. Moves(Main) /\ l'[Main].pc # "swap" /\ UNCHANGED <<mgr, links, built>>
    BY <1>3, <2>1, GoMoves DEF Startup, BuiltInv, runtime
  <2> QED
    BY <2>1, <2>2, BuiltAside
<1>4. ASSUME NEW auto, Restart(auto) PROVE BuiltInv'
  <2>1. mgr' = None /\ DOMAIN built' = Mgrs
    BY <1>4 DEF Restart
  <2> QED
    BY <1>4, <2>1, RestartLocals DEF BuiltInv, Swapping, ReportedIsBuilt
<1>5. CASE UNCHANGED kvars
  BY <1>5 DEF kvars, runtime, BuiltInv, Locals, Swapping, ReportedIsBuilt
<1> QED
  BY <1>1, <1>2, <1>3, <1>4, <1>5 DEF KNext

\* Whatever commands overlap, the links KEYS-GET reports are those the manager in use
\* was built from.
THEOREM ReportedLinksAreBuilt == KSpec => []ReportedIsBuilt
<1>1. KInit => BuiltInv
  BY BuiltInit
<1>2. BuiltInv /\ [KNext]_kvars => BuiltInv'
  BY BuiltStep
<1>3. BuiltInv => ReportedIsBuilt
  BY DEF BuiltInv
<1> QED
  BY <1>1, <1>2, <1>3, PTL DEF KSpec

-----------------------------------------------------------------------------
(* One command at a time. *)

OnlyOne == \A p, q \in All : Busy(p) /\ Busy(q) => p = q

AllOff == \A m \in Mgrs : mode[m] = "off"

\* The manager a command is about to stop or start is the one in use, and from the end
\* of the old manager to the start of the new one nothing runs.
AtMode(p) ==
  /\ l[p].pc \in {"shutOld", "clearShut", "start"} => l[p].m = mgr /\ mgr \in Mgrs
  /\ l[p].pc = "startup" => l[p].op = "load"
  /\ \/ l[p].pc \in {"build", "swap", "clear", "readSave", "writeSave"}
     \/ l[p].pc = "getMgr" /\ l[p].op \in Edits
     => AllOff

ModeInv ==
  /\ Locals /\ OnlyOne
  /\ DOMAIN mode = Mgrs /\ mgr \in Mgrs \cup {None}
  /\ \A m \in Mgrs : mode[m] # "off" => m = mgr
  /\ \A p \in All : AtMode(p)

LEMMA ModeInit ==
  ASSUME KInit PROVE ModeInv
<1>1. Local(AtRest) /\ AtRest.pc = "idle"
  BY DEF Local, AtRest
<1>2. DOMAIN l = All /\ \A p \in All : l[p] = AtRest
  BY DEF KInit
<1>3. Locals /\ \A p \in All : l[p].pc = "idle"
  BY <1>1, <1>2 DEF Locals
<1>4. DOMAIN mode = Mgrs /\ mgr = None /\ \A m \in Mgrs : mode[m] = "off"
  BY DEF KInit
<1> QED
  BY <1>3, <1>4 DEF ModeInv, OnlyOne, Busy, AtMode

\* The goroutine that moves is the only one that is busy.
LEMMA AloneMoves ==
  ASSUME ModeInv, NEW p \in All, Moves(p), Busy(p) \/ Settled
  PROVE  /\ Locals' /\ OnlyOne'
         /\ \A q \in All : q # p => l[q].pc = "idle" /\ l'[q].pc = "idle"
BY DEF ModeInv, OnlyOne, Settled, Busy, Moves

LEMMA ModeMoves ==
  ASSUME ModeInv, NEW p \in All, Moves(p), Busy(p) \/ Settled, AtMode(p)',
         DOMAIN mode' = Mgrs, mgr' \in Mgrs \cup {None},
         \A m \in Mgrs : mode'[m] # "off" => m = mgr'
  PROVE  ModeInv'
<1>1. \A q \in All : q # p => AtMode(q)'
  BY AloneMoves DEF AtMode
<1> QED
  BY <1>1, AloneMoves DEF ModeInv

\* A step that touches no manager.
LEMMA ModeAside ==
  ASSUME ModeInv, NEW p \in All, Moves(p), Busy(p) \/ Settled, AtMode(p)',
         UNCHANGED <<mgr, mode>>
  PROVE  ModeInv'
BY ModeMoves DEF ModeInv

LEMMA ThinksMode ==
  ASSUME ModeInv, NEW p \in All, Thinks(p)
  PROVE  ModeInv'
<1>1. Moves(p) /\ Busy(p)
  BY ServeMoves DEF ModeInv, Serve, Thinks
<1>2. UNCHANGED <<mgr, mode>>
  BY ThinksAside DEF runtime
<1>3. Local(l[p]) /\ Locals /\ AtMode(p) /\ (AllOff <=> AllOff') /\ (mgr = None => AllOff)
  BY <1>2, KeySetConstantsOK DEF ModeInv, Locals, AllOff
<1>4. SUFFICES AtMode(p)'
  BY <1>1, <1>2, ModeAside
<1>5. ASSUME l'[p].pc \in {"idle", "owner", "prev", "readManual", "setManual", "fetch", "append",
                           "merge", "writeSubs", "effective", "readOld", "clearRead"}
      PROVE  AtMode(p)'
  BY <1>5 DEF AtMode
<1>6. CASE CheckOwner(p) \/ CheckDuplicate(p)
  BY <1>3, <1>5, <1>6, GoMoves, ReturnMoves DEF CheckOwner, CheckDuplicate
<1>7. CASE ReadManual(p) \/ ReadSubs(p)
  BY <1>3, <1>5, <1>7 DEF Locals, Local, ReadManual, ReadSubs
<1>8. CASE ReadLinks(p)
  <2>1. ASSUME NEW k, l' = [l EXCEPT ![p].key = k, ![p].pc = "owner"] PROVE AtMode(p)'
    BY <1>3, <1>5, <2>1 DEF Locals, Local
  <2>2. ASSUME l' = [l EXCEPT ![p].buf = links, ![p].pc = "prev"] PROVE AtMode(p)'
    BY <1>3, <1>5, <2>2 DEF Locals, Local
  <2>3. ASSUME NEW res, Return(p, res) PROVE AtMode(p)'
    BY <1>3, <1>5, <2>3, ReturnMoves
  <2> QED
    BY <1>8, <2>1, <2>2, <2>3 DEF ReadLinks
<1>9. CASE ReadPrev(p)
  BY <1>3, <1>5, <1>9 DEF Locals, Local, ReadPrev
<1>10. CASE FetchNew(p)
  <2>1. ASSUME NEW f, l' = [l EXCEPT ![p].recs = <<[url |-> l[p].arg, links |-> f]>>,
                                     ![p].pc = "append"]
        PROVE  l'[p].pc = "append"
    BY <1>3, <2>1 DEF Locals, Local
  <2> QED
    BY <1>3, <1>5, <1>10, <2>1, ReturnMoves DEF FetchNew
<1>11. CASE CopySubs(p)
  <2>1. ASSUME l' = [l EXCEPT ![p].recs = subs, ![p].pc = "fetch"] PROVE l'[p].pc = "fetch"
    BY <1>3, <2>1 DEF Locals, Local
  <2> QED
    BY <1>3, <1>5, <1>11, <2>1, ReturnMoves DEF CopySubs
<1>12. CASE FetchAll(p)
  <2>1. PICK new, c : l' = [l EXCEPT ![p].recs = new, ![p].changed = c, ![p].pc = "merge"]
    BY <1>12 DEF FetchAll
  <2>2. l'[p].pc = "merge"
    BY <1>3, <2>1 DEF Locals, Local
  <2> QED
    BY <1>5, <2>2
<1>13. CASE ReadEffective(p)
  BY <1>3, <1>5, <1>13 DEF Locals, Local, ReadEffective
<1>14. CASE ReadOld(p)
  <2>1. l'[p].m = mgr /\ l'[p].pc = IF mgr = None THEN "build" ELSE "shutOld"
    BY <1>3, <1>14 DEF Locals, Local, ReadOld
  <2> QED
    BY <1>2, <1>3, <2>1 DEF AtMode, ModeInv
<1>15. CASE ClearRead(p)
  <2>1. CASE mgr = None
    <3>1. l'[p].pc \in {"idle", "clear"}
      BY <1>3, <1>15, <2>1, GoMoves, ReturnMoves DEF ClearRead
    <3> QED
      BY <1>3, <2>1, <3>1 DEF AtMode
  <2>2. CASE mgr # None
    <3>1. l'[p].m = mgr /\ l'[p].pc = "clearShut"
      BY <1>3, <1>15, <2>2 DEF Locals, Local, ClearRead
    <3> QED
      BY <1>2, <2>2, <3>1 DEF AtMode, ModeInv
  <2> QED
    BY <2>1, <2>2
<1>16. CASE ReadSave(p)
  <2>1. l'[p].pc = "writeSave" /\ l[p].pc = "readSave"
    BY <1>3, <1>16 DEF Locals, Local, ReadSave
  <2> QED
    BY <1>3, <2>1 DEF AtMode
<1>17. CASE GetManager(p)
  <2>1. CASE l[p].prev = "off" \/ mgr = None
    BY <1>3, <1>5, <1>17, <2>1, ReturnMoves DEF GetManager
  <2>2. CASE l[p].prev # "off" /\ mgr # None
    <3>1. l'[p].m = mgr /\ l'[p].pc = "start"
      BY <1>3, <1>17, <2>2 DEF Locals, Local, GetManager
    <3> QED
      BY <1>2, <2>2, <3>1 DEF AtMode, ModeInv
  <2> QED
    BY <2>1, <2>2
<1> QED
  BY <1>6, <1>7, <1>8, <1>9, <1>10, <1>11, <1>12, <1>13, <1>14, <1>15, <1>16, <1>17 DEF Thinks

LEMMA EditMode ==
  ASSUME ModeInv, NEW p \in All, Edit(p)
  PROVE  ModeInv'
<1>1. Moves(p) /\ Busy(p)
  BY ServeMoves DEF ModeInv, Serve, Edit
<1>2. UNCHANGED <<mgr, mode>>
  BY EditAside DEF runtime
<1>3. Local(l[p]) /\ Locals /\ AtMode(p) /\ (AllOff <=> AllOff')
  BY <1>2 DEF ModeInv, Locals, AllOff
<1>4. SUFFICES AtMode(p)'
  BY <1>1, <1>2, ModeAside
<1>5. ASSUME l'[p].pc \in {"idle", "effective", "prev", "readSubs", "fwSave"}
      PROVE  AtMode(p)'
  BY <1>5 DEF AtMode
<1>6. CASE SetManual(p) \/ AppendSub(p)
  BY <1>3, <1>5, <1>6, GoMoves DEF SetManual, AppendSub
<1>7. CASE DropSub(p)
  BY <1>3, <1>5, <1>7, GoMoves, ReturnMoves DEF DropSub
<1>8. CASE Merge(p)
  <2>1. Go(p, "readSubs")
    BY <1>8, Zenon DEF Merge
  <2> QED
    BY <1>3, <1>5, <2>1, GoMoves
<1>9. CASE WriteSubs(p) \/ SaveFirewall(p)
  BY <1>3, <1>5, <1>9, GoMoves, ReturnMoves DEF WriteSubs, SaveFirewall
<1>10. CASE EditFirewall(p)
  <2>1. ASSUME NEW v, l' = [l EXCEPT ![p].recs = v, ![p].pc = "fwSave"] PROVE l'[p].pc = "fwSave"
    BY <1>3, <2>1 DEF Locals, Local
  <2> QED
    BY <1>3, <1>5, <1>10, <2>1, ReturnMoves DEF EditFirewall
<1>11. CASE WriteSave(p)
  <2>1. l'[p].pc = "getMgr" /\ l[p].pc = "writeSave"
    BY <1>3, <1>11, GoMoves DEF WriteSave
  <2> QED
    BY <1>3, <2>1 DEF AtMode
<1> QED
  BY <1>6, <1>7, <1>8, <1>9, <1>10, <1>11 DEF Edit

LEMMA ShutMode ==
  ASSUME ModeInv, NEW p \in All, ShutOld(p) \/ ClearShut(p)
  PROVE  ModeInv'
<1>1. Moves(p) /\ Busy(p)
  BY ServeMoves DEF ModeInv, Serve
<1>2. Local(l[p]) /\ Locals /\ l[p].m = mgr /\ mgr \in Mgrs
  BY DEF ModeInv, Locals, AtMode, ShutOld, ClearShut
<1>3. UNCHANGED mgr /\ mode' = [mode EXCEPT ![mgr] = "off"]
  BY <1>2 DEF ShutOld, ClearShut
<1>4. DOMAIN mode' = Mgrs /\ AllOff'
  BY <1>2, <1>3 DEF ModeInv, AllOff
<1>5. l'[p].pc \in {"build", "idle", "clearRead", "clear"}
  <2>1. CASE ShutOld(p)
    BY <1>2, <2>1, GoMoves DEF ShutOld
  <2>2. CASE ClearShut(p)
    <3>1. ASSUME NEW res, Return(p, res) PROVE l'[p].pc = "idle"
      BY <1>2, <3>1, ReturnMoves
    <3>2. ASSUME l' = [l EXCEPT ![p].round = 2,
                                ![p].pc = IF l[p].round = 1 THEN "clearRead" ELSE "clear"]
          PROVE  l'[p].pc \in {"clearRead", "clear"}
      BY <1>2, <3>2 DEF Locals, Local
    <3> QED
      BY <2>2, <3>1, <3>2 DEF ClearShut
  <2> QED
    BY <2>1, <2>2
<1>6. AtMode(p)'
  BY <1>4, <1>5 DEF AtMode
<1> QED
  BY <1>1, <1>2, <1>3, <1>4, <1>6, ModeMoves DEF AllOff

LEMMA BuildMode ==
  ASSUME ModeInv, NEW p \in All, Build(p)
  PROVE  ModeInv' /\ l'[p].m \in Mgrs
<1>1. Moves(p) /\ Busy(p)
  BY ServeMoves DEF ModeInv, Serve
<1>2. Local(l[p]) /\ Locals /\ AllOff
  BY DEF ModeInv, Locals, AtMode, Build
<1>3. PICK m \in Mgrs : l' = [l EXCEPT ![p].m = m, ![p].pc = "swap"]
  BY DEF Build
<1>4. l'[p].pc = "swap" /\ l'[p].m = m
  BY <1>2, <1>3 DEF Locals, Local
<1>5. UNCHANGED <<mgr, mode>>
  BY DEF Build
<1>6. AtMode(p)'
  BY <1>2, <1>4, <1>5 DEF AtMode, AllOff
<1> QED
  BY <1>1, <1>4, <1>5, <1>6, ModeAside

LEMMA SwapMode ==
  ASSUME ModeInv, BuiltInv, NEW p \in All, Swap(p) \/ Clear(p)
  PROVE  ModeInv'
<1>1. Moves(p) /\ Busy(p)
  BY ServeMoves DEF ModeInv, Serve
<1>2. Locals /\ AllOff
  BY DEF ModeInv, AtMode, Swap, Clear
<1>3. mgr' \in Mgrs \cup {None}
  BY DEF BuiltInv, Swapping, Swap, Clear
<1>4. UNCHANGED mode /\ AllOff'
  BY <1>2 DEF Swap, Clear, AllOff
<1>5. l'[p].pc = "readSave"
  BY <1>2, GoMoves DEF Swap, Clear
<1>6. AtMode(p)'
  BY <1>4, <1>5 DEF AtMode
<1> QED
  BY <1>1, <1>3, <1>4, <1>6, ModeMoves DEF ModeInv, AllOff

LEMMA StartMode ==
  ASSUME ModeInv, NEW p \in All, Start(p)
  PROVE  ModeInv'
<1>1. Moves(p) /\ Busy(p)
  BY ServeMoves DEF ModeInv, Serve
<1>2. Local(l[p]) /\ Locals /\ l[p].m = mgr /\ mgr \in Mgrs
  BY DEF ModeInv, Locals, AtMode, Start
<1>3. UNCHANGED mgr /\ \E x : mode' = [mode EXCEPT ![mgr] = x]
  BY <1>2 DEF Start
<1>4. DOMAIN mode' = Mgrs /\ \A m \in Mgrs : mode'[m] # "off" => m = mgr
  BY <1>2, <1>3 DEF ModeInv
<1>5. \/ l'[p].pc \in {"idle", "clearRead"}
      \/ l'[p].pc = "getMgr" /\ l'[p].op = "load"
  <2>1. ASSUME NEW res, Return(p, res) PROVE l'[p].pc = "idle"
    BY <1>2, <2>1, ReturnMoves
  <2>2. ASSUME l' = [l EXCEPT ![p].op = "off", ![p].pc = "clearRead"] PROVE l'[p].pc = "clearRead"
    BY <1>2, <2>2 DEF Locals, Local
  <2>3. ASSUME l[p].op = "load", l' = [l EXCEPT ![p].prev = "proxy", ![p].pc = "getMgr"]
        PROVE  l'[p].pc = "getMgr" /\ l'[p].op = "load"
    BY <1>2, <2>3 DEF Locals, Local
  <2> QED
    BY <2>1, <2>2, <2>3 DEF Start
<1>6. AtMode(p)'
  BY <1>5 DEF AtMode, Edits
<1> QED
  BY <1>1, <1>2, <1>3, <1>4, <1>6, ModeMoves

LEMMA ServeMode ==
  ASSUME ModeInv, BuiltInv, NEW p \in All, Serve(p)
  PROVE  ModeInv'
BY ThinksMode, EditMode, ShutMode, BuildMode, SwapMode, StartMode DEF Serve, Thinks, Edit

LEMMA ModeStep ==
  ASSUME Serial = TRUE, ModeInv, BuiltInv, [KNext]_kvars
  PROVE  ModeInv'
<1>1. ASSUME NEW p \in Procs, NEW op \in DOMAIN First, Issue(p, op)
      PROVE  ModeInv'
  <2>1. p \in All
    BY DEF All
  <2>2. Moves(p) /\ Settled /\ UNCHANGED <<mgr, mode>>
    BY <1>1, <2>1, IssueMoves DEF ModeInv, runtime, MayBegin
  <2>3. AtMode(p)'
    BY <1>1, <2>1, IssueMoves DEF ModeInv, AtMode, Edits
  <2> QED
    BY <2>1, <2>2, <2>3, ModeAside
<1>2. ASSUME NEW p \in All, Serve(p) PROVE ModeInv'
  BY <1>2, ServeMode
<1>3. CASE Startup
  <2>1. Main \in All
    BY DEF All
  <2>2. /\ Moves(Main) /\ Busy(Main) /\ UNCHANGED <<mgr, mode>>
        /\ l'[Main].op = l[Main].op /\ l'[Main].pc \in {"setManual", "effective", "getMgr"}
    BY <1>3, <2>1, GoMoves DEF Startup, ModeInv, runtime, Busy
  <2>3. l[Main].op = "load"
    BY <1>3, <2>1 DEF ModeInv, AtMode, Startup
  <2>4. AtMode(Main)'
    BY <2>2, <2>3 DEF AtMode, Edits
  <2> QED
    BY <2>1, <2>2, <2>4, ModeAside
<1>4. ASSUME NEW auto, Restart(auto) PROVE ModeInv'
  <2>1. mgr' = None /\ DOMAIN mode' = Mgrs /\ \A m \in Mgrs : mode'[m] = "off"
    BY <1>4 DEF Restart
  <2> QED
    BY <1>4, <2>1, RestartLocals DEF ModeInv, OnlyOne, Busy, AtMode
<1>5. CASE UNCHANGED kvars
  BY <1>5 DEF kvars, runtime, ModeInv, Locals, OnlyOne, Busy, AtMode, AllOff
<1> QED
  BY <1>1, <1>2, <1>3, <1>4, <1>5 DEF KNext

\* The counters only count.
LEMMA Counters ==
  ASSUME starts \in Nat, faults \in Nat, [KNext]_kvars
  PROVE  /\ starts' \in Nat /\ faults' \in Nat /\ (faults' = 0 => faults = 0)
         /\ \A auto : Restart(auto) => starts' # starts
<1> USE DEF Fault
<1>1. ASSUME NEW p \in Procs, NEW op \in DOMAIN First, Issue(p, op)
      PROVE  UNCHANGED <<starts, faults>>
  BY <1>1 DEF Issue, Begin
<1>2. ASSUME NEW p \in All, Serve(p)
      PROVE  UNCHANGED starts /\ (UNCHANGED faults \/ faults' = faults + 1)
  <2>1. CASE Thinks(p)
    BY <2>1, ThinksAside
  <2>2. CASE Edit(p)
    <3>1. CASE SetManual(p) \/ AppendSub(p) \/ WriteSubs(p) \/ EditFirewall(p)
               \/ SaveFirewall(p) \/ WriteSave(p)
      BY <3>1 DEF SetManual, AppendSub, WriteSubs, EditFirewall, SaveFirewall, WriteSave
    <3>2. CASE DropSub(p)
      BY <3>2, Zenon DEF DropSub
    <3>3. CASE Merge(p)
      BY <3>3, Zenon DEF Merge
    <3> QED
      BY <2>2, <3>1, <3>2, <3>3 DEF Edit
  <2>3. CASE ShutOld(p) \/ Build(p) \/ Swap(p) \/ ClearShut(p) \/ Clear(p) \/ Start(p)
    BY <2>3 DEF ShutOld, Build, Swap, ClearShut, Clear, Start
  <2> QED
    BY <1>2, <2>1, <2>2, <2>3 DEF Serve, Thinks, Edit
<1>3. ASSUME Startup PROVE UNCHANGED <<starts, faults>>
  BY <1>3 DEF Startup
<1>4. ASSUME NEW auto, Restart(auto) PROVE starts' = starts + 1 /\ UNCHANGED faults
  BY <1>4 DEF Restart
<1>5. ASSUME UNCHANGED kvars PROVE UNCHANGED <<starts, faults>>
  BY <1>5 DEF kvars
<1>6. \A auto : Restart(auto) => starts' # starts
  BY <1>4
<1> QED
  BY <1>1, <1>2, <1>3, <1>4, <1>5, <1>6 DEF KNext

SerialInv == ModeInv /\ BuiltInv /\ starts \in Nat /\ faults \in Nat

LEMMA SerialInit ==
  ASSUME KInit PROVE SerialInv
BY ModeInit, BuiltInit DEF SerialInv, KInit

LEMMA SerialStep ==
  ASSUME Serial = TRUE, SerialInv, [KNext]_kvars
  PROVE  SerialInv'
BY ModeStep, BuiltStep, Counters DEF SerialInv

\* With one command at a time, whenever none is being served no manager but the one in
\* use has its cores up.
THEOREM NoRuntimeIsOrphaned ==
  ASSUME Serial = TRUE PROVE KSpec => []NoOrphanRuntime
<1>1. KInit => SerialInv
  BY SerialInit
<1>2. SerialInv /\ [KNext]_kvars => SerialInv'
  BY SerialStep
<1>3. SerialInv => NoOrphanRuntime
  BY DEF SerialInv, ModeInv, NoOrphanRuntime
<1> QED
  BY <1>1, <1>2, <1>3, PTL DEF KSpec

\* An edit that reports success ends in the mode that was read before the old manager
\* was shut down.
LEMMA KeepsMode ==
  ASSUME SerialInv, [KNext]_kvars, NEW p \in Procs,
         l[p].op \in Edits, l[p].pc \in {"writeSave", "getMgr", "start"},
         l'[p].pc = "idle", l'[p].res = "ok", starts' = starts
  PROVE  StateLabel' = l[p].prev
<1>0. p \in All /\ Main \in All /\ p # Main /\ Locals
  BY KeySetConstantsOK DEF All, SerialInv, BuiltInv
<1>1. ASSUME NEW q \in Procs, NEW op \in DOMAIN First, Issue(q, op) PROVE FALSE
  <2>1. q \in All
    BY DEF All
  <2> QED
    BY <1>0, <1>1, <2>1, IssueMoves DEF Moves, Busy
<1>2. ASSUME NEW q \in All, Serve(q) PROVE StateLabel' = l[p].prev
  <2>1. q = p
    BY <1>0, <1>2, ServeMoves DEF Moves
  <2>2. WriteSave(p) \/ GetManager(p) \/ Start(p)
    <3>1. Merge(p) => l[p].pc = "merge"
      BY Zenon DEF Merge
    <3>2. DropSub(p) => l[p].pc = "drop"
      BY Zenon DEF DropSub
    <3> QED
      BY <1>2, <2>1, <3>1, <3>2
         DEF Serve, ReadLinks, CheckOwner, ReadManual, SetManual, ReadPrev, CheckDuplicate,
             FetchNew, AppendSub, CopySubs, FetchAll, ReadSubs, WriteSubs, EditFirewall,
             SaveFirewall, ReadEffective, ReadOld, ShutOld, Build, Swap, ClearRead, ClearShut,
             Clear, ReadSave
  <2>3. CASE WriteSave(p)
    BY <1>0, <2>3, GoMoves DEF WriteSave
  <2>4. CASE GetManager(p)
    <3>1. CASE l[p].prev = "off"
      <4>1. AllOff /\ UNCHANGED <<mgr, mode>> /\ mgr \in Mgrs \cup {None}
        BY <1>0, <2>4 DEF GetManager, SerialInv, ModeInv, AtMode, runtime
      <4> QED
        BY <3>1, <4>1 DEF AllOff, StateLabel
    <3>2. CASE l[p].prev # "off" /\ mgr = None
      BY <1>0, <2>4, <3>2, ReturnMoves DEF GetManager
    <3>3. CASE l[p].prev # "off" /\ mgr # None
      <4>1. Local(l[p]) /\ l' = [l EXCEPT ![p].m = mgr, ![p].pc = "start"]
        BY <1>0, <2>4, <3>3 DEF GetManager, Locals
      <4> QED
        BY <1>0, <4>1 DEF Locals, Local
    <3> QED
      BY <3>1, <3>2, <3>3
  <2>5. CASE Start(p)
    <3>1. Local(l[p]) /\ l[p].m = mgr /\ mgr \in Mgrs /\ DOMAIN mode = Mgrs /\ UNCHANGED mgr
      BY <1>0, <2>5 DEF Start, SerialInv, ModeInv, AtMode, Locals
    <3>2. PICK o \in Outcomes(l[p].prev, mgr) :
            mode' = [mode EXCEPT ![mgr] = o[2]] /\ (Return(p, o[1]) \/ l[p].op = "load")
      BY <2>5, <3>1 DEF Start
    <3>3. o[1] = "ok"
      BY <1>0, <3>2, ReturnMoves DEF Edits
    <3>4. o[2] = l[p].prev
      BY <3>2, <3>3 DEF Outcomes
    <3> QED
      BY <3>1, <3>2, <3>4, KeySetConstantsOK DEF StateLabel
  <2> QED
    BY <2>2, <2>3, <2>4, <2>5
<1>3. CASE Startup
  BY <1>0, <1>3, GoMoves DEF Startup, Moves
<1>4. ASSUME NEW auto, Restart(auto) PROVE FALSE
  BY <1>4, Counters DEF SerialInv
<1>5. CASE UNCHANGED kvars
  BY <1>5 DEF kvars
<1> QED
  BY <1>1, <1>2, <1>3, <1>4, <1>5 DEF KNext

\* With one command at a time, an edit that reports success leaves the runtime in the
\* mode it had before.
THEOREM EditsKeepTheMode ==
  ASSUME Serial = TRUE PROVE KSpec => EditKeepsMode
<1>1. KInit => SerialInv
  BY SerialInit
<1>2. SerialInv /\ [KNext]_kvars => SerialInv'
  BY SerialStep
<1>3. SerialInv /\ [KNext]_kvars =>
        [\A p \in Procs :
           (/\ l[p].op \in Edits /\ l[p].pc \in {"writeSave", "getMgr", "start"}
            /\ l'[p].pc = "idle" /\ l'[p].res = "ok" /\ starts' = starts)
             => StateLabel' = l[p].prev]_kvars
  BY KeepsMode
<1> QED
  BY <1>1, <1>2, <1>3, PTL DEF KSpec, EditKeepsMode

-----------------------------------------------------------------------------
(* The files follow the inputs, one command at a time. *)

\* Where a step that only thinks leads.
LEMMA ThinksLeads ==
  ASSUME Locals, NEW p \in All, Thinks(p)
  PROVE  \/ /\ l'[p].pc = "idle"
            /\ \/ l[p].pc \in {"links", "owner", "dup", "fetch", "copy", "getMgr"}
               \/ l[p].pc = "clearRead" /\ l[p].op = "off"
         \/ /\ l'[p].op = l[p].op
            /\ \/ l[p].pc = "links" /\ l'[p].pc \in {"prev", "owner"}
               \/ l[p].pc = "owner" /\ l'[p].pc = "readManual"
               \/ l[p].pc = "readManual" /\ l'[p].pc = "setManual"
               \/ l[p].pc = "prev" /\ l[p].op = "addLink" /\ l'[p].pc = "readManual"
               \/ l[p].pc = "prev" /\ l[p].op = "settings" /\ l'[p].pc = "setManual"
               \/ l[p].pc = "prev" /\ l'[p].pc = "effective"
               \/ l[p].pc \in {"dup", "copy"} /\ l'[p].pc = "fetch"
               \/ l[p].pc = "fetch" /\ l'[p].pc \in {"append", "merge"}
               \/ l[p].pc = "readSubs" /\ l'[p].pc = "writeSubs" /\ l'[p].recs = subs
               \/ l[p].pc = "effective" /\ l'[p].pc \in {"clearRead", "readOld"}
               \/ l[p].pc = "readOld" /\ l'[p].pc \in {"build", "shutOld"}
               \/ l[p].pc = "clearRead" /\ l'[p].pc = "clearShut"
               \/ l[p].pc = "clearRead" /\ l[p].op # "off" /\ l'[p].pc = "clear"
               \/ l[p].pc = "readSave" /\ l'[p].pc = "writeSave" /\ l'[p].buf = manual
               \/ l[p].pc = "getMgr" /\ l'[p].pc = "start"
<1>0. Local(l[p])
  BY DEF Locals
<1>1. CASE ReadLinks(p)
  <2>1. ASSUME NEW k, l' = [l EXCEPT ![p].key = k, ![p].pc = "owner"]
        PROVE  l'[p].pc = "owner" /\ l'[p].op = l[p].op
    BY <1>0, <2>1 DEF Locals, Local
  <2>2. ASSUME l' = [l EXCEPT ![p].buf = links, ![p].pc = "prev"]
        PROVE  l'[p].pc = "prev" /\ l'[p].op = l[p].op
    BY <1>0, <2>2 DEF Locals, Local
  <2> QED
    BY <1>1, <2>1, <2>2, ReturnMoves DEF ReadLinks
<1>2. CASE CheckOwner(p) \/ CheckDuplicate(p)
  BY <1>2, GoMoves, ReturnMoves DEF CheckOwner, CheckDuplicate
<1>3. CASE ReadManual(p) \/ ReadSubs(p) \/ ReadSave(p) \/ ReadOld(p)
  BY <1>0, <1>3 DEF Locals, Local, ReadManual, ReadSubs, ReadSave, ReadOld
<1>4. CASE ReadPrev(p)
  BY <1>0, <1>4 DEF Locals, Local, ReadPrev
<1>5. CASE FetchNew(p)
  <2>1. ASSUME NEW f, l' = [l EXCEPT ![p].recs = <<[url |-> l[p].arg, links |-> f]>>,
                                     ![p].pc = "append"]
        PROVE  l'[p].pc = "append" /\ l'[p].op = l[p].op
    BY <1>0, <2>1 DEF Locals, Local
  <2> QED
    BY <1>5, <2>1, ReturnMoves DEF FetchNew
<1>6. CASE CopySubs(p)
  <2>1. ASSUME l' = [l EXCEPT ![p].recs = subs, ![p].pc = "fetch"]
        PROVE  l'[p].pc = "fetch" /\ l'[p].op = l[p].op
    BY <1>0, <2>1 DEF Locals, Local
  <2> QED
    BY <1>6, <2>1, ReturnMoves DEF CopySubs
<1>7. CASE FetchAll(p)
  <2>1. PICK new, c : l' = [l EXCEPT ![p].recs = new, ![p].changed = c, ![p].pc = "merge"]
    BY <1>7 DEF FetchAll
  <2>2. l'[p].pc = "merge" /\ l'[p].op = l[p].op
    BY <1>0, <2>1 DEF Locals, Local
  <2> QED
    BY <1>7, <2>2 DEF FetchAll
<1>8. CASE ReadEffective(p)
  BY <1>0, <1>8 DEF Locals, Local, ReadEffective
<1>9. CASE ClearRead(p) \/ GetManager(p)
  <2>1. ASSUME NEW m, NEW label, l' = [l EXCEPT ![p].m = m, ![p].pc = label]
        PROVE  l'[p].pc = label /\ l'[p].op = l[p].op
    BY <1>0, <2>1 DEF Locals, Local
  <2> QED
    BY <1>9, <2>1, GoMoves, ReturnMoves DEF ClearRead, GetManager
<1> QED
  BY <1>1, <1>2, <1>3, <1>4, <1>5, <1>6, <1>7, <1>8, <1>9 DEF Thinks

\* The commands that change the manual keys, and where they are not yet saved.
ManualOps == {"addLink", "deleteLink", "renameLink", "settings"}

Unsaved(p) ==
  /\ l[p].op \in ManualOps
  /\ l[p].pc \in {"prev", "readManual", "setManual", "effective", "readOld", "shutOld", "build",
                  "swap", "clearRead", "clearShut", "clear", "readSave"}

OpAt(p) ==
  /\ l[p].pc \in {"links", "owner", "readManual"} => l[p].op \in ManualOps
  /\ l[p].pc = "setManual" => l[p].op \in ManualOps \cup {"load"}

\* What the files hold when p is the only goroutine that may be serving.
SavedAt(p) ==
  /\ IF l[p].pc = "fwSave" THEN l[p].recs = fw ELSE disk.fw = fw
  /\ CASE l[p].pc = "readSubs"  -> TRUE
       [] l[p].pc = "writeSubs" -> l[p].recs = subs
       [] OTHER                 -> disk.subs = subs
  /\ l[p].pc = "startup" => manual = <<>>
  /\ l[p].pc = "startup" \/ (l[p].pc = "setManual" /\ l[p].op = "load")
       => l[p].buf = disk.manual
  /\ CASE l[p].pc = "writeSave" -> l[p].buf = manual
       [] Unsaved(p) \/ l[p].pc = "startup" \/ (l[p].pc = "setManual" /\ l[p].op = "load")
            -> TRUE
       [] OTHER -> disk.manual = manual

Alone(p) == \A q \in All : q # p => ~Busy(q)

SavedInv ==
  /\ disk \in [manual : {disk.manual}, subs : {disk.subs}, fw : {disk.fw}]
  /\ \A p \in All : OpAt(p)
  /\ faults = 0 => \A p \in All : Alone(p) => SavedAt(p)

LEMMA SavedInit ==
  ASSUME KInit PROVE SavedInv
<1>1. AtRest.pc = "idle"
  BY DEF AtRest
<1>2. \A p \in All : l[p].pc = "idle"
  BY <1>1 DEF KInit
<1>3. disk = [manual |-> manual, subs |-> subs, fw |-> fw]
  BY DEF KInit
<1>4. /\ disk \in [manual : {disk.manual}, subs : {disk.subs}, fw : {disk.fw}]
      /\ disk.manual = manual /\ disk.subs = subs /\ disk.fw = fw
  BY <1>3
<1> HIDE DEF KInit
<1> QED
  BY <1>2, <1>4 DEF SavedInv, OpAt, SavedAt, Unsaved

\* Only the goroutine that moves has something new to show.
LEMMA SavedMoves ==
  ASSUME SerialInv, SavedInv, NEW p \in All, Moves(p), Busy(p) \/ Settled, OpAt(p)',
         disk' \in [manual : {disk'.manual}, subs : {disk'.subs}, fw : {disk'.fw}],
         faults' = 0 => faults = 0,
         faults' = 0 /\ SavedAt(p) => SavedAt(p)'
  PROVE  SavedInv'
<1>1. /\ Locals' /\ OnlyOne'
      /\ \A q \in All : q # p => l[q].pc = "idle" /\ l'[q].pc = "idle"
  BY AloneMoves DEF SerialInv
<1>2. \A q \in All : OpAt(q)'
  BY <1>1 DEF OpAt
<1>3. ASSUME faults' = 0 PROVE SavedAt(p)'
  BY <1>1, <1>3 DEF SavedInv, Alone, Busy
<1>4. ASSUME faults' = 0, NEW q \in All, Alone(q)' PROVE SavedAt(q)'
  <2>1. CASE q = p
    BY <1>3, <1>4, <2>1
  <2>2. CASE q # p
    <3>1. l'[q].pc = "idle" /\ l'[p].pc = "idle"
      BY <1>1, <1>4, <2>2 DEF Alone, Busy
    <3>2. SavedAt(p)'
      BY <1>3, <1>4
    <3> QED
      BY <3>1, <3>2 DEF SavedAt, Unsaved
  <2> QED
    BY <2>1, <2>2
<1> QED
  BY <1>2, <1>4 DEF SavedInv

LEMMA ThinksSaved ==
  ASSUME SerialInv, SavedInv, NEW p \in All, Thinks(p)
  PROVE  SavedInv'
<1>1. Moves(p) /\ Busy(p) /\ Locals
  BY ServeMoves DEF SerialInv, ModeInv, Serve, Thinks
<1>2. UNCHANGED <<manual, subs, fw, disk, faults>>
  BY ThinksAside DEF inputs
<1>3. OpAt(p)
  BY DEF SavedInv
<1>4. OpAt(p)'
  BY <1>1, <1>3, ThinksLeads DEF OpAt, ManualOps
<1>5. SavedAt(p) => SavedAt(p)'
  BY <1>1, <1>2, <1>3, ThinksLeads DEF SavedAt, Unsaved, ManualOps, OpAt
<1> QED
  BY <1>1, <1>2, <1>4, <1>5, SavedMoves DEF SavedInv

\* What a write leaves in the files.
LEMMA Written ==
  ASSUME disk \in [manual : {disk.manual}, subs : {disk.subs}, fw : {disk.fw}], NEW v
  PROVE  /\ \A d : d = [disk EXCEPT !.manual = v] =>
              /\ d \in [manual : {d.manual}, subs : {d.subs}, fw : {d.fw}]
              /\ d.manual = v /\ d.subs = disk.subs /\ d.fw = disk.fw
         /\ \A d : d = [disk EXCEPT !.subs = v] =>
              /\ d \in [manual : {d.manual}, subs : {d.subs}, fw : {d.fw}]
              /\ d.manual = disk.manual /\ d.subs = v /\ d.fw = disk.fw
         /\ \A d : d = [disk EXCEPT !.fw = v] =>
              /\ d \in [manual : {d.manual}, subs : {d.subs}, fw : {d.fw}]
              /\ d.manual = disk.manual /\ d.subs = disk.subs /\ d.fw = v
OBVIOUS

LEMMA EditSaved ==
  ASSUME SerialInv, SavedInv, NEW p \in All, Edit(p), faults' = 0 => faults = 0
  PROVE  SavedInv'
<1>1. Moves(p) /\ Busy(p) /\ Locals
  BY ServeMoves DEF SerialInv, ModeInv, Serve, Edit
<1>2. /\ OpAt(p) /\ disk \in [manual : {disk.manual}, subs : {disk.subs}, fw : {disk.fw}]
      /\ Local(l[p])
  BY <1>1 DEF SavedInv, Locals
<1>3. CASE SetManual(p)
  <2>1. /\ l[p].pc = "setManual" /\ l'[p].pc \in {"effective", "prev"} /\ l'[p].op = l[p].op
        /\ UNCHANGED <<subs, fw, disk, faults>> /\ manual' = l[p].buf
    BY <1>1, <1>3, GoMoves DEF SetManual
  <2>2. OpAt(p)'
    BY <2>1 DEF OpAt
  <2>3. SavedAt(p) => SavedAt(p)'
    BY <1>2, <2>1 DEF SavedAt, Unsaved, ManualOps, OpAt
  <2> QED
    BY <1>1, <1>2, <2>1, <2>2, <2>3, SavedMoves
<1>4. CASE AppendSub(p) \/ DropSub(p) \/ Merge(p)
  <2>1. /\ l[p].pc \in {"append", "drop", "merge"}
        /\ \/ l'[p].pc = "readSubs"
           \/ l'[p].pc = "idle" /\ UNCHANGED subs
        /\ UNCHANGED <<manual, fw, disk, faults>>
    <3>1. CASE AppendSub(p)
      BY <1>1, <3>1, GoMoves DEF AppendSub
    <3>2. CASE DropSub(p)
      <4>1. /\ l[p].pc = "drop" /\ UNCHANGED <<manual, fw, disk, faults>>
            /\ Go(p, "readSubs") \/ (Return(p, "err") /\ UNCHANGED subs)
        BY <3>2, Zenon DEF DropSub
      <4> QED
        BY <1>1, <4>1, GoMoves, ReturnMoves
    <3>3. CASE Merge(p)
      <4>1. l[p].pc = "merge" /\ UNCHANGED <<manual, fw, disk, faults>> /\ Go(p, "readSubs")
        BY <3>3, Zenon DEF Merge
      <4> QED
        BY <1>1, <4>1, GoMoves
    <3> QED
      BY <1>4, <3>1, <3>2, <3>3
  <2>2. OpAt(p)'
    BY <2>1 DEF OpAt
  <2>3. SavedAt(p) => SavedAt(p)'
    BY <2>1 DEF SavedAt, Unsaved
  <2> QED
    BY <1>1, <1>2, <2>1, <2>2, <2>3, SavedMoves
<1>5. CASE WriteSubs(p)
  <2>1. l[p].pc = "writeSubs" /\ l'[p].pc \in {"idle", "prev"} /\ UNCHANGED <<manual, subs, fw>>
    BY <1>1, <1>5, GoMoves, ReturnMoves DEF WriteSubs, inputs
  <2>2. OpAt(p)'
    BY <2>1 DEF OpAt
  <2>3. CASE disk' = [disk EXCEPT !.subs = l[p].recs]
    <3>1. /\ disk' \in [manual : {disk'.manual}, subs : {disk'.subs}, fw : {disk'.fw}]
          /\ disk'.manual = disk.manual /\ disk'.subs = l[p].recs /\ disk'.fw = disk.fw
      BY <1>2, <2>3, Written
    <3>2. SavedAt(p) => SavedAt(p)'
      BY <2>1, <3>1 DEF SavedAt, Unsaved
    <3> QED
      BY <1>1, <2>2, <3>1, <3>2, SavedMoves
  <2>4. CASE Fault /\ UNCHANGED disk
    <3>1. faults' # 0
      BY <2>4 DEF Fault, SerialInv
    <3> QED
      BY <1>1, <1>2, <2>2, <2>4, <3>1, SavedMoves
  <2> QED
    BY <1>5, <2>3, <2>4 DEF WriteSubs
<1>6. CASE EditFirewall(p)
  <2>1. /\ l[p].pc = "fwEdit" /\ UNCHANGED <<manual, subs, disk, faults>>
        /\ \/ l'[p].pc = "fwSave" /\ l'[p].recs = fw'
           \/ l'[p].pc = "idle" /\ UNCHANGED fw
    <3>1. ASSUME NEW v, l' = [l EXCEPT ![p].recs = v, ![p].pc = "fwSave"]
          PROVE  l'[p].pc = "fwSave" /\ l'[p].recs = v
      BY <1>1, <1>2, <3>1 DEF Locals, Local
    <3> QED
      BY <1>1, <1>6, <3>1, ReturnMoves DEF EditFirewall
  <2>2. OpAt(p)'
    BY <2>1 DEF OpAt
  <2>3. SavedAt(p) => SavedAt(p)'
    BY <2>1 DEF SavedAt, Unsaved
  <2> QED
    BY <1>1, <1>2, <2>1, <2>2, <2>3, SavedMoves
<1>7. CASE SaveFirewall(p)
  <2>1. l[p].pc = "fwSave" /\ l'[p].pc \in {"idle", "prev"} /\ UNCHANGED <<manual, subs, fw>>
    BY <1>1, <1>7, GoMoves, ReturnMoves DEF SaveFirewall, inputs
  <2>2. OpAt(p)'
    BY <2>1 DEF OpAt
  <2>3. CASE disk' = [disk EXCEPT !.fw = l[p].recs]
    <3>1. /\ disk' \in [manual : {disk'.manual}, subs : {disk'.subs}, fw : {disk'.fw}]
          /\ disk'.manual = disk.manual /\ disk'.subs = disk.subs /\ disk'.fw = l[p].recs
      BY <1>2, <2>3, Written
    <3>2. SavedAt(p) => SavedAt(p)'
      BY <2>1, <3>1 DEF SavedAt, Unsaved
    <3> QED
      BY <1>1, <2>2, <3>1, <3>2, SavedMoves
  <2>4. CASE Fault /\ UNCHANGED disk
    <3>1. faults' # 0
      BY <2>4 DEF Fault, SerialInv
    <3> QED
      BY <1>1, <1>2, <2>2, <2>4, <3>1, SavedMoves
  <2> QED
    BY <1>7, <2>3, <2>4 DEF SaveFirewall
<1>8. CASE WriteSave(p)
  <2>1. l[p].pc = "writeSave" /\ l'[p].pc = "getMgr" /\ UNCHANGED <<manual, subs, fw>>
    BY <1>1, <1>8, GoMoves DEF WriteSave, inputs
  <2>2. OpAt(p)'
    BY <2>1 DEF OpAt
  <2>3. CASE disk' = [disk EXCEPT !.manual = l[p].buf]
    <3>1. /\ disk' \in [manual : {disk'.manual}, subs : {disk'.subs}, fw : {disk'.fw}]
          /\ disk'.manual = l[p].buf /\ disk'.subs = disk.subs /\ disk'.fw = disk.fw
      BY <1>2, <2>3, Written
    <3>2. SavedAt(p) => SavedAt(p)'
      BY <2>1, <3>1 DEF SavedAt, Unsaved
    <3> QED
      BY <1>1, <2>2, <3>1, <3>2, SavedMoves
  <2>4. CASE Fault /\ UNCHANGED disk
    <3>1. faults' # 0
      BY <2>4 DEF Fault, SerialInv
    <3> QED
      BY <1>1, <1>2, <2>2, <2>4, <3>1, SavedMoves
  <2> QED
    BY <1>8, <2>3, <2>4 DEF WriteSave
<1> QED
  BY <1>3, <1>4, <1>5, <1>6, <1>7, <1>8 DEF Edit

\* The steps that work on managers leave inputs and files alone.
LEMMA RuntimeSaved ==
  ASSUME SerialInv, SavedInv, NEW p \in All,
         ShutOld(p) \/ Build(p) \/ Swap(p) \/ ClearShut(p) \/ Clear(p) \/ Start(p)
  PROVE  SavedInv'
<1>1. Moves(p) /\ Busy(p) /\ Locals
  BY ServeMoves DEF SerialInv, ModeInv, Serve
<1>2. UNCHANGED <<manual, subs, fw, disk>>
  BY DEF ShutOld, Build, Swap, ClearShut, Clear, Start, inputs
<1>3. /\ OpAt(p) /\ disk \in [manual : {disk.manual}, subs : {disk.subs}, fw : {disk.fw}]
      /\ Local(l[p])
  BY <1>1 DEF SavedInv, Locals
<1>4. \/ /\ UNCHANGED faults
         /\ \/ /\ l'[p].op = l[p].op
               /\ l[p].pc \in {"shutOld", "build", "swap", "clearShut", "clear"}
               /\ l'[p].pc \in {"build", "swap", "clearRead", "clear", "readSave"}
            \/ l[p].pc = "clearShut" /\ l[p].op = "off" /\ l'[p].pc = "idle"
            \/ /\ l[p].pc = "start"
               /\ \/ l'[p].pc = "idle"
                  \/ l'[p].pc = "clearRead" /\ l'[p].op = "off"
                  \/ l'[p].pc = "getMgr"
      \/ faults' = faults + 1 /\ l'[p].pc = "idle"
  <2>1. CASE ShutOld(p) \/ Swap(p) \/ Clear(p)
    BY <1>1, <2>1, GoMoves DEF ShutOld, Swap, Clear
  <2>2. CASE Build(p)
    <3>1. PICK m : l' = [l EXCEPT ![p].m = m, ![p].pc = "swap"]
      BY <2>2 DEF Build
    <3>2. l'[p].pc = "swap" /\ l'[p].op = l[p].op
      BY <1>1, <1>3, <3>1 DEF Locals, Local
    <3> QED
      BY <2>2, <3>2 DEF Build
  <2>3. CASE ClearShut(p)
    <3>1. ASSUME l' = [l EXCEPT ![p].round = 2,
                                ![p].pc = IF l[p].round = 1 THEN "clearRead" ELSE "clear"]
          PROVE  l'[p].pc \in {"clearRead", "clear"} /\ l'[p].op = l[p].op
      BY <1>1, <1>3, <3>1 DEF Locals, Local
    <3> QED
      BY <1>1, <2>3, <3>1, ReturnMoves DEF ClearShut, Fault
  <2>4. CASE Start(p)
    <3>1. ASSUME l' = [l EXCEPT ![p].op = "off", ![p].pc = "clearRead"]
          PROVE  l'[p].pc = "clearRead" /\ l'[p].op = "off"
      BY <1>1, <1>3, <3>1 DEF Locals, Local
    <3>2. ASSUME l' = [l EXCEPT ![p].prev = "proxy", ![p].pc = "getMgr"]
          PROVE  l'[p].pc = "getMgr"
      BY <1>1, <1>3, <3>2 DEF Locals, Local
    <3> QED
      BY <1>1, <2>4, <3>1, <3>2, ReturnMoves DEF Start
  <2> QED
    BY <2>1, <2>2, <2>3, <2>4
<1>5. OpAt(p)'
  BY <1>4 DEF OpAt
<1>6. (faults' = 0 => faults = 0) /\ (faults' = 0 /\ SavedAt(p) => SavedAt(p)')
  <2>1. CASE faults' = faults + 1
    BY <2>1 DEF SerialInv
  <2>2. CASE UNCHANGED faults
    BY <1>2, <1>4, <2>2 DEF SavedAt, Unsaved, ManualOps, SerialInv
  <2> QED
    BY <1>4, <2>1, <2>2
<1> QED
  BY <1>1, <1>2, <1>3, <1>5, <1>6, SavedMoves

LEMMA SavedStep ==
  ASSUME Serial = TRUE, SerialInv, SavedInv, [KNext]_kvars
  PROVE  SavedInv'
<1>0. faults' = 0 => faults = 0
  BY Counters DEF SerialInv
<1>1. ASSUME NEW p \in Procs, NEW op \in DOMAIN First, Issue(p, op)
      PROVE  SavedInv'
  <2>1. p \in All /\ Locals
    BY DEF All, SerialInv, ModeInv
  <2>2. Moves(p) /\ Settled /\ ~Busy(p) /\ UNCHANGED <<manual, subs, fw, disk, faults>>
    BY <1>1, <2>1, IssueMoves DEF inputs, MayBegin
  <2>3. OpAt(p)'
    BY <1>1, <2>1, IssueMoves DEF OpAt, ManualOps
  <2>4. SavedAt(p) => SavedAt(p)'
    BY <1>1, <2>1, <2>2, IssueMoves DEF SavedAt, Unsaved, ManualOps, Busy
  <2> QED
    BY <2>1, <2>2, <2>3, <2>4, SavedMoves DEF SavedInv
<1>2. ASSUME NEW p \in All, Serve(p) PROVE SavedInv'
  BY <1>0, <1>2, ThinksSaved, EditSaved, RuntimeSaved DEF Serve, Thinks, Edit
<1>3. CASE Startup
  <2>1. Main \in All /\ Locals
    BY DEF All, SerialInv, ModeInv
  <2>2. /\ Moves(Main) /\ Busy(Main) /\ UNCHANGED <<manual, subs, fw, disk, faults>>
        /\ l[Main].pc = "startup" /\ l'[Main].op = l[Main].op /\ l'[Main].buf = l[Main].buf
        /\ \/ l'[Main].pc = "setManual"
           \/ l[Main].buf = <<>> /\ l'[Main].pc \in {"effective", "getMgr"}
    BY <1>3, <2>1, GoMoves DEF Startup, inputs, Busy
  <2>3. l[Main].op = "load"
    BY <2>1, <2>2 DEF SerialInv, ModeInv, AtMode
  <2>4. OpAt(Main)'
    BY <2>2, <2>3 DEF OpAt
  <2>5. SavedAt(Main) => SavedAt(Main)'
    BY <2>2, <2>3 DEF SavedAt, Unsaved, ManualOps
  <2> QED
    BY <2>1, <2>2, <2>4, <2>5, SavedMoves DEF SavedInv
<1>4. ASSUME NEW auto, Restart(auto) PROVE SavedInv'
  <2>1. Main \in All
    BY DEF All
  <2>2. UNCHANGED <<disk, faults>> /\ subs' = disk.subs /\ fw' = disk.fw /\ manual' = <<>>
    BY <1>4 DEF Restart
  <2>3. /\ \A p \in All : l'[p].pc = IF p = Main THEN "startup" ELSE "idle"
        /\ l'[Main].op = "load" /\ l'[Main].buf = disk.manual
    BY <1>4, RestartLocals
  <2>4. \A p \in All : OpAt(p)'
    BY <2>3 DEF OpAt
  <2>5. SavedAt(Main)'
    BY <2>1, <2>2, <2>3 DEF SavedAt, Unsaved
  <2>6. \A p \in All : Alone(p)' => p = Main
    BY <2>1, <2>3 DEF Alone, Busy
  <2> QED
    BY <2>2, <2>4, <2>5, <2>6 DEF SavedInv
<1>5. CASE UNCHANGED kvars
  BY <1>5 DEF kvars, inputs, SavedInv, OpAt, SavedAt, Unsaved, Alone, Busy
<1> QED
  BY <1>1, <1>2, <1>3, <1>4, <1>5 DEF KNext

\* With one command at a time and no failed write or close, whenever no command is being
\* served the files hold the manual keys, the subscriptions and the rules, wherever an
\* earlier crash struck.
THEOREM FilesHoldTheInputs ==
  ASSUME Serial = TRUE PROVE KSpec => []RestartRestores
<1>1. KInit => SerialInv /\ SavedInv
  BY SerialInit, SavedInit
<1>2. SerialInv /\ SavedInv /\ [KNext]_kvars => SerialInv' /\ SavedInv'
  BY SerialStep, SavedStep
<1>3. SerialInv /\ SavedInv => RestartRestores
  <2> SUFFICES ASSUME SavedInv, Settled, faults = 0
               PROVE  disk = [manual |-> manual, subs |-> subs, fw |-> fw]
    BY DEF RestartRestores
  <2>1. Main \in All /\ l[Main].pc = "idle" /\ SavedAt(Main)
    BY DEF SavedInv, Settled, Alone, Busy, All
  <2>2. disk.manual = manual /\ disk.subs = subs /\ disk.fw = fw
    BY <2>1 DEF SavedAt, Unsaved
  <2> QED
    BY <2>2 DEF SavedInv
<1> QED
  BY <1>1, <1>2, <1>3, PTL DEF KSpec

-----------------------------------------------------------------------------
(* Lists of subscriptions. *)

Records == [url : URLs, links : Links]

\* No two records have the same URL.
Unique(ss) == \A i, j \in DOMAIN ss : ss[i].url = ss[j].url => i = j

\* A set of naturals that is not empty has a least element, and a bounded one a greatest.
LEMMA Smallest ==
  ASSUME NEW T, T \subseteq Nat, T # {}
  PROVE  \E x \in T : \A y \in T : x <= y
<1> DEFINE R == OpToRel(<, Nat)
<1>1. IsWellFoundedOn(R, Nat)
  BY NatLessThanWellFounded
<1>2. \A a, b \in Nat : a < b => <<a, b>> \in R
  BY DEF OpToRel
<1> HIDE DEF R
<1>3. PICK x \in T : \A y \in T : ~(<<y, x>> \in R)
  BY <1>1, WFMin
<1>4. \A y \in T : ~(y < x)
  BY <1>2, <1>3
<1> QED
  BY <1>4

LEMMA Greatest ==
  ASSUME NEW n \in Nat, NEW T, T \subseteq 1..n, T # {}
  PROVE  Max(T) \in T /\ \A y \in T : Max(T) >= y
<1> DEFINE U == {n - x : x \in T}
<1>1. U \subseteq Nat
  OBVIOUS
<1>2. U # {}
  OBVIOUS
<1> HIDE DEF U
<1>3. PICK u \in U : \A v \in U : u <= v
  BY <1>1, <1>2, Smallest
<1>4. PICK x \in T : u = n - x
  BY DEF U
<1>5. \A y \in T : n - x <= n - y
  BY <1>3, <1>4 DEF U
<1>6. \A y \in T : x >= y
  BY <1>5
<1> QED
  BY <1>6 DEF Max

LEMMA SubsElements ==
  ASSUME NEW ss \in Subs, NEW i \in DOMAIN ss
  PROVE  ss[i] \in Records
<1>1. Subs = Seq(Records)
  BY DEF Subs, Records
<1> QED
  BY <1>1

\* RefreshSubscriptions' merge keeps the number of records and every URL.
LEMMA MergedKeeps ==
  ASSUME NEW ss \in Subs, NEW updated \in Subs
  PROVE  /\ Merged(ss, updated) \in Subs
         /\ DOMAIN Merged(ss, updated) = DOMAIN ss
         /\ \A i \in DOMAIN ss : Merged(ss, updated)[i].url = ss[i].url
<1> DEFINE same(i) == {j \in DOMAIN updated : updated[j].url = ss[i].url}
           isFirst(i) == \A j \in DOMAIN ss : ss[j].url = ss[i].url => i <= j
           new(i) == IF isFirst(i) /\ same(i) # {} THEN updated[Max(same(i))] ELSE ss[i]
<1>1. Merged(ss, updated) = [i \in DOMAIN ss |-> new(i)]
  BY DEF Merged
<1>2. ASSUME NEW i \in DOMAIN ss PROVE new(i) \in Records /\ new(i).url = ss[i].url
  <2>1. CASE isFirst(i) /\ same(i) # {}
    <3>1. Max(same(i)) \in same(i)
      <4>1. same(i) \subseteq 1..Len(updated) /\ Len(updated) \in Nat
        BY DEF Subs
      <4> HIDE DEF same
      <4> QED
        BY <2>1, <4>1, Greatest
    <3>2. PICK j \in DOMAIN updated : updated[j].url = ss[i].url /\ j = Max(same(i))
      BY <3>1
    <3>3. new(i) = updated[j]
      <4> HIDE DEF same, isFirst
      <4> QED
        BY <2>1, <3>2
    <3>4. updated[j] \in Records
      BY SubsElements
    <3> QED
      BY <3>2, <3>3, <3>4
  <2>2. CASE ~(isFirst(i) /\ same(i) # {})
    <3>1. new(i) = ss[i]
      <4> HIDE DEF same, isFirst
      <4> QED
        BY <2>2
    <3>2. ss[i] \in Records
      BY SubsElements
    <3> QED
      BY <3>1, <3>2
  <2> QED
    BY <2>1, <2>2
<1> HIDE DEF new
<1> QED
  BY <1>1, <1>2 DEF Subs, Records

\* Merging an unchanged copy of a list without duplicates changes nothing.
LEMMA MergedSame ==
  ASSUME NEW ss \in Subs, Unique(ss)
  PROVE  Merged(ss, ss) = ss
<1> DEFINE same(i) == {j \in DOMAIN ss : ss[j].url = ss[i].url}
           isFirst(i) == \A j \in DOMAIN ss : ss[j].url = ss[i].url => i <= j
           new(i) == IF isFirst(i) /\ same(i) # {} THEN ss[Max(same(i))] ELSE ss[i]
<1>1. Merged(ss, ss) = [i \in DOMAIN ss |-> new(i)]
  BY DEF Merged
<1>2. ASSUME NEW i \in DOMAIN ss PROVE new(i) = ss[i]
  <2>1. same(i) = {i} /\ i \in 1..Len(ss) /\ Len(ss) \in Nat
    BY DEF Unique, Subs
  <2>2. Max({i}) = i
    BY <2>1, Greatest
  <2> QED
    BY <2>1, <2>2
<1>3. ss = [i \in DOMAIN ss |-> ss[i]]
  BY DEF Subs
<1> HIDE DEF new
<1> QED
  BY <1>1, <1>2, <1>3

\* The records a refresh has fetched.
Fetched(ss, got) ==
  [i \in DOMAIN got |-> [ss[i] EXCEPT !.links = IF got[i] = <<>> THEN @ ELSE got[i]]]

\* A fetch gives every record the links of its panel, or leaves it.
LEMMA FetchedOf ==
  ASSUME NEW ss \in Subs, NEW got \in [DOMAIN ss -> Feeds \cup {<<>>}]
  PROVE  Fetched(ss, got) \in Subs
<1> DEFINE new == Fetched(ss, got)
<1>1. Len(ss) \in Nat /\ DOMAIN ss = 1..Len(ss)
  BY DEF Subs
<1>2. ASSUME NEW i \in DOMAIN ss PROVE new[i] \in Records
  <2>1. ss[i] \in Records
    BY SubsElements
  <2>2. got[i] # <<>> => got[i] \in Links
    BY KeySetConstantsOK DEF Links
  <2>3. new[i] = [ss[i] EXCEPT !.links = IF got[i] = <<>> THEN @ ELSE got[i]]
    BY DEF Fetched
  <2> HIDE DEF new
  <2> QED
    BY <2>1, <2>2, <2>3 DEF Records
<1>3. DOMAIN new = 1..Len(ss) /\ new = [i \in DOMAIN new |-> new[i]]
  BY <1>1 DEF Fetched
<1> HIDE DEF new
<1>4. new \in Seq(Records)
  BY <1>1, <1>2, <1>3
<1> QED
  BY <1>4 DEF Subs, Records, new

\* The records at the given places, in their order.
Picked(ss, at) == [i \in DOMAIN at |-> ss[at[i]]]

Increasing(at) == \A i, j \in DOMAIN at : i < j => at[i] < at[j]

\* What RemoveSubscription leaves are records of the list, each once.
LEMMA KeptOf ==
  ASSUME NEW ss \in Subs, NEW kept, kept \subseteq DOMAIN ss,
         NEW at \in [1..Cardinality(kept) -> kept],
         Increasing(at), NEW new, new = Picked(ss, at)
  PROVE  /\ new \in Subs
         /\ \A i \in DOMAIN new : \E j \in DOMAIN ss : new[i] = ss[j]
         /\ \A i, j \in DOMAIN new : i # j =>
              \E a, b \in DOMAIN ss : a # b /\ new[i] = ss[a] /\ new[j] = ss[b]
<1>1. Len(ss) \in Nat /\ DOMAIN ss = 1..Len(ss)
  BY DEF Subs
<1>2. Cardinality(kept) \in Nat
  <2>1. IsFiniteSet(1..Len(ss))
    BY <1>1, FS_Interval
  <2>2. IsFiniteSet(kept)
    BY <1>1, <2>1, FS_Subset
  <2> QED
    BY <2>2, FS_CardinalityType
<1>3. /\ DOMAIN new = 1..Cardinality(kept)
      /\ \A i \in DOMAIN new : at[i] \in DOMAIN ss /\ new[i] = ss[at[i]]
  BY DEF Picked
<1>4. new \in Subs
  BY <1>2, <1>3 DEF Subs, Picked
<1>5. ASSUME NEW i \in DOMAIN new, NEW j \in DOMAIN new, i # j PROVE at[i] # at[j]
  <2>1. i \in Nat /\ j \in Nat /\ at[i] \in Nat /\ at[j] \in Nat
    BY <1>1, <1>2, <1>3
  <2>2. i < j \/ j < i
    BY <1>5, <2>1
  <2> QED
    BY <1>3, <2>1, <2>2 DEF Increasing
<1> QED
  BY <1>3, <1>4, <1>5

-----------------------------------------------------------------------------
(* A URL enters the list only by SUB-ADD, however commands overlap. *)

\* A step of a command keeps its name and argument until it returns, or until startup
\* gives up.
LEMMA ServeKeeps ==
  ASSUME Locals, NEW p \in All, Serve(p)
  PROVE  \/ l'[p].op = "none" /\ l'[p].pc = "idle"
         \/ l'[p].op = "off" /\ l'[p].pc = "clearRead"
         \/ l'[p].op = l[p].op /\ l'[p].arg = l[p].arg /\ l'[p].pc # "idle"
<1>0. Local(l[p])
  BY DEF Locals
<1>1. CASE ReadLinks(p)
  <2>1. ASSUME NEW k, l' = [l EXCEPT ![p].key = k, ![p].pc = "owner"]
        PROVE  l'[p].op = l[p].op /\ l'[p].arg = l[p].arg /\ l'[p].pc # "idle"
    BY <2>1, <1>0 DEF Locals, Local
  <2>2. ASSUME l' = [l EXCEPT ![p].buf = links, ![p].pc = "prev"]
        PROVE  l'[p].op = l[p].op /\ l'[p].arg = l[p].arg /\ l'[p].pc # "idle"
    BY <2>2, <1>0 DEF Locals, Local
  <2> QED
    BY <1>1, <2>1, <2>2, ReturnMoves DEF ReadLinks
<1>2. CASE CheckOwner(p) \/ CheckDuplicate(p)
  BY <1>2, GoMoves, ReturnMoves DEF CheckOwner, CheckDuplicate
<1>3. CASE DropSub(p) \/ Merge(p)
  <2>1. Go(p, "readSubs") \/ Return(p, "err")
    BY <1>3, Zenon DEF DropSub, Merge
  <2> QED
    BY <2>1, GoMoves, ReturnMoves
<1>4. CASE ReadManual(p) \/ ReadSubs(p) \/ ReadOld(p) \/ ReadSave(p)
  BY <1>0, <1>4 DEF Locals, Local, ReadManual, ReadSubs, ReadOld, ReadSave
<1>5. CASE ReadEffective(p) \/ ReadPrev(p)
  BY <1>0, <1>5 DEF Locals, Local, ReadEffective, ReadPrev
<1>6. CASE SetManual(p) \/ AppendSub(p) \/ ShutOld(p) \/ Swap(p) \/ Clear(p) \/ WriteSave(p)
  BY <1>6, GoMoves DEF SetManual, AppendSub, ShutOld, Swap, Clear, WriteSave
<1>7. CASE FetchNew(p)
  <2>1. ASSUME NEW f, l' = [l EXCEPT ![p].recs = <<[url |-> l[p].arg, links |-> f]>>,
                                     ![p].pc = "append"]
        PROVE  l'[p].op = l[p].op /\ l'[p].arg = l[p].arg /\ l'[p].pc # "idle"
    BY <2>1, <1>0 DEF Locals, Local
  <2> QED
    BY <1>7, <2>1, ReturnMoves DEF FetchNew
<1>8. CASE CopySubs(p) \/ EditFirewall(p) \/ ClearRead(p) \/ GetManager(p) \/ Build(p)
  <2>1. ASSUME NEW v, NEW label, label # "idle", l' = [l EXCEPT ![p].recs = v, ![p].pc = label]
        PROVE  l'[p].op = l[p].op /\ l'[p].arg = l[p].arg /\ l'[p].pc # "idle"
    BY <2>1, <1>0 DEF Locals, Local
  <2>2. ASSUME NEW v, NEW label, label # "idle", l' = [l EXCEPT ![p].m = v, ![p].pc = label]
        PROVE  l'[p].op = l[p].op /\ l'[p].arg = l[p].arg /\ l'[p].pc # "idle"
    BY <2>2, <1>0 DEF Locals, Local
  <2>3. CASE CopySubs(p)
    BY <2>1, <2>3, ReturnMoves DEF CopySubs
  <2>4. CASE EditFirewall(p)
    BY <2>1, <2>4, ReturnMoves DEF EditFirewall
  <2>5. CASE ClearRead(p)
    BY <2>2, <2>5, GoMoves, ReturnMoves DEF ClearRead
  <2>6. CASE GetManager(p)
    BY <2>2, <2>6, ReturnMoves DEF GetManager
  <2>7. CASE Build(p)
    <3>1. PICK m : l' = [l EXCEPT ![p].m = m, ![p].pc = "swap"]
      BY <2>7 DEF Build
    <3> QED
      BY <2>2, <3>1
  <2> QED
    BY <1>8, <2>3, <2>4, <2>5, <2>6, <2>7
<1>9. CASE FetchAll(p)
  <2>1. PICK new, c : l' = [l EXCEPT ![p].recs = new, ![p].changed = c, ![p].pc = "merge"]
    BY <1>9 DEF FetchAll
  <2> QED
    BY <1>0, <2>1 DEF Locals, Local
<1>10. CASE WriteSubs(p) \/ SaveFirewall(p)
  BY <1>10, GoMoves, ReturnMoves DEF WriteSubs, SaveFirewall
<1>11. CASE ClearShut(p)
  BY <1>0, <1>11, ReturnMoves DEF Locals, Local, ClearShut
<1>12. CASE Start(p)
  BY <1>0, <1>12, ReturnMoves DEF Locals, Local, Start
<1> QED
  BY <1>1, <1>2, <1>3, <1>4, <1>5, <1>6, <1>7, <1>8, <1>9, <1>10, <1>11, <1>12 DEF Serve

\* What a goroutine that works on subscriptions has in its hands.
FeedAt(p) ==
  /\ l[p].op = "addSub" => p \in Procs /\ l[p].arg \in URLs
  /\ l[p].pc = "dup" => l[p].op = "addSub"
  /\ l[p].pc = "fetch" /\ l[p].op = "refresh" => l[p].recs \in Subs
  /\ l[p].pc = "append" =>
       /\ l[p].op = "addSub"
       /\ \E f \in Feeds : l[p].recs = <<[url |-> l[p].arg, links |-> f]>>
  /\ l[p].pc \in {"merge", "writeSubs"} => l[p].recs \in Subs

FeedInv ==
  /\ Locals
  /\ disk \in [manual : {disk.manual}, subs : {disk.subs}, fw : {disk.fw}]
  /\ subs \in Subs /\ disk.subs \in Subs
  /\ \A p \in All : FeedAt(p)

LEMMA FeedInit ==
  ASSUME KInit PROVE FeedInv
<1>1. Local(AtRest) /\ AtRest.pc = "idle" /\ AtRest.op = "none"
  BY DEF Local, AtRest
<1>2. DOMAIN l = All /\ \A p \in All : l[p] = AtRest
  BY DEF KInit
<1>3. Locals /\ \A p \in All : l[p].pc = "idle" /\ l[p].op = "none"
  BY <1>1, <1>2 DEF Locals
<1>4. subs = <<>> /\ disk = [manual |-> <<>>, subs |-> <<>>, fw |-> {}]
  BY DEF KInit
<1>5. <<>> \in Subs
  BY DEF Subs
<1> QED
  BY <1>3, <1>4, <1>5 DEF FeedInv, FeedAt

\* Another list, saved or not, and one goroutine that has moved.
LEMMA FeedMoves ==
  ASSUME FeedInv, NEW p \in All, Moves(p), FeedAt(p)', subs' \in Subs,
         disk' \in [manual : {disk'.manual}, subs : {disk'.subs}, fw : {disk'.fw}],
         disk'.subs \in Subs
  PROVE  FeedInv'
<1>1. ASSUME NEW q \in All, q # p PROVE FeedAt(q)'
  <2>1. l'[q] = l[q] /\ FeedAt(q)
    BY <1>1 DEF Moves, FeedInv
  <2> QED
    BY <2>1 DEF FeedAt
<1> QED
  BY <1>1 DEF FeedInv, Moves

\* What the steps that work on subscriptions do.
LEMMA FeedThinks ==
  ASSUME FeedInv, NEW p \in All, Thinks(p)
  PROVE  FeedAt(p)'
<1>0. Locals /\ Local(l[p]) /\ FeedAt(p) /\ subs \in Subs
  BY DEF FeedInv, Locals
<1>1. \/ l'[p].op \in {"none", "off"} /\ l'[p].pc \in {"idle", "clearRead"}
      \/ l'[p].op = l[p].op /\ l'[p].arg = l[p].arg
  BY <1>0, ServeKeeps DEF Serve, Thinks
<1>2. ASSUME l'[p].pc \notin {"dup", "fetch", "append", "merge", "writeSubs"} PROVE FeedAt(p)'
  BY <1>0, <1>1, <1>2 DEF FeedAt
<1>3. CASE CheckDuplicate(p)
  <2>1. l[p].pc = "dup" /\ l[p].op = "addSub"
    BY <1>0, <1>3 DEF CheckDuplicate, FeedAt
  <2>2. l'[p].pc \in {"idle", "fetch"}
    BY <1>0, <1>3, GoMoves, ReturnMoves DEF CheckDuplicate
  <2> QED
    BY <1>0, <1>1, <2>1, <2>2 DEF FeedAt
<1>4. CASE FetchNew(p)
  <2>1. CASE Return(p, "err")
    BY <1>0, <1>2, <2>1, ReturnMoves
  <2>2. ASSUME NEW f \in Feeds,
               l' = [l EXCEPT ![p].recs = <<[url |-> l[p].arg, links |-> f]>>, ![p].pc = "append"]
        PROVE  FeedAt(p)'
    <3>1. /\ l'[p].pc = "append" /\ l'[p].op = l[p].op /\ l'[p].arg = l[p].arg
          /\ l'[p].recs = <<[url |-> l[p].arg, links |-> f]>>
      BY <1>0, <2>2 DEF Locals, Local
    <3> QED
      BY <1>0, <1>4, <3>1 DEF FeedAt, FetchNew
  <2> QED
    BY <1>4, <2>1, <2>2 DEF FetchNew
<1>5. CASE CopySubs(p)
  <2>1. ASSUME l' = [l EXCEPT ![p].recs = subs, ![p].pc = "fetch"]
        PROVE  l'[p].recs = subs /\ l'[p].pc = "fetch"
    BY <1>0, <2>1 DEF Locals, Local
  <2>2. l'[p].pc = "idle" \/ (l'[p].pc = "fetch" /\ l'[p].recs = subs)
    BY <1>0, <1>5, <2>1, ReturnMoves DEF CopySubs
  <2> QED
    BY <1>0, <1>1, <2>2 DEF FeedAt
<1>6. CASE FetchAll(p)
  <2>1. l[p].recs \in Subs
    BY <1>0, <1>6 DEF FetchAll, FeedAt
  <2>2. PICK got \in [DOMAIN l[p].recs -> Feeds \cup {<<>>}] :
          l' = [l EXCEPT ![p].recs = Fetched(l[p].recs, got),
                         ![p].changed = Fetched(l[p].recs, got) # l[p].recs, ![p].pc = "merge"]
    BY <1>6, Zenon DEF FetchAll, Fetched
  <2> DEFINE new == Fetched(l[p].recs, got)
  <2> HIDE DEF new
  <2>3. l'[p].pc = "merge" /\ l'[p].recs = new
    BY <1>0, <2>2 DEF Locals, Local, new
  <2>4. new \in Subs
    BY <2>1, FetchedOf DEF new
  <2> QED
    BY <1>0, <1>1, <2>3, <2>4 DEF FeedAt
<1>7. CASE ReadSubs(p)
  <2>1. l'[p].pc = "writeSubs" /\ l'[p].recs = subs
    BY <1>0, <1>7 DEF ReadSubs, Locals, Local
  <2> QED
    BY <1>0, <1>1, <2>1 DEF FeedAt
<1>8. CASE ~(CheckDuplicate(p) \/ FetchNew(p) \/ CopySubs(p) \/ FetchAll(p) \/ ReadSubs(p))
  <2>1. l[p].pc \notin {"dup", "copy", "fetch", "readSubs"}
    BY <1>8 DEF Thinks, ReadLinks, CheckOwner, ReadManual, ReadPrev, ReadEffective, ReadOld,
                ClearRead, ReadSave, GetManager
  <2> QED
    BY <1>0, <1>2, <2>1, ThinksLeads
<1> QED
  BY <1>3, <1>4, <1>5, <1>6, <1>7, <1>8

\* SUB-ADD is for a URL.
LEMMA IssueArg ==
  ASSUME Locals, NEW p \in All, Issue(p, "addSub")
  PROVE  l'[p].arg \in URLs
<1>1. PICK u \in URLs : Begin(p, "addSub", None, u)
  BY DEF Issue
<1> DEFINE r == [AtRest EXCEPT !.op = "addSub", !.pc = First["addSub"], !.key = None, !.arg = u,
                               !.prev = IF "addSub" \in {"proxy", "vpn"} THEN "addSub" ELSE "off"]
<1>2. l' = [l EXCEPT ![p] = r]
  BY <1>1 DEF Begin
<1>3. Local(r) /\ r.arg = u
  BY DEF Local, AtRest
<1> HIDE DEF r
<1> QED
  BY <1>2, <1>3, MoveOf

\* The steps that touch an input or a file, and the URLs that can come of it.
LEMMA FeedEdits ==
  ASSUME FeedInv, NEW p \in All, Edit(p)
  PROVE  /\ FeedInv'
         /\ \A u : HasURL(subs', u) /\ ~HasURL(subs, u) => l[p].op = "addSub" /\ l[p].arg = u
<1>0. /\ Locals /\ Local(l[p]) /\ FeedAt(p) /\ subs \in Subs /\ disk.subs \in Subs
      /\ disk \in [manual : {disk.manual}, subs : {disk.subs}, fw : {disk.fw}]
  BY DEF FeedInv, Locals
<1>1. Moves(p)
  BY <1>0, ServeMoves DEF Serve, Edit
<1>2. \/ l'[p].op \in {"none", "off"} /\ l'[p].pc \in {"idle", "clearRead"}
      \/ l'[p].op = l[p].op /\ l'[p].arg = l[p].arg
  BY <1>0, ServeKeeps DEF Serve, Edit
<1>3. ASSUME l'[p].pc \notin {"dup", "fetch", "append", "merge", "writeSubs"} PROVE FeedAt(p)'
  BY <1>0, <1>2, <1>3 DEF FeedAt
<1>4. CASE SetManual(p) \/ EditFirewall(p)
  <2>1. l'[p].pc \in {"effective", "prev", "fwSave", "idle"}
    <3>1. ASSUME NEW v, l' = [l EXCEPT ![p].recs = v, ![p].pc = "fwSave"] PROVE l'[p].pc = "fwSave"
      BY <1>0, <3>1 DEF Locals, Local
    <3> QED
      BY <1>0, <1>4, <3>1, GoMoves, ReturnMoves DEF SetManual, EditFirewall
  <2>2. UNCHANGED <<subs, disk>>
    BY <1>4 DEF SetManual, EditFirewall
  <2> QED
    BY <1>0, <1>1, <1>3, <2>1, <2>2, FeedMoves
<1>5. CASE AppendSub(p)
  <2>1. l[p].pc = "append" /\ subs' = subs \o l[p].recs /\ UNCHANGED disk /\ l'[p].pc = "readSubs"
    BY <1>0, <1>5, GoMoves DEF AppendSub
  <2>2. PICK f \in Feeds : l[p].recs = <<[url |-> l[p].arg, links |-> f]>>
    BY <1>0, <2>1 DEF FeedAt
  <2>3. l[p].op = "addSub" /\ l[p].arg \in URLs /\ f \in Links
    BY <1>0, <2>1, KeySetConstantsOK DEF FeedAt, Links
  <2> DEFINE rec == [url |-> l[p].arg, links |-> f]
  <2>4. rec \in Records /\ rec.url = l[p].arg
    BY <2>3 DEF Records
  <2> HIDE DEF rec
  <2>5. subs \in Seq(Records) /\ subs' = subs \o <<rec>>
    BY <1>0, <2>1, <2>2 DEF Subs, Records, rec
  <2>6. subs' \in Seq(Records)
    BY <2>4, <2>5
  <2>7. \A i \in DOMAIN subs' : (i \in DOMAIN subs /\ subs'[i] = subs[i]) \/ subs'[i] = rec
    BY <2>4, <2>5
  <2>8. subs' \in Subs
    BY <2>6 DEF Subs, Records
  <2> QED
    BY <1>0, <1>1, <1>3, <2>1, <2>3, <2>4, <2>7, <2>8, FeedMoves DEF HasURL
<1>6. CASE DropSub(p)
  <2> DEFINE kept == {i \in DOMAIN subs : subs[i].url # l[p].arg}
  <2>1. UNCHANGED disk
    BY <1>6, Zenon DEF DropSub
  <2>2. CASE Return(p, "err") /\ UNCHANGED subs
    BY <1>0, <1>1, <1>3, <2>1, <2>2, ReturnMoves, FeedMoves
  <2>3. ASSUME NEW at \in [1..Cardinality(kept) -> kept], Increasing(at),
               subs' = Picked(subs, at), Go(p, "readSubs")
        PROVE  FeedInv' /\ \A u : HasURL(subs', u) => HasURL(subs, u)
    <3>1. kept \subseteq DOMAIN subs
      OBVIOUS
    <3> HIDE DEF kept
    <3>2. subs' \in Subs /\ \A i \in DOMAIN subs' : \E j \in DOMAIN subs : subs'[i] = subs[j]
      BY <1>0, <2>3, <3>1, KeptOf
    <3> QED
      BY <1>0, <1>1, <1>3, <2>1, <2>3, <3>2, GoMoves, FeedMoves DEF HasURL
  <2>4. \/ Return(p, "err") /\ UNCHANGED subs
        \/ /\ \E at \in [1..Cardinality(kept) -> kept] :
                Increasing(at) /\ subs' = Picked(subs, at)
           /\ Go(p, "readSubs")
    BY <1>6, Zenon DEF DropSub, Increasing, Picked
  <2> HIDE DEF kept
  <2> QED
    BY <2>2, <2>3, <2>4
<1>7. CASE Merge(p)
  <2>1. l[p].pc = "merge" /\ subs' = Merged(subs, l[p].recs) /\ Go(p, "readSubs") /\ UNCHANGED disk
    BY <1>7, Zenon DEF Merge
  <2>2. l[p].recs \in Subs
    BY <1>0, <2>1 DEF FeedAt
  <2>3. /\ subs' \in Subs /\ DOMAIN subs' = DOMAIN subs
        /\ \A i \in DOMAIN subs : subs'[i].url = subs[i].url
    BY <1>0, <2>1, <2>2, MergedKeeps
  <2> QED
    BY <1>0, <1>1, <1>3, <2>1, <2>3, GoMoves, FeedMoves DEF HasURL
<1>8. CASE WriteSubs(p) \/ SaveFirewall(p) \/ WriteSave(p)
  <2>1. l'[p].pc \in {"idle", "prev", "getMgr"} /\ UNCHANGED subs
    BY <1>0, <1>8, GoMoves, ReturnMoves DEF WriteSubs, SaveFirewall, WriteSave, inputs
  <2>2. \/ UNCHANGED disk
        \/ disk' = [disk EXCEPT !.subs = l[p].recs] /\ l[p].pc = "writeSubs"
        \/ disk' = [disk EXCEPT !.fw = l[p].recs]
        \/ disk' = [disk EXCEPT !.manual = l[p].buf]
    BY <1>8 DEF WriteSubs, SaveFirewall, WriteSave
  <2>3. /\ disk' \in [manual : {disk'.manual}, subs : {disk'.subs}, fw : {disk'.fw}]
        /\ disk'.subs = disk.subs \/ (disk'.subs = l[p].recs /\ l[p].pc = "writeSubs")
    BY <1>0, <2>2, Written
  <2>4. disk'.subs \in Subs
    BY <1>0, <2>3 DEF FeedAt
  <2> QED
    BY <1>0, <1>1, <1>3, <2>1, <2>3, <2>4, FeedMoves
<1> QED
  BY <1>4, <1>5, <1>6, <1>7, <1>8 DEF Edit

\* The steps that work on managers.
LEMMA FeedRuntime ==
  ASSUME FeedInv, NEW p \in All,
         ShutOld(p) \/ Build(p) \/ Swap(p) \/ ClearShut(p) \/ Clear(p) \/ Start(p)
  PROVE  FeedInv' /\ UNCHANGED subs
<1>0. Locals /\ Local(l[p]) /\ FeedAt(p)
  BY DEF FeedInv, Locals
<1>1. Moves(p)
  BY <1>0, ServeMoves DEF Serve
<1>2. \/ l'[p].op \in {"none", "off"} /\ l'[p].pc \in {"idle", "clearRead"}
      \/ l'[p].op = l[p].op /\ l'[p].arg = l[p].arg
  BY <1>0, ServeKeeps DEF Serve
<1>3. l'[p].pc \in {"build", "swap", "readSave", "idle", "clearRead", "clear", "getMgr"}
  <2>1. ASSUME NEW m, l' = [l EXCEPT ![p].m = m, ![p].pc = "swap"] PROVE l'[p].pc = "swap"
    BY <1>0, <2>1 DEF Locals, Local
  <2>2. CASE ShutOld(p) \/ Swap(p) \/ Clear(p)
    BY <1>0, <2>2, GoMoves DEF ShutOld, Swap, Clear
  <2>3. CASE Build(p)
    BY <2>1, <2>3 DEF Build
  <2>4. CASE ClearShut(p)
    BY <1>0, <2>4, ReturnMoves DEF Locals, Local, ClearShut
  <2>5. CASE Start(p)
    BY <1>0, <2>5, ReturnMoves DEF Locals, Local, Start
  <2> QED
    BY <2>2, <2>3, <2>4, <2>5
<1>4. FeedAt(p)'
  BY <1>0, <1>2, <1>3 DEF FeedAt
<1>5. UNCHANGED <<subs, disk>>
  BY DEF ShutOld, Build, Swap, ClearShut, Clear, Start, inputs
<1> QED
  BY <1>1, <1>4, <1>5, FeedMoves DEF FeedInv

\* However commands overlap, the list and the file keep their form, and a URL that is
\* new was put there by SUB-ADD or read at a restart.
LEMMA FeedStep ==
  ASSUME FeedInv, [KNext]_kvars
  PROVE  /\ FeedInv'
         /\ \A u : HasURL(subs', u) /\ ~HasURL(subs, u) =>
              \/ \E auto : Restart(auto)
              \/ \E p \in Procs : l[p].op = "addSub" /\ l[p].arg = u
<1>1. ASSUME NEW p \in Procs, NEW op \in DOMAIN First, Issue(p, op)
      PROVE  FeedInv' /\ UNCHANGED subs
  <2>1. p \in All /\ Locals
    BY DEF All, FeedInv
  <2>2. Moves(p) /\ UNCHANGED <<subs, disk>>
    BY <1>1, <2>1, IssueMoves DEF inputs
  <2>3. op = "addSub" => l'[p].arg \in URLs
    BY <1>1, <2>1, IssueArg
  <2>4. FeedAt(p)'
    BY <1>1, <2>1, <2>3, IssueMoves DEF FeedAt
  <2> QED
    BY <2>1, <2>2, <2>4, FeedMoves DEF FeedInv
<1>2. ASSUME NEW p \in All, Serve(p)
      PROVE  /\ FeedInv'
             /\ \A u : HasURL(subs', u) /\ ~HasURL(subs, u) =>
                  \E q \in Procs : l[q].op = "addSub" /\ l[q].arg = u
  <2>1. CASE Thinks(p)
    <3>1. Moves(p) /\ UNCHANGED <<subs, disk>>
      BY <2>1, ServeMoves, ThinksAside DEF FeedInv, Serve, Thinks, inputs
    <3>2. FeedAt(p)'
      BY <2>1, FeedThinks
    <3> QED
      BY <3>1, <3>2, FeedMoves DEF FeedInv
  <2>2. CASE Edit(p)
    <3>1. l[p].op = "addSub" => p \in Procs
      BY DEF FeedInv, FeedAt
    <3> QED
      BY <2>2, <3>1, FeedEdits
  <2>3. CASE ShutOld(p) \/ Build(p) \/ Swap(p) \/ ClearShut(p) \/ Clear(p) \/ Start(p)
    BY <2>3, FeedRuntime
  <2> QED
    BY <1>2, <2>1, <2>2, <2>3 DEF Serve, Thinks, Edit
<1>3. ASSUME Startup PROVE FeedInv' /\ UNCHANGED subs
  <2>1. Main \in All /\ Locals /\ FeedAt(Main)
    BY DEF All, FeedInv
  <2>2. /\ Moves(Main) /\ UNCHANGED <<subs, disk>>
        /\ l'[Main].op = l[Main].op /\ l'[Main].arg = l[Main].arg
        /\ l'[Main].pc \in {"setManual", "effective", "getMgr"}
    BY <1>3, <2>1, GoMoves DEF Startup, inputs
  <2>3. FeedAt(Main)'
    BY <2>1, <2>2 DEF FeedAt
  <2> QED
    BY <2>1, <2>2, <2>3, FeedMoves DEF FeedInv
<1>4. ASSUME NEW auto, Restart(auto) PROVE FeedInv'
  <2>1. UNCHANGED disk /\ subs' = disk.subs
    BY <1>4 DEF Restart
  <2>2. /\ Locals' /\ l'[Main].op = "load"
        /\ \A p \in All : l'[p].pc = IF p = Main THEN "startup" ELSE "idle"
    BY <1>4, RestartLocals
  <2>3. \A p \in All : p # Main => l'[p].op = "none"
    BY <1>4 DEF Restart, AtRest
  <2>4. \A p \in All : FeedAt(p)'
    BY <2>2, <2>3 DEF FeedAt
  <2> QED
    BY <2>1, <2>2, <2>4 DEF FeedInv
<1>5. ASSUME UNCHANGED kvars PROVE FeedInv' /\ UNCHANGED subs
  BY <1>5 DEF kvars, inputs, FeedInv, FeedAt, Locals
<1> QED
  BY <1>1, <1>2, <1>3, <1>4, <1>5 DEF KNext

\* However commands overlap, a subscription that was removed is not brought back by a
\* refresh that was fetching it: a URL enters the list only by SUB-ADD, or from the file.
THEOREM RemovedStaysRemoved == KSpec => RefreshNeverResurrects
<1> DEFINE Inv == FeedInv /\ starts \in Nat /\ faults \in Nat
<1>1. KInit => Inv
  BY FeedInit DEF KInit
<1>2. Inv /\ [KNext]_kvars => Inv'
  BY FeedStep, Counters
<1>3. Inv /\ [KNext]_kvars =>
        [\A u \in URLs : (HasURL(subs', u) /\ ~HasURL(subs, u))
           => \/ starts' # starts
              \/ \E p \in Procs : l[p].op = "addSub" /\ l[p].arg = u]_kvars
  BY FeedStep, Counters
<1> QED
  BY <1>1, <1>2, <1>3, PTL DEF KSpec, RefreshNeverResurrects

-----------------------------------------------------------------------------
(* The runtime runs the effective set, one command at a time. *)

Eff == EffectiveLinks(manual, subs)

\* With no manual keys and no subscriptions there is nothing to run.
LEMMA NothingToRun == EffectiveLinks(<<>>, <<>>) = <<>>
<1>1. SubLinks(<<>>) = <<>>
  <2>1. [i \in DOMAIN <<>> |-> <<>>[i].links] = <<>> /\ Len(<<>>) = 0
    OBVIOUS
  <2> QED
    BY <2>1 DEF SubLinks, FlattenSeq
<1> DEFINE s == <<>> \o <<>>
           F(g) == [t \in SUBSET (DOMAIN s) |->
                      IF t = {} THEN <<>>
                      ELSE LET x == Max(t) IN
                           IF Contains(g[t \ {x}], s[x]) THEN g[t \ {x}]
                           ELSE Append(g[t \ {x}], s[x])]
           iter == CHOOSE g : g = F(g)
<1>2. s = <<>> /\ DOMAIN s = {}
  OBVIOUS
<1>3. \A g : F(g) = [t \in {{}} |-> <<>>]
  <2>1. SUBSET (DOMAIN s) = {{}}
    BY <1>2
  <2> SUFFICES ASSUME NEW g PROVE F(g) = [t \in {{}} |-> <<>>]
    OBVIOUS
  <2> QED
    BY <2>1
<1>4. \A g : g = F(g) <=> g = [t \in {{}} |-> <<>>]
  BY <1>3
<1>5. iter = [t \in {{}} |-> <<>>]
  BY <1>4
<1>6. iter[DOMAIN s] = <<>>
  BY <1>2, <1>5
<1>7. FoldLeft(LAMBDA acc, k : IF Contains(acc, k) THEN acc ELSE Append(acc, k), <<>>, s) = <<>>
  BY <1>6 DEF FoldLeft, MapThenFoldSet
<1> QED
  BY <1>1, <1>7 DEF EffectiveLinks

\* The manager in use was built from the inputs of this moment.
Runs ==
  /\ links = Eff
  /\ IF Eff = <<>> THEN mgr = None
     ELSE mgr # None /\ built[mgr] = [links |-> Eff, fw |-> fw]

\* Where a command has changed no input yet, or has applied what it changed.
Steady == {"idle", "links", "owner", "dup", "drop", "append", "fetch", "copy", "merge", "fwEdit",
           "getMgr", "start", "readSave", "writeSave"}

CommandAt(p) ==
  /\ l[p].op = "off" => l[p].pc \in {"clearRead", "clearShut"}
  /\ l[p].pc = "copy" => l[p].op = "refresh"
  /\ l[p].pc = "drop" => l[p].op = "removeSub"

\* How far the runtime follows the inputs when p is the only goroutine that may be serving.
RunsAt(p) ==
  /\ l[p].pc \in Steady => Runs
  /\ l[p].pc \in {"clearRead", "clearShut"} => IF l[p].op = "off" THEN Runs ELSE Eff = <<>>
  /\ l[p].pc = "clear" => Eff = <<>>
  /\ l[p].pc \in {"readOld", "shutOld", "build", "swap"} => l[p].buf = Eff /\ Eff # <<>>
  /\ l[p].pc = "swap" => l[p].m \in Mgrs /\ built[l[p].m] = [links |-> l[p].buf, fw |-> fw]
  /\ l[p].pc = "fwSave" => links = Eff /\ (Eff = <<>> <=> mgr = None)
  /\ l[p].pc = "startup" => manual = <<>> /\ mgr = None /\ links = <<>>
  /\ l[p].pc = "fetch" /\ l[p].op = "refresh" => l[p].recs = subs
  /\ l[p].pc = "fetch" /\ l[p].op = "addSub" => ~HasURL(subs, l[p].arg)
  /\ l[p].pc = "append" => ~HasURL(subs, l[p].arg)
  /\ l[p].pc = "merge" /\ ~l[p].changed => l[p].recs = subs
  /\ l[p].pc \in {"readSubs", "writeSubs"} /\ l[p].op = "refresh" /\ ~l[p].changed => Runs

RunInv ==
  /\ \A p \in All : CommandAt(p)
  /\ faults = 0 => Unique(subs) /\ Unique(disk.subs)
  /\ faults = 0 => \A p \in All : Alone(p) => RunsAt(p)

LEMMA RunInit ==
  ASSUME KInit PROVE RunInv
<1>1. AtRest.pc = "idle" /\ AtRest.op = "none"
  BY DEF AtRest
<1>2. \A p \in All : l[p].pc = "idle" /\ l[p].op = "none"
  BY <1>1 DEF KInit
<1>3. manual = <<>> /\ subs = <<>> /\ links = <<>> /\ mgr = None /\ disk.subs = <<>>
  BY DEF KInit
<1>4. Eff = <<>>
  BY <1>3, NothingToRun DEF Eff
<1>5. Runs
  BY <1>3, <1>4 DEF Runs
<1>6. Unique(<<>>)
  BY DEF Unique
<1> HIDE DEF KInit
<1> QED
  BY <1>2, <1>3, <1>5, <1>6 DEF RunInv, CommandAt, RunsAt

\* Only the goroutine that moves has something new to show.
LEMMA RunMoves ==
  ASSUME SerialInv, RunInv, NEW p \in All, Moves(p), Busy(p) \/ Settled, CommandAt(p)',
         faults' = 0 => faults = 0,
         faults' = 0 => Unique(subs') /\ Unique(disk'.subs),
         faults' = 0 /\ RunsAt(p) => RunsAt(p)'
  PROVE  RunInv'
<1>1. /\ Locals' /\ OnlyOne'
      /\ \A q \in All : q # p => l[q].pc = "idle" /\ l'[q].pc = "idle"
  BY AloneMoves DEF SerialInv
<1>2. \A q \in All : CommandAt(q)'
  BY <1>1 DEF CommandAt, RunInv, Moves
<1>3. ASSUME faults' = 0 PROVE RunsAt(p)'
  BY <1>1, <1>3 DEF RunInv, Alone, Busy
<1>4. ASSUME faults' = 0, NEW q \in All, Alone(q)' PROVE RunsAt(q)'
  <2>1. CASE q = p
    BY <1>3, <1>4, <2>1
  <2>2. CASE q # p
    <3>1. l'[q].pc = "idle" /\ l'[p].pc = "idle"
      BY <1>1, <1>4, <2>2 DEF Alone, Busy
    <3>2. Runs'
      BY <1>3, <1>4, <3>1 DEF RunsAt, Steady
    <3> QED
      BY <3>1, <3>2 DEF RunsAt
  <2> QED
    BY <2>1, <2>2
<1> QED
  BY <1>2, <1>4 DEF RunInv

LEMMA RunThinks ==
  ASSUME SerialInv, FeedInv, RunInv, NEW p \in All, Thinks(p)
  PROVE  RunInv'
<1>1. Moves(p) /\ Busy(p) /\ Locals /\ Local(l[p])
  BY ServeMoves DEF SerialInv, ModeInv, Serve, Thinks, Locals
<1>2. UNCHANGED <<manual, subs, fw, mgr, links, built, disk, faults>>
  BY ThinksAside DEF inputs, runtime
<1>3. (Runs <=> Runs') /\ Eff' = Eff
  BY <1>2 DEF Runs, Eff
<1>4. CommandAt(p) /\ FeedAt(p)
  BY DEF RunInv, FeedInv
<1>5. CommandAt(p)'
  BY <1>1, <1>4, ThinksLeads, ReturnMoves, ServeKeeps DEF CommandAt, Serve, Thinks
<1>6. SUFFICES ASSUME RunsAt(p) PROVE RunsAt(p)'
  BY <1>1, <1>2, <1>5, RunMoves DEF RunInv
<1>7. ASSUME l'[p].pc \in {"idle", "owner", "getMgr", "start", "writeSave"}, Runs PROVE RunsAt(p)'
  BY <1>3, <1>7 DEF RunsAt
<1>8. ASSUME l'[p].pc \in {"prev", "readManual", "setManual", "effective"} PROVE RunsAt(p)'
  BY <1>8 DEF RunsAt, Steady
<1>9. l[p].pc \in {"links", "owner", "dup", "fetch", "copy", "getMgr", "readSave"} => Runs
  BY <1>6 DEF RunsAt, Steady
<1>10. CASE l[p].pc \in {"links", "owner", "readManual", "prev", "readSave", "getMgr"}
  BY <1>1, <1>7, <1>8, <1>9, <1>10, ThinksLeads
<1>11. CASE CheckDuplicate(p)
  <2>1. /\ Runs /\ l[p].op = "addSub"
        /\ \/ l'[p].pc = "idle"
           \/ /\ l'[p].pc = "fetch" /\ ~HasURL(subs, l[p].arg)
              /\ l'[p].op = l[p].op /\ l'[p].arg = l[p].arg
    BY <1>1, <1>4, <1>9, <1>11, GoMoves, ReturnMoves DEF CheckDuplicate, FeedAt
  <2> QED
    BY <1>2, <1>3, <1>7, <2>1 DEF RunsAt
<1>12. CASE FetchNew(p)
  <2>1. Runs /\ ~HasURL(subs, l[p].arg)
    BY <1>6, <1>9, <1>12 DEF FetchNew, RunsAt
  <2>2. ASSUME NEW f, l' = [l EXCEPT ![p].recs = <<[url |-> l[p].arg, links |-> f]>>,
                                     ![p].pc = "append"]
        PROVE  l'[p].pc = "append" /\ l'[p].arg = l[p].arg
    BY <1>1, <2>2 DEF Locals, Local
  <2>3. l'[p].pc = "idle" \/ (l'[p].pc = "append" /\ l'[p].arg = l[p].arg)
    BY <1>1, <1>12, <2>2, ReturnMoves DEF FetchNew
  <2> QED
    BY <1>2, <1>3, <1>7, <2>1, <2>3 DEF RunsAt
<1>13. CASE CopySubs(p)
  <2>1. ASSUME l' = [l EXCEPT ![p].recs = subs, ![p].pc = "fetch"]
        PROVE  l'[p].pc = "fetch" /\ l'[p].recs = subs /\ l'[p].op = l[p].op
    BY <1>1, <2>1 DEF Locals, Local
  <2>2. /\ Runs /\ l[p].op = "refresh"
        /\ \/ l'[p].pc = "idle"
           \/ l'[p].pc = "fetch" /\ l'[p].recs = subs /\ l'[p].op = l[p].op
    BY <1>1, <1>4, <1>9, <1>13, <2>1, ReturnMoves DEF CopySubs, CommandAt
  <2> QED
    BY <1>2, <1>3, <1>7, <2>2 DEF RunsAt
<1>14. CASE FetchAll(p)
  <2>1. Runs /\ l[p].recs = subs
    BY <1>6, <1>9, <1>14 DEF FetchAll, RunsAt
  <2>2. PICK new : l' = [l EXCEPT ![p].recs = new, ![p].changed = new # l[p].recs, ![p].pc = "merge"]
    BY <1>14, Zenon DEF FetchAll
  <2>3. l'[p].pc = "merge" /\ l'[p].recs = new /\ l'[p].changed = (new # l[p].recs)
    BY <1>1, <2>2 DEF Locals, Local
  <2>4. ~l'[p].changed => l'[p].recs = subs
    BY <2>1, <2>3
  <2> QED
    BY <1>2, <1>3, <2>1, <2>3, <2>4 DEF RunsAt
<1>15. CASE ReadSubs(p)
  <2>1. /\ l[p].pc = "readSubs" /\ l'[p].pc = "writeSubs" /\ l'[p].op = l[p].op
        /\ l'[p].changed = l[p].changed
    BY <1>1, <1>15 DEF ReadSubs, Locals, Local
  <2> QED
    BY <1>3, <1>6, <2>1 DEF RunsAt, Steady
<1>16. CASE ReadEffective(p)
  <2>1. /\ l[p].pc = "effective" /\ l'[p].buf = Eff /\ l'[p].op = l[p].op
        /\ l'[p].pc = IF Eff = <<>> THEN "clearRead" ELSE "readOld"
    BY <1>1, <1>16 DEF ReadEffective, Locals, Local, Eff
  <2>2. l'[p].op # "off"
    BY <1>4, <2>1 DEF CommandAt
  <2> QED
    BY <1>3, <2>1, <2>2 DEF RunsAt, Steady
<1>17. CASE ReadOld(p)
  <2>1. /\ l[p].pc = "readOld" /\ l'[p].pc \in {"build", "shutOld"} /\ l'[p].buf = l[p].buf
    BY <1>1, <1>17 DEF ReadOld, Locals, Local
  <2> QED
    BY <1>3, <1>6, <2>1 DEF RunsAt, Steady
<1>18. CASE ClearRead(p)
  <2>1. ASSUME NEW m, l' = [l EXCEPT ![p].m = m, ![p].pc = "clearShut"]
        PROVE  l'[p].pc = "clearShut" /\ l'[p].op = l[p].op
    BY <1>1, <2>1 DEF Locals, Local
  <2>2. /\ l[p].pc = "clearRead"
        /\ \/ l'[p].pc = "idle" /\ l[p].op = "off"
           \/ l'[p].pc = "clear" /\ l[p].op # "off"
           \/ l'[p].pc = "clearShut" /\ l'[p].op = l[p].op
    BY <1>1, <1>18, <2>1, GoMoves, ReturnMoves DEF ClearRead
  <2> QED
    BY <1>3, <1>6, <2>2 DEF RunsAt, Steady
<1> QED
  BY <1>10, <1>11, <1>12, <1>13, <1>14, <1>15, <1>16, <1>17, <1>18
     DEF Thinks, ReadLinks, CheckOwner, ReadManual, ReadPrev, ReadSave, GetManager

LEMMA RunEdits ==
  ASSUME SerialInv, SavedInv, FeedInv, RunInv, NEW p \in All, Edit(p), faults' = 0 => faults = 0
  PROVE  RunInv'
<1>1. Moves(p) /\ Busy(p) /\ Locals /\ Local(l[p])
  BY ServeMoves DEF SerialInv, ModeInv, Serve, Edit, Locals
<1>2. UNCHANGED <<mgr, links, built>>
  BY EditAside DEF runtime
<1>3. /\ CommandAt(p) /\ FeedAt(p) /\ subs \in Subs
      /\ disk \in [manual : {disk.manual}, subs : {disk.subs}, fw : {disk.fw}]
  BY DEF RunInv, FeedInv
<1>4. faults = 0 => Unique(subs) /\ Unique(disk.subs) /\ SavedAt(p)
  <2>1. Alone(p)
    BY <1>1 DEF SerialInv, ModeInv, OnlyOne, Alone
  <2> QED
    BY <2>1 DEF RunInv, SavedInv
<1>5. ASSUME l'[p].pc \in {"idle", "effective", "prev", "readSubs", "fwSave", "getMgr"}
      PROVE  CommandAt(p)'
  <2>1. l'[p].op = "none" \/ l'[p].pc = "clearRead" \/ l'[p].op = l[p].op
    BY <1>1, ServeKeeps DEF Serve, Edit
  <2>2. l[p].op # "off"
    <3>1. DropSub(p) \/ Merge(p) => l[p].pc \in {"drop", "merge"}
      BY Zenon DEF DropSub, Merge
    <3> QED
      BY <1>3, <3>1 DEF CommandAt, Edit, SetManual, AppendSub, WriteSubs, EditFirewall,
                        SaveFirewall, WriteSave
  <2> QED
    BY <1>5, <2>1, <2>2 DEF CommandAt
<1>6. CASE SetManual(p)
  <2>1. l'[p].pc \in {"effective", "prev"} /\ UNCHANGED <<subs, disk, faults>>
    BY <1>1, <1>6, GoMoves DEF SetManual
  <2>2. RunsAt(p)'
    BY <2>1 DEF RunsAt, Steady
  <2> QED
    BY <1>1, <1>4, <1>5, <2>1, <2>2, RunMoves
<1>7. CASE AppendSub(p)
  <2>1. /\ l[p].pc = "append" /\ subs' = subs \o l[p].recs /\ UNCHANGED <<disk, faults>>
        /\ l'[p].pc = "readSubs" /\ l'[p].op = l[p].op
    BY <1>1, <1>7, GoMoves DEF AppendSub
  <2>2. l[p].op = "addSub"
    BY <1>3, <2>1 DEF FeedAt
  <2>3. RunsAt(p)'
    BY <2>1, <2>2 DEF RunsAt, Steady
  <2>4. ASSUME Unique(subs), ~HasURL(subs, l[p].arg) PROVE Unique(subs')
    <3>1. PICK f : l[p].recs = <<[url |-> l[p].arg, links |-> f]>>
      BY <1>3, <2>1 DEF FeedAt
    <3> DEFINE rec == [url |-> l[p].arg, links |-> f]
    <3>2. rec.url = l[p].arg
      OBVIOUS
    <3> HIDE DEF rec
    <3>3. subs' = subs \o <<rec>> /\ Len(subs) \in Nat /\ DOMAIN subs = 1..Len(subs)
      BY <1>3, <2>1, <3>1 DEF Subs, rec
    <3>4. /\ DOMAIN subs' = 1..(Len(subs) + 1)
          /\ \A i \in DOMAIN subs : subs'[i] = subs[i]
          /\ subs'[Len(subs) + 1] = rec
      BY <1>3, <3>3 DEF Subs
    <3>5. \A i \in DOMAIN subs' : i \in DOMAIN subs \/ i = Len(subs) + 1
      BY <3>3, <3>4
    <3>6. \A i \in DOMAIN subs : subs'[i].url # rec.url
      BY <2>4, <3>2, <3>4 DEF HasURL
    <3> QED
      BY <2>4, <3>3, <3>4, <3>5, <3>6 DEF Unique
  <2>5. faults = 0 => RunsAt(p)
    BY <1>1 DEF RunInv, SerialInv, ModeInv, OnlyOne, Alone
  <2>6. faults = 0 => ~HasURL(subs, l[p].arg)
    BY <2>1, <2>5 DEF RunsAt
  <2> QED
    BY <1>1, <1>4, <1>5, <2>1, <2>3, <2>4, <2>6, RunMoves
<1>8. CASE DropSub(p)
  <2> DEFINE kept == {i \in DOMAIN subs : subs[i].url # l[p].arg}
  <2>1. l[p].pc = "drop" /\ UNCHANGED <<manual, fw, disk, faults>>
    BY <1>8, Zenon DEF DropSub
  <2>2. CASE Return(p, "err") /\ UNCHANGED subs
    <3>1. l'[p].pc = "idle" /\ (Runs => Runs')
      BY <1>1, <1>2, <2>1, <2>2, ReturnMoves DEF Runs, Eff
    <3>2. RunsAt(p) => RunsAt(p)'
      BY <2>1, <3>1 DEF RunsAt, Steady
    <3> QED
      BY <1>1, <1>4, <1>5, <2>1, <2>2, <3>1, <3>2, RunMoves
  <2>3. ASSUME NEW at \in [1..Cardinality(kept) -> kept], Increasing(at),
               subs' = Picked(subs, at), Go(p, "readSubs")
        PROVE  RunInv'
    <3>1. kept \subseteq DOMAIN subs
      OBVIOUS
    <3> HIDE DEF kept
    <3>2. \A i, j \in DOMAIN subs' : i # j =>
            \E a, b \in DOMAIN subs : a # b /\ subs'[i] = subs[a] /\ subs'[j] = subs[b]
      BY <1>3, <2>3, <3>1, KeptOf
    <3>6. Unique(subs) => Unique(subs')
      BY <3>2 DEF Unique
    <3>3. l'[p].pc = "readSubs" /\ l'[p].op = l[p].op
      BY <1>1, <2>3, GoMoves
    <3>4. l[p].op # "refresh"
      BY <1>3, <2>1 DEF CommandAt
    <3>5. RunsAt(p)'
      BY <3>3, <3>4 DEF RunsAt, Steady
    <3> QED
      BY <1>1, <1>4, <1>5, <2>1, <3>3, <3>5, <3>6, RunMoves
  <2>4. \/ Return(p, "err") /\ UNCHANGED subs
        \/ /\ \E at \in [1..Cardinality(kept) -> kept] :
                Increasing(at) /\ subs' = Picked(subs, at)
           /\ Go(p, "readSubs")
    BY <1>8, Zenon DEF DropSub, Increasing, Picked
  <2> HIDE DEF kept
  <2> QED
    BY <2>2, <2>3, <2>4
<1>9. CASE Merge(p)
  <2>1. /\ l[p].pc = "merge" /\ subs' = Merged(subs, l[p].recs) /\ Go(p, "readSubs")
        /\ UNCHANGED <<manual, fw, disk, faults>>
    BY <1>9, Zenon DEF Merge
  <2>2. l'[p].pc = "readSubs" /\ l'[p].op = l[p].op /\ l'[p].changed = l[p].changed
    BY <1>1, <2>1, GoMoves
  <2>3. l[p].recs \in Subs
    BY <1>3, <2>1 DEF FeedAt
  <2>4. DOMAIN subs' = DOMAIN subs /\ \A i \in DOMAIN subs : subs'[i].url = subs[i].url
    BY <1>3, <2>1, <2>3, MergedKeeps
  <2>5. Unique(subs) => Unique(subs')
    BY <2>4 DEF Unique
  <2>6. ASSUME faults = 0, RunsAt(p), ~l[p].changed PROVE Runs'
    <3>1. subs' = subs
      BY <1>3, <1>4, <2>1, <2>6, MergedSame DEF RunsAt
    <3> QED
      BY <1>2, <2>1, <2>6, <3>1 DEF RunsAt, Steady, Runs, Eff
  <2>7. faults = 0 /\ RunsAt(p) => RunsAt(p)'
    BY <2>2, <2>6 DEF RunsAt, Steady
  <2> QED
    BY <1>1, <1>4, <1>5, <2>1, <2>2, <2>5, <2>7, RunMoves
<1>10. CASE EditFirewall(p)
  <2>1. /\ l[p].pc = "fwEdit" /\ UNCHANGED <<manual, subs, disk, faults>>
        /\ \/ l'[p].pc = "fwSave"
           \/ l'[p].pc = "idle" /\ UNCHANGED fw
    <3>1. ASSUME NEW v, l' = [l EXCEPT ![p].recs = v, ![p].pc = "fwSave"] PROVE l'[p].pc = "fwSave"
      BY <1>1, <3>1 DEF Locals, Local
    <3> QED
      BY <1>1, <1>10, <3>1, ReturnMoves DEF EditFirewall
  <2>2. RunsAt(p) => RunsAt(p)'
    BY <1>2, <2>1 DEF RunsAt, Steady, Runs, Eff
  <2> QED
    BY <1>1, <1>4, <1>5, <2>1, <2>2, RunMoves
<1>11. CASE WriteSubs(p) \/ SaveFirewall(p) \/ WriteSave(p)
  <2>1. UNCHANGED <<manual, subs, fw>>
    BY <1>11 DEF WriteSubs, SaveFirewall, WriteSave, inputs
  <2>2. (Runs <=> Runs') /\ Eff' = Eff
    BY <1>2, <2>1 DEF Runs, Eff
  <2>3. /\ \/ l[p].pc = "writeSubs"
              /\ \/ l'[p].pc = "idle" /\ l[p].op = "refresh" /\ ~l[p].changed
                 \/ l'[p].pc = "prev"
           \/ l[p].pc = "fwSave"
              /\ \/ l'[p].pc = "idle" /\ mgr = None
                 \/ l'[p].pc = "idle" /\ Fault
                 \/ l'[p].pc = "prev"
           \/ l[p].pc = "writeSave" /\ l'[p].pc = "getMgr"
    BY <1>1, <1>11, GoMoves, ReturnMoves DEF WriteSubs, SaveFirewall, WriteSave
  <2>4. CommandAt(p)'
    BY <1>5, <2>3
  <2>5. Fault => faults' # 0
    BY DEF Fault, SerialInv
  <2>6. faults' = 0 /\ RunsAt(p) => RunsAt(p)'
    BY <2>2, <2>3, <2>5 DEF RunsAt, Steady, Runs
  <2>7. \/ UNCHANGED disk
        \/ disk' = [disk EXCEPT !.subs = l[p].recs] /\ l[p].pc = "writeSubs"
        \/ disk' = [disk EXCEPT !.fw = l[p].recs]
        \/ disk' = [disk EXCEPT !.manual = l[p].buf]
    BY <1>11 DEF WriteSubs, SaveFirewall, WriteSave
  <2>8. disk'.subs = disk.subs \/ (disk'.subs = l[p].recs /\ l[p].pc = "writeSubs")
    BY <1>3, <2>7, Written
  <2>9. faults = 0 => Unique(disk'.subs)
    BY <1>4, <2>8 DEF SavedAt
  <2> QED
    BY <1>1, <1>4, <2>1, <2>4, <2>6, <2>9, RunMoves
<1> QED
  BY <1>6, <1>7, <1>8, <1>9, <1>10, <1>11 DEF Edit

\* The steps that work on managers: a manager is built from what effectiveLinks gave and
\* from the rules of this moment, and then swapped in.
LEMMA RunRuntime ==
  ASSUME SerialInv, RunInv, NEW p \in All, faults' = 0 => faults = 0,
         ShutOld(p) \/ Build(p) \/ Swap(p) \/ ClearShut(p) \/ Clear(p) \/ Start(p)
  PROVE  RunInv'
<1>1. Moves(p) /\ Busy(p) /\ Locals /\ Local(l[p])
  BY ServeMoves DEF SerialInv, ModeInv, Serve, Locals
<1>2. UNCHANGED <<manual, subs, fw, disk>>
  BY DEF ShutOld, Build, Swap, ClearShut, Clear, Start, inputs
<1>3. Eff' = Eff /\ CommandAt(p)
  BY <1>2 DEF Eff, RunInv
<1>4. ASSUME l'[p].pc \in {"build", "swap", "readSave", "clearRead", "clear", "idle", "getMgr"},
             l[p].op = "off" => l[p].pc = "clearShut" /\ l'[p].pc = "idle"
      PROVE  CommandAt(p)'
  BY <1>1, <1>4, ServeKeeps DEF CommandAt, Serve
<1>5. SUFFICES CommandAt(p)' /\ (faults' = 0 /\ RunsAt(p) => RunsAt(p)')
  BY <1>1, <1>2, RunMoves DEF RunInv
<1>6. CASE ShutOld(p)
  <2>1. /\ l[p].pc = "shutOld" /\ l'[p].pc = "build" /\ l'[p].buf = l[p].buf
        /\ UNCHANGED <<mgr, links, built>>
    BY <1>1, <1>6, GoMoves DEF ShutOld
  <2>2. CommandAt(p)'
    BY <1>3, <1>4, <2>1 DEF CommandAt
  <2> QED
    BY <1>3, <2>1, <2>2 DEF RunsAt, Steady
<1>7. CASE Build(p)
  <2>1. PICK m \in Mgrs : /\ built' = [built EXCEPT ![m] = [links |-> l[p].buf, fw |-> fw]]
                          /\ l' = [l EXCEPT ![p].m = m, ![p].pc = "swap"]
    BY <1>7 DEF Build
  <2>2. l[p].pc = "build" /\ l'[p].pc = "swap" /\ l'[p].m = m /\ l'[p].buf = l[p].buf
    BY <1>1, <1>7, <2>1 DEF Build, Locals, Local
  <2>3. built'[m] = [links |-> l[p].buf, fw |-> fw]
    BY <2>1 DEF SerialInv, BuiltInv
  <2>4. CommandAt(p)'
    BY <1>3, <1>4, <2>2 DEF CommandAt
  <2>5. RunsAt(p) => RunsAt(p)'
    BY <1>2, <1>3, <2>2, <2>3 DEF RunsAt, Steady
  <2> QED
    BY <2>4, <2>5
<1>8. CASE Swap(p)
  <2>1. /\ l[p].pc = "swap" /\ l'[p].pc = "readSave" /\ UNCHANGED built
        /\ mgr' = l[p].m /\ links' = l[p].buf
    BY <1>1, <1>8, GoMoves DEF Swap
  <2>2. CommandAt(p)'
    BY <1>3, <1>4, <2>1 DEF CommandAt
  <2>3. ASSUME RunsAt(p) PROVE Runs'
    <3>1. /\ l[p].buf = Eff /\ Eff # <<>> /\ l[p].m \in Mgrs
          /\ built[l[p].m] = [links |-> l[p].buf, fw |-> fw]
      BY <2>1, <2>3 DEF RunsAt
    <3> QED
      BY <1>2, <1>3, <2>1, <3>1, KeySetConstantsOK DEF Runs
  <2> QED
    BY <2>1, <2>2, <2>3 DEF RunsAt
<1>9. CASE ClearShut(p)
  <2>1. ASSUME l' = [l EXCEPT ![p].round = 2,
                              ![p].pc = IF l[p].round = 1 THEN "clearRead" ELSE "clear"]
        PROVE  l'[p].pc \in {"clearRead", "clear"} /\ l'[p].op = l[p].op
    BY <1>1, <2>1 DEF Locals, Local
  <2>2. /\ l[p].pc = "clearShut" /\ UNCHANGED <<mgr, links, built>>
        /\ \/ l'[p].pc = "idle" /\ l[p].op = "off"
           \/ l'[p].pc \in {"clearRead", "clear"} /\ l'[p].op = l[p].op /\ l[p].op # "off"
           \/ l'[p].pc = "idle" /\ Fault
    BY <1>1, <1>9, <2>1, ReturnMoves DEF ClearShut
  <2>3. CommandAt(p)'
    BY <1>4, <2>2
  <2>4. Fault => faults' # 0
    BY DEF Fault, SerialInv
  <2>5. Runs => Runs'
    BY <1>2, <1>3, <2>2 DEF Runs
  <2> QED
    BY <1>3, <2>2, <2>3, <2>4, <2>5 DEF RunsAt, Steady
<1>10. CASE Clear(p)
  <2>1. l[p].pc = "clear" /\ l'[p].pc = "readSave" /\ mgr' = None /\ links' = <<>>
    BY <1>1, <1>10, GoMoves DEF Clear
  <2>2. CommandAt(p)'
    BY <1>3, <1>4, <2>1 DEF CommandAt
  <2> QED
    BY <1>3, <2>1, <2>2 DEF RunsAt, Runs
<1>11. CASE Start(p)
  <2>1. l[p].pc = "start" /\ UNCHANGED <<mgr, links, built>>
    BY <1>11 DEF Start
  <2>2. Runs => Runs'
    BY <1>2, <1>3, <2>1 DEF Runs
  <2>3. ASSUME l' = [l EXCEPT ![p].op = "off", ![p].pc = "clearRead"]
        PROVE  l'[p].pc = "clearRead" /\ l'[p].op = "off"
    BY <1>1, <2>3 DEF Locals, Local
  <2>4. ASSUME l' = [l EXCEPT ![p].prev = "proxy", ![p].pc = "getMgr"]
        PROVE  l'[p].pc = "getMgr"
    BY <1>1, <2>4 DEF Locals, Local
  <2>5. \/ l'[p].pc \in {"idle", "getMgr"}
        \/ l'[p].pc = "clearRead" /\ l'[p].op = "off"
    BY <1>1, <1>11, <2>3, <2>4, ReturnMoves DEF Start
  <2>6. CommandAt(p)'
    BY <1>3, <1>4, <2>1, <2>5 DEF CommandAt
  <2> QED
    BY <2>1, <2>2, <2>5, <2>6 DEF RunsAt, Steady
<1> QED
  BY <1>6, <1>7, <1>8, <1>9, <1>10, <1>11

LEMMA RunStep ==
  ASSUME Serial = TRUE, SerialInv, SavedInv, FeedInv, RunInv, [KNext]_kvars
  PROVE  RunInv'
<1>0. faults' = 0 => faults = 0
  BY Counters DEF SerialInv
<1>1. ASSUME NEW p \in Procs, NEW op \in DOMAIN First, Issue(p, op)
      PROVE  RunInv'
  <2>1. p \in All /\ Locals
    BY DEF All, SerialInv, ModeInv
  <2>2. /\ Moves(p) /\ Settled /\ l[p].pc = "idle"
        /\ UNCHANGED <<manual, subs, fw, mgr, links, built, disk, faults>>
    BY <1>1, <2>1, IssueMoves DEF inputs, runtime, MayBegin, Busy
  <2>3. Runs => Runs'
    BY <2>2 DEF Runs, Eff
  <2>4. CommandAt(p)'
    BY <1>1, <2>1, IssueMoves DEF CommandAt
  <2>5. RunsAt(p) => RunsAt(p)'
    BY <1>1, <2>1, <2>2, <2>3, IssueMoves DEF RunsAt, Steady
  <2> QED
    BY <2>1, <2>2, <2>4, <2>5, RunMoves DEF RunInv
<1>2. ASSUME NEW p \in All, Serve(p) PROVE RunInv'
  BY <1>0, <1>2, RunThinks, RunEdits, RunRuntime DEF Serve, Thinks, Edit
<1>3. CASE Startup
  <2>1. Main \in All /\ Locals
    BY DEF All, SerialInv, ModeInv
  <2>2. /\ Moves(Main) /\ Busy(Main) /\ l[Main].pc = "startup" /\ l'[Main].op = l[Main].op
        /\ UNCHANGED <<manual, subs, fw, mgr, links, built, disk, faults>>
        /\ \/ l'[Main].pc \in {"setManual", "effective"}
           \/ l'[Main].pc = "getMgr" /\ subs = <<>>
    BY <1>3, <2>1, GoMoves DEF Startup, inputs, runtime, Busy
  <2>3. CommandAt(Main)'
    BY <2>1, <2>2 DEF SerialInv, ModeInv, AtMode, CommandAt
  <2>4. ASSUME RunsAt(Main), subs = <<>> PROVE Runs'
    <3>1. manual = <<>> /\ mgr = None /\ links = <<>>
      BY <2>2, <2>4 DEF RunsAt
    <3>2. Eff' = <<>>
      BY <2>2, <2>4, <3>1, NothingToRun DEF Eff
    <3> QED
      BY <2>2, <3>1, <3>2 DEF Runs
  <2>5. RunsAt(Main) => RunsAt(Main)'
    BY <2>2, <2>4 DEF RunsAt, Steady
  <2> QED
    BY <2>1, <2>2, <2>3, <2>5, RunMoves DEF RunInv
<1>4. ASSUME NEW auto, Restart(auto) PROVE RunInv'
  <2>1. Main \in All
    BY DEF All
  <2>2. /\ UNCHANGED <<disk, faults>> /\ subs' = disk.subs /\ manual' = <<>> /\ mgr' = None
        /\ links' = <<>>
    BY <1>4 DEF Restart
  <2>3. /\ \A p \in All : l'[p].pc = IF p = Main THEN "startup" ELSE "idle"
        /\ l'[Main].op = "load"
    BY <1>4, RestartLocals
  <2>4. \A p \in All : p # Main => l'[p].op = "none"
    BY <1>4 DEF Restart, AtRest
  <2>5. \A p \in All : CommandAt(p)'
    BY <2>3, <2>4 DEF CommandAt
  <2>6. RunsAt(Main)'
    BY <2>1, <2>2, <2>3 DEF RunsAt, Steady
  <2>7. \A p \in All : Alone(p)' => p = Main
    BY <2>1, <2>3 DEF Alone, Busy
  <2> QED
    BY <2>2, <2>5, <2>6, <2>7 DEF RunInv
<1>5. CASE UNCHANGED kvars
  <2>1. UNCHANGED <<manual, subs, fw, mgr, links, built, disk, faults, l>>
    BY <1>5 DEF kvars, inputs, runtime
  <2>2. Eff' = Eff
    BY <2>1 DEF Eff
  <2> QED
    BY <2>1, <2>2 DEF RunInv, CommandAt, RunsAt, Runs, Alone, Busy
<1> QED
  BY <1>1, <1>2, <1>3, <1>4, <1>5 DEF KNext

\* With one command at a time and no failed write or close, whenever no command is being
\* served the manager in use was built from the keys, subscriptions and rules as they are
\* then, and there is none when there is nothing to run.
THEOREM RuntimeFollowsTheInputs ==
  ASSUME Serial = TRUE PROVE KSpec => []RuntimeRunsEffective
<1> DEFINE Inv == SerialInv /\ SavedInv /\ FeedInv /\ RunInv
<1>1. KInit => Inv
  BY SerialInit, SavedInit, FeedInit, RunInit
<1>2. Inv /\ [KNext]_kvars => Inv'
  BY SerialStep, SavedStep, FeedStep, RunStep
<1>3. Inv => RuntimeRunsEffective
  <2> SUFFICES ASSUME RunInv, Settled, faults = 0 PROVE Runs
    BY DEF RuntimeRunsEffective, Runs, Eff
  <2>1. Main \in All /\ l[Main].pc = "idle" /\ RunsAt(Main)
    BY DEF RunInv, Settled, Alone, Busy, All
  <2> QED
    BY <2>1 DEF RunsAt, Steady
<1> QED
  BY <1>1, <1>2, <1>3, PTL DEF KSpec
=============================================================================
