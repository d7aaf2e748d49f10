--------------------------- MODULE AppRoutingProofs ---------------------------
(***************************************************************************)
(* Proofs about the routing of applications, for every set of processes    *)
(* and applications: a cached list of applications is truthful whatever    *)
(* PIDs are reused and however many requests are in flight, and with one   *)
(* request at a time what was asked to be routed stays a target.           *)
(***************************************************************************)
EXTENDS AppRouting, TLAPS

-----------------------------------------------------------------------------
(* The cached list of applications. *)

Process == [app : Apps \cup {None}, start : Nat]

ProcTypeOK ==
  /\ starts \in Nat
  /\ proc \in [PIDs -> Process \cup {None}]
  /\ \A p \in PIDs : proc[p] # None => proc[p].start <= starts

\* An identity that was read belongs to a process that has started.
Seen(i) == i \in Nat /\ i <= starts

\* Two maps of a list agree with the processes that are still the ones seen.
Truthful(apps, ids) ==
  /\ DOMAIN apps \subseteq PIDs /\ DOMAIN ids \subseteq PIDs
  /\ \A p \in DOMAIN ids : Seen(ids[p])
  /\ \A p \in DOMAIN apps \cap DOMAIN ids : Identity(p) = ids[p] => AppOf(p) = apps[p]

\* The process under resolution is in neither map, so what it was resolved to earlier
\* cannot be there.
ScanTypeOK ==
  /\ scan.pc \in {"idle", "next", "resolve", "verify"}
  /\ scan.todo \subseteq PIDs
  /\ scan.pc \in {"resolve", "verify"} =>
       /\ scan.pid \in PIDs /\ scan.pid \notin scan.todo
       /\ scan.pid \notin DOMAIN scan.apps \cup DOMAIN scan.ids
       /\ scan.before = None \/ Seen(scan.before)
  /\ \A p \in scan.todo : p \notin DOMAIN scan.apps \cup DOMAIN scan.ids

ScanInv ==
  /\ ScanTypeOK
  /\ Truthful(scan.apps, scan.ids)
  /\ scan.cacheable => DOMAIN scan.apps \subseteq DOMAIN scan.ids
  /\ scan.pc = "verify" /\ scan.before # None /\ Identity(scan.pid) = scan.before
       => AppOf(scan.pid) = scan.id

CacheInv ==
  cache # None =>
    Truthful(cache.apps, cache.ids) /\ DOMAIN cache.apps \subseteq DOMAIN cache.ids

ListInv == ProcTypeOK /\ ScanInv /\ CacheInv

LEMMA ListInit ==
  ASSUME AInit PROVE ListInv
<1>1. DOMAIN <<>> = {}
  OBVIOUS
<1>2. ProcTypeOK
  BY DEF AInit, ProcTypeOK
<1>3. ScanInv
  BY <1>1 DEF AInit, ScanInv, ScanTypeOK, Truthful, NoScan
<1> QED
  BY <1>2, <1>3 DEF ListInv, CacheInv, AInit

\* What processes may do between two steps of anybody: a process goes, or one starts
\* with an identity nobody has seen.
ProcStep ==
  /\ ProcTypeOK'
  /\ starts <= starts'
  /\ \A p \in PIDs :
       \/ proc'[p] = proc[p]
       \/ proc'[p] = None
       \/ proc'[p] # None /\ proc'[p].start > starts

\* An identity that was seen never comes back for another process.
LEMMA SeenStays ==
  ASSUME ProcTypeOK, ProcStep, NEW p \in PIDs, NEW i, Seen(i), Identity(p)' = i
  PROVE  Identity(p) = i /\ AppOf(p)' = AppOf(p) /\ Seen(i)'
<1>1. i \in Nat /\ i <= starts /\ i # None /\ starts \in Nat /\ starts' \in Nat
  BY AppConstantsOK DEF Seen, ProcTypeOK, ProcStep
<1>2. proc'[p] # None /\ proc'[p].start = i
  BY <1>1 DEF Identity
<1>3. proc'[p] = proc[p]
  BY <1>1, <1>2 DEF ProcStep
<1> QED
  BY <1>1, <1>2, <1>3 DEF Identity, AppOf, Seen, ProcStep

LEMMA TruthfulStays ==
  ASSUME ProcTypeOK, ProcStep, NEW apps, NEW ids, Truthful(apps, ids)
  PROVE  Truthful(apps, ids)'
<1>1. \A p \in DOMAIN ids : Seen(ids[p])'
  BY DEF Truthful, Seen, ProcTypeOK, ProcStep
<1>2. ASSUME NEW p \in DOMAIN apps \cap DOMAIN ids, Identity(p)' = ids[p]
      PROVE  AppOf(p)' = apps[p]
  BY <1>2, SeenStays DEF Truthful
<1> QED
  BY <1>1, <1>2 DEF Truthful

\* A step that is not the scan's keeps the list, whatever processes come and go.
LEMMA ProcessesInv ==
  ASSUME ListInv, ProcStep,
         scan' = scan \/ scan' = NoScan, cache' = cache \/ cache' = None
  PROVE  ListInv'
<1>1. ProcTypeOK /\ ScanInv /\ CacheInv
  BY DEF ListInv
<1>2. ScanInv'
  <2>1. CASE scan' = NoScan
    <3>1. DOMAIN <<>> = {}
      OBVIOUS
    <3> QED
      BY <2>1, <3>1 DEF ScanInv, ScanTypeOK, Truthful, NoScan
  <2>2. CASE scan' = scan
    <3>1. ScanTypeOK'
      BY <1>1, <2>2 DEF ScanInv, ScanTypeOK, Seen, ProcTypeOK, ProcStep
    <3>2. Truthful(scan.apps, scan.ids)'
      BY <1>1, <2>2, TruthfulStays DEF ScanInv, Truthful, Seen, Identity, AppOf
    <3>3. ASSUME scan.pc = "verify", scan.before # None, Identity(scan.pid)' = scan.before
          PROVE  AppOf(scan.pid)' = scan.id
      <4>1. scan.pid \in PIDs /\ Seen(scan.before)
        BY <1>1, <3>3 DEF ScanInv, ScanTypeOK
      <4>2. scan.pid' = scan.pid
        BY <2>2
      <4>3. proc'[scan.pid] # None /\ proc'[scan.pid].start = scan.before
        BY <3>3, <4>2 DEF Identity
      <4>4. Identity(scan.pid) = scan.before /\ proc'[scan.pid] = proc[scan.pid]
        BY <1>1, <4>1, <4>3 DEF Identity, Seen, ProcStep, ProcTypeOK
      <4>5. AppOf(scan.pid) = scan.id
        BY <1>1, <3>3, <4>4 DEF ScanInv
      <4> QED
        BY <4>2, <4>4, <4>5 DEF AppOf
    <3> QED
      BY <1>1, <2>2, <3>1, <3>2, <3>3 DEF ScanInv, Identity, AppOf
  <2> QED
    BY <2>1, <2>2
<1>3. CacheInv'
  <2>1. CASE cache' = None
    BY <2>1 DEF CacheInv
  <2>2. CASE cache' = cache
    BY <1>1, <2>2, TruthfulStays DEF CacheInv, Truthful, Seen, Identity, AppOf
  <2> QED
    BY <2>1, <2>2
<1> QED
  BY <1>2, <1>3 DEF ListInv, ProcStep

LEMMA BornStep ==
  ASSUME ProcTypeOK, NEW p \in PIDs, NEW a \in Apps \cup {None}, Born(p, a)
  PROVE  ProcStep
<1> DEFINE q == [app |-> a, start |-> starts + 1]
<1>1. q \in Process /\ q.start = starts + 1 /\ q # None
  BY AppConstantsOK DEF ProcTypeOK, Process
<1>2. proc' = [proc EXCEPT ![p] = q] /\ starts' = starts + 1
  BY DEF Born
<1> HIDE DEF q
<1>3. /\ proc' \in [PIDs -> Process \cup {None}]
      /\ \A x \in PIDs : proc'[x] = IF x = p THEN q ELSE proc[x]
  BY <1>1, <1>2 DEF ProcTypeOK
<1>4. ProcTypeOK'
  BY <1>1, <1>2, <1>3 DEF ProcTypeOK, Process
<1> QED
  BY <1>1, <1>2, <1>3, <1>4 DEF ProcStep, ProcTypeOK

LEMMA GoneStep ==
  ASSUME ProcTypeOK, NEW p \in PIDs, proc' \in {proc, [proc EXCEPT ![p] = None]},
         starts' = starts
  PROVE  ProcStep
BY DEF ProcStep, ProcTypeOK

\* The scan: identify, resolve, verify, publish.
LEMMA ScanStep ==
  ASSUME ListInv, Rows \/ Identify \/ Resolve \/ Publish
  PROVE  ListInv'
<1>1. ProcTypeOK /\ ScanInv /\ CacheInv /\ starts \in Nat
  BY DEF ListInv, ProcTypeOK
<1>2. ProcTypeOK' /\ proc' = proc /\ starts' = starts
  BY <1>1 DEF Rows, Identify, Resolve, Publish, pvars, ProcTypeOK
<1>3. DOMAIN <<>> = {}
  OBVIOUS
<1>4. CASE Rows
  <2>1. ScanInv'
    BY <1>3, <1>4 DEF Rows, NoScan, ScanInv, ScanTypeOK, Truthful
  <2>2. CacheInv'
    BY <1>1, <1>2, <1>4 DEF Rows, CacheInv, Truthful, Seen, Identity, AppOf
  <2> QED
    BY <1>2, <2>1, <2>2 DEF ListInv
<1>5. CASE Identify
  <2>1. PICK p \in scan.todo :
          scan' = [scan EXCEPT !.pc = "resolve", !.todo = @ \ {p}, !.pid = p, !.before = Identity(p)]
    BY <1>5 DEF Identify
  <2>2. p \in PIDs /\ p \notin DOMAIN scan.apps \cup DOMAIN scan.ids
    BY <1>1 DEF ScanInv, ScanTypeOK
  <2>3. Identity(p) = None \/ Seen(Identity(p))
    BY <1>1, <2>2 DEF Identity, Seen, ProcTypeOK, Process
  <2>a. /\ scan'.pc = "resolve" /\ scan'.todo = scan.todo \ {p} /\ scan'.pid = p
        /\ scan'.before = Identity(p) /\ scan'.apps = scan.apps /\ scan'.ids = scan.ids
        /\ scan'.cacheable = scan.cacheable
    BY <2>1
  <2>4. ScanTypeOK'
    BY <1>1, <1>2, <2>2, <2>3, <2>a DEF ScanInv, ScanTypeOK, Seen
  <2>5. ScanInv'
    BY <1>1, <1>2, <2>4, <2>a DEF ScanInv, Truthful, Seen, Identity, AppOf
  <2>6. CacheInv'
    BY <1>1, <1>2, <1>5 DEF Identify, CacheInv, Truthful, Seen, Identity, AppOf
  <2> QED
    BY <1>2, <2>5, <2>6 DEF ListInv
<1>6. CASE Resolve
  <2>1. scan' = [scan EXCEPT !.pc = "verify", !.id = AppOf(scan.pid)] /\ scan.pc = "resolve"
    BY <1>6 DEF Resolve
  <2>a. /\ scan'.pc = "verify" /\ scan'.todo = scan.todo /\ scan'.pid = scan.pid
        /\ scan'.before = scan.before /\ scan'.apps = scan.apps /\ scan'.ids = scan.ids
        /\ scan'.cacheable = scan.cacheable /\ scan'.id = AppOf(scan.pid)
    BY <2>1
  <2>2. ScanTypeOK'
    BY <1>1, <1>2, <2>1, <2>a DEF ScanInv, ScanTypeOK, Seen
  <2>3. ScanInv'
    BY <1>1, <1>2, <2>2, <2>a DEF ScanInv, Truthful, Seen, Identity, AppOf
  <2>4. CacheInv'
    BY <1>1, <1>2, <1>6 DEF Resolve, CacheInv, Truthful, Seen, Identity, AppOf
  <2> QED
    BY <1>2, <2>3, <2>4 DEF ListInv
<1>7. CASE Publish
  <2>1. ScanInv'
    BY <1>3, <1>7 DEF Publish, NoScan, ScanInv, ScanTypeOK, Truthful
  <2>2. CacheInv'
    <3>1. CASE scan.cacheable
      <4>1. cache'.apps = scan.apps /\ cache'.ids = scan.ids
        BY <1>7, <3>1 DEF Publish
      <4> QED
        BY <1>1, <1>2, <3>1, <4>1 DEF ScanInv, CacheInv, Truthful, Seen, Identity, AppOf
    <3>2. CASE ~scan.cacheable
      BY <1>7, <3>2 DEF Publish, CacheInv
    <3> QED
      BY <3>1, <3>2
  <2> QED
    BY <1>2, <2>1, <2>2 DEF ListInv
<1> QED
  BY <1>4, <1>5, <1>6, <1>7

\* A process enters the lists only with the identity it had before and after it was
\* resolved, or in a list that will not be cached.
LEMMA VerifyStep ==
  ASSUME ListInv, Verify
  PROVE  ListInv'
<1> DEFINE p == scan.pid
           verified == scan.before # None /\ Identity(p) = scan.before
           shown == scan.id # None /\ (scan.before = None \/ verified)
<1>1. ProcTypeOK /\ ScanInv /\ CacheInv
  BY DEF ListInv
<1>2. /\ proc' = proc /\ starts' = starts /\ cache' = cache
      /\ scan.pc = "verify"
      /\ scan'.pc = "next" /\ scan'.todo = scan.todo
      /\ scan'.cacheable = (scan.cacheable /\ verified)
      /\ scan'.ids = IF verified THEN With(scan.ids, p, scan.before) ELSE scan.ids
      /\ scan'.apps = IF shown THEN With(scan.apps, p, scan.id) ELSE scan.apps
  BY DEF Verify, pvars
<1>3. /\ p \in PIDs /\ p \notin scan.todo /\ p \notin DOMAIN scan.apps \cup DOMAIN scan.ids
      /\ verified => Seen(scan.before) /\ AppOf(p) = scan.id
  BY <1>1, <1>2 DEF ScanInv, ScanTypeOK
<1>4. ProcTypeOK' /\ CacheInv'
  BY <1>1, <1>2 DEF ProcTypeOK, CacheInv, Truthful, Seen, Identity, AppOf
<1> HIDE DEF verified, shown, p
<1>5. /\ shown => /\ DOMAIN scan'.apps = DOMAIN scan.apps \cup {p}
                  /\ scan'.apps[p] = scan.id
                  /\ \A x \in DOMAIN scan.apps : scan'.apps[x] = scan.apps[x]
      /\ ~shown => scan'.apps = scan.apps
  BY <1>2, <1>3 DEF With
<1>6. /\ verified => /\ DOMAIN scan'.ids = DOMAIN scan.ids \cup {p}
                     /\ scan'.ids[p] = scan.before
                     /\ \A x \in DOMAIN scan.ids : scan'.ids[x] = scan.ids[x]
      /\ ~verified => scan'.ids = scan.ids
  BY <1>2, <1>3 DEF With
<1>7. ScanTypeOK'
  BY <1>1, <1>2, <1>3, <1>5, <1>6 DEF ScanInv, ScanTypeOK
<1>8. Truthful(scan.apps, scan.ids)'
  <2>1. DOMAIN scan'.apps \subseteq PIDs /\ DOMAIN scan'.ids \subseteq PIDs
    BY <1>1, <1>3, <1>5, <1>6 DEF ScanInv, Truthful
  <2>2. ASSUME NEW x \in DOMAIN scan'.ids PROVE Seen(scan'.ids[x])
    <3>1. CASE x = p /\ verified
      BY <1>3, <1>5, <1>6, <3>1
    <3>2. CASE ~(x = p /\ verified)
      BY <1>1, <1>5, <1>6, <2>2, <3>2 DEF ScanInv, Truthful
    <3> QED
      BY <3>1, <3>2
  <2>3. ASSUME NEW x \in DOMAIN scan'.apps \cap DOMAIN scan'.ids, Identity(x) = scan'.ids[x]
        PROVE  AppOf(x) = scan'.apps[x]
    <3>1. CASE x # p
      BY <1>1, <1>5, <1>6, <2>3, <3>1 DEF ScanInv, Truthful
    <3>2. CASE x = p
      <4>1. shown
        BY <1>3, <1>5, <1>6, <2>3, <3>2
      <4>2. verified
        BY <1>3, <1>5, <1>6, <2>3, <3>2
      <4> QED
        BY <1>3, <1>5, <1>6, <3>2, <4>1, <4>2
    <3> QED
      BY <3>1, <3>2
  <2> QED
    BY <1>2, <2>1, <2>2, <2>3 DEF Truthful, Seen, Identity, AppOf
<1>9. scan'.cacheable => DOMAIN scan'.apps \subseteq DOMAIN scan'.ids
  BY <1>1, <1>2, <1>5, <1>6 DEF ScanInv
<1> QED
  BY <1>2, <1>4, <1>7, <1>8, <1>9 DEF ListInv, ScanInv

\* No step makes a cached list lie.
LEMMA ListStep ==
  ASSUME ListInv, [ANext]_avars
  PROVE  ListInv'
<1> USE DEF pvars, dvars, lvars
<1>1. ProcTypeOK
  BY DEF ListInv
<1>2. ASSUME proc' = proc, starts' = starts,
             scan' = scan \/ scan' = NoScan, cache' = cache \/ cache' = None
      PROVE  ListInv'
  <2>1. ProcStep
    BY <1>1, <1>2 DEF ProcStep, ProcTypeOK
  <2> QED
    BY <1>2, <2>1, ProcessesInv
<1>3. ASSUME NEW p \in PIDs, NEW a \in Apps \cup {None}, Fork(p, a) \/ LaunchProxied(p, a)
      PROVE  ListInv'
  BY <1>1, <1>3, BornStep, ProcessesInv DEF Fork, LaunchProxied
<1>4. ASSUME NEW p \in PIDs, Dies(p) \/ StopProxied(p)
      PROVE  ListInv'
  <2>1. proc' \in {proc, [proc EXCEPT ![p] = None]} /\ starts' = starts /\ UNCHANGED lvars
    BY <1>4 DEF Dies, StopProxied
  <2> QED
    BY <1>1, <2>1, GoneStep, ProcessesInv
<1>5. ASSUME NEW p \in PIDs, RoutePID(p) \/ UnroutePID(p)
      PROVE  ListInv'
  BY <1>2, <1>5 DEF RoutePID, UnroutePID
<1>6. ASSUME NEW r \in Requests, NEW a \in Apps,
             \/ RouteApp(r, a) \/ UnrouteApp(r, a) \/ RemoveProxiedApp(r, a)
             \/ \E on \in BOOLEAN : SetProxiedAppEnabled(r, a, on)
      PROVE  ListInv'
  BY <1>2, <1>6 DEF RouteApp, UnrouteApp, RemoveProxiedApp, SetProxiedAppEnabled
<1>7. ASSUME NEW r \in Requests, NEW a \in Apps, NEW p \in PIDs, LaunchProxiedApp(r, p, a)
      PROVE  ListInv'
  BY <1>1, <1>7, BornStep, ProcessesInv DEF LaunchProxiedApp
<1>8. ASSUME NEW r \in Requests,
             \/ AddPID(r) \/ DropPID(r) \/ Dropped(r) \/ Change(r) \/ Save(r) \/ Write(r)
             \/ EnabledBundleIDs(r) \/ ListRoutedApps(r) \/ SetTargets(r)
      PROVE  ListInv'
  <2>1. /\ proc' = proc /\ starts' = starts /\ scan' = scan
        /\ cache' = cache \/ cache' = None
    BY <1>8 DEF AddPID, DropPID, Dropped, Change, Save, Write, EnabledBundleIDs,
                ListRoutedApps, SetTargets
  <2> QED
    BY <1>2, <2>1
<1>9. CASE ResetRouter \/ Shutdown \/ End \/ Start
  BY <1>2, <1>9 DEF ResetRouter, Shutdown, End, Start
<1>10. CASE Rows \/ Identify \/ Resolve \/ Publish
  BY <1>10, ScanStep
<1>11. CASE Verify
  BY <1>11, VerifyStep
<1>12. CASE UNCHANGED avars
  BY <1>2, <1>12 DEF avars
<1> QED
  BY <1>3, <1>4, <1>5, <1>6, <1>7, <1>8, <1>9, <1>10, <1>11, <1>12 DEF ANext

\* A list served from the cache shows every process under the application it belongs
\* to: the identity read before and after a bundle is resolved, and again on a hit,
\* rules out a PID that was reused at any moment, for any number of requests.
THEOREM CachedListIsTruthful == ASpec => []CacheIsTruthful
<1>1. AInit => ListInv
  BY ListInit
<1>2. ListInv /\ [ANext]_avars => ListInv'
  BY ListStep
<1>3. ListInv => CacheIsTruthful
  <2> SUFFICES ASSUME ListInv, Valid, NEW p \in DOMAIN cache.apps
               PROVE  AppOf(p) = cache.apps[p]
    BY DEF CacheIsTruthful
  <2>1. p \in DOMAIN cache.ids /\ Identity(p) = cache.ids[p]
    BY DEF ListInv, CacheInv, Valid
  <2> QED
    BY <2>1 DEF ListInv, CacheInv, Valid, Truthful
<1> QED
  BY <1>1, <1>2, <1>3, PTL DEF ASpec

-----------------------------------------------------------------------------
(* The targets of the extension, with one request at a time. *)

OneAtATime == \A q, r \in Requests : q = r

Lists == [Apps -> BOOLEAN \cup {None}]

RequestType ==
  [pc : {"idle", "add", "drop", "unroute", "change", "save", "write", "enabled", "routed", "set"},
   app : Apps \cup {None}, on : BOOLEAN \cup {None}, routes : BOOLEAN, todo : SUBSET PIDs, ok : BOOLEAN,
   val : Lists \cup SUBSET Apps]

TargetTypeOK ==
  /\ entries \in Lists /\ disk \in Lists /\ wanted \in Lists
  /\ req \in [Requests -> RequestType]

\* What a request in flight knows: nothing is promised for its application, and from
\* its change of the list on, the list, then the disk, then the value it carries have it.
Carried(q, w, e, d) ==
  /\ q.pc \notin {"idle", "unroute"} => q.app \in Apps /\ w[q.app] = None
  /\ q.pc \in {"save", "write", "enabled", "routed", "set"} => e[q.app] = q.on
  /\ q.pc = "write" => q.val = e
  /\ q.pc \in {"enabled", "routed", "set"} => d = e
  /\ q.pc \in {"routed", "set"} => q.val \in SUBSET Apps /\ Enabled(e) \subseteq q.val

\* What is promised is in the list and on the disk.
Kept == \A a \in Apps : wanted[a] = TRUE => entries[a] = TRUE /\ disk[a] = TRUE

Captured == up = "up" /\ flushed => \A a \in Apps : wanted[a] = TRUE => a \in file

TargetInv ==
  /\ TargetTypeOK
  /\ \A r \in Requests : Carried(req[r], wanted, entries, disk)
  /\ Kept /\ Captured
  /\ up = "down" => \A r \in Requests : req[r].pc = "idle"

LEMMA IdleRequest ==
  /\ NoRequest \in RequestType /\ NoRequest.pc = "idle"
  /\ \A w, e, d : Carried(NoRequest, w, e, d)
BY DEF NoRequest, RequestType, Carried

LEMMA TargetInit ==
  ASSUME AInit PROVE TargetInv
<1>1. TargetTypeOK
  BY IdleRequest DEF AInit, TargetTypeOK, Lists
<1>2. \A r \in Requests : req[r] = NoRequest
  BY DEF AInit
<1>3. Kept /\ Captured
  BY AppConstantsOK DEF AInit, Kept, Captured
<1> QED
  BY <1>1, <1>2, <1>3, IdleRequest DEF TargetInv, AInit

\* A step that touches none of the state concerned.
LEMMA OtherInv ==
  ASSUME TargetInv, UNCHANGED <<up, entries, disk, file, flushed, req, wanted>>
  PROVE  TargetInv'
<1>1. TargetTypeOK' /\ \A r \in Requests : Carried(req[r], wanted, entries, disk)'
  BY DEF TargetInv, TargetTypeOK
<1>2. Kept' /\ Captured'
  BY DEF TargetInv, Kept, Captured
<1> QED
  BY <1>1, <1>2 DEF TargetInv

\* The only request in flight moves on.
LEMMA RequestMoves ==
  ASSUME OneAtATime, TargetInv, NEW r \in Requests, NEW q \in RequestType,
         req' = [req EXCEPT ![r] = q], up' = up, up # "down",
         entries' \in Lists, disk' \in Lists, wanted' \in Lists,
         Carried(q, wanted', entries', disk'),
         Kept', Captured'
  PROVE  TargetInv'
<1>1. req' \in [Requests -> RequestType] /\ req'[r] = q
  BY DEF TargetInv, TargetTypeOK
<1>2. \A x \in Requests : x = r
  BY DEF OneAtATime
<1>3. TargetTypeOK'
  BY <1>1 DEF TargetTypeOK
<1>4. \A x \in Requests : Carried(req'[x], wanted', entries', disk')
  BY <1>1, <1>2
<1> QED
  BY <1>3, <1>4 DEF TargetInv, Carried

\* A request begins; what was promised for its application is withdrawn.
LEMMA CallMoves ==
  ASSUME OneAtATime, TargetInv, NEW r \in Requests, NEW q \in RequestType, NEW a \in Apps,
         Call(r, q), q.app = a, q.pc \in {"add", "drop", "change", "save"},
         UNCHANGED <<up, disk, file, flushed>>,
         NEW on \in BOOLEAN \cup {None},
         \/ entries' = entries /\ q.pc # "save"
         \/ entries' = [entries EXCEPT ![a] = on] /\ q.on = on
  PROVE  TargetInv'
<1>1. TargetTypeOK /\ Kept /\ Captured /\ None # TRUE
  BY AppConstantsOK DEF TargetInv
<1>2. /\ req' = [req EXCEPT ![r] = q] /\ up # "down"
      /\ wanted' = [wanted EXCEPT ![a] = None]
  BY DEF Call, Begin
<1>3. /\ wanted' \in Lists /\ wanted'[a] = None
      /\ \A x \in Apps : x # a => wanted'[x] = wanted[x]
  BY <1>1, <1>2 DEF TargetTypeOK, Lists
<1>4. /\ entries' \in Lists /\ \A x \in Apps : x # a => entries'[x] = entries[x]
      /\ q.pc = "save" => entries'[a] = q.on
  BY <1>1 DEF TargetTypeOK, Lists
<1>5. Kept' /\ Captured'
  BY <1>1, <1>3, <1>4 DEF Kept, Captured
<1>6. Carried(q, wanted', entries', disk')
  BY <1>3, <1>4 DEF Carried
<1>7. disk' \in Lists
  BY <1>1 DEF TargetTypeOK
<1> QED
  BY <1>2, <1>3, <1>4, <1>5, <1>6, <1>7, RequestMoves

LEMMA BeginInv ==
  ASSUME OneAtATime, TargetInv, NEW r \in Requests, NEW a \in Apps,
         \/ RouteApp(r, a) \/ UnrouteApp(r, a) \/ RemoveProxiedApp(r, a)
         \/ \E on \in BOOLEAN : SetProxiedAppEnabled(r, a, on)
         \/ \E p \in PIDs : LaunchProxiedApp(r, p, a)
  PROVE  TargetInv'
<1> USE DEF dvars, svars, tvars
<1>1. None \in BOOLEAN \cup {None} /\ TRUE \in BOOLEAN \cup {None}
  OBVIOUS
<1>2. CASE RouteApp(r, a)
  <2> DEFINE q == [NoRequest EXCEPT !.pc = "add", !.app = a, !.on = TRUE, !.routes = TRUE,
                                    !.todo = {p \in PIDs : AppOf(p) = a}]
  <2>1. q \in RequestType /\ q.app = a /\ q.pc = "add"
    BY DEF NoRequest, RequestType
  <2>2. Call(r, q) /\ UNCHANGED <<up, entries, disk, file, flushed>>
    BY <1>2 DEF RouteApp
  <2> HIDE DEF q
  <2> QED
    BY <1>1, <2>1, <2>2, CallMoves
<1>3. CASE RemoveProxiedApp(r, a)
  <2> DEFINE q == [NoRequest EXCEPT !.pc = "drop", !.app = a, !.todo = {p \in PIDs : byPID[p] = a}]
  <2>1. q \in RequestType /\ q.app = a /\ q.pc = "drop"
    BY DEF NoRequest, RequestType
  <2>2. Call(r, q) /\ UNCHANGED <<up, entries, disk, file, flushed>>
    BY <1>3 DEF RemoveProxiedApp
  <2> HIDE DEF q
  <2> QED
    BY <1>1, <2>1, <2>2, CallMoves
<1>4. CASE \E p \in PIDs : LaunchProxiedApp(r, p, a)
  <2> DEFINE q == [NoRequest EXCEPT !.pc = "change", !.app = a, !.on = TRUE]
  <2>1. q \in RequestType /\ q.app = a /\ q.pc = "change"
    BY DEF NoRequest, RequestType
  <2>2. Call(r, q) /\ UNCHANGED <<up, entries, disk, file, flushed>>
    BY <1>4 DEF LaunchProxiedApp
  <2> HIDE DEF q
  <2> QED
    BY <1>1, <2>1, <2>2, CallMoves
<1>5. ASSUME NEW on \in BOOLEAN, SetProxiedAppEnabled(r, a, on)
      PROVE  TargetInv'
  <2> DEFINE q == [NoRequest EXCEPT !.pc = "save", !.app = a, !.on = on]
  <2>1. q \in RequestType /\ q.app = a /\ q.pc = "save" /\ q.on = on
    BY DEF NoRequest, RequestType
  <2>2. /\ Call(r, q) /\ UNCHANGED <<up, disk, file, flushed>>
        /\ entries' = [entries EXCEPT ![a] = on]
    BY <1>5 DEF SetProxiedAppEnabled
  <2> HIDE DEF q
  <2> QED
    BY <2>1, <2>2, CallMoves
<1>6. CASE UnrouteApp(r, a)
  <2> DEFINE q == [NoRequest EXCEPT !.pc = "unroute", !.app = a,
                                    !.todo = {p \in PIDs : byPID[p] = a}]
  <2>1. q \in RequestType /\ Carried(q, wanted, entries, disk)
    BY DEF NoRequest, RequestType, Carried
  <2>2. /\ req' = [req EXCEPT ![r] = q] /\ up # "down"
        /\ UNCHANGED <<up, entries, disk, file, flushed, wanted>>
    BY <1>6 DEF UnrouteApp, Begin
  <2>3. Kept' /\ Captured'
    BY <2>2 DEF TargetInv, Kept, Captured
  <2> HIDE DEF q
  <2> QED
    BY <2>1, <2>2, <2>3, RequestMoves DEF TargetInv, TargetTypeOK
<1> QED
  BY <1>2, <1>3, <1>4, <1>5, <1>6

\* A request that fails promises nothing.
LEMMA FailedInv ==
  ASSUME OneAtATime, TargetInv, NEW r \in Requests,
         req[r].pc \notin {"idle", "unroute"}, Answer(r, FALSE),
         UNCHANGED <<up, entries, disk, file>>, flushed' => flushed
  PROVE  TargetInv'
<1>1. /\ TargetTypeOK /\ Kept /\ Captured /\ None # TRUE
      /\ req[r].app \in Apps /\ up # "down"
  <2>1. Carried(req[r], wanted, entries, disk)
    BY DEF TargetInv
  <2>2. req[r].app \in Apps
    BY <2>1 DEF Carried
  <2> QED
    BY <2>2, AppConstantsOK DEF TargetInv
<1>2. req' = [req EXCEPT ![r] = NoRequest] /\ wanted' = [wanted EXCEPT ![req[r].app] = None]
  BY DEF Answer
<1>3. /\ wanted' \in Lists
      /\ \A x \in Apps : wanted'[x] = TRUE => wanted[x] = TRUE
  BY <1>1, <1>2 DEF TargetTypeOK, Lists
<1>4. Kept' /\ Captured'
  BY <1>1, <1>3 DEF Kept, Captured
<1> QED
  BY <1>1, <1>2, <1>3, <1>4, IdleRequest, RequestMoves DEF TargetTypeOK

\* A request moves on without touching the list, the disk and the targets.
LEMMA QuietMoves ==
  ASSUME OneAtATime, TargetInv, NEW r \in Requests, NEW q \in RequestType,
         req[r].pc # "idle",
         req' = [req EXCEPT ![r] = q], Carried(q, wanted, entries, disk),
         UNCHANGED <<up, entries, disk, file, flushed, wanted>>
  PROVE  TargetInv'
<1>1. up # "down"
  BY DEF TargetInv
<1>2. Kept' /\ Captured'
  BY DEF TargetInv, Kept, Captured
<1> QED
  BY <1>1, <1>2, RequestMoves DEF TargetInv, TargetTypeOK

LEMMA RouteInv ==
  ASSUME OneAtATime, TargetInv, NEW r \in Requests, AddPID(r) \/ DropPID(r) \/ Dropped(r)
  PROVE  TargetInv'
<1> USE DEF dvars, svars, tvars
<1>1. req[r] \in RequestType /\ Carried(req[r], wanted, entries, disk)
  BY DEF TargetInv, TargetTypeOK
<1>2. CASE AddPID(r)
  <2>1. PICK p \in req[r].todo, available \in BOOLEAN :
          LET ok == available /\ AppOf(p) # None IN
            IF req[r].todo = {p} /\ ~(req[r].ok /\ ok)
            THEN Answer(r, FALSE)
            ELSE /\ req' = [req EXCEPT ![r].todo = @ \ {p}, ![r].ok = @ /\ ok,
                                       ![r].pc = IF req[r].todo = {p} THEN "change" ELSE "add"]
                 /\ UNCHANGED wanted
    BY <1>2 DEF AddPID
  <2>2. req[r].pc = "add" /\ UNCHANGED <<up, entries, disk, file, flushed>>
    BY <1>2 DEF AddPID
  <2>3. CASE Answer(r, FALSE)
    BY <2>2, <2>3, FailedInv
  <2>4. CASE ~Answer(r, FALSE)
    <3> DEFINE ok == available /\ AppOf(p) # None
               q == [req[r] EXCEPT !.todo = @ \ {p}, !.ok = @ /\ ok,
                                   !.pc = IF req[r].todo = {p} THEN "change" ELSE "add"]
    <3>1. req' = [req EXCEPT ![r] = q] /\ UNCHANGED wanted
      BY <1>1, <2>1, <2>4 DEF TargetInv, TargetTypeOK, RequestType
    <3>2. q \in RequestType
      BY <1>1 DEF RequestType
    <3>3. Carried(q, wanted, entries, disk)
      BY <1>1, <2>2 DEF RequestType, Carried
    <3> HIDE DEF q
    <3> QED
      BY <2>2, <3>1, <3>2, <3>3, QuietMoves
  <2> QED
    BY <2>3, <2>4
<1>3. CASE DropPID(r)
  <2>1. PICK p \in req[r].todo : req' = [req EXCEPT ![r].todo = @ \ {p}]
    BY <1>3 DEF DropPID
  <2>2. /\ req[r].pc \in {"drop", "unroute"}
        /\ UNCHANGED <<up, entries, disk, file, flushed, wanted>>
    BY <1>3 DEF DropPID
  <2> DEFINE q == [req[r] EXCEPT !.todo = @ \ {p}]
  <2>3. q \in RequestType /\ Carried(q, wanted, entries, disk)
    BY <1>1, <2>2 DEF RequestType, Carried
  <2>4. req' = [req EXCEPT ![r] = q]
    BY <2>1
  <2> HIDE DEF q
  <2> QED
    BY <2>2, <2>3, <2>4, QuietMoves
<1>4. CASE Dropped(r)
  <2>1. UNCHANGED <<up, entries, disk, file, flushed, wanted>>
    BY <1>4 DEF Dropped
  <2>2. CASE req[r].pc = "drop" /\ Step(r, "change")
    <3> DEFINE q == [req[r] EXCEPT !.pc = "change"]
    <3>1. q \in RequestType /\ Carried(q, wanted, entries, disk)
      BY <1>1, <2>2 DEF RequestType, Carried
    <3>2. req' = [req EXCEPT ![r] = q]
      BY <2>2 DEF Step
    <3> HIDE DEF q
    <3> QED
      BY <2>1, <2>2, <3>1, <3>2, QuietMoves
  <2>3. CASE req[r].pc = "unroute" /\ req' = [req EXCEPT ![r] = NoRequest]
    BY <2>1, <2>3, IdleRequest, QuietMoves
  <2> QED
    BY <1>4, <2>2, <2>3 DEF Dropped
<1> QED
  BY <1>2, <1>3, <1>4

\* The list, the file of the list and the targets.
LEMMA ListInFlightInv ==
  ASSUME OneAtATime, TargetInv, NEW r \in Requests, Change(r) \/ Save(r) \/ Write(r)
  PROVE  TargetInv'
<1> USE DEF dvars, svars, tvars
<1>1. /\ req[r] \in RequestType /\ Carried(req[r], wanted, entries, disk)
      /\ req \in [Requests -> RequestType]
      /\ entries \in Lists /\ disk \in Lists /\ wanted \in Lists
      /\ Kept /\ Captured /\ None # TRUE
  BY AppConstantsOK DEF TargetInv, TargetTypeOK
<1>2. CASE Change(r)
  <2> DEFINE q == [req[r] EXCEPT !.pc = "save"]
             a == req[r].app
  <2>1. /\ req[r].pc = "change" /\ entries' = [entries EXCEPT ![a] = req[r].on]
        /\ req' = [req EXCEPT ![r] = q]
        /\ UNCHANGED <<up, disk, file, flushed, wanted>>
    BY <1>2 DEF Change, Step
  <2>2. a \in Apps /\ wanted[a] = None /\ up # "down" /\ req[r].on \in BOOLEAN \cup {None}
    BY <1>1, <2>1 DEF Carried, TargetInv, RequestType
  <2>3. q \in RequestType /\ q.pc = "save" /\ q.app = a /\ q.on = req[r].on
    BY <1>1 DEF RequestType
  <2>4. /\ entries' \in Lists /\ entries'[a] = req[r].on
        /\ \A x \in Apps : x # a => entries'[x] = entries[x]
    BY <1>1, <2>1, <2>2 DEF Lists
  <2> HIDE DEF q
  <2>5. Carried(q, wanted', entries', disk')
    BY <2>1, <2>2, <2>3, <2>4 DEF Carried
  <2>6. Kept' /\ Captured'
    BY <1>1, <2>1, <2>2, <2>4 DEF Kept, Captured
  <2> QED
    BY <1>1, <2>1, <2>2, <2>3, <2>4, <2>5, <2>6, RequestMoves
<1>3. CASE Save(r)
  <2> DEFINE q == [req[r] EXCEPT !.pc = "write", !.val = entries]
  <2>1. /\ req[r].pc = "save" /\ req' = [req EXCEPT ![r] = q]
        /\ UNCHANGED <<up, entries, disk, file, flushed, wanted>>
    BY <1>1, <1>3 DEF Save, RequestType
  <2>2. q \in RequestType /\ Carried(q, wanted, entries, disk)
    BY <1>1, <2>1 DEF RequestType, Carried
  <2> HIDE DEF q
  <2> QED
    BY <2>1, <2>2, QuietMoves
<1>4. CASE Write(r)
  <2>1. req[r].pc = "write" /\ UNCHANGED <<up, entries, file, flushed>>
    BY <1>4 DEF Write
  <2>2. CASE Answer(r, FALSE) /\ UNCHANGED disk
    BY <2>1, <2>2, FailedInv
  <2>3. CASE /\ disk' = req[r].val /\ UNCHANGED wanted
             /\ req' = [req EXCEPT ![r].pc = "enabled", ![r].val = {}]
    <3> DEFINE q == [req[r] EXCEPT !.pc = "enabled", !.val = {}]
    <3>1. disk' = entries /\ up # "down"
      BY <1>1, <2>1, <2>3 DEF Carried, TargetInv
    <3>2. req' = [req EXCEPT ![r] = q]
      BY <1>1, <2>3 DEF RequestType
    <3>3. q \in RequestType /\ Carried(q, wanted', entries', disk')
      BY <1>1, <2>1, <2>3, <3>1 DEF RequestType, Carried
    <3>4. Kept' /\ Captured'
      BY <1>1, <2>1, <2>3, <3>1 DEF Kept, Captured
    <3> HIDE DEF q
    <3> QED
      BY <1>1, <2>1, <2>3, <3>1, <3>2, <3>3, <3>4, RequestMoves
  <2> QED
    BY <1>4, <2>2, <2>3 DEF Write
<1> QED
  BY <1>2, <1>3, <1>4

LEMMA RecomputeInv ==
  ASSUME OneAtATime, TargetInv, NEW r \in Requests,
         EnabledBundleIDs(r) \/ ListRoutedApps(r) \/ SetTargets(r)
  PROVE  TargetInv'
<1> USE DEF dvars, svars, tvars
<1>1. /\ req[r] \in RequestType /\ Carried(req[r], wanted, entries, disk)
      /\ req \in [Requests -> RequestType]
      /\ entries \in Lists /\ disk \in Lists /\ wanted \in Lists
      /\ Kept /\ Captured /\ None # TRUE
  BY AppConstantsOK DEF TargetInv, TargetTypeOK
<1>2. CASE EnabledBundleIDs(r)
  <2> DEFINE q == [req[r] EXCEPT !.pc = "routed", !.val = Enabled(entries)]
  <2>1. /\ req[r].pc = "enabled" /\ req' = [req EXCEPT ![r] = q]
        /\ UNCHANGED <<up, entries, disk, file, flushed, wanted>>
    BY <1>1, <1>2 DEF EnabledBundleIDs, RequestType
  <2>2. q \in RequestType /\ Carried(q, wanted, entries, disk)
    BY <1>1, <2>1 DEF RequestType, Carried, Enabled
  <2> HIDE DEF q
  <2> QED
    BY <2>1, <2>2, QuietMoves
<1>3. CASE ListRoutedApps(r)
  <2> DEFINE q == [req[r] EXCEPT !.pc = "set", !.val = @ \cup Routed]
  <2>1. /\ req[r].pc = "routed" /\ req' = [req EXCEPT ![r] = q]
        /\ UNCHANGED <<up, entries, disk, file, flushed, wanted>>
    BY <1>1, <1>3 DEF ListRoutedApps, RequestType
  <2>2. req[r].val \in SUBSET Apps /\ Enabled(entries) \subseteq req[r].val /\ Routed \subseteq Apps
    BY <1>1, <2>1 DEF Carried, Routed
  <2>3. q \in RequestType /\ Carried(q, wanted, entries, disk)
    BY <1>1, <2>1, <2>2 DEF RequestType, Carried
  <2> HIDE DEF q
  <2> QED
    BY <2>1, <2>3, QuietMoves
<1>4. CASE SetTargets(r)
  <2>1. req[r].pc = "set" /\ UNCHANGED <<up, entries, disk>>
    BY <1>4 DEF SetTargets
  <2>2. CASE FlushFails /\ Answer(r, FALSE)
    BY <2>1, <2>2, FailedInv DEF FlushFails
  <2>3. CASE Flush(req[r].val) /\ Answer(r, TRUE)
    <3> DEFINE a == req[r].app
    <3>1. /\ a \in Apps /\ entries[a] = req[r].on /\ disk = entries
          /\ Enabled(entries) \subseteq req[r].val /\ req[r].on \in BOOLEAN \cup {None}
          /\ up # "down"
      BY <1>1, <2>1 DEF Carried, RequestType, TargetInv
    <3>2. /\ req' = [req EXCEPT ![r] = NoRequest] /\ wanted' = [wanted EXCEPT ![a] = req[r].on]
          /\ file' = req[r].val
      BY <2>3 DEF Answer, Flush
    <3>3. wanted' \in Lists /\ \A x \in Apps : wanted'[x] = TRUE => entries[x] = TRUE
      BY <1>1, <3>1, <3>2 DEF Lists, Kept
    <3>4. Kept' /\ Captured'
      BY <2>1, <3>1, <3>2, <3>3 DEF Kept, Captured, Enabled
    <3> QED
      BY <1>1, <2>1, <3>1, <3>2, <3>3, <3>4, IdleRequest, RequestMoves
  <2> QED
    BY <1>4, <2>2, <2>3 DEF SetTargets
<1> QED
  BY <1>2, <1>3, <1>4

\* The end of the daemon, orderly or not, and its start.
LEMMA DaemonInv ==
  ASSUME TargetInv, Shutdown \/ End \/ Start
  PROVE  TargetInv'
<1> USE DEF dvars, svars, tvars
<1>1. TargetTypeOK /\ Kept /\ \A r \in Requests : Carried(req[r], wanted, entries, disk)
  BY DEF TargetInv
<1>2. CASE Shutdown
  <2>1. UNCHANGED <<entries, disk, req, wanted>> /\ up' = "closing"
    BY <1>2 DEF Shutdown
  <2> QED
    BY <1>1, <2>1 DEF TargetInv, TargetTypeOK, Kept, Captured
<1>3. CASE End
  <2>1. /\ UNCHANGED <<entries, disk, wanted>> /\ up' = "down"
        /\ req' = [r \in Requests |-> NoRequest]
    BY <1>3 DEF End
  <2>2. TargetTypeOK' /\ \A r \in Requests : req'[r] = NoRequest
    BY <1>1, <2>1, IdleRequest DEF TargetTypeOK
  <2>3. Kept' /\ Captured'
    BY <1>1, <2>1 DEF Kept, Captured
  <2> QED
    BY <2>2, <2>3, IdleRequest DEF TargetInv
<1>4. CASE Start
  <2>1. /\ up = "down" /\ up' = "up" /\ entries' = disk
        /\ UNCHANGED <<disk, req, wanted>>
        /\ ~flushed' \/ file' = Enabled(disk)
    BY <1>4 DEF Start, Flush, FlushFails
  <2>2. TargetTypeOK'
    BY <1>1, <2>1 DEF TargetTypeOK
  <2>3. Kept' /\ Captured'
    BY <1>1, <2>1 DEF Kept, Captured, Enabled
  <2>4. \A r \in Requests : Carried(req'[r], wanted', entries', disk')
    BY <2>1 DEF TargetInv, Carried
  <2> QED
    BY <2>1, <2>2, <2>3, <2>4 DEF TargetInv
<1> QED
  BY <1>2, <1>3, <1>4

LEMMA TargetStep ==
  ASSUME OneAtATime, TargetInv, [ANext]_avars
  PROVE  TargetInv'
<1> USE DEF dvars, svars, tvars
<1>1. ASSUME NEW p \in PIDs, NEW a \in Apps \cup {None}, Fork(p, a) \/ LaunchProxied(p, a)
      PROVE  TargetInv'
  BY <1>1, OtherInv DEF Fork, LaunchProxied
<1>2. ASSUME NEW p \in PIDs, Dies(p) \/ RoutePID(p) \/ UnroutePID(p) \/ StopProxied(p)
      PROVE  TargetInv'
  BY <1>2, OtherInv DEF Dies, RoutePID, UnroutePID, StopProxied
<1>3. CASE ResetRouter \/ Rows \/ Identify \/ Resolve \/ Verify \/ Publish \/ UNCHANGED avars
  BY <1>3, OtherInv DEF ResetRouter, Rows, Identify, Resolve, Verify, Publish, avars
<1>4. CASE Shutdown \/ End \/ Start
  BY <1>4, DaemonInv
<1>5. ASSUME NEW r \in Requests,
             \/ \E a \in Apps :
                  \/ RouteApp(r, a) \/ UnrouteApp(r, a) \/ RemoveProxiedApp(r, a)
                  \/ \E on \in BOOLEAN : SetProxiedAppEnabled(r, a, on)
                  \/ \E p \in PIDs : LaunchProxiedApp(r, p, a)
             \/ AddPID(r) \/ DropPID(r) \/ Dropped(r) \/ Change(r) \/ Save(r) \/ Write(r)
             \/ EnabledBundleIDs(r) \/ ListRoutedApps(r) \/ SetTargets(r)
      PROVE  TargetInv'
  BY <1>5, BeginInv, RouteInv, ListInFlightInv, RecomputeInv
<1> QED
  BY <1>1, <1>2, <1>3, <1>4, <1>5 DEF ANext

\* With one request at a time, an application whose last request was answered with
\* success and asked for it to be routed stays a target of the extension, whatever its
\* processes, other applications and the daemon do, unless a write of the targets has
\* just failed.
THEOREM EnabledStaysCaptured ==
  ASSUME OneAtATime PROVE ASpec => []EnabledIsCaptured
<1>1. AInit => TargetInv
  BY TargetInit
<1>2. TargetInv /\ [ANext]_avars => TargetInv'
  BY TargetStep
<1>3. TargetInv => EnabledIsCaptured
  BY DEF TargetInv, Captured, EnabledIsCaptured, Quiet
<1> QED
  BY <1>1, <1>2, <1>3, PTL DEF ASpec
=============================================================================
