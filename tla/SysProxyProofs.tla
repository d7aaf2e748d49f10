--------------------------- MODULE SysProxyProofs ---------------------------
(***************************************************************************)
(* Proofs about the system-proxy toggle, for every set of services, ports, *)
(* rules and requests in flight.                                           *)
(***************************************************************************)
EXTENDS SysProxy, TLAPS

-----------------------------------------------------------------------------
(* The calls of networksetup. *)

Settings  == [auto : URLs, web : BOOLEAN, bypass : Rules \cup {None}]
OSs       == [Services -> Settings]
Calls     == [call : {"auto"}, svc : Services, val : URLs]
             \cup [call : {"web"}, svc : Services, val : {FALSE}]
             \cup [call : {"bypass"}, svc : Services, val : Rules \cup {None}]

\* The settings after a call that works.
After(o, c) == [o EXCEPT ![c.svc][c.call] = c.val]

Elems(q) == {q[i] : i \in 1..Len(q)}

\* What a call that works changes.
LEMMA CallDoes ==
  ASSUME NEW o \in OSs, NEW c \in Calls, NEW r, r = After(o, c)
  PROVE  /\ r \in OSs /\ c.svc \in Services /\ c.call \in {"auto", "web", "bypass"}
         /\ \A s \in Services :
              /\ r[s].auto = IF c.call = "auto" /\ s = c.svc THEN c.val ELSE o[s].auto
              /\ r[s].bypass = IF c.call = "bypass" /\ s = c.svc THEN c.val ELSE o[s].bypass
<1>1. CASE c \in [call : {"auto"}, svc : Services, val : URLs]
  <2>1. r = [o EXCEPT ![c.svc].auto = c.val] /\ c.call = "auto"
    BY <1>1 DEF After
  <2> QED
    BY <1>1, <2>1 DEF OSs, Settings
<1>2. CASE c \in [call : {"web"}, svc : Services, val : {FALSE}]
  <2>1. r = [o EXCEPT ![c.svc].web = c.val] /\ c.call = "web" /\ c.svc \in Services
    BY <1>2 DEF After
  <2>2. c.val \in BOOLEAN
    BY <1>2
  <2>3. r = [o EXCEPT ![c.svc] = [o[c.svc] EXCEPT !.web = c.val]]
    BY <2>1
  <2> DEFINE n == [o[c.svc] EXCEPT !.web = c.val]
  <2>4. n \in Settings /\ n.auto = o[c.svc].auto /\ n.bypass = o[c.svc].bypass
    BY <2>1, <2>2 DEF OSs, Settings
  <2> HIDE DEF n
  <2>5. \A s \in Services : r[s] = IF s = c.svc THEN n ELSE o[s]
    BY <2>1, <2>3 DEF OSs, n
  <2>6. r \in OSs
    BY <2>1, <2>3, <2>4 DEF OSs, n
  <2> QED
    BY <2>1, <2>4, <2>5, <2>6
<1>3. CASE c \in [call : {"bypass"}, svc : Services, val : Rules \cup {None}]
  <2>1. r = [o EXCEPT ![c.svc].bypass = c.val] /\ c.call = "bypass"
    BY <1>3 DEF After
  <2> QED
    BY <1>3, <2>1 DEF OSs, Settings
<1> QED
  BY <1>1, <1>2, <1>3 DEF Calls

LEMMA ElemsConcat ==
  ASSUME NEW S, NEW q \in Seq(S), NEW r \in Seq(S)
  PROVE  q \o r \in Seq(S) /\ Elems(q \o r) = Elems(q) \cup Elems(r)
<1>1. Len(q \o r) = Len(q) + Len(r) /\ Len(q) \in Nat /\ Len(r) \in Nat
  OBVIOUS
<1>2. \A i \in 1..Len(q) : (q \o r)[i] = q[i]
  OBVIOUS
<1>3. \A i \in 1..Len(r) : (q \o r)[Len(q) + i] = r[i]
  OBVIOUS
<1>4. Elems(q) \cup Elems(r) \subseteq Elems(q \o r)
  BY <1>1, <1>2, <1>3 DEF Elems
<1>5. ASSUME NEW i \in 1..Len(q \o r) PROVE (q \o r)[i] \in Elems(q) \cup Elems(r)
  <2>1. CASE i <= Len(q)
    BY <1>1, <1>2, <2>1 DEF Elems
  <2>2. CASE i > Len(q)
    <3>1. i - Len(q) \in 1..Len(r) /\ i = Len(q) + (i - Len(q))
      BY <1>1, <2>2
    <3> QED
      BY <1>3, <3>1 DEF Elems
  <2> QED
    BY <1>1, <2>1, <2>2
<1>6. Elems(q \o r) \subseteq Elems(q) \cup Elems(r)
  BY <1>5 DEF Elems
<1>7. q \o r \in Seq(S)
  OBVIOUS
<1> QED
  BY <1>4, <1>6, <1>7

LEMMA ElemsTail ==
  ASSUME NEW S, NEW q \in Seq(S), q # <<>>
  PROVE  /\ Head(q) \in S /\ Tail(q) \in Seq(S)
         /\ Elems(q) = {Head(q)} \cup Elems(Tail(q))
<1>1. Len(q) \in Nat /\ Len(q) >= 1 /\ Len(Tail(q)) = Len(q) - 1 /\ Head(q) = q[1]
  OBVIOUS
<1>2. \A i \in 1..Len(Tail(q)) : Tail(q)[i] = q[i + 1]
  OBVIOUS
<1>3. ASSUME NEW i \in 1..Len(q), i # 1 PROVE q[i] \in Elems(Tail(q))
  <2>1. i - 1 \in 1..Len(Tail(q)) /\ i = (i - 1) + 1
    BY <1>1, <1>3
  <2> QED
    BY <1>2, <2>1 DEF Elems
<1>4. \A i \in 1..Len(Tail(q)) : Tail(q)[i] \in Elems(q)
  BY <1>1, <1>2 DEF Elems
<1>5. Head(q) \in S /\ Tail(q) \in Seq(S) /\ Head(q) \in Elems(q)
  BY <1>1 DEF Elems
<1> QED
  BY <1>1, <1>3, <1>4, <1>5 DEF Elems

LEMMA ElemsShort ==
  /\ Elems(<<>>) = {}
  /\ \A a, b : Elems(<<a, b>>) = {a, b}
  /\ \A a, b, c : Elems(<<a, b, c>>) = {a, b, c}
<1>1. Elems(<<>>) = {}
  BY DEF Elems
<1>2. ASSUME NEW a, NEW b PROVE Elems(<<a, b>>) = {a, b}
  <2>1. Len(<<a, b>>) = 2 /\ <<a, b>>[1] = a /\ <<a, b>>[2] = b /\ 1..2 = {1, 2}
    OBVIOUS
  <2> QED
    BY <2>1 DEF Elems
<1>3. ASSUME NEW a, NEW b, NEW c PROVE Elems(<<a, b, c>>) = {a, b, c}
  <2>1. /\ Len(<<a, b, c>>) = 3 /\ 1..3 = {1, 2, 3}
        /\ <<a, b, c>>[1] = a /\ <<a, b, c>>[2] = b /\ <<a, b, c>>[3] = c
    OBVIOUS
  <2> QED
    BY <2>1 DEF Elems
<1> QED
  BY <1>1, <1>2, <1>3

-----------------------------------------------------------------------------
(* The plan of an Apply, as the set of its calls. *)

DisableCalls(s) == {AutoURL(s, None), WebOff(s), Bypass(s, None)}
OldCalls(c, req)   == IF c.on /\ c.svc # req.svc THEN DisableCalls(c.svc) ELSE {}

OffCalls(c, req) == DisableCalls(req.svc) \cup OldCalls(c, req)
ForwardCalls(c, req, url) ==
  {WebOff(req.svc), AutoURL(req.svc, url), Bypass(req.svc, req.rules)} \cup OldCalls(c, req)
RestoreCalls(c, req, u) ==
  IF c.on
    THEN (IF req.svc # c.svc THEN DisableCalls(req.svc) ELSE {})
         \cup {AutoURL(c.svc, u), Bypass(c.svc, c.rules)}
    ELSE DisableCalls(req.svc)

\* What an Apply that is being rolled back may have called.
UndoneCalls(c, req, u, url) == RestoreCalls(c, req, u) \cup ForwardCalls(c, req, url)

\* A plan gives a setting of a service one value.
Plain(C) ==
  /\ C \subseteq Calls
  /\ \A a, b \in C : a.call = b.call /\ a.svc = b.svc => a = b

\* Each call of the plan is still to come or has its effect.
Progress(C, o, q) ==
  /\ Elems(q) \subseteq C
  /\ \A c \in C :
       \/ c \in Elems(q)
       \/ c.call = "web"
       \/ c.call = "auto" /\ o[c.svc].auto = c.val
       \/ c.call = "bypass" /\ o[c.svc].bypass = c.val

\* Nothing but the calls D has changed the settings since Apply began.
Within(D, o, o0) ==
  \A s \in Services :
    /\ o[s].auto = o0[s].auto \/ AutoURL(s, o[s].auto) \in D
    /\ o[s].bypass = o0[s].bypass \/ Bypass(s, o[s].bypass) \in D

-----------------------------------------------------------------------------
(* The invariant of Apply, whatever fails and whenever the process dies. *)

PCs == {"idle", "lock", "apply", "ini", "write"}
LocalType == [pc : PCs, req : Configs \cup {None}, ini : Configs \cup {None}, res : {"ok", "err"}]

SysTypeOK ==
  /\ cfg \in Configs /\ disk \in Configs \cup {None}
  /\ srv \in Ports \cup {None} /\ cand \in Ports \cup {None}
  /\ os \in OSs /\ todo \in Seq(Calls)
  /\ lock \in All \cup {None} /\ l \in [All -> LocalType]
  /\ fails \in Nat /\ crashes \in Nat

\* What a goroutine carries, and who is inside Apply.
Carries(p) ==
  /\ l[p].pc \in {"lock", "apply"} => l[p].req \in Configs
  /\ l[p].pc = "write" => l[p].ini \in Configs
  /\ l[p].pc # "idle" => l[p].res = "ok"
  /\ l[p].pc = "apply" <=> lock = p

Target == IF cand = None THEN srv ELSE cand

\* How far the Apply of req is, in each phase.
Forwarding(req) ==
  LET C == ForwardCalls(cfg, req, Target)
  IN  Target # None /\ Progress(C, os, todo) /\ Within(C, os, was.os)

TurningOff(req) ==
  LET C == OffCalls(cfg, req) IN Progress(C, os, todo) /\ Within(C, os, was.os)

RollingBack(req) ==
  LET C == RestoreCalls(cfg, req, URL)
  IN  /\ fails > 0 /\ Progress(C, os, todo)
      /\ \E url \in Ports : Within(UndoneCalls(cfg, req, URL, url), os, was.os)

Applying(req) ==
  /\ was.cfg = cfg /\ was.os \in OSs
  /\ phase \in {"prepare", "apply", "off", "rollback"}
  /\ phase = "off" <=> ~req.on
  /\ phase = "prepare" => todo = <<>> /\ os = was.os
  /\ phase = "apply" => Forwarding(req)
  /\ phase = "off" => TurningOff(req)
  /\ phase = "rollback" => RollingBack(req)

ApplyInv ==
  /\ SysTypeOK /\ \A p \in All : Carries(p)
  /\ lock = None => phase = "idle" /\ todo = <<>>
  /\ lock # None => Applying(l[lock].req)
  /\ phase # "apply" => cand = None

\* The settings when the Apply under way began.
Begun == IF lock = None THEN os ELSE was.os

\* A service has the URL of the server only where the configuration says so.
Owner(o, c, u) ==
  \A s \in Services :
    o[s].auto \in {None, NoURL} \/ (c.on /\ s = c.svc /\ o[s].auto = u)

OwnerInv == crashes = 0 => Owner(Begun, cfg, srv)

\* The settings a restart finds: what the file says, but for the port.
Leftover(o) == \A s \in Services : s = disk.svc \/ (o[s].auto = None /\ o[s].bypass = None)

Saved == disk # None => disk.on = cfg.on /\ disk.svc = cfg.svc /\ disk.rules = cfg.rules

\* One command at a time, and main restores nothing but at a restart.
Alone ==
  /\ \A p, q \in All : l[p].pc # "idle" /\ l[q].pc # "idle" => p = q
  /\ l[Main].pc \in {"idle", "lock", "apply"}

\* Unless main is restoring, the settings at the last command's end are those of the
\* configuration.
Steady ==
  l[Main].pc = "idle" => Agree(Begun, cfg, srv) /\ (cfg.on => body = cfg.rules)

\* While main restores, what the last process left is what the file says.
Restoring ==
  l[Main].pc # "idle" =>
    /\ disk \in Configs /\ disk.on /\ ~cfg.on
    /\ l[Main].req.on /\ l[Main].req.svc = disk.svc /\ l[Main].req.rules = disk.rules
    /\ Leftover(Begun)

\* Between commands the file has the configuration, and a command writes the present one.
Stored ==
  /\ Settled => Saved /\ (disk = None => ~cfg.on)
  /\ \A p \in Procs : l[p].pc = "write" => l[p].ini = cfg

CleanInv == clean => Steady /\ Restoring /\ Stored

-----------------------------------------------------------------------------
(* Plans. *)

LEMMA CallTypes ==
  /\ \A s \in Services, u \in URLs : AutoURL(s, u) \in Calls
  /\ \A s \in Services : WebOff(s) \in Calls
  /\ \A s \in Services, r \in Rules \cup {None} : Bypass(s, r) \in Calls
  /\ None \in URLs
BY DEF Calls, AutoURL, WebOff, Bypass, URLs

LEMMA DisablePlan ==
  ASSUME NEW s \in Services
  PROVE  /\ DisableService(s) \in Seq(Calls)
         /\ Elems(DisableService(s)) = DisableCalls(s)
<1>1. AutoURL(s, None) \in Calls /\ WebOff(s) \in Calls /\ Bypass(s, None) \in Calls
  BY CallTypes
<1> QED
  BY <1>1, ElemsShort DEF DisableService, DisableCalls

LEMMA OldPlan ==
  ASSUME cfg \in Configs, NEW req \in Configs
  PROVE  /\ OldService(req) \in Seq(Calls)
         /\ Elems(OldService(req)) = OldCalls(cfg, req)
<1>1. cfg.svc \in Services
  BY DEF Configs
<1>2. CASE cfg.on /\ cfg.svc # req.svc
  BY <1>1, <1>2, DisablePlan DEF OldService, OldCalls
<1>3. CASE ~(cfg.on /\ cfg.svc # req.svc)
  <2>1. OldService(req) = <<>> /\ OldCalls(cfg, req) = {}
    BY <1>3 DEF OldService, OldCalls
  <2>2. <<>> \in Seq(Calls)
    OBVIOUS
  <2> QED
    BY <2>1, <2>2, ElemsShort
<1> QED
  BY <1>2, <1>3

LEMMA OffPlan ==
  ASSUME cfg \in Configs, NEW req \in Configs
  PROVE  /\ DisableService(req.svc) \o OldService(req) \in Seq(Calls)
         /\ Elems(DisableService(req.svc) \o OldService(req)) = OffCalls(cfg, req)
<1>1. req.svc \in Services
  BY DEF Configs
<1> QED
  BY <1>1, DisablePlan, OldPlan, ElemsConcat DEF OffCalls

LEMMA ForwardPlan ==
  ASSUME cfg \in Configs, NEW req \in Configs, NEW url \in URLs
  PROVE  /\ Forward(req, url) \in Seq(Calls)
         /\ Elems(Forward(req, url)) = ForwardCalls(cfg, req, url)
<1> DEFINE q == <<WebOff(req.svc), AutoURL(req.svc, url), Bypass(req.svc, req.rules)>>
<1>1. req.svc \in Services /\ req.rules \in Rules
  BY DEF Configs
<1>2. q \in Seq(Calls)
  BY <1>1, CallTypes
<1>3. Elems(q) = {WebOff(req.svc), AutoURL(req.svc, url), Bypass(req.svc, req.rules)}
  BY ElemsShort
<1>4. Forward(req, url) = q \o OldService(req)
  BY DEF Forward
<1>5. OldService(req) \in Seq(Calls) /\ Elems(OldService(req)) = OldCalls(cfg, req)
  BY OldPlan
<1> HIDE DEF q
<1>6. /\ q \o OldService(req) \in Seq(Calls)
      /\ Elems(q \o OldService(req)) = Elems(q) \cup Elems(OldService(req))
  BY <1>2, <1>5, ElemsConcat
<1> QED
  BY <1>3, <1>4, <1>5, <1>6 DEF ForwardCalls

LEMMA RestorePlan ==
  ASSUME cfg \in Configs, NEW req \in Configs, URL \in URLs
  PROVE  /\ Restoration(req) \in Seq(Calls)
         /\ Elems(Restoration(req)) = RestoreCalls(cfg, req, URL)
<1> DEFINE q == <<AutoURL(cfg.svc, URL), Bypass(cfg.svc, cfg.rules)>>
           d == IF req.svc # cfg.svc THEN DisableService(req.svc) ELSE <<>>
           D == IF req.svc # cfg.svc THEN DisableCalls(req.svc) ELSE {}
<1>1. cfg.svc \in Services /\ cfg.rules \in Rules /\ req.svc \in Services
  BY DEF Configs
<1>2. q \in Seq(Calls)
  BY <1>1, CallTypes
<1>3. Elems(q) = {AutoURL(cfg.svc, URL), Bypass(cfg.svc, cfg.rules)}
  BY ElemsShort
<1>4. d \in Seq(Calls) /\ Elems(d) = D
  <2>1. <<>> \in Seq(Calls) /\ Elems(<<>>) = {}
    BY ElemsShort
  <2>2. DisableService(req.svc) \in Seq(Calls) /\ Elems(DisableService(req.svc)) = DisableCalls(req.svc)
    BY <1>1, DisablePlan
  <2>3. CASE req.svc = cfg.svc
    BY <2>1, <2>3
  <2>4. CASE req.svc # cfg.svc
    BY <2>2, <2>4
  <2> QED
    BY <2>3, <2>4
<1>5. cfg.on => Restoration(req) = d \o q /\ RestoreCalls(cfg, req, URL) = D \cup Elems(q)
  BY <1>3 DEF Restoration, RestoreCalls
<1> HIDE DEF d, q, D
<1>6. CASE cfg.on
  <2>1. d \o q \in Seq(Calls) /\ Elems(d \o q) = Elems(d) \cup Elems(q)
    BY <1>2, <1>4, ElemsConcat
  <2> QED
    BY <1>4, <1>5, <1>6, <2>1
<1>7. CASE ~cfg.on
  BY <1>1, <1>7, DisablePlan DEF Restoration, RestoreCalls
<1> QED
  BY <1>6, <1>7

LEMMA PlansArePlain ==
  ASSUME NEW c \in Configs, NEW req \in Configs, NEW u \in URLs
  PROVE  Plain(OffCalls(c, req)) /\ Plain(ForwardCalls(c, req, u)) /\ Plain(RestoreCalls(c, req, u))
<1>0. /\ c.svc \in Services /\ c.rules \in Rules
      /\ req.svc \in Services /\ req.rules \in Rules
  BY DEF Configs
<1>1. ASSUME NEW s \in Services, NEW v \in URLs, NEW r \in Rules \cup {None}
      PROVE  Plain({AutoURL(s, v), WebOff(s), Bypass(s, r)})
  <2>1. AutoURL(s, v) \in Calls /\ WebOff(s) \in Calls /\ Bypass(s, r) \in Calls
    BY CallTypes
  <2> QED
    BY <2>1 DEF Plain, AutoURL, WebOff, Bypass
<1>2. ASSUME NEW s \in Services, NEW v \in URLs, NEW r \in Rules \cup {None}, NEW t \in Services,
             s # t
      PROVE  Plain({AutoURL(s, v), WebOff(s), Bypass(s, r)} \cup DisableCalls(t))
  <2>1. Plain({AutoURL(s, v), WebOff(s), Bypass(s, r)}) /\ Plain(DisableCalls(t))
    BY <1>1, CallTypes DEF DisableCalls
  <2>2. /\ \A a \in {AutoURL(s, v), WebOff(s), Bypass(s, r)} : a.svc = s
        /\ \A a \in DisableCalls(t) : a.svc = t
    BY DEF DisableCalls, AutoURL, WebOff, Bypass
  <2> QED
    BY <1>2, <2>1, <2>2 DEF Plain
<1>3. Plain(OffCalls(c, req))
  <2>1. CASE c.on /\ c.svc # req.svc
    BY <1>0, <1>2, <2>1, CallTypes DEF OffCalls, OldCalls, DisableCalls
  <2>2. CASE ~(c.on /\ c.svc # req.svc)
    BY <1>0, <1>1, <2>2, CallTypes DEF OffCalls, OldCalls, DisableCalls
  <2> QED
    BY <2>1, <2>2
<1>4. Plain(ForwardCalls(c, req, u))
  <2> DEFINE F == {AutoURL(req.svc, u), WebOff(req.svc), Bypass(req.svc, req.rules)}
  <2>1. ForwardCalls(c, req, u) = F \cup OldCalls(c, req)
    BY DEF ForwardCalls
  <2>2. CASE c.on /\ c.svc # req.svc
    BY <1>0, <1>2, <2>1, <2>2 DEF OldCalls
  <2>3. CASE ~(c.on /\ c.svc # req.svc)
    BY <1>0, <1>1, <2>1, <2>3 DEF OldCalls
  <2> QED
    BY <2>2, <2>3
<1>5. Plain(RestoreCalls(c, req, u))
  <2> DEFINE F == {AutoURL(c.svc, u), WebOff(c.svc), Bypass(c.svc, c.rules)}
  <2>1. CASE c.on /\ req.svc # c.svc
    <3>1. Plain(F \cup DisableCalls(req.svc))
      BY <1>0, <1>2, <2>1
    <3>2. RestoreCalls(c, req, u) \subseteq F \cup DisableCalls(req.svc)
      BY <2>1 DEF RestoreCalls
    <3> QED
      BY <3>1, <3>2 DEF Plain
  <2>2. CASE c.on /\ req.svc = c.svc
    <3>1. Plain(F)
      BY <1>0, <1>1
    <3>2. RestoreCalls(c, req, u) \subseteq F
      BY <2>2 DEF RestoreCalls
    <3> QED
      BY <3>1, <3>2 DEF Plain
  <2>3. CASE ~c.on
    BY <1>0, <1>1, <2>3, CallTypes DEF RestoreCalls, DisableCalls
  <2> QED
    BY <2>1, <2>2, <2>3
<1> QED
  BY <1>3, <1>4, <1>5

\* A plan that begins with nothing done.
LEMMA PlanBegins ==
  ASSUME NEW C, NEW o, NEW q, Elems(q) = C
  PROVE  Progress(C, o, q)
BY DEF Progress

\* The next call of a plan works.
LEMMA PlanProceeds ==
  ASSUME NEW o \in OSs, NEW q \in Seq(Calls), q # <<>>, NEW C, Plain(C), Progress(C, o, q),
         NEW r, r = After(o, Head(q))
  PROVE  r \in OSs /\ Tail(q) \in Seq(Calls) /\ Progress(C, r, Tail(q))
<1>0. PICK c : c = Head(q)
  OBVIOUS
<1>1. c \in Calls /\ Tail(q) \in Seq(Calls) /\ Elems(q) = {c} \cup Elems(Tail(q))
  BY <1>0, ElemsTail
<1>2. /\ r \in OSs /\ c.svc \in Services /\ c.call \in {"auto", "web", "bypass"}
      /\ \A s \in Services :
           /\ r[s].auto = IF c.call = "auto" /\ s = c.svc THEN c.val ELSE o[s].auto
           /\ r[s].bypass = IF c.call = "bypass" /\ s = c.svc THEN c.val ELSE o[s].bypass
  BY <1>0, <1>1, CallDoes
<1>3. c \in C /\ Elems(Tail(q)) \subseteq C
  BY <1>1 DEF Progress
<1>4. ASSUME NEW d \in C, d \notin Elems(Tail(q)), d.call # "web"
      PROVE  \/ d.call = "auto" /\ r[d.svc].auto = d.val
             \/ d.call = "bypass" /\ r[d.svc].bypass = d.val
  <2>1. CASE d = c
    BY <1>2, <1>4, <2>1
  <2>2. CASE d # c
    <3>1. d.call # c.call \/ d.svc # c.svc
      BY <1>3, <2>2 DEF Plain
    <3>2. \/ d.call = "auto" /\ o[d.svc].auto = d.val
          \/ d.call = "bypass" /\ o[d.svc].bypass = d.val
      BY <1>1, <1>4, <2>2 DEF Progress
    <3>3. d.svc \in Services
      BY DEF Plain, Calls
    <3> QED
      BY <1>2, <3>1, <3>2, <3>3
  <2> QED
    BY <2>1, <2>2
<1> QED
  BY <1>1, <1>2, <1>3, <1>4 DEF Progress
\* The settings stay within the calls of a plan.
LEMMA PlanBounds ==
  ASSUME NEW o \in OSs, NEW q \in Seq(Calls), q # <<>>, NEW D, Elems(q) \subseteq D, NEW o0,
         Within(D, o, o0),
         NEW r, r = After(o, Head(q))
  PROVE  Within(D, r, o0)
<1>0. PICK c : c = Head(q)
  OBVIOUS
<1>1. c \in Calls /\ c \in D
  BY <1>0, ElemsTail
<1>2. /\ r \in OSs /\ c.svc \in Services /\ c.call \in {"auto", "web", "bypass"}
      /\ \A s \in Services :
           /\ r[s].auto = IF c.call = "auto" /\ s = c.svc THEN c.val ELSE o[s].auto
           /\ r[s].bypass = IF c.call = "bypass" /\ s = c.svc THEN c.val ELSE o[s].bypass
  BY <1>0, <1>1, CallDoes
<1>3. /\ c.call = "auto" => c = AutoURL(c.svc, c.val)
      /\ c.call = "bypass" => c = Bypass(c.svc, c.val)
  BY <1>1 DEF Calls, AutoURL, Bypass
<1> QED
  BY <1>1, <1>2, <1>3 DEF Within

-----------------------------------------------------------------------------
(* The invariant of Apply is preserved. *)

LEMMA ApplyFacts ==
  ASSUME ApplyInv
  PROVE  /\ SysTypeOK /\ URL \in URLs /\ None \notin All /\ None \notin Ports
         /\ \A p \in All : /\ l[p] \in LocalType /\ Carries(p)
                           /\ lock = p => Applying(l[p].req) /\ l[p].req \in Configs /\ l[p].pc = "apply"
<1>1. SysTypeOK /\ None \notin All /\ None \notin Ports
  BY SysProxyConstantsOK DEF ApplyInv, All, Ports
<1>2. URL \in URLs
  BY <1>1 DEF SysTypeOK, URL, URLs
<1>3. ASSUME NEW p \in All
      PROVE  /\ l[p] \in LocalType /\ Carries(p)
             /\ lock = p => Applying(l[p].req) /\ l[p].req \in Configs /\ l[p].pc = "apply"
  <2>1. l[p] \in LocalType /\ Carries(p)
    BY <1>1 DEF ApplyInv, SysTypeOK
  <2>2. ASSUME lock = p PROVE Applying(l[p].req)
    BY <1>1, <2>2 DEF ApplyInv
  <2> QED
    BY <2>1, <2>2 DEF Carries
<1> QED
  BY <1>1, <1>2, <1>3

\* A step that leaves Apply with p inside.
LEMMA Inside ==
  ASSUME ApplyInv, NEW p \in All, lock \in {None, p},
         NEW r \in LocalType, l' = [l EXCEPT ![p] = r], r.pc = "apply", r.req \in Configs,
         r.res = "ok", lock' = p, Applying(r.req)',
         cfg' = cfg, disk' = disk, srv' = srv, crashes' = crashes,
         cand' \in Ports \cup {None}, os' \in OSs, todo' \in Seq(Calls), fails' \in Nat,
         phase' # "apply" => cand' = None
  PROVE  ApplyInv'
<1>1. SysTypeOK /\ None \notin All /\ \A q \in All : Carries(q)
  BY ApplyFacts
<1>2. l' \in [All -> LocalType] /\ l'[p] = r /\ \A q \in All : q # p => l'[q] = l[q]
  BY <1>1 DEF SysTypeOK
<1>3. SysTypeOK'
  BY <1>1, <1>2 DEF SysTypeOK
<1>4. ASSUME NEW q \in All PROVE Carries(q)'
  <2>1. CASE q = p
    BY <1>2, <2>1 DEF Carries
  <2>2. CASE q # p
    BY <1>1, <1>2, <2>2 DEF Carries
  <2> QED
    BY <2>1, <2>2
<1>5. Applying(l[lock].req)'
  BY <1>2
<1> QED
  BY <1>1, <1>3, <1>4, <1>5 DEF ApplyInv

\* Apply returns.
LEMMA Outside ==
  ASSUME ApplyInv, NEW p \in All, lock = p, NEW res \in {"ok", "err"}, Unlock(p, res),
         cfg' \in Configs, srv' \in Ports \cup {None}, cand' = None,
         os' \in OSs, disk' = disk, crashes' = crashes
  PROVE  ApplyInv'
<1>1. SysTypeOK /\ None \notin All /\ l[p] \in LocalType /\ \A q \in All : Carries(q)
  BY ApplyFacts
<1>2. PICK r : r = IF res = "ok" /\ p # Main THEN [l[p] EXCEPT !.pc = "ini"]
                   ELSE [AtRest EXCEPT !.res = res]
  OBVIOUS
<1>3. r \in LocalType /\ r.pc \in {"ini", "idle"} /\ (r.pc # "idle" => r.res = "ok")
  BY <1>1, <1>2 DEF LocalType, PCs, AtRest, Carries
<1>4. l' = [l EXCEPT ![p] = r] /\ lock' = None /\ phase' = "idle" /\ todo' = <<>> /\ fails' = 0
  BY <1>2 DEF Unlock
<1>5. l' \in [All -> LocalType] /\ l'[p] = r /\ \A q \in All : q # p => l'[q] = l[q]
  BY <1>1, <1>3, <1>4 DEF SysTypeOK
<1>6. SysTypeOK'
  BY <1>1, <1>4, <1>5 DEF SysTypeOK
<1>7. ASSUME NEW q \in All PROVE Carries(q)'
  <2>1. CASE q = p
    BY <1>1, <1>3, <1>4, <1>5, <2>1 DEF Carries
  <2>2. CASE q # p
    BY <1>1, <1>4, <1>5, <2>2 DEF Carries
  <2> QED
    BY <2>1, <2>2
<1> QED
  BY <1>4, <1>6, <1>7 DEF ApplyInv

\* A goroutine that is not inside Apply moves on.
LEMMA Elsewhere ==
  ASSUME ApplyInv, NEW p \in All, NEW r \in LocalType, l' = [l EXCEPT ![p] = r],
         l[p].pc # "apply", r.pc \in {"idle", "lock", "write"},
         r.pc = "lock" => r.req \in Configs, r.pc = "write" => r.ini \in Configs,
         r.pc # "idle" => r.res = "ok", disk' \in Configs \cup {None},
         UNCHANGED <<cfg, srv, cand, os, lock, phase, todo, fails, was, crashes>>
  PROVE  ApplyInv'
<1>1. SysTypeOK /\ None \notin All /\ \A q \in All : Carries(q)
  BY ApplyFacts
<1>2. l' \in [All -> LocalType] /\ l'[p] = r /\ \A q \in All : q # p => l'[q] = l[q]
  BY <1>1 DEF SysTypeOK
<1>3. SysTypeOK'
  BY <1>1, <1>2 DEF SysTypeOK
<1>4. ASSUME NEW q \in All PROVE Carries(q)'
  <2>1. CASE q = p
    BY <1>1, <1>2, <2>1 DEF Carries
  <2>2. CASE q # p
    BY <1>1, <1>2, <2>2 DEF Carries
  <2> QED
    BY <2>1, <2>2
<1>5. ASSUME lock # None PROVE Applying(l[lock].req)'
  <2>1. lock \in All /\ lock # p
    BY <1>1, <1>5 DEF SysTypeOK, Carries
  <2>2. l'[lock'] = l[lock]
    BY <1>2, <2>1
  <2>3. Applying(l[lock].req)
    BY <1>5 DEF ApplyInv
  <2> QED
    BY <2>2, <2>3 DEF Applying, Forwarding, TurningOff, RollingBack, Target, URL
<1> QED
  BY <1>3, <1>4, <1>5 DEF ApplyInv

LEMMA ApplyInit == ASSUME SInit PROVE ApplyInv
<1>1. AtRest \in LocalType /\ AtRest.pc = "idle"
  BY DEF AtRest, LocalType, PCs
<1>2. cfg \in Configs
  BY SysProxyConstantsOK DEF SInit, Off, Configs
<1>3. os \in OSs
  BY DEF SInit, OSs, Settings, URLs
<1>4. SysTypeOK /\ \A p \in All : l[p] = AtRest
  BY <1>1, <1>2, <1>3 DEF SInit, SysTypeOK
<1>5. \A p \in All : Carries(p)
  BY <1>1, <1>4, SysProxyConstantsOK DEF SInit, Carries, All
<1> QED
  BY <1>4, <1>5 DEF ApplyInv, SInit

LEMMA RequestInv ==
  ASSUME ApplyInv, NEW p \in Procs, NEW req \in Configs, Request(p, req) PROVE ApplyInv'
<1>1. SysTypeOK /\ p \in All /\ l[p].pc = "idle"
  BY ApplyFacts DEF All, Request
<1>2. PICK r : r = [AtRest EXCEPT !.pc = "lock", !.req = req]
  OBVIOUS
<1>3. r \in LocalType /\ r.pc = "lock" /\ r.req = req /\ r.res = "ok"
  BY <1>2 DEF AtRest, LocalType, PCs
<1>4. l' = [l EXCEPT ![p] = r]
  BY <1>2 DEF Request
<1>5. disk' \in Configs \cup {None}
  BY <1>1 DEF Request, SysTypeOK
<1>6. UNCHANGED <<cfg, srv, cand, os, lock, phase, todo, fails, was, crashes>>
  BY DEF Request, server, apply
<1> QED
  BY <1>1, <1>3, <1>4, <1>5, <1>6, Elsewhere

LEMMA LockInv ==
  ASSUME ApplyInv, NEW p \in All, Lock(p) PROVE ApplyInv'
<1>1. SysTypeOK /\ l[p] \in LocalType /\ l[p].pc = "lock" /\ l[p].req \in Configs /\ l[p].res = "ok"
  BY ApplyFacts DEF Lock, Carries
<1>2. PICK r : r = [l[p] EXCEPT !.pc = "apply"]
  OBVIOUS
<1>3. r \in LocalType /\ r.pc = "apply" /\ r.req = l[p].req /\ r.res = "ok"
  BY <1>1, <1>2 DEF LocalType, PCs
<1>4. l' = [l EXCEPT ![p] = r]
  BY <1>2 DEF Lock
<1>5. /\ was'.os = os /\ was'.cfg = cfg /\ lock = None /\ lock' = p
      /\ UNCHANGED <<cfg, srv, cand, os, disk, fails, crashes>>
  BY DEF Lock, server
<1>6. cand = None /\ os \in OSs /\ cfg \in Configs
  BY <1>5 DEF ApplyInv, SysTypeOK
<1>7. CASE r.req.on
  <2>1. phase' = "prepare" /\ todo' = <<>>
    BY <1>3, <1>7 DEF Lock
  <2>2. Applying(r.req)'
    BY <1>5, <1>6, <1>7, <2>1 DEF Applying
  <2>3. todo' \in Seq(Calls) /\ fails' \in Nat /\ cand' \in Ports \cup {None} /\ os' \in OSs
    BY <1>1, <1>5, <2>1 DEF SysTypeOK
  <2> QED
    BY <1>1, <1>3, <1>4, <1>5, <1>6, <2>1, <2>2, <2>3, Inside
<1>8. CASE ~r.req.on
  <2>1. phase' = "off" /\ todo' = DisableService(r.req.svc) \o OldService(r.req)
    BY <1>3, <1>8 DEF Lock
  <2>2. todo' \in Seq(Calls) /\ Elems(todo') = OffCalls(cfg, r.req)
    BY <1>1, <1>3, <1>6, <2>1, OffPlan
  <2>3. Progress(OffCalls(cfg, r.req), os, todo')
    BY <2>2, PlanBegins
  <2>4. Within(OffCalls(cfg, r.req), os, os)
    BY DEF Within
  <2>5. TurningOff(r.req)'
    BY <1>5, <2>3, <2>4 DEF TurningOff
  <2>6. Applying(r.req)'
    BY <1>5, <1>6, <1>8, <2>1, <2>5 DEF Applying
  <2>7. fails' \in Nat /\ cand' \in Ports \cup {None} /\ os' \in OSs
    BY <1>1, <1>5 DEF SysTypeOK
  <2> QED
    BY <1>1, <1>3, <1>4, <1>5, <1>6, <2>1, <2>2, <2>6, <2>7, Inside
<1> QED
  BY <1>7, <1>8

\* What a listener that could be bound, or the server that will do, is.
LEMMA BoundFacts ==
  ASSUME SysTypeOK, NEW port \in Pinned \cup {None, Legacy}, NEW b \in Bound(port)
  PROVE  /\ b \in Ports \cup {None}
         /\ (IF b = None THEN srv ELSE b) \in Ports
<1>1. srv \in Ports \cup {None} /\ None \notin Ports
  BY SysProxyConstantsOK DEF SysTypeOK, Ports
<1>2. CASE srv # None /\ port \in {None, srv}
  BY <1>1, <1>2 DEF Bound
<1>3. CASE ~(srv # None /\ port \in {None, srv}) /\ port = None
  BY <1>1, <1>3 DEF Bound, Ports
<1>4. CASE ~(srv # None /\ port \in {None, srv}) /\ port # None
  BY <1>1, <1>4 DEF Bound, Ports
<1> QED
  BY <1>2, <1>3, <1>4

\* The candidate is bound: networksetup is next.
LEMMA ProceedInv ==
  ASSUME ApplyInv, NEW p \in All, lock = p, phase = "prepare",
         NEW port \in Ports \cup {None}, (IF port = None THEN srv ELSE port) \in Ports,
         NEW req \in Configs, req.on, Proceed(req, port),
         NEW r \in LocalType, l' = [l EXCEPT ![p] = r], r.pc = "apply", r.req = req, r.res = "ok",
         UNCHANGED <<cfg, os, disk, crashes>>
  PROVE  ApplyInv'
<1>1. /\ SysTypeOK /\ Applying(l[p].req) /\ None \notin Ports
  BY ApplyFacts
<1>2. PICK u : u = IF port = None THEN srv ELSE port
  OBVIOUS
<1>3. u \in Ports /\ u \in URLs /\ Target' = u
  BY <1>2 DEF Proceed, Target, URLs
<1>4. todo' = Forward(req, u) /\ phase' = "apply"
  BY <1>2 DEF Proceed
<1>5. todo' \in Seq(Calls) /\ Elems(todo') = ForwardCalls(cfg, req, u)
  BY <1>1, <1>3, <1>4, ForwardPlan DEF SysTypeOK
<1>6. Progress(ForwardCalls(cfg, req, u), os, todo')
  BY <1>5, PlanBegins
<1>7. was.os = os
  BY <1>1 DEF Applying
<1>8. Within(ForwardCalls(cfg, req, u), os, was.os)
  BY <1>7 DEF Within
<1>9. UNCHANGED <<srv, fails, was, lock>>
  BY DEF Proceed
<1>10. Forwarding(req)'
  BY <1>1, <1>3, <1>6, <1>8, <1>9 DEF Forwarding
<1>11. Applying(r.req)'
  BY <1>1, <1>4, <1>9, <1>10 DEF Applying
<1>12. cand' \in Ports \cup {None} /\ os' \in OSs /\ fails' \in Nat
  BY <1>1, <1>9 DEF Proceed, SysTypeOK
<1> QED
  BY <1>4, <1>5, <1>9, <1>11, <1>12, Inside

LEMMA PrepareInv ==
  ASSUME ApplyInv, NEW p \in All, Prepare(p) PROVE ApplyInv'
<1>1. /\ lock = p /\ phase = "prepare" /\ UNCHANGED <<cfg, os, disk, crashes>>
  BY DEF Prepare
<1>2. /\ SysTypeOK /\ l[p] \in LocalType /\ l[p].pc = "apply" /\ l[p].req \in Configs
      /\ l[p].req.on /\ l[p].res = "ok"
  BY <1>1, ApplyFacts DEF Applying, Carries, Configs
<1>3. l[p].req.port \in Pinned \cup {None, Legacy}
  BY <1>2 DEF Configs
<1>4. ASSUME NEW port \in Bound(l[p].req.port), Proceed(l[p].req, port), UNCHANGED l
      PROVE  ApplyInv'
  <2>1. l' = [l EXCEPT ![p] = l[p]]
    BY <1>2, <1>4 DEF SysTypeOK
  <2>2. port \in Ports \cup {None} /\ (IF port = None THEN srv ELSE port) \in Ports
    BY <1>2, <1>3, BoundFacts
  <2> QED
    BY <1>1, <1>2, <1>4, <2>1, <2>2, ProceedInv
<1>5. ASSUME NEW port \in Bound(None), Proceed([l[p].req EXCEPT !.port = None], port),
             l' = [l EXCEPT ![p].req.port = None]
      PROVE  ApplyInv'
  <2>1. PICK req : req = [l[p].req EXCEPT !.port = None]
    OBVIOUS
  <2>2. PICK r : r = [l[p] EXCEPT !.req = req]
    OBVIOUS
  <2>3. req \in Configs /\ req.on
    BY <1>2, <2>1 DEF Configs
  <2>4. r \in LocalType /\ r.pc = "apply" /\ r.req = req /\ r.res = "ok"
    BY <1>2, <2>2, <2>3 DEF LocalType
  <2>5. l' = [l EXCEPT ![p] = r]
    BY <1>5, <2>1, <2>2
  <2>6. port \in Ports \cup {None} /\ (IF port = None THEN srv ELSE port) \in Ports
    BY <1>2, BoundFacts
  <2>7. Proceed(req, port)
    BY <1>5, <2>1
  <2> QED
    BY <1>1, <2>3, <2>4, <2>5, <2>6, <2>7, ProceedInv
<1>6. ASSUME Unlock(p, "err"), UNCHANGED server PROVE ApplyInv'
  <2>1. cand = None
    BY <1>1 DEF ApplyInv
  <2>2. cfg' \in Configs /\ srv' \in Ports \cup {None} /\ cand' = None /\ os' \in OSs
    BY <1>1, <1>2, <1>6, <2>1 DEF server, SysTypeOK
  <2> QED
    BY <1>1, <1>6, <2>2, Outside
<1> QED
  BY <1>4, <1>5, <1>6 DEF Prepare

LEMMA CallOKInv ==
  ASSUME ApplyInv, NEW p \in All, CallOK(p) PROVE ApplyInv'
<1>0. PICK r : r = l[p]
  OBVIOUS
<1>a. PICK req : req = r.req
  OBVIOUS
<1>1. /\ lock = p /\ todo # <<>> /\ os' = After(os, Head(todo)) /\ todo' = Tail(todo)
      /\ UNCHANGED <<cfg, srv, cand, disk, lock, phase, fails, was, l, crashes>>
  BY DEF CallOK, Done, After, server
<1>2. /\ SysTypeOK /\ l[p] \in LocalType /\ l[p].pc = "apply" /\ req \in Configs
      /\ Applying(req) /\ l[p].res = "ok" /\ URL \in URLs
  BY <1>0, <1>a, <1>1, ApplyFacts DEF Carries
<1>3. os \in OSs /\ todo \in Seq(Calls) /\ cfg \in Configs
  BY <1>2 DEF SysTypeOK
<1>4. phase # "prepare"
  BY <1>1, <1>2 DEF Applying
<1>5. ASSUME NEW C, Plain(C), Progress(C, os, todo)
      PROVE  os' \in OSs /\ todo' \in Seq(Calls) /\ Progress(C, os', todo')
  BY <1>1, <1>3, <1>5, PlanProceeds
<1>6. ASSUME NEW D, Elems(todo) \subseteq D, NEW o0, Within(D, os, o0) PROVE Within(D, os', o0)
  BY <1>1, <1>3, <1>6, PlanBounds
<1>7. ASSUME phase = "apply"
      PROVE  os' \in OSs /\ todo' \in Seq(Calls) /\ Applying(req)'
  <2>1. Forwarding(req) /\ Target \in URLs
    BY <1>2, <1>7 DEF Applying, SysTypeOK, Target, URLs
  <2>2. PICK C : C = ForwardCalls(cfg, req, Target)
    OBVIOUS
  <2>3. Target # None /\ Progress(C, os, todo) /\ Within(C, os, was.os) /\ Plain(C)
    BY <1>2, <1>3, <2>1, <2>2, PlansArePlain DEF Forwarding
  <2>4. os' \in OSs /\ todo' \in Seq(Calls) /\ Progress(C, os', todo') /\ Within(C, os', was.os)
    BY <1>5, <1>6, <2>3 DEF Progress
  <2>5. Target' = Target
    BY <1>1 DEF Target
  <2>6. Forwarding(req)'
    BY <1>1, <2>2, <2>3, <2>4, <2>5 DEF Forwarding
  <2> QED
    BY <1>1, <1>2, <1>7, <2>4, <2>6 DEF Applying
<1>8. ASSUME phase = "off"
      PROVE  os' \in OSs /\ todo' \in Seq(Calls) /\ Applying(req)'
  <2>1. PICK C : C = OffCalls(cfg, req)
    OBVIOUS
  <2>2. Progress(C, os, todo) /\ Within(C, os, was.os) /\ Plain(C)
    BY <1>2, <1>3, <1>8, <2>1, PlansArePlain DEF Applying, TurningOff
  <2>3. os' \in OSs /\ todo' \in Seq(Calls) /\ Progress(C, os', todo') /\ Within(C, os', was.os)
    BY <1>5, <1>6, <2>2 DEF Progress
  <2>4. TurningOff(req)'
    BY <1>1, <2>1, <2>3 DEF TurningOff
  <2> QED
    BY <1>1, <1>2, <1>8, <2>3, <2>4 DEF Applying
<1>9. ASSUME phase = "rollback"
      PROVE  os' \in OSs /\ todo' \in Seq(Calls) /\ Applying(req)'
  <2>1. PICK C : C = RestoreCalls(cfg, req, URL)
    OBVIOUS
  <2>2. fails > 0 /\ Progress(C, os, todo) /\ Plain(C)
    BY <1>2, <1>3, <1>9, <2>1, PlansArePlain DEF Applying, RollingBack
  <2>3. PICK url \in Ports : Within(UndoneCalls(cfg, req, URL, url), os, was.os)
    BY <1>2, <1>9, <2>1 DEF Applying, RollingBack
  <2>4. /\ os' \in OSs /\ todo' \in Seq(Calls) /\ Progress(C, os', todo')
        /\ Within(UndoneCalls(cfg, req, URL, url), os', was.os)
    BY <1>5, <1>6, <2>1, <2>2, <2>3 DEF Progress, UndoneCalls
  <2>5. URL' = URL
    BY <1>1 DEF URL
  <2>6. RollingBack(req)'
    BY <1>1, <2>1, <2>2, <2>4, <2>5 DEF RollingBack
  <2> QED
    BY <1>1, <1>2, <1>9, <2>4, <2>6 DEF Applying
<1>10. phase \in {"apply", "off", "rollback"}
  BY <1>2, <1>4 DEF Applying
<1>11. os' \in OSs /\ todo' \in Seq(Calls) /\ Applying(r.req)'
  BY <1>a, <1>7, <1>8, <1>9, <1>10
<1>12. l' = [l EXCEPT ![p] = r]
  BY <1>0, <1>1, <1>2 DEF SysTypeOK
<1>13. cand' \in Ports \cup {None} /\ fails' \in Nat /\ (phase' # "apply" => cand' = None)
  BY <1>1, <1>2 DEF SysTypeOK, ApplyInv
<1> QED
  BY <1>0, <1>a, <1>1, <1>2, <1>11, <1>12, <1>13, Inside

\* A call that fails has done nothing, or half of what it does.
LEMMA HalfDone ==
  ASSUME ApplyInv, NEW p \in All, CallFails(p)
  PROVE  /\ os' \in OSs
         /\ \A D, o0 : Elems(todo) \subseteq D /\ Within(D, os, o0) => Within(D, os', o0)
<1>1. os \in OSs /\ todo \in Seq(Calls) /\ todo # <<>>
  BY ApplyFacts DEF CallFails, SysTypeOK
<1>2. os' = os \/ os' = After(os, Head(todo))
  BY DEF CallFails, Done, After
<1>3. CASE os' = os
  BY <1>1, <1>3
<1>4. CASE os' = After(os, Head(todo))
  <2>1. Head(todo) \in Calls
    BY <1>1, ElemsTail
  <2>2. os' \in OSs
    BY <1>1, <1>4, <2>1, CallDoes
  <2>3. ASSUME NEW D, NEW o0, Elems(todo) \subseteq D, Within(D, os, o0) PROVE Within(D, os', o0)
    BY <1>1, <1>4, <2>3, PlanBounds
  <2> QED
    BY <2>2, <2>3
<1> QED
  BY <1>2, <1>3, <1>4

LEMMA CallFailsInv ==
  ASSUME ApplyInv, NEW p \in All, CallFails(p) PROVE ApplyInv'
<1>0. PICK r : r = l[p]
  OBVIOUS
<1>a. PICK req : req = r.req
  OBVIOUS
<1>1. lock = p /\ os' \in OSs /\ UNCHANGED <<cfg, srv, disk, crashes>>
  BY HalfDone DEF CallFails
<1>2. /\ SysTypeOK /\ l[p] \in LocalType /\ l[p].pc = "apply" /\ req \in Configs
      /\ Applying(req) /\ l[p].res = "ok" /\ URL \in URLs
  BY <1>0, <1>a, <1>1, ApplyFacts DEF Carries
<1>3. CASE phase = "apply"
  <2>1. /\ cand' = None /\ phase' = "rollback" /\ todo' = Restoration(req) /\ fails' = fails + 1
        /\ UNCHANGED <<lock, l, was>>
    BY <1>0, <1>a, <1>3 DEF CallFails
  <2>2. todo' \in Seq(Calls) /\ Elems(todo') = RestoreCalls(cfg, req, URL)
    BY <1>2, <2>1, RestorePlan DEF SysTypeOK
  <2>3. Progress(RestoreCalls(cfg, req, URL), os', todo')
    BY <2>2, PlanBegins
  <2>4. Forwarding(req) /\ Target \in Ports
    BY <1>2, <1>3 DEF Applying, Forwarding, SysTypeOK, Target
  <2>5. PICK url \in Ports : Within(ForwardCalls(cfg, req, url), os', was.os)
    BY <2>4, HalfDone DEF Forwarding, Progress
  <2>6. Within(UndoneCalls(cfg, req, URL, url), os', was.os)
    BY <2>5 DEF Within, UndoneCalls
  <2>7. URL' = URL /\ fails' > 0 /\ fails' \in Nat
    BY <1>1, <1>2, <2>1 DEF URL, SysTypeOK
  <2>8. RollingBack(req)'
    BY <1>1, <2>1, <2>3, <2>6, <2>7 DEF RollingBack
  <2>9. Applying(r.req)'
    BY <1>a, <1>1, <1>2, <1>3, <2>1, <2>8 DEF Applying
  <2>10. l' = [l EXCEPT ![p] = r]
    BY <1>0, <1>1, <1>2, <2>1 DEF SysTypeOK
  <2> QED
    BY <1>0, <1>a, <1>1, <1>2, <2>1, <2>2, <2>7, <2>9, <2>10, Inside
<1>4. CASE phase # "apply"
  <2>1. Unlock(p, "err") /\ cand' = cand /\ cand = None
    BY <1>4 DEF CallFails, ApplyInv
  <2>2. cfg' \in Configs /\ srv' \in Ports \cup {None}
    BY <1>1, <1>2 DEF SysTypeOK
  <2> QED
    BY <1>1, <2>1, <2>2, Outside
<1> QED
  BY <1>3, <1>4

LEMMA RolledBackInv ==
  ASSUME ApplyInv, NEW p \in All, RolledBack(p) PROVE ApplyInv'
<1>1. /\ lock = p /\ Unlock(p, "err") /\ UNCHANGED <<cfg, srv, cand, os, disk, crashes>>
      /\ phase = "rollback"
  BY DEF RolledBack, server
<1>2. cfg' \in Configs /\ srv' \in Ports \cup {None} /\ cand' = None /\ os' \in OSs
  BY <1>1, ApplyFacts DEF SysTypeOK, ApplyInv
<1> QED
  BY <1>1, <1>2, Outside

LEMMA CommitInv ==
  ASSUME ApplyInv, NEW p \in All, Commit(p) PROVE ApplyInv'
<1>1. lock = p /\ Unlock(p, "ok") /\ UNCHANGED <<os, disk, crashes>>
  BY DEF Commit
<1>2. cfg' \in Configs /\ srv' \in Ports \cup {None} /\ cand' = None /\ os' \in OSs
  BY <1>1, ApplyFacts DEF SysTypeOK, Commit
<1> QED
  BY <1>1, <1>2, Outside

LEMMA TurnedOffInv ==
  ASSUME ApplyInv, NEW p \in All, TurnedOff(p) PROVE ApplyInv'
<1>1. /\ lock = p /\ phase = "off" /\ srv' = None
      /\ UNCHANGED <<cand, os, disk, crashes>>
  BY DEF TurnedOff
<1>2. cand' = None /\ cfg \in Configs /\ l[p].req \in Configs /\ os' \in OSs
  BY <1>1, ApplyFacts DEF SysTypeOK, ApplyInv
<1>3. ASSUME cfg' = l[p].req, Unlock(p, "ok") PROVE ApplyInv'
  BY <1>1, <1>2, <1>3, Outside
<1>4. ASSUME cfg' = cfg, Unlock(p, "err") PROVE ApplyInv'
  BY <1>1, <1>2, <1>4, Outside
<1> QED
  BY <1>3, <1>4 DEF TurnedOff

LEMMA ReadINIInv ==
  ASSUME ApplyInv, NEW p \in All, ReadINI(p) PROVE ApplyInv'
<1>1. SysTypeOK /\ l[p] \in LocalType /\ l[p].pc = "ini" /\ l[p].res = "ok"
  BY ApplyFacts DEF ReadINI, Carries
<1>2. PICK r : r = [l[p] EXCEPT !.ini = cfg, !.pc = "write"]
  OBVIOUS
<1>3. r \in LocalType /\ r.pc = "write" /\ r.ini \in Configs /\ r.res = "ok"
  BY <1>1, <1>2 DEF LocalType, PCs, SysTypeOK
<1>4. l' = [l EXCEPT ![p] = r]
  BY <1>2 DEF ReadINI
<1>5. disk' \in Configs \cup {None}
  BY <1>1 DEF ReadINI, SysTypeOK
<1>6. UNCHANGED <<cfg, srv, cand, os, lock, phase, todo, fails, was, crashes>>
  BY DEF ReadINI, server, apply
<1> QED
  BY <1>1, <1>3, <1>4, <1>5, <1>6, Elsewhere

LEMMA WriteINIInv ==
  ASSUME ApplyInv, NEW p \in All, WriteINI(p) PROVE ApplyInv'
<1>1. SysTypeOK /\ l[p].pc = "write" /\ l[p].ini \in Configs
  BY ApplyFacts DEF WriteINI, Carries
<1>2. PICK r \in {AtRest, [AtRest EXCEPT !.res = "err"]} : l' = [l EXCEPT ![p] = r]
  BY DEF WriteINI
<1>3. r \in LocalType /\ r.pc = "idle"
  BY <1>2 DEF AtRest, LocalType, PCs
<1>4. disk' \in Configs \cup {None}
  BY <1>1 DEF WriteINI, SysTypeOK
<1>5. UNCHANGED <<cfg, srv, cand, os, lock, phase, todo, fails, was, crashes>>
  BY DEF WriteINI, server, apply
<1> QED
  BY <1>1, <1>2, <1>3, <1>4, <1>5, Elsewhere

LEMMA CrashInv ==
  ASSUME ApplyInv, Crash PROVE ApplyInv'
<1>1. SysTypeOK /\ None \notin All
  BY ApplyFacts
<1>2. cfg' \in Configs
  <2>1. CASE disk = None \/ disk.on
    <3>1. PICK r \in Rules : cfg' = Off(Default, r)
      BY <2>1, Zenon DEF Crash
    <3> QED
      BY <3>1, SysProxyConstantsOK DEF Off, Configs
  <2>2. CASE ~(disk = None \/ disk.on)
    <3>1. cfg' = disk
      BY <2>2, Zenon DEF Crash
    <3> QED
      BY <1>1, <2>2, <3>1 DEF SysTypeOK
  <2> QED
    BY <2>1, <2>2
<1>3. /\ lock' = None /\ phase' = "idle" /\ todo' = <<>> /\ cand' = None
      /\ srv' = None /\ fails' = 0 /\ crashes' = crashes + 1 /\ UNCHANGED <<os, disk>>
  BY DEF Crash
<1>4. AtRest \in LocalType /\ AtRest.pc = "idle"
  BY DEF AtRest, LocalType, PCs
<1>5. PICK r : r = [AtRest EXCEPT !.pc = "lock", !.req = disk]
  OBVIOUS
<1>6. r \in LocalType /\ r.pc = "lock" /\ r.req = disk /\ r.res = "ok"
  BY <1>1, <1>5 DEF AtRest, LocalType, PCs, SysTypeOK
<1>7. l' = [p \in All |-> IF p = Main /\ disk # None /\ disk.on THEN r ELSE AtRest]
  BY <1>5 DEF Crash
<1>8. l' \in [All -> LocalType]
  BY <1>4, <1>6, <1>7
<1>9. SysTypeOK'
  BY <1>1, <1>2, <1>3, <1>8 DEF SysTypeOK
<1>10. ASSUME NEW p \in All PROVE Carries(p)'
  <2>1. lock' # p
    BY <1>1, <1>3
  <2>2. CASE p = Main /\ disk # None /\ disk.on
    <3>1. l'[p] = r /\ disk \in Configs
      BY <1>1, <1>7, <2>2 DEF SysTypeOK
    <3> QED
      BY <1>6, <2>1, <3>1 DEF Carries
  <2>3. CASE ~(p = Main /\ disk # None /\ disk.on)
    <3>1. l'[p] = AtRest
      BY <1>7, <2>3
    <3> QED
      BY <1>4, <2>1, <3>1 DEF Carries
  <2> QED
    BY <2>2, <2>3
<1> QED
  BY <1>3, <1>9, <1>10 DEF ApplyInv

LEMMA ApplyStep ==
  ASSUME ApplyInv, [SNext]_svars PROVE ApplyInv'
<1>1. CASE \E p \in Procs, req \in Configs : Request(p, req)
  BY <1>1, RequestInv
<1>2. ASSUME NEW p \in All,
             \/ Lock(p) \/ Prepare(p) \/ CallOK(p) \/ CallFails(p) \/ RolledBack(p)
             \/ Commit(p) \/ TurnedOff(p) \/ ReadINI(p) \/ WriteINI(p)
      PROVE  ApplyInv'
  BY <1>2, LockInv, PrepareInv, CallOKInv, CallFailsInv, RolledBackInv, CommitInv,
     TurnedOffInv, ReadINIInv, WriteINIInv
<1>3. CASE Crash
  BY <1>3, CrashInv
<1>4. CASE UNCHANGED svars
  BY <1>4 DEF svars, server, apply, ApplyInv, SysTypeOK, Carries, Applying, Forwarding, TurningOff,
              RollingBack, Target, URL
<1> QED
  BY <1>1, <1>2, <1>3, <1>4 DEF SNext

\* Whatever calls fail, whenever the process dies and however many requests wait for the
\* lock: the goroutine inside Apply has made a part of its plan, and no other changes.
THEOREM ApplyInvariance == SSpec => []ApplyInv
<1>1. SInit => ApplyInv
  BY ApplyInit
<1>2. ApplyInv /\ [SNext]_svars => ApplyInv'
  BY ApplyStep
<1> QED
  BY <1>1, <1>2, PTL DEF SSpec

-----------------------------------------------------------------------------
(* Where a plan leads. *)

LEMMA PlanMembers ==
  ASSUME NEW c \in Configs, NEW req \in Configs, NEW u, NEW s, NEW v
  PROVE  /\ AutoURL(s, v) \in OffCalls(c, req)
              <=> v = None /\ (s = req.svc \/ (c.on /\ s = c.svc))
         /\ Bypass(s, v) \in OffCalls(c, req)
              <=> v = None /\ (s = req.svc \/ (c.on /\ s = c.svc))
         /\ AutoURL(s, v) \in ForwardCalls(c, req, u)
              <=> (s = req.svc /\ v = u) \/ (c.on /\ s = c.svc /\ s # req.svc /\ v = None)
         /\ Bypass(s, v) \in ForwardCalls(c, req, u)
              <=> (s = req.svc /\ v = req.rules) \/ (c.on /\ s = c.svc /\ s # req.svc /\ v = None)
         /\ AutoURL(s, v) \in RestoreCalls(c, req, u)
              <=> (c.on /\ s = c.svc /\ v = u) \/ (s = req.svc /\ ~(c.on /\ s = c.svc) /\ v = None)
         /\ Bypass(s, v) \in RestoreCalls(c, req, u)
              <=> (c.on /\ s = c.svc /\ v = c.rules)
                  \/ (s = req.svc /\ ~(c.on /\ s = c.svc) /\ v = None)
<1>1. /\ \A t, x : AutoURL(s, v) # WebOff(t) /\ AutoURL(s, v) # Bypass(t, x)
      /\ \A t, x : Bypass(s, v) # WebOff(t)
      /\ \A t, x : AutoURL(s, v) = AutoURL(t, x) <=> s = t /\ v = x
      /\ \A t, x : Bypass(s, v) = Bypass(t, x) <=> s = t /\ v = x
      /\ \A t, x : Bypass(s, v) # AutoURL(t, x)
  BY DEF AutoURL, WebOff, Bypass
<1>2. /\ AutoURL(s, v) \in OldCalls(c, req) <=> c.on /\ c.svc # req.svc /\ s = c.svc /\ v = None
      /\ Bypass(s, v) \in OldCalls(c, req) <=> c.on /\ c.svc # req.svc /\ s = c.svc /\ v = None
  BY <1>1 DEF OldCalls, DisableCalls
<1>3. \A t : /\ AutoURL(s, v) \in DisableCalls(t) <=> s = t /\ v = None
             /\ Bypass(s, v) \in DisableCalls(t) <=> s = t /\ v = None
  BY <1>1 DEF DisableCalls
<1>4. /\ AutoURL(s, v) \in OffCalls(c, req)
           <=> v = None /\ (s = req.svc \/ (c.on /\ s = c.svc))
      /\ Bypass(s, v) \in OffCalls(c, req)
           <=> v = None /\ (s = req.svc \/ (c.on /\ s = c.svc))
  BY <1>2, <1>3 DEF OffCalls
<1>5. /\ AutoURL(s, v) \in ForwardCalls(c, req, u)
           <=> (s = req.svc /\ v = u) \/ (c.on /\ s = c.svc /\ s # req.svc /\ v = None)
      /\ Bypass(s, v) \in ForwardCalls(c, req, u)
           <=> (s = req.svc /\ v = req.rules) \/ (c.on /\ s = c.svc /\ s # req.svc /\ v = None)
  BY <1>1, <1>2 DEF ForwardCalls
<1>6. CASE c.on
  <2>1. RestoreCalls(c, req, u) = (IF req.svc # c.svc THEN DisableCalls(req.svc) ELSE {})
                                  \cup {AutoURL(c.svc, u), Bypass(c.svc, c.rules)}
    BY <1>6 DEF RestoreCalls
  <2> QED
    BY <1>1, <1>3, <1>4, <1>5, <1>6, <2>1
<1>7. CASE ~c.on
  <2>1. RestoreCalls(c, req, u) = DisableCalls(req.svc)
    BY <1>7 DEF RestoreCalls
  <2> QED
    BY <1>3, <1>4, <1>5, <1>7, <2>1
<1> QED
  BY <1>6, <1>7

\* A plan that is done.
LEMMA PlanEnds ==
  ASSUME NEW C, NEW o, Progress(C, o, <<>>), NEW s, NEW v
  PROVE  /\ AutoURL(s, v) \in C => o[s].auto = v
         /\ Bypass(s, v) \in C => o[s].bypass = v
<1>1. /\ AutoURL(s, v).call = "auto" /\ AutoURL(s, v).svc = s /\ AutoURL(s, v).val = v
      /\ Bypass(s, v).call = "bypass" /\ Bypass(s, v).svc = s /\ Bypass(s, v).val = v
  BY DEF AutoURL, Bypass
<1>2. Elems(<<>>) = {}
  BY ElemsShort
<1> QED
  BY <1>1, <1>2 DEF Progress

LEMMA AfterForward ==
  ASSUME NEW c \in Configs, NEW req \in Configs, NEW u, NEW o, NEW o0,
         Progress(ForwardCalls(c, req, u), o, <<>>), Within(ForwardCalls(c, req, u), o, o0),
         NEW s \in Services
  PROVE  /\ o[s].auto = IF s = req.svc THEN u ELSE IF c.on /\ s = c.svc THEN None ELSE o0[s].auto
         /\ o[s].bypass = IF s = req.svc THEN req.rules
                          ELSE IF c.on /\ s = c.svc THEN None ELSE o0[s].bypass
<1>1. CASE s = req.svc
  <2>1. AutoURL(s, u) \in ForwardCalls(c, req, u) /\ Bypass(s, req.rules) \in ForwardCalls(c, req, u)
    BY <1>1, PlanMembers
  <2>2. o[s].auto = u /\ o[s].bypass = req.rules
    BY <2>1, PlanEnds
  <2> QED
    BY <1>1, <2>2
<1>2. CASE s # req.svc /\ c.on /\ s = c.svc
  <2>1. AutoURL(s, None) \in ForwardCalls(c, req, u) /\ Bypass(s, None) \in ForwardCalls(c, req, u)
    BY <1>2, PlanMembers
  <2>2. o[s].auto = None /\ o[s].bypass = None
    BY <2>1, PlanEnds
  <2> QED
    BY <1>2, <2>2
<1>3. CASE s # req.svc /\ ~(c.on /\ s = c.svc)
  <2>1. /\ AutoURL(s, o[s].auto) \notin ForwardCalls(c, req, u)
        /\ Bypass(s, o[s].bypass) \notin ForwardCalls(c, req, u)
    BY <1>3, PlanMembers
  <2> QED
    BY <1>3, <2>1 DEF Within
<1> QED
  BY <1>1, <1>2, <1>3

LEMMA AfterOff ==
  ASSUME NEW c \in Configs, NEW req \in Configs, NEW o, NEW o0,
         Progress(OffCalls(c, req), o, <<>>), Within(OffCalls(c, req), o, o0),
         NEW s \in Services
  PROVE  IF s = req.svc \/ (c.on /\ s = c.svc) THEN o[s].auto = None /\ o[s].bypass = None
         ELSE o[s].auto = o0[s].auto /\ o[s].bypass = o0[s].bypass
<1>1. CASE s = req.svc \/ (c.on /\ s = c.svc)
  <2>1. AutoURL(s, None) \in OffCalls(c, req) /\ Bypass(s, None) \in OffCalls(c, req)
    BY <1>1, PlanMembers
  <2>2. o[s].auto = None /\ o[s].bypass = None
    BY <2>1, PlanEnds
  <2> QED
    BY <1>1, <2>2
<1>2. CASE ~(s = req.svc \/ (c.on /\ s = c.svc))
  <2>1. /\ AutoURL(s, o[s].auto) \notin OffCalls(c, req)
        /\ Bypass(s, o[s].bypass) \notin OffCalls(c, req)
    BY <1>2, PlanMembers
  <2> QED
    BY <1>2, <2>1 DEF Within
<1> QED
  BY <1>1, <1>2

LEMMA AfterRestore ==
  ASSUME NEW c \in Configs, NEW req \in Configs, NEW u, NEW url, NEW o, NEW o0,
         Progress(RestoreCalls(c, req, u), o, <<>>),
         Within(UndoneCalls(c, req, u, url), o, o0),
         NEW s \in Services
  PROVE  IF c.on /\ s = c.svc THEN o[s].auto = u /\ o[s].bypass = c.rules
         ELSE IF s = req.svc THEN o[s].auto = None /\ o[s].bypass = None
         ELSE o[s].auto = o0[s].auto /\ o[s].bypass = o0[s].bypass
<1>1. CASE c.on /\ s = c.svc
  <2>1. AutoURL(s, u) \in RestoreCalls(c, req, u) /\ Bypass(s, c.rules) \in RestoreCalls(c, req, u)
    BY <1>1, PlanMembers
  <2>2. o[s].auto = u /\ o[s].bypass = c.rules
    BY <2>1, PlanEnds
  <2> QED
    BY <1>1, <2>2
<1>2. CASE ~(c.on /\ s = c.svc) /\ s = req.svc
  <2>1. AutoURL(s, None) \in RestoreCalls(c, req, u) /\ Bypass(s, None) \in RestoreCalls(c, req, u)
    BY <1>2, PlanMembers
  <2>2. o[s].auto = None /\ o[s].bypass = None
    BY <2>1, PlanEnds
  <2> QED
    BY <1>2, <2>2
<1>3. CASE ~(c.on /\ s = c.svc) /\ s # req.svc
  <2>1. /\ AutoURL(s, o[s].auto) \notin UndoneCalls(c, req, u, url)
        /\ Bypass(s, o[s].bypass) \notin UndoneCalls(c, req, u, url)
    BY <1>3, PlanMembers DEF UndoneCalls
  <2> QED
    BY <1>3, <2>1 DEF Within
<1> QED
  BY <1>1, <1>2, <1>3

-----------------------------------------------------------------------------
(* No service is pointed at a port that nobody serves. *)

LEMMA OwnerKept ==
  ASSUME OwnerInv, UNCHANGED <<cfg, srv, lock, crashes>>, Begun' = Begun
  PROVE  OwnerInv'
BY DEF OwnerInv, Owner

\* Apply returns with the settings a server and a configuration own.
LEMMA OwnerEnds ==
  ASSUME lock' = None, os' = os, Owner(os, cfg', srv') PROVE OwnerInv'
BY DEF OwnerInv, Owner, Begun

LEMMA OwnerByGoroutine ==
  ASSUME MaxFails <= 1, ApplyInv, OwnerInv, crashes = 0, NEW p \in All,
         \/ Lock(p) \/ Prepare(p) \/ CallOK(p) \/ CallFails(p) \/ RolledBack(p)
         \/ Commit(p) \/ TurnedOff(p) \/ ReadINI(p) \/ WriteINI(p)
  PROVE  OwnerInv'
<1> DEFINE req == l[p].req
<1>1. /\ SysTypeOK /\ p # None /\ None \notin Ports
      /\ lock = p => Applying(req) /\ req \in Configs /\ l[p].pc = "apply"
  BY ApplyFacts
<1>2. cfg \in Configs /\ srv \in Ports \cup {None} /\ fails \in Nat /\ MaxFails \in Nat
  BY <1>1, SysProxyConstantsOK DEF SysTypeOK
<1>3. lock = p => Owner(was.os, cfg, srv) /\ was.os \in OSs
  BY <1>1 DEF OwnerInv, Begun, Applying
<1>4. lock = None => Owner(os, cfg, srv)
  BY DEF OwnerInv, Begun
<1> HIDE DEF req
<1>5. CASE Lock(p)
  <2>1. lock = None /\ lock' = p /\ was'.os = os /\ UNCHANGED <<cfg, srv, os, crashes>>
    BY <1>5 DEF Lock, server
  <2> QED
    BY <1>1, <1>4, <2>1 DEF OwnerInv, Owner, Begun
<1>6. CASE Prepare(p)
  <2>1. lock = p /\ phase = "prepare" /\ UNCHANGED <<cfg, os, crashes>>
    BY <1>6 DEF Prepare
  <2>2. CASE UNCHANGED <<srv, was, lock>>
    BY <2>1, <2>2, OwnerKept DEF Begun
  <2>3. CASE Unlock(p, "err") /\ UNCHANGED server
    <3>1. os = was.os
      BY <1>1, <2>1 DEF Applying
    <3> QED
      BY <1>3, <2>1, <2>3, <3>1, OwnerEnds DEF Unlock, server
  <2> QED
    BY <1>6, <2>2, <2>3 DEF Prepare, Proceed
<1>7. CASE CallOK(p)
  <2>1. lock = p /\ UNCHANGED <<cfg, srv, was, lock, crashes>>
    BY <1>7 DEF CallOK, server
  <2>2. Begun' = Begun
    BY <1>1, <2>1 DEF Begun
  <2> QED
    BY <2>1, <2>2, OwnerKept
<1>8. CASE CallFails(p)
  <2>1. lock = p /\ todo # <<>> /\ fails < MaxFails /\ UNCHANGED <<cfg, srv, crashes>>
    BY <1>8 DEF CallFails
  <2>2. CASE phase = "apply"
    <3>1. UNCHANGED <<lock, was>>
      BY <1>8, <2>2 DEF CallFails
    <3> QED
      BY <1>1, <2>1, <3>1, OwnerKept DEF Begun
  <2>3. CASE phase # "apply"
    <3>1. phase = "off"
      BY <1>1, <1>2, <2>1, <2>3 DEF Applying, RollingBack
    <3>2. Within(OffCalls(cfg, req), os', was.os)
      BY <1>1, <1>8, <2>1, <3>1, HalfDone DEF Applying, TurningOff, Progress
    <3>3. ASSUME NEW s \in Services PROVE os'[s].auto = was.os[s].auto \/ os'[s].auto = None
      <4>1. os'[s].auto = was.os[s].auto \/ AutoURL(s, os'[s].auto) \in OffCalls(cfg, req)
        BY <3>2 DEF Within
      <4> QED
        BY <1>1, <1>2, <2>1, <4>1, PlanMembers
    <3>4. Owner(os', cfg, srv)
      BY <1>3, <2>1, <3>3 DEF Owner
    <3>5. lock' = None
      BY <1>8, <2>3 DEF CallFails, Unlock
    <3> QED
      BY <2>1, <3>4, <3>5 DEF OwnerInv, Owner, Begun
  <2> QED
    BY <2>2, <2>3
<1>9. CASE RolledBack(p)
  <2>1. /\ lock = p /\ phase = "rollback" /\ todo = <<>> /\ lock' = None
        /\ UNCHANGED <<cfg, srv, os, crashes>>
    BY <1>9 DEF RolledBack, Unlock, server
  <2>2. RollingBack(req)
    BY <1>1, <2>1 DEF Applying
  <2>3. PICK url \in Ports : Within(UndoneCalls(cfg, req, URL, url), os, was.os)
    BY <2>2 DEF RollingBack
  <2>4. Progress(RestoreCalls(cfg, req, URL), os, <<>>)
    BY <2>1, <2>2 DEF RollingBack
  <2>5. ASSUME NEW s \in Services
        PROVE  os[s].auto \in {None, NoURL} \/ (cfg.on /\ s = cfg.svc /\ os[s].auto = srv)
    <3>1. IF cfg.on /\ s = cfg.svc THEN os[s].auto = URL
          ELSE os[s].auto = None \/ os[s].auto = was.os[s].auto
      BY <1>1, <1>2, <2>1, <2>3, <2>4, AfterRestore
    <3>2. CASE cfg.on /\ s = cfg.svc
      BY <3>1, <3>2 DEF URL
    <3>3. CASE ~(cfg.on /\ s = cfg.svc)
      BY <1>3, <2>1, <3>1, <3>3 DEF Owner
    <3> QED
      BY <3>2, <3>3
  <2> QED
    BY <2>1, <2>5, OwnerEnds DEF Owner
<1>10. CASE Commit(p)
  <2>1. /\ lock = p /\ phase = "apply" /\ todo = <<>> /\ lock' = None /\ os' = os
        /\ srv' = Target /\ cfg' = req
    BY <1>10 DEF Commit, Unlock, Target, req
  <2>2. /\ Progress(ForwardCalls(cfg, req, Target), os, <<>>)
        /\ Within(ForwardCalls(cfg, req, Target), os, was.os) /\ req.on
    BY <1>1, <2>1 DEF Applying, Forwarding
  <2>3. ASSUME NEW s \in Services
        PROVE  os[s].auto \in {None, NoURL} \/ (req.on /\ s = req.svc /\ os[s].auto = Target)
    <3>1. os[s].auto = IF s = req.svc THEN Target
                       ELSE IF cfg.on /\ s = cfg.svc THEN None ELSE was.os[s].auto
      BY <1>1, <1>2, <2>1, <2>2, AfterForward
    <3> QED
      BY <1>3, <2>1, <2>2, <3>1 DEF Owner
  <2> QED
    BY <2>1, <2>3, OwnerEnds DEF Owner
<1>11. CASE TurnedOff(p)
  <2>1. /\ lock = p /\ phase = "off" /\ todo = <<>> /\ lock' = None /\ os' = os
    BY <1>11 DEF TurnedOff, Unlock
  <2>2. Progress(OffCalls(cfg, req), os, <<>>) /\ Within(OffCalls(cfg, req), os, was.os)
    BY <1>1, <2>1 DEF Applying, TurningOff
  <2>3. ASSUME NEW s \in Services PROVE os[s].auto \in {None, NoURL}
    <3>1. IF s = req.svc \/ (cfg.on /\ s = cfg.svc) THEN os[s].auto = None
          ELSE os[s].auto = was.os[s].auto
      BY <1>1, <1>2, <2>1, <2>2, AfterOff
    <3> QED
      BY <1>3, <2>1, <3>1 DEF Owner
  <2> QED
    BY <2>1, <2>3, OwnerEnds DEF Owner
<1>12. CASE ReadINI(p) \/ WriteINI(p)
  BY <1>12, OwnerKept DEF ReadINI, WriteINI, server, apply, Begun
<1> QED
  BY <1>5, <1>6, <1>7, <1>8, <1>9, <1>10, <1>11, <1>12

LEMMA OwnerStep ==
  ASSUME MaxFails <= 1, ApplyInv, OwnerInv, [SNext]_svars PROVE OwnerInv'
<1>1. CASE crashes' # 0
  BY <1>1 DEF OwnerInv
<1>2. CASE Crash
  BY <1>2, ApplyFacts DEF Crash, OwnerInv, SysTypeOK
<1>3. ASSUME NEW p \in Procs, NEW req \in Configs, Request(p, req) PROVE OwnerInv'
  BY <1>3, OwnerKept DEF Request, server, apply, Begun
<1>4. CASE UNCHANGED svars
  BY <1>4, OwnerKept DEF svars, server, apply, Begun
<1>5. ASSUME NEW p \in All,
             \/ Lock(p) \/ Prepare(p) \/ CallOK(p) \/ CallFails(p) \/ RolledBack(p)
             \/ Commit(p) \/ TurnedOff(p) \/ ReadINI(p) \/ WriteINI(p)
      PROVE  OwnerInv'
  <2>1. crashes' = crashes
    BY <1>5 DEF Lock, Prepare, CallOK, CallFails, RolledBack, Commit, TurnedOff, ReadINI, WriteINI
  <2> QED
    BY <1>1, <1>5, <2>1, OwnerByGoroutine
<1> QED
  BY <1>2, <1>3, <1>4, <1>5 DEF SNext

\* As long as at most one call fails during an Apply, the process has not died and no
\* rollback is under way, every service's automatic proxy is off, empty, or a port that
\* serves a PAC: the committed server or the candidate bound before the calls.
THEOREM PointedServed ==
  ASSUME MaxFails <= 1 PROVE SSpec => []PointedIsServed
<1>1. SInit => ApplyInv /\ OwnerInv
  BY ApplyInit DEF SInit, OwnerInv, Owner, Begun
<1>2. ApplyInv /\ OwnerInv /\ [SNext]_svars => ApplyInv' /\ OwnerInv'
  BY ApplyStep, OwnerStep
<1>3. ApplyInv /\ OwnerInv => PointedIsServed
  <2> SUFFICES ASSUME ApplyInv, OwnerInv, crashes = 0, phase # "rollback", NEW s \in Services
               PROVE  os[s].auto \in {None, NoURL, srv, cand}
    BY DEF PointedIsServed
  <2>1. SysTypeOK /\ Owner(Begun, cfg, srv)
    BY ApplyFacts DEF OwnerInv
  <2>2. CASE lock = None
    BY <2>1, <2>2 DEF Owner, Begun
  <2>3. CASE lock # None
    <3> DEFINE req == l[lock].req
    <3>1. lock \in All /\ Applying(req) /\ req \in Configs /\ cfg \in Configs
      BY <2>1, <2>3, ApplyFacts DEF SysTypeOK
    <3>2. was.os[s].auto \in {None, NoURL, srv}
      BY <2>1, <2>3 DEF Owner, Begun
    <3> HIDE DEF req
    <3>3. CASE phase = "prepare"
      BY <3>1, <3>2, <3>3 DEF Applying
    <3>4. CASE phase = "apply"
      <4>1. os[s].auto = was.os[s].auto \/ AutoURL(s, os[s].auto) \in ForwardCalls(cfg, req, Target)
        BY <3>1, <3>4 DEF Applying, Forwarding, Within
      <4>2. os[s].auto \in {was.os[s].auto, None, Target}
        BY <3>1, <4>1, PlanMembers
      <4> QED
        BY <3>2, <4>2 DEF Target
    <3>5. CASE phase = "off"
      <4>1. os[s].auto = was.os[s].auto \/ AutoURL(s, os[s].auto) \in OffCalls(cfg, req)
        BY <3>1, <3>5 DEF Applying, TurningOff, Within
      <4>2. os[s].auto \in {was.os[s].auto, None}
        BY <3>1, <4>1, PlanMembers
      <4> QED
        BY <3>2, <4>2
    <3> QED
      BY <3>1, <3>3, <3>4, <3>5 DEF Applying
  <2> QED
    BY <2>2, <2>3
<1> QED
  BY <1>1, <1>2, <1>3, PTL DEF SSpec

-----------------------------------------------------------------------------
(* A rejected switch undoes itself. *)

\* Apply reports an error only where it failed.
LEMMA UnlockReports ==
  ASSUME ApplyInv, NEW p \in All, lock = p, Unlock(p, "ok") PROVE l'[p].res = "ok"
<1>1. l \in [All -> LocalType] /\ l[p] \in LocalType /\ l[p].res = "ok"
  BY ApplyFacts DEF SysTypeOK, Carries
<1>2. l'[p] = IF p # Main THEN [l[p] EXCEPT !.pc = "ini"] ELSE [AtRest EXCEPT !.res = "ok"]
  BY <1>1 DEF Unlock
<1>3. [l[p] EXCEPT !.pc = "ini"].res = "ok" /\ [AtRest EXCEPT !.res = "ok"].res = "ok"
  BY <1>1 DEF AtRest, LocalType
<1> QED
  BY <1>2, <1>3

LEMMA RejectedStep ==
  ASSUME MaxFails <= 1, ApplyInv, [SNext]_svars, NEW p \in All,
         lock = p, l[p].req.on, lock' = None, l'[p].res = "err", crashes' = crashes,
         Agree(was.os, was.cfg, srv)
  PROVE  Agree(os', cfg', srv') /\ cfg' = was.cfg
<1> DEFINE req == l[p].req
<1>1. /\ SysTypeOK /\ p # None /\ Applying(req) /\ req \in Configs
  BY ApplyFacts
<1>2. /\ cfg \in Configs /\ fails \in Nat /\ MaxFails \in Nat /\ crashes \in Nat
      /\ was.cfg = cfg /\ phase # "off"
  BY <1>1, SysProxyConstantsOK DEF SysTypeOK, Applying
<1>3. Agree(was.os, cfg, srv)
  BY <1>2
<1> HIDE DEF req
<1>4. CASE Prepare(p)
  <2>1. phase = "prepare" /\ UNCHANGED <<cfg, os>>
    BY <1>4 DEF Prepare
  <2>2. srv' = srv
    BY <1>4 DEF Prepare, Proceed, server
  <2>3. os = was.os
    BY <1>1, <2>1 DEF Applying
  <2> QED
    BY <1>2, <1>3, <2>1, <2>2, <2>3
<1>5. CASE CallFails(p)
  <2>1. todo # <<>> /\ fails < MaxFails
    BY <1>5 DEF CallFails
  <2>2. phase = "apply"
    BY <1>1, <1>2, <2>1 DEF Applying, RollingBack
  <2> QED
    BY <1>1, <1>5, <2>2 DEF CallFails
<1>6. CASE RolledBack(p)
  <2>1. phase = "rollback" /\ todo = <<>> /\ UNCHANGED <<cfg, srv, os>>
    BY <1>6 DEF RolledBack, server
  <2>2. RollingBack(req)
    BY <1>1, <2>1 DEF Applying
  <2>3. PICK url \in Ports : Within(UndoneCalls(cfg, req, URL, url), os, was.os)
    BY <2>2 DEF RollingBack
  <2>4. Progress(RestoreCalls(cfg, req, URL), os, <<>>)
    BY <2>1, <2>2 DEF RollingBack
  <2>5. ASSUME NEW s \in Services
        PROVE  IF cfg.on /\ s = cfg.svc
               THEN srv # None /\ os[s].auto = srv /\ os[s].bypass = cfg.rules
               ELSE os[s].auto = None /\ os[s].bypass = None
    <3>1. IF cfg.on /\ s = cfg.svc THEN os[s].auto = URL /\ os[s].bypass = cfg.rules
          ELSE IF s = req.svc THEN os[s].auto = None /\ os[s].bypass = None
          ELSE os[s].auto = was.os[s].auto /\ os[s].bypass = was.os[s].bypass
      BY <1>1, <1>2, <2>3, <2>4, AfterRestore
    <3>2. CASE cfg.on /\ s = cfg.svc
      BY <1>3, <3>1, <3>2 DEF Agree, URL
    <3>3. CASE ~(cfg.on /\ s = cfg.svc)
      BY <1>3, <3>1, <3>3 DEF Agree
    <3> QED
      BY <3>2, <3>3
  <2> QED
    BY <1>2, <2>1, <2>5 DEF Agree
<1>7. CASE Commit(p)
  BY <1>7, UnlockReports DEF Commit
<1>8. CASE TurnedOff(p)
  BY <1>2, <1>8 DEF TurnedOff
<1>9. CASE CallOK(p)
  BY <1>1, <1>9 DEF CallOK
<1>10. CASE Lock(p)
  BY <1>1, <1>10 DEF Lock
<1>11. \A q \in All : (Lock(q) \/ Prepare(q) \/ CallOK(q) \/ CallFails(q) \/ RolledBack(q)
                        \/ Commit(q) \/ TurnedOff(q)) => q = p
  BY <1>1 DEF Lock, Prepare, CallOK, CallFails, RolledBack, Commit, TurnedOff
<1>12. \A q \in All : ~ReadINI(q) /\ ~WriteINI(q)
  BY <1>1 DEF ReadINI, WriteINI
<1>13. ~Crash
  BY <1>2 DEF Crash
<1>14. lock' # lock
  BY <1>1
<1>15. ~(UNCHANGED svars) /\ \A q \in Procs, r \in Configs : ~Request(q, r)
  BY <1>14 DEF svars, Request
<1> QED
  BY <1>4, <1>5, <1>6, <1>7, <1>8, <1>9, <1>10, <1>11, <1>12, <1>13, <1>15 DEF SNext

\* If at most one call fails during an Apply: when switching the proxy on, or to another
\* service, port or rules, is refused, every service's automatic proxy and bypass list
\* agree with the old configuration again, if they did when Apply began.
THEOREM RejectedRestores ==
  ASSUME MaxFails <= 1 PROVE SSpec => RejectedApplyRestores
<1>1. ApplyInv /\ [SNext]_svars =>
        [\A p \in All :
           (/\ lock = p /\ l[p].req.on /\ lock' = None /\ l'[p].res = "err"
            /\ crashes' = crashes /\ Agree(was.os, was.cfg, srv))
              => Agree(os', cfg', srv') /\ cfg' = was.cfg]_svars
  <2>1. ASSUME ApplyInv, [SNext]_svars, NEW p \in All,
               lock = p, l[p].req.on, lock' = None, l'[p].res = "err", crashes' = crashes,
               Agree(was.os, was.cfg, srv)
        PROVE  Agree(os', cfg', srv') /\ cfg' = was.cfg
    BY <2>1, RejectedStep
  <2> QED
    BY <2>1, Zenon
<1> QED
  BY <1>1, ApplyInvariance, PTL DEF SSpec, RejectedApplyRestores

-----------------------------------------------------------------------------
(* The system proxy survives restarts. *)

OneProc == \A p, q \in Procs : p = q

LEMMA AloneStays ==
  ASSUME Alone, l \in [All -> LocalType], NEW p \in All, NEW r, l' = [l EXCEPT ![p] = r],
         l[p].pc # "idle", p = Main => r.pc \in {"idle", "lock", "apply"}
  PROVE  Alone'
<1>1. l'[p] = r /\ \A q \in All : q # p => l'[q] = l[q]
  OBVIOUS
<1>2. Main \in All
  BY DEF All
<1> QED
  BY <1>1, <1>2 DEF Alone

LEMMA AloneStep ==
  ASSUME OneProc, ApplyInv, Alone, [SNext]_svars PROVE Alone'
<1>1. /\ l \in [All -> LocalType] /\ Main \in All /\ Procs \subseteq All
      /\ \A p \in All : lock = p => l[p].pc = "apply"
  BY ApplyFacts DEF SysTypeOK, All
<1>2. AtRest.pc = "idle" /\ \A x : [AtRest EXCEPT !.res = x].pc = "idle"
  BY DEF AtRest
<1>3. ASSUME NEW p \in Procs, NEW req \in Configs, Request(p, req) PROVE Alone'
  <2>1. \A q \in All : l[q].pc = "idle" \/ (q \in Procs /\ q = p)
    BY <1>3 DEF Request, All, OneProc
  <2>2. \A q \in All : q # p => l'[q] = l[q]
    BY <1>1, <1>3 DEF Request
  <2>3. Main # p
    BY SysProxyConstantsOK
  <2> QED
    BY <1>1, <2>1, <2>2, <2>3 DEF Alone
<1>4. ASSUME NEW p \in All, NEW res \in {"ok", "err"}, lock = p, Unlock(p, res) PROVE Alone'
  <2>1. PICK r : r = IF res = "ok" /\ p # Main THEN [l[p] EXCEPT !.pc = "ini"]
                     ELSE [AtRest EXCEPT !.res = res]
    OBVIOUS
  <2>2. l' = [l EXCEPT ![p] = r]
    BY <1>4, <2>1 DEF Unlock
  <2>3. p = Main => r.pc = "idle"
    BY <1>2, <2>1
  <2> QED
    BY <1>1, <1>4, <2>2, <2>3, AloneStays
<1>5. ASSUME UNCHANGED l PROVE Alone'
  BY <1>5 DEF Alone
<1>6. ASSUME NEW p \in All, Lock(p) PROVE Alone'
  <2>1. PICK r : r = [l[p] EXCEPT !.pc = "apply"]
    OBVIOUS
  <2>2. r.pc = "apply"
    BY <1>1, <2>1 DEF LocalType
  <2>3. l' = [l EXCEPT ![p] = r] /\ l[p].pc # "idle"
    BY <1>6, <2>1 DEF Lock
  <2> QED
    BY <1>1, <2>2, <2>3, AloneStays
<1>7. ASSUME NEW p \in All, Prepare(p) PROVE Alone'
  <2>1. lock = p
    BY <1>7 DEF Prepare
  <2>2. CASE l' = [l EXCEPT ![p].req.port = None]
    <3>1. PICK r : r = [l[p] EXCEPT !.req.port = None]
      OBVIOUS
    <3>2. r.pc = "apply"
      BY <1>1, <2>1, <3>1 DEF LocalType
    <3>3. l' = [l EXCEPT ![p] = r]
      BY <2>2, <3>1
    <3> QED
      BY <1>1, <2>1, <3>2, <3>3, AloneStays
  <2> QED
    BY <1>4, <1>5, <1>7, <2>1, <2>2 DEF Prepare
<1>8. ASSUME NEW p \in All, CallOK(p) \/ CallFails(p) \/ RolledBack(p) \/ Commit(p) \/ TurnedOff(p)
      PROVE  Alone'
  BY <1>4, <1>5, <1>8 DEF CallOK, CallFails, RolledBack, Commit, TurnedOff
<1>9. ASSUME NEW p \in All, ReadINI(p) PROVE Alone'
  <2>1. PICK r : r = [l[p] EXCEPT !.ini = cfg, !.pc = "write"]
    OBVIOUS
  <2>2. l' = [l EXCEPT ![p] = r] /\ l[p].pc = "ini"
    BY <1>9, <2>1 DEF ReadINI
  <2>3. p # Main
    BY <2>2 DEF Alone
  <2> QED
    BY <1>1, <2>2, <2>3, AloneStays
<1>10. ASSUME NEW p \in All, WriteINI(p) PROVE Alone'
  <2>1. PICK r : r.pc = "idle" /\ l' = [l EXCEPT ![p] = r]
    BY <1>2, <1>10 DEF WriteINI
  <2> QED
    BY <1>1, <1>10, <2>1, AloneStays DEF WriteINI
<1>11. ASSUME Crash PROVE Alone'
  <2>1. PICK r : r = [AtRest EXCEPT !.pc = "lock", !.req = disk]
    OBVIOUS
  <2>2. r.pc = "lock"
    BY <2>1 DEF AtRest
  <2>3. l' = [p \in All |-> IF p = Main /\ disk # None /\ disk.on THEN r ELSE AtRest]
    BY <1>11, <2>1 DEF Crash
  <2>4. \A p \in All : p # Main => l'[p].pc = "idle"
    BY <1>2, <2>3
  <2>5. l'[Main].pc \in {"idle", "lock"}
    BY <1>1, <1>2, <2>2, <2>3
  <2> QED
    BY <2>4, <2>5 DEF Alone
<1>12. CASE UNCHANGED svars
  BY <1>5, <1>12 DEF svars
<1> QED
  BY <1>3, <1>6, <1>7, <1>8, <1>9, <1>10, <1>11, <1>12 DEF SNext

\* A step that ends no command leaves what is promised between commands alone.
LEMMA CleanKept ==
  ASSUME CleanInv, clean' => clean, Begun' = Begun, UNCHANGED <<cfg, srv, body, disk>>,
         l'[Main].pc = "idle" <=> l[Main].pc = "idle",
         l[Main].pc # "idle" => /\ l'[Main].req.on = l[Main].req.on
                                /\ l'[Main].req.svc = l[Main].req.svc
                                /\ l'[Main].req.rules = l[Main].req.rules,
         ~Settled', \A p \in Procs : l'[p].pc = "write" => l'[p].ini = cfg \/ l'[p] = l[p]
  PROVE  CleanInv'
<1> SUFFICES ASSUME clean' PROVE Steady' /\ Restoring' /\ Stored'
  BY DEF CleanInv
<1>1. Steady /\ Restoring /\ Stored
  BY DEF CleanInv
<1>2. Steady'
  BY <1>1 DEF Steady, Agree
<1>3. Restoring'
  BY <1>1 DEF Restoring, Leftover
<1>4. Stored'
  BY <1>1 DEF Stored
<1> QED
  BY <1>2, <1>3, <1>4

\* A step inside Apply.
LEMMA CleanInside ==
  ASSUME ApplyInv, CleanInv, NEW p \in All, lock = p, lock' = p, was' = was, clean' = clean,
         UNCHANGED <<cfg, srv, body, disk>>, NEW r, l' = [l EXCEPT ![p] = r], r.pc = "apply",
         r.req.on = l[p].req.on, r.req.svc = l[p].req.svc, r.req.rules = l[p].req.rules
  PROVE  CleanInv'
<1>1. l \in [All -> LocalType] /\ None \notin All /\ Main \in All /\ Procs \subseteq All
      /\ l[p].pc = "apply"
  BY ApplyFacts DEF SysTypeOK, All
<1>2. l'[p] = r /\ \A q \in All : q # p => l'[q] = l[q]
  BY <1>1
<1>3. Begun' = Begun
  BY <1>1 DEF Begun
<1>4. ~Settled'
  BY <1>2 DEF Settled
<1>5. /\ l'[Main].pc = "idle" <=> l[Main].pc = "idle"
      /\ l'[Main].req.on = l[Main].req.on /\ l'[Main].req.svc = l[Main].req.svc
      /\ l'[Main].req.rules = l[Main].req.rules
  <2>1. CASE Main = p
    BY <1>1, <1>2, <2>1
  <2>2. CASE Main # p
    BY <1>1, <1>2, <2>2
  <2> QED
    BY <2>1, <2>2
<1>6. \A q \in Procs : l'[q].pc = "write" => l'[q] = l[q]
  BY <1>1, <1>2
<1> QED
  BY <1>3, <1>4, <1>5, <1>6, CleanKept

\* A command has been applied: it goes on to save, and a restoration is over.
LEMMA CleanEnds ==
  ASSUME OneProc, ApplyInv, Alone, NEW p \in All, lock = p, Unlock(p, "ok"), os' = os,
         clean => Agree(os, cfg', srv') /\ (cfg'.on => body' = cfg'.rules),
         clean /\ p = Main => Saved' /\ (disk' = None => ~cfg'.on)
  PROVE  CleanInv'
<1>1. l \in [All -> LocalType] /\ None \notin All /\ Main \in All /\ Procs \subseteq All
      /\ l[p] \in LocalType /\ l[p].pc = "apply"
  BY ApplyFacts DEF SysTypeOK, All
<1>2. \A q \in All : q # p => l[q].pc = "idle" /\ l'[q] = l[q]
  BY <1>1 DEF Alone, Unlock
<1>3. l'[p].pc = IF p # Main THEN "ini" ELSE "idle"
  BY <1>1 DEF Unlock, AtRest, LocalType
<1>4. SUFFICES ASSUME clean' PROVE Steady' /\ Restoring' /\ Stored'
  BY DEF CleanInv
<1>5. clean /\ lock' = None
  BY <1>4 DEF Unlock
<1>6. l'[Main].pc = "idle"
  BY <1>1, <1>2, <1>3
<1>7. Begun' = os
  BY <1>5 DEF Begun
<1>8. Steady'
  BY <1>5, <1>7 DEF Steady, Agree
<1>9. Restoring'
  BY <1>6 DEF Restoring
<1>10. Stored'
  <2>1. \A q \in Procs : l'[q].pc # "write"
    BY <1>1, <1>2, <1>3
  <2>2. CASE p = Main
    BY <1>5, <2>1, <2>2 DEF Stored
  <2>3. CASE p # Main
    <3>1. ~Settled'
      BY <1>3, <2>3 DEF Settled
    <3> QED
      BY <2>1, <3>1 DEF Stored
  <2> QED
    BY <2>2, <2>3
<1> QED
  BY <1>8, <1>9, <1>10

LEMMA CleanCommit ==
  ASSUME OneProc, ApplyInv, Alone, CleanInv, NEW p \in All, Commit(p) PROVE CleanInv'
<1> DEFINE req == l[p].req
<1>1. /\ lock = p /\ phase = "apply" /\ todo = <<>> /\ os' = os /\ disk' = disk
      /\ srv' = Target /\ cfg' = req /\ body' = req.rules /\ Unlock(p, "ok")
  BY DEF Commit, Target
<1>2. /\ SysTypeOK /\ p # None /\ Applying(req) /\ req \in Configs /\ cfg \in Configs
      /\ l[p].pc = "apply" /\ Main \in All
  BY <1>1, ApplyFacts DEF SysTypeOK, All
<1>3. /\ Progress(ForwardCalls(cfg, req, Target), os, <<>>) /\ Target # None
      /\ Within(ForwardCalls(cfg, req, Target), os, was.os) /\ req.on
  BY <1>1, <1>2 DEF Applying, Forwarding
<1>4. Begun = was.os
  BY <1>1, <1>2 DEF Begun
<1> HIDE DEF req
<1>5. ASSUME clean, NEW s \in Services
      PROVE  IF s = req.svc THEN os[s].auto = Target /\ os[s].bypass = req.rules
             ELSE os[s].auto = None /\ os[s].bypass = None
  <2>1. /\ os[s].auto = IF s = req.svc THEN Target
                         ELSE IF cfg.on /\ s = cfg.svc THEN None ELSE was.os[s].auto
        /\ os[s].bypass = IF s = req.svc THEN req.rules
                           ELSE IF cfg.on /\ s = cfg.svc THEN None ELSE was.os[s].bypass
    BY <1>2, <1>3, AfterForward
  <2>2. CASE s = req.svc \/ (cfg.on /\ s = cfg.svc)
    BY <2>1, <2>2
  <2>3. CASE ~(s = req.svc \/ (cfg.on /\ s = cfg.svc))
    <3>1. was.os[s].auto = None /\ was.os[s].bypass = None
      <4>1. CASE l[Main].pc = "idle"
        BY <1>4, <1>5, <2>3, <4>1 DEF CleanInv, Steady, Agree
      <4>2. CASE l[Main].pc # "idle"
        <5>1. p = Main
          BY <1>2, <4>2 DEF Alone
        <5> QED
          BY <1>4, <1>5, <2>3, <4>2, <5>1 DEF CleanInv, Restoring, Leftover, req
      <4> QED
        BY <4>1, <4>2
    <3> QED
      BY <2>1, <2>3, <3>1
  <2> QED
    BY <2>2, <2>3
<1>6. clean => Agree(os, cfg', srv') /\ (cfg'.on => body' = cfg'.rules)
  BY <1>1, <1>3, <1>5 DEF Agree
<1>7. ASSUME clean, p = Main PROVE Saved' /\ (disk' = None => ~cfg'.on)
  <2>1. disk \in Configs /\ disk.on /\ req.svc = disk.svc /\ req.rules = disk.rules
    BY <1>2, <1>7 DEF CleanInv, Restoring, req
  <2>2. cfg'.on = disk.on
    BY <1>1, <1>2, <1>3, <2>1 DEF Configs
  <2> QED
    BY <1>1, <2>1, <2>2, NoneIsNoConfig DEF Saved
<1> QED
  BY <1>1, <1>6, <1>7, CleanEnds

LEMMA CleanTurnedOff ==
  ASSUME OneProc, ApplyInv, Alone, CleanInv, NEW p \in All, TurnedOff(p) PROVE CleanInv'
<1> DEFINE req == l[p].req
<1>1. /\ lock = p /\ phase = "off" /\ todo = <<>> /\ os' = os /\ disk' = disk
  BY DEF TurnedOff
<1>2. /\ SysTypeOK /\ p # None /\ Applying(req) /\ req \in Configs /\ cfg \in Configs
      /\ l[p].pc = "apply" /\ Main \in All
  BY <1>1, ApplyFacts DEF SysTypeOK, All
<1>3. /\ Progress(OffCalls(cfg, req), os, <<>>) /\ Within(OffCalls(cfg, req), os, was.os) /\ ~req.on
  BY <1>1, <1>2 DEF Applying, TurningOff
<1>4. Begun = was.os
  BY <1>1, <1>2 DEF Begun
<1>5. ASSUME Unlock(p, "err") PROVE CleanInv'
  BY <1>5 DEF Unlock, CleanInv
<1>6. ASSUME cfg' = req, Unlock(p, "ok") PROVE CleanInv'
  <2>1. clean => p # Main /\ l[Main].pc = "idle"
    BY <1>2, <1>3 DEF CleanInv, Restoring, Alone
  <2>2. ASSUME clean, NEW s \in Services PROVE os[s].auto = None /\ os[s].bypass = None
    <3>1. IF s = req.svc \/ (cfg.on /\ s = cfg.svc) THEN os[s].auto = None /\ os[s].bypass = None
          ELSE os[s].auto = was.os[s].auto /\ os[s].bypass = was.os[s].bypass
      BY <1>2, <1>3, AfterOff
    <3>2. Agree(was.os, cfg, srv)
      BY <1>4, <2>1, <2>2 DEF CleanInv, Steady
    <3> QED
      BY <3>1, <3>2 DEF Agree
  <2>3. ~cfg'.on
    BY <1>3, <1>6
  <2>4. clean => Agree(os, cfg', srv') /\ (cfg'.on => body' = cfg'.rules)
    BY <2>2, <2>3 DEF Agree
  <2> QED
    BY <1>1, <1>6, <2>1, <2>4, CleanEnds
<1> QED
  BY <1>5, <1>6 DEF TurnedOff

LEMMA CleanRequest ==
  ASSUME ApplyInv, CleanInv, NEW p \in Procs, NEW req \in Configs, Request(p, req) PROVE CleanInv'
<1>1. l \in [All -> LocalType] /\ Main \in All /\ p \in All /\ p # Main /\ Procs \subseteq All
  BY ApplyFacts, SysProxyConstantsOK DEF SysTypeOK, All
<1>2. l'[p].pc = "lock" /\ \A q \in All : q # p => l'[q] = l[q]
  BY <1>1 DEF Request, AtRest
<1>3. UNCHANGED <<cfg, srv, body, disk, clean>> /\ Begun' = Begun
  BY DEF Request, server, apply, Begun
<1>4. ~Settled'
  BY <1>1, <1>2 DEF Settled
<1> QED
  BY <1>1, <1>2, <1>3, <1>4, CleanKept

LEMMA CleanLock ==
  ASSUME ApplyInv, CleanInv, NEW p \in All, Lock(p) PROVE CleanInv'
<1>1. l \in [All -> LocalType] /\ Main \in All /\ p # None /\ Procs \subseteq All
      /\ l[p] \in LocalType /\ l[p].pc = "lock"
  BY ApplyFacts DEF SysTypeOK, All, Lock
<1>2. l'[p].pc = "apply" /\ l'[p].req = l[p].req /\ \A q \in All : q # p => l'[q] = l[q]
  BY <1>1 DEF Lock, LocalType
<1>3. UNCHANGED <<cfg, srv, body, disk, clean>> /\ Begun' = Begun
  BY <1>1 DEF Lock, server, Begun
<1>4. ~Settled'
  BY <1>1, <1>2 DEF Settled
<1>5. (l'[Main].pc = "idle" <=> l[Main].pc = "idle") /\ l'[Main].req = l[Main].req
  BY <1>1, <1>2
<1>6. \A q \in Procs : l'[q].pc = "write" => l'[q] = l[q]
  BY <1>1, <1>2
<1> QED
  BY <1>3, <1>4, <1>5, <1>6, CleanKept

LEMMA CleanPrepare ==
  ASSUME ApplyInv, CleanInv, NEW p \in All, Prepare(p) PROVE CleanInv'
<1>1. lock = p /\ UNCHANGED <<cfg, os, disk>>
  BY DEF Prepare
<1>2. /\ l \in [All -> LocalType] /\ l[p] \in LocalType /\ l[p].pc = "apply"
      /\ l[p].req \in Configs
  BY <1>1, ApplyFacts DEF SysTypeOK
<1>3. CASE Unlock(p, "err")
  BY <1>3 DEF Unlock, CleanInv
<1>4. ASSUME NEW req, NEW port, Proceed(req, port), UNCHANGED l PROVE CleanInv'
  <2>1. PICK r : r = l[p]
    OBVIOUS
  <2>2. l' = [l EXCEPT ![p] = r] /\ lock' = p /\ UNCHANGED <<srv, body, was, clean>>
    BY <1>1, <1>2, <1>4, <2>1 DEF Proceed
  <2> QED
    BY <1>1, <1>2, <2>1, <2>2, CleanInside
<1>5. ASSUME NEW req, NEW port, Proceed(req, port), l' = [l EXCEPT ![p].req.port = None]
      PROVE  CleanInv'
  <2>1. PICK r : r = [l[p] EXCEPT !.req.port = None]
    OBVIOUS
  <2>2. /\ r.pc = "apply" /\ r.req.on = l[p].req.on /\ r.req.svc = l[p].req.svc
        /\ r.req.rules = l[p].req.rules
    BY <1>2, <2>1 DEF LocalType, Configs
  <2>3. l' = [l EXCEPT ![p] = r] /\ lock' = p /\ UNCHANGED <<srv, body, was, clean>>
    BY <1>1, <1>2, <1>5, <2>1 DEF Proceed
  <2> QED
    BY <1>1, <2>2, <2>3, CleanInside
<1> QED
  BY <1>3, <1>4, <1>5 DEF Prepare

LEMMA CleanCalls ==
  ASSUME ApplyInv, CleanInv, NEW p \in All, CallOK(p) \/ CallFails(p) \/ RolledBack(p)
  PROVE  CleanInv'
<1>1. /\ lock = p /\ l \in [All -> LocalType] /\ l[p].pc = "apply"
  BY ApplyFacts DEF SysTypeOK, CallOK, CallFails, RolledBack
<1>2. CASE Unlock(p, "err")
  BY <1>2 DEF Unlock, CleanInv
<1>3. CASE UNCHANGED <<cfg, srv, body, disk, lock, was, clean, l>>
  <2>1. PICK r : r = l[p]
    OBVIOUS
  <2>2. l' = [l EXCEPT ![p] = r]
    BY <1>1, <1>3, <2>1
  <2> QED
    BY <1>1, <1>3, <2>1, <2>2, CleanInside
<1> QED
  BY <1>2, <1>3 DEF CallOK, CallFails, RolledBack, server

LEMMA CleanReadINI ==
  ASSUME ApplyInv, Alone, CleanInv, NEW p \in All, ReadINI(p) PROVE CleanInv'
<1>1. /\ l \in [All -> LocalType] /\ Main \in All /\ Procs \subseteq All
      /\ l[p] \in LocalType /\ l[p].pc = "ini" /\ p # Main
  BY ApplyFacts DEF SysTypeOK, All, ReadINI, Alone
<1>2. l'[p].pc = "write" /\ l'[p].ini = cfg /\ \A q \in All : q # p => l'[q] = l[q]
  BY <1>1 DEF ReadINI, LocalType
<1>3. UNCHANGED <<cfg, srv, body, disk, clean>> /\ Begun' = Begun
  BY DEF ReadINI, server, apply, Begun
<1>4. ~Settled'
  BY <1>1, <1>2 DEF Settled
<1> QED
  BY <1>1, <1>2, <1>3, <1>4, CleanKept

LEMMA CleanWriteINI ==
  ASSUME ApplyInv, Alone, CleanInv, NEW p \in All, WriteINI(p) PROVE CleanInv'
<1>1. /\ SysTypeOK /\ Main \in All /\ l[p].pc = "write" /\ p # Main /\ p \in Procs
      /\ l[p].ini \in Configs
  BY ApplyFacts DEF All, WriteINI, Alone, Carries
<1>2. \A q \in All : q # p => l[q].pc = "idle"
  BY <1>1 DEF Alone
<1>3. SUFFICES ASSUME clean' PROVE Steady' /\ Restoring' /\ Stored'
  BY DEF CleanInv
<1>4. /\ clean /\ disk' = l[p].ini /\ l' = [l EXCEPT ![p] = AtRest]
      /\ UNCHANGED <<cfg, srv, body, os, lock, was>>
  BY <1>3 DEF WriteINI, server, apply
<1>5. Steady /\ l[p].ini = cfg /\ l[Main].pc = "idle"
  BY <1>1, <1>2, <1>4 DEF CleanInv, Stored
<1>6. AtRest.pc = "idle"
  BY DEF AtRest
<1>7. \A q \in All : l'[q].pc = "idle"
  BY <1>1, <1>2, <1>4, <1>6 DEF SysTypeOK
<1>8. Begun' = Begun
  BY <1>4 DEF Begun
<1>9. Steady'
  BY <1>4, <1>5, <1>8 DEF Steady, Agree
<1>10. Restoring'
  BY <1>1, <1>7 DEF Restoring
<1>11. Stored'
  BY <1>1, <1>4, <1>5, <1>7, NoneIsNoConfig DEF Stored, Saved, All
<1> QED
  BY <1>9, <1>10, <1>11

LEMMA CleanCrash ==
  ASSUME ~CrashAnywhere, ApplyInv, CleanInv, Crash PROVE CleanInv'
<1>1. SysTypeOK /\ Main \in All /\ None \notin All
  BY ApplyFacts DEF All
<1>2. SUFFICES ASSUME clean' PROVE Steady' /\ Restoring' /\ Stored'
  BY DEF CleanInv
<1>3. /\ clean /\ Settled /\ srv' = None /\ lock' = None /\ UNCHANGED <<os, disk>>
  BY <1>2 DEF Crash
<1>4. \A p \in All : l[p].pc = "idle" /\ lock # p
  BY <1>3, ApplyFacts DEF Settled
<1>5. lock = None /\ l[Main].pc = "idle"
  BY <1>1, <1>4 DEF SysTypeOK
<1>6. Agree(os, cfg, srv) /\ Saved /\ (disk = None => ~cfg.on)
  BY <1>3, <1>5 DEF CleanInv, Steady, Stored, Begun
<1>7. PICK r : r = [AtRest EXCEPT !.pc = "lock", !.req = disk]
  OBVIOUS
<1>8. r.pc = "lock" /\ r.req = disk /\ AtRest.pc = "idle"
  BY <1>7 DEF AtRest
<1>9. l' = [p \in All |-> IF p = Main /\ disk # None /\ disk.on THEN r ELSE AtRest]
  BY <1>7 DEF Crash
<1>10. \A p \in All : l'[p].pc # "write"
  BY <1>8, <1>9
<1>11. Begun' = os
  BY <1>3 DEF Begun
<1>12. CASE disk # None /\ disk.on
  <2>1. l'[Main] = r /\ disk \in Configs
    BY <1>1, <1>9, <1>12 DEF SysTypeOK
  <2>2. PICK x \in Rules : cfg' = Off(Default, x)
    BY <1>12, Zenon DEF Crash
  <2>3. ~cfg'.on
    BY <2>2 DEF Off
  <2>4. cfg.on /\ cfg.svc = disk.svc
    BY <1>6, <1>12 DEF Saved
  <2>5. Leftover(os)
    BY <1>6, <2>4 DEF Agree, Leftover
  <2>6. Leftover(Begun)'
    BY <1>3, <1>11, <2>5 DEF Leftover
  <2>7. Restoring'
    BY <1>3, <1>8, <1>12, <2>1, <2>3, <2>6 DEF Restoring
  <2>8. Steady' /\ ~Settled'
    BY <1>1, <1>8, <2>1 DEF Steady, Settled
  <2> QED
    BY <1>10, <2>7, <2>8 DEF Stored, All
<1>13. CASE ~(disk # None /\ disk.on)
  <2>1. \A p \in All : l'[p].pc = "idle"
    BY <1>8, <1>9, <1>13
  <2>2. ~cfg.on
    BY <1>6, <1>13 DEF Saved
  <2>3. ~cfg'.on /\ (disk # None => cfg' = disk)
    <3>1. CASE disk = None
      <4>1. PICK x \in Rules : cfg' = Off(Default, x)
        BY <3>1, Zenon DEF Crash
      <4> QED
        BY <3>1, <4>1 DEF Off
    <3>2. CASE disk # None
      <4>1. cfg' = disk
        BY <1>13, <3>2, Zenon DEF Crash
      <4> QED
        BY <1>13, <3>2, <4>1
    <3> QED
      BY <3>1, <3>2
  <2>4. \A s \in Services : os[s].auto = None /\ os[s].bypass = None
    BY <1>6, <2>2 DEF Agree
  <2>5. Steady'
    BY <1>11, <2>3, <2>4 DEF Steady, Agree
  <2>6. Restoring'
    BY <1>1, <2>1 DEF Restoring
  <2>7. Saved'
    BY <1>3, <2>3 DEF Saved
  <2> QED
    BY <1>3, <1>10, <2>3, <2>5, <2>6, <2>7 DEF Stored, All
<1> QED
  BY <1>12, <1>13

LEMMA CleanStep ==
  ASSUME OneProc, ~CrashAnywhere, ApplyInv, Alone, CleanInv, [SNext]_svars PROVE CleanInv'
<1>1. CASE \E p \in Procs, req \in Configs : Request(p, req)
  BY <1>1, CleanRequest
<1>2. ASSUME NEW p \in All,
             \/ Lock(p) \/ Prepare(p) \/ CallOK(p) \/ CallFails(p) \/ RolledBack(p)
             \/ Commit(p) \/ TurnedOff(p) \/ ReadINI(p) \/ WriteINI(p)
      PROVE  CleanInv'
  BY <1>2, CleanLock, CleanPrepare, CleanCalls, CleanCommit, CleanTurnedOff, CleanReadINI,
     CleanWriteINI
<1>3. CASE Crash
  BY <1>3, CleanCrash
<1>4. CASE UNCHANGED svars
  BY <1>4 DEF svars, server, apply, CleanInv, Steady, Restoring, Stored, Begun, Settled, Saved,
              Leftover, Agree
<1> QED
  BY <1>1, <1>2, <1>3, <1>4 DEF SNext

\* With one command at a time and restarts between commands: as long as nothing failed,
\* between commands the system's settings are those of the applied configuration, the PAC
\* served is its PAC and sysproxy.ini has it, through any number of restarts.
THEOREM ProxySurvives ==
  ASSUME OneProc, ~CrashAnywhere PROVE SSpec => []ProxySurvivesRestart
<1> DEFINE Inv == ApplyInv /\ Alone /\ CleanInv
<1>1. SInit => Inv
  <2> SUFFICES ASSUME SInit PROVE Inv
    OBVIOUS
  <2>1. AtRest.pc = "idle" /\ Main \in All
    BY DEF AtRest, All
  <2>2. \A p \in All : l[p].pc = "idle"
    BY <2>1 DEF SInit
  <2>3. Alone
    BY <2>1, <2>2 DEF Alone
  <2>4. ~cfg.on /\ disk = None /\ lock = None
    BY DEF SInit, Off
  <2>5. \A s \in Services : os[s].auto = None /\ os[s].bypass = None
    BY DEF SInit
  <2>6. Steady
    BY <2>4, <2>5 DEF Steady, Agree, Begun
  <2>7. Restoring /\ Stored
    BY <2>1, <2>2, <2>4 DEF Restoring, Stored, Saved, All
  <2> QED
    BY <2>3, <2>6, <2>7, ApplyInit DEF CleanInv
<1>2. Inv /\ [SNext]_svars => Inv'
  BY ApplyStep, AloneStep, CleanStep
<1>3. Inv => ProxySurvivesRestart
  <2> SUFFICES ASSUME Inv, Settled, clean
               PROVE  /\ Agree(os, cfg, srv)
                      /\ cfg.on => body = cfg.rules
                      /\ Saved
    BY DEF ProxySurvivesRestart, Saved
  <2>1. Main \in All /\ lock \in All \cup {None}
    BY ApplyFacts DEF All, SysTypeOK
  <2>2. l[Main].pc = "idle" /\ lock = None
    BY <2>1, ApplyFacts DEF Settled
  <2> QED
    BY <2>2 DEF CleanInv, Steady, Stored, Begun
<1> QED
  BY <1>1, <1>2, <1>3, PTL DEF SSpec
=============================================================================
