------------------------------ MODULE SysProxy ------------------------------
(***************************************************************************)
(* The macOS system-proxy toggle (internal/sysproxy/manager.go and         *)
(* pacserver.go, and the executor's SysProxySet and RestoreSysProxyConfig):*)
(* a PAC file is served on a local port and a network service's automatic  *)
(* proxy URL is pointed at it.                                             *)
(*                                                                         *)
(* Manager.Apply holds the manager's mutex throughout; it is a list of     *)
(* calls of networksetup, each of which may fail, and the process may die  *)
(* between any two of them.  The settings of the system outlive it, the    *)
(* PAC server does not.                                                    *)
(***************************************************************************)
EXTENDS Sequences, Naturals

CONSTANTS
  Procs,     \* goroutines serving SYSPROXY-SET and SYSPROXY-IMPORT
  Main,      \* the goroutine of main, which restores the saved configuration
  Services,  \* network services
  Rules,     \* rule lists: what the PAC says, and the bypass domains
  Ephemeral, \* ports the system hands out
  Legacy,    \* the legacy PAC port
  Pinned,    \* other ports a configuration can ask for
  None,
  Default,   \* the service of DefaultConfig
  MaxFails,  \* bound on the calls that fail during one Apply
  MaxCrash,  \* bound on the number of crashes
  CrashAnywhere  \* FALSE: the process dies only between commands

ASSUME SysProxyConstantsOK ==
  /\ Main \notin Procs /\ Default \in Services /\ Rules # {}
  /\ None \notin Ephemeral \cup Pinned \cup {Legacy} \cup Rules \cup Procs \cup {Main}
  /\ Legacy \notin Ephemeral \cup Pinned /\ Pinned \cap Ephemeral = {}
  /\ MaxFails \in Nat /\ MaxCrash \in Nat /\ CrashAnywhere \in BOOLEAN

VARIABLES
  cfg,         \* the applied configuration (Manager.cfg)
  srv, body,   \* the committed PAC listener's port and what it serves
  cand,        \* the candidate listener's port
  os,          \* the settings of each service, as networksetup keeps them
  disk,        \* sysproxy.ini
  lock,        \* who is inside Apply
  phase, todo, fails,  \* how far it is: "prepare", "apply", "off" or "rollback"
  was,         \* history: the settings and the configuration when Apply began
  clean,       \* history: nothing has failed so far
  l,           \* the local state of each goroutine
  crashes

apply == <<phase, todo, fails, was>>
server == <<srv, body, cand>>
svars == <<cfg, server, os, disk, lock, apply, clean, l, crashes>>

All   == Procs \cup {Main}
Ports == Ephemeral \cup Pinned \cup {Legacy}

\* on: include or exclude mode; port None is PACPort = 0.
Configs == [on : BOOLEAN, svc : Services, port : Pinned \cup {None, Legacy}, rules : Rules]
Off(s, r) == [on |-> FALSE, svc |-> s, port |-> None, rules |-> r]

ASSUME NoneIsNoConfig == None \notin Configs

\* The empty URL the PAC server reports when it is down.
NoURL == "none"
AtRest == [pc |-> "idle", req |-> None, ini |-> None, res |-> "ok"]

SInit ==
  /\ \E r \in Rules : cfg = Off(Default, r)
  /\ srv = None /\ body = None /\ cand = None
  /\ os \in [Services -> [auto : {None}, web : BOOLEAN, bypass : {None}]]
  /\ disk = None /\ lock = None
  /\ phase = "idle" /\ todo = <<>> /\ fails = 0 /\ was = None /\ clean = TRUE
  /\ l = [p \in All |-> AtRest]
  /\ crashes = 0

Settled == \A p \in All : l[p].pc = "idle"

-----------------------------------------------------------------------------
(* The calls of networksetup. *)

\* SetAutoProxyURL, or DisableAutoProxy where the URL is None.
AutoURL(s, url)  == [call |-> "auto", svc |-> s, val |-> url]
\* DisableWebProxy; web says whether a manual proxy, for HTTP or for HTTPS, is on.
WebOff(s)        == [call |-> "web", svc |-> s, val |-> FALSE]
\* SetBypassDomains.
Bypass(s, rules) == [call |-> "bypass", svc |-> s, val |-> rules]

\* The URL and its switch, and the two manual proxies, are set by a command each.  Where
\* only the second fails the new URL is in effect if the switch was on already, and the
\* manual proxy is gone if it was the one for HTTP.
TwoCommands(c) == c.call = "web" \/ (c.call = "auto" /\ c.val # None)

DisableService(s) == <<AutoURL(s, None), WebOff(s), Bypass(s, None)>>

\* Mutant: the service owned before keeps its settings.
OldServiceForgotten(req) == <<>>

\* The service owned before, when the request names another one.
OldService(req) == IF cfg.on /\ cfg.svc # req.svc THEN DisableService(cfg.svc) ELSE <<>>

URL == IF srv = None THEN NoURL ELSE srv

\* Mutant: the service the refused request named keeps what it was given.
RestorationOldOnly(req) ==
  IF cfg.on THEN <<AutoURL(cfg.svc, URL), Bypass(cfg.svc, cfg.rules)>>
  ELSE DisableService(req.svc)

\* Putting the system back to the configuration that is still the applied one.
Restoration(req) ==
  IF cfg.on
    THEN (IF req.svc # cfg.svc THEN DisableService(req.svc) ELSE <<>>)
         \o <<AutoURL(cfg.svc, URL), Bypass(cfg.svc, cfg.rules)>>
    ELSE DisableService(req.svc)

Done(c) == os' = [os EXCEPT ![c.svc][c.call] = c.val]

-----------------------------------------------------------------------------
(* Manager.Apply, by the goroutine that has the lock. *)

\* SysProxySet or SysProxyImport with whatever configuration the request, merged onto
\* the one read before, gives (an invalid one is refused at once).  The saved one is
\* restored before the control socket opens.
Request(p, req) ==
  /\ l[p].pc = "idle" /\ l[Main].pc = "idle"
  /\ l' = [l EXCEPT ![p] = [AtRest EXCEPT !.pc = "lock", !.req = req]]
  /\ UNCHANGED <<cfg, server, os, disk, lock, apply, clean, crashes>>

Lock(p) ==
  /\ l[p].pc = "lock" /\ lock = None
  /\ lock' = p
  /\ l' = [l EXCEPT ![p].pc = "apply"]
  /\ was' = [os |-> os, cfg |-> cfg]
  /\ LET req == l[p].req IN
     IF req.on THEN phase' = "prepare" /\ todo' = <<>>
     ELSE phase' = "off" /\ todo' = DisableService(req.svc) \o OldService(req)
  /\ UNCHANGED <<cfg, server, os, disk, fails, clean, crashes>>

\* Apply returns; a command that worked goes on to save.
Unlock(p, res) ==
  /\ lock' = None
  /\ phase' = "idle" /\ todo' = <<>>
  /\ l' = [l EXCEPT ![p] = IF res = "ok" /\ p # Main THEN [l[p] EXCEPT !.pc = "ini"]
                           ELSE [AtRest EXCEPT !.res = res]]
  /\ fails' = 0 /\ was' = None /\ clean' = (clean /\ res = "ok")

Forward(req, url) ==
  <<WebOff(req.svc), AutoURL(req.svc, url), Bypass(req.svc, req.rules)>> \o OldService(req)

Proceed(req, port) ==
  /\ cand' = port
  /\ phase' = "apply"
  /\ todo' = Forward(req, IF port = None THEN srv ELSE port)
  /\ UNCHANGED <<srv, body, fails, was, clean, lock>>

\* prepare(port) binds port, or one the system hands out, unless the server that runs
\* will do; the outcome is the candidate.
Bound(port) ==
  IF srv # None /\ port \in {None, srv} THEN {None}
  ELSE IF port = None THEN Ephemeral ELSE {port}

\* A legacy port that is in use is given up for one the system hands out, any other
\* failure to bind ends the call.
Prepare(p) ==
  /\ lock = p /\ phase = "prepare"
  /\ LET req == l[p].req IN
     \/ \E port \in Bound(req.port) : Proceed(req, port) /\ UNCHANGED l
     \/ /\ req.port = Legacy /\ srv # Legacy
        /\ \E port \in Bound(None) : Proceed([req EXCEPT !.port = None], port)
        /\ l' = [l EXCEPT ![p].req.port = None]
     \/ /\ Bound(req.port) # {None} /\ fails < MaxFails
        /\ Unlock(p, "err") /\ UNCHANGED server
  /\ UNCHANGED <<cfg, os, disk, crashes>>

\* The next call works.
CallOK(p) ==
  /\ lock = p /\ todo # <<>>
  /\ Done(Head(todo))
  /\ todo' = Tail(todo)
  /\ UNCHANGED <<cfg, server, disk, lock, phase, fails, was, clean, l, crashes>>

\* The next call fails, with nothing done or halfway.  While applying, the candidate is closed and the old settings
\* are restored; while restoring, or turning off, Apply gives up.
CallFails(p) ==
  /\ lock = p /\ todo # <<>> /\ fails < MaxFails
  /\ UNCHANGED os \/ (TwoCommands(Head(todo)) /\ Done(Head(todo)))
  /\ IF phase = "apply"
       THEN /\ cand' = None
            /\ phase' = "rollback" /\ todo' = Restoration(l[p].req) /\ fails' = fails + 1
            /\ UNCHANGED <<lock, l, was, clean>>
       ELSE Unlock(p, "err") /\ UNCHANGED cand
  /\ UNCHANGED <<cfg, srv, body, disk, crashes>>

RolledBack(p) ==
  /\ lock = p /\ phase = "rollback" /\ todo = <<>>
  /\ Unlock(p, "err")
  /\ UNCHANGED <<cfg, server, os, disk, crashes>>

\* Every call worked: the candidate becomes the server and the old one is closed.
Commit(p) ==
  /\ lock = p /\ phase = "apply" /\ todo = <<>>
  /\ srv' = IF cand = None THEN srv ELSE cand
  /\ body' = l[p].req.rules
  /\ cand' = None
  /\ cfg' = l[p].req
  /\ Unlock(p, "ok")
  /\ UNCHANGED <<os, disk, crashes>>

\* Turned off: the server is closed; if that reports an error the configuration stays.
TurnedOff(p) ==
  /\ lock = p /\ phase = "off" /\ todo = <<>>
  /\ srv' = None
  /\ \/ cfg' = l[p].req /\ Unlock(p, "ok")
     \/ srv # None /\ fails < MaxFails /\ Unlock(p, "err") /\ UNCHANGED cfg
  /\ UNCHANGED <<body, cand, os, disk, crashes>>

-----------------------------------------------------------------------------
(* persistSysProxy: the configuration is read under the lock and written outside it. *)

ReadINI(p) ==
  /\ l[p].pc = "ini" /\ lock = None
  /\ l' = [l EXCEPT ![p].ini = cfg, ![p].pc = "write"]
  /\ UNCHANGED <<cfg, server, os, disk, lock, apply, clean, crashes>>

\* Mutant: turning off is not saved.
WriteINIOnlyOn(p) ==
  /\ l[p].pc = "write"
  /\ disk' = IF l[p].ini.on THEN l[p].ini ELSE disk
  /\ l' = [l EXCEPT ![p] = AtRest]
  /\ UNCHANGED <<cfg, server, os, lock, apply, clean, crashes>>

WriteINI(p) ==
  /\ l[p].pc = "write"
  /\ \/ /\ disk' = l[p].ini
        /\ l' = [l EXCEPT ![p] = AtRest]
        /\ UNCHANGED clean
     \/ /\ MaxFails > 0
        /\ l' = [l EXCEPT ![p] = [AtRest EXCEPT !.res = "err"]]
        /\ clean' = FALSE
        /\ UNCHANGED disk
  /\ UNCHANGED <<cfg, server, os, lock, apply, crashes>>

-----------------------------------------------------------------------------

\* The process dies and is started again: DefaultConfig, or the saved configuration
\* when that is off (nothing is touched), or Apply of the saved one.
Crash ==
  /\ crashes < MaxCrash /\ crashes' = crashes + 1
  /\ CrashAnywhere \/ Settled
  /\ srv' = None /\ body' = None /\ cand' = None
  /\ lock' = None /\ phase' = "idle" /\ todo' = <<>> /\ fails' = 0 /\ was' = None
  /\ IF disk = None \/ disk.on
       THEN \E r \in Rules : cfg' = Off(Default, r)
       ELSE cfg' = disk
  /\ l' = [p \in All |->
             IF p = Main /\ disk # None /\ disk.on
               THEN [AtRest EXCEPT !.pc = "lock", !.req = disk] ELSE AtRest]
  /\ UNCHANGED <<os, disk, clean>>

SNext ==
  \/ \E p \in Procs, req \in Configs : Request(p, req)
  \/ \E p \in All : \/ Lock(p) \/ Prepare(p) \/ CallOK(p) \/ CallFails(p)
                    \/ RolledBack(p) \/ Commit(p) \/ TurnedOff(p)
                    \/ ReadINI(p) \/ WriteINI(p)
  \/ Crash

SSpec == SInit /\ [][SNext]_svars

-----------------------------------------------------------------------------
(* Properties. *)

URLs == Ports \cup {None, NoURL}

\* The types of the manager's fields, of the PAC server and of the system's settings;
\* a candidate exists only while Apply is under way, and is never the server itself.
STypeOK ==
  /\ cfg \in Configs /\ disk \in Configs \cup {None}
  /\ srv \in Ports \cup {None} /\ cand \in Ports \cup {None}
  /\ os \in [Services -> [auto : URLs, web : BOOLEAN, bypass : Rules \cup {None}]]
  /\ cand # None => phase = "apply" /\ cand # srv
  /\ (lock = None) = (phase = "idle")

\* While the process lives, and except during a rollback, no service is ever pointed at
\* a port that serves no PAC, although a call of every Apply may fail: a candidate is bound
\* before networksetup gets its URL, the old server is closed only after every service
\* has left it, and a rollback takes the candidate's URL away again.  (Where the PAC
\* server reported an error as it closed, a rollback later writes an empty URL.)
PointedIsServed ==
  crashes = 0 /\ phase # "rollback" =>
    \A s \in Services : os[s].auto \in {None, NoURL, srv, cand}

\* The system's settings are those of configuration c, whose PAC is served at url.
Agree(o, c, url) ==
  \A s \in Services :
    IF c.on /\ s = c.svc THEN url # None /\ o[s].auto = url /\ o[s].bypass = c.rules
    ELSE o[s].auto = None /\ o[s].bypass = None

\* A rejected switch undoes itself: when Apply of an include or exclude configuration
\* reports an error, and only one call failed, the settings agree with the old
\* configuration and its server again, if they did when Apply began.
RejectedApplyRestores ==
  [][\A p \in All :
       (/\ lock = p /\ l[p].req.on /\ lock' = None /\ l'[p].res = "err"
        /\ crashes' = crashes /\ Agree(was.os, was.cfg, srv))
          => Agree(os', cfg', srv') /\ cfg' = was.cfg]_svars

\* Between commands, if nothing has failed and every restart found the process at rest: the
\* settings are those of the applied configuration, the PAC served is its PAC, and the
\* file has it.
ProxySurvivesRestart ==
  Settled /\ clean =>
    /\ Agree(os, cfg, srv)
    /\ cfg.on => body = cfg.rules
    /\ disk # None => (disk.on = cfg.on /\ disk.svc = cfg.svc /\ disk.rules = cfg.rules)

-----------------------------------------------------------------------------
(* What the comments and the specification say, and the code does not do. *)

\* "All three calls run regardless of order/failure of the others": when turning off
\* fails although only one call failed, the bypass list or the automatic proxy of the
\* service is cleared.
OffRunsAllCalls ==
  [][\A p \in All :
       (lock = p /\ phase = "off" /\ lock' = None /\ l'[p].res = "err" /\ crashes' = crashes)
          => LET s == l[p].req.svc IN os'[s].auto = None \/ os'[s].bypass = None]_svars

\* "A successful Apply is persisted so it survives a daemon restart": between commands
\* the file has the configuration that is applied.
AppliedIsSaved ==
  Settled /\ disk # None => disk = cfg

\* "The system proxy must survive a daemon restart": when main has restored what was
\* saved, no service is pointed at a PAC URL that nobody serves.
NoDeadURLAfterRestart ==
  Settled => \A s \in Services : os[s].auto # None => os[s].auto = srv
=============================================================================
