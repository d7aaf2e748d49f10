# A formal model of singctl

`singctl` is a proxy and VPN client around an embedded sing-box core.  A daemon keeps a local SOCKS/HTTP
listener up (*proxy mode*), can put a TUN device in front of it (*VPN mode*), coexists with Cisco AnyConnect by
yielding to it, keeps a set of server keys, and can switch the macOS system proxy.  This directory
holds TLA+ modules that model the daemon's control logic, its transport and its conversions, TLC configurations that check them on
small instances, and TLAPS proofs of most of their safety properties for instances of every size.

Paths below are relative to the repository's root.

## 1. Inventory

| component | state it keeps | operations | what is hard | what makes it correct |
| --- | --- | --- | --- | --- |
| `internal/runtime` Manager | `state`, `proxy`, `fwd`, `bound`, `gen` under one mutex; the cores | StartProxy, StartForwarder, StopForwarder, NotifyForwarderExited, SuspendForCisco, ResumeProxy, BindProxyToPhysical, UnbindProxy, RefreshProxy, Shutdown | every slow call is made outside the mutex in a goroutine its caller abandons after a timeout; late completions race with Shutdown and with retries | one owner per core, the fields describe what runs, no orphaned listener, no traffic loop, no call waits for ever |
| `internal/policy` | none (pure) | Decide | level- and edge-triggered rules in one table | no VPN under Cisco; the rules do not thrash |
| `internal/monitor` | debouncer, previous Cisco state and interface | Observe, poll, Run | bounded channel, stale observations | a blip is filtered, a lasting change is not; our TUN goes when Cisco stays; a refresh has a reason |
| `internal/app` Executor, modes | the manager in use, the cached observation | EnableProxy, EnableVPN, Stop, Loop/Apply, PushDisplay | two goroutines drive one manager; decisions are enacted late | as above, end to end; Stop is final |
| `internal/app` Executor, keys | manual keys, subscriptions, firewall rules, manager, links in use; three files | LoadLink, AddLink, DeleteLink, RenameLink, ApplySettings, Add/Remove/RefreshSubscription(s), FirewallAdd/Remove, applyEffective, clearLinks, ApplyAutostart | one goroutine per control connection, four locks each held for one access; failing writes; restarts | the runtime runs the effective set, the files restore it, the mode survives an edit, no runtime is orphaned |
| `internal/sysproxy` | applied configuration, PAC listener, candidate; the system's settings; `sysproxy.ini` | Apply, Restore, Import, persist | a list of external calls each of which may fail; the settings outlive the process | no service points at a dead PAC URL, a rejected switch undoes itself, a restart restores |
| `internal/control`, `internal/daemon` | lock, socket, instance file | start, discovery, detached child, `--stop`, ordered end | crashes at any step, stale sockets, reused PIDs, two starts at once | one daemon serves and can be found; a take-over removes only what is dead |
| `internal/xhttp` | the requests of a stream with their goroutines; chunk buffer, closed flag, error | DialContext, Read, Write, Close; run, stop; building a request | an answer, a failure, a timer and a cancellation racing; back-pressure; Close against a POST in flight | bytes arrive once and in order; a dial returns and leaks nothing; Close frees everybody |
| application routing (`internal/app/appstore.go`, `internal/procproxy`, `internal/netext`) | saved applications, routed PIDs with reference counts, targets of the extension, cached list of applications | RouteApp, UnrouteApp, RoutePID, UnroutePID, Launch…, SetProxiedAppEnabled, RemoveProxiedApp, RecomputeAppTargets, ListApplications, Shutdown | unserialised recomputation, processes that die and PIDs that are reused, failing writes | what is enabled is captured, what is captured has a reason, a cached list is true |
| `internal/app/watchdog.go` | pressure window, cooldown file | observe, markCooldown | gaps and boundaries of the window | fires only on sustained pressure, not twice in the cooldown (planned) |
| `internal/sub`, `internal/protocol`, `internal/singbox`, `internal/firewall` | the links of a subscription's record | fetching, body formats, adapters, link builders, parsers, renderers, configuration generators | four conversions in a row, each with its own spelling; first-match rules; names resolved through what they name | servers survive the way but for a known list of losses, garbage does not replace a working list, configurations are closed and free of loops, the firewall wins |
| `internal/netstate`, `internal/core`, `internal/clashapi`, `internal/remote`, `internal/profile`, `internal/platform`, `mobile`, the Swift application, `third_party/sing-box` | I/O, display, platform, vendored engine | | | not modelled, see section 8 |

How they interact: the control server serves each connection in a goroutine and calls the executor;
the monitor polls the network in its own goroutine and sends decisions through a channel of 16
events to the executor's Loop; both end in calls of the same Manager.  An edit of the key set
replaces that Manager by a new one.  The executor saves keys, subscriptions, rules and the
system-proxy configuration in separate files which startup reads.

PROJECT.json lists the hazards of this code one by one, with the line where each bites and
the property that would catch it.

## 2. Modules

| module | models | extends |
| --- | --- | --- |
| `RuntimeManager` | `internal/runtime/manager.go` | |
| `CoexistPolicy` | `internal/policy/policy.go` and the step of `internal/monitor/debounce.go`, as operators | |
| `Debouncer` | the flap filter fed with arbitrary observations | `CoexistPolicy` |
| `PolicyTable` | the two pure halves of a poll: every observation through the debouncer, and the decision table asked with what it committed, over all other inputs | `Debouncer` |
| `Coexistence` | monitor, event channel, Loop/Apply and mode commands driving one manager | `RuntimeManager`, `CoexistPolicy` |
| `RuntimeManagerProofs` | theorems about the manager, and about it inside the composition | `Coexistence` |
| `DebouncerProofs` | theorems about the filter and the decision table | `PolicyTable` |
| `KeySet` | the key set, subscriptions, rules, files and restart | |
| `SysProxy` | the system-proxy toggle with its PAC server, file and restart | |
| `ByteStream` | what an uplink promises: a prefix, in order, complete on an orderly close (abstract) | |
| `PacketUpload` | `packetUploader` of `internal/xhttp/conn.go`; implements `ByteStream` | |
| `XHTTPStream` | DialContext, openStream, pendingReader and streamConn, in every mode | `PacketUpload` |
| `XHTTPRequest` | settings, placement, padding and payload of one request, as operators | |
| `Links` | the protocols' Parse and RenderNode, the registry, splitting of joined links, as operators | |
| `LinkBuild` | body formats, the sing-box and Clash adapters and the link builders, as operators | `Links` |
| `SingboxConfig` | the generators of configurations, and how sing-box routes and resolves, as operators | `Links` |
| `Imports` | a subscription on its way from the panel to the cores, and an xhttp upload | `LinkBuild`, `SingboxConfig`, `XHTTPRequest` |
| `Instances` | lock, socket, advertisement, start, end, `--stop` | |
| `AppRouting` | application routing on macOS | |
| `KeySetProofs`, `SysProxyProofs`, `XHTTPStreamProofs`, `InstancesProofs`, `AppRoutingProofs`, `ImportsProofs` | theorems | the module they are named after |
| `MCRuntimeManager`, `MCCoexistence`, `MCKeySet`, `MCSysProxy`, `MCImports`, `MCAppRouting` | small instances and symmetries for TLC | the module they are named after |

Inside a module, an operator whose comment begins with *Mutant* is a wrong version of the definition
after it, kept to show that a property notices the mistake; no specification uses it.

### RuntimeManager

`state`, `proxy`, `fwd`, `bound` and `gen` are the fields of `Manager`.  A core is an identity;
`running` says which ones have been started and not closed, and `bind` the interface each one's
configuration pins its egress to.  `w[p]` is the local state of a background goroutine: the method,
where it is in it (`pc`), and its locals (`gen` as stamped, `target` the interface argument, `prev`
the binding to roll back to, `try` the attempt of `recreateProxy`, `stage` main or rollback, `to`
the state its last critical section will record).  `held[p]` are the cores that only this goroutine can reach.
`caller[c]` is the goroutine a client waits for, or what its last call returned.

One action is one critical section of the mutex or one slow call outside it: `Check*` are the first
critical sections of the methods, `DialProxy`/`CommitProxy`/`PublishProxy`/`DiscardProxy` are
`dialProxy`, `TakeProxy`/`CloseProxy` begin `recreateProxy`, and so on.  `committed` and the
publication are two actions because the code releases the mutex between them.  `TimeOut` is
`time.After` in `transition`: the caller leaves, the goroutine stays.  `Shutdown` runs in the caller.

External assumption: the proxy's ports are fixed, so a proxy core starts only while no other one
runs (`ListenerFree`).  A TUN device is named by the system and two can coexist.

### CoexistPolicy, Debouncer, PolicyTable, Coexistence

`Decide` is the table, with a set of actions for the slice, because the executor folds it into flags.
`Coexistence` splits a poll at every lock it takes: `PollObserve` (detector, display callback,
debouncer, interface comparison), `PollState`/`PollIface` (`ProxyBoundToPhysical` reads state and
binding in two critical sections), `PollDecide`, `PollSend` (blocks while the channel is full).
`ApplyBegin` receives an event and calls the manager according to the state of that moment,
`ApplyEnd` pushes the event's snapshot to the display cache.  `EnableVPN` refuses when the cached
observation says Cisco, then `StartProxy`, then `StartForwarder`.  The timers of `Monitor.Run` only
decide when a poll happens; here a poll may happen at any time.  What a decision does is what `Apply` does with its
actions, and the next poll reads the mode from the manager again; the `NextMode` of a decision is used nowhere in
the program and appears only in the operator.  `refreshes` counts the decisions that ask for a new proxy and `changes` those
of the network; `asked` says whether the last command asked for a runtime.

### KeySet

One action per critical section of `mu`, `subMu`, `cfgMu`, `fwMu`, per manager call, file write or
fetch, for every command that edits keys, subscriptions, rules, settings or the mode.  A manager is seen from outside, as
a mode and the configuration it was built from.  `Restart` kills the process at any
point and starts it again from the files; `Startup` is what `runHeadless` does after the control
socket is open.  `faults` counts failed writes and closes.

Keys are share links.  The code joins keys with newlines and parses the text again, which is the identity on links
(`ParseAll` splits them) but not with the text of a WireGuard file among the keys: `ParseAll` takes a text with an
`[Interface]` line for one file, so that adding a key to such a one keeps the file alone.  That case is left out.

### SysProxy

`todo` is the list of `networksetup` calls the current `Apply` still has to make, `phase` what it
does when one of them fails.  `os` is what the system keeps for each service (automatic proxy URL,
manual web proxy, bypass list) and survives a crash; `srv`, `cand` are the committed and candidate
PAC listeners, which do not.  A URL stands for the port it names.  Setting a URL and clearing the manual
proxies are two commands of `networksetup` each (`TwoCommands`): a call that fails may have done nothing or the first of
them, `CallFails` has both outcomes.

### ByteStream, PacketUpload, XHTTPStream

`buf`, `closed`, `err` are the fields of `packetUploader`, `up` where `run` is (at the lock, asleep
on the condition variable, pacing, posting, ended), `writer` and `stopper` where a Write and the stop
are.  `Write` is one pass of its loop under the mutex, `Take` one of `run`'s; a POST happens outside.
`PostFails` may or may not have delivered its chunk.  `written` and `received` record what Write
accepted and what the server got; `UploadsInOrder` says that with them the uploader implements
`ByteStream`: `received` is always a prefix of `written`, and an orderly close delivers everything.

In `XHTTPStream`, `req[r]` is a long-lived request with its goroutine and its `pendingReader`: `once`
is who won `sync.Once`, `body` the response body, `connected`, `responded`, `failed` the three
channels.  `SetOnce`/`SetCheck` are the two halves of `set`.  `dial` and `leg` say where DialContext
is.  `ResolveMode` gives the mode of the settings.  A cancelled request may end at any moment, a
server may answer, refuse or say nothing.

### Imports and the conversions

A link is a record (scheme, user, host, port, a function from query names to values, label); a
value that has several spellings keeps them (`"TLS"`, `"1"` and `"true"`, lists), because which spelling a builder
writes and a parser accepts is the point.  A node is what `RenderNode` makes of a parsed link.
`MCImports` goes from nodes backwards: it describes each node the way a panel would (link list,
sing-box outbound, Clash proxy, JSON array), lets `ParseBody`, the adapters, the builders and
`ParseAll` bring it in, and compares what they render with the node.  Every parameter that a
conversion writes takes a present and an absent value, and so do those that a panel can state and no link carries
(`PanelOnly`).  What a conversion loses is written down in `Carried`: cipher, insecure, reality and all hosts but the first of a
vmess server; the Host header of a ws transport in a sing-box outbound; the HTTP transport and the plugin options of a
Clash proxy; servers of the protocols without a link builder.  `ServersSurvive` says that this list is exact.  `SingboxConfig` builds the three
configurations as records.  Which hosts are IPv4 or IPv6 literals, private or Russian are constants, as
`net.ParseIP` and the rule sets decide that.  `Chosen` picks elements of a list in their order (`placeNode`, the
firewall rules that set a field); the hosts of the servers are a set, since the rules made of them say the same of
each and neither their order nor a repetition changes what matches.  `RouteOf`, `ServerNamed`, `Answers` and `DialerAsks` say how sing-box
uses them (first matching rule, DNS rule, resolver of an outbound), which is external knowledge.
Each protocol's `Node*` operator sets the tag and the bound interface itself, as each module's RenderNode does.
`TunRouteOf` follows what the TUN captures through the forwarder and, where it is relayed, through the proxy, which
sees the daemon as its process.  A destination is an address or a name, as sniffing finds it.
`XHTTPRequest` builds an upload and reads it back with the `Read*` operators, the server's side, also
external.

### Instances

A process is a PID with a start token.  `pc` walks through `main`: read and probe the
advertisement, decide, take or adopt the lock, probe the socket, remove what is stale, listen, advertise,
run, withdraw, close, unlock.  A parent of a detached child opens the lock's file first and hands it to the
child, so `holders` is a set.  A cancelled daemon goes through `Shutdown`, which closes the cores without a bound
and need never end: it still holds its lock and is advertised meanwhile.  `Crash` ends a process at any step, leaving its files; the system
drops its lock and its socket stops answering.

### AppRouting

`entries`/`disk` are the store and its file, `byPID`/`refs` the router, `file` the targets the
extension reads, `req` the requests in flight, one step per lock they take, and `scan` a
`ListApplications` that reads a process's identity, resolves it and reads the identity again.
Processes start, fork and die between any two steps; a start makes an identity unique.  A process that replaces its
program (exec) keeps its identity in the code and is not modelled.  A file is written whole or not
at all.  The cached list is dropped by RouteApp, when the store has changed, and by UnrouteApp.  A request refused because the proxy is stopped changes nothing and has no action.

## 3. Runs

| run | instance | properties | shows |
| --- | --- | --- | --- |
| `runtime_manager` | 1 client, 2 goroutines, 1 Shutdown, timeouts; 1.4 M states | TypeOK, SingleOwner, PublishedIsUp, ListenerOwned, CallersReturn | with calls that outlive their callers |
| `runtime_manager_sequential` | 1 goroutine, 2 cores of each kind, 2 interfaces, 2 Shutdowns | NoTunLoop, StateMatchesCores, ResultIsTrue | every method and failure, one call at a time |
| `policy_table` | threshold 3, runs up to 6, every input of Decide | CommittedFollowsRuns, FlipNeedsRun, NoVPNUnderCisco | both pure parts, exhaustively |
| `coexistence_serial` | 2 interfaces, 1 network change, channel of 1, 1 Shutdown, timeouts; 6.5 M states | RefreshIsEarned, StopIsFinal | while manager calls do not overlap, no poll asks for a refresh without a reason, and no stale decision brings anything up after a Stop |
| `coexistence_yield` | 1 network change, fair; 307 k states | TunYieldsToCisco, Settles | our TUN goes when Cisco stays, and the level-triggered rules come to rest, whatever failed |
| `keyset_serial` | 2 keys, 1 subscription, 1 rule, 1 restart, 1 fault, all twelve commands; 1.3 M states | RuntimeRunsEffective, RestartRestores, NoOrphanRuntime, EditKeepsMode | edits one after the other, a crash anywhere |
| `keyset_overlap` | 2 connections, subscription commands; 3 M states | ReportedIsBuilt, RefreshNeverResurrects | overlapping commands |
| `sysproxy` | 2 services, 2 rule lists, ephemeral, pinned and legacy ports, 1 failing call in each Apply, 1 restart; 6.5 M states | PointedIsServed, ProxySurvivesRestart, RejectedApplyRestores | partial failure and restart |
| `xhttp_stream` | 2 byte values, chunks of 2, writes of up to 3, 4 bytes in all, every mode; 143 k states | NoLeak, UploadsInOrder, DialReturns, CloseReleases | one stream from dial to close, with a silent, refusing or vanishing server |
| `imports` | nodes of all protocols in all formats, garbage, 2 settings of every kind that matters, paddings of 1 to 40 bytes corrected in up to 4 rounds; 11 k states | ServersSurvive, WorkingListKept, ReferencesDefined, NoBootstrapLoop, FirewallWins, UploadReadsBack, PaddingIsAccepted | conversions in a row, and what the cores are given |
| `instances` | 3 PIDs, 4 process starts, crashes at any step; 290 k states | OneDaemon, RunningIsFound, TakeoverIsSafe | starts, stops and crashes in any order |
| `app_routing` | 2 PIDs, 2 applications, 2 requests, 2 process starts, 1 end of the daemon; 648 k states | EnabledIsCaptured, CacheIsTruthful | requests one after the other against a changing process table |

Why the bounds are enough.  Two goroutines and one Shutdown give a superseded transition together with a newer
one; two cores of each kind and two interfaces let a replaced core and its replacement, an old and a
new binding, differ.  The debouncer's threshold 3 is the first at which "one before the threshold" differs from "first";
runs of 6 go past it twice.  A channel of one event is already full while the next poll sends.  One
network change after a nondeterministic initial network gives both directions of a Cisco edge.
Two keys and a feed that repeats one of them give a link that is both manual and a
subscription's.  Two services, two rule lists and three kinds of port let every part of a configuration
change or stay.  One failure per `Apply` is what the rollback is written for.
Writes of three bytes with chunks of two block in the middle of a Write, and four bytes give a second
POST; two byte values tell a repeated or overtaken byte from its neighbour.  Three PIDs hold two
competing daemons and a client, or a parent, its child and a competitor; the fourth start reuses a PID.  Two processes and two starts
are one reused PID; two applications let one's capture be disturbed by the other's.
In `imports` the fields of a link that are converted independently of each other take two or three values each, so that a
dropped, swapped or misspelt parameter changes the rendered node.  `MaxRounds`, 150 in the code, is 4 there, so that
guesses that the rounds make up for, on both sides, and guesses they do not, are tried; targets and guesses are scaled with it.

A type invariant is defined in the modules with state; those of `RuntimeManager`, the debouncer and
`XHTTPStream` are proved, and the other proofs have the types they need in their inductive invariants.  The runs other
than `runtime_manager` check the properties that say more.

Deadlock is checked for the manager, the policy, the key set and the system proxy, which have a step from
every reachable state.  It is off in the four last runs: a closed stream, an imported subscription and
processes that have used up their starts rightly stop.

## 4. Fairness

* `FairSpec` (RuntimeManager): the timer of `transition` fires, and closing a core returns.  Nothing
  is assumed of building or starting a core, which is the point of `CallersReturn`: `Shutdown` waits
  only for closes.
* `CoFairSpec` (Coexistence): the ticker keeps the monitor polling; Loop and workers are goroutines
  that run; cores' calls return.  Commands are never owed.  `ApplyBegin` and `EnableVPNForwarder`
  have strong fairness because in the instance without overlap they are enabled again and again
  rather than continuously; in the code no lock keeps them waiting.  `Settles` holds although a call of the manager may
  fail each time it is made: the fairness says that calls return, not that they succeed.
* `XFairness` (XHTTPStream): goroutines run, the grace clock and the pacing timer fire, a connection is
  made or fails (the engine's dialer and its TLS handshake, which `internal/singboxext/outbound.go` hands to the
  transport, both have a timeout), a cancelled request ends.  Nothing is
  assumed of a server: it need not answer the long-lived requests, which is the point of `DialReturns`.  Nor need it
  answer a POST, and there the code does wait: `stop` joins `run` before it cancels the POST's context, and
  no timeout covers a server that is alive and silent.  `CloseReleases` therefore has the premise that no POST stays
  unanswered for ever; without it Close hangs.

## 5. What the code's comments say and the code does not do

TLC finds the property of each of these configurations violated, and
PROJECT.json quotes the sentence it comes from:

| configuration | module | property |
| --- | --- | --- |
| `RuntimeManagerFindings.cfg` | MCRuntimeManager | LateCompletionDiscarded |
| `RuntimeManagerFindings.cfg` | MCRuntimeManager | NewerProxySurvives |
| `RuntimeManagerFindings.cfg` | MCRuntimeManager | ForwarderOwned |
| `RuntimeManagerStoppedLabel.cfg` | MCRuntimeManager | StoppedMeansNoListener |
| `CoexistenceTunLoop.cfg` | MCCoexistence | NoTunLoop, with overlapping calls |
| `CoexistenceInterface.cfg` | MCCoexistence | RefreshRebinds |
| `CoexistenceCachedCisco.cfg` | MCCoexistence | CachedCiscoIsLatest |
| `KeySetManualCopy.cfg` | MCKeySet | SubscriptionLinksNotSaved |
| `KeySetOrphan.cfg` | MCKeySet | NoOrphanRuntime, with overlapping commands |
| `KeySetOrphan.cfg` | MCKeySet | AddedKeyIsKept |
| `SysProxySaveRace.cfg` | SysProxy | AppliedIsSaved |
| `SysProxyCrash.cfg` | SysProxy | NoDeadURLAfterRestart |
| `SysProxyOffHalfway.cfg` | SysProxy | OffRunsAllCalls |
| `XHTTPStreamCancels.cfg` | XHTTPStream | CloseCancelsAll |
| `InstancesStopConfirmed.cfg` | Instances | StopHitsConfirmed |
| `AppRoutingFindings.cfg` | MCAppRouting | CaptureHasReason |
| `AppRoutingFindings.cfg` | MCAppRouting | RoutedIsCaptured |
| `AppRoutingFindings.cfg` | MCAppRouting | NothingCapturedWhenDown |
| `AppRoutingOverlap.cfg` | MCAppRouting | EnabledIsCaptured, with overlapping requests |
| `ImportsFindings.cfg` | MCImports | DialersAskBootstrap: a server's dialer asks the system resolver, past the DNS rules |
| `ImportsFindings.cfg` | MCImports | FirewallWinsInVPN: the forwarder sends private addresses direct and hides the process |
| `ImportsFindings.cfg` | MCImports | NothingIsLost: the losses of `Carried` |
| `ImportsFindings.cfg` | MCImports | StrangersAreSkipped: one server with an unknown transport costs the whole list |
| `ImportsFindings.cfg` | MCImports | PaddingAlwaysFits: a guess that is too short for the rounds stays too short |

The `…Findings.cfg` and `KeySetOrphan.cfg` hold several properties over one instance, one to be checked at a time: the
others are commented out.

What the code does guarantee beside each of the five of `ImportsFindings.cfg` is checked in the run `imports`: a client's query for
a server's name goes to the bootstrap resolver and no dialer asks through the proxy (`NoBootstrapLoop`); a rule
decides what reaches the proxy's ports, and of what the TUN captures public hosts named by a rule without a process (`FirewallWins`);
nothing but the listed parameters is lost, of servers with transports that the modules know (`ServersSurvive`); and a
padding whose first guess the rounds can make up for fits (`PaddingIsAccepted`).  With the 150 rounds and the default
lengths of 100 to 1000 bytes, target 1000 from 1250 characters of five bits each, 782 bytes, ends at 932.

One more was met while writing the round trip of `Imports`, whose instance leaves it out: a Shadowsocks
password that contains a colon does not survive an import.

## 6. Proofs

Every theorem is about all values of the constants that satisfy the named ASSUME of its module; where it needs more,
the theorem says so as a hypothesis, and that is the case its run checks too: the finding of section 5 is what
happens without it.

| theorem | states | hypothesis |
| --- | --- | --- |
| `TypeCorrect`, `CoreHasOneOwner`, `FieldsTellTheTruth`, `ListenerNeverLeaks` | TypeOK, SingleOwner, PublishedIsUp, ListenerOwned of `Spec` | |
| `TunNeverLoops`, `StateIsTrue`, `ResultsAreTrue` | NoTunLoop, StateMatchesCores, ResultIsTrue of `Spec` | one worker |
| `CoexistenceImplementsManager` | `CoSpec => Spec` | |
| `StaleDecisionsNeverLoop`, `StaleDecisionsKeepState` | NoTunLoop, StateMatchesCores of `CoSpec` | one worker |
| `StopStaysFinal` | StopIsFinal of `CoSpec` | one worker |
| `RefreshesAreEarned` | RefreshIsEarned of `CoSpec` | |
| `DebouncerFollowsRuns`, `BlipsAreFiltered` | CommittedFollowsRuns, FlipNeedsRun of `DebSpec` | |
| `TableImplementsDebouncer`, `DecisionsYield` | `TableSpec => DebSpec`; NoVPNUnderCisco | |
| `ReportedLinksAreBuilt`, `RemovedStaysRemoved` | ReportedIsBuilt, RefreshNeverResurrects | |
| `RuntimeFollowsTheInputs`, `FilesHoldTheInputs`, `NoRuntimeIsOrphaned`, `EditsKeepTheMode` | RuntimeRunsEffective, RestartRestores, NoOrphanRuntime, EditKeepsMode | `Serial` |
| `PointedServed`, `RejectedRestores` | PointedIsServed, RejectedApplyRestores | `MaxFails <= 1` |
| `ProxySurvives` | ProxySurvivesRestart | one goroutine, `~CrashAnywhere` |
| `UploaderImplementsByteStream`, `StreamTypes`, `NothingLeaks` | UploadsInOrder (the refinement of `ByteStream`), XTypeOK, NoLeak | |
| `DaemonIsAlone`, `DaemonIsFound`, `TakeoverNeverDisplaces` | OneDaemon, RunningIsFound, TakeoverIsSafe | |
| `CachedListIsTruthful` | CacheIsTruthful | |
| `EnabledStaysCaptured` | EnabledIsCaptured | one request |
| `WorkingListSurvives`, `FirewallDecides`, `ServersAreReached` | WorkingListKept, FirewallWins, NoBootstrapLoop | |
| `ReferencesAreDefined` | ReferencesDefined | `TagsDiffer(Nat \ {0})` |

`Invariance`, `SequentialInvariance`, `DebouncerInvariance`, `InstanceInvariance` and `ApplyInvariance` state the inductive
invariants of their modules.  Each invariant was checked by TLC on the instance of its run before it was proved.

**Manager.**  `IInv == TypeOK /\ Hands /\ OneListener /\ SingleOwner /\ PublishedIsUp /\ ListenerOwned`.
None of the last three is inductive: that a worker publishes a running core bound to the
interface it then records (`PublishedIsUp`), or overwrites no other core (`ListenerOwned`), depends on what the worker
holds where it is.  `Hands` says that: nothing at most places, exactly one started proxy core bound to `target`
between the dial and the publication, only forwarder cores while it closes one, and always cores that run.  `OneListener`
is the exclusive port.  The lemmas abstract actions by kind (a worker moves without touching cores, takes published
cores, closes held ones, starts one, publishes one); each action is an instance of one of them.  With one worker, `SeqInv`
adds `Place`, what is published at each step of each method, and that every running core is published or in the
worker's hands; NoTunLoop alone is not inductive because a rebind passes through states where only the place
says that the forwarder is not up yet.  `ResultsAreTrue` says more than `StateIsTrue`: what the one caller that is
waiting was told, success or failure, is so.  `Place` does not tell which method records which state at its end, so
`EndInv` adds it: StartProxy and Resume record proxy-only, StartForwarder and BindPhysical record a state there only after a
rollback, Suspend records suspended, and Unbind stopped; until it does, Resume leaves the manager suspended.  The composition
refines the manager step by step, with the identity as mapping.

**Coexistence.**  `OffInv` says that until the next command nothing is published and the goroutine, if there is one, is at a
step from which it cannot start a core.  `EarnInv` counts the changes no refresh was decided for yet: the monitor behind the filter,
the filter behind the network, an interface the poll in progress or the next one sees move; refreshes and these together are never
more than the changes.  It needs no assumption on overlap, failures or the length of a delay.

**Policy.**  `DebInv` says that the filter is fresh, settled, or counting a run shorter than the threshold.
`Asked` joins it to the decision table, which is a case analysis: the table is asked with what the filter has committed.

**Key set.**  `BuiltInv` says that a goroutine about to swap holds a manager of its own, built from its links.  `ModeInv`
(one command) says which manager a command is about to stop or start, and that nothing runs between the end of the old
one and the start of the new one.  `SavedInv` says at each step which file is behind its input, and for which command.
`FeedInv` says what a refresh carries: records with the URLs it copied.  `RunInv` says at each step whether the runtime
already follows the inputs; it needs the other three, because a restart comes up from the files and a merge that changed
nothing applies nothing.  The properties of the list operators (a removal picks the other records in order, a merge keeps
the URLs) come from a least or greatest element instead of an induction.

**System proxy.**  `ApplyInv` describes the Apply under way as a plan: the set of calls of its phase, of which those not
in `todo` have been made, and a bound on what differs from the settings at its beginning.  `OwnerInv` (a service has the
server's URL only where the configuration says so) and `CleanInv` (what the last command, or the last process, left)
are stated about the beginning of the Apply, so that they survive its steps.

**xhttp.**  `UInv` has where every byte is, `written = (received \o chunk) \o buf` until a POST fails, from which the
prefix follows, and how far `run` and `stop` are from one another, from which completeness follows.  `LeakInv` has, for
a request, that a body is handed over before the outcome is checked, and that a failed dial or a closed stream has
cancelled and released every request.

**Instances.**  The lock is held exactly by the processes whose step says so (`Locked`), two of them only as a parent and
its own child (`Shared`), and who listens owns the path, who runs is advertised (`Served`).

**Application routing.**  `ListInv` says that what a scan and the cache show is true of every process that still is the
one seen.  `TargetInv` says what a request in flight carries, from its change of the list to the write of the targets.

**Imports.**  `ListInv` says that what a record holds parses and is finite, and which settings a configuration was built
from and how.  `ImportsConstantsOK` has that the manual keys and the earlier list parse, as both were accepted when they were saved.
The firewall theorem rests on `RankNumbers` (ranks number the rules that set a field without a gap, by the
pigeonhole theorem), from which the route rules of the user are in their order, before the defaults, and on `Relayed`:
what is neither private nor a server's address passes all rules of the forwarder.
`ServersAreReached` follows a name through the DNS rules and an address through the route rules of each configuration:
every name is one of a bootstrap rule that comes first, every address has a guard, and the guards are finitely many
because `HostsOK` has finitely many literals.  `ReferencesAreDefined` is about lists put together from parts: `ToldApart`
says that the outbounds and endpoints are the rendered servers, each once, and the fixed ones, all under different tags,
and `Closed` that whatever refers to a tag refers to one of these.  A
server's tag is its number written out.  The provers know nothing of numerals, so that two numbers are written
differently, and none of them as a fixed tag, is the hypothesis `TagsDiffer`; TLC evaluates it for the numbers 1 to 100
(`NumeralsOK` of `MCImports`).

Only model-checked:

* liveness (`CallersReturn`, `TunYieldsToCisco`, `Settles`, `DialReturns`, `CloseReleases`), because the prover has
  no ENABLED or fairness reasoning;
* `ServersSurvive`, `UploadReadsBack` and `PaddingIsAccepted`, which hold of the spellings and settings that the instance enumerates, and
  whose parsing, padding and splitting are folds and recursions over data.

## 7. Plan

Done: 1 `RuntimeManager`; 2 policy, debouncer and `Coexistence`; 3 `KeySet`; 4 `SysProxy`; 5 `Instances`; 6
`PacketUpload` with its refinement, and `XHTTPStream`; 7 `AppRouting`; 8 the conversions
(`Links`, `LinkBuild`, `SingboxConfig`, `XHTTPRequest`, `Imports`); 9 the proofs of section 6; 10 among them those
about the configurations.

Next, in this order:

11. The manager as an atomic mode switch, an abstract specification implemented by `RuntimeManager` when calls do not
    overlap; `SeqInv` and `EndInv` are what its refinement needs, and `ResultsAreTrue` is its part about results.
12. `Watchdog`: the pressure window against a reference definition, the cooldown across restarts.
13. The console ring, PAC rules and the INI round trip as operators.

## 8. Not modelled

* Syntax: percent and base64 decoding, JSON, YAML and URL syntax, PAC and INI documents, option
  parsing.  `KeySet` takes a key, a share link, as a value and a fetch as a list of keys or a failure; `Imports`
  takes a link and a body as records.
* The path watchdog and the console ring (planned), `--restart`, the Linux and Windows variants of
  routing and locking.
* Platform and engine: network detection (its results are inputs), `networksetup` (its effects on a
  service's settings are modelled), sing-box itself (a core runs or not), process launching, the
  Swift application and the mobile binding.
* Display: notes to the UI, Clash API polling, logs.
* Torn file writes: a file has its old or its new content.
* A stuck `networksetup` call, and deadlines of control connections.
