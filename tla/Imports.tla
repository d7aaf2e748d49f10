------------------------------- MODULE Imports -------------------------------
(***************************************************************************)
(* A subscription on its way to the core: fetched directly or through the  *)
(* local proxy (sub/fetch.go), turned into share links (LinkBuild), parsed *)
(* and adopted (Links, Executor.fetchInto), and built into the             *)
(* configurations of the cores (SingboxConfig, firewallConfigBuilder).     *)
(* Beside it, what an xhttp node of a configuration sends (XHTTPRequest).  *)
(***************************************************************************)
EXTENDS LinkBuild, SingboxConfig, XHTTPRequest

CONSTANTS
  Panels,     \* what panels serve: [sent: labels and nodes, body]
  Working,    \* links a record may hold from an earlier fetch
  Options,    \* the settings configurations are built with, the manual keys among them
  Uploads,    \* the xhttp settings and payloads, [settings, payload]
  Paddings    \* guessed texts and targets of the padding, [bits, target]

\* What a record and the manual keys hold has been accepted before, a panel's body has
\* an end, and a firewall rule is four texts.
ASSUME ImportsConstantsOK ==
  /\ IsFiniteSet(Working) /\ \A u \in Working : Parse(u).ok
  /\ \A o \in Options :
       /\ IsFiniteSet(o.manual) /\ \A u \in o.manual : Parse(u).ok
       /\ o.firewall \in Seq([action : STRING, domain : STRING, cidr : STRING, process : STRING])
  /\ \A x \in Panels : ParseBody(x.body).ok => IsFiniteSet(ParseBody(x.body).links)

VARIABLES
  stage,      \* where the fetch is
  panel,      \* the panel it asks
  cache,      \* record.Links
  got,        \* the result of the fetch
  built       \* the configurations of the cores

ivars == <<stage, panel, cache, got, built>>

NoPanel == [sent |-> {}]
NoBuild == [proxy |-> NoConfig]

ImportInit ==
  /\ stage \in {"due", "upload"}
  /\ panel \in IF stage = "due" THEN Panels ELSE Uploads \cup Paddings
  /\ cache \in IF stage = "due" THEN {{}, Working} ELSE {{}}
  /\ got = NoLinks /\ built = NoBuild

\* HTTPFetcher.fetch: the direct attempt, and only when it fails the one through the
\* local proxy, when there is one.
Fetched == got' = ParseBody(panel.body) /\ stage' = "fetched"

AttemptDirect ==
  /\ stage = "due"
  /\ Fetched \/ (stage' \in {"retry", "failed"} /\ UNCHANGED got)
  /\ UNCHANGED <<panel, cache, built>>

AttemptProxied ==
  /\ stage = "retry"
  /\ Fetched \/ (stage' = "failed" /\ UNCHANGED got)
  /\ UNCHANGED <<panel, cache, built>>

\* ParseAll: one link that cannot be parsed fails all of them.
ParseAll(links) ==
  IF links # {} /\ \A u \in links : Parse(u).ok
    THEN [ok |-> TRUE, profiles |-> {Parse(u) : u \in links}] ELSE Bad

\* Mutant: adopted before it is validated.
AdoptFirst ==
  /\ stage = "fetched"
  /\ cache' = (IF got.ok THEN got.links ELSE cache)
  /\ stage' = (IF got.ok /\ ParseAll(got.links).ok THEN "adopted" ELSE "failed")
  /\ UNCHANGED <<panel, got, built>>

\* fetchInto: validate, then adopt.
Adopt ==
  /\ stage = "fetched"
  /\ LET usable == got.ok /\ ParseAll(got.links).ok IN
     /\ cache' = (IF usable THEN got.links ELSE cache)
     /\ stage' = (IF usable THEN "adopted" ELSE "failed")
  /\ UNCHANGED <<panel, got, built>>

\* Whatever became of the fetch, the cores are built from the manual keys and the links
\* of the record; nothing else is left of it.
BuildCores ==
  /\ stage \in {"adopted", "failed"}
  /\ stage' = "built"
  /\ \E o \in Options :
       LET profiles == SetToSeq(ParseAll(o.manual \cup cache).profiles) IN
       /\ o.manual \cup cache # {}
       /\ built' = [opts |-> o, profiles |-> profiles,
                 proxy |-> GenerateProxyConfigOpts(profiles, o),
                 forwarder |-> GenerateForwarderConfigSet(profiles, o.ports),
                 tunnel |-> GenerateTunnelConfigSet(profiles, o)]
  /\ panel' = NoPanel /\ got' = NoLinks /\ UNCHANGED cache

ImportNext == AttemptDirect \/ AttemptProxied \/ Adopt \/ BuildCores
ImportSpec == ImportInit /\ [][ImportNext]_ivars

-----------------------------------------------------------------------------

\* What a link carries of a server that a panel describes as an outbound or a proxy.
\* A vmess link has no field for the cipher, for a certificate that is not verified
\* and for REALITY, and room for one host; the Host header of a websocket in an
\* outbound, and what a proxy says of an HTTP transport and of a plugin, are not read.
CarriedTransport(n, clash) ==
  LET t == n.transport
      type == Field(t, "type", "")
  IN  CASE type = "ws" /\ ~clash -> [t EXCEPT !.header = ""]
        [] type = "http" /\ clash -> [t EXCEPT !.path = "", !.host = <<>>]
        [] type = "http" /\ n.type = "vmess" /\ t.host # <<>> -> [t EXCEPT !.host = <<t.host[1]>>]
        [] OTHER -> t

Carried(n, clash) ==
  [x \in DOMAIN n |->
     CASE x = "cipher" -> "auto"
       [] x = "tls" /\ n.type = "vmess" /\ n.tls.enabled ->
            [n.tls EXCEPT !.insecure = FALSE, !.reality = NoReality]
       [] x = "opts" /\ clash -> ""
       [] x = "transport" -> CarriedTransport(n, clash)
       [] OTHER -> n[x]]

\* What becomes of the servers of a panel: a link is kept as it is, a server of a
\* protocol that linkbuild.go has no link for is skipped.
Structured(x) == x.body.shape = "clash" \/ "outbounds" \in DOMAIN x.body
Kept(x) ==
  IF Structured(x) THEN {s \in x.sent : s[2].type \notin {"hysteria", "anytls", "wireguard"}}
                   ELSE x.sent
Imported(x) ==
  IF Structured(x) THEN {<<s[1], Carried(s[2], x.body.shape = "clash")>> : s \in Kept(x)}
                   ELSE x.sent

\* The transports that the protocol modules know; vmess skips any other.
KnownTransports(x) ==
  \A s \in x.sent : Field(Field(s[2], "transport", NoBlock), "type", "")
                      \in {"", "grpc", "ws", "http", "xhttp"}

\* The round trip of linkbuild.go: a server that a panel serves as a link, as a
\* sing-box outbound or as a Clash proxy is rendered, after all conversions, as the
\* panel described it and under its own label, but for exactly what Imported names;
\* none is made up.
ServersSurvive ==
  panel \in Panels /\ Imported(panel) # {} /\ KnownTransports(panel) =>
    /\ stage = "fetched" => got.ok /\ ParseAll(got.links).ok
    /\ stage = "adopted" =>
         {<<p.label, RenderNode(p, NoOpts)>> : p \in ParseAll(cache).profiles} = Imported(panel)

\* singboxOutbounds and clashLinks promise to skip a server they cannot render "rather
\* than failing the whole subscription".  It fails: a vless or trojan server with
\* another transport becomes a link that its module refuses, and with it the list.
StrangersAreSkipped ==
  stage = "fetched" /\ Imported(panel) # {} => got.ok /\ ParseAll(got.links).ok

\* linkbuild.go warns of a round trip that "silently produces a server nobody can
\* connect to".  A server of a protocol it has a link for need not come back as the
\* panel described it.
NothingIsLost ==
  stage = "adopted" =>
    {<<p.label, RenderNode(p, NoOpts)>> : p \in ParseAll(cache).profiles} = Kept(panel)

\* fetchInto: a panel that starts serving garbage, or is down, does not wipe out a
\* working list: what a record holds always parses, and a failed fetch leaves it.
WorkingListKept ==
  /\ cache # {} => ParseAll(cache).ok
  /\ stage = "failed" /\ Working \subseteq cache => cache = Working

Cores == {c \in {built.proxy, built.forwarder, built.tunnel} : c.ok}

\* Every configuration the core is given is closed: tags are unique, and the groups,
\* the routes, the defaults and the DNS servers refer to tags that are there.
ReferencesDefined ==
  stage = "built" =>
    \A c \in Cores :
      LET nodes == c.outbounds \o c.endpoints IN
      /\ Cardinality(Tags(c)) = Len(nodes)
      /\ \A i \in DOMAIN nodes : nodes[i].type \in {"urltest", "selector"} =>
           nodes[i].members \subseteq Tags(c) \ {nodes[i].tag}
      /\ \A r \in ToSet(c.route.rules) : r.outbound \in Tags(c) \cup {""}
      /\ c.route.final \in Tags(c)
      /\ \A s \in ServersOf(c) : s.detour \in Tags(c) \cup {""}
      /\ LET servers == {s.tag : s \in ServersOf(c)} IN
         /\ Cardinality(servers) = Len(c.dns.servers)
         /\ {c.dns.final} \cup {r.server : r \in ToSet(c.dns.rules)} \subseteq servers
         /\ c.route.resolver \in servers \cup {""}

\* The names that have to be resolved before the proxy is up.
BootNames(profiles, urltest) ==
  LET nodes == Rendered(profiles, "") IN
  (HostsOf(nodes) \cup (IF Len(nodes) > 1 THEN {WithDefaultURLTest(urltest).url} ELSE {}))
  \ (IPv4 \cup IPv6 \cup {"bad"})

\* No server can be reached only through itself (the bootstrap loop of
\* GenerateProxyConfigOpts): the names of the servers and of the probe are answered to
\* a client by the bootstrap server, directly, and a dialer never asks for them through
\* the proxy; the TUN never captures traffic to a server given by its address; and in
\* VPN mode all that the proxy dials, whichever module rendered it, is bound to the
\* physical interface.
NoBootstrapLoop ==
  stage = "built" =>
    /\ \A c \in {built.proxy, built.tunnel} : c.ok =>
         \A name \in BootNames(built.profiles, built.opts.urltest) :
           /\ Answers(c, name).tag = "boot-dns" /\ Answers(c, name).detour = ""
           /\ DialerAsks(c, name).detour = ""
    /\ \A c \in {built.forwarder, built.tunnel} : c.ok =>
         \A h \in HostsOf(Rendered(built.profiles, "")) : Literal(h) =>
           RouteOf(c, [host |-> h, process |-> ""]) = "direct"
    /\ \A n \in ToSet(built.proxy.outbounds) \cup ToSet(built.proxy.endpoints) :
         n.type \notin {"urltest", "selector", "block"} => n.bind = built.opts.iface

\* GenerateProxyConfigOpts says that these names "must be resolved by the bootstrap
\* resolver, NOT by the system/corporate resolver".  The dialers of the servers, which
\* ask for them first, have the system resolver as their default.
DialersAskBootstrap ==
  stage = "built" =>
    \A c \in {built.proxy, built.tunnel} : c.ok =>
      \A name \in BootNames(built.profiles, built.opts.urltest) :
        DialerAsks(c, name).tag = "boot-dns"

-----------------------------------------------------------------------------

\* A connection that a firewall rule names, by a process if the rule does not say.
ConnOf(r, process) ==
  [host    |-> IF r.process # "" THEN "site.ru" ELSE IF r.domain # "" THEN r.domain ELSE r.cidr,
   process |-> IF r.process # "" THEN r.process ELSE process]

NamedBy(r, conn) == conn.host \in {r.domain, r.cidr} \/ conn.process = r.process

\* The first rule that names the connection is the i-th.
Decides(rules, i, conn) == Validate(rules[i]) /\ \A j \in 1 .. i - 1 : ~NamedBy(rules[j], conn)
Decision(r) == IF r.action = "block" THEN "block" ELSE "direct"

\* A connection that the TUN captures in VPN mode: what the forwarder relays comes to
\* the proxy from singctl itself.
TunRouteOf(conn) ==
  IF RouteOf(built.forwarder, conn) = "socks-out"
    THEN RouteOf(built.proxy, [conn EXCEPT !.process = "singctl"])
    ELSE RouteOf(built.forwarder, conn)

\* A firewall decision wins over the default routing: of what reaches the ports of the
\* proxy, whatever a well-formed rule names, a Russian domain or a private address too,
\* goes where the first rule for it says.  So does, in VPN mode, what the TUN captures,
\* if the rule is for a host that is neither private nor the address of a server.
FirewallWins ==
  stage = "built" =>
    \A i \in DOMAIN built.opts.firewall :
      LET rules == built.opts.firewall
          guarded == HostsOf(Rendered(built.profiles, "")) \cap (IPv4 \cup IPv6)
      IN  /\ Decides(rules, i, ConnOf(rules[i], "other")) =>
               RouteOf(built.proxy, ConnOf(rules[i], "other")) = Decision(rules[i])
          /\ /\ rules[i].process = "" /\ ConnOf(rules[i], "singctl").host \notin Private10 \cup guarded
             /\ Decides(rules, i, ConnOf(rules[i], "singctl"))
             => TunRouteOf(ConnOf(rules[i], "other")) = Decision(rules[i])

\* "A block must win even for a .ru domain or a LAN address": not for what the TUN
\* captures, of which the forwarder takes the LAN addresses before any rule is asked,
\* and hides the process.
FirewallWinsInVPN ==
  stage = "built" =>
    \A i \in DOMAIN built.opts.firewall :
      LET rules == built.opts.firewall
          conn  == ConnOf(rules[i], "other")
      IN  Decides(rules, i, conn) => TunRouteOf(conn) = Decision(rules[i])

-----------------------------------------------------------------------------

\* A server with the same settings reads back the session, the number, the payload
\* and a padding, wherever the settings place them.
UploadReadsBack ==
  stage = "upload" /\ "payload" \in DOMAIN panel => ReadsBack(panel.settings, panel.payload)

\* The server refuses a padding that is off by more than the tolerance.  Of a guess
\* that MaxRounds characters can make up for, the tokenish method makes one that is
\* accepted; of one that is shorter it gives up having added MaxRounds bytes.
PaddingIsAccepted ==
  stage = "upload" /\ "bits" \in DOMAIN panel =>
    LET guess == HuffmanLength(panel.bits)
        made  == TokenishPadding(panel.bits, panel.target)
    IN  /\ guess - panel.target \in -(MaxRounds + 2) .. (5 * MaxRounds) \div 8 + 2 =>
             Tolerated(made, panel.target)
        /\ guess + MaxRounds < panel.target - 2 => HuffmanLength(made) = guess + MaxRounds

\* tokenishPadding "produces random base62 text whose HUFFMAN-ENCODED length is within
\* tokenishTolerance of target": not of every guess.
PaddingAlwaysFits ==
  stage = "upload" /\ "bits" \in DOMAIN panel =>
    Tolerated(TokenishPadding(panel.bits, panel.target), panel.target)
=============================================================================
