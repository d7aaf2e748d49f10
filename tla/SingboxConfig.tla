---------------------------- MODULE SingboxConfig ----------------------------
(***************************************************************************)
(* internal/singbox: the three configurations singctl generates, the proxy *)
(* of both modes, the forwarder that owns the TUN in VPN mode, and the     *)
(* single instance of the App Store build.                                 *)
(*                                                                         *)
(* A configuration is what the generators decide: the nodes with their     *)
(* tags, the groups over them, the DNS servers and rules, the route rules  *)
(* and the defaults.  Constant fields (timeouts, log, cache) are left out. *)
(***************************************************************************)
EXTENDS Links, SequencesExt, Functions

CONSTANTS
  IPv4,       \* the hosts that net.ParseIP takes for addresses, of each family
  IPv6,
  Private10,  \* the addresses of private networks
  RuDomains   \* the hosts that the pattern of Russian domains matches

\* There are finitely many addresses, and an empty host is none.
ASSUME HostsOK == IsFiniteSet(IPv4 \cup IPv6) /\ "" \notin IPv4 \cup IPv6

Literal(h) == h \in IPv4 \cup IPv6

NoConfig == [ok |-> FALSE]
OrDefault(v, unset, default) == IF v = unset THEN default ELSE v

\* Ports and URLTestParams, withDefaults.
WithDefaultPorts(p) == [socks |-> OrDefault(p.socks, 0, 1080), http |-> OrDefault(p.http, 0, 2080)]
WithDefaultURLTest(u) ==
  [url       |-> OrDefault(u.url, "", "gstatic.example"),
   interval  |-> OrDefault(u.interval, "", "3m"),
   tolerance |-> OrDefault(u.tolerance, 0, 50)]

\* The elements of s at the places of at, in their order.
Chosen(s, at) ==
  [i \in 1 .. Cardinality(at) |-> s[CHOOSE k \in at : Cardinality({j \in at : j <= k}) = i]]

-----------------------------------------------------------------------------
(* Firewall rules. *)

Fields(r) == {f \in {"domain", "cidr", "process"} : r[f] # ""}

Validate(r) ==
  /\ r.action \in {"block", "allow"}
  /\ Cardinality(Fields(r)) = 1
  /\ r.cidr # "bad"

Rule(match, value, outbound) == [match |-> match, value |-> value, outbound |-> outbound]

\* One route rule per rule that sets a field, in their order, matched by the first one
\* it sets.
FirewallRouteRules(rules) ==
  LET Field1(r) == IF r.domain # "" THEN "domain" ELSE IF r.cidr # "" THEN "cidr" ELSE "process"
      formed    == Chosen(rules, {k \in DOMAIN rules : Fields(rules[k]) # {}})
  IN  [i \in DOMAIN formed |->
        Rule(Field1(formed[i]), {formed[i][Field1(formed[i])]},
             IF formed[i].action = "block" THEN "block" ELSE "direct")]

\* Mutant: it is never emitted.
FirewallOutboundsNever(routeRules) == <<>>

\* The block outbound is there when a rule points at it.
FirewallOutbounds(routeRules) ==
  IF \E i \in DOMAIN routeRules : routeRules[i].outbound = "block"
    THEN <<[type |-> "block", tag |-> "block"]>> ELSE <<>>

-----------------------------------------------------------------------------
(* Nodes. *)

\* nodeHosts: the hosts a node dials.
NodeHosts(node) ==
  (IF node.type = "wireguard" THEN {node.peers[i].endpoint : i \in DOMAIN node.peers}
                              ELSE {node.server}) \ {""}

HostsOf(nodes) == UNION {NodeHosts(nodes[i]) : i \in DOMAIN nodes}

IsEndpoint(node) == node.type = "wireguard"

ProxyServerTag(i) == "proxy-" \o ToString(i - 1)

\* A single server is "proxy" itself.
ServerTags(n) == IF n = 1 THEN <<"proxy">> ELSE [i \in 1 .. n |-> ProxyServerTag(i)]

\* What numerals are relied on for: the servers of S are told apart, and from the
\* outbounds that have a name of their own.
TagsDiffer(S) ==
  \A i \in S : /\ ProxyServerTag(i) \notin {"auto", "proxy", "direct", "block"}
               /\ \A j \in S : ProxyServerTag(i) = ProxyServerTag(j) => i = j

Rendered(profiles, iface) ==
  LET tags == ServerTags(Len(profiles)) IN
  [i \in DOMAIN profiles |-> RenderNode(profiles[i], RenderOpts(tags[i], iface))]

Groups(tags, urltest) ==
  IF Len(tags) = 1 THEN <<>>
  ELSE <<[type |-> "urltest", tag |-> "auto", members |-> ToSet(tags), test |-> urltest],
         [type |-> "selector", tag |-> "proxy", members |-> {"auto"} \cup ToSet(tags),
          default |-> "auto"]>>

ProbeHost(url) == IF url = "bad" \/ Literal(url) THEN "" ELSE url

\* Mutant: the probe is forgotten.
BootHostsServersOnly(nodes, urltest) ==
  HostsOf(nodes) \ (IPv4 \cup IPv6 \cup {""})

\* The names that have to be resolved before the proxy is up: those of the servers
\* and, with a group, the one of its probe.
BootHosts(nodes, urltest) ==
  (HostsOf(nodes) \cup (IF Len(nodes) > 1 THEN {ProbeHost(urltest.url)} ELSE {}))
  \ (IPv4 \cup IPv6 \cup {""})

\* The bootstrap server has no detour: it dials directly.
DNSServer(tag, type, detour) == [tag |-> tag, type |-> type, detour |-> detour]
DNSServers(boot) ==
  <<DNSServer("proxy-dns", "https", "proxy"), DNSServer("local", "local", "")>>
  \o (IF boot = {} THEN <<>> ELSE <<DNSServer("boot-dns", "https", "")>>)
DNSRules(boot) == IF boot = {} THEN <<>> ELSE <<[domain |-> boot, server |-> "boot-dns"]>>

-----------------------------------------------------------------------------
(* The generators. *)

Config(inbounds, nodes, outbounds, dns, route) ==
  LET endpoints == {i \in DOMAIN nodes : IsEndpoint(nodes[i])} IN
  [ok |-> TRUE, inbounds |-> inbounds,
   outbounds |-> Chosen(nodes, DOMAIN nodes \ endpoints) \o outbounds,
   endpoints |-> Chosen(nodes, endpoints), dns |-> dns, route |-> route]

Direct(iface) == [type |-> "direct", tag |-> "direct", bind |-> iface]
Private == Rule("private", {}, "direct")
Sniff3s == Rule("sniff", {}, "")
Hijack  == Rule("dns", {"tun-in"}, "")

\* Mutant: the defaults before the decisions of the user.
ProxyRulesLast(firewall) == <<Sniff3s, Private, Rule("ru", {}, "direct")>> \o firewall

\* The decisions of the user come before the defaults.
ProxyRules(firewall) == <<Sniff3s>> \o firewall \o <<Private, Rule("ru", {}, "direct")>>

GenerateProxyConfigOpts(profiles, o) ==
  LET nodes    == Rendered(profiles, o.iface)
      urltest  == WithDefaultURLTest(o.urltest)
      ports    == WithDefaultPorts(o.ports)
      boot     == BootHosts(nodes, urltest)
      firewall == FirewallRouteRules(o.firewall)
  IN  IF profiles = <<>> THEN NoConfig
      ELSE Config(
        {[tag |-> "socks-in", port |-> ports.socks], [tag |-> "http-in", port |-> ports.http]},
        nodes,
        Groups(ServerTags(Len(profiles)), urltest) \o <<Direct(o.iface)>>
          \o FirewallOutbounds(firewall),
        [servers |-> DNSServers(boot), rules |-> DNSRules(boot), final |-> "proxy-dns"],
        [rules |-> ProxyRules(firewall),
         final |-> "proxy", resolver |-> "local", iface |-> o.iface, detect |-> FALSE])

\* A direct rule for every server addressed by a literal.  They all say the same, so
\* which comes first, and whether one is repeated, makes no difference.
LoopGuard(h) == Rule("cidr", {h}, "direct")
LoopGuards(nodes) == SetToSeq({LoopGuard(h) : h \in HostsOf(nodes) \cap (IPv4 \cup IPv6)})

\* The forwarder renders the servers for their hosts only: all goes to the proxy.
GenerateForwarderConfigSet(profiles, ports) ==
  IF profiles = <<>> THEN NoConfig
  ELSE Config(
    {[tag |-> "tun-in", port |-> 0]}, <<>>,
    <<[type |-> "socks", tag |-> "socks-out", port |-> WithDefaultPorts(ports).socks], Direct("")>>,
    [servers |-> <<DNSServer("fwd-dns", "https", "socks-out")>>, rules |-> <<>>, final |-> "fwd-dns"],
    [rules |-> <<Sniff3s, Hijack, Private>> \o LoopGuards(Rendered(profiles, "")),
     final |-> "socks-out", resolver |-> "", iface |-> "", detect |-> TRUE])

\* One instance with the TUN and the servers, nothing bound; it cannot load our own
\* outbound.
GenerateTunnelConfigSet(profiles, o) ==
  LET nodes   == Rendered(profiles, "")
      urltest == WithDefaultURLTest(o.urltest)
      boot    == BootHosts(nodes, urltest)
  IN  IF profiles = <<>> \/ \E i \in DOMAIN nodes : nodes[i].type = "vless-xhttp" THEN NoConfig
      ELSE Config(
        {[tag |-> "tun-in", port |-> 0]}, nodes,
        Groups(ServerTags(Len(profiles)), urltest) \o <<Direct("")>>,
        [servers |-> DNSServers(boot), rules |-> DNSRules(boot), final |-> "proxy-dns"],
        [rules |-> <<Sniff3s, Hijack, Private>> \o LoopGuards(nodes),
         final |-> "proxy", resolver |-> "local", iface |-> "", detect |-> TRUE])

-----------------------------------------------------------------------------
(* The engine, as the generators use it. *)

Tags(c) == {n.tag : n \in ToSet(c.outbounds) \cup ToSet(c.endpoints)}
ServersOf(c) == ToSet(c.dns.servers)
ServerNamed(c, tag) == CHOOSE s \in ServersOf(c) : s.tag = tag

\* A query of a client is answered by the first DNS rule for its name.
Answers(c, name) ==
  LET hits == {i \in DOMAIN c.dns.rules : name \in c.dns.rules[i].domain} IN
  ServerNamed(c, IF hits = {} THEN c.dns.final
                 ELSE c.dns.rules[CHOOSE i \in hits : \A j \in hits : i <= j].server)

\* A dialer asks the default resolver, past the rules, when there is one.
DialerAsks(c, name) ==
  IF c.route.resolver # "" THEN ServerNamed(c, c.route.resolver) ELSE Answers(c, name)

\* What takes a connection: the first route rule that matches it, or the default.
Matches(r, conn) ==
  CASE r.match = "private" -> conn.host \in Private10
    [] r.match = "ru" -> conn.host \in RuDomains
    [] r.match \in {"domain", "cidr"} -> conn.host \in r.value
    [] r.match = "process" -> conn.process \in r.value
    [] OTHER -> FALSE
RouteOf(c, conn) ==
  LET hits == {i \in DOMAIN c.route.rules : Matches(c.route.rules[i], conn)}
  IN  IF hits = {} THEN c.route.final
      ELSE c.route.rules[CHOOSE i \in hits : \A j \in hits : i <= j].outbound
=============================================================================
