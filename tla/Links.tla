-------------------------------- MODULE Links --------------------------------
(***************************************************************************)
(* The protocol modules of internal/protocol: Parse, from a share link to  *)
(* the parameters of a server, and RenderNode, from those to the node of a *)
(* sing-box configuration, under the tag and bound to the interface it is  *)
(* given.                                                                  *)
(*                                                                         *)
(* A link is what url.Parse makes of it: scheme, userinfo, host, port,     *)
(* query and label; a comma-separated value is the sequence of its         *)
(* elements.  A vmess link carries the fields of its JSON payload as the   *)
(* query.  The wording of the errors is left out: a bad link is Bad.       *)
(***************************************************************************)
EXTENDS Integers, Sequences, FiniteSets, TLC

Bad == [ok |-> FALSE]
Profile(protocol, label, params) ==
  [ok |-> TRUE, protocol |-> protocol, label |-> label, params |-> params]

Get(q, key)  == IF key \in DOMAIN q THEN q[key] ELSE ""
List(q, key) == IF key \in DOMAIN q THEN q[key] ELSE <<>>

\* The spellings that TrimSpace, ToLower and EqualFold make equal.
Spelling == ("TLS" :> "tls") @@ ("Reality" :> "reality") @@ ("WS" :> "ws")
            @@ ("BBR" :> "bbr") @@ ("True" :> "true") @@ ("None" :> "none")
Norm(v) == IF v \in DOMAIN Spelling THEN Spelling[v] ELSE v

FirstNonEmpty(a, b) == IF a # "" THEN a ELSE b
SplitCSV(list) == SelectSeq(list, LAMBDA v : v # "")
Truth(v) == Norm(v) \in {"1", "true"}

\* A port is sixteen bits and not zero.
Reachable(u) == u.host # "" /\ u.port \in 1 .. 65535

UUIDs == {"uuid-1", "uuid-2"}

\* A userinfo without a colon has no password.
User(u)     == u.user
Password(u) == u.pass

-----------------------------------------------------------------------------
(* The blocks that vless, trojan and vmess share. *)

TLSOf(q) == [sni |-> Get(q, "sni"), fp |-> Get(q, "fp"), alpn |-> SplitCSV(List(q, "alpn")),
             insecure |-> Truth(Get(q, "allowInsecure"))]

TransportOf(q, type) ==
  [type |-> type, path |-> Get(q, "path"), host |-> SplitCSV(List(q, "host")),
   service |-> FirstNonEmpty(Get(q, "serviceName"), Get(q, "servicename")),
   mode |-> "", extra |-> ""]

NoReality == [enabled |-> FALSE]
RealityOf(q) == [enabled |-> TRUE, pbk |-> Get(q, "pbk"), sid |-> Get(q, "sid"),
                 version |-> Get(q, "realityClientVersion")]

NoBlock == [enabled |-> FALSE]

\* RenderOpts: the tag and the interface, which each module puts on its node itself.
RenderOpts(tag, iface) == [tag |-> tag, bind |-> iface]
NoOpts == RenderOpts("", "")

\* tlsCfg and buildTransport.
TLSNode(secured, tls, reality) ==
  IF secured THEN [enabled |-> TRUE, sni |-> tls.sni, insecure |-> tls.insecure,
                   alpn |-> tls.alpn, fp |-> tls.fp, reality |-> reality]
             ELSE NoBlock

\* The websocket has one host, in a header; HTTP has a list of them.
TransportNode(t) ==
  CASE t.type = "grpc" -> [type |-> "grpc", service |-> t.service]
    [] t.type = "ws"   -> [type |-> "ws", path |-> t.path,
                           header |-> IF t.host = <<>> THEN "" ELSE t.host[1]]
    [] t.type = "http" -> [type |-> "http", path |-> t.path, host |-> t.host]
    [] OTHER -> NoBlock

-----------------------------------------------------------------------------
(* vless. *)

ParseVLESS(u) ==
  LET q         == u.query
      security  == FirstNonEmpty(Norm(Get(q, "security")), "none")
      named     == FirstNonEmpty(Norm(Get(q, "type")), "tcp")
      transport == IF named = "splithttp" THEN "xhttp" ELSE named
      version   == Get(q, "realityClientVersion")
      xhttp     == transport = "xhttp"
  IN  IF /\ User(u) \in UUIDs /\ Reachable(u)
         /\ version # "" => security = "reality" /\ version # "bad"
         /\ security \in {"none", "tls", "reality"}
         /\ transport \in {"tcp", "grpc", "ws", "http", "xhttp"}
         /\ Norm(Get(q, "encryption")) \in {"", "none"}
         /\ security = "reality" => Get(q, "pbk") # ""
         /\ xhttp => /\ Get(q, "mode") \in {"", "auto", "packet-up", "stream-up", "stream-one"}
                     /\ Get(q, "extra") # "bad"
      THEN Profile("vless", u.label,
             [host |-> u.host, port |-> u.port, uuid |-> User(u), flow |-> Get(q, "flow"),
              security |-> security, tls |-> TLSOf(q),
              reality |-> IF security = "reality" THEN RealityOf(q) ELSE NoReality,
              transport |-> IF xhttp
                              THEN [TransportOf(q, transport) EXCEPT !.mode = Get(q, "mode"),
                                                                     !.extra = Get(q, "extra")]
                              ELSE TransportOf(q, transport)])
      ELSE Bad

\* The flow is for raw TCP only, so the outbound of our own has none.
NodeVLESS(p, o) ==
  LET tls == TLSNode(p.security \in {"tls", "reality"}, p.tls, p.reality) IN
  IF p.transport.type = "xhttp"
    THEN [type |-> "vless-xhttp", tag |-> o.tag, bind |-> o.bind, server |-> p.host,
          port |-> p.port, uuid |-> p.uuid, tls |-> tls,
          xhttp |-> [path |-> p.transport.path, mode |-> p.transport.mode,
                     extra |-> p.transport.extra,
                     host |-> IF p.transport.host = <<>> THEN "" ELSE p.transport.host[1]]]
    ELSE [type |-> "vless", tag |-> o.tag, bind |-> o.bind, server |-> p.host,
          port |-> p.port, uuid |-> p.uuid, flow |-> p.flow, tls |-> tls, transport |-> TransportNode(p.transport)]

-----------------------------------------------------------------------------
(* trojan: TLS by default, and never without. *)

ParseTrojan(u) ==
  LET q         == u.query
      security  == FirstNonEmpty(Norm(Get(q, "security")), "tls")
      transport == FirstNonEmpty(Norm(Get(q, "type")), "tcp")
  IN  IF /\ User(u) # "" /\ Reachable(u)
         /\ security \in {"tls", "reality"}
         /\ transport \in {"tcp", "grpc", "ws", "http"}
         /\ security = "reality" => Get(q, "pbk") # ""
      THEN Profile("trojan", u.label,
             [host |-> u.host, port |-> u.port, password |-> User(u), tls |-> TLSOf(q),
              reality |-> IF security = "reality"
                            THEN [RealityOf(q) EXCEPT !.version = ""] ELSE NoReality,
              transport |-> TransportOf(q, transport)])
      ELSE Bad

NodeTrojan(p, o) ==
  [type |-> "trojan", tag |-> o.tag, bind |-> o.bind, server |-> p.host, port |-> p.port,
   password |-> p.password,
   tls |-> TLSNode(TRUE, p.tls, p.reality), transport |-> TransportNode(p.transport)]

-----------------------------------------------------------------------------
(* vmess: the fields of a JSON payload. *)

ParseVMess(u) ==
  LET j         == u.query
      net       == FirstNonEmpty(Norm(Get(j, "net")), "tcp")
      transport == IF net = "h2" THEN "http" ELSE net
      path      == Get(j, "path")
  IN  IF /\ u.host # "" /\ User(u) \in UUIDs /\ u.port \in 1 .. 65535
         /\ Get(j, "aid") # "bad"
         /\ net \in {"tcp", "grpc", "ws", "h2"}
      THEN Profile("vmess", u.label,
             [host |-> u.host, port |-> u.port, uuid |-> User(u), aid |-> Get(j, "aid"),
              cipher |-> FirstNonEmpty(Get(j, "scy"), "auto"),
              secured |-> Norm(Get(j, "tls")) = "tls",
              tls |-> [TLSOf(j) EXCEPT !.insecure = FALSE],
              transport |-> [TransportOf(j, transport) EXCEPT
                               !.service = IF transport = "grpc" THEN path ELSE "",
                               !.path = IF transport = "grpc" THEN "" ELSE path]])
      ELSE Bad

NodeVMess(p, o) ==
  [type |-> "vmess", tag |-> o.tag, bind |-> o.bind, server |-> p.host, port |-> p.port,
   uuid |-> p.uuid, cipher |-> p.cipher,
   aid |-> p.aid, tls |-> TLSNode(p.secured, p.tls, NoReality),
   transport |-> TransportNode(p.transport)]

-----------------------------------------------------------------------------
(* shadowsocks: method and password are the userinfo, in one of its forms. *)

\* An encoded or escaped userinfo is cut at its colon if that is the only one; the
\* legacy form, and a colon that is not escaped, cut at the first.
Colons(password) == IF password = "key:key" THEN 2 ELSE 1

ParseSS(u) ==
  LET split    == u.form \in {"plain", "legacy"} \/ Colons(u.pass) = 1
      method   == IF split THEN User(u) ELSE ""
      password == IF split THEN Password(u) ELSE ""
  IN  IF method # "" /\ password # "" /\ Reachable(u)
      THEN Profile("shadowsocks", u.label,
             [host |-> u.host, port |-> u.port, method |-> method, password |-> password,
              plugin |-> Get(u.query, "plugin"), opts |-> Get(u.query, "plugin-opts")])
      ELSE Bad

NodeSS(p, o) ==
  [type |-> "shadowsocks", tag |-> o.tag, bind |-> o.bind, server |-> p.host, port |-> p.port,
   method |-> p.method,
   password |-> p.password, plugin |-> p.plugin, opts |-> p.opts]

-----------------------------------------------------------------------------
(* The QUIC protocols and anytls: TLS always, no transport. *)

QuicTLS(sni, alpn, insecure) ==
  [enabled |-> TRUE, sni |-> sni, alpn |-> SplitCSV(alpn), insecure |-> insecure,
   fp |-> "", reality |-> NoReality]

\* A bandwidth is a number with any suffix; absent, it is left unset.
Mbps(v) == IF v = "" THEN "0" ELSE v

ParseHysteria(u) ==
  LET q    == u.query
      up   == Mbps(FirstNonEmpty(Get(q, "upmbps"), Get(q, "up")))
      down == Mbps(FirstNonEmpty(Get(q, "downmbps"), Get(q, "down")))
  IN  IF Reachable(u) /\ Get(q, "auth") # "" /\ {up, down} \cap {"0", "bad"} = {}
      THEN Profile("hysteria", u.label,
             [host |-> u.host, port |-> u.port, auth |-> Get(q, "auth"), up |-> up, down |-> down,
              obfs |-> Get(q, "obfs"),
              tls |-> QuicTLS(FirstNonEmpty(Get(q, "peer"), Get(q, "sni")), List(q, "alpn"),
                              Truth(Get(q, "insecure")))])
      ELSE Bad

NodeHysteria(p, o) ==
  [type |-> "hysteria", tag |-> o.tag, bind |-> o.bind, server |-> p.host, port |-> p.port,
   up |-> p.up, down |-> p.down,
   obfs |-> p.obfs, auth |-> p.auth, tls |-> p.tls]

\* A userinfo with a colon is one password.
ParseHysteria2(u) ==
  LET q    == u.query
      obfs == Norm(Get(q, "obfs"))
      up   == Mbps(FirstNonEmpty(Get(q, "up"), Get(q, "upmbps")))
      down == Mbps(FirstNonEmpty(Get(q, "down"), Get(q, "downmbps")))
  IN  IF User(u) # "" /\ Reachable(u) /\ obfs \in {"", "salamander"} /\ "bad" \notin {up, down}
      THEN Profile("hysteria2", u.label,
             [host |-> u.host, port |-> u.port,
              password |-> IF Password(u) = "" THEN User(u) ELSE User(u) \o ":" \o Password(u),
              up |-> up, down |-> down, obfs |-> obfs, obfsPassword |-> Get(q, "obfs-password"),
              tls |-> QuicTLS(FirstNonEmpty(Get(q, "sni"), Get(q, "peer")), List(q, "alpn"),
                              Truth(Get(q, "insecure")) \/ Truth(Get(q, "allowInsecure")))])
      ELSE Bad

NodeHysteria2(p, o) ==
  [type |-> "hysteria2", tag |-> o.tag, bind |-> o.bind, server |-> p.host, port |-> p.port,
   password |-> p.password,
   up |-> p.up, down |-> p.down, tls |-> p.tls,
   obfs |-> IF p.obfs = "" THEN NoBlock ELSE [type |-> p.obfs, password |-> p.obfsPassword]]

ParseTUIC(u) ==
  LET q          == u.query
      congestion == Norm(FirstNonEmpty(Get(q, "congestion_control"), Get(q, "congestion")))
      relay      == Get(q, "udp_relay_mode")
      insecure   == FirstNonEmpty(Get(q, "allow_insecure"),
                      FirstNonEmpty(Get(q, "insecure"), Get(q, "allowInsecure")))
  IN  IF /\ User(u) \in UUIDs /\ Password(u) # "" /\ Reachable(u)
         /\ congestion \in {"", "cubic", "new_reno", "bbr"} /\ relay \in {"", "native", "quic"}
      THEN Profile("tuic", u.label,
             [host |-> u.host, port |-> u.port, uuid |-> User(u), password |-> Password(u),
              congestion |-> congestion, relay |-> relay,
              zeroRTT |-> Truth(FirstNonEmpty(Get(q, "zero_rtt_handshake"), Get(q, "reduce_rtt"))),
              tls |-> QuicTLS(Get(q, "sni"), List(q, "alpn"), Truth(insecure))])
      ELSE Bad

NodeTUIC(p, o) ==
  [type |-> "tuic", tag |-> o.tag, bind |-> o.bind, server |-> p.host, port |-> p.port,
   uuid |-> p.uuid,
   password |-> p.password, congestion |-> p.congestion, relay |-> p.relay,
   zeroRTT |-> p.zeroRTT, tls |-> p.tls]

ParseAnyTLS(u) ==
  LET q == u.query IN
  IF User(u) # "" /\ Reachable(u)
  THEN Profile("anytls", u.label,
         [host |-> u.host, port |-> u.port, password |-> User(u),
          tls |-> [TLSOf(q) EXCEPT !.insecure = Truth(Get(q, "insecure"))
                                                \/ Truth(Get(q, "allowInsecure"))]])
  ELSE Bad

NodeAnyTLS(p, o) ==
  [type |-> "anytls", tag |-> o.tag, bind |-> o.bind, server |-> p.host, port |-> p.port,
   password |-> p.password,
   tls |-> TLSNode(TRUE, p.tls, NoReality)]

-----------------------------------------------------------------------------
(* wireguard: an INI file, a sequence of lines. *)

\* What parseINI has at a line: the section, the parameters, and whether the file is
\* still good.
NoINI == [ok |-> TRUE, section |-> "", interfaces |-> 0, key |-> "", address |-> <<>>,
          peers |-> <<>>]

NewPeer == [public |-> "", endpoint |-> "", allowed |-> <<>>]

SetInterfaceField(f, line) ==
  CASE line.name = "privatekey" -> [f EXCEPT !.key = line.value]
    [] line.name = "address" -> [f EXCEPT !.address = <<line.value>>]
    [] line.name = "mtu" -> [f EXCEPT !.ok = @ /\ line.value # "bad"]
    [] OTHER -> f

SetPeerField(f, line) ==
  LET last == Len(f.peers) IN
  CASE line.name = "publickey" -> [f EXCEPT !.peers[last].public = line.value]
    [] line.name = "endpoint" -> [f EXCEPT !.peers[last].endpoint = line.value,
                                           !.ok = @ /\ line.value # "bad"]
    [] line.name = "allowedips" -> [f EXCEPT !.peers[last].allowed = <<line.value>>]
    [] OTHER -> f

\* The keys of an unknown section go nowhere.
Section(f, name) ==
  CASE name = "interface" ->
         [f EXCEPT !.section = name, !.interfaces = @ + 1, !.ok = @ /\ f.interfaces = 0]
    [] name = "peer" -> [f EXCEPT !.section = name, !.peers = Append(@, NewPeer)]
    [] OTHER -> [f EXCEPT !.section = ""]

\* Comments and lines that are not of the form key = value are skipped.
INILine(f, line) ==
  CASE line.kind = "section" -> Section(f, line.name)
    [] line.kind = "key" /\ f.section = "interface" -> SetInterfaceField(f, line)
    [] line.kind = "key" /\ f.section = "peer" -> SetPeerField(f, line)
    [] OTHER -> f

Sniff(lines) == \E i \in DOMAIN lines : lines[i].kind = "section" /\ lines[i].name = "interface"

\* The label is the host of the first peer.
ParseWireGuard(lines) ==
  LET at[n \in 0 .. Len(lines)] == IF n = 0 THEN NoINI ELSE INILine(at[n - 1], lines[n])
      f == at[Len(lines)]
  IN  IF /\ f.ok /\ f.interfaces > 0 /\ f.key # "" /\ f.address # <<>> /\ f.peers # <<>>
         /\ \A i \in DOMAIN f.peers : f.peers[i].public # ""
      THEN Profile("wireguard", <<f.peers[1].endpoint>>,
                   [key |-> f.key, address |-> f.address, peers |-> f.peers])
      ELSE Bad

\* A peer without AllowedIPs is a full tunnel.
NodeWireGuard(p, o) ==
  [type |-> "wireguard", tag |-> o.tag, bind |-> o.bind, key |-> p.key, address |-> p.address,
   peers |-> [i \in DOMAIN p.peers |->
     [p.peers[i] EXCEPT !.allowed = IF @ = <<>> THEN <<"0.0.0.0/0", "::/0">> ELSE @]]]

-----------------------------------------------------------------------------
(* The registry. *)

\* The schemes each module claims; NewRegistry refuses one claimed twice.
Claims ==
  ("vless" :> {"vless"}) @@ ("vmess" :> {"vmess"}) @@ ("trojan" :> {"trojan"})
  @@ ("shadowsocks" :> {"ss"}) @@ ("hysteria" :> {"hysteria", "hy"})
  @@ ("hysteria2" :> {"hysteria2", "hy2"}) @@ ("tuic" :> {"tuic"}) @@ ("anytls" :> {"anytls"})

NewRegistry(claims) ==
  IF \E m, n \in DOMAIN claims : m # n /\ claims[m] \cap claims[n] # {} THEN <<>>
  ELSE [s \in UNION {claims[m] : m \in DOMAIN claims} |-> CHOOSE m \in DOMAIN claims : s \in claims[m]]

\* Registry.Parse: by the scheme, or, where there is none, by asking the one module
\* that reads files; RenderNode is that of the module that parsed it.
Parse(u) ==
  LET registry == NewRegistry(Claims)
      module == IF u.scheme \in DOMAIN registry THEN registry[u.scheme] ELSE ""
  IN  CASE module = "vless" -> ParseVLESS(u)
        [] module = "vmess" -> ParseVMess(u)
        [] module = "trojan" -> ParseTrojan(u)
        [] module = "shadowsocks" -> ParseSS(u)
        [] module = "hysteria" -> ParseHysteria(u)
        [] module = "hysteria2" -> ParseHysteria2(u)
        [] module = "tuic" -> ParseTUIC(u)
        [] module = "anytls" -> ParseAnyTLS(u)
        [] u.scheme = "" /\ Sniff(u.lines) -> ParseWireGuard(u.lines)
        [] OTHER -> Bad

RenderNode(profile, o) ==
  LET p == profile.params IN
  CASE profile.protocol = "vless" -> NodeVLESS(p, o)
    [] profile.protocol = "vmess" -> NodeVMess(p, o)
    [] profile.protocol = "trojan" -> NodeTrojan(p, o)
    [] profile.protocol = "shadowsocks" -> NodeSS(p, o)
    [] profile.protocol = "hysteria" -> NodeHysteria(p, o)
    [] profile.protocol = "hysteria2" -> NodeHysteria2(p, o)
    [] profile.protocol = "tuic" -> NodeTUIC(p, o)
    [] profile.protocol = "anytls" -> NodeAnyTLS(p, o)
    [] OTHER -> NodeWireGuard(p, o)

\* SetLabel renames a link and keeps everything else; a configuration has no name.
SetLabel(u, label) == [u EXCEPT !.label = label]

-----------------------------------------------------------------------------
(* Splitting a pasted blob.  A text is a sequence of tokens: the start of a link *)
(* (its number), a word of a label, or a separator.                              *)

Starts(text) == {i \in DOMAIN text : text[i].kind = "start"}

TrimRight(text) ==
  LET last == {i \in 0 .. Len(text) : i = 0 \/ text[i].kind # "sep"}
  IN  SubSeq(text, 1, CHOOSE i \in last : \A j \in last : j <= i)

\* A link ends where the next one starts, less the separators that trail it.  (The
\* tokens are distinct, so a set of links loses nothing but their order.)
SplitLinks(text) ==
  LET starts == Starts(text)
      End(i) == IF \E j \in starts : j > i
                  THEN (CHOOSE j \in starts : j > i /\ \A k \in starts : k > i => j <= k) - 1
                  ELSE Len(text)
  IN  {TrimRight(SubSeq(text, i, End(i))) : i \in starts}
=============================================================================
