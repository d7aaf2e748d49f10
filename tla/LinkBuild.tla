----------------------------- MODULE LinkBuild -----------------------------
(***************************************************************************)
(* internal/sub: from the body of a subscription to share links.  Panels   *)
(* serve links, sing-box configurations (singbox_adapter.go) or Clash ones *)
(* (clash_adapter.go); linkbuild.go writes the links of the last two,      *)
(* which the protocol modules then parse again.                            *)
(***************************************************************************)
EXTENDS Links

Field(r, name, default) == IF name \in DOMAIN r THEN r[name] ELSE default

Link(scheme, user, pass, n, query) ==
  [scheme |-> scheme, user |-> user, pass |-> pass, host |-> n.server, port |-> n.port,
   query |-> query, label |-> n.tag, form |-> "sip002"]

NoLink == [scheme |-> ""]

-----------------------------------------------------------------------------
(* The neutral blocks, out of a sing-box outbound. *)

ToLinkTLS(n) ==
  LET t == Field(n, "tls", NoBlock)
      r == Field(t, "reality", NoReality)
  IN  [enabled |-> t.enabled, sni |-> Field(t, "sni", ""), insecure |-> Field(t, "insecure", FALSE),
       alpn |-> Field(t, "alpn", <<>>), fp |-> Field(t, "fp", ""),
       pub |-> IF r.enabled THEN r.pbk ELSE "", sid |-> IF r.enabled THEN r.sid ELSE ""]

\* The Host header of a websocket is not looked at.
ToLinkTransport(n) ==
  LET t == Field(n, "transport", NoBlock) IN
  [type |-> Field(t, "type", ""), service |-> Field(t, "service", ""),
   path |-> Field(t, "path", ""), host |-> Field(t, "host", <<>>),
   mode |-> Field(t, "mode", ""), extra |-> Field(t, "extra", "")]

(* The neutral blocks, out of a Clash proxy. *)

ClashTLS(p) ==
  [enabled |-> p.tls \/ p.pub # "", sni |-> p.sni, insecure |-> p.skip, alpn |-> p.alpn,
   fp |-> p.fp, pub |-> p.pub, sid |-> IF p.pub = "" THEN "" ELSE p.sid]

ClashTransport(p) ==
  LET Of(networks, value, none) == IF p.network \in networks THEN value ELSE none IN
  [type    |-> p.network,
   path    |-> Of({"ws", "xhttp"}, p.path, ""),
   host    |-> Of({"ws", "xhttp"}, IF p.header = "" THEN <<>> ELSE <<p.header>>, <<>>),
   service |-> Of({"grpc"}, p.service, ""),
   mode    |-> Of({"xhttp"}, p.mode, ""),
   extra   |-> Of({"xhttp"}, p.extra, "")]

-----------------------------------------------------------------------------
(* linkbuild.go.  An empty parameter is as good as none. *)

\* security=none is never written: it is the default of vless, and trojan refuses it.
SetSecurityAndTLS(tls) ==
  ("security" :> IF tls.pub # "" THEN "reality" ELSE IF tls.enabled THEN "tls" ELSE "")
  @@ ("sni" :> tls.sni) @@ ("fp" :> tls.fp) @@ ("alpn" :> tls.alpn)
  @@ ("allowInsecure" :> IF tls.insecure THEN "1" ELSE "")
  @@ ("pbk" :> tls.pub) @@ ("sid" :> tls.sid)

SetTransport(tr) ==
  ("type" :> IF tr.type = "tcp" THEN "" ELSE tr.type)
  @@ ("serviceName" :> IF tr.type = "grpc" THEN tr.service ELSE "")
  @@ ("path" :> IF tr.type \in {"ws", "http", "xhttp"} THEN tr.path ELSE "")
  @@ ("host" :> IF tr.type \in {"ws", "http", "xhttp"} THEN tr.host ELSE <<>>)
  @@ ("mode" :> IF tr.type = "xhttp" THEN tr.mode ELSE "")
  @@ ("extra" :> IF tr.type = "xhttp" THEN tr.extra ELSE "")

BuildVLESS(n, tls, tr) ==
  Link("vless", n.uuid, "", n, SetSecurityAndTLS(tls) @@ SetTransport(tr) @@ ("flow" :> n.flow))

BuildTrojan(n, tls, tr) ==
  Link("trojan", n.password, "", n, SetSecurityAndTLS(tls) @@ SetTransport(tr))

BuildSS(n) ==
  Link("ss", n.method, n.password, n,
    ("plugin" :> n.plugin) @@ ("plugin-opts" :> IF n.plugin = "" THEN "" ELSE n.opts))

QuicQuery(tls, flag) ==
  ("sni" :> tls.sni) @@ ("alpn" :> tls.alpn) @@ (flag :> IF tls.insecure THEN "1" ELSE "")

\* Mutant: the flag under the name the other protocol has.
BuildTUICFlag(n, tls) ==
  Link("tuic", n.uuid, n.password, n,
    QuicQuery(tls, "skip_cert_verify") @@ ("congestion_control" :> n.congestion)
    @@ ("udp_relay_mode" :> n.relay) @@ ("zero_rtt_handshake" :> IF n.zeroRTT THEN "1" ELSE ""))

BuildTUIC(n, tls) ==
  Link("tuic", n.uuid, n.password, n,
    QuicQuery(tls, "allow_insecure") @@ ("congestion_control" :> n.congestion)
    @@ ("udp_relay_mode" :> n.relay) @@ ("zero_rtt_handshake" :> IF n.zeroRTT THEN "1" ELSE ""))

\* The bandwidths are written when they are set.
Bandwidth(v) == IF v = "0" THEN "" ELSE v

BuildHysteria2(n, tls) ==
  Link("hysteria2", n.password, "", n,
    QuicQuery(tls, "insecure") @@ ("obfs" :> Field(n.obfs, "type", ""))
    @@ ("obfs-password" :> Field(n.obfs, "password", ""))
    @@ ("up" :> Bandwidth(n.up)) @@ ("down" :> Bandwidth(n.down)))

\* A transport vmess has no name for gives no link.
BuildVMess(n, tls, tr) ==
  IF tr.type \notin {"", "tcp", "ws", "grpc", "http"} THEN NoLink
  ELSE Link("vmess", n.uuid, "", n,
         ("aid" :> n.aid) @@ ("scy" :> "auto")
         @@ ("net" :> IF tr.type = "http" THEN "h2" ELSE IF tr.type = "" THEN "tcp" ELSE tr.type)
         @@ ("path" :> IF tr.type = "grpc" THEN tr.service ELSE tr.path)
         @@ ("host" :> IF tr.host = <<>> THEN <<>> ELSE <<tr.host[1]>>)
         @@ ("tls" :> IF tls.enabled THEN "tls" ELSE "")
         @@ (IF tls.enabled THEN ("sni" :> tls.sni) @@ ("fp" :> tls.fp) @@ ("alpn" :> tls.alpn)
                            ELSE <<>>))

Build(n, type, tls, tr) ==
  CASE type = "vless" /\ n.server # "" /\ n.uuid # "" -> BuildVLESS(n, tls, tr)
    [] type = "vmess" /\ n.server # "" /\ n.uuid # "" -> BuildVMess(n, tls, tr)
    [] type = "trojan" /\ n.server # "" /\ n.password # "" -> BuildTrojan(n, tls, tr)
    [] type = "shadowsocks" /\ n.server # "" /\ n.method # "" -> BuildSS(n)
    [] type = "hysteria2" /\ n.server # "" -> BuildHysteria2(n, tls)
    [] type = "tuic" /\ n.server # "" /\ n.uuid # "" -> BuildTUIC(n, tls)
    [] OTHER -> NoLink

\* One entry of an outbounds array, one of a proxies list; what we cannot render as a
\* link is skipped.  The options of a plugin are not read from a proxy.
SingboxOutbound(n) == Build(n, n.type, ToLinkTLS(n), ToLinkTransport(n))
ClashLink(p) ==
  Build(("opts" :> "") @@ p, IF p.type = "ss" THEN "shadowsocks" ELSE p.type, ClashTLS(p), ClashTransport(p))

-----------------------------------------------------------------------------
(* The shapes of a body (format.go, sub.go). *)

NoLinks == [ok |-> FALSE]
SomeLinks(set) == IF set = {} THEN NoLinks ELSE [ok |-> TRUE, links |-> set]

\* An entry of an unknown scheme shrinks the list.
FilterKnownLinks(links) == {u \in links : u.scheme \in DOMAIN NewRegistry(Claims)}

\* url.Parse: the words after the start of a link are its label.
LinkOf(piece) ==
  [piece[1].link EXCEPT !.label =
     [i \in 1 .. Len(piece) - 1 |-> piece[i + 1].kind]]

\* Of a JSON object the first key that is there.
ParseJSON(body) ==
  IF "outbounds" \in DOMAIN body
    THEN SomeLinks({SingboxOutbound(n) : n \in body.outbounds} \ {NoLink})
  ELSE IF "links" \in DOMAIN body THEN SomeLinks(FilterKnownLinks(body.links))
  ELSE IF "subscription" \in DOMAIN body THEN SomeLinks(FilterKnownLinks(body.subscription))
  ELSE NoLinks

\* Structured shapes first; anything else is text, decoded when that gives links.  No
\* link at all is an error.
ParseBody(body) ==
  CASE body.shape = "object" -> ParseJSON(body)
    [] body.shape = "array" -> SomeLinks(FilterKnownLinks(body.links))
    [] body.shape = "clash" -> SomeLinks({ClashLink(p) : p \in body.proxies} \ {NoLink})
    [] OTHER -> SomeLinks({LinkOf(piece) : piece \in SplitLinks(body.text)})
=============================================================================
