------------------------------ MODULE MCImports ------------------------------
(* The panels, settings and uploads of a finite instance of Imports. *)
EXTENDS Imports

\* The hypothesis on numerals under which references are proved, on those up to a hundred.
ASSUME NumeralsOK == TagsDiffer(1 .. 100)

Share(scheme, user, pass, host, query) ==
  [scheme |-> scheme, user |-> user, pass |-> pass, host |-> host, port |-> 443,
   query |-> query, label |-> <<>>, form |-> "plain"]

\* A key is one of the shapes a protocol module accepts.
StreamQueries(securities, types) ==
  {("security" :> s) @@ ("type" :> t) @@ ("sni" :> "sni.example") @@ ("path" :> "/p")
   @@ ("pbk" :> IF s = "reality" THEN "key" ELSE "") @@ ("sid" :> IF s = "reality" THEN "ab" ELSE "")
   @@ ("alpn" :> a[1]) @@ ("allowInsecure" :> a[2]) @@ ("host" :> h) @@ ("serviceName" :> "svc")
   @@ ("fp" :> "chrome") @@ ("mode" :> IF t = "xhttp" THEN "packet-up" ELSE "") :
     s \in securities, t \in types, a \in {<<<<>>, "1">>, <<<<"h2", "http/1.1">>, "">>},
     h \in {<<>>, <<"cdn.example">>, <<"cdn.example", "b.example">>}}

QuicQueries(flag) ==
  {("sni" :> "sni.example") @@ ("alpn" :> a) @@ (flag :> i) :
     a \in {<<>>, <<"h3">>}, i \in {"", "true"}}

Keys ==
  {Share("vless", "uuid-1", "", "srv.example", q @@ ("flow" :> f)) :
     q \in StreamQueries({"", "TLS", "reality"}, {"", "WS", "grpc", "http", "splithttp"}),
     f \in {"", "vision"}}
  \cup {Share("trojan", "secret", "", "srv.example", q) :
     q \in StreamQueries({"", "reality"}, {"tcp", "ws", "grpc", "http"})}
  \cup {Share("vmess", "uuid-2", "", "srv.example",
              ("net" :> n) @@ ("tls" :> t) @@ ("path" :> "/p") @@ ("host" :> h) @@ ("aid" :> "0")
              @@ ("sni" :> IF t = "tls" THEN "sni.example" ELSE "")) :
     n \in {"", "ws", "grpc", "h2"}, t \in {"", "tls"},
     h \in {<<>>, <<"cdn.example">>, <<"cdn.example", "b.example">>}}
  \cup {Share("ss", "aes", "secret", "srv.example",
              ("plugin" :> p) @@ ("plugin-opts" :> IF p = "" THEN "" ELSE "obfs=tls")) :
     p \in {"", "obfs-local"}}
  \cup {Share("hy2", "secret", "", "192.0.2.1",
              q @@ ("obfs" :> o) @@ ("obfs-password" :> IF o = "" THEN "" ELSE "x") @@ ("up" :> u)) :
     q \in QuicQueries("insecure"), o \in {"", "salamander"}, u \in {"", "50"}}
  \cup {Share("tuic", "uuid-1", "secret", "2001:db8::1",
              q @@ ("congestion_control" :> c) @@ ("reduce_rtt" :> z) @@ ("udp_relay_mode" :> "quic")) :
     q \in QuicQueries("allowInsecure"), c \in {"", "BBR"}, z \in {"", "1"}}

NodeOf(u) == RenderNode(Parse(u), NoOpts)
Stream(n) == Field(n, "transport", NoBlock)

-----------------------------------------------------------------------------
(* How panels describe a node. *)

\* A sing-box outbound; xhttp is tucked onto the transport block.
AsOutbound(n) ==
  IF n.type # "vless-xhttp" THEN [n EXCEPT !.tag = <<"word">>]
  ELSE [type |-> "vless", tag |-> <<"word">>, server |-> n.server, port |-> n.port, uuid |-> n.uuid,
        flow |-> "", tls |-> n.tls,
        transport |-> [type |-> "xhttp", path |-> n.xhttp.path, mode |-> n.xhttp.mode,
                       extra |-> n.xhttp.extra,
                       host |-> IF n.xhttp.host = "" THEN <<>> ELSE <<n.xhttp.host>>]]

AsClash(n) ==
  LET o == AsOutbound(n)
      t == Stream(o)
      tls == Field(o, "tls", NoBlock)
      reality == Field(tls, "reality", NoReality)
      first == Field(t, "host", <<>>)
  IN  [type |-> IF n.type = "shadowsocks" THEN "ss" ELSE o.type, tls |-> tls.enabled,
       sni |-> Field(tls, "sni", ""), skip |-> Field(tls, "insecure", FALSE),
       alpn |-> Field(tls, "alpn", <<>>), fp |-> Field(tls, "fp", ""),
       pub |-> Field(reality, "pbk", ""), sid |-> Field(reality, "sid", ""),
       network |-> Field(t, "type", ""), path |-> Field(t, "path", ""),
       header |-> IF Field(t, "type", "") = "ws" THEN t.header ELSE IF first = <<>> THEN "" ELSE first[1],
       service |-> Field(t, "service", ""), mode |-> Field(t, "mode", ""),
       extra |-> Field(t, "extra", "")] @@ o

-----------------------------------------------------------------------------
(* Panels. *)

Token(kind) == [kind |-> kind]
Start(u)    == [kind |-> "start", link |-> u]

\* Link lists, with labels of several words and separators between and after.
SomeKeys == {Share("vless", "uuid-1", "", "srv.example", <<>>),
             Share("trojan", "secret", "", "192.0.2.2", <<>>),
             Share("hysteria", "", "", "srv.example",
                   ("auth" :> "a") @@ ("upmbps" :> "10") @@ ("down" :> "20")),
             Share("anytls", "secret", "", "2001:db8::1", ("insecure" :> "1"))}

TextPanels ==
  {[sent |-> {<<<<"word", "sep", "word">>, NodeOf(u)>>, <<<<"word">>, NodeOf(v)>>},
    body |-> [shape |-> "text",
              text |-> lead \o <<Start(u), Token("word"), Token("sep"), Token("word"), Token("sep"),
                                 Start(v), Token("word")>> \o lead]] :
     u \in SomeKeys, v \in SomeKeys, lead \in {<<>>, <<Token("sep")>>}}

\* What a panel can say of a vmess server and a link cannot: a cipher, a certificate
\* that is not verified, REALITY.
SomeReality == [enabled |-> TRUE, pbk |-> "key", sid |-> "ab", version |-> ""]
PanelOnly ==
  {[n EXCEPT !.cipher = c, !.tls.insecure = i, !.tls.reality = r] :
     n \in {m \in {NodeOf(u) : u \in {k \in Keys : k.scheme = "vmess"}} : m.tls.enabled},
     c \in {"auto", "aes"}, i \in BOOLEAN, r \in {NoReality, SomeReality}}

Nodes == {NodeOf(u) : u \in Keys} \cup PanelOnly

\* A server of a protocol that has no link in linkbuild.go, and one with a transport
\* that no module knows.
Skipped  == NodeOf(Share("anytls", "secret", "", "2001:db8::1", <<>>))
Stranger ==
  [NodeOf(Share("vless", "uuid-2", "", "srv.example", <<>>)) EXCEPT
     !.transport = [type |-> "httpupgrade", path |-> "/p"]]

Described(nodes) == {<<<<"word">>, n>> : n \in nodes}

SingboxPanels ==
  {[sent |-> Described({n, Skipped}),
    body |-> [shape |-> "object",
              outbounds |-> {AsOutbound(n), AsOutbound(Skipped),
                             [type |-> "direct"], [type |-> "selector"]}]] : n \in Nodes}
  \cup {[sent |-> Described({Stranger, Skipped}),
         body |-> [shape |-> "object", outbounds |-> {AsOutbound(Stranger), AsOutbound(Skipped)}]]}

ClashPanels ==
  {[sent |-> Described({n, Skipped}),
    body |-> [shape |-> "clash", proxies |-> {AsClash(n), AsClash(Skipped)}]] : n \in Nodes}

JSONPanels ==
  {[sent |-> {<<<<>>, NodeOf(u)>>},
    body |-> IF key = "array" THEN [shape |-> "array", links |-> {u, Share("https", "", "", "", <<>>)}]
             ELSE [shape |-> "object"] @@ (key :> {u, Share("https", "", "", "", <<>>)})] :
     u \in SomeKeys, key \in {"array", "links", "subscription"}}

\* A login page, an empty list, and a link without a user.
Garbage ==
  {[sent |-> {}, body |-> b] :
     b \in {[shape |-> "text", text |-> <<Token("word"), Token("sep")>>],
            [shape |-> "object"], [shape |-> "object", outbounds |-> {[type |-> "direct"]}],
            [shape |-> "array", links |-> {Share("vless", "", "", "srv.example", <<>>)}]}}

AllPanels == TextPanels \cup SingboxPanels \cup ClashPanels \cup JSONPanels \cup Garbage

OneWorking == {Share("vless", "uuid-2", "", "old.example", <<>>)}

-----------------------------------------------------------------------------
(* Options of the configurations. *)

FWRule(action, domain, cidr, process) ==
  [action |-> action, domain |-> domain, cidr |-> cidr, process |-> process]

WireGuardConf ==
  [scheme |-> "", lines |-> <<
     [kind |-> "section", name |-> "interface"],
     [kind |-> "key", name |-> "privatekey", value |-> "k"],
     [kind |-> "key", name |-> "address", value |-> "10.0.0.2/32"],
     [kind |-> "section", name |-> "peer"],
     [kind |-> "key", name |-> "publickey", value |-> "p"],
     [kind |-> "key", name |-> "endpoint", value |-> "192.0.2.1"],
     [kind |-> "section", name |-> "peer"],
     [kind |-> "key", name |-> "publickey", value |-> "q"],
     [kind |-> "key", name |-> "endpoint", value |-> "wg.example"],
     [kind |-> "section", name |-> "other"],
     [kind |-> "key", name |-> "endpoint", value |-> "not.a.peer"]>>]

XHTTPKey == Share("vless", "uuid-1", "", "x.example", ("type" :> "xhttp"))

SomeOptions ==
  {[manual |-> m, iface |-> i[1], firewall |-> f, ports |-> [socks |-> 0, http |-> 0],
    urltest |-> [url |-> i[2], interval |-> "", tolerance |-> 0]] :
     m \in {{}, {WireGuardConf}, {WireGuardConf, XHTTPKey}}, i \in {<<"", "192.0.2.1">>, <<"en0", "">>},
     f \in {<<>>,
            <<FWRule("block", "site.ru", "", ""), FWRule("allow", "", "", "app")>>,
            <<FWRule("allow", "", "10.0.0.1", ""), FWRule("block", "", "10.0.0.1", ""),
              FWRule("block", "", "", "app")>>,
            <<FWRule("allow", "", "", ""), FWRule("allow", "blocked.example", "", ""),
              FWRule("block", "", "192.0.2.2", "")>>}}

-----------------------------------------------------------------------------
(* Uploads. *)

Settings ==
  {[sessionPlacement |-> sp, seqPlacement |-> qp, dataPlacement |-> dp, sessionKey |-> "",
    seqKey |-> k, chunkSize |-> c, cookieChunk |-> Interval(2, 3), headerChunk |-> Interval(3, 4),
    maxPost |-> Interval(5, 5), obfs |-> pp # "off", padPlacement |-> IF pp = "off" THEN "" ELSE pp,
    padKey |-> "", padHeader |-> "", padMethod |-> "", padding |-> Interval(1, 2),
    query |-> q, headers |-> <<>>, dataKey |-> "x_data"] :
     sp \in {"", "query", "header", "cookie"}, qp \in {"", "query", "header", "cookie"},
     dp \in {"", "auto", "header", "cookie"}, k \in {"", "n"},
     c \in {Interval(0, 0), Interval(1, 2)}, q \in {<<>>, "ed" :> "1"},
     pp \in {"off", "", "header", "cookie", "query"}}

SomeUploads == {[settings |-> s, payload |-> <<1, 2, 3, 4, 5>>] : s \in Settings}

\* Texts of characters that all take the same bits, up to targets where the worst of
\* them are more than MaxRounds off.
SomePaddings ==
  {[bits |-> [i \in 1 .. Guess(t) |-> b], target |-> t] : t \in 1 .. 40, b \in {5, 6, 7, 8}}
=============================================================================
