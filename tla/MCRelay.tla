------------------------------ MODULE MCRelay ------------------------------
(***************************************************************************)
(* Payloads for Relay: every protocol with the variants that its parsers   *)
(* and builders tell apart, one server that misbehaves, and profiles whose *)
(* sources share nodes and names.                                          *)
(***************************************************************************)
EXTENDS Relay

Serves(fmt, items, groups) == [fmt |-> fmt, items |-> items, groups |-> groups, flaky |-> FALSE]
Only(p) == "s1" :> p

Node == Text("node")
Odd == Text("odd")          \* the text in Special
OddSent == <<<<"odd">>, 1>>  \* percent-encoded by the server
Uri0 == [scheme |-> "ss", user |-> Text("key"), pass |-> None, host |-> "dns",
         port |-> 443, q |-> Empty, frag |-> Node]

(***************************************************************************)
(* The query variants of each scheme.                                      *)
(***************************************************************************)
Streams ==
  {Empty, [type |-> "ws", host |-> "h", path |-> "/p", security |-> "tls", sni |-> "s"],
   [type |-> "grpc", serviceName |-> "g", security |-> "none"],
   [type |-> "h2", host |-> "h", path |-> "/p", allowInsecure |-> "true"]}
Queries ==
  [ss |-> {[cipher |-> "aes"]},
   ssr |-> {[cipher |-> "aes", protocol |-> "auth", obfs |-> "tls", obfsparam |-> "o"]},
   vmess |-> {Empty, [net |-> "ws", host |-> "h", path |-> "/p", tls |-> "tls"],
              [net |-> "h2", host |-> "h", tls |-> "tls", sni |-> "s", aid |-> "4"],
              [net |-> "grpc", serviceName |-> "g", scy |-> "aes"]},
   vless |-> Streams \cup {[security |-> "reality", pbk |-> "k", sid |-> "i", sni |-> "s",
                            fp |-> "chrome", flow |-> "vision"]},
   trojan |-> Streams,
   hysteria2 |-> {Empty, [obfs |-> "salamander", sni |-> "s"] @@ ("obfs-password" :> "o")},
   tuic |-> {[congestion_control |-> "bbr", sni |-> "s", alpn |-> "h3"]},
   anytls |-> {[fp |-> "chrome", sni |-> "s"]},
   wireguard |-> {[publickey |-> "pub", reserved |-> "1"],
                  [publickey |-> "pub", address |-> "10.0.0.2", peer |-> <<"dns", 51820>>]},
   socks5 |-> {Empty, [tls |-> "tls"]}, http |-> {Empty, [tls |-> "tls"]}]

Uris ==
  UNION {{[Uri0 EXCEPT !.scheme = s, !.q = q, !.host = h, !.user = u, !.frag = n, !.port = p,
             !.pass = IF s \in {"tuic", "socks5", "http"} THEN u ELSE None] :
            q \in Queries[s], h \in {"dns", IF s \in {"ss", "vmess"} THEN "v6" ELSE "[v6]"},
            n \in {None, Node, IF s \in {"vmess", "ssr"} THEN Odd ELSE OddSent},
            p \in {0, 443},
            u \in IF s = "vmess" THEN {None, Text("key")}
                  ELSE IF s \in {"ss", "ssr"} THEN {Text("key"), Odd}
                  ELSE {None, Text("key"), OddSent}} : s \in DOMAIN Queries}
UriPayloads ==
  {Only(Serves("uri", <<u>>, <<>>)) :
     u \in {u \in Uris : (u.port = 0 \/ u.user = None) => u.frag = Node /\ u.host = "dns"}}

(***************************************************************************)
(* Items of configurations.                                                *)
(***************************************************************************)
Required ==
  [ss |-> [cipher |-> "aes", password |-> Odd], ssr |-> [cipher |-> "aes", password |-> Odd],
   vmess |-> [uuid |-> Text("key")], vless |-> [uuid |-> Text("key"), flow |-> "vision"],
   trojan |-> [password |-> Odd], hysteria2 |-> [password |-> Odd, obfs |-> "salamander"],
   tuic |-> [uuid |-> Text("key"), password |-> Odd],
   anytls |-> [password |-> Odd, client_fingerprint |-> "chrome"],
   wireguard |-> [private_key |-> Text("key"), mtu |-> "1400"],
   socks5 |-> [username |-> Text("me"), password |-> Odd],
   http |-> [username |-> Text("me"), password |-> Odd]]
ItemOf(t, f) == [type |-> t, name |-> Node, server |-> "v6", port |-> 443, f |-> f]
ClashExtras ==
  {Empty, [tls |-> "false"], [tls |-> "true", servername |-> "s", network |-> "ws"]
                             @@ ("ws-host" :> "h"),
   [network |-> "h2", tls |-> "true"] @@ ("h2-host" :> "h"), [network |-> "grpc"]}
ClashPayloads ==
  {Only(Serves(fmt, <<ItemOf(t, Required[t] @@ x)>>, <<>>)) :
     fmt \in {"clash", "oldclash"}, t \in DOMAIN Required \ {"ss", "ssr", "wireguard"},
     x \in ClashExtras}
  \cup {Only(Serves("clash", <<ItemOf(t, Required[t])>>, <<>>)) : t \in {"ss", "ssr", "wireguard"}}
  \cup {Only(Serves("ini", <<ItemOf(t, Required[t])>>, <<>>)) : t \in IniProtocols}
  \cup {Only(Serves("ini", <<ItemOf("vless", Required["vless"] @@ [tls |-> "true", sni |-> "s"])>>, <<>>))}

SingboxItem(t) ==
  [ItemOf(t, CASE t = "ss" -> [method |-> "aes", password |-> Odd]
               [] t = "wireguard" -> [private_key |-> Text("key"), peers |-> <<"v6", 51820>>]
               [] OTHER -> Required[t] @@ [tls |-> "true", insecure |-> "true"])
   EXCEPT !.server = IF t = "wireguard" THEN "" ELSE @]
NoEndpoint(t, f) == [ItemOf(t, f) EXCEPT !.server = ""]
Unfit ==
  {NoEndpoint("wireguard", [private_key |-> Text("key")]),
   NoEndpoint("trojan", Required["trojan"] @@ [peers |-> <<"v6", 51820>>]),
   ItemOf("trojan", [tls |-> "true"]), ItemOf("ss", [password |-> Odd])}
SingboxPayloads ==
  {Only(Serves("singbox", <<SingboxItem(t), SingboxItem("trojan")>>, <<>>)) :
     t \in DOMAIN Required \ {"ssr"}}
  \cup {Only(Serves("singbox", <<SingboxItem("ss"), i>>, <<>>)) : i \in Unfit}

(***************************************************************************)
(* Profiles of several sources: equal nodes whose servers differ in case,  *)
(* names that clash, one that looks numbered, a proxy without its key, and *)
(* groups that list nodes, policies, each other and a proxy that is not    *)
(* read.                                                                   *)
(***************************************************************************)
Trojan(name, host, key) ==
  [type |-> "trojan", name |-> name, server |-> host, port |-> 443,
   f |-> OptText("password", key) @@ [tls |-> "true"]]
TrojanUri(name, host, key) ==
  [Uri0 EXCEPT !.scheme = "trojan", !.frag = name, !.host = host, !.user = key]
Second == Numbered(Labelled(Node, "s2"), 2)
Keyless == Text("keyless")
Listing ==
  <<Group(Text("Pick"), <<Node, Keyless, Text("DIRECT"), Text("Rest")>>),
    [Group(Text("Rest"), <<>>) EXCEPT !.include_all = TRUE],
    [Group(Text("Some"), <<>>) EXCEPT !.include_all = TRUE, !.filter = "node"],
    Group(Text("Deny"), <<Text("REJECT")>>)>>
TemplateSource(fmt) ==
  Serves(fmt, <<Trojan(Node, "dns", Text("a")), Trojan(Keyless, "dns", None),
                Trojan(Text("other"), "dns", Text("b"))>>, Listing)
Others ==
  {<<TrojanUri(Node, "DNS", Text("a")), TrojanUri(Node, "dns", Text("c"))>>,
   <<TrojanUri(Node, "dns", Text("c")), TrojanUri(Node, "dns", Text("d"))>>,
   <<TrojanUri(Node, "dns", Text("c")), TrojanUri(Node, "dns", Text("d")),
     TrojanUri(Second, "dns", Text("e"))>>}
Shared ==
  {"s1" :> TemplateSource("clash") @@ "s2" :> Serves("uri", o, <<>>)
   @@ "s3" :> Serves("uri", <<TrojanUri(Node, "dns", Text("c"))>>, <<>>) : o \in Others}

MCOrder == <<"s1", "s2", "s3">>
MCJoining == {Empty, "s2" :> Serves("uri", <<TrojanUri(Node, "dns", Text("f"))>>, <<>>)}

FlakyPayload == Only([Serves("uri", <<TrojanUri(Node, "dns", Text("a"))>>, <<>>) EXCEPT !.flaky = TRUE])

MCPayloads == UriPayloads \cup ClashPayloads \cup SingboxPayloads \cup Shared \cup {FlakyPayload}

(***************************************************************************)
(* A template stored before the names of proxies were kept.                *)
(***************************************************************************)
MCOldTemplates == {[groups |-> Listing, preserve |-> FALSE, present |-> TRUE]}
=============================================================================
