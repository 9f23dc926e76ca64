----------------------------- MODULE NodeTypes -----------------------------
(***************************************************************************)
(* What a subscription may serve and what the parsers make of it: the      *)
(* types of texts, nodes, items and groups.  A document follows its        *)
(* format: a proxy has its protocol's credentials and no other ones, the   *)
(* protocols without TLS (ss, ssr, WireGuard) have no TLS field, and a     *)
(* port is a number above 0, which stands for a URI without a port.        *)
(***************************************************************************)
EXTENDS Aggregation

IsSeq(s) == s \in Seq(ToSet(s))

Protocols == {"ss", "ssr", "vmess", "vless", "trojan", "hysteria2", "tuic", "anytls",
              "wireguard", "socks5", "http"}

(***************************************************************************)
(* Texts and the words in them; the words that the code itself writes are  *)
(* named because the provers do not know them for strings.                 *)
(***************************************************************************)
Words ==
  STRING \cup Protocols
  \cup {"", "(", ")", "#", "I", "cut", "Select", "Auto", "select", "auto",
        "DIRECT", "REJECT", "direct", "block"}
Texts == {t \in Seq(Words) \X Nat : t[1] # <<>>}
Secrets == {t \in Texts : Len(t[1]) = 1}

Transports == {"tcp", "ws", "grpc", "h2", "quic"}
WithoutTls == {"ss", "ssr", "wireguard"}

(***************************************************************************)
(* The credentials in a node's or an item's fields.                        *)
(***************************************************************************)
Keys == {"uuid", "password", "private_key"}
KeysOf(proto) ==
  CASE proto \in {"vmess", "vless"} -> {"uuid"}
    [] proto = "tuic" -> {"uuid", "password"}
    [] proto = "wireguard" -> {"private_key"}
    [] OTHER -> {"password"}
SecretsOK(proto, f) == \A k \in DOMAIN f \cap Keys : k \in KeysOf(proto) /\ f[k] \in Secrets
PeersOK(f, k) == k \in DOMAIN f => f[k][2] # 0

(***************************************************************************)
(* A node as the parsers leave it.  TLS and the security a VLESS node      *)
(* names agree.                                                            *)
(***************************************************************************)
NodeFields == {"proto", "name", "server", "port", "transport", "tls", "sni", "extra"}
NodeOK(n) ==
  /\ DOMAIN n = NodeFields
  /\ n.proto \in Protocols /\ n.transport \in Transports
  /\ n.name \in Texts /\ n.port # 0
  /\ n.tls \in BOOLEAN /\ (n.tls => n.proto \notin WithoutTls)
  /\ SecretsOK(n.proto, n.extra) /\ PeersOK(n.extra, "peers")
  /\ "auth" \in DOMAIN n.extra => n.extra["auth"] \in Secrets
  /\ n.proto = "vless" /\ n.tls /\ "security" \in DOMAIN n.extra
       => n.extra["security"] \in {"tls", "reality", "xtls"}
NodesOK(ns) == IsSeq(ns) /\ \A k \in DOMAIN ns : NodeOK(ns[k])

(***************************************************************************)
(* The items of a payload.                                                 *)
(***************************************************************************)
UriOK(u) ==
  /\ u.scheme \in Protocols
  /\ u.user \in Secrets \cup {None} /\ (u.scheme \in {"ss", "ssr"} => u.user # None)
  /\ u.pass \in Secrets \cup {None} /\ u.frag \in Texts \cup {None}
  /\ PeersOK(u.q, "peer")
ItemOK(i) ==
  /\ i.type \in Protocols /\ i.name \in Texts /\ i.port # 0
  /\ SecretsOK(i.type, i.f) /\ PeersOK(i.f, "peers")
  /\ "transport" \in DOMAIN i.f => i.f["transport"] \in DOMAIN SingboxTransports
  /\ "tls" \in DOMAIN i.f /\ i.type \in WithoutTls => i.f["tls"] # "true"

(***************************************************************************)
(* Groups and templates.                                                   *)
(***************************************************************************)
GroupType ==
  [name : Texts, proxies : Seq(Texts), include_all : BOOLEAN, filter : Words]
TemplateType == [groups : Seq(GroupType), preserve : BOOLEAN, present : BOOLEAN]

PayloadFormats == {"uri", "clash", "singbox", "ini", "oldclash"}
PayloadOK(p) ==
  /\ p.fmt \in PayloadFormats /\ p.flaky \in BOOLEAN /\ p.groups \in Seq(GroupType)
  /\ IsSeq(p.items)
  /\ \A k \in DOMAIN p.items : IF p.fmt = "uri" THEN UriOK(p.items[k]) ELSE ItemOK(p.items[k])
=============================================================================
