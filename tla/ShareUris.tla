----------------------------- MODULE ShareUris -----------------------------
(***************************************************************************)
(* Proxy nodes and their share URIs: the parsers of app-core (parser/) and *)
(* the builders of app-transform (base64.rs).                              *)
(*                                                                         *)
(* A text is <<parts, level>>: its parts, a base and the suffixes added to *)
(* a name, and how often it has been percent-encoded.  Encoding changes    *)
(* the bases in Special and every text with a suffix.  An address is       *)
(* "dns", "DNS", "v6" or "[v6]", the brackets being part of the text.      *)
(* A URI is a record of its parts; the aliases of a query parameter are    *)
(* one key, and Base64 around a part is left out because both sides undo   *)
(* it exactly.  Fields of `extra` are the keys of ProxyNode::extra, with   *)
(* "hosts" for a host that is a list.                                      *)
(***************************************************************************)
EXTENDS Naturals, Sequences

CONSTANT Special   \* texts with characters that URIs escape (, and = too)

None == <<>>
Text(b) == <<<<b>>, 0>>
Empty == [k \in {} |-> ""]

(***************************************************************************)
(* The fields of f, and those of g that f does not have.                   *)
(***************************************************************************)
f ?? g ==
  [k \in DOMAIN f \cup DOMAIN g |-> IF k \in DOMAIN f THEN f[k] ELSE g[k]]
One(k, v) == [x \in {k} |-> v]

Get(f, k) == IF k \in DOMAIN f THEN f[k] ELSE ""
Opt(k, v) == IF v = "" THEN Empty ELSE One(k, v)
OptText(k, t) == IF t = None THEN Empty ELSE One(k, t)
Pick(f, S) == [k \in DOMAIN f \cap S |-> f[k]]
Rekey(f, r) == [k \in {k \in DOMAIN r : r[k] \in DOMAIN f} |-> f[r[k]]]
FirstOf(f, k, l) == IF k \in DOMAIN f THEN f[k] ELSE Get(f, l)

percent_encode_component(t) ==
  IF t[1][1] \in Special \/ Len(t[1]) > 1 THEN <<t[1], t[2] + 1>> ELSE t
NoDecoding(t) == t  \* mutant
decode_percent_encoded(t) == IF t[2] > 0 THEN <<t[1], t[2] - 1>> ELSE t

format_host(h) == IF h = "v6" THEN "[v6]" ELSE h
parse_host_port(h) == IF h = "[v6]" THEN "v6" ELSE h

(***************************************************************************)
(* Whether a URI line can be parsed; a line that cannot is skipped.  A     *)
(* missing port (0) has a default in some schemes, and an SSR line is      *)
(* split at every colon, so an IPv6 address breaks it.                     *)
(***************************************************************************)
SplitAtColons(u) ==  \* mutant
  u.port # 0 /\ u.host \notin {"v6", "[v6]"}

UriParses(u) ==
  /\ u.port # 0 \/ u.scheme \in {"wireguard", "http"}
  /\ ~ (u.scheme = "ssr" /\ u.host \in {"v6", "[v6]"})

port_or_known_default(u) ==
  CASE u.port # 0 -> u.port
    [] u.port = 0 /\ u.scheme = "wireguard" -> 51820
    [] u.port = 0 /\ u.scheme = "http" -> IF Get(u.q, "tls") = "tls" THEN 443 ELSE 80

-----------------------------------------------------------------------------
(***************************************************************************)
(* Parsing.                                                                *)
(***************************************************************************)
map_transport(t) == IF t \in {"ws", "grpc", "h2", "quic"} THEN t ELSE "tcp"

insert_transport_host(tr, q) ==
  IF tr = "h2" THEN Opt("hosts", Get(q, "host")) ELSE Opt("host", Get(q, "host"))

build_proxy_node(proto, u, host, tr, tls, sni, extra) ==
  [proto |-> proto, server |-> host,
   port |-> port_or_known_default(u), transport |-> tr,
   tls |-> tls, sni |-> sni, extra |-> extra,
   name |-> IF u.frag = None THEN Text(proto) ELSE decode_percent_encoded(u.frag)]

parse_ss_uri(u) ==
  build_proxy_node("ss", u, parse_host_port(u.host), "tcp", FALSE, "",
    Pick(u.q, {"cipher"}) ?? [password |-> u.user])

parse_ssr_uri(u) ==
  build_proxy_node("ssr", u, u.host, "tcp", FALSE, "",
    Rekey(u.q, [cipher |-> "cipher", protocol |-> "protocol", obfs |-> "obfs",
                obfs_param |-> "obfsparam", protocol_param |-> "protoparam"])
    ?? [password |-> u.user])

(***************************************************************************)
(* VMess: a JSON object.  Its name is percent-decoded although builders do *)
(* not encode it, and the first host stands in for a missing server name.  *)
(***************************************************************************)
parse_vmess_uri(u) ==
  LET tr == map_transport(Get(u.q, "net")) IN
    build_proxy_node("vmess", u, u.host, tr, Get(u.q, "tls") \in {"tls", "reality"},
      IF "sni" \notin DOMAIN u.q /\ tr # "h2" THEN Get(u.q, "host")
      ELSE Get(u.q, "sni"),
      OptText("uuid", u.user)
      ?? Rekey(u.q, [path |-> "path", flow |-> "flow",
                     service_name |-> "serviceName", cipher |-> "scy",
                     grpc_service_name |-> "grpc_service_name",
                     client_fingerprint |-> "fp", security |-> "security",
                     alter_id |-> "aid", skip_cert_verify |-> "allowInsecure",
                     alpn |-> "alpn"])
      ?? insert_transport_host(tr, u.q))

(***************************************************************************)
(* The parsers below take the user part as url.username() gives it, still  *)
(* percent-encoded, and keep the brackets of an IPv6 address.              *)
(***************************************************************************)
UrlTransportKeys ==
  [security |-> "security", service_name |-> "serviceName",
   grpc_service_name |-> "grpc_service_name", client_fingerprint |-> "fp",
   skip_cert_verify |-> "allowInsecure", alpn |-> "alpn", path |-> "path"]

parse_vless_uri(u) ==
  LET tr == map_transport(Get(u.q, "type")) IN
    build_proxy_node("vless", u, format_host(u.host), tr,
      Get(u.q, "security") \in {"tls", "reality", "xtls"}, Get(u.q, "sni"),
      OptText("uuid", u.user)
      ?? Rekey(u.q, UrlTransportKeys ?? [flow |-> "flow",
                     reality_public_key |-> "pbk", reality_short_id |-> "sid",
                     reality_spider_x |-> "spx"])
      ?? insert_transport_host(tr, u.q))

parse_trojan_uri(u) ==
  LET tr == map_transport(Get(u.q, "type")) IN
    build_proxy_node("trojan", u, format_host(u.host), tr,
      Get(u.q, "security") # "none", Get(u.q, "sni"),
      OptText("password", u.user) ?? Rekey(u.q, UrlTransportKeys)
      ?? insert_transport_host(tr, u.q))

parse_tuic_uri(u) ==
  build_proxy_node("tuic", u, format_host(u.host), "quic", TRUE, Get(u.q, "sni"),
    OptText("uuid", u.user) ?? OptText("password", u.pass)
    ?? Rekey(u.q, [congestion_control |-> "congestion_control",
                   udp_relay_mode |-> "udp_relay_mode",
                   skip_cert_verify |-> "allowInsecure", alpn |-> "alpn"]))

parse_hysteria2_uri(u) ==
  build_proxy_node("hysteria2", u, format_host(u.host), "quic", TRUE,
    Get(u.q, "sni"),
    OptText("password", u.user) ?? OptText("auth", u.user)
    ?? Rekey(u.q, [obfs |-> "obfs", obfs_password |-> "obfs-password",
                   skip_cert_verify |-> "allowInsecure", alpn |-> "alpn"]))

parse_anytls_uri(u) ==
  build_proxy_node("anytls", u, format_host(u.host), "tcp", TRUE,
    Get(u.q, "sni"),
    OptText("password", u.user)
    ?? Rekey(u.q, [client_fingerprint |-> "fp", alpn |-> "alpn",
                   skip_cert_verify |-> "allowInsecure"]))

(***************************************************************************)
(* WireGuard: a missing peer is the URI's own endpoint.                    *)
(***************************************************************************)
parse_wireguard_uri(u) ==
  LET host == format_host(u.host) IN
    build_proxy_node("wireguard", u, host, "quic", FALSE, "",
      OptText("private_key", u.user)
      ?? Rekey(u.q, [public_key |-> "publickey", reserved |-> "reserved",
                     preshared_key |-> "presharedkey", mtu |-> "mtu",
                     local_address |-> "address", peers |-> "peer"])
      ?? [local_address |-> "172.16.0.2/32", peers |-> <<host, port_or_known_default(u)>>])

parse_socks5_uri(u) ==
  build_proxy_node("socks5", u, format_host(u.host), "tcp",
    Get(u.q, "tls") = "tls", "",
    OptText("username", u.user) ?? OptText("password", u.pass))

parse_http_proxy_uri(u) ==
  build_proxy_node("http", u, format_host(u.host), "tcp",
    Get(u.q, "tls") = "tls", "",
    OptText("username", u.user) ?? OptText("password", u.pass))

parse_proxy_uri_line(u) ==
  CASE u.scheme = "ss" -> parse_ss_uri(u)
    [] u.scheme = "ssr" -> parse_ssr_uri(u)
    [] u.scheme = "vmess" -> parse_vmess_uri(u)
    [] u.scheme = "vless" -> parse_vless_uri(u)
    [] u.scheme = "trojan" -> parse_trojan_uri(u)
    [] u.scheme = "hysteria2" -> parse_hysteria2_uri(u)
    [] u.scheme = "tuic" -> parse_tuic_uri(u)
    [] u.scheme = "anytls" -> parse_anytls_uri(u)
    [] u.scheme = "wireguard" -> parse_wireguard_uri(u)
    [] u.scheme = "socks5" -> parse_socks5_uri(u)
    [] u.scheme = "http" -> parse_http_proxy_uri(u)

-----------------------------------------------------------------------------
(***************************************************************************)
(* Building.  What a builder requires of a node; without it the export of  *)
(* the whole profile fails.                                                *)
(***************************************************************************)
Has(n, S) == S \subseteq DOMAIN n.extra

required_string(n) ==
  CASE n.proto \in {"ss", "ssr"} -> Has(n, {"cipher", "password"})
    [] n.proto \in {"vmess", "vless"} -> Has(n, {"uuid"})
    [] n.proto \in {"trojan", "anytls"} -> Has(n, {"password"})
    [] n.proto = "hysteria2" -> Has(n, {"password"}) \/ Has(n, {"auth"})
    [] n.proto = "tuic" -> Has(n, {"uuid", "password"})
    [] n.proto = "wireguard" -> Has(n, {"private_key"})
    [] n.proto \in {"socks5", "http"} -> TRUE

UriBuilds(n) == n.proto \notin {"socks5", "http"} /\ required_string(n)

Uri(n, host, user, q) ==
  [scheme |-> n.proto, user |-> user, pass |-> None, host |-> host,
   port |-> n.port, q |-> q, frag |-> n.name]

build_uri_with_query(n, user, q) ==
  [Uri(n, format_host(n.server), percent_encode_component(user), q)
   EXCEPT !.frag = percent_encode_component(n.name)]

Insecure(n) ==
  IF Get(n.extra, "skip_cert_verify") = "true" THEN [allowInsecure |-> "true"]
  ELSE Empty

ServiceName(n) == Opt("serviceName", FirstOf(n.extra, "grpc_service_name", "service_name"))

build_ss_uri(n) ==
  [Uri(n, format_host(n.server), n.extra["password"], Pick(n.extra, {"cipher"}))
   EXCEPT !.frag = percent_encode_component(n.name)]

build_ssr_uri(n) ==
  Uri(n, format_host(n.server), n.extra["password"],
    Rekey(n.extra, [cipher |-> "cipher", protocol |-> "protocol", obfs |-> "obfs",
                    obfsparam |-> "obfs_param", protoparam |-> "protocol_param"])
    ?? [protocol |-> "origin", obfs |-> "plain"])

build_vmess_uri(n) ==
  Uri(n, n.server, n.extra["uuid"],
    Rekey(n.extra, [aid |-> "alter_id", host |-> "host", path |-> "path",
                    alpn |-> "alpn", fp |-> "client_fingerprint"])
    ?? Opt("scy", FirstOf(n.extra, "security", "cipher")) ?? ServiceName(n)
    ?? [aid |-> "0", scy |-> "auto", net |-> n.transport]
    ?? Opt("tls", IF n.tls THEN "tls" ELSE "") ?? Opt("sni", n.sni))

append_transport_params(n) ==
  CASE n.transport = "tcp" -> Empty
    [] n.transport = "ws" -> [type |-> "ws"] ?? Pick(n.extra, {"host", "path"})
    [] n.transport = "grpc" -> [type |-> "grpc"] ?? ServiceName(n)
    [] n.transport = "h2" ->
         [type |-> "h2"] ?? Opt("host", FirstOf(n.extra, "hosts", "host"))
         ?? Pick(n.extra, {"path"})
    [] n.transport = "quic" -> [type |-> "quic"]

build_vless_uri(n) ==
  LET security == IF "security" \in DOMAIN n.extra THEN n.extra["security"]
                  ELSE IF n.tls THEN "tls" ELSE "" IN
    build_uri_with_query(n, n.extra["uuid"],
      (IF n.transport = "tcp" /\ security = "reality" THEN [type |-> "tcp"]
       ELSE append_transport_params(n))
      ?? Opt("security", security) ?? Opt("sni", n.sni) ?? Insecure(n)
      ?? Rekey(n.extra, [flow |-> "flow", alpn |-> "alpn",
                         fp |-> "client_fingerprint", spx |-> "reality_spider_x",
                         pbk |-> "reality_public_key", sid |-> "reality_short_id"]))

(***************************************************************************)
(* Trojan names its security only when TLS is on.                          *)
(***************************************************************************)
build_trojan_uri(n) ==
  build_uri_with_query(n, n.extra["password"],
    append_transport_params(n) ?? Opt("security", IF n.tls THEN "tls" ELSE "")
    ?? Opt("sni", n.sni) ?? Insecure(n))

build_anytls_uri(n) ==
  build_uri_with_query(n, n.extra["password"],
    Opt("sni", n.sni) ?? Insecure(n)
    ?? Rekey(n.extra, [alpn |-> "alpn", fp |-> "client_fingerprint"]))

build_hysteria2_uri(n) ==
  build_uri_with_query(n,
    IF Has(n, {"password"}) THEN n.extra["password"] ELSE n.extra["auth"],
    Opt("sni", n.sni) ?? Insecure(n)
    ?? Rekey(n.extra, [obfs |-> "obfs", alpn |-> "alpn"]
                      ?? One("obfs-password", "obfs_password")))

TuicWithoutPassword(n) ==  \* mutant
  build_uri_with_query(n, n.extra["uuid"], Opt("sni", n.sni))

build_tuic_uri(n) ==
  [build_uri_with_query(n, n.extra["uuid"],
     Opt("sni", n.sni) ?? Insecure(n)
     ?? Pick(n.extra, {"congestion_control", "udp_relay_mode", "alpn"}))
   EXCEPT !.pass = percent_encode_component(n.extra["password"])]

build_wireguard_uri(n) ==
  build_uri_with_query(n, n.extra["private_key"],
    Rekey(n.extra, [publickey |-> "public_key", presharedkey |-> "preshared_key",
                    reserved |-> "reserved", mtu |-> "mtu",
                    address |-> "local_address", peer |-> "peers"]))

build_share_uri(n) ==
  CASE n.proto = "ss" -> build_ss_uri(n)
    [] n.proto = "ssr" -> build_ssr_uri(n)
    [] n.proto = "vmess" -> build_vmess_uri(n)
    [] n.proto = "vless" -> build_vless_uri(n)
    [] n.proto = "trojan" -> build_trojan_uri(n)
    [] n.proto = "hysteria2" -> build_hysteria2_uri(n)
    [] n.proto = "tuic" -> build_tuic_uri(n)
    [] n.proto = "anytls" -> build_anytls_uri(n)
    [] n.proto = "wireguard" -> build_wireguard_uri(n)
=============================================================================
