--------------------------- MODULE ClientConfigs ---------------------------
(***************************************************************************)
(* The nodes of Clash, sing-box and Surge-style configurations: how        *)
(* app-transform writes them and how app-core reads them back (the routing *)
(* template parsers, the INI lines, and the old Clash list under "Proxy").  *)
(*                                                                         *)
(* An item is [type, name, server, port, f]: f holds the other fields.     *)
(***************************************************************************)
EXTENDS ShareUris

Item(n, server, f) ==
  [type |-> n.proto, name |-> n.name, server |-> server, port |-> n.port, f |-> f]
Bool(b) == IF b THEN "true" ELSE "false"
Obfuscation == {"obfs", "obfs_param", "protocol", "protocol_param"}
Tuning == {"obfs_password", "congestion_control", "udp_relay_mode"}
TlsHints == {"client_fingerprint", "alpn", "skip_cert_verify"}

-----------------------------------------------------------------------------
(***************************************************************************)
(* Clash: which fields of a node each protocol's proxy keeps.  A Socks5 or *)
(* HTTP proxy keeps its user name and not its password.                    *)
(***************************************************************************)
ClashStreamFields ==
  [ss |-> {"cipher", "password"},
   vmess |-> {"uuid", "alter_id", "cipher", "username"} \cup Tuning \cup TlsHints,
   vless |-> {"uuid", "flow", "username"} \cup Tuning \cup TlsHints,
   trojan |-> {"password"} \cup Tuning \cup TlsHints]
ClashQuicFields ==
  [hysteria2 |-> {"password", "obfs"} \cup Tuning \cup TlsHints,
   tuic |-> {"uuid", "password", "obfs"} \cup Tuning \cup TlsHints,
   anytls |-> {"password"} \cup Tuning \cup TlsHints]
ClashOtherFields ==
  [ssr |-> {"cipher", "password"} \cup Obfuscation,
   wireguard |-> {"private_key", "public_key", "preshared_key", "reserved",
                  "mtu"},
   socks5 |-> {"username"} \cup TlsHints,
   http |-> {"username"} \cup TlsHints]
ClashFields == ClashStreamFields ?? ClashQuicFields ?? ClashOtherFields

build_ws_options(n) ==
  IF n.transport # "ws" THEN Empty
  ELSE Rekey(n.extra, One("ws-path", "path") ?? One("ws-host", "host"))
       ?? One("ws-path", "/")
build_grpc_options(n) ==
  IF n.transport # "grpc" THEN Empty
  ELSE Opt("grpc-service-name", FirstOf(n.extra, "grpc_service_name", "service_name"))
       ?? One("grpc-service-name", "grpc")
build_h2_options(n) ==
  IF n.transport # "h2" THEN Empty
  ELSE Opt("h2-host", FirstOf(n.extra, "hosts", "host"))
       ?? Opt("h2-path", Get(n.extra, "path"))
build_reality_options(n) ==
  Pick(n.extra, {"reality_public_key", "reality_short_id", "reality_spider_x"})

build_clash_proxy(n) ==
  LET untransported == {"ss", "ssr", "anytls", "socks5", "http"}
      plain == {"ss", "ssr", "wireguard"}
      streamed == {"vmess", "vless", "trojan"} IN
    Item(n, n.server,
      Pick(n.extra, ClashFields[n.proto])
      ?? (IF n.proto = "hysteria2" THEN Rekey(n.extra, [password |-> "auth"])
          ELSE Empty)
      ?? (IF n.proto = "vmess" THEN [alter_id |-> "0", cipher |-> "auto"] ELSE Empty)
      ?? (IF n.proto \in plain THEN Empty
          ELSE [tls |-> Bool(n.tls)] ?? Opt("servername", n.sni)
               ?? Opt("sni", n.sni))
      ?? (IF n.proto \in streamed
          THEN build_ws_options(n) ?? build_grpc_options(n) ?? build_h2_options(n)
          ELSE Empty)
      ?? (IF n.proto = "vless" THEN build_reality_options(n) ELSE Empty)
      ?? (IF n.proto \in untransported THEN [network |-> "tcp"]
          ELSE IF n.proto \in streamed THEN [network |-> n.transport] ELSE Empty)
      ?? (IF n.proto = "wireguard" THEN Rekey(n.extra, [ip |-> "local_address"])
          ELSE Empty)
      ?? [udp |-> "true"])

validate_required_fields(i) ==
  LET needs == CASE i.type \in {"ss", "ssr"} -> {"cipher", "password"}
                 [] i.type \in {"vmess", "vless"} -> {"uuid"}
                 [] i.type \in {"trojan", "hysteria2", "anytls"} -> {"password"}
                 [] i.type = "tuic" -> {"uuid", "password"}
                 [] i.type = "wireguard" -> {"private_key"}
                 [] OTHER -> {} IN
    needs \subseteq DOMAIN i.f

resolve_transport(i) ==
  CASE i.type \in {"hysteria2", "tuic"} -> "quic"
    [] i.type \in {"anytls", "socks5", "http"} -> "tcp"
    [] OTHER -> map_transport(Get(i.f, "network"))

Encrypted == {"vmess", "vless", "trojan", "hysteria2", "tuic", "anytls"}

parse_clash_proxy(i) ==
  [proto |-> i.type, name |-> i.name, server |-> i.server, port |-> i.port,
   transport |-> resolve_transport(i),
   tls |-> IF "tls" \in DOMAIN i.f THEN i.f["tls"] = "true"
           ELSE i.type \in Encrypted,
   sni |-> FirstOf(i.f, "servername", "sni"),
   extra |->
     Pick(i.f, {"cipher", "password", "uuid", "alter_id", "flow", "udp",
                "private_key", "peers", "local_address", "reserved", "mtu"}
               \cup Obfuscation \cup Tuning \cup TlsHints)
     ?? Rekey(i.f, [grpc_service_name |-> "grpc-service-name", path |-> "h2-path",
                    hosts |-> "h2-host", host |-> "ws-host"])
     ?? Rekey(i.f, [path |-> "ws-path"])]

-----------------------------------------------------------------------------
(***************************************************************************)
(* sing-box.                                                               *)
(***************************************************************************)
IsReality(n) == Get(n.extra, "security") = "reality" \/ Has(n, {"reality_public_key"})

build_singbox_tls(n) ==
  LET enabled == n.tls \/ IsReality(n)
      fields == Rekey(n.extra, [insecure |-> "skip_cert_verify", alpn |-> "alpn",
                                utls |-> "client_fingerprint"])
                ?? Opt("server_name", n.sni)
                ?? (IF IsReality(n)
                    THEN Pick(n.extra, {"reality_public_key", "reality_short_id"})
                    ELSE Empty) IN
    IF fields = Empty /\ ~enabled THEN Empty ELSE fields ?? [tls |-> Bool(enabled)]

build_singbox_transport(n) ==
  CASE n.transport = "tcp" -> Empty
    [] n.transport = "ws" ->
         [transport |-> "ws"] ?? Rekey(n.extra, [path |-> "path", Host |-> "host"])
    [] n.transport = "grpc" ->
         [transport |-> "grpc"]
         ?? Opt("service_name", FirstOf(n.extra, "grpc_service_name", "service_name"))
    [] n.transport = "h2" ->
         [transport |-> "http"] ?? Pick(n.extra, {"path"})
         ?? Opt("hosts", FirstOf(n.extra, "hosts", "host"))
    [] n.transport = "quic" -> [transport |-> "quic"]

SingboxStreamFields ==
  [ss |-> [method |-> "cipher", password |-> "password"],
   ssr |-> [method |-> "cipher", password |-> "password", protocol |-> "protocol",
            protocol_param |-> "protocol_param", obfs |-> "obfs",
            obfs_param |-> "obfs_param"],
   vmess |-> [uuid |-> "uuid", alter_id |-> "alter_id", security |-> "security"],
   vless |-> [uuid |-> "uuid", flow |-> "flow"],
   trojan |-> [password |-> "password"]]
SingboxOtherFields ==
  [hysteria2 |-> [password |-> "password", obfs |-> "obfs"],
   tuic |-> [uuid |-> "uuid", password |-> "password",
             congestion_control |-> "congestion_control",
             udp_relay_mode |-> "udp_relay_mode"],
   anytls |-> [password |-> "password"],
   wireguard |-> [private_key |-> "private_key", peers |-> "peers",
                  local_address |-> "local_address", reserved |-> "reserved",
                  mtu |-> "mtu"],
   socks5 |-> Empty, http |-> Empty]
SingboxFields == SingboxStreamFields ?? SingboxOtherFields

(***************************************************************************)
(* A WireGuard outbound has no endpoint but its peers; a Socks5 or HTTP    *)
(* one has no password.                                                    *)
(***************************************************************************)
build_singbox_node_outbound(n) ==
  Item(n, IF n.proto = "wireguard" THEN "" ELSE n.server,
    Rekey(n.extra, SingboxFields[n.proto])
    ?? Rekey(n.extra, [username |-> "username"])
    ?? (IF n.proto = "hysteria2"
        THEN Rekey(n.extra, [password |-> "auth"])
             ?? (IF Has(n, {"obfs"}) THEN Pick(n.extra, {"obfs_password"}) ELSE Empty)
        ELSE Empty)
    ?? (IF n.proto = "vmess"
        THEN Rekey(n.extra, [security |-> "cipher"])
             ?? [security |-> "auto", alter_id |-> "0"]
        ELSE Empty)
    ?? (IF n.proto \in {"ss", "ssr", "wireguard"} THEN Empty
        ELSE build_singbox_tls(n))
    ?? (IF n.proto \in {"vmess", "vless", "trojan"} THEN build_singbox_transport(n)
        ELSE Empty))

(***************************************************************************)
(* A WireGuard outbound may leave its endpoint to its first peer.          *)
(***************************************************************************)
resolve_endpoint(i) ==
  IF i.server # "" THEN <<i.server, i.port>>
  ELSE <<parse_host_port(i.f["peers"][1]), i.f["peers"][2]>>

TlsWithName(i) == {"tls", "server_name"} \subseteq DOMAIN i.f  \* mutant
parse_singbox_tls(i) == "tls" \in DOMAIN i.f /\ i.f["tls"] = "true"

SingboxTransports == [ws |-> "ws", grpc |-> "grpc", http |-> "h2", quic |-> "quic"]

parse_singbox_node(i) ==
  LET tr == IF i.type \in {"hysteria2", "tuic"} THEN "quic"
            ELSE IF "transport" \in DOMAIN i.f THEN SingboxTransports[i.f["transport"]]
            ELSE "tcp"
      own == CASE i.type \in {"ss", "ssr"} ->
                    [cipher |-> "method", password |-> "password"]
               [] i.type = "vmess" ->
                    [uuid |-> "uuid", cipher |-> "security", alter_id |-> "alter_id"]
               [] i.type \in {"socks5", "http"} ->
                    [username |-> "username", password |-> "password"]
               [] i.type = "hysteria2" ->
                    [password |-> "password", obfs |-> "obfs",
                     obfs_password |-> "obfs_password"]
               [] OTHER -> SingboxFields[i.type] IN
    [proto |-> i.type, name |-> i.name, server |-> resolve_endpoint(i)[1],
     port |-> resolve_endpoint(i)[2], transport |-> tr, tls |-> parse_singbox_tls(i),
     sni |-> Get(i.f, "server_name"),
     extra |->
       Rekey(i.f, own)
       ?? (IF i.type = "ssr" THEN Pick(i.f, Obfuscation) ELSE Empty)
       ?? Rekey(i.f, [path |-> "path", service_name |-> "service_name",
                      host |-> "Host", hosts |-> "hosts"])
       ?? Rekey(i.f, [skip_cert_verify |-> "insecure", alpn |-> "alpn"])]

(***************************************************************************)
(* An outbound without an endpoint, or whose node lacks a key it requires, *)
(* fails the whole payload.  The table of keys is the one of Clash.        *)
(***************************************************************************)
SingboxParses(i) ==
  /\ i.server # "" \/ (i.type = "wireguard" /\ "peers" \in DOMAIN i.f)
  /\ validate_required_fields([i EXCEPT !.f = parse_singbox_node(i).extra])

-----------------------------------------------------------------------------
(***************************************************************************)
(* Surge, Loon and Quantumult X lines.  A separator inside a text breaks   *)
(* the line: in a name the line is not recognised, in a value the rest of  *)
(* the value is lost.                                                      *)
(***************************************************************************)
IniProtocols == {"ss", "ssr", "vmess", "vless", "trojan"}
Raw(t) == t[1][1] \in Special /\ t[2] = 0
Cut(t) == IF Raw(t) THEN Text("cut") ELSE t

IniBuilds(n) == n.proto \in IniProtocols /\ required_string(n)

node_to_ini_line(n) ==
  Item(n, n.server,
    Pick(n.extra, CASE n.proto \in {"ss", "ssr"} -> {"cipher", "password"}
                    [] n.proto \in {"vmess", "vless"} -> {"uuid", "flow"}
                    [] n.proto = "trojan" -> {"password"})
    ?? (IF n.tls THEN [tls |-> "true"] ELSE Empty) ?? Opt("sni", n.sni))

IniParses(i) == ~Raw(i.name) /\ validate_required_fields(i)

parse_ini_proxy_line(i) ==
  [proto |-> i.type, name |-> i.name, server |-> i.server, port |-> i.port,
   transport |-> map_transport(Get(i.f, "network")),
   tls |-> IF "tls" \in DOMAIN i.f THEN i.f["tls"] = "true"
           ELSE i.type \in {"vmess", "vless", "trojan"},
   sni |-> Get(i.f, "sni"),
   extra |-> Pick(i.f, {"cipher", "flow", "path", "host"})
             ?? [k \in DOMAIN i.f \cap {"password", "uuid"} |-> Cut(i.f[k])]]

(***************************************************************************)
(* An old Clash document, with its list under "Proxy", keeps less.         *)
(***************************************************************************)
OldClashParses(i) == i.type \in IniProtocols /\ validate_required_fields(i)
parse_clash_map_to_proxy_node(i) ==
  [parse_clash_proxy(i) EXCEPT
     !.transport = map_transport(Get(i.f, "network")),
     !.sni = FirstOf(i.f, "sni", "servername"),
     !.extra = Pick(@, CASE i.type \in {"ss", "ssr"} -> {"cipher", "password"}
                         [] i.type \in {"vmess", "vless"} -> {"uuid", "flow"}
                         [] OTHER -> {"password"})
               ?? Rekey(i.f, [path |-> "ws-path", host |-> "ws-host"])]
=============================================================================
