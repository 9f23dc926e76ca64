------------------------------- MODULE Relay -------------------------------
(***************************************************************************)
(* The way of the nodes through an instance and on to the next one: a      *)
(* source is fetched (with retries), decoded and parsed into the cache; a  *)
(* profile's export aggregates the caches and renders them in a client's   *)
(* format; and the export is itself a subscription that another instance   *)
(* may fetch.                                                              *)
(*                                                                         *)
(* A payload is [fmt, items, groups, flaky]: flaky says whether its server *)
(* may misbehave.  Formats: uri (Base64 and plain URI lists), clash (Stash *)
(* too), singbox, ini (Surge, Loon, Quantumult X), oldclash (read only).   *)
(***************************************************************************)
EXTENDS NodeTypes

CONSTANTS
  Order,        \* ids of an instance's sources, as a profile lists them
  Payloads,     \* what the first instance's sources may serve: a set of
                \* functions on sets of their ids
  OldTemplates, \* routing templates an earlier version may have stored
  Joining,      \* what the next instance has beside the export it fetches
  MaxHops       \* exports that are fetched again

Source == ToSet(Order)

ASSUME RelayAssumption == MaxHops \in Nat /\ Order \in Seq(Words) /\ "s1" \in Source
ASSUME PayloadAssumption ==
  \A p \in Payloads \cup Joining :
    DOMAIN p \subseteq Source /\ \A s \in DOMAIN p : PayloadOK(p[s])
ASSUME JoiningAssumption == \A p \in Joining : "s1" \notin DOMAIN p

(***************************************************************************)
(* Stored templates came from Clash documents: their policies are Clash's. *)
(***************************************************************************)
ASSUME TemplateAssumption ==
  \A t \in OldTemplates :
    /\ t \in TemplateType /\ t.present /\ ~t.preserve
    /\ \A g \in ToSet(t.groups) : Text("direct") \notin ToSet(g.proxies)

VARIABLES
  net,      \* what each source's URL serves
  profile,  \* the transport profile in use
  fetch,    \* of each source: st (todo, backoff, answered, done, failed), tries,
            \* answer, at (its place in the order of the updates)
  cache,    \* its cached nodes
  template, \* its routing template
  out,      \* the last export of the instance
  was,      \* the nodes of the export that this instance's source serves
  path      \* the formats of the exports so far

vars == <<net, profile, fetch, cache, template, out, was, path>>

Sources == DOMAIN net
NoAnswer == [status |-> 0, type |-> "text", junk |-> FALSE, size |-> "fits",
             wraps |-> <<>>, declared |-> <<>>]
Todo == [st |-> "todo", tries |-> 0, answer |-> NoAnswer, at |-> 0]
NoOut == [st |-> "none", fmt |-> "uri", nodes |-> <<>>, items |-> <<>>, groups |-> <<>>,
          builtins |-> {}]

Init ==
  /\ net \in Payloads
  /\ profile \in {"standard", "browser_chrome", "browser_firefox", "webview_assisted"}
  /\ profile # "standard" => \E s \in DOMAIN net : net[s].flaky
  /\ fetch = [s \in DOMAIN net |-> Todo]
  /\ cache = [s \in DOMAIN net |-> <<>>]
  /\ template \in [DOMAIN net -> {NoTemplate} \cup OldTemplates]
  /\ \A s \in DOMAIN net : template[s] # NoTemplate => net[s].fmt = "clash"
  /\ out = NoOut /\ was = <<>> /\ path = <<>>

-----------------------------------------------------------------------------
(***************************************************************************)
(* Transport profiles.                                                     *)
(***************************************************************************)
max_retries == IF profile \in {"browser_chrome", "browser_firefox"} THEN 3 ELSE 0
is_retryable_status(c) ==
  profile \in {"browser_chrome", "browser_firefox"} /\ c \in {429, 503}

(***************************************************************************)
(* What a server may answer: a status (0: no answer), a content type, junk *)
(* (an error page) in place of the payload, a body that is too large as    *)
(* sent or once decoded, and a body wrapped in encodings that its header   *)
(* declares or not.                                                        *)
(***************************************************************************)
GoodAnswer == [NoAnswer EXCEPT !.status = 200]
Answers(s) ==
  {GoodAnswer}
  \cup IF ~net[s].flaky THEN {}
       ELSE {[NoAnswer EXCEPT !.status = c] : c \in {0, 404, 429, 503}}
            \cup {[GoodAnswer EXCEPT !.type = "image"], [GoodAnswer EXCEPT !.junk = TRUE]}
            \cup {[GoodAnswer EXCEPT !.size = z] : z \in {"large", "bomb"}}
            \cup {[GoodAnswer EXCEPT !.wraps = w, !.declared = d] :
                    w \in {<<>>, <<"gzip">>, <<"raw">>, <<"zlib", "br">>},
                    d \in {<<>>, <<"gzip">>, <<"deflate">>, <<"deflate", "br">>, <<"zstd">>}}

Set(s, f) == fetch' = [fetch EXCEPT ![s] = f]

(***************************************************************************)
(* One request.  A retryable status is asked again after a pause; every    *)
(* other one, and a request without an answer, fails the fetch.            *)
(***************************************************************************)
RequestUncounted(s) ==  \* mutant
  /\ fetch[s].st \in {"todo", "backoff"}
  /\ \E a \in Answers(s) :
       Set(s, [fetch[s] EXCEPT !.answer = a,
         !.st = IF a.status = 200 THEN "answered"
                ELSE IF is_retryable_status(a.status) THEN "backoff" ELSE "failed"])
  /\ UNCHANGED <<net, profile, cache, template, out, was, path>>

Request(s) ==
  /\ fetch[s].st \in {"todo", "backoff"}
  /\ \E a \in Answers(s) :
       Set(s, [fetch[s] EXCEPT
         !.answer = a,
         !.st = CASE a.status = 200 -> "answered"
                  [] a.status # 200 /\ is_retryable_status(a.status)
                       /\ fetch[s].tries < max_retries -> "backoff"
                  [] OTHER -> "failed",
         !.tries = IF a.status # 200 /\ is_retryable_status(a.status)
                        /\ @ < max_retries THEN @ + 1 ELSE @])
  /\ UNCHANGED <<net, profile, cache, template, out, was, path>>

(***************************************************************************)
(* Declared encodings are undone from the last; one that is unknown is     *)
(* passed over, one that does not fit is an error.                         *)
(***************************************************************************)
Codec == [br |-> {"br"}, gzip |-> {"gzip"}, deflate |-> {"zlib", "raw"}]
decode_response_body(a) ==
  FoldRight(LAMBDA enc, acc :
    CASE ~acc.ok \/ enc \notin DOMAIN Codec -> acc
      [] acc.ok /\ enc \in DOMAIN Codec /\ acc.w # <<>> /\ Last(acc.w) \in Codec[enc] ->
           [acc EXCEPT !.w = Front(@)]
      [] OTHER -> [acc EXCEPT !.ok = FALSE],
    a.declared, [ok |-> TRUE, w |-> a.wraps])

(***************************************************************************)
(* Any text/ type is accepted, text/html too, and what is still encoded is *)
(* not UTF-8.                                                              *)
(***************************************************************************)
validate_content_type(a) == a.type = "text"
Readable(a) ==
  /\ validate_content_type(a) /\ a.size = "fits"
  /\ decode_response_body(a).ok /\ decode_response_body(a).w = <<>>

(***************************************************************************)
(* The nodes in a payload.  Lines and proxies that do not parse are        *)
(* skipped; a sing-box outbound that does not parse fails the payload.     *)
(***************************************************************************)
ItemParses(fmt, i) ==
  CASE fmt = "uri" -> UriParses(i)
    [] fmt \in {"clash"} -> validate_required_fields(i)
    [] fmt = "singbox" -> SingboxParses(i)
    [] fmt = "ini" -> IniParses(i)
    [] fmt = "oldclash" -> OldClashParses(i)
ItemNode(fmt, i) ==
  CASE fmt = "uri" -> parse_proxy_uri_line(i)
    [] fmt = "clash" -> parse_clash_proxy(i)
    [] fmt = "singbox" -> parse_singbox_node(i)
    [] fmt = "ini" -> parse_ini_proxy_line(i)
    [] fmt = "oldclash" -> parse_clash_map_to_proxy_node(i)

parse_nodes(p) ==
  LET good == Picked(p.items, {k \in DOMAIN p.items : ItemParses(p.fmt, p.items[k])})
      node == [i \in ToSet(p.items) |-> ItemNode(p.fmt, i)] IN
    [k \in DOMAIN good |-> node[good[k]]]
PayloadParses(p) ==
  p.fmt = "singbox" => \A k \in DOMAIN p.items : SingboxParses(p.items[k])

parse_routing_payload(p) ==
  IF p.fmt \in {"clash", "singbox"} /\ p.groups # <<>>
  THEN into_clash_template(p.groups) ELSE NoTemplate

(***************************************************************************)
(* A readable body replaces the cached nodes and the template.  Junk is    *)
(* text without a single proxy line, a payload of no nodes.                *)
(***************************************************************************)
Junk == [fmt |-> "ini", items |-> <<>>, groups |-> <<>>, flaky |-> FALSE]
Body(s) == IF fetch[s].answer.junk THEN Junk ELSE net[s]

Store(s) ==
  /\ fetch[s].st = "answered"
  /\ Readable(fetch[s].answer) /\ PayloadParses(Body(s))
  /\ template' = [template EXCEPT ![s] = parse_routing_payload(Body(s))]
  /\ cache' = [cache EXCEPT ![s] = parse_nodes(Body(s))]
  /\ Set(s, [fetch[s] EXCEPT !.st = "done",
                             !.at = Cardinality({r \in Sources : fetch[r].st = "done"})])
  /\ UNCHANGED <<net, profile, out, was, path>>

(***************************************************************************)
(* A body that cannot be read or parsed changes nothing that is stored.    *)
(***************************************************************************)
Reject(s) ==
  /\ fetch[s].st = "answered"
  /\ ~Readable(fetch[s].answer) \/ ~PayloadParses(Body(s))
  /\ Set(s, [fetch[s] EXCEPT !.st = "failed"])
  /\ UNCHANGED <<net, profile, cache, template, out, was, path>>

-----------------------------------------------------------------------------
(***************************************************************************)
(* An export, in a format and with the template of one source or none.     *)
(* One node that the format cannot carry fails the whole export.           *)
(***************************************************************************)
Settled == \A s \in Sources : fetch[s].st \in {"done", "failed"}
Listed == Picked(Order, {k \in DOMAIN Order : Order[k] \in Sources})
SourceNodes ==
  [k \in DOMAIN Listed |-> [id |-> Listed[k], at |-> fetch[Listed[k]].at, nodes |-> cache[Listed[k]]]]

Builds(f, n) == CASE f = "uri" -> UriBuilds(n)
                  [] f \in {"clash", "singbox"} -> required_string(n)
                  [] f = "ini" -> IniBuilds(n)
Built(f, n) == CASE f = "uri" -> build_share_uri(n)
                 [] f = "clash" -> build_clash_proxy(n)
                 [] f = "singbox" -> build_singbox_node_outbound(n)
                 [] f = "ini" -> node_to_ini_line(n)

Groups(f, t, x) ==
  CASE f = "clash" /\ t.present -> build_proxy_groups_from_template(t, x)
    [] f = "clash" /\ ~t.present -> build_proxy_groups(x.nodes)
    [] f = "singbox" /\ t.present -> build_template_groups(t, x)
    [] f = "singbox" /\ ~t.present -> build_default_groups(x.nodes)
    [] OTHER -> <<>>

Rendered(f, t, x) ==
  IF \E k \in DOMAIN x.nodes : ~Builds(f, x.nodes[k])
  THEN [NoOut EXCEPT !.st = "err", !.fmt = f, !.nodes = x.nodes]
  ELSE [st |-> "ok", fmt |-> f, nodes |-> x.nodes,
        items |-> [k \in DOMAIN x.nodes |-> Built(f, x.nodes[k])],
        groups |-> Groups(f, t, x),
        builtins |-> IF f = "singbox" THEN build_builtin_outbounds(Groups(f, t, x))
                     ELSE {}]

Export(f, tid) ==
  /\ Settled /\ out.st = "none"
  /\ LET t == IF tid \in Sources THEN template[tid] ELSE NoTemplate
         all == Plain(aggregate(SourceNodes))
         x == IF t.present THEN build_template_export_nodes(SourceNodes, tid)
              ELSE [nodes |-> all, appended |-> all] IN
       out' = Rendered(f, t, x)
  /\ UNCHANGED <<net, profile, fetch, cache, template, was, path>>

(***************************************************************************)
(* The export becomes a source of another instance, which is the last one  *)
(* when it has sources of its own too.                                     *)
(***************************************************************************)
Subscribe ==
  /\ out.st = "ok" /\ Len(path) < MaxHops /\ (path = <<>> \/ Sources = {"s1"})
  /\ \E own \in Joining :
       /\ own # Empty => out.groups # <<>>
       /\ net' = own ?? [s1 |-> [fmt |-> out.fmt, items |-> out.items, groups |-> out.groups,
                               flaky |-> FALSE]]
  /\ profile' = "standard"
  /\ fetch' = [s \in DOMAIN net' |-> Todo] /\ cache' = [s \in DOMAIN net' |-> <<>>]
  /\ template' = [s \in DOMAIN net' |-> NoTemplate]
  /\ out' = NoOut /\ was' = out.nodes /\ path' = Append(path, out.fmt)

Formats == {"uri", "clash", "singbox", "ini"}

Fetch == \E s \in Sources : Request(s) \/ Store(s) \/ Reject(s)

Next ==
  \/ Fetch
  \/ \E f \in Formats, tid \in Source \cup {"none"} : Export(f, tid)
  \/ Subscribe

(***************************************************************************)
(* A fetch under way goes on: every request has a timeout.                 *)
(***************************************************************************)
Spec == Init /\ [][Next]_vars /\ WF_vars(Fetch)

-----------------------------------------------------------------------------
(***************************************************************************)
(* What an instance has fetched from another one's export.                 *)
(***************************************************************************)
Relayed == path # <<>> /\ fetch["s1"].st = "done"
Via == Last(path)
Got == cache["s1"]

Secret(n) == Pick(n.extra, Keys)
Unbracketed(h) == IF h = "[v6]" THEN "v6" ELSE h

(***************************************************************************)
(* The endpoint a client will dial: a WireGuard peer replaces the server.  *)
(***************************************************************************)
Endpoints(n) ==
  {<<Unbracketed(n.server), n.port>>}
  \cup IF n.proto = "wireguard" /\ "peers" \in DOMAIN n.extra
       THEN {<<Unbracketed(n.extra["peers"][1]), n.extra["peers"][2]>>} ELSE {}

SameNode(w, n) == w.proto = n.proto /\ Endpoints(w) \cap Endpoints(n) # {}

(***************************************************************************)
(* No hop loses, adds or redirects a node: the next instance has, in       *)
(* order, exactly the nodes that were exported, under the same protocol    *)
(* and endpoint, except the lines its parsers skip: an SSR node with an    *)
(* IPv6 address in a URI list, a name with a separator in an INI line.     *)
(***************************************************************************)
Skipped(f, n) ==
  \/ f = "uri" /\ n.proto = "ssr" /\ Unbracketed(n.server) = "v6"
  \/ f = "ini" /\ Raw(n.name)
NodesKept ==
  Relayed =>
    LET sent == Picked(was, {k \in DOMAIN was : ~Skipped(Via, was[k])}) IN
      /\ Len(Got) = Len(sent)
      /\ \A k \in DOMAIN Got : SameNode(sent[k], Got[k])

(***************************************************************************)
(* Encryption is never lost on the way: a node with TLS comes back with    *)
(* TLS, whatever defaults the formats and their parsers assume for it.     *)
(***************************************************************************)
TlsNeverDropped ==
  Relayed => \A k \in DOMAIN Got :
    \E j \in DOMAIN was : SameNode(was[j], Got[k]) /\ (was[j].tls => Got[k].tls)

(***************************************************************************)
(* A node's credentials come back unchanged, except where the formats do   *)
(* not carry them exactly: a URI's user part is read back still encoded,   *)
(* an INI value ends at a separator, and Clash and sing-box outbounds of   *)
(* Socks5 and HTTP proxies have no password.                               *)
(***************************************************************************)
Credible(f, w, n) ==
  \A k \in DOMAIN Secret(w) :
    \/ k \in DOMAIN n.extra /\ n.extra[k] = w.extra[k]
    \/ f = "uri" /\ w.extra[k][1][1] \in Special
         /\ k \in DOMAIN n.extra /\ n.extra[k] = percent_encode_component(w.extra[k])
    \/ f = "ini" /\ Raw(w.extra[k])
    \/ w.proto \in {"socks5", "http"}
CredentialsKept ==
  Relayed => \A k \in DOMAIN Got :
    \E j \in DOMAIN was : SameNode(was[j], Got[k]) /\ Credible(Via, was[j], Got[k])

(***************************************************************************)
(* A second hop in the same format brings nothing new: what the first one  *)
(* left of a node is exported and read back as it is, apart from the       *)
(* encoding that a URI's user part gains, and the security that a Trojan   *)
(* URI names again once TLS was assumed for one that had turned it off.    *)
(***************************************************************************)
Decoded(n) ==
  [n EXCEPT !.extra = [k \in DOMAIN @ \ (IF n.proto = "trojan" THEN {"security"} ELSE {}) |->
     IF k \in Keys \cup {"auth", "username"} THEN <<@[k][1], 0>> ELSE @[k]]]
RelaySettles ==
  Relayed /\ Len(path) = 2 /\ path[1] = path[2] =>
    /\ Len(Got) = Len(was)
    /\ \A k \in DOMAIN Got : IF Via = "uri" THEN Decoded(Got[k]) = Decoded(was[k])
                            ELSE Got[k] = was[k]

(***************************************************************************)
(* Every member of an exported group is a node, a group or a policy of the *)
(* same configuration, under the name it has there, except a member that   *)
(* already names none of its nodes in the source of the template.          *)
(***************************************************************************)
Dangles(s, m) ==
  /\ \E g \in ToSet(net[s].groups) : m \in ToSet(g.proxies)
  /\ m \notin ToSet(NamesOf(cache[s]))
GroupsResolve ==
  out.st = "ok" => \A g \in ToSet(out.groups) : \A m \in ToSet(g.proxies) :
    \/ m \in ToSet(NamesOf(out.nodes)) \cup {h.name : h \in ToSet(out.groups)}
    \/ m \in IF out.fmt = "clash" THEN {Text("DIRECT"), Text("REJECT")} ELSE out.builtins
    \/ \E s \in Sources : Dangles(s, m)

(***************************************************************************)
(* The names in an export are distinct, as clients require, except a name  *)
(* that the template's source has twice, and a number that makes a name    *)
(* another node already has.                                               *)
(***************************************************************************)
Twice(nodes, name) == \E i, j \in DOMAIN nodes : i < j /\ nodes[i].name = name /\ nodes[j].name = name
NamesDistinct ==
  out.st = "ok" => \A n \in ToSet(out.nodes) :
    \/ ~Twice(out.nodes, n.name)
    \/ \E s \in Sources : template[s].present /\ Twice(cache[s], n.name)
    \/ Last(n.name[1]) = "I" /\ \E s \in Sources : n.name \in ToSet(NamesOf(cache[s]))

(***************************************************************************)
(* Every fetch ends, however often the server asks to try again later.     *)
(***************************************************************************)
FetchEnds == []<>Settled
=============================================================================
