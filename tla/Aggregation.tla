---------------------------- MODULE Aggregation ----------------------------
(***************************************************************************)
(* What an export does with the nodes of a profile's sources: they are     *)
(* deduplicated and renamed (app-aggregator), joined with the nodes of the *)
(* source whose routing template the profile uses (template_export.rs),    *)
(* and put into groups (app-transform).  No parser sets a node's region,   *)
(* so the groups by region stay empty and are left out.                    *)
(*                                                                         *)
(* A source is [id, at, nodes]: `at` is when its nodes were fetched.  A    *)
(* name's label is the id of its source in brackets, and the number k      *)
(* after it the part "#" and k - 1 tallies.                                *)
(***************************************************************************)
EXTENDS ClientConfigs, SequencesExt

Labelled(t, id) == <<t[1] \o <<"(", id, ")">>, t[2]>>
Numbered(t, k) == <<t[1] \o [i \in 1..k |-> IF i = 1 THEN "#" ELSE "I"], t[2]>>
to_ascii_lowercase(h) == IF h = "DNS" THEN "dns" ELSE h
NamesOf(nodes) == [i \in DOMAIN nodes |-> nodes[i].name]

(***************************************************************************)
(* The elements of a sequence at the places in S, in order.                *)
(***************************************************************************)
Places(n, S) ==
  FoldLeft(LAMBDA acc, i : IF i \in S THEN Append(acc, i) ELSE acc, <<>>, [i \in 1..n |-> i])
Picked(s, S) ==
  LET at == Places(Len(s), S) IN [k \in DOMAIN at |-> s[at[k]]]

(***************************************************************************)
(* Two nodes are the same when they differ in nothing but their name, the  *)
(* case of their server, and the password beside a UUID.                   *)
(***************************************************************************)
extract_credential(n) == IF Has(n, {"uuid"}) THEN n.extra["uuid"]
                         ELSE IF Has(n, {"password"}) THEN n.extra["password"] ELSE None
build_dedupe_key(n) ==
  [proto |-> n.proto, server |-> to_ascii_lowercase(n.server), port |-> n.port,
   credential |-> extract_credential(n), transport |-> n.transport, tls |-> n.tls,
   sni |-> n.sni, extra |-> Pick(n.extra, DOMAIN n.extra \ {"uuid", "password"})]

(***************************************************************************)
(* Of equal nodes the newest is kept, at the place of the first.           *)
(***************************************************************************)
Owned(s) == [i \in DOMAIN s.nodes |-> [node |-> s.nodes[i], at |-> s.at, id |-> s.id]]
AllOwned(ss) == FoldLeft(LAMBDA acc, s : acc \o Owned(s), <<>>, ss)

dedupe_nodes(ss) ==
  FoldLeft(LAMBDA acc, c :
    LET same == {i \in DOMAIN acc : build_dedupe_key(acc[i].node) = build_dedupe_key(c.node)} IN
      IF same = {} THEN Append(acc, c)
      ELSE [i \in DOMAIN acc |-> IF i \in same /\ c.at >= acc[i].at THEN c ELSE acc[i]],
    <<>>, AllOwned(ss))

(***************************************************************************)
(* Nodes that share a name are labelled with their source; those that      *)
(* still share one are numbered.                                           *)
(***************************************************************************)
resolve_name_conflicts(os) ==
  LET labelled == [i \in DOMAIN os |->
        IF \E j \in DOMAIN os \ {i} : os[j].node.name = os[i].node.name
        THEN [os[i] EXCEPT !.node.name = Labelled(@, os[i].id)] ELSE os[i]]
      rank(i) == Cardinality({j \in 1..i : labelled[j].node.name = labelled[i].node.name}) IN
    [i \in DOMAIN os |->
       IF rank(i) = 1 THEN labelled[i]
       ELSE [labelled[i] EXCEPT !.node.name = Numbered(@, rank(i))]]

aggregate(ss) == resolve_name_conflicts(dedupe_nodes(ss))

-----------------------------------------------------------------------------
(***************************************************************************)
(* With a template the nodes of its source come first, under their own     *)
(* names; the others lose what the template has and every name in use.     *)
(***************************************************************************)
LabelledConflicts(template, appended) ==  \* mutant
  [i \in DOMAIN appended |->
     IF appended[i].node.name \notin ToSet(NamesOf(template)) THEN appended[i]
     ELSE [appended[i] EXCEPT !.node.name = Labelled(@, appended[i].id)]]

rename_appended_conflicts(template, appended) ==
  FoldLeft(LAMBDA acc, c :
    LET used == ToSet(NamesOf(template)) \cup {acc[i].node.name : i \in DOMAIN acc}
        label == Labelled(c.node.name, c.id)
        k == CHOOSE k \in 2..(Cardinality(used) + 2) :
               /\ Numbered(label, k) \notin used
               /\ \A l \in 2..(k - 1) : Numbered(label, l) \in used
        name == IF c.node.name \notin used THEN c.node.name
                ELSE IF label \notin used THEN label ELSE Numbered(label, k) IN
      Append(acc, [c EXCEPT !.node.name = name]),
    <<>>, appended)

Plain(os) == [i \in DOMAIN os |-> os[i].node]

NodesFrom(ss, tid) ==
  LET found == {i \in DOMAIN ss : ss[i].id = tid} IN
    IF found = {} THEN <<>> ELSE ss[Min(found)].nodes

AppendedBeforeDedupe(ss, tid) ==  \* mutant
  LET template == NodesFrom(ss, tid)
      keys == {build_dedupe_key(template[i]) : i \in DOMAIN template}
      others == aggregate(Picked(ss, {i \in DOMAIN ss : ss[i].id # tid}))
      fresh == Picked(others, {i \in DOMAIN others : build_dedupe_key(others[i].node) \notin keys}) IN
    [nodes |-> template \o Plain(rename_appended_conflicts(template, fresh)),
     appended |-> Plain(rename_appended_conflicts(template, others))]

build_template_export_nodes(ss, tid) ==
  LET template == NodesFrom(ss, tid)
      keys == {build_dedupe_key(template[i]) : i \in DOMAIN template}
      others == aggregate(Picked(ss, {i \in DOMAIN ss : ss[i].id # tid}))
      fresh == Picked(others, {i \in DOMAIN others : build_dedupe_key(others[i].node) \notin keys})
      appended == Plain(rename_appended_conflicts(template, fresh)) IN
    IF template = <<>>
    THEN [nodes |-> Plain(aggregate(ss)), appended |-> Plain(aggregate(ss))]
    ELSE [nodes |-> template \o appended, appended |-> appended]

-----------------------------------------------------------------------------
(***************************************************************************)
(* Groups.                                                                 *)
(***************************************************************************)
Group(name, members) ==
  [name |-> name, proxies |-> members, include_all |-> FALSE, filter |-> ""]
is_builtin_policy(m) == m \in {Text("DIRECT"), Text("REJECT"), Text("direct")}
push_unique_proxy_name(seq, m) == IF m \in ToSet(seq) THEN seq ELSE Append(seq, m)
PushAll(seq, ms) == FoldLeft(push_unique_proxy_name, seq, ms)

build_proxy_groups(nodes) ==
  <<Group(Text("Select"), PushAll(<<Text("Auto")>>, NamesOf(nodes))),
    Group(Text("Auto"), NamesOf(nodes))>>

build_default_groups(nodes) ==
  <<Group(Text("select"), PushAll(<<Text("auto")>>, NamesOf(nodes))),
    Group(Text("auto"), NamesOf(nodes))>>

normalize_policy_reference(m) ==
  CASE m \in {Text("DIRECT"), Text("direct")} -> Text("direct")
    [] m = Text("REJECT") -> Text("block")
    [] OTHER -> m

filter_group_candidate_nodes(names, filter) ==
  Picked(names, {i \in DOMAIN names : filter = "" \/ names[i][1][1] = filter})

(***************************************************************************)
(* A template's group keeps its members and takes up the appended nodes    *)
(* where it listed nodes, or all nodes where it included all.  Templates   *)
(* stored before preserve_original_proxy_names existed name nodes that are *)
(* gone: their places are filled with the appended nodes.                  *)
(***************************************************************************)
TemplateGroup(t, g, x, singbox) ==
  LET norm(m) == IF singbox THEN normalize_policy_reference(m) ELSE m
      groups == {t.groups[i].name : i \in DOMAIN t.groups}
      isNode(m) == m \notin groups /\ ~is_builtin_policy(m)
      slot == \E i \in DOMAIN g.proxies : isNode(g.proxies[i])
      all == g.proxies = <<>> /\ g.include_all
      candidates == IF slot THEN filter_group_candidate_nodes(NamesOf(x.appended), g.filter)
                    ELSE IF all THEN filter_group_candidate_nodes(NamesOf(x.nodes), g.filter)
                    ELSE <<>>
      kept == PushAll(<<>>, [i \in DOMAIN g.proxies |-> norm(g.proxies[i])])
      filled == FoldLeft(LAMBDA acc, m :
                  IF isNode(m) THEN PushAll(acc, candidates)
                  ELSE push_unique_proxy_name(acc, norm(m)), <<>>, g.proxies) IN
    Group(g.name, IF t.preserve THEN PushAll(kept, candidates)
                  ELSE PushAll(filled, candidates))

build_proxy_groups_from_template(t, x) ==
  IF t.groups = <<>> THEN build_proxy_groups(x.nodes)
  ELSE [i \in DOMAIN t.groups |-> TemplateGroup(t, t.groups[i], x, FALSE)]

build_template_groups(t, x) ==
  IF t.groups = <<>> THEN build_default_groups(x.nodes)
  ELSE [i \in DOMAIN t.groups |-> TemplateGroup(t, t.groups[i], x, TRUE)]

build_builtin_outbounds(groups) ==
  {m \in {Text("direct"), Text("block")} :
     \E i \in DOMAIN groups : m \in ToSet(groups[i].proxies)}

(***************************************************************************)
(* The template read from a configuration.                                 *)
(***************************************************************************)
NoTemplate == [groups |-> <<>>, preserve |-> FALSE, present |-> FALSE]
into_clash_template(groups) ==
  [groups |-> groups, preserve |-> TRUE, present |-> TRUE]
=============================================================================
