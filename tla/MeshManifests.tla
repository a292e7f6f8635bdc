---------------------------- MODULE MeshManifests ----------------------------
(***************************************************************************)
(* The policies of Istio's mesh: authorization policies                      *)
(* (IstioPolicyYamlParser.py) and sidecars (IstioSidecarYamlParser.py,       *)
(* IstioSidecar.py), both selecting workloads as IstioGenericYamlParser.py    *)
(* does.                                                                      *)
(*                                                                           *)
(* A list of patterns, blocks or numbers is the set of what they match, None  *)
(* when the manifest does not have it.  A principal is <<namespace, service   *)
(* account>>.  A request is <<protocol, port, host, path, method>>.           *)
(***************************************************************************)
EXTENDS GatewayManifests

RootNamespace == "istio-config"  \* a policy here is for all namespaces

\* Without a selector no global peers; an empty one selects everything.
UpdatePolicyPeers(c, ns, selector) ==
  LET peers == IF selector = None THEN NonGlobalPeers(c) ELSE GatewayPeers(c, selector[1])
  IN IF ns = RootNamespace THEN peers ELSE peers \cap GetNamespacePods(c, c.namespaces[ns])
-----------------------------------------------------------------------------
(* Authorization policies.                                                   *)

AllSources(c) == AllPeersGroup(c) \cup {<<"ip", a>> : a \in Ips}
\* What a list and its negative leave of all values.
Dimension(all, values, not_values) == OrElse(values, all) \ OrElse(not_values, {})

PodsOfPrincipals(c, principals) ==
  Keys({p \in c.peers : p.kind = "pod" /\ p.sa # NoName /\ <<p.namespace.name, p.sa>> \in principals})
ParsePrincipals(c, principals, not_principals) ==
  (IF principals = None THEN AllPeersGroup(c) ELSE PodsOfPrincipals(c, principals[1]))
    \ PodsOfPrincipals(c, OrElse(not_principals, {}))

PodsOfNamespaces(c, names) == UNION {GetNamespacePods(c, c.namespaces[n]) : n \in names \cap DOMAIN c.namespaces}
ParseNamespaces(c, names, not_names) ==
  PodsOfNamespaces(c, OrElse(names, DOMAIN c.namespaces)) \ PodsOfNamespaces(c, OrElse(not_names, {}))

ParseIpBlock(ips, not_ips) == {<<"ip", a>> : a \in Dimension(Ips, ips, not_ips)}

\* Addresses are taken to be outside the cluster: together with namespaces or
\* principals they select nothing.
ParseSource(c, s) ==
  LET by_ns == s.namespaces # None \/ s.notNamespaces # None
      by_ip == s.ipBlocks # None \/ s.notIpBlocks # None
      by_principal == s.principals # None \/ s.notPrincipals # None
      all == AllSources(c)
  IN IF by_ip /\ (by_ns \/ by_principal) THEN {}
     ELSE all \cap (IF by_principal THEN ParsePrincipals(c, s.principals, s.notPrincipals) ELSE all)
              \cap (IF by_ns THEN ParseNamespaces(c, s.namespaces, s.notNamespaces)
                    ELSE IF by_ip THEN ParseIpBlock(s.ipBlocks, s.notIpBlocks) ELSE all)

ParseOperation(op) ==
  Protocols \X Dimension(Ports, op.ports, op.notPorts) \X Dimension(Hosts, op.hosts, op.notHosts)
    \X Dimension(Paths, op.paths, op.notPaths) \X Dimension(Methods, op.methods, op.notMethods)

\* The sources that a condition leaves; a condition on the port leaves them all.
ConditionPeers(c, w) ==
  CASE w.key = "source.ip" -> ParseIpBlock(w.values, w.notValues)
    [] w.key = "source.namespace" -> ParseNamespaces(c, w.values, w.notValues)
    [] w.key = "source.principal" -> ParsePrincipals(c, w.values, w.notValues)
    [] OTHER -> AllSources(c)
ConditionPorts(w) == IF w.key = "destination.port" THEN Dimension(Ports, w.values, w.notValues) ELSE Ports

\* parse_ingress_rule: a source, an operation and all conditions.  Operations and
\* conditions, even none in an empty list, are for TCP.
ParseAuthorizationRule(c, rule, selected) ==
  LET sources == IF rule.from = None THEN AllSources(c) ELSE UNION {ParseSource(c, s) : s \in rule.from[1]}
      conditions == OrElse(rule.when, {})
      requests == IF rule.to = None THEN Protocols \X Ports \X Hosts \X Paths \X Methods
                  ELSE {r \in UNION {ParseOperation(op) : op \in rule.to[1]} : r[1] = "TCP"}
      peers == {s \in sources : \A w \in conditions : s \in ConditionPeers(c, w)}
  IN [peers |-> peers,
      conns |-> peers \X selected \X {r \in requests : /\ rule.when # None => r[1] = "TCP"
                                                       /\ \A w \in conditions : r[2] \in ConditionPorts(w)}]

\* Negative blocks alone are parsed over the intervals of all addresses, which are
\* no blocks; the peers that principals are compared with must all be pods; a
\* condition needs values.
SourceRaises(c, ips, not_ips, principals, not_principals) ==
  \/ ips = None /\ not_ips # None
  \/ (principals # None \/ not_principals # None) /\ \E p \in c.peers : p.kind \in {"hep", "ips"}
ConditionRaises(c, w) ==
  \/ w.values = None /\ w.notValues = None
  \/ w.key = "source.ip" /\ SourceRaises(c, w.values, w.notValues, None, None)
  \/ w.key = "source.principal" /\ SourceRaises(c, None, None, w.values, w.notValues)
AuthorizationRaises(c, d) ==
  \/ d.spec /\ d.action = "DENY" /\ d.rules = << >>
  \/ d.spec /\ \E i \in DOMAIN d.rules :
       \/ \E w \in OrElse(d.rules[i].when, {}) : ConditionRaises(c, w)
       \/ \E s \in OrElse(d.rules[i].from, {}) :
            /\ ~(/\ s.ipBlocks # None \/ s.notIpBlocks # None
                 /\ \E f \in {"namespaces", "notNamespaces", "principals", "notPrincipals"} : s[f] # None)
            /\ SourceRaises(c, s.ipBlocks, s.notIpBlocks, s.principals, s.notPrincipals)

\* parse_policy: without a spec the policy is empty.
ParseAuthorization(c, d) ==
  LET selected == UpdatePolicyPeers(c, d.namespace, d.selector)
  IN IF ~d.spec THEN [action |-> "ALLOW", selected |-> {}, rules |-> << >>]
     ELSE
     [action |-> d.action, selected |-> selected,
      rules |-> [i \in DOMAIN d.rules |-> ParseAuthorizationRule(c, d.rules[i], selected)]]
-----------------------------------------------------------------------------
(* Sidecars.  A host is [namespace, name]: the name is [kind |-> "all"],     *)
(* [kind |-> "service", service] or [kind |-> "dns", accepts].                *)

DnsEntries(c) == AtomsOf({p \in c.peers : p.kind = "dns"})
\* DNS entries are exported to all namespaces.
ServicesTargetPeers(c, names) ==
  UNION {c.services[k].target_pods : k \in {x \in DOMAIN c.services : x[1] \in names}} \cup DnsEntries(c)
TargetPodsOf(c, service) == UNION {c.services[k].target_pods : k \in {x \in DOMAIN c.services : x[2] = service}}

\* The namespace part: any, the current, none, or a name.
HostNamespacePeers(c, ns, h) ==
  CASE h.namespace = "*" \/ (h.namespace = "." /\ ns = RootNamespace) -> ServicesTargetPeers(c, {k[1] : k \in DOMAIN c.services})
    [] h.namespace = "." /\ ns # RootNamespace -> ServicesTargetPeers(c, {ns})
    [] h.namespace = "~" -> {}
    [] OTHER -> ServicesTargetPeers(c, {h.namespace})
HostPeers(c, ns, h) ==
  HostNamespacePeers(c, ns, h) \cap
    CASE h.name.kind = "all" -> HostNamespacePeers(c, ns, h)
      [] h.name.kind = "service" -> TargetPodsOf(c, h.name.service)
      [] h.name.kind = "dns" -> AtomsOf({p \in c.peers : p.kind = "dns" /\ p.name[1] \in h.name.accepts})

\* The current namespace of a global sidecar is that of the pod it is for.
ParseEgressRule(c, ns, hosts) ==
  LET special == {h \in hosts : h.namespace = "." /\ ns = RootNamespace}
  IN [egress |-> UNION {HostPeers(c, ns, h) : h \in hosts \ special},
      special |-> UNION {HostPeers(c, ns, h) : h \in special}]

ParseSidecar(c, d) ==
  [name |-> d.name, namespace |-> d.namespace, default |-> d.workloadSelector = None,
   selected |-> UpdatePolicyPeers(c, d.namespace, d.workloadSelector), affects_egress |-> d.egress # None,
   any |-> ~d.registryOnly,
   rules |-> LET egress == OrElse(d.egress, << >>) IN [i \in DOMAIN egress |-> ParseEgressRule(c, d.namespace, egress[i])]]

\* A global sidecar with a selector, a second sidecar without one in a namespace,
\* and a second one that selects a pod are syntax errors.
SidecarsRaise(c, docs) ==
  LET sidecars == [i \in DOMAIN docs |-> ParseSidecar(c, docs[i])]
  IN \E i \in DOMAIN docs :
       \/ docs[i].namespace = RootNamespace /\ docs[i].workloadSelector # None
       \/ \E j \in 1..(i - 1) : /\ sidecars[i].default = sidecars[j].default
                                /\ IF sidecars[i].default THEN sidecars[i].namespace = sidecars[j].namespace
                                   ELSE sidecars[i].selected \cap sidecars[j].selected # {}

\* Mutant: the sidecars without selectors are only compared with those that have one.
RefinedByLabels(specific, sidecars) ==
  LET labelled == UNION {specific[i].selected : i \in DOMAIN specific}
  IN [i \in DOMAIN sidecars |-> [sidecars[i] EXCEPT !.selected = @ \ labelled]]
\* A pod that an earlier one is for is taken out of the later ones.
Refined(specific, sidecars) ==
  LET taken(i) == UNION {specific[j].selected : j \in DOMAIN specific} \cup UNION {sidecars[j].selected : j \in 1..(i - 1)}
  IN [i \in DOMAIN sidecars |-> [sidecars[i] EXCEPT !.selected = @ \ taken(i)]]

\* get_istio_sidecars: those with a selector, those of a namespace, the global ones.
GetIstioSidecars(sidecars) ==
  LET specific == SelectSeq(sidecars, LAMBDA s : ~s.default)
      defaults == SelectSeq(sidecars, LAMBDA s : s.default /\ s.namespace # RootNamespace)
      globals == SelectSeq(sidecars, LAMBDA s : s.default /\ s.namespace = RootNamespace)
  IN specific \o Refined(specific, defaults \o globals)

\* combine_peer_sets_by_ns
SameNamespace(c, from, to) ==
  UNION {(from \cap GetNamespacePods(c, p.namespace)) \X (to \cap GetNamespacePods(c, p.namespace)) :
           p \in {q \in c.peers : q.kind # "ips" /\ Key(q) \in from}}
\* create_opt_egress_props
EgressProps(c, sidecar) ==
  LET pairs(rule) == (IF sidecar.any THEN sidecar.selected \X {<<"ip", a>> : a \in Ips} ELSE {})
                       \cup (sidecar.selected \X rule.egress) \cup SameNamespace(c, sidecar.selected, rule.special)
      entries(rule) == sidecar.selected \X (DnsEntries(c) \cap (rule.egress \cup rule.special))
      conns(rule) == (pairs(rule) \X Protocols) \cup (entries(rule) \X {"TCP"})
  IN UNION {conns(sidecar.rules[i]) : i \in DOMAIN sidecar.rules}

ParseSidecars(c, docs) ==
  LET sidecars == GetIstioSidecars([i \in DOMAIN docs |-> ParseSidecar(c, docs[i])])
  IN [i \in DOMAIN sidecars |->
        [name |-> sidecars[i].name, namespace |-> sidecars[i].namespace, selected |-> sidecars[i].selected,
         affects_egress |-> sidecars[i].affects_egress, conns |-> EgressProps(c, sidecars[i])]]

\* The namespaces the parsers ask the container for.
SidecarNamespaces(docs) ==
  LET named(d) == UNION {{h.namespace : h \in d.egress[1][i]} : i \in DOMAIN OrElse(d.egress, << >>)}
  IN UNION {{docs[i].namespace} \cup named(docs[i]) : i \in DOMAIN docs} \ {"*", ".", "~"}
=============================================================================
