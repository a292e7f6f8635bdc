---------------------------- MODULE K8sManifests ----------------------------
(***************************************************************************)
(* What the parser of Kubernetes network policies makes of a manifest        *)
(* (K8sPolicyYamlParser.py): the peers the policy selects, the directions it  *)
(* affects, the connections of its rules and the labels no peer was found     *)
(* for, over a container and the numbering of peers.                          *)
(*                                                                           *)
(* A selector is None or has matchLabels, a sequence of <<key, value>>, and   *)
(* matchExpressions, a set of requirements; a field that a manifest does not  *)
(* have is Null.  The syntax of keys, values and names is taken as checked.   *)
(***************************************************************************)
EXTENDS PolicyConnections

Selector(labels, exprs) == [matchLabels |-> labels, matchExpressions |-> exprs]
Everything == Selector(<< >>, {})

ParseLabelSelectorRequirement(c, ns, req, namespace_selector) ==
  IF req.operator \in {"In", "NotIn"}
  THEN IF namespace_selector THEN GetNamespacePodsWithLabel(c, req.key, req.values, req.operator)
       ELSE GetPeersWithLabel(c, req.key, req.values, req.operator, NoNamespace)
  ELSE IF namespace_selector THEN GetNamespacePodsWithKey(c, req.key, req.operator = "DoesNotExist")
       ELSE GetPeersWithKey(c, ns, req.key, req.operator = "DoesNotExist")

MatchLabel(c, kv, namespace_selector) ==
  IF namespace_selector THEN GetNamespacePodsWithLabel(c, kv[1], {kv[2]}, "In")
  ELSE GetPeersWithLabel(c, kv[1], {kv[2]}, "In", NoNamespace)

\* The peers that have the labels, one label after the other.
MatchLabels(c, labels, namespace_selector) ==
  FoldLeft(LAMBDA acc, kv : acc \cap MatchLabel(c, kv, namespace_selector), AllPeersGroup(c), labels)

\* No selector selects nothing, an empty one everything.
ParseLabelSelector(c, ns, sel, namespace_selector) ==
  IF sel = Null THEN {}
  ELSE MatchLabels(c, sel.matchLabels, namespace_selector)
         \cap {a \in AllPeersGroup(c) : \A req \in sel.matchExpressions :
                 a \in ParseLabelSelectorRequirement(c, ns, req, namespace_selector)}

\* The labels after which nothing was left: those of the missing resources.
MissingPodsWithLabels(c, sel, namespace_selector) ==
  IF sel = Null THEN {}
  ELSE {sel.matchLabels[i] : i \in {j \in DOMAIN sel.matchLabels :
          MatchLabels(c, SubSeq(sel.matchLabels, 1, j), namespace_selector) = {}}}

\* Mutant: a podSelector alone selects pods of every namespace.
ParsePeerOfAnyNamespace(c, ns, peer) ==
  IF peer.ipBlock # Null THEN {<<"ip", a>> : a \in peer.ipBlock.cidr \ peer.ipBlock.except}
  ELSE (IF peer.podSelector # Null THEN ParseLabelSelector(c, ns, peer.podSelector, FALSE) ELSE AllPeersGroup(c))
         \cap (IF peer.namespaceSelector # Null THEN ParseLabelSelector(c, ns, peer.namespaceSelector, TRUE)
               ELSE AllPeersGroup(c))

\* An element of a rule's from or to: addresses, or pods of the namespaces that
\* are selected (of the policy's own namespace when none are).
ParsePeer(c, ns, peer) ==
  IF peer.ipBlock # Null THEN {<<"ip", a>> : a \in peer.ipBlock.cidr \ peer.ipBlock.except}
  ELSE LET res == IF peer.namespaceSelector # Null
                  THEN ParseLabelSelector(c, ns, peer.namespaceSelector, TRUE)
                  ELSE GetNamespacePods(c, ns)
       IN IF peer.podSelector # Null THEN ParseLabelSelector(c, ns, peer.podSelector, FALSE) \cap res ELSE res

\* No port is every port; a port is a name, a number, or the first of a range.
ParsePort(port) ==
  CASE port.port = Null -> PortSet(TRUE)
    [] port.port.named -> AddNamedPort(PortSet(FALSE), port.port.name)
    [] OTHER -> AddPortRange(PortSet(FALSE), port.port.number, port.endPort)

\* A rule with no from or to is about everyone, one with no ports about every port.
ParseIngressEgressRule(c, base, ns, rule, selected, is_ingress) ==
  LET peers == IF rule.peers = {} THEN AllPeersAndIps(c, Ips)
               ELSE UNION {ParsePeer(c, ns, peer) : peer \in rule.peers}
      cube == IF is_ingress THEN AllCube(peers, selected) ELSE AllCube(selected, peers)
  IN [peers |-> peers,
      conns |-> IF rule.ports = {} THEN MakeConnProps(base, cube)
                ELSE UNION {MakeConnProps(base, [cube EXCEPT !.protocols = {port.protocol},
                                                             !.dports = ParsePort(port)]) : port \in rule.ports}]

\* policyTypes, or by what the spec has: ingress always, egress when it is there.
AffectsIngress(spec) == spec.policyTypes = {} \/ "Ingress" \in spec.policyTypes
AffectsEgress(spec) ==
  "Egress" \in spec.policyTypes \/ (spec.policyTypes = {} /\ spec.egress # Null)
\* Otherwise the parser stops with a syntax error.
LegalSpec(spec) ==
  /\ ~AffectsIngress(spec) => spec.ingress = Null
  /\ ~AffectsEgress(spec) => spec.egress = Null

RulesOf(field) == IF field = Null THEN << >> ELSE field.rules

\* The selectors of a policy in the order in which they are parsed.
RuleSelectors(rule) ==
  UNION {{<<p.namespaceSelector, TRUE>>, <<p.podSelector, FALSE>>} : p \in {q \in rule.peers : q.ipBlock = Null}}
SelectorsOf(spec) ==
  {<<spec.podSelector, FALSE>>}
    \cup UNION {RuleSelectors(r) : r \in Range(RulesOf(spec.ingress)) \cup Range(RulesOf(spec.egress))}

\* parse_policy, over the container its get_namespace has updated.
ParseK8sPolicy(c, base, policy) ==
  LET ns == c.namespaces[policy.namespace]
      spec == policy.spec
      selected == ParseLabelSelector(c, ns, spec.podSelector, FALSE) \cap GetNamespacePods(c, ns)
      parsed(field, is_ingress) ==
        [i \in DOMAIN RulesOf(field) |->
           ParseIngressEgressRule(c, base, ns, RulesOf(field)[i], selected, is_ingress)]
  IN [name |-> policy.name, namespace |-> policy.namespace, kind |-> "K8sNetworkPolicy",
      selected |-> selected, affects_ingress |-> AffectsIngress(spec), affects_egress |-> AffectsEgress(spec),
      ingress |-> parsed(spec.ingress, TRUE), egress |-> parsed(spec.egress, FALSE),
      missing |-> UNION {MissingPodsWithLabels(c, s[1], s[2]) : s \in SelectorsOf(spec)}]
=============================================================================
