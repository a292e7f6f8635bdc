--------------------------- MODULE PolicyManifests ---------------------------
(***************************************************************************)
(* The parsers of policies, of Ingress resources, of Istio's gateways and of *)
(* the policies of its mesh against a reading of the manifests, connection by *)
(* connection.  The parsers compute with sets of peers and cubes; the reading *)
(* asks of one connection between pods and addresses whether a rule, as it is *)
(* written, is about it.                                                      *)
(***************************************************************************)
EXTENDS K8sManifests, CalicoManifests, MeshManifests

CONSTANTS
  Topologies,      \* containers, each with the numbering of its peers
  GatewayTopologies,
  MeshTopologies,
  K8sPolicies,     \* the manifests
  CalicoPolicies,
  IngressPolicies,
  IstioManifests,  \* gateways and virtual services together
  AuthorizationPolicies,
  SidecarLists,    \* sidecars in the order they are read
  Selectors        \* Calico's selector expressions, as trees

VARIABLES
  topology, \* [container, base]
  manifest, \* what is parsed: a policy, or an expression and how it is used
  parsed    \* what the parser made of it, Null before

vars == <<topology, manifest, parsed>>

(* The expressions as trees, and as the tokens with no bracket too many. *)
Leaf(atom) == [node |-> "atom", atom |-> atom]
Not(e) == [node |-> "!", of |-> e]
And(e, f) == [node |-> "&&", left |-> e, right |-> f]
Or(e, f) == [node |-> "||", left |-> e, right |-> f]

Bracketed(tokens) == <<Sign("(")>> \o tokens \o <<Sign(")")>>
RECURSIVE Written(_)
Written(e) ==
  LET inner(f, bracketed) == IF f.node \in bracketed THEN Bracketed(Written(f)) ELSE Written(f)
  IN CASE e.node = "atom" -> <<e.atom>>
       [] e.node = "!" -> <<Sign("!")>> \o inner(e.of, {"&&", "||"})
       [] e.node = "&&" -> inner(e.left, {"||"}) \o <<Sign("&&")>> \o inner(e.right, {"||"})
       [] e.node = "||" -> Written(e.left) \o <<Sign("||")>> \o Written(e.right)

Init ==
  /\ \/ /\ topology \in Topologies
        /\ manifest \in K8sPolicies \cup CalicoPolicies
                        \cup [kind : {"Selector"}, tree : Selectors, of_namespaces : BOOLEAN]
     \/ topology \in GatewayTopologies /\ manifest \in IngressPolicies \cup IstioManifests
     \/ topology \in MeshTopologies /\ manifest \in AuthorizationPolicies \cup SidecarLists
  /\ parsed = Null

\* A policy that is not legal ends with a syntax error.
ParseK8s ==
  /\ parsed = Null /\ manifest.kind = "K8sNetworkPolicy" /\ LegalSpec(manifest.spec)
  /\ topology' = [topology EXCEPT !.container = GetNamespace(@, manifest.namespace)]
  /\ parsed' = ParseK8sPolicy(topology'.container, topology.base, manifest)
  /\ UNCHANGED manifest

ParseCalico ==
  /\ parsed = Null /\ manifest.kind \in {"CalicoNetworkPolicy", "CalicoGlobalNetworkPolicy", "CalicoProfile"}
  /\ LegalCalicoSpec(manifest.spec)
  /\ topology' = IF manifest.kind = "CalicoNetworkPolicy"
                 THEN [topology EXCEPT !.container = GetNamespace(@, manifest.namespace)] ELSE topology
  /\ parsed' = ParseCalicoPolicy(topology'.container, topology.base, manifest)
  /\ UNCHANGED manifest

ParseSelector ==
  /\ parsed = Null /\ manifest.kind = "Selector"
  /\ parsed' = [selected |-> RecursiveParseLabelSelector(topology.container, Written(manifest.tree), NoNamespace,
                                                        manifest.of_namespaces)]
  /\ UNCHANGED <<topology, manifest>>

ParseIngress ==
  /\ parsed = Null /\ manifest.kind = "Ingress"
  /\ topology' = [topology EXCEPT !.container = GetNamespace(@, manifest.namespace)]
  /\ ~IngressRaises(topology'.container, manifest)
  /\ \E last \in AllAtoms(topology.base) :
       parsed' = ParseIngressPolicy(topology'.container, topology.base, manifest, last)
  /\ UNCHANGED manifest

ParseIstioGateways ==
  /\ parsed = Null /\ manifest.kind = "Istio" /\ ~IstioRaises(topology.container, manifest)
  /\ parsed' = ParseIstio(topology.container, topology.base, manifest)
  /\ topology' = [topology EXCEPT !.container =
                    FoldLeft(GetNamespace, @, SetToSeq(MentionedIn(@, manifest, parsed'.policies)))]
  /\ UNCHANGED manifest

ParseAuthorizationPolicy ==
  /\ parsed = Null /\ manifest.kind = "AuthorizationPolicy"
  /\ topology' = [topology EXCEPT !.container = GetNamespace(@, manifest.namespace)]
  /\ ~AuthorizationRaises(topology'.container, manifest)
  /\ parsed' = ParseAuthorization(topology'.container, manifest)
  /\ UNCHANGED manifest

ParseAllSidecars ==
  /\ parsed = Null /\ manifest.kind = "Sidecars"
  /\ topology' = [topology EXCEPT !.container = FoldLeft(GetNamespace, @, SetToSeq(SidecarNamespaces(manifest.docs)))]
  /\ ~SidecarsRaise(topology'.container, manifest.docs)
  /\ parsed' = [sidecars |-> ParseSidecars(topology'.container, manifest.docs)]
  /\ UNCHANGED manifest

Next == \/ ParseK8s \/ ParseCalico \/ ParseSelector
        \/ ParseIngress \/ ParseIstioGateways \/ ParseAuthorizationPolicy \/ ParseAllSidecars
Spec == Init /\ [][Next]_vars
-----------------------------------------------------------------------------
(* The reading.  A pod is its record, an address is [ip |-> a].              *)

PodsOf(c) == {p \in c.peers : p.kind = "pod"}
AtomOf(e) == IF "ip" \in DOMAIN e THEN <<"ip", e.ip>> ELSE Key(e)
IsPod(e) == "ip" \notin DOMAIN e
\* The addresses of network sets also answer to the sets' labels: left out.
SetIps(c) == UNION {p.ips : p \in c.peers}
Ends(c) == PodsOf(c) \cup [ip : Ips \ SetIps(c)]
DetailsOf(protocol) == CASE protocol \in PortProtocols -> Ports \X Ports
                         [] protocol = "ICMP" -> IcmpTypes \X IcmpCodes
                         [] OTHER -> {<<0, 0>>}
Connections(c) ==
  UNION {[src : Ends(c), dst : Ends(c), protocol : {protocol}, detail : DetailsOf(protocol)] : protocol \in Protocols}
Tuple(x) == <<AtomOf(x.src), AtomOf(x.dst), x.protocol, x.detail[1], x.detail[2]>>
\* The connections of a parsed rule, without those of host endpoints and the like.
ConnsOf(c, rule) == rule.conns \cap {Tuple(x) : x \in Connections(c)}

LabelIs(labels, extra, key, values) ==
  \E f \in {labels, extra} : key \in DOMAIN f /\ f[key] \in values
Satisfies(labels, extra, req) ==
  CASE req.operator = "In" -> LabelIs(labels, extra, req.key, req.values)
    [] req.operator = "NotIn" -> ~LabelIs(labels, extra, req.key, req.values)
    [] req.operator = "Exists" -> req.key \in DOMAIN labels \cup DOMAIN extra
    [] req.operator = "DoesNotExist" -> req.key \notin DOMAIN labels \cup DOMAIN extra
Selects(sel, labels, extra) ==
  /\ \A i \in DOMAIN sel.matchLabels : LabelIs(labels, extra, sel.matchLabels[i][1], {sel.matchLabels[i][2]})
  /\ \A req \in sel.matchExpressions : Satisfies(labels, extra, req)

\* The peer of a rule is about e: addresses of the block, or pods by their own
\* labels and those of their namespace.
PeerReads(peer, ns, e) ==
  IF peer.ipBlock # Null THEN ~IsPod(e) /\ e.ip \in peer.ipBlock.cidr /\ e.ip \notin peer.ipBlock.except
  ELSE /\ IsPod(e)
       /\ IF peer.namespaceSelector = Null THEN e.namespace.name = ns
          ELSE Selects(peer.namespaceSelector, e.namespace.labels, Empty)
       /\ peer.podSelector # Null => Selects(peer.podSelector, e.labels, e.extra_labels)

NamedPortIs(e, name, protocol, number) ==
  IsPod(e) /\ name \in DOMAIN e.named_ports /\ e.named_ports[name] = <<number, protocol>>
K8sPortReads(port, x) ==
  /\ x.protocol = port.protocol
  /\ port.port # Null =>
       IF port.port.named THEN NamedPortIs(x.dst, port.port.name, x.protocol, x.detail[2])
       ELSE x.detail[2] \in port.port.number..port.endPort

K8sRuleReads(policy, rule, is_ingress, x) ==
  LET captured == IF is_ingress THEN x.dst ELSE x.src
      other == IF is_ingress THEN x.src ELSE x.dst
  IN /\ IsPod(captured) /\ captured.namespace.name = policy.namespace
     /\ Selects(policy.spec.podSelector, captured.labels, captured.extra_labels)
     /\ rule.peers = {} \/ \E peer \in rule.peers : PeerReads(peer, policy.namespace, other)
     /\ rule.ports = {} \/ \E port \in rule.ports : K8sPortReads(port, x)

\* The requirements that the parser looks at in the namespace of the policy only.
KeyInOtherNamespaces(rule) ==
  \E peer \in rule.peers : /\ peer.namespaceSelector # Null /\ peer.podSelector # Null
                           /\ \E req \in peer.podSelector.matchExpressions : req.operator \in {"Exists", "DoesNotExist"}

K8sParsed == parsed # Null /\ manifest.kind = "K8sNetworkPolicy"
K8sRules(is_ingress) == RulesOf(IF is_ingress THEN manifest.spec.ingress ELSE manifest.spec.egress)
ParsedRules(is_ingress) == IF is_ingress THEN parsed.ingress ELSE parsed.egress
ReadConns(c, Is(_)) == {Tuple(x) : x \in {y \in Connections(c) : Is(y)}}

\* A parsed rule of a Kubernetes policy (parse_ingress_egress_rule) has exactly
\* the connections between pods and addresses that the manifest's selectors,
\* blocks and ports describe, unless it asks for a key in other namespaces.
K8sRulesReadAsWritten ==
  K8sParsed => \A is_ingress \in BOOLEAN : \A i \in DOMAIN K8sRules(is_ingress) :
    LET rule == K8sRules(is_ingress)[i]
    IN KeyInOtherNamespaces(rule)
       \/ ConnsOf(topology.container, ParsedRules(is_ingress)[i])
            = ReadConns(topology.container, LAMBDA x : K8sRuleReads(manifest, rule, is_ingress, x))

-----------------------------------------------------------------------------
AtomReads(atom, labels, extra) ==
  CASE atom.op = "all" -> TRUE
    [] atom.op = "global" -> FALSE
    [] atom.op = "has" -> atom.key \in DOMAIN labels \cup DOMAIN extra
    [] atom.op \in {"==", "in", "contains"} -> LabelIs(labels, extra, atom.key, atom.values)
    [] atom.op \in {"!=", "not in"} -> ~LabelIs(labels, extra, atom.key, atom.values)
RECURSIVE Reads(_, _, _)
Reads(e, labels, extra) ==
  CASE e.node = "atom" -> AtomReads(e.atom, labels, extra)
    [] e.node = "!" -> ~Reads(e.of, labels, extra)
    [] e.node = "&&" -> Reads(e.left, labels, extra) /\ Reads(e.right, labels, extra)
    [] e.node = "||" -> Reads(e.left, labels, extra) \/ Reads(e.right, labels, extra)

\* Calico's selectors: cutting the text at the operators outside brackets, ||
\* before && before ! (_recursive_parse_label_selector), selects the pods for
\* which the expression is true, however it nests.
SelectorsReadAsWritten ==
  parsed # Null /\ manifest.kind = "Selector" =>
    parsed.selected \cap Keys(PodsOf(topology.container))
      = Keys({p \in PodsOf(topology.container) :
                IF manifest.of_namespaces THEN Reads(manifest.tree, p.namespace.labels, Empty)
                ELSE Reads(manifest.tree, p.labels, p.extra_labels)})

\* The selectors in the rules of the manifests are atomic.
SelectorReads(sel, labels, extra) == sel = << >> \/ AtomReads(Head(sel), labels, extra)
EntityReads(entity, ns, e) ==
  LET by_ips == entity.nets # {} \/ entity.notNets # {}
      by_labels == entity.namespaceSelector # << >> \/ entity.selector # << >>
      own == ns = NoName \/ entity.namespaceSelector # << >> \/ e.namespace.name = ns
  IN /\ ~(by_ips /\ by_labels)
     /\ by_ips => ~IsPod(e) /\ (entity.nets # {} => e.ip \in entity.nets) /\ e.ip \notin entity.notNets
     /\ by_labels => /\ IsPod(e)
                     /\ SelectorReads(entity.namespaceSelector, e.namespace.labels, Empty)
                     /\ SelectorReads(entity.selector, e.labels, e.extra_labels)
                     /\ entity.selector # << >> => own
     /\ ~(/\ entity.notSelector # << >> /\ IsPod(e) /\ own
          /\ SelectorReads(entity.notSelector, e.labels, e.extra_labels))

CalicoPortIs(port, e, protocol, number) ==
  IF port.named THEN NamedPortIs(e, port.name, protocol, number) ELSE number \in port.number..port.last
PortsRead(entity, e, protocol, number) ==
  LET Listed(option) == {p \in ToSet(OrElse(option, << >>)) : CalicoPortIs(p, e, protocol, number)}
  IN (entity.ports = None \/ Listed(entity.ports) # {}) /\ Listed(entity.notPorts) = {}
IcmpIs(icmp, detail) == icmp.type = detail[1] /\ icmp.code \in {NoNumber, detail[2]}

CalicoRuleReads(policy, rule, is_ingress, x) ==
  LET captured == IF is_ingress THEN x.dst ELSE x.src
      ns == IF policy.kind = "CalicoNetworkPolicy" THEN policy.namespace ELSE NoName
      ports == x.protocol \in PortProtocols
      icmp == x.protocol = "ICMP"
  IN /\ AtomOf(captured) \in parsed.selected
     /\ rule.protocol # NoName => x.protocol = rule.protocol
     /\ rule.notProtocol # NoName => x.protocol # rule.notProtocol
     /\ rule.source # Null => /\ EntityReads(rule.source, ns, x.src)
                              /\ ports => PortsRead(rule.source, x.src, x.protocol, x.detail[1])
     /\ rule.destination # Null => /\ EntityReads(rule.destination, ns, x.dst)
                                   /\ ports => PortsRead(rule.destination, x.dst, x.protocol, x.detail[2])
     /\ icmp /\ rule.icmp # Null => IcmpIs(rule.icmp, x.detail)
     /\ icmp /\ rule.notICMP # Null => ~IcmpIs(rule.notICMP, x.detail)

\* Fields the parser warns about, the numbers it takes for absent, and a number
\* among the notPorts that a name among the ports may stand for.
NameAgainstNumber(entity) ==
  /\ entity # Null /\ entity.ports # None /\ entity.notPorts # None
  /\ \E p \in ToSet(entity.ports[1]) : p.named
  /\ \E p \in ToSet(entity.notPorts[1]) : ~p.named
Zero(icmp) == icmp # Null /\ (icmp.type = 0 \/ icmp.code = 0)
Doubtful(rule) ==
  \/ rule.protocol # NoName /\ rule.notProtocol # NoName
  \/ NameAgainstNumber(rule.destination) \/ Zero(rule.icmp) \/ Zero(rule.notICMP)
  \/ rule.icmp # Null /\ rule.notICMP # Null /\ rule.icmp.type = rule.notICMP.type
     /\ (rule.icmp.code # NoNumber \/ rule.notICMP.code = NoNumber)

CalicoParsed == parsed # Null /\ manifest.kind \in {"CalicoNetworkPolicy", "CalicoGlobalNetworkPolicy", "CalicoProfile"}
CalicoRules(is_ingress) ==
  LET field == IF is_ingress THEN manifest.spec.ingress ELSE manifest.spec.egress
  IN IF field = Null THEN << >> ELSE field.rules

\* A parsed rule of a Calico policy (_parse_xgress_rule) has exactly the
\* connections between pods and addresses that its source, destination, ports,
\* protocols and icmp fields describe; the fields the parser warns about and the
\* icmp numbers 0 are left to the other properties.
CalicoRulesReadAsWritten ==
  CalicoParsed => \A is_ingress \in BOOLEAN : \A i \in DOMAIN CalicoRules(is_ingress) :
    LET rule == CalicoRules(is_ingress)[i]
    IN Doubtful(rule)
       \/ ConnsOf(topology.container, ParsedRules(is_ingress)[i])
            = ReadConns(topology.container, LAMBDA x : CalicoRuleReads(manifest, rule, is_ingress, x))
-----------------------------------------------------------------------------
(* The reading of gateways, request by request.                              *)

RequestsOf(c) ==
  [src : Keys(c.peers), dst : Keys(c.peers), port : Ports, host : Hosts, path : Paths, method : Methods]
Request(x) == <<x.src, x.dst, x.port, x.host, x.path, x.method>>
ReadRequests(c, Is(_)) == {Request(x) : x \in {y \in RequestsOf(c) : Is(y)}}

\* A service port leads to its target: a number, or the number a pod names so.
LeadsTo(c, port, protocols, x) ==
  IF port.target.named
  THEN \E p \in PodsOf(c) : /\ Key(p) = x.dst /\ port.target.name \in DOMAIN p.named_ports
                            /\ p.named_ports[port.target.name] \in {x.port} \X protocols
  ELSE x.port = port.target.number

BackendIs(c, ns, b) ==
  b.kind = "service" /\ <<ns, b.name>> \in DOMAIN c.services /\ ServicePort(c.services[<<ns, b.name>>], b.port) # None
BackendHasPods(c, ns, b) == BackendIs(c, ns, b) /\ c.services[<<ns, b.name>>].target_pods # {}
BackendReads(c, ns, b, x) ==
  /\ BackendHasPods(c, ns, b) /\ x.dst \in c.services[<<ns, b.name>>].target_pods
  /\ LeadsTo(c, ServicePort(c.services[<<ns, b.name>>], b.port)[1], Protocols, x)

HostReads(rule, host) == rule.host # None => host \in rule.host[1]
PathReads(p, path) == IF p.pathType = "Exact" THEN path = p.path ELSE IsPrefix(PathPrefix(p.path), path)
\* The paths whose service is missing are left out.
PathsOf(c, d, rule) == {p \in ToSet(OrElse(rule.paths, << >>)) : p.backend.kind = "service" => BackendIs(c, d.namespace, p.backend)}
\* Of the paths that a request matches an exact one is first, then the longest.
FirstChoice(paths, p, path) ==
  /\ PathReads(p, path)
  /\ p.pathType = "Exact" \/ \A q \in paths : PathReads(q, path) =>
                               q.pathType # "Exact" /\ Len(PathPrefix(q.path)) <= Len(PathPrefix(p.path))
RuleReads(c, d, rule, x) ==
  LET paths == PathsOf(c, d, rule)
      by(b) == BackendReads(c, d.namespace, IF BackendHasPods(c, d.namespace, b) THEN b ELSE d.defaultBackend, x)
  IN /\ HostReads(rule, x.host)
     /\ \/ \E p \in paths : FirstChoice(paths, p, x.path) /\ by(p.backend)
        \/ /\ ~\E p \in paths : PathReads(p, x.path)
           /\ rule.paths = None \/ paths # {}
           /\ BackendReads(c, d.namespace, d.defaultBackend, x)
IngressReads(c, d, x) ==
  /\ x.src \in NginxPods(c)
  /\ \/ \E i \in DOMAIN d.rules : RuleReads(c, d, d.rules[i], x)
     \/ BackendReads(c, d.namespace, d.defaultBackend, x) /\ ~\E i \in DOMAIN d.rules : HostReads(d.rules[i], x.host)

\* A path without pods and no default backend in its place; a prefix written twice.
LeftWithout(c, d) ==
  ~BackendIs(c, d.namespace, d.defaultBackend)
  /\ \E i \in DOMAIN d.rules : \E p \in PathsOf(c, d, d.rules[i]) : ~BackendHasPods(c, d.namespace, p.backend)
WrittenTwice(d) ==
  \E i \in DOMAIN d.rules : LET ps == OrElse(d.rules[i].paths, << >>)
    IN \E n, m \in DOMAIN ps : /\ n # m /\ "Exact" \notin {ps[n].pathType, ps[m].pathType}
                               /\ PathPrefix(ps[n].path) = PathPrefix(ps[m].path)
\* Nothing is left for the default backend, of the paths of a rule or of the hosts.
NothingLeft(c, d) ==
  /\ BackendHasPods(c, d.namespace, d.defaultBackend)
  /\ \/ \A h \in Hosts : \E i \in DOMAIN d.rules : HostReads(d.rules[i], h)
     \/ \E i \in DOMAIN d.rules : \A path \in Paths : \E p \in PathsOf(c, d, d.rules[i]) : PathReads(p, path)

IngressAsWritten ==
  LET c == topology.container IN
  LeftWithout(c, manifest) \/ WrittenTwice(manifest) \/
    parsed.allowed = ReadRequests(c, LAMBDA x : IngressReads(c, manifest, x))

\* What an Ingress captures goes to the backend of its path, and only the rest to
\* the default backend (parse_rule, parse_policy: "every path not captured by the
\* above paths goes to the default backend", and the same of the hosts).
OnlyTheRestToDefault ==
  parsed # Null /\ manifest.kind = "Ingress" => IngressAsWritten

\* The routes of the virtual services, and the standard gateways that have pods.
Routes(d) ==
  UNION {{[vs |-> d.services[i], kind |-> kind, route |-> r] : r \in {x \in ToSet(d.services[i][kind]) : Accepted(d.services[i], kind, x)}} :
           i \in DOMAIN d.services, kind \in ToSet(RouteKinds)}
PodsBehind(c, g) ==
  {Key(p) : p \in {q \in PodsOf(c) : \A k \in DOMAIN g.selector : LabelIs(q.labels, q.extra_labels, k, {g.selector[k]})}}
OfType(c, d, type) ==
  {g \in ToSet(d.gateways) : /\ "istio" \in DOMAIN g.selector /\ g.selector["istio"] = type
                             /\ PodsBehind(c, g) # {}}
Bound(r, name) ==
  LET own == {i \in DOMAIN r.route.match : r.route.match[i].gateways # {}}
  IN IF own # {} THEN \E i \in own : name \in r.route.match[i].gateways
     ELSE name \in r.vs.gateways \/ (r.vs.gateways = {} /\ name = Mesh)
HostsMeet(r, g, host) ==
  /\ \E i \in DOMAIN g.servers : \E h \in g.servers[i] : ~h.namespaced /\ host \in h.accepts
  /\ \E h \in r.vs.hosts : ~h.namespaced /\ host \in h.accepts
  /\ r.kind = "tls" => \E i \in DOMAIN r.route.match : host \in r.route.match[i].sniHosts
Through(r, g, host) == Bound(r, <<g.namespace, g.name>>) /\ HostsMeet(r, g, host)
Matches(r, x) ==
  CASE r.kind = "http" -> r.route.match = << >> \/ \E i \in DOMAIN r.route.match : LET m == r.route.match[i]
                            IN (m.uri # None => x.path \in m.uri[1]) /\ (m.method # None => x.method \in m.method[1])
    [] r.kind = "tls" -> \E i \in DOMAIN r.route.match : x.host \in r.route.match[i].sniHosts
    [] OTHER -> TRUE
DestinationIs(c, r, dest, e) ==
  IF dest.host.local
  THEN LET key == <<OrElse(dest.host.namespace, r.vs.namespace), dest.host.name>>
       IN key \in DOMAIN c.services /\ e \in c.services[key].target_pods
  ELSE e = <<"dns", <<dest.host.name, 0>>>> /\ e \in Keys(c.peers)
PortIs(c, r, dest, x) ==
  IF dest.host.local
  THEN LET srv == c.services[<<OrElse(dest.host.namespace, r.vs.namespace), dest.host.name>>]
       IN \E i \in DOMAIN srv.ports :
            /\ IF dest.port # None THEN srv.ports[i].port = dest.port[1] ELSE Len(srv.ports) = 1
            /\ \A j \in 1..(i - 1) : dest.port # None => srv.ports[j].port # dest.port[1]
            /\ LeadsTo(c, srv.ports[i], {"TCP"}, x)
  ELSE dest.port = Some(x.port)
RouteLeadsTo(c, r, x) ==
  Matches(r, x) /\ \E dest \in ToSet(r.route.route) : DestinationIs(c, r, dest, x.dst) /\ PortIs(c, r, dest, x)
ToEgressGateway(c, r) ==
  {dest \in ToSet(r.route.route) : /\ dest.host.local /\ dest.host.namespace = Some("istio-system")
                                   /\ dest.host.name = "istio-egressgateway"
                                   /\ <<"istio-system", "istio-egressgateway">> \in DOMAIN c.services}

\* Both halves of the way out are there.
EgressIsWhole(c, d) ==
  /\ \E r \in Routes(d) : Bound(r, Mesh) /\ ToEgressGateway(c, r) # {}
  /\ \E r \in Routes(d), g \in OfType(c, d, "egressgateway"), host \in Hosts : Through(r, g, host)

\* In through an ingress gateway, or out of the mesh by way of an egress gateway.
\* The first half of the way out is for the hosts of the sniHosts only, not of the
\* virtual service.
IstioReads(c, d, x) ==
  \E r \in Routes(d) :
    /\ RouteLeadsTo(c, r, x)
    /\ \/ \E g \in OfType(c, d, "ingressgateway") : x.src \in PodsBehind(c, g) /\ Through(r, g, x.host)
       \/ /\ EgressIsWhole(c, d)
          /\ \E g \in OfType(c, d, "egressgateway") : x.src \in PodsBehind(c, g) /\ Through(r, g, x.host)
       \/ /\ EgressIsWhole(c, d) /\ x.src[1] # "dns" /\ Bound(r, Mesh)
          /\ \E dest \in ToEgressGateway(c, r) : DestinationIs(c, r, dest, x.dst) /\ PortIs(c, r, dest, x)
\* Beside the egress gateway there is no way to the hosts it leads to.
IstioDenies(c, d, src, dst) ==
  /\ EgressIsWhole(c, d) /\ src[1] # "dns"
  /\ \E r \in Routes(d), g \in OfType(c, d, "egressgateway") :
       /\ src \notin PodsBehind(c, g) /\ \E host \in Hosts : Through(r, g, host)
       /\ \E dest \in ToSet(r.route.route) : DestinationIs(c, r, dest, dst)

\* Routes whose policies get one name, and matches that the parser blends.
Blurred(d) ==
  \/ \E i \in DOMAIN d.services : Cardinality({kind \in ToSet(RouteKinds) : d.services[i][kind] # << >>}) > 1
  \/ \E r \in Routes(d) : r.kind = "http" /\ Len(r.route.match) > 1
  \/ \E r \in Routes(d) : Cardinality({i \in DOMAIN r.route.route : r.route.route[i].host.name = "istio-egressgateway"}) > 1
IstioAsWritten ==
  LET c == topology.container IN
  Blurred(manifest) \/
    /\ parsed.allowed = ReadRequests(c, LAMBDA x : IstioReads(c, manifest, x))
    /\ parsed.denied = {q \in Keys(c.peers) \X Keys(c.peers) : IstioDenies(c, manifest, q[1], q[2])}

\* The policies made of an Ingress, and those generated from Istio's gateways and
\* virtual services, allow and deny exactly the requests that the resources
\* describe: by the longest path of a rule, by the gateways a route is bound to and
\* the hosts it shares with them, and out of the mesh only by the whole way.  Left
\* out is an Ingress with nothing left for its default backend.
GatewaysReadAsWritten ==
  parsed # Null =>
    /\ manifest.kind = "Ingress" => NothingLeft(topology.container, manifest) \/ IngressAsWritten
    /\ manifest.kind = "Istio" => IstioAsWritten
-----------------------------------------------------------------------------
(* The reading of the policies of the mesh.                                  *)

LabelsAre(p, labels) == \A k \in DOMAIN labels : LabelIs(p.labels, p.extra_labels, k, {labels[k]})
WorkloadIs(ns, selector, p) ==
  (ns = RootNamespace \/ p.namespace.name = ns) /\ (selector # None => LabelsAre(p, selector[1]))

Within(values, not_values, v) == (values # None => v \in values[1]) /\ (not_values # None => v \notin not_values[1])
\* Addresses have no namespace and no principal, pods are not sought by address.
SourceReads(s, e) ==
  LET ns == s.namespaces # None \/ s.notNamespaces # None
      principal == s.principals # None \/ s.notPrincipals # None
  IN /\ ns => IsPod(e) /\ Within(s.namespaces, s.notNamespaces, e.namespace.name)
     /\ principal => IsPod(e) /\ Within(s.principals, s.notPrincipals, <<e.namespace.name, e.sa>>)
     /\ s.ipBlocks # None \/ s.notIpBlocks # None => ~IsPod(e) /\ Within(s.ipBlocks, s.notIpBlocks, e.ip)
ConditionReads(w, e, port) ==
  CASE w.key = "source.ip" -> ~IsPod(e) /\ Within(w.values, w.notValues, e.ip)
    [] w.key = "source.namespace" -> IsPod(e) /\ Within(w.values, w.notValues, e.namespace.name)
    [] w.key = "source.principal" -> IsPod(e) /\ Within(w.values, w.notValues, <<e.namespace.name, e.sa>>)
    [] OTHER -> Within(w.values, w.notValues, port)
OperationReads(op, r) ==
  /\ Within(op.ports, op.notPorts, r[2]) /\ Within(op.hosts, op.notHosts, r[3])
  /\ Within(op.paths, op.notPaths, r[4]) /\ Within(op.methods, op.notMethods, r[5])
AuthorizationReads(rule, e, r) ==
  /\ rule.from # None => \E s \in rule.from[1] : SourceReads(s, e)
  /\ rule.to # None => r[1] = "TCP" /\ \E op \in rule.to[1] : OperationReads(op, r)
  /\ rule.when # None => r[1] = "TCP" /\ \A w \in rule.when[1] : ConditionReads(w, e, r[2])

\* An authorization policy is for the workloads it selects, and each rule is about
\* the requests with a source, an operation and all conditions of it.
AuthorizationAsWritten ==
  LET c == topology.container
      pods == {p \in PodsOf(c) : manifest.spec /\ WorkloadIs(manifest.namespace, manifest.selector, p)}
      requests == Protocols \X Ports \X Hosts \X Paths \X Methods
  IN /\ parsed.selected \cap Keys(PodsOf(c)) = Keys(pods)
     /\ \A i \in DOMAIN parsed.rules : \A e \in Ends(c) :
          {<<x[2], x[3]>> : x \in {y \in parsed.rules[i].conns : y[1] = AtomOf(e)}}
            = parsed.selected \X {r \in requests : AuthorizationReads(manifest.rules[i], e, r)}

\* The sidecar of a pod: one that selects it, the one of its namespace, or a
\* global one.
SidecarsOf(docs, p) ==
  LET specific == {i \in DOMAIN docs : docs[i].workloadSelector # None /\ WorkloadIs(docs[i].namespace, docs[i].workloadSelector, p)}
      own == {i \in DOMAIN docs : docs[i].workloadSelector = None /\ docs[i].namespace = p.namespace.name}
      global == {i \in DOMAIN docs : docs[i].workloadSelector = None /\ docs[i].namespace = RootNamespace}
  IN IF specific # {} THEN specific ELSE IF own # {} THEN own ELSE global
\* A host of a sidecar stands for the pods of services and for DNS entries.
SidecarHostIs(c, d, h, p, e) ==
  LET current == IF d.namespace = RootNamespace THEN p.namespace.name ELSE d.namespace
      behind(k) == Key(e) \in c.services[k].target_pods
  IN \/ /\ e.kind = "dns" /\ h.namespace # "~"
        /\ h.name.kind = "all" \/ (h.name.kind = "dns" /\ e.name[1] \in h.name.accepts)
     \/ \E k \in DOMAIN c.services :
          /\ behind(k) /\ h.namespace \in {"*", k[1]} \cup (IF k[1] = current THEN {"."} ELSE {})
          /\ h.name.kind = "all" \/ (h.name.kind = "service" /\ h.name.service = k[2])
SidecarReads(c, d, p, e) ==
  d.egress # None /\ \E i \in DOMAIN d.egress[1] :
    IF "ip" \in DOMAIN e THEN ~d.registryOnly ELSE \E h \in d.egress[1][i] : SidecarHostIs(c, d, h, p, e)

\* Whatever the order of the sidecars, each pod has one, and may reach what the
\* hosts of that one stand for.
SidecarsAsWritten ==
  LET c == topology.container
      docs == manifest.docs
      dsts == {e \in c.peers : e.kind \in {"pod", "dns"}} \cup [ip : Ips]
      conns == UNION {parsed.sidecars[i].conns : i \in DOMAIN parsed.sidecars}
  IN \A p \in PodsOf(c) :
       /\ {<<s.namespace, s.name>> : s \in {x \in ToSet(parsed.sidecars) : Key(p) \in x.selected}}
            = {<<docs[i].namespace, docs[i].name>> : i \in SidecarsOf(docs, p)}
       /\ \A e \in dsts, protocol \in Protocols :
            \/ IsPod(e) /\ e.kind = "dns" /\ protocol # "TCP"
            \/ <<<<Key(p), AtomOf(e)>>, protocol>> \in conns
                 <=> \E i \in SidecarsOf(docs, p) : SidecarReads(c, docs[i], p, e)

\* An authorization policy of Istio is about exactly the requests that its
\* sources, operations and conditions describe (parse_ingress_rule), and of
\* several sidecars a pod follows the one nearest to it and no other, in whatever
\* order they are read (get_istio_sidecars).
MeshPoliciesReadAsWritten ==
  parsed # Null =>
    /\ manifest.kind = "AuthorizationPolicy" => AuthorizationAsWritten
    /\ manifest.kind = "Sidecars" => SidecarsAsWritten
=============================================================================
