-------------------------- MODULE MCPolicyManifests --------------------------
(***************************************************************************)
(* Two namespaces, one with a label, three pods (one gets a label from its   *)
(* profile, two name the same port differently), a host endpoint and a       *)
(* network set; policies with every kind of selector, block, port and        *)
(* protocol field.                                                           *)
(***************************************************************************)
EXTENDS PolicyManifests

\* Labels k and l with values v and w; namespace A has k, B has none.
PodDoc(name, ns, labels, ports) ==
  [kind |-> "Pod", name |-> name, namespace |-> ns, owner |-> NoOwner, labels |-> labels, ports |-> ports,
   sa |-> "default"]
Docs ==
  <<[kind |-> "Namespace", name |-> "A", labels |-> "k" :> "v"],
    PodDoc("p", "A", ("k" :> "v") @@ ("l" :> "v"), "http" :> <<1, "TCP">>),
    PodDoc("q", "B", "k" :> "w", "http" :> <<2, "TCP">>),
    [kind |-> "WorkloadEndpoint", pod |-> "r", namespace |-> "A", labels |-> Empty, ports |-> "http" :> <<1, "UDP">>,
     profiles |-> <<"prof">>],
    [kind |-> "HostEndpoint", name |-> "h", labels |-> "k" :> "v", ports |-> Empty, profiles |-> << >>],
    [kind |-> "GlobalNetworkSet", name |-> "s", labels |-> "l" :> "w", nets |-> {3}]>>
Found == FoldLeft(LAMBDA acc, d : AddEpsFromYaml(ParseYamlCodeForNs(acc, d), d), EmptyFinders(<< >>), Docs)
Built == PeerContainer(Found.peers, Found.namespaces, Found.services, Found.livesim)
MCTopologies == {[container |-> ApplyExtraLabels(Built, "prof", labels), base |-> Found.base] :
                   labels \in {"k" :> "v", "l" :> "w"}}

Req(key, op, values) == [key |-> key, operator |-> op, values |-> values]
PodSelectors ==
  {Everything, Selector(<<<<"k", "v">>>>, {}), Selector(<<<<"k", "v">>, <<"l", "w">>>>, {}),
   Selector(<< >>, {Req("k", "In", {"v", "w"}), Req("l", "NotIn", {"v"})}),
   Selector(<< >>, {Req("k", "Exists", {})}), Selector(<<<<"k", "v">>>>, {Req("l", "DoesNotExist", {})})}
NsSelectors == {Everything, Selector(<<<<"k", "v">>>>, {}), Selector(<< >>, {Req("k", "NotIn", {"v"})}),
                Selector(<< >>, {Req("k", "Exists", {})})}
RulePeer(ns, pod, block) == [namespaceSelector |-> ns, podSelector |-> pod, ipBlock |-> block]
RulePeers ==
  {RulePeer(x[1], x[2], Null) : x \in ((NsSelectors \cup {Null}) \X (PodSelectors \cup {Null})) \ {<<Null, Null>>}}
    \cup {RulePeer(Null, Null, [cidr |-> {1, 2}, except |-> e]) : e \in {{}, {1}}}
K8sPort(protocol, port, end) == [protocol |-> protocol, port |-> port, endPort |-> end]
K8sPorts == {{}, {K8sPort("UDP", Null, 0)}, {K8sPort("TCP", [named |-> FALSE, number |-> 1], 2)},
             {K8sPort("TCP", [named |-> TRUE, name |-> "http"], 0), K8sPort("UDP", [named |-> FALSE, number |-> 2], 2)}}
K8sPolicy(sel, types, in, out) ==
  [kind |-> "K8sNetworkPolicy", name |-> "np", namespace |-> "A",
   spec |-> [podSelector |-> sel, policyTypes |-> types, ingress |-> in, egress |-> out]]
Field(rules) == [rules |-> rules]
K8sRule(peers, ports) == [peers |-> peers, ports |-> ports]
MCK8sPolicies ==
  {K8sPolicy(x[1], {}, Field(<<K8sRule({x[2]}, x[3])>>), Null) :
     x \in (PodSelectors \X RulePeers \X {{}}) \cup ({Everything} \X RulePeers \X K8sPorts)}
    \cup {K8sPolicy(x[1], {"Egress"}, Null, Field(<<K8sRule({}, {}), K8sRule({x[2], x[3]}, x[4])>>)) :
            x \in {Everything, Selector(<<<<"k", "v">>>>, {})} \X {RulePeer(Null, Everything, Null)}
                  \X {p \in RulePeers : p.ipBlock # Null \/ p.podSelector = Null} \X K8sPorts}
    \cup {K8sPolicy(Everything, types, in, out) : types \in {{}, {"Ingress"}, {"Ingress", "Egress"}},
            in \in {Null, Field(<< >>)}, out \in {Null, Field(<<K8sRule({}, {})>>)}}

Text(op, key, values) == <<Atom(op, key, values)>>
Entity(nets, not_nets, ns, sel, not_sel) ==
  [nets |-> nets, notNets |-> not_nets, namespaceSelector |-> ns, selector |-> sel, notSelector |-> not_sel,
   ports |-> None, notPorts |-> None]
Entities ==
  {Entity({1}, {}, << >>, << >>, << >>), Entity({}, {1}, << >>, << >>, << >>), Entity({1, 2}, {2}, << >>, Text("all", NoName, {}), << >>),
   Entity({}, {}, Text("==", "k", {"v"}), << >>, << >>), Entity({}, {}, Text("all", NoName, {}), Text("has", "l", {}), << >>),
   Entity({}, {}, << >>, Text("in", "k", {"v", "w"}), Text("has", "l", {})), Entity({}, {}, << >>, << >>, Text("!=", "k", {"w"})),
   Entity({}, {}, Text("not in", "k", {"v"}), Text("contains", "k", {"w"}), << >>)}
Port(lo, hi) == [named |-> FALSE, number |-> lo, last |-> hi]
Named(name) == [named |-> TRUE, name |-> name]
WithPorts(e, ports, not_ports) == [e EXCEPT !.ports = ports, !.notPorts = not_ports]
Anyone == Entity({}, {}, << >>, << >>, << >>)
PortEntities ==
  {WithPorts(Anyone, x[1], x[2]) : x \in {None, Some(<< >>), Some(<<Port(1, 1), Named("http")>>), Some(<<Port(1, 2)>>)} \X
                                         {None, Some(<< >>), Some(<<Named("http")>>), Some(<<Port(2, 2)>>)}}
Rule(protocol, not_protocol, source, destination) ==
  [action |-> "Allow", protocol |-> protocol, notProtocol |-> not_protocol, source |-> source,
   destination |-> destination, icmp |-> Null, notICMP |-> Null]
Icmps == {Null} \cup [type : IcmpTypes, code : IcmpCodes \cup {NoNumber}]
CalicoRuleSet ==
  {Rule(NoName, NoName, e, Null) : e \in Entities} \cup {Rule("OTHER", NoName, Null, e) : e \in Entities}
    \cup {Rule("TCP", NoName, Null, e) : e \in PortEntities}
    \cup {Rule("UDP", NoName, WithPorts(Anyone, Some(<<Port(1, 1)>>), None), e) : e \in PortEntities}
    \cup {Rule("TCP", not, Null, Null) : not \in {"TCP", "UDP"}} \cup {Rule(NoName, "ICMP", Null, Null)}
    \cup {[Rule("ICMP", NoName, Null, Null) EXCEPT !.icmp = x[1], !.notICMP = x[2]] : x \in Icmps \X Icmps}
Calico(kind, ns, sel, ns_sel, rule, is_ingress) ==
  [kind |-> kind, name |-> IF kind = "CalicoProfile" THEN "prof" ELSE "np", namespace |-> ns,
   spec |-> [selector |-> sel, namespaceSelector |-> ns_sel, types |-> {}, order |-> 1,
             ingress |-> IF is_ingress THEN Field(<<rule>>) ELSE Null,
             egress |-> IF is_ingress THEN Null ELSE Field(<<rule>>)]]
MCCalicoPolicies ==
  {Calico("CalicoNetworkPolicy", "A", << >>, << >>, rule, is_ingress) : rule \in CalicoRuleSet, is_ingress \in BOOLEAN}
    \cup {Calico("CalicoGlobalNetworkPolicy", NoName, Text("has", "k", {}), ns_sel, rule, TRUE) :
            ns_sel \in {<< >>, Text("has", "k", {})}, rule \in {r \in CalicoRuleSet : r.protocol # "ICMP"}}
    \cup {Calico("CalicoProfile", NoName, << >>, << >>, Rule("TCP", NoName, e, Null), TRUE) : e \in Entities}

Leaves == {Leaf(Atom("has", "k", {})), Leaf(Atom("==", "k", {"w"})), Leaf(Atom("!=", "l", {"v"}))}
Small == Leaves \cup {Not(e) : e \in Leaves} \cup {And(e, f) : e, f \in Leaves} \cup {Or(e, f) : e, f \in Leaves}
MCSelectors == Small \cup {Not(e) : e \in Small}
                 \cup {Or(e, f) : e \in Small, f \in Leaves} \cup {And(e, f) : e \in Leaves, f \in Small}
                 \cup {And(Not(e), Or(e, f)) : e, f \in Small \ Leaves}
-----------------------------------------------------------------------------
(* Gateways: two pods behind one service, which name its port differently, one *)
(* behind a service of two ports, a service without pods, the pods of nginx     *)
(* and of the gateways, and a host outside.                                      *)

TargetNumber(n) == [named |-> FALSE, number |-> n]
TargetName(name) == [named |-> TRUE, name |-> name]
ServicePortDoc(name, port, target) == [name |-> name, port |-> port, protocol |-> "TCP", target |-> target]
ServiceDoc(name, ns, key, value, ports) ==
  [kind |-> "Service", name |-> name, namespace |-> ns, selector |-> key :> value, ports |-> ports]
GatewayDocs ==
  <<PodDoc("w1", "A", "app" :> "web", "http" :> <<1, "TCP">>), PodDoc("w2", "A", "app" :> "web", "http" :> <<2, "TCP">>),
    PodDoc("api", "A", "app" :> "api", Empty), PodDoc("n", "ingress-nginx", "app" :> "nginx", Empty),
    PodDoc("ig", "istio-system", "istio" :> "ingressgateway", Empty),
    PodDoc("eg", "istio-system", "istio" :> "egressgateway", Empty),
    [kind |-> "ServiceEntry", hosts |-> {"ext"}]>>
ServiceDocs ==
  <<ServiceDoc("web", "A", "app", "web", <<ServicePortDoc("w", 1, TargetName("http"))>>),
    ServiceDoc("api", "A", "app", "api", <<ServicePortDoc("x", 1, TargetNumber(2)), ServicePortDoc("y", 2, TargetNumber(1))>>),
    ServiceDoc("none", "A", "app", "none", <<ServicePortDoc("z", 1, TargetNumber(1))>>),
    ServiceDoc("controller", "ingress-nginx", "app", "nginx", <<ServicePortDoc("w", 1, TargetNumber(1))>>),
    ServiceDoc("istio-egressgateway", "istio-system", "istio", "egressgateway", <<ServicePortDoc("w", 1, TargetNumber(1))>>)>>
FoundPods == FoldLeft(AddEpsFromYaml, EmptyFinders(<< >>), GatewayDocs)
FoundGateways == FoldLeft(ParseYamlCodeForService, FoundPods, ServiceDocs)
MCGatewayTopologies ==
  {[container |-> PeerContainer(FoundGateways.peers, FoundGateways.namespaces, FoundGateways.services, {}),
    base |-> FoundGateways.base]}

MCPaths == {<<"">>, <<"a">>, <<"a", "">>, <<"a", "b">>, <<"c">>}
Backend(name, port) == [kind |-> "service", name |-> name, port |-> port]
Numbered(n) == [named |-> FALSE, number |-> n]
NoBackend == [kind |-> "none"]
IngressPath(path, type, backend) == [path |-> path, pathType |-> type, backend |-> backend]
IngressPathSet ==
  {IngressPath(<<"a">>, "Prefix", Backend("web", Numbered(1))), IngressPath(<<"a", "b">>, "Prefix", Backend("api", Named("x"))),
   IngressPath(<<"a">>, "Exact", Backend("api", Numbered(2))), IngressPath(<<"a", "">>, "ImplementationSpecific", Backend("none", Numbered(1))),
   IngressPath(<<"">>, "Prefix", Backend("web", Numbered(1))), IngressPath(<<"a", "b">>, "Exact", Backend("missing", Numbered(1))),
   IngressPath(<<"c">>, "Prefix", [kind |-> "resource"])}
IngressRule(host, paths) == [host |-> host, paths |-> paths]
IngressDoc(default, rules) ==
  [kind |-> "Ingress", name |-> "in", namespace |-> "A", defaultBackend |-> default, rules |-> rules]
DefaultBackends == {NoBackend, Backend("api", Numbered(2)), Backend("web", Numbered(1)), Backend("missing", Numbered(1))}
MCIngressPolicies ==
  {IngressDoc(x[1], <<IngressRule(x[2], Some(x[3]))>>) :
     x \in DefaultBackends \X {None, Some({"h1"})} \X {s \in SeqOf(IngressPathSet, 2) : s # << >>}}
    \cup {IngressDoc(x[1], <<IngressRule(x[2], x[3]), IngressRule(Some({"h2"}), Some(<<x[4], x[5], x[6]>>))>>) :
            x \in DefaultBackends \X {Some({"h1"}), Some({"h1", "h2"})} \X {None, Some(<<IngressPath(<<"c">>, "Exact", Backend("web", Numbered(1)))>>)}
                  \X {p \in IngressPathSet : p.path = <<"a">>} \X {p \in IngressPathSet : p.path = <<"a", "b">>}
                  \X {p \in IngressPathSet : p.path \in {<<"">>, <<"c">>}}}
    \cup {IngressDoc(default, << >>) : default \in DefaultBackends}

Host(S) == [accepts |-> S, namespaced |-> FALSE]
GatewayDoc(ns, name, selector, servers) == [namespace |-> ns, name |-> name, selector |-> selector, servers |-> servers]
Inward == GatewayDoc("A", "in", "istio" :> "ingressgateway", <<{Host({"h1"})}, {Host({"h2"}), [accepts |-> {"h3"}, namespaced |-> TRUE]}>>)
Outward == GatewayDoc("A", "out", "istio" :> "egressgateway", <<{Host({"h2", "h3"})}>>)
Other == GatewayDoc("A", "other", "app" :> "web", <<{Host({"h1"})}>>)
Podless == GatewayDoc("A", "podless", ("istio" :> "ingressgateway") @@ ("app" :> "web"), <<{Host({"h1"})}>>)
AllGateways == <<Inward, Other, Podless, Outward>>

Local(name, port) == [host |-> [local |-> TRUE, namespace |-> None, name |-> name], port |-> port]
Outside(port) == [host |-> [local |-> FALSE, namespace |-> None, name |-> "ext"], port |-> port]
ToEgress == [host |-> EgressGatewayService, port |-> Some(1)]
DestinationLists ==
  {<<Local("web", None)>>, <<Local("api", Some(1)), Local("missing", None)>>, <<Local("api", None)>>, <<Outside(Some(1))>>,
   <<Outside(None)>>, <<ToEgress>>, <<Local("web", Some(1)), ToEgress>>, <<Local("web", Some(2))>>, << >>}
HttpMatch(uri, method, gateways) == [uri |-> uri, method |-> method, gateways |-> gateways]
HttpMatches ==
  {<< >>, <<HttpMatch(Some(PrefixDfa(<<"a">>)), None, {})>>, <<HttpMatch(None, Some({"GET"}), {<<"A", "in">>})>>,
   <<HttpMatch(Some({<<"c">>}), Some({"POST"}), {Mesh})>>, <<HttpMatch(None, None, {<<"A", "out">>})>>,
   <<HttpMatch(Some({<<"c">>}), None, {}), HttpMatch(None, Some({"GET"}), {})>>}
TlsMatches == {<<[sniHosts |-> {"h2"}, gateways |-> {}]>>, <<[sniHosts |-> {"h3"}, gateways |-> {<<"A", "out">>}]>>, << >>}
TcpMatches == {<< >>, <<[gateways |-> {<<"A", "in">>, Mesh}]>>}
Service(name, hosts, gateways, kind, routes) ==
  [namespace |-> "A", name |-> name, hosts |-> {Host(hosts)}, gateways |-> gateways] @@ (kind :> routes)
    @@ [http |-> << >>, tls |-> << >>, tcp |-> << >>]
Route(match, dests) == [match |-> match, route |-> dests]
VsGatewaySets == {{}, {<<"A", "in">>, <<"A", "other">>}, {Mesh, <<"A", "out">>}, {<<"A", "in">>, <<"A", "out">>}}
Services ==
  {Service("vs", x[1], x[2], "http", <<Route(x[3], x[4])>>) : x \in {{"h1", "h2"}, {"h3"}} \X VsGatewaySets \X HttpMatches \X DestinationLists}
    \cup {Service("vs", x[1], x[2], "tls", <<Route(x[3], x[4])>>) : x \in {{"h1", "h2"}, {"h2", "h3"}} \X VsGatewaySets \X TlsMatches \X DestinationLists}
    \cup {Service("vs", {"h1"}, x[1], "tcp", <<Route(x[2], x[3])>>) : x \in VsGatewaySets \X TcpMatches \X DestinationLists}
WayOut == Service("egress", {"h2", "h3"}, {Mesh, <<"A", "out">>}, "http",
                  <<Route(<<HttpMatch(None, None, {Mesh})>>, <<ToEgress>>),
                    Route(<<HttpMatch(Some(PrefixDfa(<<"a">>)), None, {<<"A", "out">>})>>, <<Outside(Some(1))>>)>>)
Istio(gateways, services) == [kind |-> "Istio", gateways |-> gateways, services |-> services]
MCIstioManifests ==
  {Istio(AllGateways, <<vs>>) : vs \in Services} \cup {Istio(AllGateways, <<vs, WayOut>>) : vs \in Services}
    \cup {Istio(<<Podless, Inward>>, <<WayOut>>), Istio(<<Podless>>, <<WayOut>>), Istio(AllGateways, << >>)}
    \cup {Istio(AllGateways, <<[Service("vs", {"h1"}, {<<"A", "in">>}, "http", <<Route(<< >>, <<Local("web", None)>>)>>)
                                  EXCEPT !.tcp = <<Route(<< >>, <<Local("api", Some(1))>>)>>]>>)}
-----------------------------------------------------------------------------
(* The mesh: pods of two namespaces with the same labels, services and       *)
(* service accounts, one with no account, two hosts outside; and the same with *)
(* a host endpoint and a network set.                                          *)

Account(pod, sa) == [pod EXCEPT !.sa = sa]
MeshDocs ==
  <<Account(PodDoc("a1", "A", "app" :> "web", Empty), "x"), Account(PodDoc("a2", "A", "app" :> "api", Empty), "y"),
    Account(PodDoc("b", "B", "app" :> "web", Empty), "x"),
    [kind |-> "WorkloadEndpoint", pod |-> "r", namespace |-> "B", labels |-> Empty, ports |-> Empty, profiles |-> << >>],
    [kind |-> "ServiceEntry", hosts |-> {"ext", "other"}]>>
GlobalDocs ==
  <<[kind |-> "HostEndpoint", name |-> "h", labels |-> "app" :> "web", ports |-> Empty, profiles |-> << >>],
    [kind |-> "GlobalNetworkSet", name |-> "s", labels |-> "app" :> "web", nets |-> {3}]>>
MeshServices ==
  <<ServiceDoc("web", "A", "app", "web", <<ServicePortDoc("w", 1, TargetNumber(1))>>),
    ServiceDoc("api", "A", "app", "api", <<ServicePortDoc("w", 1, TargetNumber(1))>>),
    ServiceDoc("web", "B", "app", "web", <<ServicePortDoc("w", 1, TargetNumber(1))>>)>>
MeshTopology(docs) ==
  LET found == FoldLeft(ParseYamlCodeForService, FoldLeft(AddEpsFromYaml, EmptyFinders(<< >>), docs), MeshServices)
  IN [container |-> PeerContainer(found.peers, found.namespaces, found.services, {}), base |-> found.base]
MCMeshTopologies == {MeshTopology(MeshDocs), MeshTopology(MeshDocs \o GlobalDocs)}

AnySource == [namespaces |-> None, notNamespaces |-> None, ipBlocks |-> None, notIpBlocks |-> None, principals |-> None,
              notPrincipals |-> None]
Sources ==
  {[AnySource EXCEPT !.namespaces = x[1], !.notNamespaces = x[2], !.principals = x[3], !.notPrincipals = x[4]] :
     x \in ({None, Some({"A", "nowhere"}), Some({"A", "B"})} \X {None, Some({"B"})}
            \X {None, Some({<<"A", "x">>, <<"B", "x">>})} \X {None, Some({<<"A", "y">>})}) \ {<<None, None, None, None>>}}
    \cup {[AnySource EXCEPT !.namespaces = x[1], !.ipBlocks = x[2], !.notIpBlocks = x[3]] :
            x \in {<<None, Some({1, 2}), None>>, <<None, Some({1, 2}), Some({1})>>, <<None, None, Some({1})>>,
                   <<Some({"A"}), Some({1}), None>>}}
AnyOperation == [ports |-> None, notPorts |-> None, hosts |-> None, notHosts |-> None, paths |-> None, notPaths |-> None,
                 methods |-> None, notMethods |-> None]
Operations ==
  {[AnyOperation EXCEPT !.ports = Some({1})], [AnyOperation EXCEPT !.notPorts = Some({1}), !.methods = Some({"GET"})],
   [AnyOperation EXCEPT !.hosts = Some({"h1", "h2"}), !.notHosts = Some({"h2"})],
   [AnyOperation EXCEPT !.paths = Some(PrefixDfa(<<"a">>)), !.notPaths = Some({<<"a", "b">>})],
   [AnyOperation EXCEPT !.notPaths = Some({<<"c">>}), !.notMethods = Some({"POST"})], [AnyOperation EXCEPT !.methods = Some({})]}
Condition(key, values, not_values) == [key |-> key, values |-> values, notValues |-> not_values]
Conditions ==
  {Condition("source.namespace", Some({"A"}), None), Condition("source.namespace", None, Some({"A"})),
   Condition("source.principal", Some({<<"A", "x">>}), None), Condition("source.ip", Some({1, 2}), Some({2})),
   Condition("source.ip", None, Some({2})), Condition("destination.port", Some({1}), None),
   Condition("destination.port", None, Some({1})), Condition("destination.port", None, None)}
AuthorizationRule(from, to, when) == [from |-> from, to |-> to, when |-> when]
AnyRule == AuthorizationRule(None, None, None)
AuthorizationRules ==
  {AuthorizationRule(Some(from), None, None) : from \in {{s} : s \in Sources} \cup {{[AnySource EXCEPT !.namespaces = Some({"A"})],
                                                    [AnySource EXCEPT !.ipBlocks = Some({1})]}}}
    \cup {AuthorizationRule(None, Some({x, y}), None) : x, y \in Operations}
    \cup {AuthorizationRule(from, None, Some({x, y})) : from \in {None, Some({[AnySource EXCEPT !.namespaces = Some({"A"})]})},
                                                       x, y \in Conditions}
    \cup {AuthorizationRule(None, to, Some({})) : to \in {None, Some({[AnyOperation EXCEPT !.ports = Some({1})]})}}
Authorization(ns, spec, action, selector, rules) ==
  [kind |-> "AuthorizationPolicy", name |-> "ap", namespace |-> ns, spec |-> spec, action |-> action, selector |-> selector,
   rules |-> rules]
WorkloadSelectors == {None, Some(Empty), Some("app" :> "web"), Some("app" :> "none")}
MCAuthorizationPolicies ==
  {Authorization("A", TRUE, "ALLOW", Some("app" :> "web"), <<rule>>) : rule \in AuthorizationRules}
    \cup {Authorization(x[1], x[2], x[3], x[4], x[5]) : x \in {"A", RootNamespace, "nowhere"} \X BOOLEAN \X {"ALLOW", "DENY"}
            \X WorkloadSelectors \X {<< >>, <<AnyRule, AuthorizationRule(Some({[AnySource EXCEPT !.ipBlocks = Some({1})]}), None, None)>>}}

SidecarHost(ns, name) == [namespace |-> ns, name |-> name]
AnyName == [kind |-> "all"]
WebService == [kind |-> "service", service |-> "web"]
ExternalHost == [kind |-> "dns", accepts |-> {"ext"}]
SidecarDoc(name, ns, selector, egress, registry_only) ==
  [name |-> name, namespace |-> ns, workloadSelector |-> selector, egress |-> egress, registryOnly |-> registry_only]
SidecarDocs ==
  {SidecarDoc("web", "A", Some("app" :> "web"), Some(<<{SidecarHost("*", WebService)}, {SidecarHost("B", AnyName)}>>), TRUE),
   SidecarDoc("api", "A", Some("app" :> "api"), Some(<<{SidecarHost("~", AnyName)}>>), FALSE),
   SidecarDoc("every", "A", Some(Empty), Some(<<{SidecarHost("A", ExternalHost)}>>), TRUE),
   SidecarDoc("own", "A", None, Some(<<{SidecarHost(".", AnyName)}>>), TRUE),
   SidecarDoc("again", "A", None, None, TRUE),
   SidecarDoc("own", "B", None, Some(<<{SidecarHost("nowhere", AnyName), SidecarHost(".", WebService)}>>), FALSE),
   SidecarDoc("global", RootNamespace, None, Some(<<{SidecarHost(".", AnyName), SidecarHost("A", WebService)}>>), TRUE),
   SidecarDoc("other", RootNamespace, None, None, FALSE),
   SidecarDoc("wrong", RootNamespace, Some("app" :> "web"), None, FALSE)}
MCSidecarLists == [kind : {"Sidecars"}, docs : {s \in SeqOf(SidecarDocs, 4) : Cardinality(ToSet(s)) = Len(s)}]
=============================================================================
