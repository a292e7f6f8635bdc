-------------------------- MODULE GatewayManifests --------------------------
(***************************************************************************)
(* What comes into the cluster and leaves it through gateways: the parser of *)
(* Ingress resources (IngressPolicyYamlParser.py), those of Istio's gateways  *)
(* and virtual services, and the generator that makes policies of the two     *)
(* (IstioGatewayPolicyGenerator.py).                                          *)
(*                                                                           *)
(* A path is the sequence of its segments, /a/ being <<"a", "">>.  The        *)
(* automata of hosts and paths are the sets of what they accept.  All the     *)
(* connections are of TCP: a request is <<source, destination, port, host,    *)
(* path, method>>.                                                            *)
(***************************************************************************)
EXTENDS PolicyConnections

CONSTANTS Hosts, Paths, Methods

NoPeers(peers) == peers \in {None, Some({})}  \* not peers

\* A new cube restricts nothing.
AllAtoms(base) == {Key(base[i]) : i \in DOMAIN base} \cup {<<"ip", a>> : a \in Ips}
AnyRequest(base) ==
  [dst |-> AllAtoms(base), ports |-> PortSet(TRUE), hosts |-> Hosts, paths |-> Paths, methods |-> Methods]

\* make_conn_props; the sources come later.
PortsAt(base, ports, d, protocols) == ports.port_set \cup ResolveNamedPorts(base, ports.named, d, protocols)
Requests(base, cube, protocols) ==
  UNION {{d} \X PortsAt(base, cube.ports, d, protocols) \X cube.hosts \X cube.paths \X cube.methods : d \in cube.dst}
From(sources, requests) == {<<s>> \o r : s \in sources, r \in requests}

PathPrefix(path) == IF path # << >> /\ Last(path) = "" THEN Front(path) ELSE path
PrefixDfa(path) == {p \in Paths : IsPrefix(PathPrefix(path), p)}

\* A port of a service by its name or, the first one, by its number.
ServicePort(srv, port) ==
  LET found == {i \in DOMAIN srv.ports : IF port.named THEN srv.ports[i].name = port.name
                                         ELSE srv.ports[i].port = port.number}
  IN IF found = {} THEN None ELSE Some(srv.ports[CHOOSE i \in found : \A j \in found : i <= j])
TargetPorts(service_port) ==
  IF service_port.target.named THEN AddNamedPort(PortSet(FALSE), service_port.target.name)
  ELSE AddPort(PortSet(FALSE), service_port.target.number)
-----------------------------------------------------------------------------
(* Ingress.  A backend is [kind |-> "none"], [kind |-> "resource"] or        *)
(* [kind |-> "service", name, port].                                          *)

\* The peers and ports of a backend, and whether an absent one may be replaced by
\* the default backend.
ParseBackend(c, ns, backend, is_default) ==
  LET absent(override) == [peers |-> None, ports |-> None, override |-> override]
      key == <<ns, backend.name>>
      port == ServicePort(c.services[key], backend.port)
  IN CASE backend.kind # "service" ->
            [absent(TRUE) EXCEPT !.ports = IF is_default THEN Some(PortSet(TRUE)) ELSE None]
       [] backend.kind = "service" /\ (key \notin DOMAIN c.services \/ port = None) -> absent(FALSE)
       [] OTHER -> [peers |-> Some(c.services[key].target_pods), ports |-> Some(TargetPorts(port[1])), override |-> TRUE]

\* A service without pods is replaced by the default backend too.
ParseIngressPath(c, ns, default, path) ==
  LET own == ParseBackend(c, ns, path.backend, FALSE)
      used == IF NoPeers(own.peers) THEN default ELSE own
      exact == path.pathType = "Exact"
  IN IF NoPeers(own.peers) /\ ~own.override THEN << >>
     ELSE <<[path |-> IF exact THEN path.path ELSE PathPrefix(path.path), exact |-> exact,
             peers |-> used.peers, ports |-> used.ports]>>
ParsedPaths(c, ns, default, paths) ==
  FlattenSeq([i \in DOMAIN paths |-> ParseIngressPath(c, ns, default, paths[i])])

\* Mutant: an exact path does not take itself out of the prefixes.
LongestPathsOfPrefixes(ps) ==
  LET dfa(p) == IF p.exact THEN {p.path} \cap Paths ELSE PrefixDfa(p.path)
  IN [i \in DOMAIN ps |->
        IF ps[i].exact THEN dfa(ps[i])
        ELSE dfa(ps[i]) \ UNION {dfa(ps[j]) : j \in {k \in DOMAIN ps \ {i} : ~ps[k].exact /\ IsPrefix(ps[i].path, ps[k].path)}}]
\* segregate_longest_paths_and_make_dfa: what is left of a prefix when the paths
\* that begin with it are taken out.
LongestPaths(ps) ==
  LET dfa(p) == IF p.exact THEN {p.path} \cap Paths ELSE PrefixDfa(p.path)
  IN [i \in DOMAIN ps |->
        IF ps[i].exact THEN dfa(ps[i])
        ELSE dfa(ps[i]) \ UNION {dfa(ps[j]) : j \in {k \in DOMAIN ps \ {i} : IsPrefix(ps[i].path, ps[k].path)}}]

\* _make_default_connections: an empty set of hosts or paths restricts nothing.
DefaultConnections(base, default, hosts, paths) ==
  IF NoPeers(default.peers) THEN {}
  ELSE Requests(base, [AnyRequest(base) EXCEPT !.dst = default.peers[1], !.ports = default.ports[1],
                                              !.hosts = IF hosts = {} THEN Hosts ELSE hosts,
                                              !.paths = IF paths = {} THEN Paths ELSE paths], Protocols)

\* make_conn_props resolves names in the cube it is given: the cube is left with
\* the peer that came last in the iteration over a set.
LeftBehind(base, cube, last) ==
  LET found == {d \in cube.dst : ResolveNamedPorts(base, cube.ports.named, d, Protocols) # {}}
      d == IF last \in found THEN last ELSE CHOOSE x \in found : TRUE
  IN IF found = {} THEN cube
     ELSE [cube EXCEPT !.dst = {d},
                       !.ports = [PortSet(FALSE) EXCEPT !.port_set = ResolveNamedPorts(base, cube.ports.named, d, Protocols)]]

\* One cube serves all paths of a rule; assigning None to a dimension leaves what
\* the path before has put there.
PathConnections(base, hosts, ps, last) ==
  LET step(acc, i) ==
        LET cube == [acc.cube EXCEPT !.dst = OrElse(ps[i].peers, @), !.ports = OrElse(ps[i].ports, @),
                                     !.paths = LongestPaths(ps)[i]]
        IN [cube |-> LeftBehind(base, cube, last), conns |-> acc.conns \cup Requests(base, cube, Protocols)]
  IN FoldLeft(step, [cube |-> [AnyRequest(base) EXCEPT !.hosts = hosts], conns |-> {}], [i \in DOMAIN ps |-> i]).conns

\* parse_rule: a rule without paths is for the default backend; one whose paths
\* are all ignored has no connections.
ParseIngressRule(c, base, ns, default, rule, last) ==
  LET hosts == OrElse(rule.host, Hosts)
      ps == ParsedPaths(c, ns, default, rule.paths[1])
      captured == UNION {LongestPaths(ps)[i] : i \in DOMAIN ps}
  IN IF rule.paths = None THEN DefaultConnections(base, default, hosts, {})
     ELSE IF ps = << >> THEN {}
     ELSE PathConnections(base, hosts, ps, last) \cup DefaultConnections(base, default, hosts, Paths \ captured)

\* The code looks for the text in namespace/name; here it is one of the two.
NginxPods(c) == UNION {c.services[k].target_pods : k \in {x \in DOMAIN c.services : "ingress-nginx" \in {x[1], x[2]}}}

\* With a default backend and no rules, the hosts of the rules are None and their
\* complement raises.
IngressRaises(c, d) ==
  d.rules = << >> /\ ~NoPeers(ParseBackend(c, d.namespace, d.defaultBackend, TRUE).peers)

\* parse_policy
ParseIngressPolicy(c, base, d, last) ==
  LET default == ParseBackend(c, d.namespace, d.defaultBackend, TRUE)
      rules == UNION {ParseIngressRule(c, base, d.namespace, default, d.rules[i], last) : i \in DOMAIN d.rules}
      hosts == UNION {OrElse(d.rules[i].host, Hosts) : i \in DOMAIN d.rules}
  IN [selected |-> NginxPods(c), denied |-> {},
      allowed |-> From(NginxPods(c), rules \cup DefaultConnections(base, default, Hosts \ hosts, {}))]
-----------------------------------------------------------------------------
(* Istio's gateways and virtual services.  A host is [accepts, namespaced];  *)
(* a gateway is named <<namespace, name>>.                                    *)

Mesh == <<"mesh", "mesh">>
\* parse_host_value: hosts of a namespace are not supported.
ParseHosts(hosts) == UNION {h.accepts : h \in {x \in hosts : ~x.namespaced}}

GatewayType(selector) ==
  CASE Get(selector, "istio", NoName) = "ingressgateway" -> "Ingress"
    [] Get(selector, "istio", NoName) = "egressgateway" -> "Egress"
    [] OTHER -> NoName
GatewayPeers(c, selector) ==
  {p \in AllPeersGroup(c) :
     \A k \in DOMAIN selector : p \in GetPeersWithLabel(c, k, {selector[k]}, "In", NoNamespace)}
\* parse_gateway: only the standard gateways, and only those that have pods.
ParseGateway(c, gateways, d) ==
  IF GatewayType(d.selector) = NoName \/ GatewayPeers(c, d.selector) = {} THEN gateways
  ELSE (<<d.namespace, d.name>> :> [type |-> GatewayType(d.selector), peers |-> GatewayPeers(c, d.selector),
                                    hosts |-> UNION {ParseHosts(d.servers[i]) : i \in DOMAIN d.servers}]) @@ gateways

EgressGatewayService == [local |-> TRUE, namespace |-> Some("istio-system"), name |-> "istio-egressgateway"]
\* parse_destination.  A local destination without a port takes the only port of
\* its service; one that is left without a port has no connections.
ParseDestination(c, ns, d) ==
  LET key == <<OrElse(d.host.namespace, ns), d.host.name>>
      srv == c.services[key]
      port == IF d.port # None THEN ServicePort(srv, [named |-> FALSE, number |-> d.port[1]])
              ELSE IF Len(srv.ports) = 1 THEN Some(srv.ports[1]) ELSE None
      entries == AtomsOf({p \in c.peers : p.kind = "dns" /\ p.name[1] = d.host.name})
  IN IF d.host.local
     THEN IF key \notin DOMAIN c.services THEN << >>
          ELSE <<[host |-> d.host, pods |-> srv.target_pods, internal |-> TRUE,
                  ports |-> IF port = None THEN PortSet(FALSE) ELSE TargetPorts(port[1])]>>
     ELSE IF entries = {} THEN << >>
          ELSE <<[host |-> d.host, pods |-> entries, internal |-> FALSE,
                  ports |-> IF d.port = None THEN PortSet(FALSE) ELSE AddPort(PortSet(FALSE), d.port[1])]>>
\* A port that the service does not have is a syntax error.
LegalDestination(c, ns, d) ==
  d.host.local /\ d.port # None /\ <<OrElse(d.host.namespace, ns), d.host.name>> \in DOMAIN c.services =>
    ServicePort(c.services[<<OrElse(d.host.namespace, ns), d.host.name>>], [named |-> FALSE, number |-> d.port[1]]) # None

Given(items, f) == {items[i][f][1] : i \in {j \in DOMAIN items : items[j][f] # None}}
\* A tls route needs matches with hosts of its virtual service; without it is ignored.
Accepted(vs, kind, r) ==
  kind = "tls" => r.match # << >> /\ \A i \in DOMAIN r.match : r.match[i].sniHosts \subseteq ParseHosts(vs.hosts)
\* The matches of a route: what any of them accepts, dimension by dimension.  A
\* match without methods is for all; one without a uri leaves the others' uris.
ParseRoute(c, vs, kind, r) ==
  LET uris == Given(r.match, "uri")
      matches == {r.match[i] : i \in DOMAIN r.match}
  IN [destinations |-> FlattenSeq([i \in DOMAIN r.route |-> ParseDestination(c, vs.namespace, r.route[i])]),
      uri |-> IF kind = "http" /\ uris # {} THEN Some(UNION uris) ELSE None,
      methods |-> IF kind = "http" /\ matches # {} THEN Some(UNION {OrElse(m.method, Methods) : m \in matches}) ELSE None,
      sni |-> IF kind = "tls" THEN Some(UNION {m.sniHosts : m \in matches}) ELSE None,
      gateways |-> UNION {m.gateways : m \in matches}]
AcceptedRoutes(vs, kind) == SelectSeq(vs[kind], LAMBDA r : Accepted(vs, kind, r))
RoutesOf(c, vs, kind) == [i \in DOMAIN AcceptedRoutes(vs, kind) |-> ParseRoute(c, vs, kind, AcceptedRoutes(vs, kind)[i])]

RouteKinds == <<"http", "tls", "tcp">>
\* Destinations inside and outside the mesh do not mix in a route (an assertion);
\* sniHosts need hosts to be compared with.
LegalVirtualService(c, vs) ==
  /\ ParseHosts(vs.hosts) = {} => \A i \in DOMAIN vs.tls : vs.tls[i].match = << >>
  /\ \A k \in DOMAIN RouteKinds : \A r \in ToSet(AcceptedRoutes(vs, RouteKinds[k])) :
       /\ \A i \in DOMAIN r.route : LegalDestination(c, vs.namespace, r.route[i])
       /\ \A x, y \in ToSet(ParseRoute(c, vs, RouteKinds[k], r).destinations) : x.internal = y.internal
-----------------------------------------------------------------------------
(* The generator.  A policy has its name, the list it is put in, and what it *)
(* allows or denies.                                                          *)

VsGateways(vs) == IF vs.gateways = {} THEN {Mesh} ELSE vs.gateways
\* The gateways of a route override those of its virtual service.
RouteGateways(vs, route) == IF route.gateways = {} THEN VsGateways(vs) ELSE route.gateways
\* pick_vs_gateways_by_hosts, and the sniHosts of a tls route.
MatchingHosts(gateways, vs, route, g) ==
  (gateways[g].hosts \cap ParseHosts(vs.hosts)) \cap OrElse(route.sni, Hosts)
PickedGateways(gateways, vs, route) ==
  {g \in RouteGateways(vs, route) \cap DOMAIN gateways : MatchingHosts(gateways, vs, route, g) # {}}

\* init_route_conn_cube, create_allow_rule
AllowRule(base, route, hosts, d) ==
  Requests(base, [dst |-> d.pods, ports |-> d.ports, hosts |-> hosts, paths |-> OrElse(route.uri, Paths),
                  methods |-> OrElse(route.methods, Methods)], {"TCP"})
Destinations(route) == ToSet(route.destinations)
PolicyName(vs, cnt, via) == <<vs.namespace, vs.name, cnt, via>>

\* create_gtw_to_mesh_and_deny_policies, for one gateway.
GatewayPolicies(c, base, gateways, vs, cnt, route, g) ==
  LET gtw == gateways[g]
      others == AllPeersGroup(c) \ gtw.peers
      allow == [name |-> <<"Allow", PolicyName(vs, cnt, g)>>, list |-> IF gtw.type = "Egress" THEN "dns" ELSE "ingress",
                allowed |-> From(gtw.peers, UNION {AllowRule(base, route, MatchingHosts(gateways, vs, route, g), d) :
                                                     d \in Destinations(route)}), denied |-> {}]
      deny == [name |-> <<"Deny", PolicyName(vs, cnt, g)>>, list |-> "deny", allowed |-> {},
               denied |-> UNION {others \X d.pods : d \in Destinations(route)}]
  IN IF gtw.type = "Egress" THEN <<allow, deny>> ELSE <<allow>>

\* create_mesh_to_egress_policy; other traffic inside the mesh is ignored.
MeshPolicies(c, base, vs, cnt, route) ==
  LET policy(d) ==
        [name |-> <<"Allow", PolicyName(vs, cnt, <<"destination", EgressGatewayService.name>>)>>, list |-> "mesh", denied |-> {},
         allowed |-> From(AllPeersGroup(c), AllowRule(base, route, OrElse(route.sni, Hosts), d))]
      to_egress(d) == /\ Mesh \in RouteGateways(vs, route) /\ d.internal
                      /\ d.host = EgressGatewayService
  IN [i \in DOMAIN SelectSeq(route.destinations, to_egress) |-> policy(SelectSeq(route.destinations, to_egress)[i])]

RoutePolicies(c, base, gateways, vs, cnt, route) ==
  LET picked == SetToSeq(PickedGateways(gateways, vs, route))
  IN FlattenSeq([i \in DOMAIN picked |-> GatewayPolicies(c, base, gateways, vs, cnt, route, picked[i])])
       \o MeshPolicies(c, base, vs, cnt, route)
\* create_route_policies: the routes of each kind are counted from 1.
VsPolicies(c, base, gateways, vs) ==
  FlattenSeq([k \in DOMAIN RouteKinds |->
    LET routes == RoutesOf(c, vs, RouteKinds[k])
    IN FlattenSeq([i \in DOMAIN routes |-> RoutePolicies(c, base, gateways, vs, i, routes[i])])])

\* With gateways a virtual service needs hosts; an egress gateway is for
\* destinations outside (an assertion).
GeneratorAsserts(c, gateways, vs) ==
  DOMAIN gateways # {} => ParseHosts(vs.hosts) # {} /\
    \A kind \in ToSet(RouteKinds) : \A route \in ToSet(RoutesOf(c, vs, kind)) :
      \A g \in PickedGateways(gateways, vs, route) :
        gateways[g].type = "Egress" => \A d \in Destinations(route) : ~d.internal

\* create_istio_gateway_policies: the two parts of the egress flow and what is
\* denied beside it, only when both parts are there.
WholeFlows(all) ==
  LET of(list) == SelectSeq(all, LAMBDA p : p.list = list)
  IN of("ingress") \o (IF of("mesh") # << >> /\ of("dns") # << >> THEN of("mesh") \o of("dns") \o of("deny") ELSE << >>)
CreatePolicies(c, base, gateways, services) ==
  IF DOMAIN gateways = {} THEN << >>
  ELSE WholeFlows(FlattenSeq([i \in DOMAIN services |-> VsPolicies(c, base, gateways, services[i])]))

\* The container ignores a policy whose name it has.
FirstOfName(policies) ==
  FoldLeft(LAMBDA acc, p : IF p.name \in {acc[i].name : i \in DOMAIN acc} THEN acc ELSE Append(acc, p), << >>, policies)

ParseGateways(c, docs) == FoldLeft(LAMBDA acc, g : ParseGateway(c, acc, g), Empty, docs)
\* A server without hosts, a virtual service that is not legal and an egress
\* gateway to the inside end the run.
IstioRaises(c, d) ==
  \/ \E i \in DOMAIN d.gateways : /\ GatewayType(d.gateways[i].selector) # NoName
                                  /\ GatewayPeers(c, d.gateways[i].selector) # {}
                                  /\ \E n \in DOMAIN d.gateways[i].servers : ParseHosts(d.gateways[i].servers[n]) = {}
  \/ \E i \in DOMAIN d.services : ~LegalVirtualService(c, d.services[i])
  \/ ~\A i \in DOMAIN d.services : GeneratorAsserts(c, ParseGateways(c, d.gateways), d.services[i])
ParseIstio(c, base, d) ==
  LET policies == FirstOfName(CreatePolicies(c, base, ParseGateways(c, d.gateways), d.services))
  IN [policies |-> policies, allowed |-> UNION {policies[i].allowed : i \in DOMAIN policies},
      denied |-> UNION {policies[i].denied : i \in DOMAIN policies}]

\* The namespaces the parsers ask the container for; when nothing comes of the
\* gateways, also the one of the policy that keeps the warnings.
MentionedIn(c, d, policies) ==
  LET routes == UNION {ToSet(AcceptedRoutes(d.services[i], kind)) : i \in DOMAIN d.services, kind \in ToSet(RouteKinds)}
      gateways == UNION {d.services[i].gateways : i \in DOMAIN d.services}
                    \cup UNION {UNION {r.match[i].gateways : i \in DOMAIN r.match} : r \in routes}
      hosts == UNION {{r.route[i].host : i \in DOMAIN r.route} : r \in routes}
  IN {d.gateways[i].namespace : i \in DOMAIN d.gateways} \cup {d.services[i].namespace : i \in DOMAIN d.services}
       \cup {g[1] : g \in gateways \ {Mesh}} \cup {h.namespace[1] : h \in {x \in hosts : x.local /\ x.namespace # None}}
       \cup (IF policies = << >> /\ d.services # << >> /\ DOMAIN ParseGateways(c, d.gateways) # {} THEN {"default"} ELSE {})
=============================================================================
