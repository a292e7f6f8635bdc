-------------------------- MODULE MCNetworkLayers --------------------------
(***************************************************************************)
(* Policies of every kind about two pods, a host endpoint, a DNS name and    *)
(* the IP addresses, chosen so that orders are equal and different, actions  *)
(* contradict, and rules are contained in others.                            *)
(***************************************************************************)
EXTENDS SingleQueries

CONSTANTS a, b, h, dns, ip

Rule(action, conns) == [action |-> action, conns |-> conns, egress_peer_set |-> {}]
Listener(peers, conns) == [action |-> "allow", conns |-> conns, egress_peer_set |-> peers]
Pol(name, kind, action, order, selected, affects, in, out) ==
  [name |-> name, kind |-> kind, action |-> action, order |-> order,
   selected |-> selected, affects |-> affects, ingress |-> in, egress |-> out]

K8s == Pol("p1", "k8s", "allow", 1000, {b}, {"ingress"},
           <<Rule("allow", TcpBetween({a}, {b}))>>, << >>)
\* A profile gets what is passed on, but not the host endpoint.
First == Pol("p2", "calico", "allow", 1, {b} \cup Heps, {"ingress"},
             <<Rule("pass", TcpBetween({a}, {b} \cup Heps)), Rule("log", Between(Peers, {b})),
               Rule("deny", Between({ip}, {b}))>>, << >>)
\* The same order as the policy of Kubernetes, and as another of Calico.
Equal == Pol("p3", "calico", "allow", 1000, {a, b}, {"ingress", "egress"},
             <<Rule("deny", TcpBetween({a}, {b})), Rule("deny", Between({a}, {b})),
               Rule("allow", Between({a, ip}, {a, b}))>>,
             <<Rule("allow", Between({a}, {b, dns}))>>)
Other == Pol("p4", "calico", "allow", 1000, {b}, {"ingress"},
             <<Rule("deny", {}), Rule("allow", TcpBetween({a, ip}, {b}))>>, << >>)
Open == Pol("p5", "calico", "allow", NoOrder, {a, b} \cup Heps, {"ingress", "egress"},
            <<Rule("allow", Between({a}, {b} \cup Heps))>>, <<Rule("allow", Between({b}, {a}))>>)
Nobody == Pol("p7", "k8s", "allow", 1000, {}, {"ingress"}, << >>, << >>)
Closed == Pol("p6", "calico", "allow", NoOrder, {a, b}, {"ingress"},
              <<Rule("deny", Between({a}, {b}))>>, << >>)
AuthzAllow == Pol("p1", "authz", "allow", NoOrder, {b}, {"ingress"},
                  <<Rule("allow", TcpBetween({a, ip}, {b}))>>, << >>)
AuthzDeny == Pol("p2", "authz", "deny", NoOrder, {b}, {"ingress"},
                 <<Rule("deny", TcpBetween({a}, {b})), Rule("deny", TcpBetween({a, b}, {b}))>>, << >>)
Sidecar == Pol("p3", "sidecar", "allow", NoOrder, {a}, {"egress"},
               << >>, <<Listener({b}, Between({a}, {b})), Listener({}, TcpBetween({a}, {dns}))>>)
\* Its only rule selects nobody, and still allows the IP addresses.
Lone == Pol("p7", "sidecar", "allow", NoOrder, {b}, {"egress"},
            << >>, <<Listener({}, Between({b}, {ip}))>>)
Ingress == Pol("p4", "ingress", "allow", NoOrder, {a}, {"egress"},
               << >>, <<Rule("allow", TcpBetween({a}, {b}))>>)
GwAllow == Pol("p5", "gateway", "allow", NoOrder, {b}, {"egress"},
               << >>, <<Rule("allow", TcpBetween({b}, {dns}))>>)
GwDeny == Pol("p6", "gateway", "deny", NoOrder, {dns}, {"ingress"},
              <<Rule("deny", TcpBetween({a, b}, {dns}))>>, << >>)

MCPolicies == {K8s, First, Equal, Other, Open, Nobody, Closed, AuthzAllow, AuthzDeny,
               Sidecar, Lone, Ingress, GwAllow, GwDeny}
MCIstio == {AuthzAllow, AuthzDeny, Sidecar}
=============================================================================
