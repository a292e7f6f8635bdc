-------------------------- MODULE MCConfigQueries --------------------------
(***************************************************************************)
(* Configurations of up to two policies of four layers, over two pods and a   *)
(* third one that only the new topology has.                                    *)
(***************************************************************************)
EXTENDS ConfigQueries

CONSTANTS a, b, extra, dns, ip

Rule(action, conns) == [action |-> action, conns |-> conns, egress_peer_set |-> {}]
Pol(name, kind, action, order, selected, affects, in, out) ==
  [name |-> name, kind |-> kind, action |-> action, order |-> order,
   selected |-> selected, affects |-> affects, ingress |-> in, egress |-> out]
Tcp(S, D) == [src : S, dst : D, prot : {"TCP"}]
Both(S, D) == [src : S, dst : D, prot : {"TCP", "UDP"}]

K8sTcp == Pol("p1", "k8s", "allow", 1000, {b}, {"ingress"},
              <<Rule("allow", Tcp({a, b, extra}, {b}))>>, << >>)
CalicoDeny == Pol("p2", "calico", "allow", -1, {a}, {"egress"},
                  << >>, <<Rule("deny", Both({a}, {b})), Rule("allow", Both({a}, {a, b, extra, ip, dns}))>>)
\* All TCP connections of b, and so, with the others being allowed, all of them.
Authz == Pol("p1", "authz", "allow", -1, {b}, {"ingress"},
             <<Rule("allow", Tcp({a, b, extra, ip}, {b}))>>, << >>)
Ingress == Pol("p3", "ingress", "allow", -1, {a}, {"egress"},
               << >>, <<Rule("allow", Tcp({a}, {b}))>>)
\* The same name in another version.
K8sOther == Pol("p1", "k8s", "allow", 1000, {b, extra}, {"ingress"},
                <<Rule("allow", Both({a, ip}, {b, extra}))>>, << >>)

\* b connects to pods only.
Isolated == Pol("p2", "k8s", "allow", 1000, {b}, {"egress"},
                << >>, <<Rule("allow", Both({b}, {a, b, extra}))>>)

MCPolicies == {K8sTcp, K8sOther, CalicoDeny, Authz, Ingress}
MCIsolated == {Isolated, Authz}
=============================================================================
