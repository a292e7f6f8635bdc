------------------------ MODULE MCConnectivityReport ------------------------
(***************************************************************************)
(* Six pods in three namespaces, one of them a system namespace, a host        *)
(* endpoint, a DNS name, three IPv4 addresses in a row and one of IPv6.        *)
(* The connections are unions of up to two products of peers and          *)
(* connections, as policies make them, and two cliques with common peers.      *)
(***************************************************************************)
EXTENDS ConnectivityReport

CONSTANTS a1, a2, a3, a4, b1, s1, h, d, A, B, S
MCPods == {a1, a2, a3, a4, b1, s1}
MCIps == {1, 2, 3, 5}
MCIpv6 == {5}
NsA == {a1, a2, a3, a4}
MCNsOf == [p \in MCPods |-> CASE p \in NsA -> A [] p = b1 -> B [] p = s1 -> S]
None == [k \in {} |-> k]
App(v) == [k \in {"app"} |-> v]
AppTier(v, w) == [k \in {"app", "tier"} |-> IF k = "app" THEN v ELSE w]
MCLabelsOf == [p \in MCPods \cup {h, d} |->
  CASE p = a1 -> AppTier("x", "f") [] p = a2 -> AppTier("y", "g") [] p = a3 -> AppTier("z", "f")
    [] p = a4 -> [k \in {"tier"} |-> "g"] [] p = b1 -> App("x") [] p = h -> App("x") [] OTHER -> None]
MCAllowedLabels == {<<"app">>, <<"app", "tier">>}
MCConns == {"TCP", "UDP"} \X {1, 2}

All == MCConns
Tcp == {"TCP"} \X {1, 2}
Tcp1 == {<<"TCP", 1>>}
Mixed == {<<"TCP", 1>>, <<"UDP", 2>>}
Rects == {
  <<NsA, NsA, All>>, <<MCPods, MCPods, Tcp>>, <<MCPods, MCPods, Mixed>>,
  <<{a1, a2}, {b1}, All>>, <<MCIps, {a1, a3, d, 1}, Tcp>>, <<MCPods, MCIps, All>>, <<{a1}, {1}, Tcp1>>,
  <<{h}, NsA, All>>, <<NsA, {d}, Tcp>>, <<{a1, a2, b1}, {a3, s1}, Tcp1>>, <<{b1}, NsA, All>>,
  <<{a2}, {b1}, Tcp>>, <<{s1}, {1, 2, 3}, All>>, <<{b1}, {1, 3}, All>>, <<{a1, b1}, {h, s1}, Tcp1>>,
  <<{1, 2, 3}, MCPods, All>>, <<{a2, a3, a4}, {a1, b1, d}, Tcp>>}
Joined(rects) == UNION {r[1] \X r[2] \X r[3] : r \in rects}
TwoCliques == {<<C, C, Tcp>> : C \in {{a1, a2, b1, s1}, {a2, a3, b1, h}}}
MCMaps == {Joined({x, y}) : x, y \in Rects} \cup {Joined(TwoCliques)}

Plain == [subset |-> NoSubset, exclude_ipv6 |-> FALSE, filter_system |-> FALSE, istio |-> FALSE]
Ipv4Only == [Plain EXCEPT !.exclude_ipv6 = TRUE]
Istio == [Plain EXCEPT !.istio = TRUE, !.filter_system = TRUE]
Subset == [Plain EXCEPT !.subset = [namespaces |-> {B}, deployments |-> {a4}, labels |-> {AppTier("x", "f")}]]
Query(o, conns, format) ==
  [subset |-> o.subset, exclude_ipv6 |-> o.exclude_ipv6, filter_system |-> o.filter_system,
   istio |-> o.istio, conns |-> conns, format |-> format]
MCQueries == {Query(o, conns, "rules") : o \in {Plain, Istio, Subset}, conns \in MCMaps}
             \cup {Query(o, conns, "dot") : o \in {Ipv4Only, Istio}, conns \in MCMaps}
             \cup {Query(o, conns, "txt_no_fw_rules") : o \in {Istio}, conns \in MCMaps}
=============================================================================
