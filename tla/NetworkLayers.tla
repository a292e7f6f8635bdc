--------------------------- MODULE NetworkLayers ---------------------------
(***************************************************************************)
(* A network configuration: its policies, the layers they are sorted into,   *)
(* and the connections the layers together allow (NetworkConfig.py,           *)
(* NetworkLayer.py, PoliciesFinder.py).  The policies arrive in the order of  *)
(* the parse queue; then queries clone the configuration without a policy, or *)
(* with one rule of a policy removed (RedundancyQuery).                       *)
(*                                                                           *)
(* A connection is a source, a destination and a protocol; ports and request  *)
(* attributes, which no policy kind treats differently, are left out.         *)
(***************************************************************************)
EXTENDS Integers, FiniteSets, Sequences, SequencesExt

CONSTANTS
  Pods, Heps, DnsEntries,  \* the peers: pods, Calico host endpoints, DNS names
  Ip,                      \* all IP addresses
  OtherProtocols,          \* the protocols that are not TCP
  Policies,                \* the policies of the input resources
  MaxPolicies              \* bound: how many of them a configuration has

Clusters == Pods \cup Heps
Peers == Clusters \cup DnsEntries \cup {Ip}
Protocols == {"TCP"} \cup OtherProtocols
Conns == [src : Peers, dst : Peers, prot : Protocols]
Between(S, D) == [src : S, dst : D, prot : Protocols]
TcpBetween(S, D) == [src : S, dst : D, prot : {"TCP"}]
\* conn_hep: the connections that involve a host endpoint.
HepConns == Between(Heps, Peers) \cup Between(Peers, Heps)

\* The classes of peers are apart.
ASSUME PeerAssumption ==
  /\ Pods \cap Heps = {} /\ Clusters \cap DnsEntries = {} /\ Ip \notin Clusters \cup DnsEntries
  /\ "TCP" \notin OtherProtocols

Directions == {"ingress", "egress"}
Kinds == {"k8s", "calico", "authz", "sidecar", "ingress", "gateway"}
Actions == {"allow", "deny", "pass", "log"}
NoOrder == -1  \* Calico's and everybody's None

\* The rules of a policy other than Calico's have the action of the policy;
\* a policy with no order has NoOrder, one of k8s has 1000.  The rule of a sidecar
\* keeps the peers it selects too, which do not tell its connections: they may be of
\* other peers, and the IP addresses come with every rule.
Rules == [action : Actions, conns : SUBSET Conns, egress_peer_set : SUBSET Peers]
ASSUME PolicyAssumption ==
  \A p \in Policies :
    /\ DOMAIN p = {"name", "kind", "action", "order", "selected", "affects", "ingress", "egress"}
    /\ p.kind \in Kinds /\ p.action \in {"allow", "deny"}
    /\ p.order \in Nat \cup {NoOrder} /\ p.selected \in SUBSET (Clusters \cup DnsEntries)
    /\ p.affects \in SUBSET Directions
    /\ p.ingress \in Seq(Rules) /\ p.egress \in Seq(Rules)
    /\ p.kind = "k8s" => p.order = 1000 /\ p.action = "allow"
    /\ p.kind \in {"authz", "sidecar", "ingress", "gateway"} => p.order = NoOrder
    /\ p.kind = "authz" => p.affects = {"ingress"} /\ p.egress = << >>
    /\ p.kind = "sidecar" => p.affects \in SUBSET {"egress"} /\ p.ingress = << >>
    /\ p.kind \notin {"calico"} =>
         \A d \in Directions : \A i \in DOMAIN p[d] : p[d][i].action = p.action
    /\ p.kind # "sidecar" =>
         \A d \in Directions : \A i \in DOMAIN p[d] : p[d][i].egress_peer_set = {}
    \* An authorization policy speaks of TCP; a rule is about the selected peers.
    /\ p.kind = "authz" =>
         \A i \in DOMAIN p.ingress : \A c \in p.ingress[i].conns : c.prot = "TCP"
    /\ \A i \in DOMAIN p.ingress : \A c \in p.ingress[i].conns : c.dst \in p.selected
    /\ \A i \in DOMAIN p.egress : \A c \in p.egress[i].conns : c.src \in p.selected
ASSUME MaxPoliciesAssumption == MaxPolicies \in Nat

VARIABLES
  config,   \* the configuration that is built and queried
  variant   \* the clone a query made of it last, or NoVariant

vars == <<config, variant>>
-----------------------------------------------------------------------------
(***************************************************************************)
(* Layers and the order of their policies.                                 *)
(***************************************************************************)
LayerNames == {"K8s_Calico", "Istio", "K8sGateway", "IstioGateway"}
policy_type_to_layer(p) ==
  CASE p.kind \in {"k8s", "calico"}    -> "K8s_Calico"
    [] p.kind \in {"authz", "sidecar"} -> "Istio"
    [] p.kind = "ingress"              -> "K8sGateway"
    [] p.kind = "gateway"              -> "IstioGateway"

\* (mutant: None is a number like another, the smallest)
LessNoneFirst(p, q) ==
  IF p.kind = "authz" THEN q.kind = "authz" /\ p.action = "deny"
  ELSE p.order < q.order
\* p.__lt__(q): a Deny of Istio goes before the others of Istio; else by order,
\* None last.
Less(p, q) ==
  IF p.kind = "authz" THEN q.kind = "authz" /\ p.action = "deny"
  ELSE p.order # NoOrder /\ (q.order = NoOrder \/ p.order < q.order)

\* One turn of the loop of bisect_right, which narrows where p goes.
Halved(x, list, p) ==
  LET mid == (x.lo + x.hi) \div 2
  IN  IF x.lo >= x.hi THEN x
      ELSE IF Less(p, list[mid + 1]) THEN [x EXCEPT !.hi = mid] ELSE [x EXCEPT !.lo = mid + 1]
\* bisect_right: how many policies of the list stay before p.
BisectRight(list, p) ==
  LET turn[n \in 0 .. Len(list)] ==
        IF n = 0 THEN [lo |-> 0, hi |-> Len(list)] ELSE Halved(turn[n - 1], list, p)
  IN  turn[Len(list)].lo
insort(list, p) == InsertAt(list, BisectRight(list, p) + 1, p)

\* (mutant: the default layer is never dropped)
AddPolicyKeepsDefault(layers, p) ==
  LET name == policy_type_to_layer(p)
  IN  [n \in DOMAIN layers \cup {name} |->
         IF n \notin DOMAIN layers THEN <<p>>
         ELSE IF n = name THEN insort(layers[n], p) ELSE layers[n]]
\* NetworkLayersContainer.add_policy: the default layer goes when another
\* layer comes and it has no policy.
AddPolicy(layers, p) ==
  LET name == policy_type_to_layer(p)
      added == [n \in DOMAIN layers \cup {name} |->
                  IF n \notin DOMAIN layers THEN <<p>>
                  ELSE IF n = name THEN insort(layers[n], p) ELSE layers[n]]
      kept == {n \in DOMAIN added : n # "K8s_Calico" \/ added[n] # << >>}
  IN  [n \in kept |-> added[n]]

Key(p) == <<p.name, p.kind>>
NoPolicies == [policies |-> << >>, layers |-> [n \in {"K8s_Calico"} |-> << >>]]
NoVariant == [policies |-> << >>, layers |-> << >>]

\* PoliciesContainer.append_policy: a policy already there is ignored.
AppendPolicy(cfg, p) ==
  IF Key(p) \in {Key(q) : q \in ToSet(cfg.policies)} THEN cfg
  ELSE [policies |-> Append(cfg.policies, p), layers |-> AddPolicy(cfg.layers, p)]
\* The policies of a list, appended to an empty configuration, but those to exclude.
Clone(list, excluded) ==
  LET clone[n \in 0 .. Len(list)] ==
        IF n = 0 THEN NoPolicies
        ELSE IF Key(list[n]) \in excluded THEN clone[n - 1]
        ELSE AppendPolicy(clone[n - 1], list[n])
  IN  clone[Len(list)]
ConfigOf(list) == Clone(list, {})

\* clone_without_policy
WithoutPolicy(cfg, p) == Clone(cfg.policies, {Key(p)})
\* The comparison of two rules of p: those of a sidecar are a dataclass without
\* fields, and so any two of them are equal.
SameRule(p, r, s) == p.kind = "sidecar" \/ r = s
\* clone_without_rule: every rule that is equal to the one removed goes.
WithoutRule(p, dir, i) ==
  [p EXCEPT ![dir] = SelectSeq(p[dir], LAMBDA r : ~SameRule(p, r, p[dir][i]))]
-----------------------------------------------------------------------------
(***************************************************************************)
(* Which connections are allowed.                                          *)
(***************************************************************************)
Nothing == [allow |-> {}, deny |-> {}, pass |-> {}]
\* What came first decides: y only where x did not.
AndThen(x, y) ==
  [allow |-> x.allow \cup (y.allow \ (x.deny \cup x.pass)),
   deny  |-> x.deny \cup (y.deny \ (x.allow \cup x.pass)),
   pass  |-> x.pass \cup (y.pass \ (x.allow \cup x.deny))]

OfRule(r) == IF r.action = "log" THEN Nothing
             ELSE [Nothing EXCEPT ![r.action] = r.conns]
\* sync_props: the properties of a policy in one direction.
OfPolicy(p, dir) ==
  LET after[n \in 0 .. Len(p[dir])] ==
        IF n = 0 THEN Nothing ELSE AndThen(after[n - 1], OfRule(p[dir][n]))
  IN  after[Len(p[dir])]
\* The peers whose connections in one direction p decides.
CapturedBy(p, dir) == IF dir \in p.affects THEN p.selected ELSE {}

\* captured_cond_func: a Deny of Istio denies, and leaves the rest allowed.
Captures(p) == p.kind \in {"authz", "gateway"} => p.action = "allow"

\* What the policies so far decide and capture, and p after them.
WithPolicy(x, p, dir) ==
  IF CapturedBy(p, dir) = {} THEN x
  ELSE [eff |-> AndThen(x.eff, OfPolicy(p, dir)),
        captured |-> IF Captures(p) THEN x.captured \cup CapturedBy(p, dir) ELSE x.captured]
\* collect_policies_conns_optimized
Collect(list, dir) ==
  LET after[n \in 0 .. Len(list)] ==
        IF n = 0 THEN [eff |-> Nothing, captured |-> {}]
        ELSE WithPolicy(after[n - 1], list[n], dir)
  IN  after[Len(list)]

\* The connections of dir whose captured end is in S, all other ends in O.
Ends(dir, S, O) == IF dir = "ingress" THEN Between(O, S) ELSE Between(S, O)

\* (mutant: without __post_init__)
FilterAsAsked(allowed, denied, all) == [allowed |-> allowed, denied |-> denied, all |-> all]
\* PolicyConnectionsFilter, whose __post_init__ adds all_allowed to allowed.
Filter(allowed, denied, all) ==
  [allowed |-> allowed, denied |-> denied, all |-> all \/ allowed]
only_allowed_connections == Filter(TRUE, FALSE, FALSE)
only_denied_connections == Filter(FALSE, TRUE, FALSE)
only_all_allowed_connections == Filter(FALSE, FALSE, TRUE)
\* replace(filter, calc_all_allowed=False) runs __post_init__ again.
WithoutAll(filter) == Filter(filter.allowed, filter.denied, FALSE)
Where(cond, S) == IF cond THEN S ELSE {}

\* K8sCalicoNetworkLayer._allowed_xgress_conns: default-allow for what no
\* policy captures and for what the policies pass to the profiles, which host
\* endpoints do not have.
CalicoXgress(col, dir, filter) ==
  LET notHep == Pods \cup DnsEntries
      free == Ends(dir, notHep \ col.captured, Peers)
      passed == col.eff.pass \cap Ends(dir, notHep \cap col.captured, Peers)
      allowed == col.eff.allow \cup passed
  IN  [allowed |-> allowed, denied |-> col.eff.deny,
       all |-> Where(filter.all, free \cup allowed)]

\* IstioNetworkLayer._allowed_xgress_conns: what is not TCP is allowed, and so is
\* what nobody denies of peers that no Allow policy captures; to DNS entries only TCP.
IstioXgress(col, dir, filter) ==
  LET noDns == Clusters \cup {Ip}
      free == Clusters \ col.captured
      nonTcp == [src : noDns, dst : noDns, prot : OtherProtocols]
      uncaptured ==
        IF dir = "ingress"
          THEN Between(noDns, free)
               \cup Where(free # {}, TcpBetween(noDns, DnsEntries \ col.captured))
          ELSE Between(free, noDns) \cup TcpBetween(free, DnsEntries)
  IN  [allowed |-> col.eff.allow, denied |-> col.eff.deny,
       all |-> Where(filter.all, col.eff.allow \cup nonTcp \cup (uncaptured \ col.eff.deny))]

Xgress(name, list, dir, filter) ==
  IF name \in {"K8s_Calico", "K8sGateway"}
    THEN CalicoXgress(Collect(list, dir), dir, filter)
    ELSE IstioXgress(Collect(list, dir), dir, filter)

\* What both directions allow; nothing guards the IP addresses' own end.
InAndOut(in, out, filter) ==
  LET inAll == in.all \cup Where(filter.all, Between(Clusters, {Ip}))
      outAll == out.all \cup Where(filter.all, Between({Ip}, Clusters))
  IN  [all |-> inAll \cap outAll,
       denied |-> Where(filter.denied, in.denied \cup out.denied),
       allowed |-> Where(filter.allowed, (in.allowed \cap outAll) \cup (out.allowed \cap inAll))]
\* NetworkLayer.allowed_connections
LayerConns(name, list, filter) ==
  InAndOut(Xgress(name, list, "ingress", filter), Xgress(name, list, "egress", filter), filter)

\* and_by_filter and sub_by_filter.
AndBy(x, S, filter) ==
  [allowed |-> IF filter.allowed THEN x.allowed \cap S ELSE x.allowed,
   denied |-> IF filter.denied THEN x.denied \cap S ELSE x.denied,
   all |-> IF filter.all THEN x.all \cap S ELSE x.all]
SubBy(x, S, filter) == AndBy(x, Conns \ S, filter)

\* Connections of host endpoints are the Calico layer's.
OwnConns(name, conns, filter) ==
  IF name = "K8s_Calico" THEN conns ELSE SubBy(conns, HepConns, WithoutAll(filter))
\* Allowed is what all layers allow.
AllLayers(start, of, filter) ==
  LET all == {c \in start.all : \A n \in DOMAIN of : c \in of[n].all}
      allowed == start.allowed \cup UNION {of[n].allowed : n \in DOMAIN of}
  IN  [all |-> Where(filter.all, all),
       denied |-> start.denied \cup UNION {of[n].denied : n \in DOMAIN of},
       allowed |-> Where(filter.allowed, allowed \cap all)]
\* NetworkConfig.allowed_connections: for host endpoints the Calico layer is
\* there, empty, if need be.
AllowedConnections(cfg, filter) ==
  AllLayers(
    IF Heps # {} /\ "K8s_Calico" \notin DOMAIN cfg.layers
      THEN AndBy(LayerConns("K8s_Calico", << >>, filter), HepConns, WithoutAll(filter))
      ELSE [allowed |-> {}, denied |-> {}, all |-> Where(filter.all, Conns)],
    [n \in DOMAIN cfg.layers |-> OwnConns(n, LayerConns(n, cfg.layers[n], filter), filter)],
    filter)

\* filter_conns_by_peer_types
RealConns == {c \in Conns : /\ c.src \notin DnsEntries
                            /\ c.src = Ip => c.dst \notin DnsEntries \cup {Ip}}
AllAllowed(cfg) ==
  AllowedConnections(cfg, only_all_allowed_connections).all \cap RealConns
-----------------------------------------------------------------------------
(***************************************************************************)
(* SanityQuery: Calico policies of one order with contradicting rules.      *)
(***************************************************************************)
\* has_rules_with_action
HasRules(p, dir, a) ==
  \E i \in DOMAIN p[dir] : p[dir][i].action = a /\ p[dir][i].conns # {}
is_conflicting(p, q) ==
  /\ p.order = q.order /\ p.selected \cap q.selected # {}
  /\ \E dir \in p.affects \cap q.affects :
       \/ HasRules(p, dir, "allow") /\ HasRules(q, dir, "deny")
       \/ HasRules(p, dir, "deny") /\ HasRules(q, dir, "allow")

\* The policies so far of the order p has, and p.
SameOrder(curr, p) ==
  IF curr # << >> /\ Less(curr[1], p) THEN <<p>> ELSE Append(curr, p)
\* One policy of the pass, which looks at those of Calico only.
Scanned(x, p) ==
  LET curr == SameOrder(x.curr, p)
  IN  IF p.kind # "calico" THEN x
      ELSE [curr |-> curr, found |-> x.found \/ \E q \in ToSet(curr) \ {p} : is_conflicting(p, q)]
\* has_conflicting_policies_with_same_order: one pass over the sorted list.
ConflictScan(cfg) ==
  LET list == IF "K8s_Calico" \in DOMAIN cfg.layers THEN cfg.layers["K8s_Calico"]
                                                    ELSE << >>
      scan[n \in 0 .. Len(list)] ==
        IF n = 0 THEN [curr |-> << >>, found |-> FALSE] ELSE Scanned(scan[n - 1], list[n])
  IN  scan[Len(list)].found
-----------------------------------------------------------------------------
Init == config = NoPolicies /\ variant = NoVariant

\* parse_policies_in_parse_queue: sidecars, and what comes of gateways and
\* virtual services, are appended after everything else.
AtEnd(p) == p.kind \in {"sidecar", "gateway"}
AppendParsed(p) ==
  /\ variant = NoVariant /\ Len(config.policies) < MaxPolicies
  /\ ~AtEnd(p) => \A q \in ToSet(config.policies) : ~AtEnd(q)
  /\ config' = AppendPolicy(config, p)
  /\ UNCHANGED variant

\* redundant_policies, for one policy.
RemovePolicy(p) ==
  /\ p \in ToSet(config.policies)
  /\ variant' = WithoutPolicy(config, p)
  /\ UNCHANGED config

\* find_redundant_rules, for one rule: the configuration without the policy,
\* then the policy without the rule.  When an equal rule is left out with it the
\* rule is redundant and nothing is computed.
RemoveRule(p, dir, i) ==
  /\ p \in ToSet(config.policies) /\ i \in DOMAIN p[dir]
  /\ Len(WithoutRule(p, dir, i)[dir]) = Len(p[dir]) - 1
  /\ variant' = AppendPolicy(WithoutPolicy(config, p), WithoutRule(p, dir, i))
  /\ UNCHANGED config

Next == \E p \in Policies :
          \/ AppendParsed(p) \/ RemovePolicy(p)
          \/ \E dir \in Directions : \E i \in DOMAIN p[dir] : RemoveRule(p, dir, i)
Spec == Init /\ [][Next]_vars
-----------------------------------------------------------------------------
(***************************************************************************)
(* What a configuration means, told from the set of its policies and the     *)
(* order they arrived in, without lists or layers.                           *)
(***************************************************************************)
Arrival(cfg, p) == CHOOSE i \in DOMAIN cfg.policies : cfg.policies[i] = p
\* p is evaluated before q: Calico's order, None last; Istio's Deny first; else
\* as they arrived.
Sooner(cfg, p, q) ==
  IF p.kind = "authz" /\ q.kind = "authz" /\ p.action # q.action THEN p.action = "deny"
  ELSE IF p.order # q.order THEN p.order # NoOrder /\ (q.order = NoOrder \/ p.order < q.order)
  ELSE Arrival(cfg, p) < Arrival(cfg, q)

InLayer(cfg, n) == {p \in ToSet(cfg.policies) : policy_type_to_layer(p) = n}
Decides(p, dir, i, c) == /\ i \in DOMAIN p[dir] /\ CapturedBy(p, dir) # {}
                         /\ p[dir][i].action # "log" /\ c \in p[dir][i].conns
\* The action of the first rule of the first policy that is about c.
Decision(cfg, n, dir, c) ==
  LET deciding == {p \in InLayer(cfg, n) : \E i \in DOMAIN p[dir] : Decides(p, dir, i, c)}
      first == CHOOSE p \in deciding : \A q \in deciding \ {p} : Sooner(cfg, p, q)
      rule == CHOOSE i \in DOMAIN first[dir] :
                Decides(first, dir, i, c) /\ \A j \in 1 .. i - 1 : ~Decides(first, dir, j, c)
  IN  IF deciding = {} THEN "none" ELSE first[dir][rule].action

CapturedIn(cfg, n, dir) ==
  UNION {CapturedBy(p, dir) : p \in {q \in InLayer(cfg, n) : Captures(q)}}

CalicoAllows(cfg, n, dir, c) ==
  LET own == IF dir = "ingress" THEN c.dst ELSE c.src
      decision == Decision(cfg, n, dir, c)
  IN  \/ own = Ip \/ decision = "allow"
      \/ own \notin Heps /\ (decision = "pass" \/ own \notin CapturedIn(cfg, n, dir))
IstioAllows(cfg, n, dir, c) ==
  LET own == IF dir = "ingress" THEN c.dst ELSE c.src
      decision == Decision(cfg, n, dir, c)
      free == /\ own \notin CapturedIn(cfg, n, dir) /\ decision # "deny"
              /\ Clusters \ CapturedIn(cfg, n, dir) # {}
  IN  \/ own = Ip \/ decision = "allow"
      \/ IF c.dst \in DnsEntries THEN c.prot = "TCP" /\ free ELSE c.prot # "TCP" \/ free
LayerAllows(cfg, n, c) ==
  \A dir \in Directions :
    IF n \in {"K8s_Calico", "K8sGateway"} THEN CalicoAllows(cfg, n, dir, c)
                                          ELSE IstioAllows(cfg, n, dir, c)
ActiveLayers(cfg) ==
  LET layers == {policy_type_to_layer(p) : p \in ToSet(cfg.policies)}
  IN  IF layers = {} \/ Heps # {} THEN layers \cup {"K8s_Calico"} ELSE layers
\* "only K8s_Calico layer handles host_eps": the connections of host endpoints
\* are that layer's to decide, the others have no say.
Meaning(cfg) ==
  {c \in RealConns : \A n \in ActiveLayers(cfg) :
                       (c \in HepConns => n = "K8s_Calico") => LayerAllows(cfg, n, c)}
-----------------------------------------------------------------------------
(***************************************************************************)
(* Properties.                                                             *)
(***************************************************************************)
\* The two assumptions of the class comment of NetworkLayersContainer: the
\* default layer alone when there are no policies, and no other layer without
\* one.  And each policy is once in the list of its layer and in no other.
LayersHold ==
  \A cfg \in {config, variant} \ {NoVariant} :
    /\ DOMAIN cfg.layers = IF cfg.policies = << >> THEN {"K8s_Calico"}
                           ELSE {policy_type_to_layer(p) : p \in ToSet(cfg.policies)}
    /\ \A n \in DOMAIN cfg.layers :
         /\ ToSet(cfg.layers[n]) = InLayer(cfg, n)
         /\ Len(cfg.layers[n]) = Cardinality(InLayer(cfg, n))
    /\ \A i, j \in DOMAIN cfg.policies : Key(cfg.policies[i]) = Key(cfg.policies[j]) => i = j

\* The connections computed with sorted lists, folds and layers are those that
\* the first deciding rule of each layer and the defaults allow, in whatever
\* order the policies arrived.  Of the connections of host endpoints, whose part the
\* other layers keep in what is intersected, this is said of the one layer alone;
\* with others no more than it is allowed.
VerdictsExact ==
  variant = NoVariant =>
    /\ AllAllowed(config) \subseteq Meaning(config)
    /\ AllAllowed(config) \ HepConns = Meaning(config) \ HepConns
    /\ DOMAIN config.layers = {"K8s_Calico"} => AllAllowed(config) = Meaning(config)

\* What queries see as explicitly allowed is what some policy allows, or passes to
\* the profiles, in one direction and every layer allows ("allowed captured conn
\* (by at least one layer) has to be allowed by all layers"), though it is computed
\* under a filter of its own.  Host endpoints are left to HostEndpointsApart.
Explicit(cfg) ==
  {c \in Meaning(cfg) :
     \E n \in ActiveLayers(cfg), dir \in Directions :
       LET own == IF dir = "ingress" THEN c.dst ELSE c.src
       IN  Decision(cfg, n, dir, c) \in {"allow"} \cup (IF own \in Heps THEN {} ELSE {"pass"})}
Allowed(cfg) == AllowedConnections(cfg, only_allowed_connections).allowed \cap RealConns
ExplicitIsAllowed ==
  variant = NoVariant /\ (Heps = {} \/ "K8s_Calico" \in DOMAIN config.layers) =>
    Allowed(config) \ HepConns = Explicit(config) \ HepConns

\* A host endpoint, whose connectivity "is only determined by calico layer", does
\* not change which connections between other peers are explicitly allowed.
HostEndpointsApart ==
  variant = NoVariant => Allowed(config) \ HepConns = Explicit(config) \ HepConns
=============================================================================
