---------------------------- MODULE SingleQueries ----------------------------
(***************************************************************************)
(* The queries on one configuration (NetworkConfigQuery.py): disjointness,   *)
(* emptiness, vacuity, redundancy, sanity with its explanations, and          *)
(* allCaptured.  Each is an operator of the configuration; a query leaves     *)
(* nothing behind but the findings it adds to the policies' reports.          *)
(***************************************************************************)
EXTENDS NetworkLayers

GatewayLayers == {"K8sGateway", "IstioGateway"}
\* The layers the queries look at.
PolicyLayers(cfg) == DOMAIN cfg.layers \ GatewayLayers
OnlyGatewayLayers(cfg) == DOMAIN cfg.layers \subseteq GatewayLayers
HasPolicies(cfg) == cfg.policies # << >>

is_policy_empty(p) == p.selected = {}
\* has_empty_rules: the rules that select no peers.  A rule of Calico or of a sidecar
\* is empty too when its policy selects nothing.
EmptyRules(p, dir) ==
  {i \in DOMAIN p[dir] : IF p.kind = "sidecar" THEN p[dir][i].egress_peer_set = {}
                         ELSE p[dir][i].conns = {} /\ (is_policy_empty(p) => p.kind = "calico")}

\* EquivalenceQuery.exec(layer_name): in one layer only.
LayerList(cfg, n) == IF n \in DOMAIN cfg.layers THEN cfg.layers[n] ELSE << >>
AllAllowedIn(cfg, n) ==
  LayerConns(n, LayerList(cfg, n), only_all_allowed_connections).all \cap RealConns
-----------------------------------------------------------------------------
(* Disjointness, emptiness, vacuity.                                         *)

\* (mutant: each policy is compared with its neighbour)
OverlapsOfNeighbours(list) ==
  {<<i, i - 1>> : i \in {j \in 2 .. Len(list) : list[j].selected \cap list[j - 1].selected # {}}}
\* The pairs of a policy and one before it in the list that select a common peer.
Overlaps(list) ==
  {x \in (DOMAIN list) \X (DOMAIN list) :
     /\ x[2] < x[1] /\ ~is_policy_empty(list[x[1]])
     /\ list[x[1]].selected \cap list[x[2]].selected # {}}
\* DisjointnessQuery.exec
Disjointness(cfg) == UNION {{<<n, pair>> : pair \in Overlaps(cfg.layers[n])} : n \in PolicyLayers(cfg)}

\* EmptinessQuery.exec, gateway layers included.
Emptiness(cfg) ==
  UNION {Where(is_policy_empty(p), {<<"policy", Key(p)>>})
         \cup UNION {{<<"rule", Key(p), dir, i>> : i \in EmptyRules(p, dir)} : dir \in Directions}
         : p \in ToSet(cfg.policies)}

\* clone_without_gateway_layers
WithoutGatewayLayers(cfg) ==
  ConfigOf(SelectSeq(cfg.policies, LAMBDA p : policy_type_to_layer(p) \notin GatewayLayers))
\* VacuityQuery.exec
Vacuity(cfg) == AllAllowed(WithoutGatewayLayers(cfg)) = AllAllowed(NoPolicies)
-----------------------------------------------------------------------------
(* Redundancy.                                                               *)

\* (mutant: only what rules allow is compared)
SameExplicitly(cfg, n, p) ==
  LayerConns(n, LayerList(cfg, n), only_allowed_connections).allowed
  = LayerConns(n, LayerList(WithoutPolicy(cfg, p), n), only_allowed_connections).allowed
SameWithout(cfg, n, p) == AllAllowedIn(cfg, n) = AllAllowedIn(WithoutPolicy(cfg, p), n)
\* redundant_policies: the names.  A single policy is never redundant.
RedundantPolicies(cfg, n) ==
  {p.name : p \in {q \in ToSet(LayerList(cfg, n)) :
                     Len(LayerList(cfg, n)) > 1 /\ SameWithout(cfg, n, q)}}

\* find_redundant_rules: a rule that has an equal one, or without which the
\* connections of the layer are the same.
RedundantRules(cfg, n, p, dir) ==
  {i \in DOMAIN p[dir] :
     LET q == WithoutRule(p, dir, i)
     IN  \/ Len(q[dir]) < Len(p[dir]) - 1
         \/ AllAllowedIn(cfg, n) = AllAllowedIn(AppendPolicy(WithoutPolicy(cfg, p), q), n)}

\* RedundancyQuery.exec
RulesToCheck(cfg, n) == {p \in ToSet(LayerList(cfg, n)) : p.name \notin RedundantPolicies(cfg, n)}
Redundancy(cfg) ==
  UNION {{<<"policy", n, name>> : name \in RedundantPolicies(cfg, n)}
         \cup UNION {{<<"rule", n, Key(x[1]), x[2], i>> : i \in RedundantRules(cfg, n, x[1], x[2])}
                     : x \in RulesToCheck(cfg, n) \X Directions}
         : n \in PolicyLayers(cfg)}
-----------------------------------------------------------------------------
(* Sanity.                                                                   *)

\* The search for a policy or a rule that makes another redundant goes through the
\* list up to the first policy with a smaller order; an order of 0 is like none.
\* The result is the first that fits, or 0.
StopsAt(list, p) ==
  {i \in DOMAIN list : list[i].order > 0 /\ p.order > 0 /\ list[i].order < p.order}
Searched(list, p) == {i \in DOMAIN list : \A j \in 1 .. i : j \notin StopsAt(list, p)}
FirstOf(S) == IF S = {} THEN 0 ELSE CHOOSE i \in S : \A j \in S : i <= j

JustOne(p) == ConfigOf(<<p>>)
HasAction(p, a) ==
  IF p.kind = "calico" THEN \E dir \in Directions : HasRules(p, dir, a)
  ELSE /\ p.kind # "sidecar" /\ p.action = a
       /\ \E dir \in Directions : \E i \in DOMAIN p[dir] : i \notin EmptyRules(p, dir)
other_policy_containing_allow(list, p) ==
  FirstOf({i \in Searched(list, p) :
             /\ list[i] # p /\ p.selected \subseteq list[i].selected
             /\ Allowed(JustOne(p)) \subseteq AllAllowed(JustOne(list[i]))})
DeniedIn(p, n) == LayerConns(n, <<p>>, only_denied_connections).denied
other_policy_containing_deny(list, n, p) ==
  FirstOf({i \in Searched(list, p) :
             list[i] # p /\ HasAction(list[i], "deny") /\ DeniedIn(p, n) \subseteq DeniedIn(list[i], n)})

\* rule_containing: Calico looks at the rules before the rule itself, the others at
\* all rules of policies that select as much.
rule_containing(q, p, dir, i) ==
  FirstOf({j \in DOMAIN q[dir] :
             /\ p[dir][i].conns \subseteq q[dir][j].conns
             /\ IF q.kind = "calico" THEN q = p => j < i
                ELSE q.kind # "sidecar" /\ p.selected \subseteq q.selected /\ (q = p => j # i)})
\* other_rule_containing
OtherRuleContaining(list, p, dir, i) ==
  LET at == FirstOf({k \in Searched(list, p) : rule_containing(list[k], p, dir, i) # 0})
  IN  IF at = 0 THEN << >> ELSE <<Key(list[at]), rule_containing(list[at], p, dir, i)>>

\* redundant_policy_text: what the policy is contained in, as far as it is found.
\* It looks policies up by name, and stops with an exception when two kinds of
\* policy have the name.
NameIsUnique(cfg, p) == Cardinality({q \in ToSet(cfg.policies) : q.name = p.name}) = 1
Exception == [text |-> "exception"]
PolicyText(cfg, n, p) ==
  LET list == cfg.layers[n]
      allow == IF HasAction(p, "allow") THEN other_policy_containing_allow(list, p) ELSE 0
      deny == IF HasAction(p, "deny") /\ (HasAction(p, "allow") => allow # 0)
              THEN other_policy_containing_deny(list, n, p) ELSE 0
  IN  IF ~NameIsUnique(cfg, p) THEN Exception
      ELSE IF Vacuity(JustOne(p)) THEN [text |-> "no change"]
      ELSE IF ~HasAction(p, "allow") /\ ~HasAction(p, "deny") THEN [text |-> "no rules"]
      ELSE IF \/ HasAction(p, "allow") /\ allow = 0
              \/ HasAction(p, "deny") /\ deny = 0 THEN [text |-> "redundant"]
      ELSE [text |-> "contained", in |-> {Key(list[i]) : i \in {allow, deny} \ {0}}]

\* (mutant: the rules of a policy with an empty rule are not looked at)
PolicyIssuesUpToEmptyRules(cfg, n, p, vacuous) ==
  IF is_policy_empty(p) THEN {<<"empty policy", Key(p)>>}
  ELSE IF vacuous \/ \E dir \in Directions : EmptyRules(p, dir) # {} THEN {}
  ELSE IF p.name \in RedundantPolicies(cfg, n) THEN {<<"redundant policy", Key(p), PolicyText(cfg, n, p)>>}
  ELSE UNION {{<<"redundant rule", Key(p), dir, i>> : i \in RedundantRules(cfg, n, p, dir)} : dir \in Directions}
\* SanityQuery.exec, for one policy of a configuration without conflicts.
PolicyIssues(cfg, n, p, vacuous) ==
  LET empty == UNION {{<<"empty rule", Key(p), dir, i>> : i \in EmptyRules(p, dir)} : dir \in Directions}
      redundant == UNION {{<<"redundant rule", Key(p), dir, i, OtherRuleContaining(cfg.layers[n], p, dir, i)>> :
                             i \in RedundantRules(cfg, n, p, dir) \ EmptyRules(p, dir)} : dir \in Directions}
  IN  IF is_policy_empty(p) THEN {<<"empty policy", Key(p)>>}
      ELSE empty \cup IF vacuous THEN {}
                      ELSE IF p.name \in RedundantPolicies(cfg, n)
                        THEN {<<"redundant policy", Key(p), PolicyText(cfg, n, p)>>}
                      ELSE redundant
SanityIssues(cfg) ==
  Where(Vacuity(cfg), {<<"vacuous">>})
  \cup UNION {UNION {PolicyIssues(cfg, n, p, Vacuity(cfg)) : p \in ToSet(cfg.layers[n])} : n \in PolicyLayers(cfg)}
Sanity(cfg) == HasPolicies(cfg) /\ ~ConflictScan(cfg) /\ SanityIssues(cfg) = {}
Raises(cfg) == \E issue \in SanityIssues(cfg) : issue[1] = "redundant policy" /\ issue[3] = Exception
-----------------------------------------------------------------------------
(* AllCaptured.                                                              *)

\* (mutant: a policy captures its pods in both directions)
AffectedPodsAnyhow(cfg, n, dir) == UNION {p.selected : p \in ToSet(cfg.layers[n])}
\* get_affected_pods
AffectedPods(cfg, n, dir) ==
  UNION {p.selected : p \in {q \in ToSet(cfg.layers[n]) : dir \in q.affects}}
\* Of Istio only the ingress direction counts.
Uncaptured(cfg, n) ==
  IF n \notin DOMAIN cfg.layers THEN {}
  ELSE {x \in (IF n = "Istio" THEN {"ingress"} ELSE Directions) \X Clusters :
          x[2] \notin AffectedPods(cfg, n, x[1])}
AllCaptured(cfg) ==
  /\ HasPolicies(cfg) /\ ~OnlyGatewayLayers(cfg)
  /\ Uncaptured(cfg, "K8s_Calico") = {} /\ Uncaptured(cfg, "Istio") = {}
-----------------------------------------------------------------------------
(* Properties.                                                               *)

LayerMeaning(cfg, n) == {c \in RealConns : LayerAllows(cfg, n, c)}
Unchanged(cfg, n, p) == LayerMeaning(cfg, n) = LayerMeaning(WithoutPolicy(cfg, p), n)
\* "Check if any of the policies can be removed without changing cluster
\* connectivity": the query reports names, which policies of two kinds may share, and
\* a policy of each name it reports can be removed; without one it does not report
\* (among several) its layer allows something else.
RedundantCanGo ==
  variant = NoVariant => \A n \in PolicyLayers(config) : \A p \in ToSet(config.layers[n]) :
    IF p.name \in RedundantPolicies(config, n)
      THEN \E q \in ToSet(config.layers[n]) :
             q.name = p.name /\ Meaning(WithoutPolicy(config, q)) = Meaning(config)
      ELSE Len(config.layers[n]) > 1 => ~Unchanged(config, n, p)

\* The one pass over the sorted policies must find these.
Conflicting(cfg) ==
  \E p, q \in InLayer(cfg, "K8s_Calico") :
    p # q /\ p.kind = "calico" /\ q.kind = "calico" /\ is_conflicting(p, q)
\* Sanity "includes emptiness, vacuity and redundancies" (SchemeFileFormat.md): a
\* configuration passes exactly if no two policies conflict and the other queries find
\* nothing, though sanity skips the rules of empty and redundant policies and redundant
\* rules that are empty.
SanityIncludes ==
  variant = NoVariant /\ HasPolicies(config) /\ DOMAIN config.layers \cap GatewayLayers = {} /\ ~Raises(config) =>
    (Sanity(config) <=> /\ ~Conflicting(config) /\ ~Vacuity(config)
                        /\ Emptiness(config) = {} /\ Redundancy(config) = {})

\* When the query finds no two policies of a layer that capture the same peer, the
\* connections do not depend on the order the policies arrived in.
DisjointMeansOrderFree ==
  variant = NoVariant /\ Disjointness(config) = {} /\ DOMAIN config.layers \cap GatewayLayers = {} =>
    AllAllowed(ConfigOf(Reverse(config.policies))) = AllAllowed(config)

\* When every pod is captured in the only layer, nothing is allowed by default:
\* every allowed connection is allowed by some rule.
CapturedMeansExplicit ==
  variant = NoVariant /\ AllCaptured(config) /\ DOMAIN config.layers = {"K8s_Calico"} =>
    AllAllowed(config) = Explicit(config)
=============================================================================
