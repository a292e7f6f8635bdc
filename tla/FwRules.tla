------------------------------ MODULE FwRules ------------------------------
(***************************************************************************)
(* The connectivity map as a short list of rules (MinimizeFWRules.py,         *)
(* MinimizeCsFWRules.py, FWRule.py).  For each set of connections the pairs   *)
(* of peers that have exactly it are grouped: pairs of sets of namespaces     *)
(* first, then a namespace with a set of peers, then all IP addresses or a    *)
(* DNS name with a set of peers; what is left, and the sets of peers, are     *)
(* grouped by labels.  Pairs with more connections may be borrowed to fill a  *)
(* group, and so may each pod with itself.  One object computes all the       *)
(* rules, resetting its fields for each set of connections.                   *)
(***************************************************************************)
EXTENDS ClusterInfo

CONSTANTS
  GroupSinglePod,  \* fwRulesGroupByLabelSinglePod
  AutoLimit,       \* 500: from so many peers on nothing is borrowed for pods themselves
  SystemNs         \* the namespaces whose name ends in -system
ASSUME AutoLimitAssumption == AutoLimit \in Nat

VARIABLES
  props,        \* props_to_peers: from sets of connections to pairs of peers
  todo,         \* the sets of connections without rules yet
  curr,         \* the one in progress
  stage,        \* the step of _create_fw_rules that is next
  covered,      \* covered_peer_props
  left,         \* peer_props_without_ns_expr
  ns_set_pairs, base_elem_pairs,
  pending,      \* the entries of ns_set_to_peer_set that are not handled yet
  rules,        \* fw_rules_map, as a set of rules
  labelOrder    \* the order this process iterates AllowedLabels in
fwVars == <<props, todo, curr, stage, covered, left, ns_set_pairs, base_elem_pairs, pending, rules, labelOrder>>

(***************************************************************************)
(* Elements of rules.                                                      *)
(***************************************************************************)
OfNs(namespaces) == [kind |-> "ns", ns |-> namespaces]
OfLabels(key, values, ns) == [kind |-> "labels", ns |-> {ns}, key |-> key, values |-> values]
OfPeers(peers, ns) == [kind |-> "peers", ns |-> {ns}, peers |-> peers]
OfOutside(kind, peers) == [kind |-> kind, ns |-> {}, peers |-> peers]
\* get_peer_set
PeersOf(e) ==
  CASE e.kind = "ns" -> NsPeers(e.ns)
    [] e.kind = "labels" -> NsPeers(e.ns) \cap UNION {PodsWith(e.key, v) : v \in e.values}
    [] OTHER -> e.peers

\* The values of a key all whose peers in the namespace are to be grouped.
FullyCovered(pods, key, ns) ==
  {v \in ValuesIn(key, ns) : PodsWith(key, v) \cap ns_dict(ns) \subseteq pods}
PodsByLabel(key, values, ns) == ns_dict(ns) \cap UNION {PodsWith(key, v) : v \in values}
\* _get_pods_grouping_by_labels: labels, those that cover most first, as long as they do
\* not overlap with one that is taken already; then names.
GroupByLabels(pods, ns) ==
  LET values == [i \in DOMAIN labelOrder |-> FullyCovered(pods, labelOrder[i], ns)]
      covers == [i \in DOMAIN labelOrder |-> PodsByLabel(labelOrder[i], values[i], ns)]
      labels_rep_options ==
        {i \in DOMAIN labelOrder : Cardinality(covers[i]) > (IF GroupSinglePod THEN 0 ELSE 1)}
      Before(i, j) == \/ Cardinality(covers[i]) > Cardinality(covers[j])
                      \/ Cardinality(covers[i]) = Cardinality(covers[j]) /\ i < j
      taken[i \in labels_rep_options] ==
        \A j \in labels_rep_options : Before(j, i) => (taken[j] => covers[i] \cap covers[j] = {})
      chosen_rep == {i \in labels_rep_options : taken[i]}
      rest == pods \ UNION {covers[i] : i \in chosen_rep}
  IN  {OfLabels(labelOrder[i], values[i], ns) : i \in chosen_rep}
      \cup IF rest = {} THEN {} ELSE {OfPeers(rest, ns)}

\* _create_fw_elements_from_base_element, of a set of peers
PeerElements(peers) ==
  {OfOutside("dns", {d}) : d \in peers \cap DnsEntries}
  \cup (IF peers \cap Ips = {} THEN {} ELSE {OfOutside("ips", peers \cap Ips)})
  \cup UNION {GroupByLabels({p \in peers \cap Clusters : NamespaceOf(p) = ns}, ns)
              : ns \in {NamespaceOf(p) : p \in peers \cap Clusters}}
\* A side of a group is a set of namespaces or a set of peers.
NsSide(namespaces) == [side |-> "ns", of |-> namespaces]
PeerSide(peers) == [side |-> "peers", of |-> peers]
SidePeers(x) == IF x.side = "ns" THEN NsPeers(x.of) ELSE x.of
Elements(x) == IF x.side = "ns" THEN {OfNs(x.of)} ELSE PeerElements(x.of)
Product(pair) == SidePeers(pair[1]) \X SidePeers(pair[2])
RulesOf(pair, conns) == [src : Elements(pair[1]), dst : Elements(pair[2]), props : {conns}]
-----------------------------------------------------------------------------
(***************************************************************************)
(* The steps.                                                              *)
(***************************************************************************)
NoRules ==
  /\ todo = {} /\ curr = {} /\ stage = "next" /\ covered = {} /\ left = {} /\ ns_set_pairs = {}
  /\ base_elem_pairs = {} /\ pending = {} /\ rules = {} /\ props = << >>

\* get_minimized_firewall_rules_from_props
PropsToPeers(conns, protocols) ==
  LET Of(pair) == ExtractConns(ConnsOf(conns, pair[1], pair[2]), protocols)
  IN  [c \in {Of(pair) : pair \in PairsOf(conns)} |-> {pair \in PairsOf(conns) : Of(pair) = c}]
StartRules(conns, protocols) ==
  /\ props' = PropsToPeers(conns, protocols)
  /\ todo' = DOMAIN props' /\ rules' = {}
  /\ UNCHANGED <<curr, stage, covered, left, ns_set_pairs, base_elem_pairs, pending, labelOrder>>

\* (mutant: those contained in it)
Contained(c) == UNION {props[d] : d \in {e \in DOMAIN props : e # c /\ e \subseteq c}}
\* _build_props_containment_map
Containing(c) == UNION {props[d] : d \in {e \in DOMAIN props : e # c /\ c \subseteq e}}
\* (mutant: the fields of the object keep what they had)
StartPropsWithoutReset(c) ==
  /\ stage = "next" /\ c \in todo
  /\ todo' = todo \ {c} /\ curr' = c /\ stage' = "full ns"
  /\ covered' = covered \cup props[c] \cup Containing(c)
  /\ UNCHANGED <<props, left, ns_set_pairs, base_elem_pairs, pending, rules, labelOrder>>
\* compute_minimized_fw_rules_per_prop and _compute_covered_peer_props
StartProps(c) ==
  LET peers == Sources(props[c]) \cup Targets(props[c])
  IN  /\ stage = "next" /\ c \in todo
      /\ todo' = todo \ {c} /\ curr' = c /\ stage' = "full ns"
      /\ covered' = props[c] \cup Containing(c)
                    \cup (IF Cardinality(peers) < AutoLimit THEN {<<p, p>> : p \in peers \cap Clusters} ELSE {})
      /\ left' = {} /\ ns_set_pairs' = {} /\ base_elem_pairs' = {} /\ pending' = {}
      /\ UNCHANGED <<props, rules, labelOrder>>

NsProduct(nm) == ns_dict(nm[1]) \X ns_dict(nm[2])
SrcNs == {NsOf[p] : p \in Sources(covered) \cap Pods}
DstNs == {NsOf[p] : p \in Targets(covered) \cap Pods}
WithoutNs == Peers \ Pods
\* ns_set_to_peer_set: for each cube the namespaces it has all of, with the peers
\* of the other side.
NsEntries(cov, namespaces, isSrc, rest) ==
  LET cubes == IF isSrc THEN CubesByTarget(cov) ELSE CubesBySource(cov)
      Dim(cube) == IF isSrc THEN cube[1] ELSE cube[2]
      Other(cube) == IF isSrc THEN cube[2] ELSE cube[1]
      Whole(cube) ==
        {ns \in namespaces :
           /\ ns_dict(ns) \subseteq Dim(cube)
           /\ rest \cap (IF isSrc THEN ns_dict(ns) \X Other(cube) ELSE Other(cube) \X ns_dict(ns)) # {}}
      sets == {Whole(cube) : cube \in cubes} \ {{}}
  IN  {<<S, UNION {Other(cube) : cube \in {c \in cubes : Whole(c) = S}}>> : S \in sets}

\* _compute_full_ns_grouping, the peers without a namespace, and the beginning of
\* _compute_partial_ns_grouping for targets.
FullNsGrouping ==
  LET grouped == {nm \in SrcNs \X DstNs : NsProduct(nm) \subseteq covered}
      own == {nm \in grouped : NsProduct(nm) \cap props[curr] # {}}
      bySrc == CubesBySource(own)
      byDst == CubesByTarget(own)
      cov == covered \ UNION {NsProduct(nm) : nm \in grouped}
      rest == props[curr] \cap ((WithoutNs \X Peers) \cup (Peers \X WithoutNs)
                                \cup UNION {NsProduct(nm) : nm \in (SrcNs \X DstNs) \ grouped})
  IN  /\ stage = "full ns"
      /\ covered' = cov /\ left' = rest
      /\ ns_set_pairs' = {<<NsSide(c[1]), NsSide(c[2])>> :
                            c \in IF Cardinality(bySrc) <= Cardinality(byDst) THEN bySrc ELSE byDst}
      /\ pending' = NsEntries(cov, DstNs, FALSE, rest) /\ stage' = "dst ns"
      /\ UNCHANGED <<props, todo, curr, base_elem_pairs, rules, labelOrder>>

PairWith(isSrc, x, y) == IF isSrc THEN <<x, y>> ELSE <<y, x>>
\* _compute_partial_ns_grouping, one entry: without and with the IP addresses.
TakeNsEntry(entry) ==
  LET isSrc == stage = "src ns"
      named == PairWith(isSrc, NsSide(entry[1]), PeerSide(entry[2] \ Ips))
      ips == PairWith(isSrc, NsSide(entry[1]), PeerSide(entry[2] \cap Ips))
      Useful(pair, rest) == Product(pair) \cap rest # {}
  IN  /\ entry \in pending /\ pending' = pending \ {entry}
      /\ left' = left \ (Product(named) \cup Product(ips))
      /\ base_elem_pairs' = base_elem_pairs \cup
           {pair \in {named} : Useful(pair, left)} \cup {pair \in {ips} : Useful(pair, left \ Product(named))}
      /\ UNCHANGED <<props, todo, curr, stage, covered, ns_set_pairs, rules, labelOrder>>

\* is_full_ipblock
FullIps == {Ips, Ipv6, Ips \ Ipv6} \ {{}}
\* _compute_full_ipblock_and_dns_grouping
OutsideEntries(isSrc, rest) ==
  LET cubes == IF isSrc THEN CubesByTarget(covered) ELSE CubesBySource(covered)
      Dim(cube) == IF isSrc THEN cube[1] ELSE cube[2]
      Other(cube) == IF isSrc THEN cube[2] ELSE cube[1]
      Covers(cube, S) == rest \cap Product(PairWith(isSrc, PeerSide(S), PeerSide(Other(cube)))) # {}
      Whole(cube) == {S \in {Dim(cube) \cap Ips} \cap FullIps : Covers(cube, S)}
                     \cup {S \in {{d} : d \in Dim(cube) \cap DnsEntries} : Covers(cube, S)}
      sets == UNION {Whole(cube) : cube \in cubes}
  IN  {PairWith(isSrc, PeerSide(S), PeerSide(UNION {Other(cube) : cube \in {c \in cubes : S \in Whole(c)}}))
       : S \in sets}
\* The next of the four partial groupings, each only when something is left.
NextGrouping ==
  /\ stage \in {"dst ns", "src ns"} /\ pending = {}
  /\ IF stage = "dst ns" /\ left # {}
       THEN /\ stage' = "src ns" /\ pending' = NsEntries(covered, SrcNs, TRUE, left)
            /\ UNCHANGED <<left, base_elem_pairs>>
       ELSE LET dst == IF left = {} THEN {} ELSE OutsideEntries(FALSE, left)
                rest == left \ UNION {Product(pair) : pair \in dst}
                src == IF rest = {} THEN {} ELSE OutsideEntries(TRUE, rest)
            IN  /\ stage' = "rules" /\ left' = rest \ UNION {Product(pair) : pair \in src}
                /\ base_elem_pairs' = base_elem_pairs \cup dst \cup src
                /\ UNCHANGED pending
  /\ UNCHANGED <<props, todo, curr, covered, ns_set_pairs, rules, labelOrder>>

\* _create_fw_rules_from_peer_props: the pairs that are left, those of IP addresses
\* apart; the others in the order of dimensions with fewer cubes.
LeftPairs ==
  LET fromIps == {x \in left : x[1] \in Ips}
      toIps == {x \in left \ fromIps : x[2] \in Ips}
      rest == left \ (fromIps \cup toIps)
      restCubes == IF Cardinality(CubesBySource(rest)) <= Cardinality(CubesByTarget(rest))
                     THEN CubesBySource(rest) ELSE CubesByTarget(rest)
  IN  {<<PeerSide(c[1]), PeerSide(c[2])>> : c \in CubesByTarget(fromIps) \cup CubesBySource(toIps) \cup restCubes}
CreateRules ==
  /\ stage = "rules" /\ stage' = "next"
  /\ rules' = rules \cup UNION {RulesOf(pair, curr) : pair \in ns_set_pairs \cup LeftPairs \cup base_elem_pairs}
  /\ UNCHANGED <<props, todo, curr, covered, left, ns_set_pairs, base_elem_pairs, pending, labelOrder>>

FwStep ==
  \/ \E c \in todo : StartProps(c)
  \/ FullNsGrouping
  \/ \E entry \in pending : TakeNsEntry(entry)
  \/ NextGrouping \/ CreateRules
RulesDone == stage = "next" /\ todo = {}
-----------------------------------------------------------------------------
(***************************************************************************)
(* What is printed.                                                        *)
(***************************************************************************)
is_system_ns(e) == Cardinality(e.ns) = 1 /\ e.ns \subseteq SystemNs
\* should_rule_be_filtered_out
FilteredOut(r) ==
  \/ is_system_ns(r.src) /\ (r.dst.kind = "ips" \/ is_system_ns(r.dst))
  \/ is_system_ns(r.dst) /\ r.src.kind = "ips"
PrintedRules(filterSystemNs) == {r \in rules : filterSystemNs => ~FilteredOut(r)}

\* LabelExpr.__str__ as the peers of the namespace it describes.  First one key:
\* has(k), k in (...), k not in (...) with has(k) when some peer lacks k, !has(k).
InExpr(p, k, values) == HasKey(p, k) /\ LabelsOf[p][k] \in values
\* (mutant: never with has(k))
NotInExprAlone(p, k, values, someLack) == HasKey(p, k) => LabelsOf[p][k] \notin values
NotInExpr(p, k, values, someLack) ==
  IF HasKey(p, k) THEN LabelsOf[p][k] \notin values ELSE ~someLack
SimpleExpr(p, k, values, ns) ==
  LET all == {v[1] : v \in ValuesIn(<<k>>, ns)}
      valid == values \ {NoValue}
      others == (all \ {NoValue}) \ valid
  IN  \/ NoValue \in values /\ ~HasKey(p, k)
      \/ /\ valid # {}
         /\ IF others = {} /\ Cardinality(valid) > 1 THEN HasKey(p, k)
            ELSE IF others # {} /\ Cardinality(others) < Cardinality(valid)
              THEN NotInExpr(p, k, others, NoValue \in all)
            ELSE InExpr(p, k, valid)
\* Then several: each for itself.
LabelExpr(p, e, ns) ==
  LET valid == {v \in ValuesIn(e.key, ns) : NoValue \notin Range(v)}
  IN  IF e.values = valid /\ Cardinality(valid) > 1 THEN \A i \in DOMAIN e.key : HasKey(p, e.key[i])
      ELSE \A i \in DOMAIN e.key : SimpleExpr(p, e.key[i], {v[i] : v \in e.values}, ns)
TextPeers(e) == UNION {{p \in ns_dict(ns) : LabelExpr(p, e, ns)} : ns \in e.ns}
-----------------------------------------------------------------------------
(***************************************************************************)
(* Properties.                                                             *)
(***************************************************************************)
\* Between the steps of the grouping every pair of the current connections is in a
\* group or left over, and a group has no pair that does not have the connections,
\* though groups overlap and borrow.
NothingLost ==
  stage \in {"dst ns", "src ns", "rules"} =>
    LET groups == UNION {Product(pair) : pair \in ns_set_pairs \cup base_elem_pairs}
    IN  /\ props[curr] \subseteq groups \cup left
        /\ groups \cup left \subseteq props[curr] \cup Containing(curr) \cup AutoPairs

\* The expression printed for a group of labels describes its peers, and with a
\* single key no others: "has", "in", "not in" and "!has" are chosen by what is
\* shorter in the namespace.
LabelTextFits ==
  \A r \in rules : \A e \in {x \in {r.src, r.dst} : x.kind = "labels"} :
    PeersOf(e) \subseteq TextPeers(e) /\ (Len(e.key) = 1 => TextPeers(e) = PeersOf(e))
=============================================================================
