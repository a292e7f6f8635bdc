--------------------------- MODULE ConfigQueries ---------------------------
(***************************************************************************)
(* The queries that compare two network configurations, as a scheme and as the *)
(* command line ask them (NetworkConfigQuery.py from TwoNetworkConfigsQuery on).  *)
(* The configurations, the layers and the connections they allow are those of   *)
(* NetworkLayers, once for each of two network topologies: the old one and the   *)
(* new one, which differ in their pods.                                          *)
(*                                                                           *)
(* What a query answers in numbers is modelled; the explanations, and the        *)
(* exclusion of IPv6 addresses, which applies to both sides alike, are not.       *)
(***************************************************************************)
EXTENDS Integers, FiniteSets, Sequences, SequencesExt

CONSTANTS
  OldPods, NewPods,           \* the pods of the two topologies
  Heps, DnsEntries, Ip, OtherProtocols, Policies, MaxPolicies  \* as in NetworkLayers

\* The policies are records of the form NetworkLayers gives them.
ASSUME PolicyAssumption ==
  \A p \in Policies :
    DOMAIN p = {"name", "kind", "action", "order", "selected", "affects", "ingress", "egress"}

VARIABLES
  config1, config2,  \* two configurations: their pods, and their policies as they arrived
  answers            \* what the queries answered so far, one for each of Questions

vars == <<config1, config2, answers>>

\* The policies of a configuration are parsed against its own peers.
OnPods(p, pods) ==
  LET there == pods \cup Heps \cup DnsEntries \cup {Ip}
      Of(rules) == [i \in DOMAIN rules |->
                      [rules[i] EXCEPT !.conns = {c \in @ : {c.src, c.dst} \subseteq there}]]
  IN  [p EXCEPT !.selected = @ \cap there, !.ingress = Of(@), !.egress = Of(@)]
Parsed(c) == [i \in DOMAIN c.arrived |-> OnPods(c.arrived[i], c.pods)]

Old == INSTANCE NetworkLayers WITH Pods <- OldPods, config <- config1, variant <- config2
New == INSTANCE NetworkLayers WITH Pods <- NewPods, config <- config1, variant <- config2
Built(c) == New!ConfigOf(Parsed(c))

\* all_allowed_conns and allowed_conns, filtered by the types of the peers.
AllAllowed(c) ==
  IF c.pods = OldPods THEN Old!AllAllowed(Built(c)) ELSE New!AllAllowed(Built(c))
Allowed(c) == IF c.pods = OldPods THEN Old!Allowed(Built(c)) ELSE New!Allowed(Built(c))
\* What the configurations mean, told without lists and layers (for the properties).
Meaning(c) == IF c.pods = OldPods THEN Old!Meaning(Built(c)) ELSE New!Meaning(Built(c))
Explicit(c) == IF c.pods = OldPods THEN Old!Explicit(Built(c)) ELSE New!Explicit(Built(c))

PeersOf(c) == c.pods \cup Heps \cup DnsEntries
PoliciesOf(c) == ToSet(Built(c).policies)
-----------------------------------------------------------------------------
(***************************************************************************)
(* The queries.  An answer is a number and whether the query was not executed. *)
(***************************************************************************)
Answer(n) == [result |-> n, skipped |-> FALSE]
Skipped(n) == [result |-> n, skipped |-> TRUE]
Raised == [result |-> -1, skipped |-> FALSE]  \* an exception
Bit(cond) == IF cond THEN 1 ELSE 0

\* is_identical_topologies: is_comparable_with_other_container, and with
\* check_same_policies the same policies by name and kind.
Comparable(c1, c2) == PeersOf(c1) = PeersOf(c2)
SamePolicies(c1, c2) == Comparable(c1, c2) /\ PoliciesOf(c1) = PoliciesOf(c2)

\* EquivalenceQuery
Equivalence(c1, c2) ==
  IF ~Comparable(c1, c2) THEN Skipped(1)
  ELSE Answer(Bit(~SamePolicies(c1, c2) /\ AllAllowed(c1) # AllAllowed(c2)))

\* clone_with_just_one_policy, by the name of the policy.
Named(c, name) == SelectSeq(c.arrived, LAMBDA p : p.name = name)
JustOne(c, name) == [c EXCEPT !.arrived = Named(c, name)]

\* (mutant: the policies the second configuration has in addition are forgotten)
SameNamesOneWay(c1, c2) ==
  {New!Key(p) : p \in PoliciesOf(c1)} \subseteq {New!Key(p) : p \in PoliciesOf(c2)}
SameNames(c1, c2) ==
  {New!Key(p) : p \in PoliciesOf(c1)} = {New!Key(p) : p \in PoliciesOf(c2)}
\* The first policy that differs, or that has the name of another, ends the loop.
FirstOf(twice, differ) ==
  LET first == CHOOSE i \in twice \cup differ : \A j \in twice \cup differ : i <= j
  IN  IF twice \cup differ = {} THEN Answer(0)
      ELSE IF first \in twice THEN Raised ELSE Answer(1)
PolicyByPolicy(c1, c2, names) ==
  LET Twice(i, c) == Len(Named(c, names[i])) > 1
      twice == {i \in DOMAIN names : Twice(i, c1) \/ Twice(i, c2)}
  IN  FirstOf(twice, {i \in DOMAIN names \ twice :
                        Equivalence(JustOne(c1, names[i]), JustOne(c2, names[i])).result = 1})
\* StrongEquivalenceQuery
StrongEquivalence(c1, c2) ==
  IF ~Comparable(c1, c2) THEN Skipped(1)
  ELSE IF SamePolicies(c1, c2) THEN Answer(0)
  ELSE IF ~SameNames(c1, c2) THEN Answer(1)
  ELSE PolicyByPolicy(c1, c2, [i \in DOMAIN c1.arrived |-> c1.arrived[i].name])

\* ContainmentQuery, with what is explicitly allowed if only_captured.
Contained(c1, c2, only_captured) ==
  /\ PeersOf(c1) \subseteq PeersOf(c2)
  /\ (IF only_captured THEN Allowed(c1) ELSE AllAllowed(c1)) \subseteq AllAllowed(c2)
Containment(c1, c2, cli) == Answer(Bit(Contained(c1, c2, FALSE) # cli))

\* (mutant: the two proper containments are the wrong way round)
OneOfTwoSwapped(in12) == IF in12 THEN 1 ELSE 2
OneOfTwo(in12) == IF in12 THEN 2 ELSE 1
TwoWay(in12, in21, cli) ==
  IF cli THEN Bit(~(in12 /\ in21))
  ELSE IF in12 /\ in21 THEN 3
  ELSE IF ~in12 /\ ~in21 THEN 0 ELSE OneOfTwo(in12)
\* TwoWayContainmentQuery; the same policies leave the number at its default.
TwoWayContainment(c1, c2, cli) ==
  Answer(IF SamePolicies(c1, c2) THEN 0
         ELSE TwoWay(Contained(c1, c2, FALSE), Contained(c2, c1, FALSE), cli))

\* InterferesQuery
Interferes(c1, c2, cli) ==
  IF ~Comparable(c1, c2) THEN Skipped(Bit(cli))
  ELSE Answer(Bit((Allowed(c1) \subseteq Allowed(c2)) = cli))

\* rebuild_by_base_config_resources, before a permits or a forbids query.
RebuiltOn(c1, c2) == [c1 EXCEPT !.pods = c2.pods]
GatewayLayers == {"K8sGateway", "IstioGateway"}
IsGateway(p) == New!policy_type_to_layer(p) \in GatewayLayers
\* (mutant: the gateway policies stay)
WithGateway(c) == c
\* clone_without_gateway_layers
WithoutGateway(c) == [c EXCEPT !.arrived = SelectSeq(@, LAMBDA p : ~IsGateway(p))]
\* No policies, or does_contain_only_gateway_layers.
SpecifiesNothing(c) == \A i \in DOMAIN c.arrived : IsGateway(c.arrived[i])

\* PermitsQuery; both ways of asking have the same number here.
Permits(c1, c2) ==
  LET c == RebuiltOn(c1, c2)
  IN  IF SpecifiesNothing(c) THEN Skipped(0)
      ELSE Answer(Bit(~Contained(WithoutGateway(c), c2, TRUE)))
\* ForbidsQuery and IntersectsQuery
Forbids(c1, c2) ==
  LET c == RebuiltOn(c1, c2)
  IN  IF SpecifiesNothing(c) THEN Skipped(0)
      ELSE Answer(Bit(Allowed(WithoutGateway(c)) \cap AllAllowed(c2) # {}))

NoSelf(S) == {c \in S : c.src # c.dst}
Across(S, A, B) == {c \in S : (c.src \in A /\ c.dst \in B) \/ (c.src \in B /\ c.dst \in A)}
Selected(c) == UNION {p.selected : p \in PoliciesOf(c)}
\* (mutant: what the policies of the second configuration capture is left out)
CapturedInFirst(c1, c2) == Selected(c1) \cap PeersOf(c1) \cap PeersOf(c2)
CapturedPods(c1, c2) == (Selected(c1) \cup Selected(c2)) \cap PeersOf(c1) \cap PeersOf(c2)
\* compute_diff: the lost and new connections by category.
CategoriesOf(old, new, both, removed, added, captured) ==
  << NoSelf(Across(old, removed, removed)), Across(old, removed, {Ip}),
     NoSelf(Across(old, removed, both)),
     NoSelf(Across(new \ old, captured, both)), NoSelf(Across(old \ new, captured, both)),
     Across(new \ old, captured, {Ip}), Across(old \ new, captured, {Ip}),
     NoSelf(Across(new, both, added)), NoSelf(Across(new, added, added)),
     Across(new, added, {Ip}) >>
Categories(c1, c2) ==
  CategoriesOf(AllAllowed(c1), AllAllowed(c2), PeersOf(c1) \cap PeersOf(c2),
               PeersOf(c1) \ PeersOf(c2), PeersOf(c2) \ PeersOf(c1), CapturedPods(c1, c2))
CountOf(categories) == Cardinality({i \in DOMAIN categories : categories[i] # {}})
\* SemanticDiffQuery: the number of categories with changes.
SemanticDiff(c1, c2, cli) ==
  LET Told(changed) == IF cli THEN Bit(changed > 0) ELSE changed
  IN  Answer(IF SamePolicies(c1, c2) THEN 0 ELSE Told(CountOf(Categories(c1, c2))))
-----------------------------------------------------------------------------
Question(query, flipped, cli) == [query |-> query, flipped |-> flipped, cli |-> cli]
Questions ==
  << Question("equivalence", FALSE, FALSE), Question("equivalence", TRUE, FALSE),
     Question("strongEquivalence", FALSE, FALSE), Question("strongEquivalence", TRUE, FALSE),
     Question("containment", FALSE, FALSE), Question("containment", TRUE, FALSE),
     Question("twoWayContainment", FALSE, FALSE), Question("twoWayContainment", FALSE, TRUE),
     Question("interferes", FALSE, FALSE), Question("interferes", FALSE, TRUE),
     Question("permits", FALSE, TRUE), Question("forbids", FALSE, TRUE),
     Question("semanticDiff", FALSE, FALSE), Question("semanticDiff", TRUE, FALSE),
     Question("semanticDiff", FALSE, TRUE) >>
\* getattr(NetworkConfigQuery, query)(c1, c2).exec(cli)
Exec(q, c1, c2) ==
  CASE q.query = "equivalence"       -> Equivalence(c1, c2)
    [] q.query = "strongEquivalence" -> StrongEquivalence(c1, c2)
    [] q.query = "containment"       -> Containment(c1, c2, q.cli)
    [] q.query = "twoWayContainment" -> TwoWayContainment(c1, c2, q.cli)
    [] q.query = "interferes"        -> Interferes(c1, c2, q.cli)
    [] q.query = "permits"           -> Permits(c1, c2)
    [] q.query = "forbids"           -> Forbids(c1, c2)
    [] q.query = "semanticDiff"      -> SemanticDiff(c1, c2, q.cli)

NoPoliciesOn(pods) == [pods |-> pods, arrived |-> << >>]
Init == /\ \E pods1, pods2 \in {OldPods, NewPods} :
             /\ NewPods \in {pods1, pods2}
             /\ config1 = NoPoliciesOn(pods1) /\ config2 = NoPoliciesOn(pods2)
        /\ answers = << >>

\* PoliciesContainer.append_policy, of a policy with a new name and kind.
Arrives(c, p) ==
  /\ Len(c.arrived) < MaxPolicies
  /\ \A i \in DOMAIN c.arrived : New!Key(c.arrived[i]) # New!Key(p)
  /\ ~New!AtEnd(p) => \A i \in DOMAIN c.arrived : ~New!AtEnd(c.arrived[i])
Load1(p) ==
  /\ answers = << >> /\ config2.arrived = << >> /\ Arrives(config1, p)
  /\ config1' = [config1 EXCEPT !.arrived = Append(@, p)]
  /\ UNCHANGED <<config2, answers>>
Load2(p) ==
  /\ answers = << >> /\ Arrives(config2, p)
  /\ config2' = [config2 EXCEPT !.arrived = Append(@, p)]
  /\ UNCHANGED <<config1, answers>>

\* _execute_pair_configs_query, for the next question.
Ask ==
  /\ Len(answers) < Len(Questions)
  /\ LET q == Questions[Len(answers) + 1]
     IN  answers' = Append(answers, Exec(q, IF q.flipped THEN config2 ELSE config1,
                                            IF q.flipped THEN config1 ELSE config2))
  /\ UNCHANGED <<config1, config2>>

Next == Ask \/ \E p \in Policies : Load1(p) \/ Load2(p)
Spec == Init /\ [][Next]_vars
-----------------------------------------------------------------------------
(***************************************************************************)
(* Properties, of the answers to all questions about two configurations.     *)
(***************************************************************************)
AllAnswered == Len(answers) = Len(Questions)
To(query, flipped, cli) ==
  answers[CHOOSE i \in DOMAIN Questions : Questions[i] = Question(query, flipped, cli)]
Result(query) == To(query, FALSE, FALSE).result

\* The answers fit together: a configuration equivalent to another contains it and is
\* contained in it, the two-way query says which of the two containments hold, the
\* exit code of --equiv is 0 exactly for equivalent configurations, and configurations
\* of different topologies are never equivalent nor said to be.
AnswersFitTogether ==
  AllAnswered =>
    LET in12 == Result("containment") = 1
        in21 == To("containment", TRUE, FALSE).result = 1
        equal == Result("equivalence") = 0
        twoWay == Result("twoWayContainment")
    IN  /\ SamePolicies(config1, config2) => equal /\ twoWay = 0
        /\ ~SamePolicies(config1, config2) =>
             /\ equal <=> in12 /\ in21 /\ Comparable(config1, config2)
             /\ twoWay = (IF in12 THEN 2 ELSE 0) + (IF in21 THEN 1 ELSE 0)
        /\ To("twoWayContainment", FALSE, TRUE).result = 0
             <=> equal \/ (in12 /\ in21 /\ ~SamePolicies(config1, config2))

\* A query that does not speak of sides gives the same answer whichever configuration
\* comes first, unless it raises an exception.
SidesDoNotMatter ==
  AllAnswered =>
    \A q \in {"equivalence", "strongEquivalence", "semanticDiff"} :
      To(q, FALSE, FALSE).result \in {-1, To(q, TRUE, FALSE).result}
        \/ To(q, TRUE, FALSE).result = -1

\* What config1 specifies, seen as a specification of connections to permit or to
\* forbid on the peers of config2: the connections a policy of its own, not a gateway,
\* explicitly allows.
Specified ==
  Explicit([pods |-> config2.pods,
            arrived |-> SelectSeq(config1.arrived,
                                  LAMBDA p : p.kind \notin {"ingress", "gateway"})])
\* Answers are about what the policies mean.  Configurations found equivalent allow the
\* same connections, or consist of the same policies; permits holds if config2 allows
\* all that is specified, and forbids if none of it.
JudgedByMeaning ==
  AllAnswered =>
    LET permits == To("permits", FALSE, TRUE)
        forbids == To("forbids", FALSE, TRUE)
    IN  /\ Result("equivalence") = 0 =>
             Meaning(config1) = Meaning(config2) \/ SamePolicies(config1, config2)
        /\ permits.skipped = forbids.skipped
        /\ permits.skipped <=> \A i \in DOMAIN config1.arrived : IsGateway(config1.arrived[i])
        /\ ~permits.skipped =>
             /\ permits.result = 0 <=> Specified \subseteq Meaning(config2)
             /\ forbids.result = 0 <=> Specified \cap Meaning(config2) = {}

\* A connection that exists in one configuration and not in the other, not of a peer
\* with itself.
Changed == NoSelf(SymDiff(Meaning(config1), Meaning(config2)))
Covers(categories, changed) ==
  LET all == UNION {categories[i] : i \in DOMAIN categories}
  IN  /\ {c \in changed : c.dst \notin DnsEntries} \subseteq all /\ all \subseteq changed
      /\ \A i, j \in DOMAIN categories : i # j => categories[i] \cap categories[j] = {}
\* The categories of the semantic diff, which look at removed, persistent and added
\* peers and at captured pods only, cover every changed connection but those to DNS
\* names; and a connection is in one category at most.
DiffCoversChanges ==
  AllAnswered /\ ~SamePolicies(config1, config2) =>
    /\ Covers(Categories(config1, config2), Changed)
    /\ To("semanticDiff", FALSE, TRUE).result = 0 <=> Result("semanticDiff") = 0
=============================================================================
