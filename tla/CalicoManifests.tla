--------------------------- MODULE CalicoManifests ---------------------------
(***************************************************************************)
(* What the parser of Calico's policies, global policies and profiles makes  *)
(* of a manifest (CalicoPolicyYamlParser.py).                                *)
(*                                                                           *)
(* A selector is the sequence of its tokens: brackets, the operators ||, &&   *)
(* and !, and atomic expressions such as has(key) or key in {values}.  A test *)
(* of a part of a value (contains, starts with, ends with) is the set of the  *)
(* values that have the part.                                                 *)
(***************************************************************************)
EXTENDS PolicyConnections

Sign(s) == [sign |-> s]
Atom(op, key, values) == [op |-> op, key |-> key, values |-> values]
NoNumber == -1  \* an icmp code that is not given

\* The value of an atomic expression.
ParseSelectorExpr(c, atom, ns, namespace_selector) ==
  LET action == IF atom.op \in {"==", "in", "contains"} THEN "In" ELSE "NotIn"
      all_peers == IF namespace_selector THEN NonGlobalPeers(c) ELSE GetNamespacePods(c, ns)
      with == CASE atom.op = "all" -> all_peers
                [] atom.op = "has" -> IF namespace_selector THEN GetNamespacePodsWithKey(c, atom.key, FALSE)
                                      ELSE GetPeersWithKey(c, ns, atom.key, FALSE)
                [] OTHER -> IF namespace_selector
                            THEN GetNamespacePodsWithLabel(c, atom.key, atom.values, action)
                            ELSE GetPeersWithLabel(c, atom.key, atom.values, action, NoNamespace)
  IN IF namespace_selector /\ atom.op = "global" THEN GlobalPeers(c) ELSE all_peers \cap with

Count(tokens, s) == Cardinality({i \in DOMAIN tokens : tokens[i] = Sign(s)})
Balanced(tokens) == Count(tokens, "(") = Count(tokens, ")")

\* The brackets around the whole expression are removed, as often as there are.
RECURSIVE StripSelector(_)
StripSelector(tokens) ==
  IF /\ Len(tokens) > 1 /\ Head(tokens) = Sign("(") /\ Last(tokens) = Sign(")")
     /\ \A i \in 1..Len(tokens) - 1 : ~Balanced(SubSeq(tokens, 1, i))
  THEN StripSelector(SubSeq(tokens, 2, Len(tokens) - 1))
  ELSE tokens

\* Mutant: the operators in brackets count too.
SplitEverywhere(tokens, operator) ==
  LET split == FoldLeft(LAMBDA acc, token :
                          IF token = Sign(operator)
                          THEN [parts |-> Append(acc.parts, acc.current), current |-> << >>]
                          ELSE [acc EXCEPT !.current = Append(@, token)],
                        [parts |-> << >>, current |-> << >>], SelectSeq(tokens, LAMBDA t : t \notin {Sign("("), Sign(")")}))
  IN Append(split.parts, split.current)

\* The parts between the operators that are in no brackets.
SplitSelector(tokens, operator) ==
  LET split == FoldLeft(LAMBDA acc, token :
                          IF token = Sign(operator) /\ Balanced(acc.current)
                          THEN [parts |-> Append(acc.parts, acc.current), current |-> << >>]
                          ELSE [acc EXCEPT !.current = Append(@, token)],
                        [parts |-> << >>, current |-> << >>], tokens)
  IN IF Balanced(split.current) THEN Append(split.parts, split.current) ELSE split.parts

\* || binds weaker than &&, && weaker than !.
RECURSIVE RecursiveParseLabelSelector(_, _, _, _)
RecursiveParseLabelSelector(c, text, ns, namespace_selector) ==
  LET globals == ~namespace_selector \/ \E i \in DOMAIN text : text[i] = Atom("global", NoName, {})
      all_peers == IF globals THEN AllPeersGroup(c) ELSE NonGlobalPeers(c)
      tokens == StripSelector(text)
      ors == SplitSelector(tokens, "||")
      ands == SplitSelector(tokens, "&&")
      parse(part) == RecursiveParseLabelSelector(c, part, ns, namespace_selector)
  IN CASE Len(ors) # 1 -> UNION {parse(ors[i]) : i \in DOMAIN ors}
       [] Len(ors) = 1 /\ Len(ands) # 1 -> {a \in all_peers : \A i \in DOMAIN ands : a \in parse(ands[i])}
       [] Len(ors) = 1 /\ Len(ands) = 1 /\ Head(tokens) = Sign("!") ->
            (IF namespace_selector THEN all_peers ELSE GetNamespacePods(c, ns)) \ parse(Tail(tokens))
       [] OTHER -> ParseSelectorExpr(c, Head(tokens), ns, namespace_selector)

\* A port is a number, a range or a name.
ParseCalicoPort(port) ==
  IF port.named THEN AddNamedPort(PortSet(FALSE), port.name)
  ELSE AddPortRange(PortSet(FALSE), port.number, port.last)

GetRuleIps(entity) ==
  {<<"ip", a>> : a \in (IF entity.nets = {} THEN Ips ELSE entity.nets) \ entity.notNets}

\* The peers of the source or the destination of a rule.  Addresses and labels
\* do not mix.
ByIps(entity) == entity.nets # {} \/ entity.notNets # {}
ByLabels(entity) == entity.namespaceSelector # << >> \/ entity.selector # << >>
StartPeers(c, ns, entity) ==
  CASE entity.namespaceSelector # << >> -> RecursiveParseLabelSelector(c, entity.namespaceSelector, NoNamespace, TRUE)
    [] entity.namespaceSelector = << >> /\ entity.selector # << >> -> GetNamespacePods(c, ns)
    [] ~ByLabels(entity) /\ ByIps(entity) -> GetRuleIps(entity)
    [] OTHER -> AllPeersAndIps(c, Ips)
SelectorPeers(c, ns, selector) ==
  IF selector = << >> THEN {} ELSE RecursiveParseLabelSelector(c, selector, ns, FALSE)
GetRulePeers(c, ns, entity) ==
  LET ns_to_use == IF entity.namespaceSelector = << >> THEN ns ELSE NoNamespace
  IN IF ByIps(entity) /\ ByLabels(entity) THEN {}
     ELSE {a \in StartPeers(c, ns, entity) :
             entity.selector # << >> => a \in SelectorPeers(c, ns_to_use, entity.selector)}
          \ SelectorPeers(c, ns_to_use, entity.notSelector)

\* An array of ports that is there but empty has no port; one that is absent has all.
PortsOfRule(ports) ==
  IF ports = None THEN PortSet(TRUE)
  ELSE FoldLeft(LAMBDA acc, p : PortUnion(acc, ParseCalicoPort(p)), PortSet(FALSE), ports[1])

\* Mutant: ports given by name are not taken out.
GetRulePortsByNumber(entity) ==
  FoldLeft(LAMBDA acc, p : IF p.named THEN acc ELSE PortDifference(acc, ParseCalicoPort(p)),
           PortsOfRule(entity.ports), OrElse(entity.notPorts, << >>))
GetRulePorts(entity) ==
  FoldLeft(LAMBDA acc, p : PortDifference(acc, ParseCalicoPort(p)), PortsOfRule(entity.ports), OrElse(entity.notPorts, << >>))

\* icmp and notICMP.  A type or a code restricts the cube unless it is 0; the two
\* are combined only when icmp has the type of notICMP and no code.
IcmpCube(cube, icmp) ==
  IF icmp = Null \/ icmp.type = 0 THEN cube
  ELSE [cube EXCEPT !.types = {icmp.type}, !.codes = IF icmp.code \in {0, NoNumber} THEN @ ELSE {icmp.code}]
ParseIcmp(base, icmp, not_icmp, cube) ==
  LET props == MakeConnProps(base, IcmpCube(cube, icmp))
      subtract == /\ not_icmp # Null
                  /\ icmp # Null => /\ icmp.type = not_icmp.type /\ icmp.code # not_icmp.code
                                    /\ icmp.code = NoNumber
  IN IF subtract THEN props \ MakeConnProps(base, IcmpCube(cube, not_icmp)) ELSE props

\* protocol and notProtocol; a rule that has both matches nothing.
ParseRuleConns(base, rule, cube) ==
  CASE rule.protocol # NoName /\ rule.notProtocol # NoName -> {}
    [] rule.protocol # NoName /\ rule.notProtocol = NoName ->
         LET of == [cube EXCEPT !.protocols = {rule.protocol}]
         IN IF rule.protocol = "ICMP" THEN ParseIcmp(base, rule.icmp, rule.notICMP, of)
            ELSE MakeConnProps(base, of)
    [] rule.protocol = NoName /\ rule.notProtocol # NoName ->
         MakeConnProps(base, [cube EXCEPT !.protocols = Protocols \ {rule.notProtocol}])
    [] OTHER -> MakeConnProps(base, cube)

EntityPeers(c, ns, entity) == IF entity = Null THEN AllPeersAndIps(c, Ips) ELSE GetRulePeers(c, ns, entity)
EntityPorts(entity) == IF entity = Null THEN PortSet(TRUE) ELSE GetRulePorts(entity)

RuleCube(rule, src, dst, is_ingress, selected) ==
  [AllCube(IF is_ingress THEN src ELSE src \cap selected, IF is_ingress THEN dst \cap selected ELSE dst)
     EXCEPT !.sports = EntityPorts(rule.source), !.dports = EntityPorts(rule.destination)]
ParsedRule(base, rule, cube) ==
  [action |-> rule.action, src |-> cube.src, dst |-> cube.dst, conns |-> ParseRuleConns(base, rule, cube)]
ParseXgressRule(c, base, ns, rule, is_ingress, selected) ==
  ParsedRule(base, rule, RuleCube(rule, EntityPeers(c, ns, rule.source), EntityPeers(c, ns, rule.destination),
                                  is_ingress, selected))

\* types, or by what the spec has.  Otherwise there is a syntax error.
CalicoAffectsIngress(spec) ==
  \/ "Ingress" \in spec.types
  \/ spec.types = {} /\ (spec.ingress # Null \/ spec.egress = Null)
CalicoAffectsEgress(spec) == "Egress" \in spec.types \/ (spec.types = {} /\ spec.egress # Null)
LegalCalicoRule(rule) ==
  \A entity \in {rule.source, rule.destination} :
    entity # Null /\ (entity.ports # None \/ entity.notPorts # None) => ProtocolSupportsPorts(rule.protocol)
LegalCalicoSpec(spec) ==
  /\ ~CalicoAffectsIngress(spec) => spec.ingress = Null
  /\ ~CalicoAffectsEgress(spec) => spec.egress = Null
  /\ \A field \in {spec.ingress, spec.egress} :
       field # Null => \A i \in DOMAIN field.rules : LegalCalicoRule(field.rules[i])

GetSelectedPeers(c, ns, spec, is_profile, name) ==
  LET peers == IF spec.selector # << >>
               THEN AllPeersGroup(c) \cap RecursiveParseLabelSelector(c, spec.selector, ns, FALSE)
               ELSE GetNamespacePods(c, ns)
  IN IF is_profile THEN AtomsOf(GetProfilePods(c, name, TRUE))
     ELSE IF spec.namespaceSelector = << >> THEN peers
     ELSE peers \cap RecursiveParseLabelSelector(c, spec.namespaceSelector, NoNamespace, TRUE)

\* parse_policy: only a network policy has a namespace.
ParseXgressRules(c, base, ns, field, is_ingress, selected) ==
  IF field = Null THEN << >>
  ELSE [i \in DOMAIN field.rules |-> ParseXgressRule(c, base, ns, field.rules[i], is_ingress, selected)]
PolicyNamespace(c, policy) ==
  IF policy.kind = "CalicoNetworkPolicy" THEN c.namespaces[policy.namespace] ELSE NoNamespace
ParseCalicoRules(c, base, ns, policy, selected) ==
  [name |-> policy.name, namespace |-> ns.name, kind |-> policy.kind, order |-> policy.spec.order,
   selected |-> selected, affects_ingress |-> CalicoAffectsIngress(policy.spec),
   affects_egress |-> CalicoAffectsEgress(policy.spec),
   ingress |-> ParseXgressRules(c, base, ns, policy.spec.ingress, TRUE, selected),
   egress |-> ParseXgressRules(c, base, ns, policy.spec.egress, FALSE, selected)]
ParseCalicoPolicy(c, base, policy) ==
  LET ns == PolicyNamespace(c, policy)
  IN ParseCalicoRules(c, base, ns, policy,
       GetSelectedPeers(c, ns, policy.spec, policy.kind = "CalicoProfile", policy.name))
=============================================================================
