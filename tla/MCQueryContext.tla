--------------------------- MODULE MCQueryContext ---------------------------
(***************************************************************************)
(* Two configurations with a pod in common.  The rules of each select one    *)
(* pod, or all its peers: the case in which a dimension may be reduced.      *)
(***************************************************************************)
EXTENDS QueryContext

CONSTANTS a, b, c, ip, base, next

MCPods == {a, b, c}
MCConfigs == {base, next}
MCPolicies == {"allow_b", "allow_all", "allow_two"}
MCRules == {"b", "base_peers", "c", "next_peers"}
MCPodsOf == [x \in MCConfigs |-> IF x = base THEN {a, b} ELSE {b, c}]
MCPoliciesOf ==
  [x \in MCConfigs |-> IF x = base THEN {"allow_b", "allow_all"} ELSE {"allow_two"}]
MCRulesOf ==
  [p \in MCPolicies |-> CASE p = "allow_b"   -> {"b"}
                          [] p = "allow_all" -> {"base_peers"}
                          [] p = "allow_two" -> {"c", "next_peers"}]
MCSelects ==
  [r \in MCRules |-> CASE r = "b"          -> {b}
                       [] r = "base_peers" -> {a, b, ip}
                       [] r = "c"          -> {c}
                       [] r = "next_peers" -> {b, ip}]
=============================================================================
