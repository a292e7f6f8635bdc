CONSTANTS
  a = a
  b = b
  c = c
  ip = ip
  base = base
  next = next
  Pods <- MCPods
  Configs <- MCConfigs
  Policies <- MCPolicies
  Rules <- MCRules
  PodsOf <- MCPodsOf
  PoliciesOf <- MCPoliciesOf
  RulesOf <- MCRulesOf
  Selects <- MCSelects
  Ip = ip
  MaxPods = 4
  MaxRuns = 2
SPECIFICATION Spec
INVARIANTS RulesAreExact PoliciesAreExact Restored
CHECK_DEADLOCK FALSE
