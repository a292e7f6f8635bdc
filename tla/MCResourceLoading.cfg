CONSTANTS
  Ips = {1}
  MaxPort = 2
  IcmpTypes = {0}
  IcmpCodes = {0}
  Schemes <- MCSchemes
  LiveSim <- MCLiveSim
  Cluster <- MCCluster
SPECIFICATION Spec
INVARIANTS TwoOfAKind PodsSeeTheirNamespaces PoliciesAsWritten SimulatedAreFound
PROPERTY CopiesLeaveTheGlobalAlone
CHECK_DEADLOCK FALSE
