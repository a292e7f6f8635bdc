CONSTANTS
  Ips = {1, 2, 3}
  MaxPort = 2
  IcmpTypes = {0, 8}
  IcmpCodes = {0, 1}
  Topologies <- MCTopologies
  K8sPolicies <- MCK8sPolicies
  CalicoPolicies <- MCCalicoPolicies
  Selectors <- MCSelectors
  GatewayTopologies <- MCGatewayTopologies
  IngressPolicies <- MCIngressPolicies
  IstioManifests <- MCIstioManifests
  MeshTopologies <- MCMeshTopologies
  AuthorizationPolicies <- MCAuthorizationPolicies
  SidecarLists <- MCSidecarLists
  Hosts = {"h1", "h2", "h3"}
  Paths <- MCPaths
  Methods = {"GET", "POST"}
SPECIFICATION Spec
INVARIANT OnlyTheRestToDefault
CHECK_DEADLOCK FALSE
