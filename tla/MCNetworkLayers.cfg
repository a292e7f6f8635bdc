CONSTANTS
  a = a
  b = b
  h = h
  dns = dns
  ip = ip
  Pods = {a, b}
  Heps = {h}
  DnsEntries = {dns}
  Ip = ip
  OtherProtocols = {"UDP"}
  Policies <- MCPolicies
  MaxPolicies = 4
SPECIFICATION Spec
INVARIANTS LayersHold VerdictsExact ExplicitIsAllowed RedundantCanGo SanityIncludes DisjointMeansOrderFree CapturedMeansExplicit
CHECK_DEADLOCK FALSE
