SPECIFICATION Spec
CONSTANTS
  a1 = a1
  a2 = a2
  a3 = a3
  a4 = a4
  b1 = b1
  s1 = s1
  h = h
  d = d
  A = A
  B = B
  S = S
  NoNs = NoNs
  Pods <- MCPods
  Heps = {h}
  DnsEntries = {d}
  Ips <- MCIps
  Ipv6 <- MCIpv6
  NsOf <- MCNsOf
  LabelsOf <- MCLabelsOf
  AllowedLabels <- MCAllowedLabels
  Conns <- MCConns
  GroupSinglePod = FALSE
  AutoLimit = 8
  SystemNs = {S}
  min_clique_size = 4
  Queries <- MCQueries
INVARIANTS ReportExact NothingLost LabelTextFits DrawingReadsExactly
CHECK_DEADLOCK FALSE
