CONSTANTS
  a = a
  b = b
  extra = extra
  dns = dns
  ip = ip
  OldPods = {a, b}
  NewPods = {a, b, extra}
  Heps = {}
  DnsEntries = {dns}
  Ip = ip
  OtherProtocols = {"UDP"}
  Policies <- MCPolicies
  MaxPolicies = 2
SPECIFICATION Spec
INVARIANTS AnswersFitTogether SidesDoNotMatter JudgedByMeaning DiffCoversChanges
CHECK_DEADLOCK FALSE
