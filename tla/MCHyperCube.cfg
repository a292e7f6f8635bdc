CONSTANTS
  NDims = 3
  Domain <- MCDomain
  Operands <- MCOperands
SPECIFICATION Spec
INVARIANTS Canonical ContentsExact ComparisonsExact
CHECK_DEADLOCK FALSE
