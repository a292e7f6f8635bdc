CONSTANTS
  NDims = 3
  Domain <- MCDomain
  Operands <- MCOperands
SPECIFICATION Spec
INVARIANT EmptyHasNoLayers
CHECK_DEADLOCK FALSE
