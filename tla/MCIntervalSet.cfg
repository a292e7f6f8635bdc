CONSTANTS
  Bound = 6
  Values <- MCValues
  Operands <- MCOperands
  Bottoms <- MCBottoms
  Tops <- MCTops
SPECIFICATION FairSpec
INVARIANTS IInv TypeOK Canonical SearchExact
PROPERTIES Implements Terminates
