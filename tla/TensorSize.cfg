SPECIFICATION Spec
CONSTANTS
  MaxInt = 127
  Dims <- MCDims
  MaxRank = 3
INVARIANTS
  SizeExact
  CopyFits
  ViewsFit
CHECK_DEADLOCK FALSE
