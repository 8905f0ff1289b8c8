SPECIFICATION Spec
CONSTANTS
  Mem = 4
  MaxIns = 1
  MaxOuts = 3
INVARIANTS
  InputsKept
  ResultsIntact
  RefusalJustified
