SPECIFICATION Spec
CONSTANTS
  Sessions = {s1, s2}
  None = None
  Word = 16
  PortSize = 5
  DimSize = 3
  IntSize = 8
  Counts = {0, 1, 2, 15}
  Ranks = {0, 1, 15}
  Threads <- MCThreads
  MaxPairs = 2
  Windows = TRUE
SYMMETRY Symmetry
INVARIANTS
  Tracked
  LoadsAllOrNothing
  TablesFit
  OptionsExact
PROPERTY
  ImplementsContract
