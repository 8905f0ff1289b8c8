SPECIFICATION Spec
CONSTANTS
  Runtimes = {r1, r2, r3}
  Windows = TRUE
SYMMETRY Symmetry
INVARIANTS
  MappedWhileUsed
  MapCounted
  AllOrNothing
