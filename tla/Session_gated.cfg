SPECIFICATION Spec
CONSTANTS
  Callers = {c1, c2, c3}
  Closers = {k1}
  Buffers = {b1, b2}
  Gated = TRUE
  None = None
SYMMETRY Symmetry
INVARIANTS
  RunsSerialized
  ReturnsClean
  NoDeadlock
