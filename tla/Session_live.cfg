SPECIFICATION FairSpec
CONSTANTS
  Callers = {c1, c2}
  Closers = {k1}
  Buffers = {b1, b2}
  Gated = TRUE
  None = None
PROPERTIES
  CloseReturns
  RunReturns
  ImplementsService
