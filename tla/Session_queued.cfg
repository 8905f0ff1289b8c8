SPECIFICATION HangingSpec
CONSTANTS
  Callers = {c1, c2}
  Closers = {k1}
  Buffers = {b1, b2}
  Gated = FALSE
  None = None
PROPERTY
  CancellationNeverQueues
