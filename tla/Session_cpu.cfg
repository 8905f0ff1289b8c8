SPECIFICATION Spec
CONSTANTS
  Callers = {c1, c2}
  Closers = {k1, k2}
  Buffers = {b1, b2}
  Gated = FALSE
  None = None
SYMMETRY Symmetry
INVARIANTS
  NoUseAfterFree
  TerminateLive
  DescriptorsPrivate
  PointersPinned
  CancellationReported
PROPERTY
  ImplementsLease
