SPECIFICATION Spec
CONSTANTS
  Calls = {c1, c2}
  Buffers = {b1, b2}
  Arities <- MCArities
  LocalSize = 2
  None = None
SYMMETRY Symmetry
INVARIANTS
  ReleasedOnce
  DescriptorsOwn
  PoolZeroed
PROPERTY
  ImplementsNativeRun
