SPECIFICATION Spec
CONSTANTS
  Threads = {t1, t2, t3, t4}
  Sessions = {s1, s2, s3}
  None = None
  Owner = Owner
SYMMETRY Symmetry
INVARIANTS
  RefsCounted
  LibraryInUse
  ReleasedBeforeUnload
  NoDeadlock
PROPERTIES
  ClosedAddsNothing
  ImplementsLibrary
  ImplementsLease
