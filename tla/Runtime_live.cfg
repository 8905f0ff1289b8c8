SPECIFICATION FairSpec
CONSTANTS
  Threads = {t1, t2, t3}
  Sessions = {s1, s2}
  None = None
  Owner = Owner
PROPERTIES
  Unloads
  OperationsReturn
