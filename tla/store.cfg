CONSTANTS
  None = None
  Invalid = Invalid
  Partial = Partial
  w1 = w1
  w2 = w2
  o1 = o1
  o2 = o2
  o3 = o3
  n1 = n1
  n2 = n2
  n3 = n3
  s1 = s1
  s2 = s2
  Window = {w1, w2}
  Operation = {o1, o2}
  Name = {n1, n2}
  Snapshot = {s1, s2}
SPECIFICATION FairSpec
INVARIANTS
  TypeOK
  PublishedIsWhole
PROPERTIES
  OperationsEnd
  RegisterSpec
