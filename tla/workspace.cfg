CONSTANTS
  None = None
  Absent = Absent
  Failed = Failed
  a = a
  b = b
  c1 = c1
  c2 = c2
  d1 = d1
  d2 = d2
  x1 = x1
  x2 = x2
  r1 = r1
  r2 = r2
  Editor = {a, b}
  Connection = {c1}
  ConnectionOf <- MCConnectionOf
  Database = {d1, d2}
  Lookup = {l1, l2}
  MaxSwitches = 1
  Definition = {x1, x2}
  DatabaseOf <- MCDatabaseOf
  Request = {r1, r2}
  Save = {r2}
  StateId = {s1, s2, s3, s4}
  LoadId = {p1, p2, p3}
  MaxChanges = 1
  KindOf <- MCKindOf
SPECIFICATION Spec
INVARIANTS
  TypeOK
  ServedIsFile
PROPERTIES
  SavesKeep
  SwitchesAreObserved
