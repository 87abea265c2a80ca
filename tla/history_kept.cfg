CONSTANTS
  None = None
  k1 = k1
  n1 = n1
  e1 = e1
  e2 = e2
  t1 = t1
  t2 = t2
  t3 = t3
  t4 = t4
  c1 = c1
  c2 = c2
  Key = {k1}
  Connection = {n1}
  ConnectionOf <- MCConnectionOf
  Entry = {e1}
  Task = {t1, t2, t3}
  Caller = {c1, c2}
  Ops = {"ensure", "refresh"}
  EmptyCatalogs = {1}
  MaxCatalog = 2
SPECIFICATION HistorySpec
SYMMETRY MCSymmetry
INVARIANTS
  StatusMatchesWork
  OneLoadPerIdentity
PROPERTIES
  FileGoesForward
  RefreshIsPaced
  CoalescedSpec
