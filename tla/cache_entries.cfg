CONSTANTS
  None = None
  k1 = k1
  n1 = n1
  e1 = e1
  e2 = e2
  t1 = t1
  t2 = t2
  t3 = t3
  t4 = t4
  c1 = c1
  c2 = c2
  Key = {k1}
  Connection = {n1}
  ConnectionOf <- MCConnectionOf
  Entry = {e1, e2}
  Task = {t1, t2, t3}
  Caller = {c1, c2}
  Ops = {"ensure", "refresh", "clear", "forget"}
  EmptyCatalogs = {1}
  MaxCatalog = 1
SPECIFICATION StatusSpec
SYMMETRY MCSymmetry
INVARIANTS
  TypeOK
  OneLoadAtATime
  StatusIsTrue
  AttemptsAreMarked
PROPERTY ValueGoesForward
