CONSTANTS
  None = None
  k1 = k1
  n1 = n1
  e1 = e1
  e2 = e2
  t1 = t1
  t2 = t2
  t3 = t3
  t4 = t4
  c1 = c1
  c2 = c2
  Key = {k1}
  Connection = {n1}
  ConnectionOf <- MCConnectionOf
  Entry = {11, 12}
  Task <- MCTask
  Caller = {21, 22}
  Ops = {"ensure", "refresh", "clear", "forget"}
  EmptyCatalogs = {1}
  MaxCatalog = 0
SPECIFICATION MCFairSpec
PROPERTIES
  WorkSettles
  StatusComesDown
