CONSTANTS
  Disconnected = Disconnected
  r1 = r1
  r2 = r2
  c1 = c1
  c2 = c2
  k1 = k1
  Request = {r1, r2}
  Cursor = {c1, c2}
  Catalog = {k1}
  MaxDocument = 2
  MaxVersion = 3
  MaxText = 3
SYMMETRY MCSymmetry
SPECIFICATION Spec
INVARIANTS
  CompletionIsCurrent
