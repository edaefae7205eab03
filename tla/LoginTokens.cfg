CONSTANTS
  r1 = r1
  r2 = r2
  r3 = r3
  n1 = n1
  n2 = n2
  v1 = v1
  v2 = v2
  d1 = d1
  d2 = d2
  None = None
  Requests = {r1, r2, r3}
  Names = {n1, n2}
  Values = {v1, v2}
  DbConns = {d1, d2}
SPECIFICATION Spec
CHECK_DEADLOCK FALSE
SYMMETRY LoginSymmetry
INVARIANT TypeOK
INVARIANT LoginTokenIsOwn
PROPERTY ChangedByItsOwner
