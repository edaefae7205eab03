CONSTANTS
  s1 = s1
  s2 = s2
  a1 = a1
  a2 = a2
  c1 = c1
  None = None
  Sessions = {s1, s2}
  Addrs = {a1, a2}
  KConns = {c1}
SPECIFICATION Spec
SYMMETRY SessionSymmetry
INVARIANT TypeOK
INVARIANT AddrOwned
INVARIANT AddrReaches
INVARIANT KcpConnServed
INVARIANT ClosedOnce
INVARIANT ClosedIsForgotten
CHECK_DEADLOCK FALSE
PROPERTY ImplementsSessionLife
