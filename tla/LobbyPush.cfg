CONSTANTS
  p1 = p1
  p2 = p2
  c1 = c1
  c1b = c1b
  c2 = c2
  k1 = k1
  k2 = k2
  k3 = k3
  k4 = k4
  n1 = n1
  n2 = n2
  None = None
  u1 = u1
  u2 = u2
  Uids = {p1, p2}
  Conns = {c1, c2}
  UidOf <- PushUidOf
  Calls = {k1, k2}
  Commands = {"match", "stop"}
  Nicknames = {}
  Blank = {}
  Subs = {u1, u2}
  MaxRestarts = 1
SPECIFICATION FairSpec
PROPERTY ImplementsMatchmaking
INVARIANT WriterAlive
INVARIANT FreshStreamServes
CHECK_DEADLOCK FALSE
