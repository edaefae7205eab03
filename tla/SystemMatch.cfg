CONSTANTS
  p1 = p1
  p2 = p2
  c1 = c1
  c2 = c2
  k1 = k1
  k2 = k2
  u1 = u1
  None = None
  Uids = {p1, p2}
  Conns = {c1, c2}
  UidOf <- MatchUidOf
  Calls = {k1, k2}
  Commands = {"match"}
  Nicknames = {}
  Blank = {}
  Subs = {u1}
  MaxRestarts = 1
  MaxRooms = 1
  MaxFrame = 0
  Leavers = {c1}
  Winners = {p1}
SPECIFICATION FairSystemSpec
INVARIANT InvitationHolds
INVARIANT InvitedRoomExists
CHECK_DEADLOCK FALSE
INVARIANT MatchedAreInvited
PROPERTY GameServerAsAssumed
PROPERTY LeaverForfeits
