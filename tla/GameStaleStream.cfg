CONSTANTS
  p1 = p1
  p2 = p2
  s1 = s1
  s1b = s1b
  s2 = s2
  None = None
  Uids = {p1, p2}
  Streams = {s1, s1b, s2}
  UidOf <- ReconnectUidOf
  Matches <- ReconnectMatches
  Winners = {p2}
  MaxRooms = 1
  MaxFrame = 1
  InputFrames = {}
SPECIFICATION Spec
INVARIANT OpenStreamIsReached
