CONSTANTS
  p1 = p1
  p2 = p2
  s1 = s1
  s1b = s1b
  s2 = s2
  None = None
  Uids = {p1, p2}
  Streams = {s1, s2}
  UidOf <- BattleUidOf
  Matches <- BattleMatches
  Winners = {p1, p2}
  MaxRooms = 1
  MaxFrame = 2
  InputFrames = {0, 1}
SPECIFICATION FairSpec
PROPERTY StartedGameSendsFrames
