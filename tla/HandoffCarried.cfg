SPECIFICATION Spec
CONSTANTS
  s1 = s1  s2 = s2  r1 = r1  r2 = r2  hub = hub  k1 = k1  k2 = k2
  Shard = {s1, s2}
  Global = Global
  None = None
  Movable = {char, bag}
  Room = {r1, r2}
  GlobalRow = {}
  RoomOwner <- MCRoomOwner
  Carriable = {bag}
  Puppetable = {char, bag}
  Dest = {r1, r2}
  Session = {k1, k2}
  Home <- MCHome
  StaleRefs = FALSE
  SameShard = {}
  MaxFaults = 0
INVARIANTS PuppetLocal
