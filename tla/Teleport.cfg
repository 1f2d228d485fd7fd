SPECIFICATION TeleportSpec
CONSTANTS
  s1 = s1  s2 = s2  r1 = r1  r2 = r2  r3 = r3  x1 = x1  x2 = x2
  Shard = {s1, s2}
  None = None
  Deferrable <- BaseClass
  Movable = {x1, x2}
  GlobalRow = {x2}
  Global = Global
  Room = {r1, r2, r3}
  Dest = {r1, r2}
  RoomShard <- MCRoomShard
  Unset = Unset
  Starts <- MCStarts
  MaxSent = 3
  MaxFaults = 1
CHECK_DEADLOCK FALSE
INVARIANTS MessagingTypeOK LocalStaysLocal
PROPERTIES DroppedOnlyIfMoved ArrivalSeen
