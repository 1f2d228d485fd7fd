SPECIFICATION Spec
CONSTANTS
  s1 = s1  s2 = s2  c1 = c1  c2 = c2
  Shard = {s1, s2}
  Router = Router
  Char = {c1, c2}
  Starts <- MCStarts1
  Settings <- MCSettings1
  None = None
  Unread = Unread
  MaxConn = 3
  MaxAsks = 3
  MaxFaults = 0
CHECK_DEADLOCK FALSE
INVARIANTS ArrivesAsTicketed
