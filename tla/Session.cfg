SPECIFICATION FairSpec
CONSTANTS
  s1 = s1  s2 = s2  c1 = c1  c2 = c2
  Shard = {s1, s2}
  Router = Router
  Char = {c1}
  Starts <- MCStarts
  Settings <- MCSettings
  None = None
  Unread = Unread
  MaxConn = 3
  MaxAsks = 3
  MaxFaults = 1
CHECK_DEADLOCK FALSE
INVARIANTS PuppetOnOwner TicketOnce
PROPERTIES NoBounce Lands
