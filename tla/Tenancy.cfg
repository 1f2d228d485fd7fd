\* A router with a pool worker, and one shard whose reactor is its only thread.
SPECIFICATION Spec
CONSTANTS
  a = a
  b = b
  router = router
  reactor = reactor
  worker = worker
  r1 = r1
  Shard <- MCShard
  Global = Global
  Router = router
  None = None
  Absent = Absent
  Process <- MCProcess
  Reactor = reactor
  Pool <- MCPool
  Row <- MCRow
  Entered <- MCEntered
  Start <- MCStart
  Given <- MCGiven
  Assigned <- MCAssigned
  MaxBlocks = 2
  MaxQueue = 1
INVARIANTS
  TypeOK
  Scoped
  NoStrayRow
PROPERTIES
  OwnedRowsStay
  StartShard
