SPECIFICATION FairSpec
CONSTANTS
  router = router  s1 = s1  s2 = s2
  Process = {router, s1, s2}
  Shard = {s1, s2}
  Role <- MCRole
  None = None
  Declared <- MCDeclared
  MaxFaults = 1
  MaxDeclare = 1
INVARIANTS TypeOK Confined
PROPERTIES MarkerOnlyClaimed PausedResumes
