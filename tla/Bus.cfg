SPECIFICATION FairSpec
CONSTANTS
  s1 = s1  s2 = s2
  Shard = {s1, s2}
  None = None
  Deferrable <- BaseClass
  MaxSent = 2
  MaxFaults = 1
CHECK_DEADLOCK FALSE
INVARIANTS NothingLost OneOutcome SoleConsumer NoReplyToReply
PROPERTIES SenderLearns
