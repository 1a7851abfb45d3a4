SPECIFICATION FairSpec
CONSTANTS
  Bytes <- Letters
  Chunks <- Frames
  Limit = 3
  HeadKeep = 2
  Policies = {"spill", "reject", "stream"}
  MaxReceived = 6
INVARIANT MemoryBounded
PROPERTY KeepsPromise
PROPERTY FlushAnswers
CHECK_DEADLOCK FALSE
