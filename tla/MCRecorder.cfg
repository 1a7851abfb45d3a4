SPECIFICATION Spec
CONSTANTS
  SessionIds <- Ids
  OddChars <- Odd
  Metadata <- Threads
  MaxTracked = 2
  SecondLen = 2
  MaxClock = 2
  MaxPlans = 4
  MaxRestarts = 1
INVARIANT NumberedInOrder
INVARIANT RepeatNeedsFlood
INVARIANT SortsByAge
PROPERTY ForgetsLeastRecent
CHECK_DEADLOCK FALSE
