SPECIFICATION Spec
CONSTANTS
  Requests = {"q1"}
  Stems = {"s1"}
  Dirs = {"d1"}
  Compressed = {"q1"}
  Sizes = {1, 2, 3}
  Limit = 2
  HeadKeep = 1
  RawCap = 2
  RecordRaw = TRUE
INVARIANT NothingLost
CHECK_DEADLOCK FALSE
