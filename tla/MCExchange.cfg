SPECIFICATION Spec
CONSTANTS
  Requests = {q1, q2}
  Stems = {s1, s2}
  Dirs = {d1, d2}
  Compressed = {q1}
  Sizes = {1, 2, 3}
  Limit = 2
  HeadKeep = 1
  RawCap = 2
  RecordRaw = TRUE
  q1 = q1
  q2 = q2
  s1 = s1
  s2 = s2
  d1 = d1
  d2 = d2
SYMMETRY Alike
INVARIANT OwnBodySent
INVARIANT RawRecorded
INVARIANT LeftSpillsExplained
CHECK_DEADLOCK FALSE
