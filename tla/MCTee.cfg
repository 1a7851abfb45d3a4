SPECIFICATION FairSpec
CONSTANTS
  Cap = 3
  MaxBytes = 7
INVARIANT RowAfterFile
INVARIANT InOrder
PROPERTY KeepsPromise
PROPERTY SpillGoesLast
PROPERTY GetsReported
CHECK_DEADLOCK FALSE
