SPECIFICATION Spec
CONSTANTS
  Closers = {"d", "f"}
  Type <- Types
  Delta <- Deltas
  Model <- Models
  Usage <- Usages
  MaxLine = 3
  TextCap = 1
  Keep = {0, 3}
  MaxChunk = 3
  MaxBytes = 6
INVARIANT EachLineOnce
INVARIANT CapsHold
INVARIANT SaysWhatWasHeard
INVARIANT CatalogHonest
CHECK_DEADLOCK FALSE
