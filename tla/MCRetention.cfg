SPECIFICATION Spec
CONSTANTS
  Logs = {"index"}
  Streams = {"resp"}
  Off = Off
  Retentions = {Off, 1}
  GzipAfters = {Off, 0}
  Caps = {Off, 2}
  MaxDay = 2
  MaxRows = 3
INVARIANT LossExplained
INVARIANT FitsWhenQuiet
PROPERTY OldestAndNoMore
CHECK_DEADLOCK FALSE
