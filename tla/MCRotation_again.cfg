SPECIFICATION Spec
CONSTANTS
  Loop = "loop"
  Once = {"once"}
  NoToken = NoToken
  Skips = {FALSE, TRUE}
  Fresh = 1
  RefreshAfter = 2
  Budget = 1
  ScanMax = 1
  MaxAge = 2
  Junk = {2}
  MaxDumps = 2
PROPERTY NeverAgain
CHECK_DEADLOCK FALSE
