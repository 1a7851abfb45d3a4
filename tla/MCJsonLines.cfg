SPECIFICATION LinesSpec
CONSTANTS
  Writers = {w1, w2}
  Parts = 3
  MaxRows = 4
SYMMETRY Alike
INVARIANT QuietEndsLine
INVARIANT LinesUnlessCrossed
CHECK_DEADLOCK FALSE
