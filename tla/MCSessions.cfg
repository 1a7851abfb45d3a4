SPECIFICATION SessionsSpec
CONSTANTS
  Writers = {w1, w2}
  Ids = {s1, s2, s3}
  Titles = {t1}
  Untitled = untitled
  MaxTitles = 2
  MaxDay = 1
  MaxWrote = 4
SYMMETRY Alike
INVARIANT FoundAgree
INVARIANT OneFileUnlessMet
