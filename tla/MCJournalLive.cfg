SPECIFICATION LiveSpec
CONSTANTS
  Hole = Hole
  Torn = Torn
  NoSeg = NoSeg
  NoInv = NoInv
  Segs = {s0, s1}
  Seg0 = s0
  Invs = {i1}
  MaxRev = 2
  SegCap = 1
  MaxAttempts = 2
  RetryPoisoned = FALSE
PROPERTY ReopenCompletes
