SPECIFICATION Spec
CONSTANTS
  Hole = Hole
  Torn = Torn
  NoSeg = NoSeg
  NoInv = NoInv
  Segs = {s0, s1, s2}
  Seg0 = s0
  Invs = {i1}
  MaxRev = 2
  SegCap = 1
  MaxAttempts = 2
  RetryPoisoned = TRUE
SYMMETRY SegSymmetry
INVARIANT CertifiedIsDurable
