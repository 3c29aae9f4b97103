SPECIFICATION Spec
CONSTANTS
  Hole = Hole
  Torn = Torn
  NoSeg = NoSeg
  NoInv = NoInv
  Segs = {s0, s1, s2, s3}
  Seg0 = s0
  Invs = {i1, i2}
  MaxRev = 3
  SegCap = 2
  MaxAttempts = 4
  RetryPoisoned = FALSE
SYMMETRY SegSymmetry
INVARIANTS CertifiedIsDurable AckedIsDurable RecoveryAccepts MemoryMatchesDisk
PROPERTY ImplementsCommitLog
