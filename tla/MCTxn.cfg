SPECIFICATION LiveSpec
CONSTANTS
  p1 = p1
  p2 = p2
  k1 = k1
  k2 = k2
  t1 = t1
  t2 = t2
  b1 = b1
  b2 = b2
  x1 = x1
  Requests <- MCRequests
  NoReq = NoReq
  MaxOutcomes = 3
  Retention = 1
  MaxTime = 1
  MaxAttempts = 3
INVARIANTS ExactlyOnce RepliesAreTrue MemoryMatchesLog ReplayAccepts
PROPERTIES UsesCommitLog ReopenSettles
