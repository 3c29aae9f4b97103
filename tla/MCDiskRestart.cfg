SPECIFICATION Spec
CONSTANTS
  Hole = Hole
  Torn = Torn
  q1 = q1
  q2 = q2
  q3 = q3
  q4 = q4
  Requests <- MCRequests
  First = q1
  NoBase = NoBase
  Profiles <- MCProfiles
  MaxRuns = 8
  MaxFiles = 14
  MaxOverlay = 2
  Worlds = {{"restart"}}
  Names <- MCNames
SYMMETRY RequestSymmetry
INVARIANTS PairSurvives
