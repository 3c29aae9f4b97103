SPECIFICATION Spec
CONSTANTS
  Hole = Hole
  Torn = Torn
  q1 = q1
  q2 = q2
  q3 = q3
  q4 = q4
  Requests <- MCRequests
  First = q1
  NoBase = NoBase
  Profiles <- MCProfiles
  MaxRuns = 6
  MaxFiles = 10
  MaxOverlay = 2
  Worlds = {{}, {"sync", "legacy"}}
  Names <- MCNames
SYMMETRY RequestSymmetry
INVARIANTS PairSurvives RecoveryFits LookupMatchesLog
