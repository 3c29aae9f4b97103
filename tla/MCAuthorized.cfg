CONSTANTS
  Chunk = 2
  MaxBytes = 3
  Cases <- MCCases
  Principals = {"m", "u"}
  Tokens = {t1, t2}
  Slots = {s1, s2}
  Records = {"r1", "r2"}
  Policies <- MCPolicies
  Sizes = {3}
  MaxReservations = 2
  MaxUploads = 2
  MaxFacades = 2
  MaxFaults = 1
  MaxInventory = 1
  t1 = t1
  t2 = t2
  s1 = s1
  s2 = s2
SPECIFICATION Spec
INVARIANTS LedgerIsExact QuotasHold KernelIsCertified UploadsAreCounted
PROPERTIES RevocationHolds
CHECK_DEADLOCK FALSE
SYMMETRY MCSymmetry
