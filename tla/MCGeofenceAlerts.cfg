SPECIFICATION Spec
CONSTANTS
  s1 = s1
  s2 = s2
  a = a
  b = b
  f1 = f1
  f2 = f2
  f3 = f3
  approaching = approaching
  passing = passing
  Students = {a, b}
  Stops = {s1, s2}
  Places = {approaching, passing}
  Zone <- MCZone
  None = None
  Fixes = {f1, f2, f3}
  MaxRetries = 1
  MaxFaults = 1
SYMMETRY Alike
INVARIANTS
  AlertedOnce
  StateFollowsFixes
  LostAlertsExplained
CHECK_DEADLOCK FALSE
