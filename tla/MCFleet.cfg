SPECIFICATION Spec
CONSTANTS
  Vehicles = {v1, v2}
  Drivers = {d1, d2}
  Jobs = {j1, j2}
  Names = {n1}
  Amounts = {1}
  Previews = {p1, p2}
  Confirms = {k1, k2}
  MaxPreviews = 1
  None = None
SYMMETRY Symmetry
INVARIANTS
  DriftOnlyByImport
  ImportedOnce
PROPERTIES
  StatusFollowsJobs
