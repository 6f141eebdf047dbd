SPECIFICATION Spec
CONSTANTS
  Students = {s1, s2}
  Names = {n1, n2}
  Shifts = {m, d}
  Routes = {r1}
  Ids = {q1, q2, q3}
  None = None
SYMMETRY Symmetry
INVARIANTS
  OneClaimPerShift
  ArchivedIsIdle
  PendingStaysApprovable
  NamesAgree
