SPECIFICATION Spec
CONSTANTS
  s1 = s1
  g1 = g1
  k1 = k1
  p1 = p1
  p2 = p2
  p3 = p3
  Guardians = {g1}
  Students = {k1}
  Subs = {s1}
  GuardianOf <- TheGuardian
  StudentOf <- TheStudent
  Ids = {p1, p2, p3}
  Methods = {"BKASH"}
  Numbers = {"017"}
  Txns = {"t"}
  None = None
  Fares = {1, 2}
  Fees = {0, 1}
  Amounts = {1, 2}
  MaxMonth = 2
  MaxBalance = 2
SYMMETRY Symmetry
INVARIANTS
  TypeOK
  MoneyConserved
  PaidOnce
  PendingCovers
  TransfersUsedOnce
  ChargesKeepTheirFare
  FinalFeeStands
PROPERTIES
  DecisionsAreFinal
