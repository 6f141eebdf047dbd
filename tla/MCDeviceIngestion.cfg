SPECIFICATION Spec
CONSTANTS
  c1 = c1
  c2 = c2
  d1 = d1
  Conns = {c1, c2}
  Imeis = {d1}
  Allowed = {}
  Reports <- TwoReports
  None = None
  MaxClock = 1
  Skew = 1
  MaxBuffer = 1
  MaxRetries = 1
  MaxPackets = 4
INVARIANTS
  PersistedBeforeAck
  LatestCoversHistory
  EvaluatesCommitted
  ViewersInOrder
PROPERTIES
  ImplementsTrackerLog
