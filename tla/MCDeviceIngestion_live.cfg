SPECIFICATION FairSpec
CONSTANTS
  c1 = c1
  c2 = c2
  d1 = d1
  d2 = d2
  Conns = {c1, c2}
  Imeis = {d1, d2}
  Allowed = {d1}
  Reports <- PoorReports
  None = None
  MaxClock = 1
  Skew = 1
  MaxBuffer = 1
  MaxRetries = 1
  MaxPackets = 3
PROPERTIES
  HandlersEnd
