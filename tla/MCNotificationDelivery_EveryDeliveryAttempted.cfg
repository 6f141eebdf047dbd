SPECIFICATION FairSpec
CONSTANTS
  Guardians = {g1}
  Chats = {h1}
  Ids = {n1}
  None = None
  MaxAttempts = 2
  MaxTries = 2
  Batch = 1
  MaxFaults = 1
  AcceptsSurplus = FALSE
PROPERTIES
  EveryDeliveryAttempted
