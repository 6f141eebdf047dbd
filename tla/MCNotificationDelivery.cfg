SPECIFICATION FairSpec
CONSTANTS
  Guardians = {g1}
  Chats = {h1, h2}
  Ids = {n1, n2}
  None = None
  MaxAttempts = 2
  MaxTries = 2
  Batch = 1
  MaxFaults = 2
  AcceptsSurplus = TRUE
INVARIANTS
  DuplicatesExplained
  StatusTellsTruth
PROPERTIES
  ObsoleteChatOnlyByRace
  EveryDeliverySettles
