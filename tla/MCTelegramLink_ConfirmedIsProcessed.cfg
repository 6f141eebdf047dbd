SPECIFICATION FairSpec
CONSTANTS
  Guardians = {g1, g2}
  Chats = {h1, h2}
  Tokens = {t1, t2}
  None = None
  MaxUpdates = 2
  MaxFaults = 1
INVARIANTS
  ConfirmedIsProcessed
