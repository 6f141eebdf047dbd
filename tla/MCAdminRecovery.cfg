SPECIFICATION Spec
CONSTANTS
  Logins = {l1}
  MaxRequests = 3
  MaxTime = 4
  Cooldown = 1
  Hour = 3
  Ttl = 2
  Retention = 1
  NoticeTtl = 2
  Quota = 2
  MaxAttempts = 1
  MaxTries = 2
INVARIANTS
  SessionsFollowPassword
  CodesErased
  RequestsBounded
  NoticeNotDropped
PROPERTIES
  OnlyNewestRecovers
CHECK_DEADLOCK FALSE
