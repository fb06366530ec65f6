SPECIFICATION MCSpec
CONSTANTS
  Workers = {w1, w2}
  Jobs = {order_expiration, admin_report}
  None = None
  MaxDisruptions = 2
  Actors = {m1, m2}
  m1 = m1
  m2 = m2
  MaxAttempts = 3
  MaxIds = 8
  MaxRetries = 1
  MaxStops = 1
INVARIANTS
  TypeOK
  LeadersHoldTheLock
  LocksGivenBack
  MediaTypeOK
  NotStranded
PROPERTIES
  OnlyLeadersKeepOthersWaiting
  EveryJobEnds
CHECK_DEADLOCK FALSE
