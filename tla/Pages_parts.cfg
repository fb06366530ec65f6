SPECIFICATION MCSpec
CONSTANTS
  MaxCalls = 2
  MaxOrders = 2
  MaxEvents = 1
  Deliveries = {d1, d2}
  Confirms = {c1}
  Nobody = Nobody
  d1 = d1
  d2 = d2
  c1 = c1
  MaxFaults = 2
INVARIANTS
  TypeOK
  CartSurvives
  PaymentTypeOK
  SuccessMeansRecorded
  ProcessedMeansDone
  RecordedOnce
PROPERTIES
  SecondOrderOnlyByOverlap
  NeverStuck
  PaidIsRecorded
CHECK_DEADLOCK FALSE
