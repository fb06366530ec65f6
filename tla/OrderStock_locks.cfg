SPECIFICATION FairSpec
CONSTANTS
  o1 = o1
  o2 = o2
  None = None
  Orders <- MCOrders
  SKUs <- TwoSKUs
  Sessions = {s1, s2}
  Qty <- OneEach
  Method <- BothCod
  Backorder = {1}
  InitStock <- StockOne
  Deltas = {}
  MaxAdjustments = 0
INVARIANTS
  CheckoutsNeverDeadlock
PROPERTY
  RequestsFinish
CHECK_DEADLOCK FALSE
