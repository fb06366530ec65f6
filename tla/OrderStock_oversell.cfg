SPECIFICATION Spec
CONSTANTS
  o1 = o1
  o2 = o2
  None = None
  Orders <- MCOrders
  SKUs <- OneSKU
  Sessions = {s1, s2}
  Qty <- OneEach
  Method <- BothCod
  Backorder = {}
  InitStock <- StockOne
  Deltas = {}
  MaxAdjustments = 0
INVARIANT
  NoOversell
