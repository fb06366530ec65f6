SPECIFICATION Spec
CONSTANTS
  o1 = o1
  o2 = o2
  None = None
  Orders <- MCOrders
  SKUs <- OneSKU
  Sessions = {s1, s2}
  Qty <- OneEach
  Method <- CardAndCod
  Backorder = {}
  InitStock <- StockOne
  Deltas <- DownOne
  MaxAdjustments = 1

SYMMETRY Symmetry
INVARIANTS
  TypeOK
  StockMovedOnce
  FulfilledTookStock
PROPERTY
  LedgerSpec
