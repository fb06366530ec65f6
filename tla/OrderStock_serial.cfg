SPECIFICATION SerialSpec
CONSTANTS
  o1 = o1
  o2 = o2
  None = None
  Orders <- MCOrders
  SKUs <- TwoSKUs
  Sessions = {s1}
  Qty <- OneAndTwo
  Method <- CardAndCod
  Backorder = {2}
  InitStock <- StockTwo
  Deltas = {1}
  MaxAdjustments = 1
INVARIANTS
  StockConserved
  NoOversell
  FulfilledHoldsStock
PROPERTY
  MovesFollowTable
