SPECIFICATION Spec
CONSTANTS
  o1 = o1
  o2 = o2
  o3 = o3
  ann = ann
  bob = bob
  None = None
  Orders <- MCOrders
  User <- MCUser
  Cod <- OneCod
  Sessions = {s1, s2}
  GlobalMax = 2
  UserMax = 1
SYMMETRY Symmetry
INVARIANTS
  TypeOK
  CountStillRight
PROPERTIES
  ReservedWithinCaps
  VoidedForGood
  RedeemingAddsNoUse
