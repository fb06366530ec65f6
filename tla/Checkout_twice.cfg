SPECIFICATION Spec
CONSTANTS
  MaxCalls = 2
  MaxOrders = 2
  MaxEvents = 0
INVARIANT
  RetryFindsTheOrder
CHECK_DEADLOCK FALSE
