SPECIFICATION PaymentsSpec
CONSTANTS
  Bodies = {small, large}
  Large = {large}
  MaxCalls = 2
  MaxOrders = 2
  MaxKeys = 3
  CardCalls = 1
  Cards = {first}
  Seconds = 1
  None = None
CHECK_DEADLOCK FALSE
INVARIANT EveryOrderPaidOnce
