SPECIFICATION PagesSpec
CONSTANTS
  Bodies = {small, large}
  Large = {large}
  MaxCalls = 4
  MaxOrders = 3
  MaxKeys = 3
  CardCalls = 5
  Cards = {first, second}
  Seconds = 2
  None = None
CHECK_DEADLOCK FALSE
INVARIANTS
  TransferPaidOnce
  ResultIsTrue
  DetailsAreOfTheDialogue
  ListAgrees
PROPERTIES
  EveryWaitEnds
  DetailsAreHidden
