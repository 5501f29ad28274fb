\* Four calls of three bidders for two slots, above a start bid of 1.
SPECIFICATION Spec
CONSTANTS
  Bidders = {1, 2, 3}
  Seller = 0
  Requests = {r1, r2, r3, r4}
  Amounts = {2, 3, 4}
  Quantity = 2
  StartBid = 1
  MinIncrement = 0
  MaxPrice = 0
  Faults = {}
  MaxConcurrent = 2
SYMMETRY CallSymmetry
INVARIANTS SlotsHoldTheBest FloorIsPriceToBeat EveryEvictionIsTold
PROPERTIES RefinesLedger
CHECK_DEADLOCK FALSE
