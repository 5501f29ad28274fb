\* One winner, a raise of at least 2 and a ceiling of 6:
\* bidders 1 and 2 bid, the seller is 3.
SPECIFICATION Spec
CONSTANTS
  Bidders = {1, 2, 3}
  Seller = 3
  Requests = {r1, r2, r3}
  Amounts = {2, 3, 5, 7}
  Quantity = 1
  StartBid = 0
  MinIncrement = 2
  MaxPrice = 6
  Faults = {"script", "publish", "dynamo"}
  MaxConcurrent = 3
SYMMETRY CallSymmetry
INVARIANTS PlacementInv
PROPERTIES PriceNeverFalls
CHECK_DEADLOCK FALSE
