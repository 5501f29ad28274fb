\* Liveness of a scheduled auction on one instance, with the seller calling
\* and events that get lost, or sent while their reply gets lost, and an item
\* that was never written or is read from an old copy.
SPECIFICATION FairSpec
CONSTANTS
  Bidders = {1, 2}
  Quantity = 2
  StartBid = 0
  MinIncrement = 0
  MaxPrice = 0
  Instances = {i1}
  SellerCalls = {s1, s2}
  Amounts = {1, 2}
  Scheduled = TRUE
  Faults = {"publish", "publish_reply", "create", "lag"}
  MaxFaults = 2
  MaxBids = 2
PROPERTIES EveryAuctionEnds EndsReleased
CHECK_DEADLOCK FALSE
