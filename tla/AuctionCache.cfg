\* Redis restarts and the hash expires while callers rebuild it, two bidders
\* contest the lead, DynamoDB lags or calls fail, and a closer closes the
\* auction.
SPECIFICATION CacheFairSpec
CONSTANTS
  Bidders = {1, 2}
  Quantity = 1
  StartBid = 1
  MinIncrement = 0
  MaxPrice = 0
  Instances = {i1}
  SellerCalls = {}
  Amounts = {2, 3}
  Scheduled = FALSE
  Faults = {"publish", "persist", "rebuild", "winners", "create", "lag"}
  MaxFaults = 1
  MaxBids = 2
  Readers = {r1, r2}
  MaxLosses = 1
CONSTRAINT MCBound
INVARIANTS CacheInv ClosedForGood LeadSurvivesRestart
PROPERTIES SeenAuctionEnds
CHECK_DEADLOCK FALSE
