CONSTANTS
  Bidders = {1, 2}
  Quantity = 1
  StartBid = 1
  MinIncrement = 0
  MaxPrice = 0
  Requests = {1, 2, 3}
  Offer <- MCOffer
  Instances = {i1, i2}
  Capacity = 1
  MaxRetries = 2
  MaxSwitches = 1
  MaxFaults = 1
SPECIFICATION FairSpec
INVARIANTS StrategyInv OneWriter WinnerStands
PROPERTIES EveryBidIsAnswered
CHECK_DEADLOCK FALSE
