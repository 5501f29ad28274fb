\* Redis restarts after a bid whose copy in DynamoDB has been made, and a
\* lower bid is accepted on the auction that one caller has rebuilt.
SPECIFICATION CacheFairSpec
CONSTANTS
  Bidders = {1, 2}
  Quantity = 1
  StartBid = 0
  MinIncrement = 0
  MaxPrice = 0
  Instances = {i1}
  SellerCalls = {}
  Amounts = {1, 2}
  Scheduled = FALSE
  Faults = {}
  MaxFaults = 0
  MaxBids = 1
  Readers = {r1}
  MaxLosses = 1
PROPERTIES MapSurvivesRestart
CHECK_DEADLOCK FALSE
