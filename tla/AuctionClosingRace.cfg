\* Two instances and the seller race to close an auction for two winners
\* while instances crash and replies, events and every other call get lost.
SPECIFICATION Spec
CONSTANTS
  Bidders = {1, 2, 3}
  Quantity = 2
  StartBid = 0
  MinIncrement = 0
  MaxPrice = 0
  Instances = {i1, i2}
  SellerCalls = {s1}
  Amounts = {1, 2}
  Scheduled = FALSE
  Faults = {"publish", "close_reply", "rollback", "crash", "fallback", "persist", "cleanup", "create", "winners"}
  MaxFaults = 2
  MaxBids = 3
SYMMETRY InstanceSymmetry
INVARIANTS ClosingInv OneAnnouncement EventsNameTheBest NothingReleasedEarly
PROPERTIES RefinesLedger
CHECK_DEADLOCK FALSE
