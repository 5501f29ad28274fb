CONSTANTS
  Bids = {1, 2, 3}
  Owner <- MCOwner
  Outcomes = {{1}, {1, 2}}
  BidWorkers = {b1, b2}
  CloseWorkers = {c1}
  MaxOvertaken = 0
  MaxFaults = 1
SPECIFICATION FairSpec
INVARIANTS HistoryInv OneBidStands LastBidStands StandingWinnerWins
PROPERTIES EveryBidIsRecorded
CHECK_DEADLOCK FALSE
