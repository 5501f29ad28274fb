\* One event for two winners, with failed calls and restarts.
SPECIFICATION Spec
CONSTANTS
  Messages = {m1}
  Winners = {b1, b2}
  Consumers = {c1}
  Recovery = recovery
  AdminCalls = {}
  FirstPage = {}
  Delays = {}
  MaxFaults = 4
  MaxPayments = 3
  MaxWaiting = 2
INVARIANTS SettlementInv OnePaymentPerWinner RetriesAreCapped AckedIsBilled
PROPERTIES DecisionStands RefinesLedger
CHECK_DEADLOCK FALSE
