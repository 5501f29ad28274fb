\* A redelivered message, a lagging index, workers slower than every timeout
\* and an administrator, with a failed call or a restart.
SPECIFICATION FairSpec
CONSTANTS
  Messages = {m1}
  Winners = {b1}
  Consumers = {c1}
  Recovery = recovery
  AdminCalls = {a1}
  FirstPage = {1}
  Delays = {"worker", "index"}
  MaxFaults = 1
  MaxPayments = 1
  MaxWaiting = 1
PROPERTIES EveryWinnerSettles
CHECK_DEADLOCK FALSE
