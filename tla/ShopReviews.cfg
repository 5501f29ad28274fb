CONSTANTS
  Ids = {1, 2}
  Names = {"n1", "n2"}
  Registrations = {r1, r2}
  Devices = {d1}
  ReviewCalls = {c1, c2}
  UpdateCalls = {u1}
  MaxFaults = 1
SPECIFICATION Spec
SYMMETRY MCCalls
INVARIANTS MarketInv OneAccount OneReviewPerBuyer
CHECK_DEADLOCK FALSE
