---------------------------- MODULE PaymentLedger ---------------------------
(***************************************************************************)
(* What the payment service promises for a closed auction: every winner is *)
(* billed once, the bill is settled once, and only a settled bill is       *)
(* refunded.  Retries, crashes and the jobs that race for the same payment *)
(* do not show.                                                            *)
(***************************************************************************)
CONSTANT Winners

VARIABLE charge    \* the state of each winner's bill

Settled == {"completed", "failed"}

Init == charge = [b \in Winners |-> "none"]

Move(b, from, to) == charge[b] \in from /\ charge' = [charge EXCEPT ![b] = to]

Bill(b)   == Move(b, {"none"}, "due")
Settle(b) == \E outcome \in Settled : Move(b, {"due"}, outcome)
Refund(b) == Move(b, Settled, "refunded")

Next == \E b \in Winners : Bill(b) \/ Settle(b) \/ Refund(b)

Spec == Init /\ [][Next]_charge
=============================================================================
