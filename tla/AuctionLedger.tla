---------------------------- MODULE AuctionLedger ---------------------------
(***************************************************************************)
(* What an auction promises, with no Redis, no slots and no scripts: a     *)
(* ledger of the best bid that each bidder made, and a close that awards   *)
(* the Quantity best of them.  A bid counts only when fewer than Quantity  *)
(* other bidders stand at its amount or above, that is when it would win   *)
(* if the auction closed right after it.                                   *)
(***************************************************************************)
EXTENDS Integers, FiniteSets

CONSTANTS Bidders, Amounts, Quantity, StartBid, MinIncrement, MaxPrice

VARIABLES
  best,       \* the best bid accepted from each bidder, 0 for none
  phase,      \* "open", "closed" or "announced"
  awarded     \* what the winners pay once the auction is closed, 0 for others

vars == <<best, phase, awarded>>

Bid == {b \in Bidders : best[b] > 0}

Awards(W) == [b \in Bidders |-> IF b \in W THEN best[b] ELSE 0]

(* W is a choice of winners: as many as there are to award, and nobody     *)
(* left out stands above one of them.                                      *)
TopChoice(W) ==
  /\ W \subseteq Bid
  /\ Cardinality(W) <= Quantity
  /\ Cardinality(W) < Quantity => W = Bid
  /\ \A w \in W, b \in Bid \ W : best[b] <= best[w]

Init ==
  /\ best = [b \in Bidders |-> 0]
  /\ phase = "open"
  /\ awarded = [b \in Bidders |-> 0]

Accept(b, amount) ==
  /\ phase = "open"
  /\ amount > StartBid /\ amount > best[b]
  /\ MaxPrice > 0 => amount <= MaxPrice
  /\ Cardinality({c \in Bidders \ {b} : best[c] >= amount}) < Quantity
  /\ Quantity = 1 => \A c \in Bid : amount >= best[c] + MinIncrement
  /\ best' = [best EXCEPT ![b] = amount]
  /\ UNCHANGED <<phase, awarded>>

Close ==
  /\ phase = "open" /\ phase' = "closed"
  /\ \E W \in SUBSET Bidders : TopChoice(W) /\ awarded' = Awards(W)
  /\ UNCHANGED best

Announce == phase = "closed" /\ phase' = "announced" /\ UNCHANGED <<best, awarded>>

Reopen ==
  /\ phase = "closed" /\ phase' = "open"
  /\ awarded' = [b \in Bidders |-> 0]
  /\ UNCHANGED best

Next ==
  \/ \E b \in Bidders, amount \in Amounts : Accept(b, amount)
  \/ Close \/ Announce \/ Reopen

Spec == Init /\ [][Next]_vars
=============================================================================
