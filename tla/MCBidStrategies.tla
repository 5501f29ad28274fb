--------------------------- MODULE MCBidStrategies ---------------------------
(* Three bids of two bidders, two of them of the same amount. *)
EXTENDS BidStrategies

MCOffer == <<[bidder |-> 1, amount |-> 2], [bidder |-> 2, amount |-> 3],
             [bidder |-> 1, amount |-> 3]>>
=============================================================================
