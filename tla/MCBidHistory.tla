---------------------------- MODULE MCBidHistory ----------------------------
(* Three bids of two bidders, the first and the last by the same one. *)
EXTENDS BidHistory

MCOwner == <<1, 2, 1>>
=============================================================================
