--------------------------- MODULE MCShopReviews ---------------------------
(* Calls of one kind are alike: nothing tells them apart but their state. *)
EXTENDS ShopReviews, TLC

MCCalls == Permutations(Registrations) \cup Permutations(ReviewCalls)
=============================================================================
