--------------------------- MODULE MCAuctionCache ---------------------------
(***************************************************************************)
(* Instances of AuctionCache for TLC.                                      *)
(***************************************************************************)
EXTENDS AuctionCache

Reading == {r \in Readers : reader[r].stage # "idle"}

(* With one of the lowest bids, several callers look at the auction at     *)
(* once and a rebuilt auction may get it again; with more, one caller at a *)
(* time does, and either DynamoDB lags or a call fails.                    *)
OneLowBid ==
  Cardinality(made) <= 1 /\ \A p \in made, amount \in Amounts : p[2] <= amount

MCBound ==
  \/ OneLowBid /\ replica = item
  \/ Cardinality(Reading) <= 1 /\ hash # "rebid" /\ (faults = 0 \/ replica = item)
=============================================================================
