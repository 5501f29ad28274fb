-------------------------- MODULE MCNotificationHub --------------------------
(* Two auctions; one client watches the first. *)
EXTENDS NotificationHub, TLC

MCWatches    == [c \in AuctionClients |-> 1]
Outbid(a) == [kind |-> "outbid", auction |-> a]
Won(a)    == [kind |-> "won", auction |-> a]

(* The user is outbid twice; or outbid once and then wins two auctions. *)
MCStories == {<<Outbid(1), Outbid(1)>>, <<Outbid(1), Won(1), Won(2)>>}

(* The slots of bid:placed are alike. *)
MCSlots == Permutations(BidWorkers)

(* A week passes besides something that goes wrong only in the first two   *)
(* events of a story.                                                      *)
MCBound == Len(events) <= 2 \/ weeks + faults <= 1
=============================================================================
