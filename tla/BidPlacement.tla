---------------------------- MODULE BidPlacement ----------------------------
(***************************************************************************)
(* Concurrent calls of Service.PlaceBid on one auction, under the default  *)
(* (pessimistic) strategy, against the close of that auction.  A call      *)
(* reads the auction, runs the placement script, publishes bid:placed and  *)
(* leaves a goroutine behind that copies the bid to the winners map of the *)
(* DynamoDB item; the four steps of different calls interleave freely.     *)
(* The close is the Redis part of Service.CloseAuction: the close script,  *)
(* then either the announcement or the rollback script.  The protocol that *)
(* runs these on several instances is module AuctionClosing.               *)
(***************************************************************************)
EXTENDS AuctionScripts, Sequences

CONSTANTS
  Requests,   \* the calls of PlaceBid
  Amounts,    \* the amounts that users bid
  Seller,     \* the auction's seller, NoBidder when it has none
  Faults,     \* the calls that may fail: of "script", "publish", "dynamo"
  MaxConcurrent   \* bound: calls that run at the same time

ASSUME AmountsAssumption == Amounts \subseteq Nat \ {0}
ASSUME BoundAssumption == MaxConcurrent \in Nat
ASSUME SellerAssumption == Seller \in Bidders \cup {NoBidder}

VARIABLES
  auction,    \* the Redis hash auction:{id}
  bids,       \* the Redis sorted set auction:{id}:bids
  request,    \* the local state of each call
  stream,     \* the Redis stream bid:placed
  dynamo,     \* the winners map of the DynamoDB item, 0 for no entry
  closing,    \* "open", "closed" (winners read) or "announced"
  outcome,    \* what the last close script returned, until it is rolled back
  best        \* history: the best bid accepted from each bidder

vars == <<auction, bids, request, stream, dynamo, closing, outcome, best>>

Stages == {"new", "read", "accepted", "persisting", "done"}
Refusals == {"none", "self_bid", "not_found", "not_open", "exceeds_max",
             "too_low", "small_increment"}

(* One call: outbid is first the leader seen by GetByID (previousBidder),  *)
(* then the user that the event names; order numbers the accepted bids;    *)
(* why is the refusal returned, the other locals are gone by then.         *)
Call == [stage : Stages, bidder : Bidders \cup {NoBidder}, amount : Amounts \cup {0},
         outbid : Bidders \cup {NoBidder}, order : Nat, why : Refusals]

NewCall == [stage |-> "new", bidder |-> NoBidder, amount |-> 0,
            outbid |-> NoBidder, order |-> 0, why |-> "none"]

Returned(why) == [NewCall EXCEPT !.stage = "done", !.why = why]

(* The fields of a bid:placed event; order stands for its place among the  *)
(* accepted bids and is not sent.                                          *)
BidPlacedEvent == [bidder : Bidders, amount : Amounts,
                   outbid : Bidders \cup {NoBidder}, order : Nat]

InFlight == {r \in Requests : request[r].stage \notin {"new", "done"}}

Init ==
  /\ auction = [status |-> "OPEN", current |-> StartBid, bidder |-> NoBidder,
                version |-> 0]
  /\ bids = NoBids
  /\ request = [r \in Requests |-> NewCall]
  /\ stream = << >>
  /\ dynamo = NoBids
  /\ closing = "open"
  /\ outcome = NoBids
  /\ best = NoBids

-----------------------------------------------------------------------------
(* PlaceBid *)

(* GetByID, and the refusal of a bid of the seller. *)
ReadAuction(r, b, amount) ==
  /\ request[r].stage = "new"
  /\ Cardinality(InFlight) < MaxConcurrent
  /\ request' = [request EXCEPT ![r] =
       IF b = Seller
         THEN Returned("self_bid")
         ELSE [@ EXCEPT !.stage = "read", !.bidder = b, !.amount = amount,
                        !.outbid = auction.bidder]]
  /\ UNCHANGED <<auction, bids, stream, dynamo, closing, outcome, best>>

RejectBid(r) ==
  LET verdict == Verdict(auction, bids, request[r].bidder, request[r].amount) IN
  /\ request[r].stage = "read"
  /\ verdict # "accepted"
  /\ request' = [request EXCEPT ![r] = Returned(verdict)]
  /\ UNCHANGED <<auction, bids, stream, dynamo, closing, outcome, best>>

(* Mutant: the event always names the leader that was seen first. *)
PlacedNamesLeader(call, order, evicted) ==
  [call EXCEPT !.stage = "accepted", !.order = order]

(* The evicted bidder, if any, replaces the leader seen at first as the    *)
(* one to be named outbid.                                                 *)
Placed(call, order, evicted) ==
  [call EXCEPT !.stage  = "accepted",
               !.order  = order,
               !.outbid = IF evicted # NoBidder THEN evicted ELSE @]

(* The script accepts the bid.  When its reply is lost the handler returns *)
(* an error although the bid counts, and nothing else happens to it.       *)
AcceptBid(r) ==
  LET b       == request[r].bidder
      amount  == request[r].amount
      evicted == EvictedBy(bids, b, amount)
  IN
  /\ request[r].stage = "read"
  /\ Verdict(auction, bids, b, amount) = "accepted"
  /\ auction' = HashAfter(auction, bids, b, amount)
  /\ bids' = BidsAfter(bids, b, amount)
  /\ best' = [best EXCEPT ![b] = amount]
  /\ \/ request' = [request EXCEPT ![r] = Placed(@, auction.version + 1, evicted)]
     \/ /\ "script" \in Faults
        /\ request' = [request EXCEPT ![r] = Returned("none")]
  /\ UNCHANGED <<stream, dynamo, closing, outcome>>

Event(call) == [bidder |-> call.bidder, amount |-> call.amount,
                outbid |-> call.outbid, order |-> call.order]

(* The error of PublishBidPlaced is ignored. *)
PublishBidPlaced(r) ==
  /\ request[r].stage = "accepted"
  /\ request' = [request EXCEPT ![r].stage = "persisting"]
  /\ \/ stream' = Append(stream, Event(request[r]))
     \/ "publish" \in Faults /\ UNCHANGED stream
  /\ UNCHANGED <<auction, bids, dynamo, closing, outcome, best>>

(* The goroutine sets its entry of the winners map; on any error it tries  *)
(* to replace the whole map by its entry, which may fail as well.          *)
UpdateDynamoWinner(r) ==
  LET b == request[r].bidder IN
  /\ request[r].stage = "persisting"
  /\ \/ dynamo' = [dynamo EXCEPT ![b] = request[r].amount]
     \/ "dynamo" \in Faults /\ dynamo' = [NoBids EXCEPT ![b] = request[r].amount]
     \/ "dynamo" \in Faults /\ UNCHANGED dynamo
  /\ request' = [request EXCEPT ![r] = Returned("none")]
  /\ UNCHANGED <<auction, bids, stream, closing, outcome, best>>

-----------------------------------------------------------------------------
(* CloseAuction *)

CloseAndReadWinners ==
  /\ auction.status = "OPEN"
  /\ auction' = ClosedHash(auction)
  /\ outcome' = WinnersRead(auction, bids)
  /\ closing' = "closed"
  /\ UNCHANGED <<bids, request, stream, dynamo, best>>

AnnounceClosed ==
  /\ closing = "closed"
  /\ closing' = "announced"
  /\ UNCHANGED <<auction, bids, request, stream, dynamo, outcome, best>>

RollbackClose ==
  /\ closing = "closed"
  /\ auction' = ReopenedHash(auction)
  /\ closing' = "open"
  /\ outcome' = NoBids
  /\ UNCHANGED <<bids, request, stream, dynamo, best>>

-----------------------------------------------------------------------------
Next ==
  \/ \E r \in Requests :
       \/ \E b \in Bidders, amount \in Amounts : ReadAuction(r, b, amount)
       \/ RejectBid(r) \/ AcceptBid(r) \/ PublishBidPlaced(r)
       \/ UpdateDynamoWinner(r)
  \/ CloseAndReadWinners \/ AnnounceClosed \/ RollbackClose

Spec == Init /\ [][Next]_vars

-----------------------------------------------------------------------------
(* Every variable has the values that its Redis key, item or call can hold. *)
TypeOK ==
  /\ auction \in AuctionHash /\ auction.status \in {"OPEN", "CLOSED"}
  /\ bids \in BidSet
  /\ request \in [Requests -> Call]
  /\ stream \in Seq(BidPlacedEvent)
  /\ dynamo \in BidSet
  /\ closing \in {"open", "closed", "announced"}
  /\ outcome \in BidSet
  /\ best \in BidSet

(* placeBidLua keeps the Quantity best bidders in the slots whatever the   *)
(* order of raises, evictions and re-entries: a slot carries its holder's  *)
(* best bid, a bidder who lost a slot never stood above one that is taken, *)
(* and nobody is out while a slot is free.                                 *)
SlotsHoldTheBest == HoldBest(bids, best)

(* The floor that placeBidLua writes to current_highest, and that the next *)
(* bidder is shown, is the amount to beat: the leading bid of a            *)
(* single-winner auction, the lowest winning bid once all slots are taken, *)
(* and the start bid until then.                                           *)
FloorIsPriceToBeat == FloorShown(auction, bids)

(* The inductive invariant behind these two.  It adds what the scripts     *)
(* rely on without checking it: the slots are never overfull, every bid in *)
(* them beat the start bid, the hash names a bidder once there is a bid,   *)
(* a running call has its bidder and amount, and the hash is open exactly  *)
(* when no winners have been read.                                         *)
CallsHaveBids ==
  \A r \in InFlight : request[r].bidder \in Bidders /\ request[r].amount \in Amounts

SlotsAreSound == SlotsSound(auction, bids)

ClosingAgrees ==
  /\ auction.status = "OPEN" <=> closing = "open"
  /\ closing = "open" => outcome = NoBids

PlacementInv ==
  /\ TypeOK
  /\ CallsHaveBids
  /\ SlotsAreSound
  /\ SlotsHoldTheBest
  /\ FloorIsPriceToBeat
  /\ ClosingAgrees

(* No interleaving of bids, closes and rollbacks lowers the displayed      *)
(* price, and an accepted bid on a single-winner auction raises it.        *)
PriceNeverFalls ==
  [][/\ auction'.current >= auction.current
     /\ Quantity = 1 /\ auction'.version # auction.version
          => auction'.current > auction.current]_auction

(* A multi-winner auction tells every bidder who loses a slot: once all    *)
(* accepted bids are published, a bidder who is out is named by the event  *)
(* of a bid accepted after that bidder's last one.                         *)
AllPublished == InFlight = {} /\ Len(stream) = auction.version

ToldOutbid(b) ==
  \E i \in DOMAIN stream :
    /\ stream[i].outbid = b
    /\ \A j \in DOMAIN stream :
         stream[j].bidder = b => stream[j].order < stream[i].order

EveryEvictionIsTold ==
  AllPublished => \A b \in Bidders :
    (best[b] > 0 /\ bids[b] = 0) => ToldOutbid(b)

(* The inductive invariant behind it.  Each accepted bid has a number of   *)
(* its own, which at most one event bears, and whoever is out was thrown   *)
(* out by one bid after the last of his own: if an event bears its number, *)
(* the event names him.                                                    *)
Unsent == {r \in Requests : request[r].stage = "accepted"}

Events == {stream[i] : i \in DOMAIN stream} \cup {Event(request[r]) : r \in Unsent}

NumbersDiffer ==
  /\ \A e \in Events : e.order \in 1..auction.version
  /\ \A i, j \in DOMAIN stream : stream[i].order = stream[j].order => i = j
  /\ \A r, s \in Unsent : request[r].order = request[s].order => r = s
  /\ \A r \in Unsent, i \in DOMAIN stream : request[r].order # stream[i].order

ThrownOut(b, n) ==
  \A e \in Events :
    /\ e.order = n => e.outbid = b
    /\ e.bidder = b => e.order < n

TellingInv ==
  /\ NumbersDiffer
  /\ \A b \in Bidders :
       best[b] > 0 /\ bids[b] = 0 => \E n \in 1..auction.version : ThrownOut(b, n)

(* The promise of the auction: the scripts implement the ledger of best    *)
(* bids and its award to the highest of them.                              *)
Ledger == INSTANCE AuctionLedger WITH phase <- closing, awarded <- outcome

RefinesLedger == Ledger!Spec
=============================================================================
