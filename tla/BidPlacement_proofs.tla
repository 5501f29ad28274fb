------------------------- MODULE BidPlacement_proofs -------------------------
(***************************************************************************)
(* For every set of bidders, calls and amounts, every number of winners    *)
(* and every set of faults: the slots hold the best bidders and the price  *)
(* shown is the price to beat.                                             *)
(***************************************************************************)
EXTENDS BidPlacement, AuctionScripts_proofs

(* The script of an accepted call finds what its lemmas rely on.           *)
LEMMA AcceptBidIsAccepted ==
  ASSUME PlacementInv, NEW r \in Requests, AcceptBid(r)
  PROVE  LET b == request[r].bidder
             amount == request[r].amount
         IN /\ b \in Bidders /\ amount \in Amounts
            /\ Accepted(auction, bids, best, b, amount)
            /\ bids' = BidsAfter(bids, b, amount)
            /\ auction' = HashAfter(auction, bids, b, amount)
            /\ best' = [best EXCEPT ![b] = amount]
<1> DEFINE b == request[r].bidder
           amount == request[r].amount
<1>1. r \in InFlight
  BY DEF AcceptBid, InFlight
<1>2. b \in Bidders /\ amount \in Amounts /\ amount \in Nat \ {0}
  BY <1>1, AmountsAssumption DEF PlacementInv, CallsHaveBids
<1>3. /\ Verdict(auction, bids, b, amount) = "accepted"
      /\ bids' = BidsAfter(bids, b, amount)
      /\ auction' = HashAfter(auction, bids, b, amount)
      /\ best' = [best EXCEPT ![b] = amount]
  BY DEF AcceptBid
<1>4. BiddingSound(auction, bids, best)
  BY DEF PlacementInv, SlotsAreSound, SlotsHoldTheBest, FloorIsPriceToBeat, BiddingSound
<1>5. auction \in AuctionHash /\ bids \in BidSet /\ best \in BidSet
  BY DEF PlacementInv, TypeOK
<1>6. Accepted(auction, bids, best, b, amount)
  <2> HIDE DEF b, amount
  <2> QED BY <1>2, <1>3, <1>4, <1>5 DEF Accepted
<1> QED BY <1>2, <1>3, <1>6

(* An accepted bid keeps the slots, the floor and the close in agreement.  *)
LEMMA AcceptKeepsInv ==
  ASSUME PlacementInv, NEW r \in Requests, AcceptBid(r)
  PROVE  PlacementInv'
<1> DEFINE b == request[r].bidder
           amount == request[r].amount
<1>1. /\ b \in Bidders /\ amount \in Amounts
      /\ Accepted(auction, bids, best, b, amount)
      /\ bids' = BidsAfter(bids, b, amount)
      /\ auction' = HashAfter(auction, bids, b, amount)
      /\ best' = [best EXCEPT ![b] = amount]
  BY AcceptBidIsAccepted
<1>2. amount \in Nat \ {0} /\ auction.status = "OPEN"
  <2> HIDE DEF b, amount
  <2> QED BY <1>1, AcceptedBid, Zenon
<1>3. /\ auction' \in AuctionHash /\ bids' \in BidSet /\ best' \in BidSet
      /\ auction'.status = auction.status
      /\ BiddingSound(auction', bids', best')
  <2> HIDE DEF b, amount
  <2> DEFINE after == BidsAfter(bids, b, amount)
             new == HashAfter(auction, bids, b, amount)
             raised == [best EXCEPT ![b] = amount]
  <2>1. /\ new \in AuctionHash /\ after \in BidSet /\ raised \in BidSet
        /\ new.status = auction.status
        /\ BiddingSound(new, after, raised)
    BY <1>1, AcceptedKeepsBidding, Zenon
  <2> HIDE DEF after, new, raised
  <2>2. auction' = new /\ bids' = after /\ best' = raised
    BY <1>1 DEF after, new, raised
  <2> QED BY <2>1, <2>2
<1>4. TypeOK
  BY DEF PlacementInv
<1>5. UNCHANGED <<stream, dynamo, closing, outcome>>
  BY DEF AcceptBid
<1>7. /\ request' \in [Requests -> Call]
      /\ \A s \in Requests \ {r} : request'[s] = request[s]
      /\ \/ request'[r].stage = "done"
         \/ request'[r].bidder = b /\ request'[r].amount = amount
  <2>1. EvictedBy(bids, b, amount) \in Bidders \cup {NoBidder}
    <3>1. bids \in BidSet
      BY <1>4 DEF TypeOK
    <3>2. WithBid(bids, b, amount) \in BidSet /\ Entrants(WithBid(bids, b, amount)) # {}
      BY <3>1, <1>1, <1>2, WithBidProperties
    <3> QED BY <3>2, LowestProperties DEF EvictedBy
  <2>2. /\ request \in [Requests -> Call] /\ auction.version + 1 \in Nat
    BY <1>4 DEF TypeOK, AuctionHash
  <2>3. CASE request' = [request EXCEPT ![r] = Returned("none")]
    BY <2>2, <2>3 DEF Returned, NewCall, Call, Stages, Refusals
  <2> DEFINE call == Placed(request[r], auction.version + 1, EvictedBy(bids, b, amount))
  <2>4. CASE request' = [request EXCEPT ![r] = call]
    <3>1. request[r] \in Call
      BY <2>2
    <3>2. call \in Call /\ call.bidder = b /\ call.amount = amount
      BY <2>1, <2>2, <3>1 DEF Placed, Call, Stages
    <3> HIDE DEF call, b, amount
    <3> QED BY <2>2, <2>4, <3>2
  <2>5. \/ request' = [request EXCEPT ![r] = Returned("none")]
        \/ request' = [request EXCEPT ![r] = call]
    BY DEF AcceptBid
  <2> QED BY <2>3, <2>4, <2>5
<1>8. TypeOK'
  BY <1>2, <1>3, <1>4, <1>5, <1>7 DEF TypeOK
<1>9. CallsHaveBids'
  BY <1>1, <1>7 DEF PlacementInv, CallsHaveBids, InFlight
<1>10. SlotsAreSound' /\ SlotsHoldTheBest' /\ FloorIsPriceToBeat'
  BY <1>3 DEF BiddingSound, SlotsAreSound, SlotsHoldTheBest, FloorIsPriceToBeat
<1>11. ClosingAgrees'
  BY <1>3, <1>5 DEF PlacementInv, ClosingAgrees
<1> QED BY <1>8, <1>9, <1>10, <1>11 DEF PlacementInv

-----------------------------------------------------------------------------
(* The steps that leave the sorted set alone. *)

(* A new auction has all of it.                                            *)
LEMMA InitEstablishesInv == Init => PlacementInv
<1> SUFFICES ASSUME Init PROVE PlacementInv
  OBVIOUS
<1>1. StartBid \in Nat /\ Quantity \in Nat \ {0}
  BY RulesAssumption
<1>2. NewCall \in Call
  BY DEF NewCall, Call, Stages, Refusals
<1>3. NoBids \in BidSet /\ Entrants(NoBids) = {}
  BY DEF NoBids, BidSet, Entrants
<1>4. TypeOK
  BY <1>1, <1>2, <1>3 DEF Init, TypeOK, AuctionHash, Statuses
<1>5. CallsHaveBids
  BY DEF Init, CallsHaveBids, InFlight, NewCall
<1>6. BiddingSound(auction, bids, best)
  BY <1>4, NoBiddingYet DEF Init, TypeOK
<1>7. ClosingAgrees
  BY DEF Init, ClosingAgrees
<1> QED BY <1>4, <1>5, <1>6, <1>7
     DEF PlacementInv, BiddingSound, SlotsAreSound, SlotsHoldTheBest, FloorIsPriceToBeat

(* A step that changes nothing but one call and, perhaps, the stream and   *)
(* the winners map.                                                        *)
LEMMA CallStepKeepsInv ==
  ASSUME PlacementInv, NEW r \in Requests, NEW call \in Call,
         request' = [request EXCEPT ![r] = call],
         call.stage \in {"new", "done"} \/ (call.bidder \in Bidders /\ call.amount \in Amounts),
         UNCHANGED <<auction, bids, closing, outcome, best>>,
         stream' \in Seq(BidPlacedEvent), dynamo' \in BidSet
  PROVE  PlacementInv'
<1>1. TypeOK'
  BY DEF PlacementInv, TypeOK
<1>2. CallsHaveBids'
  BY DEF PlacementInv, CallsHaveBids, InFlight, TypeOK
<1>3. /\ SlotsAreSound' /\ SlotsHoldTheBest' /\ FloorIsPriceToBeat' /\ ClosingAgrees'
  BY DEF PlacementInv, SlotsAreSound, SlotsHoldTheBest, FloorIsPriceToBeat, ClosingAgrees
<1> QED BY <1>1, <1>2, <1>3 DEF PlacementInv

(* A call that has returned is a call.                                     *)
LEMMA ReturnedIsCall ==
  \A why \in Refusals : Returned(why) \in Call /\ Returned(why).stage = "done"
BY DEF Returned, NewCall, Call, Stages, Refusals

(* Every reply but "accepted" is a refusal that a call can return.         *)
LEMMA VerdictIsRefusal ==
  ASSUME NEW a, NEW z, NEW b, NEW amount, Verdict(a, z, b, amount) # "accepted"
  PROVE  Verdict(a, z, b, amount) \in Refusals
BY DEF Verdict, Refusals

(* The steps of PlaceBid around the script keep the invariant.             *)
LEMMA CallStepsKeepInv ==
  ASSUME PlacementInv, NEW r \in Requests,
         \/ \E b \in Bidders, amount \in Amounts : ReadAuction(r, b, amount)
         \/ RejectBid(r) \/ PublishBidPlaced(r) \/ UpdateDynamoWinner(r)
  PROVE  PlacementInv'
<1>1. /\ request \in [Requests -> Call] /\ request[r] \in Call
      /\ stream \in Seq(BidPlacedEvent) /\ dynamo \in BidSet
      /\ auction.bidder \in Bidders \cup {NoBidder}
  BY DEF PlacementInv, TypeOK, AuctionHash
<1>2. request[r].stage \notin {"new", "done"} =>
        request[r].bidder \in Bidders /\ request[r].amount \in Amounts
  BY DEF PlacementInv, CallsHaveBids, InFlight
<1>3. ASSUME NEW b \in Bidders, NEW amount \in Amounts, ReadAuction(r, b, amount)
      PROVE  PlacementInv'
  <2> DEFINE call == IF b = Seller
                       THEN Returned("self_bid")
                       ELSE [request[r] EXCEPT !.stage = "read", !.bidder = b,
                               !.amount = amount, !.outbid = auction.bidder]
  <2>1. /\ call \in Call
        /\ call.stage = "done" \/ (call.bidder \in Bidders /\ call.amount \in Amounts)
    BY <1>1, ReturnedIsCall DEF Call, Stages, Refusals
  <2>2. /\ request' = [request EXCEPT ![r] = call]
        /\ UNCHANGED <<auction, bids, stream, dynamo, closing, outcome, best>>
    BY <1>3 DEF ReadAuction
  <2> HIDE DEF call
  <2> QED BY <2>1, <2>2, <1>1, CallStepKeepsInv
<1>4. CASE RejectBid(r)
  <2> DEFINE why == Verdict(auction, bids, request[r].bidder, request[r].amount)
  <2>1. why \in Refusals
    BY <1>4, VerdictIsRefusal DEF RejectBid
  <2>2. /\ request' = [request EXCEPT ![r] = Returned(why)]
        /\ UNCHANGED <<auction, bids, stream, dynamo, closing, outcome, best>>
    BY <1>4 DEF RejectBid
  <2> HIDE DEF why
  <2> QED BY <2>1, <2>2, <1>1, ReturnedIsCall, CallStepKeepsInv
<1>5. CASE PublishBidPlaced(r)
  <2> DEFINE call == [request[r] EXCEPT !.stage = "persisting"]
  <2>1. /\ call \in Call
        /\ call.bidder \in Bidders /\ call.amount \in Amounts
    BY <1>1, <1>2, <1>5 DEF Call, Stages, PublishBidPlaced
  <2>2. /\ request' = [request EXCEPT ![r] = call]
        /\ UNCHANGED <<auction, bids, dynamo, closing, outcome, best>>
    BY <1>5 DEF PublishBidPlaced
  <2>3. Event(request[r]) \in BidPlacedEvent
    BY <1>1, <1>2, <1>5 DEF Event, BidPlacedEvent, Call, PublishBidPlaced
  <2>4. stream' \in Seq(BidPlacedEvent)
    BY <2>3, <1>1, <1>5 DEF PublishBidPlaced
  <2> HIDE DEF call
  <2> QED BY <2>1, <2>2, <2>4, <1>1, CallStepKeepsInv
<1>6. CASE UpdateDynamoWinner(r)
  <2>1. request[r].bidder \in Bidders /\ request[r].amount \in Nat
    BY <1>2, <1>6, AmountsAssumption DEF UpdateDynamoWinner
  <2>2. dynamo' \in BidSet
    BY <2>1, <1>1, <1>6 DEF UpdateDynamoWinner, BidSet, NoBids
  <2>3. /\ request' = [request EXCEPT ![r] = Returned("none")]
        /\ UNCHANGED <<auction, bids, stream, closing, outcome, best>>
    BY <1>6 DEF UpdateDynamoWinner
  <2>4. Returned("none") \in Call /\ Returned("none").stage = "done"
    BY ReturnedIsCall DEF Refusals
  <2> QED BY <2>2, <2>3, <2>4, <1>1, CallStepKeepsInv
<1> QED BY <1>3, <1>4, <1>5, <1>6

(* The close, the announcement and the rollback touch the status and the   *)
(* outcome only.                                                           *)
LEMMA CloseStepsKeepInv ==
  ASSUME PlacementInv, CloseAndReadWinners \/ AnnounceClosed \/ RollbackClose
  PROVE  PlacementInv'
<1>1. /\ auction \in AuctionHash /\ auction.status \in {"OPEN", "CLOSED"}
      /\ bids \in BidSet /\ outcome \in BidSet
  BY DEF PlacementInv, TypeOK
<1>2. WinnersRead(auction, bids) \in BidSet
  BY <1>1 DEF WinnersRead, BidSet, AuctionHash
<1>3. /\ auction' \in AuctionHash /\ auction'.status \in {"OPEN", "CLOSED"}
      /\ auction'.current = auction.current /\ auction'.bidder = auction.bidder
      /\ auction'.status = "OPEN" <=> closing' = "open"
      /\ outcome' \in BidSet
      /\ closing' \in {"open", "closed", "announced"}
      /\ closing' = "open" => outcome' = NoBids
      /\ UNCHANGED <<bids, request, stream, dynamo, best>>
  <2>1. CASE CloseAndReadWinners
    BY <2>1, <1>1, <1>2 DEF CloseAndReadWinners, ClosedHash, AuctionHash, Statuses
  <2>2. CASE AnnounceClosed
    BY <2>2, <1>1 DEF AnnounceClosed, PlacementInv, ClosingAgrees
  <2>3. CASE RollbackClose
    <3>1. auction.status = "CLOSED"
      BY <2>3, <1>1 DEF RollbackClose, PlacementInv, ClosingAgrees
    <3>2. NoBids \in BidSet
      BY DEF NoBids, BidSet
    <3> QED BY <2>3, <3>1, <3>2, <1>1 DEF RollbackClose, ReopenedHash, AuctionHash, Statuses
  <2> QED BY <2>1, <2>2, <2>3
<1>4. TypeOK'
  BY <1>3 DEF PlacementInv, TypeOK
<1>5. CallsHaveBids' /\ SlotsAreSound' /\ SlotsHoldTheBest' /\ FloorIsPriceToBeat'
  BY <1>3 DEF PlacementInv, CallsHaveBids, InFlight, SlotsAreSound, SlotsSound,
              SlotsHoldTheBest, FloorIsPriceToBeat, FloorShown
<1>6. ClosingAgrees'
  BY <1>3 DEF ClosingAgrees
<1> QED BY <1>4, <1>5, <1>6 DEF PlacementInv

(* Every step keeps the invariant.                                         *)
LEMMA StepKeepsInv == PlacementInv /\ [Next]_vars => PlacementInv'
<1> SUFFICES ASSUME PlacementInv, [Next]_vars PROVE PlacementInv'
  OBVIOUS
<1>1. ASSUME NEW r \in Requests, AcceptBid(r) PROVE PlacementInv'
  BY <1>1, AcceptKeepsInv
<1>2. ASSUME NEW r \in Requests,
             \/ \E b \in Bidders, amount \in Amounts : ReadAuction(r, b, amount)
             \/ RejectBid(r) \/ PublishBidPlaced(r) \/ UpdateDynamoWinner(r)
      PROVE  PlacementInv'
  BY <1>2, CallStepsKeepInv
<1>3. CASE CloseAndReadWinners \/ AnnounceClosed \/ RollbackClose
  BY <1>3, CloseStepsKeepInv
<1>4. CASE UNCHANGED vars
  BY <1>4 DEF vars, PlacementInv, TypeOK, CallsHaveBids, InFlight, SlotsAreSound,
              SlotsHoldTheBest, FloorIsPriceToBeat, ClosingAgrees
<1> QED BY <1>1, <1>2, <1>3, <1>4 DEF Next

-----------------------------------------------------------------------------
(* Whatever the calls, faults, closes and rollbacks, every reachable state *)
(* of an auction satisfies the inductive invariant.                        *)
THEOREM PlacementIsSound == Spec => []PlacementInv
BY InitEstablishesInv, StepKeepsInv, PTL DEF Spec

(* Type correctness of the hash, the sorted set, the calls and the stream. *)
THEOREM TypeCorrect == Spec => []TypeOK
<1>1. PlacementInv => TypeOK
  BY DEF PlacementInv
<1> QED BY <1>1, PlacementIsSound, PTL

(* The placement script keeps the best bidders in the slots.               *)
THEOREM SlotsHoldBest == Spec => []SlotsHoldTheBest
<1>1. PlacementInv => SlotsHoldTheBest
  BY DEF PlacementInv
<1> QED BY <1>1, PlacementIsSound, PTL

(* current_highest is the price that the next bid must beat.               *)
THEOREM FloorIsRight == Spec => []FloorIsPriceToBeat
<1>1. PlacementInv => FloorIsPriceToBeat
  BY DEF PlacementInv
<1> QED BY <1>1, PlacementIsSound, PTL

(* No step lowers the displayed price, and an accepted bid raises it when  *)
(* there is one winner.                                                    *)
THEOREM PriceIsMonotone == Spec => PriceNeverFalls
<1> DEFINE Rise == /\ auction'.current >= auction.current
                   /\ Quantity = 1 /\ auction'.version # auction.version
                        => auction'.current > auction.current
<1>1. ASSUME PlacementInv, [Next]_vars PROVE [Rise]_auction
  <2>1. auction \in AuctionHash /\ auction.current \in Nat
    BY <1>1 DEF PlacementInv, TypeOK, AuctionHash
  <2>2. ASSUME NEW r \in Requests, AcceptBid(r) PROVE Rise
    BY <2>2, <1>1, AcceptBidIsAccepted, AcceptedFloor
  <2>3. CASE CloseAndReadWinners \/ RollbackClose
    BY <2>1, <2>3 DEF CloseAndReadWinners, RollbackClose, ClosedHash, ReopenedHash, AuctionHash
  <2>4. CASE UNCHANGED auction
    BY <2>4
  <2> QED BY <1>1, <2>2, <2>3, <2>4
          DEF Next, vars, ReadAuction, RejectBid, PublishBidPlaced,
              UpdateDynamoWinner, AnnounceClosed
<1> QED BY <1>1, PlacementIsSound, PTL DEF Spec, PriceNeverFalls

-----------------------------------------------------------------------------
(* The scripts implement the ledger. *)

(* The instance of the ledger counts with its own copy of Cardinality.     *)
LEMMA LedgerCardinality == \A S : Ledger!Cardinality(S) = Cardinality(S)
BY Zenon DEF Ledger!Cardinality, Cardinality

(* An accepted bid is one the ledger accepts.                              *)
LEMMA AcceptImplementsLedger ==
  ASSUME PlacementInv, NEW r \in Requests, AcceptBid(r)
  PROVE  Ledger!Accept(request[r].bidder, request[r].amount)
<1> DEFINE b == request[r].bidder
           amount == request[r].amount
<1>1. /\ Accepted(auction, bids, best, b, amount)
      /\ best' = [best EXCEPT ![b] = amount]
      /\ UNCHANGED <<closing, outcome>>
  BY AcceptBidIsAccepted DEF AcceptBid
<1> HIDE DEF b, amount
<1>2. /\ auction.status = "OPEN"
      /\ amount > StartBid /\ amount > best[b]
      /\ MaxPrice > 0 => amount <= MaxPrice
  BY <1>1, AcceptedBid, AcceptedBidCompetes, Zenon
<1>3. closing = "open"
  BY <1>2 DEF PlacementInv, ClosingAgrees
<1>4. Ledger!Cardinality({c \in Bidders \ {b} : best[c] >= amount}) < Quantity
  <2>1. Cardinality({c \in Bidders \ {b} : best[c] >= amount}) < Quantity
    BY <1>1, FewStandAbove
  <2> QED BY <2>1, LedgerCardinality
<1>5. Quantity = 1 => \A c \in Ledger!Bid : amount >= best[c] + MinIncrement
  BY <1>1, RaiseIsEnough, Zenon DEF Ledger!Bid
<1>6. Ledger!Accept(b, amount)
  BY <1>1, <1>2, <1>3, <1>4, <1>5, Zenon DEF Ledger!Accept
<1> QED BY <1>6 DEF b, amount

(* The winners that the close script reads are a choice that the ledger    *)
(* allows, at the bids the ledger holds.                                   *)
LEMMA CloseImplementsLedger ==
  ASSUME PlacementInv, CloseAndReadWinners
  PROVE  Ledger!Close
<1>1. /\ auction \in AuctionHash /\ bids \in BidSet /\ best \in BidSet
      /\ BiddingSound(auction, bids, best)
  BY DEF PlacementInv, TypeOK, SlotsAreSound, SlotsHoldTheBest, FloorIsPriceToBeat,
         BiddingSound
<1>2. Ledger!Bid = Entrants(best)
  BY DEF Ledger!Bid, Entrants
<1>3. PICK W \in SUBSET Bidders :
        /\ WinnersRead(auction, bids) = [b \in Bidders |-> IF b \in W THEN best[b] ELSE 0]
        /\ W \subseteq Entrants(best)
        /\ Cardinality(W) <= Quantity
        /\ Cardinality(W) < Quantity => W = Entrants(best)
        /\ \A w \in W, c \in Entrants(best) \ W : best[c] <= best[w]
  BY <1>1, WinnersAreBest
<1>4. Ledger!TopChoice(W)
  BY <1>2, <1>3, LedgerCardinality DEF Ledger!TopChoice
<1>5. outcome' = Ledger!Awards(W)
  BY <1>3 DEF CloseAndReadWinners, Ledger!Awards
<1>6. closing = "open" /\ closing' = "closed" /\ UNCHANGED best
  BY DEF CloseAndReadWinners, PlacementInv, ClosingAgrees
<1> QED BY <1>4, <1>5, <1>6 DEF Ledger!Close

(* Every step is one of the ledger, or none.                               *)
LEMMA StepImplementsLedger ==
  ASSUME PlacementInv, [Next]_vars
  PROVE  [Ledger!Next]_(Ledger!vars)
<1>1. ASSUME NEW r \in Requests, AcceptBid(r)
      PROVE  Ledger!Next
  <2>1. request[r].bidder \in Bidders /\ request[r].amount \in Amounts
    BY <1>1, AcceptBidIsAccepted
  <2> QED BY <2>1, <1>1, AcceptImplementsLedger DEF Ledger!Next
<1>2. CASE CloseAndReadWinners
  BY <1>2, CloseImplementsLedger DEF Ledger!Next
<1>3. CASE AnnounceClosed
  BY <1>3 DEF AnnounceClosed, Ledger!Announce, Ledger!Next
<1>4. CASE RollbackClose
  BY <1>4 DEF RollbackClose, NoBids, Ledger!Reopen, Ledger!Next
<1>5. CASE UNCHANGED <<best, closing, outcome>>
  BY <1>5 DEF Ledger!vars
<1> QED BY <1>1, <1>2, <1>3, <1>4, <1>5
        DEF Next, vars, ReadAuction, RejectBid, PublishBidPlaced, UpdateDynamoWinner

(* The placement and close scripts implement the ledger: every accepted    *)
(* bid would win at that moment, and the close awards the best bids.       *)
THEOREM PlacementRefinesLedger == Spec => RefinesLedger
<1>1. Init => Ledger!Init
  BY DEF Init, NoBids, Ledger!Init
<1>2. PlacementInv /\ [Next]_vars => [Ledger!Next]_(Ledger!vars)
  BY StepImplementsLedger
<1> QED BY <1>1, <1>2, PlacementIsSound, PTL DEF Spec, Ledger!Spec, RefinesLedger

-----------------------------------------------------------------------------
(* Who loses a slot is told. *)

(* The events of a call that goes on without being accepted are the same.  *)
LEMMA SameUnsent ==
  ASSUME PlacementInv, NEW r \in Requests, NEW call,
         request' = [request EXCEPT ![r] = call],
         request[r].stage # "accepted", call.stage # "accepted"
  PROVE  /\ Unsent' = Unsent
         /\ \A s \in Unsent : request'[s] = request[s]
<1>1. request \in [Requests -> Call]
  BY DEF PlacementInv, TypeOK
<1> QED BY <1>1 DEF Unsent

(* Nothing happens to who is told, as long as events, bids and their       *)
(* number stay.                                                            *)
LEMMA QuietKeepsTelling ==
  ASSUME TellingInv, UNCHANGED <<stream, bids, best>>, auction'.version = auction.version,
         Unsent' = Unsent, \A s \in Unsent : request'[s] = request[s]
  PROVE  TellingInv'
<1>1. Events' = Events
  BY DEF Events, Event
<1>2. NumbersDiffer'
  BY <1>1 DEF TellingInv, NumbersDiffer
<1>3. \A b \in Bidders : best'[b] > 0 /\ bids'[b] = 0 =>
        \E n \in 1..auction'.version : ThrownOut(b, n)'
  BY <1>1 DEF TellingInv, ThrownOut
<1> QED BY <1>2, <1>3 DEF TellingInv

(* Publishing turns the event that was to be sent into one that was, or    *)
(* drops it.                                                               *)
LEMMA PublishKeepsTelling ==
  ASSUME PlacementInv, TellingInv, NEW r \in Requests, PublishBidPlaced(r)
  PROVE  TellingInv'
<1> DEFINE event == Event(request[r])
<1>1. /\ request \in [Requests -> Call] /\ stream \in Seq(BidPlacedEvent)
  BY DEF PlacementInv, TypeOK
<1>2. /\ Unsent' = Unsent \ {r} /\ r \in Unsent
      /\ \A s \in Unsent' : request'[s] = request[s]
      /\ stream' = Append(stream, event) \/ stream' = stream
      /\ UNCHANGED <<auction, bids, best>>
  BY <1>1 DEF PublishBidPlaced, Unsent
<1>3. event \in Events /\ event.order = request[r].order
  BY <1>2 DEF Events, Event
<1> HIDE DEF event
<1>4. \/ stream' = stream
      \/ /\ DOMAIN stream' = 1..Len(stream) + 1 /\ DOMAIN stream = 1..Len(stream)
         /\ Len(stream) \in Nat
         /\ stream'[Len(stream) + 1] = event
         /\ \A i \in DOMAIN stream : stream'[i] = stream[i]
  BY <1>1, <1>2
<1>5. \A i \in DOMAIN stream' :
        \/ i \in DOMAIN stream /\ stream'[i] = stream[i]
        \/ i = Len(stream) + 1 /\ stream'[i] = event
  BY <1>4
<1>6. Events' \subseteq Events
  <2>1. \A s \in Unsent' : Event(request[s])' = Event(request[s])
    BY <1>2 DEF Event
  <2>2. Events' = {stream'[i] : i \in DOMAIN stream'} \cup {Event(request[s])' : s \in Unsent'}
    BY DEF Events, Event
  <2> QED BY <2>1, <2>2, <1>2, <1>3, <1>5 DEF Events
<1>7. NumbersDiffer'
  <2>1. \A e \in Events' : e.order \in 1..auction'.version
    BY <1>2, <1>6 DEF TellingInv, NumbersDiffer
  <2>2. \A i \in DOMAIN stream : stream[i].order # event.order
    BY <1>2, <1>3 DEF TellingInv, NumbersDiffer
  <2>3. ASSUME NEW i \in DOMAIN stream', NEW j \in DOMAIN stream',
               stream'[i].order = stream'[j].order
        PROVE  i = j
    BY <2>2, <2>3, <1>5 DEF TellingInv, NumbersDiffer
  <2>4. ASSUME NEW s \in Unsent', NEW i \in DOMAIN stream'
        PROVE  request'[s].order # stream'[i].order
    <3>1. request'[s] = request[s] /\ s \in Unsent /\ s # r
      BY <1>2
    <3>2. request[s].order # event.order
      BY <3>1, <1>2, <1>3 DEF TellingInv, NumbersDiffer
    <3> QED BY <3>1, <3>2, <1>5 DEF TellingInv, NumbersDiffer
  <2>5. \A s, t \in Unsent' : request'[s].order = request'[t].order => s = t
    BY <1>2 DEF TellingInv, NumbersDiffer
  <2> QED BY <2>1, <2>3, <2>4, <2>5 DEF NumbersDiffer
<1>8. \A b \in Bidders : best'[b] > 0 /\ bids'[b] = 0 =>
        \E n \in 1..auction'.version : ThrownOut(b, n)'
  BY <1>2, <1>6 DEF TellingInv, ThrownOut
<1> QED BY <1>7, <1>8 DEF TellingInv

(* A bid that is accepted gets the next number.  It can throw out one      *)
(* bidder, whom its event names, and nobody who was out comes back but the *)
(* one who bids.                                                           *)
LEMMA AcceptKeepsTelling ==
  ASSUME PlacementInv, TellingInv, NEW r \in Requests, AcceptBid(r)
  PROVE  TellingInv'
<1> DEFINE b == request[r].bidder
           amount == request[r].amount
           evicted == EvictedBy(bids, b, amount)
           number == auction.version + 1
           call == Placed(request[r], number, evicted)
<1>1. /\ b \in Bidders /\ amount \in Amounts /\ amount \in Nat \ {0}
      /\ Accepted(auction, bids, best, b, amount)
      /\ bids' = BidsAfter(bids, b, amount)
      /\ auction' = HashAfter(auction, bids, b, amount)
      /\ best' = [best EXCEPT ![b] = amount]
  BY AcceptBidIsAccepted, AmountsAssumption
<1>2. /\ auction \in AuctionHash /\ auction.version \in Nat
      /\ bids \in BidSet /\ best \in BidSet
      /\ request \in [Requests -> Call] /\ request[r] \in Call
  BY DEF PlacementInv, TypeOK, AuctionHash
<1>3. auction'.version = number /\ number \in Nat /\ number > auction.version
  BY <1>1, <1>2 DEF HashAfter, AuctionHash
<1>4. bids'[b] = amount
  <2> HIDE DEF b, amount
  <2> QED BY <1>1, AcceptedSlots
<1>5. \A d \in Bidders \ {b} : bids[d] > 0 /\ bids'[d] = 0 => d = evicted
  <2>1. WithBid(bids, b, amount) \in BidSet
        /\ \A d \in Bidders \ {b} : WithBid(bids, b, amount)[d] = bids[d]
    BY <1>1, <1>2 DEF WithBid, BidSet
  <2> HIDE DEF b, amount
  <2>2. \A d \in Bidders \ {b} :
          bids'[d] = bids[d] \/ (Overfull(WithBid(bids, b, amount)) /\ d = evicted)
    BY <2>1, <1>1 DEF BidsAfter, EvictedBy, BidSet
  <2> QED BY <2>2
<1>6. /\ call.stage = "accepted" /\ call.order = number /\ call.bidder = b
      /\ evicted \in Bidders => call.outbid = evicted
  BY <1>2, BiddersAssumption DEF Placed, Call
<1>7. /\ Unsent' = Unsent \/ (Unsent' = Unsent \cup {r} /\ request'[r] = call)
      /\ r \notin Unsent
      /\ \A s \in Unsent : request'[s] = request[s]
      /\ UNCHANGED stream
  <2>1. \/ request' = [request EXCEPT ![r] = call]
        \/ request' = [request EXCEPT ![r] = Returned("none")]
    BY DEF AcceptBid
  <2>2. /\ request[r].stage = "read" /\ UNCHANGED stream
        /\ Returned("none").stage = "done"
    BY DEF AcceptBid, Returned, NewCall
  <2> HIDE DEF call
  <2> QED BY <2>1, <2>2, <1>2, <1>6 DEF Unsent
<1>12. PICK m : m = number
  OBVIOUS
<1> HIDE DEF b, amount, evicted, number, call
<1>8. \A e \in Events' : \/ e \in Events
                         \/ r \in Unsent' /\ e.order = number /\ e.bidder = b
                            /\ (evicted \in Bidders => e.outbid = evicted)
  BY <1>6, <1>7 DEF Events, Event
<1>9. \A e \in Events : e.order \in 1..auction.version
  BY DEF TellingInv, NumbersDiffer
<1>10. NumbersDiffer'
  <2>1. \A e \in Events' : e.order \in 1..auction'.version
    BY <1>2, <1>3, <1>8, <1>9
  <2>2. ASSUME NEW s \in Unsent PROVE request[s].order # number
    <3>1. Event(request[s]) \in Events /\ Event(request[s]).order = request[s].order
      BY DEF Events, Event
    <3> QED BY <3>1, <1>2, <1>3, <1>9 DEF number
  <2>3. \A i \in DOMAIN stream : stream[i].order # number
    BY <1>2, <1>3, <1>9 DEF Events
  <2>4. \A s, t \in Unsent' : request'[s].order = request'[t].order => s = t
    BY <2>2, <1>6, <1>7 DEF TellingInv, NumbersDiffer
  <2>5. \A s \in Unsent', i \in DOMAIN stream' : request'[s].order # stream'[i].order
    BY <2>3, <1>6, <1>7 DEF TellingInv, NumbersDiffer
  <2>6. \A i, j \in DOMAIN stream' : stream'[i].order = stream'[j].order => i = j
    BY <1>7 DEF TellingInv, NumbersDiffer
  <2> QED BY <2>1, <2>4, <2>5, <2>6 DEF NumbersDiffer
<1>11. ASSUME NEW d \in Bidders, best'[d] > 0, bids'[d] = 0
       PROVE  \E n \in 1..auction'.version : ThrownOut(d, n)'
  <2>1. d # b /\ best'[d] = best[d] /\ bids[d] \in Nat
    BY <1>1, <1>2, <1>4, <1>11 DEF BidSet
  <2>2. CASE bids[d] > 0
    <3>1. d = evicted
      BY <2>1, <2>2, <1>5, <1>11
    <3>2. ThrownOut(d, m)'
      <4>1. ASSUME NEW e \in Events'
            PROVE  (e.order = m => e.outbid = d) /\ (e.bidder = d => e.order < m)
        BY <3>1, <2>1, <1>2, <1>3, <1>8, <1>9, <1>12
      <4> QED BY <4>1 DEF ThrownOut
    <3> QED BY <3>2, <1>2, <1>3, <1>12
  <2>3. CASE bids[d] = 0
    <3>1. PICK n \in 1..auction.version : ThrownOut(d, n)
      BY <2>1, <2>3, <1>11 DEF TellingInv
    <3>2. n \in 1..auction'.version /\ n # number
      BY <1>2, <1>3
    <3>3. ThrownOut(d, n)'
      BY <3>1, <3>2, <2>1, <1>8 DEF ThrownOut
    <3> QED BY <3>2, <3>3
  <2> QED BY <2>1, <2>2, <2>3
<1> QED BY <1>10, <1>11 DEF TellingInv

(* Every step keeps who is told.                                           *)
LEMMA StepKeepsTelling == PlacementInv /\ TellingInv /\ [Next]_vars => TellingInv'
<1> SUFFICES ASSUME PlacementInv, TellingInv, [Next]_vars PROVE TellingInv'
  OBVIOUS
<1>1. ASSUME NEW r \in Requests, NEW b \in Bidders, NEW amount \in Amounts,
             ReadAuction(r, b, amount)
      PROVE  TellingInv'
  <2> DEFINE call == IF b = Seller
                       THEN Returned("self_bid")
                       ELSE [request[r] EXCEPT !.stage = "read", !.bidder = b,
                               !.amount = amount, !.outbid = auction.bidder]
  <2>1. request \in [Requests -> Call]
    BY DEF PlacementInv, TypeOK
  <2>2. request' = [request EXCEPT ![r] = call]
        /\ request[r].stage # "accepted" /\ call.stage # "accepted"
        /\ UNCHANGED <<auction, stream, bids, best>>
    BY <1>1, <2>1 DEF ReadAuction, Returned, NewCall, Call
  <2> HIDE DEF call
  <2> QED BY <2>2, SameUnsent, QuietKeepsTelling
<1>2. ASSUME NEW r \in Requests, RejectBid(r) \/ UpdateDynamoWinner(r)
      PROVE  TellingInv'
  <2>1. PICK why \in Refusals : request' = [request EXCEPT ![r] = Returned(why)]
    BY <1>2, VerdictIsRefusal DEF RejectBid, UpdateDynamoWinner, Refusals
  <2>2. /\ request[r].stage # "accepted" /\ Returned(why).stage # "accepted"
        /\ UNCHANGED <<auction, stream, bids, best>>
    BY <1>2, ReturnedIsCall DEF RejectBid, UpdateDynamoWinner
  <2> QED BY <2>1, <2>2, SameUnsent, QuietKeepsTelling
<1>3. ASSUME NEW r \in Requests, AcceptBid(r) PROVE TellingInv'
  BY <1>3, AcceptKeepsTelling
<1>4. ASSUME NEW r \in Requests, PublishBidPlaced(r) PROVE TellingInv'
  BY <1>4, PublishKeepsTelling
<1>5. CASE CloseAndReadWinners \/ AnnounceClosed \/ RollbackClose \/ UNCHANGED vars
  <2>1. /\ auction'.version = auction.version
        /\ UNCHANGED <<request, stream, bids, best>>
    BY <1>5 DEF CloseAndReadWinners, AnnounceClosed, RollbackClose, vars, ClosedHash,
                ReopenedHash, PlacementInv, TypeOK, AuctionHash
  <2>2. Unsent' = Unsent
    BY <2>1 DEF Unsent
  <2> QED BY <2>1, <2>2, QuietKeepsTelling
<1> QED BY <1>1, <1>2, <1>3, <1>4, <1>5 DEF Next

(* Nobody is out of a new auction.                                         *)
LEMMA InitTells == Init => TellingInv
<1> SUFFICES ASSUME Init PROVE TellingInv
  OBVIOUS
<1>1. stream = << >> /\ Unsent = {} /\ best = [b \in Bidders |-> 0]
  BY DEF Init, Unsent, NewCall, NoBids
<1>2. Events = {}
  BY <1>1 DEF Events
<1> QED BY <1>1, <1>2 DEF TellingInv, NumbersDiffer

(* When as many events were sent as bids were accepted, each bid has one.  *)
LEMMA EveryNumberIsSent ==
  ASSUME PlacementInv, NumbersDiffer, Len(stream) = auction.version,
         NEW n \in 1..auction.version
  PROVE  \E i \in DOMAIN stream : stream[i].order = n
<1> DEFINE S == 1..auction.version
           f == [i \in S |-> stream[i].order]
<1>1. auction.version \in Nat /\ DOMAIN stream = S
  BY DEF PlacementInv, TypeOK, AuctionHash
<1>2. \A i \in S : stream[i] \in Events
  BY <1>1 DEF Events
<1>3. f \in Injection(S, S)
  BY <1>1, <1>2 DEF NumbersDiffer, Injection, IsInjective
<1>4. IsFiniteSet(S)
  BY <1>1, FS_Interval
<1> HIDE DEF f
<1>5. f \in Surjection(S, S)
  BY <1>3, <1>4, FS_Injection, FS_CardinalityType
<1>6. \E i \in S : f[i] = n
  BY <1>5 DEF Surjection
<1> QED BY <1>1, <1>6 DEF f

(* Whatever the bids, evictions, lost replies and closes: once all events  *)
(* are out, whoever lost his slot is named by one after his last bid.      *)
THEOREM EvictionsAreTold == Spec => []EveryEvictionIsTold
<1>1. ASSUME PlacementInv, TellingInv PROVE EveryEvictionIsTold
  <2> SUFFICES ASSUME AllPublished, NEW b \in Bidders, best[b] > 0, bids[b] = 0
               PROVE  ToldOutbid(b)
    BY DEF EveryEvictionIsTold
  <2>1. PICK n \in 1..auction.version : ThrownOut(b, n)
    BY <1>1 DEF TellingInv
  <2>2. PICK i \in DOMAIN stream : stream[i].order = n
    BY <1>1, EveryNumberIsSent DEF AllPublished, TellingInv
  <2>3. \A j \in DOMAIN stream : stream[j] \in Events
    BY DEF Events
  <2>4. \A j \in DOMAIN stream : stream[j].bidder = b => stream[j].order < stream[i].order
    BY <2>1, <2>2, <2>3 DEF ThrownOut
  <2>5. stream[i].outbid = b
    BY <2>1, <2>2, <2>3 DEF ThrownOut
  <2> QED BY <2>4, <2>5 DEF ToldOutbid
<1>2. Spec => []TellingInv
  BY PlacementIsSound, InitTells, StepKeepsTelling, PTL DEF Spec
<1> QED BY <1>1, <1>2, PlacementIsSound, PTL
=============================================================================
