--------------------------- MODULE AuctionScripts ---------------------------
(***************************************************************************)
(* The Lua scripts through which the auction service changes the bidding   *)
(* state of one auction in Redis.  Redis runs a script without             *)
(* interleaving, so each script is an operator from the values it reads to *)
(* the values it writes; the modules that EXTEND this one turn a call into *)
(* one step.                                                               *)
(*                                                                         *)
(* Two keys hold the state.  The hash auction:{id} is a record a with the  *)
(* fields that the scripts look at (bid_count moves with version and is    *)
(* left out).  The sorted set auction:{id}:bids is a function z from       *)
(* bidders to their score, where 0 stands for "no member": every stored    *)
(* score is at least 1, because a bid amount is.                           *)
(***************************************************************************)
EXTENDS Integers, FiniteSets

CONSTANTS
  Bidders,        \* user ids; their order is the lexicographic order of ids
  Quantity,       \* winners of the auction (a quantity below 1 is stored as 1)
  StartBid,       \* current_highest of a new auction
  MinIncrement,   \* smallest raise, 0 for any
  MaxPrice        \* ceiling of a bid, 0 for none

NoBidder == 0     \* the empty string, where the code expects a user id

ASSUME BiddersAssumption ==
  IsFiniteSet(Bidders) /\ Bidders \subseteq Nat \ {NoBidder}

ASSUME RulesAssumption ==
  /\ Quantity \in Nat \ {0}
  /\ StartBid \in Nat /\ MinIncrement \in Nat /\ MaxPrice \in Nat

(* MISSING: there is no hash.  BLANK: a hash or an item without a status.  *)
Statuses == {"MISSING", "BLANK", "PENDING", "OPEN", "CLOSED"}

AuctionHash ==
  [status : Statuses, current : Nat, bidder : Bidders \cup {NoBidder},
   version : Nat]

BidSet == [Bidders -> Nat]
NoBids == [b \in Bidders |-> 0]

-----------------------------------------------------------------------------
(* The sorted set.  Members are ranked by score and, for equal scores, by  *)
(* their names.                                                            *)

Entrants(z) == {b \in Bidders : z[b] > 0}

RanksBelow(z, b, c) == z[b] < z[c] \/ (z[b] = z[c] /\ b < c)

Lowest(z) ==
  CHOOSE b \in Entrants(z) : \A c \in Entrants(z) \ {b} : RanksBelow(z, b, c)

SlotsFull(z) == Cardinality(Entrants(z)) >= Quantity

(* ZREVRANGE 0 Quantity-1: the members that fewer than Quantity outrank. *)
TopEntrants(z) ==
  {b \in Entrants(z) :
     Cardinality({c \in Entrants(z) : RanksBelow(z, b, c)}) < Quantity}

-----------------------------------------------------------------------------
(* placeBidLua *)

ExceedsMax(amount) == MaxPrice > 0 /\ amount > MaxPrice

(* Mutant: the bid is compared with the start bid only. *)
PriceIsStartBid(a, z, b) == StartBid

(* The amount that a bid of b must exceed. *)
PriceToBeat(a, z, b) ==
  CASE Quantity > 1 /\ z[b] > 0                  -> z[b]
    [] Quantity > 1 /\ z[b] = 0 /\ SlotsFull(z)  -> z[Lowest(z)]
    [] OTHER                                     -> a.current

(* Whether min_increment is enforced on top of that price: never for an    *)
(* open slot, and for one winner as soon as the price is not zero.         *)
IncrementApplies(a, z, b) ==
  IF Quantity = 1 THEN a.current > 0 ELSE z[b] > 0 \/ SlotsFull(z)

IncrementTooSmall(a, z, b, amount) ==
  /\ MinIncrement > 0
  /\ IncrementApplies(a, z, b)
  /\ amount < PriceToBeat(a, z, b) + MinIncrement

(* Mutant: a bid that equals the price is accepted. *)
VerdictWithTies(a, z, b, amount) ==
  IF a.status = "MISSING"                      THEN "not_found"
  ELSE IF a.status # "OPEN"                    THEN "not_open"
  ELSE IF ExceedsMax(amount)                   THEN "exceeds_max"
  ELSE IF amount < PriceToBeat(a, z, b)        THEN "too_low"
  ELSE IF IncrementTooSmall(a, z, b, amount)   THEN "small_increment"
  ELSE "accepted"

(* The reply of the script, in the order of its checks. *)
Verdict(a, z, b, amount) ==
  IF a.status = "MISSING"                      THEN "not_found"
  ELSE IF a.status # "OPEN"                    THEN "not_open"
  ELSE IF ExceedsMax(amount)                   THEN "exceeds_max"
  ELSE IF amount <= PriceToBeat(a, z, b)       THEN "too_low"
  ELSE IF IncrementTooSmall(a, z, b, amount)   THEN "small_increment"
  ELSE "accepted"

(* Mutant: the lowest member goes as soon as the slots are full. *)
OverfullEarly(z) == Quantity > 1 /\ Cardinality(Entrants(z)) >= Quantity

(* More members than slots, which the script never leaves. *)
Overfull(z) == Quantity > 1 /\ Cardinality(Entrants(z)) > Quantity

WithBid(z, b, amount) == [z EXCEPT ![b] = amount]

(* The sorted set after an accepted bid, without the member it evicts. *)
BidsAfter(z, b, amount) ==
  LET placed == WithBid(z, b, amount) IN
  IF Overfull(placed) THEN [placed EXCEPT ![Lowest(placed)] = 0] ELSE placed

EvictedBy(z, b, amount) ==
  LET placed == WithBid(z, b, amount) IN
  IF Overfull(placed) THEN Lowest(placed) ELSE NoBidder

(* Mutant: the floor counts the members before the bid was placed. *)
FloorBeforeBid(a, z, b, amount) ==
  LET after == BidsAfter(z, b, amount) IN
  CASE Quantity = 1                   -> amount
    [] Quantity > 1 /\ SlotsFull(z)   -> after[Lowest(after)]
    [] Quantity > 1 /\ ~SlotsFull(z)  -> a.current

(* The hash after an accepted bid: current_highest becomes the new floor. *)
NewFloor(a, z, b, amount) ==
  LET after == BidsAfter(z, b, amount) IN
  CASE Quantity = 1                       -> amount
    [] Quantity > 1 /\ SlotsFull(after)   -> after[Lowest(after)]
    [] Quantity > 1 /\ ~SlotsFull(after)  -> a.current

HashAfter(a, z, b, amount) ==
  [a EXCEPT !.current = NewFloor(a, z, b, amount),
            !.bidder  = b,
            !.version = @ + 1]

-----------------------------------------------------------------------------
(* closeAndReadWinnerLua and rollbackCloseLua *)

(* Mutant: the script reads the winners and leaves the status to a later   *)
(* call.                                                                   *)
CloseForgotten(a) == a

ClosedHash(a) == [a EXCEPT !.status = "CLOSED"]

(* Mutant: the rollback has no effect. *)
RollbackForgotten(a) == a

(* Only a closed auction is reopened. *)
ReopenedHash(a) == IF a.status = "CLOSED" THEN [a EXCEPT !.status = "OPEN"] ELSE a

(* Mutant: the winner is read from the hash, as before there were slots.   *)
WinnerOfHash(a, z) == [b \in Bidders |-> IF b = a.bidder THEN a.current ELSE 0]

(* The winners and their bids that the close script returns, 0 for the     *)
(* others.  For one winner and an empty sorted set it falls back on the    *)
(* hash, whose bidder may be empty.                                        *)
WinnersRead(a, z) ==
  IF Quantity = 1 /\ Entrants(z) = {}
    THEN [b \in Bidders |-> IF b = a.bidder THEN a.current ELSE 0]
    ELSE [b \in Bidders |-> IF b \in TopEntrants(z) THEN z[b] ELSE 0]

-----------------------------------------------------------------------------
(* What bidding keeps true of the hash a, the sorted set z and h, the best *)
(* bid accepted from each bidder; the modules of the protocols state it of *)
(* their variables.                                                        *)

(* A slot carries its holder's best bid, a bidder who lost a slot never    *)
(* stood above one that is taken, and nobody is out while a slot is free.  *)
HoldBest(z, h) ==
  /\ \A b \in Entrants(z) : z[b] = h[b]
  /\ \A b \in Bidders \ Entrants(z) : h[b] > 0 =>
       SlotsFull(z) /\ \A c \in Entrants(z) : h[b] <= h[c]

(* current_highest is the leading bid of a single-winner auction, the      *)
(* lowest winning bid once all slots are taken, and the start bid before.  *)
FloorShown(a, z) ==
  LET standing == {z[b] : b \in Entrants(z)} IN
  IF Quantity = 1
    THEN IF standing = {}
           THEN a.current = StartBid
           ELSE a.current \in standing /\ \A s \in standing : s <= a.current
    ELSE IF SlotsFull(z)
           THEN a.current \in standing /\ \A s \in standing : a.current <= s
           ELSE a.current = StartBid

(* The slots are never overfull, every bid in them beat the start bid, and *)
(* the hash names a bidder once there is a bid.                            *)
SlotsSound(a, z) ==
  /\ Quantity > 1 => Cardinality(Entrants(z)) <= Quantity
  /\ \A b \in Entrants(z) : z[b] > StartBid
  /\ a.bidder = NoBidder <=> Entrants(z) = {}

BiddingSound(a, z, h) == SlotsSound(a, z) /\ HoldBest(z, h) /\ FloorShown(a, z)
=============================================================================
