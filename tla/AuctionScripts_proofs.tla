------------------------ MODULE AuctionScripts_proofs ------------------------
(***************************************************************************)
(* Lemmas about the script operators: what the sorted set's extremes are,  *)
(* what the placement script leaves in it, that winning bids and closes    *)
(* keep bidding sound, and that the winners read are the best bidders.     *)
(***************************************************************************)
EXTENDS AuctionScripts, FiniteSetTheorems, WellFoundedInduction, TLAPS

(* The sorted set has finitely many members.                               *)
LEMMA EntrantsFinite ==
  ASSUME NEW z \in BidSet
  PROVE  /\ Entrants(z) \subseteq Bidders
         /\ IsFiniteSet(Entrants(z))
         /\ Cardinality(Entrants(z)) \in Nat
BY BiddersAssumption, FS_Subset, FS_CardinalityType DEF Entrants

(* A strict total order has a first element in every finite nonempty set:  *)
(* the sets of predecessors shrink strictly towards it, and strict         *)
(* inclusion of finite sets is well founded.                               *)
LEMMA FirstExists ==
  ASSUME NEW S, IsFiniteSet(S), S # {},
         NEW R,
         \A x, y \in S : x # y => (<<x, y>> \in R \/ <<y, x>> \in R),
         \A x \in S : <<x, x>> \notin R,
         \A x, y, w \in S : <<w, y>> \in R /\ <<y, x>> \in R => <<w, x>> \in R
  PROVE  \E x \in S : \A y \in S \ {x} : <<x, y>> \in R
<1> DEFINE Under(x) == {y \in S : <<y, x>> \in R}
           T == {Under(x) : x \in S}
<1>1. T \subseteq FiniteSubsetsOf(S) /\ T # {}
  <2>1. \A x \in S : IsFiniteSet(Under(x)) /\ Under(x) \subseteq S
    BY FS_Subset
  <2>2. ASSUME NEW t \in T
        PROVE  t \in FiniteSubsetsOf(S)
    <3>1. PICK x \in S : t = Under(x)
      OBVIOUS
    <3> QED BY <2>1, <3>1 DEF FiniteSubsetsOf
  <2>3. T # {}
    <3>1. PICK x \in S : TRUE
      OBVIOUS
    <3>2. Under(x) \in T
      OBVIOUS
    <3> QED BY <3>2
  <2> QED BY <2>2, <2>3
<1>2. IsWellFoundedOn(StrictSubsetOrdering(S), FiniteSubsetsOf(S))
  BY FS_StrictSubsetOrderingWellFounded
<1>3. PICK m \in T : \A t \in T : <<t, m>> \notin StrictSubsetOrdering(S)
  <2> HIDE DEF T
  <2> QED BY <1>1, <1>2, WFMin
<1>4. PICK x \in S : m = Under(x)
  OBVIOUS
<1>5. ASSUME NEW y \in S \ {x}
      PROVE  <<x, y>> \in R
  <2>1. SUFFICES ASSUME <<y, x>> \in R PROVE FALSE
    OBVIOUS
  <2>2. Under(y) \subseteq Under(x) /\ y \in Under(x) /\ y \notin Under(y)
    BY <2>1
  <2>3. <<Under(y), m>> \in StrictSubsetOrdering(S)
    BY <2>2, <1>4 DEF StrictSubsetOrdering
  <2> QED BY <2>3, <1>3
<1> QED BY <1>5

(* Ranking by score and then by name is a strict total order of bidders.   *)
LEMMA RankingIsTotal ==
  ASSUME NEW z \in BidSet
  PROVE  /\ \A x, y \in Bidders : x # y => RanksBelow(z, x, y) \/ RanksBelow(z, y, x)
         /\ \A x \in Bidders : ~RanksBelow(z, x, x)
         /\ \A x, y, w \in Bidders :
              RanksBelow(z, w, y) /\ RanksBelow(z, y, x) => RanksBelow(z, w, x)
<1>1. \A w \in Bidders : z[w] \in Nat /\ w \in Nat
  BY BiddersAssumption DEF BidSet
<1> QED BY <1>1 DEF RanksBelow

(* ZRANGE 0 0 of a sorted set with members is a member of lowest score.    *)
LEMMA LowestProperties ==
  ASSUME NEW z \in BidSet, Entrants(z) # {}
  PROVE  /\ Lowest(z) \in Entrants(z)
         /\ Lowest(z) \in Bidders
         /\ \A c \in Entrants(z) : z[Lowest(z)] <= z[c]
<1> DEFINE R == {p \in Bidders \X Bidders : RanksBelow(z, p[1], p[2])}
<1>1. Entrants(z) \subseteq Bidders /\ IsFiniteSet(Entrants(z))
  BY EntrantsFinite
<1>2. \A x, y \in Bidders : <<x, y>> \in R <=> RanksBelow(z, x, y)
  OBVIOUS
<1> HIDE DEF R
<1>3. \E b \in Entrants(z) : \A c \in Entrants(z) \ {b} : <<b, c>> \in R
  <2>1. /\ \A x, y \in Entrants(z) : x # y => (<<x, y>> \in R \/ <<y, x>> \in R)
        /\ \A x \in Entrants(z) : <<x, x>> \notin R
        /\ \A x, y, w \in Entrants(z) :
             <<w, y>> \in R /\ <<y, x>> \in R => <<w, x>> \in R
    BY <1>1, <1>2, RankingIsTotal
  <2> QED BY <1>1, <2>1, FirstExists, Zenon
<1>4. \E b \in Entrants(z) : \A c \in Entrants(z) \ {b} : RanksBelow(z, b, c)
  BY <1>1, <1>2, <1>3
<1>5. /\ Lowest(z) \in Entrants(z)
      /\ \A c \in Entrants(z) \ {Lowest(z)} : RanksBelow(z, Lowest(z), c)
  BY <1>4, Zenon DEF Lowest
<1>6. \A c \in Bidders : z[c] \in Nat
  BY DEF BidSet
<1> QED BY <1>1, <1>5, <1>6 DEF RanksBelow

(* ZREVRANGE 0 Quantity-1 returns every member as long as the members are  *)
(* no more than Quantity, and the one highest member for a single winner.  *)
LEMMA TopOfFewEntrants ==
  ASSUME NEW z \in BidSet, Cardinality(Entrants(z)) <= Quantity
  PROVE  TopEntrants(z) = Entrants(z)
<1>1. ASSUME NEW b \in Entrants(z)
      PROVE  Cardinality({c \in Entrants(z) : RanksBelow(z, b, c)}) < Quantity
  <2> DEFINE above == {c \in Entrants(z) : RanksBelow(z, b, c)}
  <2>1. IsFiniteSet(Entrants(z)) /\ b \in Bidders
    BY EntrantsFinite
  <2>2. /\ IsFiniteSet(Entrants(z) \ {b})
        /\ Cardinality(Entrants(z) \ {b}) = Cardinality(Entrants(z)) - 1
    BY <2>1, FS_RemoveElement
  <2>3. above \subseteq Entrants(z) \ {b}
    BY <2>1, RankingIsTotal
  <2>4. Cardinality(above) <= Cardinality(Entrants(z) \ {b}) /\ Cardinality(above) \in Nat
    BY <2>2, <2>3, FS_Subset, FS_CardinalityType
  <2>5. Cardinality(Entrants(z)) \in Nat /\ Quantity \in Nat
    BY EntrantsFinite, RulesAssumption
  <2> HIDE DEF above
  <2>6. Cardinality(above) < Quantity
    BY <2>2, <2>4, <2>5
  <2> QED BY <2>6 DEF above
<1> QED BY <1>1 DEF TopEntrants

(* ZREVRANGE 0 0 returns the one member that no other outranks.            *)
LEMMA TopOfOneWinner ==
  ASSUME NEW z \in BidSet, Quantity = 1, Entrants(z) # {}
  PROVE  \E h \in Entrants(z) :
           TopEntrants(z) = {h} /\ \A c \in Entrants(z) : z[c] <= z[h]
<1> DEFINE R == {p \in Bidders \X Bidders : RanksBelow(z, p[2], p[1])}
<1>1. Entrants(z) \subseteq Bidders /\ IsFiniteSet(Entrants(z))
  BY EntrantsFinite
<1>2. \A x, y \in Bidders : <<x, y>> \in R <=> RanksBelow(z, y, x)
  OBVIOUS
<1> HIDE DEF R
<1>3. PICK h \in Entrants(z) : \A c \in Entrants(z) \ {h} : <<h, c>> \in R
  <2>1. /\ \A x, y \in Entrants(z) : x # y => (<<x, y>> \in R \/ <<y, x>> \in R)
        /\ \A x \in Entrants(z) : <<x, x>> \notin R
        /\ \A x, y, w \in Entrants(z) :
             <<w, y>> \in R /\ <<y, x>> \in R => <<w, x>> \in R
    BY <1>1, <1>2, RankingIsTotal
  <2> QED BY <1>1, <2>1, FirstExists, Zenon
<1>4. \A c \in Entrants(z) \ {h} : RanksBelow(z, c, h) /\ ~RanksBelow(z, h, c)
  BY <1>1, <1>2, <1>3, RankingIsTotal
<1>5. \A c \in Entrants(z) : z[c] <= z[h]
  <2>1. \A c \in Bidders : z[c] \in Nat
    BY DEF BidSet
  <2> QED BY <1>1, <1>4, <2>1 DEF RanksBelow
<1>6. h \in TopEntrants(z)
  <2>1. {c \in Entrants(z) : RanksBelow(z, h, c)} = {}
    BY <1>1, <1>4, RankingIsTotal
  <2> QED BY <2>1, FS_EmptySet DEF TopEntrants
<1>7. ASSUME NEW b \in TopEntrants(z), b # h PROVE FALSE
  <2> DEFINE above == {c \in Entrants(z) : RanksBelow(z, b, c)}
  <2>1. b \in Entrants(z) /\ Cardinality(above) < 1
    BY <1>7 DEF TopEntrants
  <2>2. h \in above
    BY <2>1, <1>4, <1>7
  <2>3. IsFiniteSet(above)
    BY <1>1, FS_Subset
  <2> HIDE DEF above
  <2>4. Cardinality(above) \in Nat /\ Cardinality(above) # 0
    BY <2>2, <2>3, FS_CardinalityType, FS_EmptySet
  <2> QED BY <2>1, <2>4
<1> QED BY <1>5, <1>6, <1>7 DEF TopEntrants

(* A score that is set adds its member and keeps the others.               *)
LEMMA WithBidProperties ==
  ASSUME NEW z \in BidSet, NEW b \in Bidders, NEW amount \in Nat \ {0}
  PROVE  /\ WithBid(z, b, amount) \in BidSet
         /\ Entrants(WithBid(z, b, amount)) = Entrants(z) \cup {b}
         /\ WithBid(z, b, amount)[b] = amount
         /\ \A c \in Bidders \ {b} : WithBid(z, b, amount)[c] = z[c]
         /\ b \in Entrants(z) =>
              Cardinality(Entrants(WithBid(z, b, amount))) = Cardinality(Entrants(z))
         /\ b \notin Entrants(z) =>
              Cardinality(Entrants(WithBid(z, b, amount))) = Cardinality(Entrants(z)) + 1
<1> DEFINE placed == WithBid(z, b, amount)
<1>1. /\ placed \in BidSet
      /\ placed[b] = amount
      /\ \A c \in Bidders \ {b} : placed[c] = z[c]
  BY DEF WithBid, BidSet
<1>2. Entrants(placed) = Entrants(z) \cup {b}
  BY <1>1 DEF Entrants
<1>3. /\ IsFiniteSet(Entrants(z))
      /\ Cardinality(Entrants(z)) \in Nat
  BY EntrantsFinite
<1>4. b \in Entrants(z) => Entrants(placed) = Entrants(z)
  BY <1>2
<1>5. b \notin Entrants(z) =>
        Cardinality(Entrants(placed)) = Cardinality(Entrants(z)) + 1
  BY <1>2, <1>3, FS_AddElement
<1> QED BY <1>1, <1>2, <1>4, <1>5

-----------------------------------------------------------------------------
(* What the script requires of the bid it places: more than the bidder's   *)
(* own score and, to enter full slots, more than the floor.                *)
Competitive(z, b, amount) ==
  /\ Quantity > 1 => Cardinality(Entrants(z)) <= Quantity
  /\ z[b] < amount
  /\ (Quantity > 1 /\ z[b] = 0 /\ SlotsFull(z)) => z[Lowest(z)] < amount

(* Such a bid evicts nobody when it raises, when a slot is free or when    *)
(* there is one winner.                                                    *)
LEMMA PlacingWithoutEviction ==
  ASSUME NEW z \in BidSet, NEW b \in Bidders, NEW amount \in Nat \ {0},
         Competitive(z, b, amount),
         Quantity = 1 \/ z[b] > 0 \/ ~SlotsFull(z)
  PROVE  /\ BidsAfter(z, b, amount) = WithBid(z, b, amount)
         /\ EvictedBy(z, b, amount) = NoBidder
         /\ Quantity > 1 => Cardinality(Entrants(WithBid(z, b, amount))) <= Quantity
<1> DEFINE placed == WithBid(z, b, amount)
<1>1. Quantity \in Nat \ {0}
  BY RulesAssumption
<1>2. Cardinality(Entrants(z)) \in Nat
  BY EntrantsFinite
<1>3. Quantity > 1 => Cardinality(Entrants(placed)) <= Quantity
  <2>1. CASE b \in Entrants(z)
    BY <2>1, WithBidProperties DEF Competitive
  <2>2. CASE b \notin Entrants(z)
    <3>1. z[b] = 0
      BY <2>2 DEF Entrants, BidSet
    <3>2. Quantity > 1 => Cardinality(Entrants(z)) < Quantity
      BY <3>1, <1>1, <1>2 DEF SlotsFull
    <3> QED BY <3>2, <2>2, <1>1, <1>2, WithBidProperties
  <2> QED BY <2>1, <2>2
<1>4. ~Overfull(placed)
  <2>1. Cardinality(Entrants(placed)) \in Nat
    BY EntrantsFinite, WithBidProperties
  <2> QED BY <2>1, <1>1, <1>3 DEF Overfull
<1> QED BY <1>3, <1>4 DEF BidsAfter, EvictedBy

(* A newcomer to full slots takes the place of a member of lowest score    *)
(* and the number of members stays at Quantity.                            *)
LEMMA PlacingWithEviction ==
  ASSUME NEW z \in BidSet, NEW b \in Bidders, NEW amount \in Nat \ {0},
         Competitive(z, b, amount),
         Quantity > 1, z[b] = 0, SlotsFull(z)
  PROVE  LET e == EvictedBy(z, b, amount)
             after == BidsAfter(z, b, amount)
         IN /\ e \in Entrants(z) /\ e # b /\ e # NoBidder
            /\ \A c \in Entrants(z) : z[e] <= z[c]
            /\ after = [WithBid(z, b, amount) EXCEPT ![e] = 0]
            /\ after \in BidSet
            /\ Entrants(after) = (Entrants(z) \cup {b}) \ {e}
            /\ Cardinality(Entrants(after)) = Quantity
<1> DEFINE placed == WithBid(z, b, amount)
           e == Lowest(placed)
           after == [placed EXCEPT ![e] = 0]
<1>1. Quantity \in Nat \ {0}
  BY RulesAssumption
<1>2. /\ Cardinality(Entrants(z)) = Quantity
      /\ Entrants(z) # {}
  <2>1. Cardinality(Entrants(z)) = Quantity
    BY <1>1, EntrantsFinite DEF Competitive, SlotsFull
  <2> QED BY <2>1, <1>1, FS_EmptySet
<1>3. b \notin Entrants(z)
  BY DEF Entrants
<1>4. /\ placed \in BidSet
      /\ Entrants(placed) = Entrants(z) \cup {b}
      /\ Cardinality(Entrants(placed)) = Quantity + 1
  BY <1>2, <1>3, WithBidProperties
<1>5. Overfull(placed)
  BY <1>4, <1>1 DEF Overfull
<1>6. BidsAfter(z, b, amount) = after /\ EvictedBy(z, b, amount) = e
  BY <1>5 DEF BidsAfter, EvictedBy
<1>7. /\ e \in Entrants(placed) /\ e \in Bidders
      /\ \A c \in Entrants(placed) : placed[e] <= placed[c]
  BY <1>4, LowestProperties
<1>8. e # b
  <2>1. Lowest(z) \in Entrants(z)
    BY <1>2, LowestProperties
  <2>2. placed[Lowest(z)] = z[Lowest(z)] /\ z[Lowest(z)] < amount
    <3>1. Lowest(z) \in Bidders \ {b}
      BY <2>1, <1>3 DEF Entrants
    <3>2. placed[Lowest(z)] = z[Lowest(z)]
      BY <3>1, WithBidProperties
    <3> QED BY <3>2 DEF Competitive
  <2>3. SUFFICES ASSUME e = b PROVE FALSE
    OBVIOUS
  <2>4. placed[b] = amount /\ placed[b] <= placed[Lowest(z)]
    BY <2>1, <2>3, <1>4, <1>7, WithBidProperties
  <2> QED BY <2>1, <2>2, <2>4, <1>4 DEF BidSet, Entrants
<1>9. \A c \in Entrants(z) : z[e] <= z[c]
  <2>1. Entrants(z) \subseteq Bidders \ {b} /\ e \in Entrants(z)
    BY <1>3, <1>4, <1>7, <1>8, EntrantsFinite
  <2>2. \A c \in Entrants(z) : placed[c] = z[c]
    BY <2>1, WithBidProperties
  <2>3. \A c \in Entrants(z) : placed[e] <= placed[c]
    BY <1>4, <1>7
  <2> HIDE DEF placed, e
  <2> QED BY <2>1, <2>2, <2>3
<1>10. /\ after \in BidSet
       /\ Entrants(after) = Entrants(placed) \ {e}
  BY <1>4, <1>7 DEF BidSet, Entrants
<1>11. Cardinality(Entrants(after)) = Quantity
  <2>1. IsFiniteSet(Entrants(placed))
    BY <1>4, EntrantsFinite
  <2>2. Cardinality(Entrants(placed) \ {e}) = Cardinality(Entrants(placed)) - 1
    BY <2>1, <1>7, FS_RemoveElement
  <2> HIDE DEF placed, e, after
  <2> QED BY <2>2, <1>10, <1>4, <1>1
<1>12. e # NoBidder
  BY <1>7, BiddersAssumption
<1> HIDE DEF placed, e, after
<1> QED BY <1>3, <1>4, <1>6, <1>7, <1>8, <1>9, <1>10, <1>11, <1>12 DEF placed, after, e
-----------------------------------------------------------------------------
(* What the placement script relies on when it accepts a bid.  h is the    *)
(* best bid accepted from each bidder so far.                              *)
Accepted(a, z, h, b, amount) ==
  /\ a \in AuctionHash /\ z \in BidSet /\ h \in BidSet
  /\ BiddingSound(a, z, h)
  /\ b \in Bidders /\ amount \in Nat \ {0}
  /\ Verdict(a, z, b, amount) = "accepted"

(* What any accepted bid satisfies, by the checks of the placement script. *)
LEMMA AcceptedBid ==
  ASSUME NEW a, NEW z, NEW h, NEW b, NEW amount, Accepted(a, z, h, b, amount)
  PROVE  /\ b \in Bidders /\ amount \in Nat \ {0}
         /\ a.status = "OPEN"
         /\ amount > PriceToBeat(a, z, b)
         /\ MaxPrice > 0 => amount <= MaxPrice
         /\ ~IncrementTooSmall(a, z, b, amount)
<1>2. b \in Bidders
  BY DEF Accepted
<1>3. amount \in Nat \ {0}
  BY DEF Accepted
<1>4. Verdict(a, z, b, amount) = "accepted"
  BY DEF Accepted
<1>5. /\ a.status = "OPEN"
      /\ ~ExceedsMax(amount)
      /\ ~(amount <= PriceToBeat(a, z, b))
      /\ ~IncrementTooSmall(a, z, b, amount)
  BY <1>4 DEF Verdict
<1>6. PriceToBeat(a, z, b) \in Nat
  <2>1. a.current \in Nat /\ z \in BidSet
    BY DEF Accepted, AuctionHash
  <2>2. SlotsFull(z) => z[Lowest(z)] \in Nat
    <3>1. SUFFICES ASSUME SlotsFull(z) PROVE z[Lowest(z)] \in Nat
      OBVIOUS
    <3>2. Entrants(z) # {}
      BY <3>1, FS_EmptySet, RulesAssumption DEF SlotsFull
    <3> QED BY <2>1, <3>2, LowestProperties DEF BidSet
  <2> QED BY <1>2, <2>1, <2>2 DEF PriceToBeat, BidSet
<1>7. MaxPrice > 0 => amount <= MaxPrice
  BY <1>3, <1>5, RulesAssumption DEF ExceedsMax
<1>8. amount > PriceToBeat(a, z, b)
  BY <1>3, <1>5, <1>6
<1> QED BY <1>2, <1>3, <1>5, <1>7, <1>8

(* Such a bid is above the bidder's own, above the start bid, and, unless  *)
(* the bidder holds a slot, above all members or above the lowest of full  *)
(* slots.                                                                  *)
LEMMA AcceptedBidCompetes ==
  ASSUME NEW a, NEW z, NEW h, NEW b, NEW amount, Accepted(a, z, h, b, amount)
  PROVE  /\ Competitive(z, b, amount)
         /\ amount > StartBid
         /\ amount > h[b]
         /\ Quantity = 1 => \A c \in Entrants(z) : z[c] < amount
<1>1. /\ b \in Bidders /\ amount \in Nat \ {0}
      /\ amount > PriceToBeat(a, z, b)
  BY AcceptedBid, Zenon
<1>2. /\ z \in BidSet /\ h \in BidSet /\ a.current \in Nat
      /\ \A c \in Bidders : z[c] \in Nat /\ h[c] \in Nat
  BY DEF Accepted, AuctionHash, BidSet
<1>3. Quantity \in Nat \ {0} /\ StartBid \in Nat
  BY RulesAssumption
<1>4. SlotsFull(z) => /\ Lowest(z) \in Entrants(z)
                      /\ Lowest(z) \in Bidders
                      /\ \A c \in Entrants(z) : z[Lowest(z)] <= z[c]
  <2>1. SlotsFull(z) => Entrants(z) # {}
    BY FS_EmptySet, RulesAssumption DEF SlotsFull
  <2> QED BY <1>2, <2>1, LowestProperties
<1>5. Entrants(z) # {} /\ Quantity = 1 => SlotsFull(z)
  BY <1>2, EntrantsFinite, FS_EmptySet DEF SlotsFull
<1>6. /\ \A c \in Entrants(z) : z[c] = h[c] /\ c \in Bidders /\ z[c] > StartBid
      /\ \A c \in Bidders \ Entrants(z) : z[c] = 0
      /\ \A c \in Bidders \ Entrants(z) : h[c] > 0 =>
           SlotsFull(z) /\ \A d \in Entrants(z) : h[c] <= h[d]
      /\ Quantity > 1 => Cardinality(Entrants(z)) <= Quantity
  BY <1>2 DEF Accepted, BiddingSound, HoldBest, SlotsSound, Entrants
<1>7. FloorShown(a, z)
  BY DEF Accepted, BiddingSound
<1>8. CASE Quantity = 1
  <2>1. amount > a.current
    BY <1>1, <1>8 DEF PriceToBeat
  <2>2. \A c \in Entrants(z) : z[c] <= a.current
    BY <1>7, <1>8 DEF FloorShown
  <2>3. \A c \in Entrants(z) : z[c] < amount
    BY <1>1, <1>2, <1>6, <2>1, <2>2
  <2>4. amount > StartBid
    <3>1. CASE Entrants(z) = {}
      BY <3>1, <2>1, <1>7, <1>8 DEF FloorShown
    <3>2. CASE Entrants(z) # {}
      BY <3>2, <2>3, <1>1, <1>2, <1>3, <1>6
    <3> QED BY <3>1, <3>2
  <2>5. h[b] < amount /\ z[b] < amount
    <3>1. CASE b \in Entrants(z)
      BY <3>1, <2>3, <1>6
    <3>2. CASE b \notin Entrants(z)
      <4>1. z[b] = 0 /\ z[b] < amount
        BY <3>2, <1>1, <1>6
      <4>2. CASE h[b] > 0
        BY <3>2, <4>2, <1>1, <1>2, <1>4, <1>6, <2>3
      <4> QED BY <4>1, <4>2, <1>1, <1>2
    <3> QED BY <3>1, <3>2
  <2> QED BY <2>3, <2>4, <2>5, <1>8, <1>1, <1>2 DEF Competitive
<1>9. CASE Quantity > 1 /\ z[b] > 0
  <2>1. amount > z[b]
    BY <1>1, <1>9 DEF PriceToBeat
  <2>2. b \in Entrants(z)
    BY <1>1, <1>9 DEF Entrants
  <2> QED BY <2>1, <2>2, <1>1, <1>2, <1>3, <1>6, <1>9 DEF Competitive
<1>10. CASE Quantity > 1 /\ z[b] = 0 /\ SlotsFull(z)
  <2>1. amount > z[Lowest(z)]
    BY <1>1, <1>10 DEF PriceToBeat
  <2>2. b \in Bidders \ Entrants(z)
    BY <1>1, <1>10 DEF Entrants
  <2>3. amount > StartBid
    BY <2>1, <1>1, <1>2, <1>3, <1>4, <1>6, <1>10
  <2>4. h[b] < amount
    <3>1. CASE h[b] > 0
      BY <3>1, <2>1, <2>2, <1>1, <1>2, <1>4, <1>6, <1>10
    <3> QED BY <3>1, <1>1, <1>2
  <2> QED BY <2>1, <2>3, <2>4, <1>1, <1>2, <1>6, <1>10 DEF Competitive
<1>11. CASE Quantity > 1 /\ z[b] = 0 /\ ~SlotsFull(z)
  <2>1. amount > a.current
    BY <1>1, <1>11 DEF PriceToBeat
  <2>2. a.current = StartBid
    BY <1>7, <1>11 DEF FloorShown
  <2>3. b \in Bidders \ Entrants(z)
    BY <1>1, <1>11 DEF Entrants
  <2>4. ~(h[b] > 0)
    BY <2>3, <1>6, <1>11
  <2> QED BY <2>1, <2>2, <2>3, <2>4, <1>1, <1>2, <1>6, <1>11 DEF Competitive
<1> QED
  <2>1. z[b] = 0 \/ z[b] > 0
    BY <1>1, <1>2
  <2> QED BY <2>1, <1>3, <1>8, <1>9, <1>10, <1>11

-----------------------------------------------------------------------------
(* What an accepted bid leaves in the sorted set, whether or not it evicts *)
(* a member: whoever is out afterwards stands below all who are in.        *)
LEMMA AcceptedSlots ==
  ASSUME NEW a, NEW z, NEW h, NEW b, NEW amount, Accepted(a, z, h, b, amount),
         NEW after, after = BidsAfter(z, b, amount)
  PROVE  /\ after \in BidSet
         /\ after[b] = amount
         /\ b \in Entrants(after)
         /\ \A c \in Entrants(after) \ {b} : c \in Entrants(z) /\ after[c] = z[c]
         /\ Quantity > 1 => Cardinality(Entrants(after)) <= Quantity
         /\ SlotsFull(z) => SlotsFull(after)
         /\ \A d \in Bidders \ Entrants(after) : h[d] > 0 =>
              SlotsFull(after) /\ \A c \in Entrants(after) : h[d] <= after[c]
<1> DEFINE e == EvictedBy(z, b, amount)
<1>1. /\ b \in Bidders /\ amount \in Nat \ {0}
      /\ Competitive(z, b, amount)
      /\ amount > StartBid
      /\ Quantity = 1 => \A c \in Entrants(z) : z[c] < amount
  BY AcceptedBid, AcceptedBidCompetes, Zenon
<1>2. /\ z \in BidSet /\ h \in BidSet
      /\ \A c \in Bidders : z[c] \in Nat /\ h[c] \in Nat
  BY DEF Accepted, BidSet
<1>3. after = BidsAfter(z, b, amount)
  OBVIOUS
<1>4. /\ \A c \in Entrants(z) : z[c] = h[c] /\ c \in Bidders
      /\ \A d \in Bidders \ Entrants(z) : h[d] > 0 =>
           SlotsFull(z) /\ \A c \in Entrants(z) : h[d] <= h[c]
  BY <1>2 DEF Accepted, BiddingSound, HoldBest, Entrants
<1>5. Quantity \in Nat \ {0}
  BY RulesAssumption
<1>6. CASE Quantity = 1 \/ z[b] > 0 \/ ~SlotsFull(z)
  <2>1. /\ after = WithBid(z, b, amount)
        /\ Quantity > 1 => Cardinality(Entrants(after)) <= Quantity
    BY <1>1, <1>2, <1>3, <1>6, PlacingWithoutEviction
  <2>2. /\ after \in BidSet
        /\ Entrants(after) = Entrants(z) \cup {b}
        /\ after[b] = amount
        /\ \A c \in Bidders \ {b} : after[c] = z[c]
        /\ Cardinality(Entrants(after)) >= Cardinality(Entrants(z))
    <3>1. /\ WithBid(z, b, amount) \in BidSet
          /\ Entrants(WithBid(z, b, amount)) = Entrants(z) \cup {b}
          /\ WithBid(z, b, amount)[b] = amount
          /\ \A c \in Bidders \ {b} : WithBid(z, b, amount)[c] = z[c]
          /\ \/ Cardinality(Entrants(WithBid(z, b, amount))) = Cardinality(Entrants(z))
             \/ Cardinality(Entrants(WithBid(z, b, amount))) = Cardinality(Entrants(z)) + 1
      <4>1. z \in BidSet /\ b \in Bidders /\ amount \in Nat \ {0}
        BY <1>1, <1>2
      <4> HIDE DEF e
      <4>2. /\ WithBid(z, b, amount) \in BidSet
            /\ Entrants(WithBid(z, b, amount)) = Entrants(z) \cup {b}
            /\ WithBid(z, b, amount)[b] = amount
            /\ \A c \in Bidders \ {b} : WithBid(z, b, amount)[c] = z[c]
        BY <4>1, WithBidProperties
      <4>3. \/ Cardinality(Entrants(WithBid(z, b, amount))) = Cardinality(Entrants(z))
            \/ Cardinality(Entrants(WithBid(z, b, amount))) = Cardinality(Entrants(z)) + 1
        BY <4>1, WithBidProperties
      <4> QED BY <4>2, <4>3
    <3>2. Cardinality(Entrants(z)) \in Nat
      BY <1>2, EntrantsFinite
    <3> QED BY <2>1, <3>1, <3>2
  <2>3. SlotsFull(z) => SlotsFull(after)
    BY <2>2, <1>2, <1>5, EntrantsFinite DEF SlotsFull
  <2>4. ASSUME NEW d \in Bidders \ Entrants(after), h[d] > 0
        PROVE  SlotsFull(after) /\ \A c \in Entrants(after) : h[d] <= after[c]
    <3>1. /\ d \in Bidders \ Entrants(z)
          /\ SlotsFull(z)
          /\ \A c \in Entrants(z) : h[d] <= z[c]
      BY <2>2, <2>4, <1>4
    <3>2. Entrants(z) # {}
      BY <3>1, <1>5, FS_EmptySet DEF SlotsFull
    <3>3. h[d] <= amount
      <4>1. CASE Quantity = 1
        BY <4>1, <3>1, <3>2, <1>1, <1>2, <1>4
      <4>2. CASE Quantity > 1
        <5>1. b \in Entrants(z) /\ z[b] < amount
          BY <4>2, <1>1, <1>6, <3>1 DEF Competitive, Entrants
        <5> QED BY <5>1, <3>1, <1>1, <1>2
      <4> QED BY <4>1, <4>2, <1>5
    <3>4. ASSUME NEW c \in Entrants(after) PROVE h[d] <= after[c]
      <4>1. CASE c = b
        BY <4>1, <3>3, <2>2
      <4>2. CASE c # b
        BY <4>2, <3>1, <2>2, <1>4
      <4> QED BY <4>1, <4>2
    <3> QED BY <2>3, <3>1, <3>4
  <2>5. \A c \in Entrants(after) \ {b} : c \in Entrants(z) /\ after[c] = z[c]
    BY <2>2, <1>4
  <2> QED BY <2>1, <2>2, <2>3, <2>4, <2>5
<1>7. CASE Quantity > 1 /\ z[b] = 0 /\ SlotsFull(z)
  <2>1. /\ e \in Entrants(z) /\ e # b
        /\ \A c \in Entrants(z) : z[e] <= z[c]
        /\ after \in BidSet
        /\ Entrants(after) = (Entrants(z) \cup {b}) \ {e}
        /\ Cardinality(Entrants(after)) = Quantity
    BY <1>1, <1>2, <1>3, <1>7, PlacingWithEviction
  <2>2. /\ WithBid(z, b, amount) \in BidSet
        /\ WithBid(z, b, amount)[b] = amount
        /\ \A c \in Bidders \ {b} : WithBid(z, b, amount)[c] = z[c]
    BY <1>1, <1>2, WithBidProperties
  <2>3. /\ after[b] = amount
        /\ \A c \in Bidders \ {b, e} : after[c] = z[c]
    <3>1. after = [WithBid(z, b, amount) EXCEPT ![e] = 0]
      BY <1>1, <1>2, <1>3, <1>7, PlacingWithEviction
    <3> QED BY <2>1, <2>2, <3>1, <1>1 DEF BidSet
  <2>4. SlotsFull(after)
    BY <2>1, <1>5 DEF SlotsFull
  <2>5. z[e] < amount
    <3>1. z[Lowest(z)] < amount
      BY <1>1, <1>7 DEF Competitive
    <3>2. Lowest(z) \in Entrants(z)
      BY <2>1, <1>2, LowestProperties
    <3> QED BY <2>1, <3>1, <3>2, <1>1, <1>2, <1>4
  <2>6. \A c \in Entrants(after) : z[e] <= after[c]
    BY <2>1, <2>3, <2>5, <1>1, <1>2, <1>4
  <2>7. ASSUME NEW d \in Bidders \ Entrants(after), h[d] > 0,
               NEW c \in Entrants(after)
        PROVE  h[d] <= after[c]
    <3>1. d # b /\ (d = e \/ d \in Bidders \ Entrants(z))
      BY <2>1, <2>7
    <3>2. h[d] <= z[e]
      BY <3>1, <2>1, <2>7, <1>2, <1>4
    <3>3. after[c] \in Nat /\ z[e] \in Nat /\ h[d] \in Nat
      BY <2>1, <1>2, <1>4, EntrantsFinite DEF BidSet
    <3> QED BY <3>2, <3>3, <2>6
  <2>8. b \in Entrants(after) /\ Cardinality(Entrants(after)) <= Quantity
    BY <2>1, <1>5
  <2>9. \A c \in Entrants(after) \ {b} : c \in Entrants(z) /\ after[c] = z[c]
    BY <2>1, <2>3, <1>4
  <2> QED BY <2>1, <2>3, <2>4, <2>7, <2>8, <2>9
<1> QED
  <2>1. z[b] = 0 \/ z[b] > 0
    BY <1>1, <1>2
  <2> QED BY <2>1, <1>5, <1>6, <1>7

(* The new floor is what FloorShown says of the new sorted set, and it is  *)
(* not below the old one.                                                  *)
LEMMA AcceptedFloor ==
  ASSUME NEW a, NEW z, NEW h, NEW b, NEW amount, Accepted(a, z, h, b, amount),
         NEW after, after = BidsAfter(z, b, amount),
         NEW new, new = HashAfter(a, z, b, amount)
  PROVE  /\ FloorShown(new, after)
         /\ new.current \in Nat
         /\ new.current >= a.current
         /\ Quantity = 1 => new.current > a.current
<1>1. /\ b \in Bidders /\ amount \in Nat \ {0}
      /\ amount > StartBid
      /\ Quantity = 1 => \A c \in Entrants(z) : z[c] < amount
      /\ amount > PriceToBeat(a, z, b)
  BY AcceptedBid, AcceptedBidCompetes, Zenon
<1>2. /\ z \in BidSet /\ a \in AuctionHash /\ a.current \in Nat
      /\ \A c \in Bidders : z[c] \in Nat
      /\ \A c \in Entrants(z) : c \in Bidders /\ z[c] > StartBid
  BY DEF Accepted, AuctionHash, BidSet, BiddingSound, SlotsSound, Entrants
<1>3. /\ after \in BidSet
      /\ after[b] = amount
      /\ b \in Entrants(after)
      /\ \A c \in Entrants(after) \ {b} : c \in Entrants(z) /\ after[c] = z[c]
      /\ SlotsFull(z) => SlotsFull(after)
  BY AcceptedSlots
<1>4. Quantity \in Nat \ {0} /\ StartBid \in Nat
  BY RulesAssumption
<1>5. /\ after = BidsAfter(z, b, amount)
      /\ new = HashAfter(a, z, b, amount)
      /\ new.current = NewFloor(a, z, b, amount)
  BY <1>2 DEF HashAfter, AuctionHash
<1>6. FloorShown(a, z)
  BY DEF Accepted, BiddingSound
<1>7. CASE Quantity = 1
  <2>1. new.current = amount
    BY <1>5, <1>7 DEF NewFloor
  <2>2. \A c \in Entrants(after) : after[c] <= amount
    BY <1>1, <1>2, <1>3, <1>7
  <2>3. amount > a.current
    BY <1>1, <1>7 DEF PriceToBeat
  <2>4. FloorShown(new, after)
    BY <2>1, <2>2, <1>3, <1>7 DEF FloorShown
  <2> QED BY <2>1, <2>3, <2>4, <1>1, <1>2
<1>8. CASE Quantity > 1 /\ SlotsFull(after)
  <2>1. new.current = after[Lowest(after)]
    BY <1>5, <1>8 DEF NewFloor
  <2>2. /\ Lowest(after) \in Entrants(after)
        /\ \A c \in Entrants(after) : after[Lowest(after)] <= after[c]
    BY <1>3, LowestProperties
  <2>3. FloorShown(new, after)
    BY <2>1, <2>2, <1>8 DEF FloorShown
  <2>4. ASSUME NEW c \in Entrants(after) PROVE after[c] >= a.current
    <3>1. CASE SlotsFull(z)
      <4>1. \A d \in Entrants(z) : a.current <= z[d]
        BY <3>1, <1>6, <1>8 DEF FloorShown
      <4>2. CASE c # b
        BY <4>1, <4>2, <1>3, <1>2
      <4>3. CASE c = b /\ z[b] > 0
        <5>1. amount > z[b] /\ b \in Entrants(z)
          BY <4>3, <1>1, <1>8 DEF PriceToBeat, Entrants
        <5> QED BY <5>1, <4>1, <4>3, <1>1, <1>2, <1>3
      <4>4. CASE c = b /\ ~(z[b] > 0)
        <5>1. z[b] = 0
          BY <4>4, <1>1, <1>2
        <5>2. amount > z[Lowest(z)]
          BY <5>1, <3>1, <1>1, <1>8 DEF PriceToBeat
        <5>3. Entrants(z) # {}
          BY <3>1, <1>4, FS_EmptySet DEF SlotsFull
        <5>4. Lowest(z) \in Entrants(z) /\ z[Lowest(z)] \in Nat
          BY <5>3, <1>2, LowestProperties
        <5> QED BY <5>2, <5>4, <4>1, <4>4, <1>1, <1>2, <1>3
      <4> QED BY <4>2, <4>3, <4>4
    <3>2. CASE ~SlotsFull(z)
      <4>1. a.current = StartBid
        BY <3>2, <1>6, <1>8 DEF FloorShown
      <4> QED BY <4>1, <1>1, <1>2, <1>3, <1>4
    <3> QED BY <3>1, <3>2
  <2>5. after[Lowest(after)] \in Nat
    BY <2>2, <1>3, EntrantsFinite DEF BidSet
  <2> QED BY <2>1, <2>2, <2>3, <2>4, <2>5, <1>8
<1>9. CASE Quantity > 1 /\ ~SlotsFull(after)
  <2>1. new.current = a.current
    BY <1>5, <1>9 DEF NewFloor
  <2>2. a.current = StartBid
    BY <1>3, <1>6, <1>9 DEF FloorShown
  <2>3. FloorShown(new, after)
    BY <2>1, <2>2, <1>9 DEF FloorShown
  <2> QED BY <2>1, <2>3, <1>2, <1>9
<1> QED BY <1>4, <1>7, <1>8, <1>9

(* Bidders who stand at an accepted amount or above are fewer than the     *)
(* slots, so the bid would win if the auction closed now.                         *)
LEMMA FewStandAbove ==
  ASSUME NEW a, NEW z, NEW h, NEW b, NEW amount, Accepted(a, z, h, b, amount)
  PROVE  Cardinality({c \in Bidders \ {b} : h[c] >= amount}) < Quantity
<1> DEFINE above == {c \in Bidders \ {b} : h[c] >= amount}
<1>1. /\ b \in Bidders /\ amount \in Nat \ {0}
      /\ Competitive(z, b, amount)
      /\ Quantity = 1 => \A c \in Entrants(z) : z[c] < amount
  BY AcceptedBid, AcceptedBidCompetes, Zenon
<1>2. /\ z \in BidSet
      /\ \A c \in Bidders : z[c] \in Nat /\ h[c] \in Nat
      /\ \A c \in Entrants(z) : z[c] = h[c] /\ c \in Bidders
      /\ \A d \in Bidders \ Entrants(z) : h[d] > 0 =>
           SlotsFull(z) /\ \A c \in Entrants(z) : h[d] <= h[c]
  BY DEF Accepted, BiddingSound, HoldBest, BidSet, Entrants
<1>3. /\ Quantity \in Nat \ {0}
      /\ IsFiniteSet(Entrants(z)) /\ Cardinality(Entrants(z)) \in Nat
  BY <1>2, RulesAssumption, EntrantsFinite
<1>4. SlotsFull(z) => Entrants(z) # {}
  BY <1>3, FS_EmptySet DEF SlotsFull
(* One entrant below the amount excludes everyone who is out. *)
<1>5. ASSUME NEW e \in Entrants(z), h[e] < amount \/ e = b,
             Cardinality(Entrants(z)) <= Quantity, z[e] < amount
      PROVE  Cardinality(above) < Quantity
  <2>1. above \subseteq Entrants(z) \ {e}
    <3>1. SUFFICES ASSUME NEW c \in above PROVE c \in Entrants(z) \ {e}
      OBVIOUS
    <3>2. h[e] < amount /\ h[c] >= amount /\ c \in Bidders
      BY <1>2, <1>5
    <3> QED BY <3>2, <1>1, <1>2
  <2>2. /\ IsFiniteSet(Entrants(z) \ {e})
        /\ Cardinality(Entrants(z) \ {e}) = Cardinality(Entrants(z)) - 1
    BY <1>3, FS_RemoveElement
  <2>3. Cardinality(above) <= Cardinality(Entrants(z) \ {e}) /\ Cardinality(above) \in Nat
    BY <2>1, <2>2, FS_Subset, FS_CardinalityType
  <2> HIDE DEF above
  <2> QED BY <2>2, <2>3, <1>3, <1>5
<1>6. ASSUME Quantity = 1 PROVE Cardinality(above) < Quantity
  <2>1. above = {}
    <3>1. SUFFICES ASSUME NEW c \in above PROVE FALSE
      OBVIOUS
    <3>2. c \in Bidders /\ h[c] >= amount
      OBVIOUS
    <3>3. CASE c \in Entrants(z)
      BY <3>2, <3>3, <1>1, <1>2, <1>6
    <3>4. CASE c \notin Entrants(z)
      <4>1. h[c] > 0
        BY <3>2, <1>1, <1>2
      <4>2. PICK d \in Entrants(z) : h[c] <= h[d]
        BY <4>1, <3>2, <3>4, <1>2, <1>4
      <4> QED BY <4>2, <3>2, <1>1, <1>2, <1>6
    <3> QED BY <3>3, <3>4
  <2> QED BY <2>1, <1>6, FS_EmptySet
<1>7. ASSUME Quantity > 1 /\ z[b] > 0 PROVE Cardinality(above) < Quantity
  <2>1. b \in Entrants(z)
    BY <1>1, <1>7 DEF Entrants
  <2> HIDE DEF above
  <2> QED BY <2>1, <1>1, <1>5, <1>7 DEF Competitive
<1>8. ASSUME Quantity > 1 /\ z[b] = 0 /\ SlotsFull(z) PROVE Cardinality(above) < Quantity
  <2>1. Lowest(z) \in Entrants(z) /\ z[Lowest(z)] < amount
    BY <1>1, <1>2, <1>4, <1>8, LowestProperties DEF Competitive
  <2> HIDE DEF above
  <2> QED BY <2>1, <1>1, <1>2, <1>5, <1>8 DEF Competitive
<1>9. ASSUME Quantity > 1 /\ ~SlotsFull(z) PROVE Cardinality(above) < Quantity
  <2>1. above \subseteq Entrants(z)
    BY <1>1, <1>2, <1>9
  <2>2. Cardinality(above) <= Cardinality(Entrants(z)) /\ Cardinality(above) \in Nat
    BY <2>1, <1>3, FS_Subset, FS_CardinalityType
  <2> HIDE DEF above
  <2> QED BY <2>2, <1>3, <1>9 DEF SlotsFull
<1>10. Cardinality(above) < Quantity
  <2>1. z[b] = 0 \/ z[b] > 0
    BY <1>1, <1>2
  <2> HIDE DEF above
  <2> QED BY <2>1, <1>3, <1>6, <1>7, <1>8, <1>9
<1> QED BY <1>10

(* An accepted bid leaves sound slots, the right floor and the best bids.  *)
LEMMA AcceptedKeepsBidding ==
  ASSUME NEW a, NEW z, NEW h, NEW b, NEW amount, Accepted(a, z, h, b, amount),
         NEW after, after = BidsAfter(z, b, amount),
         NEW new, new = HashAfter(a, z, b, amount),
         NEW best, best = [h EXCEPT ![b] = amount]
  PROVE  /\ new \in AuctionHash /\ after \in BidSet /\ best \in BidSet
         /\ new.status = a.status
         /\ BiddingSound(new, after, best)
<1>1. /\ b \in Bidders /\ amount \in Nat \ {0} /\ amount > StartBid
      /\ a \in AuctionHash /\ z \in BidSet /\ h \in BidSet
  BY AcceptedBid, AcceptedBidCompetes, Zenon DEF Accepted
<1>2. /\ after \in BidSet
      /\ after[b] = amount
      /\ b \in Entrants(after)
      /\ \A c \in Entrants(after) \ {b} : c \in Entrants(z) /\ after[c] = z[c]
      /\ Quantity > 1 => Cardinality(Entrants(after)) <= Quantity
      /\ \A d \in Bidders \ Entrants(after) : h[d] > 0 =>
           SlotsFull(after) /\ \A c \in Entrants(after) : h[d] <= after[c]
  BY AcceptedSlots
<1>3. FloorShown(new, after) /\ new.current \in Nat
  BY AcceptedFloor, Zenon
<1>4. SlotsSound(a, z) /\ HoldBest(z, h)
  BY DEF Accepted, BiddingSound
<1>5. new \in AuctionHash /\ new.status = a.status /\ new.bidder = b
  <2> DEFINE floor == NewFloor(a, z, b, amount)
  <2>1. new = [a EXCEPT !.current = floor, !.bidder = b, !.version = @ + 1]
    BY DEF HashAfter
  <2>2. floor \in Nat
    BY <1>1, <1>3, <2>1 DEF AuctionHash
  <2>3. a.version + 1 \in Nat
    BY <1>1 DEF AuctionHash
  <2> HIDE DEF floor
  <2> QED BY <1>1, <2>1, <2>2, <2>3 DEF AuctionHash
<1>6. /\ best \in BidSet
      /\ best[b] = amount
      /\ \A c \in Bidders \ {b} : best[c] = h[c]
  BY <1>1 DEF BidSet
<1>7. SlotsSound(new, after)
  <2>1. \A c \in Entrants(after) : after[c] > StartBid
    BY <1>1, <1>2, <1>4 DEF SlotsSound
  <2>2. new.bidder # NoBidder
    BY <1>1, <1>5, BiddersAssumption
  <2> QED BY <2>1, <2>2, <1>2 DEF SlotsSound
<1>8. HoldBest(after, best)
  <2>1. \A c \in Entrants(after) : after[c] = best[c]
    BY <1>1, <1>2, <1>4, <1>6, EntrantsFinite DEF HoldBest
  <2>2. ASSUME NEW d \in Bidders \ Entrants(after), best[d] > 0
        PROVE  SlotsFull(after) /\ \A c \in Entrants(after) : best[d] <= best[c]
    <3>1. d # b /\ h[d] = best[d]
      BY <1>2, <1>6
    <3> QED BY <3>1, <2>1, <2>2, <1>2
  <2> QED BY <2>1, <2>2 DEF HoldBest
<1> QED BY <1>2, <1>3, <1>5, <1>6, <1>7, <1>8 DEF BiddingSound

(* With one winner, the amount exceeds every bid by the increment.         *)
LEMMA RaiseIsEnough ==
  ASSUME NEW a, NEW z, NEW h, NEW b, NEW amount, Accepted(a, z, h, b, amount),
         Quantity = 1, NEW c \in Bidders, h[c] > 0
  PROVE  amount >= h[c] + MinIncrement
<1>1. /\ amount \in Nat
      /\ ~IncrementTooSmall(a, z, b, amount)
      /\ amount > PriceToBeat(a, z, b)
  BY AcceptedBid, Zenon
<1>2. /\ z \in BidSet /\ h \in BidSet /\ h[c] \in Nat /\ a.current \in Nat
      /\ MinIncrement \in Nat
  BY RulesAssumption DEF Accepted, BidSet, AuctionHash
<1>3. h[c] <= a.current
  <2>1. /\ \A d \in Entrants(z) : z[d] = h[d] /\ d \in Bidders
        /\ c \notin Entrants(z) =>
             SlotsFull(z) /\ \A d \in Entrants(z) : h[c] <= h[d]
    BY DEF Accepted, BiddingSound, HoldBest, Entrants
  <2>2. \A d \in Entrants(z) : h[d] <= a.current
    BY <2>1 DEF Accepted, BiddingSound, FloorShown
  <2>3. SlotsFull(z) => Entrants(z) # {}
    BY RulesAssumption, FS_EmptySet DEF SlotsFull
  <2>4. CASE c \notin Entrants(z)
    <3>1. PICK d \in Entrants(z) : h[c] <= h[d]
      BY <2>1, <2>3, <2>4
    <3>2. h[d] \in Nat
      BY <1>2, <2>1 DEF BidSet
    <3> QED BY <3>1, <3>2, <2>2, <1>2
  <2> QED BY <2>2, <2>4
<1>4. amount > a.current
  BY <1>1 DEF PriceToBeat
<1>5. MinIncrement > 0 => amount >= a.current + MinIncrement
  BY <1>1, <1>2, <1>3 DEF IncrementTooSmall, IncrementApplies, PriceToBeat
<1> QED BY <1>1, <1>2, <1>3, <1>4, <1>5

(* The close script reads a choice of winners: no more than there are to   *)
(* award, all bidders when there are too few, nobody left out above one.   *)
LEMMA WinnersAreBest ==
  ASSUME NEW a \in AuctionHash, NEW z \in BidSet, NEW h \in BidSet,
         BiddingSound(a, z, h)
  PROVE  \E W \in SUBSET Bidders :
           /\ WinnersRead(a, z) = [b \in Bidders |-> IF b \in W THEN h[b] ELSE 0]
           /\ W \subseteq Entrants(h)
           /\ Cardinality(W) <= Quantity
           /\ Cardinality(W) < Quantity => W = Entrants(h)
           /\ \A w \in W, c \in Entrants(h) \ W : h[c] <= h[w]
           /\ W = {} => Entrants(h) = {}
<1> DEFINE W == IF Quantity = 1 /\ Entrants(z) = {} THEN {} ELSE TopEntrants(z)
<1>1. /\ \A c \in Bidders : z[c] \in Nat /\ h[c] \in Nat
      /\ \A c \in Entrants(z) : z[c] = h[c] /\ c \in Bidders /\ h[c] > 0
      /\ \A d \in Bidders \ Entrants(z) : h[d] > 0 =>
           SlotsFull(z) /\ \A c \in Entrants(z) : h[d] <= h[c]
      /\ Quantity > 1 => Cardinality(Entrants(z)) <= Quantity
      /\ a.bidder = NoBidder <=> Entrants(z) = {}
  BY DEF BiddingSound, HoldBest, SlotsSound, BidSet, Entrants
<1>2. Quantity \in Nat \ {0} /\ Cardinality(Entrants(z)) \in Nat
  BY RulesAssumption, EntrantsFinite
<1>3. ~SlotsFull(z) => Entrants(h) = Entrants(z)
  BY <1>1 DEF Entrants
<1>4. Entrants(z) \subseteq Entrants(h)
  BY <1>1 DEF Entrants
<1>5. /\ W \subseteq Entrants(z)
      /\ Cardinality(W) <= Quantity
      /\ Cardinality(W) < Quantity => W = Entrants(h)
      /\ \A w \in W, c \in Entrants(z) \ W : h[c] <= h[w]
      /\ W = {} => Entrants(h) = {}
  <2>1. CASE Quantity > 1
    <3>1. W = Entrants(z)
      BY <1>1, <2>1, TopOfFewEntrants
    <3>2. W = {} => ~SlotsFull(z)
      BY <3>1, <1>2, FS_EmptySet DEF SlotsFull
    <3> HIDE DEF W
    <3> QED BY <3>1, <3>2, <1>1, <1>2, <1>3, <2>1 DEF SlotsFull
  <2>2. CASE Quantity = 1 /\ Entrants(z) = {}
    <3>1. W = {} /\ Cardinality({}) = 0
      BY <2>2, FS_EmptySet
    <3>2. ~SlotsFull(z)
      BY <3>1, <2>2 DEF SlotsFull
    <3> HIDE DEF W
    <3> QED BY <3>1, <3>2, <1>3, <2>2
  <2>3. CASE Quantity = 1 /\ Entrants(z) # {}
    <3>1. PICK t \in Entrants(z) :
            TopEntrants(z) = {t} /\ \A c \in Entrants(z) : z[c] <= z[t]
      BY <2>3, TopOfOneWinner
    <3>2. W = {t} /\ Cardinality({t}) = 1
      BY <3>1, <2>3, FS_Singleton
    <3> HIDE DEF W
    <3> QED BY <3>1, <3>2, <1>1, <2>3
  <2> QED BY <1>2, <2>1, <2>2, <2>3
<1>6. ASSUME NEW w \in W, NEW c \in Entrants(h) \ W
      PROVE  h[c] <= h[w]
  <2>1. c \in Bidders /\ h[c] > 0 /\ w \in Entrants(z)
    BY <1>5 DEF Entrants
  <2> HIDE DEF W
  <2> QED BY <2>1, <1>1, <1>5, <1>6
<1>7. WinnersRead(a, z) = [c \in Bidders |-> IF c \in W THEN h[c] ELSE 0]
  <2>1. CASE Quantity = 1 /\ Entrants(z) = {}
    <3>1. a.bidder \notin Bidders
      BY <2>1, <1>1, BiddersAssumption
    <3> QED BY <2>1, <3>1 DEF WinnersRead
  <2>2. CASE ~(Quantity = 1 /\ Entrants(z) = {})
    <3>1. WinnersRead(a, z) = [c \in Bidders |-> IF c \in W THEN z[c] ELSE 0]
      BY <2>2 DEF WinnersRead
    <3> HIDE DEF W
    <3> QED BY <3>1, <1>1, <1>5
  <2> QED BY <2>1, <2>2
<1>8. W \in SUBSET Bidders
  BY <1>5, <1>1
<1> HIDE DEF W
<1> QED BY <1>4, <1>5, <1>6, <1>7, <1>8

(* Closing and reopening leave what bidding kept.                          *)
LEMMA ClosingKeepsBidding ==
  ASSUME NEW a \in AuctionHash, NEW z, NEW h, BiddingSound(a, z, h),
         NEW new \in {ClosedHash(a), ReopenedHash(a)}
  PROVE  /\ BiddingSound(new, z, h)
         /\ WinnersRead(new, z) = WinnersRead(a, z)
<1>1. new.current = a.current /\ new.bidder = a.bidder
  BY DEF ClosedHash, ReopenedHash, AuctionHash
<1> QED BY <1>1 DEF BiddingSound, SlotsSound, FloorShown, WinnersRead

(* Nobody has bid on a new auction.                                        *)
LEMMA NoBiddingYet ==
  ASSUME NEW a \in AuctionHash, a.current = StartBid, a.bidder = NoBidder
  PROVE  BiddingSound(a, NoBids, NoBids) /\ NoBids \in BidSet
<1>1. NoBids \in BidSet /\ Entrants(NoBids) = {} /\ Cardinality({}) = 0
  BY FS_EmptySet DEF NoBids, BidSet, Entrants
<1>2. StartBid \in Nat /\ Quantity \in Nat \ {0}
  BY RulesAssumption
<1>3. HoldBest(NoBids, NoBids)
  BY <1>1 DEF HoldBest, NoBids
<1> QED BY <1>1, <1>2, <1>3 DEF BiddingSound, SlotsSound, FloorShown, SlotsFull
=============================================================================
