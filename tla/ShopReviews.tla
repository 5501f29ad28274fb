----------------------------- MODULE ShopReviews -----------------------------
(***************************************************************************)
(* The shop service and the accounts that use it: one shop with its items, *)
(* and the reviews of one auction.  The handlers believe the role that is  *)
(* in the token.  UpdateShop reads the shop, maybe an old copy, and puts   *)
(* it back as a whole.  CreateReview asks the payment service, looks for a *)
(* review of the same buyer in an index that lags behind the table, and    *)
(* saves under a key that is always new.                                   *)
(***************************************************************************)
EXTENDS UserAccounts

CONSTANTS
  ReviewCalls,   \* calls of POST /shops/{id}/reviews
  UpdateCalls    \* calls of PUT /shops/{id}

VARIABLES
  shop,         \* the item of table Shops: the owner, 0 if there is none
  replica,      \* a copy of it that an eventually consistent read may get
  items,        \* who added items to the shop
  payment,      \* the status of the payment of each account for the auction
  reviews,      \* the table Reviews, by the call that saved the review
  reviewIndex,  \* its index on auction and reviewer
  review,       \* the calls of CreateReview
  update,       \* the calls of UpdateShop
  early         \* history: a lookup of a review came too early

shopState == <<shop, replica, items, payment, reviews, reviewIndex, review, update, early>>
vars == <<accounts, faults, shopState>>

NoShop   == 0
NoReview == [by |-> 0]
Review   == [by : Ids, replied : BOOLEAN]

ReviewCall == [stage : {"new", "pay", "look", "save", "done"}, by : Ids \cup {0}]
UpdateCall == [stage : {"new", "put", "done"}, read : Ids \cup {NoShop}]

Init ==
  /\ InitAccounts
  /\ shop = NoShop /\ replica = NoShop /\ items = {}
  /\ payment = [i \in Ids |-> "none"]
  /\ reviews = [c \in ReviewCalls |-> NoReview] /\ reviewIndex = {}
  /\ review = [c \in ReviewCalls |-> [stage |-> "new", by |-> 0]]
  /\ update = [c \in UpdateCalls |-> [stage |-> "new", read |-> NoShop]]
  /\ early = FALSE

IsSeller(d) == token[d].role = "seller"
ReadShop    == {shop, replica}
Written     == {c \in ReviewCalls : reviews[c] # NoReview}

-----------------------------------------------------------------------------
(* Shops and items *)

(* A failed PutItem leaves no shop, or one that the owner was not told of. *)
CreateShop(d) ==
  /\ IsSeller(d) /\ shop = NoShop
  /\ NoFault \/ Fault
  /\ shop' = token[d].id
  /\ UNCHANGED <<replica, items, payment, reviews, reviewIndex, review, update, early>>

Replicate ==
  /\ replica # shop
  /\ replica' = shop
  /\ UNCHANGED <<shop, items, payment, reviews, reviewIndex, review, update, early, faults>>

(* FindShopByID, and the check of the owner. *)
UpdateReads(c, d) ==
  /\ update[c].stage = "new" /\ IsSeller(d)
  /\ \E s \in ReadShop :
       update' = [update EXCEPT ![c] =
         IF s = token[d].id
           THEN [stage |-> "put", read |-> s]
           ELSE [stage |-> "done", read |-> NoShop]]
  /\ UNCHANGED <<shop, replica, items, payment, reviews, reviewIndex, review, early, faults>>

(* SaveShop puts back the whole item, the owner with it. *)
UpdatePuts(c) ==
  /\ update[c].stage = "put"
  /\ \/ NoFault /\ shop' = update[c].read
     \/ Fault /\ shop' \in {shop, update[c].read}
  /\ update' = [update EXCEPT ![c] = [stage |-> "done", read |-> NoShop]]
  /\ UNCHANGED <<replica, items, payment, reviews, reviewIndex, review, early>>

CreateItem(d) ==
  /\ IsSeller(d)
  /\ token[d].id \in ReadShop
  /\ items' = items \cup {token[d].id}
  /\ UNCHANGED <<shop, replica, payment, reviews, reviewIndex, review, update, early, faults>>

-----------------------------------------------------------------------------
(* Reviews *)

(* An auction of an item was won by the account, and the payment completes. *)
Pay(i) ==
  /\ items # {} /\ users[i] # NoAccount
  /\ payment[i] \in {"none", "pending"}
  /\ payment' = [payment EXCEPT ![i] = IF @ = "none" THEN "pending" ELSE "completed"]
  /\ UNCHANGED <<shop, replica, items, reviews, reviewIndex, review, update, early, faults>>

ReviewGoes(c, stage) == review' = [review EXCEPT ![c].stage = stage]
ReviewEnds(c) == review' = [review EXCEPT ![c] = [stage |-> "done", by |-> 0]]

(* Every account may review, the shop must exist. *)
ReviewStarts(c, d) ==
  /\ review[c].stage = "new" /\ token[d] # NoToken
  /\ \E s \in ReadShop : IF s = NoShop THEN ReviewEnds(c)
                         ELSE review' = [review EXCEPT ![c] = [stage |-> "pay", by |-> token[d].id]]
  /\ UNCHANGED <<shop, replica, items, payment, reviews, reviewIndex, update, early, faults>>

(* hasCompletedPayment: the payment service returns one payment of the     *)
(* auction, whoever asks, or none or an old one while its index lags.      *)
CheckPayment(c) ==
  /\ review[c].stage = "pay"
  /\ \/ /\ NoFault
        /\ \/ payment[review[c].by] = "completed" /\ ReviewGoes(c, "look")
           \/ ReviewEnds(c)
     \/ Fault /\ ReviewEnds(c)
  /\ UNCHANGED <<shop, replica, items, payment, reviews, reviewIndex, update, early>>

Reviewed(c) == \E w \in reviewIndex : reviews[w].by = review[c].by

(* Another review of the buyer is saved or about to be. *)
Pending(c) ==
  \/ \E w \in Written : reviews[w].by = review[c].by
  \/ \E q \in ReviewCalls : review[q].stage = "save" /\ review[q].by = review[c].by

(* Mutant: a failed lookup is taken for "no review", as at registration.   *)
LookupReviewIgnoresError(c) ==
  /\ review[c].stage = "look"
  /\ \/ NoFault /\ IF Reviewed(c) THEN ReviewEnds(c) ELSE ReviewGoes(c, "save")
     \/ Fault /\ ReviewGoes(c, "save")
  /\ early' = (early \/ (~Reviewed(c) /\ Pending(c)))
  /\ UNCHANGED <<shop, replica, items, payment, reviews, reviewIndex, update>>

(* FindReviewByAuctionAndReviewer; an error ends the call. *)
LookupReview(c) ==
  /\ review[c].stage = "look"
  /\ \/ NoFault /\ IF Reviewed(c) THEN ReviewEnds(c) ELSE ReviewGoes(c, "save")
     \/ Fault /\ ReviewEnds(c)
  /\ early' = (early \/ (~Reviewed(c) /\ Pending(c)))
  /\ UNCHANGED <<shop, replica, items, payment, reviews, reviewIndex, update>>

(* PutItem without a condition; its reply may be lost. *)
SaveReview(c) ==
  LET saved == [reviews EXCEPT ![c] = [by |-> review[c].by, replied |-> FALSE]] IN
  /\ review[c].stage = "save"
  /\ ReviewEnds(c)
  /\ \/ NoFault /\ reviews' = saved
     \/ Fault /\ reviews' \in {reviews, saved}
  /\ UNCHANGED <<shop, replica, items, payment, reviewIndex, update, early>>

IndexReview(c) ==
  /\ c \in Written \ reviewIndex
  /\ reviewIndex' = reviewIndex \cup {c}
  /\ UNCHANGED <<shop, replica, items, payment, reviews, review, update, early, faults>>

(* The owner answers a review of the shop; the owner never changes and a   *)
(* review is never deleted, so the checks hold until UpdateItem.           *)
ReplyToReview(c, d) ==
  /\ IsSeller(d)
  /\ token[d].id \in ReadShop
  /\ c \in Written
  /\ reviews' = [reviews EXCEPT ![c].replied = TRUE]
  /\ UNCHANGED <<shop, replica, items, payment, reviewIndex, review, update, early, faults>>

-----------------------------------------------------------------------------
ShopNext ==
  \/ \E d \in Devices :
       \/ CreateShop(d) \/ CreateItem(d)
       \/ \E c \in UpdateCalls : UpdateReads(c, d)
       \/ \E c \in ReviewCalls : ReviewStarts(c, d) \/ ReplyToReview(c, d)
  \/ \E c \in UpdateCalls : UpdatePuts(c)
  \/ \E c \in ReviewCalls : CheckPayment(c) \/ LookupReview(c) \/ SaveReview(c) \/ IndexReview(c)
  \/ \E i \in Ids : Pay(i)
  \/ Replicate

Next ==
  \/ AccountsNext /\ UNCHANGED shopState
  \/ ShopNext /\ UNCHANGED accounts

Spec == Init /\ [][Next]_vars
-----------------------------------------------------------------------------
(* Every variable has the values that its item or call can hold. *)
TypeOK ==
  /\ AccountsTypeOK
  /\ shop \in Ids \cup {NoShop} /\ replica \in Ids \cup {NoShop} /\ items \subseteq Ids
  /\ payment \in [Ids -> {"none", "pending", "completed"}]
  /\ reviews \in [ReviewCalls -> Review \cup {NoReview}]
  /\ reviewIndex \subseteq Written
  /\ review \in [ReviewCalls -> ReviewCall]
  /\ update \in [UpdateCalls -> UpdateCall]
  /\ early \in BOOLEAN

(* A shop and its items belong to one account, a seller's, although the    *)
(* handlers only see the role of the token and a shop that may be old, and *)
(* whoever updates the shop puts back all of it.                           *)
OwnersAreSellers ==
  /\ shop # NoShop => users[shop].role = "seller"
  /\ items \subseteq {shop}

(* Whoever reviews has paid, with two accounts of one person as well.      *)
ReviewersHavePaid == \A c \in Written : payment[reviews[c].by] = "completed"

(* What the copies and the calls know: a shop that was read is the shop,   *)
(* whose owner never changes, and a payment that completed stays so.       *)
CallsAgree ==
  /\ replica \in {NoShop, shop}
  /\ \A c \in UpdateCalls : update[c].stage = "put" =>
       update[c].read = shop /\ shop # NoShop
  /\ \A c \in ReviewCalls :
       /\ review[c].stage \in {"pay", "look", "save"} => review[c].by \in Ids
       /\ review[c].stage \in {"look", "save"} => payment[review[c].by] = "completed"

(* The inductive invariant: roles, shops and reviews agree with the        *)
(* accounts and the payments that they rest on.                            *)
MarketInv ==
  /\ TypeOK
  /\ AccountsAgree /\ CallsAgree
  /\ RolesHold /\ OwnersAreSellers /\ ReviewersHavePaid

(* A buyer reviews an auction once, unless a second call was let through   *)
(* before the review of the first was in the index.                        *)
OneReviewPerBuyer ==
  ~early => \A c, e \in Written : reviews[c].by = reviews[e].by => c = e

(* The inductive invariant behind it: a buyer whose review is about to be  *)
(* saved has no other, saved or about to be.                               *)
SavingReview == {c \in ReviewCalls : review[c].stage = "save"}

BuyersFree ==
  ~early =>
    /\ \A c, e \in Written : reviews[c].by = reviews[e].by => c = e
    /\ \A c, e \in SavingReview : review[c].by = review[e].by => c = e
    /\ \A c \in SavingReview, w \in Written : review[c].by # reviews[w].by
=============================================================================
