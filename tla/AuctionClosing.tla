--------------------------- MODULE AuctionClosing ---------------------------
(***************************************************************************)
(* Opening and closing one auction on several instances of the auction     *)
(* service.  Every instance runs a closer, whose ticks list the expired    *)
(* auctions and then the pending ones; the seller may ask any instance to  *)
(* close the auction as well.  All of them run Service.CloseAuction: the   *)
(* close script, the DynamoDB fallback, the event or the rollback, the     *)
(* persisted copy and the cleanup are separate calls, between which other  *)
(* workers, and bids, take steps.  A bid is one step here: what happens    *)
(* between the steps of PlaceBid is the subject of module BidPlacement.    *)
(***************************************************************************)
EXTENDS AuctionScripts, Sequences

CONSTANTS
  Instances,    \* instances of the service, each with its closer
  SellerCalls,  \* calls of POST /auctions/:id/close
  Amounts,      \* the amounts that users bid
  Scheduled,    \* TRUE for an auction created with a scheduled_start
  Faults,       \* what may go wrong: members of FaultKinds
  MaxFaults,    \* bound: how often something goes wrong, besides lag
  MaxBids       \* bound: accepted bids

FaultKinds ==
  {"create",         \* the item of a new auction is not written
   "winners",        \* setting a winner fails, or replaces the whole map
   "lag",            \* a read of the item may return an old copy
   "close_reply",    \* the reply of the close script is lost
   "publish",        \* XADD fails
   "publish_reply",  \* XADD appends the event and its reply is lost
   "rollback", "fallback", "persist", "cleanup", "rebuild",   \* that call fails
   "crash"}          \* an instance stops and is replaced

ASSUME WorkersAssumption == Instances \cap SellerCalls = {}
ASSUME ClosingAmountsAssumption == Amounts \subseteq Nat \ {0}
ASSUME ScheduledAssumption == Scheduled \in BOOLEAN
ASSUME FaultsAssumption ==
  Faults \subseteq FaultKinds /\ MaxFaults \in Nat /\ MaxBids \in Nat

VARIABLES
  auction,    \* the Redis hash auction:{id}
  bids,       \* the Redis sorted set auction:{id}:bids
  active,     \* whether the Redis set auctions:active has the auction
  item,       \* the DynamoDB item
  replica,    \* the copy of it that lags behind most, which a read may return
  writing,    \* bids that a goroutine is still to copy to the item
  clock,      \* "scheduled", "running" or "ended": now and start and end time
  worker,     \* the closers and the calls of the seller
  events,     \* the stream auction:closed
  faults,     \* how often something went wrong
  best        \* history: the best bid accepted from each bidder

vars == <<auction, bids, active, item, replica, writing, clock, worker, events, faults, best>>

redis == <<auction, bids, active>>

Workers == Instances \cup SellerCalls

Stages == {"idle", "closing", "fallback", "publishing", "rollback", "reading",
           "saving", "cleanup", "pending", "opening", "done"}

(* host is the instance that runs the worker, winners what the close       *)
(* script or the fallback returned, copy the hash that is to be persisted. *)
Worker == [stage : Stages, host : Instances, winners : BidSet, copy : AuctionHash]

Item == [status : Statuses, winners : BidSet, current : Nat,
         bidder : Bidders \cup {NoBidder}, version : Nat]

(* toDynamo: a hash has no winners map, so its copy has an empty one. *)
ItemOf(a) == [status |-> a.status, winners |-> NoBids, current |-> a.current,
              bidder |-> a.bidder, version |-> a.version]

NoItem == [status |-> "MISSING", winners |-> NoBids, current |-> 0,
           bidder |-> NoBidder, version |-> 0]

(* CreateAuction, with its write-through to DynamoDB, whose failure is     *)
(* only logged.                                                            *)
NewAuction ==
  [status |-> IF Scheduled THEN "PENDING" ELSE "OPEN",
   current |-> StartBid, bidder |-> NoBidder, version |-> 0]

Init ==
  /\ auction = NewAuction
  /\ bids = NoBids
  /\ active = TRUE
  /\ \/ faults = 0 /\ item = ItemOf(NewAuction)
     \/ "create" \in Faults /\ MaxFaults > 0 /\ faults = 1 /\ item = NoItem
  /\ replica = item \/ ("lag" \in Faults /\ replica = NoItem)
  /\ writing = {}
  /\ clock = IF Scheduled THEN "scheduled" ELSE "running"
  /\ worker \in [Workers -> {[stage |-> "idle", host |-> i, winners |-> NoBids,
                              copy |-> NewAuction] : i \in Instances}]
  /\ \A i \in Instances : worker[i].host = i
  /\ events = << >>
  /\ best = NoBids

-----------------------------------------------------------------------------
(* Steps of the workers and of the calls they make. *)

Goto(w, stage) == worker' = [worker EXCEPT ![w].stage = stage]

(* Where CloseAuction returns to: a closer goes on with the pending        *)
(* auctions, a call of the seller is answered.                             *)
AfterClosing(w) == IF w \in Instances THEN "pending" ELSE "done"

Reset(w, stage) ==
  worker' = [worker EXCEPT ![w] = [@ EXCEPT !.stage = stage, !.winners = NoBids,
                                            !.copy = NewAuction]]

Return(w) == Reset(w, AfterClosing(w))

Fault(kind) == kind \in Faults /\ faults < MaxFaults /\ faults' = faults + 1

NoFault == UNCHANGED faults

ItemBecomes(new) ==
  item' = new /\ (replica' = new \/ ("lag" \in Faults /\ UNCHANGED replica))

(* UpdateItem makes an item where there is none. *)
Upserted(it) == [it EXCEPT !.status = IF @ = "MISSING" THEN "BLANK" ELSE @]

-----------------------------------------------------------------------------
(* The world outside: time, bids and the goroutines that bids leave.       *)

Tick ==
  /\ clock # "ended"
  /\ clock' = IF clock = "scheduled" THEN "running" ELSE "ended"
  /\ UNCHANGED <<redis, item, replica, writing, worker, events, faults, best>>

PlaceBid(b, amount) ==
  /\ auction.version < MaxBids
  /\ Verdict(auction, bids, b, amount) = "accepted"
  /\ auction' = HashAfter(auction, bids, b, amount)
  /\ bids' = BidsAfter(bids, b, amount)
  /\ best' = [best EXCEPT ![b] = amount]
  /\ writing' = writing \cup {<<b, amount>>}
  /\ UNCHANGED <<active, item, replica, clock, worker, events, faults>>

(* The goroutine sets its entry of the winners map; on any error, and that *)
(* there is no item is one, it replaces the whole map by its entry, which  *)
(* may fail as well.                                                       *)
UpdateDynamoWinner(b, amount) ==
  LET written(map) == ItemBecomes([Upserted(item) EXCEPT !.winners = map]) IN
  /\ <<b, amount>> \in writing
  /\ writing' = writing \ {<<b, amount>>}
  /\ \/ NoFault /\ written([item.winners EXCEPT ![b] = amount])
     \/ Fault("winners") /\ written([NoBids EXCEPT ![b] = amount])
     \/ Fault("winners") /\ UNCHANGED <<item, replica>>
  /\ UNCHANGED <<redis, clock, worker, events, best>>

(* The copies of DynamoDB catch up. *)
Replicate ==
  /\ replica # item /\ replica' = item
  /\ UNCHANGED <<redis, item, writing, clock, worker, events, faults, best>>

-----------------------------------------------------------------------------
(* The closer. *)

(* checkExpired: List walks the active set and keeps the open auctions. *)
CheckExpired(i) ==
  /\ worker[i].stage = "idle"
  /\ Goto(i, IF active /\ auction.status = "OPEN" /\ clock = "ended"
               THEN "closing" ELSE "pending")
  /\ UNCHANGED <<redis, item, replica, writing, clock, events, faults, best>>

(* Mutant: an auction whose whole window was missed is not opened. *)
CheckPendingInWindow(i) ==
  /\ worker[i].stage = "pending"
  /\ Goto(i, IF active /\ auction.status = "PENDING" /\ clock = "running"
               THEN "opening" ELSE "idle")
  /\ UNCHANGED <<redis, item, replica, writing, clock, events, faults, best>>

(* checkPending: the same for auctions whose start time has come. *)
CheckPending(i) ==
  /\ worker[i].stage = "pending"
  /\ Goto(i, IF active /\ auction.status = "PENDING" /\ clock # "scheduled"
               THEN "opening" ELSE "idle")
  /\ UNCHANGED <<redis, item, replica, writing, clock, events, faults, best>>

(* OpenAuction sets the status without looking at it again. *)
OpenAuction(i) ==
  /\ worker[i].stage = "opening"
  /\ auction' = [auction EXCEPT !.status = "OPEN"]
  /\ Goto(i, "idle")
  /\ UNCHANGED <<bids, active, item, replica, writing, clock, events, faults, best>>

(* The seller's request, on some instance. *)
SellerCloses(c) ==
  /\ worker[c].stage = "idle"
  /\ Goto(c, "closing")
  /\ UNCHANGED <<redis, item, replica, writing, clock, events, faults, best>>

-----------------------------------------------------------------------------
(* CloseAuction *)

CloseRefused(w) ==
  /\ worker[w].stage = "closing"
  /\ auction.status # "OPEN"
  /\ Return(w)
  /\ UNCHANGED <<redis, item, replica, writing, clock, events, faults, best>>

AtomicCloseAndReadWinners(w) ==
  LET winners == WinnersRead(auction, bids) IN
  /\ worker[w].stage = "closing"
  /\ auction.status = "OPEN"
  /\ auction' = ClosedHash(auction)
  /\ \/ /\ NoFault
        /\ worker' = [worker EXCEPT
             ![w].winners = winners,
             ![w].stage   = IF winners = NoBids THEN "fallback" ELSE "publishing"]
     \/ Fault("close_reply") /\ Return(w)
  /\ UNCHANGED <<bids, active, item, replica, writing, clock, events, best>>

Solely(b, amount) == [c \in Bidders |-> IF c = b THEN amount ELSE 0]

(* Mutant: any entry of the map is taken for the winner. *)
DynamoWinnersOfAny(it) ==
  IF Entrants(it.winners) = {} THEN {Solely(it.bidder, it.current)}
  ELSE {Solely(b, it.winners[b]) : b \in Entrants(it.winners)}

(* What GetDynamoWinners or GetDynamoAllWinners may return: for one winner *)
(* a highest entry of the map, for several all entries, and without any    *)
(* the bidder of the item.                                                 *)
DynamoWinners(it) ==
  LET entries == Entrants(it.winners) IN
  IF entries = {}      THEN {Solely(it.bidder, it.current)}
  ELSE IF Quantity = 1 THEN {Solely(b, it.winners[b]) :
         b \in {e \in entries : \A c \in entries : it.winners[c] <= it.winners[e]}}
  ELSE {it.winners}

ReadDynamoWinners(w) ==
  /\ worker[w].stage = "fallback"
  /\ \/ /\ NoFault
        /\ \E winners \in DynamoWinners(item) \cup DynamoWinners(replica) :
             worker' = [worker EXCEPT ![w].winners = winners,
                                      ![w].stage = "publishing"]
     \/ Fault("fallback") /\ Goto(w, "publishing")
  /\ UNCHANGED <<redis, item, replica, writing, clock, events, best>>

(* An error rolls the close back, whether or not the event was appended. *)
PublishAuctionClosed(w) ==
  LET sent == Append(events, worker[w].winners) IN
  /\ worker[w].stage = "publishing"
  /\ \/ NoFault /\ events' = sent /\ Goto(w, "reading")
     \/ Fault("publish") /\ UNCHANGED events /\ Goto(w, "rollback")
     \/ Fault("publish_reply") /\ events' = sent /\ Goto(w, "rollback")
  /\ UNCHANGED <<redis, item, replica, writing, clock, best>>

(* Mutant: the cleanup runs in any case. *)
RollbackAndCleanup(w) ==
  /\ worker[w].stage = "rollback"
  /\ \/ NoFault /\ auction' = ReopenedHash(auction)
     \/ Fault("rollback") /\ UNCHANGED auction
  /\ Return(w)
  /\ active' = FALSE /\ bids' = NoBids
  /\ UNCHANGED <<item, replica, writing, clock, events, best>>

(* A failure of the rollback is only logged. *)
RollbackClose(w) ==
  /\ worker[w].stage = "rollback"
  /\ \/ NoFault /\ auction' = ReopenedHash(auction)
     \/ Fault("rollback") /\ UNCHANGED auction
  /\ Return(w)
  /\ UNCHANGED <<bids, active, item, replica, writing, clock, events, best>>

(* PersistClosedState reads the hash and replaces the whole item.  When    *)
(* there is no hash, or it cannot be read, it only sets the status of the  *)
(* item, which may fail as well.                                           *)
ReadFinalState(w) ==
  /\ worker[w].stage = "reading"
  /\ \/ /\ auction.status # "MISSING" /\ NoFault /\ UNCHANGED <<item, replica>>
        /\ worker' = [worker EXCEPT ![w].copy  = ClosedHash(auction),
                                    ![w].stage = "saving"]
     \/ /\ (auction.status = "MISSING" /\ NoFault) \/ Fault("persist")
        /\ ItemBecomes([item EXCEPT !.status = "CLOSED"])
        /\ Goto(w, "cleanup")
     \/ Fault("persist") /\ UNCHANGED <<item, replica>> /\ Goto(w, "cleanup")
  /\ UNCHANGED <<redis, writing, clock, events, best>>

SaveFinalState(w) ==
  /\ worker[w].stage = "saving"
  /\ \/ NoFault /\ ItemBecomes(ItemOf(worker[w].copy))
     \/ Fault("persist") /\ UNCHANGED <<item, replica>>
  /\ Goto(w, "cleanup")
  /\ UNCHANGED <<redis, writing, clock, events, best>>

(* Mutant: the auction stays in the active set. *)
CleanupBidsOnly(w) ==
  /\ worker[w].stage = "cleanup"
  /\ \/ NoFault /\ bids' = NoBids
     \/ Fault("cleanup") /\ UNCHANGED bids
  /\ Return(w)
  /\ UNCHANGED <<auction, active, item, replica, writing, clock, events, best>>

(* The hash stays readable for a day, the sorted set goes at once. *)
CleanupRedis(w) ==
  /\ worker[w].stage = "cleanup"
  /\ \/ NoFault /\ active' = FALSE /\ bids' = NoBids
     \/ Fault("cleanup") /\ UNCHANGED <<active, bids>>
  /\ Return(w)
  /\ UNCHANGED <<auction, item, replica, writing, clock, events, best>>

(* An instance stops: its workers lose their state, a new closer starts,   *)
(* its callers get no answer, and goroutines that ran on it are gone.      *)
Crash(i) ==
  /\ Fault("crash")
  /\ worker' = [w \in Workers |->
       IF worker[w].host # i \/ (w \in SellerCalls /\ worker[w].stage = "idle")
         THEN worker[w]
         ELSE [worker[w] EXCEPT !.stage = IF w \in Instances THEN "idle" ELSE "done",
                                !.winners = NoBids, !.copy = NewAuction]]
  /\ writing' \in SUBSET writing
  /\ UNCHANGED <<redis, item, replica, clock, events, best>>

-----------------------------------------------------------------------------
WorkerStep(w) ==
  \/ CloseRefused(w) \/ AtomicCloseAndReadWinners(w) \/ ReadDynamoWinners(w)
  \/ PublishAuctionClosed(w) \/ RollbackClose(w)
  \/ ReadFinalState(w) \/ SaveFinalState(w) \/ CleanupRedis(w)

CloserStep(i) == CheckExpired(i) \/ CheckPending(i) \/ OpenAuction(i) \/ WorkerStep(i)

Next ==
  \/ Tick \/ Replicate
  \/ \E b \in Bidders, amount \in Amounts :
       PlaceBid(b, amount) \/ UpdateDynamoWinner(b, amount)
  \/ \E i \in Instances : CloserStep(i) \/ Crash(i)
  \/ \E c \in SellerCalls : SellerCloses(c) \/ WorkerStep(c)

Spec == Init /\ [][Next]_vars

(* Time passes, a closer ticks every second and the calls it makes return, *)
(* a request that runs goes on.  Neither bids nor the seller must come.    *)
Fairness ==
  /\ WF_vars(Tick)
  /\ \A i \in Instances : WF_vars(CloserStep(i))
  /\ \A c \in SellerCalls : WF_vars(WorkerStep(c))

FairSpec == Spec /\ Fairness

-----------------------------------------------------------------------------
(* Every variable has the values that its key, item or worker can hold. *)
Typed ==
  /\ auction \in AuctionHash
  /\ bids \in BidSet
  /\ active \in BOOLEAN
  /\ item \in Item /\ replica \in Item
  /\ writing \subseteq Bidders \X Amounts
  /\ clock \in {"scheduled", "running", "ended"}
  /\ worker \in [Workers -> Worker]
  /\ events \in Seq(BidSet)
  /\ faults \in 0..MaxFaults
  /\ best \in BidSet

(* And as long as Redis keeps its keys, the hash is there. *)
TypeOK == Typed /\ auction.status # "MISSING"

(* Closers of all instances, the seller and failed publications race, and  *)
(* still one auction:closed event is sent: whoever charges on it, charges  *)
(* once.                                                                   *)
OneAnnouncement == Len(events) <= 1

(* An event is final: the status of an announced auction stays CLOSED, so  *)
(* that no bid can be accepted after its winners were told.                *)
AnnouncedIsClosed == events # << >> => auction.status = "CLOSED"

(* Every event awards the auction to the best bids accepted by anyone, no  *)
(* matter how many closes were rolled back, with bids in between, before.  *)
Awarded(e) == {b \in Bidders : e[b] > 0}
Bid        == {b \in Bidders : best[b] > 0}

EventsNameTheBest ==
  \A k \in DOMAIN events : LET e == events[k] IN
    /\ \A b \in Awarded(e) : e[b] = best[b]
    /\ \A b \in Awarded(e), c \in Bid \ Awarded(e) : best[c] <= best[b]
    /\ Cardinality(Awarded(e)) <= Quantity
    /\ Cardinality(Awarded(e)) < Quantity => Awarded(e) = Bid

(* Until the event is out, nothing is released that a retry needs: the     *)
(* auction stays in the set that closers list, its bids stay in Redis and  *)
(* the item does not say CLOSED.                                           *)
NothingReleasedEarly ==
  events = << >> =>
    /\ active
    /\ item.status # "CLOSED"
    /\ \A b \in Bid : bids[b] > 0 \/ SlotsFull(bids)

(* The workers that will still announce the auction or reopen it. *)
Holders == {w \in Workers :
  worker[w].stage \in {"fallback", "publishing", "rollback"}}

(* One closer at most opens the auction: it was created open, or there is  *)
(* one instance.  With two, OpenAuction may come after the close.          *)
OneOpener == Scheduled => \A i, j \in Instances : i = j

(* Why there is one event, also when instances crash: every worker that    *)
(* will still publish or roll back holds an auction that is closed and not *)
(* announced, and no two do; a closed auction opens only by a rollback, as *)
(* a closer that is about to open one still finds it pending.              *)
SaleInv ==
  /\ TypeOK
  /\ auction.status = "PENDING" => Scheduled
  /\ \A w \in Workers : worker[w].stage = "opening" =>
       w \in Instances /\ auction.status = "PENDING"
  /\ Holders # {} => auction.status = "CLOSED" /\ events = << >>
  /\ \A v, w \in Holders : v = w
  /\ AnnouncedIsClosed
  /\ OneAnnouncement

(* Why the event names the best, too: bidding stays sound until the event, *)
(* nothing is released before it, a holder carries what the close script   *)
(* would still read, and the fallback finds no bid in the item, as there   *)
(* is none; afterwards the event stays what the best bids are.             *)
Undisturbed ==
  /\ active /\ item.status # "CLOSED"
  /\ BiddingSound(auction, bids, best)
  /\ \A w \in Workers : worker[w].stage \notin {"reading", "saving", "cleanup"}
  /\ \A w \in Holders : worker[w].winners = WinnersRead(auction, bids)
  /\ \A w \in Holders : worker[w].stage = "fallback" => Entrants(best) = {}
  /\ \A p \in writing : p[1] \in Entrants(best)
  /\ \A it \in {item, replica} :
       Entrants(it.winners) \subseteq Entrants(best) /\ it.bidder = NoBidder

(* e is an award of the Quantity best bids. *)
AwardsBest(e) == \E W \in SUBSET Bidders :
  /\ e = [b \in Bidders |-> IF b \in W THEN best[b] ELSE 0]
  /\ W \subseteq Entrants(best)
  /\ Cardinality(W) <= Quantity
  /\ Cardinality(W) < Quantity => W = Entrants(best)
  /\ \A w \in W, c \in Entrants(best) \ W : best[c] <= best[w]

ClosingInv ==
  /\ SaleInv
  /\ events = << >> => Undisturbed
  /\ events # << >> => AwardsBest(events[1])

(* The closers end every auction: once its end time is past, the event is  *)
(* sent, also when publications fail and are rolled back and whether or    *)
(* not the seller calls.                                                   *)
EveryAuctionEnds == (clock = "ended") ~> (events # << >>)

(* ... and in the end DynamoDB says so too and Redis is released.          *)
Released == auction.status = "CLOSED" /\ item.status = "CLOSED" /\ ~active
EndsReleased == <>[]Released

(* The whole protocol implements the ledger, as the scripts do alone: what *)
(* a close will award is what its script reads, until the event says it.   *)
Ledger == INSTANCE AuctionLedger WITH
  phase   <- IF events # << >> THEN "announced"
             ELSE IF auction.status = "CLOSED" THEN "closed" ELSE "open",
  awarded <- IF events # << >> THEN events[1]
             ELSE IF auction.status = "CLOSED"
               THEN WinnersRead(auction, bids) ELSE NoBids

RefinesLedger == Ledger!Spec
=============================================================================
