------------------------ MODULE AuctionClosing_proofs ------------------------
(***************************************************************************)
(* For any number of instances, seller calls, winners and bids: an auction *)
(* that one closer at most opens is announced at most once, whatever       *)
(* crashes, fails or is retried, as long as an XADD that reports an error  *)
(* did not append.  The announcement names the best bids, Redis is         *)
(* released only after it, and every step is a step of the auction ledger. *)
(*                                                                         *)
(* With a Redis that loses the hash, and any number of readers that        *)
(* rebuild it from the item: no winner gets a price that was not bid, an   *)
(* announced auction that only expires is never open again, and the lead   *)
(* outlives a restart unless somebody bids on the rebuilt hash.            *)
(***************************************************************************)
EXTENDS AuctionCache, AuctionScripts_proofs

(* The placement script leaves a hash and a sorted set.                    *)
LEMMA PlacingKeepsTypes ==
  ASSUME NEW a \in AuctionHash, NEW z \in BidSet,
         NEW b \in Bidders, NEW amount \in Nat \ {0}
  PROVE  /\ BidsAfter(z, b, amount) \in BidSet
         /\ HashAfter(a, z, b, amount) \in AuctionHash
         /\ HashAfter(a, z, b, amount).status = a.status
<1> DEFINE after == BidsAfter(z, b, amount)
<1>1. after \in BidSet
  <2>1. WithBid(z, b, amount) \in BidSet
    BY WithBidProperties
  <2> QED BY <2>1 DEF BidsAfter, BidSet
<1>2. NewFloor(a, z, b, amount) \in Nat
  <2>1. SlotsFull(after) => after[Lowest(after)] \in Nat
    <3>1. SlotsFull(after) => Entrants(after) # {}
      BY FS_EmptySet, RulesAssumption DEF SlotsFull
    <3>2. Entrants(after) # {} => Lowest(after) \in Entrants(after)
      BY <1>1, LowestProperties
    <3> HIDE DEF after
    <3> QED BY <1>1, <3>1, <3>2 DEF Entrants, BidSet
  <2>2. a.current \in Nat
    BY DEF AuctionHash
  <2> HIDE DEF after
  <2>3. Quantity = 1 \/ Quantity > 1
    BY RulesAssumption
  <2>4. NewFloor(a, z, b, amount) =
          CASE Quantity = 1                     -> amount
            [] Quantity > 1 /\ SlotsFull(after)  -> after[Lowest(after)]
            [] Quantity > 1 /\ ~SlotsFull(after) -> a.current
    BY DEF NewFloor, after
  <2> QED BY <2>1, <2>2, <2>3, <2>4
<1>3. a.version + 1 \in Nat
  BY DEF AuctionHash
<1> HIDE DEF after
<1>4. /\ HashAfter(a, z, b, amount) \in AuctionHash
      /\ HashAfter(a, z, b, amount).status = a.status
  BY <1>2, <1>3 DEF HashAfter, AuctionHash
<1> QED BY <1>1, <1>4 DEF after

(* The close script and the fallback return bids, the rollback a hash.     *)
LEMMA ClosingKeepsTypes ==
  ASSUME NEW a \in AuctionHash, NEW z \in BidSet, NEW it \in Item
  PROVE  /\ WinnersRead(a, z) \in BidSet
         /\ DynamoWinners(it) \subseteq BidSet
         /\ ClosedHash(a) \in AuctionHash /\ ClosedHash(a).status = "CLOSED"
         /\ ReopenedHash(a) \in AuctionHash
         /\ a.status # "CLOSED" => ReopenedHash(a) = a
         /\ a.status = "CLOSED" => ReopenedHash(a).status = "OPEN"
         /\ ItemOf(a) \in Item
<1>1. WinnersRead(a, z) \in BidSet
  BY DEF WinnersRead, AuctionHash, BidSet
<1>2. DynamoWinners(it) \subseteq BidSet
  <2>1. it.winners \in BidSet /\ it.current \in Nat
    BY DEF Item
  <2>2. \A b, amount : amount \in Nat => Solely(b, amount) \in BidSet
    BY DEF Solely, BidSet
  <2>3. \A b \in Entrants(it.winners) : it.winners[b] \in Nat
    BY <2>1 DEF Entrants, BidSet
  <2> QED BY <2>1, <2>2, <2>3 DEF DynamoWinners
<1>3. /\ ClosedHash(a) \in AuctionHash /\ ClosedHash(a).status = "CLOSED"
      /\ ReopenedHash(a) \in AuctionHash
      /\ a.status # "CLOSED" => ReopenedHash(a) = a
      /\ a.status = "CLOSED" => ReopenedHash(a).status = "OPEN"
  BY DEF ClosedHash, ReopenedHash, AuctionHash, Statuses
<1>4. ItemOf(a) \in Item
  BY DEF ItemOf, Item, AuctionHash, NoBids, BidSet
<1> QED BY <1>1, <1>2, <1>3, <1>4

-----------------------------------------------------------------------------
(* Types *)

(* A new auction has the types.                                            *)
LEMMA InitTypes == Init => TypeOK
<1> SUFFICES ASSUME Init PROVE TypeOK
  OBVIOUS
<1>1. NewAuction \in AuctionHash /\ NewAuction.status \in {"PENDING", "OPEN"}
  BY RulesAssumption DEF NewAuction, AuctionHash, Statuses
<1>2. NoBids \in BidSet
  BY DEF NoBids, BidSet
<1>3. {ItemOf(NewAuction), NoItem} \subseteq Item
  BY <1>1, <1>2 DEF ItemOf, NoItem, Item, AuctionHash, Statuses
<1>4. worker \in [Workers -> Worker]
  BY <1>1, <1>2 DEF Init, Worker, Stages
<1>5. item \in Item /\ replica \in Item /\ faults \in 0..MaxFaults
  BY <1>3, FaultsAssumption DEF Init
<1> QED BY <1>1, <1>2, <1>4, <1>5 DEF Init, TypeOK, Typed

(* The copies of the item come from the item.                              *)
Follows == replica' \in {replica, item, item'}

LEMMA WorkerFollows ==
  ASSUME NEW w \in Workers, WorkerStep(w)
  PROVE  Follows
BY DEF Follows, WorkerStep, CloseRefused, AtomicCloseAndReadWinners, ReadDynamoWinners,
       PublishAuctionClosed, RollbackClose, ReadFinalState, SaveFinalState, CleanupRedis,
       ItemBecomes

LEMMA ReplicaFollows == [Next]_vars => Follows
<1> SUFFICES ASSUME [Next]_vars PROVE Follows
  OBVIOUS
<1>1. ASSUME NEW i \in Instances, CloserStep(i) PROVE Follows
  BY <1>1, WorkerFollows DEF CloserStep, Workers, Follows, CheckExpired, CheckPending,
     OpenAuction
<1>2. ASSUME NEW c \in SellerCalls, SellerCloses(c) \/ WorkerStep(c) PROVE Follows
  BY <1>2, WorkerFollows DEF Workers, Follows, SellerCloses
<1>3. ASSUME NEW b \in Bidders, NEW amount \in Amounts,
             PlaceBid(b, amount) \/ UpdateDynamoWinner(b, amount)
      PROVE  Follows
  BY <1>3 DEF Follows, PlaceBid, UpdateDynamoWinner, ItemBecomes
<1>4. ASSUME NEW i \in Instances, Crash(i) PROVE Follows
  BY <1>4 DEF Follows, Crash
<1>5. CASE Tick \/ Replicate \/ UNCHANGED vars
  BY <1>5 DEF Follows, Tick, Replicate, vars
<1> QED BY <1>1, <1>2, <1>3, <1>4, <1>5 DEF Next

(* What the goroutine of a bid writes: its entry, beside the others or     *)
(* alone.                                                                  *)
LEMMA CopyWrites ==
  ASSUME item \in Item, NEW b \in Bidders, NEW amount \in Nat, UpdateDynamoWinner(b, amount)
  PROVE  /\ item' \in Item
         /\ item'.bidder = item.bidder /\ item'.current = item.current
         /\ item'.status = item.status \/ item'.status = "BLANK"
         /\ item.status # "MISSING" => item'.status = item.status
         /\ \A c \in Bidders : item'.winners[c] \in {item.winners[c], 0} \/ c = b
         /\ item'.winners[b] \in {item.winners[b], amount}
         /\ faults' = faults \/ Fault("winners")
<1>1. item.winners \in BidSet /\ NoBids \in BidSet
  BY DEF Item, NoBids, BidSet
<1>2. CASE UNCHANGED <<item, replica>> /\ Fault("winners")
  BY <1>2
<1>3. ASSUME NEW map \in {[item.winners EXCEPT ![b] = amount], [NoBids EXCEPT ![b] = amount]},
             item' = [Upserted(item) EXCEPT !.winners = map]
      PROVE  /\ item' \in Item
             /\ item'.bidder = item.bidder /\ item'.current = item.current
             /\ item'.status = item.status \/ item'.status = "BLANK"
             /\ item.status # "MISSING" => item'.status = item.status
             /\ item'.winners = map
  <2>1. map \in BidSet
    BY <1>1 DEF BidSet
  <2> QED BY <1>3, <2>1 DEF Upserted, Item, Statuses
<1>4. \A map \in {[item.winners EXCEPT ![b] = amount], [NoBids EXCEPT ![b] = amount]} :
        /\ \A c \in Bidders : map[c] \in {item.winners[c], 0} \/ c = b
        /\ map[b] = amount
  BY <1>1 DEF BidSet, NoBids
<1> QED BY <1>2, <1>3, <1>4 DEF UpdateDynamoWinner, ItemBecomes, NoFault

(* One worker changes its record, everyone else keeps it.                  *)
LEMMA WorkerUpdates ==
  ASSUME worker \in [Workers -> Worker], NEW w \in Workers
  PROVE  /\ \A s \in Stages : [worker EXCEPT ![w].stage = s] \in [Workers -> Worker]
         /\ \A s \in Stages, z \in BidSet :
              [worker EXCEPT ![w].winners = z, ![w].stage = s] \in [Workers -> Worker]
         /\ \A s \in Stages, a \in AuctionHash :
              [worker EXCEPT ![w].copy = a, ![w].stage = s] \in [Workers -> Worker]
         /\ \A s \in Stages :
              [worker EXCEPT ![w] = [@ EXCEPT !.stage = s, !.winners = NoBids,
                                              !.copy = NewAuction]] \in [Workers -> Worker]
<1>1. NewAuction \in AuctionHash
  BY RulesAssumption DEF NewAuction, AuctionHash, Statuses
<1>2. NoBids \in BidSet
  BY DEF NoBids, BidSet
<1> QED BY <1>1, <1>2 DEF Worker

(* The steps of a worker, and what each may do to the shared state.        *)
LEMMA WorkerKeepsTypes ==
  ASSUME Typed, NEW w \in Workers, WorkerStep(w)
  PROVE  Typed'
<1>1. /\ auction \in AuctionHash /\ bids \in BidSet /\ worker \in [Workers -> Worker]
      /\ item \in Item /\ replica \in Item
      /\ worker[w].winners \in BidSet /\ worker[w].copy \in AuctionHash
      /\ events \in Seq(BidSet) /\ active \in BOOLEAN /\ best \in BidSet
      /\ writing \subseteq Bidders \X Amounts
      /\ clock \in {"scheduled", "running", "ended"}
      /\ faults \in 0..MaxFaults
  BY DEF Typed, Worker
<1> Follows
  BY WorkerFollows
<1>2. ASSUME NEW kind, Fault(kind) PROVE faults' \in 0..MaxFaults
  BY <1>1, <1>2, FaultsAssumption DEF Fault
<1>3. NoFault => faults' \in 0..MaxFaults
  BY <1>1 DEF NoFault
<1>4. Return(w) => worker' \in [Workers -> Worker]
  <2>1. AfterClosing(w) \in Stages
    BY DEF AfterClosing, Stages
  <2>2. [worker EXCEPT ![w] = [@ EXCEPT !.stage = AfterClosing(w), !.winners = NoBids,
                                        !.copy = NewAuction]] \in [Workers -> Worker]
    BY <1>1, <2>1, WorkerUpdates
  <2> QED BY <2>2 DEF Return, Reset
<1>5. ASSUME NEW s \in Stages, Goto(w, s) PROVE worker' \in [Workers -> Worker]
  <2>1. [worker EXCEPT ![w].stage = s] \in [Workers -> Worker]
    BY <1>1, WorkerUpdates
  <2> QED BY <1>5, <2>1 DEF Goto
<1>6. CASE CloseRefused(w)
  BY <1>1, <1>4, <1>6 DEF CloseRefused, Typed, redis
<1>7. CASE AtomicCloseAndReadWinners(w)
  <2>1. /\ ClosedHash(auction) \in AuctionHash /\ ClosedHash(auction).status = "CLOSED"
        /\ WinnersRead(auction, bids) \in BidSet
    BY <1>1, ClosingKeepsTypes
  <2>2. worker' \in [Workers -> Worker] /\ faults' \in 0..MaxFaults
    <3>1. CASE NoFault /\ worker' = [worker EXCEPT
                 ![w].winners = WinnersRead(auction, bids),
                 ![w].stage   = IF WinnersRead(auction, bids) = NoBids
                                  THEN "fallback" ELSE "publishing"]
      BY <1>1, <1>3, <2>1, <3>1, WorkerUpdates DEF Stages
    <3>2. CASE Fault("close_reply") /\ Return(w)
      BY <1>2, <1>4, <3>2
    <3> QED BY <1>7, <3>1, <3>2 DEF AtomicCloseAndReadWinners
  <2> QED BY <1>1, <1>7, <2>1, <2>2 DEF AtomicCloseAndReadWinners, Typed
<1>8. CASE ReadDynamoWinners(w)
  <2>1. DynamoWinners(item) \cup DynamoWinners(replica) \subseteq BidSet
    BY <1>1, ClosingKeepsTypes
  <2>2. worker' \in [Workers -> Worker] /\ faults' \in 0..MaxFaults
    <3>1. CASE /\ NoFault
               /\ \E winners \in DynamoWinners(item) \cup DynamoWinners(replica) :
                    worker' = [worker EXCEPT ![w].winners = winners,
                                          ![w].stage = "publishing"]
      <4>1. PICK winners \in DynamoWinners(item) \cup DynamoWinners(replica) :
              worker' = [worker EXCEPT ![w].winners = winners, ![w].stage = "publishing"]
        BY <3>1
      <4>2. winners \in BidSet /\ "publishing" \in Stages
        BY <2>1 DEF Stages
      <4>3. [worker EXCEPT ![w].winners = winners, ![w].stage = "publishing"]
              \in [Workers -> Worker]
        BY <1>1, <4>2, WorkerUpdates
      <4> QED BY <1>3, <3>1, <4>1, <4>3
    <3>2. CASE Fault("fallback") /\ Goto(w, "publishing")
      BY <1>2, <1>5, <3>2 DEF Stages
    <3> QED BY <1>8, <3>1, <3>2 DEF ReadDynamoWinners
  <2> QED BY <1>1, <1>8, <2>2 DEF ReadDynamoWinners, Typed, redis
<1>9. CASE PublishAuctionClosed(w)
  <2>1. Append(events, worker[w].winners) \in Seq(BidSet)
    BY <1>1
  <2>2. events' \in Seq(BidSet)
    BY <1>1, <1>9, <2>1 DEF PublishAuctionClosed
  <2>3. worker' \in [Workers -> Worker] /\ faults' \in 0..MaxFaults
    BY <1>2, <1>3, <1>5, <1>9 DEF PublishAuctionClosed, Stages
  <2> QED BY <1>1, <1>9, <2>2, <2>3 DEF PublishAuctionClosed, Typed, redis
<1>10. CASE RollbackClose(w)
  <2>1. ReopenedHash(auction) \in AuctionHash
    BY <1>1, ClosingKeepsTypes
  <2>2. auction' \in AuctionHash
    BY <1>1, <1>10, <2>1 DEF RollbackClose
  <2>3. faults' \in 0..MaxFaults
    BY <1>2, <1>3, <1>10 DEF RollbackClose
  <2> QED BY <1>1, <1>4, <1>10, <2>2, <2>3 DEF RollbackClose, Typed
<1>11. CASE ReadFinalState(w)
  <2>1. CASE /\ NoFault /\ UNCHANGED <<item, replica>>
             /\ worker' = [worker EXCEPT ![w].copy  = ClosedHash(auction),
                                         ![w].stage = "saving"]
    <3>1. worker' \in [Workers -> Worker]
      BY <1>1, <2>1, ClosingKeepsTypes, WorkerUpdates DEF Stages
    <3> QED BY <1>1, <1>3, <1>11, <2>1, <3>1 DEF ReadFinalState, Typed, redis
  <2>2. CASE /\ NoFault \/ Fault("persist")
             /\ ItemBecomes([item EXCEPT !.status = "CLOSED"]) \/ UNCHANGED <<item, replica>>
             /\ Goto(w, "cleanup")
    <3>1. item' \in Item
      BY <1>1, <2>2 DEF ItemBecomes, Item, Statuses
    <3>2. worker' \in [Workers -> Worker] /\ faults' \in 0..MaxFaults
      BY <1>1, <1>2, <1>3, <1>5, <2>2 DEF Stages
    <3> QED BY <1>1, <1>11, <2>2, <3>1, <3>2 DEF ReadFinalState, Typed, redis, Follows
  <2> QED BY <1>11, <2>1, <2>2 DEF ReadFinalState
<1>12. CASE SaveFinalState(w)
  <2>1. ItemOf(worker[w].copy) \in Item
    BY <1>1, ClosingKeepsTypes
  <2>2. item' \in Item /\ faults' \in 0..MaxFaults /\ worker' \in [Workers -> Worker]
    BY <1>1, <1>2, <1>3, <1>5, <1>12, <2>1 DEF SaveFinalState, ItemBecomes, Stages
  <2> QED BY <1>1, <1>12, <2>2 DEF SaveFinalState, Typed, redis, Follows
<1>13. CASE CleanupRedis(w)
  <2>1. NoBids \in BidSet
    BY DEF NoBids, BidSet
  <2>2. active' \in BOOLEAN /\ bids' \in BidSet /\ faults' \in 0..MaxFaults
    <3>1. CASE NoFault /\ active' = FALSE /\ bids' = NoBids
      BY <1>3, <2>1, <3>1
    <3>2. CASE Fault("cleanup") /\ UNCHANGED <<active, bids>>
      BY <1>1, <1>2, <3>2
    <3> QED BY <1>13, <3>1, <3>2 DEF CleanupRedis
  <2> QED BY <1>1, <1>4, <1>13, <2>2 DEF CleanupRedis, Typed
<1> QED BY <1>6, <1>7, <1>8, <1>9, <1>10, <1>11, <1>12, <1>13 DEF WorkerStep

(* All other steps.                                                        *)
LEMMA StepKeepsTyped == Typed /\ [Next]_vars => Typed'
<1> SUFFICES ASSUME Typed, [Next]_vars PROVE Typed'
  OBVIOUS
<1>1. /\ auction \in AuctionHash /\ bids \in BidSet /\ worker \in [Workers -> Worker]
      /\ item \in Item /\ replica \in Item
      /\ events \in Seq(BidSet) /\ active \in BOOLEAN /\ best \in BidSet
      /\ writing \subseteq Bidders \X Amounts
      /\ clock \in {"scheduled", "running", "ended"}
      /\ faults \in 0..MaxFaults
  BY DEF Typed
<1>2. ASSUME NEW w \in Workers, NEW s \in Stages, Goto(w, s)
      PROVE  worker' \in [Workers -> Worker]
  <2>1. [worker EXCEPT ![w].stage = s] \in [Workers -> Worker]
    BY <1>1, WorkerUpdates
  <2> QED BY <1>2, <2>1 DEF Goto
<1>3. CASE Tick \/ Replicate
  BY <1>1, <1>3 DEF Tick, Replicate, Typed, redis
<1>4. ASSUME NEW b \in Bidders, NEW amount \in Amounts, PlaceBid(b, amount)
      PROVE  Typed'
  <2>1. amount \in Nat \ {0}
    BY ClosingAmountsAssumption
  <2>2. auction' \in AuctionHash /\ bids' \in BidSet
    BY <1>1, <1>4, <2>1, PlacingKeepsTypes DEF PlaceBid
  <2>3. best' \in BidSet
    BY <1>1, <1>4, <2>1 DEF PlaceBid, BidSet
  <2> QED BY <1>1, <1>4, <2>2, <2>3 DEF PlaceBid, Typed
<1>5. ASSUME NEW b \in Bidders, NEW amount \in Amounts, UpdateDynamoWinner(b, amount)
      PROVE  Typed'
  <2>1. amount \in Nat
    BY ClosingAmountsAssumption
  <2>2. item' \in Item /\ (faults' = faults \/ Fault("winners"))
    BY <1>1, <1>5, <2>1, CopyWrites
  <2>3. faults' \in 0..MaxFaults
    BY <1>1, <2>2, FaultsAssumption DEF Fault
  <2>4. replica' \in Item
    BY <1>1, <1>5, <2>2 DEF UpdateDynamoWinner, ItemBecomes
  <2> QED BY <1>1, <1>5, <2>2, <2>3, <2>4 DEF UpdateDynamoWinner, Typed, redis
<1>6. ASSUME NEW i \in Instances, CheckExpired(i) PROVE Typed'
  BY <1>1, <1>2, <1>6 DEF CheckExpired, Typed, redis, Workers, Stages
<1>7. ASSUME NEW i \in Instances, CheckPending(i) PROVE Typed'
  BY <1>1, <1>2, <1>7 DEF CheckPending, Typed, redis, Workers, Stages
<1>8. ASSUME NEW i \in Instances, OpenAuction(i) PROVE Typed'
  <2>1. auction' \in AuctionHash
    BY <1>1, <1>8 DEF OpenAuction, AuctionHash, Statuses
  <2> QED BY <1>1, <1>2, <1>8, <2>1 DEF OpenAuction, Typed, Workers, Stages
<1>9. ASSUME NEW c \in SellerCalls, SellerCloses(c) PROVE Typed'
  BY <1>1, <1>2, <1>9 DEF SellerCloses, Typed, redis, Workers, Stages
<1>10. ASSUME NEW i \in Instances, Crash(i) PROVE Typed'
  <2>1. NewAuction \in AuctionHash /\ NoBids \in BidSet
    BY RulesAssumption DEF NewAuction, AuctionHash, Statuses, NoBids, BidSet
  <2>2. \A w \in Workers, s \in Stages :
          [worker[w] EXCEPT !.stage = s, !.winners = NoBids, !.copy = NewAuction] \in Worker
    BY <1>1, <2>1 DEF Worker
  <2>3. worker' \in [Workers -> Worker]
    BY <1>1, <1>10, <2>2 DEF Crash, Stages
  <2>4. faults' \in 0..MaxFaults
    <3>1. Fault("crash")
      BY <1>10 DEF Crash
    <3> QED BY <1>1, <3>1, FaultsAssumption DEF Fault
  <2> QED BY <1>1, <1>10, <2>3, <2>4 DEF Crash, Typed, redis
<1>11. ASSUME UNCHANGED vars PROVE Typed'
  BY <1>1, <1>11 DEF vars, Typed
<1> QED BY <1>3, <1>4, <1>5, <1>6, <1>7, <1>8, <1>9, <1>10, <1>11, WorkerKeepsTypes
     DEF Next, CloserStep, Workers

(* No step of the service deletes the hash.                                *)
LEMMA HashStays ==
  ASSUME Typed, [Next]_vars, auction.status # "MISSING"
  PROVE  auction'.status # "MISSING"
<1>1. auction \in AuctionHash /\ bids \in BidSet /\ item \in Item /\ replica \in Item
  BY DEF Typed
<1>2. ASSUME NEW b \in Bidders, NEW amount \in Amounts, PlaceBid(b, amount)
      PROVE  auction'.status # "MISSING"
  BY <1>1, <1>2, ClosingAmountsAssumption, PlacingKeepsTypes DEF PlaceBid
<1>3. ASSUME NEW i \in Instances, OpenAuction(i) PROVE auction'.status # "MISSING"
  BY <1>1, <1>3 DEF OpenAuction, AuctionHash
<1>4. ASSUME NEW w \in Workers, WorkerStep(w) PROVE auction'.status # "MISSING"
  <2>1. auction' \in {auction, ClosedHash(auction), ReopenedHash(auction)}
    BY <1>4 DEF WorkerStep, CloseRefused, AtomicCloseAndReadWinners, ReadDynamoWinners,
         PublishAuctionClosed, RollbackClose, ReadFinalState, SaveFinalState, CleanupRedis,
         redis
  <2> QED BY <1>1, <2>1, ClosingKeepsTypes
<1> QED BY <1>2, <1>3, <1>4 DEF Next, vars, redis, Tick, Replicate, UpdateDynamoWinner,
           CloserStep, CheckExpired, CheckPending, Crash, SellerCloses, Workers

LEMMA StepKeepsTypes == TypeOK /\ [Next]_vars => TypeOK'
BY StepKeepsTyped, HashStays DEF TypeOK

(* Every key, item, worker and event has its type in every run.            *)
THEOREM ClosingTypes == Spec => []TypeOK
BY InitTypes, StepKeepsTypes, PTL DEF Spec

-----------------------------------------------------------------------------
(* One announcement.  The close script hands the auction to one worker,    *)
(* who gives it back (rollback), announces it, or crashes with it; in no   *)
(* case does anyone else get past the script meanwhile or afterwards.      *)

HolderStages == {"fallback", "publishing", "rollback"}

(* A worker that moves between other stages leaves the holders as they are.*)
LEMMA SameHolders ==
  ASSUME worker \in [Workers -> Worker], NEW w \in Workers,
         NEW s \in Stages, worker[w].stage \notin HolderStages, s \notin HolderStages,
         worker' \in [Workers -> Worker], worker'[w].stage = s,
         \A v \in Workers \ {w} : worker'[v] = worker[v]
  PROVE  Holders' = Holders
BY DEF Holders, HolderStages

(* What a step of one worker does to the stage of that worker only.        *)
LEMMA StageAfter ==
  ASSUME worker \in [Workers -> Worker], NEW w \in Workers, NEW s \in Stages
  PROVE  /\ Goto(w, s) \/ Reset(w, s) => /\ worker'[w].stage = s
                                         /\ \A v \in Workers \ {w} : worker'[v] = worker[v]
BY DEF Goto, Reset, Worker

(* The steps that touch neither the status nor the stream.                 *)
LEMMA QuietStep ==
  ASSUME SaleInv, TypeOK', auction'.status = auction.status, UNCHANGED events,
         \A w \in Workers : worker'[w].stage = "opening" => worker[w].stage = "opening",
         Holders' \subseteq Holders
  PROVE  SaleInv'
BY DEF SaleInv, AnnouncedIsClosed, OneAnnouncement

(* No step of a worker in CloseAuction gives the sale a second holder, or  *)
(* an announced auction one.                                               *)
LEMMA WorkerKeepsSale ==
  ASSUME SaleInv, TypeOK', "publish_reply" \notin Faults, NEW w \in Workers, WorkerStep(w)
  PROVE  SaleInv'
<1>1. /\ worker \in [Workers -> Worker] /\ worker' \in [Workers -> Worker]
      /\ auction \in AuctionHash /\ bids \in BidSet /\ item \in Item /\ replica \in Item
      /\ events \in Seq(BidSet)
  BY DEF SaleInv, TypeOK, Typed
<1>2. \A v \in Workers : worker[v].stage = "opening" =>
        v \in Instances /\ auction.status = "PENDING"
  BY DEF SaleInv
<1>3. w \in Holders => Holders = {w} /\ auction.status = "CLOSED" /\ events = << >>
  BY DEF SaleInv, Holders
<1>4. worker[w].stage \in HolderStages <=> w \in Holders
  BY DEF Holders, HolderStages
<1>5. AfterClosing(w) \in Stages \ HolderStages /\ AfterClosing(w) # "opening"
  BY DEF AfterClosing, Stages, HolderStages
<1>6. \A v \in Workers : v \in Holders' <=> worker'[v].stage \in HolderStages
  BY DEF Holders, HolderStages
<1>7. Return(w) => /\ worker'[w].stage = AfterClosing(w)
                   /\ \A v \in Workers \ {w} : worker'[v] = worker[v]
  BY <1>1, <1>5, StageAfter DEF Return
<1>8. CASE CloseRefused(w)
  <2>1. Holders' = Holders
    BY <1>1, <1>5, <1>7, <1>8, SameHolders DEF CloseRefused, HolderStages
  <2> QED BY <1>2, <1>5, <1>7, <1>8, <2>1, QuietStep DEF CloseRefused, redis
<1>9. CASE AtomicCloseAndReadWinners(w)
  <2>1. auction.status = "OPEN" /\ Holders = {} /\ events = << >>
    BY <1>9 DEF AtomicCloseAndReadWinners, SaleInv, AnnouncedIsClosed
  <2>2. auction'.status = "CLOSED" /\ events' = << >>
    BY <1>1, <1>9, <2>1, ClosingKeepsTypes DEF AtomicCloseAndReadWinners
  <2>3. /\ \A v \in Workers \ {w} : worker'[v] = worker[v]
        /\ worker'[w].stage # "opening"
    <3>1. CASE Return(w)
      BY <3>1, <1>5, <1>7
    <3>2. CASE worker' = [worker EXCEPT
                 ![w].winners = WinnersRead(auction, bids),
                 ![w].stage   = IF WinnersRead(auction, bids) = NoBids
                                  THEN "fallback" ELSE "publishing"]
      BY <3>2, <1>1 DEF Worker
    <3> QED BY <1>9, <3>1, <3>2 DEF AtomicCloseAndReadWinners
  <2>4. Holders' \subseteq {w}
    BY <2>1, <2>3, <1>6 DEF Holders, HolderStages
  <2>5. \A v \in Workers : worker'[v].stage # "opening"
    BY <1>2, <2>1, <2>3
  <2> QED BY <2>2, <2>4, <2>5 DEF SaleInv, AnnouncedIsClosed, OneAnnouncement
<1>10. CASE ReadDynamoWinners(w)
  <2>1. w \in Holders
    BY <1>10 DEF ReadDynamoWinners, Holders
  <2>2. /\ \A v \in Workers \ {w} : worker'[v] = worker[v]
        /\ worker'[w].stage = "publishing"
    <3>1. CASE Goto(w, "publishing")
      BY <1>1, <3>1, StageAfter DEF Stages
    <3>2. CASE \E winners \in DynamoWinners(item) \cup DynamoWinners(replica) :
                 worker' = [worker EXCEPT ![w].winners = winners,
                                          ![w].stage = "publishing"]
      BY <3>2, <1>1 DEF Worker
    <3> QED BY <1>10, <3>1, <3>2 DEF ReadDynamoWinners
  <2>3. Holders' \subseteq Holders
    BY <2>1, <2>2, <1>3, <1>6 DEF Holders
  <2> QED BY <1>2, <1>10, <2>2, <2>3, QuietStep DEF ReadDynamoWinners, redis
<1>11. CASE PublishAuctionClosed(w)
  <2>1. w \in Holders
    BY <1>11 DEF PublishAuctionClosed, Holders
  <2>2. /\ auction' = auction /\ auction.status = "CLOSED" /\ events = << >>
    BY <1>3, <1>11, <2>1 DEF PublishAuctionClosed, redis
  <2>3. CASE events' = Append(events, worker[w].winners) /\ Goto(w, "reading")
    <3>1. Len(events') = 1 /\ events' # << >>
      BY <1>1, <2>2, <2>3
    <3>2. /\ \A v \in Workers \ {w} : worker'[v] = worker[v]
          /\ worker'[w].stage = "reading"
      BY <1>1, <2>3, StageAfter DEF Stages
    <3>3. Holders' = {}
      BY <3>2, <2>1, <1>3 DEF Holders
    <3>4. \A v \in Workers : worker'[v].stage # "opening"
      BY <1>2, <2>2, <3>2
    <3> QED BY <2>2, <3>1, <3>3, <3>4 DEF SaleInv, AnnouncedIsClosed, OneAnnouncement
  <2>4. CASE UNCHANGED events /\ Goto(w, "rollback")
    <3>1. /\ \A v \in Workers \ {w} : worker'[v] = worker[v]
          /\ worker'[w].stage = "rollback"
      BY <1>1, <2>4, StageAfter DEF Stages
    <3>2. Holders' \subseteq Holders
      BY <3>1, <2>1, <1>3 DEF Holders
    <3> QED BY <1>2, <2>2, <2>4, <3>1, <3>2, QuietStep
  <2> QED BY <1>11, <2>3, <2>4 DEF PublishAuctionClosed, Fault
<1>12. CASE RollbackClose(w)
  <2>1. w \in Holders
    BY <1>12 DEF RollbackClose, Holders
  <2>2. Holders' = {}
    BY <1>3, <1>5, <1>6, <1>7, <1>12, <2>1 DEF RollbackClose, Holders
  <2>3. events' = << >> /\ auction'.status # "PENDING"
    <3>1. CASE auction' = ReopenedHash(auction)
      BY <3>1, <1>1, <1>3, <1>12, <2>1, ClosingKeepsTypes DEF RollbackClose
    <3>2. CASE UNCHANGED auction
      BY <3>2, <1>3, <1>12, <2>1 DEF RollbackClose
    <3> QED BY <1>12, <3>1, <3>2 DEF RollbackClose
  <2>4. \A v \in Workers : worker'[v].stage # "opening"
    BY <1>2, <1>3, <1>5, <1>7, <1>12, <2>1 DEF RollbackClose
  <2> QED BY <2>2, <2>3, <2>4 DEF SaleInv, AnnouncedIsClosed, OneAnnouncement
<1>13. CASE ReadFinalState(w)
  <2>1. /\ \A v \in Workers \ {w} : worker'[v] = worker[v]
        /\ worker'[w].stage \in {"saving", "cleanup"}
    BY <1>1, <1>13, StageAfter DEF ReadFinalState, Worker, Stages
  <2>2. Holders' = Holders
    BY <1>1, <1>13, <2>1, SameHolders DEF ReadFinalState, HolderStages, Stages
  <2> QED BY <1>2, <1>13, <2>1, <2>2, QuietStep DEF ReadFinalState, redis
<1>14. CASE SaveFinalState(w)
  <2>1. /\ \A v \in Workers \ {w} : worker'[v] = worker[v]
        /\ worker'[w].stage = "cleanup"
    BY <1>1, <1>14, StageAfter DEF SaveFinalState, Stages
  <2>2. Holders' = Holders
    BY <1>1, <1>14, <2>1, SameHolders DEF SaveFinalState, HolderStages, Stages
  <2> QED BY <1>2, <1>14, <2>1, <2>2, QuietStep DEF SaveFinalState, redis
<1>15. CASE CleanupRedis(w)
  <2>1. Holders' = Holders
    BY <1>1, <1>5, <1>7, <1>15, SameHolders DEF CleanupRedis, HolderStages
  <2> QED BY <1>2, <1>5, <1>7, <1>15, <2>1, QuietStep DEF CleanupRedis
<1> QED BY <1>8, <1>9, <1>10, <1>11, <1>12, <1>13, <1>14, <1>15 DEF WorkerStep

(* Nor does any other step: ticks, bids, goroutines, closers, crashes.     *)
LEMMA StepKeepsSale ==
  ASSUME OneOpener, "publish_reply" \notin Faults
  PROVE  SaleInv /\ [Next]_vars => SaleInv'
<1> SUFFICES ASSUME SaleInv, [Next]_vars PROVE SaleInv'
  OBVIOUS
<1>1. TypeOK'
  BY StepKeepsTypes DEF SaleInv
<1>2. /\ worker \in [Workers -> Worker] /\ worker' \in [Workers -> Worker]
      /\ auction \in AuctionHash /\ bids \in BidSet
  BY <1>1 DEF SaleInv, TypeOK, Typed
<1>3. \A v \in Workers : worker[v].stage = "opening" =>
        v \in Instances /\ auction.status = "PENDING"
  BY DEF SaleInv
<1>4. CASE Tick \/ Replicate \/ UNCHANGED vars
  <2>1. UNCHANGED <<auction, worker, events>>
    BY <1>4 DEF Tick, Replicate, vars, redis
  <2> QED BY <1>1, <1>3, <2>1, QuietStep DEF Holders
<1>5. ASSUME NEW b \in Bidders, NEW amount \in Amounts,
             PlaceBid(b, amount) \/ UpdateDynamoWinner(b, amount)
      PROVE  SaleInv'
  <2>1. UNCHANGED <<worker, events>>
    BY <1>5 DEF PlaceBid, UpdateDynamoWinner
  <2>2. auction'.status = auction.status
    <3>1. CASE PlaceBid(b, amount)
      BY <3>1, <1>2, ClosingAmountsAssumption, PlacingKeepsTypes DEF PlaceBid
    <3> QED BY <1>5, <3>1 DEF UpdateDynamoWinner, redis
  <2> QED BY <1>1, <1>3, <2>1, <2>2, QuietStep DEF Holders
<1>6. ASSUME NEW i \in Instances, CheckExpired(i) \/ CheckPending(i) PROVE SaleInv'
  <2>1. i \in Workers /\ worker[i].stage \notin HolderStages
    BY <1>6 DEF CheckExpired, CheckPending, HolderStages, Workers
  <2>2. PICK s \in Stages \ HolderStages :
          Goto(i, s) /\ (s = "opening" => auction.status = "PENDING")
    BY <1>6 DEF CheckExpired, CheckPending, Stages, HolderStages
  <2>3. worker'[i].stage = s /\ \A v \in Workers \ {i} : worker'[v] = worker[v]
    BY <1>2, <2>1, <2>2, StageAfter
  <2>4. Holders' = Holders
    BY <1>2, <2>1, <2>2, <2>3, SameHolders
  <2>5. UNCHANGED <<auction, events>>
    BY <1>6 DEF CheckExpired, CheckPending, redis
  <2>6. \A v \in Workers : worker'[v].stage = "opening" =>
          v \in Instances /\ auction.status = "PENDING"
    BY <1>3, <2>2, <2>3
  <2> QED BY <1>1, <2>4, <2>5, <2>6 DEF SaleInv, AnnouncedIsClosed, OneAnnouncement
<1>7. ASSUME NEW i \in Instances, OpenAuction(i) PROVE SaleInv'
  <2>1. i \in Workers /\ auction.status = "PENDING" /\ \A v \in Instances : v = i
    BY <1>3, <1>7 DEF OpenAuction, Workers, OneOpener, SaleInv
  <2>2. auction'.status = "OPEN" /\ UNCHANGED events /\ Goto(i, "idle")
    BY <1>2, <1>7 DEF OpenAuction, AuctionHash
  <2>3. worker'[i].stage = "idle" /\ \A v \in Workers \ {i} : worker'[v] = worker[v]
    BY <1>2, <2>1, <2>2, StageAfter DEF Stages
  <2>4. Holders = {} /\ events = << >>
    BY <2>1 DEF SaleInv, AnnouncedIsClosed
  <2>5. Holders' = {} /\ \A v \in Workers : worker'[v].stage # "opening"
    BY <1>3, <2>1, <2>3, <2>4 DEF Holders
  <2> QED BY <1>1, <2>2, <2>4, <2>5 DEF SaleInv, AnnouncedIsClosed, OneAnnouncement
<1>8. ASSUME NEW c \in SellerCalls, SellerCloses(c) PROVE SaleInv'
  <2>1. c \in Workers /\ worker[c].stage \notin HolderStages
    BY <1>8 DEF SellerCloses, HolderStages, Workers
  <2>2. worker'[c].stage = "closing" /\ \A v \in Workers \ {c} : worker'[v] = worker[v]
    BY <1>2, <1>8, <2>1, StageAfter DEF SellerCloses, Stages
  <2>3. Holders' = Holders
    BY <1>2, <2>1, <2>2, SameHolders DEF Stages, HolderStages
  <2> QED BY <1>1, <1>3, <1>8, <2>2, <2>3, QuietStep DEF SellerCloses, redis
<1>9. ASSUME NEW i \in Instances, Crash(i) PROVE SaleInv'
  <2>1. \A v \in Workers : worker'[v] = worker[v] \/ worker'[v].stage \in {"idle", "done"}
    BY <1>2, <1>9 DEF Crash, Worker
  <2>2. Holders' \subseteq Holders
    BY <2>1 DEF Holders
  <2>3. UNCHANGED <<auction, events>>
    BY <1>9 DEF Crash, redis
  <2> QED BY <1>1, <1>3, <2>1, <2>2, <2>3, QuietStep
<1> QED BY <1>1, <1>4, <1>5, <1>6, <1>7, <1>8, <1>9, WorkerKeepsSale
     DEF Next, CloserStep, Workers

(* A new auction starts with it.                                           *)
LEMMA InitSale == Init => SaleInv
<1> SUFFICES ASSUME Init PROVE SaleInv
  OBVIOUS
<1>1. \A w \in Workers : worker[w].stage = "idle"
  BY DEF Init
<1>2. Holders = {}
  BY <1>1 DEF Holders
<1>3. Len(events) = 0
  BY DEF Init
<1> QED BY <1>1, <1>2, <1>3, InitTypes
     DEF Init, SaleInv, NewAuction, AnnouncedIsClosed, OneAnnouncement

(* With one opener, and as long as an XADD that fails appends nothing, the *)
(* invariant of the sale holds in every run.                               *)
THEOREM SaleIsSound ==
  ASSUME OneOpener, "publish_reply" \notin Faults
  PROVE  Spec => []SaleInv
BY InitSale, StepKeepsSale, PTL DEF Spec

(* So closers, seller calls, retries and crashes never announce it twice.  *)
THEOREM AnnouncedAtMostOnce ==
  ASSUME OneOpener, "publish_reply" \notin Faults
  PROVE  Spec => []OneAnnouncement
<1>1. SaleInv => OneAnnouncement
  BY DEF SaleInv
<1> QED BY <1>1, SaleIsSound, PTL

(* And once announced it is closed for good: no bid can follow.            *)
THEOREM AnnouncementIsFinal ==
  ASSUME OneOpener, "publish_reply" \notin Faults
  PROVE  Spec => []AnnouncedIsClosed
<1>1. SaleInv => AnnouncedIsClosed
  BY DEF SaleInv
<1> QED BY <1>1, SaleIsSound, PTL

-----------------------------------------------------------------------------
(* The winners that are announced.  Until the event is out bidding stays   *)
(* sound and a holder carries what the close script read; the event then   *)
(* is an award of the best bids, and no bid can come after it.             *)

Harmless == {"idle", "closing", "pending", "opening", "done"}

(* Steps by which workers at most leave their work.                        *)
LEMMA QuietKeepsClosing ==
  ASSUME ClosingInv, SaleInv', UNCHANGED <<auction, bids, active, item, replica, events, best>>,
         writing' \subseteq writing,
         \A v \in Workers : worker'[v] = worker[v] \/ worker'[v].stage \in Harmless
  PROVE  ClosingInv'
<1>1. Holders' \subseteq Holders /\ \A v \in Holders' : worker'[v] = worker[v]
  BY DEF Holders, Harmless
<1>2. ASSUME Undisturbed PROVE Undisturbed'
  BY <1>1, <1>2 DEF Undisturbed, Harmless, Holders
<1>3. ASSUME AwardsBest(events[1]) PROVE AwardsBest(events[1])'
  BY <1>3 DEF AwardsBest
<1> QED BY <1>2, <1>3 DEF ClosingInv

(* After the event no holder is left who could send another one, and the   *)
(* status stays CLOSED, so that no bid changes who is best.                *)
LEMMA AnnouncedStaysRight ==
  ASSUME ClosingInv, SaleInv', [Next]_vars, events # << >>
  PROVE  ClosingInv' /\ UNCHANGED <<events, best>>
<1>1. auction.status = "CLOSED" /\ \A w \in Workers : worker[w].stage # "publishing"
  BY DEF ClosingInv, SaleInv, AnnouncedIsClosed, Holders
<1>2. \A b, amount : ~PlaceBid(b, amount)
  BY <1>1 DEF PlaceBid, Verdict
<1>3. ASSUME NEW w \in Workers, WorkerStep(w) PROVE UNCHANGED <<events, best>>
  BY <1>1, <1>3 DEF WorkerStep, CloseRefused, AtomicCloseAndReadWinners, ReadDynamoWinners,
       PublishAuctionClosed, RollbackClose, ReadFinalState, SaveFinalState, CleanupRedis
<1>4. UNCHANGED <<events, best>>
  BY <1>2, <1>3 DEF Next, vars, Tick, Replicate, UpdateDynamoWinner, CloserStep, CheckExpired,
       CheckPending, OpenAuction, Crash, SellerCloses, Workers
<1>5. AwardsBest(events[1]) => AwardsBest(events[1])'
  BY <1>4 DEF AwardsBest
<1> QED BY <1>4, <1>5 DEF ClosingInv

(* The award that the close script reads is one of the best bids.          *)
LEMMA ReadAwardIsBest ==
  ASSUME TypeOK, BiddingSound(auction, bids, best)
  PROVE  /\ AwardsBest(WinnersRead(auction, bids))
         /\ WinnersRead(auction, bids) = NoBids <=> Entrants(best) = {}
<1>1. auction \in AuctionHash /\ bids \in BidSet /\ best \in BidSet
  BY DEF TypeOK, Typed
<1>2. PICK W \in SUBSET Bidders :
        /\ WinnersRead(auction, bids) = [b \in Bidders |-> IF b \in W THEN best[b] ELSE 0]
        /\ W \subseteq Entrants(best)
        /\ Cardinality(W) <= Quantity
        /\ Cardinality(W) < Quantity => W = Entrants(best)
        /\ \A w \in W, c \in Entrants(best) \ W : best[c] <= best[w]
        /\ W = {} => Entrants(best) = {}
  BY <1>1, WinnersAreBest
<1>3. AwardsBest(WinnersRead(auction, bids))
  BY <1>2 DEF AwardsBest
<1>4. ASSUME WinnersRead(auction, bids) = NoBids PROVE W = {}
  BY <1>2, <1>4 DEF NoBids, Entrants
<1>5. ASSUME Entrants(best) = {} PROVE WinnersRead(auction, bids) = NoBids
  BY <1>2, <1>5 DEF NoBids
<1> QED BY <1>2, <1>3, <1>4, <1>5

(* The fallback finds no winner in an item that has no entry and no bidder.*)
LEMMA FallbackFindsNobody ==
  ASSUME NEW it \in Item, Entrants(it.winners) = {}, it.bidder = NoBidder
  PROVE  DynamoWinners(it) = {NoBids}
BY BiddersAssumption DEF DynamoWinners, Solely, NoBids

(* The steps in CloseAuction of a worker, before the event.                *)
LEMMA WorkerKeepsClosing ==
  ASSUME ClosingInv, SaleInv', "publish_reply" \notin Faults, events = << >>,
         NEW w \in Workers, WorkerStep(w)
  PROVE  ClosingInv'
<1>1. /\ SaleInv /\ Undisturbed /\ TypeOK /\ BiddingSound(auction, bids, best)
      /\ worker \in [Workers -> Worker] /\ auction \in AuctionHash
      /\ item \in Item /\ replica \in Item
  BY DEF ClosingInv, SaleInv, TypeOK, Typed, Undisturbed
<1>2. w \in Holders => Holders = {w}
  BY <1>1 DEF SaleInv
<1>3. AfterClosing(w) \in Stages /\ AfterClosing(w) \in Harmless
  BY DEF AfterClosing, Harmless, Stages
<1>4. Return(w) => /\ worker'[w].stage \in Harmless
                   /\ \A v \in Workers \ {w} : worker'[v] = worker[v]
  BY <1>1, <1>3, StageAfter DEF Return
<1>5. CASE CloseRefused(w)
  BY <1>4, <1>5, QuietKeepsClosing DEF CloseRefused, redis
<1>6. CASE AtomicCloseAndReadWinners(w)
  <2> DEFINE winners == WinnersRead(auction, bids)
  <2>1. Holders = {}
    BY <1>1, <1>6 DEF AtomicCloseAndReadWinners, SaleInv
  <2>2. /\ BiddingSound(auction', bids', best')
        /\ WinnersRead(auction', bids') = winners
    BY <1>1, <1>6, ClosingKeepsBidding DEF AtomicCloseAndReadWinners
  <2>3. winners = NoBids <=> Entrants(best) = {}
    BY <1>1, ReadAwardIsBest
  <2>4. UNCHANGED <<bids, active, item, replica, writing, events, best>>
    BY <1>6 DEF AtomicCloseAndReadWinners
  <2>5. CASE Return(w)
    <3>1. /\ Holders' = {}
          /\ \A v \in Workers : worker'[v].stage \notin {"reading", "saving", "cleanup"}
      BY <1>1, <1>4, <2>1, <2>5 DEF Holders, Harmless, Undisturbed
    <3>2. Undisturbed'
      BY <1>1, <2>2, <2>4, <3>1 DEF Undisturbed
    <3> QED BY <2>4, <3>2 DEF ClosingInv
  <2>6. CASE worker' = [worker EXCEPT
               ![w].winners = winners,
               ![w].stage   = IF winners = NoBids THEN "fallback" ELSE "publishing"]
    <3> HIDE DEF winners
    <3>1. /\ \A v \in Workers \ {w} : worker'[v] = worker[v]
          /\ worker'[w].winners = winners
          /\ worker'[w].stage \in {"fallback", "publishing"}
          /\ worker'[w].stage = "fallback" => winners = NoBids
      BY <1>1, <2>6 DEF Worker
    <3>2. Holders' = {w}
      BY <2>1, <3>1 DEF Holders
    <3>3. \A v \in Workers : worker'[v].stage \notin {"reading", "saving", "cleanup"}
      BY <1>1, <3>1 DEF Undisturbed
    <3>4. Undisturbed'
      BY <1>1, <2>2, <2>3, <2>4, <3>1, <3>2, <3>3 DEF Undisturbed
    <3> QED BY <2>4, <3>4 DEF ClosingInv
  <2> QED BY <1>6, <2>5, <2>6 DEF AtomicCloseAndReadWinners
<1>7. CASE ReadDynamoWinners(w)
  <2>1. /\ w \in Holders /\ Entrants(best) = {}
        /\ worker[w].winners = WinnersRead(auction, bids)
    BY <1>1, <1>7 DEF ReadDynamoWinners, Holders, Undisturbed
  <2>2. /\ WinnersRead(auction, bids) = NoBids
        /\ DynamoWinners(item) \cup DynamoWinners(replica) = {NoBids}
    BY <1>1, <2>1, ReadAwardIsBest, FallbackFindsNobody DEF Undisturbed
  <2>3. UNCHANGED <<auction, bids, active, item, replica, writing, events, best>>
    BY <1>7 DEF ReadDynamoWinners, redis
  <2>4. /\ \A v \in Workers \ {w} : worker'[v] = worker[v]
        /\ worker'[w].stage = "publishing"
        /\ worker'[w].winners = NoBids
    <3>1. CASE Goto(w, "publishing")
      BY <1>1, <2>1, <2>2, <3>1 DEF Goto, Worker
    <3>2. CASE \E winners \in DynamoWinners(item) \cup DynamoWinners(replica) :
                 worker' = [worker EXCEPT ![w].winners = winners,
                                          ![w].stage = "publishing"]
      BY <1>1, <2>2, <3>2 DEF Worker
    <3> QED BY <1>7, <3>1, <3>2 DEF ReadDynamoWinners
  <2>5. /\ Holders' = {w}
        /\ \A v \in Workers : worker'[v].stage \notin {"reading", "saving", "cleanup"}
    BY <1>1, <1>2, <2>1, <2>4 DEF Holders, Undisturbed
  <2>6. Undisturbed'
    BY <1>1, <2>2, <2>3, <2>4, <2>5 DEF Undisturbed
  <2> QED BY <2>3, <2>6 DEF ClosingInv
<1>8. CASE PublishAuctionClosed(w)
  <2>1. w \in Holders /\ worker[w].winners = WinnersRead(auction, bids)
    BY <1>1, <1>8 DEF PublishAuctionClosed, Holders, Undisturbed
  <2>2. UNCHANGED <<auction, bids, active, item, replica, writing, best>>
    BY <1>8 DEF PublishAuctionClosed, redis
  <2>3. CASE events' = Append(events, worker[w].winners)
    <3>1. events'[1] = WinnersRead(auction, bids) /\ events' # << >>
      BY <1>1, <2>1, <2>3
    <3>2. AwardsBest(WinnersRead(auction, bids))
      BY <1>1, ReadAwardIsBest
    <3>3. AwardsBest(events[1])'
      BY <2>2, <3>1, <3>2 DEF AwardsBest
    <3> QED BY <3>1, <3>3 DEF ClosingInv
  <2>4. CASE UNCHANGED events /\ Goto(w, "rollback")
    <3>1. /\ \A v \in Workers \ {w} : worker'[v] = worker[v]
          /\ worker'[w].stage = "rollback"
          /\ worker'[w].winners = worker[w].winners
      BY <1>1, <2>4 DEF Goto, Worker
    <3>2. /\ Holders' = {w}
          /\ \A v \in Workers : worker'[v].stage \notin {"reading", "saving", "cleanup"}
      BY <1>1, <1>2, <2>1, <3>1 DEF Holders, Undisturbed
    <3>3. Undisturbed'
      BY <1>1, <2>1, <2>2, <3>1, <3>2 DEF Undisturbed
    <3> QED BY <2>4, <3>3 DEF ClosingInv
  <2> QED BY <1>8, <2>3, <2>4 DEF PublishAuctionClosed, Fault
<1>9. CASE RollbackClose(w)
  <2>1. w \in Holders
    BY <1>9 DEF RollbackClose, Holders
  <2>2. /\ Holders' = {}
        /\ \A v \in Workers : worker'[v].stage \notin {"reading", "saving", "cleanup"}
    BY <1>1, <1>2, <1>4, <1>9, <2>1 DEF RollbackClose, Holders, Harmless, Undisturbed
  <2>3. UNCHANGED <<bids, active, item, replica, writing, events, best>>
    BY <1>9 DEF RollbackClose
  <2>4. BiddingSound(auction', bids', best')
    BY <1>1, <1>9, ClosingKeepsBidding DEF RollbackClose
  <2>5. Undisturbed'
    BY <1>1, <2>2, <2>3, <2>4 DEF Undisturbed
  <2> QED BY <2>3, <2>5 DEF ClosingInv
<1>10. ~ReadFinalState(w) /\ ~SaveFinalState(w) /\ ~CleanupRedis(w)
  BY <1>1 DEF ReadFinalState, SaveFinalState, CleanupRedis, Undisturbed
<1> QED BY <1>5, <1>6, <1>7, <1>8, <1>9, <1>10 DEF WorkerStep

(* A bid, and the goroutine that copies it to the item.                    *)
LEMMA BidKeepsClosing ==
  ASSUME ClosingInv, SaleInv', events = << >>, NEW b \in Bidders, NEW amount \in Amounts,
         PlaceBid(b, amount) \/ UpdateDynamoWinner(b, amount)
  PROVE  ClosingInv'
<1>1. /\ SaleInv /\ Undisturbed /\ TypeOK /\ BiddingSound(auction, bids, best)
      /\ auction \in AuctionHash /\ bids \in BidSet /\ best \in BidSet
      /\ item \in Item /\ replica \in Item
      /\ amount \in Nat \ {0}
  BY ClosingAmountsAssumption DEF ClosingInv, SaleInv, TypeOK, Typed, Undisturbed
<1>2. UNCHANGED <<active, worker, events>> /\ Holders' = Holders
  BY DEF PlaceBid, UpdateDynamoWinner, redis, Holders
<1>3. CASE PlaceBid(b, amount)
  <2>1. Accepted(auction, bids, best, b, amount)
    BY <1>1, <1>3 DEF PlaceBid, Accepted
  <2>2. BiddingSound(auction', bids', best')
    <3> DEFINE after == BidsAfter(bids, b, amount)
               new == HashAfter(auction, bids, b, amount)
               raised == [best EXCEPT ![b] = amount]
    <3>1. BiddingSound(new, after, raised)
      BY <2>1, AcceptedKeepsBidding, Zenon
    <3>2. auction' = new /\ bids' = after /\ best' = raised
      BY <1>3 DEF PlaceBid
    <3> HIDE DEF after, new, raised
    <3> QED BY <3>1, <3>2
  <2>3. Holders = {}
    <3>1. auction.status = "OPEN"
      BY <2>1, AcceptedBid, Zenon
    <3> QED BY <1>1, <3>1 DEF SaleInv
  <2>4. Entrants(best') = Entrants(best) \cup {b}
    BY <1>1, <1>3 DEF PlaceBid, Entrants, BidSet
  <2>5. writing' = writing \cup {<<b, amount>>} /\ UNCHANGED <<item, replica>>
    BY <1>3 DEF PlaceBid
  <2>6. Undisturbed'
    BY <1>1, <1>2, <2>2, <2>3, <2>4, <2>5 DEF Undisturbed
  <2> QED BY <1>2, <2>6 DEF ClosingInv
<1>4. CASE UpdateDynamoWinner(b, amount)
  <2>1. UNCHANGED <<auction, bids, best>> /\ writing' \subseteq writing
    BY <1>4 DEF UpdateDynamoWinner, redis
  <2>2. b \in Entrants(best)
    BY <1>1, <1>4 DEF UpdateDynamoWinner, Undisturbed
  <2>3. /\ item'.status = item.status \/ item'.status = "BLANK"
        /\ item'.bidder = item.bidder
        /\ \A c \in Bidders : item'.winners[c] \in {item.winners[c], 0} \/ c = b
    BY <1>1, <1>4, CopyWrites
  <2>4. Entrants(item'.winners) \subseteq Entrants(item.winners) \cup {b}
    BY <2>3 DEF Entrants
  <2>5. Follows
    BY <1>4 DEF UpdateDynamoWinner, ItemBecomes, Follows
  <2>6. /\ Entrants(item.winners) \subseteq Entrants(best) /\ item.bidder = NoBidder
        /\ Entrants(replica.winners) \subseteq Entrants(best) /\ replica.bidder = NoBidder
    BY <1>1 DEF Undisturbed
  <2>7. /\ Entrants(item'.winners) \subseteq Entrants(best) /\ item'.bidder = NoBidder
        /\ Entrants(replica'.winners) \subseteq Entrants(best) /\ replica'.bidder = NoBidder
    BY <2>2, <2>3, <2>4, <2>5, <2>6 DEF Follows
  <2>8. Undisturbed'
    BY <1>1, <1>2, <2>1, <2>3, <2>7 DEF Undisturbed
  <2> QED BY <1>2, <2>8 DEF ClosingInv
<1> QED BY <1>3, <1>4

(* The closer opens an auction nobody has bid on.                          *)
LEMMA OpeningKeepsClosing ==
  ASSUME ClosingInv, SaleInv', events = << >>, NEW i \in Instances, OpenAuction(i)
  PROVE  ClosingInv'
<1>1. /\ SaleInv /\ Undisturbed /\ BiddingSound(auction, bids, best)
      /\ worker \in [Workers -> Worker] /\ auction \in AuctionHash
      /\ i \in Workers /\ auction.status = "PENDING"
  BY DEF ClosingInv, SaleInv, TypeOK, Typed, Undisturbed, OpenAuction, Workers
<1>2. /\ UNCHANGED <<bids, active, item, replica, writing, events, best>>
      /\ UNCHANGED <<auction.current, auction.bidder>>
  BY <1>1 DEF OpenAuction, AuctionHash
<1>3. worker'[i].stage = "idle" /\ \A v \in Workers \ {i} : worker'[v] = worker[v]
  BY <1>1, StageAfter DEF OpenAuction, Stages
<1>4. BiddingSound(auction', bids', best')
  BY <1>1, <1>2 DEF BiddingSound, SlotsSound, FloorShown
<1>5. Holders' = {}
  BY <1>1, <1>3 DEF SaleInv, Holders
<1>6. Undisturbed'
  BY <1>1, <1>2, <1>3, <1>4, <1>5 DEF Undisturbed
<1> QED BY <1>2, <1>6 DEF ClosingInv

(* Every step keeps it.                                                    *)
LEMMA StepKeepsClosing ==
  ASSUME OneOpener, "publish_reply" \notin Faults
  PROVE  ClosingInv /\ [Next]_vars => ClosingInv'
<1> SUFFICES ASSUME ClosingInv, [Next]_vars, events = << >> PROVE ClosingInv'
  <2>1. ClosingInv /\ [Next]_vars => SaleInv'
    BY StepKeepsSale DEF ClosingInv
  <2> QED BY <2>1, AnnouncedStaysRight
<1>1. SaleInv' /\ SaleInv /\ worker \in [Workers -> Worker]
  BY StepKeepsSale DEF ClosingInv, SaleInv, TypeOK, Typed
<1>2. ASSUME NEW w \in Workers, WorkerStep(w) PROVE ClosingInv'
  BY <1>1, <1>2, WorkerKeepsClosing
<1>3. ASSUME NEW b \in Bidders, NEW amount \in Amounts,
             PlaceBid(b, amount) \/ UpdateDynamoWinner(b, amount)
      PROVE  ClosingInv'
  BY <1>1, <1>3, BidKeepsClosing
<1>4. CASE Tick \/ UNCHANGED vars
  BY <1>1, <1>4, QuietKeepsClosing DEF Tick, vars, redis
<1>10. CASE Replicate
  <2>1. UNCHANGED <<auction, bids, active, item, writing, worker, events, best>>
        /\ replica' = item
    BY <1>10 DEF Replicate, redis
  <2>2. Undisturbed' /\ Holders' = Holders
    BY <2>1 DEF ClosingInv, Undisturbed, Holders
  <2> QED BY <1>1, <2>1, <2>2 DEF ClosingInv
<1>5. ASSUME NEW w \in Workers, NEW s \in Harmless, Goto(w, s),
             UNCHANGED <<auction, bids, active, item, replica, writing, events, best>>
      PROVE  ClosingInv'
  <2>1. \A v \in Workers : worker'[v] = worker[v] \/ worker'[v].stage \in Harmless
    BY <1>1, <1>5 DEF Goto, Worker
  <2> QED BY <1>1, <1>5, <2>1, QuietKeepsClosing
<1>6. ASSUME NEW i \in Instances, CheckExpired(i) \/ CheckPending(i) PROVE ClosingInv'
  BY <1>5, <1>6 DEF CheckExpired, CheckPending, redis, Workers, Harmless
<1>7. ASSUME NEW i \in Instances, OpenAuction(i) PROVE ClosingInv'
  BY <1>1, <1>7, OpeningKeepsClosing
<1>8. ASSUME NEW c \in SellerCalls, SellerCloses(c) PROVE ClosingInv'
  BY <1>5, <1>8 DEF SellerCloses, redis, Workers, Harmless
<1>9. ASSUME NEW i \in Instances, Crash(i) PROVE ClosingInv'
  <2>1. \A v \in Workers : worker'[v] = worker[v] \/ worker'[v].stage \in Harmless
    BY <1>1, <1>9 DEF Crash, Worker, Harmless
  <2>2. /\ UNCHANGED <<auction, bids, active, item, replica, events, best>>
        /\ writing' \subseteq writing
    BY <1>9 DEF Crash, redis
  <2> QED BY <1>1, <2>1, <2>2, QuietKeepsClosing
<1> QED BY <1>2, <1>3, <1>4, <1>6, <1>7, <1>8, <1>9, <1>10 DEF Next, CloserStep, Workers

(* With one opener, and as long as an XADD that fails appends nothing, the *)
(* whole invariant of the close protocol holds in every run.               *)
THEOREM ClosingIsSound ==
  ASSUME OneOpener, "publish_reply" \notin Faults
  PROVE  Spec => []ClosingInv
<1>1. Init => ClosingInv
  <2> SUFFICES ASSUME Init PROVE ClosingInv
    OBVIOUS
  <2>1. SaleInv
    BY InitSale
  <2>2. \A w \in Workers : worker[w].stage = "idle"
    BY DEF Init
  <2>3. BiddingSound(auction, bids, best)
    BY <2>1, NoBiddingYet DEF Init, NewAuction, SaleInv, TypeOK, Typed
  <2>4. Undisturbed
    BY <2>2, <2>3 DEF Init, Undisturbed, ItemOf, NoItem, NewAuction, Holders, Entrants, NoBids
  <2> QED BY <2>1, <2>4 DEF ClosingInv, Init
<1> QED BY <1>1, StepKeepsClosing, PTL DEF Spec

(* An award of the best bids is what an event has to say.                  *)
LEMMA AwardIsNamed ==
  ASSUME NEW e, AwardsBest(e)
  PROVE  /\ \A b \in Awarded(e) : e[b] = best[b]
         /\ \A b \in Awarded(e), c \in Bid \ Awarded(e) : best[c] <= best[b]
         /\ Cardinality(Awarded(e)) <= Quantity
         /\ Cardinality(Awarded(e)) < Quantity => Awarded(e) = Bid
<1>1. PICK W \in SUBSET Bidders :
        /\ e = [b \in Bidders |-> IF b \in W THEN best[b] ELSE 0]
        /\ W \subseteq Entrants(best)
        /\ Cardinality(W) <= Quantity
        /\ Cardinality(W) < Quantity => W = Entrants(best)
        /\ \A w \in W, c \in Entrants(best) \ W : best[c] <= best[w]
  BY DEF AwardsBest
<1>2. Awarded(e) = W /\ Bid = Entrants(best)
  BY <1>1 DEF Awarded, Bid, Entrants
<1> QED BY <1>1, <1>2

(* Whatever was rolled back before, every event awards the auction to the  *)
(* best bids that anyone placed.                                           *)
THEOREM EventsAreRight ==
  ASSUME OneOpener, "publish_reply" \notin Faults
  PROVE  Spec => []EventsNameTheBest
<1>1. ClosingInv => EventsNameTheBest
  <2> SUFFICES ASSUME ClosingInv, NEW k \in DOMAIN events PROVE AwardsBest(events[k])
    BY AwardIsNamed DEF EventsNameTheBest
  <2>1. events \in Seq(BidSet) /\ Len(events) <= 1
    BY DEF ClosingInv, SaleInv, TypeOK, Typed, OneAnnouncement
  <2>2. k = 1 /\ events # << >>
    BY <2>1
  <2> QED BY <2>2 DEF ClosingInv
<1> QED BY <1>1, ClosingIsSound, PTL

(* Until the event is out, a retry finds the auction in the active set,    *)
(* its bids in Redis and an item that is not closed.                       *)
THEOREM NothingGoesEarly ==
  ASSUME OneOpener, "publish_reply" \notin Faults
  PROVE  Spec => []NothingReleasedEarly
<1>1. ClosingInv => NothingReleasedEarly
  <2> SUFFICES ASSUME ClosingInv, events = << >>
               PROVE  /\ active /\ item.status # "CLOSED"
                      /\ \A b \in Bid : bids[b] > 0 \/ SlotsFull(bids)
    BY DEF NothingReleasedEarly
  <2>1. active /\ item.status # "CLOSED" /\ HoldBest(bids, best)
    BY DEF ClosingInv, Undisturbed, BiddingSound
  <2>2. \A b \in Bid : b \in Bidders /\ best[b] > 0
    BY DEF Bid
  <2> QED BY <2>1, <2>2 DEF HoldBest, Entrants
<1> QED BY <1>1, ClosingIsSound, PTL

-----------------------------------------------------------------------------
(* The protocol implements the ledger.  Only four steps are visible there: *)
(* an accepted bid, the close script, the event and the rollback.          *)

phase   == IF events # << >> THEN "announced"
           ELSE IF auction.status = "CLOSED" THEN "closed" ELSE "open"
awarded == IF events # << >> THEN events[1]
           ELSE IF auction.status = "CLOSED" THEN WinnersRead(auction, bids) ELSE NoBids

(* The instance of the ledger counts with its own copy of Cardinality.     *)
LEMMA LedgerCardinality == \A S : Ledger!Cardinality(S) = Cardinality(S)
BY Zenon DEF Ledger!Cardinality, Cardinality

(* A bid that the script accepts is one that the ledger accepts.           *)
LEMMA BidImplementsLedger ==
  ASSUME ClosingInv, NEW b \in Bidders, NEW amount \in Amounts, PlaceBid(b, amount)
  PROVE  Ledger!Accept(b, amount)
<1>1. /\ auction.status = "OPEN" /\ events = << >> /\ BiddingSound(auction, bids, best)
      /\ auction \in AuctionHash /\ bids \in BidSet /\ best \in BidSet
      /\ amount \in Nat \ {0}
  BY ClosingAmountsAssumption
     DEF ClosingInv, SaleInv, TypeOK, Typed, AnnouncedIsClosed, Undisturbed, PlaceBid, Verdict
<1>2. Accepted(auction, bids, best, b, amount)
  BY <1>1 DEF PlaceBid, Accepted
<1>3. /\ amount > StartBid /\ amount > best[b]
      /\ MaxPrice > 0 => amount <= MaxPrice
  BY <1>2, AcceptedBid, AcceptedBidCompetes, Zenon
<1>4. Ledger!Cardinality({c \in Bidders \ {b} : best[c] >= amount}) < Quantity
  BY <1>2, FewStandAbove, LedgerCardinality
<1>5. Quantity = 1 => \A c \in Ledger!Bid : amount >= best[c] + MinIncrement
  BY <1>2, RaiseIsEnough, Zenon DEF Ledger!Bid
<1>6. auction'.status = "OPEN" /\ events' = << >> /\ best' = [best EXCEPT ![b] = amount]
  BY <1>1, PlacingKeepsTypes DEF PlaceBid
<1>7. /\ phase = "open" /\ UNCHANGED <<phase, awarded>>
  BY <1>1, <1>6 DEF phase, awarded
<1> QED BY <1>3, <1>4, <1>5, <1>6, <1>7, Zenon DEF Ledger!Accept, phase, awarded

(* The close script awards what the ledger may award.                      *)
LEMMA ScriptImplementsLedger ==
  ASSUME ClosingInv, NEW w \in Workers, AtomicCloseAndReadWinners(w)
  PROVE  Ledger!Close
<1>1. /\ auction.status = "OPEN" /\ events = << >> /\ BiddingSound(auction, bids, best)
      /\ auction \in AuctionHash /\ TypeOK
  BY DEF ClosingInv, SaleInv, TypeOK, Typed, AnnouncedIsClosed, Undisturbed,
         AtomicCloseAndReadWinners
<1>2. /\ auction' = ClosedHash(auction) /\ UNCHANGED <<bids, events, best>>
  BY DEF AtomicCloseAndReadWinners
<1>3. /\ auction'.status = "CLOSED"
      /\ WinnersRead(auction', bids') = WinnersRead(auction, bids)
  BY <1>1, <1>2, ClosingKeepsTypes, ClosingKeepsBidding DEF ClosedHash, AuctionHash
<1>4. PICK W \in SUBSET Bidders :
        /\ WinnersRead(auction, bids) = [b \in Bidders |-> IF b \in W THEN best[b] ELSE 0]
        /\ W \subseteq Entrants(best)
        /\ Cardinality(W) <= Quantity
        /\ Cardinality(W) < Quantity => W = Entrants(best)
        /\ \A v \in W, c \in Entrants(best) \ W : best[c] <= best[v]
  BY <1>1, ReadAwardIsBest DEF AwardsBest
<1>5. Ledger!Bid = Entrants(best)
  BY DEF Ledger!Bid, Entrants
<1>6. Ledger!TopChoice(W)
  BY <1>4, <1>5, LedgerCardinality DEF Ledger!TopChoice
<1>7. phase = "open" /\ phase' = "closed" /\ awarded' = Ledger!Awards(W)
  BY <1>1, <1>2, <1>3, <1>4 DEF phase, awarded, Ledger!Awards
<1> QED BY <1>2, <1>6, <1>7, Zenon DEF Ledger!Close, phase, awarded

(* Every step is one of the ledger, or none.                               *)
LEMMA ClosingImplementsLedger ==
  ASSUME ClosingInv, ClosingInv', [Next]_vars
  PROVE  [Ledger!Next]_(Ledger!vars)
<1> DEFINE Stutter == UNCHANGED <<best, phase, awarded>>
<1>1. Stutter => UNCHANGED Ledger!vars
  BY DEF Ledger!vars, phase, awarded
<1>2. CASE events # << >>
  <2>1. UNCHANGED <<events, best>>
    BY <1>2, AnnouncedStaysRight DEF ClosingInv
  <2> QED BY <1>1, <1>2, <2>1 DEF phase, awarded
<1>3. CASE events = << >>
  <2>1. Undisturbed /\ SaleInv /\ auction \in AuctionHash
    BY <1>3 DEF ClosingInv, SaleInv, TypeOK, Typed
  <2>2. UNCHANGED <<auction, bids, events, best>> => Stutter
    BY DEF phase, awarded
  <2>3. ASSUME NEW b \in Bidders, NEW amount \in Amounts, PlaceBid(b, amount)
        PROVE  Ledger!Next
    BY <2>3, BidImplementsLedger DEF Ledger!Next
  <2>4. ASSUME NEW w \in Workers, WorkerStep(w) PROVE Stutter \/ Ledger!Next
    <3>1. CASE AtomicCloseAndReadWinners(w)
      BY <3>1, ScriptImplementsLedger DEF Ledger!Next
    <3>2. CASE PublishAuctionClosed(w)
      <4>1. /\ worker[w].winners = WinnersRead(auction, bids) /\ auction.status = "CLOSED"
            /\ UNCHANGED <<auction, bids, best>>
        BY <2>1, <3>2 DEF PublishAuctionClosed, Undisturbed, Holders, SaleInv, redis
      <4>2. CASE events' = Append(events, worker[w].winners)
        <5>1. phase = "closed" /\ phase' = "announced" /\ awarded' = awarded
          BY <1>3, <4>1, <4>2 DEF phase, awarded
        <5> QED BY <4>1, <5>1, Zenon DEF Ledger!Next, Ledger!Announce, phase, awarded
      <4>3. CASE UNCHANGED events
        BY <2>2, <4>1, <4>3
      <4> QED BY <3>2, <4>2, <4>3 DEF PublishAuctionClosed
    <3>3. CASE RollbackClose(w)
      <4>1. auction.status = "CLOSED" /\ UNCHANGED <<bids, events, best>>
        BY <2>1, <3>3 DEF RollbackClose, Holders, SaleInv
      <4>2. CASE auction' = ReopenedHash(auction)
        <5>1. auction'.status = "OPEN"
          BY <2>1, <4>1, <4>2 DEF ReopenedHash, AuctionHash
        <5>2. phase = "closed" /\ phase' = "open" /\ awarded' = [b \in Bidders |-> 0]
          BY <1>3, <4>1, <5>1 DEF phase, awarded, NoBids
        <5> QED BY <4>1, <5>2, Zenon DEF Ledger!Next, Ledger!Reopen, phase, awarded
      <4>3. CASE UNCHANGED auction
        BY <2>2, <4>1, <4>3
      <4> QED BY <3>3, <4>2, <4>3 DEF RollbackClose
    <3>4. CASE CloseRefused(w) \/ ReadDynamoWinners(w)
      BY <2>2, <3>4 DEF CloseRefused, ReadDynamoWinners, redis
    <3>5. ~ReadFinalState(w) /\ ~SaveFinalState(w) /\ ~CleanupRedis(w)
      BY <2>1 DEF ReadFinalState, SaveFinalState, CleanupRedis, Undisturbed
    <3> QED BY <2>4, <3>1, <3>2, <3>3, <3>4, <3>5 DEF WorkerStep
  <2>5. ASSUME NEW i \in Instances, OpenAuction(i) PROVE Stutter
    <3>1. auction.status = "PENDING" /\ auction'.status = "OPEN"
      BY <2>1, <2>5 DEF OpenAuction, Workers, AuctionHash, SaleInv
    <3> QED BY <1>3, <2>5, <3>1 DEF OpenAuction, phase, awarded
  <2>6. \/ Tick \/ Replicate \/ UNCHANGED vars
        \/ \E b \in Bidders, amount \in Amounts : UpdateDynamoWinner(b, amount)
        \/ \E i \in Instances : CheckExpired(i) \/ CheckPending(i) \/ Crash(i)
        \/ \E c \in SellerCalls : SellerCloses(c)
        => UNCHANGED <<auction, bids, events, best>>
    BY DEF Tick, Replicate, vars, UpdateDynamoWinner, CheckExpired, CheckPending, Crash,
           SellerCloses, redis
  <2> QED BY <1>1, <2>2, <2>3, <2>4, <2>5, <2>6 DEF Next, CloserStep, Workers
<1> QED BY <1>2, <1>3

(* Closers, seller calls, crashes and retries on all instances together do *)
(* to the auction only what the ledger allows: bids that would win, one    *)
(* award of the best bids, one announcement of it.                         *)
THEOREM ClosingRefinesLedger ==
  ASSUME OneOpener, "publish_reply" \notin Faults
  PROVE  Spec => RefinesLedger
<1>1. Init => Ledger!Init
  BY DEF Init, NewAuction, NoBids, Ledger!Init
<1>2. ClosingInv /\ ClosingInv' /\ [Next]_vars => [Ledger!Next]_(Ledger!vars)
  BY ClosingImplementsLedger
<1> QED BY <1>1, <1>2, ClosingIsSound, PTL DEF Spec, Ledger!Spec, RefinesLedger

-----------------------------------------------------------------------------
(* The cache.  Redis may lose the hash, readers rebuild it from the item,  *)
(* and the closing goes on beside them: a step is one of the closing, of a *)
(* reader, or a loss.                                                      *)

(* What the calls of CloseAuction do, field by field: a worker leaves, or  *)
(* goes on to a stage with what it carries.                                *)
Leaves(w) ==
  /\ worker'[w].stage = AfterClosing(w)
  /\ worker'[w].winners = NoBids /\ worker'[w].copy = NewAuction

Goes(w, stage, winners, copy) ==
  /\ worker'[w].stage = stage
  /\ worker'[w].winners = winners /\ worker'[w].copy = copy

OthersStay(w) == \A v \in Workers \ {w} : worker'[v] = worker[v]

LEMMA RecordMoves ==
  ASSUME worker \in [Workers -> Worker], NEW w \in Workers
  PROVE  /\ Return(w) => Leaves(w) /\ OthersStay(w)
         /\ \A s : Goto(w, s) =>
              Goes(w, s, worker[w].winners, worker[w].copy) /\ OthersStay(w)
         /\ \A z, s : worker' = [worker EXCEPT ![w].winners = z, ![w].stage = s] =>
              Goes(w, s, z, worker[w].copy) /\ OthersStay(w)
         /\ \A c, s : worker' = [worker EXCEPT ![w].copy = c, ![w].stage = s] =>
              Goes(w, s, worker[w].winners, c) /\ OthersStay(w)
<1>1. Return(w) => Leaves(w) /\ OthersStay(w)
  BY DEF Return, Reset, Leaves, OthersStay, Worker
<1>2. \A s : Goto(w, s) => Goes(w, s, worker[w].winners, worker[w].copy) /\ OthersStay(w)
  BY DEF Goto, Goes, OthersStay, Worker
<1>3. \A z, s : worker' = [worker EXCEPT ![w].winners = z, ![w].stage = s] =>
        Goes(w, s, z, worker[w].copy) /\ OthersStay(w)
  BY DEF Goes, OthersStay, Worker
<1>4. \A c, s : worker' = [worker EXCEPT ![w].copy = c, ![w].stage = s] =>
        Goes(w, s, worker[w].winners, c) /\ OthersStay(w)
  BY DEF Goes, OthersStay, Worker
<1> QED BY <1>1, <1>2, <1>3, <1>4

LEMMA RefusedMoves ==
  ASSUME worker \in [Workers -> Worker], NEW w \in Workers, CloseRefused(w)
  PROVE  /\ worker[w].stage = "closing" /\ Leaves(w) /\ OthersStay(w)
         /\ UNCHANGED <<auction, bids, active, item, replica, writing, clock, events, faults, best>>
BY RecordMoves DEF CloseRefused, redis

LEMMA ScriptMoves ==
  ASSUME worker \in [Workers -> Worker], NEW w \in Workers, AtomicCloseAndReadWinners(w)
  PROVE  /\ worker[w].stage = "closing" /\ auction.status = "OPEN" /\ OthersStay(w)
         /\ auction' = ClosedHash(auction)
         /\ \/ Leaves(w) /\ Fault("close_reply")
            \/ /\ Goes(w, IF WinnersRead(auction, bids) = NoBids THEN "fallback" ELSE "publishing",
                       WinnersRead(auction, bids), worker[w].copy)
               /\ UNCHANGED faults
         /\ UNCHANGED <<bids, active, item, replica, writing, clock, events, best>>
BY RecordMoves DEF AtomicCloseAndReadWinners, NoFault

LEMMA FallbackMoves ==
  ASSUME worker \in [Workers -> Worker], NEW w \in Workers, ReadDynamoWinners(w)
  PROVE  /\ worker[w].stage = "fallback" /\ OthersStay(w)
         /\ \/ UNCHANGED faults /\ \E z \in DynamoWinners(item) \cup DynamoWinners(replica) :
                                     Goes(w, "publishing", z, worker[w].copy)
            \/ Fault("fallback") /\ Goes(w, "publishing", worker[w].winners, worker[w].copy)
         /\ UNCHANGED <<auction, bids, active, item, replica, writing, clock, events, best>>
BY RecordMoves DEF ReadDynamoWinners, redis, NoFault

LEMMA PublishMoves ==
  ASSUME worker \in [Workers -> Worker], NEW w \in Workers, PublishAuctionClosed(w)
  PROVE  /\ worker[w].stage = "publishing" /\ OthersStay(w)
         /\ \E s \in {"reading", "rollback"} :
              Goes(w, s, worker[w].winners, worker[w].copy)
         /\ \/ events' = Append(events, worker[w].winners)
            \/ events' = events /\ worker'[w].stage = "rollback"
         /\ worker'[w].stage = "reading" => UNCHANGED faults
         /\ worker'[w].stage = "rollback" => faults' = faults + 1
         /\ worker'[w].stage = "rollback" /\ "publish_reply" \notin Faults => events' = events
         /\ UNCHANGED <<auction, bids, active, item, replica, writing, clock, best>>
<1>1. \A s : Goto(w, s) => Goes(w, s, worker[w].winners, worker[w].copy) /\ OthersStay(w)
  BY RecordMoves
<1>2. CASE NoFault /\ events' = Append(events, worker[w].winners) /\ Goto(w, "reading")
  BY <1>1, <1>2 DEF PublishAuctionClosed, redis, NoFault, Goes
<1>3. CASE Fault("publish") /\ UNCHANGED events /\ Goto(w, "rollback")
  BY <1>1, <1>3 DEF PublishAuctionClosed, redis, Fault, Goes
<1>4. CASE Fault("publish_reply") /\ events' = Append(events, worker[w].winners)
           /\ Goto(w, "rollback")
  BY <1>1, <1>4 DEF PublishAuctionClosed, redis, Fault, Goes
<1> QED BY <1>2, <1>3, <1>4 DEF PublishAuctionClosed

LEMMA RollbackMoves ==
  ASSUME worker \in [Workers -> Worker], NEW w \in Workers, RollbackClose(w)
  PROVE  /\ worker[w].stage = "rollback" /\ Leaves(w) /\ OthersStay(w)
         /\ auction' \in {auction, ReopenedHash(auction)}
         /\ UNCHANGED <<bids, active, item, replica, writing, clock, events, best>>
BY RecordMoves DEF RollbackClose

LEMMA ReadMoves ==
  ASSUME worker \in [Workers -> Worker], NEW w \in Workers, ReadFinalState(w)
  PROVE  /\ worker[w].stage = "reading" /\ OthersStay(w)
         /\ \/ /\ Goes(w, "saving", worker[w].winners, ClosedHash(auction))
               /\ auction.status # "MISSING" /\ UNCHANGED <<item, replica, faults>>
            \/ /\ Goes(w, "cleanup", worker[w].winners, worker[w].copy)
               /\ item' = [item EXCEPT !.status = "CLOSED"]
            \/ /\ Goes(w, "cleanup", worker[w].winners, worker[w].copy)
               /\ UNCHANGED <<item, replica>> /\ faults' = faults + 1
         /\ Follows
         /\ UNCHANGED <<auction, bids, active, writing, clock, events, best>>
<1>1. Goto(w, "cleanup") => /\ Goes(w, "cleanup", worker[w].winners, worker[w].copy)
                            /\ OthersStay(w)
  BY RecordMoves
<1>2. worker' = [worker EXCEPT ![w].copy = ClosedHash(auction), ![w].stage = "saving"] =>
        Goes(w, "saving", worker[w].winners, ClosedHash(auction)) /\ OthersStay(w)
  BY RecordMoves
<1> QED BY <1>1, <1>2 DEF ReadFinalState, ItemBecomes, Follows, redis, NoFault, Fault

LEMMA SaveMoves ==
  ASSUME worker \in [Workers -> Worker], NEW w \in Workers, SaveFinalState(w)
  PROVE  /\ worker[w].stage = "saving" /\ OthersStay(w)
         /\ Goes(w, "cleanup", worker[w].winners, worker[w].copy)
         /\ \/ item' = ItemOf(worker[w].copy) /\ UNCHANGED faults
            \/ UNCHANGED <<item, replica>> /\ faults' = faults + 1
         /\ Follows
         /\ UNCHANGED <<auction, bids, active, writing, clock, events, best>>
<1>1. Goto(w, "cleanup") => /\ Goes(w, "cleanup", worker[w].winners, worker[w].copy)
                            /\ OthersStay(w)
  BY RecordMoves
<1> QED BY <1>1 DEF SaveFinalState, ItemBecomes, Follows, redis, NoFault, Fault

LEMMA CleanupMoves ==
  ASSUME worker \in [Workers -> Worker], NEW w \in Workers, CleanupRedis(w)
  PROVE  /\ worker[w].stage = "cleanup" /\ Leaves(w) /\ OthersStay(w)
         /\ bids' \in {bids, NoBids}
         /\ UNCHANGED <<auction, item, replica, writing, clock, events, best>>
BY RecordMoves DEF CleanupRedis

(* The closer looks for auctions, the seller starts a call: at most the    *)
(* stage of a worker changes.  In a crash workers stop.                    *)
LEMMA LookMoves ==
  ASSUME worker \in [Workers -> Worker], NEW w \in Workers,
         \/ w \in Instances /\ (CheckExpired(w) \/ CheckPending(w))
         \/ w \in SellerCalls /\ SellerCloses(w)
  PROVE  /\ OthersStay(w)
         /\ \E s \in Harmless : /\ Goes(w, s, worker[w].winners, worker[w].copy)
                                /\ s = "opening" => w \in Instances /\ auction.status = "PENDING"
         /\ worker[w].stage \in Harmless
         /\ UNCHANGED <<auction, bids, active, item, replica, writing, clock, events, faults, best>>
<1>1. \A s : Goto(w, s) => Goes(w, s, worker[w].winners, worker[w].copy) /\ OthersStay(w)
  BY RecordMoves
<1> QED BY <1>1 DEF CheckExpired, CheckPending, SellerCloses, redis, NoFault, Harmless

LEMMA OpenMoves ==
  ASSUME worker \in [Workers -> Worker], NEW i \in Instances, OpenAuction(i)
  PROVE  /\ worker[i].stage = "opening" /\ OthersStay(i)
         /\ Goes(i, "idle", worker[i].winners, worker[i].copy)
         /\ auction' = [auction EXCEPT !.status = "OPEN"]
         /\ UNCHANGED <<bids, active, item, replica, writing, clock, events, faults, best>>
BY RecordMoves DEF OpenAuction, Workers, NoFault

LEMMA CrashMoves ==
  ASSUME worker \in [Workers -> Worker], NEW i \in Instances, Crash(i)
  PROVE  /\ \A w \in Workers :
              \/ worker'[w] = worker[w]
              \/ /\ worker'[w].stage \in {"idle", "done"}
                 /\ worker'[w].winners = NoBids /\ worker'[w].copy = NewAuction
         /\ writing' \subseteq writing /\ faults' = faults + 1
         /\ UNCHANGED <<auction, bids, active, item, replica, clock, events, best>>
BY DEF Crash, redis, Fault, Worker

-----------------------------------------------------------------------------
(* Types of the cache *)

LEMMA CacheInitTypes == CacheInit => CacheTypeOK
<1> SUFFICES ASSUME CacheInit PROVE CacheTypeOK
  OBVIOUS
<1>1. TypeOK
  BY InitTypes DEF CacheInit
<1>2. NewAuction.status # "MISSING"
  BY DEF NewAuction
<1>3. \A w \in Workers : worker[w].copy.status # "MISSING"
  BY <1>2 DEF CacheInit, Init
<1>4. Idle \in Reader
  BY DEF Idle, Reader, ReaderStages, NoHash, AuctionHash, Statuses
<1>5. reader \in [Readers -> Reader] /\ \A r \in Readers : reader[r].stage = "idle"
  BY <1>4 DEF CacheInit, Idle
<1>6. losses \in [{"restart", "expiry"} -> 0..MaxLosses]
  BY LossesAssumption DEF CacheInit
<1> QED BY <1>1, <1>3, <1>5, <1>6 DEF CacheInit, CacheTypeOK, TypeOK

(* The copies that workers have of the hash are of one that was there.     *)
LEMMA CopiesStayKnown ==
  ASSUME CacheTypeOK, Next
  PROVE  \A w \in Workers : worker'[w].copy.status # "MISSING"
<1>1. /\ worker \in [Workers -> Worker] /\ auction \in AuctionHash
      /\ \A w \in Workers : worker[w].copy.status # "MISSING"
      /\ NewAuction.status # "MISSING"
  BY DEF CacheTypeOK, Typed, NewAuction
<1>2. ClosedHash(auction).status = "CLOSED"
  BY <1>1 DEF ClosedHash, AuctionHash
<1>3. ASSUME NEW w \in Workers, WorkerStep(w)
      PROVE  \A v \in Workers : worker'[v].copy.status # "MISSING"
  <2>1. OthersStay(w) /\ worker'[w].copy.status # "MISSING"
    <3>1. CASE CloseRefused(w) \/ RollbackClose(w) \/ CleanupRedis(w)
      BY <1>1, <3>1, RefusedMoves, RollbackMoves, CleanupMoves DEF Leaves
    <3>2. CASE AtomicCloseAndReadWinners(w)
      BY <1>1, <3>2, ScriptMoves DEF Leaves, Goes
    <3>3. CASE ReadDynamoWinners(w) \/ PublishAuctionClosed(w) \/ SaveFinalState(w)
      BY <1>1, <3>3, FallbackMoves, PublishMoves, SaveMoves DEF Goes
    <3>4. CASE ReadFinalState(w)
      BY <1>1, <1>2, <3>4, ReadMoves DEF Goes
    <3> QED BY <1>3, <3>1, <3>2, <3>3, <3>4 DEF WorkerStep
  <2> QED BY <1>1, <2>1 DEF OthersStay
<1>4. ASSUME NEW b \in Bidders, NEW amount \in Amounts,
             PlaceBid(b, amount) \/ UpdateDynamoWinner(b, amount)
      PROVE  UNCHANGED worker
  BY <1>4 DEF PlaceBid, UpdateDynamoWinner
<1>5. ASSUME NEW w \in Workers,
             \/ w \in Instances /\ (CheckExpired(w) \/ CheckPending(w) \/ OpenAuction(w))
             \/ w \in SellerCalls /\ SellerCloses(w)
      PROVE  \A v \in Workers : worker'[v].copy.status # "MISSING"
  BY <1>1, <1>5, LookMoves, OpenMoves DEF Goes, OthersStay
<1>6. ASSUME NEW i \in Instances, Crash(i)
      PROVE  \A v \in Workers : worker'[v].copy.status # "MISSING"
  BY <1>1, <1>6, CrashMoves
<1>7. CASE Tick \/ Replicate
  BY <1>1, <1>7 DEF Tick, Replicate
<1> QED BY <1>1, <1>3, <1>4, <1>5, <1>6, <1>7 DEF Next, CloserStep, Workers

(* A reader changes its own record, and the shared state as its call says. *)
LEMMA ReaderTypes ==
  ASSUME reader \in [Readers -> Reader], NEW r \in Readers
  PROVE  /\ ReaderEnds(r) => /\ reader' \in [Readers -> Reader] /\ reader'[r] = Idle
                             /\ \A q \in Readers \ {r} : reader'[q] = reader[q]
         /\ \A s \in ReaderStages : ReaderGoes(r, s) =>
              /\ reader' \in [Readers -> Reader]
              /\ reader'[r].stage = s /\ reader'[r].copy = reader[r].copy
              /\ \A q \in Readers \ {r} : reader'[q] = reader[q]
<1>1. Idle \in Reader
  BY DEF Idle, Reader, ReaderStages, NoHash, AuctionHash, Statuses
<1> QED BY <1>1 DEF ReaderEnds, ReaderGoes, Reader

CarriesItem(r, it) == reader'[r] = [stage |-> "writing", copy |-> HashOf(it)]

LEMMA ReaderMoves ==
  ASSUME reader \in [Readers -> Reader], item \in Item, replica \in Item,
         NEW r \in Readers, ReaderStep(r)
  PROVE  /\ reader' \in [Readers -> Reader]
         /\ \A q \in Readers \ {r} : reader'[q] = reader[q]
         /\ UNCHANGED <<bids, item, replica, writing, clock, worker, events, best, ttl, losses,
                        hidden, made>>
         /\ \/ /\ reader'[r].stage # "writing"
               /\ reader'[r] = Idle \/ reader'[r].copy = reader[r].copy
            \/ /\ \E it \in {item, replica} : it.status # "MISSING" /\ CarriesItem(r, it)
               /\ reader[r].stage = "loading"
               /\ UNCHANGED <<auction, hash>>
         /\ \/ UNCHANGED <<auction, active, hash>>
            \/ /\ reader[r].stage = "writing" /\ auction' = reader[r].copy
               /\ active' \in BOOLEAN
               /\ hash' = IF hash = "first" THEN "rebuilt" ELSE hash
         /\ reader[r].stage = "idle" => auction.status = "MISSING"
         /\ faults' = faults \/ Fault("rebuild")
         /\ lock' \in {lock, TRUE, FALSE}
<1>1. ReaderEnds(r) => /\ reader' \in [Readers -> Reader] /\ reader'[r] = Idle
                       /\ \A q \in Readers \ {r} : reader'[q] = reader[q]
  BY ReaderTypes
<1>2. \A s \in ReaderStages : ReaderGoes(r, s) =>
        /\ reader' \in [Readers -> Reader]
        /\ reader'[r].stage = s /\ reader'[r].copy = reader[r].copy
        /\ \A q \in Readers \ {r} : reader'[q] = reader[q]
  BY ReaderTypes
<1>3. Idle.stage = "idle"
  BY DEF Idle
<1>4. \A it \in {item, replica} : HashOf(it) \in AuctionHash
  BY DEF HashOf, Item, AuctionHash
<1>5. CASE Miss(r)
  BY <1>2, <1>5 DEF Miss, vars, histories, Cached, ReaderStages
<1>6. CASE Lock(r)
  BY <1>2, <1>6 DEF Lock, vars, histories, ReaderStages
<1>7. CASE Wait(r)
  BY <1>1, <1>2, <1>3, <1>7 DEF Wait, vars, histories, ReaderStages
<1>8. CASE CheckAgain(r)
  BY <1>2, <1>8 DEF CheckAgain, vars, histories, ReaderStages
<1>9. CASE Load(r)
  <2>1. reader[r].stage = "loading"
        /\ UNCHANGED <<auction, active, bids, item, replica, writing, clock, worker, events, best,
                       lock, ttl, losses, hash, hidden, made>>
    BY <1>9 DEF Load, redis, histories
  <2>2. CASE ReaderGoes(r, "unlocking") /\ (faults' = faults \/ Fault("rebuild"))
    BY <1>2, <2>1, <2>2 DEF ReaderStages
  <2>3. ASSUME NEW it \in {item, replica}, NoFault, it.status # "MISSING",
               reader' = [reader EXCEPT ![r] = [stage |-> "writing", copy |-> HashOf(it)]]
        PROVE  /\ reader' \in [Readers -> Reader] /\ CarriesItem(r, it) /\ faults' = faults
               /\ \A q \in Readers \ {r} : reader'[q] = reader[q]
    BY <1>4, <2>3 DEF Reader, ReaderStages, NoFault, CarriesItem
  <2> QED BY <1>9, <2>1, <2>2, <2>3 DEF Load, NoFault
<1>10. CASE Rebuild(r)
  <2>1. /\ reader[r].stage = "writing" /\ ReaderGoes(r, "unlocking")
        /\ UNCHANGED <<bids, item, replica, writing, clock, worker, events, best, lock, ttl,
                       losses, hidden, made>>
    BY <1>10 DEF Rebuild
  <2>2. /\ reader' \in [Readers -> Reader]
        /\ reader'[r].stage = "unlocking" /\ reader'[r].copy = reader[r].copy
        /\ \A q \in Readers \ {r} : reader'[q] = reader[q]
    BY <1>2, <2>1 DEF ReaderStages
  <2>3. CASE /\ NoFault /\ auction' = reader[r].copy
             /\ active' = (active \/ reader[r].copy.status # "CLOSED")
             /\ hash' = IF hash = "first" THEN "rebuilt" ELSE hash
    BY <2>1, <2>2, <2>3 DEF NoFault
  <2>4. CASE Fault("rebuild") /\ UNCHANGED <<auction, active, hash>>
    BY <2>1, <2>2, <2>4
  <2> QED BY <1>10, <2>3, <2>4 DEF Rebuild
<1>11. CASE Unlock(r)
  BY <1>1, <1>3, <1>11 DEF Unlock, vars, histories
<1> QED BY <1>5, <1>6, <1>7, <1>8, <1>9, <1>10, <1>11 DEF ReaderStep

LEMMA ReaderKeepsTypes ==
  ASSUME CacheTypeOK, NEW r \in Readers, ReaderStep(r)
  PROVE  CacheTypeOK'
<1>1. Typed /\ reader \in [Readers -> Reader] /\ item \in Item /\ replica \in Item
  BY DEF CacheTypeOK, Typed
<1>2. /\ reader' \in [Readers -> Reader]
      /\ \A q \in Readers \ {r} : reader'[q] = reader[q]
      /\ UNCHANGED <<bids, item, replica, writing, clock, worker, events, best, ttl, losses,
                     hidden, made>>
      /\ \/ reader'[r].stage # "writing"
         \/ \E it \in {item, replica} : it.status # "MISSING" /\ CarriesItem(r, it)
      /\ \/ UNCHANGED <<auction, active, hash>>
         \/ /\ reader[r].stage = "writing" /\ auction' = reader[r].copy
            /\ active' \in BOOLEAN
            /\ hash' = IF hash = "first" THEN "rebuilt" ELSE hash
      /\ faults' = faults \/ Fault("rebuild")
      /\ lock' \in {lock, TRUE, FALSE}
  BY <1>1, ReaderMoves
<1>3. faults' \in 0..MaxFaults
  BY <1>1, <1>2, FaultsAssumption DEF Typed, Fault
<1>4. /\ auction' \in AuctionHash /\ active' \in BOOLEAN
      /\ Cached => Cached'
      /\ hash' \in {"first", "rebuilt", "rebid"}
  BY <1>1, <1>2 DEF CacheTypeOK, Typed, Reader, Cached
<1>5. Typed'
  BY <1>1, <1>2, <1>3, <1>4 DEF Typed
<1>6. \A q \in Readers : reader'[q].stage = "writing" => reader'[q].copy.status # "MISSING"
  BY <1>2 DEF CacheTypeOK, HashOf, CarriesItem
<1> QED BY <1>2, <1>4, <1>5, <1>6 DEF CacheTypeOK

LEMMA LossesAreCounted ==
  ASSUME losses \in [{"restart", "expiry"} -> 0..MaxLosses],
         NEW how \in {"restart", "expiry"}, Loses(how)
  PROVE  /\ losses' \in [{"restart", "expiry"} -> 0..MaxLosses]
         /\ losses'[how] = losses[how] + 1
         /\ \A k \in {"restart", "expiry"} \ {how} : losses'[k] = losses[k]
BY LossesAssumption DEF Loses

(* Every step keeps the types of the cache.                                *)
LEMMA CacheKeepsTypes == CacheTypeOK /\ [CacheNext]_cacheVars => CacheTypeOK'
<1> SUFFICES ASSUME CacheTypeOK, [CacheNext]_cacheVars PROVE CacheTypeOK'
  OBVIOUS
<1>1. Typed
  BY DEF CacheTypeOK
<1>2. CASE ClosingStep
  <2>1. Typed'
    BY <1>1, <1>2, StepKeepsTyped DEF ClosingStep
  <2>2. Cached => Cached'
    BY <1>1, <1>2, HashStays DEF ClosingStep, Cached
  <2>3. writing' \subseteq Bidders \X Amounts
    BY <2>1 DEF Typed
  <2>4. \A w \in Workers : worker'[w].copy.status # "MISSING"
    BY <1>2, CopiesStayKnown DEF ClosingStep
  <2>5. /\ UNCHANGED <<lock, reader, losses>> /\ made' = made \cup writing'
        /\ hash' \in {hash, "rebid"}
        /\ ttl' \in BOOLEAN /\ hidden' \in BOOLEAN
        /\ ttl' => Cached'
    BY <1>2, <2>2 DEF ClosingStep, CacheTypeOK
  <2> QED BY <2>1, <2>3, <2>4, <2>5 DEF CacheTypeOK
<1>3. ASSUME NEW r \in Readers, ReaderStep(r) PROVE CacheTypeOK'
  BY <1>3, ReaderKeepsTypes
<1>4. CASE LockExpires
  BY <1>4 DEF LockExpires, vars, histories, CacheTypeOK, Typed, Cached
<1>5. CASE HashExpires \/ RedisRestarts
  <2>1. NoHash \in AuctionHash /\ NoBids \in BidSet
    BY DEF NoHash, AuctionHash, Statuses, NoBids, BidSet
  <2>2. losses' \in [{"restart", "expiry"} -> 0..MaxLosses]
    BY <1>5, LossesAreCounted DEF HashExpires, RedisRestarts, CacheTypeOK
  <2>3. /\ auction' = NoHash /\ ttl' = FALSE /\ bids' \in {bids, NoBids}
        /\ active' \in {active, FALSE} /\ lock' \in {lock, FALSE}
        /\ UNCHANGED <<item, replica, writing, clock, worker, events, faults, best, reader, hash,
                       hidden, made>>
    BY <1>5 DEF HashExpires, RedisRestarts
  <2>4. Typed'
    BY <1>1, <2>1, <2>3 DEF Typed
  <2> QED BY <2>2, <2>3, <2>4 DEF CacheTypeOK
<1>6. CASE UNCHANGED cacheVars
  BY <1>6 DEF cacheVars, vars, cache, histories, CacheTypeOK, Typed, Cached
<1> QED BY <1>2, <1>3, <1>4, <1>5, <1>6 DEF CacheNext

-----------------------------------------------------------------------------
(* Prices.  Whatever an award is made of names a price that was bid.       *)

(* What was bid stays bid, and a set without entries claims nothing.       *)
LEMMA BidsStayBid ==
  ASSUME NEW placed, NEW more, placed \subseteq more
  PROVE  /\ \A z : WereBid(z, placed) => WereBid(z, more)
         /\ \A a : BidOf(a, placed) => BidOf(a, more)
         /\ WereBid(NoBids, more)
         /\ BidOf(NewAuction, more) /\ BidOf(NoHash, more)
BY DEF WereBid, BidOf, NoBids, Entrants, NewAuction, NoHash

(* The placement script writes the amount of the bid and nothing else; the *)
(* hash of a single winner names it.                                       *)
LEMMA PlacedWereBid ==
  ASSUME NEW a \in AuctionHash, NEW z \in BidSet, NEW b \in Bidders,
         NEW amount \in Nat \ {0}, NEW placed, WereBid(z, placed)
  PROVE  /\ WereBid(BidsAfter(z, b, amount), placed \cup {<<b, amount>>})
         /\ Quantity = 1 => BidOf(HashAfter(a, z, b, amount), placed \cup {<<b, amount>>})
<1> DEFINE new == WithBid(z, b, amount)
           after == BidsAfter(z, b, amount)
<1>1. new \in BidSet /\ new[b] = amount /\ \A c \in Bidders \ {b} : new[c] = z[c]
  BY WithBidProperties
<1>2. \A c \in Bidders : after[c] \in {new[c], 0}
  <2>1. after \in {new, [new EXCEPT ![Lowest(new)] = 0]}
    BY DEF BidsAfter
  <2> HIDE DEF new, after
  <2> QED BY <1>1, <2>1 DEF BidSet
<1>3. \A c \in Entrants(after) : after[c] = new[c]
  BY <1>2 DEF Entrants
<1>4. WereBid(after, placed \cup {<<b, amount>>})
  <2> SUFFICES ASSUME NEW c \in Entrants(after)
               PROVE  <<c, after[c]>> \in placed \cup {<<b, amount>>}
    BY DEF WereBid
  <2>1. c \in Bidders /\ after[c] > 0 /\ after[c] = new[c]
    BY <1>3 DEF Entrants
  <2>2. CASE c = b
    BY <1>1, <2>1, <2>2
  <2>3. CASE c # b
    <3>1. c \in Entrants(z) /\ after[c] = z[c]
      BY <1>1, <2>1, <2>3 DEF Entrants
    <3> QED BY <3>1 DEF WereBid
  <2> QED BY <2>2, <2>3
<1>5. Quantity = 1 => NewFloor(a, z, b, amount) = amount
  BY DEF NewFloor
<1>6. Quantity = 1 => BidOf(HashAfter(a, z, b, amount), placed \cup {<<b, amount>>})
  BY <1>5 DEF HashAfter, AuctionHash, BidOf
<1> QED BY <1>4, <1>6

(* The close script and the fallback return what was bid, the fallback     *)
(* without a bidder in the item nobody.                                    *)
LEMMA ReadWereBid ==
  ASSUME NEW a \in AuctionHash, NEW z \in BidSet, NEW placed,
         WereBid(z, placed), Quantity = 1 => BidOf(a, placed)
  PROVE  WereBid(WinnersRead(a, z), placed)
<1>1. \A b \in TopEntrants(z) : b \in Entrants(z)
  BY DEF TopEntrants
<1>2. NoBidder \notin Bidders
  BY BiddersAssumption
<1>3. CASE Quantity = 1 /\ Entrants(z) = {}
  BY <1>2, <1>3 DEF WinnersRead, WereBid, BidOf, Entrants
<1>4. CASE ~(Quantity = 1 /\ Entrants(z) = {})
  <2>1. WinnersRead(a, z) = [b \in Bidders |-> IF b \in TopEntrants(z) THEN z[b] ELSE 0]
    BY <1>4 DEF WinnersRead
  <2>2. \A b \in Entrants(WinnersRead(a, z)) : b \in Entrants(z) /\ WinnersRead(a, z)[b] = z[b]
    BY <1>1, <2>1 DEF Entrants
  <2> QED BY <2>2 DEF WereBid
<1> QED BY <1>3, <1>4

LEMMA FallbackWereBid ==
  ASSUME NEW it \in Item, NEW placed, WereBid(it.winners, placed),
         it.bidder = NoBidder \/ BidOf(it, placed),
         NEW z \in DynamoWinners(it)
  PROVE  WereBid(z, placed)
<1>1. NoBidder \notin Bidders
  BY BiddersAssumption
<1>2. \A b, amount, c : c \in Entrants(Solely(b, amount)) => c = b /\ Solely(b, amount)[c] = amount
  BY DEF Entrants, Solely
<1>3. CASE z = Solely(it.bidder, it.current)
  <2>1. \A c \in Entrants(z) : c \in Bidders /\ c = it.bidder /\ z[c] = it.current
    BY <1>2, <1>3 DEF Entrants
  <2> QED BY <1>1, <2>1 DEF WereBid, BidOf
<1>4. ASSUME NEW b \in Entrants(it.winners), z = Solely(b, it.winners[b])
      PROVE  WereBid(z, placed)
  BY <1>2, <1>4 DEF WereBid
<1> QED BY <1>3, <1>4 DEF DynamoWinners

(* The invariant, by who holds the prices.                                 *)
ItemPrices(it) ==
  /\ WereBid(it.winners, made)
  /\ Quantity = 1 => BidOf(it, made)
  /\ events = << >> => it.bidder = NoBidder

KeyPrices ==
  /\ writing \subseteq made
  /\ WereBid(bids, made)
  /\ Quantity = 1 => BidOf(auction, made)
  /\ ItemPrices(item) /\ ItemPrices(replica)

WorkerPrices(w) ==
  /\ Quantity = 1 => BidOf(worker[w].copy, made)
  /\ events = << >> => worker[w].stage \notin {"reading", "saving", "cleanup"}
  /\ events = << >> \/ Quantity = 1 => WereBid(worker[w].winners, made)

ReaderPrices(r) == Quantity = 1 => BidOf(reader[r].copy, made)

LEMMA PricesByHolder ==
  PricesWereBid <=> /\ KeyPrices
                    /\ \A w \in Workers : WorkerPrices(w)
                    /\ \A r \in Readers : ReaderPrices(r)
                    /\ WinnersPaidTheirBid
BY DEF PricesWereBid, KeyPrices, ItemPrices, WorkerPrices, ReaderPrices

(* Whoever takes no step keeps what it holds, and one that leaves holds    *)
(* nothing any more.                                                       *)
LEMMA BystandersKeepPrices ==
  ASSUME made \subseteq made', events' = << >> => events = << >>
  PROVE  /\ \A w \in Workers : WorkerPrices(w) /\ worker'[w] = worker[w] => WorkerPrices(w)'
         /\ \A r \in Readers : ReaderPrices(r) /\ reader'[r] = reader[r] => ReaderPrices(r)'
         /\ \A w \in Workers : /\ worker'[w].stage \in Harmless
                               /\ worker'[w].winners = NoBids /\ worker'[w].copy = NewAuction
                               => WorkerPrices(w)'
         /\ WinnersPaidTheirBid /\ events' = events => WinnersPaidTheirBid'
BY BidsStayBid DEF WorkerPrices, ReaderPrices, WinnersPaidTheirBid, Harmless

(* A copy of the item claims no more than the item did or does.            *)
LEMMA CopiesKeepPrices ==
  ASSUME Follows, made \subseteq made', events' = << >> => events = << >>,
         ItemPrices(item), ItemPrices(replica), ItemPrices(item)'
  PROVE  ItemPrices(replica)'
BY BidsStayBid DEF Follows, ItemPrices

(* One worker takes a step: what is left to show of it.                    *)
LEMMA WorkerKeepsPrices ==
  ASSUME PricesWereBid, NEW w \in Workers, OthersStay(w),
         made' = made, reader' = reader, events' = << >> => events = << >>,
         KeyPrices', WorkerPrices(w)', WinnersPaidTheirBid'
  PROVE  PricesWereBid'
<1>1. \A v \in Workers : WorkerPrices(v)'
  BY PricesByHolder, BystandersKeepPrices DEF OthersStay
<1>2. \A r \in Readers : ReaderPrices(r)'
  BY PricesByHolder, BystandersKeepPrices
<1>3. PricesWereBid' <=> /\ KeyPrices'
                         /\ \A v \in Workers : WorkerPrices(v)'
                         /\ \A r \in Readers : ReaderPrices(r)'
                         /\ WinnersPaidTheirBid'
  BY DEF PricesWereBid, KeyPrices, ItemPrices, WorkerPrices, ReaderPrices
<1> QED BY <1>1, <1>2, <1>3

(* The calls of CloseAuction hand on what the script or the fallback read. *)
LEMMA CloseKeepsPrices ==
  ASSUME CacheTypeOK, PricesWereBid, NEW w \in Workers, WorkerStep(w),
         made' = made \cup writing', reader' = reader
  PROVE  PricesWereBid'
<1>1. /\ worker \in [Workers -> Worker] /\ auction \in AuctionHash /\ bids \in BidSet
      /\ item \in Item /\ replica \in Item /\ events \in Seq(BidSet)
      /\ worker[w].winners \in BidSet /\ worker[w].copy \in AuctionHash
  BY DEF CacheTypeOK, Typed, Worker
<1>2. KeyPrices /\ WorkerPrices(w) /\ WinnersPaidTheirBid
  BY PricesByHolder
<1>3. writing' = writing
  BY DEF WorkerStep, CloseRefused, AtomicCloseAndReadWinners, ReadDynamoWinners,
         PublishAuctionClosed, RollbackClose, ReadFinalState, SaveFinalState, CleanupRedis
<1>4. made' = made
  BY <1>2, <1>3 DEF KeyPrices, ItemPrices
<1>5. Leaves(w) => WorkerPrices(w)'
  <2>1. WereBid(NoBids, made) /\ BidOf(NewAuction, made)
    BY BidsStayBid
  <2> QED BY <1>4, <2>1 DEF Leaves, AfterClosing, WorkerPrices
<1>6. WereBid(WinnersRead(auction, bids), made)
  BY <1>1, <1>2, ReadWereBid DEF KeyPrices, ItemPrices
<1>7. BidOf(auction, made) => /\ BidOf(ClosedHash(auction), made)
                              /\ BidOf(ReopenedHash(auction), made)
  BY <1>1 DEF BidOf, ClosedHash, ReopenedHash, AuctionHash
<1>8. UNCHANGED events => WinnersPaidTheirBid'
  BY <1>2, <1>4 DEF WinnersPaidTheirBid
<1>9. CASE CloseRefused(w)
  <2>1. /\ Leaves(w) /\ OthersStay(w) /\ UNCHANGED <<auction, bids, item, replica, writing, events>>
    BY <1>1, <1>9, RefusedMoves
  <2>2. KeyPrices'
    BY <1>2, <1>4, <2>1 DEF KeyPrices, ItemPrices
  <2> QED BY <1>4, <1>5, <1>8, <2>1, <2>2, WorkerKeepsPrices
<1>10. CASE AtomicCloseAndReadWinners(w)
  <2>1. /\ OthersStay(w) /\ auction' = ClosedHash(auction)
        /\ UNCHANGED <<bids, item, replica, writing, events>>
        /\ \/ Leaves(w)
           \/ \E s \in {"fallback", "publishing"} :
                Goes(w, s, WinnersRead(auction, bids), worker[w].copy)
    BY <1>1, <1>10, ScriptMoves
  <2>2. KeyPrices'
    BY <1>2, <1>4, <1>7, <2>1 DEF KeyPrices, ItemPrices
  <2>3. WorkerPrices(w)'
    BY <1>2, <1>4, <1>5, <1>6, <2>1 DEF WorkerPrices, Goes
  <2> QED BY <1>4, <1>8, <2>1, <2>2, <2>3, WorkerKeepsPrices
<1>11. CASE ReadDynamoWinners(w)
  <2>1. /\ OthersStay(w) /\ UNCHANGED <<auction, bids, item, replica, writing, events>>
        /\ \/ \E z \in DynamoWinners(item) \cup DynamoWinners(replica) :
                Goes(w, "publishing", z, worker[w].copy)
           \/ Goes(w, "publishing", worker[w].winners, worker[w].copy)
    BY <1>1, <1>11, FallbackMoves
  <2>2. KeyPrices'
    BY <1>2, <1>4, <2>1 DEF KeyPrices, ItemPrices
  <2>3. ASSUME events = << >> \/ Quantity = 1,
               NEW z \in DynamoWinners(item) \cup DynamoWinners(replica)
        PROVE  WereBid(z, made)
    BY <1>1, <1>2, <2>3, FallbackWereBid DEF KeyPrices, ItemPrices
  <2>4. WorkerPrices(w)'
    BY <1>2, <1>4, <2>1, <2>3 DEF WorkerPrices, Goes
  <2> QED BY <1>4, <1>8, <2>1, <2>2, <2>4, WorkerKeepsPrices
<1>12. CASE PublishAuctionClosed(w)
  <2>1. /\ OthersStay(w) /\ UNCHANGED <<auction, bids, item, replica, writing>>
        /\ \E s \in {"reading", "rollback"} : Goes(w, s, worker[w].winners, worker[w].copy)
        /\ \/ events' = Append(events, worker[w].winners)
           \/ events' = events /\ worker'[w].stage = "rollback"
    BY <1>1, <1>12, PublishMoves
  <2>2. events' = << >> => events = << >> /\ worker'[w].stage = "rollback"
    BY <1>1, <2>1
  <2>3. WinnersPaidTheirBid'
    <3>1. CASE events' = Append(events, worker[w].winners)
      <4>1. ASSUME NEW k \in DOMAIN events', k = 1 \/ Quantity = 1
            PROVE  WereBid(events'[k], made)
        <5>1. CASE k \in DOMAIN events
          BY <1>1, <1>2, <3>1, <4>1, <5>1 DEF WinnersPaidTheirBid
        <5>2. CASE k \notin DOMAIN events
          <6>1. k = Len(events) + 1 /\ events'[k] = worker[w].winners
            BY <1>1, <3>1, <5>2
          <6>2. events = << >> \/ Quantity = 1
            BY <1>1, <4>1, <6>1
          <6> QED BY <1>2, <6>1, <6>2 DEF WorkerPrices
        <5> QED BY <5>1, <5>2
      <4> QED BY <1>4, <4>1 DEF WinnersPaidTheirBid
    <3> QED BY <1>8, <2>1, <3>1
  <2>4. KeyPrices'
    BY <1>2, <1>4, <2>1, <2>2 DEF KeyPrices, ItemPrices
  <2>5. WorkerPrices(w)'
    BY <1>2, <1>4, <2>1, <2>2 DEF WorkerPrices, Goes
  <2> QED BY <1>4, <2>1, <2>2, <2>3, <2>4, <2>5, WorkerKeepsPrices
<1>13. CASE RollbackClose(w)
  <2>1. /\ Leaves(w) /\ OthersStay(w) /\ UNCHANGED <<bids, item, replica, writing, events>>
        /\ auction' \in {auction, ReopenedHash(auction)}
    BY <1>1, <1>13, RollbackMoves
  <2>2. KeyPrices'
    BY <1>2, <1>4, <1>7, <2>1 DEF KeyPrices, ItemPrices
  <2> QED BY <1>4, <1>5, <1>8, <2>1, <2>2, WorkerKeepsPrices
<1>14. CASE ReadFinalState(w)
  <2>1. /\ worker[w].stage = "reading" /\ OthersStay(w) /\ Follows
        /\ UNCHANGED <<auction, bids, writing, events>>
        /\ \/ Goes(w, "saving", worker[w].winners, ClosedHash(auction)) /\ item' = item
           \/ /\ Goes(w, "cleanup", worker[w].winners, worker[w].copy)
              /\ item' = item \/ item' = [item EXCEPT !.status = "CLOSED"]
    BY <1>1, <1>14, ReadMoves
  <2>2. events # << >>
    BY <1>2, <2>1 DEF WorkerPrices
  <2>3. /\ item'.winners = item.winners /\ item'.current = item.current
        /\ item'.bidder = item.bidder
    BY <1>1, <2>1 DEF Item
  <2>4. ItemPrices(item)'
    BY <1>2, <1>4, <2>1, <2>2, <2>3 DEF KeyPrices, ItemPrices, BidOf
  <2>5. KeyPrices'
    BY <1>2, <1>4, <2>1, <2>4, CopiesKeepPrices DEF KeyPrices
  <2>6. WorkerPrices(w)'
    BY <1>2, <1>4, <1>7, <2>1, <2>2 DEF WorkerPrices, KeyPrices, Goes
  <2> QED BY <1>4, <1>8, <2>1, <2>2, <2>5, <2>6, WorkerKeepsPrices
<1>15. CASE SaveFinalState(w)
  <2>1. /\ worker[w].stage = "saving" /\ OthersStay(w) /\ Follows
        /\ Goes(w, "cleanup", worker[w].winners, worker[w].copy)
        /\ item' \in {item, ItemOf(worker[w].copy)}
        /\ UNCHANGED <<auction, bids, writing, events>>
    BY <1>1, <1>15, SaveMoves
  <2>2. events # << >>
    BY <1>2, <2>1 DEF WorkerPrices
  <2>3. /\ WereBid(ItemOf(worker[w].copy).winners, made)
        /\ Quantity = 1 => BidOf(ItemOf(worker[w].copy), made)
    BY <1>2, BidsStayBid DEF WorkerPrices, ItemOf, BidOf
  <2>4. ItemPrices(item)'
    BY <1>2, <1>4, <2>1, <2>2, <2>3 DEF KeyPrices, ItemPrices
  <2>5. KeyPrices'
    BY <1>2, <1>4, <2>1, <2>4, CopiesKeepPrices DEF KeyPrices
  <2>6. WorkerPrices(w)'
    BY <1>2, <1>4, <2>1, <2>2 DEF WorkerPrices, Goes
  <2> QED BY <1>4, <1>8, <2>1, <2>2, <2>5, <2>6, WorkerKeepsPrices
<1>16. CASE CleanupRedis(w)
  <2>1. /\ Leaves(w) /\ OthersStay(w) /\ bids' \in {bids, NoBids}
        /\ UNCHANGED <<auction, item, replica, writing, events>>
    BY <1>1, <1>16, CleanupMoves
  <2>2. KeyPrices'
    BY <1>2, <1>4, <2>1, BidsStayBid DEF KeyPrices, ItemPrices
  <2> QED BY <1>4, <1>5, <1>8, <2>1, <2>2, WorkerKeepsPrices
<1> QED BY <1>9, <1>10, <1>11, <1>12, <1>13, <1>14, <1>15, <1>16 DEF WorkerStep

(* A bid adds its own price, and the goroutine copies it to the item.      *)
LEMMA BidKeepsPrices ==
  ASSUME CacheTypeOK, PricesWereBid, NEW b \in Bidders, NEW amount \in Amounts,
         PlaceBid(b, amount) \/ UpdateDynamoWinner(b, amount),
         made' = made \cup writing', reader' = reader
  PROVE  PricesWereBid'
<1>1. /\ auction \in AuctionHash /\ bids \in BidSet /\ item \in Item /\ replica \in Item
      /\ amount \in Nat \ {0}
  BY ClosingAmountsAssumption DEF CacheTypeOK, Typed
<1>2. /\ KeyPrices /\ \A w \in Workers : WorkerPrices(w)
      /\ \A r \in Readers : ReaderPrices(r)
      /\ WinnersPaidTheirBid
  BY PricesByHolder
<1>3. UNCHANGED <<worker, events>> /\ made \subseteq made'
  BY DEF PlaceBid, UpdateDynamoWinner
<1>4. /\ \A w \in Workers : WorkerPrices(w)'
      /\ \A r \in Readers : ReaderPrices(r)'
      /\ WinnersPaidTheirBid'
  BY <1>2, <1>3, BystandersKeepPrices
<1>5. CASE PlaceBid(b, amount)
  <2>1. /\ auction' = HashAfter(auction, bids, b, amount)
        /\ bids' = BidsAfter(bids, b, amount) /\ UNCHANGED <<item, replica>>
        /\ writing' = writing \cup {<<b, amount>>}
    BY <1>5 DEF PlaceBid
  <2>2. made' = made \cup {<<b, amount>>}
    BY <1>2, <2>1 DEF KeyPrices
  <2>3. WereBid(bids', made') /\ (Quantity = 1 => BidOf(auction', made'))
    BY <1>1, <1>2, <2>1, <2>2, PlacedWereBid DEF KeyPrices
  <2>4. KeyPrices'
    BY <1>2, <1>3, <2>1, <2>2, <2>3, BidsStayBid DEF KeyPrices, ItemPrices
  <2> QED BY <1>4, <2>4 DEF PricesWereBid, KeyPrices, ItemPrices, WorkerPrices, ReaderPrices
<1>6. CASE UpdateDynamoWinner(b, amount)
  <2>1. /\ <<b, amount>> \in made /\ made' = made
        /\ writing' \subseteq writing /\ UNCHANGED <<auction, bids>>
    BY <1>2, <1>6 DEF UpdateDynamoWinner, KeyPrices, redis
  <2>2. /\ item'.bidder = item.bidder /\ item'.current = item.current
        /\ \A c \in Bidders : item'.winners[c] \in {item.winners[c], 0} \/ c = b
        /\ item'.winners[b] \in {item.winners[b], amount}
        /\ Follows
    BY <1>1, <1>6, CopyWrites DEF UpdateDynamoWinner, ItemBecomes, Follows
  <2>3. WereBid(item'.winners, made)
    <3> SUFFICES ASSUME NEW c \in Bidders, item'.winners[c] > 0
                 PROVE  <<c, item'.winners[c]>> \in made
      BY DEF WereBid, Entrants
    <3>1. item'.winners[c] = item.winners[c] \/ (c = b /\ item'.winners[c] = amount)
      BY <2>2
    <3> QED BY <1>2, <2>1, <3>1 DEF KeyPrices, ItemPrices, WereBid, Entrants
  <2>4. ItemPrices(item)'
    BY <1>2, <1>3, <2>1, <2>2, <2>3 DEF KeyPrices, ItemPrices, BidOf
  <2>5. KeyPrices'
    BY <1>2, <1>3, <2>1, <2>2, <2>4, CopiesKeepPrices DEF KeyPrices
  <2> QED BY <1>4, <2>5 DEF PricesWereBid, KeyPrices, ItemPrices, WorkerPrices, ReaderPrices
<1> QED BY <1>5, <1>6

(* A reader carries the price of the item to the hash.                     *)
LEMMA ReaderKeepsPrices ==
  ASSUME CacheTypeOK, PricesWereBid, NEW r \in Readers, ReaderStep(r)
  PROVE  PricesWereBid'
<1>1. reader \in [Readers -> Reader] /\ item \in Item /\ replica \in Item
  BY DEF CacheTypeOK, Typed
<1>2. /\ \A q \in Readers \ {r} : reader'[q] = reader[q]
      /\ UNCHANGED <<bids, item, replica, writing, worker, events, made>>
      /\ \/ reader'[r] = Idle \/ reader'[r].copy = reader[r].copy
         \/ \E it \in {item, replica} : CarriesItem(r, it)
      /\ auction' = auction \/ auction' = reader[r].copy
  BY <1>1, ReaderMoves
<1>3. /\ KeyPrices /\ \A w \in Workers : WorkerPrices(w)
      /\ \A q \in Readers : ReaderPrices(q)
      /\ WinnersPaidTheirBid
  BY PricesByHolder
<1>4. /\ \A w \in Workers : WorkerPrices(w)'
      /\ \A q \in Readers \ {r} : ReaderPrices(q)'
      /\ WinnersPaidTheirBid'
  BY <1>2, <1>3, BystandersKeepPrices
<1>5. ReaderPrices(r)'
  BY <1>2, <1>3 DEF ReaderPrices, KeyPrices, ItemPrices, CarriesItem, BidOf, HashOf, Idle, NoHash
<1>6. KeyPrices'
  BY <1>2, <1>3 DEF KeyPrices, ItemPrices, ReaderPrices
<1> QED BY <1>4, <1>5, <1>6 DEF PricesWereBid, KeyPrices, ItemPrices, WorkerPrices, ReaderPrices

(* Every step keeps it: with any faults, losses, readers and closers.      *)
LEMMA StepKeepsPrices == CacheInv /\ [CacheNext]_cacheVars => PricesWereBid'
<1> SUFFICES ASSUME CacheInv, [CacheNext]_cacheVars PROVE PricesWereBid'
  OBVIOUS
<1>1. /\ CacheTypeOK /\ PricesWereBid /\ KeyPrices /\ WinnersPaidTheirBid
      /\ \A w \in Workers : WorkerPrices(w)
      /\ \A r \in Readers : ReaderPrices(r)
      /\ worker \in [Workers -> Worker] /\ auction \in AuctionHash
  BY PricesByHolder DEF CacheInv, CacheTypeOK, Typed
<1>2. CASE ClosingStep
  <2>1. Next /\ made' = made \cup writing' /\ reader' = reader
    BY <1>2 DEF ClosingStep
  <2>2. ASSUME NEW w \in Workers, WorkerStep(w) PROVE PricesWereBid'
    BY <1>1, <2>1, <2>2, CloseKeepsPrices
  <2>3. ASSUME NEW b \in Bidders, NEW amount \in Amounts,
               PlaceBid(b, amount) \/ UpdateDynamoWinner(b, amount)
        PROVE  PricesWereBid'
    BY <1>1, <2>1, <2>3, BidKeepsPrices
  <2>4. ASSUME writing' \subseteq writing, UNCHANGED <<bids, item, events>>,
               replica' \in {replica, item},
               auction'.bidder = auction.bidder, auction'.current = auction.current,
               \A w \in Workers :
                 \/ worker'[w].stage = worker[w].stage \/ worker'[w].stage \in Harmless
                 \/ worker'[w] = worker[w],
               \A w \in Workers :
                 \/ worker'[w].winners = worker[w].winners /\ worker'[w].copy = worker[w].copy
                 \/ worker'[w].winners = NoBids /\ worker'[w].copy = NewAuction
        PROVE  PricesWereBid'
    <3>1. made' = made
      BY <1>1, <2>1, <2>4 DEF KeyPrices
    <3>2. KeyPrices'
      BY <1>1, <2>4, <3>1 DEF KeyPrices, ItemPrices, BidOf
    <3>3. ASSUME NEW w \in Workers PROVE WorkerPrices(w)'
      BY <1>1, <2>4, <3>1, BidsStayBid DEF WorkerPrices, Harmless
    <3>4. WinnersPaidTheirBid' /\ \A r \in Readers : ReaderPrices(r)'
      BY <1>1, <2>1, <2>4, <3>1 DEF WinnersPaidTheirBid, ReaderPrices
    <3> QED BY <3>2, <3>3, <3>4 DEF PricesWereBid, KeyPrices, ItemPrices, WorkerPrices,
                                    ReaderPrices
  <2>5. CASE Tick \/ Replicate
    BY <2>4, <2>5 DEF Tick, Replicate, redis
  <2>6. ASSUME NEW w \in Workers,
               \/ w \in Instances /\ (CheckExpired(w) \/ CheckPending(w))
               \/ w \in SellerCalls /\ SellerCloses(w)
        PROVE  PricesWereBid'
    BY <1>1, <2>4, <2>6, LookMoves DEF Goes, OthersStay
  <2>7. ASSUME NEW i \in Instances, OpenAuction(i) PROVE PricesWereBid'
    <3>1. /\ worker[i].stage = "opening" /\ OthersStay(i)
          /\ Goes(i, "idle", worker[i].winners, worker[i].copy)
          /\ auction' = [auction EXCEPT !.status = "OPEN"]
          /\ UNCHANGED <<bids, active, item, replica, writing, clock, events, faults, best>>
      BY <1>1, <2>7, OpenMoves
    <3>2. auction'.bidder = auction.bidder /\ auction'.current = auction.current
      BY <1>1, <3>1 DEF AuctionHash
    <3> QED BY <2>4, <3>1, <3>2 DEF Goes, OthersStay, Harmless
  <2>8. ASSUME NEW i \in Instances, Crash(i) PROVE PricesWereBid'
    BY <1>1, <2>4, <2>8, CrashMoves DEF Harmless
  <2> QED BY <2>1, <2>2, <2>3, <2>5, <2>6, <2>7, <2>8 DEF Next, CloserStep, Workers
<1>3. ASSUME NEW r \in Readers, ReaderStep(r) PROVE PricesWereBid'
  BY <1>1, <1>3, ReaderKeepsPrices
<1>4. CASE LockExpires \/ UNCHANGED cacheVars
  BY <1>1, <1>4 DEF LockExpires, cacheVars, vars, cache, histories, PricesWereBid,
     WinnersPaidTheirBid
<1>5. CASE HashExpires \/ RedisRestarts
  <2>1. /\ auction' = NoHash /\ bids' \in {bids, NoBids}
        /\ UNCHANGED <<item, replica, writing, worker, events, reader, made>>
    BY <1>5 DEF HashExpires, RedisRestarts
  <2>2. KeyPrices'
    BY <1>1, <2>1, BidsStayBid DEF KeyPrices, ItemPrices
  <2>3. /\ \A w \in Workers : WorkerPrices(w)'
        /\ \A r \in Readers : ReaderPrices(r)'
        /\ WinnersPaidTheirBid'
    BY <1>1, <2>1, BystandersKeepPrices
  <2> QED BY <2>2, <2>3 DEF PricesWereBid, KeyPrices, ItemPrices, WorkerPrices, ReaderPrices
<1> QED BY <1>2, <1>3, <1>4, <1>5 DEF CacheNext

(* With whatever is lost, rebuilt, retried or closed twice, the types hold *)
(* and no winner is announced with a price that this bidder did not bid.   *)
THEOREM CacheIsSound == CacheSpec => []CacheInv
<1>1. CacheInit => CacheInv
  <2> SUFFICES ASSUME CacheInit PROVE PricesWereBid
    BY CacheInitTypes DEF CacheInv
  <2>1. /\ writing = {} /\ bids = NoBids /\ auction = NewAuction
        /\ item \in {ItemOf(NewAuction), NoItem} /\ replica \in {item, NoItem}
        /\ events = << >> /\ \A r \in Readers : reader[r] = Idle
        /\ \A w \in Workers : /\ worker[w].stage = "idle" /\ worker[w].winners = NoBids
                              /\ worker[w].copy = NewAuction
    BY DEF CacheInit, Init
  <2>2. KeyPrices
    BY <2>1, BidsStayBid DEF KeyPrices, ItemPrices, ItemOf, NoItem, BidOf, NewAuction
  <2>3. \A w \in Workers : WorkerPrices(w)
    BY <2>1, BidsStayBid DEF WorkerPrices
  <2>4. \A r \in Readers : ReaderPrices(r)
    <3>1. BidOf(Idle.copy, made)
      BY DEF Idle, NoHash, BidOf
    <3> QED BY <2>1, <3>1 DEF ReaderPrices
  <2>5. WinnersPaidTheirBid
    BY <2>1 DEF WinnersPaidTheirBid
  <2> QED BY <2>2, <2>3, <2>4, <2>5, PricesByHolder
<1>2. CacheInv /\ [CacheNext]_cacheVars => CacheInv'
  BY CacheKeepsTypes, StepKeepsPrices DEF CacheInv
<1> QED BY <1>1, <1>2, PTL DEF CacheSpec

-----------------------------------------------------------------------------
(* Closed for good.  While nothing fails and Redis does not restart, the   *)
(* only hash that can go is one whose item is closed.                      *)

(* What went wrong stays counted.                                          *)
LEMMA TroubleIsCounted ==
  ASSUME CacheTypeOK, [CacheNext]_cacheVars, losses'.restart = 0, faults' = 0
  PROVE  /\ losses.restart = 0 /\ faults = 0
         /\ ~RedisRestarts /\ \A kind : ~Fault(kind)
<1>1. /\ losses \in [{"restart", "expiry"} -> 0..MaxLosses] /\ faults \in 0..MaxFaults
      /\ MaxLosses \in Nat /\ MaxFaults \in Nat
      /\ worker \in [Workers -> Worker] /\ reader \in [Readers -> Reader]
      /\ item \in Item /\ replica \in Item
  BY FaultsAssumption, LossesAssumption DEF CacheTypeOK, Typed
<1>2. \A kind : ~Fault(kind)
  BY <1>1 DEF Fault
<1>3. ~RedisRestarts
  BY <1>1, LossesAreCounted DEF RedisRestarts
<1>4. ASSUME Next PROVE faults' = faults
  <2>1. ASSUME NEW w \in Workers, WorkerStep(w) PROVE faults' = faults
    BY <1>2, <2>1 DEF WorkerStep, CloseRefused, AtomicCloseAndReadWinners, ReadDynamoWinners,
         PublishAuctionClosed, RollbackClose, ReadFinalState, SaveFinalState, CleanupRedis,
         NoFault
  <2> QED BY <1>2, <1>4, <2>1 DEF Next, Tick, Replicate, PlaceBid, UpdateDynamoWinner,
        CloserStep, CheckExpired, CheckPending, OpenAuction, Crash, SellerCloses, Workers, NoFault
<1>5. ASSUME NEW r \in Readers, ReaderStep(r) PROVE UNCHANGED <<losses, faults>>
  BY <1>1, <1>2, <1>5, ReaderMoves
<1>6. ASSUME HashExpires PROVE losses'.restart = losses.restart /\ faults' = faults
  BY <1>1, <1>6, LossesAreCounted DEF HashExpires
<1>7. losses.restart = 0 /\ faults = 0
  BY <1>3, <1>4, <1>5, <1>6 DEF CacheNext, ClosingStep, LockExpires, cacheVars, vars, histories
<1> QED BY <1>2, <1>3, <1>7

(* A step of the closing lets the hash expire only after the item closed.  *)
LEMMA ExpiryComesLate ==
  ASSUME CacheTypeOK, CalmInv, ClosingStep
  PROVE  events = << >> \/ item.status # "CLOSED" => ttl' = FALSE
<1>1. ttl' = (ttl \/ (Cached /\ \E w \in Workers : CleansUp(w))) /\ ttl \in BOOLEAN
  BY DEF ClosingStep, CacheTypeOK
<1>2. ASSUME events = << >> \/ item.status # "CLOSED"
      PROVE  ~ttl /\ \A w \in Workers : worker[w].stage # "cleanup"
  BY <1>2 DEF CalmInv
<1> QED BY <1>1, <1>2 DEF CleansUp

(* And as long as neither the item nor a copy of it is not closed, the     *)
(* hash is there and nobody rebuilds it.                                   *)
Resting(it) ==
  it.status # "CLOSED" => Cached /\ \A r \in Readers : reader[r].stage = "idle"

LEMMA CopiesRest ==
  ASSUME CacheTypeOK, ClosingStep, Resting(item), Resting(replica),
         item.status = "CLOSED" => item'.status = "CLOSED"
  PROVE  \A it \in {item', replica'} : Resting(it)'
<1>1. (Cached => Cached') /\ reader' = reader
  BY HashStays DEF CacheTypeOK, ClosingStep, Cached
<1>2. Follows
  BY ReplicaFollows DEF ClosingStep
<1> QED BY <1>1, <1>2 DEF Follows, Resting

(* Steps by which workers at most leave, or see a pending auction.         *)
LEMMA QuietKeepsCalm ==
  ASSUME CacheTypeOK, CalmInv, ClosingStep, auction'.status = auction.status,
         item'.status = "CLOSED" <=> item.status = "CLOSED", UNCHANGED events,
         \A v \in Workers :
           \/ worker'[v].stage = worker[v].stage /\ worker'[v].copy = worker[v].copy
           \/ worker'[v].stage \in {"idle", "closing", "pending", "done"}
           \/ worker'[v].stage = "opening" /\ v \in Instances /\ auction.status = "PENDING"
  PROVE  CalmInv'
<1>1. Holders' \subseteq Holders
  BY DEF Holders
<1>2. reader' = reader
  BY DEF ClosingStep
<1>3. events = << >> \/ item.status # "CLOSED" => ttl' = FALSE
  BY ExpiryComesLate
<1>4. events # << >> => Resting(item)' /\ Resting(replica)'
  BY CopiesRest DEF CalmInv, Resting
<1> QED BY <1>1, <1>2, <1>3, <1>4 DEF CalmInv, Cached, Resting

(* The calls of CloseAuction.                                              *)
LEMMA CloseKeepsCalm ==
  ASSUME CacheTypeOK, CalmInv, ClosingStep, \A kind : ~Fault(kind),
         NEW w \in Workers, WorkerStep(w)
  PROVE  CalmInv'
<1>1. /\ worker \in [Workers -> Worker] /\ auction \in AuctionHash
      /\ item \in Item /\ replica \in Item
      /\ events \in Seq(BidSet) /\ worker[w].copy \in AuctionHash
      /\ reader' = reader
      /\ ClosedHash(auction).status = "CLOSED"
  BY ClosingKeepsTypes DEF CacheTypeOK, Typed, Worker, ClosingStep, ClosedHash, AuctionHash
<1>2. events = << >> \/ item.status # "CLOSED" => ttl' = FALSE
  BY ExpiryComesLate
<1>3. w \in Holders => /\ Holders = {w} /\ events = << >> /\ auction.status = "CLOSED"
  BY DEF CalmInv
<1>4. faults' = faults => faults' # faults + 1
  BY DEF CacheTypeOK, Typed
<1>5. CASE CloseRefused(w)
  <2>1. Leaves(w) /\ OthersStay(w) /\ UNCHANGED <<auction, item, replica, events>>
    BY <1>1, <1>5, RefusedMoves
  <2> QED BY <2>1, QuietKeepsCalm DEF Leaves, OthersStay, AfterClosing
<1>6. CASE AtomicCloseAndReadWinners(w)
  <2>1. /\ OthersStay(w) /\ auction.status = "OPEN" /\ auction' = ClosedHash(auction)
        /\ UNCHANGED <<item, replica, events>> /\ worker'[w].stage \in {"fallback", "publishing"}
    BY <1>1, <1>6, ScriptMoves DEF Goes
  <2>2. events = << >> /\ Holders = {} /\ \A v \in Workers : worker[v].stage # "opening"
    BY <2>1 DEF CalmInv
  <2>3. Holders' = {w}
    BY <2>1, <2>2 DEF Holders, OthersStay
  <2> QED BY <1>1, <1>2, <2>1, <2>2, <2>3 DEF CalmInv, OthersStay, Cached
<1>7. CASE ReadDynamoWinners(w)
  <2>1. /\ w \in Holders /\ OthersStay(w) /\ worker'[w].stage = "publishing"
        /\ UNCHANGED <<auction, item, replica, events>>
    BY <1>1, <1>7, FallbackMoves DEF Goes, Holders
  <2>2. Holders' = {w}
    BY <1>3, <2>1 DEF Holders, OthersStay
  <2> QED BY <1>1, <1>2, <1>3, <2>1, <2>2 DEF CalmInv, OthersStay, Cached
<1>8. CASE PublishAuctionClosed(w)
  <2>1. /\ w \in Holders /\ OthersStay(w) /\ worker'[w].stage = "reading"
        /\ UNCHANGED <<auction, item, replica>> /\ events' = Append(events, worker[w].winners)
    <3>1. CASE NoFault /\ events' = Append(events, worker[w].winners) /\ Goto(w, "reading")
      BY <1>1, <1>8, <3>1, RecordMoves DEF PublishAuctionClosed, redis, Goes, Holders
    <3> QED BY <1>8, <3>1 DEF PublishAuctionClosed
  <2>2. events' # << >> /\ Holders' = {}
    BY <1>1, <1>3, <2>1 DEF Holders, OthersStay
  <2> QED BY <1>1, <1>2, <1>3, <2>1, <2>2 DEF CalmInv, OthersStay, Cached
<1>9. ~RollbackClose(w)
  BY DEF CalmInv, RollbackClose
<1>10. CASE ReadFinalState(w)
  <2>1. /\ worker[w].stage = "reading" /\ OthersStay(w) /\ UNCHANGED <<auction, events>>
        /\ \/ worker'[w].stage = "saving" /\ worker'[w].copy = ClosedHash(auction) /\ item' = item
           \/ worker'[w].stage = "cleanup" /\ item' = [item EXCEPT !.status = "CLOSED"]
    <3>1. faults' = faults
      BY <1>10 DEF ReadFinalState, NoFault
    <3> QED BY <1>1, <1>4, <1>10, <3>1, ReadMoves DEF Goes
  <2>2. events # << >> /\ (item'.status # "CLOSED" => item' = item)
    BY <1>1, <2>1 DEF CalmInv, Item
  <2>3. Holders' \subseteq Holders
    BY <2>1 DEF Holders, OthersStay
  <2>4. item.status = "CLOSED" => item'.status = "CLOSED"
    BY <2>2
  <2>5. worker'[w].stage = "cleanup" => item'.status = "CLOSED"
    BY <1>1, <2>1 DEF Item
  <2>6. Resting(item)' /\ Resting(replica)'
    BY <2>2, <2>4, CopiesRest DEF CalmInv, Resting
  <2> QED BY <1>1, <1>2, <2>1, <2>2, <2>3, <2>4, <2>5, <2>6
          DEF CalmInv, OthersStay, Cached, Resting
<1>11. CASE SaveFinalState(w)
  <2>1. /\ worker[w].stage = "saving" /\ OthersStay(w) /\ UNCHANGED <<auction, events>>
        /\ worker'[w].stage = "cleanup" /\ worker'[w].copy = worker[w].copy
        /\ item' = ItemOf(worker[w].copy)
    <3>1. faults' = faults
      BY <1>11 DEF SaveFinalState, NoFault
    <3> QED BY <1>1, <1>4, <1>11, <3>1, SaveMoves DEF Goes
  <2>2. events # << >> /\ item'.status = "CLOSED"
    BY <2>1 DEF CalmInv, ItemOf
  <2>3. Holders' \subseteq Holders
    BY <2>1 DEF Holders, OthersStay
  <2>4. Resting(item)' /\ Resting(replica)'
    BY <2>2, CopiesRest DEF CalmInv, Resting
  <2> QED BY <1>1, <1>2, <2>1, <2>2, <2>3, <2>4 DEF CalmInv, OthersStay, Cached, Resting
<1>12. CASE CleanupRedis(w)
  <2>1. Leaves(w) /\ OthersStay(w) /\ UNCHANGED <<auction, item, replica, events>>
    BY <1>1, <1>12, CleanupMoves
  <2> QED BY <2>1, QuietKeepsCalm DEF Leaves, OthersStay, AfterClosing
<1> QED BY <1>5, <1>6, <1>7, <1>8, <1>9, <1>10, <1>11, <1>12 DEF WorkerStep

(* The closer opens the auction, which can only be before the close, as    *)
(* there is no other to open it.                                           *)
LEMMA OpeningKeepsCalm ==
  ASSUME OneOpener, CacheTypeOK, CalmInv, ClosingStep, NEW i \in Instances, OpenAuction(i)
  PROVE  CalmInv'
<1>1. /\ worker \in [Workers -> Worker] /\ auction \in AuctionHash /\ i \in Workers
      /\ reader' = reader
  BY DEF CacheTypeOK, Typed, Workers, ClosingStep
<1>2. /\ worker[i].stage = "opening" /\ worker'[i].stage = "idle" /\ OthersStay(i)
      /\ auction' = [auction EXCEPT !.status = "OPEN"] /\ UNCHANGED <<item, replica, events>>
  BY <1>1, OpenMoves DEF Goes
<1>3. auction.status = "PENDING" /\ auction'.status = "OPEN" /\ events = << >> /\ Holders = {}
  BY <1>1, <1>2 DEF CalmInv, AuctionHash
<1>4. \A v \in Workers : worker'[v].stage # "opening"
  BY <1>1, <1>2, <1>3 DEF CalmInv, OneOpener, OthersStay
<1>5. Holders' = {}
  BY <1>2, <1>3 DEF Holders, OthersStay
<1>6. ttl' = FALSE
  BY <1>3, ExpiryComesLate
<1> QED BY <1>1, <1>2, <1>3, <1>4, <1>5, <1>6 DEF CalmInv, Cached, OthersStay

(* The steps of the closing.                                               *)
LEMMA ClosingStepKeepsCalm ==
  ASSUME OneOpener, CacheTypeOK, CalmInv, ClosingStep, \A kind : ~Fault(kind)
  PROVE  CalmInv'
<1>1. /\ worker \in [Workers -> Worker] /\ auction \in AuctionHash
      /\ item \in Item /\ replica \in Item /\ bids \in BidSet
  BY DEF CacheTypeOK, Typed
<1>2. CASE Tick \/ Replicate
  BY <1>2, QuietKeepsCalm DEF Tick, Replicate, redis
<1>3. ASSUME NEW b \in Bidders, NEW amount \in Amounts,
             PlaceBid(b, amount) \/ UpdateDynamoWinner(b, amount)
      PROVE  CalmInv'
  <2>1. UNCHANGED <<worker, events>> /\ (item'.status = "CLOSED" <=> item.status = "CLOSED")
    BY <1>1, <1>3, CopyWrites, ClosingAmountsAssumption DEF PlaceBid, UpdateDynamoWinner
  <2>2. auction'.status = auction.status
    <3>1. CASE PlaceBid(b, amount)
      BY <3>1, <1>1, ClosingAmountsAssumption, PlacingKeepsTypes DEF PlaceBid
    <3> QED BY <1>3, <3>1 DEF UpdateDynamoWinner, redis
  <2> QED BY <2>1, <2>2, QuietKeepsCalm
<1>4. ASSUME NEW w \in Workers,
             \/ w \in Instances /\ (CheckExpired(w) \/ CheckPending(w))
             \/ w \in SellerCalls /\ SellerCloses(w)
      PROVE  CalmInv'
  <2>1. PICK s \in Harmless :
          /\ Goes(w, s, worker[w].winners, worker[w].copy)
          /\ s = "opening" => w \in Instances /\ auction.status = "PENDING"
    BY <1>1, <1>4, LookMoves
  <2>2. OthersStay(w) /\ UNCHANGED <<auction, item, replica, events>>
    BY <1>1, <1>4, LookMoves
  <2> QED BY <2>1, <2>2, QuietKeepsCalm DEF Goes, OthersStay, Harmless
<1>5. ASSUME NEW i \in Instances, OpenAuction(i) PROVE CalmInv'
  BY <1>5, OpeningKeepsCalm
<1>6. \A i \in Instances : ~Crash(i)
  BY DEF Crash
<1>7. ASSUME NEW w \in Workers, WorkerStep(w) PROVE CalmInv'
  BY <1>7, CloseKeepsCalm
<1> QED BY <1>2, <1>3, <1>4, <1>5, <1>6, <1>7 DEF ClosingStep, Next, CloserStep, Workers

(* Readers, expiry and the lock: whoever rebuilds the hash does so after   *)
(* the item was closed.                                                    *)
LEMMA RebuildingKeepsCalm ==
  ASSUME CacheTypeOK, CalmInv,
         (\E r \in Readers : ReaderStep(r)) \/ LockExpires \/ HashExpires
  PROVE  CalmInv'
<1>1. reader \in [Readers -> Reader] /\ item \in Item /\ replica \in Item
  BY DEF CacheTypeOK, Typed
<1>2. ASSUME NEW r \in Readers, ReaderStep(r) PROVE CalmInv'
  <2>1. /\ \A q \in Readers \ {r} : reader'[q] = reader[q]
        /\ UNCHANGED <<item, replica, worker, events, ttl>>
        /\ \/ reader'[r].stage # "writing"
           \/ \E it \in {item, replica} : CarriesItem(r, it)
        /\ auction' = auction \/ (reader[r].stage = "writing" /\ auction' = reader[r].copy)
        /\ reader[r].stage = "idle" => auction.status = "MISSING"
    BY <1>1, <1>2, ReaderMoves
  <2>2. events # << >> /\ item.status = "CLOSED" /\ replica.status = "CLOSED"
    BY <2>1 DEF CalmInv, Cached
  <2>3. reader'[r].stage = "writing" => reader'[r].copy.status = "CLOSED"
    BY <2>1, <2>2 DEF HashOf, CarriesItem
  <2>4. auction'.status \in {"CLOSED", "MISSING"}
    BY <2>1, <2>2 DEF CalmInv
  <2>5. Holders' = Holders
    BY <2>1 DEF Holders
  <2> QED BY <2>1, <2>2, <2>3, <2>4, <2>5 DEF CalmInv
<1>3. CASE LockExpires
  BY <1>3 DEF LockExpires, vars, histories, CalmInv, Cached, Holders
<1>4. CASE HashExpires
  <2>1. /\ ttl /\ auction' = NoHash /\ ttl' = FALSE /\ replica = item
        /\ UNCHANGED <<item, replica, worker, events, reader>>
    BY <1>4 DEF HashExpires
  <2>2. events # << >> /\ item.status = "CLOSED"
    BY <2>1 DEF CalmInv
  <2>3. Holders' = Holders
    BY <2>1 DEF Holders
  <2> QED BY <2>1, <2>2, <2>3 DEF CalmInv, NoHash
<1> QED BY <1>2, <1>3, <1>4

(* Every step keeps it.                                                    *)
LEMMA StepKeepsStaysClosed ==
  ASSUME OneOpener
  PROVE  CacheTypeOK /\ StaysClosed /\ [CacheNext]_cacheVars => StaysClosed'
<1> SUFFICES ASSUME CacheTypeOK, StaysClosed, [CacheNext]_cacheVars,
                    losses'.restart = 0, faults' = 0
             PROVE  CalmInv'
  BY DEF StaysClosed
<1>1. CalmInv /\ ~RedisRestarts /\ \A kind : ~Fault(kind)
  BY TroubleIsCounted DEF StaysClosed
<1>2. UNCHANGED cacheVars => CalmInv'
  BY <1>1 DEF cacheVars, vars, cache, CalmInv, Cached, Holders
<1> QED BY <1>1, <1>2, ClosingStepKeepsCalm, RebuildingKeepsCalm DEF CacheNext

(* With one opener, and as long as nothing fails and Redis does not        *)
(* restart, an announced auction is never open again, however often its    *)
(* hash expires and is rebuilt, and however many readers rebuild it.       *)
THEOREM ClosedStaysClosed ==
  ASSUME OneOpener
  PROVE  CacheSpec => []ClosedForGood
<1>1. CacheInit => StaysClosed
  <2> SUFFICES ASSUME CacheInit PROVE CalmInv
    BY DEF StaysClosed
  <2>1. /\ auction = NewAuction /\ events = << >> /\ ttl = FALSE
        /\ \A r \in Readers : reader[r].stage = "idle"
        /\ \A w \in Workers : worker[w].stage = "idle"
    BY DEF CacheInit, Init, Idle
  <2>2. Holders = {}
    BY <2>1 DEF Holders
  <2> QED BY <2>1, <2>2 DEF CalmInv, Cached, NewAuction
<1>2. StaysClosed => ClosedForGood
  BY DEF StaysClosed, CalmInv, ClosedForGood
<1>3. CacheInv => CacheTypeOK
  BY DEF CacheInv
<1>4. CacheTypeOK /\ StaysClosed /\ [CacheNext]_cacheVars => StaysClosed'
  BY StepKeepsStaysClosed
<1> QED BY <1>1, <1>2, <1>3, <1>4, CacheIsSound, PTL DEF CacheSpec

-----------------------------------------------------------------------------
(* The lead.  With one winner the hash, the item and every copy of them    *)
(* name the best bid or nobody, and the sorted set is whole or empty.      *)

(* One bidder with the best bid of all, and nobody when there is no bid,   *)
(* are awards of the best bids.                                            *)
LEMMA LeaderIsAward ==
  ASSUME Quantity = 1, best \in BidSet, NEW l \in Bidders, best[l] > 0,
         \A b \in Bidders : best[b] <= best[l]
  PROVE  AwardsBest([b \in Bidders |-> IF b = l THEN best[l] ELSE 0])
<1> DEFINE e == [b \in Bidders |-> IF b = l THEN best[l] ELSE 0]
<1>1. e = [b \in Bidders |-> IF b \in {l} THEN best[b] ELSE 0]
  OBVIOUS
<1>2. {l} \in SUBSET Bidders /\ {l} \subseteq Entrants(best)
  BY DEF Entrants
<1>3. Cardinality({l}) = 1
  BY FS_Singleton
<1>4. \A w \in {l}, c \in Entrants(best) \ {l} : best[c] <= best[w]
  BY DEF Entrants
<1> HIDE DEF e
<1> QED BY <1>1, <1>2, <1>3, <1>4 DEF AwardsBest, e

LEMMA NobodyIsAward ==
  ASSUME Entrants(best) = {}
  PROVE  AwardsBest(NoBids)
<1>1. Cardinality({}) = 0 /\ Quantity \in Nat
  BY FS_EmptySet, RulesAssumption
<1>2. NoBids = [b \in Bidders |-> IF b \in {} THEN best[b] ELSE 0]
  BY DEF NoBids
<1>3. {} \in SUBSET Bidders /\ {} \subseteq Entrants(best)
  OBVIOUS
<1>4. \A w \in {}, c \in Entrants(best) \ {} : best[c] <= best[w]
  OBVIOUS
<1> QED BY <1>1, <1>2, <1>3, <1>4 DEF AwardsBest

(* Whatever the close script finds, it awards the best bid or nobody.      *)
LEMMA LeadRead ==
  ASSUME Quantity = 1, NEW a \in AuctionHash, NEW z \in {best, NoBids}, best \in BidSet,
         Leads(a, best)
  PROVE  WinnersRead(a, z) = NoBids \/ AwardsBest(WinnersRead(a, z))
<1>1. NoBidder \notin Bidders /\ NoBids \in BidSet
  BY BiddersAssumption DEF NoBids, BidSet
<1>2. CASE Entrants(z) = {}
  <2>1. WinnersRead(a, z) = [b \in Bidders |-> IF b = a.bidder THEN a.current ELSE 0]
    BY <1>2 DEF WinnersRead
  <2>2. CASE a.bidder = NoBidder
    BY <1>1, <2>1, <2>2 DEF NoBids
  <2>3. CASE a.bidder # NoBidder
    <3>1. a.bidder \in Bidders /\ best[a.bidder] = a.current
      BY <2>3 DEF AuctionHash, Leads
    <3>2. \A b \in Bidders : best[b] <= a.current
      BY <2>3 DEF Leads
    <3>3. CASE a.current = 0
      BY <2>1, <3>3 DEF NoBids
    <3>4. CASE a.current # 0
      <4>1. best[a.bidder] > 0
        BY <3>1, <3>4 DEF AuctionHash
      <4> QED BY <2>1, <3>1, <3>2, <4>1, LeaderIsAward
    <3> QED BY <3>3, <3>4
  <2> QED BY <2>2, <2>3
<1>3. CASE Entrants(z) # {}
  <2>1. z = best
    BY <1>3 DEF Entrants, NoBids
  <2>2. PICK l \in Entrants(best) :
          TopEntrants(best) = {l} /\ \A c \in Entrants(best) : best[c] <= best[l]
    BY <1>3, <2>1, TopOfOneWinner
  <2>3. /\ l \in Bidders /\ best[l] > 0 /\ \A b \in Bidders : best[b] <= best[l]
    BY <2>2 DEF Entrants, BidSet
  <2>4. WinnersRead(a, z) = [b \in Bidders |-> IF b = l THEN best[l] ELSE 0]
    BY <1>3, <2>1, <2>2 DEF WinnersRead
  <2> QED BY <2>3, <2>4, LeaderIsAward
<1> QED BY <1>2, <1>3

(* So does the fallback, once the map of the item has all bids.            *)
LEMMA LeadFallsBack ==
  ASSUME Quantity = 1, NEW it \in Item, best \in BidSet, it.winners = best,
         Leads(it, best), NEW z \in DynamoWinners(it)
  PROVE  AwardsBest(z)
<1>1. NoBidder \notin Bidders
  BY BiddersAssumption
<1>2. CASE Entrants(best) = {}
  <2>1. z = Solely(it.bidder, it.current)
    BY <1>2 DEF DynamoWinners
  <2>2. it.bidder # NoBidder => it.current = 0
    BY <1>2 DEF Leads, Entrants, BidSet, Item
  <2>3. z = NoBids
    BY <1>1, <2>1, <2>2 DEF Solely, NoBids
  <2> QED BY <1>2, <2>3, NobodyIsAward
<1>3. CASE Entrants(best) # {}
  <2>1. PICK l \in Entrants(best) :
          z = Solely(l, best[l]) /\ \A c \in Entrants(best) : best[c] <= best[l]
    BY <1>3 DEF DynamoWinners
  <2>2. l \in Bidders /\ best[l] > 0 /\ \A b \in Bidders : best[b] <= best[l]
    BY <2>1 DEF Entrants, BidSet
  <2> QED BY <2>1, <2>2, LeaderIsAward DEF Solely
<1> QED BY <1>2, <1>3

(* A bid on a hash that names the best bid takes the lead.                 *)
LEMMA BidTakesLead ==
  ASSUME Quantity = 1, auction \in AuctionHash, bids = best, best \in BidSet,
         NEW b \in Bidders, NEW amount \in Nat \ {0},
         Verdict(auction, bids, b, amount) = "accepted",
         Leads(auction, best), auction.bidder = NoBidder => best = NoBids
  PROVE  /\ Leads(HashAfter(auction, bids, b, amount), [best EXCEPT ![b] = amount])
         /\ HashAfter(auction, bids, b, amount).bidder = b
         /\ BidsAfter(bids, b, amount) = [best EXCEPT ![b] = amount]
<1>1. amount > auction.current
  BY DEF Verdict, PriceToBeat, AuctionHash
<1>2. \A c \in Bidders : best[c] <= amount
  BY <1>1 DEF Leads, NoBids, AuctionHash, BidSet
<1>3. BidsAfter(bids, b, amount) = [best EXCEPT ![b] = amount]
  BY DEF BidsAfter, Overfull, WithBid
<1>4. /\ HashAfter(auction, bids, b, amount).bidder = b
      /\ HashAfter(auction, bids, b, amount).current = amount
  BY DEF HashAfter, NewFloor, AuctionHash
<1> QED BY <1>2, <1>3, <1>4 DEF Leads, BidSet

(* What is known of the lead, by who knows it.                             *)
KeyLeads ==
  /\ bids \in {best, NoBids} /\ Leads(auction, best)
  /\ Leads(item, best) /\ Leads(replica, best)

WorkerLeads(w) ==
  /\ Leads(worker[w].copy, best)
  /\ worker[w].stage = "publishing" => AwardsBest(worker[w].winners)

ReaderLeads(r) == Leads(reader[r].copy, best)

EventsAward == \A k \in DOMAIN events : AwardsBest(events[k])

LEMMA LeadByHolder ==
  LeadKnown <=> /\ KeyLeads
                /\ \A w \in Workers : WorkerLeads(w)
                /\ \A r \in Readers : ReaderLeads(r)
                /\ EventsAward
BY DEF LeadKnown, KeyLeads, WorkerLeads, ReaderLeads, EventsAward

(* As long as nobody bids, who takes no step, leaves or takes over an      *)
(* award keeps what it knows.                                              *)
LEMMA BystandersKeepLead ==
  ASSUME best' = best
  PROVE  /\ \A w \in Workers : WorkerLeads(w) /\ worker'[w] = worker[w] => WorkerLeads(w)'
         /\ \A w \in Workers :
              /\ WorkerLeads(w) /\ worker'[w].stage # "publishing"
              /\ worker'[w].copy = worker[w].copy \/ worker'[w].copy = NewAuction
              => WorkerLeads(w)'
         /\ \A w \in Workers :
              /\ WorkerLeads(w) /\ worker'[w].copy = worker[w].copy
              /\ AwardsBest(worker'[w].winners)
              => WorkerLeads(w)'
         /\ \A r \in Readers : ReaderLeads(r) /\ reader'[r] = reader[r] => ReaderLeads(r)'
         /\ EventsAward /\ events' = events => EventsAward'
<1>1. Leads(NewAuction, best)
  BY DEF Leads, NewAuction
<1>2. ASSUME NEW w \in Workers, WorkerLeads(w), worker'[w] = worker[w] PROVE WorkerLeads(w)'
  BY <1>2 DEF WorkerLeads, AwardsBest
<1>3. ASSUME NEW w \in Workers, WorkerLeads(w), worker'[w].stage # "publishing",
             worker'[w].copy = worker[w].copy \/ worker'[w].copy = NewAuction
      PROVE  WorkerLeads(w)'
  BY <1>1, <1>3 DEF WorkerLeads
<1>4. ASSUME NEW w \in Workers, WorkerLeads(w), worker'[w].copy = worker[w].copy,
             AwardsBest(worker'[w].winners)
      PROVE  WorkerLeads(w)'
  BY <1>4 DEF WorkerLeads, AwardsBest
<1>5. ASSUME NEW r \in Readers, ReaderLeads(r), reader'[r] = reader[r] PROVE ReaderLeads(r)'
  BY <1>5 DEF ReaderLeads
<1>6. ASSUME EventsAward, events' = events PROVE EventsAward'
  BY <1>6 DEF EventsAward, AwardsBest
<1> QED BY <1>2, <1>3, <1>4, <1>5, <1>6

(* One worker takes a step: what is left to show of it.                    *)
LEMMA WorkerKeepsLead ==
  ASSUME LeadKnown, NEW w \in Workers, OthersStay(w), best' = best, reader' = reader,
         KeyLeads', WorkerLeads(w)', EventsAward'
  PROVE  LeadKnown'
<1>1. /\ \A v \in Workers : WorkerLeads(v)'
      /\ \A r \in Readers : ReaderLeads(r)'
  BY LeadByHolder, BystandersKeepLead DEF OthersStay
<1> QED BY <1>1 DEF LeadKnown, KeyLeads, WorkerLeads, ReaderLeads, EventsAward

(* A copy of the item names whom the item names or named.                  *)
LEMMA CopiesKeepLead ==
  ASSUME Follows, best' = best, KeyLeads, Leads(item, best)'
  PROVE  Leads(replica, best)'
BY DEF Follows, KeyLeads, Leads

(* The first hash: steps by which workers at most leave, or see a pending  *)
(* auction.                                                                *)
LEMMA QuietKeepsFirst ==
  ASSUME FirstHash, UNCHANGED <<auction, bids, best, events, reader>>,
         item'.bidder = item.bidder, Follows,
         \A v \in Workers :
           /\ worker'[v].copy = worker[v].copy \/ worker'[v].copy = NewAuction
           /\ \/ worker'[v].stage = worker[v].stage
              \/ worker'[v].stage \in {"idle", "closing", "pending", "done"}
              \/ worker'[v].stage = "opening" /\ v \in Instances /\ auction.status = "PENDING"
  PROVE  FirstHash'
<1>1. Holders' \subseteq Holders
  BY DEF Holders
<1>2. NewAuction.bidder = NoBidder
  BY DEF NewAuction
<1>3. NotYetSold => NotYetSold'
  BY <1>1, <1>2 DEF NotYetSold, Follows
<1> QED BY <1>1, <1>3 DEF FirstHash

(* After the sale one cannot bid on it, nothing is rolled back and nobody  *)
(* opens it.                                                               *)
LEMMA SoldKeepsFirst ==
  ASSUME FirstHash, ~NotYetSold, auction' = auction, Holders' \subseteq Holders,
         \A v \in Workers : worker'[v].stage = "opening" => worker[v].stage = "opening"
  PROVE  FirstHash'
BY DEF FirstHash

LEMMA LateIsSold ==
  ASSUME NEW w \in Workers, worker[w].stage \in {"reading", "saving", "cleanup"}
  PROVE  ~NotYetSold
BY DEF NotYetSold

(* The calls of CloseAuction, on the first hash or a rebuilt one.          *)
LEMMA CloseKeepsKnown ==
  ASSUME Quantity = 1, "fallback" \notin Faults,
         CacheTypeOK, LeadKnown, ClosingStep, ~hidden', NEW w \in Workers, WorkerStep(w)
  PROVE  LeadKnown'
<1>1. /\ worker \in [Workers -> Worker] /\ auction \in AuctionHash /\ bids \in BidSet
      /\ item \in Item /\ replica \in Item /\ events \in Seq(BidSet) /\ best \in BidSet
      /\ reader' = reader /\ hidden \in BOOLEAN
  BY DEF CacheTypeOK, Typed, ClosingStep
<1>2. KeyLeads /\ WorkerLeads(w) /\ EventsAward
  BY LeadByHolder
<1>3. best' = best
  BY DEF WorkerStep, CloseRefused, AtomicCloseAndReadWinners, ReadDynamoWinners,
         PublishAuctionClosed, RollbackClose, ReadFinalState, SaveFinalState, CleanupRedis
<1>4. UNCHANGED events => EventsAward'
  BY <1>2, <1>3, BystandersKeepLead
<1>5. Leads(ClosedHash(auction), best) /\ Leads(ReopenedHash(auction), best)
  BY <1>1, <1>2 DEF KeyLeads, Leads, ClosedHash, ReopenedHash, AuctionHash
<1>6. Leaves(w) => WorkerLeads(w)'
  BY <1>2, <1>3, BystandersKeepLead DEF Leaves, AfterClosing
<1>7. CASE CloseRefused(w)
  <2>1. Leaves(w) /\ OthersStay(w) /\ UNCHANGED <<auction, bids, item, replica, events>>
    BY <1>1, <1>7, RefusedMoves
  <2>2. KeyLeads'
    BY <1>2, <1>3, <2>1 DEF KeyLeads
  <2> QED BY <1>1, <1>3, <1>4, <1>6, <2>1, <2>2, WorkerKeepsLead
<1>8. CASE AtomicCloseAndReadWinners(w)
  <2> DEFINE z == WinnersRead(auction, bids)
  <2>1. /\ OthersStay(w) /\ auction' = ClosedHash(auction)
        /\ UNCHANGED <<bids, item, replica, events>>
        /\ \/ Leaves(w)
           \/ Goes(w, IF z = NoBids THEN "fallback" ELSE "publishing", z, worker[w].copy)
    BY <1>1, <1>8, ScriptMoves
  <2>2. z = NoBids \/ AwardsBest(z)
    BY <1>1, <1>2, LeadRead DEF KeyLeads
  <2>3. KeyLeads'
    BY <1>2, <1>3, <1>5, <2>1 DEF KeyLeads
  <2> HIDE DEF z
  <2>4. WorkerLeads(w)'
    <3>1. CASE Goes(w, "fallback", z, worker[w].copy)
      BY <1>2, <1>3, <3>1, BystandersKeepLead DEF Goes
    <3>2. CASE Goes(w, "publishing", z, worker[w].copy) /\ z # NoBids
      <4>1. worker'[w].winners = z /\ worker'[w].copy = worker[w].copy
        BY <3>2 DEF Goes
      <4>2. AwardsBest(worker'[w].winners)
        BY <2>2, <3>2, <4>1
      <4> QED BY <1>2, <1>3, <4>1, <4>2, BystandersKeepLead
    <3> QED BY <1>6, <2>1, <3>1, <3>2
  <2> QED BY <1>1, <1>3, <1>4, <2>1, <2>3, <2>4, WorkerKeepsLead
<1>9. CASE ReadDynamoWinners(w)
  <2>1. PICK it \in {item, replica} : \E z \in DynamoWinners(it) :
               Goes(w, "publishing", z, worker[w].copy)
    BY <1>1, <1>9, FallbackMoves DEF Fault
  <2>2. OthersStay(w) /\ UNCHANGED <<auction, bids, item, replica, events>> /\ ReadsMap(w)
    BY <1>1, <1>9, <2>1, FallbackMoves DEF Goes, ReadsMap
  <2>3. it.winners = best
    BY <1>1, <2>2 DEF ClosingStep
  <2>4. \A z \in DynamoWinners(it) : AwardsBest(z)
    BY <1>1, <1>2, <2>3, LeadFallsBack DEF KeyLeads
  <2>5. WorkerLeads(w)'
    BY <1>2, <1>3, <2>1, <2>4, BystandersKeepLead DEF Goes
  <2>6. KeyLeads'
    BY <1>2, <1>3, <2>2 DEF KeyLeads
  <2> QED BY <1>1, <1>3, <1>4, <2>2, <2>5, <2>6, WorkerKeepsLead
<1>10. CASE PublishAuctionClosed(w)
  <2>1. /\ worker[w].stage = "publishing" /\ OthersStay(w)
        /\ UNCHANGED <<auction, bids, item, replica>>
        /\ \E s \in {"reading", "rollback"} : Goes(w, s, worker[w].winners, worker[w].copy)
        /\ events' = Append(events, worker[w].winners) \/ events' = events
    BY <1>1, <1>10, PublishMoves
  <2>2. EventsAward'
    <3>1. CASE events' = Append(events, worker[w].winners)
      <4>1. AwardsBest(worker[w].winners)
        BY <1>2, <2>1 DEF WorkerLeads
      <4>2. \A k \in DOMAIN events' :
              \/ k \in DOMAIN events /\ events'[k] = events[k]
              \/ events'[k] = worker[w].winners
        BY <1>1, <3>1
      <4>3. \A k \in DOMAIN events' : AwardsBest(events'[k])
        BY <1>2, <4>1, <4>2 DEF EventsAward
      <4> QED BY <1>3, <4>3 DEF EventsAward, AwardsBest
    <3> QED BY <1>4, <2>1, <3>1
  <2>3. WorkerLeads(w)'
    BY <1>2, <1>3, <2>1, BystandersKeepLead DEF Goes
  <2>4. KeyLeads'
    BY <1>2, <1>3, <2>1 DEF KeyLeads
  <2> QED BY <1>1, <1>3, <2>1, <2>2, <2>3, <2>4, WorkerKeepsLead
<1>11. CASE RollbackClose(w)
  <2>1. /\ Leaves(w) /\ OthersStay(w) /\ UNCHANGED <<bids, item, replica, events>>
        /\ auction' \in {auction, ReopenedHash(auction)}
    BY <1>1, <1>11, RollbackMoves
  <2>2. KeyLeads'
    BY <1>2, <1>3, <1>5, <2>1 DEF KeyLeads
  <2> QED BY <1>1, <1>3, <1>4, <1>6, <2>1, <2>2, WorkerKeepsLead
<1>12. CASE ReadFinalState(w)
  <2>1. /\ OthersStay(w) /\ Follows /\ UNCHANGED <<auction, bids, events>>
        /\ \/ Goes(w, "saving", worker[w].winners, ClosedHash(auction)) /\ item' = item
           \/ /\ Goes(w, "cleanup", worker[w].winners, worker[w].copy)
              /\ item' = item \/ item' = [item EXCEPT !.status = "CLOSED"]
    BY <1>1, <1>12, ReadMoves
  <2>2. item'.bidder = item.bidder /\ item'.current = item.current
    BY <1>1, <2>1 DEF Item
  <2>3. KeyLeads'
    <3>1. Leads(item, best)'
      BY <1>2, <1>3, <2>2 DEF KeyLeads, Leads
    <3> QED BY <1>2, <1>3, <2>1, <3>1, CopiesKeepLead DEF KeyLeads
  <2>4. WorkerLeads(w)'
    BY <1>2, <1>3, <1>5, <2>1 DEF WorkerLeads, Goes
  <2> QED BY <1>1, <1>3, <1>4, <2>1, <2>3, <2>4, WorkerKeepsLead
<1>13. CASE SaveFinalState(w)
  <2>1. /\ OthersStay(w) /\ Goes(w, "cleanup", worker[w].winners, worker[w].copy) /\ Follows
        /\ item' \in {item, ItemOf(worker[w].copy)} /\ UNCHANGED <<auction, bids, events>>
    BY <1>1, <1>13, SaveMoves
  <2>2. Leads(ItemOf(worker[w].copy), best)
    BY <1>2 DEF WorkerLeads, Leads, ItemOf
  <2>3. KeyLeads'
    <3>1. Leads(item, best)'
      BY <1>2, <1>3, <2>1, <2>2 DEF KeyLeads
    <3> QED BY <1>2, <1>3, <2>1, <3>1, CopiesKeepLead DEF KeyLeads
  <2>4. WorkerLeads(w)'
    BY <1>2, <1>3, <2>1, BystandersKeepLead DEF Goes
  <2> QED BY <1>1, <1>3, <1>4, <2>1, <2>3, <2>4, WorkerKeepsLead
<1>14. CASE CleanupRedis(w)
  <2>1. /\ Leaves(w) /\ OthersStay(w) /\ bids' \in {bids, NoBids}
        /\ UNCHANGED <<auction, item, replica, events>>
    BY <1>1, <1>14, CleanupMoves
  <2>2. KeyLeads'
    BY <1>2, <1>3, <2>1 DEF KeyLeads
  <2> QED BY <1>1, <1>3, <1>4, <1>6, <2>1, <2>2, WorkerKeepsLead
<1> QED BY <1>7, <1>8, <1>9, <1>10, <1>11, <1>12, <1>13, <1>14 DEF WorkerStep

(* A holder on the first hash has closed it, alone and before the sale.    *)
LEMMA HolderOfFirst ==
  ASSUME FirstHash, NEW w \in Holders
  PROVE  /\ auction.status \notin {"PENDING", "OPEN"}
         /\ \A v \in Workers : worker[v].stage # "opening"
         /\ auction.status = "CLOSED" => NotYetSold /\ Holders = {w}
<1>1. auction.status = "CLOSED" => NotYetSold
  BY DEF FirstHash
<1>2. NotYetSold => Holders = {w}
  BY DEF NotYetSold
<1> QED BY <1>1, <1>2 DEF FirstHash

LEMMA CloseKeepsFirst ==
  ASSUME "publish_reply" \notin Faults,
         CacheTypeOK, FirstHash, reader' = reader, NEW w \in Workers, WorkerStep(w)
  PROVE  FirstHash'
<1>1. /\ worker \in [Workers -> Worker] /\ auction \in AuctionHash /\ bids \in BidSet
      /\ item \in Item /\ replica \in Item /\ NewAuction.bidder = NoBidder
  BY DEF CacheTypeOK, Typed, NewAuction
<1>2. /\ ClosedHash(auction).status = "CLOSED"
      /\ ClosedHash(auction).bidder = auction.bidder
      /\ ReopenedHash(auction).bidder = auction.bidder
      /\ ReopenedHash(auction) = auction \/
           (auction.status = "CLOSED" /\ ReopenedHash(auction).status = "OPEN")
  BY <1>1 DEF ClosedHash, ReopenedHash, AuctionHash
<1>3. CASE CloseRefused(w)
  <2>1. /\ Leaves(w) /\ OthersStay(w) /\ UNCHANGED <<auction, bids, item, replica, best, events>>
    BY <1>1, <1>3, RefusedMoves
  <2>2. Follows
    BY <2>1 DEF Follows
  <2> QED BY <2>1, <2>2, QuietKeepsFirst DEF Leaves, OthersStay, AfterClosing
<1>4. CASE AtomicCloseAndReadWinners(w)
  <2>1. /\ auction.status = "OPEN" /\ OthersStay(w) /\ auction' = ClosedHash(auction)
        /\ UNCHANGED <<bids, item, replica, best, events>>
        /\ worker'[w].copy = worker[w].copy \/ worker'[w].copy = NewAuction
        /\ worker'[w].stage \in {"fallback", "publishing", "pending", "done"}
    BY <1>1, <1>4, ScriptMoves DEF Leaves, Goes, AfterClosing
  <2>2. /\ NotYetSold /\ Holders = {}
        /\ \A v \in Workers : worker[v].stage # "opening"
    BY <2>1 DEF FirstHash
  <2>3. /\ Holders' \subseteq {w}
        /\ \A v \in Workers : /\ worker'[v].stage # "opening"
                              /\ worker'[v].copy.bidder = NoBidder
                              /\ worker'[v].stage \notin {"reading", "saving", "cleanup"}
    BY <1>1, <2>1, <2>2 DEF Holders, OthersStay, NotYetSold
  <2>4. NotYetSold'
    BY <1>2, <2>1, <2>2, <2>3 DEF NotYetSold
  <2> QED BY <1>2, <2>1, <2>3, <2>4 DEF FirstHash
<1>5. CASE ReadDynamoWinners(w)
  <2>1. /\ w \in Holders /\ OthersStay(w) /\ worker'[w].stage = "publishing"
        /\ worker'[w].copy = worker[w].copy
        /\ UNCHANGED <<auction, bids, item, replica, best, events>>
    BY <1>1, <1>5, FallbackMoves DEF Goes, Holders
  <2>2. /\ Holders' \subseteq Holders /\ \A v \in Workers : worker'[v].stage # "opening"
    BY <2>1, HolderOfFirst DEF Holders, OthersStay
  <2>3. NotYetSold => NotYetSold'
    BY <2>1, <2>2 DEF NotYetSold, OthersStay
  <2> QED BY <2>1, <2>2, <2>3, HolderOfFirst DEF FirstHash
<1>6. CASE PublishAuctionClosed(w)
  <2>1. /\ w \in Holders /\ OthersStay(w) /\ worker'[w].stage \in {"reading", "rollback"}
        /\ worker'[w].copy = worker[w].copy
        /\ UNCHANGED <<auction, bids, item, replica, best>>
        /\ worker'[w].stage = "rollback" => events' = events
    BY <1>1, <1>6, PublishMoves DEF Goes, Holders
  <2>2. /\ Holders' \subseteq Holders /\ \A v \in Workers : worker'[v].stage # "opening"
        /\ worker'[w].stage = "reading" => w \notin Holders'
    BY <2>1, HolderOfFirst DEF Holders, OthersStay
  <2>3. worker'[w].stage = "rollback" /\ NotYetSold => NotYetSold'
    BY <2>1, <2>2 DEF NotYetSold, OthersStay
  <2> QED BY <2>1, <2>2, <2>3, HolderOfFirst DEF FirstHash
<1>7. CASE RollbackClose(w)
  <2>1. /\ w \in Holders /\ Leaves(w) /\ OthersStay(w)
        /\ auction' \in {auction, ReopenedHash(auction)}
        /\ UNCHANGED <<bids, item, replica, best, events>>
    BY <1>1, <1>7, RollbackMoves DEF Holders
  <2>2. /\ Holders' = Holders \ {w} /\ \A v \in Workers : worker'[v].stage # "opening"
    BY <2>1, HolderOfFirst DEF Holders, OthersStay, Leaves, AfterClosing
  <2>3. NotYetSold => NotYetSold'
    BY <1>1, <1>2, <2>1, <2>2 DEF NotYetSold, OthersStay, Leaves, AfterClosing
  <2> QED BY <1>2, <2>1, <2>2, <2>3, HolderOfFirst DEF FirstHash
<1>8. CASE ReadFinalState(w) \/ SaveFinalState(w) \/ CleanupRedis(w)
  <2>1. /\ worker[w].stage \in {"reading", "saving", "cleanup"} /\ OthersStay(w)
        /\ worker'[w].stage \in {"saving", "cleanup", "pending", "done"}
        /\ auction' = auction
    BY <1>1, <1>8, ReadMoves, SaveMoves, CleanupMoves DEF Goes, Leaves, AfterClosing
  <2>2. Holders' \subseteq Holders
    BY <2>1 DEF Holders, OthersStay
  <2> QED BY <2>1, <2>2, LateIsSold, SoldKeepsFirst DEF OthersStay
<1> QED BY <1>3, <1>4, <1>5, <1>6, <1>7, <1>8 DEF WorkerStep

(* A bid: on the first hash it takes the lead, on a rebuilt one it ends    *)
(* the promise.                                                            *)
LEMMA BidKeepsLead ==
  ASSUME Quantity = 1, CacheTypeOK, LeadInv, ClosingStep, hash # "rebid", hash' # "rebid",
         NEW b \in Bidders, NEW amount \in Amounts, PlaceBid(b, amount)
  PROVE  LeadInv'
<1>1. /\ auction \in AuctionHash /\ bids \in BidSet /\ best \in BidSet
      /\ amount \in Nat \ {0} /\ hash \in {"first", "rebuilt", "rebid"}
  BY ClosingAmountsAssumption DEF CacheTypeOK, Typed
<1>2. /\ auction.status = "OPEN" /\ Verdict(auction, bids, b, amount) = "accepted"
      /\ auction' = HashAfter(auction, bids, b, amount)
      /\ bids' = BidsAfter(bids, b, amount) /\ best' = [best EXCEPT ![b] = amount]
      /\ UNCHANGED <<item, replica, worker, events, reader>>
  BY DEF PlaceBid, Verdict, ClosingStep
<1>3. auction'.version > auction.version
  BY <1>1, <1>2 DEF HashAfter, AuctionHash
<1>4. hash = "first"
  BY <1>1, <1>3 DEF ClosingStep
<1>5. /\ NotYetSold /\ Holders = {} /\ Leads(auction, best)
      /\ \A w \in Workers : worker[w].stage # "opening"
  BY <1>2, <1>4 DEF LeadInv, LeadKnown, FirstHash
<1>6. /\ bids = best /\ events = << >> /\ item.bidder = NoBidder /\ replica.bidder = NoBidder
      /\ auction.bidder = NoBidder => best = NoBids
      /\ \A w \in Workers : worker[w].copy.bidder = NoBidder
      /\ \A r \in Readers : reader[r].copy.bidder = NoBidder
  BY <1>5 DEF NotYetSold
<1>7. Leads(auction', best') /\ auction'.bidder = b /\ bids' = best'
  BY <1>1, <1>2, <1>5, <1>6, BidTakesLead
<1>8. \A w \in Workers : worker[w].stage # "publishing"
  BY <1>5 DEF Holders
<1>9. LeadKnown'
  BY <1>2, <1>6, <1>7, <1>8 DEF LeadKnown, Leads
<1>10. b # NoBidder /\ auction'.status = "OPEN"
  BY <1>1, <1>2, BiddersAssumption, PlacingKeepsTypes
<1>11. Holders' = {}
  BY <1>2, <1>5 DEF Holders
<1>12. NotYetSold'
  BY <1>2, <1>5, <1>6, <1>7, <1>10, <1>11 DEF NotYetSold
<1>13. FirstHash'
  BY <1>2, <1>5, <1>10, <1>11, <1>12 DEF FirstHash
<1> QED BY <1>9, <1>13 DEF LeadInv

(* The closer opens the first hash, pending or lost, before any bid.       *)
LEMMA OpeningKeepsFirst ==
  ASSUME OneOpener, CacheTypeOK, FirstHash, reader' = reader,
         NEW i \in Instances, OpenAuction(i)
  PROVE  FirstHash'
<1>1. worker \in [Workers -> Worker] /\ auction \in AuctionHash /\ i \in Workers
  BY DEF CacheTypeOK, Typed, Workers
<1>2. /\ worker[i].stage = "opening" /\ OthersStay(i)
      /\ worker'[i].stage = "idle" /\ worker'[i].copy = worker[i].copy
      /\ auction' = [auction EXCEPT !.status = "OPEN"]
      /\ UNCHANGED <<bids, item, replica, events, best>>
  BY <1>1, OpenMoves DEF Goes
<1>3. Scheduled /\ NotYetSold /\ Holders = {} /\ best = NoBids
  BY <1>1, <1>2 DEF FirstHash
<1>4. \A v \in Workers : worker'[v].stage # "opening"
  BY <1>1, <1>2, <1>3 DEF FirstHash, OneOpener, OthersStay
<1>5. Holders' = {}
  BY <1>2, <1>3 DEF Holders, OthersStay
<1>6. NotYetSold'
  BY <1>2, <1>3, <1>5 DEF NotYetSold, OthersStay
<1>7. auction'.status = "OPEN"
  BY <1>1, <1>2 DEF AuctionHash
<1> QED BY <1>4, <1>5, <1>6, <1>7 DEF FirstHash

(* The other steps of the closing.                                         *)
LEMMA OtherStepsKeepLead ==
  ASSUME OneOpener, CacheTypeOK, LeadInv, ClosingStep,
         \/ Tick \/ Replicate
         \/ \E b \in Bidders, amount \in Amounts : UpdateDynamoWinner(b, amount)
         \/ \E i \in Instances : CheckExpired(i) \/ CheckPending(i) \/ OpenAuction(i) \/ Crash(i)
         \/ \E c \in SellerCalls : SellerCloses(c)
  PROVE  LeadInv'
<1>1. /\ worker \in [Workers -> Worker] /\ auction \in AuctionHash
      /\ item \in Item /\ replica \in Item /\ Follows
      /\ reader' = reader /\ (hash' = "first" => hash = "first")
  BY ReplicaFollows DEF CacheTypeOK, Typed, ClosingStep
<1>2. /\ KeyLeads /\ EventsAward
      /\ \A w \in Workers : WorkerLeads(w)
      /\ \A r \in Readers : ReaderLeads(r)
  BY LeadByHolder DEF LeadInv
<1>3. ASSUME UNCHANGED <<bids, best, events>>, item'.bidder = item.bidder,
             item'.current = item.current, auction'.bidder = auction.bidder,
             auction'.current = auction.current,
             \A w \in Workers :
               \/ worker'[w] = worker[w]
               \/ /\ worker'[w].copy = worker[w].copy \/ worker'[w].copy = NewAuction
                  /\ worker'[w].stage \in Harmless
      PROVE  LeadKnown'
  <2>1. KeyLeads'
    <3>1. Leads(item, best)' /\ Leads(auction, best)'
      BY <1>2, <1>3 DEF KeyLeads, Leads
    <3> QED BY <1>1, <1>2, <1>3, <3>1, CopiesKeepLead DEF KeyLeads
  <2>2. \A w \in Workers : WorkerLeads(w)'
    BY <1>2, <1>3, BystandersKeepLead DEF Harmless
  <2>3. EventsAward' /\ \A r \in Readers : ReaderLeads(r)'
    BY <1>1, <1>2, <1>3, BystandersKeepLead
  <2> QED BY <2>1, <2>2, <2>3 DEF LeadKnown, KeyLeads, WorkerLeads, ReaderLeads, EventsAward
<1>4. CASE Tick \/ Replicate
  <2>1. UNCHANGED <<auction, bids, best, events, item, worker>>
    BY <1>4 DEF Tick, Replicate, redis
  <2>2. LeadKnown' /\ (FirstHash => FirstHash')
    BY <1>1, <1>3, <2>1, QuietKeepsFirst
  <2> QED BY <1>1, <2>2 DEF LeadInv
<1>5. ASSUME NEW b \in Bidders, NEW amount \in Amounts, UpdateDynamoWinner(b, amount)
      PROVE  LeadInv'
  <2>1. /\ UNCHANGED <<auction, bids, best, events, worker>>
        /\ item'.bidder = item.bidder /\ item'.current = item.current
    BY <1>1, <1>5, CopyWrites, ClosingAmountsAssumption DEF UpdateDynamoWinner, redis
  <2>2. LeadKnown' /\ (FirstHash => FirstHash')
    BY <1>1, <1>3, <2>1, QuietKeepsFirst
  <2> QED BY <1>1, <2>2 DEF LeadInv
<1>6. ASSUME NEW w \in Workers,
             \/ w \in Instances /\ (CheckExpired(w) \/ CheckPending(w))
             \/ w \in SellerCalls /\ SellerCloses(w)
      PROVE  LeadInv'
  <2>1. OthersStay(w) /\ UNCHANGED <<auction, bids, best, events, item, replica>>
    BY <1>1, <1>6, LookMoves
  <2>2. PICK s \in Harmless :
          /\ Goes(w, s, worker[w].winners, worker[w].copy)
          /\ s = "opening" => w \in Instances /\ auction.status = "PENDING"
    BY <1>1, <1>6, LookMoves
  <2>3. /\ worker'[w].stage = s /\ worker'[w].copy = worker[w].copy
        /\ \A v \in Workers \ {w} : worker'[v] = worker[v]
    BY <2>1, <2>2 DEF Goes, OthersStay
  <2>4. LeadKnown'
    BY <1>3, <2>1, <2>2, <2>3
  <2>5. FirstHash => FirstHash'
    BY <1>1, <2>1, <2>2, <2>3, QuietKeepsFirst DEF Harmless
  <2> QED BY <1>1, <2>4, <2>5 DEF LeadInv
<1>7. ASSUME NEW i \in Instances, OpenAuction(i) PROVE LeadInv'
  <2>1. /\ OthersStay(i) /\ Goes(i, "idle", worker[i].winners, worker[i].copy)
        /\ auction' = [auction EXCEPT !.status = "OPEN"]
        /\ UNCHANGED <<bids, item, replica, events, best>>
    BY <1>1, <1>7, OpenMoves
  <2>2. auction'.bidder = auction.bidder /\ auction'.current = auction.current
    BY <1>1, <2>1 DEF AuctionHash
  <2>3. LeadKnown'
    BY <1>3, <2>1, <2>2 DEF Goes, OthersStay, Harmless
  <2>4. FirstHash => FirstHash'
    BY <1>1, <1>7, OpeningKeepsFirst
  <2> QED BY <1>1, <2>3, <2>4 DEF LeadInv
<1>8. ASSUME NEW i \in Instances, Crash(i) PROVE LeadInv'
  <2>1. /\ UNCHANGED <<auction, bids, best, events, item, replica>>
        /\ \A w \in Workers :
             \/ worker'[w] = worker[w]
             \/ worker'[w].stage \in {"idle", "done"} /\ worker'[w].copy = NewAuction
    BY <1>1, <1>8, CrashMoves
  <2>2. LeadKnown'
    BY <1>3, <2>1 DEF Harmless
  <2>3. FirstHash => FirstHash'
    BY <1>1, <2>1, QuietKeepsFirst
  <2> QED BY <1>1, <2>2, <2>3 DEF LeadInv
<1> QED BY <1>4, <1>5, <1>6, <1>7, <1>8 DEF Workers

(* Readers hand on what the item knows; a rebuilt hash is not the first.   *)
LEMMA ReaderKeepsLead ==
  ASSUME CacheTypeOK, LeadInv, NEW r \in Readers, ReaderStep(r)
  PROVE  LeadInv'
<1>1. reader \in [Readers -> Reader] /\ item \in Item /\ replica \in Item
  BY DEF CacheTypeOK, Typed
<1>2. /\ KeyLeads /\ EventsAward
      /\ \A w \in Workers : WorkerLeads(w)
      /\ \A q \in Readers : ReaderLeads(q)
  BY LeadByHolder DEF LeadInv
<1>3. /\ \A q \in Readers \ {r} : reader'[q] = reader[q]
      /\ UNCHANGED <<bids, item, replica, worker, events, best>>
      /\ \/ reader'[r] = Idle \/ reader'[r].copy = reader[r].copy
         \/ \E it \in {item, replica} : CarriesItem(r, it)
      /\ \/ UNCHANGED <<auction, hash>>
         \/ /\ auction' = reader[r].copy
            /\ hash' = IF hash = "first" THEN "rebuilt" ELSE hash
  BY <1>1, ReaderMoves
<1>4. ReaderLeads(r)'
  BY <1>2, <1>3 DEF ReaderLeads, KeyLeads, Leads, CarriesItem, HashOf, Idle, NoHash
<1>5. /\ \A w \in Workers : WorkerLeads(w)'
      /\ \A q \in Readers : ReaderLeads(q)'
      /\ EventsAward'
  BY <1>2, <1>3, <1>4, BystandersKeepLead
<1>6. KeyLeads'
  BY <1>2, <1>3 DEF KeyLeads, ReaderLeads
<1>7. LeadKnown'
  BY <1>5, <1>6 DEF LeadKnown, KeyLeads, WorkerLeads, ReaderLeads, EventsAward
<1>8. hash' = "first" /\ FirstHash => FirstHash'
  <2> SUFFICES ASSUME hash' = "first", FirstHash PROVE FirstHash'
    OBVIOUS
  <2>1. auction' = auction /\ Holders' = Holders
    BY <1>3 DEF Holders
  <2>2. NotYetSold => \A q \in Readers : reader'[q].copy.bidder = NoBidder
    BY <1>3 DEF NotYetSold, CarriesItem, HashOf, Idle, NoHash
  <2>3. NotYetSold => NotYetSold'
    BY <1>3, <2>1, <2>2 DEF NotYetSold
  <2> QED BY <1>3, <2>1, <2>3 DEF FirstHash
<1>9. hash' = "first" => hash = "first"
  BY <1>3
<1> QED BY <1>7, <1>8, <1>9 DEF LeadInv

(* A hash that is gone names nobody, a sorted set that is gone is empty.   *)
LEMMA LossKeepsLead ==
  ASSUME LeadInv, HashExpires \/ RedisRestarts
  PROVE  LeadInv'
<1>1. /\ KeyLeads /\ EventsAward
      /\ \A w \in Workers : WorkerLeads(w)
      /\ \A r \in Readers : ReaderLeads(r)
  BY LeadByHolder DEF LeadInv
<1>2. /\ auction' = NoHash /\ bids' \in {bids, NoBids}
      /\ UNCHANGED <<item, replica, worker, events, best, reader, hash>>
  BY DEF HashExpires, RedisRestarts
<1>3. KeyLeads'
  BY <1>1, <1>2 DEF KeyLeads, Leads, NoHash
<1>4. /\ \A w \in Workers : WorkerLeads(w)'
      /\ \A r \in Readers : ReaderLeads(r)'
      /\ EventsAward'
  BY <1>1, <1>2, BystandersKeepLead
<1>5. LeadKnown'
  BY <1>3, <1>4 DEF LeadKnown, KeyLeads, WorkerLeads, ReaderLeads, EventsAward
<1>6. FirstHash => FirstHash'
  <2> SUFFICES ASSUME FirstHash, NEW w \in Workers, worker[w].stage = "opening"
               PROVE  /\ w \in Instances /\ Scheduled /\ NotYetSold'
                      /\ Holders' = {} /\ best' = NoBids
    BY <1>2 DEF FirstHash, NoHash
  <2>1. /\ w \in Instances /\ Scheduled /\ NotYetSold /\ Holders = {} /\ best = NoBids
    BY DEF FirstHash
  <2>2. Holders' = {}
    BY <1>2, <2>1 DEF Holders
  <2> QED BY <1>2, <2>1, <2>2 DEF NotYetSold
<1> QED BY <1>2, <1>5, <1>6 DEF LeadInv

(* Every step keeps it, until a bid on a rebuilt hash or a winner from a   *)
(* map that lacks one.                                                     *)
LEMMA StepKeepsLead ==
  ASSUME Quantity = 1, OneOpener, "publish_reply" \notin Faults, "fallback" \notin Faults
  PROVE  CacheTypeOK /\ LeadLasts /\ [CacheNext]_cacheVars => LeadLasts'
<1> SUFFICES ASSUME CacheTypeOK, LeadLasts, [CacheNext]_cacheVars,
                    hash' # "rebid", ~hidden'
             PROVE  LeadInv'
  BY DEF LeadLasts
<1>1. /\ hash \in {"first", "rebuilt", "rebid"} /\ hidden \in BOOLEAN
      /\ reader \in [Readers -> Reader] /\ item \in Item /\ replica \in Item
  BY DEF CacheTypeOK, Typed
<1>2. hash # "rebid" /\ ~hidden
  <2>1. CASE ClosingStep
    BY <1>1, <2>1 DEF ClosingStep
  <2>2. ASSUME NEW r \in Readers, ReaderStep(r) PROVE hash # "rebid" /\ ~hidden
    BY <1>1, <2>2, ReaderMoves
  <2> QED BY <1>1, <2>1, <2>2 DEF CacheNext, LockExpires, HashExpires, RedisRestarts,
        cacheVars, histories
<1>3. LeadInv
  BY <1>2 DEF LeadLasts
<1>4. CASE ClosingStep
  <2>1. reader' = reader /\ (hash' = "first" => hash = "first") /\ Next
    BY <1>4 DEF ClosingStep
  <2>2. ASSUME NEW w \in Workers, WorkerStep(w) PROVE LeadInv'
    <3>1. LeadKnown'
      BY <1>3, <1>4, <2>2, CloseKeepsKnown DEF LeadInv
    <3>2. FirstHash => FirstHash'
      BY <2>1, <2>2, CloseKeepsFirst
    <3> QED BY <1>3, <2>1, <3>1, <3>2 DEF LeadInv
  <2>3. ASSUME NEW b \in Bidders, NEW amount \in Amounts, PlaceBid(b, amount) PROVE LeadInv'
    BY <1>2, <1>3, <1>4, <2>3, BidKeepsLead
  <2>4. CASE \/ Tick \/ Replicate
             \/ \E b \in Bidders, amount \in Amounts : UpdateDynamoWinner(b, amount)
             \/ \E i \in Instances :
                  CheckExpired(i) \/ CheckPending(i) \/ OpenAuction(i) \/ Crash(i)
             \/ \E c \in SellerCalls : SellerCloses(c)
    BY <1>3, <1>4, <2>4, OtherStepsKeepLead
  <2> QED BY <2>1, <2>2, <2>3, <2>4 DEF Next, CloserStep, Workers
<1>5. ASSUME NEW r \in Readers, ReaderStep(r) PROVE LeadInv'
  BY <1>3, <1>5, ReaderKeepsLead
<1>6. CASE HashExpires \/ RedisRestarts
  BY <1>3, <1>6, LossKeepsLead
<1>7. CASE LockExpires \/ UNCHANGED cacheVars
  <2>1. UNCHANGED <<auction, bids, item, replica, worker, events, best, reader, hash>>
    BY <1>7 DEF LockExpires, cacheVars, vars, cache, histories
  <2>2. /\ KeyLeads /\ EventsAward
        /\ \A w \in Workers : WorkerLeads(w)
        /\ \A r \in Readers : ReaderLeads(r)
    BY <1>3, LeadByHolder DEF LeadInv
  <2>3. /\ EventsAward'
        /\ \A w \in Workers : WorkerLeads(w)'
        /\ \A r \in Readers : ReaderLeads(r)'
    BY <2>1, <2>2, BystandersKeepLead
  <2>4. KeyLeads'
    BY <2>1, <2>2 DEF KeyLeads
  <2>5. LeadKnown'
    BY <2>3, <2>4 DEF LeadKnown, KeyLeads, WorkerLeads, ReaderLeads, EventsAward
  <2>6. FirstHash => FirstHash'
    BY <2>1, QuietKeepsFirst DEF Follows
  <2> QED BY <1>3, <2>1, <2>5, <2>6 DEF LeadInv
<1> QED BY <1>4, <1>5, <1>6, <1>7 DEF CacheNext

(* With one winner and one opener, and calls that fail only before they    *)
(* took effect and are not passed over: whatever Redis loses, every event  *)
(* names the best bid, unless somebody bids on the rebuilt hash or the map *)
(* that a winner is read from lacks a bid.                                 *)
THEOREM LeadOutlivesRedis ==
  ASSUME Quantity = 1, OneOpener, "publish_reply" \notin Faults, "fallback" \notin Faults
  PROVE  CacheSpec => []LeadSurvivesRestart
<1>1. CacheInit => LeadLasts
  <2> SUFFICES ASSUME CacheInit PROVE LeadInv
    BY DEF LeadLasts
  <2>1. /\ auction = NewAuction /\ bids = NoBids
        /\ item \in {ItemOf(NewAuction), NoItem} /\ replica \in {item, NoItem}
        /\ events = << >> /\ best = NoBids
        /\ \A w \in Workers : worker[w].stage = "idle" /\ worker[w].copy = NewAuction
        /\ \A r \in Readers : reader[r] = Idle
    BY DEF CacheInit, Init
  <2>2. Holders = {}
    BY <2>1 DEF Holders
  <2>3. LeadKnown
    BY <2>1 DEF LeadKnown, Leads, NewAuction, ItemOf, NoItem, Idle, NoHash
  <2>4. NotYetSold
    BY <2>1, <2>2 DEF NotYetSold, NewAuction, ItemOf, NoItem, Idle, NoHash
  <2> QED BY <2>1, <2>2, <2>3, <2>4 DEF LeadInv, FirstHash, NewAuction
<1>2. LeadLasts => LeadSurvivesRestart
  <2> SUFFICES ASSUME LeadKnown PROVE EventsNameTheBest
    BY DEF LeadLasts, LeadInv, LeadSurvivesRestart
  <2> QED BY AwardIsNamed DEF LeadKnown, EventsNameTheBest
<1>3. CacheInv => CacheTypeOK
  BY DEF CacheInv
<1>4. CacheTypeOK /\ LeadLasts /\ [CacheNext]_cacheVars => LeadLasts'
  BY StepKeepsLead
<1> QED BY <1>1, <1>2, <1>3, <1>4, CacheIsSound, PTL DEF CacheSpec
=============================================================================
