---------------------------- MODULE AuctionCache ----------------------------
(***************************************************************************)
(* The Redis keys of an auction as a cache of its DynamoDB item.  The hash *)
(* can be gone, because Redis restarted with nothing in it or because a    *)
(* day has passed since the cleanup; Repository.GetByID then rebuilds it   *)
(* from the item.  Whoever opens a page, bids, lists or closes calls       *)
(* GetByID first; those calls are the readers here, and run beside the     *)
(* bids and the closing of module AuctionClosing.  A bid updates the map   *)
(* of winners in the item and nothing else of it.                          *)
(***************************************************************************)
EXTENDS AuctionClosing

CONSTANTS
  Readers,     \* calls of GetByID that find no hash
  MaxLosses    \* bound: how often the hash is lost

ASSUME LossesAssumption == MaxLosses \in Nat

VARIABLES
  lock,     \* whether the key rebuild:auction:{id} is set
  ttl,      \* whether the hash expires
  reader,   \* where each call of GetByID is, and the item it has read
  losses,   \* how often Redis restarted and how often the hash expired
  hash,     \* history: "first", "rebuilt", or "rebid" after a bid on a rebuilt one
  hidden,   \* history: a winner was read while the map, or its copy, was old
  made      \* history: all bids that were ever accepted

cache     == <<lock, ttl, reader>>
histories == <<losses, hash, hidden, made>>
cacheVars == <<vars, cache, histories>>

NoHash == [status |-> "MISSING", current |-> 0, bidder |-> NoBidder, version |-> 0]
Cached == auction.status # "MISSING"

ReaderStages == {"idle", "locking", "waiting", "checking", "loading", "writing", "unlocking"}
Reader == [stage : ReaderStages, copy : AuctionHash]
Idle   == [stage |-> "idle", copy |-> NoHash]

CacheInit ==
  /\ Init
  /\ lock = FALSE /\ ttl = FALSE
  /\ reader = [r \in Readers |-> Idle]
  /\ losses = [restart |-> 0, expiry |-> 0] /\ hash = "first" /\ hidden = FALSE /\ made = {}

-----------------------------------------------------------------------------
(* GetByID and ensureRedisCached *)

ReaderGoes(r, stage) == reader' = [reader EXCEPT ![r].stage = stage]
ReaderEnds(r) == reader' = [reader EXCEPT ![r] = Idle]

(* HGETALL: a hit ends the call. *)
Miss(r) ==
  /\ reader[r].stage = "idle" /\ ~Cached
  /\ ReaderGoes(r, "locking")
  /\ UNCHANGED <<vars, lock, ttl, histories>>

(* SETNX *)
Lock(r) ==
  /\ reader[r].stage = "locking"
  /\ lock' = TRUE
  /\ ReaderGoes(r, IF lock THEN "waiting" ELSE "checking")
  /\ UNCHANGED <<vars, ttl, histories>>

(* After 100 ms; if there is still no hash the call goes on without a lock. *)
Wait(r) ==
  /\ reader[r].stage = "waiting"
  /\ IF Cached THEN ReaderEnds(r) ELSE ReaderGoes(r, "checking")
  /\ UNCHANGED <<vars, lock, ttl, histories>>

(* The double check. *)
CheckAgain(r) ==
  /\ reader[r].stage = "checking"
  /\ ReaderGoes(r, IF Cached THEN "unlocking" ELSE "loading")
  /\ UNCHANGED <<vars, lock, ttl, histories>>

(* Mutant: a rebuilt auction is open. *)
HashOfOpen(it) == [status |-> "OPEN", current |-> it.current, bidder |-> it.bidder,
                   version |-> it.version]

(* Mutant: the leader of the map is put beside the price of the item. *)
HashOfLeader(it) ==
  LET leaders == {b \in Entrants(it.winners) :
                    \A c \in Bidders : it.winners[c] <= it.winners[b]} IN
  [status |-> it.status, current |-> it.current, version |-> it.version,
   bidder |-> IF leaders = {} THEN it.bidder ELSE CHOOSE b \in leaders : TRUE]

HashOf(it) == [status |-> it.status, current |-> it.current, bidder |-> it.bidder,
               version |-> it.version]

(* getFromDynamo, which fails without an item. *)
Load(r) ==
  /\ reader[r].stage = "loading"
  /\ \/ /\ NoFault
        /\ \E it \in {item, replica} :
             IF it.status = "MISSING" THEN ReaderGoes(r, "unlocking")
             ELSE reader' = [reader EXCEPT ![r] = [stage |-> "writing", copy |-> HashOf(it)]]
     \/ Fault("rebuild") /\ ReaderGoes(r, "unlocking")
  /\ UNCHANGED <<redis, item, replica, writing, clock, worker, events, best, lock, ttl,
                 histories>>

(* Mutant: the auction is not added to the active set. *)
RebuildHashOnly(r) ==
  /\ reader[r].stage = "writing"
  /\ \/ /\ NoFault /\ auction' = reader[r].copy
        /\ hash' = IF hash = "first" THEN "rebuilt" ELSE hash
     \/ Fault("rebuild") /\ UNCHANGED <<auction, hash>>
  /\ ReaderGoes(r, "unlocking")
  /\ UNCHANGED <<bids, active, item, replica, writing, clock, worker, events, best, lock, ttl,
                 losses, hidden, made>>

(* The pipeline overwrites whatever hash there is by now. *)
Rebuild(r) ==
  /\ reader[r].stage = "writing"
  /\ \/ /\ NoFault /\ auction' = reader[r].copy
        /\ active' = (active \/ reader[r].copy.status # "CLOSED")
        /\ hash' = IF hash = "first" THEN "rebuilt" ELSE hash
     \/ Fault("rebuild") /\ UNCHANGED <<auction, active, hash>>
  /\ ReaderGoes(r, "unlocking")
  /\ UNCHANGED <<bids, item, replica, writing, clock, worker, events, best, lock, ttl,
                 losses, hidden, made>>

(* The deferred DEL, of whoever holds the lock. *)
Unlock(r) ==
  /\ reader[r].stage = "unlocking"
  /\ lock' = FALSE
  /\ ReaderEnds(r)
  /\ UNCHANGED <<vars, ttl, histories>>

-----------------------------------------------------------------------------
(* Expiry and loss *)

Loses(how) ==
  /\ losses.restart + losses.expiry < MaxLosses
  /\ losses' = [losses EXCEPT ![how] = @ + 1]

(* After two seconds, though the reader that took it may still be at work. *)
LockExpires ==
  /\ lock /\ lock' = FALSE
  /\ UNCHANGED <<vars, ttl, reader, histories>>

(* A day after the cleanup; the calls of that time have returned, and      *)
(* DynamoDB has caught up.                                                 *)
HashExpires ==
  /\ replica = item
  /\ ttl /\ \A r \in Readers : reader[r].stage = "idle"
  /\ \A w \in Workers : worker[w].stage \in {"idle", "pending", "done"}
  /\ Loses("expiry")
  /\ auction' = NoHash /\ ttl' = FALSE
  /\ UNCHANGED <<bids, active, item, replica, writing, clock, worker, events, faults, best,
                 lock, reader, hash, hidden, made>>

RedisRestarts ==
  /\ Loses("restart")
  /\ auction' = NoHash /\ bids' = NoBids /\ active' = FALSE
  /\ lock' = FALSE /\ ttl' = FALSE
  /\ UNCHANGED <<item, replica, writing, clock, worker, events, faults, best, reader, hash,
                 hidden, made>>

-----------------------------------------------------------------------------
CleansUp(w) ==
  worker[w].stage = "cleanup" /\ worker'[w].stage # "cleanup" /\ faults' = faults

ReadsMap(w) ==
  worker[w].stage = "fallback" /\ worker'[w].stage = "publishing"

(* A step of AuctionClosing.  Cleanup sets the expiry of a hash that is    *)
(* there.                                                                  *)
ClosingStep ==
  /\ Next
  /\ ttl' = (ttl \/ (Cached /\ \E w \in Workers : CleansUp(w)))
  /\ hash' = IF hash = "rebuilt" /\ auction'.version > auction.version THEN "rebid" ELSE hash
  /\ hidden' = (hidden \/ \E w \in Workers, it \in {item, replica} :
                            ReadsMap(w) /\ it.winners # best)
  /\ made' = made \cup writing'
  /\ UNCHANGED <<lock, reader, losses>>

ReaderStep(r) ==
  Miss(r) \/ Lock(r) \/ Wait(r) \/ CheckAgain(r) \/ Load(r) \/ Rebuild(r) \/ Unlock(r)

CacheNext ==
  \/ ClosingStep
  \/ \E r \in Readers : ReaderStep(r)
  \/ LockExpires \/ HashExpires \/ RedisRestarts

CacheSpec == CacheInit /\ [][CacheNext]_cacheVars

(* The closers and the calls go on, as before, DynamoDB catches up, and    *)
(* the auction is one that people look at: whenever the hash is gone,      *)
(* somebody asks for it.                                                   *)
CacheFairness ==
  /\ WF_cacheVars(Tick /\ ClosingStep) /\ WF_cacheVars(Replicate /\ ClosingStep)
  /\ \A i \in Instances : WF_cacheVars(CloserStep(i) /\ ClosingStep)
  /\ \A c \in SellerCalls : WF_cacheVars(WorkerStep(c) /\ ClosingStep)
  /\ \A r \in Readers : WF_cacheVars(ReaderStep(r))

CacheFairSpec == CacheSpec /\ CacheFairness
-----------------------------------------------------------------------------
(* Every variable has the values that its key or call can hold; a hash     *)
(* that expires is there, and no copy of it is one of a missing hash.      *)
CacheTypeOK ==
  /\ Typed
  /\ lock \in BOOLEAN /\ ttl \in BOOLEAN
  /\ reader \in [Readers -> Reader]
  /\ losses \in [{"restart", "expiry"} -> 0..MaxLosses]
  /\ hash \in {"first", "rebuilt", "rebid"} /\ hidden \in BOOLEAN
  /\ made \subseteq Bidders \X Amounts
  /\ ttl => Cached
  /\ \A w \in Workers : worker[w].copy.status # "MISSING"
  /\ \A r \in Readers : reader[r].stage = "writing" => reader[r].copy.status # "MISSING"

(* Rebuilding from the item brings a closed auction back as closed: unless *)
(* Redis restarts or a call fails, no bid is accepted once the event is    *)
(* out, however often the hash expires and is rebuilt.                     *)
ClosedForGood ==
  losses.restart = 0 /\ faults = 0 /\ events # << >> => auction.status # "OPEN"

(* Whoever led when Redis restarted still wins, although the rebuilt hash  *)
(* has no bidder and the sorted set is empty, as long as the winners map   *)
(* had caught up and nobody bid on the rebuilt auction.                    *)
LeadSurvivesRestart == hash # "rebid" /\ ~hidden => EventsNameTheBest

(* Restarts, rebuilds that overwrite one another and auctions closed twice *)
(* never produce a winner with a price that this bidder did not bid.  With *)
(* several winners that goes for the first event only: the fallback of a   *)
(* second close may read the floor of the final copy as the price.         *)
WereBid(z, placed) == \A b \in Entrants(z) : <<b, z[b]>> \in placed

WinnersPaidTheirBid ==
  \A k \in DOMAIN events : k = 1 \/ Quantity = 1 => WereBid(events[k], made)

(* Why: nothing that an award is made of has a price that was not bid.  A  *)
(* hash names its bidder with a bid if there is one winner, and the item   *)
(* has no bidder before the first event.                                   *)
BidOf(a, placed) == a.bidder # NoBidder => <<a.bidder, a.current>> \in placed

PricesWereBid ==
  /\ writing \subseteq made
  /\ WereBid(bids, made)
  /\ \A it \in {item, replica} :
       /\ WereBid(it.winners, made) /\ (Quantity = 1 => BidOf(it, made))
       /\ events = << >> => it.bidder = NoBidder
  /\ Quantity = 1 =>
       /\ BidOf(auction, made)
       /\ \A w \in Workers : BidOf(worker[w].copy, made)
       /\ \A r \in Readers : BidOf(reader[r].copy, made)
  /\ events = << >> =>
       \A w \in Workers : worker[w].stage \notin {"reading", "saving", "cleanup"}
  /\ events = << >> \/ Quantity = 1 => \A w \in Workers : WereBid(worker[w].winners, made)
  /\ WinnersPaidTheirBid

(* The keys, their copies and the events agree with the bids that were made. *)
CacheInv == CacheTypeOK /\ PricesWereBid

(* Why a closed auction stays closed: until the event nothing expires and  *)
(* nobody rebuilds; the hash expires when the item says CLOSED, and what   *)
(* is rebuilt from there on is closed.                                     *)
CalmInv ==
  /\ auction.status = "PENDING" => Scheduled
  /\ \A w \in Workers : worker[w].stage = "opening" =>
       w \in Instances /\ auction.status = "PENDING"
  /\ \A w \in Workers : worker[w].stage # "rollback"
  /\ \A v, w \in Holders : v = w
  /\ IF events = << >>
       THEN /\ Cached /\ ~ttl /\ \A r \in Readers : reader[r].stage = "idle"
            /\ Holders # {} => auction.status = "CLOSED"
            /\ \A w \in Workers : worker[w].stage \notin {"reading", "saving", "cleanup"}
       ELSE /\ auction.status \in {"CLOSED", "MISSING"} /\ Holders = {}
            /\ \A w \in Workers :
                 /\ worker[w].stage = "saving" => worker[w].copy.status = "CLOSED"
                 /\ worker[w].stage = "cleanup" => item.status = "CLOSED"
            /\ \A r \in Readers : reader[r].stage = "writing" => reader[r].copy.status = "CLOSED"
            /\ item.status # "CLOSED" => Cached /\ ~ttl
            /\ \A it \in {item, replica} : it.status # "CLOSED" =>
                 Cached /\ \A r \in Readers : reader[r].stage = "idle"

StaysClosed == losses.restart = 0 /\ faults = 0 => CalmInv

(* Why the lead survives: as long as one can bid on the first hash, or a   *)
(* close of it may be rolled back, nothing is announced or copied yet and  *)
(* Redis has all bids.  On a later hash nobody bids, and whatever an award *)
(* can be read from still names the best bid.                              *)
Leads(a, h) == a.bidder # NoBidder =>
  /\ h[a.bidder] = a.current
  /\ \A b \in Bidders : h[b] <= a.current

NotYetSold ==
  /\ events = << >> /\ bids = best
  /\ auction.bidder = NoBidder => best = NoBids
  /\ item.bidder = NoBidder /\ replica.bidder = NoBidder
  /\ \A w \in Workers :
       /\ worker[w].stage \notin {"reading", "saving", "cleanup"}
       /\ worker[w].copy.bidder = NoBidder
  /\ \A r \in Readers : reader[r].copy.bidder = NoBidder
  /\ \A v, w \in Holders : v = w

LeadKnown ==
  /\ bids \in {best, NoBids}
  /\ \A a \in {auction, item, replica} : Leads(a, best)
  /\ \A w \in Workers : Leads(worker[w].copy, best)
  /\ \A r \in Readers : Leads(reader[r].copy, best)
  /\ \A w \in Workers : worker[w].stage = "publishing" => AwardsBest(worker[w].winners)
  /\ \A k \in DOMAIN events : AwardsBest(events[k])

FirstHash ==
  /\ auction.status = "PENDING" => Scheduled /\ best = NoBids
  /\ auction.status \in {"PENDING", "OPEN"} => NotYetSold /\ Holders = {}
  /\ auction.status = "CLOSED" /\ Holders # {} => NotYetSold
  /\ \A w \in Workers : worker[w].stage = "opening" =>
       /\ w \in Instances /\ Scheduled /\ auction.status \in {"PENDING", "MISSING"}
       /\ NotYetSold /\ Holders = {} /\ best = NoBids

LeadInv == LeadKnown /\ (hash = "first" => FirstHash)

LeadLasts == hash # "rebid" /\ ~hidden => LeadInv

(* What the winners map knows survives a restart of Redis: no close awards *)
(* the auction for less than a bid that is in the map.  The code does not  *)
(* keep this: on the rebuilt auction lower bids are accepted.              *)
MapSurvivesRestart ==
  [][\A w \in Workers :
       worker[w].stage = "closing" /\ worker'[w].stage = "publishing" =>
         \A b \in Awarded(worker'[w].winners), c \in Bidders :
           item.winners[c] <= worker'[w].winners[b]]_cacheVars

(* An auction that people look at is announced after its end, also when    *)
(* Redis restarts and the closers have forgotten it, unless the item that  *)
(* it would be rebuilt from was never written.                             *)
Unwritten == item.status \in {"MISSING", "BLANK"}
SeenAuctionEnds == (clock = "ended") ~> (events # << >> \/ Unwritten)
=============================================================================
