# Verification of the distributed real-time bidding platform

TLA+ models of the services under `src/services`, checked with TLC and,
but for liveness, proved with TLAPS. Paths below are relative to `src/`. `PROJECT.json` maps
every definition to the lines it models and lists the runs, mutants, hazards,
disagreements with the documentation, and theorems.

## 1. The system

Six Go services talk through HTTP, five Redis streams (`bid:placed`, `auction:closed` and three of payment outcomes) and DynamoDB. The core is
the life of an auction: bids race for its slots, a closer ends it, the winners
are billed, and everybody is told.

| Component | State | Operations | Hard behaviour | Correct when |
|---|---|---|---|---|
| Bid placement (`auction/service.go`, `concurrency/pessimistic.go`) | Redis hash `auction:{id}`, sorted set `auction:{id}:bids`, stream `bid:placed`, `winners` map of the DynamoDB item | `PlaceBid`: read, `placeBidLua`, XADD, goroutine that writes the map | calls interleave between the four steps; a reply, the event or the map is lost; the auction is closed and rolled back meanwhile | the slots hold the best bidders, the floor is the amount to beat, whoever loses a slot is told |
| Opening and closing (`auction/closer.go`, `service.go`, `repository.go`) | status in the hash, `auctions:active`, DynamoDB item, stream `auction:closed`; one closer per instance | `checkExpired`, `checkPending`, `OpenAuction`, `CloseAuction` (close script, fallback, event or rollback, persisted copy, cleanup) | several closers and the seller race; every call can fail; instances crash | one event with the right winners, eventually; nothing released before it |
| Auction cache (`auction/repository.go`: `GetByID`, `ensureRedisCached`) | hash and set as a cache of the item, rebuild lock | read-through, rebuild, expiry after 24 h | Redis restarts; two rebuilds at once; a rebuild overtakes a bid or a close | a closed auction stays closed, the leader survives, nobody wins with a bid they did not make |
| Experimental strategies (`concurrency/experimental`) | version of the hash; channel and goroutine per auction and instance | optimistic retry, queue, `Stop`, switch of strategy | conflicts, close while a bid is queued, stop while one is sent, callers that give up | serialized bids count once and raise the price, every call returns |
| Payments (`payment/internal`) | table `payments`, its `auction-index`, consumer group on `auction:closed`, events of the outcome | `InitiatePayment`, `ProcessPayment`, `AbandonPayment`, `RefundPayment`, recovery job | at-least-once delivery, a lagging index, restarts between two writes, three kinds of workers on one payment | one payment per winner, one gateway decision, every payment settles |
| Bid history (`bid/internal`) | table of bids with ACCEPTED / OUTBID / WON | consumer of `bid:placed` and `auction:closed`; `RecordBid`, `MarkWon` | workers that walk over one another's bids, redelivery, errors that are ignored | no bid is lost, at most one stands, the winner's is WON |
| Notifications (`notification/internal`) | clients of the hub; stored notifications, dedup hash and unread counter | register, broadcast, `Add`, `MarkAllRead` | reads before pipelines, sends without the lock, acknowledgement after a failure | whoever stays connected is told; nothing stored is lost, doubled or forgotten by the counter before it expires |
| Shops and reviews (`shop/internal`) | shops, items, reviews | `CreateShop`, `UpdateShop`, `CreateItem`, `CreateReview`, `ReplyToReview` | check, then write; indexes that lag | one review of a buyer per auction; only sellers own shops; only payers review |
| Users (`user/internal`) | users, watchlists | `Register` with upgrade, `Login`, `UpdateProfile`, watchlist | check, then write; tokens outlive the roles in them | one account per email; a role once granted stays |
| Publishing (`*/events/publisher.go`, `shared/events`) | the streams | one XADD | failure, lost reply | part of its callers |
| Auction HTTP, authentication | none | listing, search, routing, token check | none | modelled only as the calls that they start and the role in the token |
| Web frontend (`frontend/src`) | notification and watchlist contexts | fetch, WebSocket messages | answers that overtake each other | not modelled |
| Deployment, load tests | none | configuration and measurement | none | not modelled |

How they interact: `PlaceBid` and `CloseAuction` share one Redis hash and set
through Lua scripts, which Redis runs one at a time; both write the DynamoDB
item. Events go to the bid, payment and notification services through consumer
groups with redelivery after 60 s. Payments are told of the winners only by
`auction:closed`, and tell the outcome by events of their own.

The hazards are listed in `PROJECT.json`, each at the line where it bites. For
one that no property covers, or covers only in part, its note says why.

## 2. The modules

| Module | Models | Built from |
|---|---|---|
| `AuctionScripts` | the three Lua scripts as operators from the values they read to those they write | |
| `AuctionLedger` | abstract: a ledger of best bids, a close that awards the `Quantity` best | |
| `BidPlacement` | concurrent `PlaceBid` calls against the Redis part of a close | `AuctionScripts`; implements `AuctionLedger` |
| `AuctionClosing` | closers and the seller on several instances, with all faults | `AuctionScripts`; implements `AuctionLedger` |
| `PaymentLedger` | abstract: each winner is billed, settled and refunded once | |
| `PaymentProcessing` | consumer, recovery job and admin calls on the payments of one auction | implements `PaymentLedger` |
| `AuctionCache` | the Redis keys as a cache of the item: loss, expiry and rebuild beside bids and closers | composes with `AuctionClosing`, of which it keeps every action |
| `BidStrategies` | the three strategies on several instances, with the close | `AuctionScripts` |
| `BidHistory` | the bid service: consumer of both streams and the status of every bid | |
| `NotificationHub` | the notification service: clients, events, the inbox of a user | |
| `UserAccounts` | accounts of one email: register, upgrade, login, profile | |
| `ShopReviews` | shop, items and reviews of the users, with their tokens | composes with `UserAccounts` |
| `MC*` | symmetry and values that a `.cfg` cannot write | the module they are named after |
| `*_proofs` | lemmas and theorems about the module they are named after | that module and TLAPS |

Operators with the comment "Mutant:" are deliberate mistakes, one beside each
definition that they replace; no specification uses them. They show that each
property depends on the code it is about.

### AuctionScripts

`AuctionHash` is the hash (bid_count moves with version and is left out);
`BidSet` the sorted set, 0 for no member. `Verdict`, `BidsAfter`, `EvictedBy`,
`NewFloor`, `HashAfter` are `placeBidLua`, in its order of tests: for one winner
the increment is tested before the price to beat, for several the price is the
lowest slot or the start bid. `ClosedHash` and `WinnersRead` are
`closeAndReadWinnerLua`, `ReopenedHash` is `rollbackCloseLua`. Ties are ranked by
the order of members, as in Redis. Amounts are exact: scores are doubles in
Redis, but cents far below 2^53.

Here is also stated what bidding through the scripts keeps true of hash, set and
best bids: `HoldBest` (the slots hold the best bids), `FloorShown` (the hash shows
the price to beat and the leader), `SlotsSound` and, of all three, `BiddingSound`.
The modules that place bids use these in their invariants.

### BidPlacement

| Code | Action |
|---|---|
| `GetByID`, the seller's own bid refused | `ReadAuction` |
| `placeBidLua` refuses / accepts (its reply may be lost) | `RejectBid` / `AcceptBid` |
| XADD on `bid:placed`, error ignored | `PublishBidPlaced` |
| goroutine `UpdateDynamoWinner`, with its second try that replaces the map | `UpdateDynamoWinner` |
| close script, announcement, rollback | `CloseAndReadWinners`, `AnnounceClosed`, `RollbackClose` |

`outbid` is read with the hash and published three steps later. `best` is a
history variable: the best bid accepted from each bidder. `order` numbers the
accepted bids in an event and is not sent.

### AuctionClosing

Each worker (a closer per instance, and the calls of the seller) runs
`CloseAuction` as a program counter; between two of its calls every other worker
and the bidders move. `Faults` names what may go wrong in a run:
`close_reply` and `publish_reply` (the call is carried out and its reply lost),
`publish`, `rollback`, `fallback`, `persist`, `cleanup` (the call fails),
`crash` (an instance stops and a new one starts), `create` (the item of the new
auction is not written, which the code only logs), `winners` (the goroutine cannot set
its entry: it replaces the whole map by it, or that fails too) and `lag`. With `lag`,
which is not counted, DynamoDB answers a read with the item or with `replica`, the oldest copy that is
still in use; `Replicate` lets it catch up. Without an item the
goroutine's UpdateItem makes one with no status (`BLANK`). A failed list or open of the
closer is not an action of its own: the worker is as if the tick had not come. A
bid is one step here; its four steps are the subject of `BidPlacement`. A
graceful shutdown is not awaited by the closer and is covered by `crash`.

### PaymentProcessing

A message waits in `dispatched` for a worker slot, is handled, and is claimed
again when a minute has passed. `InitiatePayment` queries the index;
`CreatePayment` and the five steps of `ProcessPayment` (`LoadPayment`,
`MarkProcessing`, `SetGatewayDecision`, `ApplyDecision`, `PublishOutcome`) follow,
winner by winner, in the map's arbitrary order. The recovery job
scans one page of the table (`Pages`: some payments, among them those of `FirstPage`),
and (`ScanStuck`, `RetryStuck`, `AbandonStuck`) works on a list with the retry counts
it saw, and administrators start `ProcessPayment` or `RefundPayment` at any
time. A write that returns an error may have been carried out. `maxRetries` is the
constant of the code. `Delays` says whether a worker may outlast the timeouts
(one minute, five minutes) and whether the index may lag that long.

### AuctionCache

| Code | Action |
|---|---|
| `GetByID` misses, SETNX, waits 100 ms, checks again | `Miss`, `Lock`, `Wait`, `CheckAgain` |
| `getFromDynamo`, the pipeline that writes hash and active set, the deferred DEL | `Load`, `Rebuild`, `Unlock` |
| the lock's two seconds, the hash's day, a restart of Redis without its data | `LockExpires`, `HashExpires`, `RedisRestarts` |
| everything of `AuctionClosing` | `ClosingStep` |

The readers stand for all calls that begin with `GetByID`. `Load` gets the item or its
old copy, and fails when there is none. `item.winners` is
written by bids, the rest of the item by the close alone, so a rebuild brings
back the price of creation. By the time a closed hash expires, a day after the
cleanup, DynamoDB has caught up. `hash`, `hidden` and `made` are history: whether the
hash was rebuilt and bid on, whether a winner was read while the map or its old
copy was not what was bid, and which bids were ever accepted.

### BidStrategies

`PlaceByScript` is the default strategy; `Watch`, `Retry`, `Exec`, `ExecFails` are
the optimistic one, where any write of the hash since WATCH sets `conflict`;
`GetOrCreateChannel`, `SendRequest`, `SendPanics`, `GiveUp` are the caller's side of the
queue, `Receive` and `ProcessWrite` the goroutine's, which writes what it computed
from an earlier read. `SetStrategy` switches one instance, `Close`,
`RollbackClose`, `Announce`, `Stop` are the end of the auction. `Serialized` names
the use the package comments ask for: no queue, or the queue alone on one
instance.

### BidHistory

| Code | Action |
|---|---|
| XREADGROUP, XAUTOCLAIM, XACK | `ReadMessage`, `Reclaim`, `Acknowledge` |
| ZRANGE at the start of `MarkUserPreviousBids`, `MarkOutbid`, `MarkWon` | `ListBids` |
| GET and SET of one bid of the walk | `GetBid`, `SetBid` |
| `Create` | `Create` |
| the service stops | `Crash` |

An error of ZRANGE or `Create` leaves the message for redelivery; one of GET or SET
inside a walk is ignored by the code, and `unsettled` remembers the bid. A worker
that needs over a minute has its message claimed by another.

### NotificationHub

`Publish` appends one of the `Stories`; `Register` and `Unregister` are WebSocket and
SSE clients that come and go. A worker copies the clients (`CopyTargets`), sends
(`Send`), then `ReadDedup` and `StoreEntry` are `Store.Add`, which is followed by a
second round for the user's own clients. `ListEntries`, `MarkEntries`,
`ResetCount` are `MarkAllRead`. The entry, its key and time replace the JSON text.
Each pipeline of `Add` renews the expiry of inbox, dedup hash and counter (`Renewed`); when a week has passed
since the last one, the keys in `expiring` are gone (`StoreExpires`, up to
`MaxWeeks` times) and so is the counter, at once or later (`CounterExpires`), because
`MarkAllRead` renews the counter alone. Its pipeline may also leave an inbox that has no expiry (§3.2).
`owed`, `dropped`, `missed`, `raced`, `expired` are history: they name the events still to be
sent, the three windows in which the code gives no guarantee, and the events that
are past their week.

### UserAccounts and ShopReviews

`Register` is a lookup (`LookupFindsNone`, `LookupFindsAccount`) and a write
(`SaveUser`, or `UpdateRole` and `RenameUpgraded`); `Login` issues a token from the
index; `UpdateProfile` trusts it. In `ShopReviews` the seller's handlers see the role
of the token (`IsSeller`) and a copy of the shop that may be old (`ReadShop`);
`UpdateShop` is a read and a write of the whole item; `CreateReview` is
`ReviewStarts`, `CheckPayment`, `LookupReview`, `SaveReview`. The payment service is taken as
configured; it answers with one payment of the auction or none. `misled` and
`early` are history: a lookup came too early or failed.

## 3. The runs

| Run | Question | Bounds, and why they suffice |
|---|---|---|
| `bid_single` | Can three concurrent calls on a single-winner auction with increment, ceiling and rolled-back closes misplace the leader or lower the price? | 3 calls, 4 amounts (equal, below the increment, above the ceiling), the seller bids too; script replies, events and map writes get lost |
| `bid_multi` | Do two slots keep the best two, and is every eviction published? | 3 bidders for 2 slots, 4 calls: raise, eviction and re-entry in one behaviour; at most 2 run at a time |
| `closing_race` | Is there at most one event, with the best bidders, nothing released before it, whatever races or fails? | 2 closers and a seller for 2 winners, 3 bids, any 2 faults of nine kinds: enough for close, failed publication, rollback, new bid and second close |
| `closing_live` | Does every scheduled auction end and get released? | 1 closer, 2 calls of the seller, 2 faults (a failed or lost publication, an item that was never written), old copies of the item |
| `cache` | Does a rebuild of the hash reopen a closed auction, change the winner or leave an auction that never ends? | 1 closer, 2 bids of 2 bidders with 2 amounts (the lead changes, or one bidder raises), 2 readers that rebuild at once, 1 loss (restart or expiry), 1 failed call of five kinds, old copies of the item. `MCBound` cuts the product: with at most one bid, of the lowest amount, and a copy that is current, two readers at once and a bid on the rebuilt auction; with any other bids, or an old copy, one reader at a time and no bid on a rebuilt auction; a call that failed is not combined with an old copy. The theorems have none of these bounds |
| `strategies` | Do transactions, queues and the script count each serialized bid once, and does every call return? | 3 bids of 2 bidders, two of the same amount, 2 instances, room for 1 bid in a channel, 2 retries, 1 switch of strategy, 1 failed call; the close is rolled back or announced |
| `payment_recovery` | Do redelivery and recovery bill each winner once, before the message is acknowledged, keep the decision and report what is stored? | 2 winners, 4 failed calls or restarts (first try, redelivery, retry and abandonment can each fail); a scan covers any of the payments |
| `payment_live` | Is every winner settled when workers and index lag, a call fails and an administrator interferes? | 1 message, 1 slot, 1 fault, 1 admin call, 1 payment (a second one is cut off: the double billing of §3.2), which every scan covers (`FirstPage`) |
| `history` | Is every bid recorded, does one stand, and is the winner's marked, however the workers interleave? | 3 bids of 2 bidders (the first bidder bids again) handled by 2 workers beside the one that handles the close, 1 or 2 winners, 1 failed call or restart. Bids arrive in the order of the script |
| `notifications` | Is everybody told who stays connected, and does the inbox lose or double nothing before it expires, also while it is being marked? | 2 auctions, 1 tab that watches the first, 1 client of the user, 2 + 1 workers, an inbox of 2, stories of 2 and 3 events (outbid twice; outbid and two wins, which overflow it), 1 `MarkAllRead`, 1 week that passes, 1 fault; both in one behaviour only within the first two events (`MCBound`) |
| `marketplace` | Do accounts, roles, shops and reviews agree, through indexes and copies that lag? | 2 registrations of one person, who may end up with 2 accounts; 1 device, 2 reviews, 1 update of the shop, 1 failed call |

`history` has `MaxOvertaken = 0`. One overtaken bid together with one fault are too
many states for a routine run; the theorems of §4 cover any number of both.

### 3.1 The properties, by what could really go wrong

- Bid placement: `SlotsHoldTheBest`, `FloorIsPriceToBeat`, `PriceNeverFalls`,
  `EveryEvictionIsTold`, `RefinesLedger`; `PlacementInv` is the invariant that
  implies the first two.
- Closing: `OneAnnouncement`, `EventsNameTheBest`, `NothingReleasedEarly`,
  `EveryAuctionEnds`, `EndsReleased`, `RefinesLedger`. `ClosingInv` is why: who will
  still publish or roll back holds a closed and unannounced auction, nobody else
  does (`SaleInv`, within it), and the holder's winners are the best bids.
- Cache: `ClosedForGood`, `LeadSurvivesRestart`, `SeenAuctionEnds`, and within
  `CacheInv` that a winner pays a price that this bidder bid (with several winners:
  in the first event). The first two name the windows in which the code gives no
  guarantee: a restart, a failed call, a bid on the rebuilt hash, a winners map
  that was not what was bid when a winner was read. The third leaves out an auction
  whose item was never written.
- Strategies: `OneWriter`, `WinnerStands`, `EveryBidIsAnswered`; within `StrategyInv`
  that hash and set agree and that a version counts each bid once.
- Payments: `OnePaymentPerWinner`, `DecisionStands`, `RetriesAreCapped`, `AckedIsBilled`,
  `EveryWinnerSettles`, `RefinesLedger`; within `SettlementInv` that an event
  reports the stored status, that a payment is completed only by an approval on
  record, and that it fails only when it was declined or the recovery job has
  spent its retries on it.
- Bid history: `OneBidStands`, `LastBidStands`, `StandingWinnerWins`,
  `EveryBidIsRecorded`; within `HistoryInv` that what is acknowledged is recorded
  and that only winners have a bid that is WON.
- Notifications: `WatchersAreTold`, `NothingIsLost` (what was stored stays for a week
  after the last notification, or until the inbox is full), `CountCoversUnread`; within
  `InboxInv` one entry per key and the size of the inbox.
- Shop and user: `OneAccount`, `OneReviewPerBuyer`, as long as no lookup came too
  early; within `MarketInv`, without any such condition, that roles hold, that shops
  stay with one seller and that reviewers have paid.

`RefinesLedger` says that races, retries and crashes do not show: what is
observable is a behaviour of the abstract ledger.

### 3.2 Where the code departs from what is written

`cache_restart` is a run with a counterexample. README.md:213 says that every bid
writes the winners map, "so winner data survives a full Redis restart". It is
written, but the hash is rebuilt with the price of creation (repository.go:317): a
bid below the one in the map is accepted, and it wins. The run has one reader,
one restart, two amounts and no faults.

More disagreements, each found with TLC on these modules or while reading, and not
kept as runs:

- Bids. docs/USER_JOURNEY.md:50, a buyer is told "when another buyer places a higher
  bid": two bids read the same leader first, the one in between loses the lead
  and no event names it. Two goroutines of one bidder write the winners map in
  the other order (README.md:213) and it keeps the lower bid. pessimistic.go:65, the
  increment applies "only when there is already a bid above start_bid": it is
  applied to the first bid when the start bid is positive. A bid into a free slot
  names a bidder as outbid who still holds a slot (service.go:356).
- Closing. README.md:206, no dead state where an auction is closed and its event
  never sent: an instance stops in between, or a rollback fails (service.go:466),
  and ticks list only open auctions. README.md:181, "exactly-once delivery": XADD
  appends, its reply is lost, the close is rolled back and the event sent again.
  `Open` reopens a closed auction when its closer works on an old list
  (repository.go:402). The final copy of an auction drops its winners map
  (repository.go:562). README.md:211 says that the cleanup deletes the hash; it
  expires after a day.
- Cache. When the final copy failed and the hash has expired, the auction is rebuilt
  as OPEN, takes bids and is announced again (repository.go:588). A reader that
  loaded the item before the close writes OPEN over CLOSED (repository.go:309). A
  restart while the event is being sent reopens an auction that is announced.
  An auction whose item was not written at its creation (repository.go:236, only
  logged) is gone after a restart: no rebuild finds it, and it is never announced,
  or a goroutine has made an item that has winners and no status (repository.go:721).
  Reads of the item are eventually consistent, so an old copy counts as the item.
  When an auction with several winners is reopened like that and nobody bids, the
  second event names the last bidder of the final copy with its floor, which
  another bidder may have bid (repository.go:677).
- Strategies. The queue accepts a bid after the close, or over a higher one of
  another instance; with mixed strategies one write hides another. A caller that
  gave up after its timeout may have a bid that is accepted and of which no event
  is sent. `Stop` while a bid is sent panics, and leaves a goroutine behind.
- Payments. payment/internal/events/consumer.go:28, instances process events "without
  duplication": a worker at an event for more than a minute has it claimed by
  another, and both bill the winner. An administrator and the consumer each draw a
  gateway decision (payment/repository.go:204) and can move a settled payment back
  to processing (payment/service.go:136). Failed payments can be refunded
  (payment/service.go:200). payment/model.go:32, "retries of stuck PROCESSING
  records use the same outcome", and recovery.go:29, likewise: when the approval is stored, and applying it fails, and
  so does the one retry, `AbandonPayment` (service.go:224) sets FAILED and publishes
  `payment_failed` without a look at the decision, which still is "success". A scan
  reads one page (payment/repository.go:145): a payment behind it is not recovered
  although the comment there says "returns all payments".
- Bid history. Two bids that are recorded at the same time may mark one another, so
  that none stands. A redelivered event sets an OUTBID or WON bid back to
  ACCEPTED. With several winners only one bid becomes WON, and none if the close
  is handled first. All consumer groups start at "$" (bid consumer.go:72, hub.go:319,
  payment consumer.go:71): what was published before the group existed is not
  delivered.
- Notifications. Two `Add` calls with one key keep two entries; `MarkAllRead` revives an
  entry that was replaced meanwhile, or sets the counter below the unread entries;
  an older event that comes late replaces a newer one; an event is acknowledged
  although it was not stored. `MarkAllRead` on an inbox with a single entry, still
  unread, removes it and with it the key, and makes the key anew without an expiry
  (store.go:137-140): the inbox outlives its week and the dedup hash, and a
  later notification of the same key becomes a second entry.
- Shop and user. service.go:196 of shop, "one review per auction per buyer", and
  repository.go:154, "via condition expression": the put has no condition, and the
  lookup reads an index that lags. service.go:59 of user and README.md:89, one email
  is one account: the same, and a lookup that failed counts as "free".
  `hasCompletedPayment` gets one payment of the auction, so that with several
  winners most cannot review. Two updates of a shop lose one of them, and an
  update without a logo clears it although the comment at service.go:113 says "if
  present in request". The role and the name of an upgrade are written
  separately. A token states an old role for up to a day.

### 3.3 Fairness

All of it is weak fairness. The number of faults is bounded, so liveness says what
happens once things stop failing.

- `AuctionClosing`: time passes (`Tick`), the closers take their steps (a ticker
  calls them every second and the calls return), a request that runs goes on. No
  bid and no seller has to come.
- `AuctionCache`: the same, DynamoDB catches up (`Replicate`), and the readers: the
  auction is one that people look at. Without it nothing would rebuild a hash that is gone, and the closer, which
  lists active auctions in Redis, would never see it again.
- `PaymentProcessing`: the loops of the consumer and of the recovery job run,
  timeouts pass, the index catches up. Nobody has to call an admin route.
- `BidHistory`: the consumer does something while it can (`Consumer`). Reads, claims
  and handlings are one class; as each handling ends, no finer fairness is needed.
- `BidStrategies`: calls go on (`Progress`) and goroutines run (`Processor`). Nobody has
  to bid, close or switch.
- `BidPlacement`, `NotificationHub` and `ShopReviews` have no liveness property: a
  client may go away, and the hub acknowledges what it could not deliver.

## 4. The proofs

Everything below holds for all values of the constants that satisfy the named
assumptions of the module: any number of bidders, calls, instances, workers,
clients and faults. Those assumptions are what the code's configuration
guarantees (a finite set of bidders, positive amounts, at least one slot, bounds
that are natural numbers, slots that do not overlap); the theorems that need more
say so in the last column. TLC evaluates the assumptions in every run.

| Module | Theorems | Inductive invariant | Besides the named assumptions |
|---|---|---|---|
| `BidPlacement_proofs` | `PlacementIsSound`, `TypeCorrect`, `SlotsHoldBest`, `FloorIsRight`, `PriceIsMonotone`, `PlacementRefinesLedger`, `EvictionsAreTold` | `PlacementInv`; `TellingInv` | none |
| `AuctionClosing_proofs` | `ClosingTypes` | `TypeOK` | none |
| | `SaleIsSound`, `AnnouncedAtMostOnce`, `AnnouncementIsFinal`, `ClosingIsSound`, `EventsAreRight`, `NothingGoesEarly`, `ClosingRefinesLedger` | `SaleInv`; `ClosingInv` | one opener, no lost reply of XADD |
| | `CacheIsSound` | `CacheInv` (`CacheTypeOK`, `PricesWereBid`) | none |
| | `ClosedStaysClosed` | `StaysClosed` | one opener |
| | `LeadOutlivesRedis` | `LeadLasts` | one winner, one opener, no lost reply of XADD, no failed fallback |
| `PaymentProcessing_proofs` | `HandlingIsSound`, `PaymentTypes`, `RetriesStayCapped`, `AcksAreEarned` | `HandlingInv` | none |
| | `NobodyIsBilledTwice` | `BillingInv` | in time: nothing is delayed, one message |
| | `SettlementIsSound`, `DecisionsStand` | `SettlementInv` | undisturbed: no delayed worker, no admin call |
| | `PaymentsRefineLedger` | both | both |
| `BidStrategies_proofs` | `StrategyTypes`, `InstancesHaveOneWriter`, `WinnerOutlastsClose`, `StrategiesAreSound` | `CallsInv`, `OutcomeStands`, `SerialInv` | none |
| `BidHistory_proofs` | `HistoryIsSound`, `NoBidIsLost`, `OnlyWinnersWon`, `TwoBidsNeverStand`, `LastBidHasTheLead`, `WinnersBidIsMarked` | `HistoryInv`, `StreamAgrees`, `TwoNeverStand`, `LastStands`, `WinnerIsDue` | none |
| `NotificationHub_proofs` | `WatchersHear`, `InboxIsSound`, `NotificationsStay`, `CounterCovers` | `HubInv` | none |
| `ShopReviews_proofs` | `MarketIsSound`, `RolesAreKept`, `OwnersStaySellers`, `OnlyPayersReview`, `AddressHasOneAccount`, `BuyersReviewOnce` | `MarketInv`, `AddressFree`, `BuyersFree` | none |

`AuctionScripts_proofs` has the lemmas about the sorted set and the scripts that
the proofs of placement, closing and strategies rest on: the lowest entry exists and is unique, an eviction leaves
exactly `Quantity` members, the new floor is the amount to beat, a winning bid
keeps the slots sound (`AcceptedKeepsBidding`), so does a close
(`ClosingKeepsBidding`), and the winners read are the best bids (`WinnersAreBest`).

**Bid placement.** `SlotsHoldTheBest` and `FloorIsPriceToBeat` are not inductive
alone: the script relies on slots that are never overfull, on members that beat
the start bid, on a hash that names a bidder exactly when there is a bid, and on
winners being read exactly while the hash is closed. `EvictionsAreTold` needs
that accepted bids have different numbers, and that for a bidder who has lost the
slot some accepted call threw this bidder out (`TellingInv`); a pigeonhole
argument on the numbers then shows that once all calls have published, that
eviction is among the events. For the refinement, `AcceptBid`,
`CloseAndReadWinners`, `AnnounceClosed` and `RollbackClose` map to the ledger's
actions and every other step to a stutter.

**Closing.** The close script hands the auction to one worker: a second close
needs an open hash, which only the holder's rollback produces, after which the
holder is none (`SaleInv`). "One opener" is `OneOpener`: the auction was created open,
or there is a single instance, whose closer finds the auction it is about to open
still pending. For the right winners `ClosingInv` adds that until the
event the slots stay sound and Redis is not released, that the holder carries
what the script would still read, and that the fallback finds no bid it could
prefer; after the event, that it names the best bids. Both assumptions of
these theorems are needed: with two closers `Open` may reopen a scheduled auction that is closed, and
with a lost reply of XADD the event is sent twice (§3.2).

**Cache.** The theorems are about `CacheSpec`, every action of `AuctionClosing`
beside any number of readers, restarts and expiries. `PricesWereBid` follows a
price through all places it is copied to: set, map, hash, item, the copies of
workers and readers, and what a worker is about to announce. It needs no
assumption, as an old copy of the item is one that the item once was; for several winners the first event is where it ends, because a hash then
has the floor beside the last bidder (§3.2). `StaysClosed`: until the event nothing
expires and nobody rebuilds; the hash gets its expiry only when the item says
CLOSED, so what is rebuilt later is closed. It says nothing after a restart or a
failed call, and §3.2 shows why. `LeadLasts`: as long as one can bid on the first hash,
nothing is announced or copied (`NotYetSold`) and Redis has all bids; afterwards
nobody bids, and wherever an award can be read from, the old copy of the item among them, it
names the best bid or nobody (`LeadKnown`). With several winners a hash names the last bidder, not the
best; a second opener or an event that was sent although XADD reported an error
lets an auction that is announced take bids; a fallback that fails announces
nobody although the map knows the winner (service.go:421). So each assumption is
needed.

**Payments.** Without any assumption a message is acknowledged only when every
winner has a payment, and retries stay capped (`HandlingInv`: a consumer has not
forgotten a winner outside its `todo`, a list of the recovery job has current
retry counts). That nobody is billed twice needs the index to be up to date
whenever a message is handled again, and that no second consumer has it: this is
what `BillingInv` says, and both fail with delays (§3.2). That a decision stands,
and that status and events agree, needs that two workers are never at one payment
(`SettlementInv`); a worker that outlasts the recovery threshold or an
administrator breaks it (§3.2). The status follows the decision both ways but for
one case, which `StatusFollowsDecision` states: a payment whose retries are spent
fails whatever was decided (§3.2). For that the invariant follows the retry
counts that the recovery job works on. Under both, every step is one of the ledger.

**Strategies.** `CallsInv` holds for every mix of strategies: a request is in one
place (`QueuedOnce`), and each stage of a caller or goroutine agrees with its
channel (`CallsAgree`, `ChannelsAgree`). Hence an instance has one writer, and
without the queue nobody writes after the close. For `StrategyInv` the serialized
writes matter: what a goroutine computed from its earlier read is still what the
script would compute (`WritesAgree`), since nobody else writes.

**Bid history.** `HistoryInv` needs `WorkersAgree`, which says what a worker at some
stage relies on (the bid of its message is stored before it goes on to the
others, the record it will write back as WON is one of the winner's). The three
invariants about standing bids are about the order in which workers walk over
one another's bids, so they rest on `StreamAgrees`: the stream brings each bid
once and is read in order, and a walk comes to recorded bids only, never to its
own. `TwoNeverStand` then says that of two bids that stand, one is still to be
recorded or its worker has yet to come to the other; `LastStands` that while one
event is handled at a time it is the last bid that is worked on, and its worker
has yet to come to every older bid that stands; `WinnerIsDue` that a winner's bid
is WON or a worker has it ahead.

**Notifications.** `HubInv`. A worker still owes an event to its targets
(`TargetsAreOwed`). Each time of creation is given once (`TimesDiffer`), which is why
trimming and marking never merge two entries: trimming leaves at most
`MaxNotifications` entries, and no fewer if it drops any. The dedup hash has the
last entry of each key unless two calls raced or the hash expired before the inbox (`DedupIsLast`), who marks has seen
all unread entries but those that came meanwhile (`ReadersHaveSeen`), and who is
past storing finds its entry in the inbox (`StoredIsKept`), or the inbox expired
after the event was read. An entry that outlives the counter is a read one
(`UnreadExpire`), since only `MarkAllRead` makes an inbox without an expiry.

**Shop and users.** Accounts are never deleted and sellers never become buyers again
(`Grown`, which every step of `UserAccounts` satisfies), so whatever an index, a
token, a copy or a call knows stays true of the table (`AccountsAgree`,
`CallsAgree`), however old it is. That an address has one account, and a buyer one
review, needs that while no lookup came too early at most one call is about to
write and nothing is written yet (`AddressFree`, `BuyersFree`).

Only model-checked: liveness (outside the prover: it needs ENABLED), and what
the recursive and folded definitions compute for every input.

## 5. Abstractions and what is left out

- One auction (two in `NotificationHub`), one item, one stream per model; auctions
  share no state but the closer's list.
- Malformed messages and malformed stored values are not modelled, nor the retries
  inside the AWS and Redis clients (a call has failed after them).
- Reads of the auction's item are eventually consistent: the item or one older copy
  of it, in `AuctionClosing` and `AuctionCache` the one that lags behind most. Which copy
  a read gets is free, but between the two there is no third. Concurrent first
  writes to an item that has no winners map replace one another's map
  (repository.go:721); they count as the fault `winners`. In `PaymentProcessing` the
  index lags; a read of a payment that was just created and does not show yet counts as
  a failed call, and a retry comes a minute later at the earliest, when the copies
  of the table have long caught up.
- The payment service has a single recovery job. Every instance starts one
  (payment/cmd/main.go:43), but infra/ecs.tf:249 fixes that service at one task, and
  only the auction service is scaled. The cap of retries and the single decision
  rest on this: two jobs could both retry a payment whose count both have seen.
- A payment that no scan covers in its first page is never recovered. The
  theorems and `payment_recovery` let every scan read any page; `payment_live` assumes that
  the page covers the one payment (`FirstPage`), as long as the table is
  small.
- Expiry in the notification store is "a week without a notification", not a clock: the keys
  whose expiry was last renewed by the same pipeline go together.
- The run of `AuctionCache` has an auction that is open from the start and one
  winner; the theorems on types and prices have neither bound. `OpenAuction` on a hash that is gone makes
  one with nothing but a status (repository.go:402): the model gives it the price 0,
  as the scripts do, but keeps increment, ceiling and quantity, which the code takes
  as absent. For one winner that only refuses bids which the code may accept; for
  several the code would award one, so there the theorems do not speak about that
  window. The readers stand for every call that begins with `GetByID`. Streams
  are taken to survive a restart of Redis in the models of their consumers.
- The pipelines of the notification store and of the queue strategy are sent in one
  round trip and count as one step; they are no MULTI, and Redis could serve
  another client between two of their commands.
- The inbox of one user is modelled. An error of HGET counts as "no entry", as in
  the code. A client whose connection is broken and not yet removed counts as gone.
- The strategy in use is a plain field that requests read while an administrator
  writes it; a read sees the old or the new value.
- What shops, items and reviews say is left out, and so are the payments of other
  auctions. The payment service is taken as configured; without its address the
  code lets everybody review.

### Not modelled

- Watchlists: a string set in DynamoDB that single calls add to and remove from.
- Uploads to S3, listings, geo search, metrics, routing, token signatures: they
  change no state of the models or only read.
- The web frontend: React state in a browser tab, on which no service depends.
- Infrastructure, table creation, load and smoke tests: no program state.

## 6. Plan

All services are modelled. What would add most from here, in order:

1. `AuctionClosing` with two closers of a scheduled auction: which part of
   `SaleInv` is left.
2. `AuctionCache`: a run with several winners (evicted bidders in the winners map),
   and the rules of a hash that `OpenAuction` made after a restart.
3. Watchlists and the state of the frontend: answers that overtake each other.
