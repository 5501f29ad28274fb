--------------------------- MODULE BidStrategies ---------------------------
(***************************************************************************)
(* The three strategies by which instances of the auction service bring a  *)
(* bid to the hash and the sorted set of an auction, and the close of that *)
(* auction.  "pessimistic" runs the placement script; "optimistic" reads   *)
(* under WATCH and writes in a transaction, three times at most; "queue"   *)
(* hands the bid over a channel to one goroutine of the instance, which    *)
(* reads and then writes without a condition.  The instances start with    *)
(* the same strategy, CONCURRENCY_STRATEGY, and an administrator may       *)
(* switch each at any time.                                                *)
(*                                                                         *)
(* GetByID, the event and the winners map, which surround the strategy in  *)
(* Service.PlaceBid, are in module BidPlacement.                           *)
(***************************************************************************)
EXTENDS AuctionScripts, Sequences

CONSTANTS
  Requests,     \* the calls of TryPlaceBid
  Offer,        \* the bidder and the amount of each
  Instances,    \* instances of the auction service
  Capacity,     \* requests that a channel buffers
  MaxRetries,   \* attempts of the optimistic strategy
  MaxSwitches,  \* bound: changes of a strategy
  MaxFaults     \* bound: how often a call to Redis fails, or a user gives up

ASSUME OffersAssumption ==
  Offer \in [Requests -> [bidder : Bidders, amount : Nat \ {0}]]
ASSUME StrategyBounds ==
  /\ Capacity \in Nat \ {0} /\ MaxRetries \in Nat \ {0}
  /\ MaxSwitches \in Nat /\ MaxFaults \in Nat

VARIABLES
  auction,   \* the Redis hash auction:{id}
  bids,      \* the Redis sorted set auction:{id}:bids
  strategy,  \* the strategy of each instance
  switches,  \* changes of a strategy
  channel,   \* the channel in the map of each instance, 0 for none
  chans,     \* all channels so far, each with its goroutine
  call,      \* the state of each call
  closing,   \* "open", "closed" (winner read), "announced" or "stopped"
  outcome,   \* what the last close script returned
  faults,    \* how often something went wrong
  used,      \* history: the strategies used so far and where
  counted    \* history: the calls whose bid was written

redis == <<auction, bids, counted>>
vars == <<redis, strategy, switches, channel, chans, call, closing, outcome, faults, used>>

Strategies == {"pessimistic", "optimistic", "queue"}
Stages     == {"new", "retry", "exec", "sending", "waiting", "done"}
Results    == {"none", "accepted", "not_found", "not_open", "exceeds_max", "too_low",
               "small_increment", "unsupported", "busy", "error", "gave_up", "panicked"}

(* conflict: the watched hash was written since WATCH.  chan is the one    *)
(* that the call found.                                                    *)
CallState == [stage : Stages, seen : AuctionHash, conflict : BOOLEAN, tries : 0..MaxRetries,
              chan : Nat, result : Results]

NoHash == [status |-> "MISSING", current |-> 0, bidder |-> NoBidder, version |-> 0]
New    == [stage |-> "new", seen |-> NoHash, conflict |-> FALSE, tries |-> 0,
           chan |-> 0, result |-> "none"]
Returned(result) == [New EXCEPT !.stage = "done", !.result = result]

(* writes is the request that the goroutine is about to write, if any.     *)
Channel == [at : Instances, open : BOOLEAN, buffer : Seq(Requests),
            writes : SUBSET Requests, seen : AuctionHash]

Init ==
  /\ auction = [status |-> "OPEN", current |-> StartBid, bidder |-> NoBidder, version |-> 0]
  /\ bids = NoBids
  /\ strategy \in {[i \in Instances |-> s] : s \in Strategies} /\ switches = 0
  /\ channel = [i \in Instances |-> 0] /\ chans = << >>
  /\ call = [r \in Requests |-> New]
  /\ closing = "open" /\ outcome = NoBids
  /\ faults = 0 /\ used = {} /\ counted = {}

Fault   == faults < MaxFaults /\ faults' = faults + 1
NoFault == UNCHANGED faults

Starts(r, i, s) ==
  /\ call[r].stage = "new"
  /\ strategy[i] = s
  /\ used' = used \cup {<<s, i>>}

(* A write of the hash spoils the transactions of those who watch it. *)
Touched(calls) ==
  [r \in Requests |-> [calls[r] EXCEPT !.conflict = @ \/ calls[r].stage = "exec"]]

(* Mutant: a bid is taken whatever the status. *)
PlainVerdictOfAnyStatus(a, amount) ==
  IF a.status = "MISSING"     THEN "not_found"
  ELSE IF Quantity > 1        THEN "unsupported"
  ELSE IF amount <= a.current THEN "too_low"
  ELSE "accepted"

(* The checks of both strategies; they know no ceiling and no increment.   *)
PlainVerdict(a, amount) ==
  IF a.status = "MISSING"     THEN "not_found"
  ELSE IF a.status # "OPEN"   THEN "not_open"
  ELSE IF Quantity > 1        THEN "unsupported"
  ELSE IF amount <= a.current THEN "too_low"
  ELSE "accepted"

(* HSET and ZADD, computed from the hash that was seen. *)
Written(r, seen) ==
  /\ auction' = [auction EXCEPT !.current = Offer[r].amount, !.bidder = Offer[r].bidder,
                                !.version = seen.version + 1]
  /\ bids' = WithBid(bids, Offer[r].bidder, Offer[r].amount)
  /\ counted' = counted \cup {r}

-----------------------------------------------------------------------------
(* Pessimistic: the script; its reply may be lost. *)
PlaceByScript(r, i) ==
  LET b       == Offer[r].bidder
      amount  == Offer[r].amount
      verdict == Verdict(auction, bids, b, amount) IN
  /\ Starts(r, i, "pessimistic")
  /\ IF verdict = "accepted"
       THEN /\ auction' = HashAfter(auction, bids, b, amount)
            /\ bids' = BidsAfter(bids, b, amount)
            /\ counted' = counted \cup {r}
            /\ \/ NoFault /\ call' = Touched([call EXCEPT ![r] = Returned("accepted")])
               \/ Fault /\ call' = Touched([call EXCEPT ![r] = Returned("error")])
       ELSE /\ call' = [call EXCEPT ![r] = Returned(verdict)]
            /\ UNCHANGED <<redis, faults>>
  /\ UNCHANGED <<strategy, switches, channel, chans, closing, outcome>>

-----------------------------------------------------------------------------
(* Optimistic *)

(* WATCH and HGETALL, of the first attempt and of the others. *)
WatchAndRead(r) ==
  LET verdict == PlainVerdict(auction, Offer[r].amount) IN
  /\ call' = [call EXCEPT ![r] =
       IF verdict = "accepted"
         THEN [@ EXCEPT !.stage = "exec", !.seen = auction, !.conflict = FALSE]
         ELSE Returned(verdict)]
  /\ UNCHANGED <<redis, strategy, switches, channel, chans, closing, outcome, faults>>

Watch(r, i) == Starts(r, i, "optimistic") /\ WatchAndRead(r)
Retry(r)    == call[r].stage = "retry" /\ WatchAndRead(r) /\ UNCHANGED used

(* Mutant: another attempt is made after any error. *)
ExecRetriesAll(r) ==
  /\ call[r].stage = "exec" /\ ~call[r].conflict
  /\ Written(r, call[r].seen)
  /\ \/ NoFault /\ call' = Touched([call EXCEPT ![r] = Returned("accepted")])
     \/ Fault /\ call' = Touched([call EXCEPT ![r].stage = "retry"])
  /\ UNCHANGED <<strategy, switches, channel, chans, closing, outcome, used>>

(* EXEC of a transaction that nobody spoiled. *)
Exec(r) ==
  /\ call[r].stage = "exec" /\ ~call[r].conflict
  /\ \/ /\ Written(r, call[r].seen)
        /\ \/ NoFault /\ call' = Touched([call EXCEPT ![r] = Returned("accepted")])
           \/ Fault /\ call' = Touched([call EXCEPT ![r] = Returned("error")])
     \/ Fault /\ call' = [call EXCEPT ![r] = Returned("error")] /\ UNCHANGED redis
  /\ UNCHANGED <<strategy, switches, channel, chans, closing, outcome, used>>

ExecFails(r) ==
  LET attempts == call[r].tries + 1 IN
  /\ call[r].stage = "exec" /\ call[r].conflict
  /\ call' = [call EXCEPT ![r] =
       IF attempts = MaxRetries
         THEN Returned("busy")
         ELSE [@ EXCEPT !.stage = "retry", !.tries = attempts, !.seen = NoHash,
                        !.conflict = FALSE]]
  /\ UNCHANGED <<redis, strategy, switches, channel, chans, closing, outcome, faults, used>>

-----------------------------------------------------------------------------
(* Queue *)

(* Load or LoadOrStore; whoever stores a channel starts its goroutine. *)
GetOrCreateChannel(r, i) ==
  /\ Starts(r, i, "queue")
  /\ IF channel[i] # 0
       THEN /\ call' = [call EXCEPT ![r] = [New EXCEPT !.stage = "sending", !.chan = channel[i]]]
            /\ UNCHANGED <<channel, chans>>
       ELSE /\ chans' = Append(chans, [at |-> i, open |-> TRUE, buffer |-> << >>,
                                       writes |-> {}, seen |-> NoHash])
            /\ channel' = [channel EXCEPT ![i] = Len(chans')]
            /\ call' = [call EXCEPT ![r] =
                 [New EXCEPT !.stage = "sending", !.chan = Len(chans')]]
  /\ UNCHANGED <<redis, strategy, switches, closing, outcome, faults>>

(* A full channel makes the call wait. *)
SendRequest(r) ==
  LET k == call[r].chan IN
  /\ call[r].stage = "sending" /\ chans[k].open
  /\ Len(chans[k].buffer) < Capacity
  /\ chans' = [chans EXCEPT ![k].buffer = Append(@, r)]
  /\ call' = [call EXCEPT ![r].stage = "waiting"]
  /\ UNCHANGED <<redis, strategy, switches, channel, closing, outcome, faults, used>>

(* Sending on a closed channel panics, which ends the call. *)
SendPanics(r) ==
  /\ call[r].stage = "sending" /\ ~chans[call[r].chan].open
  /\ call' = [call EXCEPT ![r] = Returned("panicked")]
  /\ UNCHANGED <<redis, strategy, switches, channel, chans, closing, outcome, faults, used>>

(* The context of the call is done; a request that was sent stays sent.    *)
GiveUp(r) ==
  /\ call[r].stage \in {"sending", "waiting"}
  /\ Fault
  /\ call' = [call EXCEPT ![r] = Returned("gave_up")]
  /\ UNCHANGED <<redis, strategy, switches, channel, chans, closing, outcome, used>>

(* The answer goes to the call if it still waits. *)
Answer(r, result) ==
  [call EXCEPT ![r] = IF @.stage = "waiting" THEN Returned(result) ELSE @]

(* The goroutine takes a request, HGETALL and the checks. *)
Take(k) ==
  LET r       == Head(chans[k].buffer)
      verdict == PlainVerdict(auction, Offer[r].amount)
      taken   == [chans EXCEPT ![k].buffer = Tail(@)] IN
  /\ chans[k].writes = {} /\ chans[k].buffer # << >>
  /\ \/ /\ NoFault
        /\ IF verdict = "accepted"
             THEN /\ chans' = [taken EXCEPT ![k].writes = {r}, ![k].seen = auction]
                  /\ UNCHANGED call
             ELSE chans' = taken /\ call' = Answer(r, verdict)
     \/ Fault /\ chans' = taken /\ call' = Answer(r, "error")
  /\ UNCHANGED <<redis, strategy, switches, channel, closing, outcome, used>>

(* Mutant: the goroutine ends as soon as the channel is closed. *)
ReceiveWhileOpen(k) == chans[k].open /\ Take(k)

(* It goes on with what is buffered after the channel is closed. *)
Receive(k) == Take(k)

(* The pipeline writes whatever happened since. *)
ProcessWrite(k) ==
  \E r \in chans[k].writes :
    /\ chans' = [chans EXCEPT ![k].writes = {}, ![k].seen = NoHash]
    /\ \/ /\ Written(r, chans[k].seen)
          /\ \/ NoFault /\ call' = Touched(Answer(r, "accepted"))
             \/ Fault /\ call' = Touched(Answer(r, "error"))
       \/ Fault /\ call' = Answer(r, "error") /\ UNCHANGED redis
    /\ UNCHANGED <<strategy, switches, channel, closing, outcome, used>>

-----------------------------------------------------------------------------
(* PUT /admin/strategy, which reaches one instance. *)
SetStrategy(i, s) ==
  /\ switches < MaxSwitches /\ s # strategy[i]
  /\ switches' = switches + 1
  /\ strategy' = [strategy EXCEPT ![i] = s]
  /\ UNCHANGED <<redis, channel, chans, call, closing, outcome, faults, used>>

(* CloseAuction: the close script, then the event or the rollback, then    *)
(* the channel of the instance that closed.                                *)
Close ==
  /\ closing = "open"
  /\ closing' = "closed"
  /\ auction' = ClosedHash(auction)
  /\ outcome' = WinnersRead(auction, bids)
  /\ call' = Touched(call)
  /\ UNCHANGED <<bids, counted, strategy, switches, channel, chans, faults, used>>

RollbackClose ==
  /\ closing = "closed"
  /\ Fault
  /\ closing' = "open"
  /\ auction' = ReopenedHash(auction)
  /\ outcome' = NoBids
  /\ call' = Touched(call)
  /\ UNCHANGED <<bids, counted, strategy, switches, channel, chans, used>>

Announce ==
  /\ closing = "closed"
  /\ closing' = "announced"
  /\ UNCHANGED <<redis, strategy, switches, channel, chans, call, outcome, faults, used>>

Stopped(i) ==
  /\ IF channel[i] # 0
       THEN /\ chans' = [chans EXCEPT ![channel[i]].open = FALSE]
            /\ channel' = [channel EXCEPT ![i] = 0]
       ELSE UNCHANGED <<channel, chans>>
  /\ UNCHANGED <<redis, strategy, switches, call, outcome, faults, used>>

(* Mutant: the channel is closed before the event is published. *)
StopBeforeEvent(i) == closing = "closed" /\ UNCHANGED closing /\ Stopped(i)

Stop(i) == closing = "announced" /\ closing' = "stopped" /\ Stopped(i)

-----------------------------------------------------------------------------
Processor == \E k \in DOMAIN chans : Receive(k) \/ ProcessWrite(k)

Progress == \E r \in Requests :
  Retry(r) \/ Exec(r) \/ ExecFails(r) \/ SendRequest(r) \/ SendPanics(r)

Next ==
  \/ \E r \in Requests, i \in Instances :
       PlaceByScript(r, i) \/ Watch(r, i) \/ GetOrCreateChannel(r, i)
  \/ \E r \in Requests : GiveUp(r)
  \/ Progress
  \/ Processor
  \/ \E i \in Instances : Stop(i) \/ \E s \in Strategies : SetStrategy(i, s)
  \/ Close \/ RollbackClose \/ Announce

Spec == Init /\ [][Next]_vars

(* Calls and goroutines run on as long as they can.  Nobody has to bid,    *)
(* to switch a strategy or to close.                                       *)
Fairness == WF_vars(Progress) /\ WF_vars(Processor)

FairSpec == Spec /\ Fairness
-----------------------------------------------------------------------------
(* Every variable has the values that its key or its local can hold. *)
TypeOK ==
  /\ auction \in AuctionHash /\ bids \in BidSet
  /\ strategy \in [Instances -> Strategies] /\ switches \in 0..MaxSwitches
  /\ channel \in [Instances -> 0..Len(chans)]
  /\ chans \in Seq(Channel)
  /\ \A k \in DOMAIN chans : /\ Len(chans[k].buffer) <= Capacity
                             /\ channel[chans[k].at] = k => chans[k].open
  /\ call \in [Requests -> CallState]
  /\ closing \in {"open", "closed", "announced", "stopped"} /\ outcome \in BidSet
  /\ faults \in 0..MaxFaults
  /\ used \subseteq Strategies \X Instances /\ counted \subseteq Requests

QueueUnused == \A u \in used : u[1] # "queue"

(* What the comments of the package ask for: without the queue strategy,   *)
(* or with it alone and on a single instance.                              *)
Serialized == QueueUnused \/ Cardinality(used) <= 1

(* The page and the close see the same leader: when bids are serialized,   *)
(* the hash shows the price to beat and, for one winner, names the one who *)
(* leads the sorted set.                                                   *)
HashAgreesWithBids ==
  Serialized =>
    /\ FloorShown(auction, bids)
    /\ Entrants(bids) # {} =>
         /\ auction.bidder # NoBidder
         /\ Quantity = 1 => bids[auction.bidder] = auction.current

(* When bids are serialized, each counts at most once and the callers are  *)
(* told the truth: in spite of conflicts, retries and lost replies, the    *)
(* version is the number of bids that were written, those of the callers   *)
(* who were told so among them and none of a caller who was refused.       *)
EveryBidCountsOnce ==
  Serialized =>
    /\ auction.version = Cardinality(counted)
    /\ \A r \in Requests :
         /\ call[r].result = "accepted" => r \in counted
         /\ r \in counted /\ call[r].stage = "done" =>
              call[r].result \in {"accepted", "error", "gave_up"}

(* An instance writes one bid at a time, although channels are closed and  *)
(* created anew: a goroutine that a closed channel left behind and the one *)
(* of its successor are never both about to write.                         *)
OneWriter ==
  \A k, l \in DOMAIN chans :
    chans[k].at = chans[l].at /\ chans[k].writes # {} /\ chans[l].writes # {} => k = l

(* Without the queue strategy no bid gets in behind the close: what was    *)
(* announced is what the keys say ever after, also when a transaction was  *)
(* begun before.                                                           *)
WinnerStands ==
  QueueUnused /\ closing \in {"announced", "stopped"} => WinnersRead(auction, bids) = outcome

(* Serialized bids leave hash, sorted set and callers in agreement.        *)
StrategyInv == TypeOK /\ HashAgreesWithBids /\ EveryBidCountsOnce

(* The inductive invariants behind these.  What a call that has begun can  *)
(* rely on: a transaction that nobody spoiled writes on top of the hash    *)
(* that it read, and whoever was counted has been told nothing else.       *)
CallsAgree ==
  \A r \in Requests : LET c == call[r] IN
    /\ c.tries < MaxRetries
    /\ c.stage \in {"retry", "exec"} => \E i \in Instances : <<"optimistic", i>> \in used
    /\ c.stage = "exec" => /\ PlainVerdict(c.seen, Offer[r].amount) = "accepted"
                           /\ c.conflict \/ c.seen = auction
    /\ c.stage = "sending" => c.chan \in DOMAIN chans
    /\ c.result = "accepted" => r \in counted
    /\ r \in counted => c.stage = "done" /\ c.result \in {"accepted", "error", "gave_up"}

(* The map of an instance holds its open channel.  One channel at most is  *)
(* closed, once the auction is closed for good, so that nobody writes in a *)
(* channel that was created after it.                                      *)
ChannelsAgree ==
  /\ auction.status = IF closing = "open" THEN "OPEN" ELSE "CLOSED"
  /\ \A i \in Instances : channel[i] # 0 => chans[channel[i]].at = i
  /\ \A k \in DOMAIN chans :
       /\ <<"queue", chans[k].at>> \in used
       /\ IF chans[k].open THEN channel[chans[k].at] = k ELSE closing = "stopped"
  /\ \A k, l \in DOMAIN chans : ~chans[k].open =>
       /\ chans[l].open \/ k = l
       /\ chans[l].at = chans[k].at => k = l \/ chans[l].writes = {}

(* A request is in one place of one channel, and not written yet.          *)
Unwritten(r) ==
  /\ r \notin counted
  /\ call[r].stage = "waiting" \/ (call[r].stage = "done" /\ call[r].result = "gave_up")

QueuedOnce ==
  \A k, l \in DOMAIN chans :
    /\ \A m \in DOMAIN chans[k].buffer :
         /\ Unwritten(chans[k].buffer[m])
         /\ chans[k].buffer[m] \notin chans[l].writes
         /\ \A n \in DOMAIN chans[l].buffer :
              chans[k].buffer[m] = chans[l].buffer[n] => k = l /\ m = n
    /\ \A r \in chans[k].writes :
         /\ Unwritten(r) /\ PlainVerdict(chans[k].seen, Offer[r].amount) = "accepted"
         /\ \A s \in chans[l].writes : (r = s) <=> (k = l)

(* When bids are serialized, a goroutine writes on top of the bid that it  *)
(* read, and the slots are sound.                                          *)
WritesAgree ==
  Serialized =>
    /\ SlotsSound(auction, bids)
    /\ \A k \in DOMAIN chans : chans[k].writes # {} =>
         /\ chans[k].seen.current = auction.current
         /\ chans[k].seen.version = auction.version

(* The close has the last word as soon as the script has run.              *)
OutcomeStands == QueueUnused /\ closing # "open" => WinnersRead(auction, bids) = outcome

(* Every call returns: closing the channel lets nobody wait for an answer  *)
(* that does not come.                                                     *)
EveryBidIsAnswered == []<>(\A r \in Requests : call[r].stage \in {"new", "done"})
=============================================================================
