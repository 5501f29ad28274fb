------------------------ MODULE BidStrategies_proofs ------------------------
(***************************************************************************)
(* Proofs about the three bidding strategies, for any number of calls,     *)
(* instances, switches and faults.  What each step does to calls and       *)
(* channels is summed up first.  CallsAgree, ChannelsAgree and QueuedOnce  *)
(* are invariants of every mix of strategies; from them it follows that an *)
(* instance has one writer and that, without the queue, the winner stands. *)
(* When bids are serialized each write goes on top of the last one, so     *)
(* that hash, sorted set and callers agree.                                *)
(***************************************************************************)
EXTENDS BidStrategies, AuctionScripts_proofs

LEMMA HashIsTyped == NoHash \in AuctionHash
BY DEF NoHash, AuctionHash, Statuses

LEMMA NewIsTyped ==
  /\ New \in CallState /\ New.stage = "new" /\ New.tries = 0 /\ New.result = "none"
  /\ New.conflict = FALSE
BY HashIsTyped, StrategyBounds DEF New, CallState, Stages, Results

LEMMA ReturnedDoes ==
  ASSUME NEW result \in Results
  PROVE  /\ Returned(result) \in CallState /\ Returned(result).stage = "done"
         /\ Returned(result).result = result /\ Returned(result).tries = 0
BY NewIsTyped DEF Returned, CallState, Stages

LEMMA OfferIsTyped ==
  ASSUME NEW r \in Requests
  PROVE  Offer[r].bidder \in Bidders /\ Offer[r].amount \in Nat \ {0}
BY OffersAssumption

(* A call but for its flag of a conflict.                                  *)
SameBut(c, d) ==
  /\ d.stage = c.stage /\ d.seen = c.seen /\ d.tries = c.tries
  /\ d.chan = c.chan /\ d.result = c.result

LEMMA TouchedDoes ==
  ASSUME NEW calls \in [Requests -> CallState]
  PROVE  /\ Touched(calls) \in [Requests -> CallState]
         /\ \A r \in Requests : SameBut(calls[r], Touched(calls)[r])
         /\ \A r \in Requests : calls[r].stage = "exec" => Touched(calls)[r].conflict
<1> SUFFICES ASSUME NEW r \in Requests
             PROVE  /\ Touched(calls)[r] \in CallState
                    /\ SameBut(calls[r], Touched(calls)[r])
                    /\ calls[r].stage = "exec" => Touched(calls)[r].conflict
  BY DEF Touched
<1> DEFINE c == calls[r]
           flag == c.conflict \/ c.stage = "exec"
<1>1. Touched(calls)[r] = [c EXCEPT !.conflict = flag]
  BY DEF Touched
<1>2. c \in CallState /\ flag \in BOOLEAN /\ (c.stage = "exec" => flag)
  BY DEF CallState
<1> HIDE DEF c, flag
<1>3. [c EXCEPT !.conflict = flag] \in CallState
  BY <1>2 DEF CallState
<1>4. SameBut(c, [c EXCEPT !.conflict = flag]) /\ [c EXCEPT !.conflict = flag].conflict = flag
  BY <1>2 DEF CallState, SameBut
<1>5. c = calls[r]
  BY DEF c
<1> QED BY <1>1, <1>2, <1>3, <1>4, <1>5

(* A step that gives one call its next state; touched when it writes the   *)
(* hash.                                                                   *)
Gives(r, c, touched) ==
  call' = IF touched THEN Touched([call EXCEPT ![r] = c]) ELSE [call EXCEPT ![r] = c]

LEMMA GivesDoes ==
  ASSUME TypeOK, NEW r \in Requests, NEW c \in CallState, NEW touched \in BOOLEAN,
         Gives(r, c, touched)
  PROVE  /\ call' \in [Requests -> CallState]
         /\ SameBut(c, call'[r])
         /\ \A q \in Requests : q # r => SameBut(call[q], call'[q])
         /\ touched => \A q \in Requests : call'[q].stage = "exec" => call'[q].conflict
         /\ ~touched => call'[r] = c /\ \A q \in Requests : q # r => call'[q] = call[q]
<1> DEFINE given == [call EXCEPT ![r] = c]
<1>1. /\ given \in [Requests -> CallState] /\ given[r] = c
      /\ \A q \in Requests : q # r => given[q] = call[q]
  BY DEF TypeOK
<1>2. \A d : SameBut(d, d)
  BY DEF SameBut
<1>3. call' = IF touched THEN Touched(given) ELSE given
  BY DEF Gives
<1> HIDE DEF given
<1>4. CASE touched
  <2>1. call' = Touched(given)
    BY <1>3, <1>4
  <2>2. \A q \in Requests : SameBut(given[q], call'[q])
    BY <1>1, <2>1, TouchedDoes
  <2>3. \A q \in Requests : call'[q].stage = "exec" => call'[q].conflict
    BY <1>1, <2>1, <2>2, TouchedDoes DEF SameBut
  <2> QED BY <1>1, <1>4, <2>1, <2>2, <2>3, TouchedDoes
<1>5. CASE ~touched
  BY <1>1, <1>2, <1>3, <1>5
<1> QED BY <1>4, <1>5

-----------------------------------------------------------------------------
(* What the steps do.  Of the calls that decide over a bid, ...            *)

LEMMA ScriptIsTyped ==
  ASSUME NEW a \in AuctionHash, NEW z \in BidSet, NEW b \in Bidders, NEW amount \in Nat \ {0}
  PROVE  /\ BidsAfter(z, b, amount) \in BidSet
         /\ HashAfter(a, z, b, amount) \in AuctionHash
         /\ HashAfter(a, z, b, amount).status = a.status
         /\ HashAfter(a, z, b, amount).version = a.version + 1
         /\ HashAfter(a, z, b, amount).bidder = b
<1> DEFINE after == BidsAfter(z, b, amount)
           floor == NewFloor(a, z, b, amount)
<1>1. after \in BidSet
  BY DEF BidsAfter, WithBid, BidSet
<1>2. SlotsFull(after) => after[Lowest(after)] \in Nat
  <2>1. ASSUME SlotsFull(after)
        PROVE  Entrants(after) # {}
    BY <2>1, RulesAssumption, FS_EmptySet DEF SlotsFull
  <2> HIDE DEF after
  <2>2. Entrants(after) # {} => Lowest(after) \in Bidders
    BY <1>1, LowestProperties DEF Entrants
  <2> QED BY <1>1, <2>1, <2>2 DEF BidSet
<1>3. floor \in Nat
  BY <1>2, RulesAssumption DEF NewFloor, AuctionHash
<1>4. HashAfter(a, z, b, amount) =
        [a EXCEPT !.current = floor, !.bidder = b, !.version = a.version + 1]
  BY DEF HashAfter
<1> HIDE DEF after, floor
<1>5. a.version + 1 \in Nat
  BY DEF AuctionHash
<1> QED BY <1>1, <1>3, <1>4, <1>5 DEF AuctionHash, after

LEMMA Verdicts ==
  ASSUME NEW a, NEW z, NEW b, NEW amount
  PROVE  /\ Verdict(a, z, b, amount) \in Results
         /\ PlainVerdict(a, amount) \in Results
         /\ Verdict(a, z, b, amount) = "accepted" => a.status = "OPEN"
         /\ PlainVerdict(a, amount) = "accepted" =>
              a.status = "OPEN" /\ ~(Quantity > 1) /\ ~(amount <= a.current)
BY DEF Verdict, PlainVerdict, Results

LEMMA WrittenDoes ==
  ASSUME TypeOK, NEW r \in Requests, NEW seen \in AuctionHash, Written(r, seen)
  PROVE  /\ auction' \in AuctionHash /\ auction'.status = auction.status
         /\ auction'.current = Offer[r].amount /\ auction'.bidder = Offer[r].bidder
         /\ auction'.version = seen.version + 1
         /\ bids' \in BidSet /\ bids' = WithBid(bids, Offer[r].bidder, Offer[r].amount)
         /\ counted' = counted \cup {r}
<1>1. /\ auction \in AuctionHash /\ bids \in BidSet
      /\ Offer[r].bidder \in Bidders /\ Offer[r].amount \in Nat /\ seen.version + 1 \in Nat
  BY OfferIsTyped DEF TypeOK, AuctionHash
<1>2. PICK b, amount, version :
        b = Offer[r].bidder /\ amount = Offer[r].amount /\ version = seen.version + 1
  OBVIOUS
<1>3. auction' = [auction EXCEPT !.current = amount, !.bidder = b, !.version = version]
  BY <1>2 DEF Written
<1>4. auction' \in AuctionHash /\ auction'.status = auction.status
  BY <1>1, <1>2, <1>3 DEF AuctionHash
<1>5. auction'.current = amount /\ auction'.bidder = b /\ auction'.version = version
  BY <1>1, <1>3 DEF AuctionHash
<1>6. bids' = WithBid(bids, b, amount) /\ counted' = counted \cup {r}
  BY <1>2 DEF Written
<1>7. bids' \in BidSet
  BY <1>1, <1>2, <1>6 DEF WithBid, BidSet
<1> QED BY <1>2, <1>4, <1>5, <1>6, <1>7

(* What is left to show of a step that leaves the channels alone.          *)
LEMMA TypesKept ==
  ASSUME TypeOK, UNCHANGED <<channel, chans>>,
         auction' \in AuctionHash, bids' \in BidSet,
         strategy' \in [Instances -> Strategies], switches' \in 0..MaxSwitches,
         call' \in [Requests -> CallState],
         closing' \in {"open", "closed", "announced", "stopped"}, outcome' \in BidSet,
         faults' \in 0..MaxFaults, used' \subseteq Strategies \X Instances,
         counted' \subseteq Requests
  PROVE  TypeOK'
BY DEF TypeOK

LEMMA FaultsAreTyped == TypeOK /\ (Fault \/ NoFault) => faults' \in 0..MaxFaults
BY StrategyBounds DEF TypeOK, Fault, NoFault

LEMMA StartsDoes ==
  ASSUME TypeOK, NEW r \in Requests, NEW i \in Instances, NEW s \in Strategies, Starts(r, i, s)
  PROVE  /\ call[r].stage = "new" /\ used' = used \cup {<<s, i>>}
         /\ used' \subseteq Strategies \X Instances
BY DEF Starts, TypeOK

LEMMA PlaceByScriptDoes ==
  ASSUME TypeOK, NEW r \in Requests, NEW i \in Instances, PlaceByScript(r, i)
  PROVE  /\ call[r].stage = "new" /\ used' = used \cup {<<"pessimistic", i>>}
         /\ UNCHANGED <<strategy, switches, channel, chans, closing, outcome>>
         /\ \/ /\ Verdict(auction, bids, Offer[r].bidder, Offer[r].amount) = "accepted"
               /\ auction' = HashAfter(auction, bids, Offer[r].bidder, Offer[r].amount)
               /\ bids' = BidsAfter(bids, Offer[r].bidder, Offer[r].amount)
               /\ counted' = counted \cup {r}
               /\ \E result \in {"accepted", "error"} : Gives(r, Returned(result), TRUE)
            \/ /\ UNCHANGED redis
               /\ \E result \in Results \ {"accepted"} : Gives(r, Returned(result), FALSE)
         /\ TypeOK'
<1> DEFINE verdict == Verdict(auction, bids, Offer[r].bidder, Offer[r].amount)
<1>1. /\ call[r].stage = "new" /\ used' = used \cup {<<"pessimistic", i>>}
      /\ used' \subseteq Strategies \X Instances
      /\ UNCHANGED <<strategy, switches, channel, chans, closing, outcome>>
  BY StartsDoes DEF PlaceByScript, Strategies
<1>2. \/ /\ verdict = "accepted"
         /\ auction' = HashAfter(auction, bids, Offer[r].bidder, Offer[r].amount)
         /\ bids' = BidsAfter(bids, Offer[r].bidder, Offer[r].amount)
         /\ counted' = counted \cup {r}
         /\ \E result \in {"accepted", "error"} : Gives(r, Returned(result), TRUE)
         /\ Fault \/ NoFault
      \/ /\ verdict # "accepted" /\ Gives(r, Returned(verdict), FALSE) /\ UNCHANGED <<redis, faults>>
  BY DEF PlaceByScript, Gives
<1>3. verdict \in Results /\ {"accepted", "error"} \subseteq Results
  BY Verdicts DEF Results
<1>4. call' \in [Requests -> CallState]
  BY <1>2, <1>3, ReturnedDoes, GivesDoes
<1>5. auction' \in AuctionHash /\ bids' \in BidSet /\ counted' \subseteq Requests
  <2>1. auction \in AuctionHash /\ bids \in BidSet /\ counted \subseteq Requests
    BY DEF TypeOK
  <2>2. /\ HashAfter(auction, bids, Offer[r].bidder, Offer[r].amount) \in AuctionHash
        /\ BidsAfter(bids, Offer[r].bidder, Offer[r].amount) \in BidSet
    BY <2>1, OfferIsTyped, ScriptIsTyped
  <2> QED BY <1>2, <2>1, <2>2, Zenon DEF redis
<1>6. faults' \in 0..MaxFaults
  BY <1>2, FaultsAreTyped DEF TypeOK
<1>7. TypeOK'
  <2>1. /\ strategy' \in [Instances -> Strategies] /\ switches' \in 0..MaxSwitches
        /\ closing' \in {"open", "closed", "announced", "stopped"} /\ outcome' \in BidSet
    BY <1>1 DEF TypeOK
  <2> QED BY <1>1, <1>4, <1>5, <1>6, <2>1, TypesKept
<1> QED BY <1>1, <1>2, <1>3, <1>7

LEMMA WatchAndReadDoes ==
  ASSUME TypeOK, NEW r \in Requests, WatchAndRead(r)
  PROVE  /\ UNCHANGED <<redis, strategy, switches, channel, chans, closing, outcome, faults>>
         /\ \E c \in CallState :
              /\ Gives(r, c, FALSE)
              /\ \/ \E result \in Results \ {"accepted"} : c = Returned(result)
                 \/ /\ c.stage = "exec" /\ c.seen = auction
                    /\ PlainVerdict(auction, Offer[r].amount) = "accepted"
                    /\ c.tries = call[r].tries /\ c.result = call[r].result
         /\ call' \in [Requests -> CallState]
<1> DEFINE verdict == PlainVerdict(auction, Offer[r].amount)
           old == call[r]
           next == [old EXCEPT !.stage = "exec", !.seen = auction, !.conflict = FALSE]
<1>1. UNCHANGED <<redis, strategy, switches, channel, chans, closing, outcome, faults>>
  BY DEF WatchAndRead
<1>2. old \in CallState /\ auction \in AuctionHash
  BY DEF TypeOK
<1>3. \/ verdict = "accepted" /\ Gives(r, next, FALSE)
      \/ verdict # "accepted" /\ Gives(r, Returned(verdict), FALSE)
  BY DEF WatchAndRead, Gives
<1>4. /\ next \in CallState /\ next.stage = "exec" /\ next.seen = auction
      /\ next.tries = old.tries /\ next.result = old.result
  BY <1>2 DEF CallState, Stages
<1>5. verdict \in Results
  BY Verdicts
<1>6. verdict # "accepted" => Returned(verdict) \in CallState
  BY <1>5, ReturnedDoes
<1> HIDE DEF verdict, next
<1>7. \E c \in CallState :
        /\ Gives(r, c, FALSE)
        /\ \/ \E result \in Results \ {"accepted"} : c = Returned(result)
           \/ /\ c.stage = "exec" /\ c.seen = auction
              /\ verdict = "accepted"
              /\ c.tries = old.tries /\ c.result = old.result
  BY <1>3, <1>4, <1>5, <1>6
<1>8. call' \in [Requests -> CallState]
  BY <1>7, GivesDoes
<1> QED BY <1>1, <1>7, <1>8 DEF verdict

LEMMA ExecDoes ==
  ASSUME TypeOK, NEW r \in Requests, Exec(r)
  PROVE  /\ call[r].stage = "exec" /\ ~call[r].conflict
         /\ UNCHANGED <<strategy, switches, channel, chans, closing, outcome, used>>
         /\ \/ /\ Written(r, call[r].seen)
               /\ \E result \in {"accepted", "error"} : Gives(r, Returned(result), TRUE)
            \/ UNCHANGED redis /\ Gives(r, Returned("error"), FALSE)
         /\ TypeOK'
<1>1. /\ call[r].stage = "exec" /\ ~call[r].conflict
      /\ UNCHANGED <<strategy, switches, channel, chans, closing, outcome, used>>
      /\ \/ /\ Written(r, call[r].seen)
            /\ \E result \in {"accepted", "error"} : Gives(r, Returned(result), TRUE)
         \/ UNCHANGED redis /\ Gives(r, Returned("error"), FALSE)
      /\ Fault \/ NoFault
  BY DEF Exec, Gives
<1>2. Returned("accepted") \in CallState /\ Returned("error") \in CallState
  BY ReturnedDoes DEF Results
<1>3. call' \in [Requests -> CallState]
  BY <1>1, <1>2, GivesDoes
<1>4. auction' \in AuctionHash /\ bids' \in BidSet /\ counted' \subseteq Requests
  <2>1. /\ auction \in AuctionHash /\ bids \in BidSet /\ counted \subseteq Requests
        /\ call[r].seen \in AuctionHash
    BY DEF TypeOK, CallState
  <2> QED BY <1>1, <2>1, WrittenDoes DEF redis
<1>5. TypeOK'
  <2>1. /\ strategy' \in [Instances -> Strategies] /\ switches' \in 0..MaxSwitches
        /\ closing' \in {"open", "closed", "announced", "stopped"} /\ outcome' \in BidSet
        /\ used' \subseteq Strategies \X Instances
    BY <1>1 DEF TypeOK
  <2> QED BY <1>1, <1>3, <1>4, <2>1, FaultsAreTyped, TypesKept
<1> QED BY <1>1, <1>5

LEMMA ExecFailsDoes ==
  ASSUME TypeOK, CallsAgree, NEW r \in Requests, ExecFails(r)
  PROVE  /\ call[r].stage = "exec"
         /\ UNCHANGED <<redis, strategy, switches, channel, chans, closing, outcome, faults, used>>
         /\ \E c \in CallState :
              /\ Gives(r, c, FALSE)
              /\ \/ c = Returned("busy")
                 \/ /\ c.stage = "retry" /\ c.tries < MaxRetries /\ c.result = call[r].result
         /\ TypeOK'
<1> DEFINE old == call[r]
           next == [old EXCEPT !.stage = "retry", !.tries = old.tries + 1, !.seen = NoHash,
                               !.conflict = FALSE]
           c == IF old.tries + 1 = MaxRetries THEN Returned("busy") ELSE next
<1>1. /\ old.stage = "exec"
      /\ UNCHANGED <<redis, strategy, switches, channel, chans, closing, outcome, faults, used>>
  BY DEF ExecFails
<1>2. old \in CallState /\ old.tries < MaxRetries /\ old.tries \in Nat /\ MaxRetries \in Nat
  BY StrategyBounds DEF TypeOK, CallsAgree, CallState
<1>3. call' = [call EXCEPT ![r] = c]
  BY DEF ExecFails, TypeOK
<1>4. Returned("busy") \in CallState
  BY ReturnedDoes DEF Results
<1>5. ASSUME old.tries + 1 # MaxRetries
      PROVE  /\ next \in CallState /\ next.stage = "retry" /\ next.tries < MaxRetries
             /\ next.result = old.result
  <2>1. old.tries + 1 \in 0..MaxRetries /\ old.tries + 1 < MaxRetries
    BY <1>2, <1>5
  <2> QED BY <1>2, <2>1, HashIsTyped DEF CallState, Stages
<1> HIDE DEF next
<1>6. /\ c \in CallState
      /\ \/ c = Returned("busy")
         \/ c.stage = "retry" /\ c.tries < MaxRetries /\ c.result = old.result
  BY <1>4, <1>5
<1> HIDE DEF c
<1>7. Gives(r, c, FALSE)
  BY <1>3 DEF Gives
<1>8. call' \in [Requests -> CallState]
  BY <1>6, <1>7, GivesDoes
<1>9. TypeOK'
  BY <1>1, <1>8 DEF TypeOK, redis
<1> QED BY <1>1, <1>6, <1>7, <1>9

-----------------------------------------------------------------------------
(* ... and of those that go through a channel.                             *)

LEMMA OneChannelChanges ==
  ASSUME chans \in Seq(Channel), NEW k \in DOMAIN chans, NEW item \in Channel,
         chans' = [chans EXCEPT ![k] = item]
  PROVE  /\ chans' \in Seq(Channel) /\ Len(chans') = Len(chans)
         /\ DOMAIN chans' = DOMAIN chans
         /\ chans'[k] = item /\ \A l \in DOMAIN chans : l # k => chans'[l] = chans[l]
OBVIOUS

LEMMA ChannelIsTyped ==
  ASSUME TypeOK, NEW k \in DOMAIN chans
  PROVE  /\ chans[k] \in Channel /\ Len(chans[k].buffer) <= Capacity
         /\ channel[chans[k].at] = k => chans[k].open
         /\ chans[k].buffer \in Seq(Requests) /\ chans[k].writes \subseteq Requests
         /\ chans[k].seen \in AuctionHash /\ chans[k].at \in Instances
         /\ chans[k].open \in BOOLEAN
<1>1. chans[k] \in Channel
  BY DEF TypeOK
<1> QED BY <1>1 DEF TypeOK, Channel

(* A channel gets a new buffer and new writes and keeps the rest.          *)
Refills(k, buffer, writes, seen) ==
  /\ Len(chans') = Len(chans) /\ DOMAIN chans' = DOMAIN chans
  /\ \A l \in DOMAIN chans : l # k => chans'[l] = chans[l]
  /\ chans'[k].at = chans[k].at /\ chans'[k].open = chans[k].open
  /\ chans'[k].buffer = buffer /\ chans'[k].writes = writes /\ chans'[k].seen = seen

LEMMA RefillIsTyped ==
  ASSUME TypeOK, NEW k \in DOMAIN chans,
         NEW buffer \in Seq(Requests), NEW writes \in SUBSET Requests, NEW seen \in AuctionHash,
         Len(buffer) <= Capacity,
         chans' = [chans EXCEPT ![k] = [chans[k] EXCEPT !.buffer = buffer, !.writes = writes,
                                                        !.seen = seen]],
         UNCHANGED <<strategy, switches, channel, closing, outcome, used>>,
         auction' \in AuctionHash, bids' \in BidSet, counted' \subseteq Requests,
         call' \in [Requests -> CallState], Fault \/ NoFault
  PROVE  TypeOK' /\ Refills(k, buffer, writes, seen)
<1> DEFINE old == chans[k]
           item == [old EXCEPT !.buffer = buffer, !.writes = writes, !.seen = seen]
<1>1. old \in Channel /\ chans \in Seq(Channel)
  BY ChannelIsTyped DEF TypeOK
<1>2. /\ item \in Channel /\ item.at = old.at /\ item.open = old.open
      /\ item.buffer = buffer /\ item.writes = writes /\ item.seen = seen
  BY <1>1 DEF Channel
<1>3. chans' = [chans EXCEPT ![k] = item]
  OBVIOUS
<1> HIDE DEF item
<1>4. /\ chans' \in Seq(Channel) /\ Len(chans') = Len(chans)
      /\ DOMAIN chans' = DOMAIN chans
      /\ chans'[k] = item /\ \A l \in DOMAIN chans : l # k => chans'[l] = chans[l]
  BY <1>1, <1>2, <1>3, OneChannelChanges
<1>5. ASSUME NEW l \in DOMAIN chans'
      PROVE  /\ Len(chans'[l].buffer) <= Capacity
             /\ channel'[chans'[l].at] = l => chans'[l].open
  <2>1. CASE l = k
    BY <1>2, <1>4, <2>1, ChannelIsTyped
  <2>2. CASE l # k
    BY <1>4, <2>2, ChannelIsTyped
  <2> QED BY <2>1, <2>2
<1>6. /\ strategy' \in [Instances -> Strategies] /\ switches' \in 0..MaxSwitches
      /\ channel' \in [Instances -> 0..Len(chans')]
      /\ closing' \in {"open", "closed", "announced", "stopped"} /\ outcome' \in BidSet
      /\ used' \subseteq Strategies \X Instances
  BY <1>4 DEF TypeOK
<1>7. TypeOK'
  BY <1>4, <1>5, <1>6, FaultsAreTyped DEF TypeOK
<1> QED BY <1>2, <1>4, <1>7 DEF Refills

LEMMA GetOrCreateChannelDoes ==
  ASSUME TypeOK, NEW r \in Requests, NEW i \in Instances, GetOrCreateChannel(r, i)
  PROVE  /\ call[r].stage = "new" /\ used' = used \cup {<<"queue", i>>}
         /\ UNCHANGED <<redis, strategy, switches, closing, outcome, faults>>
         /\ \E c \in CallState :
              /\ Gives(r, c, FALSE) /\ c.stage = "sending" /\ c.chan \in DOMAIN chans'
              /\ c.tries = 0 /\ c.result = "none"
         /\ \/ channel[i] # 0 /\ UNCHANGED <<channel, chans>>
            \/ /\ channel[i] = 0
               /\ Len(chans') = Len(chans) + 1 /\ DOMAIN chans' = DOMAIN chans \cup {Len(chans')}
               /\ \A k \in DOMAIN chans : chans'[k] = chans[k]
               /\ chans'[Len(chans')] = [at |-> i, open |-> TRUE, buffer |-> << >>,
                                         writes |-> {}, seen |-> NoHash]
               /\ channel' = [channel EXCEPT ![i] = Len(chans')]
         /\ TypeOK'
<1> DEFINE item == [at |-> i, open |-> TRUE, buffer |-> << >>, writes |-> {}, seen |-> NoHash]
<1>1. /\ call[r].stage = "new" /\ used' = used \cup {<<"queue", i>>}
      /\ used' \subseteq Strategies \X Instances
      /\ UNCHANGED <<redis, strategy, switches, closing, outcome, faults>>
  BY StartsDoes DEF GetOrCreateChannel, Strategies
<1>2. chans \in Seq(Channel) /\ channel \in [Instances -> 0..Len(chans)] /\ Len(chans) \in Nat
  BY DEF TypeOK
<1>3. ASSUME NEW n \in Nat
      PROVE  /\ [New EXCEPT !.stage = "sending", !.chan = n] \in CallState
             /\ [New EXCEPT !.stage = "sending", !.chan = n].stage = "sending"
             /\ [New EXCEPT !.stage = "sending", !.chan = n].chan = n
             /\ [New EXCEPT !.stage = "sending", !.chan = n].tries = 0
             /\ [New EXCEPT !.stage = "sending", !.chan = n].result = "none"
  BY NewIsTyped DEF CallState, Stages
<1>4. CASE channel[i] # 0
  <2>1. /\ UNCHANGED <<channel, chans>>
        /\ Gives(r, [New EXCEPT !.stage = "sending", !.chan = channel[i]], FALSE)
    BY <1>4 DEF GetOrCreateChannel, Gives
  <2>2. channel[i] \in Nat /\ channel[i] \in DOMAIN chans
    BY <1>2, <1>4
  <2>3. \E c \in CallState :
          /\ Gives(r, c, FALSE) /\ c.stage = "sending" /\ c.chan \in DOMAIN chans'
          /\ c.tries = 0 /\ c.result = "none"
    BY <1>3, <2>1, <2>2
  <2>4. call' \in [Requests -> CallState]
    BY <2>3, GivesDoes
  <2>5. TypeOK'
    BY <1>1, <2>1, <2>4 DEF TypeOK, redis
  <2> QED BY <1>1, <1>4, <2>1, <2>3, <2>5
<1>5. CASE channel[i] = 0
  <2>1. /\ chans' = Append(chans, item) /\ channel' = [channel EXCEPT ![i] = Len(chans')]
        /\ Gives(r, [New EXCEPT !.stage = "sending", !.chan = Len(chans')], FALSE)
    BY <1>5 DEF GetOrCreateChannel, Gives
  <2>2. item \in Channel /\ item.at = i /\ item.open /\ Len(item.buffer) = 0
    BY HashIsTyped DEF Channel
  <2> HIDE DEF item
  <2>3. /\ chans' \in Seq(Channel)
        /\ Len(chans') = Len(chans) + 1 /\ DOMAIN chans' = DOMAIN chans \cup {Len(chans')}
        /\ \A k \in DOMAIN chans : chans'[k] = chans[k]
        /\ chans'[Len(chans')] = item /\ Len(chans') \in DOMAIN chans' /\ Len(chans') \in Nat
    BY <1>2, <2>1, <2>2
  <2>4. \E c \in CallState :
          /\ Gives(r, c, FALSE) /\ c.stage = "sending" /\ c.chan \in DOMAIN chans'
          /\ c.tries = 0 /\ c.result = "none"
    BY <1>3, <2>1, <2>3
  <2>5. call' \in [Requests -> CallState]
    BY <2>4, GivesDoes
  <2>6. channel' \in [Instances -> 0..Len(chans')]
    BY <1>2, <2>1, <2>3
  <2>7. ASSUME NEW k \in DOMAIN chans'
        PROVE  /\ Len(chans'[k].buffer) <= Capacity
               /\ channel'[chans'[k].at] = k => chans'[k].open
    <3>1. CASE k = Len(chans')
      BY <2>2, <2>3, <3>1, StrategyBounds
    <3>2. CASE k \in DOMAIN chans /\ k # Len(chans')
      <4>1. channel'[chans[k].at] = k => channel[chans[k].at] = k
        BY <1>2, <2>1, <3>2, ChannelIsTyped
      <4> QED BY <2>3, <3>2, <4>1, ChannelIsTyped
    <3> QED BY <2>3, <3>1, <3>2
  <2>8. TypeOK'
    BY <1>1, <2>3, <2>5, <2>6, <2>7 DEF TypeOK, redis
  <2> QED BY <1>1, <1>5, <2>1, <2>3, <2>4, <2>8 DEF item
<1> QED BY <1>4, <1>5

LEMMA SendRequestDoes ==
  ASSUME TypeOK, CallsAgree, NEW r \in Requests, SendRequest(r)
  PROVE  /\ call[r].stage = "sending"
         /\ UNCHANGED <<redis, strategy, switches, channel, closing, outcome, faults, used>>
         /\ \E c \in CallState : /\ Gives(r, c, FALSE) /\ c.stage = "waiting"
                                 /\ c.tries = call[r].tries /\ c.result = call[r].result
         /\ \E k \in DOMAIN chans :
              Refills(k, Append(chans[k].buffer, r), chans[k].writes, chans[k].seen)
         /\ TypeOK'
<1> DEFINE k == call[r].chan
           old == chans[k]
           c == [call[r] EXCEPT !.stage = "waiting"]
           longer == Append(old.buffer, r)
<1>1. /\ call[r].stage = "sending" /\ Len(old.buffer) < Capacity
      /\ UNCHANGED <<redis, strategy, switches, channel, closing, outcome, faults, used>>
      /\ chans' = [chans EXCEPT ![k].buffer = longer] /\ Gives(r, c, FALSE)
  BY DEF SendRequest, Gives
<1>2. k \in DOMAIN chans /\ call[r] \in CallState
  BY <1>1 DEF CallsAgree, TypeOK
<1>3. /\ c \in CallState /\ c.stage = "waiting" /\ c.tries = call[r].tries
      /\ c.result = call[r].result
  BY <1>2 DEF CallState, Stages
<1>4. /\ old \in Channel /\ old.buffer \in Seq(Requests) /\ old.writes \subseteq Requests
      /\ old.seen \in AuctionHash
  BY <1>2, ChannelIsTyped
<1>5. longer \in Seq(Requests) /\ Len(longer) <= Capacity
  BY <1>1, <1>4, StrategyBounds
<1> HIDE DEF c, longer, k
<1>6. chans' = [chans EXCEPT ![k] = [old EXCEPT !.buffer = longer, !.writes = old.writes,
                                                !.seen = old.seen]]
  <2>1. [old EXCEPT !.buffer = longer] =
          [old EXCEPT !.buffer = longer, !.writes = old.writes, !.seen = old.seen]
    BY <1>4 DEF Channel
  <2> QED BY <1>1, <2>1
<1>7. call' \in [Requests -> CallState]
  BY <1>1, <1>3, GivesDoes
<1>8. auction' \in AuctionHash /\ bids' \in BidSet /\ counted' \subseteq Requests /\ NoFault
  BY <1>1 DEF TypeOK, redis, NoFault
<1>9. TypeOK' /\ Refills(k, longer, old.writes, old.seen)
  BY <1>1, <1>2, <1>4, <1>5, <1>6, <1>7, <1>8, RefillIsTyped
<1> QED BY <1>1, <1>2, <1>3, <1>9 DEF longer

LEMMA CallReturns ==
  ASSUME TypeOK, NEW r \in Requests,
         UNCHANGED <<redis, strategy, switches, channel, chans, closing, outcome, used>>,
         Fault \/ NoFault, NEW result \in Results, Gives(r, Returned(result), FALSE)
  PROVE  TypeOK'
<1>1. call' \in [Requests -> CallState]
  BY ReturnedDoes, GivesDoes
<1> QED BY <1>1, FaultsAreTyped, TypesKept DEF TypeOK, redis

LEMMA SendPanicsDoes ==
  ASSUME TypeOK, NEW r \in Requests, SendPanics(r)
  PROVE  /\ call[r].stage = "sending"
         /\ UNCHANGED <<redis, strategy, switches, channel, chans, closing, outcome, used>>
         /\ Gives(r, Returned("panicked"), FALSE)
         /\ TypeOK'
<1>1. /\ call[r].stage = "sending"
      /\ UNCHANGED <<redis, strategy, switches, channel, chans, closing, outcome, used>>
      /\ Gives(r, Returned("panicked"), FALSE) /\ NoFault
  BY DEF SendPanics, Gives, NoFault
<1>2. "panicked" \in Results
  BY DEF Results
<1> QED BY <1>1, <1>2, CallReturns

LEMMA GiveUpDoes ==
  ASSUME TypeOK, NEW r \in Requests, GiveUp(r)
  PROVE  /\ call[r].stage \in {"sending", "waiting"}
         /\ UNCHANGED <<redis, strategy, switches, channel, chans, closing, outcome, used>>
         /\ Gives(r, Returned("gave_up"), FALSE)
         /\ TypeOK'
<1>1. /\ call[r].stage \in {"sending", "waiting"}
      /\ UNCHANGED <<redis, strategy, switches, channel, chans, closing, outcome, used>>
      /\ Gives(r, Returned("gave_up"), FALSE) /\ Fault
  BY DEF GiveUp, Gives
<1>2. "gave_up" \in Results
  BY DEF Results
<1> QED BY <1>1, <1>2, CallReturns

(* The state that an answer leaves the call in.                            *)
Answered(c, result) == IF c.stage = "waiting" THEN Returned(result) ELSE c

LEMMA AnswerDoes ==
  ASSUME TypeOK, NEW r \in Requests, NEW result \in Results
  PROVE  /\ Answered(call[r], result) \in CallState
         /\ Answer(r, result) = [call EXCEPT ![r] = Answered(call[r], result)]
BY ReturnedDoes DEF TypeOK, Answered, Answer

(* The goroutine has a bid to write, or it answers.                        *)
LEMMA ReceiveDoes ==
  ASSUME TypeOK, NEW k \in DOMAIN chans, Receive(k)
  PROVE  /\ chans[k].writes = {} /\ chans[k].buffer # << >>
         /\ Head(chans[k].buffer) \in Requests
         /\ UNCHANGED <<redis, strategy, switches, channel, closing, outcome, used>>
         /\ \/ /\ PlainVerdict(auction, Offer[Head(chans[k].buffer)].amount) = "accepted"
               /\ Refills(k, Tail(chans[k].buffer), {Head(chans[k].buffer)}, auction)
               /\ UNCHANGED call
            \/ /\ Refills(k, Tail(chans[k].buffer), {}, chans[k].seen)
               /\ \E result \in Results \ {"accepted"} :
                    Gives(Head(chans[k].buffer),
                          Answered(call[Head(chans[k].buffer)], result), FALSE)
         /\ TypeOK'
<1> DEFINE old == chans[k]
           r == Head(old.buffer)
           rest == Tail(old.buffer)
           verdict == PlainVerdict(auction, Offer[r].amount)
<1>1. /\ old \in Channel /\ old.buffer \in Seq(Requests) /\ old.seen \in AuctionHash
      /\ Len(old.buffer) <= Capacity /\ old.buffer # << >> /\ old.writes = {}
  BY ChannelIsTyped DEF Receive, Take
<1>2. r \in Requests /\ rest \in Seq(Requests) /\ Len(rest) <= Capacity
  BY <1>1, StrategyBounds
<1>3. UNCHANGED <<redis, strategy, switches, channel, closing, outcome, used>>
  BY DEF Receive, Take
<1>4. /\ auction' \in AuctionHash /\ bids' \in BidSet /\ counted' \subseteq Requests
      /\ auction \in AuctionHash /\ call \in [Requests -> CallState]
  BY <1>3 DEF TypeOK, redis
<1>5. verdict \in Results /\ "error" \in Results
  BY Verdicts DEF Results
<1>6. \/ /\ NoFault /\ verdict = "accepted" /\ UNCHANGED call
         /\ chans' = [[chans EXCEPT ![k].buffer = rest] EXCEPT ![k].writes = {r},
                                                              ![k].seen = auction]
      \/ /\ chans' = [chans EXCEPT ![k].buffer = rest]
         /\ \/ NoFault /\ verdict # "accepted" /\ call' = Answer(r, verdict)
            \/ Fault /\ call' = Answer(r, "error")
  BY DEF Receive, Take
<1> HIDE DEF r, rest
<1>7. CASE /\ NoFault /\ verdict = "accepted" /\ UNCHANGED call
           /\ chans' = [[chans EXCEPT ![k].buffer = rest] EXCEPT ![k].writes = {r},
                                                                ![k].seen = auction]
  <2>1. chans' = [chans EXCEPT ![k] = [old EXCEPT !.buffer = rest, !.writes = {r},
                                                  !.seen = auction]]
    BY <1>1, <1>7 DEF Channel
  <2>2. TypeOK' /\ Refills(k, rest, {r}, auction)
    BY <1>1, <1>2, <1>3, <1>4, <1>7, <2>1, RefillIsTyped
  <2> QED BY <1>1, <1>2, <1>3, <1>7, <2>2 DEF r, rest
<1>8. CASE /\ chans' = [chans EXCEPT ![k].buffer = rest]
           /\ \/ NoFault /\ verdict # "accepted" /\ call' = Answer(r, verdict)
              \/ Fault /\ call' = Answer(r, "error")
  <2>1. PICK result \in Results \ {"accepted"} : call' = Answer(r, result) /\ (Fault \/ NoFault)
    BY <1>5, <1>8
  <2>2. Gives(r, Answered(call[r], result), FALSE) /\ Answered(call[r], result) \in CallState
    BY <1>2, <2>1, AnswerDoes DEF Gives
  <2>3. call' \in [Requests -> CallState]
    BY <1>2, <2>2, GivesDoes
  <2>4. chans' = [chans EXCEPT ![k] = [old EXCEPT !.buffer = rest, !.writes = {},
                                                  !.seen = old.seen]]
    <3>1. [old EXCEPT !.buffer = rest] =
            [old EXCEPT !.buffer = rest, !.writes = {}, !.seen = old.seen]
      BY <1>1 DEF Channel
    <3> QED BY <1>8, <3>1
  <2>5. TypeOK' /\ Refills(k, rest, {}, old.seen)
    BY <1>1, <1>2, <1>3, <1>4, <2>1, <2>3, <2>4, RefillIsTyped
  <2> QED BY <1>1, <1>2, <1>3, <2>2, <2>5 DEF r, rest
<1> QED BY <1>6, <1>7, <1>8

LEMMA ProcessWriteDoes ==
  ASSUME TypeOK, NEW k \in DOMAIN chans, ProcessWrite(k)
  PROVE  \E r \in chans[k].writes :
           /\ r \in Requests
           /\ Refills(k, chans[k].buffer, {}, NoHash)
           /\ UNCHANGED <<strategy, switches, channel, closing, outcome, used>>
           /\ \/ /\ Written(r, chans[k].seen)
                 /\ \E result \in {"accepted", "error"} :
                      Gives(r, Answered(call[r], result), TRUE)
              \/ UNCHANGED redis /\ Gives(r, Answered(call[r], "error"), FALSE)
           /\ TypeOK'
<1> DEFINE old == chans[k]
<1>1. PICK r \in old.writes :
        /\ chans' = [chans EXCEPT ![k].writes = {}, ![k].seen = NoHash]
        /\ \/ /\ Written(r, old.seen)
              /\ \/ NoFault /\ call' = Touched(Answer(r, "accepted"))
                 \/ Fault /\ call' = Touched(Answer(r, "error"))
           \/ Fault /\ call' = Answer(r, "error") /\ UNCHANGED redis
        /\ UNCHANGED <<strategy, switches, channel, closing, outcome, used>>
  BY DEF ProcessWrite
<1>2. /\ old \in Channel /\ old.buffer \in Seq(Requests) /\ old.seen \in AuctionHash
      /\ Len(old.buffer) <= Capacity /\ r \in Requests
  BY ChannelIsTyped
<1>3. "accepted" \in Results /\ "error" \in Results
  BY DEF Results
<1>4. /\ Fault \/ NoFault
      /\ \/ /\ Written(r, old.seen)
            /\ \E result \in {"accepted", "error"} : Gives(r, Answered(call[r], result), TRUE)
         \/ UNCHANGED redis /\ Gives(r, Answered(call[r], "error"), FALSE)
  BY <1>1, <1>2, <1>3, AnswerDoes DEF Gives
<1>5. call' \in [Requests -> CallState]
  <2>1. /\ Answered(call[r], "accepted") \in CallState
        /\ Answered(call[r], "error") \in CallState
    BY <1>2, <1>3, AnswerDoes
  <2> QED BY <1>2, <1>4, <2>1, GivesDoes
<1>6. auction' \in AuctionHash /\ bids' \in BidSet /\ counted' \subseteq Requests
  <2>1. auction \in AuctionHash /\ bids \in BidSet /\ counted \subseteq Requests
    BY DEF TypeOK
  <2> QED BY <1>2, <1>4, <2>1, WrittenDoes DEF redis
<1>7. chans' = [chans EXCEPT ![k] = [old EXCEPT !.buffer = old.buffer, !.writes = {},
                                                !.seen = NoHash]]
  <2>1. [old EXCEPT !.writes = {}, !.seen = NoHash] =
          [old EXCEPT !.buffer = old.buffer, !.writes = {}, !.seen = NoHash]
    BY <1>2 DEF Channel
  <2>2. chans' = [chans EXCEPT ![k] = [old EXCEPT !.writes = {}, !.seen = NoHash]]
    BY <1>1, <1>2 DEF Channel
  <2> QED BY <2>1, <2>2
<1>8. TypeOK' /\ Refills(k, old.buffer, {}, NoHash)
  BY <1>1, <1>2, <1>4, <1>5, <1>6, <1>7, HashIsTyped, RefillIsTyped
<1> QED BY <1>1, <1>2, <1>4, <1>8

-----------------------------------------------------------------------------
(* The administrator and the close leave the bids alone.                   *)

LEMMA SetStrategyDoes ==
  ASSUME TypeOK, NEW i \in Instances, NEW s \in Strategies, SetStrategy(i, s)
  PROVE  /\ UNCHANGED <<redis, channel, chans, call, closing, outcome, used>>
         /\ TypeOK'
<1>1. /\ UNCHANGED <<redis, channel, chans, call, closing, outcome, faults, used>>
      /\ switches' = switches + 1 /\ switches < MaxSwitches
      /\ strategy' = [strategy EXCEPT ![i] = s]
  BY DEF SetStrategy
<1>2. switches' \in 0..MaxSwitches
  BY <1>1, StrategyBounds DEF TypeOK
<1>3. strategy' \in [Instances -> Strategies]
  BY <1>1 DEF TypeOK
<1> QED BY <1>1, <1>2, <1>3, TypesKept DEF TypeOK, redis

LEMMA StatusesDo ==
  ASSUME NEW a \in AuctionHash, NEW new \in {ClosedHash(a), ReopenedHash(a)}
  PROVE  /\ new \in AuctionHash
         /\ new.current = a.current /\ new.bidder = a.bidder /\ new.version = a.version
         /\ new = ClosedHash(a) => new.status = "CLOSED"
         /\ new = ReopenedHash(a) /\ a.status = "CLOSED" => new.status = "OPEN"
BY DEF ClosedHash, ReopenedHash, AuctionHash, Statuses

LEMMA CloseDoes ==
  ASSUME TypeOK, Close
  PROVE  /\ closing = "open" /\ closing' = "closed" /\ auction' = ClosedHash(auction)
         /\ outcome' = WinnersRead(auction, bids) /\ call' = Touched(call)
         /\ UNCHANGED <<bids, counted, strategy, switches, channel, chans, faults, used>>
         /\ TypeOK'
<1>1. /\ closing = "open" /\ closing' = "closed" /\ auction' = ClosedHash(auction)
      /\ outcome' = WinnersRead(auction, bids) /\ call' = Touched(call)
      /\ UNCHANGED <<bids, counted, strategy, switches, channel, chans, faults, used>>
  BY DEF Close
<1>2. auction' \in AuctionHash
  BY <1>1, StatusesDo DEF TypeOK
<1>3. outcome' \in BidSet
  BY <1>1 DEF TypeOK, WinnersRead, BidSet, AuctionHash
<1>4. call' \in [Requests -> CallState]
  BY <1>1, TouchedDoes DEF TypeOK
<1> QED BY <1>1, <1>2, <1>3, <1>4, TypesKept DEF TypeOK

LEMMA RollbackCloseDoes ==
  ASSUME TypeOK, RollbackClose
  PROVE  /\ closing = "closed" /\ closing' = "open" /\ auction' = ReopenedHash(auction)
         /\ call' = Touched(call)
         /\ UNCHANGED <<bids, counted, strategy, switches, channel, chans, used>>
         /\ TypeOK'
<1>1. /\ closing = "closed" /\ closing' = "open" /\ auction' = ReopenedHash(auction)
      /\ outcome' = NoBids /\ call' = Touched(call) /\ Fault
      /\ UNCHANGED <<bids, counted, strategy, switches, channel, chans, used>>
  BY DEF RollbackClose
<1>2. auction' \in AuctionHash
  BY <1>1, StatusesDo DEF TypeOK
<1>3. outcome' \in BidSet
  BY <1>1 DEF NoBids, BidSet
<1>4. call' \in [Requests -> CallState]
  BY <1>1, TouchedDoes DEF TypeOK
<1> QED BY <1>1, <1>2, <1>3, <1>4, FaultsAreTyped, TypesKept DEF TypeOK

LEMMA AnnounceDoes ==
  ASSUME TypeOK, Announce
  PROVE  /\ closing = "closed" /\ closing' = "announced"
         /\ UNCHANGED <<redis, strategy, switches, channel, chans, call, outcome, faults, used>>
         /\ TypeOK'
<1>1. /\ closing = "closed" /\ closing' = "announced"
      /\ UNCHANGED <<redis, strategy, switches, channel, chans, call, outcome, faults, used>>
  BY DEF Announce
<1> QED BY <1>1, TypesKept DEF TypeOK, redis

(* The channel of the instance, if it has one, is closed and forgotten.    *)
LEMMA StopDoes ==
  ASSUME TypeOK, ChannelsAgree, NEW i \in Instances, Stop(i)
  PROVE  /\ closing = "announced" /\ closing' = "stopped"
         /\ UNCHANGED <<redis, strategy, switches, call, outcome, faults, used>>
         /\ \/ UNCHANGED <<channel, chans>>
            \/ /\ channel[i] \in DOMAIN chans /\ channel' = [channel EXCEPT ![i] = 0]
               /\ Len(chans') = Len(chans) /\ DOMAIN chans' = DOMAIN chans
               /\ \A l \in DOMAIN chans :
                    /\ chans'[l].at = chans[l].at /\ chans'[l].buffer = chans[l].buffer
                    /\ chans'[l].writes = chans[l].writes /\ chans'[l].seen = chans[l].seen
                    /\ chans'[l].open = (l # channel[i] /\ chans[l].open)
         /\ TypeOK'
<1>1. /\ closing = "announced" /\ closing' = "stopped"
      /\ UNCHANGED <<redis, strategy, switches, call, outcome, faults, used>>
  BY DEF Stop, Stopped
<1>2. CASE UNCHANGED <<channel, chans>>
  BY <1>1, <1>2, TypesKept DEF TypeOK, redis
<1>3. CASE channel[i] # 0
  <2> DEFINE k == channel[i]
             old == chans[k]
             item == [old EXCEPT !.open = FALSE]
  <2>1. /\ chans' = [chans EXCEPT ![k].open = FALSE] /\ channel' = [channel EXCEPT ![i] = 0]
    BY <1>3 DEF Stop, Stopped
  <2>2. k \in DOMAIN chans /\ chans \in Seq(Channel) /\ channel \in [Instances -> 0..Len(chans)]
    BY <1>3 DEF TypeOK
  <2>3. old \in Channel /\ old.at = i
    BY <1>3, <2>2, ChannelIsTyped DEF ChannelsAgree
  <2>4. /\ item \in Channel /\ item.at = old.at /\ item.buffer = old.buffer
        /\ item.writes = old.writes /\ item.seen = old.seen /\ item.open = FALSE
    BY <2>3 DEF Channel
  <2>5. chans' = [chans EXCEPT ![k] = item]
    BY <2>1
  <2> HIDE DEF item, k
  <2>6. /\ chans' \in Seq(Channel) /\ Len(chans') = Len(chans)
        /\ DOMAIN chans' = DOMAIN chans
        /\ chans'[k] = item /\ \A l \in DOMAIN chans : l # k => chans'[l] = chans[l]
    BY <2>2, <2>4, <2>5, OneChannelChanges
  <2>7. \A l \in DOMAIN chans :
          /\ chans'[l].at = chans[l].at /\ chans'[l].buffer = chans[l].buffer
          /\ chans'[l].writes = chans[l].writes /\ chans'[l].seen = chans[l].seen
          /\ chans'[l].open = (l # k /\ chans[l].open)
    <3> SUFFICES ASSUME NEW l \in DOMAIN chans
                 PROVE  /\ chans'[l].at = chans[l].at /\ chans'[l].buffer = chans[l].buffer
                        /\ chans'[l].writes = chans[l].writes /\ chans'[l].seen = chans[l].seen
                        /\ chans'[l].open = (l # k /\ chans[l].open)
      OBVIOUS
    <3>1. CASE l = k
      BY <2>4, <2>6, <3>1
    <3>2. CASE l # k
      BY <2>6, <3>2, ChannelIsTyped
    <3> QED BY <3>1, <3>2
  <2>8. channel' \in [Instances -> 0..Len(chans')] /\ Len(chans) \in Nat
    BY <2>1, <2>2, <2>6
  <2>9. ASSUME NEW l \in DOMAIN chans'
        PROVE  /\ Len(chans'[l].buffer) <= Capacity
               /\ channel'[chans'[l].at] = l => chans'[l].open
    <3>1. Len(chans'[l].buffer) <= Capacity /\ l # 0 /\ chans[l].at \in Instances
      BY <2>2, <2>6, <2>7, <2>9, ChannelIsTyped
    <3>2. ASSUME channel'[chans[l].at] = l
          PROVE  channel[chans[l].at] = l /\ l # k
      BY <2>1, <2>2, <2>3, <2>6, <3>1, <3>2 DEF k
    <3> QED BY <2>6, <2>7, <2>9, <3>1, <3>2, ChannelIsTyped
  <2>10. TypeOK'
    BY <1>1, <2>6, <2>8, <2>9 DEF TypeOK, redis
  <2> QED BY <1>1, <2>1, <2>2, <2>6, <2>7, <2>10 DEF k
<1> QED BY <1>2, <1>3 DEF Stop, Stopped

-----------------------------------------------------------------------------
(* CallsAgree, call by call.                                               *)
CallFits(r) ==
  LET c == call[r] IN
    /\ c.tries < MaxRetries
    /\ c.stage \in {"retry", "exec"} => \E i \in Instances : <<"optimistic", i>> \in used
    /\ c.stage = "exec" => /\ PlainVerdict(c.seen, Offer[r].amount) = "accepted"
                           /\ c.conflict \/ c.seen = auction
    /\ c.stage = "sending" => c.chan \in DOMAIN chans
    /\ c.result = "accepted" => r \in counted
    /\ r \in counted => c.stage = "done" /\ c.result \in {"accepted", "error", "gave_up"}

LEMMA CallsAgreeByCall == CallsAgree <=> \A r \in Requests : CallFits(r)
BY DEF CallsAgree, CallFits

(* Bystanders still fit: whoever writes the hash flags their transactions. *)
LEMMA OthersFit ==
  ASSUME NEW q \in Requests, CallFits(q), SameBut(call[q], call'[q]),
         \/ UNCHANGED auction /\ call'[q] = call[q]
         \/ call'[q].stage = "exec" => call'[q].conflict,
         used \subseteq used', DOMAIN chans \subseteq DOMAIN chans',
         q \in counted <=> q \in counted'
  PROVE  CallFits(q)'
<1>1. PICK c, d : c = call[q] /\ d = call'[q]
  OBVIOUS
<1>2. SameBut(c, d)
  BY <1>1
<1> QED BY <1>1, <1>2 DEF CallFits, SameBut

LEMMA GivesKeepsCalls ==
  ASSUME TypeOK, CallsAgree, NEW r \in Requests, NEW c \in CallState, NEW touched \in BOOLEAN,
         Gives(r, c, touched), ~touched => UNCHANGED auction,
         used \subseteq used', DOMAIN chans \subseteq DOMAIN chans',
         counted' = counted \/ counted' = counted \cup {r},
         c.tries < MaxRetries,
         c.stage \in {"retry", "exec"} => \E i \in Instances : <<"optimistic", i>> \in used',
         c.stage = "exec" => /\ PlainVerdict(c.seen, Offer[r].amount) = "accepted"
                             /\ ~touched /\ c.seen = auction,
         c.stage = "sending" => c.chan \in DOMAIN chans',
         c.result = "accepted" => r \in counted',
         r \in counted' => c.stage = "done" /\ c.result \in {"accepted", "error", "gave_up"}
  PROVE  CallsAgree'
<1>1. /\ SameBut(c, call'[r])
      /\ \A q \in Requests : q # r => SameBut(call[q], call'[q])
      /\ touched => \A q \in Requests : call'[q].stage = "exec" => call'[q].conflict
      /\ ~touched => call'[r] = c /\ \A q \in Requests : q # r => call'[q] = call[q]
  BY GivesDoes
<1>2. \A q \in Requests : CallFits(q)
  BY CallsAgreeByCall
<1>3. ASSUME NEW q \in Requests, q # r
      PROVE  CallFits(q)'
  BY <1>1, <1>2, <1>3, OthersFit
<1>4. CallFits(r)'
  <2>1. PICK d : d = call'[r]
    OBVIOUS
  <2>2. SameBut(c, d) /\ (~touched => d = c)
    BY <1>1, <2>1
  <2> QED BY <2>1, <2>2 DEF CallFits, SameBut
<1>5. \A q \in Requests : CallFits(q)'
  BY <1>3, <1>4
<1> QED BY <1>5 DEF CallsAgree, CallFits

LEMMA StillCallsKeepsCalls ==
  ASSUME TypeOK, CallsAgree, UNCHANGED <<auction, call, counted>>,
         used \subseteq used', DOMAIN chans \subseteq DOMAIN chans'
  PROVE  CallsAgree'
<1>1. \A q : SameBut(call[q], call[q])
  BY DEF SameBut
<1>2. \A q \in Requests : CallFits(q)'
  BY <1>1, CallsAgreeByCall, OthersFit
<1> QED BY <1>2 DEF CallsAgree, CallFits

LEMMA TouchedCallsKeepsCalls ==
  ASSUME TypeOK, CallsAgree, call' = Touched(call), UNCHANGED <<counted, used, chans>>
  PROVE  CallsAgree'
<1>1. \A q \in Requests : /\ SameBut(call[q], call'[q])
                          /\ call'[q].stage = "exec" => call'[q].conflict
  BY TouchedDoes DEF TypeOK, SameBut
<1>2. \A q \in Requests : CallFits(q)'
  BY <1>1, CallsAgreeByCall, OthersFit
<1> QED BY <1>2 DEF CallsAgree, CallFits

(* A call that returns fits if its answer agrees with what was written.    *)
LEMMA ReturnKeepsCalls ==
  ASSUME TypeOK, CallsAgree, NEW r \in Requests, NEW result \in Results, NEW touched \in BOOLEAN,
         Gives(r, Returned(result), touched), ~touched => UNCHANGED auction,
         used \subseteq used', DOMAIN chans \subseteq DOMAIN chans',
         \/ counted' = counted /\ r \notin counted /\ result # "accepted"
         \/ counted' = counted \cup {r} /\ result \in {"accepted", "error", "gave_up"}
  PROVE  CallsAgree'
<1>1. /\ Returned(result) \in CallState /\ Returned(result).stage = "done"
      /\ Returned(result).result = result /\ Returned(result).tries < MaxRetries
  BY ReturnedDoes, StrategyBounds
<1>2. PICK c : c = Returned(result)
  OBVIOUS
<1> QED BY <1>1, <1>2, GivesKeepsCalls

(* A step keeps CallsAgree.                                                *)
LEMMA CallsStayTrue ==
  ASSUME TypeOK, CallsAgree, ChannelsAgree, QueuedOnce, Next
  PROVE  CallsAgree'
<1>1. ASSUME NEW r \in Requests, NEW i \in Instances, PlaceByScript(r, i)
      PROVE  CallsAgree'
  <2>1. /\ call[r].stage = "new" /\ used \subseteq used' /\ UNCHANGED chans
        /\ \/ /\ counted' = counted \cup {r}
              /\ \E result \in {"accepted", "error"} : Gives(r, Returned(result), TRUE)
           \/ /\ UNCHANGED redis
              /\ \E result \in Results \ {"accepted"} : Gives(r, Returned(result), FALSE)
    BY <1>1, PlaceByScriptDoes
  <2>2. r \notin counted /\ {"accepted", "error"} \subseteq Results
    BY <2>1 DEF CallsAgree, Results
  <2> QED BY <2>1, <2>2, ReturnKeepsCalls DEF redis
<1>2. ASSUME NEW r \in Requests, WatchAndRead(r), used \subseteq used', r \notin counted,
             call[r].result # "accepted", \E i \in Instances : <<"optimistic", i>> \in used'
      PROVE  CallsAgree'
  <2>1. UNCHANGED <<redis, chans>>
    BY <1>2, WatchAndReadDoes
  <2>2. PICK c \in CallState :
          /\ Gives(r, c, FALSE)
          /\ \/ \E result \in Results \ {"accepted"} : c = Returned(result)
             \/ /\ c.stage = "exec" /\ c.seen = auction
                /\ PlainVerdict(auction, Offer[r].amount) = "accepted"
                /\ c.tries = call[r].tries /\ c.result = call[r].result
    BY <1>2, WatchAndReadDoes
  <2>3. CASE \E result \in Results \ {"accepted"} : c = Returned(result)
    BY <1>2, <2>1, <2>2, <2>3, ReturnKeepsCalls DEF redis
  <2>4. CASE /\ c.stage = "exec" /\ c.seen = auction
             /\ PlainVerdict(auction, Offer[r].amount) = "accepted"
             /\ c.tries = call[r].tries /\ c.result = call[r].result
    <3>1. c.tries < MaxRetries
      BY <2>4 DEF CallsAgree
    <3> QED BY <1>2, <2>1, <2>2, <2>4, <3>1, GivesKeepsCalls DEF redis
  <2> QED BY <2>2, <2>3, <2>4
<1>3. ASSUME NEW r \in Requests, NEW i \in Instances, Watch(r, i)
      PROVE  CallsAgree'
  <2>1. /\ WatchAndRead(r) /\ used \subseteq used' /\ <<"optimistic", i>> \in used'
        /\ call[r].stage = "new"
    BY <1>3, StartsDoes DEF Watch, Strategies
  <2>2. r \notin counted /\ call[r].result # "accepted"
    BY <2>1 DEF CallsAgree
  <2> QED BY <1>2, <2>1, <2>2
<1>4. ASSUME NEW r \in Requests, Retry(r)
      PROVE  CallsAgree'
  <2>1. WatchAndRead(r) /\ used' = used /\ call[r].stage = "retry"
    BY <1>4 DEF Retry
  <2>2. /\ r \notin counted /\ call[r].result # "accepted"
        /\ \E i \in Instances : <<"optimistic", i>> \in used
    BY <2>1 DEF CallsAgree
  <2> QED BY <1>2, <2>1, <2>2
<1>5. ASSUME NEW r \in Requests, NEW i \in Instances, GetOrCreateChannel(r, i)
      PROVE  CallsAgree'
  <2>1. /\ call[r].stage = "new" /\ used \subseteq used' /\ UNCHANGED redis
        /\ DOMAIN chans \subseteq DOMAIN chans'
    BY <1>5, GetOrCreateChannelDoes
  <2>2. PICK c \in CallState :
          /\ Gives(r, c, FALSE) /\ c.stage = "sending" /\ c.chan \in DOMAIN chans'
          /\ c.tries = 0 /\ c.result = "none"
    BY <1>5, GetOrCreateChannelDoes
  <2>3. r \notin counted /\ 0 < MaxRetries
    BY <2>1, StrategyBounds DEF CallsAgree
  <2> QED BY <2>1, <2>2, <2>3, GivesKeepsCalls DEF redis
<1>6. ASSUME NEW r \in Requests, GiveUp(r)
      PROVE  CallsAgree'
  <2>1. /\ call[r].stage \in {"sending", "waiting"} /\ Gives(r, Returned("gave_up"), FALSE)
        /\ UNCHANGED <<redis, chans, used>> /\ "gave_up" \in Results
    BY <1>6, GiveUpDoes DEF Results
  <2>2. r \notin counted
    BY <2>1 DEF CallsAgree
  <2> QED BY <2>1, <2>2, ReturnKeepsCalls DEF redis
<1>7. ASSUME NEW r \in Requests, Exec(r)
      PROVE  CallsAgree'
  <2>1. /\ call[r].stage = "exec" /\ UNCHANGED <<chans, used>>
        /\ \/ /\ Written(r, call[r].seen)
              /\ \E result \in {"accepted", "error"} : Gives(r, Returned(result), TRUE)
           \/ UNCHANGED redis /\ Gives(r, Returned("error"), FALSE)
    BY <1>7, ExecDoes
  <2>2. r \notin counted /\ {"accepted", "error"} \subseteq Results
    BY <2>1 DEF CallsAgree, Results
  <2>3. Written(r, call[r].seen) => counted' = counted \cup {r}
    BY DEF Written
  <2> QED BY <2>1, <2>2, <2>3, ReturnKeepsCalls DEF redis
<1>8. ASSUME NEW r \in Requests, ExecFails(r)
      PROVE  CallsAgree'
  <2>1. /\ call[r].stage = "exec" /\ UNCHANGED <<redis, chans, used>>
    BY <1>8, ExecFailsDoes
  <2>2. PICK c \in CallState :
          /\ Gives(r, c, FALSE)
          /\ \/ c = Returned("busy")
             \/ c.stage = "retry" /\ c.tries < MaxRetries /\ c.result = call[r].result
    BY <1>8, ExecFailsDoes
  <2>3. /\ r \notin counted /\ "busy" \in Results /\ call[r].result # "accepted"
        /\ \E i \in Instances : <<"optimistic", i>> \in used
    BY <2>1 DEF CallsAgree, Results
  <2>4. CASE c = Returned("busy")
    BY <2>1, <2>2, <2>3, <2>4, ReturnKeepsCalls DEF redis
  <2>5. CASE c.stage = "retry" /\ c.tries < MaxRetries /\ c.result = call[r].result
    BY <2>1, <2>2, <2>3, <2>5, GivesKeepsCalls DEF redis
  <2> QED BY <2>2, <2>4, <2>5
<1>9. ASSUME NEW r \in Requests, SendRequest(r)
      PROVE  CallsAgree'
  <2>1. /\ call[r].stage = "sending" /\ UNCHANGED <<redis, used>> /\ DOMAIN chans' = DOMAIN chans
    BY <1>9, SendRequestDoes DEF Refills
  <2>2. PICK c \in CallState : /\ Gives(r, c, FALSE) /\ c.stage = "waiting"
                               /\ c.tries = call[r].tries /\ c.result = call[r].result
    BY <1>9, SendRequestDoes
  <2>3. r \notin counted /\ c.tries < MaxRetries /\ c.result # "accepted"
    BY <2>1, <2>2 DEF CallsAgree
  <2> QED BY <2>1, <2>2, <2>3, GivesKeepsCalls DEF redis
<1>10. ASSUME NEW r \in Requests, SendPanics(r)
       PROVE  CallsAgree'
  <2>1. /\ call[r].stage = "sending" /\ Gives(r, Returned("panicked"), FALSE)
        /\ UNCHANGED <<redis, chans, used>> /\ "panicked" \in Results
    BY <1>10, SendPanicsDoes DEF Results
  <2>2. r \notin counted
    BY <2>1 DEF CallsAgree
  <2> QED BY <2>1, <2>2, ReturnKeepsCalls DEF redis
<1>11. ASSUME NEW k \in DOMAIN chans, Receive(k)
       PROVE  CallsAgree'
  <2> DEFINE r == Head(chans[k].buffer)
  <2>1. /\ r \in Requests /\ UNCHANGED <<redis, used>> /\ DOMAIN chans' = DOMAIN chans
        /\ \/ UNCHANGED call
           \/ \E result \in Results \ {"accepted"} :
                Gives(r, Answered(call[r], result), FALSE)
    BY <1>11, ReceiveDoes DEF Refills
  <2> HIDE DEF r
  <2>2. CASE UNCHANGED call
    BY <2>1, <2>2, StillCallsKeepsCalls DEF redis
  <2>3. ASSUME NEW result \in Results \ {"accepted"}, Gives(r, Answered(call[r], result), FALSE)
        PROVE  CallsAgree'
    <3>1. CASE call[r].stage = "waiting"
      <4>1. r \notin counted /\ Gives(r, Returned(result), FALSE)
        BY <2>1, <2>3, <3>1 DEF CallsAgree, Answered
      <4> QED BY <2>1, <2>3, <4>1, ReturnKeepsCalls DEF redis
    <3>2. CASE call[r].stage # "waiting"
      <4>1. call' = call
        BY <2>1, <2>3, <3>2 DEF Gives, Answered, TypeOK
      <4> QED BY <2>1, <4>1, StillCallsKeepsCalls DEF redis
    <3> QED BY <3>1, <3>2
  <2> QED BY <2>1, <2>2, <2>3
<1>12. ASSUME NEW k \in DOMAIN chans, ProcessWrite(k)
       PROVE  CallsAgree'
  <2>1. PICK r \in chans[k].writes :
          /\ r \in Requests
          /\ Refills(k, chans[k].buffer, {}, NoHash)
          /\ UNCHANGED <<strategy, switches, channel, closing, outcome, used>>
          /\ \/ /\ Written(r, chans[k].seen)
                /\ \E result \in {"accepted", "error"} :
                     Gives(r, Answered(call[r], result), TRUE)
             \/ UNCHANGED redis /\ Gives(r, Answered(call[r], "error"), FALSE)
    BY <1>12, ProcessWriteDoes
  <2>2. Unwritten(r) /\ DOMAIN chans' = DOMAIN chans /\ used' = used
    BY <2>1 DEF QueuedOnce, Refills
  <2>3. "error" \in Results /\ "accepted" \in Results /\ call[r] \in CallState
    BY <2>1 DEF Results, TypeOK
  <2>4. Written(r, chans[k].seen) => counted' = counted \cup {r}
    BY DEF Written
  <2>5. CASE call[r].stage = "waiting"
    <3>1. \/ /\ Written(r, chans[k].seen)
             /\ \E result \in {"accepted", "error"} : Gives(r, Returned(result), TRUE)
          \/ UNCHANGED redis /\ Gives(r, Returned("error"), FALSE)
      BY <2>1, <2>5 DEF Answered
    <3> QED BY <2>1, <2>2, <2>3, <2>4, <3>1, ReturnKeepsCalls DEF redis, Unwritten
  <2>6. CASE call[r].stage = "done" /\ call[r].result = "gave_up"
    <3>1. \/ Written(r, chans[k].seen) /\ Gives(r, call[r], TRUE)
          \/ UNCHANGED redis /\ Gives(r, call[r], FALSE)
      BY <2>1, <2>6 DEF Answered
    <3>2. call[r].tries < MaxRetries /\ r \notin counted
      BY <2>1, <2>2 DEF CallsAgree, Unwritten
    <3> QED BY <2>1, <2>2, <2>3, <2>4, <2>6, <3>1, <3>2, GivesKeepsCalls DEF redis
  <2> QED BY <2>2, <2>5, <2>6 DEF Unwritten
<1>13. ASSUME NEW i \in Instances, NEW s \in Strategies, SetStrategy(i, s)
       PROVE  CallsAgree'
  BY <1>13, SetStrategyDoes, StillCallsKeepsCalls DEF redis
<1>14. ASSUME NEW i \in Instances, Stop(i)
       PROVE  CallsAgree'
  <2>1. UNCHANGED <<redis, call, used>> /\ DOMAIN chans' = DOMAIN chans
    BY <1>14, StopDoes
  <2> QED BY <2>1, StillCallsKeepsCalls DEF redis
<1>15. ASSUME Close
       PROVE  CallsAgree'
  BY <1>15, CloseDoes, TouchedCallsKeepsCalls
<1>16. ASSUME RollbackClose
       PROVE  CallsAgree'
  BY <1>16, RollbackCloseDoes, TouchedCallsKeepsCalls
<1>17. ASSUME Announce
       PROVE  CallsAgree'
  BY <1>17, AnnounceDoes, StillCallsKeepsCalls DEF redis
<1> QED BY <1>1, <1>3, <1>4, <1>5, <1>6, <1>7, <1>8, <1>9, <1>10, <1>11, <1>12, <1>13, <1>14,
           <1>15, <1>16, <1>17 DEF Next, Progress, Processor

-----------------------------------------------------------------------------
(* A step keeps the types.                                                 *)
LEMMA TypesStayTrue ==
  ASSUME TypeOK, CallsAgree, ChannelsAgree, Next
  PROVE  TypeOK'
<1>1. ASSUME NEW r \in Requests, NEW i \in Instances,
             PlaceByScript(r, i) \/ Watch(r, i) \/ GetOrCreateChannel(r, i)
      PROVE  TypeOK'
  <2>1. ASSUME Watch(r, i)
        PROVE  TypeOK'
    <3>1. used' \subseteq Strategies \X Instances /\ WatchAndRead(r)
      BY <2>1, StartsDoes DEF Watch, Strategies
    <3>2. /\ UNCHANGED <<redis, strategy, switches, channel, chans, closing, outcome, faults>>
          /\ call' \in [Requests -> CallState]
      BY <3>1, WatchAndReadDoes
    <3> QED BY <3>1, <3>2, TypesKept DEF TypeOK, redis
  <2> QED BY <1>1, <2>1, PlaceByScriptDoes, GetOrCreateChannelDoes
<1>2. ASSUME NEW r \in Requests, Retry(r)
      PROVE  TypeOK'
  <2>1. used' = used /\ WatchAndRead(r)
    BY <1>2 DEF Retry
  <2>2. /\ UNCHANGED <<redis, strategy, switches, channel, chans, closing, outcome, faults>>
        /\ call' \in [Requests -> CallState]
    BY <2>1, WatchAndReadDoes
  <2> QED BY <2>1, <2>2, TypesKept DEF TypeOK, redis
<1>3. ASSUME NEW r \in Requests,
             \/ Exec(r) \/ ExecFails(r) \/ SendRequest(r) \/ SendPanics(r) \/ GiveUp(r)
      PROVE  TypeOK'
  BY <1>3, ExecDoes, ExecFailsDoes, SendRequestDoes, SendPanicsDoes, GiveUpDoes
<1>4. ASSUME NEW k \in DOMAIN chans, Receive(k) \/ ProcessWrite(k)
      PROVE  TypeOK'
  BY <1>4, ReceiveDoes, ProcessWriteDoes
<1>5. ASSUME NEW i \in Instances, Stop(i) \/ \E s \in Strategies : SetStrategy(i, s)
      PROVE  TypeOK'
  BY <1>5, StopDoes, SetStrategyDoes
<1>6. ASSUME Close \/ RollbackClose \/ Announce
      PROVE  TypeOK'
  BY <1>6, CloseDoes, RollbackCloseDoes, AnnounceDoes
<1> QED BY <1>1, <1>2, <1>3, <1>4, <1>5, <1>6 DEF Next, Progress, Processor

-----------------------------------------------------------------------------
(* Channels change in a few ways: not at all, ...                          *)
LEMMA StillChannelsAgree ==
  ASSUME TypeOK, ChannelsAgree, UNCHANGED <<channel, closing>>, auction'.status = auction.status,
         used \subseteq used', DOMAIN chans' = DOMAIN chans,
         \A k \in DOMAIN chans :
           /\ chans'[k].at = chans[k].at /\ chans'[k].open = chans[k].open
           /\ chans'[k].writes # {} => chans[k].writes # {} \/ auction.status = "OPEN"
  PROVE  ChannelsAgree'
<1>1. /\ auction'.status = IF closing' = "open" THEN "OPEN" ELSE "CLOSED"
      /\ auction.status = IF closing = "open" THEN "OPEN" ELSE "CLOSED"
  BY DEF ChannelsAgree
<1>2. \A i \in Instances : channel[i] # 0 => channel[i] \in DOMAIN chans
  BY DEF TypeOK
<1>3. \A i \in Instances : channel'[i] # 0 => chans'[channel'[i]].at = i
  BY <1>2 DEF ChannelsAgree
<1>4. \A k \in DOMAIN chans' :
        /\ <<"queue", chans'[k].at>> \in used'
        /\ IF chans'[k].open THEN channel'[chans'[k].at] = k ELSE closing' = "stopped"
  BY DEF ChannelsAgree
<1>5. ASSUME NEW k \in DOMAIN chans', NEW l \in DOMAIN chans', ~chans'[k].open
      PROVE  /\ chans'[l].open \/ k = l
             /\ chans'[l].at = chans'[k].at => k = l \/ chans'[l].writes = {}
  <2>1. k \in DOMAIN chans /\ l \in DOMAIN chans /\ ~chans[k].open
    BY <1>5
  <2>2. closing = "stopped" /\ auction.status # "OPEN"
    BY <1>1, <2>1 DEF ChannelsAgree
  <2>3. /\ chans[l].open \/ k = l
        /\ chans[l].at = chans[k].at => k = l \/ chans[l].writes = {}
    BY <2>1 DEF ChannelsAgree
  <2> QED BY <2>1, <2>2, <2>3
<1> QED BY <1>1, <1>3, <1>4, <1>5 DEF ChannelsAgree

LEMMA SameChannelsAgree ==
  ASSUME TypeOK, ChannelsAgree, UNCHANGED <<channel, chans, closing>>,
         auction'.status = auction.status, used \subseteq used'
  PROVE  ChannelsAgree'
BY StillChannelsAgree

LEMMA RefilledChannelsAgree ==
  ASSUME TypeOK, ChannelsAgree, UNCHANGED <<channel, closing, used>>,
         auction'.status = auction.status,
         NEW k \in DOMAIN chans, NEW buffer, NEW writes, NEW seen,
         Refills(k, buffer, writes, seen),
         writes # {} => chans[k].writes # {} \/ auction.status = "OPEN"
  PROVE  ChannelsAgree'
<1>1. \A l \in DOMAIN chans :
        /\ chans'[l].at = chans[l].at /\ chans'[l].open = chans[l].open
        /\ chans'[l].writes # {} => chans[l].writes # {} \/ auction.status = "OPEN"
  BY DEF Refills
<1> QED BY <1>1, StillChannelsAgree DEF Refills

(* An open channel is the one in the map of its instance.                  *)
LEMMA OpenChannels ==
  ASSUME TypeOK, ChannelsAgree, NEW k \in DOMAIN chans
  PROVE  /\ k # 0 /\ chans[k].at \in Instances /\ <<"queue", chans[k].at>> \in used
         /\ chans[k].open => channel[chans[k].at] = k
         /\ ~chans[k].open => closing = "stopped"
<1>1. k # 0 /\ chans[k].at \in Instances
  <2>1. chans \in Seq(Channel)
    BY DEF TypeOK
  <2> QED BY <2>1, ChannelIsTyped
<1>2. /\ <<"queue", chans[k].at>> \in used
      /\ IF chans[k].open THEN channel[chans[k].at] = k ELSE closing = "stopped"
  BY DEF ChannelsAgree
<1> QED BY <1>1, <1>2

(* A step keeps ChannelsAgree.                                             *)
LEMMA ChannelsStayTrue ==
  ASSUME TypeOK, CallsAgree, ChannelsAgree, Next
  PROVE  ChannelsAgree'
<1>1. ASSUME NEW r \in Requests, NEW i \in Instances, PlaceByScript(r, i)
      PROVE  ChannelsAgree'
  <2>1. /\ UNCHANGED <<channel, chans, closing>> /\ used \subseteq used'
        /\ \/ auction' = HashAfter(auction, bids, Offer[r].bidder, Offer[r].amount)
           \/ UNCHANGED redis
    BY <1>1, PlaceByScriptDoes
  <2>2. HashAfter(auction, bids, Offer[r].bidder, Offer[r].amount).status = auction.status
    <3>1. auction \in AuctionHash /\ bids \in BidSet
      BY DEF TypeOK
    <3> QED BY <3>1, OfferIsTyped, ScriptIsTyped
  <2> QED BY <2>1, <2>2, SameChannelsAgree DEF redis
<1>2. ASSUME NEW r \in Requests, WatchAndRead(r), used \subseteq used'
      PROVE  ChannelsAgree'
  BY <1>2, WatchAndReadDoes, SameChannelsAgree DEF redis
<1>3. ASSUME NEW r \in Requests, NEW i \in Instances, Watch(r, i)
      PROVE  ChannelsAgree'
  BY <1>2, <1>3, StartsDoes DEF Watch, Strategies
<1>4. ASSUME NEW r \in Requests, Retry(r)
      PROVE  ChannelsAgree'
  BY <1>2, <1>4 DEF Retry
<1>5. ASSUME NEW r \in Requests, NEW i \in Instances, GetOrCreateChannel(r, i)
      PROVE  ChannelsAgree'
  <2>1. /\ used' = used \cup {<<"queue", i>>} /\ UNCHANGED <<redis, closing>>
        /\ \/ UNCHANGED <<channel, chans>>
           \/ /\ channel[i] = 0
              /\ Len(chans') = Len(chans) + 1 /\ DOMAIN chans' = DOMAIN chans \cup {Len(chans')}
              /\ \A k \in DOMAIN chans : chans'[k] = chans[k]
              /\ chans'[Len(chans')] = [at |-> i, open |-> TRUE, buffer |-> << >>,
                                        writes |-> {}, seen |-> NoHash]
              /\ channel' = [channel EXCEPT ![i] = Len(chans')]
    BY <1>5, GetOrCreateChannelDoes
  <2>2. CASE UNCHANGED <<channel, chans>>
    BY <2>1, <2>2, SameChannelsAgree DEF redis
  <2>3. ASSUME channel[i] = 0, NEW n, n = Len(chans'), n = Len(chans) + 1,
               DOMAIN chans' = DOMAIN chans \cup {n},
               \A k \in DOMAIN chans : chans'[k] = chans[k],
               chans'[n].at = i, chans'[n].open, chans'[n].writes = {},
               channel' = [channel EXCEPT ![i] = n]
        PROVE  ChannelsAgree'
    <3>1. /\ channel \in [Instances -> 0..Len(chans)] /\ n \notin DOMAIN chans /\ n # 0
          /\ \A k \in DOMAIN chans : chans[k].at \in Instances
      BY <2>3, ChannelIsTyped DEF TypeOK
    <3>2. auction'.status = IF closing' = "open" THEN "OPEN" ELSE "CLOSED"
      BY <2>1 DEF ChannelsAgree, redis
    <3>3. \A j \in Instances : channel'[j] # 0 => chans'[channel'[j]].at = j
      BY <2>3, <3>1 DEF ChannelsAgree
    <3>4. \A k \in DOMAIN chans : chans[k].open => chans[k].at # i
      BY <2>3, OpenChannels
    <3>5. ASSUME NEW k \in DOMAIN chans'
          PROVE  /\ <<"queue", chans'[k].at>> \in used'
                 /\ IF chans'[k].open THEN channel'[chans'[k].at] = k ELSE closing' = "stopped"
      <4>1. CASE k = n
        BY <2>1, <2>3, <3>1, <4>1
      <4>2. CASE k \in DOMAIN chans
        BY <2>1, <2>3, <3>1, <3>4, <4>2 DEF ChannelsAgree
      <4> QED BY <2>3, <4>1, <4>2
    <3>6. ASSUME NEW k \in DOMAIN chans', NEW l \in DOMAIN chans', ~chans'[k].open
          PROVE  /\ chans'[l].open \/ k = l
                 /\ chans'[l].at = chans'[k].at => k = l \/ chans'[l].writes = {}
      <4>1. k \in DOMAIN chans /\ ~chans[k].open /\ chans'[k] = chans[k]
        BY <2>3, <3>6
      <4>2. CASE l = n
        BY <2>3, <4>2
      <4>3. CASE l \in DOMAIN chans
        BY <2>3, <4>1, <4>3 DEF ChannelsAgree
      <4> QED BY <2>3, <4>2, <4>3
    <3> QED BY <3>2, <3>3, <3>5, <3>6 DEF ChannelsAgree
  <2> QED BY <2>1, <2>2, <2>3
<1>6. ASSUME NEW r \in Requests, GiveUp(r)
      PROVE  ChannelsAgree'
  BY <1>6, GiveUpDoes, SameChannelsAgree DEF redis
<1>7. ASSUME NEW r \in Requests, Exec(r)
      PROVE  ChannelsAgree'
  <2>1. /\ UNCHANGED <<channel, chans, closing, used>>
        /\ Written(r, call[r].seen) \/ UNCHANGED redis
    BY <1>7, ExecDoes
  <2>2. call[r].seen \in AuctionHash
    BY DEF TypeOK, CallState
  <2> QED BY <2>1, <2>2, WrittenDoes, SameChannelsAgree DEF redis
<1>8. ASSUME NEW r \in Requests, ExecFails(r)
      PROVE  ChannelsAgree'
  BY <1>8, ExecFailsDoes, SameChannelsAgree DEF redis
<1>9. ASSUME NEW r \in Requests, SendRequest(r)
      PROVE  ChannelsAgree'
  <2>1. UNCHANGED <<redis, channel, closing, used>>
    BY <1>9, SendRequestDoes
  <2>2. PICK k \in DOMAIN chans :
          Refills(k, Append(chans[k].buffer, r), chans[k].writes, chans[k].seen)
    BY <1>9, SendRequestDoes
  <2> QED BY <2>1, <2>2, RefilledChannelsAgree DEF redis
<1>10. ASSUME NEW r \in Requests, SendPanics(r)
       PROVE  ChannelsAgree'
  BY <1>10, SendPanicsDoes, SameChannelsAgree DEF redis
<1>11. ASSUME NEW k \in DOMAIN chans, Receive(k)
       PROVE  ChannelsAgree'
  <2>1. UNCHANGED <<redis, channel, closing, used>>
    BY <1>11, ReceiveDoes
  <2>2. PICK writes, seen :
          /\ Refills(k, Tail(chans[k].buffer), writes, seen)
          /\ writes # {} => auction.status = "OPEN"
    BY <1>11, ReceiveDoes, Verdicts
  <2> QED BY <2>1, <2>2, RefilledChannelsAgree DEF redis
<1>12. ASSUME NEW k \in DOMAIN chans, ProcessWrite(k)
       PROVE  ChannelsAgree'
  <2>1. PICK r \in Requests :
          /\ Refills(k, chans[k].buffer, {}, NoHash)
          /\ UNCHANGED <<channel, closing, used>>
          /\ Written(r, chans[k].seen) \/ UNCHANGED redis
    BY <1>12, ProcessWriteDoes
  <2>2. chans[k].seen \in AuctionHash
    BY ChannelIsTyped
  <2>3. auction'.status = auction.status
    BY <2>1, <2>2, WrittenDoes DEF redis
  <2> QED BY <2>1, <2>3, RefilledChannelsAgree
<1>13. ASSUME NEW i \in Instances, NEW s \in Strategies, SetStrategy(i, s)
       PROVE  ChannelsAgree'
  BY <1>13, SetStrategyDoes, SameChannelsAgree DEF redis
<1>14. ASSUME NEW i \in Instances, Stop(i)
       PROVE  ChannelsAgree'
  <2>1. /\ closing = "announced" /\ closing' = "stopped" /\ UNCHANGED <<redis, used>>
        /\ \/ UNCHANGED <<channel, chans>>
           \/ /\ channel[i] \in DOMAIN chans /\ channel' = [channel EXCEPT ![i] = 0]
              /\ Len(chans') = Len(chans) /\ DOMAIN chans' = DOMAIN chans
              /\ \A l \in DOMAIN chans :
                   /\ chans'[l].at = chans[l].at /\ chans'[l].buffer = chans[l].buffer
                   /\ chans'[l].writes = chans[l].writes /\ chans'[l].seen = chans[l].seen
                   /\ chans'[l].open = (l # channel[i] /\ chans[l].open)
    BY <1>14, StopDoes
  <2>2. /\ \A l \in DOMAIN chans : chans[l].open /\ channel[chans[l].at] = l
        /\ channel \in [Instances -> 0..Len(chans)]
        /\ \A l \in DOMAIN chans : chans[l].at \in Instances /\ l # 0
    <3>1. channel \in [Instances -> 0..Len(chans)]
      BY DEF TypeOK
    <3> QED BY <2>1, <3>1, OpenChannels
  <2>3. auction'.status = IF closing' = "open" THEN "OPEN" ELSE "CLOSED"
    BY <2>1 DEF ChannelsAgree, redis
  <2>4. CASE UNCHANGED <<channel, chans>>
    BY <2>1, <2>2, <2>3, <2>4 DEF ChannelsAgree
  <2>5. CASE /\ channel[i] \in DOMAIN chans /\ channel' = [channel EXCEPT ![i] = 0]
             /\ DOMAIN chans' = DOMAIN chans
             /\ \A l \in DOMAIN chans :
                  /\ chans'[l].at = chans[l].at /\ chans'[l].writes = chans[l].writes
                  /\ chans'[l].open = (l # channel[i] /\ chans[l].open)
    <3>1. PICK k \in DOMAIN chans : k = channel[i] /\ chans[k].at = i
      BY <2>2, <2>5 DEF ChannelsAgree
    <3>2. \A j \in Instances : channel'[j] # 0 => channel'[j] = channel[j] /\ j # i
      BY <2>2, <2>5
    <3>3. \A j \in Instances : channel'[j] # 0 => chans'[channel'[j]].at = j
      <4>1. \A j \in Instances : channel[j] # 0 => channel[j] \in DOMAIN chans
        BY DEF TypeOK
      <4> QED BY <2>5, <3>2, <4>1 DEF ChannelsAgree
    <3>4. \A l \in DOMAIN chans : l # k => chans[l].at # i
      BY <2>2, <3>1
    <3>5. ASSUME NEW l \in DOMAIN chans'
          PROVE  /\ <<"queue", chans'[l].at>> \in used'
                 /\ IF chans'[l].open THEN channel'[chans'[l].at] = l ELSE closing' = "stopped"
      <4>1. <<"queue", chans'[l].at>> \in used'
        BY <2>1, <2>5, OpenChannels
      <4>2. chans'[l].open => l # k
        BY <2>5, <3>1
      <4>3. l # k => channel'[chans'[l].at] = l
        BY <2>2, <2>5, <3>4
      <4> QED BY <2>1, <4>1, <4>2, <4>3
    <3>6. \A l \in DOMAIN chans' : ~chans'[l].open => l = k
      BY <2>2, <2>5, <3>1
    <3>7. \A l, m \in DOMAIN chans' : ~chans'[l].open =>
            /\ chans'[m].open \/ l = m
            /\ chans'[m].at = chans'[l].at => l = m \/ chans'[m].writes = {}
      BY <2>2, <2>5, <3>1, <3>4, <3>6
    <3> QED BY <2>3, <3>3, <3>5, <3>7 DEF ChannelsAgree
  <2> QED BY <2>1, <2>4, <2>5
<1>15. ASSUME Close \/ RollbackClose
       PROVE  ChannelsAgree'
  <2>1. /\ UNCHANGED <<channel, chans, used>> /\ closing # "stopped" /\ closing' # "stopped"
        /\ auction'.status = IF closing' = "open" THEN "OPEN" ELSE "CLOSED"
    <3>1. auction.status = IF closing = "open" THEN "OPEN" ELSE "CLOSED"
      BY DEF ChannelsAgree
    <3> QED BY <1>15, <3>1, CloseDoes, RollbackCloseDoes, StatusesDo DEF TypeOK
  <2> QED BY <2>1 DEF ChannelsAgree
<1>16. ASSUME Announce
       PROVE  ChannelsAgree'
  <2>1. /\ UNCHANGED <<redis, channel, chans, used>>
        /\ closing = "closed" /\ closing' = "announced"
    BY <1>16, AnnounceDoes
  <2> QED BY <2>1 DEF ChannelsAgree, redis
<1> QED BY <1>1, <1>3, <1>4, <1>5, <1>6, <1>7, <1>8, <1>9, <1>10, <1>11, <1>12, <1>13, <1>14,
           <1>15, <1>16 DEF Next, Progress, Processor

-----------------------------------------------------------------------------
(* Two places never hold the same request.                                 *)
LEMMA PlacesDiffer ==
  ASSUME QueuedOnce, NEW k \in DOMAIN chans, NEW m \in DOMAIN chans[k].buffer,
         NEW l \in DOMAIN chans
  PROVE  /\ chans[k].buffer[m] \notin chans[l].writes
         /\ \A n \in DOMAIN chans[l].buffer :
              chans[k].buffer[m] = chans[l].buffer[n] => k = l /\ m = n
BY DEF QueuedOnce

(* A request stays where it is in its channel, ...                         *)
LEMMA StillQueuedOnce ==
  ASSUME TypeOK, QueuedOnce,
         \A q \in Requests : Unwritten(q) => Unwritten(q)',
         DOMAIN chans \subseteq DOMAIN chans',
         \A k \in DOMAIN chans :
           /\ chans'[k].buffer = chans[k].buffer
           /\ chans'[k].writes = chans[k].writes /\ chans'[k].seen = chans[k].seen,
         \A k \in DOMAIN chans' \ DOMAIN chans :
           chans'[k].buffer = << >> /\ chans'[k].writes = {}
  PROVE  QueuedOnce'
<1>1. /\ \A k \in DOMAIN chans : \A m \in DOMAIN chans[k].buffer : chans[k].buffer[m] \in Requests
      /\ \A k \in DOMAIN chans : chans[k].writes \subseteq Requests
  BY ChannelIsTyped
<1>2. \A k \in DOMAIN chans' \ DOMAIN chans : DOMAIN chans'[k].buffer = {}
  OBVIOUS
<1>3. ASSUME NEW k \in DOMAIN chans', NEW l \in DOMAIN chans',
             NEW m \in DOMAIN chans'[k].buffer, NEW r, r = chans'[k].buffer[m]
      PROVE  /\ Unwritten(r)' /\ r \notin chans'[l].writes
             /\ \A n \in DOMAIN chans'[l].buffer : r = chans'[l].buffer[n] => k = l /\ m = n
  <2>1. k \in DOMAIN chans /\ m \in DOMAIN chans[k].buffer
    BY <1>2, <1>3
  <2>2. r = chans[k].buffer[m] /\ r \in Requests
    BY <1>1, <1>3, <2>1
  <2>3. Unwritten(r)'
    BY <2>1, <2>2 DEF QueuedOnce
  <2>4. CASE l \in DOMAIN chans
    BY <2>1, <2>2, <2>3, <2>4, PlacesDiffer
  <2>5. CASE l \notin DOMAIN chans
    BY <1>2, <2>3, <2>5
  <2> QED BY <2>4, <2>5
<1>4. ASSUME NEW k \in DOMAIN chans', NEW l \in DOMAIN chans', NEW r \in chans'[k].writes
      PROVE  /\ Unwritten(r)' /\ PlainVerdict(chans'[k].seen, Offer[r].amount) = "accepted"
             /\ \A s \in chans'[l].writes : (r = s) <=> (k = l)
  <2>1. k \in DOMAIN chans /\ r \in chans[k].writes /\ r \in Requests
    BY <1>1, <1>4
  <2>2. Unwritten(r)' /\ PlainVerdict(chans'[k].seen, Offer[r].amount) = "accepted"
    BY <2>1 DEF QueuedOnce
  <2>3. \A s \in chans'[l].writes : l \in DOMAIN chans
    OBVIOUS
  <2> QED BY <2>1, <2>2, <2>3 DEF QueuedOnce
<1> QED BY <1>3, <1>4 DEF QueuedOnce

LEMMA OthersUnwritten ==
  ASSUME TypeOK, NEW r \in Requests, NEW c \in CallState, NEW touched \in BOOLEAN,
         Gives(r, c, touched), counted' = counted \/ counted' = counted \cup {r}
  PROVE  \A q \in Requests : q # r => (Unwritten(q) => Unwritten(q)')
<1> SUFFICES ASSUME NEW q \in Requests, q # r, Unwritten(q)
             PROVE  Unwritten(q)'
  OBVIOUS
<1>1. SameBut(call[q], call'[q])
  BY GivesDoes
<1> QED BY <1>1 DEF Unwritten, SameBut

LEMMA UnqueuedCallsKeepQueue ==
  ASSUME TypeOK, QueuedOnce, UNCHANGED chans,
         NEW r \in Requests, ~Unwritten(r) \/ Unwritten(r)',
         NEW c \in CallState, NEW touched \in BOOLEAN, Gives(r, c, touched),
         counted' = counted \/ counted' = counted \cup {r}
  PROVE  QueuedOnce'
<1>1. \A q \in Requests : Unwritten(q) => Unwritten(q)'
  BY OthersUnwritten
<1> QED BY <1>1, StillQueuedOnce

(* ... is appended to one, ...                                             *)
LEMMA SendKeepsQueue ==
  ASSUME TypeOK, CallsAgree, QueuedOnce, NEW r \in Requests, SendRequest(r)
  PROVE  QueuedOnce'
<1>1. call[r].stage = "sending" /\ UNCHANGED redis /\ r \notin counted
  BY SendRequestDoes DEF CallsAgree
<1>2. PICK c \in CallState : Gives(r, c, FALSE) /\ c.stage = "waiting"
  BY SendRequestDoes
<1>3. PICK k \in DOMAIN chans :
        Refills(k, Append(chans[k].buffer, r), chans[k].writes, chans[k].seen)
  BY SendRequestDoes
<1>4. ~Unwritten(r) /\ Unwritten(r)'
  <2>1. SameBut(c, call'[r])
    BY <1>2, GivesDoes
  <2> QED BY <1>1, <1>2, <2>1 DEF Unwritten, SameBut, redis
<1>5. \A q \in Requests : q # r => (Unwritten(q) => Unwritten(q)')
  BY <1>1, <1>2, OthersUnwritten DEF redis
<1>6. /\ \A l \in DOMAIN chans : \A m \in DOMAIN chans[l].buffer :
           /\ chans[l].buffer[m] \in Requests /\ chans[l].buffer[m] # r
           /\ Unwritten(chans[l].buffer[m])
      /\ \A l \in DOMAIN chans : \A s \in chans[l].writes :
           s \in Requests /\ s # r /\ Unwritten(s)
  BY <1>4, ChannelIsTyped DEF QueuedOnce
<1>7. /\ DOMAIN chans' = DOMAIN chans
      /\ \A l \in DOMAIN chans :
           chans'[l].writes = chans[l].writes /\ chans'[l].seen = chans[l].seen
  BY <1>3 DEF Refills
<1> DEFINE last == Len(chans[k].buffer) + 1
<1>8. ASSUME NEW l \in DOMAIN chans, NEW m \in DOMAIN chans'[l].buffer
      PROVE  \/ l = k /\ m = last /\ chans'[l].buffer[m] = r
             \/ /\ m \in DOMAIN chans[l].buffer /\ chans'[l].buffer[m] = chans[l].buffer[m]
                /\ chans'[l].buffer[m] # r
  <2>1. CASE l # k
    BY <1>3, <1>6, <1>8, <2>1 DEF Refills
  <2>2. CASE l = k
    <3>1. chans[k].buffer \in Seq(Requests) /\ chans'[k].buffer = Append(chans[k].buffer, r)
      BY <1>3, ChannelIsTyped DEF Refills
    <3> QED BY <1>6, <1>8, <2>2, <3>1
  <2> QED BY <2>1, <2>2
<1> HIDE DEF last
<1>9. ASSUME NEW l \in DOMAIN chans', NEW j \in DOMAIN chans', NEW m \in DOMAIN chans'[l].buffer,
             NEW q, q = chans'[l].buffer[m]
      PROVE  /\ Unwritten(q)' /\ q \notin chans'[j].writes
             /\ \A n \in DOMAIN chans'[j].buffer : q = chans'[j].buffer[n] => l = j /\ m = n
  <2>1. CASE l = k /\ m = last /\ q = r
    <3>1. \A n \in DOMAIN chans'[j].buffer : q = chans'[j].buffer[n] => j = k /\ n = last
      BY <1>7, <1>8, <2>1
    <3> QED BY <1>4, <1>6, <1>7, <2>1, <3>1
  <2>2. CASE m \in DOMAIN chans[l].buffer /\ q = chans[l].buffer[m] /\ q # r
    <3>1. l \in DOMAIN chans /\ j \in DOMAIN chans
      BY <1>7
    <3>2. Unwritten(q)'
      BY <1>5, <1>6, <2>2, <3>1
    <3>3. q \notin chans'[j].writes
      BY <1>7, <2>2, <3>1, PlacesDiffer
    <3>4. ASSUME NEW n \in DOMAIN chans'[j].buffer, q = chans'[j].buffer[n]
          PROVE  l = j /\ m = n
      <4>1. n \in DOMAIN chans[j].buffer /\ q = chans[j].buffer[n]
        BY <1>8, <2>2, <3>1, <3>4
      <4> QED BY <2>2, <3>1, <4>1, PlacesDiffer
    <3> QED BY <3>2, <3>3, <3>4
  <2> QED BY <1>7, <1>8, <1>9, <2>1, <2>2
<1>10. ASSUME NEW l \in DOMAIN chans', NEW j \in DOMAIN chans', NEW s \in chans'[l].writes
       PROVE  /\ Unwritten(s)' /\ PlainVerdict(chans'[l].seen, Offer[s].amount) = "accepted"
              /\ \A t \in chans'[j].writes : (s = t) <=> (l = j)
  BY <1>5, <1>6, <1>7 DEF QueuedOnce
<1> QED BY <1>9, <1>10 DEF QueuedOnce

(* ... is taken from it, ...                                               *)
LEMMA ReceiveKeepsQueue ==
  ASSUME TypeOK, QueuedOnce, NEW k \in DOMAIN chans, Receive(k)
  PROVE  QueuedOnce'
<1>1. PICK r : r = Head(chans[k].buffer)
  OBVIOUS
<1>2. /\ r \in Requests /\ chans[k].writes = {} /\ UNCHANGED redis
      /\ chans[k].buffer \in Seq(Requests) /\ chans[k].buffer # << >>
  BY <1>1, ReceiveDoes, ChannelIsTyped
<1>3. /\ 1 \in DOMAIN chans[k].buffer /\ r = chans[k].buffer[1]
      /\ \A m \in DOMAIN Tail(chans[k].buffer) :
           /\ m + 1 \in DOMAIN chans[k].buffer /\ m \in Nat /\ m + 1 # 1
           /\ Tail(chans[k].buffer)[m] = chans[k].buffer[m + 1]
  BY <1>1, <1>2
<1>4. PICK writes, seen :
        /\ Refills(k, Tail(chans[k].buffer), writes, seen)
        /\ \/ writes = {r} /\ PlainVerdict(seen, Offer[r].amount) = "accepted" /\ UNCHANGED call
           \/ /\ writes = {}
              /\ \E result \in Results : Gives(r, Answered(call[r], result), FALSE)
  BY <1>1, ReceiveDoes
<1>5. \A q \in Requests : q # r => (Unwritten(q) => Unwritten(q)')
  <2>1. CASE UNCHANGED call
    BY <1>2, <2>1 DEF Unwritten, redis
  <2>2. CASE \E result \in Results : Gives(r, Answered(call[r], result), FALSE)
    BY <1>2, <2>2, AnswerDoes, OthersUnwritten DEF redis
  <2> QED BY <1>4, <2>1, <2>2
<1>6. Unwritten(r)
  BY <1>3 DEF QueuedOnce
<1>7. writes # {} => writes = {r} /\ Unwritten(r)'
  BY <1>2, <1>4, <1>6 DEF Unwritten, redis
<1>8. /\ DOMAIN chans' = DOMAIN chans
      /\ \A l \in DOMAIN chans : l # k => chans'[l] = chans[l]
      /\ chans'[k].buffer = Tail(chans[k].buffer)
      /\ chans'[k].writes = writes /\ chans'[k].seen = seen
  BY <1>4 DEF Refills
<1> DEFINE shift(l, m) == IF l = k THEN m + 1 ELSE m
<1>9. ASSUME NEW l \in DOMAIN chans, NEW m \in DOMAIN chans'[l].buffer
      PROVE  /\ m \in Nat
             /\ shift(l, m) \in DOMAIN chans[l].buffer
             /\ chans'[l].buffer[m] = chans[l].buffer[shift(l, m)]
             /\ chans'[l].buffer[m] \in Requests /\ chans'[l].buffer[m] # r
  <2>1. chans[l].buffer \in Seq(Requests)
    BY ChannelIsTyped
  <2>2. CASE l = k
    <3>1. m \in DOMAIN Tail(chans[k].buffer) /\ chans'[l].buffer[m] = chans[k].buffer[m + 1]
      BY <1>3, <1>8, <1>9, <2>2
    <3>2. shift(l, m) = m + 1 /\ m + 1 \in DOMAIN chans[k].buffer /\ m \in Nat /\ m + 1 # 1
      BY <1>3, <2>2, <3>1
    <3>3. chans[k].buffer[m + 1] # r
      BY <1>3, <3>2, PlacesDiffer
    <3>4. chans[k].buffer[m + 1] \in Requests
      BY <1>2, <3>2
    <3> QED BY <2>2, <3>1, <3>2, <3>3, <3>4
  <2>3. CASE l # k
    <3>1. shift(l, m) = m /\ chans'[l] = chans[l] /\ m \in DOMAIN chans[l].buffer /\ m \in Nat
      BY <1>8, <1>9, <2>1, <2>3
    <3>2. chans[l].buffer[m] # r
      BY <1>3, <2>3, <3>1, PlacesDiffer
    <3> QED BY <2>1, <3>1, <3>2
  <2> QED BY <2>2, <2>3
<1>10. \A l, j \in DOMAIN chans, m, n \in Nat : l = j /\ shift(l, m) = shift(j, n) => m = n
  OBVIOUS
<1> HIDE DEF shift
<1>11. \A l \in DOMAIN chans : \A s : s \in chans'[l].writes =>
         s \in Requests /\ (IF l = k THEN s = r ELSE s \in chans[l].writes /\ s # r)
  <2>1. \A l \in DOMAIN chans : r \notin chans[l].writes /\ chans[l].writes \subseteq Requests
    BY <1>3, ChannelIsTyped DEF QueuedOnce
  <2> QED BY <1>2, <1>7, <1>8, <2>1
<1>12. ASSUME NEW l \in DOMAIN chans', NEW j \in DOMAIN chans', NEW m \in DOMAIN chans'[l].buffer,
              NEW q, q = chans'[l].buffer[m]
       PROVE  /\ Unwritten(q)' /\ q \notin chans'[j].writes
              /\ \A n \in DOMAIN chans'[j].buffer : q = chans'[j].buffer[n] => l = j /\ m = n
  <2>1. q \in Requests /\ q # r /\ l \in DOMAIN chans /\ j \in DOMAIN chans
    BY <1>8, <1>9, <1>12
  <2>2. PICK x \in DOMAIN chans[l].buffer : x = shift(l, m) /\ q = chans[l].buffer[x]
    BY <1>9, <1>12, <2>1
  <2>3. Unwritten(q)'
    BY <1>5, <2>1, <2>2 DEF QueuedOnce
  <2>4. q \notin chans'[j].writes
    BY <1>11, <2>1, <2>2, PlacesDiffer
  <2>5. ASSUME NEW n \in DOMAIN chans'[j].buffer, q = chans'[j].buffer[n]
        PROVE  l = j /\ m = n
    <3>1. PICK y \in DOMAIN chans[j].buffer : y = shift(j, n) /\ q = chans[j].buffer[y]
      BY <1>9, <2>1, <2>5
    <3>2. l = j /\ x = y
      <4>1. \A z \in DOMAIN chans[j].buffer :
              chans[l].buffer[x] = chans[j].buffer[z] => l = j /\ x = z
        BY <2>1, PlacesDiffer
      <4> QED BY <2>2, <3>1, <4>1
    <3>3. m \in Nat /\ n \in Nat
      BY <1>9, <2>1
    <3> QED BY <1>10, <2>1, <2>2, <3>1, <3>2, <3>3
  <2> QED BY <2>3, <2>4, <2>5
<1>13. ASSUME NEW l \in DOMAIN chans', NEW j \in DOMAIN chans', NEW s \in chans'[l].writes
       PROVE  /\ Unwritten(s)' /\ PlainVerdict(chans'[l].seen, Offer[s].amount) = "accepted"
              /\ \A t \in chans'[j].writes : (s = t) <=> (l = j)
  <2>1. CASE l = k
    <3>1. s = r /\ writes # {}
      BY <1>8, <1>11, <2>1
    <3>2. Unwritten(s)' /\ PlainVerdict(chans'[l].seen, Offer[s].amount) = "accepted"
      BY <1>4, <1>7, <1>8, <2>1, <3>1
    <3> QED BY <1>8, <1>11, <2>1, <3>1, <3>2
  <2>2. CASE l # k
    <3>1. s \in chans[l].writes /\ s # r /\ s \in Requests /\ chans'[l] = chans[l]
      BY <1>8, <1>11, <2>2
    <3>2. Unwritten(s)' /\ PlainVerdict(chans'[l].seen, Offer[s].amount) = "accepted"
      BY <1>5, <1>8, <3>1 DEF QueuedOnce
    <3>3. ASSUME NEW t \in chans'[j].writes
          PROVE  (s = t) <=> (l = j)
      <4>1. CASE j = k
        BY <1>8, <1>11, <2>2, <3>1, <4>1
      <4>2. CASE j # k
        BY <1>8, <1>11, <3>1, <4>2 DEF QueuedOnce
      <4> QED BY <4>1, <4>2
    <3> QED BY <3>2, <3>3
  <2> QED BY <2>1, <2>2
<1> QED BY <1>12, <1>13 DEF QueuedOnce

(* ... and leaves it for good when it is written.                          *)
LEMMA WriteKeepsQueue ==
  ASSUME TypeOK, QueuedOnce, NEW k \in DOMAIN chans, ProcessWrite(k)
  PROVE  QueuedOnce'
<1>1. PICK r \in chans[k].writes :
        /\ r \in Requests
        /\ Refills(k, chans[k].buffer, {}, NoHash)
        /\ \/ /\ Written(r, chans[k].seen)
              /\ \E result \in {"accepted", "error"} :
                   Gives(r, Answered(call[r], result), TRUE)
           \/ UNCHANGED redis /\ Gives(r, Answered(call[r], "error"), FALSE)
  BY ProcessWriteDoes
<1>2. \A q \in Requests : q # r => (Unwritten(q) => Unwritten(q)')
  <2>1. counted' = counted \/ counted' = counted \cup {r}
    BY <1>1 DEF Written, redis
  <2>2. {"accepted", "error"} \subseteq Results
    BY DEF Results
  <2> QED BY <1>1, <2>1, <2>2, AnswerDoes, OthersUnwritten
<1>3. /\ \A l \in DOMAIN chans : \A m \in DOMAIN chans[l].buffer :
           /\ chans[l].buffer[m] \in Requests /\ chans[l].buffer[m] # r
           /\ Unwritten(chans[l].buffer[m])
      /\ \A l \in DOMAIN chans : l # k => \A s \in chans[l].writes :
           s \in Requests /\ s # r /\ Unwritten(s)
  BY <1>1, ChannelIsTyped DEF QueuedOnce
<1>4. /\ DOMAIN chans' = DOMAIN chans
      /\ \A l \in DOMAIN chans : chans'[l].buffer = chans[l].buffer
      /\ \A l \in DOMAIN chans : l # k =>
           chans'[l].writes = chans[l].writes /\ chans'[l].seen = chans[l].seen
      /\ chans'[k].writes = {}
  BY <1>1 DEF Refills
<1>5. ASSUME NEW l \in DOMAIN chans', NEW j \in DOMAIN chans', NEW m \in DOMAIN chans'[l].buffer,
             NEW q, q = chans'[l].buffer[m]
      PROVE  /\ Unwritten(q)' /\ q \notin chans'[j].writes
             /\ \A n \in DOMAIN chans'[j].buffer : q = chans'[j].buffer[n] => l = j /\ m = n
  <2>1. /\ l \in DOMAIN chans /\ j \in DOMAIN chans /\ m \in DOMAIN chans[l].buffer
        /\ q = chans[l].buffer[m]
    BY <1>4, <1>5
  <2>2. Unwritten(q)'
    BY <1>2, <1>3, <2>1
  <2>3. q \notin chans'[j].writes
    BY <1>4, <2>1, PlacesDiffer
  <2>4. ASSUME NEW n \in DOMAIN chans'[j].buffer, q = chans'[j].buffer[n]
        PROVE  l = j /\ m = n
    <3>1. chans'[j].buffer = chans[j].buffer
      BY <1>4, <2>1
    <3>2. n \in DOMAIN chans[j].buffer /\ chans[l].buffer[m] = chans[j].buffer[n]
      BY <2>1, <2>4, <3>1
    <3> QED BY <2>1, <3>2, PlacesDiffer
  <2> QED BY <2>2, <2>3, <2>4
<1>6. ASSUME NEW l \in DOMAIN chans', NEW j \in DOMAIN chans', NEW s \in chans'[l].writes
      PROVE  /\ Unwritten(s)' /\ PlainVerdict(chans'[l].seen, Offer[s].amount) = "accepted"
             /\ \A t \in chans'[j].writes : (s = t) <=> (l = j)
  <2>1. l # k /\ l \in DOMAIN chans /\ s \in chans[l].writes
    BY <1>4
  <2> QED BY <1>2, <1>3, <1>4, <2>1 DEF QueuedOnce
<1> QED BY <1>5, <1>6 DEF QueuedOnce

(* A step keeps QueuedOnce.                                                *)
LEMMA QueueStaysTrue ==
  ASSUME TypeOK, CallsAgree, ChannelsAgree, QueuedOnce, Next
  PROVE  QueuedOnce'
<1>1. ASSUME NEW r \in Requests, NEW i \in Instances, PlaceByScript(r, i)
      PROVE  QueuedOnce'
  <2>1. call[r].stage = "new" /\ UNCHANGED chans
    BY <1>1, PlaceByScriptDoes
  <2>2. PICK result \in Results, touched \in BOOLEAN :
          /\ Gives(r, Returned(result), touched)
          /\ counted' = counted \/ counted' = counted \cup {r}
    BY <1>1, PlaceByScriptDoes DEF redis, Results
  <2> QED BY <2>1, <2>2, ReturnedDoes, UnqueuedCallsKeepQueue DEF Unwritten
<1>2. ASSUME NEW r \in Requests, WatchAndRead(r), call[r].stage \in {"new", "retry"}
      PROVE  QueuedOnce'
  <2>1. PICK c \in CallState : Gives(r, c, FALSE) /\ UNCHANGED <<redis, chans>>
    BY <1>2, WatchAndReadDoes
  <2> QED BY <1>2, <2>1, UnqueuedCallsKeepQueue DEF Unwritten, redis
<1>3. ASSUME NEW r \in Requests, NEW i \in Instances, Watch(r, i)
      PROVE  QueuedOnce'
  BY <1>2, <1>3, StartsDoes DEF Watch, Strategies
<1>4. ASSUME NEW r \in Requests, Retry(r)
      PROVE  QueuedOnce'
  BY <1>2, <1>4 DEF Retry
<1>5. ASSUME NEW r \in Requests, NEW i \in Instances, GetOrCreateChannel(r, i)
      PROVE  QueuedOnce'
  <2>1. PICK c \in CallState :
          Gives(r, c, FALSE) /\ call[r].stage = "new" /\ UNCHANGED redis
    BY <1>5, GetOrCreateChannelDoes
  <2>2. \A q \in Requests : Unwritten(q) => Unwritten(q)'
    BY <2>1, OthersUnwritten DEF Unwritten, redis
  <2>3. /\ DOMAIN chans \subseteq DOMAIN chans'
        /\ \A k \in DOMAIN chans : chans'[k] = chans[k]
        /\ \A k \in DOMAIN chans' \ DOMAIN chans :
             chans'[k].buffer = << >> /\ chans'[k].writes = {}
    <3>1. CASE UNCHANGED chans
      BY <3>1
    <3>2. CASE /\ DOMAIN chans' = DOMAIN chans \cup {Len(chans')}
               /\ \A k \in DOMAIN chans : chans'[k] = chans[k]
               /\ chans'[Len(chans')] = [at |-> i, open |-> TRUE, buffer |-> << >>,
                                         writes |-> {}, seen |-> NoHash]
      <4>1. chans'[Len(chans')].buffer = << >> /\ chans'[Len(chans')].writes = {}
        BY <3>2
      <4>2. PICK n : n = Len(chans')
        OBVIOUS
      <4> QED BY <3>2, <4>1, <4>2
    <3>3. \/ UNCHANGED chans
          \/ /\ DOMAIN chans' = DOMAIN chans \cup {Len(chans')}
             /\ \A k \in DOMAIN chans : chans'[k] = chans[k]
             /\ chans'[Len(chans')] = [at |-> i, open |-> TRUE, buffer |-> << >>,
                                       writes |-> {}, seen |-> NoHash]
      BY <1>5, GetOrCreateChannelDoes
    <3> QED BY <3>1, <3>2, <3>3
  <2> QED BY <2>2, <2>3, StillQueuedOnce
<1>6. ASSUME NEW r \in Requests, GiveUp(r)
      PROVE  QueuedOnce'
  <2>1. /\ Gives(r, Returned("gave_up"), FALSE) /\ UNCHANGED <<redis, chans>>
        /\ "gave_up" \in Results
    BY <1>6, GiveUpDoes DEF Results
  <2>2. SameBut(Returned("gave_up"), call'[r])
    BY <2>1, ReturnedDoes, GivesDoes
  <2>3. ~Unwritten(r) \/ Unwritten(r)'
    BY <2>1, <2>2, ReturnedDoes DEF Unwritten, SameBut, redis
  <2> QED BY <2>1, <2>3, ReturnedDoes, UnqueuedCallsKeepQueue DEF redis
<1>7. ASSUME NEW r \in Requests, Exec(r)
      PROVE  QueuedOnce'
  <2>1. call[r].stage = "exec" /\ UNCHANGED chans
    BY <1>7, ExecDoes
  <2>2. PICK result \in Results, touched \in BOOLEAN :
          /\ Gives(r, Returned(result), touched)
          /\ counted' = counted \/ counted' = counted \cup {r}
    BY <1>7, ExecDoes DEF redis, Results, Written
  <2> QED BY <2>1, <2>2, ReturnedDoes, UnqueuedCallsKeepQueue DEF Unwritten
<1>8. ASSUME NEW r \in Requests, ExecFails(r)
      PROVE  QueuedOnce'
  <2>1. PICK c \in CallState :
          Gives(r, c, FALSE) /\ call[r].stage = "exec" /\ UNCHANGED <<redis, chans>>
    BY <1>8, ExecFailsDoes
  <2> QED BY <2>1, UnqueuedCallsKeepQueue DEF Unwritten, redis
<1>9. ASSUME NEW r \in Requests, SendPanics(r)
      PROVE  QueuedOnce'
  <2>1. /\ Gives(r, Returned("panicked"), FALSE) /\ UNCHANGED <<redis, chans>>
        /\ "panicked" \in Results /\ call[r].stage = "sending"
    BY <1>9, SendPanicsDoes DEF Results
  <2> QED BY <2>1, ReturnedDoes, UnqueuedCallsKeepQueue DEF Unwritten, redis
<1>10. ASSUME UNCHANGED <<counted, chans>>, call' = call \/ call' = Touched(call)
       PROVE  QueuedOnce'
  <2>1. \A q \in Requests : SameBut(call[q], call'[q])
    BY <1>10, TouchedDoes DEF TypeOK, SameBut
  <2>2. \A q \in Requests : Unwritten(q) => Unwritten(q)'
    BY <1>10, <2>1 DEF Unwritten, SameBut
  <2> QED BY <1>10, <2>2, StillQueuedOnce
<1>11. ASSUME NEW i \in Instances, NEW s \in Strategies, SetStrategy(i, s)
       PROVE  QueuedOnce'
  BY <1>10, <1>11, SetStrategyDoes DEF redis
<1>12. ASSUME NEW i \in Instances, Stop(i)
       PROVE  QueuedOnce'
  <2>1. \A q \in Requests : Unwritten(q) => Unwritten(q)'
    BY <1>12, StopDoes DEF Unwritten, redis
  <2> QED BY <1>12, <2>1, StopDoes, StillQueuedOnce
<1>13. ASSUME Close \/ RollbackClose \/ Announce
       PROVE  QueuedOnce'
  BY <1>10, <1>13, CloseDoes, RollbackCloseDoes, AnnounceDoes DEF redis
<1> QED BY <1>1, <1>3, <1>4, <1>5, <1>6, <1>7, <1>8, <1>9, <1>11, <1>12, <1>13,
           SendKeepsQueue, ReceiveKeepsQueue, WriteKeepsQueue DEF Next, Progress, Processor

-----------------------------------------------------------------------------
(* The invariants of every mix of strategies.  The calls that were counted *)
(* and the strategies that were used are finite many.                      *)
CallsInv ==
  /\ TypeOK /\ CallsAgree /\ ChannelsAgree /\ QueuedOnce
  /\ IsFiniteSet(used) /\ IsFiniteSet(counted)

LEMMA StartsSound == Init => CallsInv
<1> SUFFICES ASSUME Init
             PROVE  CallsInv
  OBVIOUS
<1>1. /\ auction = [status |-> "OPEN", current |-> StartBid, bidder |-> NoBidder, version |-> 0]
      /\ bids = NoBids /\ switches = 0 /\ channel = [i \in Instances |-> 0] /\ chans = << >>
      /\ call = [r \in Requests |-> New] /\ closing = "open" /\ outcome = NoBids
      /\ faults = 0 /\ used = {} /\ counted = {}
      /\ strategy \in [Instances -> Strategies]
  BY DEF Init
<1>2. auction \in AuctionHash /\ auction.status = "OPEN"
  BY <1>1, RulesAssumption DEF AuctionHash, Statuses
<1>3. bids \in BidSet /\ outcome \in BidSet
  BY <1>1 DEF NoBids, BidSet
<1>4. chans \in Seq(Channel) /\ Len(chans) = 0 /\ DOMAIN chans = {}
  BY <1>1
<1>5. TypeOK
  BY <1>1, <1>2, <1>3, <1>4, NewIsTyped, StrategyBounds DEF TypeOK
<1>6. CallsAgree
  <2>1. \A r \in Requests : call[r].stage = "new" /\ call[r].tries = 0 /\ call[r].result = "none"
    BY <1>1, NewIsTyped
  <2> QED BY <1>1, <2>1, StrategyBounds DEF CallsAgree
<1>7. ChannelsAgree /\ QueuedOnce
  BY <1>1, <1>2, <1>4 DEF ChannelsAgree, QueuedOnce
<1> QED BY <1>1, <1>5, <1>6, <1>7, FS_EmptySet DEF CallsInv

(* A step adds one strategy to those that were used and one call to those  *)
(* that were counted, at most.                                             *)
LEMMA HistoriesGrow ==
  ASSUME CallsInv, Next
  PROVE  /\ used' = used \/ \E u : used' = used \cup {u}
         /\ counted' = counted \/ \E r \in Requests : counted' = counted \cup {r}
         /\ used \subseteq used' /\ IsFiniteSet(used') /\ IsFiniteSet(counted')
<1> USE DEF CallsInv
<1>1. /\ used' = used \/ \E u : used' = used \cup {u}
      /\ counted' = counted \/ \E r \in Requests : counted' = counted \cup {r}
  <2>1. ASSUME NEW r \in Requests, NEW i \in Instances,
               PlaceByScript(r, i) \/ Watch(r, i) \/ GetOrCreateChannel(r, i)
        PROVE  /\ \E u : used' = used \cup {u}
               /\ counted' = counted \/ counted' = counted \cup {r}
    BY <2>1 DEF PlaceByScript, Watch, WatchAndRead, GetOrCreateChannel, Starts, redis
  <2>2. ASSUME NEW r \in Requests,
               \/ Retry(r) \/ Exec(r) \/ ExecFails(r) \/ SendRequest(r) \/ SendPanics(r)
               \/ GiveUp(r)
        PROVE  used' = used /\ (counted' = counted \/ counted' = counted \cup {r})
    BY <2>2 DEF Retry, WatchAndRead, Exec, Written, ExecFails, SendRequest, SendPanics, GiveUp,
                redis
  <2>3. ASSUME NEW k \in DOMAIN chans, Receive(k)
        PROVE  used' = used /\ counted' = counted
    BY <2>3, ReceiveDoes DEF redis
  <2>4. ASSUME NEW k \in DOMAIN chans, ProcessWrite(k)
        PROVE  used' = used /\ (counted' = counted \/ \E r \in Requests : counted' = counted \cup {r})
    BY <2>4, ProcessWriteDoes DEF redis, Written
  <2>5. ASSUME NEW i \in Instances, Stop(i) \/ \E s \in Strategies : SetStrategy(i, s)
        PROVE  used' = used /\ counted' = counted
    BY <2>5 DEF Stop, Stopped, SetStrategy, redis
  <2>6. ASSUME Close \/ RollbackClose \/ Announce
        PROVE  used' = used /\ counted' = counted
    BY <2>6 DEF Close, RollbackClose, Announce, redis
  <2> QED BY <2>1, <2>2, <2>3, <2>4, <2>5, <2>6 DEF Next, Progress, Processor
<1>2. used \subseteq used' /\ IsFiniteSet(used') /\ IsFiniteSet(counted')
  BY <1>1, FS_AddElement
<1> QED BY <1>1, <1>2

LEMMA StepKeepsCalls == CallsInv /\ [Next]_vars => CallsInv'
<1> SUFFICES ASSUME CallsInv, [Next]_vars
             PROVE  CallsInv'
  OBVIOUS
<1>1. CASE Next
  BY <1>1, TypesStayTrue, CallsStayTrue, ChannelsStayTrue, QueueStaysTrue, HistoriesGrow
     DEF CallsInv
<1>2. CASE UNCHANGED vars
  <2>1. UNCHANGED <<auction, bids, strategy, switches, channel, chans, call, closing, outcome,
                    faults, used, counted>>
    BY <1>2 DEF vars, redis
  <2>2. TypeOK'
    BY <2>1 DEF CallsInv, TypeOK
  <2>3. CallsAgree'
    BY <2>1, StillCallsKeepsCalls DEF CallsInv
  <2>4. ChannelsAgree'
    BY <2>1, SameChannelsAgree DEF CallsInv
  <2>5. QueuedOnce'
    <3>1. \A q \in Requests : Unwritten(q) => Unwritten(q)'
      BY <2>1 DEF Unwritten
    <3> QED BY <2>1, <3>1, StillQueuedOnce DEF CallsInv
  <2> QED BY <2>1, <2>2, <2>3, <2>4, <2>5 DEF CallsInv
<1> QED BY <1>1, <1>2

LEMMA CallsStayInOrder == Spec => []CallsInv
BY StartsSound, StepKeepsCalls, PTL DEF Spec

(* Every variable keeps its type: channels never hold more than their      *)
(* capacity, the optimistic strategy stops after MaxRetries attempts, and  *)
(* an open channel is the one in its instance's map.                       *)
THEOREM StrategyTypes == Spec => []TypeOK
<1>1. CallsInv => TypeOK
  BY DEF CallsInv
<1> QED BY <1>1, CallsStayInOrder, PTL

LEMMA OpenChannelsWriteAlone == CallsInv => OneWriter
<1> SUFFICES ASSUME CallsInv, NEW k \in DOMAIN chans, NEW l \in DOMAIN chans,
                    chans[k].at = chans[l].at, chans[k].writes # {}, chans[l].writes # {}
             PROVE  k = l
  BY DEF OneWriter
<1>1. CASE chans[k].open /\ chans[l].open
  BY <1>1, OpenChannels DEF CallsInv
<1>2. CASE ~chans[k].open
  BY <1>2 DEF CallsInv, ChannelsAgree
<1>3. CASE ~chans[l].open
  BY <1>3 DEF CallsInv, ChannelsAgree
<1> QED BY <1>1, <1>2, <1>3

(* processQueuedBids of a channel that was closed and of its successor:    *)
(* whatever strategies were set, an instance has one goroutine about to    *)
(* write.                                                                  *)
THEOREM InstancesHaveOneWriter == Spec => []OneWriter
BY OpenChannelsWriteAlone, CallsStayInOrder, PTL

-----------------------------------------------------------------------------
(* Without the queue there are no channels, ...                            *)
LEMMA NoQueueNoChannels ==
  ASSUME CallsInv, QueueUnused
  PROVE  DOMAIN chans = {}
<1> SUFFICES ASSUME NEW k \in DOMAIN chans
             PROVE  FALSE
  OBVIOUS
<1>1. <<"queue", chans[k].at>> \in used
  BY OpenChannels DEF CallsInv
<1> QED BY <1>1 DEF QueueUnused

(* ... and the other strategies write to an open auction only.             *)
LEMMA BidsNeedOpen ==
  ASSUME CallsInv, NEW r \in Requests, Exec(r) \/ \E i \in Instances : PlaceByScript(r, i)
  PROVE  UNCHANGED <<closing, outcome>> /\ (auction.status = "OPEN" \/ UNCHANGED redis)
<1>1. CASE Exec(r)
  <2>1. /\ call[r].stage = "exec" /\ ~call[r].conflict /\ UNCHANGED <<closing, outcome>>
    BY <1>1, ExecDoes DEF CallsInv
  <2>2. PlainVerdict(auction, Offer[r].amount) = "accepted"
    BY <2>1 DEF CallsInv, CallsAgree
  <2> QED BY <2>1, <2>2, Verdicts
<1>2. ASSUME NEW i \in Instances, PlaceByScript(r, i)
      PROVE  UNCHANGED <<closing, outcome>> /\ (auction.status = "OPEN" \/ UNCHANGED redis)
  <2>1. /\ UNCHANGED <<closing, outcome>>
        /\ \/ Verdict(auction, bids, Offer[r].bidder, Offer[r].amount) = "accepted"
           \/ UNCHANGED redis
    BY <1>2, PlaceByScriptDoes DEF CallsInv
  <2>2. Verdict(auction, bids, Offer[r].bidder, Offer[r].amount) = "accepted" =>
          auction.status = "OPEN"
    BY Verdicts
  <2> QED BY <2>1, <2>2
<1> QED BY <1>1, <1>2

LEMMA StepKeepsOutcome ==
  ASSUME CallsInv, OutcomeStands, [Next]_vars
  PROVE  OutcomeStands'
<1> SUFFICES ASSUME QueueUnused', closing' # "open"
             PROVE  WinnersRead(auction, bids)' = outcome'
  BY DEF OutcomeStands
<1>1. QueueUnused /\ TypeOK /\ ChannelsAgree
  <2>1. used \subseteq used'
    BY HistoriesGrow DEF vars
  <2> QED BY <2>1 DEF QueueUnused, CallsInv
<1>2. ASSUME closing' = closing, UNCHANGED <<auction, bids, outcome>>
      PROVE  WinnersRead(auction, bids)' = outcome'
  BY <1>1, <1>2 DEF OutcomeStands
<1>3. ASSUME NEW r \in Requests, Exec(r) \/ \E i \in Instances : PlaceByScript(r, i)
      PROVE  WinnersRead(auction, bids)' = outcome'
  <2>1. UNCHANGED <<closing, outcome>> /\ (auction.status = "OPEN" \/ UNCHANGED redis)
    BY <1>3, BidsNeedOpen
  <2>2. auction.status # "OPEN"
    BY <1>1, <2>1 DEF ChannelsAgree
  <2> QED BY <1>2, <2>1, <2>2 DEF redis
<1>4. ASSUME NEW r \in Requests,
             \/ Retry(r) \/ ExecFails(r) \/ SendRequest(r) \/ SendPanics(r) \/ GiveUp(r)
             \/ \E i \in Instances : Watch(r, i) \/ GetOrCreateChannel(r, i)
      PROVE  WinnersRead(auction, bids)' = outcome'
  BY <1>2, <1>4 DEF Retry, Watch, WatchAndRead, ExecFails, SendRequest, SendPanics, GiveUp,
                    GetOrCreateChannel, redis
<1>5. ASSUME NEW k \in DOMAIN chans
      PROVE  FALSE
  BY <1>1, <1>5, NoQueueNoChannels
<1>6. ASSUME NEW i \in Instances, \E s \in Strategies : SetStrategy(i, s)
      PROVE  WinnersRead(auction, bids)' = outcome'
  BY <1>2, <1>6 DEF SetStrategy, redis
<1>7. ASSUME Announce \/ \E i \in Instances : Stop(i)
      PROVE  WinnersRead(auction, bids)' = outcome'
  <2>1. UNCHANGED <<auction, bids, outcome>> /\ closing # "open"
    BY <1>7 DEF Announce, Stop, Stopped, redis
  <2> QED BY <1>1, <2>1 DEF OutcomeStands
<1>8. CASE Close
  <2>1. /\ auction' = ClosedHash(auction) /\ bids' = bids /\ auction \in AuctionHash
        /\ outcome' = WinnersRead(auction, bids)
    BY <1>1, <1>8, CloseDoes DEF TypeOK
  <2>2. auction'.bidder = auction.bidder /\ auction'.current = auction.current
    BY <2>1, StatusesDo
  <2> QED BY <2>1, <2>2 DEF WinnersRead
<1>9. CASE RollbackClose
  BY <1>1, <1>9, RollbackCloseDoes
<1>10. CASE UNCHANGED vars
  BY <1>2, <1>10 DEF vars, redis
<1> QED BY <1>3, <1>4, <1>5, <1>6, <1>7, <1>8, <1>9, <1>10 DEF Next, Progress, Processor

(* CloseAuction against TryPlaceBid without the queue: a transaction that  *)
(* was begun before the close fails, so that the keys say what was         *)
(* announced ever after.                                                   *)
THEOREM WinnerOutlastsClose == Spec => []WinnerStands
<1>1. Init => OutcomeStands
  BY DEF Init, OutcomeStands
<1>2. OutcomeStands => WinnerStands
  BY DEF OutcomeStands, WinnerStands
<1> QED BY <1>1, <1>2, StepKeepsOutcome, CallsStayInOrder, PTL DEF Spec

-----------------------------------------------------------------------------
(* HSET and ZADD of a bid above the current price do for one winner what   *)
(* the script does.                                                        *)
LEMMA PlainWriteKeepsBidding ==
  ASSUME Quantity = 1, NEW a \in AuctionHash, NEW z \in BidSet,
         SlotsSound(a, z), FloorShown(a, z),
         NEW b \in Bidders, NEW amount \in Nat \ {0}, amount > a.current,
         NEW new, new.current = amount, new.bidder = b,
         NEW after, after = WithBid(z, b, amount)
  PROVE  /\ SlotsSound(new, after) /\ FloorShown(new, after)
         /\ after[new.bidder] = new.current
<1>1. /\ Entrants(after) = Entrants(z) \cup {b} /\ after[b] = amount
      /\ \A c \in Bidders \ {b} : after[c] = z[c]
  BY WithBidProperties
<1>2. /\ a.current \in Nat /\ StartBid \in Nat /\ b # NoBidder
      /\ \A c \in Bidders : z[c] \in Nat
      /\ Entrants(z) \subseteq Bidders
  BY RulesAssumption, BiddersAssumption DEF AuctionHash, BidSet, Entrants
<1>3. /\ \A c \in Entrants(z) : z[c] > StartBid /\ z[c] <= a.current
      /\ a.current >= StartBid
  <2>1. \A c \in Entrants(z) : z[c] > StartBid
    BY DEF SlotsSound
  <2>2. CASE Entrants(z) = {}
    BY <1>2, <2>2 DEF FloorShown
  <2>3. CASE Entrants(z) # {}
    <3>1. /\ a.current \in {z[c] : c \in Entrants(z)}
          /\ \A s \in {z[c] : c \in Entrants(z)} : s <= a.current
      BY <2>3 DEF FloorShown
    <3> QED BY <1>2, <2>1, <3>1
  <2> QED BY <2>2, <2>3
<1>4. \A c \in Entrants(after) : after[c] > StartBid /\ after[c] <= amount
  BY <1>1, <1>2, <1>3
<1>5. SlotsSound(new, after)
  BY <1>1, <1>2, <1>4 DEF SlotsSound
<1>6. FloorShown(new, after)
  BY <1>1, <1>4 DEF FloorShown
<1> QED BY <1>1, <1>5, <1>6

(* What hash and sorted set are to each other when bids are serialized.    *)
KeysAgree(a, z) ==
  /\ SlotsSound(a, z) /\ FloorShown(a, z)
  /\ Entrants(z) # {} /\ Quantity = 1 => z[a.bidder] = a.current

LEMMA ScriptKeepsKeys ==
  ASSUME NEW a \in AuctionHash, NEW z \in BidSet, KeysAgree(a, z),
         NEW b \in Bidders, NEW amount \in Nat \ {0}, Verdict(a, z, b, amount) = "accepted"
  PROVE  KeysAgree(HashAfter(a, z, b, amount), BidsAfter(z, b, amount))
<1>1. Accepted(a, z, z, b, amount)
  BY DEF Accepted, BiddingSound, KeysAgree, HoldBest, Entrants, BidSet
<1>2. PICK new, after : new = HashAfter(a, z, b, amount) /\ after = BidsAfter(z, b, amount)
  OBVIOUS
<1>3. SlotsSound(new, after) /\ FloorShown(new, after)
  BY <1>1, <1>2, AcceptedKeepsBidding DEF BiddingSound
<1>4. ASSUME Quantity = 1
      PROVE  after[new.bidder] = new.current
  <2>1. after = WithBid(z, b, amount) /\ NewFloor(a, z, b, amount) = amount
    BY <1>2, <1>4 DEF BidsAfter, Overfull, NewFloor
  <2>2. new.bidder = b /\ new.current = amount
    BY <1>2, <2>1 DEF HashAfter, AuctionHash
  <2> QED BY <2>1, <2>2, WithBidProperties
<1> QED BY <1>2, <1>3, <1>4 DEF KeysAgree

(* The invariant of serialized bids: the keys agree, each bid was counted  *)
(* once, and a goroutine writes on top of the bid that it read.            *)
SerialInv ==
  Serialized =>
    /\ KeysAgree(auction, bids)
    /\ auction.version = Cardinality(counted)
    /\ \A k \in DOMAIN chans : chans[k].writes # {} =>
         /\ chans[k].seen.current = auction.current
         /\ chans[k].seen.version = auction.version

LEMMA SerializedBefore ==
  ASSUME CallsInv, Next, Serialized'
  PROVE  Serialized
<1>1. used \subseteq used' /\ IsFiniteSet(used')
  BY HistoriesGrow
<1>2. CASE QueueUnused'
  BY <1>1, <1>2 DEF Serialized, QueueUnused
<1>3. CASE Cardinality(used') <= 1
  <2>1. Cardinality(used) <= Cardinality(used') /\ Cardinality(used) \in Nat
        /\ Cardinality(used') \in Nat
    BY <1>1, FS_Subset, FS_CardinalityType
  <2> QED BY <1>3, <2>1 DEF Serialized
<1> QED BY <1>2, <1>3 DEF Serialized

(* Of the strategies that serialized bids use, all or none are the queue.  *)
LEMMA OneStrategyAlone ==
  ASSUME NEW S, IsFiniteSet(S), (\A v \in S : v[1] # "queue") \/ Cardinality(S) <= 1,
         NEW u \in S
  PROVE  /\ u[1] # "queue" => \A v \in S : v[1] # "queue"
         /\ u[1] = "queue" => S = {u}
<1>1. CASE Cardinality(S) <= 1
  <2>1. Cardinality(S) \in Nat /\ Cardinality(S) # 0
    BY FS_CardinalityType, FS_EmptySet
  <2>2. Cardinality(S) = 1
    BY <1>1, <2>1
  <2>3. S = {u}
    BY <2>2, FS_Singleton
  <2> QED BY <2>3
<1> QED BY <1>1

LEMMA StartsSerial == Init => SerialInv
<1> SUFFICES ASSUME Init
             PROVE  SerialInv
  OBVIOUS
<1>1. /\ auction \in AuctionHash /\ auction.current = StartBid /\ auction.bidder = NoBidder
      /\ auction.version = 0 /\ bids = NoBids /\ counted = {} /\ DOMAIN chans = {}
  BY RulesAssumption DEF Init, AuctionHash, Statuses
<1>2. SlotsSound(auction, NoBids) /\ FloorShown(auction, NoBids) /\ Entrants(NoBids) = {}
  BY <1>1, NoBiddingYet DEF BiddingSound, Entrants, NoBids
<1> QED BY <1>1, <1>2, FS_EmptySet DEF SerialInv, KeysAgree

(* Only what the invariant looks at matters: the price, the bidder and the *)
(* version in the hash, and what the goroutines are about to write.        *)
LEMMA StillSerial ==
  ASSUME SerialInv, Serialized, UNCHANGED <<bids, counted>>,
         auction'.current = auction.current, auction'.bidder = auction.bidder,
         auction'.version = auction.version,
         \A k \in DOMAIN chans' : chans'[k].writes # {} =>
           \/ k \in DOMAIN chans /\ chans[k].writes # {} /\ chans'[k].seen = chans[k].seen
           \/ chans'[k].seen = auction
  PROVE  SerialInv'
<1>1. KeysAgree(auction, bids) => KeysAgree(auction', bids)
  BY DEF KeysAgree, SlotsSound, FloorShown
<1> QED BY <1>1 DEF SerialInv

(* A bid that is written by the script or by a transaction is the only     *)
(* thing that happens: there are no goroutines.                            *)
LEMMA BidKeepsSerial ==
  ASSUME DOMAIN chans = {}, UNCHANGED chans, IsFiniteSet(counted),
         NEW r, r \notin counted, counted' = counted \cup {r},
         KeysAgree(auction', bids'),
         auction.version = Cardinality(counted), auction'.version = auction.version + 1
  PROVE  SerialInv'
<1>1. Cardinality(counted') = Cardinality(counted) + 1
  BY FS_AddElement
<1> QED BY <1>1 DEF SerialInv

LEMMA WriteKeepsKeys ==
  ASSUME TypeOK, KeysAgree(auction, bids), NEW r \in Requests, NEW seen \in AuctionHash,
         Written(r, seen), PlainVerdict(seen, Offer[r].amount) = "accepted",
         seen.current = auction.current
  PROVE  KeysAgree(auction', bids')
<1>1. PICK b \in Bidders, amount \in Nat \ {0} : b = Offer[r].bidder /\ amount = Offer[r].amount
  BY OfferIsTyped
<1>2. /\ auction'.current = amount /\ auction'.bidder = b /\ bids' = WithBid(bids, b, amount)
      /\ auction \in AuctionHash /\ bids \in BidSet
  BY <1>1, WrittenDoes DEF TypeOK
<1>3. Quantity = 1 /\ amount > auction.current
  <2>1. ~(Quantity > 1) /\ ~(amount <= auction.current)
    BY <1>1, Verdicts
  <2>2. Quantity \in Nat \ {0} /\ auction.current \in Nat
    BY <1>2, RulesAssumption DEF AuctionHash
  <2> QED BY <2>1, <2>2
<1>4. SlotsSound(auction, bids) /\ FloorShown(auction, bids)
  BY DEF KeysAgree
<1> QED BY <1>2, <1>3, <1>4, PlainWriteKeepsBidding DEF KeysAgree

LEMMA StepKeepsSerial ==
  ASSUME CallsInv, SerialInv, [Next]_vars
  PROVE  SerialInv'
<1> SUFFICES ASSUME Serialized'
             PROVE  SerialInv'
  BY DEF SerialInv
<1>0. CASE UNCHANGED vars
  <2>1. UNCHANGED <<auction, bids, chans, used, counted>>
    BY <1>0 DEF vars, redis
  <2>2. Serialized
    BY <2>1 DEF Serialized, QueueUnused
  <2> QED BY <2>1, <2>2, StillSerial
<1> SUFFICES ASSUME Next
             PROVE  SerialInv'
  BY <1>0
<1>1. /\ Serialized /\ TypeOK /\ CallsAgree /\ QueuedOnce /\ IsFiniteSet(counted)
      /\ KeysAgree(auction, bids) /\ auction.version = Cardinality(counted)
      /\ auction \in AuctionHash /\ bids \in BidSet
  BY SerializedBefore DEF SerialInv, CallsInv, TypeOK
<1>2. IsFiniteSet(used') /\ used \subseteq used'
  BY HistoriesGrow
<1>3. ASSUME NEW u \in used', u[1] # "queue"
      PROVE  DOMAIN chans = {}
  <2>1. QueueUnused'
    BY <1>2, <1>3, OneStrategyAlone DEF Serialized, QueueUnused
  <2>2. QueueUnused
    BY <1>2, <2>1 DEF QueueUnused
  <2> QED BY <2>2, NoQueueNoChannels
<1>4. ASSUME UNCHANGED redis,
             \A k \in DOMAIN chans' : chans'[k].writes # {} =>
               \/ k \in DOMAIN chans /\ chans[k].writes # {} /\ chans'[k].seen = chans[k].seen
               \/ chans'[k].seen = auction
      PROVE  SerialInv'
  BY <1>1, <1>4, StillSerial DEF redis
<1>5. ASSUME NEW r \in Requests, NEW i \in Instances, PlaceByScript(r, i)
      PROVE  SerialInv'
  <2>1. call[r].stage = "new" /\ <<"pessimistic", i>> \in used' /\ UNCHANGED chans
    BY <1>1, <1>5, PlaceByScriptDoes
  <2>2. DOMAIN chans = {} /\ r \notin counted
    BY <1>1, <1>3, <2>1 DEF CallsAgree
  <2>3. CASE UNCHANGED redis
    BY <1>4, <2>1, <2>3
  <2>4. CASE /\ Verdict(auction, bids, Offer[r].bidder, Offer[r].amount) = "accepted"
             /\ auction' = HashAfter(auction, bids, Offer[r].bidder, Offer[r].amount)
             /\ bids' = BidsAfter(bids, Offer[r].bidder, Offer[r].amount)
             /\ counted' = counted \cup {r}
    <3>1. Offer[r].bidder \in Bidders /\ Offer[r].amount \in Nat \ {0}
      BY OfferIsTyped
    <3>2. auction'.version = auction.version + 1
      BY <1>1, <2>4, <3>1, ScriptIsTyped
    <3>3. KeysAgree(auction', bids')
      BY <1>1, <2>4, <3>1, ScriptKeepsKeys
    <3> QED BY <1>1, <2>1, <2>2, <2>4, <3>2, <3>3, BidKeepsSerial
  <2> QED BY <1>1, <1>5, <2>3, <2>4, PlaceByScriptDoes
<1>6. ASSUME NEW r \in Requests, Exec(r)
      PROVE  SerialInv'
  <2>1. /\ call[r].stage = "exec" /\ ~call[r].conflict /\ UNCHANGED <<chans, used>>
        /\ Written(r, call[r].seen) \/ UNCHANGED redis
    BY <1>1, <1>6, ExecDoes
  <2>2. /\ r \notin counted /\ call[r].seen = auction
        /\ PlainVerdict(auction, Offer[r].amount) = "accepted"
        /\ \E i \in Instances : <<"optimistic", i>> \in used
    BY <1>1, <2>1 DEF CallsAgree
  <2>3. DOMAIN chans = {}
    BY <1>2, <1>3, <2>2
  <2>4. CASE UNCHANGED redis
    BY <1>4, <2>1, <2>3, <2>4
  <2>5. CASE Written(r, call[r].seen)
    <3>1. Written(r, auction)
      BY <2>2, <2>5
    <3>2. auction'.version = auction.version + 1 /\ counted' = counted \cup {r}
      BY <1>1, <3>1, WrittenDoes
    <3>3. KeysAgree(auction', bids')
      BY <1>1, <2>2, <3>1, WriteKeepsKeys
    <3> QED BY <1>1, <2>1, <2>2, <2>3, <3>2, <3>3, BidKeepsSerial
  <2> QED BY <2>1, <2>4, <2>5
<1>7. ASSUME NEW r \in Requests,
             \/ Retry(r) \/ ExecFails(r) \/ SendPanics(r) \/ GiveUp(r)
             \/ \E i \in Instances : Watch(r, i)
      PROVE  SerialInv'
  <2>1. UNCHANGED <<auction, bids, counted, chans>>
    BY <1>7 DEF Retry, Watch, WatchAndRead, ExecFails, SendPanics, GiveUp, redis
  <2> QED BY <1>4, <2>1 DEF redis
<1>8. ASSUME NEW r \in Requests, NEW i \in Instances, GetOrCreateChannel(r, i)
      PROVE  SerialInv'
  <2>1. UNCHANGED redis
    BY <1>1, <1>8, GetOrCreateChannelDoes
  <2>2. \/ UNCHANGED chans
        \/ /\ DOMAIN chans' = DOMAIN chans \cup {Len(chans')}
           /\ \A k \in DOMAIN chans : chans'[k] = chans[k]
           /\ chans'[Len(chans')] = [at |-> i, open |-> TRUE, buffer |-> << >>,
                                     writes |-> {}, seen |-> NoHash]
    BY <1>1, <1>8, GetOrCreateChannelDoes
  <2>3. \A k \in DOMAIN chans' : chans'[k].writes # {} =>
          k \in DOMAIN chans /\ chans[k].writes # {} /\ chans'[k].seen = chans[k].seen
    <3>1. PICK n : n = Len(chans')
      OBVIOUS
    <3>2. CASE UNCHANGED chans
      BY <3>2
    <3>3. CASE /\ DOMAIN chans' = DOMAIN chans \cup {n}
               /\ \A k \in DOMAIN chans : chans'[k] = chans[k]
               /\ chans'[n] = [at |-> i, open |-> TRUE, buffer |-> << >>,
                               writes |-> {}, seen |-> NoHash]
      <4>1. chans'[n].writes = {}
        BY <3>3
      <4> QED BY <3>3, <4>1
    <3> QED BY <2>2, <3>1, <3>2, <3>3
  <2> QED BY <1>4, <2>1, <2>3
<1>9. ASSUME NEW r \in Requests, SendRequest(r)
      PROVE  SerialInv'
  <2>1. UNCHANGED redis
    BY <1>1, <1>9, SendRequestDoes
  <2>2. PICK k \in DOMAIN chans :
          Refills(k, Append(chans[k].buffer, r), chans[k].writes, chans[k].seen)
    BY <1>1, <1>9, SendRequestDoes
  <2>3. \A l \in DOMAIN chans' : /\ l \in DOMAIN chans /\ chans'[l].writes = chans[l].writes
                                 /\ chans'[l].seen = chans[l].seen
    BY <2>2 DEF Refills
  <2> QED BY <1>4, <2>1, <2>3
<1>10. ASSUME NEW k \in DOMAIN chans, Receive(k)
       PROVE  SerialInv'
  <2>1. UNCHANGED redis
    BY <1>1, <1>10, ReceiveDoes
  <2>2. PICK writes, seen : /\ Refills(k, Tail(chans[k].buffer), writes, seen)
                            /\ writes = {} \/ seen = auction
    BY <1>1, <1>10, ReceiveDoes
  <2>3. \A l \in DOMAIN chans' : chans'[l].writes # {} =>
          \/ l \in DOMAIN chans /\ chans[l].writes # {} /\ chans'[l].seen = chans[l].seen
          \/ chans'[l].seen = auction
    BY <2>2 DEF Refills
  <2> QED BY <1>4, <2>1, <2>3
<1>11. ASSUME NEW k \in DOMAIN chans, ProcessWrite(k)
       PROVE  SerialInv'
  <2>1. PICK r \in chans[k].writes :
          /\ r \in Requests /\ Refills(k, chans[k].buffer, {}, NoHash) /\ used' = used
          /\ Written(r, chans[k].seen) \/ UNCHANGED redis
    BY <1>1, <1>11, ProcessWriteDoes
  <2>2. \A l \in DOMAIN chans' : chans'[l].writes # {} =>
          l \in DOMAIN chans /\ chans[l].writes # {} /\ chans'[l].seen = chans[l].seen
    BY <2>1 DEF Refills
  <2>3. CASE UNCHANGED redis
    BY <1>4, <2>2, <2>3
  <2>4. CASE Written(r, chans[k].seen)
    <3>1. /\ chans[k].seen \in AuctionHash /\ chans[k].seen.current = auction.current
          /\ chans[k].seen.version = auction.version
      BY <1>1, <2>1, ChannelIsTyped DEF SerialInv
    <3>2. PlainVerdict(chans[k].seen, Offer[r].amount) = "accepted" /\ r \notin counted
      BY <1>1, <2>1 DEF QueuedOnce, Unwritten
    <3>3. KeysAgree(auction', bids')
      BY <1>1, <2>1, <2>4, <3>1, <3>2, WriteKeepsKeys
    <3>4. auction'.version = Cardinality(counted')
      <4>1. auction'.version = auction.version + 1 /\ counted' = counted \cup {r}
        BY <1>1, <2>1, <2>4, <3>1, WrittenDoes
      <4> QED BY <1>1, <3>2, <4>1, FS_AddElement
    <3>5. ASSUME NEW l \in DOMAIN chans, l # k
          PROVE  chans[l].writes = {}
      <4>1. chans[l].at = chans[k].at
        <5>1. <<"queue", chans[l].at>> \in used /\ <<"queue", chans[k].at>> \in used
          BY OpenChannels DEF CallsInv
        <5>2. IsFiniteSet(used) /\ Serialized
          BY <1>1 DEF CallsInv
        <5>3. used = {<<"queue", chans[k].at>>}
          BY <5>1, <5>2, OneStrategyAlone DEF Serialized, QueueUnused
        <5> QED BY <5>1, <5>3
      <4> QED BY <2>1, <3>5, <4>1, OpenChannelsWriteAlone DEF OneWriter
    <3>6. \A l \in DOMAIN chans' : chans'[l].writes = {}
      BY <2>1, <3>5 DEF Refills
    <3> QED BY <3>3, <3>4, <3>6 DEF SerialInv
  <2> QED BY <2>1, <2>3, <2>4
<1>12. ASSUME NEW i \in Instances, \E s \in Strategies : SetStrategy(i, s)
       PROVE  SerialInv'
  <2>1. UNCHANGED <<auction, bids, counted, chans>>
    BY <1>12 DEF SetStrategy, redis
  <2> QED BY <1>4, <2>1 DEF redis
<1>13. ASSUME NEW i \in Instances, Stop(i)
       PROVE  SerialInv'
  <2>1. /\ UNCHANGED redis /\ DOMAIN chans' = DOMAIN chans
        /\ \A l \in DOMAIN chans :
             chans'[l].writes = chans[l].writes /\ chans'[l].seen = chans[l].seen
    BY <1>1, <1>13, StopDoes DEF CallsInv
  <2> QED BY <1>4, <2>1
<1>14. ASSUME Close \/ RollbackClose \/ Announce
       PROVE  SerialInv'
  <2>1. /\ UNCHANGED <<bids, counted, chans>>
        /\ auction' \in {auction, ClosedHash(auction), ReopenedHash(auction)}
    BY <1>14 DEF Close, RollbackClose, Announce, redis
  <2>2. /\ auction'.current = auction.current /\ auction'.bidder = auction.bidder
        /\ auction'.version = auction.version
    BY <1>1, <2>1, StatusesDo
  <2> QED BY <1>1, <2>1, <2>2, StillSerial
<1> QED BY <1>5, <1>6, <1>7, <1>8, <1>9, <1>10, <1>11, <1>12, <1>13, <1>14
       DEF Next, Progress, Processor

LEMMA SerialFollows == CallsInv /\ SerialInv => StrategyInv /\ WritesAgree
<1> SUFFICES ASSUME CallsInv, SerialInv
             PROVE  StrategyInv /\ WritesAgree
  OBVIOUS
<1>1. TypeOK /\ CallsAgree
  BY DEF CallsInv
<1>2. HashAgreesWithBids /\ WritesAgree
  <2>1. Entrants(bids) # {} /\ SlotsSound(auction, bids) => auction.bidder # NoBidder
    BY DEF SlotsSound
  <2> QED BY <2>1 DEF SerialInv, KeysAgree, HashAgreesWithBids, WritesAgree
<1>3. EveryBidCountsOnce
  BY <1>1 DEF SerialInv, CallsAgree, EveryBidCountsOnce
<1> QED BY <1>1, <1>2, <1>3 DEF StrategyInv

(* TryPlaceBid of serialized bids: the page and the close see the same     *)
(* leader, and in spite of conflicts, retries and lost replies every bid   *)
(* that was written counts once and its caller was told so.                *)
THEOREM StrategiesAreSound == Spec => []StrategyInv
BY StartsSerial, StepKeepsSerial, SerialFollows, CallsStayInOrder, PTL DEF Spec
=============================================================================
