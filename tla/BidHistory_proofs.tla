------------------------- MODULE BidHistory_proofs -------------------------
(***************************************************************************)
(* Proofs about the history of bids, for any number of bids, workers,      *)
(* winners and faults.  HistoryInv comes first: no bid is lost and only    *)
(* winners have won.  What the steps of a worker do to its slot is then    *)
(* summed up field by field, and StreamAgrees says what the stream and its *)
(* slots have to do with each other.  On these rest the three invariants   *)
(* about bids that stand: TwoNeverStand, LastStands and WinnerIsDue.       *)
(***************************************************************************)
EXTENDS BidHistory, FiniteSetTheorems, TLAPS

LEMMA BidsArePositive == \A b \in Bids : b \in Nat /\ b # 0
BY BidsAssumption

LEMMA IdleIsTyped == Idle \in Worker /\ Idle.stage = "idle" /\ Idle.hit = 0
<1>1. \E u : u \in Users
  BY BidsAssumption DEF Users
<1>2. (CHOOSE u \in Users : TRUE) \in Users
  BY <1>1
<1> QED BY <1>2, BidsAssumption DEF Idle, Worker, Stages, Messages, Close

(* What WorkersAgree says of one worker, for the delivered messages, the   *)
(* recorded bids and the announced winners.                                *)
Agrees(r, del, rec, won) ==
  /\ r.stage # "idle" => r.msg \in del
  /\ r.stage \in {"list_own", "own", "create", "list_others", "others"} => r.msg # Close
  /\ r.stage \in {"list_others", "others", "ack"} /\ r.msg # Close => r.msg \in rec
  /\ r.stage \in {"list_won", "won"} =>
       r.msg = Close /\ r.winners \cup {r.user} \subseteq won
  /\ r.stage \in {"own", "others", "won"} => r.todo # {}
  /\ r.hit # 0 => /\ r.stage \in {"own", "others", "won"}
                  /\ r.stage = "won" => Owner[r.hit] = r.user

LEMMA AgreesSplit ==
  WorkersAgree <=> /\ Close \in delivered => closed # << >>
                   /\ \A w \in Workers : Agrees(worker[w], delivered, Recorded, closed[1])
BY DEF WorkersAgree, Agrees

(* Messages are delivered, bids recorded and winners announced for good.   *)
LEMMA AgreesKept ==
  ASSUME NEW r, NEW del, NEW rec, NEW won, NEW del2, NEW rec2, NEW won2,
         Agrees(r, del, rec, won), del \subseteq del2, rec \subseteq rec2,
         Close \in del => won2 = won
  PROVE  Agrees(r, del2, rec2, won2)
BY DEF Agrees

LEMMA IdleAgrees == \A del, rec, won : Agrees(Idle, del, rec, won)
BY IdleIsTyped DEF Agrees

(* Handling of a close ends, or goes on with a winner that is left.        *)
LEMMA MarkNextIsSound ==
  ASSUME NEW del, NEW rec, NEW won,
         NEW r \in Worker, r.msg = Close, Close \in del, r.hit = 0,
         r.winners \subseteq won, NEW next \in MarkNext(r)
  PROVE  next \in Worker /\ Agrees(next, del, rec, won)
<1>1. CASE r.winners # {}
  <2>1. PICK u \in r.winners :
          next = [r EXCEPT !.stage = "list_won", !.user = u, !.winners = @ \ {u}]
    BY <1>1 DEF MarkNext
  <2>2. next \in Worker
    BY <2>1 DEF Worker, Stages
  <2>3. /\ next.stage = "list_won" /\ next.msg = Close /\ next.user = u
        /\ next.winners = r.winners \ {u} /\ next.hit = 0
    BY <2>1 DEF Worker
  <2> QED BY <2>2, <2>3 DEF Agrees
<1>2. CASE r.winners = {}
  <2>1. next = [r EXCEPT !.stage = "ack"]
    BY <1>2 DEF MarkNext
  <2>2. next \in Worker /\ next.stage = "ack" /\ next.msg = Close /\ next.hit = 0
    BY <2>1 DEF Worker, Stages
  <2> QED BY <2>2 DEF Agrees
<1> QED BY <1>1, <1>2

LEMMA StartedIsSound ==
  ASSUME NEW del, NEW rec,
         NEW m \in Messages, m \in del, closed \in Seq(SUBSET Users),
         Close \in del => closed # << >>, NEW r \in Started(m)
  PROVE  r \in Worker /\ Agrees(r, del, rec, closed[1])
<1>1. CASE m = Close
  <2>1. closed[1] \in SUBSET Users
    BY <1>1
  <2> DEFINE s == [Idle EXCEPT !.winners = closed[1]]
  <2>2. /\ s \in Worker /\ s.msg = Close /\ s.hit = 0 /\ s.winners = closed[1]
    BY <2>1, IdleIsTyped DEF Idle, Worker
  <2>3. r \in MarkNext(s)
    BY <1>1 DEF Started
  <2> HIDE DEF s
  <2> QED BY <1>1, <2>2, <2>3, MarkNextIsSound
<1>2. CASE m # Close
  <2>1. m \in Bids /\ Owner[m] \in Users
    BY <1>2 DEF Messages, Users
  <2>2. r = [Idle EXCEPT !.stage = "list_own", !.msg = m, !.user = Owner[m]]
    BY <1>2 DEF Started
  <2>3. r \in Worker /\ r.stage = "list_own" /\ r.msg = m /\ r.hit = 0
    BY <2>1, <2>2, IdleIsTyped DEF Idle, Worker, Stages, Messages
  <2> QED BY <1>2, <2>3 DEF Agrees
<1> QED BY <1>1, <1>2

(* A worker that is done with a bid or with all of them goes on soundly.   *)
LEMMA GoOnIsSound ==
  ASSUME NEW del, NEW rec, NEW won,
         NEW r \in Worker, r.stage \in {"own", "others", "won"}, r.msg \in del,
         r.stage \in {"own", "others"} => r.msg # Close,
         r.stage = "others" => r.msg \in rec,
         r.stage = "won" => r.msg = Close /\ r.winners \cup {r.user} \subseteq won,
         NEW next \in GoOn(r)
  PROVE  next \in Worker /\ Agrees(next, del, rec, won)
<1> DEFINE s == [r EXCEPT !.hit = 0]
<1>1. /\ s \in Worker /\ s.stage = r.stage /\ s.msg = r.msg /\ s.hit = 0 /\ s.todo = r.todo
      /\ s.winners = r.winners /\ s.user = r.user
  BY DEF Worker
<1>2. CASE r.todo # {}
  <2>1. next = s
    BY <1>2 DEF GoOn
  <2> HIDE DEF s
  <2> QED BY <1>1, <1>2, <2>1 DEF Agrees
<1>3. CASE r.todo = {}
  <2>1. next \in AfterWalk(s)
    BY <1>3 DEF GoOn
  <2> HIDE DEF s
  <2>2. CASE r.stage = "own"
    <3>1. next = [s EXCEPT !.stage = "create"]
      BY <1>1, <2>1, <2>2 DEF AfterWalk
    <3>2. next \in Worker /\ next.stage = "create" /\ next.msg = r.msg /\ next.hit = 0
      BY <1>1, <3>1 DEF Worker, Stages
    <3> QED BY <2>2, <3>2 DEF Agrees
  <2>3. CASE r.stage = "others"
    <3>1. next = [s EXCEPT !.stage = "ack"]
      BY <1>1, <2>1, <2>3 DEF AfterWalk
    <3>2. next \in Worker /\ next.stage = "ack" /\ next.msg = r.msg /\ next.hit = 0
      BY <1>1, <3>1 DEF Worker, Stages
    <3> QED BY <2>3, <3>2 DEF Agrees
  <2>4. CASE r.stage = "won"
    <3>1. next \in MarkNext(s)
      BY <1>1, <2>1, <2>4 DEF AfterWalk
    <3> QED BY <1>1, <2>4, <3>1, MarkNextIsSound
  <2> QED BY <2>2, <2>3, <2>4
<1> QED BY <1>2, <1>3

(* A step of one worker after which it agrees, and after which nothing is  *)
(* taken back, keeps all workers in agreement.                             *)
LEMMA OneWorkerMoves ==
  ASSUME HistoryInv, NEW w \in Workers, NEW next \in Worker, Becomes(w, next),
         Agrees(next, delivered', Recorded', closed'[1]),
         delivered \subseteq delivered', Recorded \subseteq Recorded', UNCHANGED stream,
         Close \in delivered' => closed # << >>
  PROVE  WorkersAgree' /\ worker' \in [Workers -> Worker]
<1>1. worker \in [Workers -> Worker] /\ worker' = [worker EXCEPT ![w] = next]
  BY DEF HistoryInv, TypeOK, Becomes
<1>2. \A v \in Workers : Agrees(worker[v], delivered, Recorded, closed[1])
  BY AgreesSplit DEF HistoryInv
<1>3. closed' = closed
  BY DEF stream
<1>4. ASSUME NEW v \in Workers
      PROVE  Agrees(worker'[v], delivered', Recorded', closed'[1])
  <2>1. CASE v = w
    BY <1>1, <2>1
  <2>2. CASE v # w
    <3>1. worker'[v] = worker[v]
      BY <1>1, <2>2
    <3> QED BY <1>2, <1>3, <3>1, AgreesKept
  <2> QED BY <2>1, <2>2
<1>5. WorkersAgree' <=> /\ Close \in delivered' => closed' # << >>
                        /\ \A v \in Workers :
                             Agrees(worker'[v], delivered', Recorded', closed'[1])
  BY DEF WorkersAgree, Agrees
<1> QED BY <1>1, <1>3, <1>4, <1>5

LEMMA FaultIsTyped == TypeOK /\ (Fault \/ NoFault) => faults' \in 0..MaxFaults
BY HistoryBounds DEF TypeOK, Fault, NoFault

(* What is left to show of a step of one worker.                           *)
LEMMA WorkerMoves ==
  ASSUME HistoryInv, NEW w \in Workers, NEW next \in Worker, Becomes(w, next),
         UNCHANGED <<stream, overlap, due>>, delivered' = delivered,
         Agrees(next, delivered, Recorded', closed[1]),
         acked \subseteq acked', acked' \subseteq delivered,
         acked' \ {Close} \subseteq Recorded',
         status' \in [Bids -> BidStatuses], Recorded \subseteq Recorded',
         \A b \in Bids : status'[b] = "WON" =>
           status[b] = "WON" \/ (closed # << >> /\ Owner[b] \in closed[1]),
         Fault \/ NoFault, unsettled' \subseteq Bids
  PROVE  HistoryInv'
<1>1. WorkersAgree' /\ worker' \in [Workers -> Worker]
  <2>1. Close \in delivered' => closed # << >>
    BY DEF HistoryInv, WorkersAgree
  <2>2. closed' = closed
    BY DEF stream
  <2> QED BY <2>1, <2>2, OneWorkerMoves DEF stream
<1>2. TypeOK'
  BY <1>1, FaultIsTyped DEF HistoryInv, TypeOK, stream
<1>3. AckedIsRecorded'
  BY DEF AckedIsRecorded
<1>4. WonByWinners'
  BY DEF HistoryInv, WonByWinners, stream
<1> QED BY <1>1, <1>2, <1>3, <1>4 DEF HistoryInv

(* ... when it neither stores nor acknowledges a bid.                      *)
LEMMA WorkerMovesQuietly ==
  ASSUME HistoryInv, NEW w \in Workers, NEW next \in Worker, Becomes(w, next),
         UNCHANGED <<stream, delivered, acked, status, overlap, due>>,
         Agrees(next, delivered, Recorded, closed[1]),
         Fault \/ NoFault, unsettled' \subseteq Bids
  PROVE  HistoryInv'
<1>1. Recorded' = Recorded /\ acked' = acked /\ status' = status /\ delivered' = delivered
  BY DEF Recorded
<1>2. /\ acked \subseteq delivered /\ acked \ {Close} \subseteq Recorded
      /\ status \in [Bids -> BidStatuses]
  BY DEF HistoryInv, TypeOK, AckedIsRecorded
<1> QED BY <1>1, <1>2, WorkerMoves

LEMMA AbortIsQuiet ==
  ASSUME HistoryInv, NEW w \in Workers, Abort(w), Fault,
         UNCHANGED <<stream, delivered, acked, status, overlap, due>>
  PROVE  HistoryInv'
<1>1. Becomes(w, Idle) /\ unsettled' \subseteq Bids
  BY DEF Abort, CutShort, HistoryInv, TypeOK
<1> QED BY <1>1, IdleIsTyped, IdleAgrees, WorkerMovesQuietly

-----------------------------------------------------------------------------
LEMMA PublishKeepsInv ==
  ASSUME HistoryInv,
         \/ \E b \in Bids : PublishBidPlaced(b)
         \/ \E winners \in Outcomes : PublishAuctionClosed(winners)
  PROVE  HistoryInv'
<1>1. ASSUME NEW b \in Bids, PublishBidPlaced(b)
      PROVE  HistoryInv'
  BY <1>1 DEF PublishBidPlaced, HistoryInv, TypeOK, WorkersAgree, AckedIsRecorded,
              WonByWinners, Recorded
<1>2. ASSUME NEW winners \in Outcomes, PublishAuctionClosed(winners)
      PROVE  HistoryInv'
  <2>1. /\ closed = << >> /\ closed' = <<winners>> /\ worker' = worker
        /\ delivered' = delivered /\ Recorded' = Recorded
    BY <1>2 DEF PublishAuctionClosed, Recorded
  <2>2. TypeOK'
    BY <1>2, OutcomesAssumption DEF PublishAuctionClosed, HistoryInv, TypeOK, Users
  <2>3. Close \notin delivered
    BY <2>1 DEF HistoryInv, WorkersAgree
  <2>4. \A w \in Workers : Agrees(worker[w], delivered, Recorded, closed'[1])
    BY <2>3, AgreesSplit, AgreesKept DEF HistoryInv
  <2>5. WorkersAgree'
    BY <2>1, <2>3, <2>4 DEF WorkersAgree, Agrees
  <2>6. AckedIsRecorded' /\ WonByWinners'
    BY <1>2, <2>1 DEF PublishAuctionClosed, HistoryInv, AckedIsRecorded, WonByWinners
  <2> QED BY <2>2, <2>5, <2>6 DEF HistoryInv
<1> QED BY <1>1, <1>2

LEMMA BeginKeepsInv ==
  ASSUME HistoryInv, NEW w \in Workers, NEW m \in Messages,
         ReadMessage(w, m) \/ Reclaim(w, m)
  PROVE  HistoryInv'
<1>1. /\ UNCHANGED <<stream, acked, status, unsettled>> /\ Recorded' = Recorded
      /\ delivered' = delivered \cup {m}
      /\ Close \in delivered' => closed # << >>
      /\ faults' \in 0..MaxFaults /\ overlap' \in BOOLEAN /\ due' \subseteq Bids
  <2>1. CASE ReadMessage(w, m)
    BY <2>1, FaultIsTyped
    DEF ReadMessage, IsNext, HistoryInv, TypeOK, WorkersAgree, Recorded, Standing, stream
  <2>2. CASE Reclaim(w, m)
    BY <2>2, FaultIsTyped
    DEF Reclaim, HistoryInv, TypeOK, WorkersAgree, Recorded, stream
  <2> QED BY <2>1, <2>2
<1>2. PICK r \in Started(m) : Becomes(w, r)
  BY DEF ReadMessage, Reclaim, Begin
<1>3. r \in Worker /\ Agrees(r, delivered', Recorded', closed[1])
  BY <1>1, StartedIsSound DEF HistoryInv, TypeOK
<1>4. WorkersAgree' /\ worker' \in [Workers -> Worker]
  <2>1. closed' = closed
    BY <1>1 DEF stream
  <2> QED BY <1>1, <1>2, <1>3, <2>1, OneWorkerMoves
<1>5. TypeOK'
  BY <1>1, <1>4 DEF HistoryInv, TypeOK, stream
<1>6. AckedIsRecorded' /\ WonByWinners'
  BY <1>1 DEF HistoryInv, AckedIsRecorded, WonByWinners, stream
<1> QED BY <1>4, <1>5, <1>6 DEF HistoryInv

-----------------------------------------------------------------------------
LEMMA WorkerIsSound ==
  ASSUME HistoryInv, NEW w \in Workers
  PROVE  /\ worker[w] \in Worker
         /\ Agrees(worker[w], delivered, Recorded, closed[1])
BY AgreesSplit DEF HistoryInv, TypeOK

LEMMA ListBidsKeepsInv ==
  ASSUME HistoryInv, NEW w \in Workers, ListBids(w)
  PROVE  HistoryInv'
<1> DEFINE r == worker[w]
           walk == CASE r.stage = "list_own"    -> "own"
                     [] r.stage = "list_others" -> "others"
                     [] OTHER                   -> "won"
           listed == [r EXCEPT !.stage = walk, !.todo = Recorded \ Excluded(r)]
<1>1. r \in Worker /\ Agrees(r, delivered, Recorded, closed[1])
  BY WorkerIsSound
<1>2. /\ r.stage \in {"list_own", "list_others", "list_won"}
      /\ UNCHANGED <<stream, delivered, acked, status, overlap, due>>
  BY DEF ListBids
<1>3. CASE NoFault /\ UNCHANGED unsettled /\ \E next \in GoOn(listed) : Becomes(w, next)
  <2>1. PICK next \in GoOn(listed) : Becomes(w, next)
    BY <1>3
  <2>2. /\ listed \in Worker /\ listed.stage = walk /\ listed.msg = r.msg
        /\ listed.winners = r.winners /\ listed.user = r.user
    BY <1>1 DEF Worker, Stages, Recorded
  <2>3. /\ walk = "own" => r.stage = "list_own"
        /\ walk = "others" => r.stage = "list_others"
        /\ walk = "won" => r.stage = "list_won"
        /\ walk \in {"own", "others", "won"}
    BY <1>2
  <2> HIDE DEF listed, walk
  <2>4. next \in Worker /\ Agrees(next, delivered, Recorded, closed[1])
    <3>1. /\ r.msg \in delivered
          /\ walk \in {"own", "others"} => r.msg # Close
          /\ walk = "others" => r.msg \in Recorded
          /\ walk = "won" => r.msg = Close /\ r.winners \cup {r.user} \subseteq closed[1]
      BY <1>1, <1>2, <2>3 DEF Agrees
    <3> QED BY <2>2, <2>3, <3>1, GoOnIsSound
  <2>5. unsettled' \subseteq Bids
    BY <1>3 DEF HistoryInv, TypeOK
  <2> QED BY <1>2, <1>3, <2>1, <2>4, <2>5, WorkerMovesQuietly
<1>4. CASE /\ Fault /\ r.stage = "list_won" /\ UNCHANGED unsettled
           /\ \E next \in MarkNext([r EXCEPT !.failed = TRUE]) : Becomes(w, next)
  <2> DEFINE s == [r EXCEPT !.failed = TRUE]
  <2>1. PICK next \in MarkNext(s) : Becomes(w, next)
    BY <1>4
  <2>2. s \in Worker /\ s.msg = r.msg /\ s.hit = r.hit /\ s.winners = r.winners
    BY <1>1 DEF Worker
  <2> HIDE DEF s
  <2>3. /\ r.msg = Close /\ r.msg \in delivered /\ r.hit = 0
        /\ r.winners \subseteq closed[1]
    BY <1>1, <1>4 DEF Agrees
  <2>4. next \in Worker /\ Agrees(next, delivered, Recorded, closed[1])
    BY <2>2, <2>3, MarkNextIsSound
  <2>5. unsettled' \subseteq Bids
    BY <1>4 DEF HistoryInv, TypeOK
  <2> QED BY <1>2, <1>4, <2>1, <2>4, <2>5, WorkerMovesQuietly
<1>5. CASE Fault /\ Abort(w)
  BY <1>2, <1>5, AbortIsQuiet
<1> QED BY <1>3, <1>4, <1>5 DEF ListBids

LEMMA GetBidKeepsInv ==
  ASSUME HistoryInv, NEW w \in Workers, GetBid(w)
  PROVE  HistoryInv'
<1> DEFINE r == worker[w]
<1>1. r \in Worker /\ Agrees(r, delivered, Recorded, closed[1])
  BY WorkerIsSound
<1>2. PICK b \in r.todo :
        /\ r.stage \in {"own", "others", "won"}
        /\ r.hit = 0
        /\ \/ /\ NoFault /\ UNCHANGED unsettled
              /\ IF Concerns(r, b)
                   THEN Becomes(w, [r EXCEPT !.hit = b])
                   ELSE \E next \in GoOn([r EXCEPT !.todo = @ \ {b}]) : Becomes(w, next)
           \/ /\ Fault
              /\ unsettled' = unsettled \cup {b}
              /\ \E next \in GoOn([r EXCEPT !.todo = @ \ {b}]) : Becomes(w, next)
        /\ UNCHANGED <<stream, delivered, acked, status, overlap, due>>
  BY DEF GetBid
<1>3. b \in Bids /\ b # 0
  BY <1>1, <1>2, BidsArePositive DEF Worker
<1>4. unsettled' \subseteq Bids
  BY <1>2, <1>3 DEF HistoryInv, TypeOK
<1> DEFINE passed == [r EXCEPT !.todo = @ \ {b}]
<1>5. CASE Concerns(r, b) /\ Becomes(w, [r EXCEPT !.hit = b])
  <2> DEFINE next == [r EXCEPT !.hit = b]
  <2>1. /\ next \in Worker /\ next.hit = b /\ next.stage = r.stage /\ next.msg = r.msg
        /\ next.todo = r.todo /\ next.winners = r.winners /\ next.user = r.user
    BY <1>1, <1>3 DEF Worker
  <2> HIDE DEF next
  <2>2. r.stage = "won" => Owner[b] = r.user
    BY <1>5 DEF Concerns
  <2>3. Agrees(next, delivered, Recorded, closed[1])
    BY <1>1, <1>2, <2>1, <2>2 DEF Agrees
  <2>4. Becomes(w, next)
    BY <1>5 DEF next
  <2> QED BY <1>2, <1>4, <2>1, <2>3, <2>4, WorkerMovesQuietly
<1>6. CASE \E next \in GoOn(passed) : Becomes(w, next)
  <2>1. PICK next \in GoOn(passed) : Becomes(w, next)
    BY <1>6
  <2>2. /\ passed \in Worker /\ passed.stage = r.stage /\ passed.msg = r.msg
        /\ passed.winners = r.winners /\ passed.user = r.user
    BY <1>1 DEF Worker
  <2> HIDE DEF passed
  <2>3. /\ r.msg \in delivered
        /\ r.stage \in {"own", "others"} => r.msg # Close
        /\ r.stage = "others" => r.msg \in Recorded
        /\ r.stage = "won" => r.msg = Close /\ r.winners \cup {r.user} \subseteq closed[1]
    BY <1>1, <1>2 DEF Agrees
  <2>4. next \in Worker /\ Agrees(next, delivered, Recorded, closed[1])
    BY <1>2, <2>2, <2>3, GoOnIsSound
  <2> QED BY <1>2, <1>4, <2>1, <2>4, WorkerMovesQuietly
<1> QED BY <1>2, <1>5, <1>6

LEMMA SetBidKeepsInv ==
  ASSUME HistoryInv, NEW w \in Workers, SetBid(w)
  PROVE  HistoryInv'
<1> DEFINE r == worker[w]
           left == IF r.stage = "won" THEN {} ELSE r.todo \ {r.hit}
           passed == [r EXCEPT !.todo = left]
<1>1. r \in Worker /\ Agrees(r, delivered, Recorded, closed[1])
  BY WorkerIsSound
<1>2. /\ r.hit # 0 /\ r.hit \in Bids
      /\ UNCHANGED <<stream, delivered, acked, overlap, due>>
      /\ Fault \/ NoFault
      /\ status' \in {status, [status EXCEPT ![r.hit] = IF r.stage = "won" THEN "WON" ELSE "OUTBID"]}
      /\ unsettled' \subseteq Bids
  BY <1>1 DEF SetBid, Worker, HistoryInv, TypeOK
<1>3. PICK next \in GoOn(passed) : Becomes(w, next)
  BY DEF SetBid
<1>4. /\ passed \in Worker /\ passed.stage = r.stage /\ passed.msg = r.msg
      /\ passed.winners = r.winners /\ passed.user = r.user
  BY <1>1 DEF Worker
<1>5. /\ r.stage \in {"own", "others", "won"}
      /\ r.msg \in delivered
      /\ r.stage \in {"own", "others"} => r.msg # Close
      /\ r.stage = "others" => r.msg \in Recorded
      /\ r.stage = "won" => /\ r.msg = Close /\ r.winners \cup {r.user} \subseteq closed[1]
                            /\ Owner[r.hit] = r.user
  BY <1>1, <1>2 DEF Agrees
<1>6. status \in [Bids -> BidStatuses]
  BY DEF HistoryInv, TypeOK
<1>7. /\ status' \in [Bids -> BidStatuses]
      /\ Recorded \subseteq Recorded'
  BY <1>2, <1>6 DEF BidStatuses, Recorded
<1>8. ASSUME NEW b \in Bids, status'[b] = "WON"
      PROVE  status[b] = "WON" \/ (closed # << >> /\ Owner[b] \in closed[1])
  <2>1. CASE b = r.hit /\ r.stage = "won"
    BY <1>5, <2>1 DEF HistoryInv, WorkersAgree
  <2>2. CASE b = r.hit /\ r.stage # "won"
    BY <1>2, <1>6, <1>8, <2>2
  <2>3. CASE b # r.hit
    BY <1>2, <1>6, <1>8, <2>3
  <2> QED BY <2>1, <2>2, <2>3
<1> HIDE DEF passed
<1>9. next \in Worker /\ Agrees(next, delivered, Recorded', closed[1])
  BY <1>4, <1>5, <1>7, GoOnIsSound
<1>10. /\ acked \subseteq delivered /\ acked' = acked /\ delivered' = delivered
       /\ acked \ {Close} \subseteq Recorded'
  BY <1>2, <1>7 DEF HistoryInv, TypeOK, AckedIsRecorded
<1> QED BY <1>2, <1>3, <1>7, <1>8, <1>9, <1>10, WorkerMoves

LEMMA CreateKeepsInv ==
  ASSUME HistoryInv, NEW w \in Workers, Create(w)
  PROVE  HistoryInv'
<1> DEFINE r == worker[w]
           stored == [status EXCEPT ![r.msg] = "ACCEPTED"]
<1>1. r \in Worker /\ Agrees(r, delivered, Recorded, closed[1])
  BY WorkerIsSound
<1>2. /\ r.stage = "create" /\ r.msg \in Bids /\ r.msg \in delivered /\ r.hit = 0
      /\ UNCHANGED <<stream, delivered, acked, overlap, due>>
      /\ status' \in {status, stored}
      /\ Fault \/ NoFault
  BY <1>1 DEF Create, Agrees, Worker, Messages
<1>3. status \in [Bids -> BidStatuses]
  BY DEF HistoryInv, TypeOK
<1>4. /\ status' \in [Bids -> BidStatuses]
      /\ Recorded \subseteq Recorded'
      /\ \A b \in Bids : status'[b] = "WON" => status[b] = "WON"
  BY <1>2, <1>3 DEF BidStatuses, Recorded
<1>5. /\ acked \subseteq delivered /\ acked' = acked /\ delivered' = delivered
      /\ acked \ {Close} \subseteq Recorded'
  BY <1>2, <1>4 DEF HistoryInv, TypeOK, AckedIsRecorded
<1>6. CASE /\ UNCHANGED unsettled /\ status' = stored
           /\ Becomes(w, [r EXCEPT !.stage = "list_others"])
  <2> DEFINE next == [r EXCEPT !.stage = "list_others"]
  <2>1. /\ next \in Worker /\ next.stage = "list_others" /\ next.msg = r.msg /\ next.hit = 0
    BY <1>1, <1>2 DEF Worker, Stages
  <2>2. r.msg \in Recorded' /\ r.msg # Close
    BY <1>2, <1>3, <1>6, BidsArePositive DEF Recorded, Close
  <2>3. Becomes(w, next) /\ unsettled' \subseteq Bids
    BY <1>6 DEF HistoryInv, TypeOK
  <2> HIDE DEF next
  <2>4. Agrees(next, delivered, Recorded', closed[1])
    BY <1>2, <2>1, <2>2 DEF Agrees
  <2> QED BY <1>2, <1>4, <1>5, <2>1, <2>3, <2>4, WorkerMoves
<1>7. CASE Abort(w)
  <2>1. Becomes(w, Idle) /\ unsettled' \subseteq Bids
    BY <1>7 DEF Abort, CutShort, HistoryInv, TypeOK
  <2> QED BY <1>2, <1>4, <1>5, <2>1, IdleIsTyped, IdleAgrees, WorkerMoves
<1> QED BY <1>6, <1>7 DEF Create

LEMMA AcknowledgeKeepsInv ==
  ASSUME HistoryInv, NEW w \in Workers, Acknowledge(w)
  PROVE  HistoryInv'
<1> DEFINE r == worker[w]
<1>1. r \in Worker /\ Agrees(r, delivered, Recorded, closed[1])
  BY WorkerIsSound
<1>2. /\ r.stage = "ack" /\ r.msg \in delivered
      /\ r.msg # Close => r.msg \in Recorded
      /\ UNCHANGED <<stream, status, overlap, due>> /\ delivered' = delivered
      /\ unsettled' \subseteq Bids
      /\ acked' \in {acked, acked \cup {r.msg}}
      /\ Fault \/ NoFault
      /\ Becomes(w, Idle)
  BY <1>1 DEF Acknowledge, Agrees, HistoryInv, TypeOK
<1>3. status' = status /\ status \in [Bids -> BidStatuses] /\ Recorded' = Recorded
  BY <1>2 DEF HistoryInv, TypeOK, Recorded
<1>4. /\ acked \subseteq acked' /\ acked' \subseteq delivered
      /\ acked' \ {Close} \subseteq Recorded'
  <2>1. acked \subseteq delivered /\ acked \ {Close} \subseteq Recorded
    BY DEF HistoryInv, TypeOK, AckedIsRecorded
  <2> HIDE DEF r
  <2> QED BY <1>2, <1>3, <2>1
<1> QED BY <1>2, <1>3, <1>4, IdleIsTyped, IdleAgrees, WorkerMoves

LEMMA CrashKeepsInv ==
  ASSUME HistoryInv, Crash
  PROVE  HistoryInv'
<1>1. /\ UNCHANGED <<stream, delivered, acked, status, overlap, due>>
      /\ worker' = [w \in Workers |-> Idle] /\ Recorded' = Recorded
      /\ unsettled' \subseteq Bids
  BY DEF Crash, CutShort, HistoryInv, TypeOK, Recorded
<1>2. TypeOK'
  BY <1>1, IdleIsTyped, FaultIsTyped DEF Crash, HistoryInv, TypeOK, stream
<1>3. \A w \in Workers : Agrees(worker'[w], delivered', Recorded', closed'[1])
  BY <1>1, IdleAgrees
<1>4. Close \in delivered' => closed' # << >>
  BY <1>1 DEF HistoryInv, WorkersAgree, stream
<1>5. WorkersAgree'
  BY <1>3, <1>4 DEF WorkersAgree, Agrees
<1>6. AckedIsRecorded' /\ WonByWinners'
  BY <1>1 DEF HistoryInv, AckedIsRecorded, WonByWinners, stream
<1> QED BY <1>2, <1>5, <1>6 DEF HistoryInv

-----------------------------------------------------------------------------
LEMMA InitIsSound == Init => HistoryInv
<1> SUFFICES ASSUME Init PROVE HistoryInv
  OBVIOUS
<1>1. TypeOK
  <2>1. placed \in Seq(Bids) /\ closed \in Seq(SUBSET Users)
    BY DEF Init
  <2>2. worker \in [Workers -> Worker] /\ status \in [Bids -> BidStatuses]
    BY IdleIsTyped DEF Init, BidStatuses
  <2>3. faults \in 0..MaxFaults
    BY HistoryBounds DEF Init
  <2> QED BY <2>1, <2>2, <2>3 DEF Init, TypeOK
<1>2. \A w \in Workers : Agrees(worker[w], delivered, Recorded, closed[1])
  BY IdleAgrees DEF Init
<1>3. WorkersAgree /\ AckedIsRecorded /\ WonByWinners
  BY <1>2, AgreesSplit DEF Init, AckedIsRecorded, WonByWinners
<1> QED BY <1>1, <1>3 DEF HistoryInv

LEMMA StepKeepsHistory == HistoryInv /\ [Next]_vars => HistoryInv'
<1> SUFFICES ASSUME HistoryInv, [Next]_vars PROVE HistoryInv'
  OBVIOUS
<1>1. CASE \/ \E b \in Bids : PublishBidPlaced(b)
           \/ \E winners \in Outcomes : PublishAuctionClosed(winners)
  BY <1>1, PublishKeepsInv
<1>2. CASE \E w \in Workers, m \in Messages : ReadMessage(w, m) \/ Reclaim(w, m)
  BY <1>2, BeginKeepsInv
<1>3. CASE \E w \in Workers : WorkerStep(w)
  BY <1>3, ListBidsKeepsInv, GetBidKeepsInv, SetBidKeepsInv, CreateKeepsInv,
     AcknowledgeKeepsInv DEF WorkerStep
<1>4. CASE Crash
  BY <1>4, CrashKeepsInv
<1>5. CASE UNCHANGED vars
  BY <1>5 DEF vars, stream, HistoryInv, TypeOK, WorkersAgree, AckedIsRecorded,
              WonByWinners, Recorded
<1> QED BY <1>1, <1>2, <1>3, <1>4, <1>5 DEF Next, Consumer

(* The inductive invariant of the bid service holds, for any number of     *)
(* bids, bidders, workers and winners, and whatever fails, restarts or     *)
(* runs twice.                                                             *)
THEOREM HistoryIsSound == Spec => []HistoryInv
BY InitIsSound, StepKeepsHistory, PTL DEF Spec

(* A bid whose event was acknowledged is in the history for good.          *)
THEOREM NoBidIsLost == Spec => []AckedIsRecorded
<1>1. HistoryInv => AckedIsRecorded
  BY DEF HistoryInv
<1> QED BY <1>1, HistoryIsSound, PTL

(* Only bids of announced winners are marked as won.                       *)
THEOREM OnlyWinnersWon == Spec => []WonByWinners
<1>1. HistoryInv => WonByWinners
  BY DEF HistoryInv
<1> QED BY <1>1, HistoryIsSound, PTL

-----------------------------------------------------------------------------
(* What the steps of a worker do to its slot, field by field.              *)

(* Marking goes on with a winner that is left, or is over.                 *)
ToNextWinner(r, next) ==
  \/ next.stage = "list_won" /\ next.user \in r.winners /\ next.winners = r.winners \ {next.user}
  \/ next.stage = "ack" /\ r.winners = {} /\ next.winners = {}

(* The worker is in the given walk, or past it, with the bids that are left. *)
Walks(r, walk, left, next) ==
  /\ next.msg = r.msg /\ next.hit = 0 /\ next.failed = r.failed /\ next.todo = left
  /\ \/ walk = "own" /\ next.stage \in {"own", "create"}
     \/ walk = "others" /\ (next.stage = "others" \/ (next.stage = "ack" /\ left = {}))
     \/ walk = "won" /\ \/ next.stage = "won" /\ next.user = r.user /\ next.winners = r.winners
                        \/ left = {} /\ ToNextWinner(r, next)

LEMMA MarkNextDoes ==
  ASSUME NEW r \in Worker, NEW next \in MarkNext(r)
  PROVE  /\ ToNextWinner(r, next)
         /\ next.msg = r.msg /\ next.hit = r.hit /\ next.failed = r.failed /\ next.todo = r.todo
<1>1. CASE r.winners # {}
  <2>1. PICK u \in r.winners :
          next = [r EXCEPT !.stage = "list_won", !.user = u, !.winners = r.winners \ {u}]
    BY <1>1 DEF MarkNext
  <2> QED BY <2>1 DEF Worker, ToNextWinner
<1>2. CASE r.winners = {}
  <2>1. next = [r EXCEPT !.stage = "ack"]
    BY <1>2 DEF MarkNext
  <2> QED BY <1>2, <2>1 DEF Worker, ToNextWinner
<1> QED BY <1>1, <1>2

LEMMA GoOnDoes ==
  ASSUME NEW r \in Worker, r.stage \in {"own", "others", "won"}, NEW next \in GoOn(r)
  PROVE  Walks(r, r.stage, r.todo, next)
<1> DEFINE s == [r EXCEPT !.hit = 0]
<1>1. /\ s \in Worker /\ s.stage = r.stage /\ s.msg = r.msg /\ s.hit = 0 /\ s.todo = r.todo
      /\ s.winners = r.winners /\ s.user = r.user /\ s.failed = r.failed
  BY DEF Worker
<1>2. \/ next = s
      \/ r.todo = {} /\ next \in AfterWalk(s)
  BY DEF GoOn
<1> HIDE DEF s
<1>3. CASE next = s
  BY <1>1, <1>3 DEF Walks
<1>4. CASE r.todo = {} /\ next \in AfterWalk(s)
  <2>1. CASE r.stage = "own"
    <3>1. next = [s EXCEPT !.stage = "create"]
      BY <1>1, <1>4, <2>1 DEF AfterWalk
    <3> QED BY <1>1, <2>1, <3>1 DEF Walks, Worker
  <2>2. CASE r.stage = "others"
    <3>1. next = [s EXCEPT !.stage = "ack"]
      BY <1>1, <1>4, <2>2 DEF AfterWalk
    <3> QED BY <1>1, <1>4, <2>2, <3>1 DEF Walks, Worker
  <2>3. CASE r.stage = "won"
    <3>1. next \in MarkNext(s)
      BY <1>1, <1>4, <2>3 DEF AfterWalk
    <3>2. /\ ToNextWinner(s, next)
          /\ next.msg = s.msg /\ next.hit = s.hit /\ next.failed = s.failed /\ next.todo = s.todo
      BY <1>1, <3>1, MarkNextDoes
    <3> QED BY <1>1, <1>4, <2>3, <3>2 DEF Walks, ToNextWinner
  <2> QED BY <2>1, <2>2, <2>3
<1> QED BY <1>2, <1>3, <1>4

(* Walks depends on few fields of the worker before.                       *)
LEMMA WalksFrom ==
  ASSUME NEW r, NEW s, NEW walk, NEW left, NEW next, Walks(s, walk, left, next),
         s.msg = r.msg, s.failed = r.failed, s.user = r.user, s.winners = r.winners
  PROVE  Walks(r, walk, left, next)
BY DEF Walks, ToNextWinner

LEMMA ListBidsDoes ==
  ASSUME HistoryInv, NEW w \in Workers, ListBids(w)
  PROVE  LET r == worker[w] IN
         /\ r.stage \in {"list_own", "list_others", "list_won"} /\ r.hit = 0
         /\ UNCHANGED <<stream, delivered, acked, status, overlap, due>>
         /\ \/ /\ UNCHANGED unsettled
               /\ \E next : /\ Becomes(w, next)
                            /\ Walks(r, CASE r.stage = "list_own"    -> "own"
                                          [] r.stage = "list_others" -> "others"
                                          [] OTHER                   -> "won",
                                     Recorded \ Excluded(r), next)
            \/ /\ UNCHANGED unsettled /\ r.stage = "list_won"
               /\ \E next : /\ Becomes(w, next)
                            /\ next.msg = r.msg /\ next.hit = 0 /\ next.failed
                            /\ next.todo = r.todo /\ next.stage \in {"list_won", "ack"}
            \/ r.stage \in {"list_own", "list_others"} /\ Abort(w)
<1> DEFINE r == worker[w]
           walk == CASE r.stage = "list_own"    -> "own"
                     [] r.stage = "list_others" -> "others"
                     [] OTHER                   -> "won"
           listed == [r EXCEPT !.stage = walk, !.todo = Recorded \ Excluded(r)]
           failing == [r EXCEPT !.failed = TRUE]
<1>1. r \in Worker /\ Agrees(r, delivered, Recorded, closed[1])
  BY WorkerIsSound
<1>2. /\ r.stage \in {"list_own", "list_others", "list_won"} /\ r.hit = 0
      /\ UNCHANGED <<stream, delivered, acked, status, overlap, due>>
  BY <1>1 DEF ListBids, Agrees
<1>3. ASSUME NoFault, UNCHANGED unsettled, NEW next \in GoOn(listed), Becomes(w, next)
      PROVE  Walks(r, walk, Recorded \ Excluded(r), next)
  <2>1. /\ listed \in Worker /\ listed.stage = walk /\ listed.msg = r.msg
        /\ listed.todo = Recorded \ Excluded(r) /\ listed.failed = r.failed
        /\ listed.winners = r.winners /\ listed.user = r.user
        /\ walk \in {"own", "others", "won"}
    BY <1>1 DEF Worker, Stages, Recorded
  <2> HIDE DEF listed, walk
  <2>2. Walks(listed, walk, listed.todo, next)
    BY <1>3, <2>1, GoOnDoes
  <2> QED BY <2>1, <2>2, WalksFrom
<1>4. ASSUME NEW next \in MarkNext(failing)
      PROVE  /\ next.msg = r.msg /\ next.hit = 0 /\ next.failed
             /\ next.todo = r.todo /\ next.stage \in {"list_won", "ack"}
  <2>1. /\ failing \in Worker /\ failing.msg = r.msg /\ failing.hit = 0
        /\ failing.failed = TRUE /\ failing.todo = r.todo
    BY <1>1, <1>2 DEF Worker
  <2> HIDE DEF failing
  <2> QED BY <1>4, <2>1, MarkNextDoes DEF ToNextWinner
<1>5. \/ NoFault /\ UNCHANGED unsettled /\ \E next \in GoOn(listed) : Becomes(w, next)
      \/ /\ r.stage = "list_won" /\ UNCHANGED unsettled
         /\ \E next \in MarkNext(failing) : Becomes(w, next)
      \/ r.stage # "list_won" /\ Abort(w)
  BY DEF ListBids
<1> HIDE DEF r, walk, listed, failing
<1>6. \/ UNCHANGED unsettled
         /\ \E next : Becomes(w, next) /\ Walks(r, walk, Recorded \ Excluded(r), next)
      \/ /\ UNCHANGED unsettled /\ r.stage = "list_won"
         /\ \E next : /\ Becomes(w, next)
                      /\ next.msg = r.msg /\ next.hit = 0 /\ next.failed
                      /\ next.todo = r.todo /\ next.stage \in {"list_won", "ack"}
      \/ r.stage \in {"list_own", "list_others"} /\ Abort(w)
  <2>1. ASSUME NoFault, UNCHANGED unsettled, NEW next \in GoOn(listed), Becomes(w, next)
        PROVE  \E n : Becomes(w, n) /\ Walks(r, walk, Recorded \ Excluded(r), n)
    BY <1>3, <2>1
  <2>2. ASSUME NEW next \in MarkNext(failing), Becomes(w, next)
        PROVE  \E n : /\ Becomes(w, n)
                      /\ n.msg = r.msg /\ n.hit = 0 /\ n.failed
                      /\ n.todo = r.todo /\ n.stage \in {"list_won", "ack"}
    BY <1>4, <2>2
  <2> QED BY <1>2, <1>5, <2>1, <2>2
<1> QED BY <1>2, <1>6 DEF r, walk

LEMMA GetBidDoes ==
  ASSUME HistoryInv, NEW w \in Workers, GetBid(w)
  PROVE  LET r == worker[w] IN
         \E b \in r.todo :
           /\ b \in Bids /\ r.stage \in {"own", "others", "won"} /\ r.hit = 0
           /\ UNCHANGED <<stream, delivered, acked, status, overlap, due>>
           /\ \/ /\ UNCHANGED unsettled /\ Concerns(r, b)
                 /\ \E next : /\ Becomes(w, next)
                              /\ next.msg = r.msg /\ next.stage = r.stage /\ next.hit = b
                              /\ next.todo = r.todo /\ next.user = r.user
                              /\ next.winners = r.winners /\ next.failed = r.failed
              \/ /\ (UNCHANGED unsettled /\ ~Concerns(r, b)) \/ unsettled' = unsettled \cup {b}
                 /\ \E next : Becomes(w, next) /\ Walks(r, r.stage, r.todo \ {b}, next)
<1> DEFINE r == worker[w]
<1>1. r \in Worker
  BY WorkerIsSound
<1>2. PICK b \in r.todo :
        /\ r.stage \in {"own", "others", "won"}
        /\ r.hit = 0
        /\ \/ /\ NoFault /\ UNCHANGED unsettled
              /\ IF Concerns(r, b)
                   THEN Becomes(w, [r EXCEPT !.hit = b])
                   ELSE \E next \in GoOn([r EXCEPT !.todo = @ \ {b}]) : Becomes(w, next)
           \/ /\ Fault
              /\ unsettled' = unsettled \cup {b}
              /\ \E next \in GoOn([r EXCEPT !.todo = @ \ {b}]) : Becomes(w, next)
        /\ UNCHANGED <<stream, delivered, acked, status, overlap, due>>
  BY DEF GetBid
<1> DEFINE passed == [r EXCEPT !.todo = r.todo \ {b}]
           hits == [r EXCEPT !.hit = b]
<1>3. b \in Bids
  BY <1>1, <1>2 DEF Worker
<1>4. /\ hits.msg = r.msg /\ hits.stage = r.stage /\ hits.hit = b
      /\ hits.todo = r.todo /\ hits.user = r.user
      /\ hits.winners = r.winners /\ hits.failed = r.failed
  BY <1>1 DEF Worker
<1>5. ASSUME NEW next \in GoOn(passed)
      PROVE  Walks(r, r.stage, r.todo \ {b}, next)
  <2>1. /\ passed \in Worker /\ passed.stage = r.stage /\ passed.msg = r.msg
        /\ passed.winners = r.winners /\ passed.user = r.user
        /\ passed.failed = r.failed /\ passed.todo = r.todo \ {b}
    BY <1>1 DEF Worker
  <2> HIDE DEF passed
  <2> QED BY <1>2, <1>5, <2>1, GoOnDoes, WalksFrom
<1>6. \/ UNCHANGED unsettled /\ Concerns(r, b) /\ Becomes(w, hits)
      \/ /\ (UNCHANGED unsettled /\ ~Concerns(r, b)) \/ unsettled' = unsettled \cup {b}
         /\ \E next \in GoOn(passed) : Becomes(w, next)
  BY <1>2
<1> HIDE DEF passed, hits
<1>7. \/ /\ UNCHANGED unsettled /\ Concerns(r, b)
         /\ \E next : /\ Becomes(w, next)
                      /\ next.msg = r.msg /\ next.stage = r.stage /\ next.hit = b
                      /\ next.todo = r.todo /\ next.user = r.user
                      /\ next.winners = r.winners /\ next.failed = r.failed
      \/ /\ (UNCHANGED unsettled /\ ~Concerns(r, b)) \/ unsettled' = unsettled \cup {b}
         /\ \E next : Becomes(w, next) /\ Walks(r, r.stage, r.todo \ {b}, next)
  BY <1>4, <1>5, <1>6
<1> QED BY <1>2, <1>3, <1>7

LEMMA SetBidDoes ==
  ASSUME HistoryInv, NEW w \in Workers, SetBid(w)
  PROVE  LET r == worker[w] IN
         /\ r.hit \in Bids /\ r.stage \in {"own", "others", "won"}
         /\ r.stage = "won" => Owner[r.hit] = r.user
         /\ UNCHANGED <<stream, delivered, acked, overlap, due>>
         /\ \E next : /\ Becomes(w, next)
                      /\ Walks(r, r.stage,
                               IF r.stage = "won" THEN {} ELSE r.todo \ {r.hit}, next)
         /\ \/ /\ UNCHANGED unsettled
               /\ status' = [status EXCEPT ![r.hit] =
                               IF r.stage = "won" THEN "WON" ELSE "OUTBID"]
            \/ UNCHANGED status /\ unsettled' = unsettled \cup {r.hit}
<1> DEFINE r == worker[w]
           left == IF r.stage = "won" THEN {} ELSE r.todo \ {r.hit}
           passed == [r EXCEPT !.todo = left]
<1>1. r \in Worker /\ Agrees(r, delivered, Recorded, closed[1])
  BY WorkerIsSound
<1>2. /\ r.hit \in Bids /\ r.stage \in {"own", "others", "won"}
      /\ r.stage = "won" => Owner[r.hit] = r.user
      /\ UNCHANGED <<stream, delivered, acked, overlap, due>>
  BY <1>1 DEF SetBid, Agrees, Worker
<1>3. PICK next \in GoOn(passed) : Becomes(w, next)
  BY DEF SetBid
<1>4. Walks(r, r.stage, left, next)
  <2>1. /\ passed \in Worker /\ passed.stage = r.stage /\ passed.msg = r.msg
        /\ passed.winners = r.winners /\ passed.user = r.user
        /\ passed.failed = r.failed /\ passed.todo = left
    BY <1>1 DEF Worker
  <2> HIDE DEF passed, left
  <2> QED BY <1>2, <1>3, <2>1, GoOnDoes, WalksFrom
<1>5. \/ /\ UNCHANGED unsettled
         /\ status' = [status EXCEPT ![r.hit] = IF r.stage = "won" THEN "WON" ELSE "OUTBID"]
      \/ UNCHANGED status /\ unsettled' = unsettled \cup {r.hit}
  BY DEF SetBid
<1>6. \E n : Becomes(w, n) /\ Walks(r, r.stage, left, n)
  BY <1>3, <1>4
<1> QED BY <1>2, <1>5, <1>6

LEMMA CreateDoes ==
  ASSUME HistoryInv, NEW w \in Workers, Create(w)
  PROVE  LET r == worker[w]
             stored == [status EXCEPT ![r.msg] = "ACCEPTED"]
         IN /\ r.stage = "create" /\ r.msg \in Bids /\ r.msg \in delivered /\ r.hit = 0
            /\ UNCHANGED <<stream, delivered, acked, overlap, due>>
            /\ \/ /\ UNCHANGED unsettled /\ status' = stored
                  /\ \E next : /\ Becomes(w, next) /\ next.stage = "list_others"
                               /\ next.msg = r.msg /\ next.hit = 0 /\ next.todo = r.todo
               \/ status' \in {status, stored} /\ Abort(w)
<1> DEFINE r == worker[w]
           goes == [r EXCEPT !.stage = "list_others"]
<1>1. r \in Worker /\ Agrees(r, delivered, Recorded, closed[1])
  BY WorkerIsSound
<1>2. /\ r.stage = "create" /\ r.msg \in Bids /\ r.msg \in delivered /\ r.hit = 0
      /\ UNCHANGED <<stream, delivered, acked, overlap, due>>
  BY <1>1 DEF Create, Agrees, Worker, Messages
<1>3. goes.stage = "list_others" /\ goes.msg = r.msg /\ goes.hit = 0 /\ goes.todo = r.todo
  BY <1>1, <1>2 DEF Worker
<1>4. \/ /\ UNCHANGED unsettled /\ status' = [status EXCEPT ![r.msg] = "ACCEPTED"]
         /\ Becomes(w, goes)
      \/ status' \in {status, [status EXCEPT ![r.msg] = "ACCEPTED"]} /\ Abort(w)
  BY DEF Create
<1> HIDE DEF goes
<1> QED BY <1>2, <1>3, <1>4

(* A slot that begins with a message.                                      *)
LEMMA BeginDoes ==
  ASSUME HistoryInv, NEW w \in Workers, NEW m \in Messages, Begin(w, m),
         m = Close => closed # << >>
  PROVE  /\ worker[w].stage = "idle"
         /\ w \in IF m = Close THEN CloseWorkers ELSE BidWorkers
         /\ \E next : /\ Becomes(w, next)
                      /\ next.msg = m /\ next.hit = 0 /\ next.todo = {} /\ ~next.failed
                      /\ m # Close => next.stage = "list_own"
                      /\ m = Close =>
                           \/ /\ next.stage = "list_won" /\ next.user \in closed[1]
                              /\ next.winners = closed[1] \ {next.user}
                           \/ next.stage = "ack" /\ closed[1] = {}
<1>1. PICK next \in Started(m) : Becomes(w, next)
  BY DEF Begin
<1>2. Idle \in Worker /\ Idle.hit = 0 /\ Idle.todo = {} /\ Idle.failed = FALSE /\ Idle.msg = Close
  BY IdleIsTyped DEF Idle
<1>3. CASE m = Close
  <2> DEFINE s == [Idle EXCEPT !.winners = closed[1]]
  <2>1. closed[1] \in SUBSET Users
    BY <1>3 DEF HistoryInv, TypeOK
  <2>2. /\ s \in Worker /\ s.msg = Close /\ s.hit = 0 /\ s.winners = closed[1]
        /\ s.todo = {} /\ s.failed = FALSE
    BY <1>2, <2>1 DEF Worker
  <2>3. next \in MarkNext(s)
    BY <1>1, <1>3 DEF Started
  <2> HIDE DEF s
  <2>4. /\ ToNextWinner(s, next)
        /\ next.msg = s.msg /\ next.hit = s.hit /\ next.failed = s.failed /\ next.todo = s.todo
    BY <2>2, <2>3, MarkNextDoes
  <2> QED BY <1>1, <1>3, <2>2, <2>4 DEF Begin, ToNextWinner
<1>4. CASE m # Close
  <2>1. next = [Idle EXCEPT !.stage = "list_own", !.msg = m, !.user = Owner[m]]
    BY <1>1, <1>4 DEF Started
  <2>2. /\ next.msg = m /\ next.hit = 0 /\ next.todo = {} /\ next.failed = FALSE
        /\ next.stage = "list_own"
    BY <1>2, <2>1 DEF Worker
  <2> QED BY <1>1, <1>4, <2>2 DEF Begin
<1> QED BY <1>3, <1>4

-----------------------------------------------------------------------------
(* The streams and their slots.                                            *)

(* What StreamAgrees says of a busy slot, for the recorded bids.           *)
Fits(w, r, rec) ==
  /\ r.todo \cup ({r.hit} \ {0}) \subseteq rec
  /\ IF r.msg = Close THEN w \in CloseWorkers
                      ELSE w \in BidWorkers /\ r.msg \notin r.todo \cup {r.hit}

SlotsFit ==
  \A w \in Workers : IF worker[w].stage = "idle" THEN worker[w] = Idle
                                                 ELSE Fits(w, worker[w], Recorded)

ReadInOrder ==
  /\ \A i, j \in DOMAIN placed : placed[i] = placed[j] => i = j
  /\ Read \in 0..Len(placed) /\ delivered \ {Close} = {placed[k] : k \in 1..Read}
  /\ Recorded \subseteq delivered

LEMMA StreamSplit == StreamAgrees <=> ReadInOrder /\ SlotsFit
BY DEF StreamAgrees, ReadInOrder, SlotsFit, Fits, Busy

LEMMA NextStreamSplit == StreamAgrees' <=> ReadInOrder' /\ SlotsFit'
BY DEF StreamAgrees, ReadInOrder, SlotsFit, Fits, Busy

LEMMA IdleFields ==
  /\ Idle \in Worker /\ Idle.stage = "idle" /\ Idle.msg = Close /\ Idle.todo = {}
  /\ Idle.hit = 0 /\ Idle.failed = FALSE
BY IdleIsTyped DEF Idle

LEMMA OneSlotBecomes ==
  ASSUME HistoryInv, NEW w \in Workers, NEW next, Becomes(w, next)
  PROVE  /\ worker'[w] = next
         /\ \A v \in Workers : v # w => worker'[v] = worker[v]
BY DEF HistoryInv, TypeOK, Becomes

(* A message that is read was not read before.                             *)
LEMMA NextIsNew ==
  ASSUME HistoryInv, StreamAgrees, NEW m \in Messages, IsNext(m)
  PROVE  /\ m \notin delivered
         /\ m = Close => closed # << >>
         /\ m # Close => m \in Bids /\ Read + 1 \in DOMAIN placed /\ placed[Read + 1] = m
<1>1. CASE m = Close
  BY <1>1 DEF IsNext
<1>2. CASE m # Close
  <2>1. Read + 1 \in DOMAIN placed /\ placed[Read + 1] = m
    BY <1>2 DEF IsNext, Read
  <2>2. ASSUME m \in delivered PROVE FALSE
    <3>1. PICK k \in 1..Read : m = placed[k]
      BY <1>2, <2>2 DEF StreamAgrees
    <3>2. k \in DOMAIN placed /\ k # Read + 1 /\ placed \in Seq(Bids)
      BY DEF StreamAgrees, HistoryInv, TypeOK
    <3> QED BY <2>1, <3>1, <3>2 DEF StreamAgrees
  <2> QED BY <1>2, <2>1, <2>2 DEF Messages
<1> QED BY <1>1, <1>2

LEMMA ReadCounts ==
  ASSUME HistoryInv, StreamAgrees, NEW m \in Messages, IsNext(m),
         delivered' = delivered \cup {m}
  PROVE  Read' = IF m = Close THEN Read ELSE Read + 1
<1>1. CASE m = Close
  <2>1. delivered' \ {Close} = delivered \ {Close}
    BY <1>1
  <2> QED BY <1>1, <2>1 DEF Read
<1>2. CASE m # Close
  <2>1. delivered' \ {Close} = (delivered \ {Close}) \cup {m}
    BY <1>2
  <2>2. delivered \ {Close} \subseteq Bids
    BY DEF HistoryInv, TypeOK, Messages
  <2>3. IsFiniteSet(delivered \ {Close})
    BY <2>2, BidsAssumption, FS_Subset
  <2>4. m \notin delivered \ {Close}
    BY NextIsNew
  <2>5. Cardinality((delivered \ {Close}) \cup {m}) = Cardinality(delivered \ {Close}) + 1
    BY <2>3, <2>4, FS_AddElement
  <2> QED BY <1>2, <2>1, <2>5 DEF Read
<1> QED BY <1>1, <1>2

LEMMA ReadMessageDoes ==
  ASSUME HistoryInv, StreamAgrees, NEW w \in Workers, NEW m \in Messages, ReadMessage(w, m)
  PROVE  /\ UNCHANGED <<stream, acked, status, unsettled>>
         /\ delivered' = delivered \cup {m}
         /\ overlap' = (overlap \/ Busy # {})
         /\ due' = IF m = Close /\ AllRecorded /\ Cardinality(Standing) = 1
                     THEN Standing ELSE due
         /\ m \notin delivered /\ (m = Close => closed # << >>)
         /\ m # Close => m \in Bids /\ Read + 1 \in DOMAIN placed /\ placed[Read + 1] = m
         /\ Read' = IF m = Close THEN Read ELSE Read + 1
         /\ Begin(w, m)
<1>1. /\ IsNext(m) /\ Begin(w, m) /\ delivered' = delivered \cup {m}
      /\ overlap' = (overlap \/ Busy # {})
      /\ due' = IF m = Close /\ AllRecorded /\ Cardinality(Standing) = 1
                  THEN Standing ELSE due
      /\ UNCHANGED <<stream, acked, status, unsettled>>
  BY DEF ReadMessage
<1> QED BY <1>1, NextIsNew, ReadCounts

LEMMA ReclaimDoes ==
  ASSUME HistoryInv, NEW w \in Workers, NEW m \in Messages, Reclaim(w, m)
  PROVE  /\ UNCHANGED <<stream, delivered, acked, status, unsettled, due>>
         /\ overlap' = TRUE
         /\ m \in delivered \ acked /\ (m = Close => closed # << >>)
         /\ Begin(w, m)
BY DEF Reclaim, HistoryInv, WorkersAgree

(* What all steps of a worker have in common: its handling goes on with    *)
(* the same message or is over, and only its own bid enters the history.   *)
LEMMA WorkerStepDoes ==
  ASSUME HistoryInv, StreamAgrees, NEW w \in Workers, WorkerStep(w)
  PROVE  LET r == worker[w] IN
         /\ r.stage # "idle"
         /\ UNCHANGED <<stream, delivered, overlap, due>>
         /\ Recorded \subseteq Recorded' /\ Recorded' \subseteq Recorded \cup {r.msg}
         /\ \/ Becomes(w, Idle)
            \/ \E next : /\ Becomes(w, next) /\ next.msg = r.msg /\ next.stage # "idle"
                         /\ next.todo \subseteq r.todo \cup (Recorded \ Excluded(r))
                         /\ next.hit \in r.todo \cup {0}
<1> DEFINE r == worker[w]
           GoesOn == \E next : /\ Becomes(w, next) /\ next.msg = r.msg /\ next.stage # "idle"
                               /\ next.todo \subseteq r.todo \cup (Recorded \ Excluded(r))
                               /\ next.hit \in r.todo \cup {0}
<1>1. status \in [Bids -> BidStatuses] /\ r \in Worker
  BY WorkerIsSound DEF HistoryInv, TypeOK
<1>2. ASSUME UNCHANGED status
      PROVE  Recorded' = Recorded
  BY <1>2 DEF Recorded
<1>3. ASSUME NEW walk, NEW left \in SUBSET (r.todo \cup (Recorded \ Excluded(r))),
             NEW next, Becomes(w, next), Walks(r, walk, left, next)
      PROVE  GoesOn
  <2>1. /\ next.msg = r.msg /\ next.hit = 0 /\ next.todo = left /\ next.stage # "idle"
    BY <1>3 DEF Walks, ToNextWinner
  <2> QED BY <1>3, <2>1
<1>4. CASE ListBids(w)
  <2>1. /\ r.stage \in {"list_own", "list_others", "list_won"}
        /\ UNCHANGED <<stream, delivered, acked, status, overlap, due>>
        /\ \/ \E walk, next : Becomes(w, next) /\ Walks(r, walk, Recorded \ Excluded(r), next)
           \/ \E next : /\ Becomes(w, next)
                        /\ next.msg = r.msg /\ next.hit = 0 /\ next.failed
                        /\ next.todo = r.todo /\ next.stage \in {"list_won", "ack"}
           \/ Abort(w)
    BY <1>4, ListBidsDoes
  <2> QED BY <1>2, <1>3, <2>1 DEF Abort
<1>5. CASE GetBid(w)
  <2>1. PICK b \in r.todo :
           /\ b \in Bids /\ r.stage \in {"own", "others", "won"} /\ r.hit = 0
           /\ UNCHANGED <<stream, delivered, acked, status, overlap, due>>
           /\ \/ \E next : /\ Becomes(w, next)
                           /\ next.msg = r.msg /\ next.stage = r.stage /\ next.hit = b
                           /\ next.todo = r.todo
              \/ \E next : Becomes(w, next) /\ Walks(r, r.stage, r.todo \ {b}, next)
    BY <1>5, GetBidDoes
  <2> QED BY <1>2, <1>3, <2>1
<1>6. CASE SetBid(w)
  <2>1. /\ r.hit \in Bids /\ r.stage \in {"own", "others", "won"}
        /\ UNCHANGED <<stream, delivered, acked, overlap, due>>
        /\ \E next : /\ Becomes(w, next)
                     /\ Walks(r, r.stage,
                              IF r.stage = "won" THEN {} ELSE r.todo \ {r.hit}, next)
        /\ \/ status' = [status EXCEPT ![r.hit] =
                            IF r.stage = "won" THEN "WON" ELSE "OUTBID"]
           \/ UNCHANGED status
    BY <1>6, SetBidDoes
  <2>2. r.hit \in Recorded
    BY <2>1, BidsArePositive DEF StreamAgrees, Busy
  <2>3. Recorded' = Recorded
    BY <1>1, <2>1, <2>2 DEF Recorded, BidStatuses
  <2>4. GoesOn
    BY <1>3, <2>1
  <2> QED BY <2>1, <2>3, <2>4
<1>7. CASE Create(w)
  <2>1. /\ r.stage = "create" /\ r.msg \in Bids
        /\ UNCHANGED <<stream, delivered, acked, overlap, due>>
        /\ status' \in {status, [status EXCEPT ![r.msg] = "ACCEPTED"]}
        /\ \/ \E next : /\ Becomes(w, next) /\ next.stage = "list_others"
                        /\ next.msg = r.msg /\ next.hit = 0 /\ next.todo = r.todo
           \/ Abort(w)
    BY <1>7, CreateDoes
  <2>2. Recorded \subseteq Recorded' /\ Recorded' \subseteq Recorded \cup {r.msg}
    BY <1>1, <2>1 DEF Recorded, BidStatuses
  <2> QED BY <2>1, <2>2 DEF Abort
<1>8. CASE Acknowledge(w)
  <2>1. UNCHANGED <<stream, delivered, status, overlap, due>> /\ r.stage = "ack" /\ Becomes(w, Idle)
    BY <1>8 DEF Acknowledge
  <2> QED BY <1>2, <2>1
<1> QED BY <1>4, <1>5, <1>6, <1>7, <1>8 DEF WorkerStep

LEMMA StreamStarts == Init => StreamAgrees
<1> SUFFICES ASSUME Init PROVE StreamAgrees
  OBVIOUS
<1>1. Read = 0 /\ placed = << >> /\ delivered = {} /\ Recorded = {}
  <2>1. delivered \ {Close} = {}
    BY DEF Init
  <2> QED BY <2>1, FS_EmptySet DEF Init, Read, Recorded
<1>2. ReadInOrder
  BY <1>1 DEF ReadInOrder
<1>3. SlotsFit
  BY IdleFields DEF Init, SlotsFit
<1> QED BY <1>2, <1>3, StreamSplit

LEMMA ReadInOrderKept ==
  ASSUME ReadInOrder, UNCHANGED <<placed, delivered>>, Recorded' \subseteq delivered
  PROVE  ReadInOrder'
BY DEF ReadInOrder, Read

LEMMA StepKeepsStream == HistoryInv /\ StreamAgrees /\ [Next]_vars => StreamAgrees'
<1> SUFFICES ASSUME HistoryInv, StreamAgrees, [Next]_vars PROVE StreamAgrees'
  OBVIOUS
<1>1. /\ ReadInOrder /\ SlotsFit
      /\ placed \in Seq(Bids) /\ delivered \subseteq Messages
  BY StreamSplit DEF HistoryInv, TypeOK
<1>2. ASSUME UNCHANGED <<worker, status>>
      PROVE  SlotsFit'
  BY <1>1, <1>2 DEF SlotsFit, Fits, Recorded
<1>3. ASSUME NEW b \in Bids, PublishBidPlaced(b)
      PROVE  StreamAgrees'
  <2>1. /\ placed' = Append(placed, b) /\ b \notin Published
        /\ UNCHANGED <<delivered, worker, status>>
    BY <1>3 DEF PublishBidPlaced
  <2>2. /\ Len(placed') = Len(placed) + 1 /\ DOMAIN placed' = 1..(Len(placed) + 1)
        /\ DOMAIN placed = 1..Len(placed) /\ Len(placed) \in Nat
        /\ placed'[Len(placed) + 1] = b
        /\ \A k \in 1..Len(placed) : placed'[k] = placed[k] /\ placed[k] # b
    BY <1>1, <2>1 DEF Published
  <2>3. Read' = Read /\ Recorded' = Recorded
    BY <2>1 DEF Read, Recorded
  <2>4. \A i, j \in DOMAIN placed' : placed'[i] = placed'[j] => i = j
    BY <1>1, <2>2 DEF ReadInOrder
  <2>5. Read' \in 0..Len(placed')
    BY <1>1, <2>2, <2>3 DEF ReadInOrder
  <2>6. {placed'[k] : k \in 1..Read'} = {placed[k] : k \in 1..Read}
    BY <1>1, <2>2, <2>3 DEF ReadInOrder
  <2>7. ReadInOrder'
    BY <1>1, <2>1, <2>3, <2>4, <2>5, <2>6 DEF ReadInOrder
  <2> QED BY <1>2, <2>1, <2>7, NextStreamSplit
<1>4. ASSUME NEW winners \in Outcomes, PublishAuctionClosed(winners)
      PROVE  StreamAgrees'
  <2>1. UNCHANGED <<placed, delivered, worker, status>> /\ Recorded' = Recorded
    BY <1>4 DEF PublishAuctionClosed, Recorded
  <2> QED BY <1>1, <1>2, <2>1, ReadInOrderKept, NextStreamSplit DEF ReadInOrder
<1>5. ASSUME NEW w \in Workers, NEW m \in Messages, Begin(w, m), UNCHANGED status,
             m = Close => closed # << >>
      PROVE  SlotsFit'
  <2>1. Recorded' = Recorded
    BY <1>5 DEF Recorded
  <2>2. PICK next : /\ Becomes(w, next) /\ next.msg = m /\ next.hit = 0 /\ next.todo = {}
                    /\ next.stage # "idle" /\ w \in IF m = Close THEN CloseWorkers ELSE BidWorkers
    BY <1>5, BeginDoes
  <2>3. Fits(w, next, Recorded)
    BY <2>2 DEF Fits, Close
  <2> QED BY <1>1, <2>1, <2>2, <2>3, OneSlotBecomes DEF SlotsFit
<1>6. ASSUME NEW w \in Workers, NEW m \in Messages, ReadMessage(w, m)
      PROVE  StreamAgrees'
  <2>1. /\ UNCHANGED <<placed, status>> /\ delivered' = delivered \cup {m}
        /\ m \notin delivered
        /\ m # Close => m \in Bids /\ Read + 1 \in DOMAIN placed /\ placed[Read + 1] = m
        /\ Read' = IF m = Close THEN Read ELSE Read + 1
        /\ Begin(w, m) /\ (m = Close => closed # << >>)
    BY <1>6, ReadMessageDoes DEF stream
  <2>2. Recorded' \subseteq delivered'
    BY <1>1, <2>1 DEF ReadInOrder, Recorded
  <2>3. Read' \in 0..Len(placed')
    BY <1>1, <2>1 DEF ReadInOrder
  <2>4. delivered' \ {Close} = {placed'[k] : k \in 1..Read'}
    <3>1. CASE m = Close
      BY <1>1, <2>1, <3>1 DEF ReadInOrder
    <3>2. CASE m # Close
      <4>1. delivered' \ {Close} = {placed[k] : k \in 1..Read} \cup {placed[Read + 1]}
        BY <1>1, <2>1, <3>2 DEF ReadInOrder
      <4>2. 1..Read' = (1..Read) \cup {Read + 1}
        BY <1>1, <2>1, <3>2 DEF ReadInOrder
      <4> QED BY <2>1, <4>1, <4>2
    <3> QED BY <3>1, <3>2
  <2>5. ReadInOrder'
    BY <1>1, <2>1, <2>2, <2>3, <2>4 DEF ReadInOrder
  <2> QED BY <1>5, <2>1, <2>5, NextStreamSplit
<1>7. ASSUME NEW w \in Workers, NEW m \in Messages, Reclaim(w, m)
      PROVE  StreamAgrees'
  <2>1. /\ UNCHANGED <<placed, delivered, status>> /\ Begin(w, m) /\ (m = Close => closed # << >>)
    BY <1>7, ReclaimDoes DEF stream
  <2>2. Recorded' = Recorded
    BY <2>1 DEF Recorded
  <2> QED BY <1>1, <1>5, <2>1, <2>2, ReadInOrderKept, NextStreamSplit DEF ReadInOrder
<1>8. ASSUME NEW w \in Workers, WorkerStep(w)
      PROVE  StreamAgrees'
  <2> DEFINE r == worker[w]
  <2>1. /\ r.stage # "idle"
        /\ UNCHANGED <<placed, delivered>>
        /\ Recorded \subseteq Recorded' /\ Recorded' \subseteq Recorded \cup {r.msg}
        /\ \/ Becomes(w, Idle)
           \/ \E next : /\ Becomes(w, next) /\ next.msg = r.msg /\ next.stage # "idle"
                        /\ next.todo \subseteq r.todo \cup (Recorded \ Excluded(r))
                        /\ next.hit \in r.todo \cup {0}
    BY <1>8, WorkerStepDoes DEF stream
  <2>2. r.msg \in delivered /\ Recorded \subseteq Bids
    BY <2>1, WorkerIsSound DEF Agrees, Recorded
  <2>3. Recorded' \subseteq delivered
    BY <1>1, <2>1, <2>2 DEF ReadInOrder
  <2>4. \A v \in Workers : v # w /\ worker[v].stage # "idle" => Fits(v, worker[v], Recorded')
    BY <1>1, <2>1 DEF SlotsFit, Fits
  <2>5. Fits(w, r, Recorded)
    BY <1>1, <2>1 DEF SlotsFit
  <2>6. ASSUME NEW next, next.msg = r.msg,
               next.todo \subseteq r.todo \cup (Recorded \ Excluded(r)),
               next.hit \in r.todo \cup {0}
        PROVE  Fits(w, next, Recorded')
    <3>1. r.msg # Close => r.msg # 0
      BY DEF Close
    <3> HIDE DEF r
    <3> QED BY <2>1, <2>2, <2>5, <2>6, <3>1 DEF Fits, Excluded
  <2>7. SlotsFit'
    BY <1>1, <2>1, <2>4, <2>6, OneSlotBecomes, IdleFields DEF SlotsFit
  <2> QED BY <1>1, <2>1, <2>3, <2>7, ReadInOrderKept, NextStreamSplit
<1>9. CASE Crash
  <2>1. /\ UNCHANGED <<placed, delivered, status>> /\ worker' = [w \in Workers |-> Idle]
        /\ Recorded' = Recorded
    BY <1>9 DEF Crash, stream, Recorded
  <2>2. SlotsFit'
    BY <2>1, IdleFields DEF SlotsFit
  <2> QED BY <1>1, <2>1, <2>2, ReadInOrderKept, NextStreamSplit DEF ReadInOrder
<1>10. CASE UNCHANGED vars
  <2>1. UNCHANGED <<placed, delivered, worker, status>> /\ Recorded' = Recorded
    BY <1>10 DEF vars, stream, Recorded
  <2> QED BY <1>1, <1>2, <2>1, ReadInOrderKept, NextStreamSplit DEF ReadInOrder
<1> QED BY <1>3, <1>4, <1>6, <1>7, <1>8, <1>9, <1>10 DEF Next, Consumer

-----------------------------------------------------------------------------
(* Two bids never stand without one of them being at work on the other.    *)

(* A step after which every bid that stands, and would have been marked    *)
(* with, or has just been stored, is one to mark with.                     *)
StillMarks ==
  \A b, c \in Bids :
    /\ b # c /\ b \in (Standing \ unsettled)' /\ c \in (Standing \ unsettled)'
    /\ WillMark(b, c) \/ b \notin Standing \ unsettled
    => WillMark(b, c)'

LEMMA TwoNeverStandKept ==
  ASSUME TwoNeverStand, StillMarks
  PROVE  TwoNeverStand'
<1>1. (Standing \ unsettled)' \subseteq Bids
  BY DEF Standing
<1>2. ASSUME NEW b \in (Standing \ unsettled)', NEW c \in (Standing \ unsettled)', b # c
      PROVE  WillMark(b, c)' \/ WillMark(c, b)'
  <2>1. CASE b \in Standing \ unsettled /\ c \in Standing \ unsettled
    <3>1. WillMark(b, c) \/ WillMark(c, b)
      BY <1>2, <2>1 DEF TwoNeverStand
    <3> QED BY <1>1, <1>2, <3>1 DEF StillMarks
  <2>2. CASE b \notin Standing \ unsettled
    BY <1>1, <1>2, <2>2 DEF StillMarks
  <2>3. CASE c \notin Standing \ unsettled
    BY <1>1, <1>2, <2>3 DEF StillMarks
  <2> QED BY <2>1, <2>2, <2>3
<1> QED BY <1>2 DEF TwoNeverStand

(* Another worker goes on marking, and so does a bid that is to come again. *)
LEMMA OthersGoOn ==
  ASSUME HistoryInv, NEW w \in Workers, NEW next, Becomes(w, next),
         NEW b \in Bids, NEW c \in Bids, WillMark(b, c),
         worker[w].msg # b, next.msg # b, b \in acked' => b \in acked
  PROVE  WillMark(b, c)'
<1>1. /\ worker'[w] = next
      /\ \A v \in Workers : v # w => worker'[v] = worker[v]
  BY OneSlotBecomes
<1>2. AtWork(b)' = AtWork(b)
  BY <1>1 DEF AtWork
<1>3. \A v \in AtWork(b) : worker'[v] = worker[v]
  BY <1>1 DEF AtWork
<1> QED BY <1>2, <1>3 DEF WillMark, Marks

(* A step with which a worker goes on with its bid.                        *)
LEMMA MarkingGoesOn ==
  ASSUME HistoryInv, NEW w \in Workers, NEW next, Becomes(w, next),
         next.msg = worker[w].msg, acked' = acked,
         \A b \in (Standing \ unsettled)' : b \in Standing \ unsettled \/ b = next.msg,
         \A c \in (Standing \ unsettled)' :
           /\ next.msg # Close /\ c # next.msg /\ next.msg \in (Standing \ unsettled)'
           /\ Marks(worker[w], c) \/ next.msg \notin Standing \ unsettled
           => Marks(next, c)
  PROVE  StillMarks
<1> SUFFICES ASSUME NEW b \in Bids, NEW c \in Bids, b # c,
                    b \in (Standing \ unsettled)', c \in (Standing \ unsettled)',
                    WillMark(b, c) \/ b \notin Standing \ unsettled
             PROVE  WillMark(b, c)'
  BY DEF StillMarks
<1>1. /\ worker'[w] = next
      /\ \A v \in Workers : v # w => worker'[v] = worker[v]
  BY OneSlotBecomes
<1>2. CASE b # next.msg
  BY <1>2, OthersGoOn
<1>3. CASE b = next.msg
  <2>1. AtWork(b)' = AtWork(b) /\ w \in AtWork(b)' /\ b # Close
    BY <1>1, <1>3, BidsArePositive DEF AtWork, Close
  <2>2. CASE Marks(worker[w], c) \/ b \notin Standing \ unsettled
    <3>1. Marks(next, c)
      BY <1>3, <2>1, <2>2
    <3> QED BY <1>1, <2>1, <3>1 DEF WillMark, Marks
  <2>3. CASE WillMark(b, c) /\ ~Marks(worker[w], c)
    <3>1. PICK v \in AtWork(b) : Marks(worker[v], c)
      BY <2>1, <2>3 DEF WillMark
    <3>2. worker'[v] = worker[v] /\ v \in AtWork(b)'
      BY <1>1, <2>1, <2>3, <3>1 DEF AtWork
    <3> QED BY <3>1, <3>2 DEF WillMark, Marks
  <2> QED BY <2>2, <2>3
<1> QED BY <1>2, <1>3

(* Without a write no bid comes to stand.                                  *)
LEMMA StandingShrinks ==
  ASSUME HistoryInv, status' = status, unsettled \subseteq unsettled'
  PROVE  (Standing \ unsettled)' \subseteq Standing \ unsettled
BY DEF Standing

(* A handling that is cut short leaves its bid behind or to be recorded.   *)
LEMMA MarkingCutShort ==
  ASSUME HistoryInv, NEW w \in Workers, Abort(w), acked' = acked,
         \A b \in (Standing \ unsettled)' : b \in Standing \ unsettled \/ b = worker[w].msg
  PROVE  StillMarks
<1> SUFFICES ASSUME NEW b \in Bids, NEW c \in Bids, b # c,
                    b \in (Standing \ unsettled)', c \in (Standing \ unsettled)',
                    WillMark(b, c) \/ b \notin Standing \ unsettled
             PROVE  WillMark(b, c)'
  BY DEF StillMarks
<1>1. /\ worker'[w] = Idle /\ Idle.msg # b
      /\ \A v \in Workers : v # w => worker'[v] = worker[v]
  BY OneSlotBecomes, IdleFields, BidsArePositive DEF Abort, Close
<1>2. CASE b # worker[w].msg
  BY <1>1, <1>2, OthersGoOn DEF Abort
<1>3. CASE b = worker[w].msg
  <2>1. b \notin unsettled'
    BY DEF Standing
  <2>2. b \notin acked /\ \A v \in Workers \ {w} : worker[v].msg # b
    BY <1>3, <2>1 DEF Abort, CutShort
  <2>3. AtWork(b)' = {}
    BY <1>1, <2>2 DEF AtWork
  <2> QED BY <2>2, <2>3 DEF WillMark
<1> QED BY <1>2, <1>3

LEMMA BeginKeepsMarking ==
  ASSUME HistoryInv, StreamAgrees, NEW w \in Workers, NEW m \in Messages, Begin(w, m),
         m = Close => closed # << >>, UNCHANGED <<status, unsettled, acked>>
  PROVE  StillMarks
<1> SUFFICES ASSUME NEW b \in Bids, NEW c \in Bids, WillMark(b, c) \/ b \notin Standing \ unsettled,
                    b \in (Standing \ unsettled)'
             PROVE  WillMark(b, c)'
  BY DEF StillMarks
<1>1. WillMark(b, c)
  BY DEF Standing
<1>2. PICK next : /\ Becomes(w, next) /\ next.msg = m /\ (m # Close => next.stage = "list_own")
  BY BeginDoes
<1>3. worker[w].stage = "idle" /\ worker[w].msg # b
  BY BeginDoes, IdleFields, BidsArePositive DEF StreamAgrees, Busy, Close
<1>4. CASE m = b
  <2>1. worker'[w] = next /\ w \in AtWork(b)'
    BY <1>2, <1>4, OneSlotBecomes DEF AtWork
  <2>2. Marks(next, c)
    BY <1>2, <1>4, BidsArePositive DEF Marks, Close
  <2> QED BY <2>1, <2>2 DEF WillMark, Marks
<1>5. CASE m # b
  BY <1>1, <1>2, <1>3, <1>5, OthersGoOn
<1> QED BY <1>4, <1>5

LEMMA ListBidsKeepsMarking ==
  ASSUME HistoryInv, StreamAgrees, NEW w \in Workers, ListBids(w)
  PROVE  StillMarks
<1> DEFINE r == worker[w]
<1>1. /\ r.stage \in {"list_own", "list_others", "list_won"}
      /\ status' = status /\ acked' = acked
      /\ \/ /\ UNCHANGED unsettled
            /\ \E next : /\ Becomes(w, next)
                         /\ Walks(r, CASE r.stage = "list_own"    -> "own"
                                       [] r.stage = "list_others" -> "others"
                                       [] OTHER                   -> "won",
                                  Recorded \ Excluded(r), next)
         \/ /\ UNCHANGED unsettled /\ r.stage = "list_won"
            /\ \E next : Becomes(w, next) /\ next.msg = r.msg
         \/ Abort(w)
  BY ListBidsDoes
<1>2. unsettled \subseteq unsettled'
  BY <1>1 DEF Abort, CutShort
<1>3. (Standing \ unsettled)' \subseteq Standing \ unsettled
  BY <1>1, <1>2, StandingShrinks
<1>4. Standing \subseteq Recorded
  BY DEF Standing, Recorded
<1>5. Agrees(r, delivered, Recorded, closed[1])
  BY WorkerIsSound
<1>6. ASSUME NEW next, Becomes(w, next),
             Walks(r, CASE r.stage = "list_own"    -> "own"
                        [] r.stage = "list_others" -> "others"
                        [] OTHER                   -> "won",
                   Recorded \ Excluded(r), next)
      PROVE  StillMarks
  <2>1. next.msg = r.msg
    BY <1>6 DEF Walks
  <2>2. ASSUME NEW c \in Standing, r.msg # Close, c # r.msg
        PROVE  Marks(next, c)
    <3>1. c \in Recorded \ Excluded(r)
      BY <1>4, <2>2 DEF Excluded
    <3>2. CASE r.stage = "list_own"
      BY <1>6, <3>2 DEF Walks, Marks
    <3>3. CASE r.stage = "list_others"
      <4>1. next.stage = "others" /\ next.todo = Recorded \ Excluded(r)
        BY <1>6, <3>1, <3>3 DEF Walks
      <4> QED BY <3>1, <4>1 DEF Marks
    <3> QED BY <1>1, <1>5, <2>2, <3>2, <3>3 DEF Agrees
  <2> QED BY <1>1, <1>3, <1>6, <2>1, <2>2, MarkingGoesOn
<1>7. ASSUME NEW next, Becomes(w, next), next.msg = r.msg, r.stage = "list_won"
      PROVE  StillMarks
  BY <1>1, <1>3, <1>5, <1>7, MarkingGoesOn DEF Agrees
<1>8. CASE Abort(w)
  BY <1>1, <1>3, <1>8, MarkingCutShort
<1> QED BY <1>1, <1>6, <1>7, <1>8

(* The walk leaves a bid alone only when it does not stand any more, or an *)
(* error left it behind.                                                   *)
LEMMA WalkKeepsMarking ==
  ASSUME HistoryInv, NEW w \in Workers, NEW next, Becomes(w, next), acked' = acked,
         worker[w].stage \in {"own", "others", "won"},
         NEW b \in Bids, NEW left,
         worker[w].stage # "won" => worker[w].todo \ {b} \subseteq left,
         Walks(worker[w], worker[w].stage, left, next),
         (Standing \ unsettled)' \subseteq Standing \ unsettled,
         worker[w].stage = "others" => b \notin (Standing \ unsettled)'
  PROVE  StillMarks
<1> DEFINE r == worker[w]
<1>1. Agrees(r, delivered, Recorded, closed[1])
  BY WorkerIsSound
<1>2. next.msg = r.msg /\ next.todo = left
  BY DEF Walks
<1>3. ASSUME NEW c \in (Standing \ unsettled)', r.msg # Close,
             Marks(r, c) \/ r.msg \notin Standing \ unsettled, r.msg \in (Standing \ unsettled)'
      PROVE  Marks(next, c)
  <2>1. Marks(r, c)
    BY <1>3
  <2>2. CASE r.stage = "own"
    BY <2>2 DEF Walks, Marks
  <2>3. CASE r.stage = "others"
    <3>1. c \in left
      BY <1>3, <2>1, <2>3 DEF Marks
    <3> QED BY <1>2, <2>3, <3>1 DEF Walks, Marks
  <2> QED BY <1>1, <1>3, <2>2, <2>3 DEF Agrees
<1> HIDE DEF r
<1>4. r = worker[w]
  BY DEF r
<1> QED BY <1>2, <1>3, <1>4, MarkingGoesOn

LEMMA GetBidKeepsMarking ==
  ASSUME HistoryInv, StreamAgrees, NEW w \in Workers, GetBid(w)
  PROVE  StillMarks
<1> DEFINE r == worker[w]
<1>1. PICK b \in r.todo :
        /\ b \in Bids /\ r.stage \in {"own", "others", "won"} /\ r.hit = 0
        /\ UNCHANGED <<stream, delivered, acked, status, overlap, due>>
        /\ \/ /\ UNCHANGED unsettled /\ Concerns(r, b)
              /\ \E next : /\ Becomes(w, next)
                           /\ next.msg = r.msg /\ next.stage = r.stage /\ next.hit = b
                           /\ next.todo = r.todo /\ next.user = r.user
                           /\ next.winners = r.winners /\ next.failed = r.failed
           \/ /\ (UNCHANGED unsettled /\ ~Concerns(r, b)) \/ unsettled' = unsettled \cup {b}
              /\ \E next : Becomes(w, next) /\ Walks(r, r.stage, r.todo \ {b}, next)
  BY GetBidDoes
<1>2. unsettled \subseteq unsettled' /\ status' = status /\ acked' = acked
  BY <1>1
<1>3. (Standing \ unsettled)' \subseteq Standing \ unsettled
  BY <1>2, StandingShrinks
<1>4. ASSUME NEW next, Becomes(w, next), next.msg = r.msg, next.stage = r.stage,
             next.todo = r.todo
      PROVE  StillMarks
  <2>1. \A c : Marks(r, c) => Marks(next, c)
    BY <1>4 DEF Marks
  <2> QED BY <1>2, <1>3, <1>4, <2>1, MarkingGoesOn
<1>5. ASSUME (UNCHANGED unsettled /\ ~Concerns(r, b)) \/ unsettled' = unsettled \cup {b},
             NEW next, Becomes(w, next), Walks(r, r.stage, r.todo \ {b}, next)
      PROVE  StillMarks
  <2>1. r.stage = "others" => b \notin (Standing \ unsettled)'
    BY <1>2, <1>5 DEF Standing, Concerns
  <2> QED BY <1>1, <1>2, <1>3, <1>5, <2>1, WalkKeepsMarking
<1> QED BY <1>1, <1>4, <1>5

LEMMA SetBidKeepsMarking ==
  ASSUME HistoryInv, StreamAgrees, NEW w \in Workers, SetBid(w)
  PROVE  StillMarks
<1> DEFINE r == worker[w]
           left == IF r.stage = "won" THEN {} ELSE r.todo \ {r.hit}
<1>1. /\ r.hit \in Bids /\ r.stage \in {"own", "others", "won"}
      /\ acked' = acked
      /\ \E next : Becomes(w, next) /\ Walks(r, r.stage, left, next)
      /\ \/ /\ UNCHANGED unsettled
            /\ status' = [status EXCEPT ![r.hit] = IF r.stage = "won" THEN "WON" ELSE "OUTBID"]
         \/ UNCHANGED status /\ unsettled' = unsettled \cup {r.hit}
  BY SetBidDoes
<1>2. PICK next : Becomes(w, next) /\ Walks(r, r.stage, left, next)
  BY <1>1
<1>3. status \in [Bids -> BidStatuses]
  BY DEF HistoryInv, TypeOK
<1>4. /\ (Standing \ unsettled)' \subseteq Standing \ unsettled
      /\ r.hit \notin (Standing \ unsettled)'
  BY <1>1, <1>3 DEF Standing
<1> QED BY <1>1, <1>2, <1>4, WalkKeepsMarking

LEMMA CreateKeepsMarking ==
  ASSUME HistoryInv, StreamAgrees, NEW w \in Workers, Create(w)
  PROVE  StillMarks
<1> DEFINE r == worker[w]
           stored == [status EXCEPT ![r.msg] = "ACCEPTED"]
<1>1. /\ r.stage = "create" /\ r.msg \in Bids /\ acked' = acked
      /\ \/ /\ UNCHANGED unsettled /\ status' = stored
            /\ \E next : /\ Becomes(w, next) /\ next.stage = "list_others"
                         /\ next.msg = r.msg
         \/ status' \in {status, stored} /\ Abort(w)
  BY CreateDoes
<1>2. status \in [Bids -> BidStatuses] /\ unsettled \subseteq unsettled'
  BY <1>1 DEF HistoryInv, TypeOK, Abort, CutShort
<1>3. \A b \in (Standing \ unsettled)' : b \in Standing \ unsettled \/ b = r.msg
  BY <1>1, <1>2 DEF Standing
<1>4. ASSUME NEW next, Becomes(w, next), next.stage = "list_others", next.msg = r.msg
      PROVE  StillMarks
  <2>1. \A c : Marks(next, c)
    BY <1>4 DEF Marks
  <2> QED BY <1>1, <1>3, <1>4, <2>1, MarkingGoesOn
<1>5. CASE Abort(w)
  BY <1>1, <1>3, <1>5, MarkingCutShort
<1> QED BY <1>1, <1>4, <1>5

LEMMA AcknowledgeKeepsMarking ==
  ASSUME HistoryInv, StreamAgrees, NEW w \in Workers, Acknowledge(w)
  PROVE  StillMarks
<1> DEFINE r == worker[w]
<1>1. /\ r.stage = "ack" /\ Becomes(w, Idle) /\ status' = status /\ unsettled' = unsettled
      /\ acked' \subseteq acked \cup {r.msg}
  BY DEF Acknowledge
<1> SUFFICES ASSUME NEW b \in Bids, NEW c \in Bids, WillMark(b, c) \/ b \notin Standing \ unsettled,
                    b \in (Standing \ unsettled)'
             PROVE  WillMark(b, c)'
  BY DEF StillMarks
<1>2. WillMark(b, c)
  BY <1>1 DEF Standing
<1>3. CASE b # r.msg
  <2>1. Idle.msg # b
    BY IdleFields, BidsArePositive DEF Close
  <2> QED BY <1>1, <1>2, <1>3, <2>1, OthersGoOn
<1>4. CASE b = r.msg
  <2>1. w \in AtWork(b) /\ ~Marks(r, c)
    BY <1>1, <1>4 DEF AtWork, Marks
  <2>2. PICK v \in AtWork(b) : v # w /\ Marks(worker[v], c)
    BY <1>2, <2>1 DEF WillMark
  <2>3. worker'[v] = worker[v] /\ v \in AtWork(b)'
    BY <1>1, <2>2, OneSlotBecomes DEF AtWork
  <2> QED BY <2>2, <2>3 DEF WillMark, Marks
<1> QED BY <1>3, <1>4

LEMMA CrashKeepsMarking ==
  ASSUME HistoryInv, StreamAgrees, Crash
  PROVE  StillMarks
<1> SUFFICES ASSUME NEW b \in Bids, NEW c \in Bids, WillMark(b, c) \/ b \notin Standing \ unsettled,
                    b \in (Standing \ unsettled)'
             PROVE  WillMark(b, c)'
  BY DEF StillMarks
<1>1. /\ worker' = [w \in Workers |-> Idle] /\ status' = status /\ acked' = acked
      /\ b \notin unsettled' /\ CutShort(Busy)
  BY DEF Crash, Standing
<1>2. WillMark(b, c)
  BY <1>1 DEF Standing, CutShort
<1>3. AtWork(b) \subseteq Busy /\ Busy \subseteq Workers
  BY IdleFields, BidsArePositive DEF StreamAgrees, AtWork, Busy, Close
<1>4. b \notin acked
  BY <1>1, <1>2, <1>3 DEF CutShort, WillMark, AtWork
<1>5. AtWork(b)' = {}
  BY <1>1, IdleFields, BidsArePositive DEF AtWork, Close
<1> QED BY <1>1, <1>4, <1>5 DEF WillMark

LEMMA StepKeepsMarking ==
  HistoryInv /\ StreamAgrees /\ TwoNeverStand /\ [Next]_vars => TwoNeverStand'
<1> SUFFICES ASSUME HistoryInv, StreamAgrees, TwoNeverStand, [Next]_vars
             PROVE  TwoNeverStand'
  OBVIOUS
<1>1. CASE UNCHANGED <<worker, status, unsettled, acked>>
  BY <1>1 DEF TwoNeverStand, Standing, WillMark, AtWork, Marks
<1>2. CASE \/ \E b \in Bids : PublishBidPlaced(b)
           \/ \E winners \in Outcomes : PublishAuctionClosed(winners)
           \/ UNCHANGED vars
  BY <1>1, <1>2 DEF PublishBidPlaced, PublishAuctionClosed, vars
<1>3. ASSUME NEW w \in Workers, NEW m \in Messages, ReadMessage(w, m) \/ Reclaim(w, m)
      PROVE  StillMarks
  <2>1. Begin(w, m) /\ (m = Close => closed # << >>) /\ UNCHANGED <<status, unsettled, acked>>
    BY <1>3, ReadMessageDoes, ReclaimDoes
  <2> QED BY <2>1, BeginKeepsMarking
<1>4. ASSUME NEW w \in Workers, WorkerStep(w)
      PROVE  StillMarks
  BY <1>4, ListBidsKeepsMarking, GetBidKeepsMarking, SetBidKeepsMarking, CreateKeepsMarking,
     AcknowledgeKeepsMarking DEF WorkerStep
<1>5. CASE Crash
  BY <1>5, CrashKeepsMarking, TwoNeverStandKept
<1> QED BY <1>2, <1>3, <1>4, <1>5, TwoNeverStandKept DEF Next, Consumer

LEMMA MarkingStarts == Init => TwoNeverStand
BY DEF Init, TwoNeverStand, Standing

(* At rest the slots of bid:placed are free, so that no bid is at work.    *)
LEMMA NobodyIsAtWork ==
  ASSUME HistoryInv, StreamAgrees, \A w \in BidWorkers : worker[w].stage = "idle",
         NEW b \in Bids
  PROVE  AtWork(b) = {}
<1>1. b # Close
  BY BidsArePositive DEF Close
<1> QED BY <1>1, IdleFields DEF StreamAgrees, AtWork, Busy

LEMMA RestIsAcked ==
  ASSUME HistoryInv, StreamAgrees, AtRest, NEW b \in Bids, b \in Recorded
  PROVE  b \in acked
<1>1. b \in delivered \ {Close} /\ placed \in Seq(Bids)
  BY BidsArePositive DEF StreamAgrees, Close, HistoryInv, TypeOK
<1>2. PICK k \in 1..Read : b = placed[k]
  BY <1>1 DEF StreamAgrees
<1>3. k \in DOMAIN placed
  BY <1>1, <1>2 DEF StreamAgrees
<1> QED BY <1>2, <1>3 DEF Published, AtRest

LEMMA RestHasOneStanding ==
  HistoryInv /\ StreamAgrees /\ TwoNeverStand => OneBidStands
<1> SUFFICES ASSUME HistoryInv, StreamAgrees, TwoNeverStand, AtRest
             PROVE  Cardinality(Standing \ unsettled) <= 1
  BY DEF OneBidStands
<1> DEFINE S == Standing \ unsettled
<1>1. ASSUME NEW b \in S, NEW c \in S, WillMark(b, c)
      PROVE  FALSE
  <2>1. b \in Bids /\ b \in Recorded
    BY DEF Standing, Recorded
  <2>2. AtWork(b) = {} /\ b \in acked
    BY <2>1, NobodyIsAtWork, RestIsAcked DEF AtRest
  <2> QED BY <1>1, <2>2 DEF WillMark
<1>2. \A b, c \in S : b = c
  BY <1>1 DEF TwoNeverStand
<1>3. CASE S = {}
  BY <1>3, FS_EmptySet
<1>4. CASE S # {}
  <2>1. PICK b : S = {b}
    BY <1>2, <1>4
  <2> QED BY <2>1, FS_Singleton
<1> QED BY <1>3, <1>4

(* However the workers of different bids interleave, and whatever fails,   *)
(* is handled again or comes in another order: when the bid service comes  *)
(* to rest at most one bid of the auction is still ACCEPTED, besides those *)
(* that an error which nobody retries left behind.                         *)
THEOREM TwoBidsNeverStand == Spec => []OneBidStands
<1>1. Init => HistoryInv /\ StreamAgrees /\ TwoNeverStand
  BY InitIsSound, StreamStarts, MarkingStarts
<1>2. HistoryInv /\ StreamAgrees /\ TwoNeverStand /\ [Next]_vars
      => HistoryInv' /\ StreamAgrees' /\ TwoNeverStand'
  BY StepKeepsHistory, StepKeepsStream, StepKeepsMarking
<1>3. HistoryInv /\ StreamAgrees /\ TwoNeverStand => OneBidStands
  BY RestHasOneStanding
<1> QED BY <1>1, <1>2, <1>3, PTL DEF Spec

-----------------------------------------------------------------------------
(* While one event is handled at a time the last bid has the lead.         *)

BeforeStored(r) == r.stage \in {"list_own", "own", "create"}

OneIsBusy ==
  /\ \A v, w \in Busy : v = w
  /\ \A w \in Busy : worker[w].msg # Close =>
       Read > 0 /\ worker[w].msg = placed[Read] /\ worker[w].msg \notin acked

Ranks(k) ==
  placed[k] \notin unsettled =>
    IF k = Read
      THEN \/ status[placed[k]] \in {"ACCEPTED", "WON"}
           \/ \E w \in AtWork(placed[k]) : BeforeStored(worker[w])
      ELSE \/ status[placed[k]] \in {"OUTBID", "WON"}
           \/ \E w \in AtWork(placed[Read]) : Marks(worker[w], placed[k])

LastLeads == OneIsBusy /\ \A k \in 1..Read : Ranks(k)

LEMMA LastSplit ==
  /\ LastStands <=> (~overlap /\ NoneGivenUp => LastLeads)
  /\ LastStands' <=> (~overlap' /\ NoneGivenUp' => LastLeads')
BY DEF LastStands, LastLeads, OneIsBusy, Ranks, BeforeStored

LEMMA AtWorkIsBusy ==
  ASSUME StreamAgrees, NEW b \in Bids
  PROVE  AtWork(b) \subseteq Busy
BY IdleFields, BidsArePositive DEF StreamAgrees, AtWork, Busy, Close

LEMMA PlacedAreBids ==
  ASSUME HistoryInv, StreamAgrees, NEW k \in 1..Read
  PROVE  placed[k] \in Bids /\ placed[k] # Close /\ placed[k] \in delivered
<1>1. k \in DOMAIN placed /\ placed \in Seq(Bids)
  BY DEF HistoryInv, TypeOK, StreamAgrees
<1>2. placed[k] \in Bids
  BY <1>1
<1> QED BY <1>2, BidsArePositive DEF StreamAgrees, Close

(* The close is handled: bids are marked as won, and no more.              *)
LEMMA LastLeadsAtClose ==
  ASSUME HistoryInv, StreamAgrees, LastLeads, NEW w \in Busy, worker[w].msg = Close,
         NEW next, Becomes(w, next), next.msg = Close,
         UNCHANGED <<placed, delivered>>, acked' \subseteq acked \cup {Close},
         unsettled \subseteq unsettled',
         \A b \in Bids : status'[b] \in {status[b], "WON"}
  PROVE  LastLeads'
<1>1. w \in Workers /\ Read' = Read
  BY DEF Busy, Read
<1>2. /\ worker'[w] = next
      /\ \A v \in Workers : v # w => worker'[v] = worker[v]
  BY <1>1, OneSlotBecomes
<1>3. ASSUME NEW b \in Bids
      PROVE  AtWork(b)' = AtWork(b) /\ \A v \in AtWork(b) : worker'[v] = worker[v]
  BY <1>1, <1>2, BidsArePositive DEF AtWork, Close
<1>4. Busy = {w}
  BY DEF LastLeads, OneIsBusy
<1>5. Busy' \subseteq {w}
  BY <1>2, <1>4 DEF Busy
<1>6. OneIsBusy'
  BY <1>2, <1>5 DEF OneIsBusy
<1>7. ASSUME NEW k \in 1..Read
      PROVE  Ranks(k)'
  <2>1. placed[k] \in Bids /\ placed[Read] \in Bids
    BY PlacedAreBids DEF StreamAgrees
  <2>2. Ranks(k)
    BY DEF LastLeads
  <2>3. /\ AtWork(placed[k])' = AtWork(placed[k])
        /\ \A v \in AtWork(placed[k]) : worker'[v] = worker[v]
    BY <1>3, <2>1
  <2>4. PICK last : last = placed[Read]
    OBVIOUS
  <2>8. AtWork(last)' = AtWork(last) /\ \A v \in AtWork(last) : worker'[v] = worker[v]
    BY <1>3, <2>1, <2>4
  <2>5. status'[placed[k]] \in {status[placed[k]], "WON"}
    BY <2>1
  <2>6. CASE k = Read
    BY <1>1, <2>2, <2>3, <2>5, <2>6 DEF Ranks, BeforeStored, AtWork
  <2>7. CASE k # Read
    BY <1>1, <2>2, <2>4, <2>5, <2>7, <2>8 DEF Ranks, Marks, AtWork
  <2> QED BY <2>6, <2>7
<1> QED BY <1>1, <1>6, <1>7 DEF LastLeads

(* The last bid is handled: once it is stored it keeps the lead, and its   *)
(* worker lets no older one stand that it has passed.                      *)
LEMMA LastLeadsAtBid ==
  ASSUME HistoryInv, StreamAgrees, LastLeads, NEW w \in Busy, worker[w].msg # Close,
         NEW next, Becomes(w, next), next.msg = worker[w].msg, next.stage # "idle",
         UNCHANGED <<placed, delivered, acked>>, unsettled \subseteq unsettled',
         \/ status'[next.msg] \in {"ACCEPTED", "WON"}
         \/ BeforeStored(next)
         \/ status[next.msg] \notin {"ACCEPTED", "WON"} /\ ~BeforeStored(worker[w]),
         \A c \in delivered \ {Close, next.msg} :
           /\ c \notin unsettled'
           /\ status[c] \in {"OUTBID", "WON"} \/ Marks(worker[w], c)
           => status'[c] \in {"OUTBID", "WON"} \/ Marks(next, c)
  PROVE  LastLeads'
<1>1. w \in Workers /\ Read' = Read
  BY DEF Busy, Read
<1>2. /\ worker'[w] = next
      /\ \A v \in Workers : v # w => worker'[v] = worker[v]
  BY <1>1, OneSlotBecomes
<1>3. Busy = {w}
  BY DEF LastLeads, OneIsBusy
<1>4. Busy' = {w}
  BY <1>1, <1>2, <1>3 DEF Busy
<1>5. /\ Read > 0 /\ next.msg = placed[Read] /\ next.msg \notin acked
  BY DEF LastLeads, OneIsBusy
<1>6. OneIsBusy'
  BY <1>1, <1>2, <1>4, <1>5 DEF OneIsBusy
<1>7. Read \in 1..Read
  BY <1>5 DEF StreamAgrees
<1>8. next.msg \in Bids /\ AtWork(next.msg) \subseteq {w} /\ w \in AtWork(next.msg)'
  BY <1>1, <1>2, <1>3, <1>5, <1>7, PlacedAreBids, AtWorkIsBusy DEF AtWork
<1>9. Ranks(Read)'
  <2>1. CASE BeforeStored(next)
    <3>1. \E v \in AtWork(next.msg)' : BeforeStored(worker'[v])
      BY <1>2, <1>8, <2>1
    <3> QED BY <1>1, <1>5, <3>1 DEF Ranks, BeforeStored, AtWork
  <2>2. CASE status'[next.msg] \in {"ACCEPTED", "WON"}
    BY <1>1, <1>5, <2>2 DEF Ranks
  <2>3. CASE status[next.msg] \notin {"ACCEPTED", "WON"} /\ ~BeforeStored(worker[w])
    <3>1. Ranks(Read)
      BY <1>7 DEF LastLeads
    <3>2. next.msg \in unsettled
      BY <1>5, <1>8, <2>3, <3>1 DEF Ranks
    <3> QED BY <1>1, <1>5, <3>2 DEF Ranks
  <2> QED BY <2>1, <2>2, <2>3
<1>10. ASSUME NEW k \in 1..Read, k # Read, placed[k] \notin unsettled'
       PROVE  Ranks(k)'
  <2>1. placed[k] \in delivered \ {Close, next.msg}
    <3>1. k \in DOMAIN placed /\ Read \in DOMAIN placed /\ placed \in Seq(Bids)
      BY <1>7 DEF StreamAgrees, HistoryInv, TypeOK
    <3> QED BY <1>5, <1>10, <3>1, PlacedAreBids DEF StreamAgrees
  <2>2. Ranks(k)
    BY DEF LastLeads
  <2>3. status[placed[k]] \in {"OUTBID", "WON"} \/ Marks(worker[w], placed[k])
    BY <1>5, <1>8, <1>10, <2>2 DEF Ranks
  <2>4. status'[placed[k]] \in {"OUTBID", "WON"} \/ Marks(next, placed[k])
    BY <1>10, <2>1, <2>3
  <2>5. CASE status'[placed[k]] \in {"OUTBID", "WON"}
    BY <1>1, <1>10, <2>5 DEF Ranks
  <2>6. CASE Marks(next, placed[k])
    <3>1. \E v \in AtWork(next.msg)' : Marks(worker'[v], placed[k])
      BY <1>2, <1>8, <2>6
    <3> QED BY <1>1, <1>5, <1>10, <3>1 DEF Ranks, Marks, AtWork
  <2> QED BY <2>4, <2>5, <2>6
<1>11. ASSUME NEW k \in 1..Read
       PROVE  Ranks(k)'
  <2>1. CASE k = Read
    BY <1>1, <1>9, <2>1 DEF Ranks
  <2>2. CASE k # Read /\ placed[k] \notin unsettled'
    BY <1>10, <2>2
  <2>3. CASE placed[k] \in unsettled'
    BY <2>3 DEF Ranks
  <2> QED BY <2>1, <2>2, <2>3
<1> QED BY <1>1, <1>6, <1>11 DEF LastLeads

(* A bid whose handling is over without an acknowledgement is given up.    *)
LEMMA StoppedIsGivenUp ==
  ASSUME HistoryInv, StreamAgrees, LastLeads, NEW w \in Busy, worker[w].msg # Close,
         Becomes(w, Idle), delivered' = delivered, worker[w].msg \notin acked'
  PROVE  ~NoneGivenUp'
<1>1. PICK m : m = worker[w].msg
  OBVIOUS
<1>2. w \in Workers /\ worker[w].stage # "idle"
  BY DEF Busy
<1>3. m \in delivered \ {Close} /\ m \in Bids
  BY <1>1, <1>2, WorkerIsSound DEF Agrees, HistoryInv, TypeOK, Messages
<1>4. AtWork(m) \subseteq {w}
  BY <1>3, AtWorkIsBusy DEF LastLeads, OneIsBusy
<1>5. AtWork(m)' = {}
  BY <1>2, <1>3, <1>4, OneSlotBecomes, IdleFields DEF AtWork
<1> QED BY <1>1, <1>3, <1>5 DEF NoneGivenUp

LEMMA OthersAreRecorded ==
  ASSUME HistoryInv, StreamAgrees, LastLeads, NoneGivenUp, NEW w \in Busy,
         NEW c \in delivered \ {Close, worker[w].msg}
  PROVE  c \in Recorded
<1>1. c \in Bids
  BY DEF HistoryInv, TypeOK, Messages
<1>2. AtWork(c) = {}
  BY <1>1, AtWorkIsBusy DEF LastLeads, OneIsBusy, AtWork
<1> QED BY <1>2 DEF NoneGivenUp, HistoryInv, AckedIsRecorded

LEMMA ListBidsKeepsLast ==
  ASSUME HistoryInv, StreamAgrees, LastLeads, NoneGivenUp, NoneGivenUp',
         NEW w \in Workers, ListBids(w)
  PROVE  LastLeads'
<1> DEFINE r == worker[w]
<1>1. /\ r.stage \in {"list_own", "list_others", "list_won"}
      /\ UNCHANGED <<stream, delivered, acked, status, overlap, due>>
      /\ \/ /\ UNCHANGED unsettled
            /\ \E next : /\ Becomes(w, next)
                         /\ Walks(r, CASE r.stage = "list_own"    -> "own"
                                       [] r.stage = "list_others" -> "others"
                                       [] OTHER                   -> "won",
                                  Recorded \ Excluded(r), next)
         \/ /\ UNCHANGED unsettled /\ r.stage = "list_won"
            /\ \E next : Becomes(w, next) /\ next.msg = r.msg
         \/ r.stage \in {"list_own", "list_others"} /\ Abort(w)
  BY ListBidsDoes
<1>2. /\ UNCHANGED <<placed, delivered, acked, status>> /\ w \in Busy
  BY <1>1 DEF stream, Busy
<1>3. Agrees(r, delivered, Recorded, closed[1])
  BY WorkerIsSound
<1>4. /\ r.stage = "list_won" <=> r.msg = Close
      /\ r.msg = Close => UNCHANGED unsettled
  BY <1>1, <1>3 DEF Agrees
<1>5. ASSUME UNCHANGED unsettled, NEW next, Becomes(w, next),
             Walks(r, CASE r.stage = "list_own"    -> "own"
                        [] r.stage = "list_others" -> "others"
                        [] OTHER                   -> "won",
                   Recorded \ Excluded(r), next)
      PROVE  LastLeads'
  <2>1. next.msg = r.msg /\ next.stage # "idle" /\ next.todo = Recorded \ Excluded(r)
    BY <1>5 DEF Walks, ToNextWinner
  <2>2. CASE r.msg = Close
    BY <1>2, <1>5, <2>1, <2>2, LastLeadsAtClose
  <2>3. CASE r.stage = "list_own"
    <3>1. next.stage \in {"own", "create"}
      BY <1>5, <2>3 DEF Walks
    <3>2. BeforeStored(next) /\ \A c : Marks(next, c)
      BY <3>1 DEF BeforeStored, Marks
    <3> QED BY <1>2, <1>4, <1>5, <2>1, <2>3, <3>2, LastLeadsAtBid
  <2>4. CASE r.stage = "list_others"
    <3>1. ASSUME NEW c \in delivered \ {Close, next.msg}
          PROVE  Marks(next, c)
      <4>1. c \in next.todo
        BY <1>2, <1>4, <2>1, <2>4, <3>1, OthersAreRecorded DEF Excluded
      <4>2. next.stage = "others"
        BY <1>5, <2>1, <2>4, <4>1 DEF Walks
      <4> QED BY <4>1, <4>2 DEF Marks
    <3>2. ~BeforeStored(r)
      BY <2>4 DEF BeforeStored
    <3>3. \/ status'[next.msg] \in {"ACCEPTED", "WON"}
          \/ status[next.msg] \notin {"ACCEPTED", "WON"} /\ ~BeforeStored(worker[w])
      BY <1>2, <3>2
    <3> HIDE DEF r
    <3>4. r = worker[w]
      BY DEF r
    <3> QED BY <1>2, <1>4, <1>5, <2>1, <2>4, <3>1, <3>3, <3>4, LastLeadsAtBid
  <2> QED BY <1>1, <1>4, <2>2, <2>3, <2>4
<1>6. ASSUME UNCHANGED unsettled, r.stage = "list_won", NEW next, Becomes(w, next),
             next.msg = r.msg
      PROVE  LastLeads'
  BY <1>2, <1>4, <1>6, LastLeadsAtClose
<1>7. CASE r.stage \in {"list_own", "list_others"} /\ Abort(w)
  BY <1>2, <1>3, <1>4, <1>7, StoppedIsGivenUp DEF Abort, LastLeads, OneIsBusy
<1> QED BY <1>1, <1>5, <1>6, <1>7

(* The walk comes to bid b and leaves it behind, marked or unsettled or    *)
(* not standing.                                                           *)
LEMMA WalkKeepsLast ==
  ASSUME HistoryInv, StreamAgrees, LastLeads, NEW w \in Workers, NEW next, Becomes(w, next),
         worker[w].stage \in {"own", "others", "won"},
         UNCHANGED <<placed, delivered, acked>>, unsettled \subseteq unsettled',
         NEW b \in Bids, b # worker[w].msg,
         Walks(worker[w], worker[w].stage,
               IF worker[w].stage = "won" THEN {} ELSE worker[w].todo \ {b}, next)
           \/ Walks(worker[w], worker[w].stage, worker[w].todo \ {b}, next),
         \A c \in Bids \ {b} : status'[c] = status[c],
         status'[b] \in {status[b], IF worker[w].stage = "won" THEN "WON" ELSE "OUTBID"},
         worker[w].stage = "others" =>
           status'[b] \in {"OUTBID", "WON"} \/ b \in unsettled'
  PROVE  LastLeads'
<1> DEFINE r == worker[w]
<1>1. Agrees(r, delivered, Recorded, closed[1]) /\ w \in Busy
  BY WorkerIsSound DEF Busy
<1>2. next.msg = r.msg /\ next.stage # "idle"
  BY DEF Walks, ToNextWinner
<1>3. CASE r.stage = "won"
  BY <1>1, <1>2, <1>3, LastLeadsAtClose DEF Agrees
<1>4. CASE r.stage = "own"
  <2>1. next.stage \in {"own", "create"}
    BY <1>4 DEF Walks
  <2>2. BeforeStored(next) /\ \A c : Marks(next, c)
    BY <2>1 DEF BeforeStored, Marks
  <2> QED BY <1>1, <1>2, <1>4, <2>2, LastLeadsAtBid DEF Agrees
<1>5. CASE r.stage = "others"
  <2>1. /\ next.todo = r.todo \ {b}
        /\ next.stage = "others" \/ (next.stage = "ack" /\ next.todo = {})
    BY <1>5 DEF Walks
  <2>2. ASSUME NEW c \in delivered \ {Close, next.msg}, c \notin unsettled',
               status[c] \in {"OUTBID", "WON"} \/ Marks(r, c)
        PROVE  status'[c] \in {"OUTBID", "WON"} \/ Marks(next, c)
    <3>1. c \in Bids
      BY DEF HistoryInv, TypeOK, Messages
    <3>2. CASE c = b
      BY <1>5, <2>2, <3>2
    <3>3. CASE c # b /\ Marks(r, c)
      BY <1>5, <2>1, <3>3 DEF Marks
    <3>4. CASE c # b /\ status[c] \in {"OUTBID", "WON"}
      BY <3>1, <3>4
    <3> QED BY <2>2, <3>2, <3>3, <3>4
  <2>3. r.msg # Close /\ r.msg \in Bids
    BY <1>1, <1>5 DEF Agrees, HistoryInv, TypeOK, Messages
  <2>4. \/ status'[next.msg] \in {"ACCEPTED", "WON"}
        \/ status[next.msg] \notin {"ACCEPTED", "WON"} /\ ~BeforeStored(r)
    BY <1>2, <1>5, <2>3 DEF BeforeStored
  <2> HIDE DEF r
  <2>5. r = worker[w]
    BY DEF r
  <2> QED BY <1>1, <1>2, <2>2, <2>3, <2>4, <2>5, LastLeadsAtBid
<1> QED BY <1>3, <1>4, <1>5

LEMMA GetBidKeepsLast ==
  ASSUME HistoryInv, StreamAgrees, LastLeads, NEW w \in Workers, GetBid(w)
  PROVE  LastLeads'
<1> DEFINE r == worker[w]
<1>1. PICK b \in r.todo :
        /\ b \in Bids /\ r.stage \in {"own", "others", "won"} /\ r.hit = 0
        /\ UNCHANGED <<stream, delivered, acked, status, overlap, due>>
        /\ \/ /\ UNCHANGED unsettled /\ Concerns(r, b)
              /\ \E next : /\ Becomes(w, next)
                           /\ next.msg = r.msg /\ next.stage = r.stage /\ next.hit = b
                           /\ next.todo = r.todo /\ next.user = r.user
                           /\ next.winners = r.winners /\ next.failed = r.failed
           \/ /\ (UNCHANGED unsettled /\ ~Concerns(r, b)) \/ unsettled' = unsettled \cup {b}
              /\ \E next : Becomes(w, next) /\ Walks(r, r.stage, r.todo \ {b}, next)
  BY GetBidDoes
<1>2. /\ UNCHANGED <<placed, delivered, acked, status>> /\ unsettled \subseteq unsettled'
      /\ w \in Busy
  BY <1>1 DEF stream, Busy
<1>3. b \in Recorded /\ b # r.msg
  BY <1>1, <1>2, BidsArePositive DEF StreamAgrees, Close
<1>4. ASSUME NEW next, Becomes(w, next), next.msg = r.msg, next.stage = r.stage,
             next.todo = r.todo
      PROVE  LastLeads'
  <2>1. /\ \A c : Marks(r, c) => Marks(next, c)
        /\ BeforeStored(r) => BeforeStored(next)
    BY <1>4 DEF Marks, BeforeStored
  <2>2. CASE r.msg = Close
    BY <1>2, <1>4, <2>2, LastLeadsAtClose
  <2>3. CASE r.msg # Close
    <3>1. \/ status'[next.msg] \in {"ACCEPTED", "WON"}
          \/ BeforeStored(next)
          \/ status[next.msg] \notin {"ACCEPTED", "WON"} /\ ~BeforeStored(r)
      BY <1>2, <2>1
    <3>2. next.stage # "idle"
      BY <1>1, <1>4
    <3> HIDE DEF r
    <3>3. r = worker[w]
      BY DEF r
    <3> QED BY <1>2, <1>4, <2>1, <2>3, <3>1, <3>2, <3>3, LastLeadsAtBid
  <2> QED BY <2>2, <2>3
<1>5. ASSUME (UNCHANGED unsettled /\ ~Concerns(r, b)) \/ unsettled' = unsettled \cup {b},
             NEW next, Becomes(w, next), Walks(r, r.stage, r.todo \ {b}, next)
      PROVE  LastLeads'
  <2>1. status[b] \in BidStatuses \ {"none"}
    BY <1>1, <1>3 DEF HistoryInv, TypeOK, Recorded
  <2>2. r.stage = "others" => status'[b] \in {"OUTBID", "WON"} \/ b \in unsettled'
    BY <1>2, <1>5, <2>1 DEF Concerns, BidStatuses
  <2> QED BY <1>1, <1>2, <1>3, <1>5, <2>2, WalkKeepsLast
<1> QED BY <1>1, <1>4, <1>5

LEMMA SetBidKeepsLast ==
  ASSUME HistoryInv, StreamAgrees, LastLeads, NEW w \in Workers, SetBid(w)
  PROVE  LastLeads'
<1> DEFINE r == worker[w]
           left == IF r.stage = "won" THEN {} ELSE r.todo \ {r.hit}
<1>1. PICK b : b = r.hit
  OBVIOUS
<1>2. /\ b \in Bids /\ r.stage \in {"own", "others", "won"}
      /\ UNCHANGED <<stream, delivered, acked, overlap, due>>
      /\ \E next : Becomes(w, next) /\ Walks(r, r.stage, left, next)
      /\ \/ /\ UNCHANGED unsettled
            /\ status' = [status EXCEPT ![b] = IF r.stage = "won" THEN "WON" ELSE "OUTBID"]
         \/ UNCHANGED status /\ unsettled' = unsettled \cup {b}
  BY <1>1, SetBidDoes
<1>3. PICK next : Becomes(w, next) /\ Walks(r, r.stage, left, next)
  BY <1>2
<1>4. /\ UNCHANGED <<placed, delivered, acked>> /\ unsettled \subseteq unsettled'
      /\ w \in Busy
  BY <1>2 DEF stream, Busy
<1>5. b # r.msg
  BY <1>1, <1>2, <1>4, BidsArePositive DEF StreamAgrees, Close
<1>6. /\ \A c \in Bids \ {b} : status'[c] = status[c]
      /\ status'[b] \in {status[b], IF r.stage = "won" THEN "WON" ELSE "OUTBID"}
      /\ r.stage = "others" => status'[b] \in {"OUTBID", "WON"} \/ b \in unsettled'
  BY <1>2 DEF HistoryInv, TypeOK
<1> QED BY <1>1, <1>2, <1>3, <1>4, <1>5, <1>6, WalkKeepsLast

LEMMA CreateKeepsLast ==
  ASSUME HistoryInv, StreamAgrees, LastLeads, NoneGivenUp', NEW w \in Workers, Create(w)
  PROVE  LastLeads'
<1> DEFINE r == worker[w]
           stored == [status EXCEPT ![r.msg] = "ACCEPTED"]
<1>1. /\ r.stage = "create" /\ r.msg \in Bids
      /\ UNCHANGED <<stream, delivered, acked, overlap, due>>
      /\ \/ /\ UNCHANGED unsettled /\ status' = stored
            /\ \E next : /\ Becomes(w, next) /\ next.stage = "list_others"
                         /\ next.msg = r.msg
         \/ Abort(w)
  BY CreateDoes
<1>2. UNCHANGED <<placed, delivered, acked>> /\ w \in Busy /\ r.msg # Close
  BY <1>1, BidsArePositive DEF stream, Busy, Close
<1>3. ASSUME UNCHANGED unsettled, status' = stored, NEW next, Becomes(w, next),
             next.stage = "list_others", next.msg = r.msg
      PROVE  LastLeads'
  <2>1. \A c : Marks(next, c)
    BY <1>3 DEF Marks
  <2>2. status'[next.msg] = "ACCEPTED"
    BY <1>1, <1>3 DEF HistoryInv, TypeOK
  <2> QED BY <1>2, <1>3, <2>1, <2>2, LastLeadsAtBid
<1>4. CASE Abort(w)
  BY <1>2, <1>4, StoppedIsGivenUp DEF Abort, LastLeads, OneIsBusy
<1> QED BY <1>1, <1>3, <1>4

LEMMA AcknowledgeKeepsLast ==
  ASSUME HistoryInv, StreamAgrees, LastLeads, NoneGivenUp',
         NEW w \in Workers, Acknowledge(w)
  PROVE  LastLeads'
<1> DEFINE r == worker[w]
<1>1. /\ r.stage = "ack" /\ Becomes(w, Idle) /\ acked \subseteq acked'
      /\ acked' \subseteq acked \cup {r.msg}
      /\ UNCHANGED <<placed, delivered, status, unsettled>> /\ w \in Busy
  BY DEF Acknowledge, stream, Busy
<1>2. CASE r.msg = Close
  BY <1>1, <1>2, IdleFields, LastLeadsAtClose
<1>3. CASE r.msg # Close
  <2>1. /\ Read' = Read /\ Busy = {w} /\ worker'[w] = Idle
        /\ \A v \in Workers : v # w => worker'[v] = worker[v]
    BY <1>1, OneSlotBecomes DEF Read, LastLeads, OneIsBusy
  <2>2. Busy' = {}
    BY <2>1, IdleFields DEF Busy
  <2>3. ASSUME NEW k \in 1..Read
        PROVE  Ranks(k)'
    <3>1. placed[k] \in Bids /\ placed[Read] \in Bids
      BY PlacedAreBids DEF StreamAgrees
    <3>2. AtWork(placed[k]) \subseteq {w} /\ AtWork(placed[Read]) \subseteq {w}
      BY <2>1, <3>1, AtWorkIsBusy
    <3>3. ~BeforeStored(r) /\ ~Marks(r, placed[k])
      BY <1>1 DEF BeforeStored, Marks
    <3>4. Ranks(k)
      BY DEF LastLeads
    <3>5. placed[k] \notin unsettled =>
            IF k = Read THEN status[placed[k]] \in {"ACCEPTED", "WON"}
                        ELSE status[placed[k]] \in {"OUTBID", "WON"}
      BY <3>2, <3>3, <3>4 DEF Ranks
    <3> QED BY <1>1, <2>1, <3>5 DEF Ranks
  <2> QED BY <2>1, <2>2, <2>3 DEF LastLeads, OneIsBusy
<1> QED BY <1>2, <1>3

(* An event is read only when none is handled; it is then the last one.    *)
LEMMA ReadMessageKeepsLast ==
  ASSUME HistoryInv, StreamAgrees, LastLeads, NEW w \in Workers, NEW m \in Messages,
         ReadMessage(w, m), Busy = {}
  PROVE  LastLeads'
<1>1. /\ UNCHANGED <<placed, acked, status, unsettled>>
      /\ m \notin delivered
      /\ m # Close => m \in Bids /\ placed[Read + 1] = m
      /\ Read' = IF m = Close THEN Read ELSE Read + 1
      /\ Begin(w, m) /\ (m = Close => closed # << >>)
  BY ReadMessageDoes DEF stream
<1>2. PICK next : /\ Becomes(w, next) /\ next.msg = m /\ next.stage # "idle"
                  /\ m # Close => next.stage = "list_own"
  BY <1>1, BeginDoes
<1>3. /\ worker'[w] = next
      /\ \A v \in Workers : v # w => worker'[v] = worker[v]
  BY <1>2, OneSlotBecomes
<1>4. Busy' = {w}
  BY <1>2, <1>3 DEF Busy
<1>5. m \notin acked /\ Read \in Nat
  BY <1>1 DEF HistoryInv, TypeOK, StreamAgrees
<1>6. OneIsBusy'
  BY <1>1, <1>2, <1>3, <1>4, <1>5 DEF OneIsBusy
<1>7. ASSUME NEW k \in 1..Read
      PROVE  Ranks(k)'
  <2>1. placed[k] \in Bids /\ placed[Read] \in Bids
    <3>1. Read \in 1..Read
      BY <1>5
    <3> QED BY <3>1, PlacedAreBids
  <2>2. AtWork(placed[k]) = {} /\ AtWork(placed[Read]) = {}
    BY <2>1, AtWorkIsBusy
  <2>3. Ranks(k)
    BY DEF LastLeads
  <2>4. CASE m = Close
    BY <1>1, <2>2, <2>3, <2>4 DEF Ranks
  <2>5. CASE m # Close
    <3>1. k # Read'
      BY <1>1, <1>5, <2>5
    <3>2. Marks(next, placed[k])
      BY <1>2, <2>5 DEF Marks
    <3>3. \E v \in AtWork(m)' : Marks(worker'[v], placed[k])
      BY <1>2, <1>3, <3>2 DEF AtWork
    <3>4. placed'[Read'] = m
      BY <1>1, <2>5
    <3> QED BY <1>1, <3>1, <3>3, <3>4 DEF Ranks, Marks, AtWork
  <2> QED BY <2>4, <2>5
<1>8. PICK n : n = Read + 1
  OBVIOUS
<1>9. ASSUME m # Close
      PROVE  Ranks(n)'
  <2>1. placed'[n] = m /\ n = Read'
    BY <1>1, <1>8, <1>9
  <2>2. BeforeStored(next)
    BY <1>2, <1>9 DEF BeforeStored
  <2>3. \E v \in AtWork(m)' : BeforeStored(worker'[v])
    BY <1>2, <1>3, <2>2 DEF AtWork
  <2> QED BY <2>1, <2>3 DEF Ranks, BeforeStored, AtWork
<1>10. ASSUME NEW k \in 1..Read'
       PROVE  Ranks(k)'
  <2>1. k \in 1..Read \/ (m # Close /\ k = n)
    BY <1>1, <1>5, <1>8
  <2> QED BY <1>7, <1>9, <2>1
<1> QED BY <1>6, <1>10 DEF LastLeads

LEMMA PublishKeepsLast ==
  ASSUME HistoryInv, StreamAgrees, LastLeads, NEW b \in Bids, PublishBidPlaced(b)
  PROVE  LastLeads'
<1>1. /\ placed' = Append(placed, b) /\ UNCHANGED <<delivered, acked, worker, status, unsettled>>
      /\ Read' = Read /\ placed \in Seq(Bids) /\ Read \in 0..Len(placed)
  BY DEF PublishBidPlaced, Read, HistoryInv, TypeOK, StreamAgrees
<1>2. \A k \in 1..Read : placed'[k] = placed[k]
  BY <1>1
<1>3. Busy' = Busy
  BY <1>1 DEF Busy
<1>4. Read > 0 => placed'[Read] = placed[Read]
  BY <1>1, <1>2
<1>5. OneIsBusy'
  BY <1>1, <1>3, <1>4 DEF LastLeads, OneIsBusy
<1>6. ASSUME NEW k \in 1..Read
      PROVE  Ranks(k)'
  <2>1. Ranks(k) /\ placed'[k] = placed[k] /\ placed'[Read] = placed[Read]
    BY <1>1, <1>2, <1>4 DEF LastLeads
  <2> QED BY <1>1, <2>1 DEF Ranks, BeforeStored, Marks, AtWork
<1> QED BY <1>1, <1>5, <1>6 DEF LastLeads

LEMMA CrashKeepsLast ==
  ASSUME HistoryInv, StreamAgrees, LastLeads, Crash, NoneGivenUp'
  PROVE  LastLeads'
<1>1. /\ worker' = [w \in Workers |-> Idle]
      /\ UNCHANGED <<placed, delivered, acked, status>> /\ unsettled \subseteq unsettled'
      /\ Read' = Read
  BY DEF Crash, CutShort, stream, Read
<1>2. Busy' = {}
  BY <1>1, IdleFields DEF Busy
<1>3. ASSUME NEW k \in 1..Read
      PROVE  AtWork(placed[k]) = {}
  <2>1. PICK b : b = placed[k]
    OBVIOUS
  <2>2. b \in Bids /\ b # Close /\ b \in delivered
    BY <2>1, PlacedAreBids
  <2>3. AtWork(b)' = {}
    BY <1>1, <2>2, IdleFields DEF AtWork
  <2>4. b \in acked
    BY <1>1, <2>2, <2>3 DEF NoneGivenUp
  <2>5. AtWork(b) \subseteq Busy
    BY <2>2, AtWorkIsBusy
  <2> QED BY <2>1, <2>2, <2>4, <2>5 DEF LastLeads, OneIsBusy, AtWork
<1>4. ASSUME NEW k \in 1..Read
      PROVE  Ranks(k)'
  <2>1. Read \in 1..Read
    BY DEF StreamAgrees
  <2>2. Ranks(k) /\ AtWork(placed[k]) = {} /\ AtWork(placed[Read]) = {}
    BY <1>3, <2>1 DEF LastLeads
  <2> QED BY <1>1, <2>2 DEF Ranks
<1> QED BY <1>1, <1>2, <1>4 DEF LastLeads, OneIsBusy

LEMMA AckedByItsWorker ==
  ASSUME NEW w \in Workers, WorkerStep(w)
  PROVE  acked \subseteq acked' /\ acked' \subseteq acked \cup {worker[w].msg}
BY DEF WorkerStep, ListBids, GetBid, SetBid, Create, Acknowledge

LEMMA NoneWasGivenUp ==
  ASSUME HistoryInv, StreamAgrees, [Next]_vars, ~overlap', NoneGivenUp'
  PROVE  ~overlap /\ NoneGivenUp
<1>1. ASSUME UNCHANGED <<worker, delivered, acked, overlap>>
      PROVE  ~overlap /\ NoneGivenUp
  BY <1>1 DEF NoneGivenUp, AtWork
<1>2. CASE \/ \E b \in Bids : PublishBidPlaced(b)
           \/ \E winners \in Outcomes : PublishAuctionClosed(winners)
           \/ UNCHANGED vars
  BY <1>1, <1>2 DEF PublishBidPlaced, PublishAuctionClosed, vars
<1>3. ASSUME NEW w \in Workers, NEW m \in Messages, ReadMessage(w, m)
      PROVE  ~overlap /\ NoneGivenUp
  <2>1. /\ ~overlap /\ m \notin delivered /\ delivered \subseteq delivered' /\ acked' = acked
        /\ Begin(w, m) /\ (m = Close => closed # << >>)
    BY <1>3, ReadMessageDoes
  <2>2. PICK next : Becomes(w, next) /\ next.msg = m
    BY <2>1, BeginDoes
  <2>3. ASSUME NEW b \in delivered \ {Close}, b \notin acked
        PROVE  AtWork(b) # {}
    <3>1. AtWork(b)' # {}
      BY <2>1, <2>3 DEF NoneGivenUp
    <3>2. AtWork(b)' \subseteq AtWork(b)
      BY <2>1, <2>2, OneSlotBecomes DEF AtWork
    <3> QED BY <3>1, <3>2
  <2> QED BY <2>1, <2>3 DEF NoneGivenUp
<1>4. ASSUME NEW w \in Workers, NEW m \in Messages, Reclaim(w, m)
      PROVE  FALSE
  BY <1>4, ReclaimDoes
<1>5. ASSUME NEW w \in Workers, WorkerStep(w)
      PROVE  ~overlap /\ NoneGivenUp
  <2>1. /\ UNCHANGED <<delivered, overlap>>
        /\ \/ Becomes(w, Idle)
           \/ \E next : Becomes(w, next) /\ next.msg = worker[w].msg
    BY <1>5, WorkerStepDoes
  <2>2. ASSUME NEW b \in delivered \ {Close}, b \notin acked
        PROVE  AtWork(b) # {}
    <3>1. CASE b = worker[w].msg
      BY <3>1 DEF AtWork
    <3>2. CASE b # worker[w].msg
      <4>1. AtWork(b)' # {}
        BY <1>5, <2>1, <2>2, <3>2, AckedByItsWorker DEF NoneGivenUp
      <4>2. AtWork(b)' \subseteq AtWork(b)
        BY <2>1, <2>2, OneSlotBecomes, IdleFields DEF AtWork
      <4> QED BY <4>1, <4>2
    <3> QED BY <3>1, <3>2
  <2> QED BY <2>1, <2>2 DEF NoneGivenUp
<1>6. CASE Crash
  <2>1. /\ worker' = [w \in Workers |-> Idle] /\ UNCHANGED <<delivered, acked, overlap>>
    BY <1>6 DEF Crash
  <2>2. ASSUME NEW b \in delivered \ {Close}
        PROVE  b \in acked
    <3>1. AtWork(b)' = {}
      BY <2>1, <2>2, IdleFields DEF AtWork
    <3> QED BY <2>1, <2>2, <3>1 DEF NoneGivenUp
  <2> QED BY <2>1, <2>2 DEF NoneGivenUp
<1> QED BY <1>2, <1>3, <1>4, <1>5, <1>6 DEF Next, Consumer

LEMMA LastStarts == Init => LastStands
<1> SUFFICES ASSUME Init PROVE LastStands
  OBVIOUS
<1>1. Busy = {}
  BY IdleFields DEF Init, Busy
<1>2. Read = 0
  <2>1. delivered \ {Close} = {}
    BY DEF Init
  <2> QED BY <2>1, FS_EmptySet DEF Read
<1> QED BY <1>1, <1>2 DEF LastStands

LEMMA StepKeepsLast ==
  HistoryInv /\ StreamAgrees /\ LastStands /\ [Next]_vars => LastStands'
<1> SUFFICES ASSUME HistoryInv, StreamAgrees, LastStands, [Next]_vars,
                    ~overlap', NoneGivenUp'
             PROVE  LastLeads'
  BY LastSplit
<1>1. ~overlap /\ NoneGivenUp /\ LastLeads
  BY NoneWasGivenUp, LastSplit
<1>2. ASSUME UNCHANGED <<placed, delivered, acked, worker, status, unsettled>>
      PROVE  LastLeads'
  BY <1>1, <1>2 DEF LastLeads, OneIsBusy, Ranks, BeforeStored, Marks, AtWork, Busy, Read
<1>3. ASSUME NEW b \in Bids, PublishBidPlaced(b)
      PROVE  LastLeads'
  BY <1>1, <1>3, PublishKeepsLast
<1>4. CASE \/ \E winners \in Outcomes : PublishAuctionClosed(winners)
           \/ UNCHANGED vars
  BY <1>2, <1>4 DEF PublishAuctionClosed, vars, stream
<1>5. ASSUME NEW w \in Workers, NEW m \in Messages, ReadMessage(w, m)
      PROVE  LastLeads'
  <2>1. Busy = {}
    BY <1>5, ReadMessageDoes
  <2> QED BY <1>1, <1>5, <2>1, ReadMessageKeepsLast
<1>6. ASSUME NEW w \in Workers, NEW m \in Messages, Reclaim(w, m)
      PROVE  FALSE
  BY <1>6, ReclaimDoes
<1>7. ASSUME NEW w \in Workers, WorkerStep(w)
      PROVE  LastLeads'
  BY <1>1, <1>7, ListBidsKeepsLast, GetBidKeepsLast, SetBidKeepsLast, CreateKeepsLast,
     AcknowledgeKeepsLast DEF WorkerStep
<1>8. CASE Crash
  BY <1>1, <1>8, CrashKeepsLast
<1> QED BY <1>3, <1>4, <1>5, <1>6, <1>7, <1>8 DEF Next, Consumer

LEMMA LastHasTheLeadAtRest ==
  HistoryInv /\ StreamAgrees /\ LastStands => LastBidStands
<1> SUFFICES ASSUME HistoryInv, StreamAgrees, LastStands, AtRest, ~overlap, placed # << >>,
                    NEW b \in Published \ unsettled
             PROVE  status[b] \in IF b = placed[Len(placed)] THEN {"ACCEPTED", "WON"}
                                                             ELSE {"OUTBID", "WON"}
  BY DEF LastBidStands
<1>1. placed \in Seq(Bids) /\ acked \subseteq delivered
  BY DEF HistoryInv, TypeOK
<1>2. ASSUME NEW k \in DOMAIN placed
      PROVE  k \in 1..Read
  <2>1. placed[k] \in delivered \ {Close}
    BY <1>1, <1>2, BidsArePositive DEF AtRest, Published, Close
  <2>2. PICK j \in 1..Read : placed[j] = placed[k]
    BY <2>1 DEF StreamAgrees
  <2>3. j \in DOMAIN placed
    BY <1>1, <2>2 DEF StreamAgrees
  <2> QED BY <2>2, <2>3 DEF StreamAgrees
<1>3. Read = Len(placed) /\ Len(placed) \in DOMAIN placed
  <2>1. Len(placed) \in DOMAIN placed
    BY <1>1
  <2> QED BY <1>1, <1>2, <2>1 DEF StreamAgrees
<1>4. NoneGivenUp
  <2>1. ASSUME NEW c \in delivered \ {Close}
        PROVE  c \in acked
    BY <1>1, <2>1 DEF StreamAgrees, AtRest, Published
  <2> QED BY <2>1 DEF NoneGivenUp
<1>5. LastLeads
  BY <1>4, LastSplit
<1>6. PICK k \in DOMAIN placed : b = placed[k]
  BY DEF Published
<1>7. Ranks(k) /\ AtWork(placed[k]) = {} /\ AtWork(placed[Read]) = {}
  BY <1>1, <1>2, <1>3, <1>5, <1>6, NobodyIsAtWork DEF LastLeads, AtRest
<1>8. b = placed[Len(placed)] => k = Read
  BY <1>3, <1>6 DEF StreamAgrees
<1> QED BY <1>3, <1>6, <1>7, <1>8 DEF Ranks

(* When the bid service handled the events of an auction one at a time and *)
(* none twice, it is the last bid of the stream that is ACCEPTED or has    *)
(* won in the end, and every other one is OUTBID or has won, besides those *)
(* that an error which nobody retries left behind.                         *)
THEOREM LastBidHasTheLead == Spec => []LastBidStands
<1>1. Init => HistoryInv /\ StreamAgrees /\ LastStands
  BY InitIsSound, StreamStarts, LastStarts
<1>2. HistoryInv /\ StreamAgrees /\ LastStands /\ [Next]_vars
      => HistoryInv' /\ StreamAgrees' /\ LastStands'
  BY StepKeepsHistory, StepKeepsStream, StepKeepsLast
<1>3. HistoryInv /\ StreamAgrees /\ LastStands => LastBidStands
  BY LastHasTheLeadAtRest
<1> QED BY <1>1, <1>2, <1>3, PTL DEF Spec

-----------------------------------------------------------------------------
(* The bid that stands at the close is marked as won if its owner is.      *)

Wins(b) ==
  Owner[b] \in closed[1] =>
    \/ status[b] = "WON"
    \/ /\ status[b] = "ACCEPTED" /\ Close \notin acked
       /\ \A w \in Workers : YetToMark(worker[w], b)

OneIsDue ==
  /\ \A b, c \in due : b = c
  /\ AllRecorded /\ Standing \subseteq due /\ Close \in delivered
  /\ \A w \in Workers : worker[w].hit # 0 => worker[w].hit \in due
  /\ \A b \in due \ unsettled : Wins(b)

LEMMA DueSplit ==
  /\ WinnerIsDue <=> (due # {} => OneIsDue)
  /\ WinnerIsDue' <=> (due' # {} => OneIsDue')
BY DEF WinnerIsDue, OneIsDue, Wins

LEMMA OnlyCloseIsAtWork ==
  ASSUME HistoryInv, StreamAgrees, AllRecorded, NEW w \in Workers, worker[w].stage # "idle"
  PROVE  /\ w \notin BidWorkers /\ worker[w].msg = Close
         /\ worker[w].stage \in {"list_won", "won", "ack"}
<1>1. w \notin BidWorkers
  BY DEF AllRecorded
<1>2. worker[w].msg = Close
  BY <1>1 DEF StreamAgrees, Busy
<1> QED BY <1>1, <1>2, WorkerIsSound DEF Agrees, Worker, Stages

(* What is left to show of a step of a slot of auction:closed.             *)
LEMMA DueIsKept ==
  ASSUME HistoryInv, due # {}, OneIsDue, NEW w \in Workers, w \notin BidWorkers,
         NEW next, Becomes(w, next), next.hit \in due \cup {0},
         UNCHANGED <<closed, due>>, delivered \subseteq delivered', acked \subseteq acked',
         unsettled \subseteq unsettled', Standing' \subseteq Standing,
         \A b \in due : status[b] = "WON" => status'[b] = "WON",
         \A b \in due \ unsettled' :
           /\ status[b] = "ACCEPTED" /\ Close \notin acked /\ YetToMark(worker[w], b)
           /\ Owner[b] \in closed[1]
           => \/ status'[b] = "WON"
              \/ status'[b] = "ACCEPTED" /\ Close \notin acked' /\ YetToMark(next, b)
  PROVE  OneIsDue'
<1>1. /\ worker'[w] = next
      /\ \A v \in Workers : v # w => worker'[v] = worker[v]
  BY OneSlotBecomes
<1>2. ASSUME NEW v \in BidWorkers
      PROVE  worker'[v].stage = "idle"
  BY <1>1 DEF Workers, OneIsDue, AllRecorded
<1>3. AllRecorded'
  BY <1>2 DEF AllRecorded, OneIsDue
<1>4. \A v \in Workers : worker'[v].hit # 0 => worker'[v].hit \in due'
  BY <1>1 DEF OneIsDue
<1>5. ASSUME NEW b \in due \ unsettled'
      PROVE  Wins(b)'
  <2>1. Wins(b)
    BY DEF OneIsDue
  <2>2. CASE status[b] = "WON"
    BY <2>2 DEF Wins
  <2>3. CASE /\ status[b] = "ACCEPTED" /\ Close \notin acked
             /\ \A v \in Workers : YetToMark(worker[v], b)
             /\ Owner[b] \in closed[1]
    <3>1. \/ status'[b] = "WON"
          \/ status'[b] = "ACCEPTED" /\ Close \notin acked' /\ YetToMark(next, b)
      BY <2>3
    <3>2. \A v \in Workers : v # w => YetToMark(worker'[v], b)
      BY <1>1, <2>3
    <3> QED BY <1>1, <3>1, <3>2 DEF Wins, YetToMark
  <2> QED BY <2>1, <2>2, <2>3 DEF Wins
<1> QED BY <1>3, <1>4, <1>5 DEF OneIsDue

LEMMA CloseBeginsDue ==
  ASSUME NEW next, NEW b, Owner[b] \in closed[1],
         \/ /\ next.stage = "list_won" /\ next.user \in closed[1]
            /\ next.winners = closed[1] \ {next.user}
         \/ next.stage = "ack" /\ closed[1] = {}
  PROVE  YetToMark(next, b)
BY DEF YetToMark

LEMMA CloseFindsDue ==
  ASSUME HistoryInv, StreamAgrees, NEW w \in Workers, ReadMessage(w, Close),
         AllRecorded, Cardinality(Standing) = 1
  PROVE  OneIsDue'
<1>1. /\ UNCHANGED <<closed, acked, status, unsettled>> /\ due' = Standing
      /\ delivered' = delivered \cup {Close} /\ Close \notin delivered
      /\ Begin(w, Close) /\ closed # << >>
  <2>1. Close \in Messages
    BY DEF Messages
  <2> QED BY <2>1, ReadMessageDoes DEF stream
<1>2. Standing' = Standing
  BY <1>1 DEF Standing
<1>3. \A v \in Workers : worker[v] = Idle
  <2>1. ASSUME NEW v \in Workers, worker[v].stage # "idle"
        PROVE  FALSE
    <3>1. worker[v].msg = Close
      BY <2>1, OnlyCloseIsAtWork
    <3> QED BY <1>1, <2>1, <3>1, WorkerIsSound DEF Agrees
  <2> QED BY <2>1 DEF StreamAgrees, Busy
<1>4. PICK next : /\ Becomes(w, next) /\ next.hit = 0 /\ w \in CloseWorkers
                  /\ \/ /\ next.stage = "list_won" /\ next.user \in closed[1]
                        /\ next.winners = closed[1] \ {next.user}
                     \/ next.stage = "ack" /\ closed[1] = {}
  BY <1>1, BeginDoes DEF Messages
<1>5. /\ worker'[w] = next
      /\ \A v \in Workers : v # w => worker'[v] = Idle
  BY <1>3, <1>4, OneSlotBecomes
<1>6. \A b, c \in Standing : b = c
  <2>1. IsFiniteSet(Standing)
    BY BidsAssumption, FS_Subset DEF Standing
  <2> QED BY <2>1, FS_Singleton
<1>7. AllRecorded'
  <2>1. ASSUME NEW v \in BidWorkers
        PROVE  worker'[v].stage = "idle"
    BY <1>4, <1>5, SlotsAssumption, IdleFields DEF Workers
  <2> QED BY <1>1, <2>1 DEF AllRecorded
<1>8. \A v \in Workers : worker'[v].hit = 0
  BY <1>4, <1>5, IdleFields
<1>9. ASSUME NEW b \in Standing
      PROVE  Wins(b)'
  <2>1. status'[b] = "ACCEPTED" /\ Close \notin acked'
    BY <1>1 DEF Standing, HistoryInv, TypeOK
  <2>2. ASSUME Owner[b] \in closed[1], NEW v \in Workers
        PROVE  YetToMark(worker'[v], b)
    <3>1. CASE v = w
      BY <1>4, <1>5, <2>2, <3>1, CloseBeginsDue
    <3>2. CASE v # w
      BY <1>5, <3>2, IdleFields DEF YetToMark
    <3> QED BY <3>1, <3>2
  <2> QED BY <1>1, <2>1, <2>2 DEF Wins, YetToMark
<1> QED BY <1>1, <1>2, <1>6, <1>7, <1>8, <1>9 DEF OneIsDue

LEMMA BeginKeepsDue ==
  ASSUME HistoryInv, StreamAgrees, due # {}, OneIsDue, NEW w \in Workers, NEW m \in Messages,
         ReadMessage(w, m) \/ Reclaim(w, m)
  PROVE  due' = due /\ OneIsDue'
<1>1. Bids \subseteq acked /\ acked \subseteq delivered /\ Close \in delivered
  BY DEF OneIsDue, AllRecorded, HistoryInv, TypeOK
<1>2. Reclaim(w, m) /\ m = Close
  BY <1>1, ReadMessageDoes, ReclaimDoes DEF Messages
<1>3. UNCHANGED <<closed, delivered, acked, status, unsettled, due>> /\ closed # << >> /\ Begin(w, m)
  BY <1>2, ReclaimDoes DEF stream
<1>4. PICK next : /\ Becomes(w, next) /\ next.hit = 0 /\ w \in CloseWorkers
                  /\ \/ /\ next.stage = "list_won" /\ next.user \in closed[1]
                        /\ next.winners = closed[1] \ {next.user}
                     \/ next.stage = "ack" /\ closed[1] = {}
  BY <1>2, <1>3, BeginDoes
<1>5. \A b : Owner[b] \in closed[1] => YetToMark(next, b)
  BY <1>4, CloseBeginsDue
<1>6. w \notin BidWorkers /\ Standing' = Standing
  BY <1>3, <1>4, SlotsAssumption DEF Standing
<1> QED BY <1>3, <1>4, <1>5, <1>6, DueIsKept

(* The walk of MarkWon goes on after bid c; unless c is due and could not  *)
(* be read, one that is due is still to come.                              *)
LEMMA WalkComesToDue ==
  ASSUME NEW r, NEW left, NEW next, Walks(r, "won", left, next),
         NEW b, YetToMark(r, b), r.stage \in {"list_won", "won"},
         r.user = Owner[b] /\ (r.stage = "list_won" \/ b \in r.todo) => b \in left
  PROVE  YetToMark(next, b)
<1>1. /\ next.failed = r.failed /\ next.todo = left
      /\ \/ next.stage = "won" /\ next.user = r.user /\ next.winners = r.winners
         \/ left = {} /\ ToNextWinner(r, next)
  BY DEF Walks
<1>2. CASE next.stage = "won" /\ next.user = r.user /\ next.winners = r.winners
  BY <1>1, <1>2 DEF YetToMark
<1>3. CASE left = {} /\ ToNextWinner(r, next)
  BY <1>1, <1>3 DEF YetToMark, ToNextWinner
<1> QED BY <1>1, <1>2, <1>3

LEMMA ListBidsKeepsDue ==
  ASSUME HistoryInv, StreamAgrees, due # {}, OneIsDue, NEW w \in Workers, ListBids(w)
  PROVE  OneIsDue'
<1> DEFINE r == worker[w]
<1>1. /\ UNCHANGED <<stream, delivered, acked, status, overlap, due>>
      /\ r.stage \in {"list_own", "list_others", "list_won"}
      /\ \/ /\ UNCHANGED unsettled
            /\ \E next : /\ Becomes(w, next)
                         /\ Walks(r, CASE r.stage = "list_own"    -> "own"
                                       [] r.stage = "list_others" -> "others"
                                       [] OTHER                   -> "won",
                                  Recorded \ Excluded(r), next)
         \/ /\ UNCHANGED unsettled /\ r.stage = "list_won"
            /\ \E next : Becomes(w, next) /\ next.hit = 0 /\ next.failed
         \/ r.stage \in {"list_own", "list_others"} /\ Abort(w)
  BY ListBidsDoes
<1>2. /\ w \notin BidWorkers /\ r.msg = Close /\ r.stage = "list_won"
  BY <1>1, OnlyCloseIsAtWork DEF OneIsDue
<1>3. /\ UNCHANGED <<closed, due, delivered, acked, status, unsettled>> /\ Standing' = Standing
  BY <1>1, <1>2 DEF stream, Standing
<1>4. ASSUME NEW next, Becomes(w, next), Walks(r, "won", Recorded \ Excluded(r), next)
      PROVE  OneIsDue'
  <2>1. next.hit = 0
    BY <1>4 DEF Walks
  <2>2. ASSUME NEW b \in due \ unsettled', status[b] = "ACCEPTED", YetToMark(r, b)
        PROVE  YetToMark(next, b)
    <3>1. b \in Recorded \ Excluded(r)
      BY <1>2, <2>2 DEF HistoryInv, TypeOK, Recorded, Excluded
    <3> QED BY <1>2, <1>4, <2>2, <3>1, WalkComesToDue
  <2> QED BY <1>2, <1>3, <1>4, <2>1, <2>2, DueIsKept
<1>5. ASSUME NEW next, Becomes(w, next), next.hit = 0, next.failed
      PROVE  OneIsDue'
  <2>1. \A b : YetToMark(next, b)
    BY <1>5 DEF YetToMark
  <2> QED BY <1>2, <1>3, <1>5, <2>1, DueIsKept
<1> QED BY <1>1, <1>2, <1>4, <1>5

LEMMA GetBidKeepsDue ==
  ASSUME HistoryInv, StreamAgrees, due # {}, OneIsDue, NEW w \in Workers, GetBid(w)
  PROVE  OneIsDue'
<1> DEFINE r == worker[w]
<1>1. PICK c \in r.todo :
        /\ c \in Bids /\ r.stage \in {"own", "others", "won"} /\ r.hit = 0
        /\ UNCHANGED <<stream, delivered, acked, status, overlap, due>>
        /\ \/ /\ UNCHANGED unsettled /\ Concerns(r, c)
              /\ \E next : /\ Becomes(w, next)
                           /\ next.msg = r.msg /\ next.stage = r.stage /\ next.hit = c
                           /\ next.todo = r.todo /\ next.user = r.user
                           /\ next.winners = r.winners /\ next.failed = r.failed
           \/ /\ (UNCHANGED unsettled /\ ~Concerns(r, c)) \/ unsettled' = unsettled \cup {c}
              /\ \E next : Becomes(w, next) /\ Walks(r, r.stage, r.todo \ {c}, next)
  BY GetBidDoes
<1>2. w \notin BidWorkers /\ r.stage = "won"
  BY <1>1, OnlyCloseIsAtWork DEF OneIsDue
<1>3. /\ UNCHANGED <<closed, due, delivered, acked, status>> /\ Standing' = Standing
      /\ unsettled \subseteq unsettled'
  BY <1>1 DEF stream, Standing
<1>4. ASSUME Concerns(r, c), NEW next, Becomes(w, next), next.stage = r.stage, next.hit = c,
             next.todo = r.todo, next.user = r.user, next.winners = r.winners,
             next.failed = r.failed
      PROVE  OneIsDue'
  <2>1. c \in due
    BY <1>1, <1>4 DEF Concerns, Standing, OneIsDue
  <2>2. \A b : YetToMark(r, b) => YetToMark(next, b)
    BY <1>4 DEF YetToMark
  <2> QED BY <1>2, <1>3, <1>4, <2>1, <2>2, DueIsKept
<1>5. ASSUME (UNCHANGED unsettled /\ ~Concerns(r, c)) \/ unsettled' = unsettled \cup {c},
             NEW next, Becomes(w, next), Walks(r, "won", r.todo \ {c}, next)
      PROVE  OneIsDue'
  <2>1. next.hit = 0
    BY <1>5 DEF Walks
  <2>2. ASSUME NEW b \in due \ unsettled', status[b] = "ACCEPTED", YetToMark(r, b)
        PROVE  YetToMark(next, b)
    <3>1. r.user = Owner[b] => b # c
      BY <1>2, <1>5, <2>2 DEF Concerns
    <3> QED BY <1>2, <1>5, <2>2, <3>1, WalkComesToDue
  <2> QED BY <1>2, <1>3, <1>5, <2>1, <2>2, DueIsKept
<1> QED BY <1>1, <1>2, <1>4, <1>5

LEMMA SetBidKeepsDue ==
  ASSUME HistoryInv, StreamAgrees, due # {}, OneIsDue, NEW w \in Workers, SetBid(w)
  PROVE  OneIsDue'
<1> DEFINE r == worker[w]
<1>1. PICK c : c = r.hit
  OBVIOUS
<1>2. /\ c \in Bids /\ r.stage \in {"own", "others", "won"}
      /\ UNCHANGED <<stream, delivered, acked, overlap, due>>
      /\ \E next : /\ Becomes(w, next)
                   /\ Walks(r, r.stage, IF r.stage = "won" THEN {} ELSE r.todo \ {r.hit}, next)
      /\ \/ /\ UNCHANGED unsettled
            /\ status' = [status EXCEPT ![c] = IF r.stage = "won" THEN "WON" ELSE "OUTBID"]
         \/ UNCHANGED status /\ unsettled' = unsettled \cup {c}
  BY <1>1, SetBidDoes
<1>3. w \notin BidWorkers /\ r.stage = "won"
  BY <1>2, OnlyCloseIsAtWork DEF OneIsDue
<1>4. PICK next : Becomes(w, next) /\ next.hit = 0
  BY <1>2 DEF Walks
<1>5. c \in due
  BY <1>1, <1>2, BidsArePositive DEF OneIsDue
<1>6. /\ UNCHANGED <<closed, due, delivered, acked>> /\ Standing' \subseteq Standing
      /\ unsettled \subseteq unsettled'
      /\ \A b \in due : status[b] = "WON" => status'[b] = "WON"
  BY <1>2, <1>3 DEF stream, Standing, HistoryInv, TypeOK
<1>7. \A b \in due \ unsettled' : status'[b] = "WON"
  <2>1. \A b \in due : b = c
    BY <1>5 DEF OneIsDue
  <2> QED BY <1>2, <1>3, <2>1 DEF HistoryInv, TypeOK
<1> QED BY <1>3, <1>4, <1>6, <1>7, DueIsKept

LEMMA AcknowledgeKeepsDue ==
  ASSUME HistoryInv, StreamAgrees, due # {}, OneIsDue, NEW w \in Workers, Acknowledge(w)
  PROVE  OneIsDue'
<1> DEFINE r == worker[w]
<1>1. /\ r.stage = "ack" /\ Becomes(w, Idle) /\ acked \subseteq acked'
      /\ UNCHANGED <<closed, due, delivered, status, unsettled>>
      /\ r.failed => acked' = acked
  BY DEF Acknowledge, stream
<1>2. w \notin BidWorkers /\ Standing' = Standing
  BY <1>1, OnlyCloseIsAtWork DEF OneIsDue, Standing
<1>3. \A b : YetToMark(r, b) => acked' = acked
  BY <1>1 DEF YetToMark
<1>4. \A b : YetToMark(Idle, b)
  BY IdleFields DEF YetToMark
<1>5. Idle.hit = 0
  BY IdleFields
<1> QED BY <1>1, <1>2, <1>3, <1>4, <1>5, DueIsKept

LEMMA CrashKeepsDue ==
  ASSUME HistoryInv, OneIsDue, Crash
  PROVE  OneIsDue'
<1>1. /\ worker' = [w \in Workers |-> Idle]
      /\ UNCHANGED <<closed, due, delivered, acked, status>> /\ unsettled \subseteq unsettled'
      /\ Standing' = Standing
  BY DEF Crash, CutShort, stream, Standing
<1>2. AllRecorded'
  BY <1>1, IdleFields DEF AllRecorded, OneIsDue, Workers
<1>3. \A w \in Workers : worker'[w].hit = 0
  BY <1>1, IdleFields
<1>4. ASSUME NEW b \in due \ unsettled'
      PROVE  Wins(b)'
  <2>1. Wins(b)
    BY <1>1 DEF OneIsDue
  <2>2. \A w \in Workers : YetToMark(worker'[w], b)
    BY <1>1, IdleFields DEF YetToMark
  <2> QED BY <1>1, <2>1, <2>2 DEF Wins, YetToMark
<1> QED BY <1>1, <1>2, <1>3, <1>4 DEF OneIsDue

LEMMA StepKeepsDue ==
  HistoryInv /\ StreamAgrees /\ WinnerIsDue /\ [Next]_vars => WinnerIsDue'
<1> SUFFICES ASSUME HistoryInv, StreamAgrees, WinnerIsDue, [Next]_vars, due' # {}
             PROVE  OneIsDue'
  BY DueSplit
<1>1. due # {} => OneIsDue
  BY DueSplit
<1>2. ASSUME UNCHANGED <<closed, delivered, acked, worker, status, unsettled, due>>
      PROVE  OneIsDue'
  BY <1>1, <1>2 DEF OneIsDue, AllRecorded, Standing, Wins, YetToMark
<1>3. CASE (\E b \in Bids : PublishBidPlaced(b)) \/ UNCHANGED vars
  BY <1>2, <1>3 DEF PublishBidPlaced, vars, stream
<1>4. ASSUME NEW winners \in Outcomes, PublishAuctionClosed(winners)
      PROVE  FALSE
  BY <1>1, <1>4 DEF PublishAuctionClosed, OneIsDue, HistoryInv, WorkersAgree
<1>5. ASSUME NEW w \in Workers, NEW m \in Messages, ReadMessage(w, m) \/ Reclaim(w, m)
      PROVE  OneIsDue'
  <2>1. CASE due # {}
    BY <1>1, <1>5, <2>1, BeginKeepsDue
  <2>2. CASE due = {}
    <3>1. CASE Reclaim(w, m)
      BY <2>2, <3>1 DEF Reclaim
    <3>2. CASE ReadMessage(w, m)
      <4>1. m = Close /\ AllRecorded /\ Cardinality(Standing) = 1
        BY <2>2, <3>2 DEF ReadMessage
      <4> QED BY <3>2, <4>1, CloseFindsDue
    <3> QED BY <1>5, <3>1, <3>2
  <2> QED BY <2>1, <2>2
<1>6. ASSUME NEW w \in Workers, WorkerStep(w)
      PROVE  OneIsDue'
  <2>1. due # {} /\ OneIsDue
    BY <1>1, <1>6, WorkerStepDoes
  <2>2. ASSUME Create(w)
        PROVE  FALSE
    <3>1. worker[w].stage = "create"
      BY <2>2 DEF Create
    <3> QED BY <2>1, <3>1, OnlyCloseIsAtWork DEF OneIsDue
  <2> QED BY <1>6, <2>1, <2>2, ListBidsKeepsDue, GetBidKeepsDue, SetBidKeepsDue,
             AcknowledgeKeepsDue DEF WorkerStep
<1>7. CASE Crash
  BY <1>1, <1>7, CrashKeepsDue DEF Crash
<1> QED BY <1>3, <1>4, <1>5, <1>6, <1>7 DEF Next, Consumer

(* The bid that stands when the close of an auction is read, after all     *)
(* bids were recorded, is marked as won by the time the close is           *)
(* acknowledged if its owner is a winner, unless an error left it behind.  *)
THEOREM WinnersBidIsMarked == Spec => []StandingWinnerWins
<1>1. Init => HistoryInv /\ StreamAgrees /\ WinnerIsDue
  <2>1. Init => WinnerIsDue
    BY DEF Init, WinnerIsDue
  <2> QED BY <2>1, InitIsSound, StreamStarts
<1>2. HistoryInv /\ StreamAgrees /\ WinnerIsDue /\ [Next]_vars
      => HistoryInv' /\ StreamAgrees' /\ WinnerIsDue'
  BY StepKeepsHistory, StepKeepsStream, StepKeepsDue
<1>3. WinnerIsDue => StandingWinnerWins
  BY DEF WinnerIsDue, StandingWinnerWins
<1> QED BY <1>1, <1>2, <1>3, PTL DEF Spec
=============================================================================
