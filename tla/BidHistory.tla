----------------------------- MODULE BidHistory -----------------------------
(***************************************************************************)
(* The bid service keeps the history of one auction: every bid is          *)
(* ACCEPTED, OUTBID or WON.  Workers take bids from the stream bid:placed  *)
(* and the winners from auction:closed.  Recording a bid takes a walk over *)
(* the recorded bids before it is stored and another one after; marking a  *)
(* winner takes one as well.  In a walk each bid is read and written by    *)
(* two calls, and no write looks at what it replaces.  An event that is    *)
(* not acknowledged within a minute is handled again.                      *)
(*                                                                         *)
(* Bids are numbered by the timestamps under which the history sorts them; *)
(* the stream may bring them in any order.                                 *)
(***************************************************************************)
EXTENDS Integers, FiniteSets, Sequences

CONSTANTS
  Bids,         \* the accepted bids of the auction
  Owner,        \* who placed each of them
  Outcomes,     \* the sets of winners that the auction may end with
  BidWorkers,   \* the worker slots of bid:placed
  CloseWorkers, \* the worker slots of auction:closed
  MaxOvertaken, \* bound: how much older a bid may be that comes later
  MaxFaults     \* bound: how often something goes wrong

ASSUME BidsAssumption == Bids \subseteq Nat \ {0} /\ Bids # {} /\ IsFiniteSet(Bids)
ASSUME OwnerAssumption == DOMAIN Owner = Bids
ASSUME SlotsAssumption == BidWorkers \cap CloseWorkers = {}
ASSUME OutcomesAssumption == Outcomes \subseteq SUBSET {Owner[b] : b \in Bids}
ASSUME HistoryBounds == MaxOvertaken \in Nat /\ MaxFaults \in Nat

VARIABLES
  placed,     \* the stream bid:placed
  closed,     \* the stream auction:closed: the sets of winners announced
  delivered,  \* messages that the consumer group has read
  acked,      \* acknowledged messages
  worker,     \* the worker slots
  status,     \* the status of each bid, "none" before it is recorded
  faults,     \* how often something went wrong
  unsettled,  \* history: bids that an error which nobody retries left behind
  overlap,    \* history: whether two events were handled at a time or one twice
  due         \* history: the bid that the close found standing after all others

stream == <<placed, closed>>
vars == <<stream, delivered, acked, worker, status, faults, unsettled, overlap, due>>

Users    == {Owner[b] : b \in Bids}
Workers  == BidWorkers \cup CloseWorkers
Close    == 0                      \* the message of auction:closed
Messages == Bids \cup {Close}
BidStatuses == {"none", "ACCEPTED", "OUTBID", "WON"}

(* own: the walk of MarkUserPreviousBids; others: that of MarkOutbid; won: *)
(* that of MarkWon.  Before each comes the step that lists the bids.       *)
Stages == {"idle", "list_own", "own", "create", "list_others", "others",
           "list_won", "won", "ack"}

(* todo are the bids that the walk has not come to, hit is one that was    *)
(* read and is to be written (0 for none), winners those still to mark,    *)
(* user the one at work and failed whether marking one of them failed.     *)
Worker == [stage : Stages, msg : Messages, todo : SUBSET Bids, hit : Bids \cup {0},
           winners : SUBSET Users, user : Users, failed : BOOLEAN]

Idle == [stage |-> "idle", msg |-> Close, todo |-> {}, hit |-> 0,
         winners |-> {}, user |-> CHOOSE u \in Users : TRUE, failed |-> FALSE]

Init ==
  /\ placed = << >> /\ closed = << >>
  /\ delivered = {} /\ acked = {}
  /\ worker = [w \in Workers |-> Idle]
  /\ status = [b \in Bids |-> "none"]
  /\ faults = 0 /\ unsettled = {} /\ overlap = FALSE /\ due = {}

Published == {placed[k] : k \in DOMAIN placed}
Recorded  == {b \in Bids : status[b] # "none"}
Busy      == {w \in Workers : worker[w].stage # "idle"}

Standing  == {b \in Bids : status[b] = "ACCEPTED"}

AllRecorded == Bids \subseteq acked /\ \A w \in BidWorkers : worker[w].stage = "idle"

Fault   == faults < MaxFaults /\ faults' = faults + 1
NoFault == UNCHANGED faults

Becomes(w, r) == worker' = [worker EXCEPT ![w] = r]

(* Handling ends without an acknowledgement.  If another slot acknowledged *)
(* the message meanwhile, or is about to, it will not come again.          *)
CutShort(stopped) ==
  unsettled' = unsettled \cup
    {b \in Bids : /\ \E w \in stopped : worker[w].msg = b
                  /\ b \in acked \/ \E v \in Workers \ stopped : worker[v].msg = b}

Abort(w) == Becomes(w, Idle) /\ CutShort({w})

-----------------------------------------------------------------------------
(* The auction service appends to the streams. *)

PublishBidPlaced(b) ==
  /\ b \notin Published
  /\ \A c \in Bids \ Published : b - c <= MaxOvertaken
  /\ placed' = Append(placed, b)
  /\ UNCHANGED <<closed, delivered, acked, worker, status, faults, unsettled, overlap, due>>

PublishAuctionClosed(winners) ==
  /\ closed = << >>
  /\ closed' = <<winners>>
  /\ UNCHANGED <<placed, delivered, acked, worker, status, faults, unsettled, overlap, due>>

-----------------------------------------------------------------------------
(* The consumer: a message goes to a free slot of its stream. *)

(* Marking goes on with some winner that is left, and ends with an         *)
(* acknowledgement unless one failed.                                      *)
MarkNext(r) ==
  IF r.winners # {}
    THEN {[r EXCEPT !.stage = "list_won", !.user = u, !.winners = @ \ {u}] :
            u \in r.winners}
    ELSE {[r EXCEPT !.stage = "ack"]}

Started(m) ==
  IF m = Close
    THEN MarkNext([Idle EXCEPT !.winners = closed[1]])
    ELSE {[Idle EXCEPT !.stage = "list_own", !.msg = m, !.user = Owner[m]]}

Begin(w, m) ==
  /\ worker[w].stage = "idle"
  /\ w \in IF m = Close THEN CloseWorkers ELSE BidWorkers
  /\ \E r \in Started(m) : Becomes(w, r)

(* XREADGROUP hands out the messages of a stream in their order. *)
IsNext(m) ==
  IF m = Close
    THEN closed # << >> /\ Close \notin delivered
    ELSE LET k == Cardinality(delivered \ {Close}) + 1 IN k \in DOMAIN placed /\ placed[k] = m

ReadMessage(w, m) ==
  /\ IsNext(m)
  /\ Begin(w, m)
  /\ delivered' = delivered \cup {m}
  /\ overlap' = (overlap \/ Busy # {})
  /\ due' = IF m = Close /\ AllRecorded /\ Cardinality(Standing) = 1 THEN Standing ELSE due
  /\ UNCHANGED <<stream, acked, status, faults, unsettled>>

(* Mutant: only bids that are not in the history are claimed again. *)
ReclaimUnrecorded(w, m) ==
  /\ m \in delivered \ (acked \cup Recorded)
  /\ IF \E v \in Busy : worker[v].msg = m THEN Fault ELSE NoFault
  /\ Begin(w, m)
  /\ overlap' = TRUE
  /\ UNCHANGED <<stream, delivered, acked, status, unsettled, due>>

(* XAUTOCLAIM: handling failed or stopped, or goes on for over a minute. *)
Reclaim(w, m) ==
  /\ m \in delivered \ acked
  /\ IF \E v \in Busy : worker[v].msg = m THEN Fault ELSE NoFault
  /\ Begin(w, m)
  /\ overlap' = TRUE
  /\ UNCHANGED <<stream, delivered, acked, status, unsettled, due>>

-----------------------------------------------------------------------------
(* Walks over the recorded bids *)

(* What follows a walk. *)
AfterWalk(r) ==
  CASE r.stage = "own"    -> {[r EXCEPT !.stage = "create"]}
    [] r.stage = "others" -> {[r EXCEPT !.stage = "ack"]}
    [] OTHER              -> MarkNext(r)

(* The state of a worker that is done with a bid, or with all. *)
GoOn(r) == IF r.todo = {} THEN AfterWalk([r EXCEPT !.hit = 0]) ELSE {[r EXCEPT !.hit = 0]}

(* Mutant: excludeBidID is not looked at. *)
ExcludedNone(r) == {}

(* excludeBidID: the bid that is being recorded. *)
Excluded(r) == IF r.msg = Close THEN {} ELSE {r.msg}

(* ZRANGE.  An error ends RecordBid; a winner whose marking failed is left *)
(* to the next delivery.                                                   *)
ListBids(w) ==
  LET r      == worker[w]
      walk   == CASE r.stage = "list_own"    -> "own"
                  [] r.stage = "list_others" -> "others"
                  [] OTHER                   -> "won"
      listed == [r EXCEPT !.stage = walk,
                          !.todo = Recorded \ Excluded(r)]
  IN
  /\ r.stage \in {"list_own", "list_others", "list_won"}
  /\ \/ /\ NoFault /\ UNCHANGED unsettled
        /\ \E next \in GoOn(listed) : Becomes(w, next)
     \/ /\ Fault
        /\ IF r.stage = "list_won"
             THEN /\ UNCHANGED unsettled
                  /\ \E next \in MarkNext([r EXCEPT !.failed = TRUE]) : Becomes(w, next)
             ELSE Abort(w)
  /\ UNCHANGED <<stream, delivered, acked, status, overlap, due>>

(* Whether the walk changes the status of a bid that it reads. *)
Concerns(r, b) ==
  status[b] = "ACCEPTED" /\ (r.stage \in {"own", "won"} => Owner[b] = r.user)

IsFirst(b, set) == \A c \in set : b <= c

(* GET of the next bid.  A bid that cannot be read is passed over. *)
GetBid(w) == \E b \in worker[w].todo :
  LET r      == worker[w]
      passed == [r EXCEPT !.todo = @ \ {b}]
  IN
  /\ r.stage \in {"own", "others", "won"}
  /\ r.hit = 0 /\ IsFirst(b, r.todo)
  /\ \/ /\ NoFault /\ UNCHANGED unsettled
        /\ IF Concerns(r, b) THEN Becomes(w, [r EXCEPT !.hit = b])
                             ELSE \E next \in GoOn(passed) : Becomes(w, next)
     \/ /\ Fault
        /\ unsettled' = unsettled \cup {b}
        /\ \E next \in GoOn(passed) : Becomes(w, next)
  /\ UNCHANGED <<stream, delivered, acked, status, overlap, due>>

(* SET of the bid that was read, whatever it is by now; an error of it is  *)
(* ignored.  MarkWon stops at the first one.                               *)
SetBid(w) ==
  LET r    == worker[w]
      left == IF r.stage = "won" THEN {} ELSE r.todo \ {r.hit}
  IN
  /\ r.hit # 0
  /\ \/ /\ NoFault /\ UNCHANGED unsettled
        /\ status' = [status EXCEPT ![r.hit] = IF r.stage = "won" THEN "WON" ELSE "OUTBID"]
     \/ Fault /\ UNCHANGED status /\ unsettled' = unsettled \cup {r.hit}
  /\ \E next \in GoOn([r EXCEPT !.todo = left]) : Becomes(w, next)
  /\ UNCHANGED <<stream, delivered, acked, overlap, due>>

-----------------------------------------------------------------------------
(* Mutant: MarkOutbid is not called after the bid is stored. *)
CreateOnly(w) ==
  /\ worker[w].stage = "create"
  /\ NoFault
  /\ status' = [status EXCEPT ![worker[w].msg] = "ACCEPTED"]
  /\ Becomes(w, [worker[w] EXCEPT !.stage = "ack"])
  /\ UNCHANGED <<stream, delivered, acked, unsettled, overlap, due>>

(* Mutant: an error of Create is logged and the bid goes on. *)
CreateDespiteError(w) ==
  LET stored == [status EXCEPT ![worker[w].msg] = "ACCEPTED"] IN
  /\ worker[w].stage = "create"
  /\ \/ NoFault /\ status' = stored
     \/ Fault /\ status' \in {status, stored}
  /\ Becomes(w, [worker[w] EXCEPT !.stage = "list_others"])
  /\ UNCHANGED <<stream, delivered, acked, unsettled, overlap, due>>

(* Create: the bid is stored as ACCEPTED, also when it was before.  When   *)
(* an error is returned it may have been stored.                           *)
Create(w) ==
  LET b == worker[w].msg
      stored == [status EXCEPT ![b] = "ACCEPTED"] IN
  /\ worker[w].stage = "create"
  /\ \/ /\ NoFault /\ UNCHANGED unsettled
        /\ status' = stored
        /\ Becomes(w, [worker[w] EXCEPT !.stage = "list_others"])
     \/ Fault /\ status' \in {status, stored} /\ Abort(w)
  /\ UNCHANGED <<stream, delivered, acked, overlap, due>>

(* Mutant: the message is acknowledged although a winner was not marked. *)
AcknowledgeAnyway(w) ==
  /\ worker[w].stage = "ack"
  /\ Becomes(w, Idle)
  /\ \/ NoFault /\ acked' = acked \cup {worker[w].msg}
     \/ Fault /\ UNCHANGED acked
  /\ UNCHANGED <<stream, delivered, status, unsettled, overlap, due>>

(* XACK.  When it fails, or a winner could not be marked, the message will *)
(* come again.                                                             *)
Acknowledge(w) ==
  /\ worker[w].stage = "ack"
  /\ Becomes(w, Idle)
  /\ \/ NoFault /\ ~worker[w].failed /\ acked' = acked \cup {worker[w].msg}
     \/ NoFault /\ worker[w].failed /\ UNCHANGED acked
     \/ Fault /\ ~worker[w].failed /\ UNCHANGED acked
  /\ UNCHANGED <<stream, delivered, status, unsettled, overlap, due>>

(* The service stops without waiting for its workers, and starts again. *)
Crash ==
  /\ Busy # {}
  /\ Fault
  /\ worker' = [w \in Workers |-> Idle]
  /\ CutShort(Busy)
  /\ UNCHANGED <<stream, delivered, acked, status, overlap, due>>

-----------------------------------------------------------------------------
WorkerStep(w) == ListBids(w) \/ GetBid(w) \/ SetBid(w) \/ Create(w) \/ Acknowledge(w)

Consumer ==
  \/ \E w \in Workers : WorkerStep(w)
  \/ \E w \in Workers, m \in Messages : ReadMessage(w, m) \/ Reclaim(w, m)

Next ==
  \/ \E b \in Bids : PublishBidPlaced(b)
  \/ \E winners \in Outcomes : PublishAuctionClosed(winners)
  \/ Consumer
  \/ Crash

Spec == Init /\ [][Next]_vars

(* The consumer does something as long as it can: its loops read, pending  *)
(* messages are claimed, workers go on.  As every handling ends, nothing   *)
(* finer is needed.  Nobody has to bid or to close.                        *)
Fairness == WF_vars(Consumer)

FairSpec == Spec /\ Fairness
-----------------------------------------------------------------------------
(* Every variable has the values that its stream, slot or key can hold. *)
TypeOK ==
  /\ placed \in Seq(Bids) /\ closed \in Seq(SUBSET Users)
  /\ delivered \subseteq Messages /\ acked \subseteq delivered
  /\ worker \in [Workers -> Worker]
  /\ status \in [Bids -> BidStatuses]
  /\ faults \in 0..MaxFaults /\ unsettled \subseteq Bids /\ overlap \in BOOLEAN
  /\ due \subseteq Bids

(* No bid is lost on the way: whoever acknowledges a bid has stored it, in *)
(* spite of failed calls, restarts and handlings that ran twice.           *)
AckedIsRecorded == acked \ {Close} \subseteq Recorded

(* At rest: every bid of the stream is acknowledged and no slot works on   *)
(* one.                                                                    *)
AtRest ==
  /\ Published \subseteq acked
  /\ \A w \in BidWorkers : worker[w].stage = "idle"

(* However workers of different bids interleave, and whatever fails, is    *)
(* repeated or comes in another order: at rest at most one bid stands,     *)
(* besides those that an error which nobody retries left behind.  It is    *)
(* why RecordBid lists the others only after it has stored its own.        *)
OneBidStands == AtRest => Cardinality(Standing \ unsettled) <= 1

(* When nothing was handled at the same time or twice, it is the last bid  *)
(* of the stream that stands or has won, and all others are outbid or won. *)
LastBidStands ==
  AtRest /\ ~overlap /\ placed # << >> =>
    \A b \in Published \ unsettled :
      status[b] \in IF b = placed[Len(placed)] THEN {"ACCEPTED", "WON"}
                                            ELSE {"OUTBID", "WON"}

(* A bid is marked as won only if the auction was closed and its owner is  *)
(* a winner, although MarkWon writes back a record that it read earlier.   *)
WonByWinners ==
  \A b \in Bids : status[b] = "WON" => closed # << >> /\ Owner[b] \in closed[1]

(* What a worker at some stage can rely on: it is at a message that was    *)
(* delivered, marks a winner that was announced, goes on to others only    *)
(* with its bid stored, and walks as long as there is a bid left.          *)
WorkersAgree ==
  /\ Close \in delivered => closed # << >>
  /\ \A w \in Workers : LET r == worker[w] IN
       /\ r.stage # "idle" => r.msg \in delivered
       /\ r.stage \in {"list_own", "own", "create", "list_others", "others"} => r.msg # Close
       /\ r.stage \in {"list_others", "others", "ack"} /\ r.msg # Close => r.msg \in Recorded
       /\ r.stage \in {"list_won", "won"} =>
            r.msg = Close /\ r.winners \cup {r.user} \subseteq closed[1]
       /\ r.stage \in {"own", "others", "won"} => r.todo # {}
       /\ r.hit # 0 => /\ r.stage \in {"own", "others", "won"}
                       /\ r.stage = "won" => Owner[r.hit] = r.user

(* The inductive invariant: nothing is lost, and only winners have won,    *)
(* whatever fails or runs twice.                                           *)
HistoryInv == TypeOK /\ WorkersAgree /\ AckedIsRecorded /\ WonByWinners

(* The winner's bid is marked: when the close is read after all bids have  *)
(* been recorded and a winner owns the one that stands, it is WON by the   *)
(* time the close is acknowledged, in spite of failed or repeated calls.   *)
StandingWinnerWins ==
  Close \in acked =>
    \A b \in due \ unsettled : Owner[b] \in closed[1] => status[b] = "WON"

(* The inductive invariants behind these.  The stream brings each bid once *)
(* and is read in its order, by the slots that are there for it; a walk    *)
(* comes to recorded bids, and not to the one that is being recorded.      *)
Read == Cardinality(delivered \ {Close})

StreamAgrees ==
  /\ \A i, j \in DOMAIN placed : placed[i] = placed[j] => i = j
  /\ Read \in 0..Len(placed) /\ delivered \ {Close} = {placed[k] : k \in 1..Read}
  /\ Recorded \subseteq delivered
  /\ \A w \in Workers \ Busy : worker[w] = Idle
  /\ \A w \in Busy : LET r == worker[w] IN
       /\ r.todo \cup ({r.hit} \ {0}) \subseteq Recorded
       /\ IF r.msg = Close THEN w \in CloseWorkers
                           ELSE w \in BidWorkers /\ r.msg \notin r.todo \cup {r.hit}

(* Of two bids that stand one is still to be recorded, maybe once more, or *)
(* its worker has yet to come to the other.                                *)
AtWork(b) == {w \in Workers : worker[w].msg = b}

Marks(r, c) ==
  \/ r.stage \in {"list_own", "own", "create", "list_others"}
  \/ r.stage = "others" /\ c \in r.todo

WillMark(b, c) ==
  \/ b \notin acked /\ AtWork(b) = {}
  \/ \E w \in AtWork(b) : Marks(worker[w], c)

TwoNeverStand ==
  \A b, c \in Standing \ unsettled : b # c => WillMark(b, c) \/ WillMark(c, b)

(* While one event is handled at a time, and none was given up, it is the  *)
(* last bid that is worked on, and its worker has yet to come to every     *)
(* older one that stands.                                                  *)
NoneGivenUp == \A b \in delivered \ {Close} : b \in acked \/ AtWork(b) # {}

LastStands ==
  ~overlap /\ NoneGivenUp =>
    /\ \A v, w \in Busy : v = w
    /\ \A w \in Busy : worker[w].msg # Close =>
         Read > 0 /\ worker[w].msg = placed[Read] /\ worker[w].msg \notin acked
    /\ \A k \in 1..Read : placed[k] \notin unsettled =>
         IF k = Read
           THEN \/ status[placed[k]] \in {"ACCEPTED", "WON"}
                \/ \E w \in AtWork(placed[k]) : worker[w].stage \in {"list_own", "own", "create"}
           ELSE \/ status[placed[k]] \in {"OUTBID", "WON"}
                \/ \E w \in AtWork(placed[Read]) : Marks(worker[w], placed[k])

(* Once a close was read after all bids, the one that stands is WON or its *)
(* owner is yet to be marked.                                              *)
YetToMark(r, b) ==
  \/ r.stage = "idle" \/ r.failed
  \/ r.stage \in {"list_won", "won"} /\ Owner[b] \in r.winners
  \/ r.user = Owner[b] /\ (r.stage = "list_won" \/ (r.stage = "won" /\ b \in r.todo))

WinnerIsDue ==
  due # {} =>
    /\ \A b, c \in due : b = c
    /\ AllRecorded /\ Standing \subseteq due /\ Close \in delivered
    /\ \A w \in Workers : worker[w].hit # 0 => worker[w].hit \in due
    /\ \A b \in due \ unsettled : Owner[b] \in closed[1] =>
         \/ status[b] = "WON"
         \/ /\ status[b] = "ACCEPTED" /\ Close \notin acked
            /\ \A w \in Workers : YetToMark(worker[w], b)

(* Every bid that is published gets into the history. *)
EveryBidIsRecorded == []<>(Published \subseteq acked)
=============================================================================
