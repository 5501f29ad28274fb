-------------------------- MODULE NotificationHub --------------------------
(***************************************************************************)
(* The notification service.  Workers take events from bid:placed and      *)
(* auction:closed, send each to the clients that watch the auction, store  *)
(* a notification in the inbox of a user who was outbid or has won, and    *)
(* send it to the clients of that user.  Delivery is best effort: an event *)
(* is acknowledged whatever happened, and only a stopped service or one    *)
(* that needs over a minute sees it again.  The user marks the inbox as    *)
(* read meanwhile, and what a user has is given up a week after it was     *)
(* last added to.                                                          *)
(*                                                                         *)
(* Inboxes share nothing, so there is one user here.  An entry of the      *)
(* inbox is the JSON text under which Redis sorts it, told apart by its    *)
(* key ({type}:{auction}), its time of creation and whether it is read.    *)
(***************************************************************************)
EXTENDS Integers, FiniteSets, SequencesExt

CONSTANTS
  Auctions,         \* the auctions with events for the user
  AuctionClients,   \* WebSocket and SSE clients, each of one auction
  Watches,          \* which auction they watch
  UserClients,      \* WebSocket clients of the user
  BidWorkers,       \* the worker slots of bid:placed
  CloseWorkers,     \* the worker slots of auction:closed
  ReadCalls,        \* calls of POST /notifications/read
  MaxNotifications, \* entries that an inbox keeps
  Stories,          \* the sequences of events that may be published
  MaxWeeks,         \* bound: how often a week passes without a notification
  MaxFaults         \* bound: how often something goes wrong

ASSUME ClientsAssumption ==
  AuctionClients \cap UserClients = {} /\ Watches \in [AuctionClients -> Auctions]
ASSUME StoriesAssumption ==
  Stories \subseteq Seq([kind : {"bid", "outbid", "won"}, auction : Auctions])
ASSUME HubSlotsAssumption == BidWorkers \cap CloseWorkers = {}
ASSUME HubBounds ==
  MaxNotifications \in Nat \ {0} /\ MaxWeeks \in Nat /\ MaxFaults \in Nat

VARIABLES
  events,     \* both streams, in the order of publication
  delivered,  \* events that the consumer group has read
  acked,      \* acknowledged events
  worker,     \* the worker slots
  clients,    \* clients that are registered with the hub
  inbox,      \* the sorted set notifications:{user}
  dedup,      \* the hash notifications:{user}:dedup
  unread,     \* the counter notifications:{user}:unread
  expiring,   \* those of "inbox" and "dedup" that have an expiry
  weeks,      \* weeks that passed without a notification
  reader,     \* the calls that mark the inbox as read
  clock,      \* the last time of creation
  faults,     \* how often something went wrong
  owed,       \* history: events that a client is to be sent and has not been
  dropped,    \* history: events whose notification was not stored
  missed,     \* history: entries that came while the inbox was marked
  raced,      \* history: keys of which an entry was replaced in between, or
              \* was in the inbox when the hash expired
  expired     \* history: events read before the inbox last expired, and not
              \* stored since

streams == <<events, delivered, acked>>
store   == <<inbox, dedup, unread, expiring, weeks>>
history == <<owed, dropped, missed, raced, expired>>
vars == <<streams, worker, clients, store, reader, clock, faults, history>>

Workers == BidWorkers \cup CloseWorkers
Clients == AuctionClients \cup UserClients

(* bid: nobody is outbid, or not the user of this inbox.  An event that    *)
(* concerns the user is also the key of the notification.                  *)
Kinds  == {"bid", "outbid", "won"}
Event  == [kind : Kinds, auction : Auctions]
Keys   == {e \in Event : e.kind # "bid"}
Entry  == [key : Keys, at : Nat, read : BOOLEAN]
NoEntry == [at |-> 0]

Stages == {"idle", "broadcast", "sending", "dedup", "store", "push", "pushing", "ack"}

(* msg is the event at work (0 for none), targets the clients that the hub *)
(* copied under its lock, old the entry that HGET found.                   *)
Worker == [stage : Stages, msg : Nat, targets : SUBSET Clients,
           old : Entry \cup {NoEntry}, at : Nat]
Idle == [stage |-> "idle", msg |-> 0, targets |-> {}, old |-> NoEntry, at |-> 0]

Init ==
  /\ events = << >> /\ delivered = {} /\ acked = {}
  /\ worker = [w \in Workers |-> Idle]
  /\ clients = {}
  /\ inbox = {} /\ dedup = [k \in Keys |-> NoEntry] /\ unread = 0
  /\ expiring = {} /\ weeks = 0
  /\ reader = [r \in ReadCalls |-> [stage |-> "idle", seen |-> {}]]
  /\ clock = 0 /\ faults = 0
  /\ owed = [c \in Clients |-> {}]
  /\ dropped = {} /\ missed = {} /\ raced = {} /\ expired = {}

Fault   == faults < MaxFaults /\ faults' = faults + 1
NoFault == UNCHANGED faults

Becomes(w, r)  == worker' = [worker EXCEPT ![w] = r]
Goto(w, stage) == worker' = [worker EXCEPT ![w].stage = stage]
Busy == {w \in Workers : worker[w].stage # "idle"}
EventOf(w) == events[worker[w].msg]
Concerns(e) == e.kind # "bid"

-----------------------------------------------------------------------------
Hears(c, e) == IF c \in UserClients THEN Concerns(e) ELSE Watches[c] = e.auction

(* The auction service publishes. *)
Publish(e) ==
  /\ \E story \in Stories : IsPrefix(Append(events, e), story)
  /\ events' = Append(events, e)
  /\ owed' = [c \in Clients |->
       IF c \in clients /\ Hears(c, e) THEN owed[c] \cup {Len(events')} ELSE owed[c]]
  /\ UNCHANGED <<delivered, acked, worker, clients, store, reader, clock, faults,
                 dropped, missed, raced, expired>>

(* Register and RegisterUser, when a connection is upgraded. *)
Register(c) ==
  /\ c \notin clients
  /\ clients' = clients \cup {c}
  /\ UNCHANGED <<streams, worker, store, reader, clock, faults, history>>

(* Unregister and UnregisterUser: the connection is gone, and what is sent *)
(* to it from now on costs an error that is logged.                        *)
Unregister(c) ==
  /\ c \in clients
  /\ clients' = clients \ {c}
  /\ owed' = [owed EXCEPT ![c] = {}]
  /\ UNCHANGED <<streams, worker, store, reader, clock, faults, dropped, missed, raced,
                 expired>>

-----------------------------------------------------------------------------
(* The consumer *)

StreamSlots(k) == IF events[k].kind = "won" THEN CloseWorkers ELSE BidWorkers

IsNext(k) ==
  /\ k \in DOMAIN events \ delivered
  /\ \A j \in 1..(k - 1) : StreamSlots(j) = StreamSlots(k) => j \in delivered

Begin(w, k) ==
  /\ worker[w].stage = "idle" /\ w \in StreamSlots(k)
  /\ Becomes(w, [Idle EXCEPT !.stage = "broadcast", !.msg = k])

ReadMessage(w, k) ==
  /\ IsNext(k)
  /\ Begin(w, k)
  /\ delivered' = delivered \cup {k}
  /\ UNCHANGED <<events, acked, clients, store, reader, clock, faults, history>>

(* XAUTOCLAIM: the service stopped or could not acknowledge, or a worker   *)
(* has been at the event for over a minute.                                *)
Reclaim(w, k) ==
  /\ k \in delivered \ acked
  /\ IF \E v \in Busy : worker[v].msg = k THEN Fault ELSE NoFault
  /\ Begin(w, k)
  /\ UNCHANGED <<streams, clients, store, reader, clock, history>>

(* Mutant: the notification goes to those who watch the auction. *)
AudienceOfAuction(w) == {c \in AuctionClients : Watches[c] = EventOf(w).auction}

(* Broadcast and SendToUser copy the clients under the lock and send       *)
(* without it.                                                             *)
Audience(w) ==
  IF worker[w].stage = "push" THEN UserClients
  ELSE {c \in AuctionClients : Watches[c] = EventOf(w).auction}

(* With the last client sent, an outbid user or a winner gets a            *)
(* notification, created now.                                              *)
Sending(w, targets) ==
  [worker[w] EXCEPT !.targets = targets,
                    !.stage = CASE @ = "broadcast" -> "sending"
                                [] @ = "push"      -> "pushing"
                                [] OTHER           -> @]

AllSent(w, notify) ==
  IF notify
    THEN /\ Becomes(w, [worker[w] EXCEPT !.targets = {}, !.stage = "dedup", !.at = clock + 1])
         /\ clock' = clock + 1
    ELSE Becomes(w, [worker[w] EXCEPT !.targets = {}, !.stage = "ack"]) /\ UNCHANGED clock

(* Mutant: a user who is not connected gets no notification. *)
LeftOnline(w, targets) ==
  IF targets # {} THEN Becomes(w, Sending(w, targets)) /\ UNCHANGED clock
  ELSE AllSent(w, /\ worker[w].stage \in {"broadcast", "sending"}
                  /\ Concerns(EventOf(w)) /\ UserClients \cap clients # {})

Left(w, targets) ==
  IF targets # {} THEN Becomes(w, Sending(w, targets)) /\ UNCHANGED clock
  ELSE AllSent(w, worker[w].stage \in {"broadcast", "sending"} /\ Concerns(EventOf(w)))

CopyTargets(w) ==
  /\ worker[w].stage \in {"broadcast", "push"}
  /\ Left(w, Audience(w) \cap clients)
  /\ UNCHANGED <<streams, clients, store, reader, faults, history>>

Send(w, c) ==
  /\ c \in worker[w].targets
  /\ Left(w, worker[w].targets \ {c})
  /\ owed' = [owed EXCEPT ![c] = @ \ {worker[w].msg}]
  /\ UNCHANGED <<streams, clients, store, reader, faults, dropped, missed, raced,
                 expired>>

(* XACK, also when storing or sending failed. *)
Acknowledge(w) ==
  /\ worker[w].stage = "ack"
  /\ Becomes(w, Idle)
  /\ \/ NoFault /\ acked' = acked \cup {worker[w].msg}
     \/ Fault /\ UNCHANGED acked
  /\ UNCHANGED <<events, delivered, clients, store, reader, clock, history>>

(* The service stops: its workers and connections are gone. *)
Crash ==
  /\ Busy # {} \/ clients # {}
  /\ Fault
  /\ worker' = [w \in Workers |-> Idle]
  /\ clients' = {}
  /\ owed' = [c \in Clients |-> {}]
  /\ UNCHANGED <<streams, store, reader, clock, dropped, missed, raced, expired>>

-----------------------------------------------------------------------------
(* Store.Add: HGET first, then one pipeline. *)

(* An error of HGET is taken for "no entry". *)
ReadDedup(w) ==
  /\ worker[w].stage = "dedup"
  /\ \/ NoFault /\ Becomes(w, [worker[w] EXCEPT !.stage = "store", !.old = dedup[EventOf(w)]])
     \/ Fault /\ Goto(w, "store")
  /\ UNCHANGED <<streams, clients, store, reader, clock, history>>

(* ZREMRANGEBYRANK 0 -(MaxNotifications+1): the newest are kept. *)
Trimmed(entries) ==
  {e \in entries : Cardinality({f \in entries : f.at > e.at}) < MaxNotifications}

Missing(e) ==
  inbox' \cap IF \E r \in ReadCalls : reader[r].stage \in {"marking", "empty"}
                THEN missed \cup {e} ELSE missed

Racing(e, old) == IF dedup[e.key] # old THEN raced \cup {e.key} ELSE raced

(* The pipeline also renews the expiry of both keys, and of the counter.   *)
Renewed == expiring' = {"inbox", "dedup"} /\ UNCHANGED weeks

(* Mutant: the entry with the same key stays. *)
AddedBeside(e, old) ==
  /\ inbox' = Trimmed(inbox \cup {e})
  /\ dedup' = [dedup EXCEPT ![e.key] = e]
  /\ unread' = unread + 1
  /\ missed' = Missing(e) /\ raced' = Racing(e, old) /\ Renewed

(* Mutant: an entry that replaces another is not counted. *)
AddedUncounted(e, old) ==
  /\ inbox' = Trimmed((inbox \ {old}) \cup {e})
  /\ dedup' = [dedup EXCEPT ![e.key] = e]
  /\ unread' = IF old = NoEntry THEN unread + 1 ELSE unread
  /\ missed' = Missing(e) /\ raced' = Racing(e, old) /\ Renewed

Added(e, old) ==
  /\ inbox' = Trimmed((inbox \ {old}) \cup {e})
  /\ dedup' = [dedup EXCEPT ![e.key] = e]
  /\ unread' = unread + 1
  /\ missed' = Missing(e) /\ raced' = Racing(e, old) /\ Renewed

(* An error of the pipeline ends the work on the notification, whether it  *)
(* was carried out or not.                                                 *)
StoreEntry(w) ==
  LET r == worker[w]
      e == [key |-> EventOf(w), at |-> r.at, read |-> FALSE]
      Then(stage) == Becomes(w, [Idle EXCEPT !.stage = stage, !.msg = r.msg]) IN
  /\ r.stage = "store"
  /\ \/ NoFault /\ Added(e, r.old) /\ Then("push")
        /\ expired' = expired \ {r.msg} /\ UNCHANGED <<owed, dropped>>
     \/ /\ Fault /\ Then("ack")
        /\ Added(e, r.old) \/ UNCHANGED <<store, missed, raced>>
        /\ dropped' = dropped \cup {r.msg}
        /\ owed' = [c \in Clients |-> IF c \in UserClients THEN owed[c] \ {r.msg} ELSE owed[c]]
        /\ UNCHANGED expired
  /\ UNCHANGED <<streams, clients, reader, clock>>

-----------------------------------------------------------------------------
(* Store.MarkAllRead: ZREVRANGE first, then one pipeline. *)

Unread(entries) == {e \in entries : ~e.read}
AsRead(e) == [e EXCEPT !.read = TRUE]

ListEntries(r) ==
  /\ reader[r].stage = "idle"
  /\ reader' = [reader EXCEPT ![r] = [stage |-> IF inbox = {} THEN "empty" ELSE "marking",
                                      seen |-> inbox]]
  /\ UNCHANGED <<streams, worker, clients, store, clock, faults, history>>

(* What came in between is neither marked nor counted; what was replaced   *)
(* or expired in between comes back.  The newest is removed first: if it   *)
(* is alone, Redis deletes the inbox, and adding it again as read makes a  *)
(* new one without an expiry.                                              *)
Marked(seen) ==
  LET new  == Unread(seen)
      remade == \E e \in new : inbox \subseteq {e} /\ \A f \in new : e.at >= f.at
      back == {e \in new : e \notin inbox /\ AsRead(e) \notin inbox} IN
  /\ inbox' = (inbox \ new) \cup {AsRead(e) : e \in new}
  /\ dedup' = [k \in Keys |->
       IF \E e \in new : e.key = k
         THEN AsRead(CHOOSE e \in new : e.key = k /\ \A f \in new : f.key = k => f.at >= e.at)
         ELSE dedup[k]]
  /\ unread' = 0
  /\ raced' = raced \cup {e.key : e \in back}
  /\ expiring' = IF remade THEN expiring \ {"inbox"} ELSE expiring
  /\ UNCHANGED weeks

MarkEntries(r) ==
  /\ reader[r].stage = "marking"
  /\ reader' = [reader EXCEPT ![r] = [stage |-> "done", seen |-> {}]]
  /\ \/ NoFault /\ Marked(reader[r].seen)
     \/ Fault /\ Marked(reader[r].seen)
     \/ Fault /\ UNCHANGED <<store, raced>>
  /\ missed' = missed \cap Unread(inbox')
  /\ UNCHANGED <<streams, worker, clients, clock, owed, dropped, expired>>

(* An empty inbox only has its counter set; the error of SET is ignored. *)
ResetCount(r) ==
  /\ reader[r].stage = "empty"
  /\ reader' = [reader EXCEPT ![r] = [stage |-> "done", seen |-> {}]]
  /\ \/ NoFault /\ unread' = 0
     \/ Fault /\ unread' \in {0, unread}
  /\ UNCHANGED <<streams, worker, clients, inbox, dedup, expiring, weeks, clock, history>>

-----------------------------------------------------------------------------
(* A week passes since the last notification: the keys that were given     *)
(* their expiry with it are gone.                                          *)
StoreExpires ==
  /\ expiring # {} /\ expiring' = {}
  /\ weeks < MaxWeeks /\ weeks' = weeks + 1
  /\ inbox' = IF "inbox" \in expiring THEN {} ELSE inbox
  /\ dedup' = [k \in Keys |-> NoEntry]
  /\ missed' = missed \cap inbox'
  /\ raced' = raced \cup {e.key : e \in inbox'}
  /\ expired' = IF "inbox" \in expiring THEN delivered ELSE expired
  /\ UNCHANGED <<streams, worker, clients, unread, reader, clock, faults, owed, dropped>>

(* The counter's expiry is renewed also when the inbox is read. *)
CounterExpires ==
  /\ expiring = {} /\ unread # 0
  /\ unread' = 0
  /\ UNCHANGED <<streams, worker, clients, inbox, dedup, expiring, weeks, reader, clock,
                 faults, history>>

-----------------------------------------------------------------------------
WorkerStep(w) ==
  \/ CopyTargets(w)
  \/ \E c \in Clients : Send(w, c)
  \/ ReadDedup(w)
  \/ StoreEntry(w)
  \/ Acknowledge(w)

HubConsumer ==
  \/ \E w \in Workers : WorkerStep(w)
  \/ \E w \in Workers, k \in DOMAIN events : ReadMessage(w, k) \/ Reclaim(w, k)

WeekPasses == StoreExpires \/ CounterExpires

MarkAllRead(r) == ListEntries(r) \/ MarkEntries(r) \/ ResetCount(r)

Next ==
  \/ \E e \in Event : Publish(e)
  \/ \E c \in Clients : Register(c) \/ Unregister(c)
  \/ HubConsumer
  \/ \E r \in ReadCalls : MarkAllRead(r)
  \/ WeekPasses
  \/ Crash

Spec == Init /\ [][Next]_vars
-----------------------------------------------------------------------------
(* Every variable has the values that its stream, key or slot can hold. *)
TypeOK ==
  /\ events \in Seq(Event)
  /\ delivered \subseteq DOMAIN events /\ acked \subseteq delivered
  /\ worker \in [Workers -> Worker]
  /\ clients \subseteq Clients
  /\ inbox \subseteq Entry /\ dedup \in [Keys -> Entry \cup {NoEntry}] /\ unread \in Nat
  /\ expiring \subseteq {"inbox", "dedup"} /\ weeks \in 0..MaxWeeks
  /\ reader \in [ReadCalls -> [stage : {"idle", "empty", "marking", "done"},
                             seen : SUBSET Entry]]
  /\ clock \in Nat /\ faults \in 0..MaxFaults
  /\ owed \in [Clients -> SUBSET DOMAIN events]
  /\ dropped \subseteq DOMAIN events /\ missed \subseteq Entry /\ raced \subseteq Keys
  /\ expired \subseteq DOMAIN events

(* Whoever was connected before an event was published and still is has    *)
(* been sent it by the time it is acknowledged: all watchers of its        *)
(* auction, and the clients of the user it concerns unless its             *)
(* notification could not be stored.  The hub copies the clients, and they *)
(* come and go meanwhile.                                                  *)
WatchersAreTold == \A c \in Clients : owed[c] \cap acked = {}

(* A notification that was stored without an error stays for a week, or    *)
(* until the inbox is full: until the inbox expires it has an entry about  *)
(* each event that concerned the user and was handled, however often       *)
(* events are repeated and whatever reading the inbox does at the same     *)
(* time (Store.Add, MarkAllRead).                                          *)
NothingIsLost ==
  \A k \in acked \ (dropped \cup expired) :
    Concerns(events[k]) => \/ \E e \in inbox : e.key = events[k]
                           \/ Cardinality(inbox) >= MaxNotifications

(* The counter covers the unread entries, besides those that came while    *)
(* the inbox was being marked: neither setting it to zero nor its expiry   *)
(* forgets another.                                                        *)
CountCoversUnread == Cardinality(Unread(inbox) \ missed) <= unread

(* There is one entry per key, the newest, unless two calls replaced an    *)
(* entry of it at the same time or the old one could not be looked up: the *)
(* hash did not answer, or it had expired and the inbox had not.           *)
OneEntryPerKey ==
  \A e, f \in inbox : e.key = f.key /\ e.key \notin raced => e = f

(* The inbox keeps its size, unless an entry came back by such a race. *)
InboxIsCapped == raced = {} => Cardinality(inbox) <= MaxNotifications

(* The inbox is sound: typed, with one entry per key and not too large.    *)
InboxInv == TypeOK /\ OneEntryPerKey /\ InboxIsCapped

-----------------------------------------------------------------------------
(* The inductive invariants behind these properties. *)

(* The stages at which a client is still to be sent the event, and the one *)
(* at which the clients that are left are the targets.                     *)
StagesBefore(c) ==
  IF c \in AuctionClients THEN {"broadcast"}
  ELSE {"broadcast", "sending", "dedup", "store", "push"}
StageFor(c) == IF c \in AuctionClients THEN "sending" ELSE "pushing"

(* Only those are owed an event who are connected and hear of it, and each *)
(* worker at the event has still to send it to them.                       *)
TargetsAreOwed ==
  /\ \A c \in Clients : \A k \in owed[c] : c \in clients /\ Hears(c, events[k])
  /\ \A w \in Workers :
       worker[w].targets # {} => worker[w].stage \in {"sending", "pushing"}
  /\ \A w \in Busy :
       /\ worker[w].msg \in delivered
       /\ worker[w].stage \in {"dedup", "store", "push", "pushing"} => Concerns(EventOf(w))
       /\ \A c \in Clients : worker[w].msg \in owed[c] =>
            \/ worker[w].stage \in StagesBefore(c)
            \/ worker[w].stage = StageFor(c) /\ c \in worker[w].targets

(* An entry is known while it is in the inbox or somebody marks it. *)
KnownEntries == inbox \cup UNION {reader[r].seen : r \in ReadCalls}
Storing == {w \in Workers : worker[w].stage \in {"dedup", "store"}}

(* A time of creation is given once: to a worker that has yet to store its *)
(* entry, or to an entry, whether it was read meanwhile or not.            *)
TimesDiffer ==
  /\ IsFiniteSet(inbox) /\ \A r \in ReadCalls : IsFiniteSet(reader[r].seen)
  /\ \A e \in KnownEntries : e.at <= clock
  /\ \A e, f \in KnownEntries : e.at = f.at => e.key = f.key
  /\ \A e, f \in inbox : e.at = f.at => e = f
  /\ \A w \in Storing :
       /\ worker[w].at <= clock
       /\ \A e \in KnownEntries : e.at # worker[w].at
       /\ \A v \in Storing : v # w => worker[v].at # worker[w].at

(* The hash has the last entry of each key, unless two calls raced.        *)
DedupIsLast ==
  /\ \A k \in Keys : dedup[k] # NoEntry => dedup[k].key = k
  /\ \A w \in Workers : worker[w].old # NoEntry =>
       worker[w].stage = "store" /\ worker[w].old.key = EventOf(w)
  /\ \A e \in inbox : e.key \notin raced => dedup[e.key] = e

(* Who marks the inbox has seen all unread entries but those that came     *)
(* meanwhile.                                                              *)
ReadersHaveSeen ==
  \A r \in ReadCalls :
    /\ reader[r].stage = "marking" => Unread(inbox) \ reader[r].seen \subseteq missed
    /\ reader[r].stage = "empty" => Unread(inbox) \subseteq missed

(* A worker that has stored a notification goes on once the inbox has it.  *)
StoredIsKept ==
  \A w \in Workers :
    /\ worker[w].stage \in {"push", "pushing", "ack"}
    /\ worker[w].msg \notin dropped \cup expired /\ Concerns(EventOf(w))
    => \/ \E e \in inbox : e.key = EventOf(w)
       \/ Cardinality(inbox) >= MaxNotifications

(* Entries outlive the counter only as read ones: an inbox without an      *)
(* expiry was made by marking it.                                          *)
UnreadExpire == "inbox" \notin expiring => Unread(inbox) = {}

HubInv ==
  /\ TypeOK /\ WatchersAreTold /\ NothingIsLost /\ CountCoversUnread /\ InboxIsCapped
  /\ TargetsAreOwed /\ TimesDiffer /\ DedupIsLast /\ ReadersHaveSeen /\ StoredIsKept
  /\ UnreadExpire
=============================================================================
