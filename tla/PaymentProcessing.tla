-------------------------- MODULE PaymentProcessing -------------------------
(***************************************************************************)
(* The payment service on the auction:closed events of one auction.        *)
(* Workers of the stream consumer, the recovery job and the calls of       *)
(* administrators all drive payments through the same calls of DynamoDB,   *)
(* none of which is conditional on what the caller has read.  Messages are *)
(* delivered at least once: one that is not acknowledged within a minute   *)
(* is claimed again.                                                       *)
(***************************************************************************)
EXTENDS Naturals, Sequences, FiniteSets

CONSTANTS
  Messages,     \* auction:closed events of the auction in the stream
  Winners,      \* the winners that these events name
  Consumers,    \* worker slots of the consumer (PAYMENT_WORKERS)
  Recovery,     \* the recovery job
  AdminCalls,   \* calls of the admin routes process and refund
  FirstPage,    \* the payments that every scan of the recovery job covers
  Delays,       \* of "worker": a worker may take longer than the timeouts,
                \* and "index": so may the auction-index
  MaxFaults,    \* bound: failed calls and crashes
  MaxPayments,  \* bound: payments created
  MaxWaiting    \* bound: handlings of one message that wait for a slot

Workers == Consumers \cup {Recovery} \cup AdminCalls

ASSUME PaymentsAssumption ==
  /\ Consumers \cap AdminCalls = {} /\ Recovery \notin Consumers \cup AdminCalls
  /\ "none" \notin Messages
  /\ MaxFaults \in Nat /\ MaxPayments \in Nat /\ MaxWaiting \in Nat \ {0}

VARIABLES
  message,     \* each message's state in the consumer group
  dispatched,  \* handlings of each message that wait for a worker slot
  payments,    \* the DynamoDB table, in the order of creation
  index,       \* the payments that the auction-index shows
  worker,      \* the local state of each worker
  told,        \* the payment events published
  faults       \* calls failed and crashes so far

vars == <<message, dispatched, payments, index, worker, told, faults>>

queue == <<message, dispatched>>
table == <<payments, index>>

maxRetries == 1

PaymentStatuses == {"pending", "processing", "completed", "failed", "refunded"}
Unsettled       == {"pending", "processing"}
Decisions       == {"success", "failed"}

(* old: updated_at is more than stuckThreshold ago. *)
Payment == [winner : Winners, status : PaymentStatuses, retries : Nat,
            decision : Decisions \cup {"none"}, old : BOOLEAN]

NewPayment(b) == [winner |-> b, status |-> "pending", retries |-> 0,
                  decision |-> "none", old |-> FALSE]

PaymentIds == 1..MaxPayments

(* idle: delivered more than pendingTimeout ago. *)
Message == [state : {"new", "delivered", "acked"}, idle : BOOLEAN]

Stages == {"idle", "next", "load", "mark", "decide", "apply", "publish",
           "refunding", "done"}

InCall == {"load", "mark", "decide", "apply", "publish", "refunding"}

(* todo: winners still to be billed; stuck: what is left of the last scan; *)
(* pay: the payment in work; decision: as read or drawn; kind: the event   *)
(* to publish; failed: whether an error is to be returned.                 *)
Worker ==
  [stage : Stages, msg : Messages \cup {"none"}, todo : SUBSET Winners,
   stuck : SUBSET (PaymentIds \X Nat), pay : PaymentIds \cup {0},
   decision : Decisions \cup {"none"}, failed : BOOLEAN,
   kind : {"none", "processed", "failed", "refunded"}]

Idle == [stage |-> "idle", msg |-> "none", todo |-> {}, stuck |-> {}, pay |-> 0,
         decision |-> "none", failed |-> FALSE, kind |-> "none"]

Init ==
  /\ message = [m \in Messages |-> [state |-> "new", idle |-> FALSE]]
  /\ dispatched = [m \in Messages |-> 0]
  /\ payments = << >>
  /\ index = {}
  /\ worker = [w \in Workers |-> Idle]
  /\ told = {}
  /\ faults = 0

-----------------------------------------------------------------------------
(* Calls and their errors *)

Fault   == faults < MaxFaults /\ faults' = faults + 1
NoFault == UNCHANGED faults

(* The next state of one worker. *)
Becomes(w, state) == worker' = [worker EXCEPT ![w] = state]
Goto(w, stage)    == Becomes(w, [worker[w] EXCEPT !.stage = stage])

(* A call on one payment returns: consumers and the recovery job go on     *)
(* with the next one, an admin call is answered.                           *)
Returned(w, failed) ==
  [worker[w] EXCEPT
     !.stage  = IF w \in AdminCalls THEN "done" ELSE "next",
     !.failed = @ \/ failed,
     !.pay = 0, !.decision = "none", !.kind = "none"]

ReturnError(w) == Becomes(w, Returned(w, TRUE))

(* UpdateItem: unconditional, and it refreshes updated_at.  One that      *)
(* returns an error may still have been carried out.                       *)
SetStatus(p, status) ==
  payments' = [payments EXCEPT ![p].status = status, ![p].old = FALSE]

SetDecision(p, decision) ==
  payments' = [payments EXCEPT ![p].decision = decision, ![p].old = FALSE]

AddRetry(p) ==
  payments' = [payments EXCEPT ![p].retries = @ + 1, ![p].old = FALSE]

-----------------------------------------------------------------------------
(* The stream consumer *)

(* XREADGROUP delivers a new message; it waits for a worker slot. *)
ReadMessage(m) ==
  /\ message[m].state = "new"
  /\ message' = [message EXCEPT ![m].state = "delivered"]
  /\ dispatched' = [dispatched EXCEPT ![m] = @ + 1]
  /\ UNCHANGED <<table, worker, told, faults>>

(* XAUTOCLAIM delivers it again once it is idle. *)
ReclaimMessage(m) ==
  /\ message[m] = [state |-> "delivered", idle |-> TRUE]
  /\ dispatched[m] < MaxWaiting
  /\ message' = [message EXCEPT ![m].idle = FALSE]
  /\ dispatched' = [dispatched EXCEPT ![m] = @ + 1]
  /\ UNCHANGED <<table, worker, told, faults>>

(* Mutant: only settled payments count. *)
BilledIfSettled ==
  {payments[p].winner : p \in {q \in index : payments[q].status \notin Unsettled}}

Billed == {payments[p].winner : p \in index}

(* Mutant: an error of the query is taken for "no payments yet". *)
InitiateDespiteError(w, m) ==
  /\ worker[w].stage = "idle"
  /\ dispatched[m] > 0
  /\ dispatched' = [dispatched EXCEPT ![m] = @ - 1]
  /\ \E known \in {Billed, {}} :
       /\ known # Billed => Fault
       /\ known = Billed => NoFault
       /\ Becomes(w, [Idle EXCEPT !.stage = "next", !.msg = m, !.todo = Winners \ known])
  /\ UNCHANGED <<message, table, told>>

(* InitiatePayment: the winners without a payment, by the index. *)
InitiatePayment(w, m) ==
  /\ worker[w].stage = "idle"
  /\ dispatched[m] > 0
  /\ dispatched' = [dispatched EXCEPT ![m] = @ - 1]
  /\ \/ /\ NoFault
        /\ Becomes(w, [Idle EXCEPT !.stage = "next", !.msg = m,
                                   !.todo = Winners \ Billed])
     \/ Fault /\ UNCHANGED worker
  /\ UNCHANGED <<message, table, told>>

CreatePayment(w, b) ==
  LET others == [worker[w] EXCEPT !.todo = @ \ {b}] IN
  /\ worker[w].stage = "next"
  /\ b \in worker[w].todo
  /\ \/ /\ NoFault /\ Len(payments) < MaxPayments
        /\ payments' = Append(payments, NewPayment(b))
        /\ Becomes(w, [others EXCEPT !.stage = "load", !.pay = Len(payments) + 1])
     \/ /\ Fault
        /\ \/ UNCHANGED payments
           \/ Len(payments) < MaxPayments /\ payments' = Append(payments, NewPayment(b))
        /\ Becomes(w, [others EXCEPT !.failed = TRUE])
  /\ UNCHANGED <<queue, index, told>>

(* Mutant: errors are logged and the message is acknowledged. *)
FinishMessageAnyway(w) ==
  /\ worker[w].stage = "next" /\ worker[w].todo = {}
  /\ NoFault
  /\ message' = [message EXCEPT ![worker[w].msg] = [state |-> "acked", idle |-> FALSE]]
  /\ Becomes(w, Idle)
  /\ UNCHANGED <<dispatched, table, told>>

(* XACK, unless a call failed.  A message may be handled again meanwhile.  *)
FinishMessage(w) ==
  /\ worker[w].stage = "next" /\ worker[w].todo = {}
  /\ \/ /\ ~worker[w].failed /\ NoFault
        /\ message' = [message EXCEPT ![worker[w].msg] =
                         [state |-> "acked", idle |-> FALSE]]
     \/ worker[w].failed /\ NoFault /\ UNCHANGED message
     \/ ~worker[w].failed /\ Fault /\ UNCHANGED message
  /\ Becomes(w, Idle)
  /\ UNCHANGED <<dispatched, table, told>>

-----------------------------------------------------------------------------
(* ProcessPayment *)

(* Mutant: the stored decision is not used. *)
LoadPaymentAfresh(w) ==
  LET p == worker[w].pay IN
  /\ worker[w].stage = "load"
  /\ \/ /\ NoFault /\ payments[p].status \in Unsettled
        /\ Goto(w, IF payments[p].status = "pending" THEN "mark" ELSE "decide")
     \/ NoFault /\ payments[p].status \notin Unsettled /\ ReturnError(w)
     \/ Fault /\ ReturnError(w)
  /\ UNCHANGED <<queue, table, told>>

LoadPayment(w) ==
  LET p == worker[w].pay IN
  /\ worker[w].stage = "load"
  /\ \/ /\ NoFault /\ payments[p].status \in Unsettled
        /\ Becomes(w, [worker[w] EXCEPT
             !.decision = payments[p].decision,
             !.stage    = CASE payments[p].status = "pending"   -> "mark"
                            [] payments[p].decision = "none"    -> "decide"
                            [] OTHER                            -> "apply"])
     \/ NoFault /\ payments[p].status \notin Unsettled /\ ReturnError(w)
     \/ Fault /\ ReturnError(w)
  /\ UNCHANGED <<queue, table, told>>

MarkProcessing(w) ==
  /\ worker[w].stage = "mark"
  /\ \/ /\ NoFault
        /\ SetStatus(worker[w].pay, "processing")
        /\ Goto(w, IF worker[w].decision = "none" THEN "decide" ELSE "apply")
     \/ /\ Fault /\ ReturnError(w)
        /\ UNCHANGED payments \/ SetStatus(worker[w].pay, "processing")
  /\ UNCHANGED <<queue, index, told>>

(* The gateway is drawn at random, its decision is stored before use. *)
SetGatewayDecision(w) ==
  /\ worker[w].stage = "decide"
  /\ \E d \in Decisions :
       \/ /\ NoFault
          /\ SetDecision(worker[w].pay, d)
          /\ Becomes(w, [worker[w] EXCEPT !.decision = d, !.stage = "apply"])
       \/ /\ Fault /\ ReturnError(w)
          /\ UNCHANGED payments \/ SetDecision(worker[w].pay, d)
  /\ UNCHANGED <<queue, index, told>>

(* Mutant: the outcome is published although it was not stored. *)
PublishUnappliedDecision(w) ==
  LET success == worker[w].decision = "success" IN
  /\ worker[w].stage = "apply"
  /\ \/ NoFault /\ SetStatus(worker[w].pay, IF success THEN "completed" ELSE "failed")
     \/ Fault /\ UNCHANGED payments
  /\ Becomes(w, [worker[w] EXCEPT
       !.stage = "publish", !.kind = IF success THEN "processed" ELSE "failed"])
  /\ UNCHANGED <<queue, index, told>>

ApplyDecision(w) ==
  LET success == worker[w].decision = "success"
      outcome == IF success THEN "completed" ELSE "failed" IN
  /\ worker[w].stage = "apply"
  /\ \/ /\ NoFault
        /\ SetStatus(worker[w].pay, outcome)
        /\ Becomes(w, [worker[w] EXCEPT
             !.stage = "publish", !.kind = IF success THEN "processed" ELSE "failed"])
     \/ /\ Fault /\ ReturnError(w)
        /\ UNCHANGED payments \/ SetStatus(worker[w].pay, outcome)
  /\ UNCHANGED <<queue, index, told>>

(* An error of the publisher is only logged. *)
PublishOutcome(w) ==
  /\ worker[w].stage = "publish"
  /\ \/ NoFault /\ told' = told \cup {<<worker[w].kind, worker[w].pay>>}
     \/ Fault /\ UNCHANGED told
  /\ Becomes(w, Returned(w, FALSE))
  /\ UNCHANGED <<queue, table>>

-----------------------------------------------------------------------------
(* The recovery job *)

(* A scan reads one page of the table; what LastEvaluatedKey leaves out is *)
(* not read.                                                               *)
Pages == {page \in SUBSET DOMAIN payments : FirstPage \cap DOMAIN payments \subseteq page}

(* Mutant: payments that are still pending are not looked for. *)
ScanProcessing ==
  \E page \in Pages :
    LET found == {p \in page : payments[p].status = "processing" /\ payments[p].old} IN
    /\ worker[Recovery].stage = "idle"
    /\ found # {}
    /\ Becomes(Recovery, [Idle EXCEPT
         !.stage = "next", !.stuck = {<<p, payments[p].retries>> : p \in found}])
    /\ UNCHANGED <<queue, table, told, faults>>

ScanStuck ==
  \E page \in Pages :
    LET found == {p \in page : payments[p].status \in Unsettled /\ payments[p].old} IN
    /\ worker[Recovery].stage = "idle"
    /\ found # {}
    /\ Becomes(Recovery, [Idle EXCEPT
         !.stage = "next", !.stuck = {<<p, payments[p].retries>> : p \in found}])
    /\ UNCHANGED <<queue, table, told, faults>>

(* Mutant: one attempt too many. *)
RetryOnceMore(p, retries) ==
  LET others == [worker[Recovery] EXCEPT !.stuck = @ \ {<<p, retries>>}] IN
  /\ worker[Recovery].stage = "next"
  /\ <<p, retries>> \in worker[Recovery].stuck
  /\ retries <= maxRetries
  /\ NoFault /\ AddRetry(p)
  /\ Becomes(Recovery, [others EXCEPT !.stage = "load", !.pay = p])
  /\ UNCHANGED <<queue, index, told>>

(* IncrementRetryCount before another attempt, by what the scan saw. *)
RetryStuck(p, retries) ==
  LET others == [worker[Recovery] EXCEPT !.stuck = @ \ {<<p, retries>>}] IN
  /\ worker[Recovery].stage = "next"
  /\ <<p, retries>> \in worker[Recovery].stuck
  /\ retries < maxRetries
  /\ \/ /\ NoFault
        /\ AddRetry(p)
        /\ Becomes(Recovery, [others EXCEPT !.stage = "load", !.pay = p])
     \/ Fault /\ Becomes(Recovery, others) /\ (UNCHANGED payments \/ AddRetry(p))
  /\ UNCHANGED <<queue, index, told>>

(* AbandonPayment, whatever the status is by now. *)
AbandonStuck(p, retries) ==
  LET others == [worker[Recovery] EXCEPT !.stuck = @ \ {<<p, retries>>}] IN
  /\ worker[Recovery].stage = "next"
  /\ <<p, retries>> \in worker[Recovery].stuck
  /\ retries >= maxRetries
  /\ \/ /\ NoFault
        /\ SetStatus(p, "failed")
        /\ Becomes(Recovery, [others EXCEPT !.stage = "publish", !.pay = p,
                                            !.kind = "failed"])
     \/ /\ Fault /\ Becomes(Recovery, others)
        /\ UNCHANGED payments \/ SetStatus(p, "failed")
  /\ UNCHANGED <<queue, index, told>>

FinishRecovery ==
  /\ worker[Recovery].stage = "next" /\ worker[Recovery].stuck = {}
  /\ Becomes(Recovery, Idle)
  /\ UNCHANGED <<queue, table, told, faults>>

-----------------------------------------------------------------------------
(* The admin routes *)

AdminProcess(c, p) ==
  /\ worker[c].stage = "idle"
  /\ Becomes(c, [Idle EXCEPT !.stage = "load", !.pay = p])
  /\ UNCHANGED <<queue, table, told, faults>>

(* RefundPayment accepts completed and failed payments. *)
AdminRefund(c, p) ==
  /\ worker[c].stage = "idle"
  /\ payments[p].status \in {"completed", "failed"}
  /\ Becomes(c, [Idle EXCEPT !.stage = "refunding", !.pay = p])
  /\ UNCHANGED <<queue, table, told, faults>>

ApplyRefund(c) ==
  /\ worker[c].stage = "refunding"
  /\ \/ /\ NoFault
        /\ SetStatus(worker[c].pay, "refunded")
        /\ Becomes(c, [worker[c] EXCEPT !.stage = "publish", !.kind = "refunded"])
     \/ /\ Fault /\ ReturnError(c)
        /\ UNCHANGED payments \/ SetStatus(worker[c].pay, "refunded")
  /\ UNCHANGED <<queue, index, told>>

-----------------------------------------------------------------------------
(* Time, the index and crashes *)

Handled(m) == dispatched[m] > 0 \/ \E w \in Workers : worker[w].msg = m

(* A minute passes: without delays no worker is still at the message and   *)
(* the index shows what it created.                                        *)
MessageGetsIdle(m) ==
  /\ message[m] = [state |-> "delivered", idle |-> FALSE]
  /\ "worker" \in Delays \/ ~Handled(m)
  /\ "index" \in Delays \/ index = DOMAIN payments
  /\ message' = [message EXCEPT ![m].idle = TRUE]
  /\ UNCHANGED <<dispatched, table, worker, told, faults>>

(* Five minutes pass since the last update of a payment. *)
PaymentGetsOld(p) ==
  /\ payments[p].status \in Unsettled /\ ~payments[p].old
  /\ "worker" \in Delays \/ \A w \in Workers : worker[w].pay # p
  /\ payments' = [payments EXCEPT ![p].old = TRUE]
  /\ UNCHANGED <<queue, index, worker, told, faults>>

IndexCatchesUp(p) ==
  /\ p \notin index
  /\ index' = index \cup {p}
  /\ UNCHANGED <<queue, payments, worker, told, faults>>

(* The service restarts.  Messages that it was delivered stay pending. *)
Crash ==
  /\ Fault
  /\ worker' = [w \in Workers |->
       IF w \in AdminCalls /\ worker[w].stage # "idle"
         THEN [Idle EXCEPT !.stage = "done"] ELSE Idle]
  /\ dispatched' = [m \in Messages |-> 0]
  /\ UNCHANGED <<message, table, told>>

-----------------------------------------------------------------------------
ProcessStep(w) ==
  \/ LoadPayment(w) \/ MarkProcessing(w) \/ SetGatewayDecision(w)
  \/ ApplyDecision(w) \/ PublishOutcome(w)

ConsumerStep(w) ==
  \/ \E m \in Messages : InitiatePayment(w, m)
  \/ \E b \in Winners : CreatePayment(w, b)
  \/ FinishMessage(w)
  \/ ProcessStep(w)

RecoveryStep ==
  \/ ScanStuck \/ FinishRecovery
  \/ \E t \in worker[Recovery].stuck : RetryStuck(t[1], t[2]) \/ AbandonStuck(t[1], t[2])
  \/ ProcessStep(Recovery)

AdminStep(c) ==
  \/ \E p \in DOMAIN payments : AdminProcess(c, p) \/ AdminRefund(c, p)
  \/ ApplyRefund(c) \/ ProcessStep(c)

TimePasses ==
  \/ \E m \in Messages : MessageGetsIdle(m)
  \/ \E p \in DOMAIN payments : PaymentGetsOld(p) \/ IndexCatchesUp(p)

Delivery == \E m \in Messages : ReadMessage(m) \/ ReclaimMessage(m)

Next ==
  \/ Delivery \/ TimePasses \/ RecoveryStep \/ Crash
  \/ \E w \in Consumers : ConsumerStep(w)
  \/ \E c \in AdminCalls : AdminStep(c)

Spec == Init /\ [][Next]_vars

(* Time passes, the loops of the consumer and of the recovery job run, and *)
(* their calls return.  Nobody has to call the admin routes.               *)
Fairness ==
  /\ \A m \in Messages : WF_vars(ReadMessage(m) \/ ReclaimMessage(m))
  /\ \A m \in Messages : WF_vars(MessageGetsIdle(m))
  /\ \A p \in PaymentIds : WF_vars(p \in DOMAIN payments /\ PaymentGetsOld(p))
  /\ \A p \in PaymentIds : WF_vars(p \in DOMAIN payments /\ IndexCatchesUp(p))
  /\ WF_vars(RecoveryStep)
  /\ \A w \in Consumers : WF_vars(ConsumerStep(w))

FairSpec == Spec /\ Fairness

-----------------------------------------------------------------------------
(* Every variable has the values of its stream, table or worker.           *)
TypeOK ==
  /\ message \in [Messages -> Message]
  /\ dispatched \in [Messages -> 0..MaxWaiting]
  /\ payments \in Seq(Payment) /\ Len(payments) <= MaxPayments
  /\ index \subseteq DOMAIN payments
  /\ worker \in [Workers -> Worker]
  /\ told \subseteq {"processed", "failed", "refunded"} \X PaymentIds
  /\ faults \in 0..MaxFaults

(* Redelivery after failed calls and crashes bills nobody twice.           *)
OnePaymentPerWinner ==
  \A p, q \in DOMAIN payments :
    payments[p].winner = payments[q].winner => p = q

(* The gateway is asked once: after a crash and on every retry the stored  *)
(* decision stands, and a completed payment is one the gateway approved.   *)
DecisionStands ==
  [][\A p \in DOMAIN payments : payments[p].decision # "none" =>
       payments'[p].decision = payments[p].decision]_payments

(* A payment is completed only by an approval that is on record, and it    *)
(* fails only when the gateway declined it or the recovery job has spent   *)
(* its retries on it: then it fails even over an approval on record        *)
(* (AbandonPayment does not look at the decision).                         *)
StatusFollowsDecision ==
  \A p \in DOMAIN payments : LET item == payments[p] IN
    /\ item.status = "completed" => item.decision = "success"
    /\ item.status = "failed" => item.decision = "failed" \/ item.retries >= maxRetries

(* What users are told is the stored outcome: no payment is reported both  *)
(* as processed and as failed, none as processed that is not completed,    *)
(* and none as failed that is not.                                         *)
EventsTellTheTruth ==
  \A p \in DOMAIN payments :
    /\ ~({<<"processed", p>>, <<"failed", p>>} \subseteq told)
    /\ <<"processed", p>> \in told => payments[p].status \in {"completed", "refunded"}
    /\ <<"failed", p>> \in told => payments[p].status \in {"failed", "refunded"}

(* The recovery job never spends more than its budget on a payment.        *)
RetriesAreCapped == \A p \in DOMAIN payments : payments[p].retries <= maxRetries

HasPayment(b) == \E p \in DOMAIN payments : payments[p].winner = b

(* A message is acknowledged only when every winner has a payment: an      *)
(* error for one of several winners is not swallowed (InitiatePayment).    *)
AckedIsBilled ==
  (\E m \in Messages : message[m].state = "acked") => \A b \in Winners : HasPayment(b)

(* Why these two hold, whatever is late: a call works on a payment of the  *)
(* table, what a scan saw of the retries is still so, and a handling that  *)
(* has not failed left nobody out whom it no longer has to bill.           *)
HandlingInv ==
  /\ TypeOK
  /\ RetriesAreCapped
  /\ AckedIsBilled
  /\ \A m \in Messages : message[m].state = "new" => dispatched[m] = 0
  /\ told \subseteq {"processed", "failed", "refunded"} \X DOMAIN payments
  /\ \A w \in Workers :
       /\ worker[w].pay \in DOMAIN payments \cup {0}
       /\ worker[w].stage \in InCall => worker[w].pay # 0
       /\ worker[w].stage = "publish" => worker[w].kind # "none"
  /\ \A t \in worker[Recovery].stuck :
       t[1] \in DOMAIN payments /\ payments[t[1]].retries = t[2]
  /\ \A w \in Consumers : worker[w].stage # "idle" /\ ~worker[w].failed =>
       \A b \in Winners \ worker[w].todo : HasPayment(b)

(* However handlings of a payment were cut short, its event reports the    *)
(* stored status, and the status follows the stored decision unless the    *)
(* recovery job gave the payment up: as long as no worker outlasts the     *)
(* timeouts and no administrator steps in, one worker at a time has a      *)
(* payment, and only while it is not settled.                              *)
SettlementInv ==
  /\ HandlingInv
  /\ StatusFollowsDecision
  /\ EventsTellTheTruth
  /\ \A v, w \in Workers : worker[v].pay = worker[w].pay /\ worker[v].pay # 0 => v = w
  /\ \A t \in worker[Recovery].stuck :
       /\ payments[t[1]].status \in Unsettled
       /\ \A w \in Workers : worker[w].pay # t[1]
  /\ \A w \in Workers : LET s == worker[w] IN s.pay # 0 =>
       /\ ~payments[s.pay].old
       /\ s.stage \in {"load", "mark", "decide", "apply"} =>
            payments[s.pay].status \in Unsettled
       /\ s.stage \in {"mark", "decide", "apply"} =>
            s.decision = payments[s.pay].decision
       /\ s.stage = "decide" => s.decision = "none"
       /\ s.stage = "apply" => s.decision # "none"
       /\ s.stage = "publish" => <<s.kind, payments[s.pay].status>> \in
            {<<"processed", "completed">>, <<"failed", "failed">>}
  /\ \A p \in DOMAIN payments :
       /\ <<"processed", p>> \in told => payments[p].status = "completed"
       /\ <<"failed", p>> \in told => payments[p].status = "failed"

(* Why nobody is billed twice for one event, without delays: one handling  *)
(* of it exists at a time, it starts when the index is complete, and it    *)
(* bills only winners who have no payment.                                 *)
BillingInv ==
  /\ HandlingInv
  /\ OnePaymentPerWinner
  /\ \A m \in Messages :
       /\ message[m].state = "new" =>
            payments = << >> /\ ~message[m].idle /\ \A w \in Workers : worker[w].msg # m
       /\ message[m].idle \/ dispatched[m] > 0 =>
            index = DOMAIN payments /\ \A w \in Workers : worker[w].msg # m
       /\ message[m].idle => dispatched[m] = 0
       /\ dispatched[m] <= 1
  /\ \A v, w \in Workers : worker[v].msg = worker[w].msg /\ worker[v].msg # "none" => v = w
  /\ \A w \in Workers :
       /\ worker[w].msg = "none" => worker[w].todo = {}
       /\ \A p \in DOMAIN payments : payments[p].winner \notin worker[w].todo

(* Every winner's payment is settled in the end, whatever failed on the    *)
(* way, as long as things stop failing.                                    *)
IsSettled(b) ==
  \E p \in DOMAIN payments : payments[p].winner = b /\ payments[p].status \notin Unsettled

EveryWinnerSettles == \A b \in Winners : <>[]IsSettled(b)

(* The bill of each winner, as the ledger of promises sees it: a winner    *)
(* with two payments has none that it knows.                               *)
Bill(b) ==
  LET mine == {p \in DOMAIN payments : payments[p].winner = b} IN
  CASE mine = {}             -> "none"
    [] Cardinality(mine) > 1 -> "twice"
    [] OTHER -> LET status == payments[CHOOSE p \in mine : TRUE].status IN
                IF status \in Unsettled THEN "due" ELSE status

(* Billing, settling and refunding show as one step each, whatever is      *)
(* retried underneath (InitiatePayment, ProcessPayment, RefundPayment).    *)
Ledger == INSTANCE PaymentLedger WITH charge <- [b \in Winners |-> Bill(b)]

RefinesLedger == Ledger!Spec
=============================================================================
