---------------------- MODULE PaymentProcessing_proofs ----------------------
(***************************************************************************)
(* For any number of winners, worker slots, failures and restarts: what    *)
(* the payment service keeps whatever is late, what it keeps as long as    *)
(* no worker outlasts the timeouts, and the ledger that it implements.     *)
(***************************************************************************)
EXTENDS PaymentProcessing, FiniteSetTheorems, TLAPS

(* The other workers do nothing.                                           *)
OnlyMoves(w) ==
  /\ worker' \in [Workers -> Worker]
  /\ \A v \in Workers : v # w => worker'[v] = worker[v]

(* w goes on with its call.                                                *)
GoesOn(w) ==
  /\ OnlyMoves(w)
  /\ worker'[w].stage \in InCall
  /\ worker'[w].pay = worker[w].pay
  /\ worker'[w].msg = worker[w].msg
  /\ worker'[w].todo = worker[w].todo
  /\ worker'[w].stuck = worker[w].stuck
  /\ worker'[w].failed = worker[w].failed

(* The call of w has returned.                                             *)
Returns(w) ==
  /\ OnlyMoves(w)
  /\ worker'[w].stage \in {"next", "done"}
  /\ worker'[w].pay = 0
  /\ worker'[w].msg = worker[w].msg
  /\ worker'[w].todo = worker[w].todo
  /\ worker'[w].stuck = worker[w].stuck
  /\ worker[w].failed => worker'[w].failed

(* Updates of items: none is added, and all keep winner and retries.       *)
SameItems ==
  /\ payments' \in Seq(Payment)
  /\ Len(payments') = Len(payments)
  /\ DOMAIN payments' = DOMAIN payments
  /\ \A q \in DOMAIN payments :
       /\ payments'[q].winner = payments[q].winner
       /\ payments'[q].retries = payments[q].retries

(* One of them is given a status, or a decision.                           *)
StatusIsSet(p, status) ==
  /\ SameItems
  /\ payments'[p].status = status
  /\ payments'[p].decision = payments[p].decision
  /\ ~payments'[p].old
  /\ \A q \in DOMAIN payments : q # p => payments'[q] = payments[q]

DecisionIsSet(p, decision) ==
  /\ SameItems
  /\ payments'[p].status = payments[p].status
  /\ payments'[p].decision = decision
  /\ ~payments'[p].old
  /\ \A q \in DOMAIN payments : q # p => payments'[q] = payments[q]

-----------------------------------------------------------------------------
(* The calls of the table *)

LEMMA OneItemChanges ==
  ASSUME payments \in Seq(Payment), NEW p \in DOMAIN payments, NEW item \in Payment,
         payments' = [payments EXCEPT ![p] = item]
  PROVE  /\ payments' \in Seq(Payment)
         /\ Len(payments') = Len(payments)
         /\ DOMAIN payments' = DOMAIN payments
         /\ payments'[p] = item
         /\ \A q \in DOMAIN payments : q # p => payments'[q] = payments[q]
  OBVIOUS

LEMMA SetStatusSets ==
  ASSUME payments \in Seq(Payment), NEW p \in DOMAIN payments,
         NEW status \in PaymentStatuses, SetStatus(p, status)
  PROVE  StatusIsSet(p, status)
<1> DEFINE item == [payments[p] EXCEPT !.status = status, !.old = FALSE]
<1>1. payments[p] \in Payment
  OBVIOUS
<1>2. /\ item \in Payment /\ item.status = status
      /\ item.decision = payments[p].decision
      /\ item.winner = payments[p].winner /\ item.retries = payments[p].retries
  BY <1>1 DEF Payment
<1>3. ~item.old
  BY <1>1 DEF Payment
<1>4. payments' = [payments EXCEPT ![p] = item]
  BY <1>1 DEF SetStatus
<1> HIDE DEF item
<1> QED BY <1>2, <1>3, <1>4, OneItemChanges DEF StatusIsSet, SameItems

LEMMA SetDecisionSets ==
  ASSUME payments \in Seq(Payment), NEW p \in DOMAIN payments,
         NEW decision \in Decisions, SetDecision(p, decision)
  PROVE  DecisionIsSet(p, decision)
<1> DEFINE item == [payments[p] EXCEPT !.decision = decision, !.old = FALSE]
<1>1. payments[p] \in Payment
  OBVIOUS
<1>2. /\ item \in Payment /\ item.decision = decision
      /\ item.status = payments[p].status
      /\ item.winner = payments[p].winner /\ item.retries = payments[p].retries
  BY <1>1 DEF Payment
<1>3. ~item.old
  BY <1>1 DEF Payment
<1>4. payments' = [payments EXCEPT ![p] = item]
  BY <1>1 DEF SetDecision
<1> HIDE DEF item
<1> QED BY <1>2, <1>3, <1>4, OneItemChanges DEF DecisionIsSet, SameItems

(* Only the retry count is raised.                                         *)
RetryIsAdded(p) ==
  /\ payments' \in Seq(Payment)
  /\ Len(payments') = Len(payments)
  /\ DOMAIN payments' = DOMAIN payments
  /\ payments'[p].winner = payments[p].winner
  /\ payments'[p].status = payments[p].status
  /\ payments'[p].decision = payments[p].decision
  /\ payments'[p].retries = payments[p].retries + 1
  /\ ~payments'[p].old
  /\ \A q \in DOMAIN payments : q # p => payments'[q] = payments[q]

LEMMA AddRetryAdds ==
  ASSUME payments \in Seq(Payment), NEW p \in DOMAIN payments, AddRetry(p)
  PROVE  RetryIsAdded(p)
<1> DEFINE item == [payments[p] EXCEPT !.retries = @ + 1, !.old = FALSE]
<1>1. payments[p] \in Payment
  OBVIOUS
<1>2. /\ item \in Payment /\ item.decision = payments[p].decision
      /\ item.status = payments[p].status
      /\ item.winner = payments[p].winner /\ item.retries = payments[p].retries + 1
  <2>1. payments[p].retries + 1 \in Nat
    BY <1>1 DEF Payment
  <2> QED BY <1>1, <2>1 DEF Payment
<1>3. ~item.old
  BY <1>1 DEF Payment
<1>4. payments' = [payments EXCEPT ![p] = item]
  BY <1>1 DEF AddRetry
<1> HIDE DEF item
<1> QED BY <1>2, <1>3, <1>4, OneItemChanges DEF RetryIsAdded

(* Created is the last item of the table.                                  *)
IsCreated(b) ==
  /\ payments' \in Seq(Payment)
  /\ Len(payments') = Len(payments) + 1
  /\ DOMAIN payments' = DOMAIN payments \cup {Len(payments) + 1}
  /\ Len(payments) + 1 \notin DOMAIN payments
  /\ payments'[Len(payments) + 1] = NewPayment(b)
  /\ \A q \in DOMAIN payments : payments'[q] = payments[q]

LEMMA AppendCreates ==
  ASSUME payments \in Seq(Payment), NEW b \in Winners,
         payments' = Append(payments, NewPayment(b))
  PROVE  IsCreated(b)
<1>1. NewPayment(b) \in Payment
  BY DEF NewPayment, Payment, PaymentStatuses
<1> HIDE DEF Payment
<1> QED BY <1>1 DEF IsCreated

-----------------------------------------------------------------------------
(* The state of a worker *)

LEMMA OneWorkerMoves ==
  ASSUME worker \in [Workers -> Worker], NEW w \in Workers,
         NEW state \in Worker, Becomes(w, state)
  PROVE  OnlyMoves(w) /\ worker'[w] = state
  BY DEF Becomes, OnlyMoves

LEMMA WithStage ==
  ASSUME worker \in [Workers -> Worker], NEW w \in Workers, NEW stage \in InCall,
         Goto(w, stage)
  PROVE  /\ GoesOn(w) /\ worker'[w].stage = stage
         /\ worker'[w].decision = worker[w].decision
         /\ worker'[w].kind = worker[w].kind
<1> DEFINE state == [worker[w] EXCEPT !.stage = stage]
<1>1. worker[w] \in Worker
  OBVIOUS
<1>2. /\ state \in Worker /\ state.stage = stage /\ state.pay = worker[w].pay
      /\ state.msg = worker[w].msg /\ state.todo = worker[w].todo
      /\ state.stuck = worker[w].stuck /\ state.decision = worker[w].decision
      /\ state.kind = worker[w].kind /\ state.failed = worker[w].failed
  BY <1>1 DEF Worker, Stages, InCall
<1>3. Becomes(w, state)
  BY DEF Goto
<1> HIDE DEF state
<1> QED BY <1>2, <1>3, OneWorkerMoves DEF GoesOn

LEMMA CallReturns ==
  ASSUME worker \in [Workers -> Worker], NEW w \in Workers, NEW error \in BOOLEAN,
         Becomes(w, Returned(w, error))
  PROVE  Returns(w)
<1> DEFINE state == Returned(w, error)
<1>1. worker[w] \in Worker
  OBVIOUS
<1>2. (worker[w].failed \/ error) \in BOOLEAN
  OBVIOUS
<1>3. state \in Worker
  BY <1>1, <1>2 DEF Worker, Returned, Stages
<1>4. /\ state.stage \in {"next", "done"} /\ state.pay = 0
      /\ state.msg = worker[w].msg /\ state.todo = worker[w].todo
      /\ state.stuck = worker[w].stuck
  BY <1>1 DEF Worker, Returned
<1>5. state.failed = (worker[w].failed \/ error)
  BY <1>1 DEF Worker, Returned
<1>6. OnlyMoves(w) /\ worker'[w] = state
  BY <1>3, OneWorkerMoves
<1> HIDE DEF state
<1>7. worker[w].failed => worker'[w].failed
  BY <1>5, <1>6, Zenon
<1> QED BY <1>4, <1>6, <1>7 DEF Returns

(* What a call leaves in its worker when it goes on.                       *)
LEMMA CallGoesOn ==
  ASSUME worker \in [Workers -> Worker], NEW w \in Workers, NEW state \in Worker,
         state.stage \in InCall, state.pay = worker[w].pay, state.msg = worker[w].msg,
         state.todo = worker[w].todo, state.stuck = worker[w].stuck,
         state.failed = worker[w].failed, Becomes(w, state)
  PROVE  GoesOn(w) /\ worker'[w] = state
  BY OneWorkerMoves DEF GoesOn

LEMMA FaultsAreCounted ==
  ASSUME faults \in 0..MaxFaults, Fault \/ NoFault
  PROVE  faults' \in 0..MaxFaults
  BY PaymentsAssumption DEF Fault, NoFault

LEMMA NoItemChanges ==
  ASSUME payments \in Seq(Payment), UNCHANGED payments
  PROVE  SameItems
  BY DEF SameItems

-----------------------------------------------------------------------------
(* What each call of ProcessPayment does                                   *)

CallFrame == UNCHANGED <<message, dispatched, index>> /\ faults' \in 0..MaxFaults

LoadCall(w) ==
  LET p == worker[w].pay IN
  /\ CallFrame /\ UNCHANGED <<payments, told>>
  /\ \/ Returns(w)
     \/ /\ GoesOn(w)
        /\ payments[p].status \in Unsettled
        /\ worker'[w].decision = payments[p].decision
        /\ worker'[w].stage \in {"mark", "decide", "apply"}
        /\ worker'[w].stage = "decide" => worker'[w].decision = "none"
        /\ worker'[w].stage = "apply" => worker'[w].decision # "none"

MarkCall(w) ==
  /\ CallFrame /\ UNCHANGED told
  /\ \/ /\ Returns(w)
        /\ UNCHANGED payments \/ StatusIsSet(worker[w].pay, "processing")
     \/ /\ GoesOn(w)
        /\ StatusIsSet(worker[w].pay, "processing")
        /\ worker'[w].decision = worker[w].decision
        /\ worker'[w].stage \in {"decide", "apply"}
        /\ worker'[w].stage = "decide" => worker'[w].decision = "none"
        /\ worker'[w].stage = "apply" => worker'[w].decision # "none"

DecideCall(w) ==
  \E d \in Decisions :
    /\ CallFrame /\ UNCHANGED told
    /\ \/ /\ Returns(w)
          /\ UNCHANGED payments \/ DecisionIsSet(worker[w].pay, d)
       \/ /\ GoesOn(w)
          /\ DecisionIsSet(worker[w].pay, d)
          /\ worker'[w].decision = d
          /\ worker'[w].stage = "apply"

Outcome(w) == IF worker[w].decision = "success" THEN "completed" ELSE "failed"
Report(w)  == IF worker[w].decision = "success" THEN "processed" ELSE "failed"

ApplyCall(w) ==
  /\ CallFrame /\ UNCHANGED told
  /\ \/ /\ Returns(w)
        /\ UNCHANGED payments \/ StatusIsSet(worker[w].pay, Outcome(w))
     \/ /\ GoesOn(w)
        /\ StatusIsSet(worker[w].pay, Outcome(w))
        /\ worker'[w].stage = "publish"
        /\ worker'[w].kind = Report(w)

PublishCall(w) ==
  /\ CallFrame /\ UNCHANGED payments /\ Returns(w)
  /\ told' = told \/ told' = told \cup {<<worker[w].kind, worker[w].pay>>}

RefundCall(w) ==
  /\ CallFrame /\ UNCHANGED told
  /\ \/ /\ Returns(w)
        /\ UNCHANGED payments \/ StatusIsSet(worker[w].pay, "refunded")
     \/ /\ GoesOn(w)
        /\ StatusIsSet(worker[w].pay, "refunded")
        /\ worker'[w].stage = "publish"
        /\ worker'[w].kind = "refunded"

LEMMA LoadPaymentDoes ==
  ASSUME TypeOK, NEW w \in Workers, worker[w].pay \in DOMAIN payments, LoadPayment(w)
  PROVE  LoadCall(w)
<1> DEFINE p == worker[w].pay
           stage == CASE payments[p].status = "pending" -> "mark"
                      [] payments[p].decision = "none"  -> "decide"
                      [] OTHER                          -> "apply"
           state == [worker[w] EXCEPT !.decision = payments[p].decision,
                                      !.stage = stage]
<1>1. CallFrame /\ UNCHANGED <<payments, told>>
  BY FaultsAreCounted DEF TypeOK, LoadPayment, CallFrame, queue, table
<1>2. /\ worker \in [Workers -> Worker] /\ worker[w] \in Worker
      /\ payments[p] \in Payment
  BY DEF TypeOK
<1>3. CASE ReturnError(w)
  BY <1>1, <1>2, <1>3, CallReturns DEF ReturnError, LoadCall
<1>4. CASE payments[p].status \in Unsettled /\ Becomes(w, state)
  <2>1. /\ stage \in {"mark", "decide", "apply"}
        /\ stage = "decide" => payments[p].decision = "none"
        /\ stage = "apply" => payments[p].decision # "none"
    BY <1>2 DEF Payment
  <2> HIDE DEF stage
  <2>2. /\ state \in Worker /\ state.stage = stage /\ state.pay = worker[w].pay
        /\ state.msg = worker[w].msg /\ state.todo = worker[w].todo
        /\ state.stuck = worker[w].stuck /\ state.failed = worker[w].failed
        /\ state.decision = payments[p].decision
    BY <1>2, <2>1 DEF Worker, Stages, Payment
  <2>3. state.stage \in InCall
    BY <2>1, <2>2 DEF InCall
  <2> HIDE DEF state, p
  <2>4. GoesOn(w) /\ worker'[w] = state
    BY <1>2, <1>4, <2>2, <2>3, CallGoesOn
  <2> QED BY <1>1, <1>4, <2>1, <2>2, <2>4 DEF LoadCall, p
<1> QED BY <1>3, <1>4 DEF LoadPayment

LEMMA MarkProcessingDoes ==
  ASSUME TypeOK, NEW w \in Workers, worker[w].pay \in DOMAIN payments, MarkProcessing(w)
  PROVE  MarkCall(w)
<1> DEFINE stage == IF worker[w].decision = "none" THEN "decide" ELSE "apply"
<1>1. CallFrame /\ UNCHANGED told
  BY FaultsAreCounted DEF TypeOK, MarkProcessing, CallFrame, queue
<1>2. worker \in [Workers -> Worker] /\ payments \in Seq(Payment)
  BY DEF TypeOK
<1>3. SetStatus(worker[w].pay, "processing") => StatusIsSet(worker[w].pay, "processing")
  BY <1>2, SetStatusSets DEF PaymentStatuses
<1>4. CASE ReturnError(w) /\ (UNCHANGED payments \/ SetStatus(worker[w].pay, "processing"))
  BY <1>1, <1>2, <1>3, <1>4, CallReturns DEF ReturnError, MarkCall
<1>5. CASE SetStatus(worker[w].pay, "processing") /\ Goto(w, stage)
  <2>1. stage \in InCall
    BY DEF InCall
  <2> HIDE DEF stage
  <2>2. /\ GoesOn(w) /\ worker'[w].stage = stage
        /\ worker'[w].decision = worker[w].decision
    BY <1>2, <1>5, <2>1, WithStage
  <2> USE DEF stage
  <2> QED BY <1>1, <1>3, <1>5, <2>2 DEF MarkCall
<1> QED BY <1>4, <1>5 DEF MarkProcessing

LEMMA SetGatewayDecisionDoes ==
  ASSUME TypeOK, NEW w \in Workers, worker[w].pay \in DOMAIN payments,
         SetGatewayDecision(w)
  PROVE  DecideCall(w)
<1>1. CallFrame /\ UNCHANGED told
  BY FaultsAreCounted DEF TypeOK, SetGatewayDecision, CallFrame, queue
<1>2. worker \in [Workers -> Worker] /\ worker[w] \in Worker /\ payments \in Seq(Payment)
  BY DEF TypeOK
<1>3. PICK d \in Decisions :
        \/ /\ SetDecision(worker[w].pay, d)
           /\ Becomes(w, [worker[w] EXCEPT !.decision = d, !.stage = "apply"])
        \/ /\ ReturnError(w)
           /\ UNCHANGED payments \/ SetDecision(worker[w].pay, d)
  BY DEF SetGatewayDecision
<1>4. SetDecision(worker[w].pay, d) => DecisionIsSet(worker[w].pay, d)
  BY <1>2, SetDecisionSets
<1>5. CASE ReturnError(w) /\ (UNCHANGED payments \/ SetDecision(worker[w].pay, d))
  BY <1>1, <1>2, <1>4, <1>5, CallReturns DEF ReturnError, DecideCall
<1>6. CASE /\ SetDecision(worker[w].pay, d)
           /\ Becomes(w, [worker[w] EXCEPT !.decision = d, !.stage = "apply"])
  <2> DEFINE state == [worker[w] EXCEPT !.decision = d, !.stage = "apply"]
  <2>1. /\ state \in Worker /\ state.stage = "apply" /\ state.pay = worker[w].pay
        /\ state.msg = worker[w].msg /\ state.todo = worker[w].todo
        /\ state.stuck = worker[w].stuck /\ state.failed = worker[w].failed
        /\ state.decision = d
    BY <1>2 DEF Worker, Stages
  <2>2. state.stage \in InCall /\ Becomes(w, state)
    BY <1>6, <2>1 DEF InCall
  <2> HIDE DEF state
  <2>3. GoesOn(w) /\ worker'[w] = state
    BY <1>2, <2>1, <2>2, CallGoesOn
  <2> QED BY <1>1, <1>4, <1>6, <2>1, <2>3 DEF DecideCall
<1> QED BY <1>3, <1>5, <1>6

LEMMA ApplyDecisionDoes ==
  ASSUME TypeOK, NEW w \in Workers, worker[w].pay \in DOMAIN payments, ApplyDecision(w)
  PROVE  ApplyCall(w)
<1>1. CallFrame /\ UNCHANGED told
  BY FaultsAreCounted DEF TypeOK, ApplyDecision, CallFrame, queue
<1>2. worker \in [Workers -> Worker] /\ worker[w] \in Worker /\ payments \in Seq(Payment)
  BY DEF TypeOK
<1>3. SetStatus(worker[w].pay, Outcome(w)) => StatusIsSet(worker[w].pay, Outcome(w))
  <2>1. Outcome(w) \in PaymentStatuses
    BY DEF Outcome, PaymentStatuses
  <2> QED BY <1>2, <2>1, SetStatusSets
<1>4. CASE ReturnError(w) /\ (UNCHANGED payments \/ SetStatus(worker[w].pay, Outcome(w)))
  BY <1>1, <1>2, <1>3, <1>4, CallReturns DEF ReturnError, ApplyCall
<1> DEFINE state == [worker[w] EXCEPT !.stage = "publish", !.kind = Report(w)]
<1>5. CASE SetStatus(worker[w].pay, Outcome(w)) /\ Becomes(w, state)
  <2>1. /\ state \in Worker /\ state.stage = "publish" /\ state.pay = worker[w].pay
        /\ state.msg = worker[w].msg /\ state.todo = worker[w].todo
        /\ state.stuck = worker[w].stuck /\ state.failed = worker[w].failed
        /\ state.kind = Report(w)
    <3>1. Report(w) \in {"none", "processed", "failed", "refunded"}
      BY DEF Report
    <3> QED BY <1>2, <3>1 DEF Worker, Stages
  <2>2. state.stage \in InCall
    BY <2>1 DEF InCall
  <2> HIDE DEF state
  <2>3. GoesOn(w) /\ worker'[w] = state
    BY <1>2, <1>5, <2>1, <2>2, CallGoesOn
  <2> QED BY <1>1, <1>3, <1>5, <2>1, <2>3 DEF ApplyCall
<1> QED BY <1>4, <1>5 DEF ApplyDecision, Outcome, Report

LEMMA PublishOutcomeDoes ==
  ASSUME TypeOK, NEW w \in Workers, PublishOutcome(w)
  PROVE  PublishCall(w)
<1>1. CallFrame
  BY FaultsAreCounted DEF TypeOK, PublishOutcome, CallFrame, queue, table
<1>2. Returns(w)
  BY CallReturns DEF TypeOK, PublishOutcome
<1> QED BY <1>1, <1>2 DEF PublishOutcome, PublishCall, table

LEMMA ApplyRefundDoes ==
  ASSUME TypeOK, NEW w \in Workers, worker[w].pay \in DOMAIN payments, ApplyRefund(w)
  PROVE  RefundCall(w)
<1>1. CallFrame /\ UNCHANGED told
  BY FaultsAreCounted DEF TypeOK, ApplyRefund, CallFrame, queue
<1>2. worker \in [Workers -> Worker] /\ worker[w] \in Worker /\ payments \in Seq(Payment)
  BY DEF TypeOK
<1>3. SetStatus(worker[w].pay, "refunded") => StatusIsSet(worker[w].pay, "refunded")
  BY <1>2, SetStatusSets DEF PaymentStatuses
<1>4. CASE ReturnError(w) /\ (UNCHANGED payments \/ SetStatus(worker[w].pay, "refunded"))
  BY <1>1, <1>2, <1>3, <1>4, CallReturns DEF ReturnError, RefundCall
<1> DEFINE state == [worker[w] EXCEPT !.stage = "publish", !.kind = "refunded"]
<1>5. CASE SetStatus(worker[w].pay, "refunded") /\ Becomes(w, state)
  <2>1. /\ state \in Worker /\ state.stage = "publish" /\ state.pay = worker[w].pay
        /\ state.msg = worker[w].msg /\ state.todo = worker[w].todo
        /\ state.stuck = worker[w].stuck /\ state.failed = worker[w].failed
        /\ state.kind = "refunded"
    BY <1>2 DEF Worker, Stages
  <2>2. state.stage \in InCall
    BY <2>1 DEF InCall
  <2> HIDE DEF state
  <2>3. GoesOn(w) /\ worker'[w] = state
    BY <1>2, <1>5, <2>1, <2>2, CallGoesOn
  <2> QED BY <1>1, <1>3, <1>5, <2>1, <2>3 DEF RefundCall
<1> QED BY <1>4, <1>5 DEF ApplyRefund

-----------------------------------------------------------------------------
(* What holds whatever is late: HandlingInv *)

Kinds == {"processed", "failed", "refunded"}

(* w's part of HandlingInv.                                                *)
WorkerIsFine(w) ==
  /\ worker[w].pay \in DOMAIN payments \cup {0}
  /\ worker[w].stage \in InCall => worker[w].pay # 0
  /\ worker[w].stage = "publish" => worker[w].kind # "none"
  /\ w \in Consumers /\ worker[w].stage # "idle" /\ ~worker[w].failed =>
       \A b \in Winners \ worker[w].todo : HasPayment(b)

ScanIsFresh ==
  \A t \in worker[Recovery].stuck :
    t[1] \in DOMAIN payments /\ payments[t[1]].retries = t[2]

LEMMA HandlingParts ==
  ASSUME HandlingInv
  PROVE  /\ TypeOK /\ RetriesAreCapped /\ AckedIsBilled /\ ScanIsFresh
         /\ \A w \in Workers : WorkerIsFine(w)
         /\ told \subseteq Kinds \X DOMAIN payments
<1>1. \A w \in Workers : WorkerIsFine(w)
  BY DEF HandlingInv, WorkerIsFine
<1> QED BY <1>1 DEF HandlingInv, ScanIsFresh, Kinds

(* What a step has to show that only moves w.                              *)
ItemsStay ==
  /\ payments' \in Seq(Payment) /\ Len(payments') <= MaxPayments
  /\ \A p \in DOMAIN payments :
       p \in DOMAIN payments' /\ payments'[p].winner = payments[p].winner

HandlingStep(w) ==
  /\ message' \in [Messages -> Message] /\ dispatched' \in [Messages -> 0..MaxWaiting]
  /\ ItemsStay
  /\ index' \subseteq DOMAIN payments'
  /\ told' \subseteq Kinds \X DOMAIN payments'
  /\ faults' \in 0..MaxFaults
  /\ RetriesAreCapped'
  /\ \A m \in Messages :
       /\ message'[m].state = "acked" =>
            message[m].state = "acked" \/ \A b \in Winners : HasPayment(b)
       /\ message'[m].state = "new" => dispatched'[m] = 0
  /\ OnlyMoves(w)
  /\ WorkerIsFine(w)'
  /\ ScanIsFresh'

LEMMA PaymentsAreKept ==
  ASSUME ItemsStay, NEW b, HasPayment(b)
  PROVE  HasPayment(b)'
  BY DEF ItemsStay, HasPayment

LEMMA StepKeepsHandling ==
  ASSUME HandlingInv, NEW w \in Workers, HandlingStep(w)
  PROVE  HandlingInv'
<1>1. ItemsStay
  BY DEF HandlingStep
<1>2. TypeOK'
  <2>1. DOMAIN payments' \subseteq PaymentIds
    BY <1>1, PaymentsAssumption DEF ItemsStay, PaymentIds
  <2>2. told' \subseteq {"processed", "failed", "refunded"} \X PaymentIds
    BY <2>1 DEF HandlingStep, Kinds
  <2> QED BY <1>1, <2>2 DEF TypeOK, HandlingStep, ItemsStay, OnlyMoves
<1>3. ASSUME NEW v \in Workers
      PROVE  WorkerIsFine(v)'
  <2>1. CASE v = w
    BY <2>1 DEF HandlingStep
  <2>2. CASE v # w
    <3>1. worker'[v] = worker[v]
      BY <2>2 DEF HandlingStep, OnlyMoves
    <3>2. WorkerIsFine(v)
      BY HandlingParts
    <3>3. worker'[v].pay \in DOMAIN payments' \cup {0}
      BY <1>1, <3>1, <3>2 DEF ItemsStay, WorkerIsFine
    <3>4. v \in Consumers /\ worker'[v].stage # "idle" /\ ~worker'[v].failed =>
            \A b \in Winners \ worker'[v].todo : HasPayment(b)'
      BY <1>1, <3>1, <3>2, PaymentsAreKept, Zenon DEF WorkerIsFine
    <3> QED BY <3>1, <3>2, <3>3, <3>4, Zenon DEF WorkerIsFine
  <2> QED BY <2>1, <2>2
<1>4. AckedIsBilled'
  <2> SUFFICES ASSUME NEW m \in Messages, message'[m].state = "acked", NEW b \in Winners
               PROVE  HasPayment(b)'
    BY DEF AckedIsBilled
  <2>1. HasPayment(b)
    BY HandlingParts DEF HandlingStep, AckedIsBilled
  <2> QED BY <1>1, <2>1, PaymentsAreKept
<1>5. \A m \in Messages : message'[m].state = "new" => dispatched'[m] = 0
  BY DEF HandlingStep
<1>6. told' \subseteq Kinds \X DOMAIN payments'
  BY DEF HandlingStep
<1>7. RetriesAreCapped' /\ ScanIsFresh'
  BY DEF HandlingStep
<1>8. Consumers \subseteq Workers
  BY DEF Workers
<1>9. \A v \in Workers :
        /\ worker'[v].pay \in DOMAIN payments' \cup {0}
        /\ worker'[v].stage \in InCall => worker'[v].pay # 0
        /\ worker'[v].stage = "publish" => worker'[v].kind # "none"
  BY <1>3 DEF WorkerIsFine
<1>10. \A v \in Consumers : worker'[v].stage # "idle" /\ ~worker'[v].failed =>
         \A b \in Winners \ worker'[v].todo : HasPayment(b)'
  BY <1>3, <1>8, Zenon DEF WorkerIsFine
<1> QED BY <1>2, <1>4, <1>5, <1>6, <1>7, <1>9, <1>10, Zenon
        DEF HandlingInv, Kinds, ScanIsFresh

(* The calls on one payment *)

CallStep(w) ==
  /\ CallFrame
  /\ SameItems
  /\ told' \subseteq told \cup Kinds \X {worker[w].pay}
  /\ \/ Returns(w)
     \/ GoesOn(w) /\ (worker'[w].stage = "publish" => worker'[w].kind # "none")

LEMMA EachCallIsOne ==
  ASSUME HandlingInv, NEW w \in Workers,
         \/ LoadCall(w) \/ MarkCall(w) \/ DecideCall(w) \/ ApplyCall(w)
         \/ worker[w].stage = "publish" /\ PublishCall(w)
         \/ RefundCall(w)
  PROVE  CallStep(w)
<1>1. payments \in Seq(Payment) /\ worker[w] \in Worker
  BY DEF HandlingInv, TypeOK
<1>2. UNCHANGED payments => SameItems
  BY <1>1, NoItemChanges
<1>3. ASSUME NEW status, StatusIsSet(worker[w].pay, status)
      PROVE  SameItems
  BY <1>3 DEF StatusIsSet
<1>4. ASSUME NEW d, DecisionIsSet(worker[w].pay, d)
      PROVE  SameItems
  BY <1>4 DEF DecisionIsSet
<1>5. CASE LoadCall(w)
  BY <1>2, <1>5 DEF LoadCall, CallStep
<1>6. CASE MarkCall(w)
  BY <1>2, <1>3, <1>6 DEF MarkCall, CallStep
<1>7. CASE DecideCall(w)
  BY <1>2, <1>4, <1>7 DEF DecideCall, CallStep
<1>8. CASE ApplyCall(w)
  BY <1>2, <1>3, <1>8 DEF ApplyCall, CallStep, Report
<1>9. CASE worker[w].stage = "publish" /\ PublishCall(w)
  <2>1. worker[w].kind \in Kinds
    BY <1>1, <1>9 DEF Worker, Kinds, HandlingInv
  <2> QED BY <1>2, <1>9, <2>1 DEF PublishCall, CallStep
<1>10. CASE RefundCall(w)
  BY <1>2, <1>3, <1>10 DEF RefundCall, CallStep
<1> QED BY <1>5, <1>6, <1>7, <1>8, <1>9, <1>10

LEMMA CallKeepsHandling ==
  ASSUME HandlingInv, NEW w \in Workers, worker[w].stage \in InCall, CallStep(w)
  PROVE  HandlingInv'
<1>1. /\ TypeOK /\ RetriesAreCapped /\ ScanIsFresh /\ WorkerIsFine(w)
      /\ told \subseteq Kinds \X DOMAIN payments
  BY HandlingParts
<1>2. SameItems /\ CallFrame
  BY DEF CallStep
<1>3. ItemsStay
  BY <1>1, <1>2 DEF SameItems, ItemsStay, TypeOK
<1>4. worker[w].pay \in DOMAIN payments
  BY <1>1 DEF WorkerIsFine
<1>5. told' \subseteq Kinds \X DOMAIN payments'
  BY <1>1, <1>2, <1>4 DEF CallStep, SameItems
<1>6. RetriesAreCapped'
  BY <1>1, <1>2 DEF SameItems, RetriesAreCapped
<1>7. OnlyMoves(w) /\ worker'[w].stuck = worker[w].stuck /\ worker'[w].todo = worker[w].todo
  BY DEF CallStep, Returns, GoesOn
<1>8. ScanIsFresh'
  <2>1. worker'[Recovery].stuck = worker[Recovery].stuck
    BY <1>7 DEF OnlyMoves, Workers
  <2> QED BY <1>1, <1>2, <2>1 DEF SameItems, ScanIsFresh
<1>9. WorkerIsFine(w)'
  <2>1. worker[w].stage # "idle"
    BY DEF InCall
  <2>2. /\ worker'[w].pay \in DOMAIN payments' \cup {0}
        /\ worker'[w].stage \in InCall => worker'[w].pay # 0
        /\ worker'[w].stage = "publish" => worker'[w].kind # "none"
    BY <1>2, <1>4, <1>1 DEF CallStep, Returns, GoesOn, SameItems, WorkerIsFine, InCall
  <2>3. worker[w].failed => worker'[w].failed
    BY Zenon DEF CallStep, Returns, GoesOn
  <2>4. w \in Consumers /\ ~worker'[w].failed =>
          \A b \in Winners \ worker'[w].todo : HasPayment(b)'
    BY <1>1, <1>3, <1>7, <2>1, <2>3, PaymentsAreKept, Zenon DEF WorkerIsFine
  <2> QED BY <2>2, <2>4, Zenon DEF WorkerIsFine
<1>10. \A m \in Messages : /\ message'[m].state = message[m].state
                           /\ message'[m].state = "new" => dispatched'[m] = 0
  BY <1>2 DEF CallFrame, HandlingInv
<1>11. /\ message' \in [Messages -> Message] /\ dispatched' \in [Messages -> 0..MaxWaiting]
       /\ index' \subseteq DOMAIN payments' /\ faults' \in 0..MaxFaults
  BY <1>1, <1>2 DEF CallFrame, TypeOK, SameItems
<1>12. HandlingStep(w)
  BY <1>3, <1>5, <1>6, <1>7, <1>8, <1>9, <1>10, <1>11 DEF HandlingStep
<1> QED BY <1>12, StepKeepsHandling

-----------------------------------------------------------------------------
(* What the other steps do *)

(* updated_at of one payment becomes old.                                  *)
ItemAges(p) ==
  /\ SameItems
  /\ payments'[p].status = payments[p].status
  /\ payments'[p].decision = payments[p].decision
  /\ \A q \in DOMAIN payments : q # p => payments'[q] = payments[q]

LEMMA PaymentGetsOldDoes ==
  ASSUME TypeOK, NEW p \in DOMAIN payments, PaymentGetsOld(p)
  PROVE  ItemAges(p)
<1> DEFINE item == [payments[p] EXCEPT !.old = TRUE]
<1>1. payments \in Seq(Payment) /\ payments[p] \in Payment
  BY DEF TypeOK
<1>2. /\ item \in Payment /\ item.decision = payments[p].decision
      /\ item.status = payments[p].status
      /\ item.winner = payments[p].winner /\ item.retries = payments[p].retries
  BY <1>1 DEF Payment
<1>3. payments' = [payments EXCEPT ![p] = item]
  BY <1>1 DEF PaymentGetsOld
<1> HIDE DEF item
<1> QED BY <1>1, <1>2, <1>3, OneItemChanges DEF ItemAges, SameItems

LEMMA IdleIsTyped == Idle \in Worker
  BY DEF Idle, Worker, Stages

(* A worker has nothing left to do.                                        *)
GetsIdle(w) == OnlyMoves(w) /\ worker'[w] = Idle

LEMMA BecomesIdle ==
  ASSUME TypeOK, NEW w \in Workers, Becomes(w, Idle)
  PROVE  GetsIdle(w)
  BY IdleIsTyped, OneWorkerMoves DEF TypeOK, GetsIdle

StartsHandling(w, m) ==
  /\ faults' \in 0..MaxFaults
  /\ \/ /\ OnlyMoves(w) /\ worker'[w].stage = "next" /\ worker'[w].msg = m
        /\ worker'[w].todo = Winners \ Billed
        /\ worker'[w].stuck = {} /\ worker'[w].pay = 0
     \/ UNCHANGED worker

LEMMA InitiatePaymentDoes ==
  ASSUME TypeOK, NEW w \in Workers, NEW m \in Messages, InitiatePayment(w, m)
  PROVE  StartsHandling(w, m)
<1> DEFINE state == [Idle EXCEPT !.stage = "next", !.msg = m, !.todo = Winners \ Billed]
<1>1. faults' \in 0..MaxFaults
  BY FaultsAreCounted DEF TypeOK, InitiatePayment
<1>2. /\ state \in Worker /\ state.stage = "next" /\ state.msg = m
      /\ state.todo = Winners \ Billed /\ state.stuck = {} /\ state.pay = 0
  BY IdleIsTyped DEF Worker, Idle, Stages
<1>3. CASE Becomes(w, state)
  <2> HIDE DEF state
  <2>1. OnlyMoves(w) /\ worker'[w] = state
    BY <1>2, <1>3, OneWorkerMoves DEF TypeOK
  <2> QED BY <1>1, <1>2, <2>1 DEF StartsHandling
<1>4. CASE UNCHANGED worker
  BY <1>1, <1>4 DEF StartsHandling
<1> QED BY <1>3, <1>4 DEF InitiatePayment

(* A payment for b is created and processed next, or the call failed.      *)
Bills(w, b) ==
  /\ CallFrame /\ UNCHANGED told
  /\ OnlyMoves(w)
  /\ worker'[w].todo = worker[w].todo \ {b}
  /\ worker'[w].msg = worker[w].msg
  /\ worker'[w].stuck = worker[w].stuck
  /\ UNCHANGED payments \/ (IsCreated(b) /\ Len(payments) < MaxPayments)
  /\ \/ /\ IsCreated(b)
        /\ worker'[w].stage = "load" /\ worker'[w].pay = Len(payments) + 1
        /\ worker'[w].failed = worker[w].failed
     \/ /\ worker'[w].stage = "next" /\ worker'[w].pay = worker[w].pay
        /\ worker'[w].failed

LEMMA CreatePaymentDoes ==
  ASSUME TypeOK, NEW w \in Workers, NEW b \in Winners, CreatePayment(w, b)
  PROVE  Bills(w, b)
<1> DEFINE others == [worker[w] EXCEPT !.todo = @ \ {b}]
           load   == [others EXCEPT !.stage = "load", !.pay = Len(payments) + 1]
           skip   == [others EXCEPT !.failed = TRUE]
<1>1. CallFrame /\ UNCHANGED told
  BY FaultsAreCounted DEF TypeOK, CreatePayment, CallFrame, queue
<1>2. /\ worker \in [Workers -> Worker] /\ worker[w] \in Worker
      /\ payments \in Seq(Payment) /\ worker[w].stage = "next"
  BY DEF TypeOK, CreatePayment
<1>3. payments' = Append(payments, NewPayment(b)) => IsCreated(b)
  BY <1>2, AppendCreates
<1>4. CASE /\ Len(payments) < MaxPayments
           /\ payments' = Append(payments, NewPayment(b)) /\ Becomes(w, load)
  <2>1. Len(payments) + 1 \in PaymentIds
    BY <1>2, <1>4, PaymentsAssumption DEF PaymentIds
  <2>2. /\ load \in Worker /\ load.stage = "load" /\ load.pay = Len(payments) + 1
        /\ load.todo = worker[w].todo \ {b} /\ load.msg = worker[w].msg
        /\ load.stuck = worker[w].stuck /\ load.failed = worker[w].failed
    BY <1>2, <2>1 DEF Worker, Stages
  <2> HIDE DEF load
  <2>3. OnlyMoves(w) /\ worker'[w] = load
    BY <1>2, <1>4, <2>2, OneWorkerMoves
  <2> QED BY <1>1, <1>3, <1>4, <2>2, <2>3 DEF Bills
<1>5. CASE /\ \/ UNCHANGED payments
              \/ /\ Len(payments) < MaxPayments
                 /\ payments' = Append(payments, NewPayment(b))
           /\ Becomes(w, skip)
  <2>1. /\ skip \in Worker /\ skip.stage = "next" /\ skip.pay = worker[w].pay
        /\ skip.todo = worker[w].todo \ {b} /\ skip.msg = worker[w].msg
        /\ skip.stuck = worker[w].stuck
    BY <1>2 DEF Worker, Stages
  <2>2. skip.failed
    BY <1>2 DEF Worker
  <2> HIDE DEF skip
  <2>3. OnlyMoves(w) /\ worker'[w] = skip
    BY <1>2, <1>5, <2>1, OneWorkerMoves
  <2>4. worker'[w].failed
    BY <2>2, <2>3, Zenon
  <2> QED BY <1>1, <1>3, <1>5, <2>1, <2>3, <2>4 DEF Bills
<1> QED BY <1>4, <1>5 DEF CreatePayment

Scans ==
  /\ OnlyMoves(Recovery)
  /\ worker'[Recovery].stage = "next" /\ worker'[Recovery].pay = 0
  /\ worker'[Recovery].msg = "none" /\ worker'[Recovery].todo = {}
  /\ \A t \in worker'[Recovery].stuck :
       /\ t[1] \in DOMAIN payments /\ payments[t[1]].retries = t[2]
       /\ payments[t[1]].status \in Unsettled /\ payments[t[1]].old

LEMMA ScanStuckDoes ==
  ASSUME TypeOK, ScanStuck
  PROVE  Scans
<1>0. PICK page \in Pages :
        LET found == {p \in page : payments[p].status \in Unsettled /\ payments[p].old} IN
        Becomes(Recovery, [Idle EXCEPT
          !.stage = "next", !.stuck = {<<p, payments[p].retries>> : p \in found}])
  BY DEF ScanStuck
<1> DEFINE found == {p \in page : payments[p].status \in Unsettled /\ payments[p].old}
           stuck == {<<p, payments[p].retries>> : p \in found}
           state == [Idle EXCEPT !.stage = "next", !.stuck = stuck]
<1>1. Recovery \in Workers
  BY DEF Workers
<1>2. stuck \in SUBSET (PaymentIds \X Nat)
  <2>1. \A p \in DOMAIN payments : p \in PaymentIds /\ payments[p].retries \in Nat
    <3>1. payments \in Seq(Payment) /\ Len(payments) <= MaxPayments
      BY DEF TypeOK
    <3>2. \A p \in DOMAIN payments : payments[p] \in Payment
      BY <3>1
    <3>3. DOMAIN payments \subseteq PaymentIds
      BY <3>1, PaymentsAssumption DEF PaymentIds
    <3> QED BY <3>2, <3>3 DEF Payment
  <2>2. page \subseteq DOMAIN payments
    BY DEF Pages
  <2> QED BY <2>1, <2>2
<1>3. \A t \in stuck :
        /\ t[1] \in DOMAIN payments /\ payments[t[1]].retries = t[2]
        /\ payments[t[1]].status \in Unsettled /\ payments[t[1]].old
  BY DEF Pages
<1>4. Becomes(Recovery, state)
  BY <1>0
<1> HIDE DEF stuck, found
<1>5. /\ state \in Worker /\ state.stage = "next" /\ state.pay = 0
      /\ state.msg = "none" /\ state.todo = {} /\ state.stuck = stuck
  BY <1>2, IdleIsTyped DEF Worker, Idle, Stages
<1> HIDE DEF state
<1>6. OnlyMoves(Recovery) /\ worker'[Recovery] = state
  BY <1>1, <1>4, <1>5, OneWorkerMoves DEF TypeOK
<1> QED BY <1>3, <1>5, <1>6 DEF Scans

(* The recovery job takes up p, or the call failed.                        *)
TakesUp(p, retries) ==
  /\ CallFrame /\ UNCHANGED told
  /\ OnlyMoves(Recovery)
  /\ <<p, retries>> \in worker[Recovery].stuck
  /\ worker'[Recovery].stuck = worker[Recovery].stuck \ {<<p, retries>>}
  /\ worker'[Recovery].msg = worker[Recovery].msg
  /\ worker'[Recovery].todo = worker[Recovery].todo

Retries(p, retries) ==
  /\ TakesUp(p, retries) /\ retries < maxRetries
  /\ UNCHANGED payments \/ RetryIsAdded(p)
  /\ \/ /\ RetryIsAdded(p)
        /\ worker'[Recovery].stage = "load" /\ worker'[Recovery].pay = p
     \/ /\ worker'[Recovery].stage = "next"
        /\ worker'[Recovery].pay = worker[Recovery].pay

Abandons(p, retries) ==
  /\ TakesUp(p, retries) /\ retries >= maxRetries
  /\ UNCHANGED payments \/ StatusIsSet(p, "failed")
  /\ \/ /\ StatusIsSet(p, "failed")
        /\ worker'[Recovery].stage = "publish" /\ worker'[Recovery].pay = p
        /\ worker'[Recovery].kind = "failed"
     \/ /\ worker'[Recovery].stage = "next"
        /\ worker'[Recovery].pay = worker[Recovery].pay

LEMMA RetryStuckDoes ==
  ASSUME TypeOK, NEW p \in DOMAIN payments, NEW retries, RetryStuck(p, retries)
  PROVE  Retries(p, retries)
<1> DEFINE others == [worker[Recovery] EXCEPT !.stuck = @ \ {<<p, retries>>}]
           load   == [others EXCEPT !.stage = "load", !.pay = p]
<1>1. CallFrame /\ UNCHANGED told
  BY FaultsAreCounted DEF TypeOK, RetryStuck, CallFrame, queue
<1>2. /\ worker \in [Workers -> Worker] /\ Recovery \in Workers
      /\ worker[Recovery] \in Worker /\ worker[Recovery].stage = "next"
      /\ payments \in Seq(Payment) /\ p \in PaymentIds
  BY PaymentsAssumption DEF TypeOK, RetryStuck, Workers, PaymentIds
<1>3. AddRetry(p) => RetryIsAdded(p)
  BY <1>2, AddRetryAdds
<1>4. /\ others \in Worker /\ others.stage = "next" /\ others.pay = worker[Recovery].pay
      /\ others.todo = worker[Recovery].todo /\ others.msg = worker[Recovery].msg
      /\ others.stuck = worker[Recovery].stuck \ {<<p, retries>>}
  BY <1>2 DEF Worker
<1>5. CASE AddRetry(p) /\ Becomes(Recovery, load)
  <2>1. /\ load \in Worker /\ load.stage = "load" /\ load.pay = p
        /\ load.todo = others.todo /\ load.msg = others.msg
        /\ load.stuck = others.stuck
    <3> HIDE DEF others
    <3> QED BY <1>2, <1>4 DEF Worker, Stages
  <2> HIDE DEF load
  <2>2. OnlyMoves(Recovery) /\ worker'[Recovery] = load
    BY <1>2, <1>5, <2>1, OneWorkerMoves
  <2> QED BY <1>1, <1>3, <1>4, <1>5, <2>1, <2>2 DEF RetryStuck, Retries, TakesUp
<1>6. CASE (UNCHANGED payments \/ AddRetry(p)) /\ Becomes(Recovery, others)
  <2> HIDE DEF others
  <2>1. OnlyMoves(Recovery) /\ worker'[Recovery] = others
    BY <1>2, <1>4, <1>6, OneWorkerMoves
  <2> QED BY <1>1, <1>3, <1>4, <1>6, <2>1 DEF RetryStuck, Retries, TakesUp
<1> QED BY <1>5, <1>6 DEF RetryStuck

LEMMA AbandonStuckDoes ==
  ASSUME TypeOK, NEW p \in DOMAIN payments, NEW retries, AbandonStuck(p, retries)
  PROVE  Abandons(p, retries)
<1> DEFINE others  == [worker[Recovery] EXCEPT !.stuck = @ \ {<<p, retries>>}]
           publish == [others EXCEPT !.stage = "publish", !.pay = p, !.kind = "failed"]
<1>1. CallFrame /\ UNCHANGED told
  BY FaultsAreCounted DEF TypeOK, AbandonStuck, CallFrame, queue
<1>2. /\ worker \in [Workers -> Worker] /\ Recovery \in Workers
      /\ worker[Recovery] \in Worker /\ worker[Recovery].stage = "next"
      /\ payments \in Seq(Payment) /\ p \in PaymentIds
  BY PaymentsAssumption DEF TypeOK, AbandonStuck, Workers, PaymentIds
<1>3. SetStatus(p, "failed") => StatusIsSet(p, "failed")
  BY <1>2, SetStatusSets DEF PaymentStatuses
<1>4. /\ others \in Worker /\ others.stage = "next" /\ others.pay = worker[Recovery].pay
      /\ others.todo = worker[Recovery].todo /\ others.msg = worker[Recovery].msg
      /\ others.stuck = worker[Recovery].stuck \ {<<p, retries>>}
  BY <1>2 DEF Worker
<1>5. CASE SetStatus(p, "failed") /\ Becomes(Recovery, publish)
  <2>1. /\ publish \in Worker /\ publish.stage = "publish" /\ publish.pay = p
        /\ publish.kind = "failed" /\ publish.todo = others.todo
        /\ publish.msg = others.msg /\ publish.stuck = others.stuck
    <3> HIDE DEF others
    <3> QED BY <1>2, <1>4 DEF Worker, Stages
  <2> HIDE DEF publish
  <2>2. OnlyMoves(Recovery) /\ worker'[Recovery] = publish
    BY <1>2, <1>5, <2>1, OneWorkerMoves
  <2> QED BY <1>1, <1>3, <1>4, <1>5, <2>1, <2>2 DEF AbandonStuck, Abandons, TakesUp
<1>6. CASE (UNCHANGED payments \/ SetStatus(p, "failed")) /\ Becomes(Recovery, others)
  <2> HIDE DEF others
  <2>1. OnlyMoves(Recovery) /\ worker'[Recovery] = others
    BY <1>2, <1>4, <1>6, OneWorkerMoves
  <2> QED BY <1>1, <1>3, <1>4, <1>6, <2>1 DEF AbandonStuck, Abandons, TakesUp
<1> QED BY <1>5, <1>6 DEF AbandonStuck

(* An administrator's call on p begins.                                    *)
Begins(c, p) ==
  /\ OnlyMoves(c)
  /\ worker'[c].stage \in {"load", "refunding"} /\ worker'[c].pay = p
  /\ worker'[c].msg = "none" /\ worker'[c].todo = {} /\ worker'[c].stuck = {}

LEMMA AdminCallBegins ==
  ASSUME TypeOK, NEW c \in Workers, NEW p \in DOMAIN payments,
         AdminProcess(c, p) \/ AdminRefund(c, p)
  PROVE  Begins(c, p)
<1>1. PICK stage \in {"load", "refunding"} :
        Becomes(c, [Idle EXCEPT !.stage = stage, !.pay = p])
  BY DEF AdminProcess, AdminRefund
<1> DEFINE state == [Idle EXCEPT !.stage = stage, !.pay = p]
<1>2. p \in PaymentIds
  BY PaymentsAssumption DEF TypeOK, PaymentIds
<1>3. /\ state \in Worker /\ state.stage = stage /\ state.pay = p
      /\ state.msg = "none" /\ state.todo = {} /\ state.stuck = {}
  BY <1>2, IdleIsTyped DEF Worker, Idle, Stages
<1> HIDE DEF state
<1>4. OnlyMoves(c) /\ worker'[c] = state
  BY <1>1, <1>3, OneWorkerMoves DEF TypeOK, state
<1> QED BY <1>3, <1>4 DEF Begins

-----------------------------------------------------------------------------
(* Every step keeps HandlingInv *)

LEMMA NobodyMoves ==
  ASSUME HandlingInv, UNCHANGED worker, SameItems
  PROVE  /\ Recovery \in Workers /\ OnlyMoves(Recovery)
         /\ ItemsStay /\ RetriesAreCapped' /\ ScanIsFresh'
         /\ WorkerIsFine(Recovery)'
<1>1. /\ TypeOK /\ RetriesAreCapped /\ ScanIsFresh
      /\ Recovery \in Workers /\ WorkerIsFine(Recovery)
  BY HandlingParts DEF Workers
<1>2. OnlyMoves(Recovery)
  BY <1>1 DEF OnlyMoves, TypeOK
<1>3. ItemsStay
  BY <1>1 DEF SameItems, ItemsStay, TypeOK
<1>4. RetriesAreCapped' /\ ScanIsFresh'
  BY <1>1 DEF SameItems, RetriesAreCapped, ScanIsFresh
<1>5. Recovery \notin Consumers
  BY PaymentsAssumption
<1>6. WorkerIsFine(Recovery)'
  BY <1>1, <1>5 DEF SameItems, WorkerIsFine
<1> QED BY <1>1, <1>2, <1>3, <1>4, <1>6

(* Messages are delivered and the index catches up.                        *)
LEMMA QueueKeepsHandling ==
  ASSUME HandlingInv, UNCHANGED <<payments, worker, told, faults>>,
         message' \in [Messages -> Message], dispatched' \in [Messages -> 0..MaxWaiting],
         index' \subseteq DOMAIN payments,
         \A m \in Messages :
           /\ message'[m].state = "acked" => message[m].state = "acked"
           /\ message'[m].state = "new" => dispatched'[m] = 0
  PROVE  HandlingInv'
<1>1. TypeOK /\ told \subseteq Kinds \X DOMAIN payments
  BY HandlingParts
<1>2. SameItems
  BY <1>1, NoItemChanges DEF TypeOK
<1>3. HandlingStep(Recovery)
  BY <1>1, <1>2, NobodyMoves DEF HandlingStep, TypeOK, SameItems
<1> QED BY <1>2, <1>3, NobodyMoves, StepKeepsHandling

LEMMA DeliveryKeepsHandling ==
  ASSUME HandlingInv, NEW m \in Messages,
         ReadMessage(m) \/ ReclaimMessage(m) \/ MessageGetsIdle(m)
  PROVE  HandlingInv'
<1>1. /\ message \in [Messages -> Message] /\ dispatched \in [Messages -> 0..MaxWaiting]
      /\ index \subseteq DOMAIN payments
      /\ \A n \in Messages : message[n].state = "new" => dispatched[n] = 0
  BY DEF HandlingInv, TypeOK
<1>2. message[m] \in Message
  BY <1>1
<1>3. CASE ReadMessage(m)
  <2>1. /\ message' \in [Messages -> Message] /\ message'[m].state = "delivered"
        /\ \A n \in Messages : n # m => message'[n] = message[n]
    <3> DEFINE item == [message[m] EXCEPT !.state = "delivered"]
    <3>1. item \in Message /\ item.state = "delivered"
      BY <1>2 DEF Message
    <3>2. message' = [message EXCEPT ![m] = item]
      BY <1>1, <1>3 DEF ReadMessage
    <3> HIDE DEF item, Message
    <3> QED BY <1>1, <3>1, <3>2
  <2>2. /\ dispatched' \in [Messages -> 0..MaxWaiting]
        /\ \A n \in Messages : n # m => dispatched'[n] = dispatched[n]
    BY <1>1, <1>3, PaymentsAssumption DEF ReadMessage
  <2> QED BY <1>1, <1>3, <2>1, <2>2, QueueKeepsHandling DEF ReadMessage, table
<1>4. CASE ReclaimMessage(m)
  <2>1. /\ message' \in [Messages -> Message] /\ message'[m].state = "delivered"
        /\ \A n \in Messages : n # m => message'[n] = message[n]
    <3> DEFINE item == [message[m] EXCEPT !.idle = FALSE]
    <3>1. item \in Message /\ item.state = message[m].state
      BY <1>2 DEF Message
    <3>2. message' = [message EXCEPT ![m] = item] /\ message[m].state = "delivered"
      BY <1>1, <1>4 DEF ReclaimMessage
    <3> HIDE DEF item, Message
    <3> QED BY <1>1, <3>1, <3>2
  <2>2. /\ dispatched' \in [Messages -> 0..MaxWaiting]
        /\ \A n \in Messages : n # m => dispatched'[n] = dispatched[n]
    BY <1>1, <1>4, PaymentsAssumption DEF ReclaimMessage
  <2> QED BY <1>1, <1>4, <2>1, <2>2, QueueKeepsHandling DEF ReclaimMessage, table
<1>5. CASE MessageGetsIdle(m)
  <2>1. /\ message' \in [Messages -> Message] /\ message'[m].state = "delivered"
        /\ \A n \in Messages : n # m => message'[n] = message[n]
    <3> DEFINE item == [message[m] EXCEPT !.idle = TRUE]
    <3>1. item \in Message /\ item.state = message[m].state
      BY <1>2 DEF Message
    <3>2. message' = [message EXCEPT ![m] = item] /\ message[m].state = "delivered"
      BY <1>1, <1>5 DEF MessageGetsIdle
    <3> HIDE DEF item, Message
    <3> QED BY <1>1, <3>1, <3>2
  <2> QED BY <1>1, <1>5, <2>1, QueueKeepsHandling DEF MessageGetsIdle, table
<1> QED BY <1>3, <1>4, <1>5

LEMMA TimeKeepsHandling ==
  ASSUME HandlingInv, NEW p \in DOMAIN payments, PaymentGetsOld(p) \/ IndexCatchesUp(p)
  PROVE  HandlingInv'
<1>1. TypeOK /\ told \subseteq Kinds \X DOMAIN payments
      /\ \A n \in Messages : message[n].state = "new" => dispatched[n] = 0
  BY HandlingParts DEF HandlingInv
<1>2. CASE PaymentGetsOld(p)
  <2>1. SameItems /\ UNCHANGED <<message, dispatched, index, worker, told, faults>>
    BY <1>1, <1>2, PaymentGetsOldDoes DEF ItemAges, PaymentGetsOld, queue
  <2>2. HandlingStep(Recovery)
    BY <1>1, <2>1, NobodyMoves DEF HandlingStep, TypeOK, SameItems
  <2> QED BY <2>1, <2>2, NobodyMoves, StepKeepsHandling
<1>3. CASE IndexCatchesUp(p)
  <2>1. index' \subseteq DOMAIN payments
    BY <1>1, <1>3 DEF IndexCatchesUp, TypeOK
  <2> QED BY <1>1, <1>3, <2>1, QueueKeepsHandling DEF IndexCatchesUp, queue, TypeOK
<1> QED BY <1>2, <1>3

(* A worker does something else than a call on its payment, and does not   *)
(* touch the retries.                                                      *)
LEMMA WorkerKeepsHandling ==
  ASSUME HandlingInv, NEW w \in Workers, OnlyMoves(w), UNCHANGED <<index, told>>,
         message' \in [Messages -> Message], dispatched' \in [Messages -> 0..MaxWaiting],
         ItemsStay, faults' \in 0..MaxFaults, RetriesAreCapped', ScanIsFresh',
         \A m \in Messages :
           /\ message'[m].state = "acked" =>
                message[m].state = "acked" \/ \A b \in Winners : HasPayment(b)
           /\ message'[m].state = "new" => dispatched'[m] = 0,
         WorkerIsFine(w)'
  PROVE  HandlingInv'
<1>1. TypeOK /\ told \subseteq Kinds \X DOMAIN payments
  BY HandlingParts
<1>2. DOMAIN payments \subseteq DOMAIN payments'
  BY DEF ItemsStay
<1>3. told' \subseteq Kinds \X DOMAIN payments' /\ index' \subseteq DOMAIN payments'
  BY <1>1, <1>2 DEF TypeOK
<1>4. HandlingStep(w)
  BY <1>3 DEF HandlingStep
<1> QED BY <1>4, StepKeepsHandling

LEMMA IdleKeepsHandling ==
  ASSUME HandlingInv, NEW w \in Workers, GetsIdle(w),
         UNCHANGED <<dispatched, payments, index, told>>, faults' \in 0..MaxFaults,
         \/ UNCHANGED message
         \/ /\ \A b \in Winners : HasPayment(b)
            /\ worker[w].msg \in Messages
            /\ message' = [message EXCEPT ![worker[w].msg] =
                             [state |-> "acked", idle |-> FALSE]]
  PROVE  HandlingInv'
<1>1. /\ TypeOK /\ RetriesAreCapped /\ ScanIsFresh
      /\ \A m \in Messages : message[m].state = "new" => dispatched[m] = 0
  BY HandlingParts DEF HandlingInv
<1>2. ItemsStay /\ RetriesAreCapped'
  BY <1>1 DEF ItemsStay, TypeOK, RetriesAreCapped
<1>3. OnlyMoves(w) /\ WorkerIsFine(w)'
  BY DEF GetsIdle, WorkerIsFine, Idle, InCall
<1>4. ScanIsFresh'
  BY <1>1 DEF GetsIdle, OnlyMoves, Idle, ScanIsFresh, Workers
<1>5. /\ message' \in [Messages -> Message]
      /\ \A m \in Messages :
           /\ message'[m].state = "acked" =>
                message[m].state = "acked" \/ \A b \in Winners : HasPayment(b)
           /\ message'[m].state = "new" => dispatched'[m] = 0
  <2>1. CASE UNCHANGED message
    BY <1>1, <2>1 DEF TypeOK
  <2>2. CASE /\ \A b \in Winners : HasPayment(b)
             /\ worker[w].msg \in Messages
             /\ message' = [message EXCEPT ![worker[w].msg] =
                              [state |-> "acked", idle |-> FALSE]]
    <3>1. message' \in [Messages -> Message]
      BY <1>1, <2>2 DEF TypeOK, Message
    <3>2. \A m \in Messages : message'[m].state = "new" => message[m].state = "new"
      BY <1>1, <2>2 DEF TypeOK
    <3> QED BY <1>1, <2>2, <3>1, <3>2
  <2> QED BY <2>1, <2>2
<1>6. dispatched' \in [Messages -> 0..MaxWaiting]
  BY <1>1 DEF TypeOK
<1> QED BY <1>2, <1>3, <1>4, <1>5, <1>6, WorkerKeepsHandling

LEMMA InitiateKeepsHandling ==
  ASSUME HandlingInv, NEW w \in Consumers, NEW m \in Messages, InitiatePayment(w, m)
  PROVE  HandlingInv'
<1>1. /\ TypeOK /\ RetriesAreCapped /\ ScanIsFresh /\ w \in Workers
      /\ \A n \in Messages : message[n].state = "new" => dispatched[n] = 0
  BY HandlingParts DEF HandlingInv, Workers
<1>2. StartsHandling(w, m) /\ UNCHANGED <<message, payments, index, told>>
  BY <1>1, InitiatePaymentDoes DEF InitiatePayment, table
<1>3. /\ dispatched' \in [Messages -> 0..MaxWaiting]
      /\ \A n \in Messages : dispatched[n] = 0 => dispatched'[n] = 0
  <2>1. dispatched[m] \in 0..MaxWaiting /\ dispatched[m] > 0
    BY <1>1 DEF InitiatePayment, TypeOK
  <2>2. dispatched[m] - 1 \in 0..MaxWaiting
    BY <2>1, PaymentsAssumption
  <2> QED BY <1>1, <2>1, <2>2 DEF InitiatePayment, TypeOK
<1>4. ItemsStay /\ RetriesAreCapped'
  BY <1>1, <1>2 DEF ItemsStay, TypeOK, RetriesAreCapped
<1>5. OnlyMoves(w) /\ WorkerIsFine(w)' /\ ScanIsFresh'
  <2>1. CASE UNCHANGED worker
    <3>1. WorkerIsFine(w)
      BY <1>1, HandlingParts
    <3> QED BY <1>1, <1>2, <2>1, <3>1 DEF OnlyMoves, TypeOK, WorkerIsFine, ScanIsFresh, HasPayment
  <2>2. CASE /\ OnlyMoves(w) /\ worker'[w].stage = "next"
             /\ worker'[w].todo = Winners \ Billed /\ worker'[w].pay = 0
    <3>1. \A b \in Winners \ worker'[w].todo : HasPayment(b)'
      BY <1>1, <1>2, <2>2 DEF HasPayment, Billed, TypeOK
    <3>2. WorkerIsFine(w)'
      BY <2>2, <3>1 DEF WorkerIsFine, InCall
    <3>3. worker'[Recovery] = worker[Recovery]
      BY <2>2, PaymentsAssumption DEF OnlyMoves, Workers
    <3> QED BY <1>1, <1>2, <2>2, <3>2, <3>3 DEF ScanIsFresh
  <2> QED BY <1>2, <2>1, <2>2 DEF StartsHandling
<1>6. message' \in [Messages -> Message] /\ faults' \in 0..MaxFaults
  BY <1>1, <1>2 DEF TypeOK, StartsHandling
<1> QED BY <1>1, <1>2, <1>3, <1>4, <1>5, <1>6, WorkerKeepsHandling

LEMMA CreateKeepsHandling ==
  ASSUME HandlingInv, NEW w \in Consumers, NEW b \in Winners, CreatePayment(w, b)
  PROVE  HandlingInv'
<1>1. /\ TypeOK /\ RetriesAreCapped /\ ScanIsFresh /\ w \in Workers /\ WorkerIsFine(w)
      /\ \A n \in Messages : message[n].state = "new" => dispatched[n] = 0
      /\ worker[w].stage = "next"
  BY HandlingParts DEF HandlingInv, Workers, CreatePayment
<1>2. Bills(w, b)
  BY <1>1, CreatePaymentDoes
<1>3. ItemsStay
  <2>1. payments \in Seq(Payment) /\ Len(payments) <= MaxPayments
    BY <1>1 DEF TypeOK
  <2>2. CASE UNCHANGED payments
    BY <2>1, <2>2 DEF ItemsStay
  <2>3. CASE IsCreated(b) /\ Len(payments) < MaxPayments
    BY <2>1, <2>3, PaymentsAssumption DEF IsCreated, ItemsStay
  <2> QED BY <1>2, <2>2, <2>3 DEF Bills
<1>4. RetriesAreCapped'
  <2>1. CASE UNCHANGED payments
    BY <1>1, <2>1 DEF RetriesAreCapped
  <2>2. CASE IsCreated(b)
    BY <1>1, <2>2 DEF IsCreated, NewPayment, RetriesAreCapped, maxRetries
  <2> QED BY <1>2, <2>1, <2>2 DEF Bills
<1>5. ScanIsFresh'
  <2>1. worker'[Recovery] = worker[Recovery]
    BY <1>2, PaymentsAssumption DEF Bills, OnlyMoves, Workers
  <2>2. \A p \in DOMAIN payments : p \in DOMAIN payments' /\ payments'[p] = payments[p]
    BY <1>2 DEF Bills, IsCreated
  <2> QED BY <1>1, <2>1, <2>2 DEF ScanIsFresh
<1>6. WorkerIsFine(w)'
  <2>1. CASE /\ IsCreated(b)
             /\ worker'[w].stage = "load" /\ worker'[w].pay = Len(payments) + 1
             /\ worker'[w].failed = worker[w].failed
    <3>1. HasPayment(b)'
      BY <2>1 DEF IsCreated, HasPayment, NewPayment
    <3>2. ~worker'[w].failed => \A c \in Winners \ worker'[w].todo : HasPayment(c)'
      <4> SUFFICES ASSUME ~worker'[w].failed, NEW c \in Winners \ worker'[w].todo
                   PROVE  HasPayment(c)'
        OBVIOUS
      <4>1. ~worker[w].failed
        BY <2>1, Zenon
      <4>2. CASE c = b
        BY <3>1, <4>2
      <4>3. CASE c # b
        <5>1. c \in Winners \ worker[w].todo
          BY <1>2, <4>3 DEF Bills
        <5>2. HasPayment(c)
          BY <1>1, <4>1, <5>1, Zenon DEF WorkerIsFine
        <5> QED BY <1>3, <5>2, PaymentsAreKept
      <4> QED BY <4>2, <4>3
    <3>3. /\ worker'[w].pay \in DOMAIN payments' /\ worker'[w].pay # 0
          /\ worker'[w].stage # "publish"
      BY <1>1, <2>1 DEF IsCreated, TypeOK
    <3> QED BY <3>2, <3>3, Zenon DEF WorkerIsFine
  <2>2. CASE /\ worker'[w].stage = "next" /\ worker'[w].pay = worker[w].pay
             /\ worker'[w].failed
    <3>1. worker'[w].pay \in DOMAIN payments' \cup {0}
      BY <1>1, <1>3, <2>2 DEF WorkerIsFine, ItemsStay
    <3>2. worker'[w].stage \notin InCall /\ worker'[w].stage # "publish"
      BY <2>2 DEF InCall
    <3> QED BY <2>2, <3>1, <3>2, Zenon DEF WorkerIsFine
  <2> QED BY <1>2, <2>1, <2>2, Zenon DEF Bills
<1>7. /\ message' \in [Messages -> Message] /\ dispatched' \in [Messages -> 0..MaxWaiting]
      /\ UNCHANGED <<message, dispatched, index, told>> /\ faults' \in 0..MaxFaults
      /\ OnlyMoves(w)
  BY <1>1, <1>2 DEF TypeOK, Bills, CallFrame
<1> QED BY <1>1, <1>3, <1>4, <1>5, <1>6, <1>7, WorkerKeepsHandling

LEMMA FinishKeepsHandling ==
  ASSUME HandlingInv, NEW w \in Consumers, FinishMessage(w)
  PROVE  HandlingInv'
<1>1. TypeOK /\ w \in Workers /\ WorkerIsFine(w)
  BY HandlingParts DEF HandlingInv, Workers
<1>2. GetsIdle(w)
  BY <1>1, BecomesIdle DEF FinishMessage
<1>3. UNCHANGED <<dispatched, payments, index, told>> /\ faults' \in 0..MaxFaults
  BY <1>1, FaultsAreCounted DEF FinishMessage, table, TypeOK
<1>4. ~worker[w].failed => \A b \in Winners : HasPayment(b)
  <2>1. worker[w].stage # "idle" /\ worker[w].todo = {}
    BY DEF FinishMessage
  <2> QED BY <1>1, <2>1, Zenon DEF WorkerIsFine
<1>5. \/ UNCHANGED message
      \/ /\ \A b \in Winners : HasPayment(b)
         /\ worker[w].msg \in Messages
         /\ message' = [message EXCEPT ![worker[w].msg] =
                          [state |-> "acked", idle |-> FALSE]]
  <2>1. CASE worker[w].msg \in Messages
    BY <1>4, <2>1, Zenon DEF FinishMessage
  <2>2. CASE worker[w].msg \notin Messages
    BY <1>1, <2>2 DEF FinishMessage, TypeOK
  <2> QED BY <2>1, <2>2
<1> QED BY <1>1, <1>2, <1>3, <1>5, IdleKeepsHandling

(* The steps of the recovery job and of administrators: only payments, and *)
(* the worker.                                                             *)
LEMMA JobKeepsHandling ==
  ASSUME HandlingInv, NEW w \in Workers \ Consumers, OnlyMoves(w),
         UNCHANGED <<message, dispatched, index, told>>, faults' \in 0..MaxFaults,
         ItemsStay, RetriesAreCapped', ScanIsFresh',
         worker'[w].pay \in DOMAIN payments' \cup {0},
         worker'[w].stage \in InCall => worker'[w].pay # 0,
         worker'[w].stage = "publish" => worker'[w].kind # "none"
  PROVE  HandlingInv'
<1>1. /\ TypeOK /\ \A m \in Messages : message[m].state = "new" => dispatched[m] = 0
  BY DEF HandlingInv
<1>2. WorkerIsFine(w)'
  BY DEF WorkerIsFine
<1>3. /\ message' \in [Messages -> Message] /\ dispatched' \in [Messages -> 0..MaxWaiting]
      /\ \A m \in Messages :
           /\ message'[m].state = "acked" =>
                message[m].state = "acked" \/ \A b \in Winners : HasPayment(b)
           /\ message'[m].state = "new" => dispatched'[m] = 0
  BY <1>1 DEF TypeOK
<1> QED BY <1>2, <1>3, WorkerKeepsHandling

LEMMA RecoveryIsNoConsumer == Recovery \in Workers \ Consumers
  BY PaymentsAssumption DEF Workers

LEMMA ScanKeepsHandling ==
  ASSUME HandlingInv, ScanStuck
  PROVE  HandlingInv'
<1>1. TypeOK /\ RetriesAreCapped
  BY DEF HandlingInv
<1>2. /\ Scans /\ UNCHANGED <<message, dispatched, payments, index, told>>
      /\ faults' \in 0..MaxFaults
  BY <1>1, ScanStuckDoes DEF ScanStuck, queue, table, TypeOK
<1>3. ItemsStay /\ RetriesAreCapped'
  BY <1>1, <1>2 DEF ItemsStay, TypeOK, RetriesAreCapped
<1>4. ScanIsFresh'
  BY <1>2 DEF Scans, ScanIsFresh
<1> QED BY <1>2, <1>3, <1>4, RecoveryIsNoConsumer, JobKeepsHandling DEF Scans, InCall

(* The job forgets what it takes up: the rest of the scan is still so.     *)
LEMMA RestOfScanIsFresh ==
  ASSUME HandlingInv, NEW p, NEW retries, TakesUp(p, retries),
         \A q \in DOMAIN payments :
           /\ q \in DOMAIN payments'
           /\ q # p => payments'[q].retries = payments[q].retries
  PROVE  ScanIsFresh'
<1>1. worker[Recovery].stuck \subseteq PaymentIds \X Nat /\ ScanIsFresh
  BY RecoveryIsNoConsumer, HandlingParts DEF TypeOK, Worker
<1>2. payments[p].retries = retries
  BY <1>1 DEF TakesUp, ScanIsFresh
<1> SUFFICES ASSUME NEW t \in worker'[Recovery].stuck
             PROVE  t[1] \in DOMAIN payments' /\ payments'[t[1]].retries = t[2]
  BY DEF ScanIsFresh
<1>3. t \in worker[Recovery].stuck /\ t # <<p, retries>>
  BY DEF TakesUp
<1>4. t[1] \in DOMAIN payments /\ payments[t[1]].retries = t[2]
  BY <1>1, <1>3 DEF ScanIsFresh
<1>5. t[1] # p
  <2>1. t = <<t[1], t[2]>>
    BY <1>1, <1>3
  <2> QED BY <1>2, <1>3, <1>4, <2>1
<1> QED BY <1>4, <1>5

LEMMA RetryKeepsHandling ==
  ASSUME HandlingInv, NEW p \in DOMAIN payments, NEW retries, RetryStuck(p, retries)
  PROVE  HandlingInv'
<1>1. TypeOK /\ RetriesAreCapped /\ ScanIsFresh /\ WorkerIsFine(Recovery)
  BY HandlingParts, RecoveryIsNoConsumer
<1>2. Retries(p, retries)
  BY <1>1, RetryStuckDoes
<1>3. payments \in Seq(Payment) /\ Len(payments) <= MaxPayments
  BY <1>1 DEF TypeOK
<1>4. /\ ItemsStay /\ DOMAIN payments' = DOMAIN payments
      /\ \A q \in DOMAIN payments : q # p => payments'[q].retries = payments[q].retries
  BY <1>2, <1>3 DEF Retries, RetryIsAdded, ItemsStay
<1>5. RetriesAreCapped'
  <2>1. payments[p].retries = retries
    BY <1>1, <1>2 DEF Retries, TakesUp, ScanIsFresh
  <2>2. payments'[p].retries <= maxRetries
    <3>1. CASE UNCHANGED payments
      BY <1>1, <3>1 DEF RetriesAreCapped
    <3>2. CASE RetryIsAdded(p)
      <4>1. payments[p] \in Payment
        BY <1>3
      <4>2. payments[p].retries \in Nat
        BY <4>1 DEF Payment
      <4> QED BY <1>2, <2>1, <3>2, <4>2 DEF Retries, RetryIsAdded, maxRetries
    <3> QED BY <1>2, <3>1, <3>2 DEF Retries
  <2> QED BY <1>1, <1>4, <2>2 DEF RetriesAreCapped
<1>6. ScanIsFresh'
  BY <1>2, <1>4, RestOfScanIsFresh DEF Retries
<1>7. /\ worker'[Recovery].pay \in DOMAIN payments' \cup {0}
      /\ worker'[Recovery].stage \in InCall => worker'[Recovery].pay # 0
      /\ worker'[Recovery].stage # "publish"
  BY <1>1, <1>2, <1>3, <1>4 DEF Retries, WorkerIsFine, InCall
<1> QED BY <1>2, <1>4, <1>5, <1>6, <1>7, RecoveryIsNoConsumer, JobKeepsHandling
        DEF Retries, TakesUp, CallFrame

LEMMA AbandonKeepsHandling ==
  ASSUME HandlingInv, NEW p \in DOMAIN payments, NEW retries, AbandonStuck(p, retries)
  PROVE  HandlingInv'
<1>1. TypeOK /\ RetriesAreCapped /\ WorkerIsFine(Recovery)
  BY HandlingParts, RecoveryIsNoConsumer
<1>2. Abandons(p, retries)
  BY <1>1, AbandonStuckDoes
<1>3. payments \in Seq(Payment) /\ Len(payments) <= MaxPayments
  BY <1>1 DEF TypeOK
<1>4. SameItems
  BY <1>2, <1>3, NoItemChanges DEF Abandons, StatusIsSet
<1>5. ItemsStay /\ RetriesAreCapped'
  BY <1>1, <1>3, <1>4 DEF SameItems, ItemsStay, RetriesAreCapped
<1>6. ScanIsFresh'
  BY <1>2, <1>4, RestOfScanIsFresh DEF Abandons, SameItems
<1>7. /\ worker'[Recovery].pay \in DOMAIN payments' \cup {0}
      /\ worker'[Recovery].stage \in InCall => worker'[Recovery].pay # 0
      /\ worker'[Recovery].stage = "publish" => worker'[Recovery].kind # "none"
  BY <1>1, <1>2, <1>3, <1>4 DEF Abandons, WorkerIsFine, InCall, SameItems
<1> QED BY <1>2, <1>5, <1>6, <1>7, RecoveryIsNoConsumer, JobKeepsHandling
        DEF Abandons, TakesUp, CallFrame

LEMMA BeginKeepsHandling ==
  ASSUME HandlingInv, NEW c \in AdminCalls, NEW p \in DOMAIN payments,
         AdminProcess(c, p) \/ AdminRefund(c, p)
  PROVE  HandlingInv'
<1>1. /\ TypeOK /\ RetriesAreCapped /\ ScanIsFresh
      /\ c \in Workers \ Consumers /\ c # Recovery
  BY HandlingParts, PaymentsAssumption DEF Workers
<1>2. /\ Begins(c, p) /\ UNCHANGED <<message, dispatched, payments, index, told, faults>>
  BY <1>1, AdminCallBegins DEF AdminProcess, AdminRefund, queue, table
<1>3. ItemsStay /\ RetriesAreCapped' /\ faults' \in 0..MaxFaults
  BY <1>1, <1>2 DEF ItemsStay, TypeOK, RetriesAreCapped
<1>4. ScanIsFresh'
  <2>1. worker'[Recovery] = worker[Recovery]
    BY <1>1, <1>2, RecoveryIsNoConsumer DEF Begins, OnlyMoves
  <2> QED BY <1>1, <1>2, <2>1 DEF ScanIsFresh
<1>5. p # 0
  BY <1>1 DEF TypeOK
<1> QED BY <1>1, <1>2, <1>3, <1>4, <1>5, JobKeepsHandling DEF Begins

CrashedWorkers ==
  /\ worker' \in [Workers -> Worker]
  /\ \A w \in Workers :
       /\ worker'[w].stage \in {"idle", "done"}
       /\ w \notin AdminCalls => worker'[w] = Idle
       /\ worker'[w].pay = 0 /\ worker'[w].msg = "none"
       /\ worker'[w].todo = {} /\ worker'[w].stuck = {}

LEMMA CrashDoes ==
  ASSUME TypeOK, Crash
  PROVE  /\ CrashedWorkers /\ UNCHANGED <<message, payments, index, told>>
         /\ dispatched' = [m \in Messages |-> 0] /\ faults' \in 0..MaxFaults
<1> DEFINE done == [Idle EXCEPT !.stage = "done"]
<1>1. /\ done \in Worker /\ done.stage = "done" /\ done.pay = 0
      /\ done.msg = "none" /\ done.todo = {} /\ done.stuck = {}
  BY IdleIsTyped DEF Idle, Worker, Stages
<1>2. /\ Idle \in Worker /\ Idle.stage = "idle" /\ Idle.pay = 0
      /\ Idle.msg = "none" /\ Idle.todo = {} /\ Idle.stuck = {}
  BY IdleIsTyped DEF Idle
<1>3. worker' = [w \in Workers |->
                   IF w \in AdminCalls /\ worker[w].stage # "idle" THEN done ELSE Idle]
  BY DEF Crash
<1> HIDE DEF done
<1>4. CrashedWorkers
  BY <1>1, <1>2, <1>3 DEF CrashedWorkers
<1> QED BY <1>4, FaultsAreCounted DEF Crash, TypeOK, table

LEMMA CrashKeepsHandling ==
  ASSUME HandlingInv, Crash
  PROVE  HandlingInv'
<1>1. /\ TypeOK /\ RetriesAreCapped /\ AckedIsBilled
      /\ told \subseteq Kinds \X DOMAIN payments
  BY HandlingParts
<1>2. /\ CrashedWorkers /\ UNCHANGED <<message, payments, index, told>>
      /\ dispatched' = [m \in Messages |-> 0] /\ faults' \in 0..MaxFaults
  BY <1>1, CrashDoes
<1>3. TypeOK'
  BY <1>1, <1>2, PaymentsAssumption DEF TypeOK, CrashedWorkers
<1>4. RetriesAreCapped' /\ AckedIsBilled'
  BY <1>1, <1>2 DEF RetriesAreCapped, AckedIsBilled, HasPayment
<1>5. \A w \in Workers :
        /\ worker'[w].pay \in DOMAIN payments' \cup {0}
        /\ worker'[w].stage \notin InCall /\ worker'[w].stage # "publish"
  BY <1>2 DEF CrashedWorkers, InCall
<1>6. \A w \in Consumers : worker'[w].stage = "idle"
  BY <1>2, PaymentsAssumption DEF CrashedWorkers, Workers, Idle
<1>7. worker'[Recovery].stuck = {}
  BY <1>2, RecoveryIsNoConsumer DEF CrashedWorkers
<1> QED BY <1>1, <1>2, <1>3, <1>4, <1>5, <1>6, <1>7 DEF HandlingInv, Kinds

LEMMA ACallIsMade ==
  ASSUME HandlingInv, NEW w \in Workers, ProcessStep(w) \/ ApplyRefund(w)
  PROVE  /\ worker[w].stage \in InCall /\ worker[w].pay \in DOMAIN payments
         /\ \/ worker[w].stage = "load" /\ LoadCall(w)
            \/ worker[w].stage = "mark" /\ MarkCall(w)
            \/ worker[w].stage = "decide" /\ DecideCall(w)
            \/ worker[w].stage = "apply" /\ ApplyCall(w)
            \/ worker[w].stage = "publish" /\ PublishCall(w)
            \/ worker[w].stage = "refunding" /\ RefundCall(w)
<1>1. TypeOK /\ WorkerIsFine(w)
  BY HandlingParts
<1>2. /\ LoadPayment(w) => worker[w].stage = "load"
      /\ MarkProcessing(w) => worker[w].stage = "mark"
      /\ SetGatewayDecision(w) => worker[w].stage = "decide"
      /\ ApplyDecision(w) => worker[w].stage = "apply"
      /\ PublishOutcome(w) => worker[w].stage = "publish"
      /\ ApplyRefund(w) => worker[w].stage = "refunding"
  BY DEF LoadPayment, MarkProcessing, SetGatewayDecision, ApplyDecision,
         PublishOutcome, ApplyRefund
<1>3. worker[w].stage \in InCall
  BY <1>2 DEF ProcessStep, InCall
<1>4. worker[w].pay \in DOMAIN payments
  BY <1>1, <1>3 DEF WorkerIsFine
<1> QED BY <1>1, <1>2, <1>3, <1>4, LoadPaymentDoes, MarkProcessingDoes,
          SetGatewayDecisionDoes, ApplyDecisionDoes, PublishOutcomeDoes, ApplyRefundDoes
       DEF ProcessStep

LEMMA ProcessKeepsHandling ==
  ASSUME HandlingInv, NEW w \in Workers, ProcessStep(w) \/ ApplyRefund(w)
  PROVE  HandlingInv'
<1>1. worker[w].stage \in InCall /\ CallStep(w)
  BY ACallIsMade, EachCallIsOne
<1> QED BY <1>1, CallKeepsHandling

LEMMA RecoveryEndKeepsHandling ==
  ASSUME HandlingInv, FinishRecovery
  PROVE  HandlingInv'
<1>1. GetsIdle(Recovery)
  BY RecoveryIsNoConsumer, BecomesIdle DEF FinishRecovery, HandlingInv
<1>2. UNCHANGED <<message, dispatched, payments, index, told>> /\ faults' \in 0..MaxFaults
  BY DEF FinishRecovery, queue, table, HandlingInv, TypeOK
<1> QED BY <1>1, <1>2, RecoveryIsNoConsumer, IdleKeepsHandling

(* The steps of Next, one by one.                                          *)
LEMMA StepIsOne ==
  ASSUME Next
  PROVE  \/ \E m \in Messages : ReadMessage(m) \/ ReclaimMessage(m) \/ MessageGetsIdle(m)
         \/ \E p \in DOMAIN payments : PaymentGetsOld(p) \/ IndexCatchesUp(p)
         \/ ScanStuck \/ FinishRecovery \/ Crash
         \/ \E t \in worker[Recovery].stuck :
              RetryStuck(t[1], t[2]) \/ AbandonStuck(t[1], t[2])
         \/ \E w \in Consumers : \/ \E m \in Messages : InitiatePayment(w, m)
                                 \/ \E b \in Winners : CreatePayment(w, b)
                                 \/ FinishMessage(w)
         \/ \E c \in AdminCalls : \E p \in DOMAIN payments :
              AdminProcess(c, p) \/ AdminRefund(c, p)
         \/ \E w \in Workers : ProcessStep(w)
         \/ \E c \in AdminCalls : ApplyRefund(c)
<1>1. Consumers \subseteq Workers /\ AdminCalls \subseteq Workers /\ Recovery \in Workers
  BY DEF Workers
<1>2. CASE Delivery \/ TimePasses
  BY <1>2, Zenon DEF Delivery, TimePasses
<1>3. CASE RecoveryStep \/ Crash
  BY <1>1, <1>3, Zenon DEF RecoveryStep
<1>4. CASE \E w \in Consumers : ConsumerStep(w)
  BY <1>1, <1>4, Zenon DEF ConsumerStep
<1>5. CASE \E c \in AdminCalls : AdminStep(c)
  BY <1>1, <1>5, Zenon DEF AdminStep
<1> QED BY <1>2, <1>3, <1>4, <1>5 DEF Next

LEMMA HandlingStarts ==
  ASSUME Init
  PROVE  HandlingInv
<1>1. /\ payments = << >> /\ DOMAIN payments = {}
      /\ worker = [w \in Workers |-> Idle] /\ told = {} /\ index = {}
  BY DEF Init
<1>2. TypeOK
  <2>1. payments \in Seq(Payment) /\ Len(payments) <= MaxPayments
    BY <1>1, PaymentsAssumption
  <2> QED BY <1>1, <2>1, IdleIsTyped, PaymentsAssumption DEF Init, TypeOK, Message
<1>3. RetriesAreCapped
  BY <1>1 DEF RetriesAreCapped
<1>4. \A m \in Messages : message[m].state = "new" /\ dispatched[m] = 0
  BY DEF Init
<1>5. AckedIsBilled
  BY <1>4 DEF AckedIsBilled
<1>6. \A w \in Workers : /\ worker[w].stage = "idle" /\ worker[w].pay = 0
                         /\ worker[w].stuck = {}
  BY <1>1 DEF Idle
<1>7. \A w \in Consumers : worker[w].stage = "idle"
  BY <1>6 DEF Workers
<1> QED BY <1>1, <1>2, <1>3, <1>4, <1>5, <1>6, <1>7, RecoveryIsNoConsumer
        DEF HandlingInv, InCall

LEMMA NextKeepsHandling ==
  ASSUME HandlingInv, [Next]_vars
  PROVE  HandlingInv'
<1>1. CASE UNCHANGED vars
  <2>1. UNCHANGED <<message, dispatched, payments, index, worker, told, faults>>
    BY <1>1 DEF vars
  <2>2. RetriesAreCapped' /\ AckedIsBilled' /\ TypeOK'
    BY <2>1 DEF HandlingInv, RetriesAreCapped, AckedIsBilled, HasPayment, TypeOK
  <2> QED BY <2>1, <2>2 DEF HandlingInv, HasPayment
<1>2. CASE Next
  <2>1. \A t \in worker[Recovery].stuck : t[1] \in DOMAIN payments
    BY DEF HandlingInv
  <2>2. AdminCalls \subseteq Workers
    BY DEF Workers
  <2> QED BY <1>2, <2>1, <2>2, StepIsOne, DeliveryKeepsHandling, TimeKeepsHandling,
             ScanKeepsHandling, RecoveryEndKeepsHandling, CrashKeepsHandling,
             RetryKeepsHandling, AbandonKeepsHandling, InitiateKeepsHandling,
             CreateKeepsHandling, FinishKeepsHandling, BeginKeepsHandling,
             ProcessKeepsHandling
<1> QED BY <1>1, <1>2

(* Whatever is late, fails or crashes, and whatever administrators do: a   *)
(* call works on a payment of the table, a scan is not outdated where it   *)
(* matters, and a handling that has not failed left no winner out (the     *)
(* consumer's InitiatePayment and the recovery job of service.go).         *)
THEOREM HandlingIsSound == Spec => []HandlingInv
<1>1. Init => HandlingInv
  BY HandlingStarts
<1>2. HandlingInv /\ [Next]_vars => HandlingInv'
  BY NextKeepsHandling
<1> QED BY <1>1, <1>2, PTL DEF Spec

(* Every variable keeps the values of its stream, table or worker.         *)
THEOREM PaymentTypes == Spec => []TypeOK
<1>1. HandlingInv => TypeOK
  BY DEF HandlingInv
<1> QED BY <1>1, HandlingIsSound, PTL

(* The recovery job retries a payment at most maxRetries times, although   *)
(* it counts by what its last scan has read (RecoverStuckPayments).        *)
THEOREM RetriesStayCapped == Spec => []RetriesAreCapped
<1>1. HandlingInv => RetriesAreCapped
  BY DEF HandlingInv
<1> QED BY <1>1, HandlingIsSound, PTL

(* An event is acknowledged only when each of its winners has a payment,   *)
(* although calls for some of them fail (InitiatePayment and the consumer).*)
THEOREM AcksAreEarned == Spec => []AckedIsBilled
<1>1. HandlingInv => AckedIsBilled
  BY DEF HandlingInv
<1> QED BY <1>1, HandlingIsSound, PTL

-----------------------------------------------------------------------------
(* One payment per winner, without delays: BillingInv *)

(* One event is in the stream, and nothing outlasts the timeouts.          *)
InTime == Delays = {} /\ \A m, n \in Messages : m = n

MessageIsFree(m) ==
  index = DOMAIN payments /\ \A w \in Workers : worker[w].msg # m

LEMMA BillingParts ==
  ASSUME BillingInv
  PROVE  /\ HandlingInv /\ TypeOK /\ OnePaymentPerWinner
         /\ \A m \in Messages :
              /\ message[m].state = "new" =>
                   /\ payments = << >> /\ ~message[m].idle
                   /\ \A w \in Workers : worker[w].msg # m
              /\ message[m].idle \/ dispatched[m] > 0 => MessageIsFree(m)
              /\ message[m].idle => dispatched[m] = 0
              /\ dispatched[m] \in {0, 1}
         /\ \A m \in Messages : message[m].state = "new" => dispatched[m] = 0
<1>1. TypeOK /\ \A m \in Messages : message[m].state = "new" => dispatched[m] = 0
  BY DEF BillingInv, HandlingInv
<1>2. \A m \in Messages : dispatched[m] \in {0, 1}
  BY <1>1, PaymentsAssumption DEF TypeOK, BillingInv
<1> QED BY <1>1, <1>2 DEF BillingInv, MessageIsFree

(* No payment is added.                                                    *)
SameWinners ==
  /\ payments' \in Seq(Payment)
  /\ Len(payments') = Len(payments)
  /\ DOMAIN payments' = DOMAIN payments
  /\ \A q \in DOMAIN payments : payments'[q].winner = payments[q].winner

(* Steps that deliver nothing, create nothing and bill nobody.             *)
LEMMA QuietStepKeepsBilling ==
  ASSUME BillingInv, HandlingInv', SameWinners, index \subseteq index',
         \A m \in Messages :
           /\ message'[m].state = "new" => message[m].state = "new"
           /\ message'[m].idle => message[m].idle
           /\ dispatched'[m] = dispatched[m] \/ dispatched'[m] = 0,
         \A v \in Workers :
           \/ /\ worker'[v].msg = worker[v].msg
              /\ worker'[v].todo = worker[v].todo
           \/ worker'[v].msg = "none" /\ worker'[v].todo = {}
  PROVE  BillingInv'
<1>1. /\ payments \in Seq(Payment) /\ index \subseteq DOMAIN payments
      /\ payments' \in Seq(Payment) /\ index' \subseteq DOMAIN payments'
      /\ DOMAIN payments' = DOMAIN payments /\ Len(payments') = Len(payments)
  BY BillingParts DEF HandlingInv, TypeOK, SameWinners
<1>2. OnePaymentPerWinner'
  BY <1>1 DEF BillingInv, OnePaymentPerWinner, SameWinners
<1>3. payments = << >> => payments' = << >>
  BY <1>1
<1>4. index = DOMAIN payments => index' = DOMAIN payments'
  BY <1>1
<1>5. \A m \in Messages : \A v \in Workers :
        worker[v].msg # m /\ m # "none" => worker'[v].msg # m
  OBVIOUS
<1>6. \A m \in Messages : MessageIsFree(m) => MessageIsFree(m)'
  BY <1>4, <1>5, PaymentsAssumption DEF MessageIsFree
<1>7. ASSUME NEW m \in Messages
      PROVE  /\ message'[m].state = "new" =>
                  /\ payments' = << >> /\ ~message'[m].idle
                  /\ \A w \in Workers : worker'[w].msg # m
             /\ message'[m].idle \/ dispatched'[m] > 0 => MessageIsFree(m)'
             /\ message'[m].idle => dispatched'[m] = 0
             /\ dispatched'[m] <= 1
  <2>1. message'[m].state = "new" =>
          payments' = << >> /\ \A w \in Workers : worker'[w].msg # m
    BY <1>3, <1>5, BillingParts, PaymentsAssumption
  <2>2. message'[m].state = "new" => ~message'[m].idle
    BY BillingParts, Zenon
  <2>3. dispatched'[m] > 0 => dispatched[m] > 0
    BY BillingParts
  <2>4. message'[m].idle \/ dispatched'[m] > 0 => MessageIsFree(m)'
    BY <1>6, <2>3, BillingParts, Zenon
  <2>5. message'[m].idle => dispatched'[m] = 0
    BY BillingParts, Zenon
  <2>6. dispatched'[m] <= 1
    BY BillingParts
  <2> QED BY <2>1, <2>2, <2>4, <2>5, <2>6, Zenon
<1>8. \A v, w \in Workers :
        worker'[v].msg = worker'[w].msg /\ worker'[v].msg # "none" => v = w
  BY DEF BillingInv
<1>9. \A w \in Workers :
        /\ worker'[w].msg = "none" => worker'[w].todo = {}
        /\ \A p \in DOMAIN payments' : payments'[p].winner \notin worker'[w].todo
  BY <1>1 DEF BillingInv, SameWinners
<1> QED BY <1>2, <1>7, <1>8, <1>9, Zenon DEF BillingInv, MessageIsFree

LEMMA DeliveryKeepsBilling ==
  ASSUME BillingInv, HandlingInv', InTime, NEW m \in Messages,
         ReadMessage(m) \/ ReclaimMessage(m) \/ MessageGetsIdle(m)
  PROVE  BillingInv'
<1>1. /\ TypeOK /\ message[m] \in Message /\ dispatched[m] \in 0..MaxWaiting
      /\ message \in [Messages -> Message] /\ dispatched \in [Messages -> 0..MaxWaiting]
      /\ UNCHANGED <<payments, index, worker>>
  BY BillingParts DEF TypeOK, ReadMessage, ReclaimMessage, MessageGetsIdle, table
<1>2. message[m].state = "new" \/ message[m].idle => MessageIsFree(m)
  <2>1. message[m].idle => MessageIsFree(m)
    BY BillingParts, Zenon
  <2>2. CASE message[m].state = "new"
    <3>1. payments = << >> /\ \A w \in Workers : worker[w].msg # m
      BY <2>2, BillingParts, Zenon
    <3>2. index \subseteq DOMAIN payments /\ DOMAIN payments = {}
      BY <1>1, <3>1 DEF TypeOK
    <3> QED BY <3>1, <3>2 DEF MessageIsFree
  <2> QED BY <2>1, <2>2, Zenon
<1>3. /\ message'[m].state # "new"
      /\ MessageIsFree(m)
      /\ message'[m].idle => dispatched'[m] = 0
      /\ dispatched'[m] <= 1
  <2>1. CASE ReadMessage(m)
    <3>1. message[m].state = "new" /\ dispatched[m] = 0 /\ ~message[m].idle
      BY <2>1, BillingParts DEF ReadMessage
    <3>2. message'[m].state = "delivered" /\ dispatched'[m] = 1
      BY <1>1, <2>1, <3>1 DEF ReadMessage, Message
    <3>3. message'[m].idle = message[m].idle
      BY <1>1, <2>1 DEF ReadMessage, Message
    <3> QED BY <1>2, <3>1, <3>2, <3>3
  <2>2. CASE ReclaimMessage(m)
    <3>1. message[m].state = "delivered" /\ message[m].idle /\ dispatched[m] = 0
      BY <2>2, BillingParts DEF ReclaimMessage
    <3>2. message'[m].state = "delivered" /\ ~message'[m].idle /\ dispatched'[m] = 1
      BY <1>1, <2>2, <3>1 DEF ReclaimMessage, Message
    <3> QED BY <1>2, <3>1, <3>2
  <2>3. CASE MessageGetsIdle(m)
    <3>1. message[m].state = "delivered" /\ index = DOMAIN payments /\ ~Handled(m)
          /\ UNCHANGED dispatched
      BY <2>3 DEF MessageGetsIdle, InTime
    <3>2. message'[m].state = "delivered"
      BY <1>1, <2>3, <3>1 DEF MessageGetsIdle, Message
    <3>3. dispatched'[m] = 0
      BY <1>1, <3>1, PaymentsAssumption DEF Handled
    <3> QED BY <3>1, <3>2, <3>3 DEF Handled, MessageIsFree
  <2> QED BY <2>1, <2>2, <2>3
<1>4. MessageIsFree(m)' /\ OnePaymentPerWinner'
  BY <1>1, <1>3, BillingParts DEF MessageIsFree, OnePaymentPerWinner
<1>5. \A n \in Messages : n = m
  BY DEF InTime
<1>6. \A n \in Messages :
        /\ message'[n].state = "new" =>
             /\ payments' = << >> /\ ~message'[n].idle
             /\ \A w \in Workers : worker'[w].msg # n
        /\ message'[n].idle \/ dispatched'[n] > 0 => MessageIsFree(n)'
        /\ message'[n].idle => dispatched'[n] = 0
        /\ dispatched'[n] <= 1
  <2> SUFFICES ASSUME NEW n \in Messages
               PROVE  /\ message'[n].state # "new"
                      /\ MessageIsFree(n)'
                      /\ message'[n].idle => dispatched'[n] = 0
                      /\ dispatched'[n] <= 1
    BY Zenon
  <2>1. n = m
    BY <1>5
  <2> QED BY <1>3, <1>4, <2>1, Zenon
<1>7. /\ \A v, w \in Workers :
           worker'[v].msg = worker'[w].msg /\ worker'[v].msg # "none" => v = w
      /\ \A w \in Workers :
           /\ worker'[w].msg = "none" => worker'[w].todo = {}
           /\ \A p \in DOMAIN payments' : payments'[p].winner \notin worker'[w].todo
  BY <1>1 DEF BillingInv
<1> QED BY <1>4, <1>6, <1>7, Zenon DEF BillingInv, MessageIsFree

LEMMA InitiateKeepsBilling ==
  ASSUME BillingInv, HandlingInv', InTime, NEW w \in Consumers, NEW m \in Messages,
         InitiatePayment(w, m)
  PROVE  BillingInv'
<1>1. /\ TypeOK /\ w \in Workers /\ UNCHANGED <<message, payments, index>>
      /\ SameItems /\ m # "none"
  BY BillingParts, NoItemChanges, PaymentsAssumption
     DEF Workers, InitiatePayment, table, TypeOK
<1>2. /\ dispatched[m] > 0 /\ dispatched[m] = 1 /\ MessageIsFree(m)
      /\ ~message[m].idle /\ message[m].state # "new"
  BY BillingParts DEF InitiatePayment
<1>3. dispatched'[m] = 0
  BY <1>1, <1>2 DEF InitiatePayment, TypeOK
<1>4. \A n \in Messages : n = m
  BY DEF InTime
<1>5. StartsHandling(w, m)
  BY <1>1, InitiatePaymentDoes
<1>6. CASE UNCHANGED worker
  BY <1>1, <1>3, <1>4, <1>6, QuietStepKeepsBilling DEF SameItems, SameWinners
<1>7. CASE /\ OnlyMoves(w) /\ worker'[w].msg = m
           /\ worker'[w].todo = Winners \ Billed
  <2>1. \A p \in DOMAIN payments' : payments'[p].winner \notin worker'[w].todo
    BY <1>1, <1>2, <1>7 DEF MessageIsFree, Billed
  <2>2. \A v \in Workers : v # w => worker'[v] = worker[v] /\ worker'[v].msg # m
    BY <1>2, <1>7 DEF OnlyMoves, MessageIsFree
  <2>3. \A v \in Workers :
          /\ worker'[v].msg = "none" => worker'[v].todo = {}
          /\ \A p \in DOMAIN payments' : payments'[p].winner \notin worker'[v].todo
    BY <1>1, <1>7, <2>1, <2>2 DEF BillingInv
  <2>4. \A u, v \in Workers :
          worker'[u].msg = worker'[v].msg /\ worker'[u].msg # "none" => u = v
    BY <1>7, <2>2 DEF BillingInv
  <2>5. \A n \in Messages :
          /\ message'[n].state # "new" /\ ~message'[n].idle
          /\ dispatched'[n] = 0
    BY <1>1, <1>2, <1>3, <1>4
  <2>6. OnePaymentPerWinner'
    BY <1>1, BillingParts DEF OnePaymentPerWinner
  <2> QED BY <2>3, <2>4, <2>5, <2>6 DEF BillingInv
<1> QED BY <1>5, <1>6, <1>7 DEF StartsHandling

LEMMA CreateKeepsBilling ==
  ASSUME BillingInv, HandlingInv', InTime, NEW w \in Consumers, NEW b \in Winners,
         CreatePayment(w, b)
  PROVE  BillingInv'
<1>1. TypeOK /\ w \in Workers /\ worker[w] \in Worker /\ b \in worker[w].todo
  BY BillingParts DEF Workers, CreatePayment, TypeOK
<1>2. Bills(w, b)
  BY <1>1, CreatePaymentDoes
<1>3. worker[w].msg \in Messages
  BY <1>1 DEF Worker, BillingInv
<1>4. \A n \in Messages : n = worker[w].msg
  BY <1>3 DEF InTime
<1>5. \A n \in Messages :
        /\ message'[n].state # "new" /\ ~message'[n].idle /\ dispatched'[n] = 0
  <2>1. UNCHANGED <<message, dispatched>>
    BY <1>2 DEF Bills, CallFrame
  <2>2. ~MessageIsFree(worker[w].msg)
    BY <1>1 DEF MessageIsFree
  <2>3. \A n \in Messages : message[n].state # "new"
    BY <1>1, <1>4, BillingParts
  <2>4. \A n \in Messages : ~message[n].idle /\ dispatched[n] = 0
    BY <1>4, <2>2, BillingParts
  <2> QED BY <2>1, <2>3, <2>4
<1>6. \A v \in Workers : v # w =>
        worker'[v] = worker[v] /\ worker'[v].msg = "none" /\ worker'[v].todo = {}
  <2> SUFFICES ASSUME NEW v \in Workers, v # w
               PROVE  worker[v].msg = "none" /\ worker[v].todo = {}
    BY <1>2 DEF Bills, OnlyMoves
  <2>1. worker[v].msg \in Messages \cup {"none"}
    BY <1>1 DEF TypeOK, Worker
  <2>2. worker[v].msg # worker[w].msg
    BY <1>1, <1>3, PaymentsAssumption DEF BillingInv
  <2> QED BY <1>4, <2>1, <2>2 DEF BillingInv
<1>7. /\ worker'[w].msg = worker[w].msg /\ worker'[w].todo = worker[w].todo \ {b}
      /\ worker'[w].msg # "none"
  BY <1>2, <1>3, PaymentsAssumption DEF Bills
<1>8. \A p \in DOMAIN payments :
        payments[p].winner # b /\ payments[p].winner \notin worker[w].todo
  BY <1>1 DEF BillingInv
<1>9. /\ OnePaymentPerWinner'
      /\ \A p \in DOMAIN payments' : payments'[p].winner \notin worker'[w].todo
  <2>1. CASE UNCHANGED payments
    BY <1>7, <1>8, <2>1, BillingParts DEF OnePaymentPerWinner
  <2>2. CASE IsCreated(b)
    <3>1. payments'[Len(payments) + 1].winner = b
      BY <2>2 DEF IsCreated, NewPayment
    <3>2. OnePaymentPerWinner'
      BY <1>8, <2>2, <3>1, BillingParts DEF IsCreated, OnePaymentPerWinner
    <3> QED BY <1>7, <1>8, <2>2, <3>1, <3>2 DEF IsCreated
  <2> QED BY <1>2, <2>1, <2>2 DEF Bills
<1>10. /\ \A u, v \in Workers :
            worker'[u].msg = worker'[v].msg /\ worker'[u].msg # "none" => u = v
       /\ \A v \in Workers :
            /\ worker'[v].msg = "none" => worker'[v].todo = {}
            /\ \A p \in DOMAIN payments' : payments'[p].winner \notin worker'[v].todo
  BY <1>6, <1>7, <1>9
<1> QED BY <1>5, <1>9, <1>10 DEF BillingInv

(* The calls on payments, and the steps that take no event.                *)
LEMMA WorkKeepsBilling ==
  ASSUME BillingInv, HandlingInv', UNCHANGED <<message, dispatched, index>>, SameWinners,
         NEW w \in Workers, OnlyMoves(w),
         \/ worker'[w].msg = worker[w].msg /\ worker'[w].todo = worker[w].todo
         \/ worker'[w].msg = "none" /\ worker'[w].todo = {}
  PROVE  BillingInv'
<1>1. \A v \in Workers :
        \/ /\ worker'[v].msg = worker[v].msg
           /\ worker'[v].todo = worker[v].todo
        \/ worker'[v].msg = "none" /\ worker'[v].todo = {}
  BY DEF OnlyMoves
<1> QED BY <1>1, QuietStepKeepsBilling

LEMMA JobKeepsBilling ==
  ASSUME BillingInv, HandlingInv',
         \/ ScanStuck \/ FinishRecovery
         \/ \E t \in worker[Recovery].stuck :
              RetryStuck(t[1], t[2]) \/ AbandonStuck(t[1], t[2])
         \/ \E c \in AdminCalls : \E p \in DOMAIN payments :
              AdminProcess(c, p) \/ AdminRefund(c, p)
  PROVE  BillingInv'
<1>1. /\ TypeOK /\ payments \in Seq(Payment) /\ Recovery \in Workers
      /\ AdminCalls \subseteq Workers
      /\ \A t \in worker[Recovery].stuck : t[1] \in DOMAIN payments
  BY BillingParts DEF TypeOK, Workers, HandlingInv
<1>2. UNCHANGED payments => SameWinners
  BY <1>1 DEF SameWinners
<1>3. CASE ScanStuck
  <2>1. Scans /\ UNCHANGED <<message, dispatched, payments, index>>
    BY <1>1, <1>3, ScanStuckDoes DEF ScanStuck, queue, table
  <2> QED BY <1>1, <1>2, <2>1, WorkKeepsBilling DEF Scans
<1>4. CASE FinishRecovery
  <2>1. GetsIdle(Recovery) /\ UNCHANGED <<message, dispatched, payments, index>>
    BY <1>1, <1>4, BecomesIdle DEF FinishRecovery, queue, table
  <2> QED BY <1>1, <1>2, <2>1, WorkKeepsBilling DEF GetsIdle, Idle
<1>5. ASSUME NEW t \in worker[Recovery].stuck,
             RetryStuck(t[1], t[2]) \/ AbandonStuck(t[1], t[2])
      PROVE  BillingInv'
  <2>1. CASE RetryStuck(t[1], t[2])
    <3>1. Retries(t[1], t[2])
      BY <1>1, <2>1, RetryStuckDoes
    <3>2. SameWinners
      BY <1>1, <1>2, <3>1 DEF Retries, RetryIsAdded, SameWinners
    <3> QED BY <1>1, <3>1, <3>2, WorkKeepsBilling DEF Retries, TakesUp, CallFrame
  <2>2. CASE AbandonStuck(t[1], t[2])
    <3>1. Abandons(t[1], t[2])
      BY <1>1, <2>2, AbandonStuckDoes
    <3>2. SameWinners
      BY <1>2, <3>1 DEF Abandons, StatusIsSet, SameItems, SameWinners
    <3> QED BY <1>1, <3>1, <3>2, WorkKeepsBilling DEF Abandons, TakesUp, CallFrame
  <2> QED BY <1>5, <2>1, <2>2
<1>6. ASSUME NEW c \in AdminCalls, NEW p \in DOMAIN payments,
             AdminProcess(c, p) \/ AdminRefund(c, p)
      PROVE  BillingInv'
  <2>1. Begins(c, p) /\ UNCHANGED <<message, dispatched, payments, index>>
    BY <1>1, <1>6, AdminCallBegins DEF AdminProcess, AdminRefund, queue, table
  <2> QED BY <1>1, <1>2, <2>1, WorkKeepsBilling DEF Begins
<1> QED BY <1>3, <1>4, <1>5, <1>6

LEMMA ProcessKeepsBilling ==
  ASSUME BillingInv, HandlingInv', NEW w \in Workers, ProcessStep(w) \/ ApplyRefund(w)
  PROVE  BillingInv'
<1>1. CallStep(w)
  BY BillingParts, ACallIsMade, EachCallIsOne
<1>2. SameWinners
  BY <1>1 DEF CallStep, SameItems, SameWinners
<1> QED BY <1>1, <1>2, WorkKeepsBilling DEF CallStep, CallFrame, GoesOn, Returns

LEMMA RestKeepsBilling ==
  ASSUME BillingInv, HandlingInv',
         \/ \E p \in DOMAIN payments : PaymentGetsOld(p) \/ IndexCatchesUp(p)
         \/ \E w \in Consumers : FinishMessage(w)
         \/ Crash
  PROVE  BillingInv'
<1>1. /\ TypeOK /\ payments \in Seq(Payment) /\ Consumers \subseteq Workers
      /\ message \in [Messages -> Message]
  BY BillingParts DEF TypeOK, Workers
<1>2. UNCHANGED payments => SameWinners
  BY <1>1 DEF SameWinners
<1>3. ASSUME NEW p \in DOMAIN payments, PaymentGetsOld(p) \/ IndexCatchesUp(p)
      PROVE  BillingInv'
  <2>1. SameWinners /\ UNCHANGED <<message, dispatched, worker>> /\ index \subseteq index'
    BY <1>1, <1>2, <1>3, PaymentGetsOldDoes
       DEF ItemAges, SameItems, SameWinners, PaymentGetsOld, IndexCatchesUp, queue
  <2> QED BY <2>1, QuietStepKeepsBilling
<1>4. ASSUME NEW w \in Consumers, FinishMessage(w)
      PROVE  BillingInv'
  <2>1. GetsIdle(w) /\ UNCHANGED <<dispatched, payments, index>>
    BY <1>1, <1>4, BecomesIdle DEF FinishMessage, table
  <2>2. \A m \in Messages :
          \/ message'[m] = message[m]
          \/ message'[m].state = "acked" /\ message'[m].idle = FALSE
    BY <1>1, <1>4 DEF FinishMessage
  <2>3. \A m \in Messages :
          /\ message'[m].state = "new" => message[m].state = "new"
          /\ message'[m].idle => message[m].idle
    BY <2>2
  <2>4. \A v \in Workers :
          \/ worker'[v].msg = worker[v].msg /\ worker'[v].todo = worker[v].todo
          \/ worker'[v].msg = "none" /\ worker'[v].todo = {}
    BY <1>1, <2>1 DEF GetsIdle, OnlyMoves, Idle
  <2> QED BY <1>2, <2>1, <2>3, <2>4, QuietStepKeepsBilling
<1>5. CASE Crash
  <2>1. /\ CrashedWorkers /\ UNCHANGED <<message, payments, index>>
        /\ dispatched' = [m \in Messages |-> 0]
    BY <1>1, <1>5, CrashDoes
  <2> QED BY <1>2, <2>1, QuietStepKeepsBilling DEF CrashedWorkers
<1> QED BY <1>3, <1>4, <1>5

LEMMA NextKeepsBilling ==
  ASSUME InTime, BillingInv, [Next]_vars
  PROVE  BillingInv'
<1>1. HandlingInv'
  BY NextKeepsHandling DEF BillingInv
<1>2. CASE UNCHANGED vars
  <2>1. UNCHANGED <<message, dispatched, payments, index, worker>>
    BY <1>2 DEF vars
  <2>2. SameWinners
    BY <2>1, BillingParts DEF SameWinners, TypeOK
  <2> QED BY <1>1, <2>1, <2>2, QuietStepKeepsBilling
<1>3. CASE Next
  <2>1. AdminCalls \subseteq Workers
    BY DEF Workers
  <2> QED BY <1>1, <1>3, <2>1, StepIsOne, DeliveryKeepsBilling, InitiateKeepsBilling,
             CreateKeepsBilling, JobKeepsBilling, ProcessKeepsBilling, RestKeepsBilling
<1> QED BY <1>2, <1>3

LEMMA BillingStarts ==
  ASSUME Init
  PROVE  BillingInv
<1>1. /\ DOMAIN payments = {} /\ payments = << >>
      /\ \A m \in Messages : message[m].state = "new" /\ dispatched[m] = 0
      /\ \A w \in Workers : worker[w].msg = "none" /\ worker[w].todo = {}
  BY DEF Init, Idle
<1>2. \A m \in Messages : ~message[m].idle
  BY DEF Init
<1>3. HandlingInv
  BY HandlingStarts
<1> QED BY <1>1, <1>2, <1>3, PaymentsAssumption DEF BillingInv, OnePaymentPerWinner

(* While an event is handled within the minute after which it is claimed   *)
(* again, and the auction-index shows by then what was created: however    *)
(* often the event is delivered, and whatever fails or crashes on the way, *)
(* nobody is billed twice for it (InitiatePayment).                        *)
THEOREM NobodyIsBilledTwice ==
  ASSUME InTime
  PROVE  Spec => []OnePaymentPerWinner
<1>1. Init => BillingInv
  BY BillingStarts
<1>2. BillingInv /\ [Next]_vars => BillingInv'
  BY NextKeepsBilling
<1>3. BillingInv => OnePaymentPerWinner
  BY DEF BillingInv
<1> QED BY <1>1, <1>2, <1>3, PTL DEF Spec

-----------------------------------------------------------------------------
(* One worker at a time has a payment: SettlementInv *)

(* No worker outlasts the timeouts, and administrators stay out.           *)
Undisturbed == "worker" \notin Delays /\ AdminCalls = {}

(* The status follows the decision, or the last retry, and what is told    *)
(* follows the status.                                                     *)
ItemAgrees(p) ==
  /\ payments[p].status = "completed" => payments[p].decision = "success"
  /\ payments[p].status = "failed" =>
       payments[p].decision = "failed" \/ payments[p].retries >= maxRetries
  /\ <<"processed", p>> \in told => payments[p].status = "completed"
  /\ <<"failed", p>> \in told => payments[p].status = "failed"

(* What a worker holds and what is stored agrees.                          *)
WorkerAgrees(w) ==
  LET p == worker[w].pay IN p # 0 =>
  /\ ~payments[p].old
  /\ worker[w].stage \in {"load", "mark", "decide", "apply"} =>
       payments[p].status \in Unsettled
  /\ worker[w].stage \in {"mark", "decide", "apply"} =>
       worker[w].decision = payments[p].decision
  /\ worker[w].stage = "decide" => worker[w].decision = "none"
  /\ worker[w].stage = "apply" => worker[w].decision # "none"
  /\ worker[w].stage = "publish" => <<worker[w].kind, payments[p].status>> \in
       {<<"processed", "completed">>, <<"failed", "failed">>}

Held(p) == \E w \in Workers : worker[w].pay = p

StuckIsFree ==
  \A t \in worker[Recovery].stuck : payments[t[1]].status \in Unsettled /\ ~Held(t[1])

LEMMA SettlementParts ==
  ASSUME SettlementInv
  PROVE  /\ HandlingInv /\ TypeOK /\ StuckIsFree
         /\ \A p \in DOMAIN payments : ItemAgrees(p)
         /\ \A w \in Workers : WorkerAgrees(w)
         /\ \A v, w \in Workers :
              worker[v].pay = worker[w].pay /\ worker[v].pay # 0 => v = w
<1>1. \A p \in DOMAIN payments : ItemAgrees(p)
  BY DEF SettlementInv, ItemAgrees, StatusFollowsDecision
<1>2. \A w \in Workers : WorkerAgrees(w)
  BY DEF SettlementInv, WorkerAgrees
<1>3. StuckIsFree
  BY DEF SettlementInv, StuckIsFree, Held
<1> QED BY <1>1, <1>2, <1>3 DEF SettlementInv, HandlingInv

LEMMA PartsMakeSettlement ==
  ASSUME HandlingInv', StuckIsFree',
         \A p \in DOMAIN payments' : ItemAgrees(p)',
         \A w \in Workers : WorkerAgrees(w)',
         \A v, w \in Workers :
           worker'[v].pay = worker'[w].pay /\ worker'[v].pay # 0 => v = w
  PROVE  SettlementInv'
<1>1. StatusFollowsDecision'
  BY DEF StatusFollowsDecision, ItemAgrees
<1>2. EventsTellTheTruth'
  BY DEF EventsTellTheTruth, ItemAgrees
<1>3. \A p \in DOMAIN payments' :
        /\ <<"processed", p>> \in told' => payments'[p].status = "completed"
        /\ <<"failed", p>> \in told' => payments'[p].status = "failed"
  BY DEF ItemAgrees
<1>4. \A t \in worker'[Recovery].stuck :
        /\ payments'[t[1]].status \in Unsettled
        /\ \A w \in Workers : worker'[w].pay # t[1]
  BY DEF StuckIsFree, Held
<1> QED BY <1>1, <1>2, <1>3, <1>4 DEF SettlementInv, WorkerAgrees

(* A step of w, which may change p.                                        *)
Concerns(w, p) ==
  /\ OnlyMoves(w)
  /\ \A q \in DOMAIN payments : q # p => q \in DOMAIN payments' /\ payments'[q] = payments[q]
  /\ \A q \in DOMAIN payments' : q \in DOMAIN payments \/ q = p
  /\ \A q, kind : q # p => (<<kind, q>> \in told' <=> <<kind, q>> \in told)
  /\ \A v \in Workers : v # w /\ worker[v].pay # 0 =>
       worker[v].pay # p /\ worker[v].pay # worker'[w].pay

LEMMA StepKeepsSettlement ==
  ASSUME SettlementInv, HandlingInv', NEW w \in Workers, NEW p, Concerns(w, p),
         p \in DOMAIN payments' => ItemAgrees(p)', WorkerAgrees(w)', StuckIsFree'
  PROVE  SettlementInv'
<1>1. ASSUME NEW q \in DOMAIN payments'
      PROVE  ItemAgrees(q)'
  <2>1. CASE q = p
    BY <2>1
  <2>2. CASE q # p
    <3>1. ItemAgrees(q) /\ payments'[q] = payments[q]
      BY <2>2, SettlementParts DEF Concerns
    <3>2. \A kind : <<kind, q>> \in told' => <<kind, q>> \in told
      BY <2>2 DEF Concerns
    <3> QED BY <3>1, <3>2 DEF ItemAgrees
  <2> QED BY <2>1, <2>2
<1>2. ASSUME NEW v \in Workers
      PROVE  WorkerAgrees(v)'
  <2>1. CASE v = w
    BY <2>1
  <2>2. CASE v # w
    <3>1. WorkerAgrees(v) /\ worker'[v] = worker[v]
      BY <2>2, SettlementParts DEF Concerns, OnlyMoves
    <3>2. worker[v].pay # 0 => payments'[worker[v].pay] = payments[worker[v].pay]
      BY <2>2, SettlementParts DEF Concerns, HandlingInv
    <3> QED BY <3>1, <3>2 DEF WorkerAgrees
  <2> QED BY <2>1, <2>2
<1>3. \A u, v \in Workers :
        worker'[u].pay = worker'[v].pay /\ worker'[u].pay # 0 => u = v
  BY SettlementParts DEF Concerns, OnlyMoves
<1> QED BY <1>1, <1>2, <1>3, PartsMakeSettlement

(* The calls on a payment: nobody else has it.                             *)
LEMMA CallConcernsItsPayment ==
  ASSUME SettlementInv, NEW w \in Workers, worker[w].pay \in DOMAIN payments, CallStep(w),
         \A q \in DOMAIN payments : q # worker[w].pay => payments'[q] = payments[q],
         \A kind, q : q # worker[w].pay => (<<kind, q>> \in told' <=> <<kind, q>> \in told)
  PROVE  Concerns(w, worker[w].pay) /\ StuckIsFree'
<1> DEFINE p == worker[w].pay
<1>1. OnlyMoves(w) /\ worker'[w].pay \in {0, p} /\ worker'[w].stuck = worker[w].stuck
  BY DEF CallStep, Returns, GoesOn
<1>2. DOMAIN payments' = DOMAIN payments
  BY DEF CallStep, SameItems
<1>3. p # 0
  BY SettlementParts DEF TypeOK
<1>4. \A v \in Workers : v # w /\ worker[v].pay # 0 => worker[v].pay # p
  BY <1>3, SettlementParts
<1>5. Concerns(w, p)
  BY <1>1, <1>2, <1>3, <1>4 DEF Concerns
<1>6. worker'[Recovery].stuck = worker[Recovery].stuck
  BY <1>1, RecoveryIsNoConsumer DEF OnlyMoves
<1>7. ASSUME NEW t \in worker'[Recovery].stuck
      PROVE  payments'[t[1]].status \in Unsettled /\ ~Held(t[1])'
  <2>1. /\ t[1] \in DOMAIN payments /\ payments[t[1]].status \in Unsettled /\ ~Held(t[1])
    BY <1>6, SettlementParts DEF StuckIsFree, HandlingInv
  <2>2. t[1] # p /\ t[1] # 0
    BY <2>1, SettlementParts DEF Held, TypeOK
  <2> QED BY <1>1, <2>1, <2>2 DEF Held, OnlyMoves
<1> QED BY <1>5, <1>7 DEF StuckIsFree

LEMMA CallKeepsSettlement ==
  ASSUME SettlementInv, HandlingInv', NEW w \in Workers, ProcessStep(w)
  PROVE  SettlementInv'
<1>0. PICK p : p = worker[w].pay
  OBVIOUS
<1>1. /\ p = worker[w].pay /\ HandlingInv /\ p \in DOMAIN payments /\ p # 0 /\ ItemAgrees(p) /\ WorkerAgrees(w)
      /\ DOMAIN payments' = DOMAIN payments /\ CallStep(w)
  BY <1>0, SettlementParts, ACallIsMade, EachCallIsOne DEF CallStep, SameItems, TypeOK
<1>2. /\ Returns(w) => WorkerAgrees(w)'
      /\ GoesOn(w) => worker'[w].pay = p
  BY <1>1 DEF Returns, GoesOn, WorkerAgrees
<1>3. CASE worker[w].stage = "load" /\ LoadCall(w)
  <2>1. WorkerAgrees(w)' /\ ItemAgrees(p)'
    BY <1>1, <1>2, <1>3 DEF LoadCall, WorkerAgrees, ItemAgrees
  <2>2. Concerns(w, p) /\ StuckIsFree'
    BY <1>1, <1>3, CallConcernsItsPayment DEF LoadCall
  <2> QED BY <1>1, <2>1, <2>2, StepKeepsSettlement
<1>4. CASE worker[w].stage = "mark" /\ MarkCall(w)
  <2>1. payments[p].status \in Unsettled /\ worker[w].decision = payments[p].decision
    BY <1>1, <1>4 DEF WorkerAgrees
  <2>2. ItemAgrees(p)'
    <3>1. \/ UNCHANGED <<payments, told>>
          \/ payments'[p].status = "processing" /\ UNCHANGED told
      BY <1>1, <1>4 DEF MarkCall, StatusIsSet
    <3> QED BY <1>1, <2>1, <3>1 DEF ItemAgrees, Unsettled
  <2>3. WorkerAgrees(w)'
    BY <1>1, <1>2, <1>4, <2>1 DEF MarkCall, StatusIsSet, WorkerAgrees, Unsettled
  <2>4. Concerns(w, p) /\ StuckIsFree'
    BY <1>1, <1>4, CallConcernsItsPayment DEF MarkCall, StatusIsSet
  <2> QED BY <1>1, <2>2, <2>3, <2>4, StepKeepsSettlement
<1>5. CASE worker[w].stage = "decide" /\ DecideCall(w)
  <2>1. payments[p].status \in Unsettled
    BY <1>1, <1>5 DEF WorkerAgrees
  <2>2. ItemAgrees(p)'
    BY <1>1, <1>5, <2>1 DEF DecideCall, DecisionIsSet, ItemAgrees, Unsettled
  <2>3. WorkerAgrees(w)'
    BY <1>1, <1>2, <1>5, <2>1 DEF DecideCall, DecisionIsSet, WorkerAgrees, Decisions
  <2>4. Concerns(w, p) /\ StuckIsFree'
    BY <1>1, <1>5, CallConcernsItsPayment DEF DecideCall, DecisionIsSet
  <2> QED BY <1>1, <2>2, <2>3, <2>4, StepKeepsSettlement
<1>6. CASE worker[w].stage = "apply" /\ ApplyCall(w)
  <2>1. payments[p].status \in Unsettled /\ worker[w].decision = payments[p].decision
    BY <1>1, <1>6 DEF WorkerAgrees
  <2>2. ItemAgrees(p)'
    <3>1. worker[w].decision \in Decisions
      BY <1>1, <1>6 DEF WorkerAgrees, HandlingInv, TypeOK, Worker
    <3>2. UNCHANGED told /\ (UNCHANGED payments \/ StatusIsSet(p, Outcome(w)))
      BY <1>1, <1>6 DEF ApplyCall
    <3>3. payments'[p].status = "failed" => payments'[p].decision = "failed"
      BY <2>1, <3>1, <3>2 DEF StatusIsSet, Outcome, Decisions, Unsettled
    <3>4. payments'[p].status = "completed" => payments'[p].decision = "success"
      BY <2>1, <3>2 DEF StatusIsSet, Outcome, Unsettled
    <3>5. <<"processed", p>> \notin told' /\ <<"failed", p>> \notin told'
      BY <1>1, <2>1, <3>2 DEF ItemAgrees, Unsettled
    <3> QED BY <3>3, <3>4, <3>5 DEF ItemAgrees
  <2>3. WorkerAgrees(w)'
    BY <1>1, <1>2, <1>6, <2>1 DEF ApplyCall, Outcome, Report, StatusIsSet, WorkerAgrees
  <2>4. Concerns(w, p) /\ StuckIsFree'
    BY <1>1, <1>6, CallConcernsItsPayment DEF ApplyCall, StatusIsSet
  <2> QED BY <1>1, <2>2, <2>3, <2>4, StepKeepsSettlement
<1>7. CASE worker[w].stage = "publish" /\ PublishCall(w)
  <2>1. <<worker[w].kind, payments[p].status>> \in
          {<<"processed", "completed">>, <<"failed", "failed">>}
    BY <1>1, <1>7 DEF WorkerAgrees
  <2>2. ItemAgrees(p)'
    BY <1>1, <1>7, <2>1 DEF PublishCall, ItemAgrees
  <2>3. WorkerAgrees(w)'
    BY <1>2, <1>7 DEF PublishCall
  <2>4. Concerns(w, p) /\ StuckIsFree'
    BY <1>1, <1>7, CallConcernsItsPayment DEF PublishCall
  <2> QED BY <1>1, <2>2, <2>3, <2>4, StepKeepsSettlement
<1>8. \/ worker[w].stage = "load" /\ LoadCall(w)
      \/ worker[w].stage = "mark" /\ MarkCall(w)
      \/ worker[w].stage = "decide" /\ DecideCall(w)
      \/ worker[w].stage = "apply" /\ ApplyCall(w)
      \/ worker[w].stage = "publish" /\ PublishCall(w)
  BY <1>1, ACallIsMade DEF ProcessStep, LoadPayment, MarkProcessing, SetGatewayDecision,
     ApplyDecision, PublishOutcome
<1> QED BY <1>3, <1>4, <1>5, <1>6, <1>7, <1>8

(* The steps that leave the table and what is told alone.                  *)
LEMMA QuietStepKeepsSettlement ==
  ASSUME SettlementInv, HandlingInv', UNCHANGED <<payments, told>>,
         NEW w \in Workers, OnlyMoves(w),
         worker'[w].pay = 0 \/ worker'[w] = worker[w], StuckIsFree'
  PROVE  SettlementInv'
<1>1. 0 \notin DOMAIN payments
  BY SettlementParts DEF TypeOK
<1>2. WorkerAgrees(w)'
  BY SettlementParts DEF WorkerAgrees
<1>3. Concerns(w, 0)
  BY SettlementParts DEF Concerns
<1> QED BY <1>1, <1>2, <1>3, StepKeepsSettlement

LEMMA StuckStaysFree ==
  ASSUME SettlementInv, NEW w \in Workers \ {Recovery}, OnlyMoves(w),
         worker'[w].pay = 0 \/ worker'[w].pay = worker[w].pay,
         \A p \in DOMAIN payments : payments'[p].status = payments[p].status
  PROVE  StuckIsFree'
<1>1. worker'[Recovery].stuck = worker[Recovery].stuck
  BY RecoveryIsNoConsumer DEF OnlyMoves
<1> SUFFICES ASSUME NEW t \in worker'[Recovery].stuck
             PROVE  payments'[t[1]].status \in Unsettled /\ ~Held(t[1])'
  BY DEF StuckIsFree
<1>2. t[1] \in DOMAIN payments /\ payments[t[1]].status \in Unsettled /\ ~Held(t[1])
  BY <1>1, SettlementParts DEF StuckIsFree, HandlingInv
<1>3. t[1] # 0
  BY <1>2, SettlementParts DEF TypeOK
<1> QED BY <1>2, <1>3 DEF Held, OnlyMoves

LEMMA ConsumerKeepsSettlement ==
  ASSUME SettlementInv, HandlingInv', NEW w \in Consumers,
         (\E m \in Messages : InitiatePayment(w, m)) \/ FinishMessage(w)
  PROVE  SettlementInv'
<1>1. TypeOK /\ w \in Workers \ {Recovery}
  BY SettlementParts, PaymentsAssumption DEF Workers
<1>2. UNCHANGED <<payments, told>>
  BY DEF InitiatePayment, FinishMessage, table
<1>3. OnlyMoves(w) /\ (worker'[w].pay = 0 \/ worker'[w] = worker[w])
  <2>1. ASSUME NEW m \in Messages, InitiatePayment(w, m)
        PROVE  OnlyMoves(w) /\ (worker'[w].pay = 0 \/ worker'[w] = worker[w])
    BY <1>1, <2>1, InitiatePaymentDoes DEF StartsHandling, OnlyMoves, TypeOK
  <2>2. CASE FinishMessage(w)
    BY <1>1, <2>2, BecomesIdle DEF FinishMessage, GetsIdle, Idle
  <2> QED BY <2>1, <2>2
<1>4. StuckIsFree'
  BY <1>1, <1>2, <1>3, StuckStaysFree
<1> QED BY <1>1, <1>2, <1>3, <1>4, QuietStepKeepsSettlement

LEMMA CreateKeepsSettlement ==
  ASSUME SettlementInv, HandlingInv', NEW w \in Consumers, NEW b \in Winners,
         CreatePayment(w, b)
  PROVE  SettlementInv'
<1>1. /\ TypeOK /\ w \in Workers \ {Recovery} /\ payments \in Seq(Payment)
      /\ told \subseteq Kinds \X DOMAIN payments
      /\ \A v \in Workers : worker[v].pay \in DOMAIN payments \cup {0}
  BY SettlementParts, PaymentsAssumption DEF Workers, TypeOK, HandlingInv, Kinds
<1>2. Bills(w, b)
  BY <1>1, CreatePaymentDoes
<1>3. PICK p : p = Len(payments) + 1
  OBVIOUS
<1>4. p \notin DOMAIN payments /\ p # 0
  BY <1>1, <1>3
<1>5. p \in DOMAIN payments' => ItemAgrees(p)'
  <2>1. \A kind : <<kind, p>> \notin told'
    BY <1>1, <1>2, <1>4 DEF Bills
  <2>2. p \in DOMAIN payments' => payments'[p].status = "pending"
    BY <1>2, <1>3, <1>4 DEF Bills, IsCreated, NewPayment
  <2> QED BY <2>1, <2>2 DEF ItemAgrees
<1>6. /\ DOMAIN payments \subseteq DOMAIN payments'
      /\ \A q \in DOMAIN payments : payments'[q] = payments[q]
      /\ DOMAIN payments' \subseteq DOMAIN payments \cup {p}
  BY <1>2, <1>3 DEF Bills, IsCreated
<1>7. /\ OnlyMoves(w) /\ UNCHANGED told
      /\ worker'[w].pay = p \/ worker'[w].pay = worker[w].pay
  BY <1>2, <1>3 DEF Bills
<1>8. Concerns(w, p)
  BY <1>1, <1>4, <1>6, <1>7, SettlementParts DEF Concerns
<1>9. WorkerAgrees(w)'
  <2>1. CASE IsCreated(b) /\ worker'[w].stage = "load" /\ worker'[w].pay = p
    <3>1. payments'[p] = NewPayment(b)
      BY <1>3, <2>1 DEF IsCreated
    <3>2. payments'[p].status = "pending"
      BY <3>1 DEF NewPayment
    <3>3. ~payments'[p].old
      BY <3>1 DEF NewPayment
    <3> QED BY <2>1, <3>2, <3>3 DEF WorkerAgrees, Unsettled
  <2>2. CASE worker'[w].stage = "next" /\ worker'[w].pay = worker[w].pay
    <3>1. worker[w].pay # 0 => ~payments[worker[w].pay].old
      BY <1>1, SettlementParts DEF WorkerAgrees
    <3>2. worker[w].pay # 0 => payments'[worker[w].pay] = payments[worker[w].pay]
      BY <1>1, <1>6
    <3> QED BY <2>2, <3>1, <3>2 DEF WorkerAgrees
  <2> QED BY <1>2, <1>3, <2>1, <2>2 DEF Bills
<1>10. StuckIsFree'
  <2>1. worker'[Recovery].stuck = worker[Recovery].stuck
    BY <1>1, <1>7, RecoveryIsNoConsumer DEF OnlyMoves
  <2> SUFFICES ASSUME NEW t \in worker'[Recovery].stuck
               PROVE  payments'[t[1]].status \in Unsettled /\ ~Held(t[1])'
    BY DEF StuckIsFree
  <2>2. t[1] \in DOMAIN payments /\ payments[t[1]].status \in Unsettled /\ ~Held(t[1])
    BY <2>1, SettlementParts DEF StuckIsFree, HandlingInv
  <2>3. t[1] # p
    BY <1>4, <2>2
  <2> QED BY <1>6, <1>7, <2>2, <2>3 DEF Held, OnlyMoves
<1> QED BY <1>1, <1>5, <1>8, <1>9, <1>10, StepKeepsSettlement

(* The recovery job takes up a payment that nobody has.                    *)
LEMMA TakingUpConcerns ==
  ASSUME SettlementInv, NEW p, NEW retries, TakesUp(p, retries),
         DOMAIN payments' = DOMAIN payments,
         \A q \in DOMAIN payments : q # p => payments'[q] = payments[q],
         worker'[Recovery].pay = p \/ worker'[Recovery].pay = worker[Recovery].pay
  PROVE  /\ p \in DOMAIN payments /\ p # 0 /\ payments[p].status \in Unsettled
         /\ ~Held(p) /\ ItemAgrees(p) /\ payments[p].retries = retries
         /\ Concerns(Recovery, p) /\ StuckIsFree'
<1>1. /\ HandlingInv /\ Recovery \in Workers /\ worker[Recovery].stuck \subseteq PaymentIds \X Nat
      /\ OnlyMoves(Recovery) /\ UNCHANGED told
      /\ <<p, retries>> \in worker[Recovery].stuck
  BY RecoveryIsNoConsumer, SettlementParts DEF TypeOK, Worker, TakesUp
<1>2. /\ p \in DOMAIN payments /\ payments[p].status \in Unsettled /\ ~Held(p)
      /\ payments[p].retries = retries
  BY <1>1, SettlementParts DEF StuckIsFree, HandlingInv
<1>3. p # 0 /\ ItemAgrees(p)
  BY <1>2, SettlementParts DEF TypeOK
<1>4. Concerns(Recovery, p)
  BY <1>1, <1>2, SettlementParts DEF Concerns, Held
<1>5. ASSUME NEW t \in worker'[Recovery].stuck
      PROVE  payments'[t[1]].status \in Unsettled /\ ~Held(t[1])'
  <2>1. t \in worker[Recovery].stuck /\ t # <<p, retries>>
    BY <1>5 DEF TakesUp
  <2>2. /\ t[1] \in DOMAIN payments /\ payments[t[1]].retries = t[2]
        /\ payments[t[1]].status \in Unsettled /\ ~Held(t[1])
    BY <2>1, SettlementParts DEF StuckIsFree, HandlingInv
  <2>3. t[1] # p
    <3>1. t = <<t[1], t[2]>>
      BY <1>1, <2>1
    <3> QED BY <1>2, <2>1, <2>2, <3>1
  <2> QED BY <1>1, <2>2, <2>3 DEF Held, OnlyMoves
<1> QED BY <1>2, <1>3, <1>4, <1>5 DEF StuckIsFree

LEMMA TakingUpKeepsSettlement ==
  ASSUME SettlementInv, HandlingInv', NEW p \in DOMAIN payments, NEW retries,
         RetryStuck(p, retries) \/ AbandonStuck(p, retries)
  PROVE  SettlementInv'
<1>1. TypeOK /\ payments \in Seq(Payment)
  BY SettlementParts DEF TypeOK
<1>2. worker[Recovery].pay # 0 => ~payments[worker[Recovery].pay].old
  BY RecoveryIsNoConsumer, SettlementParts DEF WorkerAgrees
<1>3. CASE RetryStuck(p, retries)
  <2>1. Retries(p, retries)
    BY <1>1, <1>3, RetryStuckDoes
  <2>2. /\ payments[p].status \in Unsettled /\ ~Held(p) /\ ItemAgrees(p) /\ p # 0
        /\ Concerns(Recovery, p) /\ StuckIsFree'
    BY <2>1, TakingUpConcerns DEF Retries, RetryIsAdded
  <2>3. ItemAgrees(p)'
    <3>1. payments'[p].status = payments[p].status /\ UNCHANGED told
      BY <2>1 DEF Retries, RetryIsAdded, TakesUp
    <3> QED BY <2>2, <3>1 DEF ItemAgrees, Unsettled
  <2>4. WorkerAgrees(Recovery)'
    <3>1. CASE /\ RetryIsAdded(p)
               /\ worker'[Recovery].stage = "load" /\ worker'[Recovery].pay = p
      BY <2>2, <3>1 DEF RetryIsAdded, WorkerAgrees
    <3>2. CASE /\ worker'[Recovery].stage = "next"
               /\ worker'[Recovery].pay = worker[Recovery].pay
      <4>1. worker[Recovery].pay # 0 =>
              payments'[worker[Recovery].pay] = payments[worker[Recovery].pay]
        BY <2>1, <2>2, RecoveryIsNoConsumer, SettlementParts
           DEF Retries, RetryIsAdded, Held, HandlingInv
      <4> QED BY <1>2, <3>2, <4>1 DEF WorkerAgrees
    <3> QED BY <2>1, <3>1, <3>2 DEF Retries
  <2> QED BY <2>2, <2>3, <2>4, RecoveryIsNoConsumer, StepKeepsSettlement
<1>4. CASE AbandonStuck(p, retries)
  <2>1. Abandons(p, retries)
    BY <1>1, <1>4, AbandonStuckDoes
  <2>2. /\ payments[p].status \in Unsettled /\ ~Held(p) /\ ItemAgrees(p) /\ p # 0
        /\ payments[p].retries >= maxRetries
        /\ Concerns(Recovery, p) /\ StuckIsFree'
    BY <2>1, TakingUpConcerns DEF Abandons, StatusIsSet, SameItems
  <2>3. ItemAgrees(p)'
    <3>1. UNCHANGED told /\ payments'[p].retries >= maxRetries
      BY <2>1, <2>2 DEF Abandons, StatusIsSet, SameItems, TakesUp
    <3>2. payments'[p].status \in Unsettled \cup {"failed"}
      BY <2>1, <2>2 DEF Abandons, StatusIsSet
    <3> QED BY <2>2, <3>1, <3>2 DEF ItemAgrees, Unsettled
  <2>4. WorkerAgrees(Recovery)'
    <3>1. CASE /\ StatusIsSet(p, "failed")
               /\ worker'[Recovery].stage = "publish" /\ worker'[Recovery].pay = p
               /\ worker'[Recovery].kind = "failed"
      BY <3>1 DEF StatusIsSet, WorkerAgrees
    <3>2. CASE /\ worker'[Recovery].stage = "next"
               /\ worker'[Recovery].pay = worker[Recovery].pay
      <4>1. worker[Recovery].pay # 0 =>
              payments'[worker[Recovery].pay] = payments[worker[Recovery].pay]
        BY <2>1, <2>2, RecoveryIsNoConsumer, SettlementParts
           DEF Abandons, StatusIsSet, Held, HandlingInv
      <4> QED BY <1>2, <3>2, <4>1 DEF WorkerAgrees
    <3> QED BY <2>1, <3>1, <3>2 DEF Abandons
  <2> QED BY <2>2, <2>3, <2>4, RecoveryIsNoConsumer, StepKeepsSettlement
<1> QED BY <1>3, <1>4

LEMMA ScanKeepsSettlement ==
  ASSUME SettlementInv, HandlingInv', ScanStuck \/ FinishRecovery
  PROVE  SettlementInv'
<1>1. TypeOK /\ Recovery \in Workers
  BY SettlementParts, RecoveryIsNoConsumer
<1>2. CASE ScanStuck
  <2>1. Scans /\ UNCHANGED <<payments, told>>
    BY <1>1, <1>2, ScanStuckDoes DEF ScanStuck, table
  <2>2. ASSUME NEW t \in worker'[Recovery].stuck, NEW w \in Workers, worker'[w].pay = t[1]
        PROVE  FALSE
    <3>1. t[1] \in DOMAIN payments /\ payments[t[1]].old /\ t[1] # 0
      BY <2>1, <2>2, <1>1 DEF Scans, TypeOK
    <3>2. w # Recovery /\ worker[w].pay = t[1]
      BY <2>1, <2>2, <3>1 DEF Scans, OnlyMoves
    <3> QED BY <3>1, <3>2, SettlementParts DEF WorkerAgrees
  <2>3. StuckIsFree'
    BY <2>1, <2>2 DEF Scans, StuckIsFree, Held
  <2> QED BY <1>1, <2>1, <2>3, QuietStepKeepsSettlement DEF Scans
<1>3. CASE FinishRecovery
  <2>1. GetsIdle(Recovery) /\ UNCHANGED <<payments, told>>
    BY <1>1, <1>3, BecomesIdle DEF FinishRecovery, table
  <2>2. StuckIsFree'
    BY <2>1 DEF GetsIdle, Idle, StuckIsFree
  <2> QED BY <1>1, <2>1, <2>2, QuietStepKeepsSettlement DEF GetsIdle, Idle
<1> QED BY <1>2, <1>3

(* A payment gets old only while nobody has it.                            *)
LEMMA AgeingKeepsSettlement ==
  ASSUME Undisturbed, SettlementInv, HandlingInv', NEW p \in DOMAIN payments,
         PaymentGetsOld(p)
  PROVE  SettlementInv'
<1>1. TypeOK /\ Recovery \in Workers /\ p # 0 /\ ItemAgrees(p)
  BY SettlementParts, RecoveryIsNoConsumer DEF TypeOK
<1>2. ItemAges(p) /\ UNCHANGED <<worker, told>> /\ ~Held(p)
  BY <1>1, PaymentGetsOldDoes DEF PaymentGetsOld, Undisturbed, Held
<1>3. OnlyMoves(Recovery)
  BY <1>1, <1>2 DEF OnlyMoves, TypeOK
<1>4. Concerns(Recovery, p)
  BY <1>1, <1>2, <1>3, SettlementParts DEF Concerns, ItemAges, SameItems, Held
<1>5. ItemAgrees(p)'
  BY <1>1, <1>2 DEF ItemAges, SameItems, ItemAgrees
<1>6. WorkerAgrees(Recovery)'
  <2>1. worker[Recovery].pay # 0 =>
          payments'[worker[Recovery].pay] = payments[worker[Recovery].pay]
    BY <1>1, <1>2, SettlementParts DEF ItemAges, Held, HandlingInv
  <2>2. WorkerAgrees(Recovery)
    BY <1>1, SettlementParts
  <2> QED BY <1>2, <2>1, <2>2 DEF WorkerAgrees
<1>7. StuckIsFree'
  <2>1. \A t \in worker[Recovery].stuck : t[1] \in DOMAIN payments
    BY SettlementParts DEF HandlingInv
  <2>2. \A q \in DOMAIN payments : payments'[q].status = payments[q].status
    BY <1>2 DEF ItemAges
  <2> QED BY <1>2, <2>1, <2>2, SettlementParts DEF StuckIsFree, Held
<1> QED BY <1>1, <1>4, <1>5, <1>6, <1>7, StepKeepsSettlement

LEMMA UnmovedKeepsSettlement ==
  ASSUME SettlementInv, HandlingInv', UNCHANGED <<payments, worker, told>>
  PROVE  SettlementInv'
<1>1. OnlyMoves(Recovery) /\ StuckIsFree'
  BY SettlementParts DEF OnlyMoves, TypeOK, StuckIsFree, Held
<1> QED BY <1>1, RecoveryIsNoConsumer, QuietStepKeepsSettlement

LEMMA CrashKeepsSettlement ==
  ASSUME SettlementInv, HandlingInv', Crash
  PROVE  SettlementInv'
<1>1. CrashedWorkers /\ UNCHANGED <<payments, told>>
  BY CrashDoes, SettlementParts
<1>2. \A p \in DOMAIN payments' : ItemAgrees(p)'
  BY <1>1, SettlementParts DEF ItemAgrees
<1>3. /\ \A w \in Workers : WorkerAgrees(w)' /\ worker'[w].pay = 0
      /\ StuckIsFree'
  BY <1>1, RecoveryIsNoConsumer DEF CrashedWorkers, WorkerAgrees, StuckIsFree
<1> QED BY <1>2, <1>3, PartsMakeSettlement

LEMMA NextKeepsSettlement ==
  ASSUME Undisturbed, SettlementInv, [Next]_vars
  PROVE  SettlementInv'
<1>1. HandlingInv'
  BY NextKeepsHandling, SettlementParts
<1>2. CASE UNCHANGED vars
  BY <1>1, <1>2, UnmovedKeepsSettlement DEF vars
<1>3. CASE Next
  <2>1. \A t \in worker[Recovery].stuck : t[1] \in DOMAIN payments
    BY SettlementParts DEF HandlingInv
  <2>2. ASSUME NEW m \in Messages,
               ReadMessage(m) \/ ReclaimMessage(m) \/ MessageGetsIdle(m)
        PROVE  SettlementInv'
    BY <1>1, <2>2, UnmovedKeepsSettlement DEF ReadMessage, ReclaimMessage, MessageGetsIdle, table
  <2>3. ASSUME NEW p \in DOMAIN payments, IndexCatchesUp(p)
        PROVE  SettlementInv'
    BY <1>1, <2>3, UnmovedKeepsSettlement DEF IndexCatchesUp
  <2> QED BY <1>1, <1>3, <2>1, <2>2, <2>3, StepIsOne, AgeingKeepsSettlement,
             ScanKeepsSettlement, TakingUpKeepsSettlement, CrashKeepsSettlement,
             ConsumerKeepsSettlement, CreateKeepsSettlement, CallKeepsSettlement
          DEF Undisturbed
<1> QED BY <1>2, <1>3

LEMMA SettlementStarts ==
  ASSUME Init
  PROVE  SettlementInv
<1>1. DOMAIN payments = {} /\ \A w \in Workers : worker[w].pay = 0 /\ worker[w].stuck = {}
  BY DEF Init, Idle
<1>2. HandlingInv
  BY HandlingStarts
<1> QED BY <1>1, <1>2, RecoveryIsNoConsumer
        DEF SettlementInv, StatusFollowsDecision, EventsTellTheTruth

(* As long as no worker outlasts the timeouts and no administrator steps   *)
(* in: one worker at a time has a payment; its event reports the stored    *)
(* status, and that follows the stored decision unless the payment was     *)
(* given up after the last retry, wherever a call fails or the service     *)
(* stops (ProcessPayment, RecoverStuckPayments and AbandonPayment).        *)
THEOREM SettlementIsSound ==
  ASSUME Undisturbed
  PROVE  Spec => []SettlementInv
<1>1. Init => SettlementInv
  BY SettlementStarts
<1>2. SettlementInv /\ [Next]_vars => SettlementInv'
  BY NextKeepsSettlement
<1> QED BY <1>1, <1>2, PTL DEF Spec

-----------------------------------------------------------------------------
(* The ledger of bills *)

(* Nothing that the ledger tells apart changes.                            *)
TableStays ==
  /\ SameWinners
  /\ \A q \in DOMAIN payments :
       /\ payments'[q].status = payments[q].status
            \/ {payments'[q].status, payments[q].status} \subseteq Unsettled
       /\ payments[q].decision # "none" => payments'[q].decision = payments[q].decision

Settles(p) ==
  /\ SameWinners
  /\ payments[p].status \in Unsettled /\ payments'[p].status \in {"completed", "failed"}
  /\ payments'[p].decision = payments[p].decision
  /\ \A q \in DOMAIN payments : q # p => payments'[q] = payments[q]

LEMMA UnchangedTableStays ==
  ASSUME payments \in Seq(Payment), UNCHANGED payments
  PROVE  TableStays
  BY DEF TableStays, SameWinners

LEMMA CallOnTable ==
  ASSUME SettlementInv, NEW w \in Workers, ProcessStep(w)
  PROVE  TableStays \/ \E p \in DOMAIN payments : Settles(p)
<1>1. PICK p : p = worker[w].pay
  OBVIOUS
<1>2. /\ p \in DOMAIN payments /\ p # 0 /\ WorkerAgrees(w) /\ payments \in Seq(Payment)
      /\ \/ worker[w].stage = "load" /\ LoadCall(w)
         \/ worker[w].stage = "mark" /\ MarkCall(w)
         \/ worker[w].stage = "decide" /\ DecideCall(w)
         \/ worker[w].stage = "apply" /\ ApplyCall(w)
         \/ worker[w].stage = "publish" /\ PublishCall(w)
         \/ worker[w].stage = "refunding" /\ RefundCall(w)
  BY <1>1, ACallIsMade, SettlementParts DEF TypeOK
<1>3. worker[w].stage # "refunding"
  BY DEF ProcessStep, LoadPayment, MarkProcessing, SetGatewayDecision, ApplyDecision,
         PublishOutcome
<1>4. UNCHANGED payments => TableStays
  BY <1>2, UnchangedTableStays
<1>5. CASE worker[w].stage = "mark" /\ MarkCall(w)
  <2>1. payments[p].status \in Unsettled
    BY <1>1, <1>2, <1>5 DEF WorkerAgrees
  <2>2. StatusIsSet(p, "processing") => TableStays
    BY <2>1 DEF StatusIsSet, SameItems, SameWinners, TableStays, Unsettled
  <2> QED BY <1>1, <1>4, <1>5, <2>2 DEF MarkCall
<1>6. CASE worker[w].stage = "decide" /\ DecideCall(w)
  <2>1. payments[p].decision = "none"
    BY <1>1, <1>2, <1>6 DEF WorkerAgrees
  <2>2. ASSUME NEW d, DecisionIsSet(p, d)
        PROVE  TableStays
    BY <2>1, <2>2 DEF DecisionIsSet, SameItems, SameWinners, TableStays
  <2> QED BY <1>1, <1>4, <1>6, <2>2 DEF DecideCall
<1>7. CASE worker[w].stage = "apply" /\ ApplyCall(w)
  <2>1. payments[p].status \in Unsettled
    BY <1>1, <1>2, <1>7 DEF WorkerAgrees
  <2>2. StatusIsSet(p, Outcome(w)) => Settles(p)
    BY <2>1 DEF StatusIsSet, SameItems, SameWinners, Settles, Outcome
  <2> QED BY <1>1, <1>2, <1>4, <1>7, <2>2 DEF ApplyCall
<1> QED BY <1>2, <1>3, <1>4, <1>5, <1>6, <1>7 DEF LoadCall, PublishCall

LEMMA StepOnTable ==
  ASSUME Undisturbed, SettlementInv, [Next]_vars
  PROVE  \/ TableStays
         \/ \E p \in DOMAIN payments : Settles(p)
         \/ \E b \in Winners : IsCreated(b)
<1>1. TypeOK /\ payments \in Seq(Payment)
  BY SettlementParts DEF TypeOK
<1>2. UNCHANGED payments => TableStays
  BY <1>1, UnchangedTableStays
<1>3. CASE UNCHANGED vars
  BY <1>2, <1>3 DEF vars
<1>4. ASSUME NEW p \in DOMAIN payments, PaymentGetsOld(p)
      PROVE  TableStays
  BY <1>1, <1>4, PaymentGetsOldDoes DEF ItemAges, SameItems, SameWinners, TableStays
<1>5. ASSUME NEW p \in DOMAIN payments, NEW retries, RetryStuck(p, retries)
      PROVE  TableStays
  <2>1. RetryIsAdded(p) => TableStays
    BY DEF RetryIsAdded, SameWinners, TableStays
  <2> QED BY <1>1, <1>2, <1>5, <2>1, RetryStuckDoes DEF Retries
<1>6. ASSUME NEW p \in DOMAIN payments, NEW retries, AbandonStuck(p, retries)
      PROVE  TableStays \/ Settles(p)
  <2>1. Abandons(p, retries)
    BY <1>1, <1>6, AbandonStuckDoes
  <2>2. StatusIsSet(p, "failed") => Settles(p)
    <3>1. CASE StatusIsSet(p, "failed")
      <4>1. payments[p].status \in Unsettled
        BY <2>1, SettlementParts DEF Abandons, TakesUp, StuckIsFree
      <4> QED BY <3>1, <4>1 DEF StatusIsSet, SameItems, SameWinners, Settles
    <3> QED BY <3>1
  <2> QED BY <1>2, <2>1, <2>2 DEF Abandons
<1>7. ASSUME NEW w \in Consumers, NEW b \in Winners, CreatePayment(w, b)
      PROVE  TableStays \/ IsCreated(b)
  <2>1. w \in Workers
    BY DEF Workers
  <2> QED BY <1>1, <1>2, <1>7, <2>1, CreatePaymentDoes DEF Bills
<1>8. CASE Next
  <2>1. \A t \in worker[Recovery].stuck : t[1] \in DOMAIN payments
    BY SettlementParts DEF HandlingInv
  <2>2. ASSUME NEW m \in Messages,
               ReadMessage(m) \/ ReclaimMessage(m) \/ MessageGetsIdle(m)
        PROVE  UNCHANGED payments
    BY <2>2 DEF ReadMessage, ReclaimMessage, MessageGetsIdle, table
  <2>3. ASSUME NEW p, IndexCatchesUp(p)
        PROVE  UNCHANGED payments
    BY <2>3 DEF IndexCatchesUp
  <2>4. ScanStuck \/ FinishRecovery \/ Crash => UNCHANGED payments
    BY DEF ScanStuck, FinishRecovery, Crash, table
  <2>5. ASSUME NEW w, (\E m \in Messages : InitiatePayment(w, m)) \/ FinishMessage(w)
        PROVE  UNCHANGED payments
    BY <2>5 DEF InitiatePayment, FinishMessage, table
  <2> QED BY <1>2, <1>4, <1>5, <1>6, <1>7, <1>8, <2>1, <2>2, <2>3, <2>4, <2>5,
             StepIsOne, CallOnTable DEF Undisturbed
<1> QED BY <1>3, <1>8

(* The gateway is asked once: what it decided is never overwritten, on any *)
(* retry and after any crash, as long as no worker outlasts the timeouts   *)
(* (SetGatewayDecision and the branch of ProcessPayment that resumes).     *)
THEOREM DecisionsStand ==
  ASSUME Undisturbed
  PROVE  Spec => DecisionStands
<1>1. ASSUME SettlementInv, [Next]_vars
      PROVE  [\A p \in DOMAIN payments : payments[p].decision # "none" =>
                payments'[p].decision = payments[p].decision]_payments
  BY <1>1, StepOnTable DEF TableStays, Settles, IsCreated
<1> QED BY <1>1, SettlementIsSound, PTL DEF Spec, DecisionStands

(* The bill of b in a table.                                               *)
BillIn(items, b) ==
  LET mine == {p \in DOMAIN items : items[p].winner = b} IN
  CASE mine = {}             -> "none"
    [] Cardinality(mine) > 1 -> "twice"
    [] OTHER -> LET status == items[CHOOSE p \in mine : TRUE].status IN
                IF status \in Unsettled THEN "due" ELSE status

ShownAs(status) == IF status \in Unsettled THEN "due" ELSE status

LEMMA BillOfOne ==
  ASSUME NEW items, NEW p \in DOMAIN items, NEW b, items[p].winner = b,
         \A q \in DOMAIN items : items[q].winner = b => q = p
  PROVE  BillIn(items, b) = ShownAs(items[p].status)
<1> DEFINE mine == {q \in DOMAIN items : items[q].winner = b}
<1>1. mine = {p}
  OBVIOUS
<1>2. Cardinality(mine) = 1
  BY <1>1, FS_Singleton
<1>3. (CHOOSE q \in mine : TRUE) = p
  BY <1>1
<1>4. ~(Cardinality(mine) > 1) /\ mine # {}
  BY <1>1, <1>2
<1> QED BY <1>3, <1>4 DEF BillIn, ShownAs

LEMMA BillOfNone ==
  ASSUME NEW items, NEW b, \A q \in DOMAIN items : items[q].winner # b
  PROVE  BillIn(items, b) = "none"
<1> DEFINE mine == {q \in DOMAIN items : items[q].winner = b}
<1>1. mine = {}
  OBVIOUS
<1>2. ~(Cardinality(mine) > 1)
  BY <1>1, FS_EmptySet
<1> QED BY <1>1, <1>2 DEF BillIn

(* The bills that a step leaves as they are.                               *)
LEMMA SameBill ==
  ASSUME OnePaymentPerWinner, OnePaymentPerWinner', NEW b,
         \A q \in DOMAIN payments :
           /\ q \in DOMAIN payments'
           /\ payments'[q].winner = payments[q].winner
           /\ payments[q].winner = b =>
                ShownAs(payments'[q].status) = ShownAs(payments[q].status),
         \A q \in DOMAIN payments' : payments'[q].winner = b => q \in DOMAIN payments
  PROVE  BillIn(payments', b) = BillIn(payments, b)
<1>1. CASE HasPayment(b)
  <2>1. PICK p \in DOMAIN payments : payments[p].winner = b
    BY <1>1 DEF HasPayment
  <2>2. BillIn(payments, b) = ShownAs(payments[p].status)
    BY <2>1, BillOfOne DEF OnePaymentPerWinner
  <2>3. BillIn(payments', b) = ShownAs(payments'[p].status)
    BY <2>1, BillOfOne DEF OnePaymentPerWinner
  <2> QED BY <2>1, <2>2, <2>3
<1>2. CASE ~HasPayment(b)
  BY <1>2, BillOfNone DEF HasPayment
<1> QED BY <1>1, <1>2

LEMMA StepImplementsLedger ==
  ASSUME Undisturbed, SettlementInv, OnePaymentPerWinner, OnePaymentPerWinner', [Next]_vars
  PROVE  [Ledger!Next]_([b \in Winners |-> Bill(b)])
<1> DEFINE charge == [b \in Winners |-> BillIn(payments, b)]
           after  == [b \in Winners |-> BillIn(payments', b)]
<1>1. /\ charge = [b \in Winners |-> Bill(b)]
      /\ after = [b \in Winners |-> Bill(b)]'
  BY DEF BillIn, Bill
<1>2. CASE TableStays
  <2>1. \A q \in DOMAIN payments : ShownAs(payments'[q].status) = ShownAs(payments[q].status)
    BY <1>2 DEF TableStays, ShownAs
  <2>2. \A b \in Winners : BillIn(payments', b) = BillIn(payments, b)
    BY <1>2, <2>1, SameBill DEF TableStays, SameWinners
  <2>3. after = charge
    BY <2>2
  <2> QED BY <1>1, <2>3
<1>3. ASSUME NEW p \in DOMAIN payments, Settles(p)
      PROVE  Ledger!Next
  <2>1. PICK b : b = payments[p].winner
    OBVIOUS
  <2>2. b \in Winners
    <3>1. payments[p] \in Payment
      BY SettlementParts DEF TypeOK
    <3> QED BY <2>1, <3>1 DEF Payment
  <2>3. charge[b] = "due"
    BY <1>3, <2>1, <2>2, BillOfOne DEF Settles, OnePaymentPerWinner, ShownAs
  <2>4. after[b] = payments'[p].status /\ after[b] \in {"completed", "failed"}
    <3>1. /\ p \in DOMAIN payments' /\ payments'[p].winner = b
          /\ payments'[p].status \notin Unsettled
      BY <1>3, <2>1 DEF Settles, SameWinners, Unsettled
    <3>2. after[b] = ShownAs(payments'[p].status)
      BY <2>2, <3>1, BillOfOne DEF OnePaymentPerWinner
    <3> QED BY <1>3, <3>1, <3>2 DEF Settles, ShownAs
  <2>5. \A c \in Winners : c # b => after[c] = charge[c]
    BY <1>3, <2>1, SameBill DEF Settles, SameWinners
  <2>6. after = [charge EXCEPT ![b] = after[b]]
    BY <2>5
  <2> HIDE DEF charge, after
  <2>7. Ledger!Settle(b)
    BY <1>1, <2>3, <2>4, <2>6, Zenon DEF Ledger!Settle, Ledger!Move, Ledger!Settled
  <2> QED BY <2>2, <2>7 DEF Ledger!Next
<1>4. ASSUME NEW b \in Winners, IsCreated(b)
      PROVE  Ledger!Next
  <2>1. PICK p : p = Len(payments) + 1
    OBVIOUS
  <2>2. /\ p \in DOMAIN payments' /\ p \notin DOMAIN payments
        /\ payments'[p].winner = b /\ payments'[p].status = "pending"
    BY <1>4, <2>1 DEF IsCreated, NewPayment
  <2>3. after[b] = "due"
    BY <2>2, BillOfOne DEF OnePaymentPerWinner, ShownAs, Unsettled
  <2>4. charge[b] = "none"
    <3>1. \A q \in DOMAIN payments : payments[q].winner # b
      BY <1>4, <2>2 DEF IsCreated, OnePaymentPerWinner
    <3> QED BY <3>1, BillOfNone
  <2>5. \A c \in Winners : c # b => after[c] = charge[c]
    BY <1>4, <2>1, <2>2, SameBill DEF IsCreated
  <2>6. after = [charge EXCEPT ![b] = after[b]]
    BY <2>5
  <2> HIDE DEF charge, after
  <2>7. Ledger!Bill(b)
    BY <1>1, <2>3, <2>4, <2>6, Zenon DEF Ledger!Bill, Ledger!Move
  <2> QED BY <2>7 DEF Ledger!Next
<1> QED BY <1>2, <1>3, <1>4, StepOnTable

(* The service keeps the promises of its ledger: every winner is billed    *)
(* once and the bill is settled once, whatever is delivered again, retried *)
(* or lost in a crash underneath.                                          *)
THEOREM PaymentsRefineLedger ==
  ASSUME InTime, Undisturbed
  PROVE  Spec => RefinesLedger
<1>1. ASSUME Init PROVE Ledger!Init
  <2>1. DOMAIN payments = {}
    BY <1>1 DEF Init
  <2>2. \A b \in Winners : BillIn(payments, b) = "none"
    BY <2>1, BillOfNone
  <2> QED BY <2>2 DEF Ledger!Init, Bill, BillIn
<1>2. /\ SettlementInv /\ OnePaymentPerWinner /\ OnePaymentPerWinner' /\ [Next]_vars
      => [Ledger!Next]_([b \in Winners |-> Bill(b)])
  BY StepImplementsLedger
<1> QED BY <1>1, <1>2, SettlementIsSound, NobodyIsBilledTwice, PTL
        DEF Spec, Ledger!Spec, RefinesLedger
=============================================================================
