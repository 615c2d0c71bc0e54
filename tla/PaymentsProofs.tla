--------------------------- MODULE PaymentsProofs ---------------------------
(***************************************************************************)
(* For every set of providers' transactions, of orders they pay and of     *)
(* concurrent requests: a provider transaction is credited once, what is   *)
(* called performed was credited, a cancellation is debited once and       *)
(* closes the door to a late credit, an order gives one referral bonus:    *)
(* the webhooks implement AtomicPayments.                                  *)
(*                                                                         *)
(* The argument: the row in payment_transactions and the deposit in the    *)
(* ledger come and go together (Booked), a Payme row reads 2 or -2 only    *)
(* after that (Closed), and a handler on its way to its second commit      *)
(* knows that its first one happened (Resting) - whatever a cancellation   *)
(* did to the row in between.                                              *)
(***************************************************************************)
EXTENDS Payments, TLAPS

TopUpTx == Payme \cup Click \cup Card

Booked == \A t \in TopUpTx : deposits[t] = IF t \in payments THEN 1 ELSE 0

Closed ==
  /\ \A t \in Payme : state[t] \in {2, -2} => t \in payments
  /\ \A t \in Payme : reversals[t] = 0 \/ (reversals[t] = 1 /\ t \in payments)
  /\ \A t \in Click : click[t] = "completed" => t \in payments

Resting(h) ==
  /\ job[h].at = "credited" => job[h].tx \in Payme \cap payments
  /\ job[h].at = "inserting" => job[h].tx \in Card \cup OrderTx
  /\ job[h].at = "paid" => job[h].tx \in OrderTx \cap payments

IInv ==
  /\ TypeOK
  /\ Booked
  /\ Closed
  /\ RewardedOnce
  /\ \A h \in Handler : Resting(h)

-----------------------------------------------------------------------------
(* A transaction belongs to one provider.                                  *)
LEMMA OneProvider ==
  /\ TopUpTx \subseteq Tx /\ OrderTx \subseteq Tx /\ TopUpTx \cap OrderTx = {}
  /\ Payme \cap Click = {} /\ Payme \cap Card = {} /\ Click \cap Card = {}
BY TxAssumption DEF Tx, TopUpTx

(* The pipeline's commit credits a new payment, and only that one, once.   *)
LEMMA CreditOnce ==
  ASSUME IInv, NEW t \in TopUpTx, Credit(t)
  PROVE  /\ payments' \subseteq Tx /\ payments' = payments \cup {t}
         /\ deposits' \in [Tx -> {0, 1}]
         /\ Booked'
         /\ \A u \in Tx \ {t} : deposits'[u] = deposits[u]
<1>1. t \in Tx /\ deposits[t] = 0
  BY OneProvider DEF IInv, Booked, Credit
<1>2. deposits' = [deposits EXCEPT ![t] = 1] /\ payments' = payments \cup {t}
  BY <1>1 DEF Credit
<1>. QED
  BY <1>1, <1>2, OneProvider DEF IInv, TypeOK, Booked

(* A handler that comes to rest, or goes, leaves the others where they     *)
(* were; payments only grow.                                               *)
LEMMA RestingStep ==
  ASSUME IInv, payments \subseteq payments',
         NEW h \in Handler, NEW at \in {"free", "credited", "inserting", "paid"},
         NEW t \in Tx \cup {NoTx},
         job' = [job EXCEPT ![h] = [at |-> at, tx |-> t]],
         at = "credited" => t \in Payme \cap payments',
         at = "inserting" => t \in Card \cup OrderTx,
         at = "paid" => t \in OrderTx \cap payments'
  PROVE  job' \in [Handler -> Job] /\ \A g \in Handler : Resting(g)'
<1>1. job \in [Handler -> Job]
  BY DEF IInv, TypeOK
<1>2. job' \in [Handler -> Job]
  BY <1>1 DEF Job
<1>3. ASSUME NEW g \in Handler PROVE Resting(g)'
  <2>1. CASE g = h
    BY <2>1, <1>1 DEF Resting
  <2>2. CASE g # h
    BY <2>2, <1>1 DEF Resting, IInv
  <2>. QED BY <2>1, <2>2
<1>. QED BY <1>2, <1>3

(* The same of a handler that is done.                                     *)
LEMMA AnswersStep ==
  ASSUME IInv, payments \subseteq payments', NEW h \in Handler, Answers(h)
  PROVE  job' \in [Handler -> Job] /\ \A g \in Handler : Resting(g)'
BY RestingStep DEF Answers, Free

(* The reward of an order is counted once.                                 *)
LEMMA RewardedStep ==
  ASSUME IInv, NEW o \in PaidOrder, Rewarded(o)
  PROVE  rewards' \in [PaidOrder -> Nat] /\ RewardedOnce'
<1>1. CASE rewards[o] = 0 /\ rewards' = [rewards EXCEPT ![o] = @ + 1]
  <2>1. rewards' = [rewards EXCEPT ![o] = 1] /\ rewards \in [PaidOrder -> Nat]
    BY <1>1 DEF IInv, TypeOK
  <2>. QED BY <2>1 DEF IInv, RewardedOnce
<1>2. CASE UNCHANGED rewards
  BY <1>2 DEF IInv, TypeOK, RewardedOnce
<1>. QED BY <1>1, <1>2 DEF Rewarded

-----------------------------------------------------------------------------
(* A new Payme row is open.                                                *)
LEMMA PaymeCreateStep ==
  ASSUME IInv, NEW t \in Payme, PaymeCreate(t)
  PROVE  IInv'
<1>1. TypeOK'
  BY DEF IInv, TypeOK, PaymeCreate, topups, purchases
<1>2. Booked' /\ RewardedOnce' /\ \A h \in Handler : Resting(h)'
  BY DEF IInv, Booked, RewardedOnce, Resting, PaymeCreate, topups, purchases
<1>3. Closed'
  BY DEF IInv, TypeOK, Closed, PaymeCreate, topups, purchases
<1>. QED BY <1>1, <1>2, <1>3 DEF IInv

(* A repeated PerformTransaction closes what was credited.                 *)
LEMMA PaymePerformKnownStep ==
  ASSUME IInv, NEW t \in Payme, PaymePerformKnown(t)
  PROVE  IInv'
<1>1. TypeOK'
  BY DEF IInv, TypeOK, PaymePerformKnown, topups, purchases
<1>2. Booked' /\ RewardedOnce' /\ \A h \in Handler : Resting(h)'
  BY DEF IInv, Booked, RewardedOnce, Resting, PaymePerformKnown, topups, purchases
<1>3. Closed'
  <2>1. state' = [state EXCEPT ![t] = 2] /\ state \in [Payme -> {-2, -1, 0, 1, 2}]
        /\ t \in payments /\ UNCHANGED <<click, payments, reversals>>
    BY DEF IInv, TypeOK, PaymePerformKnown
  <2>2. \A u \in Payme : state'[u] \in {2, -2} => u \in payments'
    BY <2>1 DEF IInv, Closed
  <2>. QED BY <2>1, <2>2 DEF IInv, Closed
<1>. QED BY <1>1, <1>2, <1>3 DEF IInv

(* A cancellation of what reads as open.                                   *)
LEMMA PaymeCancelStep ==
  ASSUME IInv, NEW t \in Payme, PaymeCancel(t)
  PROVE  IInv'
<1>1. TypeOK'
  BY DEF IInv, TypeOK, PaymeCancel, topups, purchases
<1>2. Booked' /\ RewardedOnce' /\ \A h \in Handler : Resting(h)'
  BY DEF IInv, Booked, RewardedOnce, Resting, PaymeCancel, topups, purchases
<1>3. Closed'
  BY DEF IInv, TypeOK, Closed, PaymeCancel, topups, purchases
<1>. QED BY <1>1, <1>2, <1>3 DEF IInv

(* A cancellation that debits: state 2 says there was a deposit.           *)
LEMMA PaymeReverseStep ==
  ASSUME IInv, NEW t \in Payme, PaymeReverse(t)
  PROVE  IInv'
<1>1. TypeOK'
  BY DEF IInv, TypeOK, PaymeReverse, topups, purchases
<1>2. Booked' /\ RewardedOnce' /\ \A h \in Handler : Resting(h)'
  BY DEF IInv, Booked, RewardedOnce, Resting, PaymeReverse, topups, purchases
<1>3. Closed'
  BY DEF IInv, TypeOK, Closed, PaymeReverse, topups, purchases
<1>. QED BY <1>1, <1>2, <1>3 DEF IInv

(* A new Click row is prepared.                                            *)
LEMMA ClickPrepareStep ==
  ASSUME IInv, NEW t \in Click, ClickPrepare(t)
  PROVE  IInv'
<1>1. TypeOK'
  BY DEF IInv, TypeOK, ClickPrepare, topups, purchases
<1>2. Booked' /\ RewardedOnce' /\ \A h \in Handler : Resting(h)'
  BY DEF IInv, Booked, RewardedOnce, Resting, ClickPrepare, topups, purchases
<1>3. Closed'
  BY DEF IInv, TypeOK, Closed, ClickPrepare, topups, purchases
<1>. QED BY <1>1, <1>2, <1>3 DEF IInv

(* A failed Click payment.                                                 *)
LEMMA ClickFailStep ==
  ASSUME IInv, NEW t \in Click, ClickFail(t)
  PROVE  IInv'
<1>1. TypeOK'
  BY DEF IInv, TypeOK, ClickFail, topups, purchases
<1>2. Booked' /\ RewardedOnce' /\ \A h \in Handler : Resting(h)'
  BY DEF IInv, Booked, RewardedOnce, Resting, ClickFail, topups, purchases
<1>3. Closed'
  BY DEF IInv, TypeOK, Closed, ClickFail, topups, purchases
<1>. QED BY <1>1, <1>2, <1>3 DEF IInv

(* An order moves on.                                                      *)
LEMMA OrderMovesStep ==
  ASSUME IInv, NEW o \in PaidOrder, OrderMoves(o)
  PROVE  IInv'
<1>1. TypeOK'
  BY DEF IInv, TypeOK, OrderStatus, OrderMoves, topups, purchases
<1>2. Booked' /\ RewardedOnce' /\ \A h \in Handler : Resting(h)'
  BY DEF IInv, Booked, RewardedOnce, Resting, OrderMoves, topups, purchases
<1>3. Closed'
  BY DEF IInv, TypeOK, Closed, OrderMoves, topups, purchases
<1>. QED BY <1>1, <1>2, <1>3 DEF IInv

(* PerformTransaction up to the pipeline's commit: the credit is new.      *)
LEMMA PaymePerformStep ==
  ASSUME IInv, NEW h \in Handler, NEW t \in Payme, PaymePerform(h, t)
  PROVE  IInv'
<1>1. /\ payments' \subseteq Tx /\ payments' = payments \cup {t}
      /\ deposits' \in [Tx -> {0, 1}] /\ Booked'
  BY CreditOnce DEF PaymePerform, TopUpTx
<1>2. job' \in [Handler -> Job] /\ \A g \in Handler : Resting(g)'
  BY <1>1, RestingStep, OneProvider DEF PaymePerform, Rests, TopUpTx
<1>3. TypeOK'
  BY <1>1, <1>2 DEF IInv, TypeOK, PaymePerform, purchases
<1>4. Closed' /\ RewardedOnce'
  BY <1>1 DEF IInv, Closed, RewardedOnce, PaymePerform, purchases
<1>. QED BY <1>1, <1>2, <1>3, <1>4 DEF IInv

(* The second commit: the first one has credited the transaction.          *)
LEMMA MarkPerformedStep ==
  ASSUME IInv, NEW h \in Handler, MarkPerformed(h)
  PROVE  IInv'
<1>1. job[h].tx \in Payme \cap payments
  BY DEF IInv, Resting, MarkPerformed
<1>2. job' \in [Handler -> Job] /\ \A g \in Handler : Resting(g)'
  BY AnswersStep DEF MarkPerformed
<1>3. TypeOK'
  BY <1>1, <1>2 DEF IInv, TypeOK, MarkPerformed, purchases
<1>4. Booked' /\ RewardedOnce'
  BY DEF IInv, Booked, RewardedOnce, MarkPerformed, purchases
<1>5. Closed'
  <2>1. state' = [state EXCEPT ![job[h].tx] = 2]
        /\ state \in [Payme -> {-2, -1, 0, 1, 2}]
        /\ UNCHANGED <<click, payments, reversals>>
    BY DEF IInv, TypeOK, MarkPerformed
  <2>2. \A u \in Payme : state'[u] \in {2, -2} => u \in payments'
    BY <1>1, <2>1 DEF IInv, Closed
  <2>. QED BY <2>1, <2>2 DEF IInv, Closed
<1>. QED BY <1>2, <1>3, <1>4, <1>5 DEF IInv

(* Click's Complete: status and credit in one commit.                      *)
LEMMA ClickCompleteStep ==
  ASSUME IInv, NEW t \in Click, ClickComplete(t)
  PROVE  IInv'
<1>1. /\ payments' \subseteq Tx /\ payments' = payments \cup {t}
      /\ deposits' \in [Tx -> {0, 1}] /\ Booked'
  BY CreditOnce DEF ClickComplete, TopUpTx
<1>2. TypeOK'
  BY <1>1 DEF IInv, TypeOK, ClickComplete, purchases
<1>3. Closed'
  BY <1>1 DEF IInv, TypeOK, Closed, ClickComplete
<1>4. RewardedOnce' /\ \A h \in Handler : Resting(h)'
  BY <1>1 DEF IInv, RewardedOnce, Resting, ClickComplete, purchases
<1>. QED BY <1>1, <1>2, <1>3, <1>4 DEF IInv

(* AutoPayCard's insert.                                                   *)
LEMMA CardDepositStep ==
  ASSUME IInv, NEW h \in Handler, CardDeposit(h)
  PROVE  IInv'
<1>. DEFINE t == job[h].tx
<1>1. /\ payments' \subseteq Tx /\ payments' = payments \cup {t}
      /\ deposits' \in [Tx -> {0, 1}] /\ Booked'
  BY CreditOnce DEF CardDeposit, TopUpTx
<1>2. job' \in [Handler -> Job] /\ \A g \in Handler : Resting(g)'
  BY <1>1, AnswersStep DEF CardDeposit
<1>3. TypeOK'
  BY <1>1, <1>2 DEF IInv, TypeOK, CardDeposit, purchases
<1>4. Closed' /\ RewardedOnce'
  BY <1>1 DEF IInv, Closed, RewardedOnce, CardDeposit, purchases
<1>. QED BY <1>1, <1>2, <1>3, <1>4 DEF IInv

(* The pipeline found no payment.                                          *)
LEMMA FindNoneStep ==
  ASSUME IInv, NEW h \in Handler, NEW t \in Card \cup OrderTx, FindNone(h, t)
  PROVE  IInv'
<1>1. job' \in [Handler -> Job] /\ \A g \in Handler : Resting(g)'
  BY RestingStep, OneProvider DEF FindNone, Rests, TopUpTx, purchases
<1>. QED
  BY <1>1
  DEF IInv, TypeOK, Booked, Closed, RewardedOnce, FindNone, topups, purchases

(* The payment is there already: nothing is kept.                          *)
LEMMA LoseRaceStep ==
  ASSUME IInv, NEW h \in Handler, LoseRace(h)
  PROVE  IInv'
<1>1. job' \in [Handler -> Job] /\ \A g \in Handler : Resting(g)'
  BY AnswersStep DEF LoseRace, purchases
<1>. QED
  BY <1>1
  DEF IInv, TypeOK, Booked, Closed, RewardedOnce, LoseRace, topups, purchases

(* The order cannot be paid any more: nothing is kept.                     *)
LEMMA RefusePaymentStep ==
  ASSUME IInv, NEW h \in Handler, RefusePayment(h)
  PROVE  IInv'
<1>1. job' \in [Handler -> Job] /\ \A g \in Handler : Resting(g)'
  BY AnswersStep DEF RefusePayment, purchases
<1>. QED
  BY <1>1
  DEF IInv, TypeOK, Booked, Closed, RewardedOnce, RefusePayment, topups, purchases

(* A handler dies.                                                         *)
LEMMA CrashStep ==
  ASSUME IInv, NEW h \in Handler, Crash(h)
  PROVE  IInv'
<1>1. job' \in [Handler -> Job] /\ \A g \in Handler : Resting(g)'
  BY AnswersStep DEF Crash, purchases
<1>. QED
  BY <1>1
  DEF IInv, TypeOK, Booked, Closed, RewardedOnce, Crash, topups, purchases

(* The order of a payment being inserted, or whose order was just paid.    *)
LEMMA OrderOfPayment ==
  ASSUME IInv, NEW h \in Handler, Paying(h) \/ job[h].at = "paid"
  PROVE  job[h].tx \in OrderTx /\ OrderOf(h) \in PaidOrder
<1>1. job[h].tx \in OrderTx
  BY DEF IInv, Resting, Paying
<1>. QED BY <1>1, TxAssumption DEF OrderOf

(* One more event of an order.                                             *)
LEMMA MoreRequests ==
  ASSUME IInv, NEW o \in PaidOrder, requests' = [requests EXCEPT ![o] = @ + 1]
  PROVE  requests' \in [PaidOrder -> Nat]
<1>1. requests \in [PaidOrder -> Nat] /\ requests[o] + 1 \in Nat
  BY DEF IInv, TypeOK
<1>. QED BY <1>1

(* A payment of an order moves no deposit.                                 *)
LEMMA OrderPaymentBooks ==
  ASSUME IInv, NEW t \in OrderTx, payments' = payments \cup {t}, UNCHANGED topups
  PROVE  payments' \subseteq Tx /\ Booked' /\ Closed'
<1>1. payments' \subseteq Tx
  BY OneProvider DEF IInv, TypeOK
<1>2. \A u \in TopUpTx : u \in payments' <=> u \in payments
  BY OneProvider
<1>3. Booked'
  BY <1>2 DEF IInv, Booked, topups
<1>4. Closed'
  BY DEF IInv, Closed, topups
<1>. QED BY <1>1, <1>3, <1>4

(* The first transaction of the payment of an order.                       *)
LEMMA MarkPaidStep ==
  ASSUME IInv, NEW h \in Handler, MarkPaid(h)
  PROVE  IInv'
<1>1. job[h].tx \in OrderTx /\ OrderOf(h) \in PaidOrder
  BY OrderOfPayment DEF MarkPaid
<1>2. payments' \subseteq Tx /\ Booked' /\ Closed'
  BY <1>1, OrderPaymentBooks DEF MarkPaid
<1>3. job' \in [Handler -> Job] /\ \A g \in Handler : Resting(g)'
  BY <1>1, RestingStep, OneProvider DEF MarkPaid, Rests
<1>4. TypeOK'
  BY <1>1, <1>2, <1>3 DEF IInv, TypeOK, OrderStatus, MarkPaid, topups
<1>. QED BY <1>2, <1>3, <1>4 DEF IInv, RewardedOnce, MarkPaid

(* The second one.                                                         *)
LEMMA RequestFulfillmentStep ==
  ASSUME IInv, NEW h \in Handler, RequestFulfillment(h)
  PROVE  IInv'
<1>1. OrderOf(h) \in PaidOrder
  BY OrderOfPayment DEF RequestFulfillment
<1>2. rewards' \in [PaidOrder -> Nat] /\ RewardedOnce'
  BY <1>1, RewardedStep DEF RequestFulfillment
<1>3. job' \in [Handler -> Job] /\ \A g \in Handler : Resting(g)'
  BY AnswersStep DEF RequestFulfillment
<1>4. TypeOK'
  <2>1. requests' \in [PaidOrder -> Nat]
    BY <1>1, MoreRequests DEF RequestFulfillment
  <2>. QED BY <1>2, <1>3, <2>1 DEF IInv, TypeOK, RequestFulfillment, topups
<1>. QED
  BY <1>2, <1>3, <1>4 DEF IInv, Booked, Closed, RequestFulfillment, topups

(* A second payment of an order that is already paid.                      *)
LEMMA PayAgainStep ==
  ASSUME IInv, NEW h \in Handler, PayAgain(h)
  PROVE  IInv'
<1>1. job[h].tx \in OrderTx /\ OrderOf(h) \in PaidOrder
  BY OrderOfPayment DEF PayAgain
<1>2. payments' \subseteq Tx /\ Booked' /\ Closed'
  BY <1>1, OrderPaymentBooks DEF PayAgain
<1>3. rewards' \in [PaidOrder -> Nat] /\ RewardedOnce'
  BY <1>1, RewardedStep DEF PayAgain
<1>4. job' \in [Handler -> Job] /\ \A g \in Handler : Resting(g)'
  BY AnswersStep DEF PayAgain
<1>5. TypeOK'
  <2>1. requests' \in [PaidOrder -> Nat]
    BY <1>1, MoreRequests DEF PayAgain
  <2>. QED BY <1>2, <1>3, <1>4, <2>1 DEF IInv, TypeOK, PayAgain, topups
<1>. QED BY <1>2, <1>3, <1>4, <1>5 DEF IInv

-----------------------------------------------------------------------------
(* Nothing was asked for yet.                                              *)
LEMMA InitIInv == Init => IInv
<1>. SUFFICES ASSUME Init PROVE IInv
  OBVIOUS
<1>1. TypeOK
  BY DEF Init, TypeOK, OrderStatus, Free, Job
<1>2. Booked
  BY OneProvider DEF Init, Booked
<1>3. Closed /\ RewardedOnce
  BY DEF Init, Closed, RewardedOnce
<1>4. \A h \in Handler : Resting(h)
  BY DEF Init, Resting, Free
<1>. QED BY <1>1, <1>2, <1>3, <1>4 DEF IInv

(* Every step of a handler that has begun.                                 *)
LEMMA ContinueStep ==
  ASSUME IInv, NEW h \in Handler, Continue(h)
  PROVE  IInv'
BY MarkPerformedStep, LoseRaceStep, CardDepositStep, MarkPaidStep,
   RequestFulfillmentStep, PayAgainStep, RefusePaymentStep DEF Continue

(* Every step of the system.                                               *)
LEMMA NextStep == IInv /\ [Next]_vars => IInv'
<1>. SUFFICES ASSUME IInv, [Next]_vars PROVE IInv'
  OBVIOUS
<1>1. ASSUME NEW t \in Payme, PaymeRequest(t) PROVE IInv'
  BY <1>1, PaymeCreateStep, PaymePerformStep, PaymePerformKnownStep,
     PaymeCancelStep, PaymeReverseStep DEF PaymeRequest
<1>2. ASSUME NEW t \in Click, ClickRequest(t) PROVE IInv'
  BY <1>2, ClickPrepareStep, ClickFailStep, ClickCompleteStep DEF ClickRequest
<1>3. ASSUME NEW h \in Handler, Continue(h) PROVE IInv'
  BY <1>3, ContinueStep
<1>4. ASSUME NEW h \in Handler, Crash(h) PROVE IInv'
  BY <1>4, CrashStep
<1>5. ASSUME NEW h \in Handler, NEW t \in Card \cup OrderTx, FindNone(h, t) PROVE IInv'
  BY <1>5, FindNoneStep
<1>6. ASSUME NEW o \in PaidOrder, OrderMoves(o) PROVE IInv'
  BY <1>6, OrderMovesStep
<1>7. CASE UNCHANGED vars
  BY <1>7
  DEF IInv, TypeOK, Booked, Closed, RewardedOnce, Resting, vars
<1>. QED BY <1>1, <1>2, <1>3, <1>4, <1>5, <1>6, <1>7 DEF Next

(* Payment row and deposit together, closed states only after them, and    *)
(* every handler where its first commit allows it to be.                   *)
THEOREM PaymentsInvariant == Spec => []IInv
BY InitIInv, NextStep, PTL DEF Spec

(* However often and on however many connections the webhooks of           *)
(* payme.py, click.py and autopaycard.py arrive, a provider transaction    *)
(* has one deposit at most.                                                *)
THEOREM DepositedOnce == Spec => []TypeOK
<1>1. IInv => TypeOK
  BY DEF IInv
<1>. QED BY <1>1, PaymentsInvariant, PTL

(* payme.py:167 and click.py:260 never say performed without the credit.   *)
THEOREM PerformedWasCredited == Spec => []PerformedIsCredited
<1>1. IInv => PerformedIsCredited
  BY DEF IInv, Booked, Closed, PerformedIsCredited, TopUpTx
<1>. QED BY <1>1, PaymentsInvariant, PTL

(* payme.py:202 debits a cancelled payment once, and never one that was    *)
(* not credited, although a late commit may bring state 2 back.            *)
THEOREM CancelledOnce == Spec => []ReversedOnce
<1>1. IInv => ReversedOnce
  <2>1. ASSUME IInv, NEW t \in Payme PROVE reversals[t] <= deposits[t]
    <3>1. CASE t \in payments
      <4>1. deposits[t] = 1
        BY <2>1, <3>1 DEF IInv, Booked, TopUpTx
      <4>2. reversals[t] = 0 \/ reversals[t] = 1
        BY <2>1 DEF IInv, Closed
      <4>. QED BY <4>1, <4>2
    <3>2. CASE t \notin payments
      <4>1. deposits[t] = 0
        BY <2>1, <3>2 DEF IInv, Booked, TopUpTx
      <4>2. reversals[t] = 0
        BY <2>1, <3>2 DEF IInv, Closed
      <4>. QED BY <4>1, <4>2
    <3>. QED BY <3>1, <3>2
  <2>. QED BY <2>1 DEF ReversedOnce
<1>. QED BY <1>1, PaymentsInvariant, PTL

(* Two payments of one order give its referrer one bonus.                  *)
THEOREM OneReward == Spec => []RewardedOnce
<1>1. IInv => RewardedOnce
  BY DEF IInv
<1>. QED BY <1>1, PaymentsInvariant, PTL

-----------------------------------------------------------------------------
(* The mapping to AtomicPayments.                                          *)
Refused == {t \in Payme : state[t] \in {-1, -2} /\ deposits[t] = 0}

Sold == {PaysFor[t] : t \in payments \cap OrderTx}

(* An order is PAID after one of its payments, and not again after that.   *)
SoldInv ==
  \A o \in PaidOrder :
    /\ order[o] = "paid" => o \in Sold
    /\ o \in Sold => ~CanMove(order[o], "paid")

(* A step that shows nothing of itself in the books.                       *)
LEMMA NothingBooked ==
  ASSUME UNCHANGED <<deposits, reversals, rewards>>, Refused' = Refused, Sold' = Sold
  PROVE  UNCHANGED Abs!avars
BY DEF Abs!avars, Refused, Sold

(* The pipeline's commit for a top-up that was not refused is the deposit. *)
LEMMA CreditIsDeposit ==
  ASSUME IInv, NEW t \in TopUpTx, Credit(t), t \in Payme => state[t] = 1,
         UNCHANGED <<state, reversals, rewards>>
  PROVE  Abs!Deposit(t) /\ t \in Tx \ OrderTx
<1>1. t \in Tx \ OrderTx
  BY OneProvider
<1>2. deposits[t] = 0 /\ payments' = payments \cup {t}
  BY DEF IInv, Booked, Credit
<1>3. deposits' = [deposits EXCEPT ![t] = 1]
  BY <1>2 DEF Credit
<1>4. deposits \in [Tx -> {0, 1}] /\ Payme \subseteq Tx
  BY DEF IInv, TypeOK, Tx
<1>5. t \notin Refused
  BY DEF Refused
<1>6. Refused' = Refused
  <2>1. \A u \in Payme : u \in Refused' <=> u \in Refused
    <3>1. ASSUME NEW u \in Payme, u = t PROVE u \notin Refused' /\ u \notin Refused
      BY <3>1, <1>5 DEF Refused
    <3>2. ASSUME NEW u \in Payme, u # t PROVE deposits'[u] = deposits[u]
      BY <3>2, <1>3, <1>4
    <3>. QED BY <3>1, <3>2 DEF Refused
  <2>. QED BY <2>1 DEF Refused
<1>7. Sold' = Sold
  BY <1>1, <1>2 DEF Sold
<1>. QED BY <1>1, <1>2, <1>3, <1>5, <1>6, <1>7 DEF Abs!Deposit, Refused, Sold

(* A new or an open Payme row is not a refused one, nor is a credited one. *)
LEMMA PaymeStepIsAtomic ==
  ASSUME IInv, NEW t \in Payme, PaymeRequest(t)
  PROVE  Abs!ANext \/ UNCHANGED Abs!avars
<1>1. /\ state \in [Payme -> {-2, -1, 0, 1, 2}] /\ deposits \in [Tx -> {0, 1}]
      /\ reversals \in [Payme -> Nat] /\ t \in TopUpTx /\ Payme \subseteq Tx
  BY DEF IInv, TypeOK, TopUpTx, Tx
<1>2. CASE PaymeCreate(t)
  <2>1. \A u \in Payme : u # t => state'[u] = state[u]
    BY <1>1, <1>2 DEF PaymeCreate
  <2>2. Refused' = Refused
    BY <1>1, <1>2, <2>1 DEF PaymeCreate, Refused
  <2>. QED BY <1>2, <2>2, NothingBooked DEF PaymeCreate, purchases, Sold
<1>3. ASSUME NEW h \in Handler, PaymePerform(h, t) PROVE Abs!ANext
  BY <1>1, <1>3, CreditIsDeposit DEF PaymePerform, purchases, Abs!ANext
<1>4. CASE PaymePerformKnown(t)
  <2>1. deposits[t] = 1
    BY <1>1, <1>4 DEF IInv, Booked, PaymePerformKnown
  <2>2. \A u \in Payme : u # t => state'[u] = state[u]
    BY <1>1, <1>4 DEF PaymePerformKnown
  <2>3. Refused' = Refused
    BY <1>4, <2>1, <2>2 DEF PaymePerformKnown, Refused
  <2>. QED BY <1>4, <2>3, NothingBooked DEF PaymePerformKnown, purchases, Sold
<1>5. CASE PaymeCancel(t)
  <2>1. /\ \A u \in Payme : u # t => state'[u] = state[u]
        /\ state[t] = 1 /\ state'[t] = -1
    BY <1>1, <1>5 DEF PaymeCancel
  <2>2. UNCHANGED <<deposits, reversals, rewards, Sold>>
    BY <1>5 DEF PaymeCancel, purchases, Sold
  <2>3. CASE deposits[t] = 0
    <3>1. Refused' = Refused \cup {t}
      BY <2>1, <2>2, <2>3 DEF Refused
    <3>2. Abs!Refuse(t)
      BY <2>2, <2>3, <3>1 DEF Abs!Refuse, Refused, Sold
    <3>. QED BY <3>2 DEF Abs!ANext
  <2>4. CASE deposits[t] # 0
    <3>1. Refused' = Refused
      BY <2>1, <2>2, <2>4 DEF Refused
    <3>. QED BY <2>2, <3>1, NothingBooked
  <2>. QED BY <2>3, <2>4
<1>6. CASE PaymeReverse(t)
  <2>1. /\ deposits[t] = 1 /\ reversals[t] = 0
        /\ reversals' = [reversals EXCEPT ![t] = 1]
    BY <1>1, <1>6 DEF IInv, Booked, Closed, PaymeReverse
  <2>2. \A u \in Payme : u # t => state'[u] = state[u]
    BY <1>1, <1>6 DEF PaymeReverse
  <2>3. Refused' = Refused
    BY <1>6, <2>1, <2>2 DEF PaymeReverse, Refused
  <2>4. Abs!TakeBack(t)
    BY <1>6, <2>1, <2>3 DEF PaymeReverse, purchases, Abs!TakeBack, Refused, Sold
  <2>. QED BY <2>4 DEF Abs!ANext
<1>. QED BY <1>2, <1>3, <1>4, <1>5, <1>6 DEF PaymeRequest

(* Click's commit of the status is the commit of the deposit.              *)
LEMMA ClickStepIsAtomic ==
  ASSUME IInv, NEW t \in Click, ClickRequest(t)
  PROVE  Abs!ANext \/ UNCHANGED Abs!avars
<1>1. t \in TopUpTx /\ t \notin Payme
  BY OneProvider DEF TopUpTx
<1>2. CASE ClickComplete(t)
  BY <1>1, <1>2, CreditIsDeposit DEF ClickComplete, purchases, Abs!ANext
<1>3. CASE ClickPrepare(t) \/ ClickFail(t)
  BY <1>3, NothingBooked DEF ClickPrepare, ClickFail, purchases, Refused, Sold
<1>. QED BY <1>2, <1>3 DEF ClickRequest

(* A reward is given to an order that was sold before, or nothing is.      *)
LEMMA RewardedIsReward ==
  ASSUME IInv, NEW o \in PaidOrder, o \in Sold, Rewarded(o),
         UNCHANGED <<deposits, reversals>>, Refused' = Refused, Sold' = Sold
  PROVE  Abs!ANext \/ UNCHANGED Abs!avars
<1>1. CASE rewards[o] = 0 /\ rewards' = [rewards EXCEPT ![o] = @ + 1]
  <2>1. rewards' = [rewards EXCEPT ![o] = 1]
    BY <1>1
  <2>2. Abs!Reward(o)
    BY <1>1, <2>1 DEF Abs!Reward, Refused, Sold
  <2>. QED BY <2>2 DEF Abs!ANext
<1>2. CASE UNCHANGED rewards
  BY <1>2, NothingBooked
<1>. QED BY <1>1, <1>2 DEF Rewarded

(* What a handler does after it rested.                                    *)
LEMMA ContinueIsAtomic ==
  ASSUME IInv, SoldInv, NEW h \in Handler, Continue(h)
  PROVE  Abs!ANext \/ UNCHANGED Abs!avars
<1>1. CASE MarkPerformed(h)
  <2>1. job[h].tx \in Payme \cap payments
    BY <1>1 DEF IInv, Resting, MarkPerformed
  <2>2. deposits[job[h].tx] = 1
    BY <2>1 DEF IInv, Booked, TopUpTx
  <2>3. \A u \in Payme : u # job[h].tx => state'[u] = state[u]
    BY <1>1 DEF IInv, TypeOK, MarkPerformed
  <2>4. state'[job[h].tx] = 2
    BY <1>1, <2>1 DEF IInv, TypeOK, MarkPerformed
  <2>5. Refused' = Refused
    BY <1>1, <2>2, <2>3, <2>4 DEF MarkPerformed, Refused
  <2>. QED BY <1>1, <2>5, NothingBooked DEF MarkPerformed, purchases, Sold
<1>2. CASE LoseRace(h) \/ RefusePayment(h)
  BY <1>2, NothingBooked DEF LoseRace, RefusePayment, topups, purchases, Refused, Sold
<1>3. CASE CardDeposit(h)
  <2>1. job[h].tx \in TopUpTx /\ job[h].tx \notin Payme
    BY <1>3, OneProvider DEF CardDeposit, TopUpTx
  <2>. QED BY <1>3, <2>1, CreditIsDeposit DEF CardDeposit, purchases, Abs!ANext
<1>4. CASE MarkPaid(h)
  <2>1. PICK o \in PaidOrder : o = OrderOf(h) /\ job[h].tx \in OrderTx /\ o \notin Sold
    BY <1>4, OrderOfPayment DEF MarkPaid, SoldInv
  <2>2. Sold' = Sold \cup {o}
    BY <1>4, <2>1 DEF MarkPaid, Sold, OrderOf
  <2>3. UNCHANGED <<deposits, reversals, rewards, Refused>>
    BY <1>4 DEF MarkPaid, topups, Refused
  <2>4. Abs!Sell(o)
    BY <2>1, <2>2, <2>3 DEF Abs!Sell, Refused, Sold
  <2>. QED BY <2>4 DEF Abs!ANext
<1>5. CASE RequestFulfillment(h)
  <2>1. OrderOf(h) \in PaidOrder /\ OrderOf(h) \in Sold
    BY <1>5, OrderOfPayment DEF RequestFulfillment, IInv, Resting, Sold, OrderOf
  <2>2. UNCHANGED <<deposits, reversals>> /\ Refused' = Refused /\ Sold' = Sold
    BY <1>5 DEF RequestFulfillment, topups, Refused, Sold
  <2>. QED BY <1>5, <2>1, <2>2, RewardedIsReward DEF RequestFulfillment
<1>6. CASE PayAgain(h)
  <2>1. job[h].tx \in OrderTx /\ OrderOf(h) \in PaidOrder
    BY <1>6, OrderOfPayment DEF PayAgain
  <2>2. OrderOf(h) \in Sold
    BY <1>6, <2>1 DEF SoldInv, PayAgain
  <2>3. Sold' = Sold
    BY <1>6, <2>1, <2>2 DEF PayAgain, Sold, OrderOf
  <2>4. UNCHANGED <<deposits, reversals>> /\ Refused' = Refused
    BY <1>6 DEF PayAgain, topups, Refused
  <2>. QED BY <1>6, <2>1, <2>2, <2>3, <2>4, RewardedIsReward DEF PayAgain
<1>. QED BY <1>1, <1>2, <1>3, <1>4, <1>5, <1>6 DEF Continue

(* Every step is a step of AtomicPayments, or shows nothing.               *)
LEMMA EveryStepIsAtomic ==
  IInv /\ SoldInv /\ [Next]_vars => [Abs!ANext]_(Abs!avars)
<1>. SUFFICES ASSUME IInv, SoldInv, [Next]_vars PROVE Abs!ANext \/ UNCHANGED Abs!avars
  OBVIOUS
<1>1. ASSUME NEW h \in Handler,
             Crash(h) \/ \E u \in Card \cup OrderTx : FindNone(h, u)
      PROVE  UNCHANGED Abs!avars
  BY <1>1, NothingBooked DEF Crash, FindNone, topups, purchases, Refused, Sold
<1>2. ASSUME NEW o \in PaidOrder, OrderMoves(o) PROVE UNCHANGED Abs!avars
  BY <1>2, NothingBooked DEF OrderMoves, topups, Refused, Sold
<1>3. CASE UNCHANGED vars
  BY <1>3, NothingBooked DEF vars, Refused, Sold
<1>. QED
  BY <1>1, <1>2, <1>3, PaymeStepIsAtomic, ClickStepIsAtomic, ContinueIsAtomic DEF Next

(* What neither writes a status nor pays an order.                         *)
LEMMA SalesStay ==
  ASSUME [Next]_vars, \A h \in Handler : ~MarkPaid(h) /\ ~PayAgain(h),
         \A o \in PaidOrder : ~OrderMoves(o)
  PROVE  UNCHANGED order /\ payments' \cap OrderTx = payments \cap OrderTx
<1>1. ASSUME NEW t \in Payme, PaymeRequest(t)
      PROVE  UNCHANGED order /\ payments' \cap OrderTx = payments \cap OrderTx
  BY <1>1, TxAssumption
     DEF PaymeRequest, PaymeCreate, PaymePerform, PaymePerformKnown, PaymeCancel,
         PaymeReverse, Credit, purchases
<1>2. ASSUME NEW t \in Click, ClickRequest(t)
      PROVE  UNCHANGED order /\ payments' \cap OrderTx = payments \cap OrderTx
  BY <1>2, TxAssumption
     DEF ClickRequest, ClickPrepare, ClickFail, ClickComplete, Credit, purchases
<1>3. ASSUME NEW h \in Handler, Continue(h)
      PROVE  UNCHANGED order /\ payments' \cap OrderTx = payments \cap OrderTx
  BY <1>3, TxAssumption
     DEF Continue, MarkPerformed, LoseRace, CardDeposit, RequestFulfillment,
         RefusePayment, Credit, purchases
<1>4. ASSUME NEW h \in Handler,
             Crash(h) \/ \E u \in Card \cup OrderTx : FindNone(h, u)
      PROVE  UNCHANGED <<order, payments>>
  BY <1>4 DEF Crash, FindNone, purchases
<1>5. CASE UNCHANGED vars
  BY <1>5 DEF vars
<1>. QED BY <1>1, <1>2, <1>3, <1>4, <1>5 DEF Next

(* The status PAID is written together with the payment, and leads nowhere *)
(* from where an order is paid.                                            *)
LEMMA SoldStep ==
  IInv /\ SoldInv /\ [Next]_vars => SoldInv'
<1>. SUFFICES ASSUME IInv, SoldInv, [Next]_vars PROVE SoldInv'
  OBVIOUS
<1>1. \A s \in {"paid", "cancelled", "completed"} : ~CanMove(s, "paid")
  BY DEF CanMove, Normalized, Allowed
<1>2. ASSUME NEW h \in Handler, MarkPaid(h) PROVE SoldInv'
  <2>1. PICK p \in PaidOrder : p = OrderOf(h) /\ job[h].tx \in OrderTx
    BY <1>2, OrderOfPayment DEF MarkPaid
  <2>2. Sold' = Sold \cup {p}
    BY <1>2, <2>1 DEF MarkPaid, Sold, OrderOf
  <2>3. order'[p] = "paid" /\ \A o \in PaidOrder : o # p => order'[o] = order[o]
    BY <1>2, <2>1 DEF MarkPaid, IInv, TypeOK
  <2>4. ASSUME NEW o \in PaidOrder
        PROVE  /\ order'[o] = "paid" => o \in Sold'
               /\ o \in Sold' => ~CanMove(order'[o], "paid")
    <3>1. CASE o = p
      BY <3>1, <1>1, <2>2, <2>3
    <3>2. CASE o # p
      BY <3>2, <2>2, <2>3 DEF SoldInv
    <3>. QED BY <3>1, <3>2
  <2>. QED BY <2>4 DEF SoldInv, CanMove
<1>3. ASSUME NEW h \in Handler, PayAgain(h) PROVE SoldInv'
  <2>1. PICK p \in PaidOrder : p = OrderOf(h) /\ job[h].tx \in OrderTx
    BY <1>3, OrderOfPayment DEF PayAgain
  <2>2. order[p] = "paid" /\ UNCHANGED order
    BY <1>3, <2>1 DEF PayAgain
  <2>3. Sold' = Sold
    BY <1>3, <2>1, <2>2 DEF PayAgain, Sold, OrderOf, SoldInv
  <2>. QED BY <2>2, <2>3 DEF SoldInv, CanMove
<1>4. ASSUME NEW p \in PaidOrder, OrderMoves(p) PROVE SoldInv'
  <2>1. /\ order'[p] \in {"cancelled", "completed"}
        /\ \A o \in PaidOrder : o # p => order'[o] = order[o]
    BY <1>4 DEF OrderMoves, IInv, TypeOK
  <2>2. Sold' = Sold
    BY <1>4 DEF OrderMoves, Sold
  <2>3. ASSUME NEW o \in PaidOrder
        PROVE  /\ order'[o] = "paid" => o \in Sold'
               /\ o \in Sold' => ~CanMove(order'[o], "paid")
    <3>1. CASE o = p
      BY <3>1, <1>1, <2>1
    <3>2. CASE o # p
      BY <3>2, <2>1, <2>2 DEF SoldInv
    <3>. QED BY <3>1, <3>2
  <2>. QED BY <2>3 DEF SoldInv, CanMove
<1>5. CASE /\ \A h \in Handler : ~MarkPaid(h) /\ ~PayAgain(h)
           /\ \A o \in PaidOrder : ~OrderMoves(o)
  <2>1. UNCHANGED order /\ Sold' = Sold
    BY <1>5, SalesStay DEF Sold
  <2>. QED BY <2>1 DEF SoldInv, CanMove
<1>. QED BY <1>2, <1>3, <1>4, <1>5

(* The webhooks of payme.py, click.py and autopaycard.py, and the pipeline *)
(* they share (payments/service.py:30-190), implement AtomicPayments: a    *)
(* credit, its reversal, a refusal, the payment of an order and its bonus  *)
(* happen at once and once, and nothing is credited after it was refused.  *)
THEOREM PaymentsAreAtomic == Spec => ImplementsAtomicPayments
<1>1. Init => Abs!AInit
  BY DEF Init, Abs!AInit
<1>2. Init => SoldInv
  BY DEF Init, SoldInv, Sold
<1>3. IInv /\ SoldInv /\ [Next]_vars => SoldInv'
  BY SoldStep
<1>4. IInv /\ SoldInv /\ [Next]_vars => [Abs!ANext]_(Abs!avars)
  BY EveryStepIsAtomic
<1>. QED
  BY <1>1, <1>2, <1>3, <1>4, PaymentsInvariant, PTL
     DEF Spec, ImplementsAtomicPayments, Abs!ASpec
=============================================================================
