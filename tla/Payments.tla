------------------------------ MODULE Payments ------------------------------
(***************************************************************************)
(* What the payment providers may do to the books: the webhooks of Payme,  *)
(* Click and AutoPayCard and the pipeline they share,                      *)
(* process_successful_payment_idempotent, for a top-up and for the payment *)
(* of one order.                                                           *)
(*                                                                         *)
(* A provider delivers any request any number of times, in any order and   *)
(* concurrently.  A handler that holds the row lock of its transaction     *)
(* until it commits is one step.  Handlers that commit twice, or look for  *)
(* a row that is not there to be locked, rest in between:                  *)
(*   - PerformTransaction: the pipeline commits and so gives up the lock   *)
(*     before state 2 is written ("credited"),                             *)
(*   - AutoPayCard and the payment of an order: no PaymentTransaction was  *)
(*     found, the INSERT comes next ("inserting"),                         *)
(*   - the payment of an order: transition_order_status has committed, the *)
(*     bonus and the outbox event come next ("paid").                      *)
(*                                                                         *)
(* Balances are Wallet's: here a debit finds the money or does not.        *)
(***************************************************************************)
EXTENDS OrderLifecycle, Integers

CONSTANTS
  Payme,      \* Payme transactions (paycom_id)
  Click,      \* Click transactions (click_trans_id)
  Card,       \* AutoPayCard transactions (tx_id)
  OrderTx,    \* transactions of the pipeline that pay an order
  PaidOrder,  \* orders they pay
  PaysFor,    \* the order of each of them
  Handler,    \* concurrent requests
  NoTx        \* the handler is free

Tx == Payme \cup Click \cup Card \cup OrderTx

ASSUME TxAssumption ==
  /\ Payme \cap Click = {} /\ Payme \cap Card = {} /\ Payme \cap OrderTx = {}
  /\ Click \cap Card = {} /\ Click \cap OrderTx = {} /\ Card \cap OrderTx = {}
  /\ PaysFor \in [OrderTx -> PaidOrder]
  /\ NoTx \notin Tx

VARIABLES
  state,      \* payme_transactions.state; 0: no row
  click,      \* click_transactions.status
  payments,   \* payment_transactions with status success
  deposits,   \* ledger rows (payment, provider:id, deposit)
  reversals,  \* ledger rows (payment_cancellation, paycom_id, refund)
  order,      \* status of each order
  rewards,    \* referral rewards of each order
  requests,   \* events ORDER_FULFILLMENT_REQUESTED of each order
  job         \* where each handler rests, and for which transaction

vars == <<state, click, payments, deposits, reversals, order, rewards, requests, job>>

topups == <<state, click, deposits, reversals>>
purchases == <<order, rewards, requests>>

Free == [at |-> "free", tx |-> NoTx]

Init ==
  /\ state = [t \in Payme |-> 0]
  /\ click = [t \in Click |-> "none"]
  /\ payments = {}
  /\ deposits = [t \in Tx |-> 0]
  /\ reversals = [t \in Payme |-> 0]
  /\ order = [o \in PaidOrder |-> "created"]
  /\ rewards = [o \in PaidOrder |-> 0]
  /\ requests = [o \in PaidOrder |-> 0]
  /\ job = [h \in Handler |-> Free]

-----------------------------------------------------------------------------
Idle(h) == job[h] = Free

Rests(h, place, t) == job' = [job EXCEPT ![h] = [at |-> place, tx |-> t]]

Answers(h) == job' = [job EXCEPT ![h] = Free]

(* Variant: neither table has its unique constraint.                       *)
CreditUnguarded(t) ==
  /\ payments' = payments \cup {t}
  /\ deposits' = [deposits EXCEPT ![t] = @ + 1]

(* The top-up branch of the pipeline up to its commit: one transaction     *)
(* inserts the payment, credits the wallet under the payment's key and     *)
(* adds the event.                                                         *)
Credit(t) ==
  /\ t \notin payments
  /\ payments' = payments \cup {t}
  /\ deposits' = [deposits EXCEPT ![t] = @ + 1]

(* CreateTransaction: of two that race for one id, uniqueness of paycom_id *)
(* lets one insert.                                                        *)
PaymeCreate(t) ==
  /\ state[t] = 0
  /\ state' = [state EXCEPT ![t] = 1]
  /\ UNCHANGED <<click, payments, deposits, reversals, purchases, job>>

(* Variant: the state is written before the money moves.                   *)
PerformStateFirst(h, t) ==
  /\ Idle(h)
  /\ state[t] = 1
  /\ state' = [state EXCEPT ![t] = 2]
  /\ Rests(h, "credited", t)
  /\ UNCHANGED <<click, payments, deposits, reversals, purchases>>

(* Variant: anything that was not performed may still be.                  *)
PerformCancelled(h, t) ==
  /\ Idle(h)
  /\ state[t] \in {1, -1}
  /\ Credit(t)
  /\ Rests(h, "credited", t)
  /\ UNCHANGED <<state, click, reversals, purchases>>

(* PerformTransaction of an open transaction: the pipeline commits, and    *)
(* the lock on the Payme row is gone.                                      *)
PaymePerform(h, t) ==
  /\ Idle(h)
  /\ state[t] = 1
  /\ Credit(t)
  /\ Rests(h, "credited", t)
  /\ UNCHANGED <<state, click, reversals, purchases>>

(* The handler's second commit: UPDATE ... SET state = 2, whatever the row *)
(* says by now.                                                            *)
MarkPerformed(h) ==
  /\ job[h].at = "credited"
  /\ state' = [state EXCEPT ![job[h].tx] = 2]
  /\ Answers(h)
  /\ UNCHANGED <<click, payments, deposits, reversals, purchases>>

(* Variant: a duplicate is answered without a look at the state.           *)
PerformKnownUnrecorded(t) ==
  /\ state[t] = 1
  /\ t \in payments
  /\ UNCHANGED vars

(* PerformTransaction again after the money was credited: the pipeline     *)
(* reports a duplicate without a commit and the state is written under the *)
(* lock.                                                                   *)
PaymePerformKnown(t) ==
  /\ state[t] = 1
  /\ t \in payments
  /\ state' = [state EXCEPT ![t] = 2]
  /\ UNCHANGED <<click, payments, deposits, reversals, purchases, job>>

(* CancelTransaction of a transaction that reads as not performed.         *)
PaymeCancel(t) ==
  /\ state[t] = 1
  /\ state' = [state EXCEPT ![t] = -1]
  /\ UNCHANGED <<click, payments, deposits, reversals, purchases, job>>

(* Variant: the ledger takes the same cancellation twice.                  *)
ReverseUnguarded(t) ==
  /\ state[t] = 2
  /\ state' = [state EXCEPT ![t] = -2]
  /\ reversals' = [reversals EXCEPT ![t] = @ + 1]
  /\ UNCHANGED <<click, payments, deposits, purchases, job>>

(* CancelTransaction of a performed one debits the wallet, if the money is *)
(* still there and uq_wallet_reference_tx lets the row in; otherwise it is *)
(* refused and nothing changes.                                            *)
PaymeReverse(t) ==
  /\ state[t] = 2
  /\ reversals[t] = 0
  /\ state' = [state EXCEPT ![t] = -2]
  /\ reversals' = [reversals EXCEPT ![t] = @ + 1]
  /\ UNCHANGED <<click, payments, deposits, purchases, job>>

-----------------------------------------------------------------------------
ClickPrepare(t) ==
  /\ click[t] = "none"
  /\ click' = [click EXCEPT ![t] = "prepared"]
  /\ UNCHANGED <<state, payments, deposits, reversals, purchases, job>>

(* Complete with a negative error.                                         *)
ClickFail(t) ==
  /\ click[t] \in {"prepared", "cancelled"}
  /\ click' = [click EXCEPT ![t] = "cancelled"]
  /\ UNCHANGED <<state, payments, deposits, reversals, purchases, job>>

(* Complete: the status is committed with the pipeline's commit, also for  *)
(* a transaction that was cancelled.                                       *)
ClickComplete(t) ==
  /\ click[t] \in {"prepared", "cancelled"}
  /\ Credit(t)
  /\ click' = [click EXCEPT ![t] = "completed"]
  /\ UNCHANGED <<state, reversals, purchases, job>>

-----------------------------------------------------------------------------
(* The pipeline finds no PaymentTransaction: FOR UPDATE locks nothing.     *)
FindNone(h, t) ==
  /\ Idle(h)
  /\ t \notin payments
  /\ Rests(h, "inserting", t)
  /\ UNCHANGED <<topups, payments, purchases>>

(* Another request inserted it first: IntegrityError, rollback, and the    *)
(* answer is the existing payment.                                         *)
LoseRace(h) ==
  /\ job[h].at = "inserting"
  /\ job[h].tx \in payments
  /\ Answers(h)
  /\ UNCHANGED <<topups, payments, purchases>>

CardDeposit(h) ==
  /\ job[h].at = "inserting"
  /\ job[h].tx \in Card
  /\ Credit(job[h].tx)
  /\ Answers(h)
  /\ UNCHANGED <<state, click, reversals, purchases>>

OrderOf(h) == PaysFor[job[h].tx]

Paying(h) ==
  /\ job[h].at = "inserting"
  /\ job[h].tx \in OrderTx \ payments

(* transition_order_status commits the payment and PAID, nothing else.     *)
MarkPaid(h) ==
  /\ Paying(h)
  /\ CanMove(order[OrderOf(h)], "paid")
  /\ payments' = payments \cup {job[h].tx}
  /\ order' = [order EXCEPT ![OrderOf(h)] = "paid"]
  /\ Rests(h, "paid", job[h].tx)
  /\ UNCHANGED <<topups, rewards, requests>>

(* Variant: the reward is not looked up, nor unique.                       *)
RewardedAgain(o) ==
  \/ rewards' = [rewards EXCEPT ![o] = @ + 1]
  \/ UNCHANGED rewards

(* The referrer's reward, if the buyer has one and it meets the settings;  *)
(* never a second one for the order.                                       *)
Rewarded(o) ==
  \/ rewards[o] = 0 /\ rewards' = [rewards EXCEPT ![o] = @ + 1]
  \/ UNCHANGED rewards

(* The second transaction of the pipeline: reward and outbox event.        *)
RequestFulfillment(h) ==
  /\ job[h].at = "paid"
  /\ Rewarded(OrderOf(h))
  /\ requests' = [requests EXCEPT ![OrderOf(h)] = @ + 1]
  /\ Answers(h)
  /\ UNCHANGED <<topups, payments, order>>

(* The order is PAID already: transition_order_status returns at once, and *)
(* the payment commits with a second event.                                *)
PayAgain(h) ==
  /\ Paying(h)
  /\ order[OrderOf(h)] = "paid"
  /\ payments' = payments \cup {job[h].tx}
  /\ Rewarded(OrderOf(h))
  /\ requests' = [requests EXCEPT ![OrderOf(h)] = @ + 1]
  /\ Answers(h)
  /\ UNCHANGED <<topups, order>>

(* The order is past payment: InvalidOrderStateError, and nothing is kept. *)
RefusePayment(h) ==
  /\ Paying(h)
  /\ order[OrderOf(h)] # "paid"
  /\ ~CanMove(order[OrderOf(h)], "paid")
  /\ Answers(h)
  /\ UNCHANGED <<topups, payments, purchases>>

(* What the rest of the system does to an order in the meantime.           *)
OrderMoves(o) ==
  /\ \E to \in {"cancelled", "completed"} :
       /\ CanMove(order[o], to)
       /\ order' = [order EXCEPT ![o] = to]
  /\ UNCHANGED <<topups, payments, rewards, requests, job>>

(* The process dies, or the client hangs up, between two transactions.     *)
Crash(h) ==
  /\ ~Idle(h)
  /\ Answers(h)
  /\ UNCHANGED <<topups, payments, purchases>>

-----------------------------------------------------------------------------
PaymeRequest(t) ==
  \/ PaymeCreate(t)
  \/ \E h \in Handler : PaymePerform(h, t)
  \/ PaymePerformKnown(t)
  \/ PaymeCancel(t)
  \/ PaymeReverse(t)

ClickRequest(t) == ClickPrepare(t) \/ ClickFail(t) \/ ClickComplete(t)

Continue(h) ==
  \/ MarkPerformed(h) \/ LoseRace(h) \/ CardDeposit(h)
  \/ MarkPaid(h) \/ RequestFulfillment(h) \/ PayAgain(h) \/ RefusePayment(h)

Next ==
  \/ \E t \in Payme : PaymeRequest(t)
  \/ \E t \in Click : ClickRequest(t)
  \/ \E h \in Handler : Continue(h) \/ Crash(h) \/ \E t \in Card \cup OrderTx : FindNone(h, t)
  \/ \E o \in PaidOrder : OrderMoves(o)

Spec == Init /\ [][Next]_vars

(* Payme repeats PerformTransaction until it is answered.                  *)
FairSpec == Spec /\ \A t \in Payme : WF_vars(PaymePerformKnown(t))

-----------------------------------------------------------------------------
Job == [at : {"free", "credited", "inserting", "paid"}, tx : Tx \cup {NoTx}]

(* Types; the bound on deposits says that a provider transaction is        *)
(* credited at most once however often, in whatever order and on however   *)
(* many connections its webhooks arrive (payments/service.py:41-64).       *)
TypeOK ==
  /\ state \in [Payme -> {-2, -1, 0, 1, 2}]
  /\ click \in [Click -> {"none", "prepared", "completed", "cancelled"}]
  /\ payments \subseteq Tx
  /\ deposits \in [Tx -> {0, 1}]
  /\ reversals \in [Payme -> Nat]
  /\ order \in [PaidOrder -> OrderStatus]
  /\ rewards \in [PaidOrder -> Nat]
  /\ requests \in [PaidOrder -> Nat]
  /\ job \in [Handler -> Job]

(* What the system tells a provider is done has been credited: a Payme     *)
(* transaction in state 2, or -2, and a completed Click transaction have   *)
(* their deposit, although state 2 is written by a commit of its own.      *)
PerformedIsCredited ==
  /\ \A t \in Payme : state[t] \in {2, -2} => deposits[t] = 1
  /\ \A t \in Click : click[t] = "completed" => deposits[t] = 1

(* A cancelled Payme transaction debits the wallet at most once and never  *)
(* without the deposit, also when a late second commit has put state 2     *)
(* back and Payme cancels again (payme.py:198-212).                        *)
ReversedOnce == \A t \in Payme : reversals[t] <= deposits[t]

(* One order gives one referral bonus, also when two transactions pay it   *)
(* or its webhook is repeated (referrals/service.py:32-35).                *)
RewardedOnce == \A o \in PaidOrder : rewards[o] <= 1

(* Webhooks in several commits, repeated, late and racing, are the         *)
(* indivisible steps of AtomicPayments: a top-up is credited once or       *)
(* refused for good (payme.py:171-172), what was credited is taken back    *)
(* once, and an order is marked PAID once, before the one bonus it gives   *)
(* (payments/service.py:57-63).                                            *)
Abs == INSTANCE AtomicPayments WITH
         refused <- {t \in Payme : state[t] \in {-1, -2} /\ deposits[t] = 0},
         sold    <- {PaysFor[t] : t \in payments \cap OrderTx}

ImplementsAtomicPayments == Abs!ASpec

(* A handler that dies after the credit leaves the Payme transaction open; *)
(* the repeated PerformTransaction closes it.                              *)
CreditedIsClosed == \A t \in Payme : deposits[t] = 1 ~> state[t] # 1

(* payme.py:199, "Debit the credited balance if cancelled after            *)
(* performance": a cancelled transaction leaves no money behind.           *)
CancelledIsReversed ==
  \A t \in Payme : state[t] \in {-1, -2} => reversals[t] = deposits[t]

(* payments/service.py:63, README.md:104: the order's event is committed   *)
(* atomically with the payment, so no PAID order is left without one.      *)
PaidOrderIsRequested ==
  \A o \in PaidOrder :
    order[o] = "paid" /\ (\A h \in Handler : Idle(h)) => requests[o] > 0
=============================================================================
