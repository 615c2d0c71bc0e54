--------------------------- MODULE AtomicPayments ---------------------------
(***************************************************************************)
(* What the payment pipeline and the providers' webhooks promise about the *)
(* books: a top-up is credited in one indivisible step or refused for      *)
(* good, a credited Payme transaction may be taken back once, and an order *)
(* is marked PAID once and gives one bonus after that.  Requests that are  *)
(* repeated, late or interrupted change nothing.                           *)
(***************************************************************************)
EXTENDS Integers

CONSTANTS Payme, OrderTx, Tx, PaidOrder

VARIABLES
  deposits,   \* ledger rows of each transaction
  reversals,  \* ledger rows that take a deposit back
  refused,    \* transactions cancelled before any money came
  sold,       \* orders marked PAID, whatever became of them
  rewards     \* referral rewards of each order

avars == <<deposits, reversals, refused, sold, rewards>>

AInit ==
  /\ deposits = [t \in Tx |-> 0]
  /\ reversals = [t \in Payme |-> 0]
  /\ refused = {} /\ sold = {}
  /\ rewards = [o \in PaidOrder |-> 0]

Deposit(t) ==
  /\ t \notin refused /\ deposits[t] = 0
  /\ deposits' = [deposits EXCEPT ![t] = 1]
  /\ UNCHANGED <<reversals, refused, sold, rewards>>

Refuse(t) ==
  /\ deposits[t] = 0
  /\ refused' = refused \cup {t}
  /\ UNCHANGED <<deposits, reversals, sold, rewards>>

TakeBack(t) ==
  /\ deposits[t] = 1 /\ reversals[t] = 0
  /\ reversals' = [reversals EXCEPT ![t] = 1]
  /\ UNCHANGED <<deposits, refused, sold, rewards>>

Sell(o) ==
  /\ o \notin sold
  /\ sold' = sold \cup {o}
  /\ UNCHANGED <<deposits, reversals, refused, rewards>>

Reward(o) ==
  /\ o \in sold /\ rewards[o] = 0
  /\ rewards' = [rewards EXCEPT ![o] = 1]
  /\ UNCHANGED <<deposits, reversals, refused, sold>>

ANext ==
  \/ \E t \in Tx \ OrderTx : Deposit(t)
  \/ \E t \in Payme : Refuse(t) \/ TakeBack(t)
  \/ \E o \in PaidOrder : Sell(o) \/ Reward(o)

ASpec == AInit /\ [][ANext]_avars
=============================================================================
