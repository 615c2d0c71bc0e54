---------------------------- MODULE AtomicLedger ----------------------------
(***************************************************************************)
(* What the wallet promises: a request that moves money posts its ledger   *)
(* rows and the new balances in one indivisible step, each row computed    *)
(* from the balance the user really has at that moment, no balance ever    *)
(* below zero and no business reference used twice.                        *)
(*                                                                         *)
(* A batch is the set of movements of one request (a purchase debits the   *)
(* buyer and may credit the referrer); a movement's amount is positive for *)
(* a credit and negative for a debit.                                      *)
(***************************************************************************)
EXTENDS Integers, Sequences

CONSTANTS User, Opening, Batches, NoRef

VARIABLES balance, ledger

avars == <<balance, ledger>>

AInit ==
  /\ balance = Opening
  /\ ledger = [u \in User |-> <<>>]

RowOf(o) ==
  [amount |-> o.amount,
   before |-> balance[o.user],
   after  |-> balance[o.user] + o.amount,
   ref    |-> o.ref]

Unused(r) ==
  \A u \in User : \A i \in DOMAIN ledger[u] : ledger[u][i].ref # r

PostBatch(b) ==
  /\ \A o \in b : /\ o.amount # 0
                  /\ balance[o.user] + o.amount >= 0
                  /\ o.ref # NoRef => Unused(o.ref)
  /\ \A u \in User :
       \/ \E o \in b : /\ o.user = u
                       /\ balance'[u] = RowOf(o).after
                       /\ ledger'[u] = Append(ledger[u], RowOf(o))
       \/ /\ \A o \in b : o.user # u
          /\ balance'[u] = balance[u]
          /\ ledger'[u] = ledger[u]

ANext == \E b \in Batches : PostBatch(b)

ASpec == AInit /\ [][ANext]_avars
=============================================================================
