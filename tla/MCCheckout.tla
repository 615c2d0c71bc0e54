----------------------------- MODULE MCCheckout -----------------------------
(***************************************************************************)
(* Two buyers, ann referred by bob, two price locks, and three codes: a    *)
(* discount, a bonus and one that makes the order free.                    *)
(***************************************************************************)
EXTENDS Checkout

CONSTANTS ann, bob, key, fixed, other, off, bonus, free

Asks(u, k, l, c, w) == [user |-> u, key |-> k, lock |-> l, code |-> c, wallet |-> w]

(* Purchases with a key, which a client may repeat; the price lock with    *)
(* and without the code, which locks the rows in another order.            *)
MCPlans ==
  { Asks(ann, key, fixed, off, TRUE),
    Asks(ann, key, fixed, None, TRUE),
    Asks(bob, None, None, off, TRUE),
    Asks(ann, key, other, bonus, TRUE),
    Asks(bob, None, None, bonus, TRUE),
    Asks(ann, None, None, free, TRUE),
    Asks(bob, None, fixed, free, FALSE) }

MCReferrer == [u \in {ann, bob} |-> IF u = ann THEN bob ELSE None]

MCBenefit == [c \in {off, bonus, free} |-> IF c = free THEN 3 ELSE 1]

MCMaxUses == [c \in {off, bonus, free} |-> IF c = free THEN 1 ELSE 2]

MCMaxPerUser == [c \in {off, bonus, free} |-> IF c = free THEN 2 ELSE 1]

MCOpening == [u \in {ann, bob} |-> IF u = ann THEN 4 ELSE 1]
=============================================================================
