------------------------------ MODULE MCWallet ------------------------------
(***************************************************************************)
(* Three wallets in a referral chain, ann referred by bob referred by cyd, *)
(* and the requests of app/services that move their money.                 *)
(***************************************************************************)
EXTENDS Wallet

CONSTANTS ann, bob, cyd

Move(u, a, r, pre) == [user |-> u, amount |-> a, ref |-> r, preload |-> pre]

MCUser == {ann, bob, cyd}

MCOpening == [u \in MCUser |-> IF u = ann THEN 3 ELSE IF u = bob THEN 2 ELSE 0]

MCRef == {"deposit", "buy1", "buy2", "bonus1", "bonus2", "admin"}

(* A deposit webhook (delivered any number of times), purchases with the   *)
(* referrer's bonus, a manual receipt (no reference), two adjustments by   *)
(* one administrator, and a purchase whose promo code makes it free.       *)
MCPlans ==
  { <<Move(ann, 3, "deposit", FALSE)>>,
    <<Move(ann, -3, "buy1", FALSE), Move(bob, 1, "bonus1", TRUE)>>,
    <<Move(bob, -2, "buy2", FALSE), Move(cyd, 1, "bonus2", TRUE)>>,
    <<Move(ann, 1, NoRef, FALSE)>>,
    <<Move(ann, -2, "admin", FALSE)>>,
    <<Move(cyd, 2, "admin", FALSE)>>,
    <<Move(ann, 0, "buy1", FALSE)>> }

(* Requests whose caller holds the User object before the wallet call: two *)
(* purchases through the bot (handlers/users/shop.py:557-571), an          *)
(* AutoPayCard top-up (payments/autopaycard.py:91-104).                    *)
MCBotPlans ==
  { <<Move(ann, -3, "buy1", TRUE)>>,
    <<Move(ann, -3, "buy2", TRUE)>>,
    <<Move(ann, 3, "deposit", TRUE)>> }
=============================================================================
