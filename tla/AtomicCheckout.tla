--------------------------- MODULE AtomicCheckout ---------------------------
(***************************************************************************)
(* What create_order promises: an order is placed in one indivisible step  *)
(* that takes its price from the buyer's wallet, redeems its code within   *)
(* the limits of the code, and binds its idempotency key; a checkout that  *)
(* does not place an order changes nothing.                                *)
(***************************************************************************)
EXTENDS Integers

CONSTANTS Request, User, Key, Code, BonusCode, Plans, Price, Benefit,
          MaxUses, MaxPerUser, Opening, None

VARIABLES balance, uses, redeemed, posted, orders, keys

avars == <<balance, uses, redeemed, posted, orders, keys>>

AInit ==
  /\ balance = Opening
  /\ uses = [c \in Code |-> 0]
  /\ redeemed = [c \in Code |-> [u \in User |-> 0]]
  /\ posted = {}
  /\ orders = {}
  /\ keys = [k \in Key |-> None]

Gain(p) == IF p.code \in BonusCode THEN Benefit[p.code] ELSE 0

Due(p) ==
  IF p.code \notin Code \ BonusCode THEN Price
  ELSE IF Benefit[p.code] < Price THEN Price - Benefit[p.code] ELSE 0

Cost(p) == IF p.wallet THEN Due(p) ELSE 0

Place(r, p) ==
  /\ r \notin orders
  /\ p.key # None => keys[p.key] = None
  /\ p.code # None => /\ uses[p.code] < MaxUses[p.code]
                      /\ redeemed[p.code][p.user] < MaxPerUser[p.code]
  /\ p.code \in BonusCode => p.code \notin posted
  /\ p.wallet => Due(p) > 0 /\ balance[p.user] + Gain(p) >= Due(p)
  /\ balance' = [balance EXCEPT ![p.user] = @ + Gain(p) - Cost(p)]
  /\ uses' = [c \in Code |-> IF c = p.code THEN uses[c] + 1 ELSE uses[c]]
  /\ redeemed' = [c \in Code |-> IF c = p.code
                                 THEN [redeemed[c] EXCEPT ![p.user] = @ + 1]
                                 ELSE redeemed[c]]
  /\ posted' = posted \cup ({p.code} \cap BonusCode)
  /\ orders' = orders \cup {r}
  /\ keys' = [k \in Key |-> IF k = p.key THEN r ELSE keys[k]]

ANext == \E r \in Request, p \in Plans : Place(r, p)

ASpec == AInit /\ [][ANext]_avars
=============================================================================
