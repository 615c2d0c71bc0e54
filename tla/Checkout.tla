------------------------------ MODULE Checkout ------------------------------
(***************************************************************************)
(* create_order (app/services/orders/service.py:48-263) by concurrent      *)
(* requests, some of them retries that carry the idempotency key of an     *)
(* earlier one.                                                            *)
(*                                                                         *)
(* A checkout is one database transaction.  It looks its key up, reads its *)
(* price lock without locking it, and then meets row locks in the order of *)
(* its statements and flushes (Steps): the promo code FOR UPDATE, the      *)
(* price lock when the first flush updates it, the buyer FOR UPDATE, the   *)
(* referrer FOR UPDATE.  What it checks it checks when it gets a lock;     *)
(* what it writes becomes visible with its one commit, where the insert of *)
(* the key finds out whether another request was faster.  Nobody loaded    *)
(* the code or the buyer before locking them (the bot's purchases do, they *)
(* are plans of Wallet, and carry neither key, nor code, nor price lock).  *)
(*                                                                         *)
(* Every product has the price Price.  The referrer's bonus is a movement  *)
(* of Wallet; here it is the row lock it needs.                            *)
(***************************************************************************)
EXTENDS Integers, Sequences

CONSTANTS
  Request,     \* checkouts
  User,
  Key,         \* idempotency keys; a client makes its own
  PriceLock,
  Code,        \* promo codes
  BonusCode,   \* those of type balance_bonus; the others are discounts
  Plans,       \* what a checkout may ask for
  Referrer,    \* the referrer a purchase of each user rewards, or None
  Price,
  Benefit,     \* money off, or money credited
  MaxUses,     \* max_uses of each code
  MaxPerUser,  \* max_uses_per_user of each code
  Opening,     \* balances when the observation starts
  None

Plan == [user : User, key : Key \cup {None}, lock : PriceLock \cup {None},
         code : Code \cup {None}, wallet : BOOLEAN]

TableRow == User \cup PriceLock \cup Code

ASSUME PlansAssumption ==
  /\ Plans \subseteq Plan
  /\ \A p, q \in Plans : p.key # None /\ p.key = q.key => p.user = q.user

ASSUME CatalogAssumption ==
  /\ BonusCode \subseteq Code
  /\ Referrer \in [User -> User \cup {None}]
  /\ \A u \in User : Referrer[u] # u
  /\ Price \in Nat \ {0}
  /\ Benefit \in [Code -> Nat \ {0}]
  /\ MaxUses \in [Code -> Nat]
  /\ MaxPerUser \in [Code -> Nat]
  /\ Opening \in [User -> Nat]

ASSUME DistinctAssumption ==
  /\ User \cap PriceLock = {} /\ User \cap Code = {} /\ PriceLock \cap Code = {}
  /\ None \notin TableRow \cup Key \cup Request \cup Plans

VARIABLES
  balance,   \* users.balance
  uses,      \* promo_codes.current_uses
  redeemed,  \* promo_redemptions of each code and user
  posted,    \* codes with a ledger row (promo, id, promo_bonus)
  used,      \* price locks with is_used
  orders,    \* requests whose order is committed
  keys,      \* checkout_idempotency
  plan,      \* what each request asks for
  pc,        \* how far it is, and how it ended
  at,        \* the step whose row lock it needs next
  holder,    \* the transaction that holds each row lock
  answer     \* the order each request was answered with

books == <<balance, uses, redeemed, posted, used, orders, keys>>

vars == <<balance, uses, redeemed, posted, used, orders, keys,
          plan, pc, at, holder, answer>>

Ended == {"answered", "failed"}

Init ==
  /\ balance = Opening
  /\ uses = [c \in Code |-> 0]
  /\ redeemed = [c \in Code |-> [u \in User |-> 0]]
  /\ posted = {}
  /\ used = {}
  /\ orders = {}
  /\ keys = [k \in Key |-> None]
  /\ plan = [r \in Request |-> None]
  /\ pc = [r \in Request |-> "idle"]
  /\ at = [r \in Request |-> 1]
  /\ holder = [row \in TableRow |-> None]
  /\ answer = [r \in Request |-> None]

-----------------------------------------------------------------------------
(* apply_promo_code: what a discount leaves to pay, what a bonus credits.  *)
Gain(p) == IF p.code \in BonusCode THEN Benefit[p.code] ELSE 0

Due(p) ==
  IF p.code \notin Code \ BonusCode THEN Price
  ELSE IF Benefit[p.code] < Price THEN Price - Benefit[p.code] ELSE 0

Cost(p) == IF p.wallet THEN Due(p) ELSE 0

(* The row locks of a checkout in the order it needs them.  The price lock *)
(* is updated by whatever flushes first: the redemption of a discount, the *)
(* credit of a bonus, the debit, or the insert of the order.               *)
Optional(does, row) == IF row = None THEN <<>> ELSE <<[does |-> does, row |-> row]>>

Debit(p) == IF p.wallet THEN <<[does |-> "debit", row |-> p.user]>> ELSE <<>>

Consume(p) == Optional("consume", p.lock)

Reward(p) == IF p.wallet THEN Optional("reward", Referrer[p.user]) ELSE <<>>

Redeem(p) == Optional("redeem", p.code)

Credit(p) == <<[does |-> "credit", row |-> p.user]>>

Steps(p) ==
  (CASE p.code = None         -> Debit(p) \o Consume(p)
     [] p.code \in BonusCode  -> Redeem(p) \o Credit(p) \o Consume(p) \o Debit(p)
     [] OTHER                 -> Redeem(p) \o Consume(p) \o Debit(p))
  \o Reward(p)

Working(r) == pc[r] = "working" /\ at[r] <= Len(Steps(plan[r]))

Step(r) == Steps(plan[r])[at[r]]

Released(r) == [row \in TableRow |-> IF holder[row] = r THEN None ELSE holder[row]]

(* Variant: an error answers without a rollback.                           *)
FailKeepingLocks(r) ==
  /\ pc' = [pc EXCEPT ![r] = "failed"]
  /\ at' = [at EXCEPT ![r] = 1]
  /\ plan' = [plan EXCEPT ![r] = None]
  /\ UNCHANGED <<books, holder, answer>>

(* The transaction is rolled back and the session closed.                  *)
Fail(r) ==
  /\ pc' = [pc EXCEPT ![r] = "failed"]
  /\ at' = [at EXCEPT ![r] = 1]
  /\ plan' = [plan EXCEPT ![r] = None]
  /\ holder' = Released(r)
  /\ UNCHANGED <<books, answer>>

-----------------------------------------------------------------------------
Begin(r) ==
  /\ pc[r] = "idle"
  /\ \E p \in Plans : plan' = [plan EXCEPT ![r] = p]
  /\ pc' = [pc EXCEPT ![r] = "lookup"]
  /\ UNCHANGED <<books, at, holder, answer>>

(* Feature flags, the spam check, an expired or unsuitable price lock or   *)
(* code: nothing this model follows.                                       *)
TurnAway(r) ==
  /\ \/ pc[r] \in {"lookup", "pricing"}
     \/ Working(r) /\ Step(r).does = "redeem"
  /\ Fail(r)

Answers(r, order) ==
  /\ pc' = [pc EXCEPT ![r] = "answered"]
  /\ at' = [at EXCEPT ![r] = 1]
  /\ answer' = [answer EXCEPT ![r] = order]
  /\ holder' = Released(r)
  /\ UNCHANGED plan

KeyTaken(p) == p.key # None /\ keys[p.key] # None

(* The idempotency check finds the order of an earlier request.            *)
AnswerKnown(r) ==
  /\ pc[r] = "lookup"
  /\ KeyTaken(plan[r])
  /\ Answers(r, keys[plan[r].key])
  /\ UNCHANGED books

LookUpKey(r) ==
  /\ pc[r] = "lookup"
  /\ ~KeyTaken(plan[r])
  /\ pc' = [pc EXCEPT ![r] = "pricing"]
  /\ UNCHANGED <<books, plan, at, holder, answer>>

(* validate_or_consume_price_lock reads with a plain session.get; is_used  *)
(* is set in memory.                                                       *)
ReadPrice(r) ==
  /\ pc[r] = "pricing"
  /\ plan[r].lock \notin used
  /\ pc' = [pc EXCEPT ![r] = "working"]
  /\ UNCHANGED <<books, plan, at, holder, answer>>

PriceLockUsed(r) ==
  /\ pc[r] = "pricing"
  /\ plan[r].lock \in used
  /\ Fail(r)

(* Variant: the code is read without FOR UPDATE.                           *)
UnlockedOrCode(r) ==
  Step(r).does = "redeem" \/ holder[Step(r).row] \in {None, r}

Unlocked(r) == holder[Step(r).row] \in {None, r}

(* What the code checks once it holds the row.                             *)
WithinLimits(p) ==
  /\ uses[p.code] < MaxUses[p.code]
  /\ redeemed[p.code][p.user] < MaxPerUser[p.code]

(* Variant: the debit does not look at the balance.                        *)
AffordableAlways(p) == Due(p) > 0

Affordable(p) == Due(p) > 0 /\ balance[p.user] + Gain(p) >= Due(p)

(* Variant: a bonus has no reference in the ledger.                        *)
PassesUnreferenced(r) ==
  /\ Step(r).does = "redeem" => WithinLimits(plan[r])
  /\ Step(r).does = "debit" => Affordable(plan[r])

Passes(r) ==
  /\ Step(r).does = "redeem" => WithinLimits(plan[r])
  /\ Step(r).does = "credit" => plan[r].code \notin posted
  /\ Step(r).does = "debit" => Affordable(plan[r])

Proceed(r) ==
  /\ Working(r)
  /\ Unlocked(r)
  /\ Passes(r)
  /\ holder' = [holder EXCEPT ![Step(r).row] = r]
  /\ at' = [at EXCEPT ![r] = @ + 1]
  /\ UNCHANGED <<books, plan, pc, answer>>

(* Limit reached, bonus already in the ledger (uq_wallet_reference_tx),    *)
(* nothing to pay (debit_balance wants an amount), or not enough money.    *)
Refuse(r) ==
  /\ Working(r)
  /\ Unlocked(r)
  /\ ~Passes(r)
  /\ Fail(r)

Written(r) == pc[r] = "working" /\ at[r] > Len(Steps(plan[r]))

(* Variant: the table has no primary key.                                  *)
CommitAnyway(r) ==
  LET p == plan[r] IN
  /\ Written(r)
  /\ balance' = [balance EXCEPT ![p.user] = @ + Gain(p) - Cost(p)]
  /\ uses' = [c \in Code |-> IF c = p.code THEN uses[c] + 1 ELSE uses[c]]
  /\ redeemed' = [c \in Code |-> IF c = p.code
                                 THEN [redeemed[c] EXCEPT ![p.user] = @ + 1]
                                 ELSE redeemed[c]]
  /\ posted' = posted \cup ({p.code} \cap BonusCode)
  /\ used' = used \cup ({p.lock} \cap PriceLock)
  /\ orders' = orders \cup {r}
  /\ keys' = [k \in Key |-> IF k = p.key THEN r ELSE keys[k]]
  /\ Answers(r, r)

(* One commit: debit, order, history, outbox event, redemption, price lock *)
(* and key.                                                                *)
Commit(r) ==
  LET p == plan[r] IN
  /\ Written(r)
  /\ ~KeyTaken(p)
  /\ balance' = [balance EXCEPT ![p.user] = @ + Gain(p) - Cost(p)]
  /\ uses' = [c \in Code |-> IF c = p.code THEN uses[c] + 1 ELSE uses[c]]
  /\ redeemed' = [c \in Code |-> IF c = p.code
                                 THEN [redeemed[c] EXCEPT ![p.user] = @ + 1]
                                 ELSE redeemed[c]]
  /\ posted' = posted \cup ({p.code} \cap BonusCode)
  /\ used' = used \cup ({p.lock} \cap PriceLock)
  /\ orders' = orders \cup {r}
  /\ keys' = [k \in Key |-> IF k = p.key THEN r ELSE keys[k]]
  /\ Answers(r, r)

(* IntegrityError on the key: rollback, and the answer is the winner's     *)
(* order.                                                                  *)
LoseRace(r) ==
  /\ Written(r)
  /\ KeyTaken(plan[r])
  /\ Answers(r, keys[plan[r].key])
  /\ UNCHANGED books

(* The process or its connection dies, or the database fails.              *)
Crash(r) ==
  /\ pc[r] \in {"lookup", "pricing", "working"}
  /\ Fail(r)

Waiting(r) == Working(r) /\ ~Unlocked(r)

(* Everyone in S waits for a row that someone in S holds.                  *)
Deadlocked(S) == \A r \in S : Waiting(r) /\ holder[Step(r).row] \in S

(* PostgreSQL aborts a transaction of a cycle of waiting ones.             *)
DeadlockVictim(r) ==
  /\ Waiting(r)
  /\ \E S \in SUBSET {q \in Request : Waiting(q)} : r \in S /\ Deadlocked(S)
  /\ Fail(r)

Run(r) ==
  \/ TurnAway(r) \/ AnswerKnown(r) \/ LookUpKey(r) \/ ReadPrice(r) \/ PriceLockUsed(r)
  \/ Proceed(r) \/ Refuse(r) \/ Commit(r) \/ LoseRace(r) \/ DeadlockVictim(r)

Next == \E r \in Request : Begin(r) \/ Run(r) \/ Crash(r)

Spec == Init /\ [][Next]_vars

(* asyncio resumes a handler when its statement completes, and PostgreSQL  *)
(* grants free row locks and breaks deadlocks.                             *)
FairSpec == Spec /\ \A r \in Request : WF_vars(Run(r))

-----------------------------------------------------------------------------
TypeOK ==
  /\ balance \in [User -> Nat]
  /\ uses \in [Code -> Nat]
  /\ redeemed \in [Code -> [User -> Nat]]
  /\ posted \subseteq BonusCode
  /\ used \subseteq PriceLock
  /\ orders \subseteq Request
  /\ keys \in [Key -> Request \cup {None}]
  /\ plan \in [Request -> Plans \cup {None}]
  /\ pc \in [Request -> {"idle", "lookup", "pricing", "working"} \cup Ended]
  /\ at \in [Request -> Nat \ {0}]
  /\ holder \in [TableRow -> Request \cup {None}]
  /\ answer \in [Request -> Request \cup {None}]

(* A code is never redeemed past its limits, globally or by one user, by   *)
(* requests that race for the last use or fail after redeeming it          *)
(* (promotions/service.py:34-82).                                          *)
CodesWithinLimits ==
  \A c \in Code :
    /\ uses[c] <= MaxUses[c]
    /\ \A u \in User : redeemed[c][u] <= MaxPerUser[c]

(* Rapid clicks and retries with one idempotency key buy one order, and    *)
(* whoever is answered gets that one (orders/service.py:90-103, 245-257).  *)
OneOrderPerKey ==
  \A r, s \in Request :
    /\ answer[r] # None /\ answer[s] # None
    /\ plan[r].key # None /\ plan[r].key = plan[s].key
    => answer[r] = answer[s]

(* Every checkout ends: requests that lock code, price lock, buyer and     *)
(* referrer in different orders cannot wait for each other forever, and    *)
(* whatever ends a handler frees its rows.                                 *)
EveryCheckoutEnds == \A r \in Request : pc[r] # "idle" ~> pc[r] \in Ended

(* Many statements under row locks, and a commit that may find the key     *)
(* taken, are the indivisible step of AtomicCheckout.                      *)
Abs == INSTANCE AtomicCheckout

ImplementsAtomicCheckout == Abs!ASpec

(* pricing/service.py:273: a price lock is marked as consumed by the       *)
(* order placed with it, and a used one is refused (:279-280).             *)
PriceLockUsedOnce ==
  \A r, s \in orders : plan[r].lock # None /\ plan[r].lock = plan[s].lock => r = s
=============================================================================
