------------------------------- MODULE Wallet -------------------------------
(***************************************************************************)
(* app/services/wallet/service.py under concurrent database sessions.      *)
(*                                                                         *)
(* Every webhook, checkout, admin action or bot callback opens one         *)
(* AsyncSession and performs a plan: a sequence of credit_balance /        *)
(* debit_balance calls followed by one commit.  Each call locks the user's *)
(* row (SELECT ... FOR UPDATE), computes the new balance from the          *)
(* attribute of the User object the session holds, and inserts an          *)
(* immutable WalletTransaction row; the lock lives until commit or         *)
(* rollback.                                                               *)
(*                                                                         *)
(* The session's identity map is part of the state: a User object that was *)
(* loaded before the lock keeps the balance it was loaded with, because    *)
(* get_user_locked does not ask for populate_existing.  An operation whose *)
(* caller did load the object first (the referrer in referrals/service.py, *)
(* the payer in autopaycard.py, the buyer in the bot's purchase handlers)  *)
(* has preload = TRUE.                                                     *)
(***************************************************************************)
EXTENDS Integers, Sequences, FiniteSets

CONSTANTS
  User,       \* wallet owners (users.id)
  Session,    \* database sessions, one per request
  Ref,        \* values of (reference_type, reference_id, tx_type)
  Plans,      \* the requests that may arrive: sequences of wallet calls
  Opening,    \* balances when the observation starts
  NoSession,  \* the row lock is free
  NotLoaded,  \* the User object is not in the identity map
  NoRow,      \* the session has no uncommitted ledger row for the user
  NoRef       \* reference_id IS NULL: never equal to another row's

Op == [user : User, amount : Int, ref : Ref \cup {NoRef}, preload : BOOLEAN]

Row == [amount : Int, before : Nat, after : Nat, ref : Ref \cup {NoRef}]

ASSUME OpeningAssumption == Opening \in [User -> Nat]

(* A request never touches the same wallet or uses a reference twice: the  *)
(* only request with two movements pays a referrer, a buyer is never their *)
(* own referrer, and purchase and bonus have different types.              *)
ASSUME PlansAssumption ==
  \A p \in Plans :
    /\ p \in Seq(Op)
    /\ \A i, j \in 1 .. Len(p) :
         i # j => /\ p[i].user # p[j].user
                  /\ p[i].ref # NoRef => p[i].ref # p[j].ref

(* References name one business event: a request that can commit (none of  *)
(* its amounts is zero) posts all that any request with one of its         *)
(* references posts.  Purchase and bonus carry the id of the order that    *)
(* the request itself creates; other requests have one movement.           *)
ASSUME ReferencesAssumption ==
  \A p, q \in Plans : \A i \in 1 .. Len(p), k \in 1 .. Len(q) :
    /\ p[i].ref = q[k].ref
    /\ \A m \in 1 .. Len(q) : q[m].amount # 0
    => \A j \in 1 .. Len(p) : \E m \in 1 .. Len(q) : q[m].ref = p[j].ref

ASSUME SentinelAssumption ==
  /\ NoSession \notin Session
  /\ NotLoaded \notin Nat
  /\ NoRow \notin Row
  /\ NoRef \notin Ref

VARIABLES
  balance,   \* users.balance, committed
  ledger,    \* wallet_transactions per user, committed, oldest first
  lock,      \* the session holding the row lock of the user
  cached,    \* balance attribute of the session's User object
  written,   \* the session's flushed but uncommitted ledger row
  plan,      \* the wallet calls of the session's request
  at,        \* index of the next call
  status     \* how far the session is, and how it ended

vars == <<balance, ledger, lock, cached, written, plan, at, status>>

Ended == {"committed", "invalid", "insufficient", "duplicate", "crashed"}

Status == {"idle", "open"} \cup Ended

Init ==
  /\ balance = Opening
  /\ ledger = [u \in User |-> <<>>]
  /\ lock = [u \in User |-> NoSession]
  /\ cached = [s \in Session |-> [u \in User |-> NotLoaded]]
  /\ written = [s \in Session |-> [u \in User |-> NoRow]]
  /\ plan = [s \in Session |-> <<>>]
  /\ at = [s \in Session |-> 1]
  /\ status = [s \in Session |-> "idle"]

-----------------------------------------------------------------------------
Calling(s) == status[s] = "open" /\ at[s] <= Len(plan[s])

Call(s) == plan[s][at[s]]

Begin(s) ==
  /\ status[s] = "idle"
  /\ \E p \in Plans : plan' = [plan EXCEPT ![s] = p]
  /\ status' = [status EXCEPT ![s] = "open"]
  /\ UNCHANGED <<balance, ledger, lock, cached, written, at>>

(* The caller loads the user with a plain session.get before the wallet    *)
(* call and keeps the object.                                              *)
LoadUser(s) ==
  /\ Calling(s)
  /\ Call(s).preload
  /\ cached[s][Call(s).user] = NotLoaded
  /\ cached' = [cached EXCEPT ![s][Call(s).user] = balance[Call(s).user]]
  /\ UNCHANGED <<balance, ledger, lock, written, plan, at, status>>

(* Variant: the row is read without FOR UPDATE.                            *)
GetUserUnlocked(s) ==
  LET u == Call(s).user IN
  /\ Calling(s)
  /\ Call(s).amount # 0
  /\ Call(s).preload => cached[s][u] # NotLoaded
  /\ lock[u] # s
  /\ lock' = [lock EXCEPT ![u] = s]
  /\ cached' = [cached EXCEPT ![s][u] = IF @ = NotLoaded THEN balance[u] ELSE @]
  /\ UNCHANGED <<balance, ledger, written, plan, at, status>>

(* SELECT ... FOR UPDATE: waits for the lock; only an object that is not   *)
(* yet in the identity map takes the balance of the row just locked.       *)
GetUserLocked(s) ==
  LET u == Call(s).user IN
  /\ Calling(s)
  /\ Call(s).amount # 0
  /\ Call(s).preload => cached[s][u] # NotLoaded
  /\ lock[u] = NoSession
  /\ lock' = [lock EXCEPT ![u] = s]
  /\ cached' = [cached EXCEPT ![s][u] = IF @ = NotLoaded THEN balance[u] ELSE @]
  /\ UNCHANGED <<balance, ledger, written, plan, at, status>>

(* Variant: the table has no unique constraint on references.              *)
NoUniqueConstraint(r) == FALSE

(* uq_wallet_reference_tx as the inserting session meets it: a committed   *)
(* row with the same reference is a violation, an uncommitted one of       *)
(* another session makes the insert wait.                                  *)
RefCommitted(r) ==
  r # NoRef /\ \E u \in User : \E i \in DOMAIN ledger[u] : ledger[u][i].ref = r

RefPending(r) ==
  r # NoRef /\ \E t \in Session, u \in User :
                 written[t][u] # NoRow /\ written[t][u].ref = r

(* Variant: every wallet call commits its own row.                         *)
FlushAndCommit(s, after) ==
  LET c == Call(s) IN
  /\ ~RefCommitted(c.ref)
  /\ ledger' = [ledger EXCEPT ![c.user] = Append(@,
       [amount |-> c.amount, before |-> cached[s][c.user], after |-> after, ref |-> c.ref])]
  /\ balance' = [balance EXCEPT ![c.user] = after]
  /\ at' = [at EXCEPT ![s] = @ + 1]
  /\ UNCHANGED <<lock, cached, written, plan, status>>

Flush(s, after) ==
  LET c == Call(s) IN
  /\ ~RefCommitted(c.ref)
  /\ ~RefPending(c.ref)
  /\ written' = [written EXCEPT ![s][c.user] =
       [amount |-> c.amount, before |-> cached[s][c.user], after |-> after, ref |-> c.ref]]
  /\ cached' = [cached EXCEPT ![s][c.user] = after]
  /\ at' = [at EXCEPT ![s] = @ + 1]
  /\ UNCHANGED <<balance, ledger, lock, plan, status>>

CreditBalance(s) ==
  /\ Calling(s)
  /\ Call(s).amount > 0
  /\ lock[Call(s).user] = s
  /\ Flush(s, cached[s][Call(s).user] + Call(s).amount)

(* Variant: the debit does not look at the balance.                        *)
DebitUnchecked(s) ==
  /\ Calling(s)
  /\ Call(s).amount < 0
  /\ lock[Call(s).user] = s
  /\ Flush(s, cached[s][Call(s).user] + Call(s).amount)

DebitBalance(s) ==
  /\ Calling(s)
  /\ Call(s).amount < 0
  /\ lock[Call(s).user] = s
  /\ cached[s][Call(s).user] >= -Call(s).amount
  /\ Flush(s, cached[s][Call(s).user] + Call(s).amount)

(* Variant: the connection goes back to the pool without a rollback.       *)
CloseKeepingLocks(s, how) ==
  /\ status' = [status EXCEPT ![s] = how]
  /\ UNCHANGED <<lock, cached, written, plan, at>>

(* The session ends: its locks are released and its objects forgotten.     *)
Close(s, how) ==
  /\ status' = [status EXCEPT ![s] = how]
  /\ lock' = [u \in User |-> IF lock[u] = s THEN NoSession ELSE lock[u]]
  /\ cached' = [cached EXCEPT ![s] = [u \in User |-> NotLoaded]]
  /\ written' = [written EXCEPT ![s] = [u \in User |-> NoRow]]
  /\ UNCHANGED <<plan, at>>

(* The errors a wallet call raises; none of the callers commits after one. *)
RefuseAmount(s) ==
  /\ Calling(s)
  /\ Call(s).amount = 0
  /\ Close(s, "invalid")
  /\ UNCHANGED <<balance, ledger>>

RefuseInsufficient(s) ==
  /\ Calling(s)
  /\ lock[Call(s).user] = s
  /\ Call(s).amount < 0
  /\ cached[s][Call(s).user] < -Call(s).amount
  /\ Close(s, "insufficient")
  /\ UNCHANGED <<balance, ledger>>

RefuseDuplicate(s) ==
  /\ Calling(s)
  /\ lock[Call(s).user] = s
  /\ cached[s][Call(s).user] + Call(s).amount >= 0
  /\ RefCommitted(Call(s).ref)
  /\ Close(s, "duplicate")
  /\ UNCHANGED <<balance, ledger>>

(* Variant: the ledger row is inserted but the balance is not written.     *)
CommitLedgerOnly(s) ==
  /\ status[s] = "open"
  /\ at[s] > Len(plan[s])
  /\ ledger' = [u \in User |->
                  IF written[s][u] = NoRow THEN ledger[u]
                  ELSE Append(ledger[u], written[s][u])]
  /\ UNCHANGED balance
  /\ Close(s, "committed")

(* session.commit(): the UPDATE of users.balance carries the attribute of  *)
(* the session's object, whatever the row holds.                           *)
Commit(s) ==
  /\ status[s] = "open"
  /\ at[s] > Len(plan[s])
  /\ balance' = [u \in User |->
                   IF written[s][u] = NoRow THEN balance[u] ELSE written[s][u].after]
  /\ ledger' = [u \in User |->
                  IF written[s][u] = NoRow THEN ledger[u]
                  ELSE Append(ledger[u], written[s][u])]
  /\ Close(s, "committed")

(* The process or its connection dies before the commit.                   *)
Crash(s) ==
  /\ status[s] = "open"
  /\ Close(s, "crashed")
  /\ UNCHANGED <<balance, ledger>>

Run(s) ==
  \/ LoadUser(s)
  \/ GetUserLocked(s)
  \/ CreditBalance(s)
  \/ DebitBalance(s)
  \/ RefuseAmount(s)
  \/ RefuseInsufficient(s)
  \/ RefuseDuplicate(s)
  \/ Commit(s)

Next == \E s \in Session : Begin(s) \/ Run(s) \/ Crash(s)

Spec == Init /\ [][Next]_vars

(* An open session keeps executing its handler: asyncio resumes it         *)
(* whenever the statement it awaits can complete.                          *)
FairSpec == Spec /\ \A s \in Session : WF_vars(Run(s))

-----------------------------------------------------------------------------
(* Wallets no request preloads: every User object that moves their money   *)
(* was loaded under the row lock.                                          *)
FreshUser ==
  {u \in User : \A p \in Plans : \A i \in 1 .. Len(p) :
                  p[i].user = u => ~p[i].preload}

(* Type correctness of every variable; in particular no committed balance  *)
(* and no balance snapshot in the ledger is negative, although debits race *)
(* and may compute from a stale object.                                    *)
TypeOK ==
  /\ balance \in [User -> Nat]
  /\ ledger \in [User -> Seq(Row)]
  /\ lock \in [User -> Session \cup {NoSession}]
  /\ cached \in [Session -> [User -> Nat \cup {NotLoaded}]]
  /\ written \in [Session -> [User -> Row \cup {NoRow}]]
  /\ plan \in [Session -> Plans \cup {<<>>}]
  /\ at \in [Session -> Nat \ {0}]
  /\ status \in [Session -> Status]

ChainedLedger(u) ==
  /\ \A i \in DOMAIN ledger[u] :
       /\ ledger[u][i].after = ledger[u][i].before + ledger[u][i].amount
       /\ ledger[u][i].before = IF i = 1 THEN Opening[u] ELSE ledger[u][i - 1].after
  /\ balance[u] = IF ledger[u] = <<>> THEN Opening[u]
                  ELSE ledger[u][Len(ledger[u])].after

(* No lost update and no double spending (wallet/service.py:17-24): the    *)
(* ledger rows of a user chain from the opening balance to the balance in  *)
(* users.balance, each row starting where the previous one ended, whatever *)
(* sessions interleave, fail or crash.  Stated for the wallets whose       *)
(* callers never load the row before locking it.                           *)
LedgerChained == \A u \in FreshUser : ChainedLedger(u)

(* The same for every wallet: what README.md:48 promises of all balance    *)
(* changes.                                                                *)
NoLostUpdate == \A u \in User : ChainedLedger(u)

(* A business reference posts at most one ledger row, for any user: two    *)
(* sessions that deliver the same payment, refund or bonus cannot both     *)
(* commit (models/wallet.py:32).                                           *)
ReferencePostedOnce ==
  \A u, v \in User : \A i \in DOMAIN ledger[u], j \in DOMAIN ledger[v] :
    /\ ledger[u][i].ref # NoRef
    /\ ledger[u][i].ref = ledger[v][j].ref
    => u = v /\ i = j

Posted(r) == \E u \in User : \E i \in DOMAIN ledger[u] : ledger[u][i].ref = r

(* The debit of a purchase and the referrer's bonus commit together or not *)
(* at all, also when the bonus is refused or the process dies after the    *)
(* debit was flushed (orders/service.py:138-243).                          *)
AllOrNothing ==
  \A p \in Plans : \A i, j \in 1 .. Len(p) : Posted(p[i].ref) => Posted(p[j].ref)

(* No request waits for a row lock forever: the lock order buyer before    *)
(* referrer cannot close a cycle, and every way out of a handler releases  *)
(* its locks.                                                              *)
EverySessionEnds ==
  \A s \in Session : status[s] = "open" ~> status[s] \in Ended

(* Projected on the wallets that are never preloaded, the interleaved      *)
(* sessions are the indivisible requests of AtomicLedger.                  *)
FreshBatches ==
  {{p[i] : i \in {j \in 1 .. Len(p) : p[j].user \in FreshUser}} : p \in Plans}

Abs == INSTANCE AtomicLedger WITH
         User    <- FreshUser,
         Opening <- [u \in FreshUser |-> Opening[u]],
         Batches <- FreshBatches,
         balance <- [u \in FreshUser |-> balance[u]],
         ledger  <- [u \in FreshUser |-> ledger[u]]

ImplementsAtomicLedger == Abs!ASpec
=============================================================================
