# GiftHub: a TLA+ verification project

GiftHub sells Telegram Stars, Premium and gifts. One PostgreSQL database is
shared by a FastAPI application (`app/api`, `app/web`, provider webhooks), an
aiogram bot (`app/handlers`) and worker processes (`app/services/worker.py`);
`docker-compose.yml` starts them as containers of their own, `main.py` can run
them in one process. Apart from the database there is Redis, which holds the bot's
conversations, rate limits and a lock nobody takes, and the circuit breaker, which
is memory of each process.

Two facts about the database sessions shape every model here
(`app/core/database.py`):

- `AsyncSessionLocal(expire_on_commit=False, autoflush=False)`: an ORM object
  keeps the attributes it was loaded with, across commits and across a later
  `SELECT ... FOR UPDATE` of the same row (no query asks for
  `populate_existing`). A commit writes the attributes that differ from what was
  loaded, from whatever the object's age makes of them.
- A row lock lives until the *next commit or rollback of that session*, and many
  helpers commit (`transition_order_status`, the payment pipeline,
  `update_order_fulfillment`). A handler that calls one has given up its locks
  halfway.

So the atomic step of a model is the code between two points where the session
commits, waits for a lock, or awaits something with no lock held; what a session
remembers of a row is part of the state.

## 1. Inventory

| Component | State | Operations | Talks to |
|---|---|---|---|
| Wallet ledger (`services/wallet`, `models/wallet.py`) | `users.balance`, `wallet_transactions` (unique `(reference_type, reference_id, tx_type)`) | `credit_balance`, `debit_balance`, `get_user_locked` | called inside the session of checkout, payments, refunds, admin, receipts, promo bonuses |
| Order state machine (`models/order.py`, `orders/service.py:274-360`) | `orders.status`, `fulfillment_status`, history | `validate_order_transition`, `transition_order_status` (commits; pays the refund) | wallet, outbox, bot notifications |
| Fulfillment (`services/fulfillment`, `services/fragment.py`) | `fulfillment_attempts`, fulfillment status, the TON transactions sent | `fulfill_order_automated`, `fragment_client.fulfill_order`, retry-fulfillment (two versions), fulfill-fragment, mark-fulfilled | Fragment/TON (external), DLQ, order state machine |
| Outbox and worker (`services/outbox`, `services/worker.py`) | `outbox_events` status, retry count, lease | `create_event`, `claim_pending_events`, `mark_processed`, `mark_failed`, worker cycle, DLQ cycle | fulfillment, notifications, DLQ |
| Dead letter queue (`services/dlq`) | `dead_letter_jobs` | `record_failed_job`, `mark_retrying`, `resolve_job` | fulfillment, admin |
| Payment providers (`services/payments/{payme,click,autopaycard}.py`) | `payme_transactions.state`, `click_transactions.status` | Payme Create/Perform/Cancel, Click Prepare/Complete, AutoPayCard webhook | payment pipeline, wallet |
| Payment pipeline (`services/payments/service.py`) | `payment_transactions` (unique idempotency key) | `process_successful_payment_idempotent` (top-up branch, order branch) | wallet, orders, referrals, outbox |
| Checkout (`orders/service.py:48-263`) | orders, `checkout_idempotency` | `create_order` | flags, risk, pricing, promotions, wallet, referrals, outbox |
| Referrals (`services/referrals`) | `referral_rewards` (unique order), earnings | `process_order_referral_reward` | wallet |
| Pricing (`services/pricing`) | price locks, settings | `get_authoritative_price`, `create_price_lock`, `validate_or_consume_price_lock` | checkout |
| Promotions (`services/promotions`) | `current_uses`, redemptions | `apply_promo_code` | checkout, wallet |
| Manual receipts (`handlers/users/wallet.py`) | receipt status | submit, approve, reject | wallet |
| Circuit breaker (`providers/circuit_breaker.py`) | per process: state, failures, probe time | `can_execute`, `record_success`, `record_failure` | fulfillment, payments |
| Reconciliation (`services/reconciliation`) | discrepancies | hourly audit (every 1800 polls), resolve | reads orders, payments, ledger |
| Risk, feature flags, rate limit | flags, counters | guards of `create_order` and of handlers | checkout |
| Shop and wallet dialogues of the bot (`handlers/users/{shop,wallet,profile,start}.py`) | FSM step and dictionary of the chat, buttons of old messages | choose, enter an amount or a recipient, confirm, buy a service, send a receipt | pricing, checkout, receipts |
| Membership (`user_register.py`, `start.py`, `subscription.py`, `channel_events.py`, `admin/channels.py`) | users and referrers, roles, required channels, join requests | register, check the gate, edit the list, promotion of the bot in a chat | Telegram (external), every page of bot and site |
| Admin desk of the bot (`admin_panel.py`, `admin_forward.py`, `admin/broadcasts.py`) | FSM of the administrator, drafts, broadcasts under way | link for the buyer of a service, status buttons, broadcasts | order state machine, fulfillment |
| Start-up (`docker-compose.yml`, `main.py`, `migrations`, `database/db.py`) | schema, revision, default rows | `alembic upgrade head`, `create_all`, `init_db` | everything |
| Catalog, notifications, support, web pages, backups | rows with no protocol between actors | create, read, update | - |

Behaviours that are hard here: two sessions on one balance; a row lock given up
by a commit in the middle of a handler; objects of different age written by two
sessions of one call (`fulfillment/service.py` and `fragment.py` each hold one);
provider webhooks repeated, reordered and concurrent; worker crashes between the
transfer and its record, or between two commits; two retry budgets (attempts of
the order, retries of the event) running down at different speeds; administrators
and the bot acting on an order a worker has in hand; a worker's batch that commits
in its middle and is rolled back at its end; two updates of a chat that write one
dictionary; a gate that judges by a list which changes while it asks; processes that
start on each other's unfinished schema.

What makes each component correct:

- *Wallet*: the ledger chains up to the balance, no balance is negative, a
  business reference posts once, a purchase posts wholly or not at all, no
  request waits for a lock forever.
- *Orders*: only legal transitions, REFUNDED is final, one refund, a cancelled
  paid order is paid back.
- *Fulfillment, outbox, DLQ*: a paid order is delivered, answered for or filed;
  not delivered twice except for an unrecorded send; COMPLETED means delivered;
  nothing is sent behind a filed job; every event settles.
- *Payments*: a provider transaction is credited once, what is called performed
  was credited, a cancellation takes back what was credited and shuts out late
  credits, a paid order gets its event and at most one referral bonus.
- *Checkout, pricing, promotions*: a repeated checkout pays once and returns the
  same order; a price lock is consumed once; the limits of a code hold; a failed
  checkout leaves nothing consumed.
- *Receipts*: a receipt says success exactly when it was credited; credited once, and
  not after a rejection (which the code does not ensure, section 3).
- *Shop*: the price told is the price charged; a choice is bought once.
- *Circuit breaker*: a tripped breaker spaces the calls it lets through.
- *Worker's batch*: every event settles; a message is repeated only when its mark was
  rolled back.
- *Membership*: nobody passes a channel required throughout the check without
  having passed it at some time; nobody is stopped who passed all; who comes by a link has a referrer.
- *Admin desk*: a text reaches those it was asked for; a link means a delivery.
- *Start-up*: nobody serves on an old schema, no edit is undone, everybody comes up.

## 2. Modules

| Module | Models | Checked by | Proved in |
|---|---|---|---|
| `AtomicLedger` | what the wallet promises: a request posts its rows in one step | refined by `Wallet` | - |
| `Wallet` | wallet service under concurrent sessions | `MCWallet` | `WalletProofs` |
| `OrderLifecycle` | transition table, aliases, the effect of one transition | used by the next two | - |
| `Fulfillment` | one paid order, its outbox event, and all who may deliver it | its own `.cfg` files | `FulfillmentProofs` |
| `AtomicPayments` | what pipeline and webhooks promise about the books: credit or refuse for good, sell once, reward after that | refined by `Payments` | - |
| `Payments` | three providers and the pipeline, top-ups and order payments | `MCPayments` | `PaymentsProofs` |
| `AtomicCheckout` | what create_order promises: an order is placed in one step | refined by `Checkout` | - |
| `Checkout` | create_order by concurrent requests | `MCCheckout` | `CheckoutProofs` |
| `Pricing` | the price formulas, as operators | used by `Storefront` | `StorefrontProofs` |
| `Storefront` | the buyer's conversation with shop and wallet, receipts and their approval, edits of prices and services | `MCStorefront` | `StorefrontProofs` |
| `Membership` | registration, roles, required channels, the gate | `MCMembership` | `MembershipProofs` |
| `AdminDesk` | the administrators' conversations, links, status buttons, broadcasts | `MCAdminDesk` | `AdminDeskProofs` |
| `CircuitBreaker` | the breaker's three states, as operators | used by `Dispatch` | `ProcessProofs` |
| `Dispatch` | a worker's batch of events in one session, with the breaker it shares | `MCDispatch` | `ProcessProofs` |
| `Bootstrap` | start of api, bot and worker, migrations, `init_db` | `MCBootstrap` | `ProcessProofs` |

### Wallet

A session performs a *plan*: the sequence of `credit_balance`/`debit_balance`
calls a request makes before its one commit. `lock` is the row lock, `cached` the
balance attribute of the session's `User` object, `written` its flushed
`WalletTransaction`. `GetUserLocked` is `get_user_locked`; it waits for the lock
and takes the row's balance only when the object was not loaded before.
`CreditBalance`/`DebitBalance` with `Flush` are the rest of the two methods, the
`Refuse...` actions their exceptions (amount not positive, not enough money, the
unique reference), `Commit` the caller's commit, which writes the *attribute* of
the object. A call with `preload = TRUE` is one whose caller has loaded the
`User` first: `LoadUser`. `AtomicLedger` has no sessions, locks or objects: a
batch of movements posts in one step, each row computed from the real balance.

### Fulfillment

`order` is the row (status, fulfillment status, attempts), `event` its outbox row
with the holder of the uncommitted claim. A runner is a worker cycle, the admin
site's direct retry (`Retry`), the retry of API v1 which first resets the order
(`Remedy`), or a bare `fragment_client.fulfill_order` (`Direct`, the bot's own
task and the admin's fulfill-fragment). `object` and `fragment` are the `Order`
objects of the runner's two sessions; `Saved` is the unit of work that writes
only the changed attributes. The steps follow the code: `Claim` is
`claim_pending_events` (SKIP LOCKED, stale lease); `SkipFulfilled`, `Defer`,
`Exhaust`, `Attempt` are the four ways through the head of
`fulfill_order_automated`; `LoadForFragment` ... `RecordSend` is `fragment.py`;
`CompleteOrder` ... `FileJob` the tail, with the transition that may be refused
because the object it starts from is old; `MarkProcessed` and `MarkFailed` the
end of the worker's cycle. `Crash` ends a runner anywhere and rolls back what it
had not committed. The desk is `transition_order_status` from buttons and status
endpoints, refund, and mark-fulfilled, which validates nothing.

Left to free choice: what Fragment answers, whether auto-buy is on, whether the
circuit is open. Left out: notifications to the buyer, the history
rows except the fact that an administrator vouched (`vouched`).

### Payments

`state` and `click` are the providers' rows, `payments` the
`payment_transactions`, `deposits` and `reversals` the ledger rows by reference.
A handler that holds its row lock until it commits is one action. The three
places where a handler commits twice, or locks a row that does not exist yet, are
explicit: `job[h]` rests at `credited` (the pipeline has committed,
`tx.state = 2` has not), `inserting` (no payment found, INSERT next) or `paid`
(`transition_order_status` has committed, bonus and event come next), where it
can be overtaken or die. Balances are not repeated here: a cancellation's debit
finds the money or is refused. Signature checks and amounts are preconditions,
read-only requests change nothing and are left out. At this commit no provider
passes `order_id` to the pipeline; the order branch is exercised by the tests
and is modelled as the callers of the function may use it. A
`PaymentTransaction` of another status than `success` is never created, so the
branch that upgrades one is not modelled.

The abstract `AtomicPayments` has no handlers, rows of providers or repeated
requests: `Deposit` credits a transaction that was never credited or refused, `Refuse`
shuts it for good, `TakeBack` reverses a deposit once, `Sell` marks an order PAID
once, `Reward` gives its bonus after that. `refused` is mapped to the Payme rows
cancelled with no deposit behind them, `sold` to the orders that an order payment
names.

### Checkout

A request is one transaction of `create_order`; `plan[r]` is what it asks for, `at[r]`
the statement whose row lock it needs next and `holder` the locks. `Steps` gives
those statements in the order the code meets them, which depends on the request:
with a promo code the first flush is `apply_promo_code`'s, so the code and the
price lock come before the buyer; a bonus code credits the buyer before anything
has flushed the price lock; without a code the debit's flush comes first. `Proceed`
takes a row and checks what the code checks there (`Passes`); `Refuse` is the
exception raised there. `Commit` publishes everything at once: debit, redemption,
ledger reference, price lock, order and key. `LoseRace` is the `IntegrityError` on
the key and the answer with the winner's order, `AnswerKnown` the lookup that
finds the key, `PriceLockUsed` the refusal of a used price lock. `Fail` is the
rollback that any exception or crash ends in; `DeadlockVictim` is PostgreSQL's. The
abstract `AtomicCheckout` has neither locks nor steps: `Place` takes the money,
redeems the code within its limits and binds the key at once.

Left to free choice: the refusals by feature flags, spam check, expiry or an
unsuitable product (`TurnAway`). Left out: the formulas of price and discount (one
price, a benefit per code), and the key-share locks that foreign keys take, which
guard no read of this code and can only add waits and deadlocks of the kind
`DeadlockVictim` ends. Two users do not use the same key (`PlansAssumption`):
a client makes its own. What debit, bonus and reward do to balances and ledger is
`Wallet`'s subject; the order and the event that the commit leaves behind are the
initial state of `Fulfillment`.

### Pricing and Storefront

`Pricing` has `calculate_stars_price`, `calculate_premium_price`, `calculate_gift_price`
and the lookup of `get_authoritative_price` as operators on a settings record, in
whole sums: discount tier, margin, minimum margin and minimum price, and the JSON
fields that may not parse (`Broken`) or lack the key.

`Storefront` is one chat. `step` and `data` are aiogram's FSM state and dictionary;
`offered` are the buttons of all messages so far, because an old message keeps its
keyboard and the handlers of `callback_query` look at no state. A handler that
writes the chat once is one action; a purchase is three (`PressConfirm` copies the
dictionary, `LoadBuyer` and `PlaceOrder` are `create_order`, `EndPurchase` clears),
a card payment two (`PayByCard` sets the step, `PutKey` the amount), so that two
updates of one chat overlap. `told` is the price in the dictionary, `charged` the one
`queries.create_order` has computed again; a price that is not positive is refused
(`debit_balance`), though nothing keeps a price list from holding one. A service's order
is titled with its icon, and looked up by that title (`Titled`). Administrators read a receipt's status
(`OpenApproval`, `OpenRejection`) and decide it in a later step; `Approve` commits
status and credit together. `Restart` keeps the chat (Redis) or loses it
(`MemoryStorage`).

Left out: what the buyer types as recipient or details, promo codes outside a
checkout (their handler never commits), and money spent elsewhere.

### Membership

A visit is a run of `/start`, of the check button, or of a page of the site. `Calls`
are the `get_or_create_user` calls it makes: the middleware's without a referrer,
then `cmd_start`'s with the one of the link; `Look` and `Insert` are its two
statements, the second of which the primary key may refuse. `Open` reads role and
list, `Check` asks about one channel (`Passes` is the branch by `req_type`), `Judge`
decides. `CreateChannel`, `ConfirmChannel`, `ToggleChannel`, `UpdateChannelType` and
`DeleteChannel` are the site's endpoints, `Promote` the event of the bot becoming
administrator of a chat, which overwrites the first row with the same link
(`AddOrUpdate`). `firm`, `ever`, `could` and `held` are history: what was required and
passed since the visit read the list.

### AdminDesk

`fsm` is the state of each administrator, `asked` the last question on the screen,
`typed` the texts in order. `TypeLink` and `TypeBroadcast` are the handlers of the two
FSM states, `TypeDraft` the one without a state, `SendLink` and `Copy` the messages
that go out after the commit, one recipient at a time. Orders change by the bot's
buttons (`PressDone`, `PressCancel`, `CancelService`), by the site (`AtSite`) and by
the worker, of which only the two commits of the fragment session remain
(`WorkerLoads`, `WorkerDelivers`, `WorkerGivesUp`); the transitions are
`OrderLifecycle`'s. An administrator types after the question is on the screen, so
that asking is one step.

### CircuitBreaker and Dispatch

`CircuitBreaker` counts time in ticks. `last_failure_ts` matters in OPEN and
`last_probe_ts` in HALF_OPEN only, and each is set on the way in, so one timer stands
for both. `Dispatch` has one process with its breaker: a worker and the deliveries an
administrator starts (mode `combined`; the api container has the latter, the worker
container the former). `row` is what is committed, `written` what the worker's session
has not committed yet. `Claim` takes the ready events that have fewer than
`BatchLimit` ready ones created before them; `Current` is the earliest left, and
`mark_processed` or `mark_failed` write in the session (`Processed`, `Refused`).
`Attempt` and `GiveUp` commit in the middle of the batch, as
`fulfill_order_automated` does in the session it is given, and with it everything
the batch has written so far, claims included. `DatabaseError` is a failing
statement: the session is in a failed transaction, `mark_failed` in the `except`
branch raises too, and `async_session_scope` rolls back. `TellCreated` always fails:
`worker.py:111` calls `send_order_created_notification` with arguments it does not
have. Which messages went out (`sent`) outlives rollbacks and crashes.

### Bootstrap

A schema is a set of *parts*: a table as it is created, and what each revision adds to
it (columns, indexes, constraints). `Migrate` runs `upgrade()` of the next revision in
the transaction of the alembic run; nothing is visible to others before
`CommitUpgrade`. `CreateAll` (outside production) adds missing tables, never columns.
`Read` is one lookup of `init_db`; where a table or a column it selects is missing, the
process exits and is restarted. `Commit` inserts all rows missed, or exits on a
duplicate key. `Rows` stands for the five rows looked up by two: the settings, which
live and die together, and an administrator.

## 3. Runs

Bounds are the constants in the `.cfg` files; no state constraint is used.

| Run | Instance | Shows |
|---|---|---|
| `wallet` | 3 users in a referral chain, 3 concurrent sessions, 7 plans (deposit, two purchases with bonus, manual receipt, two adjustments under one reference, a free purchase) | `TypeOK`, `LedgerChained`, `ReferencePostedOnce`, `AllOrNothing`; `EverySessionEnds`; `ImplementsAtomicLedger` |
| `wallet_bot` | the same with callers that load the user first | violates `NoLostUpdate` |
| `fulfillment` | a worker, an API retry, the bot's delivery, the whole desk, 1 crash, leases that may be outlived | `TypeOK`, `NoPaidOrderForgotten`, `CompletedMeansDelivered`, `RefundedOnce` |
| `fulfillment_workers` | 2 workers and the whole desk, 3 crashes, 3 desk operations, the production budgets (3 attempts, 5 retries) | `OneDeliveryPerRecord`, `NoSendAfterFiling`, `EventSettles`, `ExhaustedIsFiled` |
| `payments` | a transaction per provider, an order paid twice, 3 concurrent requests | `TypeOK`, `PerformedIsCredited`, `ReversedOnce`, `RewardedOnce`, `CreditedIsClosed`; `ImplementsAtomicPayments` |
| `checkout` | 2 buyers, one referred by the other, 3 concurrent requests, 7 plans with one key, 2 price locks and 3 codes | `TypeOK`, `CodesWithinLimits`, `OneOrderPerKey`; `EveryCheckoutEnds`; `ImplementsAtomicCheckout` |
| `storefront` | a product of each kind, 2 services, 2 handlers, 2 administrators, one selection, one order or receipt, one edit | `TypeOK`, `ChargedAsTold`, `SpentOnce`, `SuccessIsCredited` |
| `membership` | a guest and an owner, a public group and a private channel, 2 visits, 2 edits, 2 chat events | `GateStopsOutsiders`, `GateAdmitsMembers` |
| `referral_link` | the same | violates `InvitedIsRecorded` |
| `admin_desk` | one administrator, 2 orders of services, a buyer, 2 texts, 2 order moves, a restart | `TypeOK`, `TextReachesThoseMeant`, `LinkMeansDelivered` |
| `dispatch` | 2 top-ups, a delivery and a notice in batches of 3, an administrator's delivery, 1 database error, 1 crash | `ToldPerRecord`; `ProbesSpaced`; `EveryEventSettles` |
| `bootstrap` | 3 processes, every database left by a revision, 3 stops, 2 edits, production or not | `ServesOnHead`; `EditsSurviveStarts`; `EveryoneServes` |

Why the bounds are enough for what they are meant to show:

- *Wallet*. Three sessions give every pair a third that can take the lock or the
  reference in between; three users give a lock chain (buyer before referrer) of
  length two with a shared middle. The plans meet each refusal, and the amounts
  are such that money runs out.
- *Fulfillment*. In `fulfillment` the budgets are small (1 attempt, 2 retries) so
  that exhaustion, filing and the refused transitions happen together with the
  desk; two desk operations reach mark-fulfilled after refund. In
  `fulfillment_workers` the budgets are the real ones because the liveness and the
  filing order depend on their ratio, and one crash more than the attempts would
  only repeat what a crash does. Direct retries of the admin site (`Retry`) are
  in no run's instance: they are a worker's call without its event; the theorems
  cover them. `LeaseHolds = TRUE` in `fulfillment_workers` says that no
  cycle outlives its 300 s lease; without it one delivery per record is not
  claimed, and safety is checked with `FALSE`. The desk is part of that
  run too, with three operations, enough to refund an order in a worker's hands, mark
  it fulfilled and refund it again. An exhausted order is therefore filed or its event
  is processed: mark-fulfilled during the last attempt leaves one that nobody has to
  file (`ExhaustedIsFiled`).
- *Payments*. Three handlers let a cancellation, a repeated perform and a
  competing insert meet. No counter needs a bound: the run is finite.

- *Checkout*. A discount, a bonus and a code that makes the order free, with limits
  of one and two uses; a key that two requests share, with and without the code, so
  that they lock code, price lock and buyer in different orders; a third request
  that takes the last use, the balance or the referrer's row in between.

- *Storefront*. Two updates of the chat and two decisions share two places, which is
  what it takes for one to overtake another; one order or one receipt is enough for
  each property speaks of one. The two settings differ in everything a price depends
  on (tiers or unit price, margin, minimum, listed or fallback prices). A service is
  named like another one's orders are titled.
- *Membership*. Two rows are the least with which one can be required while the other
  is not; a public group and a private channel have every kind of link. Two moves let
  a visitor join and leave during the check, or the bot come and go.
- *AdminDesk*. Two texts, so that one typed for a conversation can go to the other; two
  orders, so that a link can go to the wrong one; two moves let an order be refunded or
  completed between the question and the answer.
- *Dispatch*. Four events with a batch of three: a message before the delivery, one
  after it, and one that does not fit. The budgets are small (2 attempts, 3 retries)
  so that attempts and retries both run out; threshold and cool-down are 2 so that
  a late answer, a probe and a tick can come in any order.
- *Bootstrap*. Three stops let each process die once while it starts, edits twice so
  that a start falls between two. The initial databases are empty, left by any
  revision, with duplicate references below the one that forbids them, or made before
  there were revisions. A database that has the tables of revision 5 without Alembic
  is not among them: bot and worker do serve early on it. Nor is one made by
  `create_all`, on which revision 4 adds a constraint that exists, and fails.

`CHECK_DEADLOCK FALSE` everywhere: the instances really stop, when all requests
have been made, the event is settled and the desk is quiet, or the bounds are
reached.

The parts called *Variant* in the modules are single changes of a definition (a
lock dropped, a check missing, two writes swapped) that each property was seen to
catch: every property of a passing run fails under at least one of them. They are
not part of the specifications.

### What the violating runs show

1. `wallet_bot`: two purchases by one user through the bot each load the `User`
   before `get_user_locked`; the second waits for the lock and then debits the
   balance it had read before. The first debit is lost. `README.md:48` promises
   that row locks prevent double spending.
2. `referral_link`: `UserRegisterMiddleware` creates the row of a newcomer, without a
   referrer, before `cmd_start` reads the link; `get_or_create_user` finds the row and
   ignores the referrer. `profile.py:46` promises the inviter a cashback.

### What the code does not ensure

These were found while modelling and are stated in the modules, but no run checks
them: they do not hold, and the properties of the passing runs are worded around them.

- `Fulfillment.RefundedIsFinal`: an order refunded during the transfer becomes
  COMPLETED, because the fragment session validates nothing (`fragment.py:287`);
  `README.md:63` of the repository names this transition as prevented.
- `Fulfillment.DeliveredOnce`: the bot starts `fragment_client.fulfill_order` by itself
  (`shop.py:587`) beside the outbox event; both send.
- `Fulfillment.CancelledIsRefunded`: cancelling a failed order credits nothing, though
  the button says so (`admin_panel.py:259`).
- `Payments.CancelledIsReversed`: a cancellation between the two commits of
  `PerformTransaction` keeps the credit (`payme.py:167`).
- `Payments.PaidOrderIsRequested`: a crash after `transition_order_status`' commit
  leaves a PAID order with no event (`payments/service.py:127`).
- `Checkout.PriceLockUsedOnce`: two checkouts read one price lock before either commits
  (`pricing/service.py:275`).
- Two approvals of one receipt that both read `pending` both credit, and a rejected
  receipt can be approved (`handlers/users/wallet.py:255`): `SuccessIsCredited` says that
  success means credited, not credited once.
- A gift chosen in the bot is charged under its title with the icon, which the price
  list does not have: the fallback price, whatever was told. `ChargedAsTold` speaks of
  what is listed under the name it is charged by. A service is looked up under a title
  that carries its icon and not found.
- `ORDER_CREATED_NOTIFICATION` never reaches the buyer (`worker.py:111`).
- A bonus code entered in the profile menu is redeemed in a session that nobody
  commits (`profile.py:79`); the dead letter endpoints of API v1 likewise
  (`router.py:266-280`).
- The reconciliation audit looks for a debit under the order's id, while it was posted
  under its code (`reconciliation/service.py:74`): every wallet order is reported.

## 4. Fairness

- `Wallet`: weak fairness of `Run(s)` for each open session. Its handler is
  resumed whenever the statement it awaits can complete; PostgreSQL grants a free
  lock. New requests (`Begin`) and crashes are not fair.
- `Fulfillment`: weak fairness of each runner's work. The worker's loop polls until
  shutdown, its container is restarted, and what a handler awaits returns because
  the HTTP client has a timeout. A call other than the worker's need never be
  made, but once begun goes on; the desk and crashes are not fair.
- `Payments`: weak fairness of the repeated `PerformTransaction` of a credited
  transaction, because Payme repeats it until it is answered. Nothing is assumed
  of Click and AutoPayCard, and a handler may die anywhere.
- `Dispatch`: weak fairness of the worker's next step. `run_worker_loop` polls until
  shutdown and survives every exception of a cycle, a dead process is restarted, and
  Fragment's client has a timeout. Publishing, ticks, errors, crashes and an
  administrator's calls are not fair; in particular nothing is assumed of the breaker:
  an event it defers still settles, as failed.
- `Bootstrap`: weak fairness of each process's next step of its start. The containers
  say `restart: unless-stopped`, and what a start awaits returns. Stops are bounded
  by `MaxStops` and not fair.
- `Storefront`, `Membership`, `AdminDesk`: safety only, no fairness. A buyer need not
  answer, and nothing there promises to happen.
- `Checkout`: weak fairness of each open request's step. asyncio resumes a handler
  when its statement completes, PostgreSQL grants a free lock and looks for
  deadlocks after `deadlock_timeout`. New requests and crashes are not fair.

## 5. Theorems

TLAPS checks them for every value of the constants, under the named assumptions
of the modules. `Wallet`: `OpeningAssumption`, `PlansAssumption` (a request does not
touch one wallet twice or use one reference twice, which is true of every caller),
`ReferencesAssumption` (requests that share a reference post all the same ones: an
order's id is in both of its references) and `SentinelAssumption`. `Fulfillment`:
`BoundAssumption` and `ActorAssumption` (kinds of runners are disjoint). `Payments`:
`TxAssumption` (kinds of transactions are disjoint). `Checkout`: `PlansAssumption` (a
key is one user's), `CatalogAssumption` (nobody refers himself) and
`DistinctAssumption`. `Storefront`: `CatalogAssumption` of `Pricing` (the built-in
prices are positive), `ShopAssumption` and `ServicesAssumption`, which type the
columns and say that products have an amount and services an icon. `AdminDesk`:
`DeskAssumption` (persons are finitely many). `Dispatch`: `DispatchAssumption`.
`CircuitBreaker`: `BreakerAssumption`. `Membership`: `MembershipAssumption` (types of
channels and the values that stand for nothing).
`Bootstrap`: `BootstrapAssumption` and `HistoryAssumption` (a database below the last
revision lacks something `init_db` reads). The last is proved of the
revisions themselves (`RevisionsLeaveUnreadable`); for a database with older tables it
is an assumption, and false of one that a start outside production completed with
`create_all` and that production then takes over.

**`WalletProofs`**. `TypeCorrect`, `LedgerIsChained`, `ReferencesPostOnce`, and
`ImplementsLedger`: the sessions implement `AtomicLedger`. Chaining is not
inductive: a commit writes a row computed long before. The invariant says how a
row in flight relates to the committed state. A lock belongs to an open session
and a flushed row to the lock's holder (`LockInv`); the object of a *fresh* user
(one that no plan preloads) exists only in the session that holds the lock and
agrees with the row until it is written, and then the flushed row starts from the
committed balance (`FreshInv`); flushed rows add up (`RowInv`) and are exactly the
calls made so far (`PlanInv`). For references, `RefInv` adds that an uncommitted
row's reference is neither committed nor pending elsewhere. The refinement holds
for the fresh users only; `wallet_bot` shows that it must. `PostsAllOrNothing`: what a
session has flushed is a beginning of its plan, and it commits only the whole.

**`FulfillmentProofs`**. `FulfillmentTypes`, `NoOrderForgotten`,
`CompletedIsDelivered`, `RefundedAtMostOnce`. The difficulty is the stale object:
a commit merges an old object into a newer row. The invariant calls an order value
`Sound` if it claims a delivery only when there was one (`delivered` and
`vouched` never go back), and says that the row and every object any session
holds are sound; `SavedSound` shows that the merge of sound values is sound.
`Placed` says what a runner's place implies (who can be there, what it holds, that
something was sent before success is reported). The attempts counter stays in its
bound because an attempt starts below the limit and writes one more than what it
loaded.

`OneDelivery` and `NothingSentAfterFiling` have the hypothesis `OnlyWorkersSend`: no
retry by hand, no delivery through the bot, and no cycle that outlives the lock of its
event. The desk may do all it can, and workers, crashes and budgets are any. None of
the conditions can be spared: TLC finds both false with a single `Retry`, `Remedy` or
`Direct`, or without the lease, and no desk at all. Their invariant `WInv` says that
some one worker is `Sole`: all others are idle, and it holds the event's lock or has
set it to PROCESSING (`Leased`). The desk writes the same row meanwhile, so its objects
do not agree with the row; what holds is that they still say processing, so that the
record of a delivery is written over whatever the desk wrote (`Course`). Every delivery
is then about to be recorded, was lost in a crash, has used up the attempts, or is
recorded by a row that is COMPLETED or REFUNDED, from which the desk only reaches the
other of the two (`Accounted`, `Closed`, `DeskKeepsSole`). It is that one worker that
takes the next step, or, when it is idle too, whoever starts (`SoleAtWork`).

**`PaymentsProofs`**. `DepositedOnce`, `PerformedWasCredited`, `CancelledOnce`,
`OneReward`, and `PaymentsAreAtomic`: the handlers implement `AtomicPayments`. The
payment row and the deposit come together (`Booked`); a Payme row reads 2 or -2, and a
Click row completed, only after them (`Closed`); a handler on its way to the second
commit knows the first happened (`Resting`), whatever a cancellation did to the row in
between. The refinement is where a late credit would show: a deposit commits while
the Payme row is locked and was seen in state 1, so that it was not refused, and a
refused row never leaves -1 or -2. `SoldInv` says that an order is PAID only if some
payment names it, and that no order once sold can become PAID again, so that the
concurrent requests for one order sell it once.

**`CheckoutProofs`**. `CheckoutTypeCorrect`, `CodesKeepTheirLimits`,
`AKeyBuysOneOrder`, and `CheckoutIsAtomic`: `create_order` implements
`AtomicCheckout`. The argument is two-phase locking. A code's limits, the reference of
a bonus and the balance are checked when a row lock is granted and used at the commit,
many steps later; the invariant (`Passed`, `Placed`) says that until then the lock is
held and the check would still succeed. It is kept because a commit of somebody else
that changed those rows would have to hold the same lock (`CommitKeepsPassed`).
`StepsFit` shows that, in whatever order, `Steps` locks every row the commit depends
on; dropping one lock from the list breaks it. The price lock is in the list too, but
it is read before its row is locked, so nothing of the kind holds for it. Answers
agree because each is the order its key is bound to (`Keyed`), and a key is bound once.

**`ProcessProofs`**, of `Dispatch`: `ToldOncePerRecord`, and the action property `ProbesAreSpaced`.
What the worker has to handle is not yet marked *as its session sees it* (`TurnInv`),
and a top-up was told at most once more than it was undone only while such a mark
stands (`ToldInv`): a commit changes what is in the rows and nothing of what the session
sees (`CommitShowsSeen`), and a rollback counts as undone exactly the marks it takes
back. `Current` is a CHOOSE; that the batch has an earliest event (`CurrentIsLeft`)
rests on the well-foundedness of the natural numbers. For the breaker, `QuietInv`: a
tripped breaker's timer never runs ahead of the time since it last let a call through,
so that the gap it waits for has passed. Any late answer either closes it or leaves the
timer behind (`AnswerKeepsQuiet`).

Of `Bootstrap`, in the same module: `ServesOnlyOnHead`, and the action property `EditsSurvive`. Nobody
waits for the migrations; the invariant (`ReadInv`) says that below the last revision a
process has read only what the schema has room for, and `SchemaInv` that this is never
everything. So nobody below it can be through with its start. Edits survive because a
start only inserts rows it missed, and a row that appeared meanwhile makes its commit
fail.

**`MembershipProofs`**. `GateInvariant`, `OutsidersAreStopped`, `MembersAreAdmitted`.
A verdict is about four histories of a check: channels required throughout (`firm`) or
at some time (`ever`), passed throughout (`held`) or at some time (`could`). The
invariant of the loop carries them entry by entry: a channel required throughout
is still to be looked at as it stands, is missing, or was passed at some time
(`FirmInv`); one that is missing was required and not always passed (`MissingInv`);
an entry still to be looked at is of a channel once required, and stands as the list
has it if the person passed it throughout (`TodoInv`); passed throughout implies passed
now, and that implies at some time (`PassedInv`). It is kept when the list is edited or
Telegram moves under the loop, because every such step cuts `firm` and `held` and
extends `ever` and `could`. At the end nothing is left to look at and the verdict
follows.

**`AdminDeskProofs`**. `DeskTypesHold`, `TextsReachThoseMeant`,
`LinksAreOfDeliveredOrders`. The invariant ties the conversation an administrator is in
to the question last on the screen (`Conversing`), every broadcast under way to a text
meant for all (`Broadcast`), every press of a draft's button to that draft (`Pressed`),
and every link that waits to be sent to the question it answers and to a delivery
(`Waiting`); COMPLETED is only said of delivered orders (`Honest`). Texts never change
(`TextsStay`), deliveries are never taken back.

**`StorefrontProofs`**. `ShopTypes`, `ChargesWhatItTold`, `ChoiceIsSpentOnce`,
`SuccessIsAlwaysCredited`. The choice is followed from the chat (`Chosen`) through the
handlers that copied it (`Held`): its price was told under a revision of the prices not
after the present one, and is the price of the list if nothing was edited since
(`Told`). `TellsWhatIsCharged` shows that for what is in the list the bot's formulas and
the server's agree, for every list and amount; `DiscountType` that some tier has the
largest minimum, without which the price would not be a number. A spent selection never
returns because the chat is cleared in the step that ends the purchase and a later
choice has a later number (`Ended`). An administrator's receipt exists (`Examined`),
and approving writes status and credit in one step.

Only model-checked:

- liveness (`EverySessionEnds`, `EventSettles`, `ExhaustedIsFiled`, `CreditedIsClosed`,
  `EveryCheckoutEnds`, `EveryEventSettles`, `EveryoneServes`), which needs fairness and
  ENABLED, both out of the prover's reach;
- what the violating runs show.

## 6. Plan and what is not modelled

Written, in this order: `AtomicLedger`, `Wallet`, `OrderLifecycle`, `Fulfillment`,
`AtomicPayments`, `Payments`, `AtomicCheckout`, `Checkout`, `Pricing`, `Storefront`,
`Membership`, `AdminDesk`, `CircuitBreaker`, `Dispatch`, `Bootstrap`, with their proofs.

Every safety invariant, every action property and every refinement of the passing runs
is proved. Worth proving next: that the writes of `Fulfillment` which go through the
state machine are steps of `OrderLifecycle`'s transitions, and how many deliveries
a given number of retries by hand can cause.

Not modelled:

- *Dead letter retries*. `mark_retrying` and `resolve_job` are called in sessions that
  nobody commits, so the worker's retry cycle finds nothing to do at this commit.
- *Reconciliation*, analytics, statistics, order history and exports read committed
  rows and write nothing the protocols read.
- *Risk checks and feature flags* are refusals of `create_order`, a free choice in
  `Checkout`. The rate limit only refuses; `redis_lock` has no caller.
- *Catalog of products, notifications, support tickets*: rows written by one actor at a
  time.
- *Referral tiers and pending rewards*: amounts, with no effect on who is paid.
- *Backups, configuration, web pages, keyboards' layout, texts*.
- *Signatures, authentication and permissions* are preconditions of the modelled
  requests.
