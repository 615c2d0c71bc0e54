---------------------------- MODULE Fulfillment -----------------------------
(***************************************************************************)
(* The delivery of one paid order: its row in orders, its outbox event     *)
(* ORDER_FULFILLMENT_REQUESTED, and everyone who may deliver it:           *)
(*   - worker cycles that claim the event and call                         *)
(*     fulfill_order_automated (services/worker.py),                       *)
(*   - the admin site's retry-fulfillment, a direct call of                *)
(*     fulfill_order_automated (Retry),                                    *)
(*   - retry-fulfillment of API v1, which first resets the order (Remedy), *)
(*   - a bare fragment_client.fulfill_order, which the bot starts after a  *)
(*     purchase and the admin panel offers as fulfill-fragment (Direct),   *)
(*   - the operations at the admin desk.                                   *)
(*                                                                         *)
(* fulfill_order_automated commits its attempt and so gives up the row     *)
(* lock before it calls Fragment; fragment_client works in a session of    *)
(* its own.  A session keeps the attributes of the Order object it loaded  *)
(* (expire_on_commit is off, FOR UPDATE does not refresh), and a commit    *)
(* writes the attributes that differ from what was loaded: see Saved.      *)
(* A step of the model ends where the code commits, calls out, or awaits   *)
(* with no row lock held.                                                  *)
(***************************************************************************)
EXTENDS OrderLifecycle, Integers

CONSTANTS
  Worker,        \* concurrent worker cycles
  Retry,         \* direct calls of fulfill_order_automated
  Remedy,        \* calls of POST /admin/orders/{id}/retry-fulfillment
  Direct,        \* direct calls of fragment_client.fulfill_order
  Desk,          \* enabled operations of the admin desk
  AutoBuy,       \* values FragmentSetting.is_auto_buy may take
  CircuitOpen,   \* answers the circuit breaker may give
  MaxAttempts,   \* MAX_FULFILLMENT_RETRIES
  MaxRetries,    \* outbox max_retries
  LeaseHolds,    \* no cycle outlives the 300 s lock of its event
  MaxCrashes,    \* bound on crashes
  MaxDesk,       \* bound on operations at the desk
  Nothing        \* no object, no holder, no claim

Runner == Worker \cup Retry \cup Remedy \cup Direct

DeskOperation == {"transition", "refund", "mark-fulfilled"}

ASSUME BoundAssumption ==
  /\ MaxAttempts \in Nat \ {0}
  /\ MaxRetries \in Nat \ {0}
  /\ MaxCrashes \in Nat
  /\ MaxDesk \in Nat

ASSUME ActorAssumption ==
  /\ Worker \cap Retry = {} /\ Worker \cap Remedy = {} /\ Worker \cap Direct = {}
  /\ Retry \cap Remedy = {} /\ Retry \cap Direct = {} /\ Remedy \cap Direct = {}
  /\ Desk \subseteq DeskOperation
  /\ AutoBuy \subseteq BOOLEAN /\ CircuitOpen \subseteq BOOLEAN
  /\ LeaseHolds \in BOOLEAN
  /\ Nothing \notin Worker

VARIABLES
  order,      \* the row: status, fulfillment_status (delivery), attempts
  event,      \* the outbox row: status, retry_count, holder of its row lock
  pc,         \* where each runner is
  object,     \* Order object of the runner's own session
  fragment,   \* Order object of the runner's fragment session
  claim,      \* retry_count of the event object a worker claimed
  delivered,  \* TON transactions sent for this order
  vouched,    \* the timeline or admin log says an admin completed the order
  credited,   \* ledger rows with reference order_refund
  filed,      \* job types of this order in the dead letter queue
  crashes,    \* crashes so far
  unrecorded, \* crashes between a send and the commit that records it
  operations  \* operations at the desk so far

vars == <<order, event, pc, object, fragment, claim, delivered, vouched,
          credited, filed, crashes, unrecorded, operations>>

tallies == <<crashes, unrecorded, operations>>

Delivery == {"pending", "processing", "fulfilled", "failed", "waiting_payment",
             "retry_scheduled", "manual_review"}

Order == [status : OrderStatus, delivery : Delivery, attempts : 0 .. MaxAttempts]

EventStatus == {"pending", "processing", "retry", "processed", "failed"}

JobType == {"fulfillment", "outbox_fulfillment"}

(* Committed by create_order, or by the payment pipeline, in one           *)
(* transaction with the payment.                                           *)
Init ==
  /\ order = [status |-> "paid", delivery |-> "pending", attempts |-> 0]
  /\ event = [status |-> "pending", retries |-> 0, holder |-> Nothing]
  /\ pc = [r \in Runner |-> "idle"]
  /\ object = [r \in Runner |-> Nothing]
  /\ fragment = [r \in Runner |-> Nothing]
  /\ claim = [r \in Runner |-> Nothing]
  /\ delivered = 0
  /\ vouched = FALSE
  /\ credited = 0
  /\ filed = {}
  /\ crashes = 0
  /\ unrecorded = 0
  /\ operations = 0

-----------------------------------------------------------------------------
(* A unit of work: only the attributes that differ from what the session   *)
(* loaded are in the UPDATE.                                               *)
Saved(loaded, new) ==
  LET Written(old, was, is) == IF is # was THEN is ELSE old IN
  [status   |-> Written(order.status, loaded.status, new.status),
   delivery |-> Written(order.delivery, loaded.delivery, new.delivery),
   attempts |-> Written(order.attempts, loaded.attempts, new.attempts)]

(* A worker polls again after its cycle; every other call is made once.    *)
Resting(r) == IF r \in Worker THEN "idle" ELSE "ended"

(* The runner's call is over and its sessions are closed.                  *)
Leave(r) ==
  /\ pc' = [pc EXCEPT ![r] = Resting(r)]
  /\ object' = [object EXCEPT ![r] = Nothing]
  /\ fragment' = [fragment EXCEPT ![r] = Nothing]
  /\ claim' = [claim EXCEPT ![r] = Nothing]

Goto(r, l) ==
  /\ pc' = [pc EXCEPT ![r] = l]
  /\ UNCHANGED <<object, fragment, claim>>

(* A commit of a worker also commits the claim of its event.               *)
CommitClaim(r) ==
  event' = IF event.holder = r
           THEN [event EXCEPT !.status = "processing", !.holder = Nothing]
           ELSE event

(* outbox mark_processed and the commit that ends the cycle; the UPDATE    *)
(* waits for another worker's claim to commit.                             *)
EventProcessed(w) ==
  /\ event.holder \in {w, Nothing}
  /\ event' = [event EXCEPT !.status = "processed", !.holder = Nothing]

(* outbox mark_failed on the event object of the claim; the retry that     *)
(* exhausts the budget files a job.                                        *)
EventFailed(w) ==
  LET n == claim[w] + 1 IN
  /\ event.holder \in {w, Nothing}
  /\ event' = [status |-> IF n >= MaxRetries THEN "failed" ELSE "retry",
               retries |-> n, holder |-> Nothing]
  /\ filed' = IF n >= MaxRetries THEN filed \cup {"outbox_fulfillment"} ELSE filed

-----------------------------------------------------------------------------
(* Variant: stale events are never claimed again.                          *)
ClaimableOnce ==
  /\ event.holder = Nothing
  /\ event.retries < MaxRetries
  /\ event.status \in {"pending", "retry"}

(* claim_pending_events: FOR UPDATE SKIP LOCKED over ready events and over *)
(* those whose lock is 300 s old.                                          *)
Claimable ==
  /\ event.holder = Nothing
  /\ event.retries < MaxRetries
  /\ \/ event.status \in {"pending", "retry"}
     \/ /\ event.status = "processing"
        /\ LeaseHolds => \A w \in Worker : pc[w] = "idle"

Claim(w) ==
  /\ w \in Worker
  /\ pc[w] = "idle"
  /\ Claimable
  /\ event' = [event EXCEPT !.holder = w]
  /\ claim' = [claim EXCEPT ![w] = event.retries]
  /\ pc' = [pc EXCEPT ![w] = "claimed"]
  /\ UNCHANGED <<order, object, fragment, delivered, vouched, credited, filed, tallies>>

(* The API's retry-fulfillment reads the order with a plain session.get.   *)
LoadForRemedy(r) ==
  /\ r \in Remedy
  /\ pc[r] = "idle"
  /\ object' = [object EXCEPT ![r] = order]
  /\ pc' = [pc EXCEPT ![r] = "loaded"]
  /\ UNCHANGED <<order, event, fragment, claim, delivered, vouched, credited,
                 filed, tallies>>

(* fulfill_order_automated is about to lock and look at the order.         *)
Starting(r) ==
  \/ r \in Worker /\ pc[r] = "claimed"
  \/ r \in Retry  /\ pc[r] = "idle"
  \/ r \in Remedy /\ pc[r] = "loaded"

(* What its session loaded, and the attributes it then sees: the API has   *)
(* already set both states to processing.                                  *)
Loaded(r) == IF r \in Remedy THEN object[r] ELSE order

Current(r) ==
  IF r \in Remedy
  THEN [Loaded(r) EXCEPT !.status = "processing", !.delivery = "processing"]
  ELSE Loaded(r)

(* Variant: no duplicate delivery prevention.                              *)
NeverFulfilled(o) == FALSE

AlreadyFulfilled(o) == o.delivery = "fulfilled" \/ o.status = "completed"

(* Duplicate delivery prevention: success, and the event is processed.     *)
SkipFulfilled(r) ==
  /\ Starting(r)
  /\ AlreadyFulfilled(Current(r))
  /\ IF r \in Worker THEN EventProcessed(r) ELSE UNCHANGED event
  /\ Leave(r)
  /\ UNCHANGED <<order, delivered, vouched, credited, filed, tallies>>

(* The breaker is open: nothing is committed but the event's failure.      *)
Defer(r) ==
  /\ Starting(r)
  /\ ~AlreadyFulfilled(Current(r))
  /\ TRUE \in CircuitOpen
  /\ IF r \in Worker THEN EventFailed(r) ELSE UNCHANGED <<event, filed>>
  /\ Leave(r)
  /\ UNCHANGED <<order, delivered, vouched, credited, tallies>>

(* The attempts are used up: the order fails, its job is filed next.       *)
Exhaust(r) ==
  LET new == [Current(r) EXCEPT !.delivery = "manual_review", !.status = "failed"] IN
  /\ Starting(r)
  /\ ~AlreadyFulfilled(Current(r))
  /\ FALSE \in CircuitOpen
  /\ Current(r).attempts >= MaxAttempts
  /\ order' = Saved(Loaded(r), new)
  /\ object' = [object EXCEPT ![r] = new]
  /\ pc' = [pc EXCEPT ![r] = "filing"]
  /\ CommitClaim(r)
  /\ UNCHANGED <<fragment, claim, delivered, vouched, credited, filed, tallies>>

BeginAttempt(r) ==
  LET new == [Current(r) EXCEPT !.attempts = @ + 1, !.delivery = "processing"] IN
  /\ Starting(r)
  /\ ~AlreadyFulfilled(Current(r))
  /\ FALSE \in CircuitOpen
  /\ order' = Saved(Loaded(r), new)
  /\ object' = [object EXCEPT ![r] = new]
  /\ pc' = [pc EXCEPT ![r] = "attempt"]
  /\ CommitClaim(r)
  /\ UNCHANGED <<fragment, claim, delivered, vouched, credited, filed, tallies>>

(* Variant: the retry limit is not checked.                                *)
AttemptUnlimited(r) == BeginAttempt(r)

(* One more attempt: counted and committed before Fragment is called.      *)
Attempt(r) == Starting(r) /\ Current(r).attempts < MaxAttempts /\ BeginAttempt(r)

-----------------------------------------------------------------------------
(* fragment_client.fulfill_order, in its own session: a plain session.get, *)
(* with no look at the order's state.                                      *)
LoadForFragment(r) ==
  /\ \/ r \notin Direct /\ pc[r] = "attempt"
     \/ r \in Direct    /\ pc[r] = "idle"
  /\ fragment' = [fragment EXCEPT ![r] = order]
  /\ pc' = [pc EXCEPT ![r] = "invoice"]
  /\ UNCHANGED <<order, event, object, claim, delivered, vouched, credited,
                 filed, tallies>>

(* The fragment session closes and l is returned, if anybody waits for it. *)
Return(r, l) ==
  IF r \in Direct THEN Leave(r)
  ELSE /\ pc' = [pc EXCEPT ![r] = l]
       /\ fragment' = [fragment EXCEPT ![r] = Nothing]
       /\ UNCHANGED <<object, claim>>

(* The invoice cannot be made: an exception leaves the session.            *)
InvoiceRaises(r) ==
  /\ pc[r] = "invoice"
  /\ Return(r, "raised")
  /\ UNCHANGED <<order, event, delivered, vouched, credited, filed, tallies>>

(* Variant: the caller looks at success only.                              *)
AwaitTakenForSuccess(r) ==
  /\ pc[r] = "invoice"
  /\ FALSE \in AutoBuy
  /\ order' = Saved(fragment[r], [fragment[r] EXCEPT !.delivery = "waiting_payment"])
  /\ Return(r, "answered")
  /\ UNCHANGED <<event, delivered, vouched, credited, filed, tallies>>

(* is_auto_buy is off: the answer is success without fulfilled, which the  *)
(* caller treats as a failed attempt.                                      *)
AwaitManualPayment(r) ==
  /\ pc[r] = "invoice"
  /\ FALSE \in AutoBuy
  /\ order' = Saved(fragment[r], [fragment[r] EXCEPT !.delivery = "waiting_payment"])
  /\ Return(r, "refused")
  /\ UNCHANGED <<event, delivered, vouched, credited, filed, tallies>>

MarkProcessing(r) ==
  LET new == [fragment[r] EXCEPT !.delivery = "processing"] IN
  /\ pc[r] = "invoice"
  /\ TRUE \in AutoBuy
  /\ order' = Saved(fragment[r], new)
  /\ fragment' = [fragment EXCEPT ![r] = new]
  /\ pc' = [pc EXCEPT ![r] = "ready"]
  /\ UNCHANGED <<event, object, claim, delivered, vouched, credited, filed, tallies>>

Send(r) ==
  /\ pc[r] = "ready"
  /\ delivered' = delivered + 1
  /\ Goto(r, "sent")
  /\ UNCHANGED <<order, event, vouched, credited, filed, tallies>>

(* The transfer is refused and the fragment session says so on the row.    *)
SendRefused(r) ==
  /\ pc[r] = "ready"
  /\ order' = Saved(fragment[r], [fragment[r] EXCEPT !.delivery = "failed"])
  /\ Return(r, "refused")
  /\ UNCHANGED <<event, delivered, vouched, credited, filed, tallies>>

(* The fragment session records the delivery and, unvalidated, COMPLETED.  *)
RecordSend(r) ==
  /\ pc[r] = "sent"
  /\ order' = Saved(fragment[r],
                    [fragment[r] EXCEPT !.delivery = "fulfilled", !.status = "completed"])
  /\ Return(r, "answered")
  /\ UNCHANGED <<event, delivered, vouched, credited, filed, tallies>>

-----------------------------------------------------------------------------
(* fulfill_order_automated returns, and lets go of the Order object.       *)
GiveBack(r, l) ==
  IF r \in Worker
  THEN /\ pc' = [pc EXCEPT ![r] = l]
       /\ object' = [object EXCEPT ![r] = Nothing]
       /\ UNCHANGED <<fragment, claim>>
  ELSE Leave(r)

(* Back in fulfill_order_automated with a delivery: transition to          *)
(* COMPLETED from the status of the object loaded before the attempt.      *)
CompleteOrder(r) ==
  /\ pc[r] = "answered"
  /\ CanMove(object[r].status, "completed")
  /\ order' = Saved(object[r], Moved(object[r], "completed"))
  /\ Goto(r, "recording")
  /\ UNCHANGED <<event, delivered, vouched, credited, filed, tallies>>

(* The transition has committed and refreshed the object; fulfilled is     *)
(* written once more, over whatever another session left there.            *)
RecordCompletion(r) ==
  /\ pc[r] = "recording"
  /\ order' = [order EXCEPT !.delivery = "fulfilled"]
  /\ GiveBack(r, "succeeded")
  /\ UNCHANGED <<event, delivered, vouched, credited, filed, tallies>>

(* The transition is illegal: InvalidOrderStateError, after the delivery.  *)
RefuseCompletion(r) ==
  /\ pc[r] = "answered"
  /\ ~CanMove(object[r].status, "completed")
  /\ Goto(r, "raised")
  /\ UNCHANGED <<order, event, delivered, vouched, credited, filed, tallies>>

(* An attempt failed and others are left; after an exception only the      *)
(* error text is written.                                                  *)
ScheduleRetry(r) ==
  /\ pc[r] \in {"refused", "raised"}
  /\ object[r].attempts < MaxAttempts
  /\ order' = IF pc[r] = "refused"
              THEN Saved(object[r], [object[r] EXCEPT !.delivery = "retry_scheduled"])
              ELSE order
  /\ GiveBack(r, "failed")
  /\ UNCHANGED <<event, delivered, vouched, credited, filed, tallies>>

LastAttemptFailed(r) ==
  pc[r] \in {"refused", "raised"} /\ object[r].attempts >= MaxAttempts

(* The last attempt failed: transition to FAILED, which commits, and the   *)
(* job is filed in the next transaction.                                   *)
FailOrder(r) ==
  LET new == Moved([object[r] EXCEPT !.delivery = "manual_review"], "failed") IN
  /\ LastAttemptFailed(r)
  /\ CanMove(object[r].status, "failed")
  /\ order' = Saved(object[r], new)
  /\ object' = [object EXCEPT ![r] = new]
  /\ pc' = [pc EXCEPT ![r] = "filing"]
  /\ UNCHANGED <<event, fragment, claim, delivered, vouched, credited, filed, tallies>>

(* The order had failed before: nothing to transition, one commit.         *)
FailAgain(r) ==
  /\ LastAttemptFailed(r)
  /\ object[r].status = "failed"
  /\ order' = Saved(object[r], [object[r] EXCEPT !.delivery = "manual_review"])
  /\ filed' = filed \cup {"fulfillment"}
  /\ GiveBack(r, "failed")
  /\ UNCHANGED <<event, delivered, vouched, credited, tallies>>

(* FAILED is illegal too: the exception leaves fulfill_order_automated;    *)
(* the worker fails the event and commits what the session still holds.    *)
FailRefused(r) ==
  /\ LastAttemptFailed(r)
  /\ object[r].status # "failed" /\ ~CanMove(object[r].status, "failed")
  /\ IF r \in Worker
     THEN /\ order' = Saved(object[r], [object[r] EXCEPT !.delivery = "manual_review"])
          /\ EventFailed(r)
     ELSE UNCHANGED <<order, event, filed>>
  /\ Leave(r)
  /\ UNCHANGED <<delivered, vouched, credited, tallies>>

(* dlq record_failed_job and its commit.                                   *)
FileJob(r) ==
  /\ pc[r] = "filing"
  /\ filed' = filed \cup {"fulfillment"}
  /\ GiveBack(r, "failed")
  /\ UNCHANGED <<order, event, delivered, vouched, credited, tallies>>

(* The worker closes its cycle with the result of the call.                *)
MarkProcessed(w) ==
  /\ pc[w] = "succeeded"
  /\ EventProcessed(w)
  /\ Leave(w)
  /\ UNCHANGED <<order, delivered, vouched, credited, filed, tallies>>

(* Variant: the worker does not look at the result.                        *)
MarkFailedAsProcessed(w) ==
  /\ pc[w] = "failed"
  /\ EventProcessed(w)
  /\ Leave(w)
  /\ UNCHANGED <<order, delivered, vouched, credited, filed, tallies>>

MarkFailed(w) ==
  /\ pc[w] = "failed"
  /\ EventFailed(w)
  /\ Leave(w)
  /\ UNCHANGED <<order, delivered, vouched, credited, tallies>>

-----------------------------------------------------------------------------
AtDesk(operation) ==
  /\ operation \in Desk
  /\ operations < MaxDesk
  /\ operations' = operations + 1

(* The desk: status endpoints, bot buttons and manual-fulfill go through   *)
(* transition_order_status with a freshly loaded order.                    *)
DeskTransition(to) ==
  /\ AtDesk("transition")
  /\ CanMove(order.status, to)
  /\ order' = Moved(order, to)
  /\ vouched' = (vouched \/ Normalized(to) = "completed")
  /\ UNCHANGED <<event, pc, object, fragment, claim, delivered, credited, filed,
                 crashes, unrecorded>>

(* Variant: the ledger would take the same refund twice.                   *)
RefundUnguarded ==
  /\ AtDesk("refund")
  /\ CanMove(order.status, "refunded")
  /\ order' = Moved(order, "refunded")
  /\ credited' = credited + 1
  /\ UNCHANGED <<event, pc, object, fragment, claim, delivered, vouched, filed,
                 crashes, unrecorded>>

(* A refund credits the wallet under (order_refund, order_code); a second  *)
(* one violates uq_wallet_reference_tx and changes nothing.                *)
Refund ==
  /\ AtDesk("refund")
  /\ CanMove(order.status, "refunded")
  /\ credited = 0
  /\ order' = Moved(order, "refunded")
  /\ credited' = credited + 1
  /\ UNCHANGED <<event, pc, object, fragment, claim, delivered, vouched, filed,
                 crashes, unrecorded>>

(* mark-fulfilled writes COMPLETED whatever the status was.                *)
MarkFulfilled ==
  /\ AtDesk("mark-fulfilled")
  /\ order' = [order EXCEPT !.delivery = "fulfilled", !.status = "completed"]
  /\ vouched' = TRUE
  /\ UNCHANGED <<event, pc, object, fragment, claim, delivered, credited, filed,
                 crashes, unrecorded>>

(* The runner's process dies: its open transaction is rolled back.         *)
Crash(r) ==
  /\ crashes < MaxCrashes
  /\ pc[r] \notin {"idle", "ended"}
  /\ crashes' = crashes + 1
  /\ unrecorded' = IF pc[r] = "sent" THEN unrecorded + 1 ELSE unrecorded
  /\ event' = IF event.holder = r THEN [event EXCEPT !.holder = Nothing] ELSE event
  /\ Leave(r)
  /\ UNCHANGED <<order, delivered, vouched, credited, filed, operations>>

Work(r) ==
  \/ Claim(r) \/ LoadForRemedy(r)
  \/ SkipFulfilled(r) \/ Defer(r) \/ Exhaust(r) \/ Attempt(r)
  \/ LoadForFragment(r) \/ InvoiceRaises(r) \/ AwaitManualPayment(r)
  \/ MarkProcessing(r) \/ Send(r) \/ SendRefused(r) \/ RecordSend(r)
  \/ CompleteOrder(r) \/ RecordCompletion(r) \/ RefuseCompletion(r)
  \/ ScheduleRetry(r) \/ FailOrder(r) \/ FailAgain(r) \/ FailRefused(r) \/ FileJob(r)
  \/ MarkProcessed(r) \/ MarkFailed(r)

Administer ==
  \/ \E to \in {"processing", "done", "failed", "cancel"} : DeskTransition(to)
  \/ Refund
  \/ MarkFulfilled

Next ==
  \/ \E r \in Runner : Work(r) \/ Crash(r)
  \/ Administer

Spec == Init /\ [][Next]_vars

(* run_worker_loop polls until shutdown and a restarted container polls    *)
(* again; what a handler awaits returns (the HTTP client times out), so a  *)
(* call that was begun goes on.  No other call need ever be made, and the  *)
(* desk owes nothing.                                                      *)
FairSpec ==
  /\ Spec
  /\ \A r \in Runner : WF_vars((r \in Worker \/ pc[r] # "idle") /\ Work(r))

-----------------------------------------------------------------------------
Place == {"idle", "claimed", "loaded", "attempt", "invoice", "ready", "sent",
          "answered", "recording", "refused", "raised", "filing", "succeeded", "failed", "ended"}

(* Types of every variable.  Order bounds the attempts counter: no         *)
(* interleaving of workers, administrators and crashes pushes it past the  *)
(* retry budget (fulfillment/service.py:48-71).                            *)
TypeOK ==
  /\ order \in Order
  /\ event \in [status : EventStatus, retries : 0 .. MaxRetries,
                holder : Worker \cup {Nothing}]
  /\ pc \in [Runner -> Place]
  /\ object \in [Runner -> Order \cup {Nothing}]
  /\ fragment \in [Runner -> Order \cup {Nothing}]
  /\ claim \in [Runner -> 0 .. MaxRetries - 1 \cup {Nothing}]
  /\ delivered \in Nat
  /\ vouched \in BOOLEAN
  /\ credited \in Nat
  /\ filed \subseteq JobType
  /\ crashes \in 0 .. MaxCrashes
  /\ unrecorded \in 0 .. MaxCrashes
  /\ operations \in 0 .. MaxDesk

(* No paid order disappears (worker.py:126): once its event needs no more  *)
(* work the order has been delivered, or an administrator has answered for *)
(* it, or it waits in the dead letter queue.                               *)
NoPaidOrderForgotten ==
  /\ event.status = "processed" => delivered > 0 \/ vouched
  /\ event.status = "failed" => filed # {}

(* An order says COMPLETED or fulfilled only if stars were sent for it or  *)
(* an administrator vouched for it, although two sessions write both       *)
(* attributes from objects of different age.                               *)
CompletedMeansDelivered ==
  order.status = "completed" \/ order.delivery = "fulfilled" => delivered > 0 \/ vouched

(* The buyer is refunded at most once, also when a stale object or an      *)
(* administrator brings a refunded order back to COMPLETED and it is       *)
(* refunded again (orders/service.py:329-338).                             *)
RefundedOnce == credited <= 1

(* Every delivery after the first is owed to a crash between a send and    *)
(* the commit that records it: retries, reclaims of stale events, several  *)
(* workers and what administrators do to the order meanwhile add none      *)
(* (fulfillment/service.py:35).                                            *)
OneDeliveryPerRecord == delivered <= 1 + unrecorded

(* A job handed to the dead letter queue is out of the workers' hands:     *)
(* nothing is sent for its order behind the administrator's back.          *)
NoSendAfterFiling == [][filed # {} => delivered' = delivered]_vars

(* The event of a paid order is settled: it is never stuck in PROCESSING   *)
(* after a crash, nor retried forever (outbox/service.py:62-77).           *)
EventSettles == <>(event.status \in {"processed", "failed"})

(* An order left for manual review reaches the dead letter queue, also if  *)
(* the worker dies between the two commits (fulfillment/service.py:54-66), *)
(* unless a later cycle finds it completed and processes the event.        *)
ExhaustedIsFiled ==
  order.delivery = "manual_review" ~> filed # {} \/ event.status = "processed"

(* README.md:63: REFUNDED never becomes COMPLETED.                         *)
RefundedIsFinal ==
  [][order.status = "refunded" => order'.status # "completed"]_vars

(* fulfillment/service.py:35, duplicate delivery prevention: one order is  *)
(* delivered once.                                                         *)
DeliveredOnce == delivered <= 1

(* admin_panel.py:257-259 tells the buyer of a cancelled order that the    *)
(* money is back in the wallet.                                            *)
CancelledIsRefunded == order.status = "cancelled" => credited = 1
=============================================================================
