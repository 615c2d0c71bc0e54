-------------------------- MODULE FulfillmentProofs --------------------------
(***************************************************************************)
(* For every number of workers, retries and administrators, every retry    *)
(* budget and every interleaving and crash: the delivery of a paid order   *)
(* keeps its types and the safety invariants that Fulfillment.cfg checks.  *)
(*                                                                         *)
(* The inductive invariant says where each runner can be, and that an      *)
(* Order object a session still holds, however old, is Sound: it does not  *)
(* claim a delivery that nobody made or vouched for.  That is what makes   *)
(* the write of a stale object harmless for CompletedMeansDelivered.       *)
(*                                                                         *)
(* Where only workers act, and none outlives the lock of its event, more   *)
(* holds: at most one of them is at work, on the row as it is, so that an  *)
(* order is delivered once for each record of it that a crash lost, and    *)
(* never after it was filed.                                               *)
(***************************************************************************)
EXTENDS Fulfillment, TLAPS

Answered == delivered > 0 \/ vouched

(* A row, or an object of some age, that may be written.                   *)
Sound(o) ==
  /\ o \in Order
  /\ o.status = "completed" \/ o.delivery = "fulfilled" => Answered

HoldsFragment(r) == pc[r] \in {"invoice", "ready", "sent"}

HoldsObject(r) ==
  \/ pc[r] \in {"loaded", "attempt", "answered", "recording", "refused", "raised",
                "filing"}
  \/ HoldsFragment(r) /\ r \notin Direct

(* What a runner's place says of what its sessions hold.                   *)
Placed(r) ==
  /\ pc[r] = "loaded" => r \in Remedy
  /\ pc[r] \in {"claimed", "succeeded", "failed"} => r \in Worker
  /\ r \in Direct => pc[r] \in {"idle", "ended"} \/ HoldsFragment(r)
  /\ r \in Worker /\ pc[r] # "idle" => claim[r] \in 0 .. MaxRetries - 1
  /\ pc[r] \in {"sent", "answered", "recording", "succeeded"} => delivered > 0
  /\ HoldsObject(r) => Sound(object[r])
  /\ HoldsFragment(r) => Sound(fragment[r])

IInv ==
  /\ TypeOK
  /\ unrecorded <= crashes
  /\ \A r \in Runner : Placed(r)
  /\ Sound(order)
  /\ NoPaidOrderForgotten
  /\ RefundedOnce

-----------------------------------------------------------------------------
(* A unit of work over a sound row, with a sound object, leaves it sound.  *)
LEMMA SavedSound ==
  ASSUME Sound(order), NEW old \in Order, NEW new, Sound(new)
  PROVE  Sound(Saved(old, new))
BY DEF Sound, Saved, Order, Answered

(* transition_order_status writes a legal row, and only a completion says  *)
(* COMPLETED or fulfilled.                                                 *)
LEMMA MovedInOrder ==
  ASSUME NEW row \in Order,
         NEW to \in {"processing", "done", "completed", "failed", "cancel", "refunded"}
  PROVE  /\ Moved(row, to) \in Order
         /\ to \in {"processing", "failed", "cancel", "refunded"} =>
              /\ Moved(row, to).status # "completed"
              /\ Moved(row, to).delivery = "fulfilled" => row.delivery = "fulfilled"
         /\ to \in {"done", "completed"} => Normalized(to) = "completed"
<1>1. CASE to = "processing"
  BY <1>1 DEF Moved, Order, Delivery, OrderStatus, Normalized
<1>2. CASE to = "done"
  BY <1>2 DEF Moved, Order, Delivery, OrderStatus, Normalized
<1>3. CASE to = "completed"
  BY <1>3 DEF Moved, Order, Delivery, OrderStatus, Normalized
<1>4. CASE to = "failed"
  BY <1>4 DEF Moved, Order, Delivery, OrderStatus, Normalized
<1>5. CASE to = "cancel"
  BY <1>5 DEF Moved, Order, Delivery, OrderStatus, Normalized
<1>6. CASE to = "refunded"
  BY <1>6 DEF Moved, Order, Delivery, OrderStatus, Normalized
<1>. QED BY <1>1, <1>2, <1>3, <1>4, <1>5, <1>6

(* fulfill_order_automated starts from a sound object, also when the API   *)
(* has reset the states of an order of some age.                           *)
LEMMA StartsSound ==
  ASSUME IInv, NEW r \in Runner, Starting(r)
  PROVE  Loaded(r) \in Order /\ Sound(Current(r))
<1>1. Sound(Loaded(r))
  BY ActorAssumption DEF IInv, Placed, Starting, Loaded, HoldsObject
<1>. QED BY <1>1 DEF Loaded, Current, Sound, Order, OrderStatus, Delivery

(* What the three ways to write the event leave behind.                    *)
LEMMA CommitClaimEvent ==
  ASSUME IInv, NEW r \in Runner, CommitClaim(r)
  PROVE  /\ event' \in [status : EventStatus, retries : 0 .. MaxRetries,
                         holder : Worker \cup {Nothing}]
         /\ event'.status \in {event.status, "processing"}
BY DEF IInv, TypeOK, CommitClaim, EventStatus

(* mark_processed leaves a typed event that says processed.                *)
LEMMA EventProcessedEvent ==
  ASSUME IInv, NEW w \in Worker, EventProcessed(w)
  PROVE  /\ event' \in [status : EventStatus, retries : 0 .. MaxRetries,
                         holder : Worker \cup {Nothing}]
         /\ event'.status = "processed"
BY DEF IInv, TypeOK, EventProcessed, EventStatus

(* mark_failed leaves a typed event, and a job if it says failed.          *)
LEMMA EventFailedEvent ==
  ASSUME IInv, NEW w \in Worker, claim[w] \in 0 .. MaxRetries - 1, EventFailed(w)
  PROVE  /\ event' \in [status : EventStatus, retries : 0 .. MaxRetries,
                         holder : Worker \cup {Nothing}]
         /\ event'.status # "processed"
         /\ filed' \subseteq JobType
         /\ event'.status = "failed" => filed' # {}
BY BoundAssumption DEF IInv, TypeOK, EventFailed, EventStatus, JobType

(* What another runner's place promised stays true: nothing un-sends.      *)
LEMMA OthersPlaced ==
  ASSUME IInv, NEW r \in Runner,
         \A q \in Runner \ {r} :
           /\ pc'[q] = pc[q] /\ claim'[q] = claim[q]
           /\ object'[q] = object[q] /\ fragment'[q] = fragment[q],
         Answered => Answered', delivered > 0 => delivered' > 0,
         Placed(r)'
  PROVE  \A q \in Runner : Placed(q)'
BY DEF IInv, Placed, HoldsObject, HoldsFragment, Sound

(* A worker claims a pending, retried or stale event (outbox               *)
(* claim_pending_events).                                                  *)
LEMMA ClaimStep ==
  ASSUME IInv, NEW r \in Runner, Claim(r)
  PROVE  IInv'
<1>1. Sound(order)'
  BY DEF IInv, TypeOK, Sound, Answered, tallies, Claim
<1>2. TypeOK'
  BY <1>1, ActorAssumption, BoundAssumption
  DEF IInv, TypeOK, Placed, Sound, HoldsObject, HoldsFragment, Place, tallies,
     Claim, Claimable, EventStatus, Runner
<1>3. Placed(r)'
  BY <1>1, ActorAssumption, BoundAssumption
  DEF IInv, TypeOK, Placed, Sound, HoldsObject, HoldsFragment, Answered,
     Order, OrderStatus, Delivery, tallies, Claim, Claimable, Runner
<1>4. \A q \in Runner : Placed(q)'
  BY <1>3, OthersPlaced DEF IInv, TypeOK, Answered, Claim
<1>5. NoPaidOrderForgotten'
  BY DEF IInv, TypeOK, NoPaidOrderForgotten, Answered, tallies, Claim
<1>. QED BY <1>1, <1>2, <1>4, <1>5 DEF Claim, IInv, RefundedOnce, tallies

(* The API's retry reads the order before it takes the row lock.           *)
LEMMA LoadForRemedyStep ==
  ASSUME IInv, NEW r \in Runner, LoadForRemedy(r)
  PROVE  IInv'
<1>1. Sound(order)'
  BY DEF IInv, TypeOK, Sound, Answered, tallies, LoadForRemedy
<1>2. TypeOK'
  BY <1>1, ActorAssumption
  DEF IInv, TypeOK, Placed, Sound, HoldsObject, HoldsFragment, Place, tallies,
     LoadForRemedy
<1>3. Placed(r)'
  BY <1>1, ActorAssumption
  DEF IInv, TypeOK, Placed, Sound, HoldsObject, HoldsFragment, Answered,
     Order, OrderStatus, Delivery, tallies, LoadForRemedy
<1>4. \A q \in Runner : Placed(q)'
  BY <1>3, OthersPlaced DEF IInv, TypeOK, Answered, LoadForRemedy
<1>5. NoPaidOrderForgotten'
  BY DEF IInv, TypeOK, NoPaidOrderForgotten, Answered, tallies, LoadForRemedy
<1>. QED
  BY <1>1, <1>2, <1>4, <1>5
  DEF LoadForRemedy, IInv, RefundedOnce, tallies

(* The duplicate-delivery guard: a sound row that says fulfilled was       *)
(* answered for, so the event may be processed.                            *)
LEMMA SkipFulfilledStep ==
  ASSUME IInv, NEW r \in Runner, SkipFulfilled(r)
  PROVE  IInv'
<1>0. Answered
  BY StartsSound DEF SkipFulfilled, AlreadyFulfilled, Sound
<1>p. r \in Worker \/ UNCHANGED event
  BY DEF SkipFulfilled
<1>1. Sound(order)'
  BY DEF IInv, TypeOK, Sound, Answered, tallies, SkipFulfilled
<1>2. TypeOK'
  BY <1>0, <1>p, EventProcessedEvent
  DEF IInv, TypeOK, Place, Leave, Resting, tallies, SkipFulfilled
<1>3. Placed(r)'
  BY ActorAssumption
  DEF IInv, TypeOK, Placed, HoldsObject, HoldsFragment, Leave, Resting,
     Starting, SkipFulfilled
<1>4. \A q \in Runner : Placed(q)'
  BY <1>3, OthersPlaced DEF IInv, TypeOK, Answered, Leave, SkipFulfilled
<1>5. NoPaidOrderForgotten'
  BY <1>0, <1>p, EventProcessedEvent
  DEF IInv, TypeOK, NoPaidOrderForgotten, Answered, SkipFulfilled
<1>. QED
  BY <1>1, <1>2, <1>4, <1>5
  DEF SkipFulfilled, IInv, RefundedOnce, tallies

(* The breaker is open: only the event's retry budget is spent.            *)
LEMMA DeferStep ==
  ASSUME IInv, NEW r \in Runner, Defer(r)
  PROVE  IInv'
<1>0. r \in Worker => claim[r] \in 0 .. MaxRetries - 1
  BY ActorAssumption DEF IInv, Placed, Defer, Starting
<1>1. Sound(order)'
  BY DEF IInv, TypeOK, Sound, Answered, tallies, Defer
<1>2. TypeOK'
  BY <1>0, EventFailedEvent
  DEF IInv, TypeOK, Place, Leave, Resting, tallies, Defer
<1>3. Placed(r)'
  BY ActorAssumption
  DEF IInv, TypeOK, Placed, HoldsObject, HoldsFragment, Leave, Resting,
     Starting, Defer
<1>4. \A q \in Runner : Placed(q)'
  BY <1>3, OthersPlaced DEF IInv, TypeOK, Answered, Leave, Defer
<1>5. NoPaidOrderForgotten'
  BY <1>0, EventFailedEvent
  DEF IInv, TypeOK, NoPaidOrderForgotten, Answered, Defer
<1>. QED BY <1>1, <1>2, <1>4, <1>5 DEF Defer, IInv, RefundedOnce, tallies

(* The attempts are used up: FAILED is written from the object just        *)
(* locked.                                                                 *)
LEMMA ExhaustStep ==
  ASSUME IInv, NEW r \in Runner, Exhaust(r)
  PROVE  IInv'
<1>. DEFINE new ==
       [Current(r) EXCEPT !.delivery = "manual_review", !.status = "failed"]
<1>n. Sound(new)
  BY StartsSound, BoundAssumption
  DEF Sound, Order, OrderStatus, Delivery, Exhaust
<1>1. Sound(order)'
  BY <1>n, StartsSound, SavedSound DEF IInv, Sound, Answered, tallies, Exhaust
<1>2. TypeOK'
  BY <1>1, <1>n, CommitClaimEvent
  DEF IInv, TypeOK, Sound, Place, tallies, Exhaust
<1>3. Placed(r)'
  BY <1>n, ActorAssumption
  DEF IInv, TypeOK, Placed, Sound, Answered, HoldsObject, HoldsFragment,
     Starting, Exhaust
<1>4. \A q \in Runner : Placed(q)'
  BY <1>3, OthersPlaced DEF IInv, TypeOK, Answered, Exhaust
<1>5. NoPaidOrderForgotten'
  BY CommitClaimEvent DEF IInv, TypeOK, NoPaidOrderForgotten, Answered, Exhaust
<1>. QED BY <1>1, <1>2, <1>4, <1>5 DEF Exhaust, IInv, RefundedOnce, tallies

(* One more attempt is counted and committed; the guard keeps the counter  *)
(* within MaxAttempts.                                                     *)
LEMMA AttemptStep ==
  ASSUME IInv, NEW r \in Runner, Attempt(r)
  PROVE  IInv'
<1>. DEFINE new == [Current(r) EXCEPT !.attempts = @ + 1, !.delivery = "processing"]
<1>n. Sound(new)
  <2>1. Current(r) \in Order /\ Sound(Current(r))
    BY StartsSound DEF Sound, Attempt
  <2>2. Current(r).attempts + 1 \in 0 .. MaxAttempts
    BY <2>1, BoundAssumption DEF Order, Attempt
  <2>. QED BY <2>1, <2>2 DEF Sound, Order, Delivery
<1>1. Sound(order)'
  BY <1>n, StartsSound, SavedSound
  DEF IInv, Sound, Answered, tallies, Attempt, BeginAttempt
<1>2. TypeOK'
  BY <1>1, <1>n, CommitClaimEvent
  DEF IInv, TypeOK, Sound, Place, tallies, Attempt, BeginAttempt
<1>3. Placed(r)'
  BY <1>n, ActorAssumption
  DEF IInv, TypeOK, Placed, Sound, Answered, HoldsObject, HoldsFragment,
     Starting, Attempt, BeginAttempt
<1>4. \A q \in Runner : Placed(q)'
  BY <1>3, OthersPlaced DEF IInv, TypeOK, Answered, Attempt, BeginAttempt
<1>5. NoPaidOrderForgotten'
  BY CommitClaimEvent
  DEF IInv, TypeOK, NoPaidOrderForgotten, Answered, Attempt, BeginAttempt
<1>. QED
  BY <1>1, <1>2, <1>4, <1>5
  DEF Attempt, IInv, RefundedOnce, tallies, BeginAttempt

(* The fragment session loads the row, whatever it says.                   *)
LEMMA LoadForFragmentStep ==
  ASSUME IInv, NEW r \in Runner, LoadForFragment(r)
  PROVE  IInv'
<1>1. Sound(order)'
  BY DEF IInv, TypeOK, Sound, Answered, tallies, LoadForFragment
<1>2. TypeOK'
  BY <1>1, ActorAssumption
  DEF IInv, TypeOK, Placed, Sound, HoldsObject, HoldsFragment, Place, tallies,
     LoadForFragment
<1>3. Placed(r)'
  BY <1>1, ActorAssumption
  DEF IInv, TypeOK, Placed, Sound, HoldsObject, HoldsFragment, Answered,
     Order, OrderStatus, Delivery, tallies, LoadForFragment
<1>4. \A q \in Runner : Placed(q)'
  BY <1>3, OthersPlaced DEF IInv, TypeOK, Answered, LoadForFragment
<1>5. NoPaidOrderForgotten'
  BY DEF IInv, TypeOK, NoPaidOrderForgotten, Answered, tallies, LoadForFragment
<1>. QED
  BY <1>1, <1>2, <1>4, <1>5
  DEF LoadForFragment, IInv, RefundedOnce, tallies

(* An exception before the transfer writes nothing.                        *)
LEMMA InvoiceRaisesStep ==
  ASSUME IInv, NEW r \in Runner, InvoiceRaises(r)
  PROVE  IInv'
<1>1. Sound(order)'
  BY DEF IInv, TypeOK, Sound, Answered, tallies, InvoiceRaises
<1>2. TypeOK'
  BY <1>1
  DEF IInv, TypeOK, Placed, Sound, HoldsObject, HoldsFragment, Place, tallies,
     InvoiceRaises, Return, Leave, Resting
<1>3. Placed(r)'
  BY <1>1
  DEF IInv, TypeOK, Placed, Sound, HoldsObject, HoldsFragment, Answered,
     Order, OrderStatus, Delivery, tallies, InvoiceRaises, Return, Leave,
     Resting
<1>4. \A q \in Runner : Placed(q)'
  BY <1>3, OthersPlaced
  DEF IInv, TypeOK, Answered, InvoiceRaises, Return, Leave, Resting
<1>5. NoPaidOrderForgotten'
  BY DEF IInv, TypeOK, NoPaidOrderForgotten, Answered, tallies, InvoiceRaises
<1>. QED
  BY <1>1, <1>2, <1>4, <1>5
  DEF InvoiceRaises, IInv, RefundedOnce, tallies

(* waiting_payment is written from the fragment session's object.          *)
LEMMA AwaitManualPaymentStep ==
  ASSUME IInv, NEW r \in Runner, AwaitManualPayment(r)
  PROVE  IInv'
<1>1. Sound(order)'
  BY DEF IInv, TypeOK, Placed, Sound, HoldsObject, HoldsFragment, Answered,
     Order, OrderStatus, Delivery, tallies, AwaitManualPayment, Return, Leave,
     Resting, Saved
<1>2. TypeOK'
  BY <1>1
  DEF IInv, TypeOK, Placed, Sound, HoldsObject, HoldsFragment, Place, tallies,
     AwaitManualPayment, Return, Leave, Resting, Saved
<1>3. Placed(r)'
  BY <1>1
  DEF IInv, TypeOK, Placed, Sound, HoldsObject, HoldsFragment, Answered,
     Order, OrderStatus, Delivery, tallies, AwaitManualPayment, Return, Leave,
     Resting, Saved
<1>4. \A q \in Runner : Placed(q)'
  BY <1>3, OthersPlaced
  DEF IInv, TypeOK, Answered, AwaitManualPayment, Return, Leave, Resting,
     Saved
<1>5. NoPaidOrderForgotten'
  BY DEF IInv, TypeOK, NoPaidOrderForgotten, Answered, tallies,
     AwaitManualPayment
<1>. QED
  BY <1>1, <1>2, <1>4, <1>5
  DEF AwaitManualPayment, IInv, RefundedOnce, tallies

(* The fragment session announces the transfer.                            *)
LEMMA MarkProcessingStep ==
  ASSUME IInv, NEW r \in Runner, MarkProcessing(r)
  PROVE  IInv'
<1>1. Sound(order)'
  BY DEF IInv, TypeOK, Placed, Sound, HoldsObject, HoldsFragment, Answered,
     Order, OrderStatus, Delivery, tallies, MarkProcessing, Saved
<1>2. TypeOK'
  BY <1>1
  DEF IInv, TypeOK, Placed, Sound, HoldsObject, HoldsFragment, Place, tallies,
     MarkProcessing, Saved, Order, OrderStatus, Delivery
<1>3. Placed(r)'
  BY <1>1
  DEF IInv, TypeOK, Placed, Sound, HoldsObject, HoldsFragment, Answered,
     Order, OrderStatus, Delivery, tallies, MarkProcessing, Saved
<1>4. \A q \in Runner : Placed(q)'
  BY <1>3, OthersPlaced DEF IInv, TypeOK, Answered, MarkProcessing, Saved
<1>5. NoPaidOrderForgotten'
  BY DEF IInv, TypeOK, NoPaidOrderForgotten, Answered, tallies, MarkProcessing
<1>. QED
  BY <1>1, <1>2, <1>4, <1>5
  DEF MarkProcessing, IInv, RefundedOnce, tallies

(* The transfer itself: from here on the order counts as answered.         *)
LEMMA SendStep ==
  ASSUME IInv, NEW r \in Runner, Send(r)
  PROVE  IInv'
<1>1. Sound(order)'
  BY DEF IInv, TypeOK, Sound, Answered, tallies, Send
<1>2. TypeOK'
  BY <1>1
  DEF IInv, TypeOK, Placed, Sound, HoldsObject, HoldsFragment, Place, tallies,
     Send, Goto
<1>3. Placed(r)'
  BY <1>1
  DEF IInv, TypeOK, Placed, Sound, HoldsObject, HoldsFragment, Answered,
     Order, OrderStatus, Delivery, tallies, Send, Goto
<1>4. \A q \in Runner : Placed(q)'
  BY <1>3, OthersPlaced DEF IInv, TypeOK, Answered, Send, Goto
<1>5. NoPaidOrderForgotten'
  BY DEF IInv, TypeOK, NoPaidOrderForgotten, Answered, tallies, Send
<1>. QED BY <1>1, <1>2, <1>4, <1>5 DEF Send, IInv, RefundedOnce, tallies

(* A refused transfer is recorded as failed.                               *)
LEMMA SendRefusedStep ==
  ASSUME IInv, NEW r \in Runner, SendRefused(r)
  PROVE  IInv'
<1>1. Sound(order)'
  BY DEF IInv, TypeOK, Placed, Sound, HoldsObject, HoldsFragment, Answered,
     Order, OrderStatus, Delivery, tallies, SendRefused, Return, Leave,
     Resting, Saved
<1>2. TypeOK'
  BY <1>1
  DEF IInv, TypeOK, Placed, Sound, HoldsObject, HoldsFragment, Place, tallies,
     SendRefused, Return, Leave, Resting, Saved
<1>3. Placed(r)'
  BY <1>1
  DEF IInv, TypeOK, Placed, Sound, HoldsObject, HoldsFragment, Answered,
     Order, OrderStatus, Delivery, tallies, SendRefused, Return, Leave,
     Resting, Saved
<1>4. \A q \in Runner : Placed(q)'
  BY <1>3, OthersPlaced
  DEF IInv, TypeOK, Answered, SendRefused, Return, Leave, Resting, Saved
<1>5. NoPaidOrderForgotten'
  BY DEF IInv, TypeOK, NoPaidOrderForgotten, Answered, tallies, SendRefused
<1>. QED BY <1>1, <1>2, <1>4, <1>5 DEF SendRefused, IInv, RefundedOnce, tallies

(* COMPLETED is written after the transfer, from a stale object.           *)
LEMMA RecordSendStep ==
  ASSUME IInv, NEW r \in Runner, RecordSend(r)
  PROVE  IInv'
<1>1. Sound(order)'
  BY DEF IInv, TypeOK, Placed, Sound, HoldsObject, HoldsFragment, Answered,
     Order, OrderStatus, Delivery, tallies, RecordSend, Return, Leave,
     Resting, Saved
<1>2. TypeOK'
  BY <1>1
  DEF IInv, TypeOK, Placed, Sound, HoldsObject, HoldsFragment, Place, tallies,
     RecordSend, Return, Leave, Resting, Saved
<1>3. Placed(r)'
  BY <1>1
  DEF IInv, TypeOK, Placed, Sound, HoldsObject, HoldsFragment, Answered,
     Order, OrderStatus, Delivery, tallies, RecordSend, Return, Leave,
     Resting, Saved
<1>4. \A q \in Runner : Placed(q)'
  BY <1>3, OthersPlaced
  DEF IInv, TypeOK, Answered, RecordSend, Return, Leave, Resting, Saved
<1>5. NoPaidOrderForgotten'
  BY DEF IInv, TypeOK, NoPaidOrderForgotten, Answered, tallies, RecordSend
<1>. QED BY <1>1, <1>2, <1>4, <1>5 DEF RecordSend, IInv, RefundedOnce, tallies

(* The transition to COMPLETED, from the object loaded before the attempt. *)
LEMMA CompleteOrderStep ==
  ASSUME IInv, NEW r \in Runner, CompleteOrder(r)
  PROVE  IInv'
<1>o. Sound(object[r])
  BY DEF IInv, Placed, HoldsObject, CompleteOrder
<1>n. Sound(Moved(object[r], "completed"))
  BY <1>o, MovedInOrder DEF IInv, Placed, Sound, Answered, CompleteOrder
<1>1. Sound(order)'
  BY <1>o, <1>n, SavedSound DEF IInv, Sound, Answered, tallies, CompleteOrder
<1>2. TypeOK'
  BY <1>1
  DEF IInv, TypeOK, Placed, Sound, Place, tallies, HoldsObject, HoldsFragment,
     Goto, CompleteOrder
<1>3. Placed(r)'
  BY <1>n
  DEF IInv, TypeOK, Placed, Sound, Answered, HoldsObject, HoldsFragment, Goto,
     CompleteOrder
<1>4. \A q \in Runner : Placed(q)'
  BY <1>3, OthersPlaced DEF IInv, TypeOK, Answered, Goto, CompleteOrder
<1>5. NoPaidOrderForgotten'
  BY DEF IInv, TypeOK, NoPaidOrderForgotten, Answered, tallies, CompleteOrder
<1>. QED
  BY <1>1, <1>2, <1>4, <1>5
  DEF CompleteOrder, IInv, RefundedOnce, tallies

(* fulfilled is written again, after the transition's refresh.             *)
LEMMA RecordCompletionStep ==
  ASSUME IInv, NEW r \in Runner, RecordCompletion(r)
  PROVE  IInv'
<1>1. Sound(order)'
  BY DEF IInv, TypeOK, Placed, Sound, HoldsObject, HoldsFragment, Answered,
     Order, OrderStatus, Delivery, tallies, RecordCompletion, GiveBack, Leave,
     Resting
<1>2. TypeOK'
  BY <1>1
  DEF IInv, TypeOK, Placed, Sound, HoldsObject, HoldsFragment, Place, tallies,
     RecordCompletion, GiveBack, Leave, Resting
<1>3. Placed(r)'
  BY <1>1
  DEF IInv, TypeOK, Placed, Sound, HoldsObject, HoldsFragment, Answered,
     Order, OrderStatus, Delivery, tallies, RecordCompletion, GiveBack, Leave,
     Resting
<1>4. \A q \in Runner : Placed(q)'
  BY <1>3, OthersPlaced
  DEF IInv, TypeOK, Answered, RecordCompletion, GiveBack, Leave, Resting
<1>5. NoPaidOrderForgotten'
  BY DEF IInv, TypeOK, NoPaidOrderForgotten, Answered, tallies,
     RecordCompletion
<1>. QED
  BY <1>1, <1>2, <1>4, <1>5
  DEF RecordCompletion, IInv, RefundedOnce, tallies

(* An illegal transition to COMPLETED writes nothing.                      *)
LEMMA RefuseCompletionStep ==
  ASSUME IInv, NEW r \in Runner, RefuseCompletion(r)
  PROVE  IInv'
<1>1. Sound(order)'
  BY DEF IInv, TypeOK, Sound, Answered, tallies, RefuseCompletion
<1>2. TypeOK'
  BY <1>1
  DEF IInv, TypeOK, Placed, Sound, HoldsObject, HoldsFragment, Place, tallies,
     RefuseCompletion, Goto
<1>3. Placed(r)'
  BY <1>1
  DEF IInv, TypeOK, Placed, Sound, HoldsObject, HoldsFragment, Answered,
     Order, OrderStatus, Delivery, tallies, RefuseCompletion, Goto
<1>4. \A q \in Runner : Placed(q)'
  BY <1>3, OthersPlaced DEF IInv, TypeOK, Answered, RefuseCompletion, Goto
<1>5. NoPaidOrderForgotten'
  BY DEF IInv, TypeOK, NoPaidOrderForgotten, Answered, tallies,
     RefuseCompletion
<1>. QED
  BY <1>1, <1>2, <1>4, <1>5
  DEF RefuseCompletion, IInv, RefundedOnce, tallies

(* A failed attempt with others left.                                      *)
LEMMA ScheduleRetryStep ==
  ASSUME IInv, NEW r \in Runner, ScheduleRetry(r)
  PROVE  IInv'
<1>1. Sound(order)'
  BY DEF IInv, TypeOK, Placed, Sound, HoldsObject, HoldsFragment, Answered,
     Order, OrderStatus, Delivery, tallies, ScheduleRetry, GiveBack, Leave,
     Resting, Saved
<1>2. TypeOK'
  BY <1>1
  DEF IInv, TypeOK, Placed, Sound, HoldsObject, HoldsFragment, Place, tallies,
     ScheduleRetry, GiveBack, Leave, Resting, Saved
<1>3. Placed(r)'
  BY <1>1
  DEF IInv, TypeOK, Placed, Sound, HoldsObject, HoldsFragment, Answered,
     Order, OrderStatus, Delivery, tallies, ScheduleRetry, GiveBack, Leave,
     Resting, Saved
<1>4. \A q \in Runner : Placed(q)'
  BY <1>3, OthersPlaced
  DEF IInv, TypeOK, Answered, ScheduleRetry, GiveBack, Leave, Resting, Saved
<1>5. NoPaidOrderForgotten'
  BY DEF IInv, TypeOK, NoPaidOrderForgotten, Answered, tallies, ScheduleRetry
<1>. QED
  BY <1>1, <1>2, <1>4, <1>5
  DEF ScheduleRetry, IInv, RefundedOnce, tallies

(* The last attempt failed: the transition to FAILED.                      *)
LEMMA FailOrderStep ==
  ASSUME IInv, NEW r \in Runner, FailOrder(r)
  PROVE  IInv'
<1>o. Sound(object[r])
  BY DEF IInv, Placed, HoldsObject, FailOrder, LastAttemptFailed
<1>n. Sound(Moved([object[r] EXCEPT !.delivery = "manual_review"], "failed"))
  <2>1. [object[r] EXCEPT !.delivery = "manual_review"] \in Order
    BY <1>o DEF Sound, Order, Delivery
  <2>. QED BY <2>1, <1>o, MovedInOrder DEF Sound, Order
<1>1. Sound(order)'
  BY <1>o, <1>n, SavedSound DEF IInv, Sound, Answered, tallies, FailOrder
<1>2. TypeOK'
  BY <1>1, <1>n DEF IInv, TypeOK, Sound, Place, tallies, FailOrder
<1>3. Placed(r)'
  BY <1>n
  DEF IInv, TypeOK, Placed, Sound, Answered, HoldsObject, HoldsFragment,
     FailOrder, LastAttemptFailed
<1>4. \A q \in Runner : Placed(q)'
  BY <1>3, OthersPlaced DEF IInv, TypeOK, Answered, FailOrder
<1>5. NoPaidOrderForgotten'
  BY DEF IInv, TypeOK, NoPaidOrderForgotten, Answered, tallies, FailOrder
<1>. QED BY <1>1, <1>2, <1>4, <1>5 DEF FailOrder, IInv, RefundedOnce, tallies

(* The last attempt of an order that had failed before.                    *)
LEMMA FailAgainStep ==
  ASSUME IInv, NEW r \in Runner, FailAgain(r)
  PROVE  IInv'
<1>1. Sound(order)'
  BY DEF IInv, TypeOK, Placed, Sound, HoldsObject, HoldsFragment, Answered,
     Order, OrderStatus, Delivery, tallies, FailAgain, LastAttemptFailed,
     GiveBack, Leave, Resting, Saved
<1>2. TypeOK'
  BY <1>1
  DEF IInv, TypeOK, Placed, Sound, HoldsObject, HoldsFragment, Place, tallies,
     FailAgain, LastAttemptFailed, GiveBack, Leave, Resting, Saved, JobType
<1>3. Placed(r)'
  BY <1>1
  DEF IInv, TypeOK, Placed, Sound, HoldsObject, HoldsFragment, Answered,
     Order, OrderStatus, Delivery, tallies, FailAgain, LastAttemptFailed,
     GiveBack, Leave, Resting, Saved
<1>4. \A q \in Runner : Placed(q)'
  BY <1>3, OthersPlaced
  DEF IInv, TypeOK, Answered, FailAgain, LastAttemptFailed, GiveBack, Leave,
     Resting, Saved
<1>5. NoPaidOrderForgotten'
  BY DEF IInv, TypeOK, NoPaidOrderForgotten, Answered, tallies, FailAgain
<1>. QED BY <1>1, <1>2, <1>4, <1>5 DEF FailAgain, IInv, RefundedOnce, tallies

(* The dead letter queue takes the job.                                    *)
LEMMA FileJobStep ==
  ASSUME IInv, NEW r \in Runner, FileJob(r)
  PROVE  IInv'
<1>1. Sound(order)'
  BY DEF IInv, TypeOK, Sound, Answered, tallies, FileJob
<1>2. TypeOK'
  BY <1>1
  DEF IInv, TypeOK, Placed, Sound, HoldsObject, HoldsFragment, Place, tallies,
     FileJob, GiveBack, Leave, Resting, JobType
<1>3. Placed(r)'
  BY <1>1
  DEF IInv, TypeOK, Placed, Sound, HoldsObject, HoldsFragment, Answered,
     Order, OrderStatus, Delivery, tallies, FileJob, GiveBack, Leave, Resting
<1>4. \A q \in Runner : Placed(q)'
  BY <1>3, OthersPlaced
  DEF IInv, TypeOK, Answered, FileJob, GiveBack, Leave, Resting
<1>5. NoPaidOrderForgotten'
  BY DEF IInv, TypeOK, NoPaidOrderForgotten, Answered, tallies, FileJob
<1>. QED BY <1>1, <1>2, <1>4, <1>5 DEF FileJob, IInv, RefundedOnce, tallies

(* The last attempt of an order that may not fail: a worker still commits  *)
(* manual_review and fails the event.                                      *)
LEMMA FailRefusedStep ==
  ASSUME IInv, NEW r \in Runner, FailRefused(r)
  PROVE  IInv'
<1>0. r \in Worker => claim[r] \in 0 .. MaxRetries - 1
  BY DEF IInv, Placed, FailRefused, LastAttemptFailed
<1>1. Sound(order)'
  BY DEF IInv, TypeOK, Placed, Sound, Saved, Order, OrderStatus, Delivery,
     Answered, HoldsObject, LastAttemptFailed, tallies, FailRefused
<1>2. TypeOK'
  BY <1>0, <1>1, EventFailedEvent
  DEF IInv, TypeOK, Sound, Place, Leave, Resting, tallies, FailRefused
<1>3. Placed(r)'
  BY ActorAssumption
  DEF IInv, TypeOK, Placed, HoldsObject, HoldsFragment, Leave, Resting,
     FailRefused
<1>4. \A q \in Runner : Placed(q)'
  BY <1>3, OthersPlaced DEF IInv, TypeOK, Answered, Leave, FailRefused
<1>5. NoPaidOrderForgotten'
  BY <1>0, EventFailedEvent
  DEF IInv, TypeOK, NoPaidOrderForgotten, Answered, FailRefused
<1>. QED BY <1>1, <1>2, <1>4, <1>5 DEF FailRefused, IInv, RefundedOnce, tallies

(* A success settles the event: the worker got there through a transfer.   *)
LEMMA MarkProcessedStep ==
  ASSUME IInv, NEW r \in Runner, MarkProcessed(r)
  PROVE  IInv'
<1>0. r \in Worker /\ delivered > 0
  BY DEF IInv, Placed, MarkProcessed
<1>1. Sound(order)'
  BY DEF IInv, TypeOK, Sound, Answered, tallies, MarkProcessed
<1>2. TypeOK'
  BY <1>0, EventProcessedEvent
  DEF IInv, TypeOK, Place, Leave, Resting, tallies, MarkProcessed
<1>3. Placed(r)'
  BY DEF IInv, TypeOK, Placed, HoldsObject, HoldsFragment, Leave, Resting,
     MarkProcessed
<1>4. \A q \in Runner : Placed(q)'
  BY <1>3, OthersPlaced DEF IInv, TypeOK, Answered, Leave, MarkProcessed
<1>5. NoPaidOrderForgotten'
  BY <1>0, EventProcessedEvent
  DEF IInv, TypeOK, NoPaidOrderForgotten, MarkProcessed
<1>. QED
  BY <1>1, <1>2, <1>4, <1>5
  DEF MarkProcessed, IInv, RefundedOnce, tallies

(* A failure spends the event's budget, and files a job with the last of   *)
(* it.                                                                     *)
LEMMA MarkFailedStep ==
  ASSUME IInv, NEW r \in Runner, MarkFailed(r)
  PROVE  IInv'
<1>0. r \in Worker /\ claim[r] \in 0 .. MaxRetries - 1
  BY DEF IInv, Placed, MarkFailed
<1>1. Sound(order)'
  BY DEF IInv, TypeOK, Sound, Answered, tallies, MarkFailed
<1>2. TypeOK'
  BY <1>0, EventFailedEvent
  DEF IInv, TypeOK, Place, Leave, Resting, tallies, MarkFailed
<1>3. Placed(r)'
  BY DEF IInv, TypeOK, Placed, HoldsObject, HoldsFragment, Leave, Resting,
     MarkFailed
<1>4. \A q \in Runner : Placed(q)'
  BY <1>3, OthersPlaced DEF IInv, TypeOK, Answered, Leave, MarkFailed
<1>5. NoPaidOrderForgotten'
  BY <1>0, EventFailedEvent DEF IInv, TypeOK, NoPaidOrderForgotten, MarkFailed
<1>. QED BY <1>1, <1>2, <1>4, <1>5 DEF MarkFailed, IInv, RefundedOnce, tallies

(* A crash drops the runner's objects and its claim, never a send.         *)
LEMMA CrashStep ==
  ASSUME IInv, NEW r \in Runner, Crash(r)
  PROVE  IInv'
<1>1. Sound(order)'
  BY DEF IInv, TypeOK, Sound, Answered, Crash
<1>2. TypeOK'
  BY BoundAssumption
  DEF IInv, TypeOK, Place, EventStatus, Leave, Resting, Crash
<1>3. Placed(r)'
  BY DEF IInv, TypeOK, Placed, HoldsObject, HoldsFragment, Leave, Resting,
     Crash
<1>4. \A q \in Runner : Placed(q)'
  BY <1>3, OthersPlaced DEF IInv, TypeOK, Answered, Leave, Crash
<1>5. NoPaidOrderForgotten'
  BY DEF IInv, TypeOK, NoPaidOrderForgotten, EventStatus, Crash
<1>. QED BY <1>1, <1>2, <1>4, <1>5 DEF Crash, IInv, TypeOK, RefundedOnce

-----------------------------------------------------------------------------
(* The desk vouches for what it completes, and refunds only a wallet that  *)
(* has not been refunded.                                                  *)
LEMMA DeskTransitionStep ==
  ASSUME IInv, NEW to \in {"processing", "done", "failed", "cancel"},
         DeskTransition(to)
  PROVE  IInv'
<1>1. Sound(order)'
  <2>1. order \in Order /\ Moved(order, to) \in Order
    BY MovedInOrder DEF IInv, Sound
  <2>2. CASE to = "done"
    BY <2>1, <2>2, MovedInOrder DEF Sound, Answered, DeskTransition
  <2>3. CASE to # "done"
    BY <2>1, <2>3, MovedInOrder
    DEF IInv, TypeOK, Sound, Answered, DeskTransition
  <2>. QED BY <2>2, <2>3
<1>2. TypeOK'
  BY <1>1, BoundAssumption DEF IInv, TypeOK, Sound, AtDesk, DeskTransition
<1>3. \A r \in Runner : Placed(r)'
  BY DEF IInv, TypeOK, Placed, HoldsObject, HoldsFragment, Sound, Answered,
     DeskTransition
<1>. QED
  BY <1>1, <1>2, <1>3
  DEF IInv, TypeOK, NoPaidOrderForgotten, RefundedOnce, DeskTransition

(* A refund credits an unrefunded wallet and moves the order to REFUNDED.  *)
LEMMA RefundStep ==
  ASSUME IInv, Refund
  PROVE  IInv'
<1>1. Sound(order)'
  BY MovedInOrder DEF IInv, Sound, Answered, Refund
<1>2. TypeOK'
  BY <1>1, BoundAssumption DEF IInv, TypeOK, Sound, AtDesk, Refund
<1>3. \A r \in Runner : Placed(r)'
  BY DEF IInv, TypeOK, Placed, HoldsObject, HoldsFragment, Sound, Answered,
     Refund
<1>. QED
  BY <1>1, <1>2, <1>3
  DEF IInv, TypeOK, NoPaidOrderForgotten, RefundedOnce, Refund

(* mark-fulfilled writes COMPLETED, and an administrator vouches for it.   *)
LEMMA MarkFulfilledStep ==
  ASSUME IInv, MarkFulfilled
  PROVE  IInv'
<1>1. Sound(order)'
  BY DEF IInv, Sound, Answered, Order, OrderStatus, Delivery, MarkFulfilled
<1>2. TypeOK'
  BY <1>1, BoundAssumption DEF IInv, TypeOK, Sound, AtDesk, MarkFulfilled
<1>3. \A r \in Runner : Placed(r)'
  BY DEF IInv, TypeOK, Placed, HoldsObject, HoldsFragment, Sound, Answered,
     MarkFulfilled
<1>. QED
  BY <1>1, <1>2, <1>3
  DEF IInv, TypeOK, NoPaidOrderForgotten, RefundedOnce, MarkFulfilled

(* A freshly paid order with its pending event.                            *)
LEMMA InitIInv == Init => IInv
<1>. SUFFICES ASSUME Init PROVE IInv
  OBVIOUS
<1>1. TypeOK
  <2>1. order \in Order
    BY BoundAssumption DEF Init, Order, OrderStatus, Delivery
  <2>2. event \in [status : EventStatus, retries : 0 .. MaxRetries,
                  holder : Worker \cup {Nothing}]
    BY BoundAssumption DEF Init, EventStatus
  <2>3. /\ pc \in [Runner -> Place]
        /\ object \in [Runner -> Order \cup {Nothing}]
        /\ fragment \in [Runner -> Order \cup {Nothing}]
        /\ claim \in [Runner -> 0 .. MaxRetries - 1 \cup {Nothing}]
    BY DEF Init, Place
  <2>4. /\ delivered \in Nat /\ vouched \in BOOLEAN /\ credited \in Nat
        /\ filed \subseteq JobType
    BY DEF Init
  <2>5. /\ crashes \in 0 .. MaxCrashes /\ unrecorded \in 0 .. MaxCrashes
        /\ operations \in 0 .. MaxDesk
    BY BoundAssumption DEF Init
  <2>. QED
    BY <2>1, <2>2, <2>3, <2>4, <2>5 DEF TypeOK
<1>2. \A r \in Runner : Placed(r)
  BY DEF Init, Placed, HoldsObject, HoldsFragment
<1>3. Sound(order)
  BY <1>1 DEF Init, TypeOK, Sound
<1>. QED
  BY <1>1, <1>2, <1>3 DEF Init, IInv, NoPaidOrderForgotten, RefundedOnce

(* Every step of a runner.                                                 *)
LEMMA WorkStep ==
  ASSUME IInv, NEW r \in Runner, Work(r)
  PROVE  IInv'
<1>. QED
  BY ClaimStep, LoadForRemedyStep, SkipFulfilledStep, DeferStep, ExhaustStep,
     AttemptStep, LoadForFragmentStep, InvoiceRaisesStep,
     AwaitManualPaymentStep, MarkProcessingStep, SendStep, SendRefusedStep,
     RecordSendStep, CompleteOrderStep, RecordCompletionStep,
     RefuseCompletionStep, ScheduleRetryStep, FailOrderStep, FailAgainStep,
     FailRefusedStep, FileJobStep, MarkProcessedStep, MarkFailedStep
  DEF Work

(* Every step of the system.                                               *)
LEMMA NextStep == IInv /\ [Next]_vars => IInv'
<1>. SUFFICES ASSUME IInv, [Next]_vars PROVE IInv'
  OBVIOUS
<1>1. ASSUME NEW r \in Runner, Work(r) PROVE IInv'
  BY <1>1, WorkStep
<1>2. ASSUME NEW r \in Runner, Crash(r) PROVE IInv'
  BY <1>2, CrashStep
<1>3. CASE Administer
  BY <1>3, DeskTransitionStep, RefundStep, MarkFulfilledStep DEF Administer
<1>4. CASE UNCHANGED vars
  <2>1. UNCHANGED <<order, event, pc, object, fragment, claim, delivered, vouched,
                    credited, filed, crashes, unrecorded, operations>>
    BY <1>4 DEF vars
  <2>. QED
    BY <2>1
    DEF IInv, TypeOK, Placed, HoldsObject, HoldsFragment, Sound, Answered,
       NoPaidOrderForgotten, RefundedOnce
<1>. QED BY <1>1, <1>2, <1>3, <1>4 DEF Next

(* Every runner of fulfill_order_automated and fragment_client is where    *)
(* its sessions' objects allow it to be, and every Order object still held *)
(* anywhere is sound.                                                      *)
THEOREM FulfillmentInvariant == Spec => []IInv
BY InitIInv, NextStep, PTL DEF Spec

(* The types of the delivery of an order: fulfillment_attempts never past  *)
(* MAX_FULFILLMENT_RETRIES (fulfillment/service.py:48-71), the event's     *)
(* retry_count never past max_retries (outbox/service.py:115-160).         *)
THEOREM FulfillmentTypes == Spec => []TypeOK
<1>1. IInv => TypeOK
  BY DEF IInv
<1>. QED BY <1>1, FulfillmentInvariant, PTL

(* worker.py:126: a settled event was answered for or filed.               *)
THEOREM NoOrderForgotten == Spec => []NoPaidOrderForgotten
<1>1. IInv => NoPaidOrderForgotten
  BY DEF IInv
<1>. QED BY <1>1, FulfillmentInvariant, PTL

(* COMPLETED and fulfilled are only ever said of an order for which        *)
(* fragment.py sent the stars or an administrator vouched, although stale  *)
(* objects are written over the row.                                       *)
THEOREM CompletedIsDelivered == Spec => []CompletedMeansDelivered
<1>1. IInv => CompletedMeansDelivered
  BY DEF IInv, Sound, Answered, CompletedMeansDelivered
<1>. QED BY <1>1, FulfillmentInvariant, PTL

(* orders/service.py:318-326 gives the buyer the money back at most once,  *)
(* also when a refunded order is brought back to COMPLETED.                *)
THEOREM RefundedAtMostOnce == Spec => []RefundedOnce
<1>1. IInv => RefundedOnce
  BY DEF IInv
<1>. QED BY <1>1, FulfillmentInvariant, PTL
-----------------------------------------------------------------------------
(* What follows is about orders that only workers send, however many: no   *)
(* retry by hand and no purchase through the bot, and a cycle ends before  *)
(* the lock of its event expires.  Administrators do what they like.       *)
OnlyWorkersSend ==
  /\ Worker # {} /\ Retry = {} /\ Remedy = {} /\ Direct = {}
  /\ LeaseHolds

(* A state no desk operation leads out of but to the other.                *)
Closed == order.status \in {"completed", "refunded"}

(* What the worker's place says of its objects and of the order.  The      *)
(* objects still say processing, so that the record of a delivery is       *)
(* written over whatever the desk wrote meanwhile.                         *)
Course(w) ==
  /\ pc[w] \in {"attempt", "invoice", "ready", "sent", "answered", "refused", "raised"} =>
       /\ object[w].delivery = "processing" /\ object[w].status # "completed"
       /\ object[w].attempts = order.attempts
  /\ pc[w] \in {"invoice", "ready", "sent"} /\ fragment[w].status = "completed" => Closed
  /\ pc[w] \in {"ready", "sent"} => fragment[w].delivery = "processing"
  /\ pc[w] \in {"attempt", "invoice", "ready"} => filed = {}
  /\ pc[w] \in {"attempt", "invoice", "ready", "refused"} => delivered <= unrecorded
  /\ pc[w] = "recording" => Closed
  /\ pc[w] = "filing" => order.attempts >= MaxAttempts

(* The event's row lock, or its status until the lock expires, is w's.     *)
Leased(w) ==
  /\ event.holder \in {w, Nothing}
  /\ event.holder = w <=> pc[w] = "claimed"
  /\ pc[w] = "claimed" => event.status \in {"pending", "retry", "processing"}
  /\ pc[w] \notin {"idle", "claimed"} => event.status = "processing"

(* A delivery not lost in a crash is about to be recorded, or is recorded  *)
(* by a row that the desk cannot send back to work, or there are no        *)
(* attempts left for another; what was filed has no attempts left, or no   *)
(* event that asks for more.                                               *)
Accounted(w) ==
  /\ delivered <= unrecorded + 1
  /\ delivered > unrecorded =>
       \/ pc[w] = "sent"
       \/ order.delivery = "fulfilled" /\ Closed
       \/ order.attempts >= MaxAttempts
  /\ filed # {} => order.attempts >= MaxAttempts \/ event.status = "failed"

(* Only w is at work.                                                      *)
Sole(w) ==
  /\ \A v \in Worker \ {w} : pc[v] = "idle"
  /\ pc[w] \notin {"loaded", "ended"}
  /\ Leased(w) /\ Course(w) /\ Accounted(w)

(* The inductive invariant where only workers send.                           *)
WInv == \E w \in Worker : Sole(w)

(* Where only workers are, a runner is one of them and starts from the row *)
(* it locked.                                                              *)
LEMMA WorkerStarts ==
  ASSUME OnlyWorkersSend, NEW r \in Worker
  PROVE  /\ Runner = Worker /\ r \in Runner /\ r \notin Direct /\ r \notin Remedy
         /\ Starting(r) <=> pc[r] = "claimed"
         /\ Loaded(r) = order /\ Current(r) = order
         /\ Resting(r) = "idle"
BY DEF OnlyWorkersSend, Runner, Starting, Loaded, Current, Resting

(* The sessions of a worker at work hold orders, and the row is one.       *)
LEMMA WorkerHolds ==
  ASSUME OnlyWorkersSend, IInv, NEW r \in Worker
  PROVE  /\ order \in Order
         /\ pc[r] \in {"attempt", "invoice", "ready", "sent", "answered", "recording",
                       "refused", "raised", "filing"} => object[r] \in Order
         /\ pc[r] \in {"invoice", "ready", "sent"} => fragment[r] \in Order
         /\ pc \in [Runner -> Place] /\ object \in [Runner -> Order \cup {Nothing}]
         /\ fragment \in [Runner -> Order \cup {Nothing}]
         /\ delivered \in Nat /\ unrecorded \in Nat
         /\ event \in [status : EventStatus, retries : 0 .. MaxRetries,
                       holder : Worker \cup {Nothing}]
<1>1. TypeOK /\ Placed(r)
  BY WorkerStarts DEF IInv
<1>2. r \notin Direct
  BY WorkerStarts
<1>3. pc[r] \in {"attempt", "invoice", "ready", "sent", "answered", "recording",
                "refused", "raised", "filing"} => object[r] \in Order
  BY <1>1, <1>2 DEF Placed, HoldsObject, HoldsFragment, Sound
<1>4. pc[r] \in {"invoice", "ready", "sent"} => fragment[r] \in Order
  BY <1>1 DEF Placed, HoldsFragment, Sound
<1>5. unrecorded \in Nat
  BY <1>1, BoundAssumption DEF TypeOK
<1>6. QED
  BY <1>1, <1>3, <1>4, <1>5 DEF TypeOK

(* A claim needs an event nobody works on, and makes it the claimant's.    *)
LEMMA ClaimSole ==
  ASSUME OnlyWorkersSend, IInv, NEW r \in Worker, Sole(r), Claim(r)
  PROVE  Sole(r)'
<1>1. \A v \in Worker \ {r} : pc'[v] = "idle"
  BY DEF Sole, Claim
<1>2. Leased(r)' /\ pc'[r] \notin {"loaded", "ended"}
  BY WorkerStarts, WorkerHolds DEF Leased, Claim, Claimable
<1>3. Course(r)'
  BY DEF Course, Claim
<1>4. Accounted(r)'
  BY DEF tallies, Sole, Accounted, Closed, Claim
<1>5. QED
  BY <1>1, <1>2, <1>3, <1>4 DEF Sole

(* Nothing was left to do: the event is processed.                         *)
LEMMA SkipFulfilledSole ==
  ASSUME OnlyWorkersSend, IInv, NEW r \in Worker, Sole(r), SkipFulfilled(r)
  PROVE  Sole(r)'
<1>1. \A v \in Worker \ {r} : pc'[v] = "idle"
  BY DEF Sole, SkipFulfilled, Leave
<1>2. Leased(r)' /\ pc'[r] \notin {"loaded", "ended"}
  BY WorkerStarts, WorkerHolds, ActorAssumption
  DEF Sole, Leased, SkipFulfilled, EventProcessed, Leave
<1>3. Course(r)'
  BY WorkerStarts DEF Course, SkipFulfilled, Leave
<1>4. Accounted(r)'
  BY WorkerStarts DEF tallies, Sole, Leased, Accounted, Closed, SkipFulfilled
<1>5. QED
  BY <1>1, <1>2, <1>3, <1>4 DEF Sole

(* The event's budget shrinks, and with the last of it the event fails.    *)
LEMMA DeferSole ==
  ASSUME OnlyWorkersSend, IInv, NEW r \in Worker, Sole(r), Defer(r)
  PROVE  Sole(r)'
<1>1. \A v \in Worker \ {r} : pc'[v] = "idle"
  BY DEF Sole, Defer, Leave
<1>2. Leased(r)' /\ pc'[r] \notin {"loaded", "ended"}
  BY WorkerStarts, WorkerHolds, ActorAssumption DEF Leased, Defer, EventFailed, Leave
<1>3. Course(r)'
  BY WorkerStarts DEF Course, Defer, Leave
<1>4. Accounted(r)'
  BY WorkerStarts DEF tallies, Sole, Leased, Accounted, Closed, Defer, EventFailed, Leave
<1>5. QED
  BY <1>1, <1>2, <1>3, <1>4 DEF Sole

(* An order without attempts left is not delivered again.                  *)
LEMMA ExhaustSole ==
  ASSUME OnlyWorkersSend, IInv, NEW r \in Worker, Sole(r), Exhaust(r)
  PROVE  Sole(r)'
<1>1. \A v \in Worker \ {r} : pc'[v] = "idle"
  BY DEF Sole, Exhaust
<1>2. Leased(r)' /\ pc'[r] \notin {"loaded", "ended"}
  BY WorkerStarts, WorkerHolds, ActorAssumption DEF Sole, Leased, Exhaust, CommitClaim
<1>3. Course(r)'
  BY WorkerStarts DEF Course, Saved, Exhaust
<1>4. Accounted(r)'
  BY WorkerStarts DEF tallies, Sole, Accounted, Closed, Saved, Exhaust
<1>5. QED
  BY <1>1, <1>2, <1>3, <1>4 DEF Sole

(* An attempt starts from an order that nobody delivered.                  *)
LEMMA AttemptSole ==
  ASSUME OnlyWorkersSend, IInv, NEW r \in Worker, Sole(r), Attempt(r)
  PROVE  Sole(r)'
<1>1. \A v \in Worker \ {r} : pc'[v] = "idle"
  BY DEF Sole, Attempt, BeginAttempt
<1>2. Leased(r)' /\ pc'[r] \notin {"loaded", "ended"}
  BY WorkerStarts, WorkerHolds, ActorAssumption
  DEF Sole, Leased, Attempt, BeginAttempt, CommitClaim
<1>3. pc[r] = "claimed" /\ ~AlreadyFulfilled(order) /\ order.attempts < MaxAttempts
  BY WorkerStarts DEF Attempt, BeginAttempt
<1>4. /\ order \in Order /\ order.attempts \in 0 .. MaxAttempts
      /\ pc'[r] = "attempt" /\ UNCHANGED <<filed, delivered, unrecorded>>
      /\ object'[r] = [order EXCEPT !.attempts = @ + 1, !.delivery = "processing"]
      /\ order' = Saved(order, object'[r])
  BY WorkerStarts, WorkerHolds DEF Attempt, BeginAttempt, Order, tallies
<1>5. delivered <= unrecorded
  BY <1>3, <1>4, WorkerHolds, BoundAssumption DEF Sole, Accounted, AlreadyFulfilled
<1>6. filed = {}
  BY <1>3, <1>4, BoundAssumption DEF Sole, Accounted, Leased
<1>7. /\ object'[r].delivery = "processing" /\ object'[r].status = order.status
      /\ object'[r].attempts = order.attempts + 1
  BY <1>4 DEF Order
<1>8. order'.attempts = order.attempts + 1
  BY <1>4, <1>7 DEF Saved
<1>9. Course(r)'
  BY <1>3, <1>4, <1>5, <1>6, <1>7, <1>8 DEF Course, AlreadyFulfilled
<1>10. Accounted(r)'
  BY <1>4, <1>5, <1>6, WorkerHolds DEF Accounted
<1>11. QED
  BY <1>1, <1>2, <1>9, <1>10 DEF Sole

(* The fragment session sees the order as it is.                           *)
LEMMA LoadForFragmentSole ==
  ASSUME OnlyWorkersSend, IInv, NEW r \in Worker, Sole(r), LoadForFragment(r)
  PROVE  Sole(r)'
<1>1. \A v \in Worker \ {r} : pc'[v] = "idle"
  BY DEF Sole, LoadForFragment
<1>2. Leased(r)' /\ pc'[r] \notin {"loaded", "ended"}
  BY ActorAssumption DEF Sole, Leased, LoadForFragment
<1>3. /\ pc[r] = "attempt" /\ pc'[r] = "invoice" /\ fragment'[r] = order
      /\ UNCHANGED <<order, event, object, delivered, filed, unrecorded>>
  BY WorkerStarts, WorkerHolds DEF LoadForFragment, tallies
<1>4. Course(r)'
  BY <1>3 DEF Sole, Course, Closed
<1>5. Accounted(r)'
  BY <1>3 DEF Sole, Accounted, Closed
<1>6. QED
  BY <1>1, <1>2, <1>4, <1>5 DEF Sole

(* No invoice, no delivery.                                                *)
LEMMA InvoiceRaisesSole ==
  ASSUME OnlyWorkersSend, IInv, NEW r \in Worker, Sole(r), InvoiceRaises(r)
  PROVE  Sole(r)'
<1>1. \A v \in Worker \ {r} : pc'[v] = "idle"
  BY WorkerStarts, WorkerHolds DEF Sole, InvoiceRaises, Return
<1>2. Leased(r)' /\ pc'[r] \notin {"loaded", "ended"}
  BY WorkerHolds, ActorAssumption DEF Sole, Leased, InvoiceRaises, Return
<1>3. Course(r)'
  BY WorkerStarts, WorkerHolds DEF Sole, Course, Closed, InvoiceRaises, Return
<1>4. Accounted(r)'
  BY WorkerHolds DEF tallies, Sole, Accounted, Closed, InvoiceRaises
<1>5. QED
  BY <1>1, <1>2, <1>3, <1>4 DEF Sole

(* No payment, no delivery.                                                *)
LEMMA AwaitManualPaymentSole ==
  ASSUME OnlyWorkersSend, IInv, NEW r \in Worker, Sole(r), AwaitManualPayment(r)
  PROVE  Sole(r)'
<1>1. \A v \in Worker \ {r} : pc'[v] = "idle"
  BY WorkerStarts, WorkerHolds DEF Sole, AwaitManualPayment, Return
<1>2. Leased(r)' /\ pc'[r] \notin {"loaded", "ended"}
  BY WorkerHolds, ActorAssumption DEF Sole, Leased, AwaitManualPayment, Return
<1>3. /\ pc[r] = "invoice" /\ pc'[r] = "refused"
      /\ order' = Saved(fragment[r], [fragment[r] EXCEPT !.delivery = "waiting_payment"])
      /\ UNCHANGED <<event, object, delivered, filed, unrecorded>>
  BY WorkerStarts, WorkerHolds DEF AwaitManualPayment, Return, tallies
<1>4. order'.attempts = order.attempts
  BY <1>3 DEF Saved
<1>5. Course(r)'
  BY <1>3, <1>4 DEF Sole, Course
<1>6. Accounted(r)'
  BY <1>3, <1>4, WorkerHolds DEF Sole, Course, Accounted
<1>7. QED
  BY <1>1, <1>2, <1>5, <1>6 DEF Sole

(* The transfer is announced for an undelivered order.                     *)
LEMMA MarkProcessingSole ==
  ASSUME OnlyWorkersSend, IInv, NEW r \in Worker, Sole(r), MarkProcessing(r)
  PROVE  Sole(r)'
<1>1. \A v \in Worker \ {r} : pc'[v] = "idle"
  BY DEF Sole, MarkProcessing
<1>2. Leased(r)' /\ pc'[r] \notin {"loaded", "ended"}
  BY DEF Sole, Leased, MarkProcessing
<1>3. PICK new : new = [fragment[r] EXCEPT !.delivery = "processing"]
  OBVIOUS
<1>4. /\ pc[r] = "invoice" /\ pc'[r] = "ready"
      /\ order' = Saved(fragment[r], new) /\ fragment'[r] = new
      /\ UNCHANGED <<event, object, delivered, filed, unrecorded>>
  BY <1>3, WorkerStarts, WorkerHolds DEF MarkProcessing, tallies
<1>5. fragment[r] \in Order
  BY <1>4, WorkerHolds
<1>6. /\ new.status = fragment[r].status /\ new.delivery = "processing"
      /\ new.attempts = fragment[r].attempts
  BY <1>3, <1>5 DEF Order
<1>7. order'.attempts = order.attempts /\ order'.status = order.status
  BY <1>4, <1>6 DEF Saved
<1>8. Course(r)'
  BY <1>4, <1>6, <1>7 DEF Sole, Course, Closed
<1>9. Accounted(r)'
  BY <1>4, <1>7, WorkerHolds DEF Sole, Course, Accounted
<1>10. QED
  BY <1>1, <1>2, <1>8, <1>9 DEF Sole

(* The only send since the order was last looked at.                       *)
LEMMA SendSole ==
  ASSUME OnlyWorkersSend, IInv, NEW r \in Worker, Sole(r), Send(r)
  PROVE  Sole(r)'
<1>1. \A v \in Worker \ {r} : pc'[v] = "idle"
  BY DEF Sole, Send, Goto
<1>2. Leased(r)' /\ pc'[r] \notin {"loaded", "ended"}
  BY DEF Sole, Leased, Send, Goto
<1>3. /\ pc[r] = "ready" /\ pc'[r] = "sent" /\ delivered' = delivered + 1
      /\ UNCHANGED <<order, event, object, fragment, filed, unrecorded>>
  BY WorkerStarts, WorkerHolds DEF Send, Goto, tallies
<1>4. Course(r)'
  BY <1>3 DEF Sole, Course, Closed
<1>5. Accounted(r)'
  BY <1>3, WorkerHolds DEF Sole, Course, Accounted
<1>6. QED
  BY <1>1, <1>2, <1>4, <1>5 DEF Sole

(* A refused transfer delivers nothing.                                    *)
LEMMA SendRefusedSole ==
  ASSUME OnlyWorkersSend, IInv, NEW r \in Worker, Sole(r), SendRefused(r)
  PROVE  Sole(r)'
<1>1. \A v \in Worker \ {r} : pc'[v] = "idle"
  BY WorkerStarts, WorkerHolds DEF Sole, SendRefused, Return
<1>2. Leased(r)' /\ pc'[r] \notin {"loaded", "ended"}
  BY WorkerHolds, ActorAssumption DEF Sole, Leased, SendRefused, Return
<1>3. /\ pc[r] = "ready" /\ pc'[r] = "refused"
      /\ order' = Saved(fragment[r], [fragment[r] EXCEPT !.delivery = "failed"])
      /\ UNCHANGED <<event, object, delivered, filed, unrecorded>>
  BY WorkerStarts, WorkerHolds DEF SendRefused, Return, tallies
<1>4. order'.attempts = order.attempts
  BY <1>3 DEF Saved
<1>5. Course(r)'
  BY <1>3, <1>4 DEF Sole, Course
<1>6. Accounted(r)'
  BY <1>3, <1>4, WorkerHolds DEF Sole, Course, Accounted
<1>7. QED
  BY <1>1, <1>2, <1>5, <1>6 DEF Sole

(* The record of the delivery reaches the row.                             *)
LEMMA RecordSendSole ==
  ASSUME OnlyWorkersSend, IInv, NEW r \in Worker, Sole(r), RecordSend(r)
  PROVE  Sole(r)'
<1>1. \A v \in Worker \ {r} : pc'[v] = "idle"
  BY WorkerStarts, WorkerHolds DEF Sole, RecordSend, Return
<1>2. Leased(r)' /\ pc'[r] \notin {"loaded", "ended"}
  BY WorkerHolds, ActorAssumption DEF Sole, Leased, RecordSend, Return
<1>3. PICK new : new = [fragment[r] EXCEPT !.delivery = "fulfilled", !.status = "completed"]
  OBVIOUS
<1>4. /\ pc[r] = "sent" /\ pc'[r] = "answered" /\ order' = Saved(fragment[r], new)
      /\ UNCHANGED <<event, object, delivered, filed, unrecorded>>
  BY <1>3, WorkerStarts, WorkerHolds DEF RecordSend, Return, tallies
<1>5. fragment[r] \in Order
  BY <1>4, WorkerHolds
<1>6. /\ new.status = "completed" /\ new.delivery = "fulfilled"
      /\ new.attempts = fragment[r].attempts
  BY <1>3, <1>5 DEF Order
<1>7. order'.attempts = order.attempts /\ order'.delivery = "fulfilled" /\ Closed'
  BY <1>4, <1>6 DEF Saved, Sole, Course, Closed
<1>8. Course(r)'
  BY <1>4, <1>7 DEF Sole, Course
<1>9. Accounted(r)'
  BY <1>4, <1>7 DEF Sole, Accounted
<1>10. QED
  BY <1>1, <1>2, <1>8, <1>9 DEF Sole

(* COMPLETED and fulfilled are written once more.                          *)
LEMMA CompleteOrderSole ==
  ASSUME OnlyWorkersSend, IInv, NEW r \in Worker, Sole(r), CompleteOrder(r)
  PROVE  Sole(r)'
<1>1. \A v \in Worker \ {r} : pc'[v] = "idle"
  BY DEF Sole, CompleteOrder, Goto
<1>2. Leased(r)' /\ pc'[r] \notin {"loaded", "ended"}
  BY DEF Sole, Leased, CompleteOrder, Goto
<1>3. PICK new : new = Moved(object[r], "completed")
  OBVIOUS
<1>4. /\ pc[r] = "answered" /\ pc'[r] = "recording" /\ order' = Saved(object[r], new)
      /\ UNCHANGED <<event, delivered, filed, unrecorded>>
  BY <1>3, WorkerStarts, WorkerHolds DEF CompleteOrder, Goto, tallies
<1>5. object[r] \in Order
  BY <1>4, WorkerHolds
<1>6. /\ new.status = "completed" /\ new.delivery = "fulfilled"
      /\ new.attempts = object[r].attempts
  BY <1>3, <1>5 DEF Order, Moved, Normalized
<1>7. order'.attempts = order.attempts /\ order'.delivery = "fulfilled" /\ Closed'
  BY <1>4, <1>6 DEF Saved, Sole, Course, Closed
<1>8. Course(r)'
  BY <1>4, <1>7 DEF Course
<1>9. Accounted(r)'
  BY <1>4, <1>7 DEF Sole, Accounted
<1>10. QED
  BY <1>1, <1>2, <1>8, <1>9 DEF Sole

(* fulfilled is written again.                                             *)
LEMMA RecordCompletionSole ==
  ASSUME OnlyWorkersSend, IInv, NEW r \in Worker, Sole(r), RecordCompletion(r)
  PROVE  Sole(r)'
<1>1. \A v \in Worker \ {r} : pc'[v] = "idle"
  BY WorkerStarts, WorkerHolds DEF Sole, RecordCompletion, GiveBack
<1>2. Leased(r)' /\ pc'[r] \notin {"loaded", "ended"}
  BY WorkerHolds DEF Sole, Leased, RecordCompletion, GiveBack
<1>3. /\ pc[r] = "recording" /\ pc'[r] = "succeeded"
      /\ order' = [order EXCEPT !.delivery = "fulfilled"]
      /\ UNCHANGED <<event, delivered, filed, unrecorded>>
  BY WorkerStarts, WorkerHolds DEF RecordCompletion, GiveBack, tallies
<1>4. /\ order'.attempts = order.attempts /\ order'.status = order.status
      /\ order'.delivery = "fulfilled"
  BY <1>3, WorkerHolds DEF Order
<1>5. Course(r)'
  BY <1>3 DEF Course
<1>6. Accounted(r)'
  BY <1>3, <1>4 DEF Sole, Course, Accounted, Closed
<1>7. QED
  BY <1>1, <1>2, <1>5, <1>6 DEF Sole

(* The desk changed the order before the attempt: its record stays.        *)
LEMMA RefuseCompletionSole ==
  ASSUME OnlyWorkersSend, IInv, NEW r \in Worker, Sole(r), RefuseCompletion(r)
  PROVE  Sole(r)'
<1>1. \A v \in Worker \ {r} : pc'[v] = "idle"
  BY DEF Sole, RefuseCompletion, Goto
<1>2. /\ pc[r] = "answered" /\ pc'[r] = "raised"
      /\ UNCHANGED <<order, event, object, fragment, delivered, filed, unrecorded>>
  BY WorkerStarts, WorkerHolds DEF RefuseCompletion, Goto, tallies
<1>3. Leased(r)' /\ pc'[r] \notin {"loaded", "ended"}
  BY <1>2 DEF Sole, Leased
<1>4. Course(r)'
  BY <1>2 DEF Sole, Course
<1>5. Accounted(r)'
  BY <1>2 DEF Sole, Accounted, Closed
<1>6. QED
  BY <1>1, <1>3, <1>4, <1>5 DEF Sole

(* The order stays undelivered.                                            *)
LEMMA ScheduleRetrySole ==
  ASSUME OnlyWorkersSend, IInv, NEW r \in Worker, Sole(r), ScheduleRetry(r)
  PROVE  Sole(r)'
<1>1. \A v \in Worker \ {r} : pc'[v] = "idle"
  BY WorkerStarts, WorkerHolds DEF Sole, ScheduleRetry, GiveBack
<1>2. Leased(r)' /\ pc'[r] \notin {"loaded", "ended"}
  BY WorkerHolds DEF Sole, Leased, ScheduleRetry, GiveBack
<1>3. /\ pc[r] \in {"refused", "raised"} /\ pc'[r] = "failed"
      /\ UNCHANGED <<event, delivered, filed, unrecorded>>
      /\ \/ pc[r] = "refused"
            /\ order' = Saved(object[r], [object[r] EXCEPT !.delivery = "retry_scheduled"])
         \/ order' = order
  BY WorkerStarts, WorkerHolds DEF ScheduleRetry, GiveBack, tallies
<1>4. order'.attempts = order.attempts
  BY <1>3 DEF Saved
<1>5. Course(r)'
  BY <1>3 DEF Course
<1>6. Accounted(r)'
  BY <1>3, <1>4, WorkerHolds DEF Sole, Course, Accounted, Closed
<1>7. QED
  BY <1>1, <1>2, <1>5, <1>6 DEF Sole

(* The last attempt leaves none.                                           *)
LEMMA FailOrderSole ==
  ASSUME OnlyWorkersSend, IInv, NEW r \in Worker, Sole(r), FailOrder(r)
  PROVE  Sole(r)'
<1>1. \A v \in Worker \ {r} : pc'[v] = "idle"
  BY DEF Sole, FailOrder
<1>2. Leased(r)' /\ pc'[r] \notin {"loaded", "ended"}
  BY DEF Sole, Leased, FailOrder, LastAttemptFailed
<1>3. /\ pc'[r] = "filing" /\ UNCHANGED <<event, delivered, filed, unrecorded>>
      /\ order' = Saved(object[r],
                        Moved([object[r] EXCEPT !.delivery = "manual_review"], "failed"))
  BY WorkerStarts, WorkerHolds DEF FailOrder, tallies
<1>4. order'.attempts = order.attempts
  BY <1>3 DEF Saved, Moved
<1>5. order.attempts >= MaxAttempts
  BY DEF Sole, Course, FailOrder, LastAttemptFailed
<1>6. Course(r)'
  BY <1>3, <1>4, <1>5 DEF Course
<1>7. Accounted(r)'
  BY <1>3, <1>4, <1>5 DEF Sole, Accounted
<1>8. QED
  BY <1>1, <1>2, <1>6, <1>7 DEF Sole

(* The order had failed before; no attempts are left.                      *)
LEMMA FailAgainSole ==
  ASSUME OnlyWorkersSend, IInv, NEW r \in Worker, Sole(r), FailAgain(r)
  PROVE  Sole(r)'
<1>1. \A v \in Worker \ {r} : pc'[v] = "idle"
  BY WorkerStarts, WorkerHolds DEF Sole, FailAgain, GiveBack
<1>2. Leased(r)' /\ pc'[r] \notin {"loaded", "ended"}
  BY WorkerHolds DEF Sole, Leased, FailAgain, LastAttemptFailed, GiveBack
<1>3. /\ pc'[r] = "failed" /\ UNCHANGED <<event, delivered, unrecorded>>
      /\ order' = Saved(object[r], [object[r] EXCEPT !.delivery = "manual_review"])
  BY WorkerStarts, WorkerHolds DEF FailAgain, GiveBack, tallies
<1>4. order'.attempts = order.attempts
  BY <1>3 DEF Saved
<1>5. order.attempts >= MaxAttempts
  BY DEF Sole, Course, FailAgain, LastAttemptFailed
<1>6. Course(r)'
  BY <1>3 DEF Course
<1>7. Accounted(r)'
  BY <1>3, <1>4, <1>5 DEF Sole, Accounted
<1>8. QED
  BY <1>1, <1>2, <1>6, <1>7 DEF Sole

(* The desk closed the order before the attempt; no attempts are left.     *)
LEMMA FailRefusedSole ==
  ASSUME OnlyWorkersSend, IInv, NEW r \in Worker, Sole(r), FailRefused(r)
  PROVE  Sole(r)'
<1>1. \A v \in Worker \ {r} : pc'[v] = "idle"
  BY DEF Sole, FailRefused, Leave
<1>2. Leased(r)' /\ pc'[r] \notin {"loaded", "ended"}
  BY WorkerStarts, WorkerHolds, ActorAssumption
  DEF Sole, Leased, FailRefused, EventFailed, Leave
<1>3. /\ pc'[r] = "idle" /\ UNCHANGED <<delivered, unrecorded>>
      /\ order' = Saved(object[r], [object[r] EXCEPT !.delivery = "manual_review"])
  BY WorkerStarts, WorkerHolds DEF FailRefused, Leave, tallies
<1>4. order'.attempts = order.attempts
  BY <1>3 DEF Saved
<1>5. order.attempts >= MaxAttempts
  BY DEF Sole, Course, FailRefused, LastAttemptFailed
<1>6. Course(r)'
  BY <1>3 DEF Course
<1>7. Accounted(r)'
  BY <1>3, <1>4, <1>5 DEF Sole, Accounted
<1>8. QED
  BY <1>1, <1>2, <1>6, <1>7 DEF Sole

(* What is filed has no attempts left.                                     *)
LEMMA FileJobSole ==
  ASSUME OnlyWorkersSend, IInv, NEW r \in Worker, Sole(r), FileJob(r)
  PROVE  Sole(r)'
<1>1. \A v \in Worker \ {r} : pc'[v] = "idle"
  BY WorkerStarts, WorkerHolds DEF Sole, FileJob, GiveBack
<1>2. Leased(r)' /\ pc'[r] \notin {"loaded", "ended"}
  BY WorkerHolds DEF Sole, Leased, FileJob, GiveBack
<1>3. Course(r)'
  BY WorkerHolds DEF Sole, Course, Closed, FileJob, GiveBack
<1>4. Accounted(r)'
  BY WorkerHolds DEF tallies, Sole, Course, Accounted, Closed, FileJob
<1>5. QED
  BY <1>1, <1>2, <1>3, <1>4 DEF Sole

(* The event asks for no more.                                             *)
LEMMA MarkProcessedSole ==
  ASSUME OnlyWorkersSend, IInv, NEW r \in Worker, Sole(r), MarkProcessed(r)
  PROVE  Sole(r)'
<1>1. \A v \in Worker \ {r} : pc'[v] = "idle"
  BY DEF Sole, MarkProcessed, Leave
<1>2. Leased(r)' /\ pc'[r] \notin {"loaded", "ended"}
  BY WorkerStarts, WorkerHolds DEF Sole, Leased, MarkProcessed, EventProcessed, Leave
<1>3. Course(r)'
  BY WorkerStarts DEF Course, MarkProcessed, Leave
<1>4. Accounted(r)'
  BY WorkerHolds DEF tallies, Sole, Leased, Accounted, Closed, MarkProcessed
<1>5. QED
  BY <1>1, <1>2, <1>3, <1>4 DEF Sole

(* The event is retried or failed.                                         *)
LEMMA MarkFailedSole ==
  ASSUME OnlyWorkersSend, IInv, NEW r \in Worker, Sole(r), MarkFailed(r)
  PROVE  Sole(r)'
<1>1. \A v \in Worker \ {r} : pc'[v] = "idle"
  BY DEF Sole, MarkFailed, Leave
<1>2. Leased(r)' /\ pc'[r] \notin {"loaded", "ended"}
  BY WorkerStarts, WorkerHolds DEF Sole, Leased, MarkFailed, EventFailed, Leave
<1>3. Course(r)'
  BY WorkerStarts DEF Course, MarkFailed, Leave
<1>4. Accounted(r)'
  BY WorkerHolds DEF tallies, Sole, Leased, Accounted, Closed, MarkFailed, EventFailed
<1>5. QED
  BY <1>1, <1>2, <1>3, <1>4 DEF Sole

(* A crash releases the claim, or leaves the event to its lock.            *)
LEMMA CrashSole ==
  ASSUME OnlyWorkersSend, IInv, NEW r \in Worker, Sole(r), Crash(r)
  PROVE  Sole(r)'
<1>1. \A v \in Worker \ {r} : pc'[v] = "idle"
  BY DEF Sole, Crash, Leave
<1>2. Leased(r)' /\ pc'[r] \notin {"loaded", "ended"}
  BY WorkerStarts, WorkerHolds, ActorAssumption DEF Sole, Leased, Crash, Leave
<1>3. Course(r)'
  BY WorkerStarts, WorkerHolds DEF Course, Crash, Leave
<1>4. Accounted(r)'
  BY WorkerHolds DEF Sole, Accounted, Closed, Crash
<1>5. QED
  BY <1>1, <1>2, <1>3, <1>4 DEF Sole

-----------------------------------------------------------------------------

(* An idle worker is as alone as any other.                                *)
LEMMA IdleIsAlike ==
  ASSUME NEW w \in Worker, NEW r \in Worker, Sole(w), pc[w] = "idle"
  PROVE  Sole(r)
<1>1. \A v \in Worker : pc[v] = "idle"
  BY DEF Sole
<1>2. Leased(r)
  BY <1>1, ActorAssumption DEF Sole, Leased
<1>3. Course(r) /\ Accounted(r)
  BY <1>1 DEF Sole, Course, Accounted
<1>. QED BY <1>1, <1>2, <1>3 DEF Sole

(* The row lock keeps a second worker off the event until the claim is     *)
(* committed, its status after that, and the lock of the event outlasts    *)
(* the cycle: whoever takes a step is the one at work.                     *)
LEMMA SoleAtWork ==
  ASSUME OnlyWorkersSend, IInv, WInv, NEW r \in Worker, Work(r) \/ Crash(r)
  PROVE  Sole(r)
<1>1. PICK w \in Worker : Sole(w)
  BY DEF WInv
<1>2. CASE pc[w] = "idle"
  BY <1>1, <1>2, IdleIsAlike
<1>3. CASE pc[w] # "idle" /\ r # w
  <2>1. pc[r] = "idle"
    BY <1>1, <1>3 DEF Sole
  <2>2. ~Claim(r)
    BY <1>1, <1>3, WorkerHolds, ActorAssumption
    DEF OnlyWorkersSend, Claim, Claimable, Sole, Leased
  <2>3. ~Starting(r) /\ r \notin Direct /\ r \notin Remedy
    BY <2>1, WorkerStarts
  <2>4. ~Work(r)
    BY <2>1, <2>2, <2>3
    DEF Work, LoadForRemedy, SkipFulfilled, Defer, Exhaust, Attempt, LoadForFragment,
        InvoiceRaises, AwaitManualPayment, MarkProcessing, Send, SendRefused, RecordSend,
        CompleteOrder, RecordCompletion, RefuseCompletion, ScheduleRetry, FailOrder,
        FailAgain, FailRefused, LastAttemptFailed, FileJob, MarkProcessed, MarkFailed
  <2>5. ~Crash(r)
    BY <2>1 DEF Crash
  <2>. QED BY <2>4, <2>5
<1>. QED BY <1>1, <1>2, <1>3

(* What the one worker at work does leaves it the only one.                *)
LEMMA SoleStep ==
  ASSUME OnlyWorkersSend, IInv, NEW r \in Worker, Sole(r), Work(r) \/ Crash(r)
  PROVE  Sole(r)'
<1>1. ~LoadForRemedy(r)
  BY WorkerStarts DEF LoadForRemedy
<1>. QED
  BY <1>1, ClaimSole, SkipFulfilledSole, DeferSole, ExhaustSole, AttemptSole,
     LoadForFragmentSole, InvoiceRaisesSole, AwaitManualPaymentSole, MarkProcessingSole,
     SendSole, SendRefusedSole, RecordSendSole, CompleteOrderSole, RecordCompletionSole,
     RefuseCompletionSole, ScheduleRetrySole, FailOrderSole, FailAgainSole,
     FailRefusedSole, FileJobSole, MarkProcessedSole, MarkFailedSole, CrashSole
  DEF Work

(* What the desk does to the order: attempts stay, and an order that is    *)
(* completed or refunded stays one or the other, and fulfilled if it was.  *)
LEMMA DeskWrites ==
  ASSUME Administer
  PROVE  /\ order'.attempts = order.attempts
         /\ Closed => Closed'
         /\ Closed /\ order.delivery = "fulfilled" => order'.delivery = "fulfilled"
         /\ UNCHANGED <<event, pc, object, fragment, claim, delivered, filed, unrecorded>>
<1>1. ASSUME NEW to \in {"processing", "done", "failed", "cancel"}, DeskTransition(to)
      PROVE  /\ order'.attempts = order.attempts /\ ~Closed
             /\ UNCHANGED <<event, pc, object, fragment, claim, delivered, filed, unrecorded>>
  <2>1. ~Closed
    BY <1>1 DEF DeskTransition, CanMove, Normalized, Allowed, Closed
  <2>2. order'.attempts = order.attempts
    BY <1>1 DEF DeskTransition, Moved
  <2>. QED BY <1>1, <2>1, <2>2 DEF DeskTransition
<1>2. CASE Refund
  <2>1. order' = Moved(order, "refunded")
    BY <1>2 DEF Refund
  <2>2. order'.status = "refunded" /\ order'.delivery = order.delivery
        /\ order'.attempts = order.attempts
    BY <2>1 DEF Moved, Normalized
  <2>. QED BY <1>2, <2>2 DEF Refund, Closed
<1>3. CASE MarkFulfilled
  BY <1>3 DEF MarkFulfilled, Closed
<1>. QED BY <1>1, <1>2, <1>3 DEF Administer

(* Whatever administrators do, the worker at work stays on its course.     *)
LEMMA DeskKeepsSole ==
  ASSUME NEW w \in Worker, Sole(w), Administer
  PROVE  Sole(w)'
<1>1. Leased(w)'
  BY DeskWrites DEF Sole, Leased
<1>2. Course(w)'
  BY DeskWrites DEF Sole, Course
<1>3. Accounted(w)'
  BY DeskWrites DEF Sole, Accounted
<1>. QED BY <1>1, <1>2, <1>3, DeskWrites DEF Sole

(* Every step is a worker's or the desk's.                                 *)
LEMMA WorkersStep ==
  ASSUME OnlyWorkersSend, Next
  PROVE  Administer \/ \E r \in Worker : Work(r) \/ Crash(r)
BY WorkerStarts DEF Next, OnlyWorkersSend, Runner

(* At first nobody works, and any worker may be the one.                   *)
LEMMA InitWInv ==
  ASSUME OnlyWorkersSend, Init
  PROVE  WInv
<1>1. PICK w \in Worker : TRUE
  BY DEF OnlyWorkersSend
<1>2. \A v \in Worker : pc[v] = "idle"
  BY DEF Init, Runner
<1>3. Leased(w)
  BY <1>2, ActorAssumption DEF Leased, Init
<1>4. Course(w) /\ Accounted(w)
  BY <1>2 DEF Course, Accounted, Closed, Init, AlreadyFulfilled
<1>. QED BY <1>1, <1>2, <1>3, <1>4 DEF WInv, Sole

(* Whoever starts finds the others idle, or the event locked.              *)
LEMMA NextWInv ==
  ASSUME OnlyWorkersSend
  PROVE  IInv /\ WInv /\ [Next]_vars => WInv'
<1>. SUFFICES ASSUME IInv, WInv, [Next]_vars PROVE WInv'
  OBVIOUS
<1>1. CASE Next
  <2>1. ASSUME NEW r \in Worker, Work(r) \/ Crash(r) PROVE WInv'
    <3>1. Sole(r)'
      BY <2>1, SoleAtWork, SoleStep
    <3>. QED BY <3>1 DEF WInv
  <2>2. CASE Administer
    BY <2>2, DeskKeepsSole DEF WInv
  <2>. QED BY <1>1, <2>1, <2>2, WorkersStep
<1>2. CASE UNCHANGED vars
  BY <1>2 DEF vars, tallies, WInv, Sole, Leased, Course, Accounted, Closed
<1>. QED BY <1>1, <1>2

(* Several workers, retries of the event, crashes and anything that        *)
(* administrators do to the order meanwhile deliver it once, and once more *)
(* only for a crash between a send and its record                          *)
(* (fulfillment/service.py:35-42, outbox/service.py:60-77).                *)
THEOREM OneDelivery ==
  ASSUME OnlyWorkersSend
  PROVE  Spec => []OneDeliveryPerRecord
<1>1. IInv /\ WInv => OneDeliveryPerRecord
  <2>1. ASSUME IInv, NEW w \in Worker, Sole(w) PROVE OneDeliveryPerRecord
    BY <2>1, WorkerHolds DEF Sole, Accounted, Closed, OneDeliveryPerRecord
  <2>. QED BY <2>1 DEF WInv
<1>. QED BY <1>1, FulfillmentInvariant, InitWInv, NextWInv, PTL DEF Spec

(* What fulfillment/service.py:54-66 and :141-169 hand to the dead letter  *)
(* queue, and what the last retry of the event does, no worker delivers    *)
(* afterwards, whatever the desk makes of the order.                       *)
THEOREM NothingSentAfterFiling ==
  ASSUME OnlyWorkersSend
  PROVE  Spec => NoSendAfterFiling
<1>1. ASSUME IInv, WInv, [Next]_vars PROVE [filed # {} => delivered' = delivered]_vars
  <2>1. CASE Next
    <3>1. ASSUME NEW r \in Worker, Send(r) PROVE filed = {}
      <4>1. Sole(r)
        BY <1>1, <3>1, SoleAtWork DEF Work
      <4>. QED BY <3>1, <4>1 DEF Sole, Course, Send
    <3>2. ASSUME NEW r \in Worker, Crash(r) PROVE delivered' = delivered
      BY <3>2 DEF Crash
    <3>3. CASE Administer
      BY <3>3, DeskWrites
    <3>4. ASSUME NEW r \in Worker, Work(r), ~Send(r) PROVE delivered' = delivered
      BY <3>4
      DEF Work, Claim, LoadForRemedy, SkipFulfilled, Defer, Exhaust, Attempt, BeginAttempt,
          LoadForFragment, InvoiceRaises, AwaitManualPayment, MarkProcessing, SendRefused,
          RecordSend, CompleteOrder, RecordCompletion, RefuseCompletion, ScheduleRetry,
          FailOrder, FailAgain, FailRefused, FileJob, MarkProcessed, MarkFailed
    <3>. QED BY <2>1, <3>1, <3>2, <3>3, <3>4, WorkersStep
  <2>2. CASE UNCHANGED vars
    BY <2>2 DEF vars
  <2>. QED BY <1>1, <2>1, <2>2
<1>. QED
  BY <1>1, FulfillmentInvariant, InitWInv, NextWInv, PTL DEF Spec, NoSendAfterFiling
=============================================================================
