------------------------------ MODULE Dispatch ------------------------------
(***************************************************************************)
(* The worker's batch of outbox events (services/worker.py,                *)
(* services/outbox/service.py) and the circuit breaker it shares with the  *)
(* deliveries an administrator starts, when API, bot and worker run in one *)
(* process (main.py, mode combined).                                       *)
(*                                                                         *)
(* A cycle claims events, handles one after the other in ONE session, and  *)
(* commits at the end.  But fulfill_order_automated commits inside that    *)
(* session, and with it the claims and the marks made so far; and after a  *)
(* database error every later statement of the session fails, mark_failed  *)
(* included, so that the cycle ends with a rollback.  What an order goes   *)
(* through in one call is the module Fulfillment; here a call takes an     *)
(* attempt, asks Fragment, and records the answer.                         *)
(***************************************************************************)
EXTENDS CircuitBreaker, FiniteSets, Sequences, SequencesExt

CONSTANTS
  Queue,        \* events in the order of created_at
  Kind,         \* of each: "request", "topup" or "created"
  Call,         \* deliveries started by administrators in this process
  BatchLimit,   \* events per cycle
  MaxAttempts,  \* MAX_FULFILLMENT_RETRIES
  MaxRetries,   \* outbox max_retries
  MaxErrors,    \* bound on database errors
  MaxCrashes,   \* bound on crashes
  None

Event == ToSet(Queue)

(* A row of outbox_events: its status and its retry_count.                 *)
Row == [status : {"absent", "pending", "processing", "retry", "processed", "failed"},
        retries : Nat]

ASSUME DispatchAssumption ==
  /\ Queue \in Seq(Event) /\ None \notin Row
  /\ Kind \in [Event -> {"request", "topup", "created"}]
  /\ BatchLimit \in Nat \ {0} /\ MaxAttempts \in Nat /\ MaxRetries \in Nat \ {0}
  /\ MaxErrors \in Nat /\ MaxCrashes \in Nat

VARIABLES
  row,       \* committed rows of outbox_events: status, retry_count
  written,   \* the session's uncommitted rows; None where it wrote nothing
  attempts,  \* fulfillment_attempts of the order of each request
  fulfilled, \* requests whose order is committed as fulfilled
  batch,     \* claimed events still to handle
  worker,    \* "idle", "handling", or "waiting" for Fragment
  breaker,   \* the process' breaker for fragment
  calling,   \* administrators' deliveries waiting for Fragment
  sent,      \* messages sent for each event
  undone,    \* of these, sent in a session that was rolled back
  quiet,     \* ticks since a call was admitted in a tripped state
  errors, crashes

vars == <<row, written, attempts, fulfilled, batch, worker, breaker, calling,
          sent, undone, quiet, errors, crashes>>

orders == <<attempts, fulfilled>>
circuit == <<breaker, calling, quiet>>
faults == <<errors, crashes>>

Nothing == [e \in Event |-> None]

Init ==
  /\ row = [e \in Event |-> [status |-> "absent", retries |-> 0]]
  /\ written = Nothing
  /\ attempts = [e \in Event |-> 0] /\ fulfilled = {}
  /\ batch = {} /\ worker = "idle"
  /\ breaker = Closed /\ calling = {} /\ quiet = Cooldown
  /\ sent = [e \in Event |-> 0] /\ undone = [e \in Event |-> 0]
  /\ errors = 0 /\ crashes = 0

-----------------------------------------------------------------------------
(* The row as the session sees it, and the rows once it commits.           *)
Seen(e) == IF written[e] = None THEN row[e] ELSE written[e]

Merged(w) == [e \in Event |-> IF w[e] = None THEN row[e] ELSE w[e]]

(* mark_processed, mark_failed: what they write in the session.            *)
Processed(e) == [written EXCEPT ![e] = [Seen(e) EXCEPT !.status = "processed"]]

Refused(e) ==
  LET n == Seen(e).retries + 1 IN
  [written EXCEPT ![e] = [status |-> IF n >= MaxRetries THEN "failed" ELSE "retry",
                          retries |-> n]]

(* can_execute said yes.                                                   *)
Admit ==
  /\ Admits(breaker)
  /\ breaker' = Admitted(breaker)
  /\ quiet' = IF breaker.state = "CLOSED" THEN quiet ELSE 0

(* The process' session is gone, and what it had not committed with it.    *)
Forget ==
  /\ written' = Nothing
  /\ batch' = {}
  /\ worker' = "idle"
  /\ undone' = [e \in Event |->
       IF Kind[e] = "topup" /\ written[e] # None /\ written[e].status = "processed"
       THEN undone[e] + 1 ELSE undone[e]]

-----------------------------------------------------------------------------
(* One event was created before the other.                                 *)
Place == [e \in Event |-> CHOOSE i \in DOMAIN Queue : Queue[i] = e]

Before(d, e) == Place[d] < Place[e]

(* create_event, committed with the payment or the order.                  *)
Publish(e) ==
  /\ row[e].status = "absent"
  /\ \A d \in Event : Before(d, e) => row[d].status # "absent"
  /\ row' = [row EXCEPT ![e].status = "pending"]
  /\ UNCHANGED <<written, orders, batch, worker, circuit, sent, undone, faults>>

(* Variant: events left in PROCESSING are not taken back.                  *)
ClaimableFresh(e) == row[e].status \in {"pending", "retry"} /\ row[e].retries < MaxRetries

(* Ready events, and those in PROCESSING whose lock is 300 s old: with one *)
(* worker at rest any such lock may have grown so old.                     *)
Claimable(e) ==
  row[e].status \in {"pending", "retry", "processing"} /\ row[e].retries < MaxRetries

Claim ==
  LET ready == {e \in Event : Claimable(e)}
      taken == {e \in ready : Cardinality({d \in ready : Before(d, e)}) < BatchLimit}
  IN
  /\ worker = "idle"
  /\ ready # {}
  /\ batch' = taken
  /\ written' = [e \in Event |-> IF e \in taken
                                 THEN [row[e] EXCEPT !.status = "processing"] ELSE None]
  /\ worker' = "handling"
  /\ UNCHANGED <<row, orders, circuit, sent, undone, faults>>

(* The event whose turn it is.                                             *)
Current == CHOOSE e \in batch : \A d \in batch : ~Before(d, e)

Turn(kind) == worker = "handling" /\ batch # {} /\ Kind[Current] = kind

Done(w) == written' = w /\ batch' = batch \ {Current} /\ worker' = "handling"

(* Variant: the event of a message that went out is left as it is.         *)
TellTopupUnmarked ==
  /\ Turn("topup")
  /\ sent' = [sent EXCEPT ![Current] = @ + 1]
  /\ Done(written)
  /\ UNCHANGED <<row, orders, circuit, undone, faults>>

(* send_topup_notification, which keeps its errors to itself, and          *)
(* mark_processed.                                                         *)
TellTopup ==
  /\ Turn("topup")
  /\ sent' = [sent EXCEPT ![Current] = @ + 1]
  /\ Done(Processed(Current))
  /\ UNCHANGED <<row, orders, circuit, undone, faults>>

(* send_order_created_notification is called with arguments it does not    *)
(* have: TypeError, and mark_failed, every time.                           *)
TellCreated ==
  /\ Turn("created")
  /\ Done(Refused(Current))
  /\ UNCHANGED <<row, orders, circuit, sent, undone, faults>>

(* fulfill_order_automated: nothing to deliver, no call allowed, or no     *)
(* attempt left (the order fails and its job is filed: two commits).       *)
SkipFulfilled ==
  /\ Turn("request")
  /\ Current \in fulfilled
  /\ Done(Processed(Current))
  /\ UNCHANGED <<row, orders, circuit, sent, undone, faults>>

Defer ==
  /\ Turn("request")
  /\ Current \notin fulfilled
  /\ ~Admits(breaker)
  /\ Done(Refused(Current))
  /\ UNCHANGED <<row, orders, circuit, sent, undone, faults>>

GiveUp ==
  /\ Turn("request")
  /\ Current \notin fulfilled
  /\ Admit
  /\ attempts[Current] >= MaxAttempts
  /\ row' = Merged(written)
  /\ Done([Nothing EXCEPT ![Current] = Refused(Current)[Current]])
  /\ UNCHANGED <<orders, calling, sent, undone, faults>>

(* The attempt is counted and committed before Fragment is called.         *)
Attempt ==
  /\ Turn("request")
  /\ Current \notin fulfilled
  /\ Admit
  /\ attempts[Current] < MaxAttempts
  /\ attempts' = [attempts EXCEPT ![Current] = @ + 1]
  /\ row' = Merged(written)
  /\ written' = Nothing
  /\ worker' = "waiting"
  /\ UNCHANGED <<fulfilled, batch, calling, sent, undone, faults>>

(* Fragment has delivered, and COMPLETED is committed; or it has not, and  *)
(* the error is.                                                           *)
Deliver ==
  /\ worker = "waiting"
  /\ breaker' = Succeeded(breaker)
  /\ fulfilled' = fulfilled \cup {Current}
  /\ Done(Processed(Current))
  /\ UNCHANGED <<row, attempts, calling, quiet, sent, undone, faults>>

FailDelivery ==
  /\ worker = "waiting"
  /\ breaker' = Failed(breaker)
  /\ Done(Refused(Current))
  /\ UNCHANGED <<row, orders, calling, quiet, sent, undone, faults>>

EndCycle ==
  /\ worker = "handling" /\ batch = {}
  /\ row' = Merged(written)
  /\ written' = Nothing
  /\ worker' = "idle"
  /\ UNCHANGED <<orders, batch, circuit, sent, undone, faults>>

(* A statement fails: the session is in a failed transaction, mark_failed  *)
(* raises in the except branch, and async_session_scope rolls back.  In a  *)
(* delivery the breaker counts it as a failure of the provider, also after *)
(* a success; a message whose mark is lost was sent all the same.          *)
DatabaseError ==
  /\ errors < MaxErrors
  /\ worker # "idle"
  /\ errors' = errors + 1
  /\ IF worker = "waiting"
     THEN breaker' \in {Failed(breaker), Failed(Succeeded(breaker))}
     ELSE UNCHANGED breaker
  /\ Forget
  /\ UNCHANGED <<row, orders, calling, quiet, sent, crashes>>

-----------------------------------------------------------------------------
(* fulfill_order_automated for an administrator, with a session of its own. *)
BeginCall(c) ==
  /\ c \notin calling
  /\ Admit
  /\ calling' = calling \cup {c}
  /\ UNCHANGED <<row, written, orders, batch, worker, sent, undone, faults>>

EndCall(c) ==
  /\ c \in calling
  /\ calling' = calling \ {c}
  /\ breaker' \in {Succeeded(breaker), Failed(breaker)}
  /\ UNCHANGED <<row, written, orders, batch, worker, sent, undone, quiet, faults>>

Tick ==
  /\ breaker' = Ticked(breaker)
  /\ quiet' = Sooner(quiet + 1, Cooldown)
  /\ UNCHANGED <<row, written, orders, batch, worker, calling, sent, undone, faults>>

(* The process dies and is started again, with a new breaker.              *)
Crash ==
  /\ crashes < MaxCrashes
  /\ crashes' = crashes + 1
  /\ breaker' = Closed
  /\ calling' = {}
  /\ quiet' = Cooldown
  /\ Forget
  /\ UNCHANGED <<row, orders, sent, errors>>

Work ==
  \/ Claim \/ TellTopup \/ TellCreated
  \/ SkipFulfilled \/ Defer \/ GiveUp \/ Attempt \/ Deliver \/ FailDelivery
  \/ EndCycle

Next ==
  \/ \E e \in Event : Publish(e)
  \/ Work \/ DatabaseError \/ Crash \/ Tick
  \/ \E c \in Call : BeginCall(c) \/ EndCall(c)

(* run_worker_loop polls for ever, and what it awaits returns.             *)
Spec == Init /\ [][Next]_vars /\ WF_vars(Work)

-----------------------------------------------------------------------------
(* Who is waiting for Fragment.                                            *)
OnCall == calling \cup IF worker = "waiting" THEN {"worker"} ELSE {}

(* A buyer is told of one top-up once, but for the rollbacks and crashes   *)
(* that came between the message and the commit of its mark: commits of a  *)
(* delivery in the middle of a batch lose or repeat none                   *)
(* (worker.py:92-103, 117-119).                                            *)
ToldPerRecord == \A e \in Event : sent[e] <= 1 + undone[e]

(* Every event that was committed is settled, although one failed          *)
(* statement takes down the whole batch, part of which a delivery may      *)
(* already have committed as PROCESSING (worker.py:119, outbox:62-77).     *)
EveryEventSettles ==
  \A e \in Event :
    row[e].status = "pending" ~> row[e].status \in {"processed", "failed"}

(* A tripped breaker sees at most one probe per gap, whatever late answers *)
(* of calls admitted before come in (circuit_breaker.py:59-75).            *)
ProbesSpaced ==
  [][breaker.state # "CLOSED" /\ ~(OnCall' \subseteq OnCall) => quiet > ProbeGap]_vars
=============================================================================
