----------------------------- MODULE AdminDesk -----------------------------
(***************************************************************************)
(* The administrators' side of the bot: the conversations of handlers/     *)
(* users/admin_panel.py in which an administrator types a link for the     *)
(* buyer of a service or a message for everybody, the drafts of            *)
(* admin_forward.py, the site's broadcasts (web/routes/admin/              *)
(* broadcasts.py), and the orders these touch, while the worker delivers   *)
(* the same orders (Fulfillment has its steps; here are their effects).    *)
(*                                                                         *)
(* An administrator types after the last question is on the screen, so     *)
(* asking is one step; different administrators, sends and copies          *)
(* interleave.                                                             *)
(***************************************************************************)
EXTENDS Integers, Sequences, FiniteSets, SequencesExt, OrderLifecycle

CONSTANTS
  Admin,
  Owner,      \* settings.ADMINS
  Order,
  Service,    \* orders of services: their card has the button for a link
  Person,     \* users of the bot
  Members,    \* those registered at the start
  MaxTexts,   \* messages typed
  MaxMoves,   \* steps of the worker and of the site on orders
  Invoice,    \* the payment link of an invoice
  None

ASSUME DeskAssumption ==
  /\ Owner \subseteq Admin /\ Service \subseteq Order /\ Members \subseteq Person
  /\ IsFiniteSet(Person) /\ MaxTexts \in Nat
  /\ None \notin {"link", "broadcast"} \cup OrderStatus

VARIABLES
  order,    \* status and fragment_payload of each order
  loaded,   \* the status the worker's fragment session read, or None
  users,
  fsm,      \* FSM of each administrator: step and data["order"]
  asked,    \* the last question put to each administrator
  typed,    \* the texts in the order they came: question answered, wanted by a button
  pending,  \* links committed and not sent yet
  drafts,   \* broadcast_drafts: text, presses of "send" in flight, recipients announced
  tasks,    \* broadcasts under way: text, who is left
  reached,  \* what got to whom
  delivered, \* orders that became COMPLETED by a legal step or the worker's hand
  moves, restarted

vars == <<order, loaded, users, fsm, asked, typed, pending, drafts, tasks, reached,
          delivered, moves, restarted>>

orders == <<order, loaded, delivered, moves>>
broadcasts == <<drafts, tasks, users>>

Everybody == [to |-> "all", order |-> None]
LinkFor(o) == [to |-> "buyer", order |-> o]

Idle == [step |-> None, order |-> None]

Init ==
  /\ order \in [Order -> [status : {"paid", "failed"}, payload : {None}]]
  /\ loaded = [o \in Order |-> None]
  /\ users = Members
  /\ fsm = [a \in Admin |-> Idle] /\ asked = [a \in Admin |-> None]
  /\ typed = <<>> /\ pending = {} /\ drafts = <<>> /\ tasks = <<>> /\ reached = {}
  /\ delivered = {} /\ moves = 0 /\ restarted = FALSE

-----------------------------------------------------------------------------
(* Variant: the data is left as it was.                                    *)
AskLinkWithoutData(a, o) ==
  /\ o \in Service
  /\ fsm' = [fsm EXCEPT ![a].step = "link"]
  /\ asked' = [asked EXCEPT ![a] = LinkFor(o)]
  /\ UNCHANGED <<orders, typed, pending, broadcasts, reached, restarted>>

(* cb_admin_deliver_service_start refuses the statuses "done" and          *)
(* "cancel", which no row has: every order is asked about.  set_state      *)
(* keeps the data, update_data replaces the order.                         *)
AskLink(a, o) ==
  /\ o \in Service
  /\ fsm' = [fsm EXCEPT ![a] = [step |-> "link", order |-> o]]
  /\ asked' = [asked EXCEPT ![a] = LinkFor(o)]
  /\ UNCHANGED <<orders, typed, pending, broadcasts, reached, restarted>>

AskBroadcast(a) ==
  /\ fsm' = [fsm EXCEPT ![a].step = "broadcast"]
  /\ asked' = [asked EXCEPT ![a] = Everybody]
  /\ UNCHANGED <<orders, typed, pending, broadcasts, reached, restarted>>

(* Variant: the question goes, the state stays.                            *)
BackKeepingState(a, o) ==
  /\ asked[a] = LinkFor(o)
  /\ asked' = [asked EXCEPT ![a] = None]
  /\ UNCHANGED <<fsm, orders, typed, pending, broadcasts, reached, restarted>>

(* The button under a question about o, which need not be the last one.    *)
Back(a, o) ==
  /\ fsm' = [fsm EXCEPT ![a] = Idle]
  /\ asked' = [asked EXCEPT ![a] = IF @ = LinkFor(o) THEN None ELSE @]
  /\ UNCHANGED <<orders, typed, pending, broadcasts, reached, restarted>>

(* admin:menu, under the question of a broadcast or under another message. *)
Menu(a) ==
  /\ fsm' = [fsm EXCEPT ![a] = Idle]
  /\ \E withdrawn \in BOOLEAN :
       asked' = [asked EXCEPT ![a] = IF withdrawn THEN None ELSE @]
  /\ UNCHANGED <<orders, typed, pending, broadcasts, reached, restarted>>

-----------------------------------------------------------------------------
(* The next text, and the question it answers.                             *)
Type(a) ==
  /\ Len(typed) < MaxTexts
  /\ typed' = Append(typed, [asked |-> asked[a], wanted |-> FALSE])

Now == Len(typed) + 1

(* "/cancel" in a conversation.                                            *)
Cancel(a) ==
  /\ fsm[a].step # None
  /\ fsm' = [fsm EXCEPT ![a] = Idle]
  /\ asked' = [asked EXCEPT ![a] = None]
  /\ UNCHANGED <<orders, typed, pending, broadcasts, reached, restarted>>

(* process_admin_broadcast_message: whatever is sent is copied to all.     *)
TypeBroadcast(a) ==
  /\ fsm[a].step = "broadcast" /\ Type(a)
  /\ fsm' = [fsm EXCEPT ![a] = Idle]
  /\ asked' = [asked EXCEPT ![a] = None]
  /\ tasks' = IF users = {} THEN tasks ELSE Append(tasks, [text |-> Now, todo |-> users])
  /\ UNCHANGED <<orders, pending, drafts, users, reached, restarted>>

(* Variant: the transition is not validated.                               *)
AcceptsAnyway(status, to) == TRUE

(* transition_order_status: the same status again is no transition.        *)
Accepts(status, to) == status = Normalized(to) \/ CanMove(status, to)

(* The payload is kept only by a real transition.                          *)
Completed(row, text) ==
  IF row.status = "completed" THEN row ELSE [status |-> "completed", payload |-> text]

(* msg_admin_deliver_service_link.  A refused transition raises: the state *)
(* stays and the text is lost.                                             *)
TypeLink(a) ==
  LET o == fsm[a].order IN
  /\ fsm[a].step = "link" /\ Type(a)
  /\ \/ /\ Accepts(order[o].status, "done")
        /\ order' = [order EXCEPT ![o] = Completed(@, Now)]
        /\ delivered' = IF CanMove(order[o].status, "done") THEN delivered \cup {o} ELSE delivered
        /\ fsm' = [fsm EXCEPT ![a] = Idle]
        /\ asked' = [asked EXCEPT ![a] = None]
        /\ pending' = pending \cup {<<Now, o>>}
     \/ /\ ~Accepts(order[o].status, "done")
        /\ UNCHANGED <<order, delivered, fsm, asked, pending>>
  /\ UNCHANGED <<loaded, moves, broadcasts, reached, restarted>>

(* The link goes to the buyer, or the buyer has blocked the bot.           *)
SendLink(text, o) ==
  /\ <<text, o>> \in pending
  /\ pending' = pending \ {<<text, o>>}
  /\ reached' \in {reached, reached \cup {[text |-> text, to |-> "buyer", who |-> o]}}
  /\ UNCHANGED <<orders, fsm, asked, typed, broadcasts, restarted>>

-----------------------------------------------------------------------------
(* admin_forward.py: out of a conversation, an owner's forwarded post or   *)
(* PostBot code becomes a draft; so does one forwarded without a text,     *)
(* which the question for a link does not take.                            *)
TypeDraft(a) ==
  /\ a \in Owner /\ fsm[a].step # "broadcast" /\ Type(a)
  /\ drafts' = Append(drafts, [text |-> Now, presses |-> 0, announced |-> None])
  /\ UNCHANGED <<orders, fsm, asked, pending, tasks, users, reached, restarted>>

(* Until the card is edited its button can be pressed again.               *)
PressDraft(d) ==
  /\ d \in DOMAIN drafts
  /\ drafts[d].announced = None /\ drafts[d].presses < 2
  /\ drafts' = [drafts EXCEPT ![d].presses = @ + 1]
  /\ typed' = [typed EXCEPT ![drafts[d].text].wanted = TRUE]
  /\ UNCHANGED <<orders, fsm, asked, pending, tasks, users, reached, restarted>>

(* cb_send_broadcast_flow: Telegram refuses an edit that changes nothing,  *)
(* and the second press dies of it unless somebody registered meanwhile.   *)
SendDraft(d) ==
  /\ d \in DOMAIN drafts /\ drafts[d].presses > 0
  /\ LET size == Cardinality(users) IN
       /\ drafts' = [drafts EXCEPT ![d].presses = @ - 1, ![d].announced = size]
       /\ tasks' = IF size \notin {0, drafts[d].announced}
                   THEN Append(tasks, [text |-> drafts[d].text, todo |-> users]) ELSE tasks
  /\ UNCHANGED <<orders, fsm, asked, typed, pending, users, reached, restarted>>

(* The site's form, to everybody or to a segment.                          *)
SiteBroadcast ==
  /\ Len(typed) < MaxTexts
  /\ typed' = Append(typed, [asked |-> Everybody, wanted |-> TRUE])
  /\ \E segment \in SUBSET users \ {{}} : tasks' = Append(tasks, [text |-> Now, todo |-> segment])
  /\ UNCHANGED <<orders, fsm, asked, pending, drafts, users, reached, restarted>>

(* A refused copy is counted and the queue goes on.                        *)
Copy(k, u) ==
  /\ k \in DOMAIN tasks /\ u \in tasks[k].todo
  /\ tasks' = IF tasks[k].todo = {u} THEN RemoveAt(tasks, k)
              ELSE [tasks EXCEPT ![k].todo = @ \ {u}]
  /\ reached' \in {reached, reached \cup {[text |-> tasks[k].text, to |-> "all", who |-> u]}}
  /\ UNCHANGED <<orders, fsm, asked, typed, pending, drafts, users, restarted>>

Register(u) ==
  /\ u \notin users /\ users' = users \cup {u}
  /\ UNCHANGED <<orders, fsm, asked, typed, pending, drafts, tasks, reached, restarted>>

-----------------------------------------------------------------------------
Move(o, row) ==
  /\ moves < MaxMoves /\ moves' = moves + 1
  /\ order' = [order EXCEPT ![o] = row]
  /\ delivered' = IF row.status = "completed" THEN delivered \cup {o} ELSE delivered
  /\ UNCHANGED <<fsm, asked, typed, pending, broadcasts, reached, restarted>>

(* A transition the state machine refuses raises.                          *)
Transition(o, to) ==
  /\ CanMove(order[o].status, to)
  /\ Move(o, [order[o] EXCEPT !.status = Normalized(to)])
  /\ UNCHANGED loaded

(* The buttons of any order's card.                                        *)
PressDone(o) == Transition(o, "done")
PressCancel(o) == Transition(o, "cancel")

(* adm_srv:cancel leaves an open question for a link as it is.             *)
CancelService(o) == o \in Service /\ Transition(o, "cancel")

(* The site's requests.                                                    *)
AtSite(o, to) == Transition(o, to)

(* The worker: the fragment session loads the row and writes an invoice    *)
(* for any product; a delivery is written as COMPLETED unless the row was  *)
(* loaded so.                                                              *)
WorkerLoads(o) ==
  /\ loaded[o] = None /\ order[o].status # "completed"
  /\ loaded' = [loaded EXCEPT ![o] = order[o].status]
  /\ Move(o, [order[o] EXCEPT !.payload = Invoice])

WorkerDelivers(o) ==
  /\ loaded[o] # None
  /\ loaded' = [loaded EXCEPT ![o] = None]
  /\ Move(o, [order[o] EXCEPT !.status = IF loaded[o] = "completed" THEN @ ELSE "completed"])

WorkerGivesUp(o) ==
  /\ loaded[o] # None
  /\ loaded' = [loaded EXCEPT ![o] = None]
  /\ Move(o, [order[o] EXCEPT !.status = IF CanMove(@, "failed") THEN "failed" ELSE @])

(* The bot's process ends: what it was sending is lost, and so is the FSM  *)
(* unless Redis keeps it.                                                  *)
Restart ==
  /\ ~restarted /\ restarted' = TRUE
  /\ fsm' \in {fsm, [a \in Admin |-> Idle]}
  /\ pending' = {} /\ tasks' = <<>>
  /\ drafts' = [d \in DOMAIN drafts |-> [drafts[d] EXCEPT !.presses = 0]]
  /\ UNCHANGED <<orders, asked, typed, users, reached>>

Next ==
  \/ \E a \in Admin :
       \/ \E o \in Order : AskLink(a, o) \/ Back(a, o)
       \/ AskBroadcast(a) \/ Menu(a) \/ Cancel(a)
       \/ TypeBroadcast(a) \/ TypeLink(a) \/ TypeDraft(a)
  \/ \E text \in 1..MaxTexts, o \in Order : SendLink(text, o)
  \/ \E d \in 1..MaxTexts : PressDraft(d) \/ SendDraft(d)
  \/ SiteBroadcast
  \/ \E k \in 1..2 * MaxTexts, u \in Person : Copy(k, u)
  \/ \E u \in Person : Register(u)
  \/ \E o \in Order :
       \/ PressDone(o) \/ PressCancel(o) \/ CancelService(o)
       \/ \E to \in {"refunded", "processing"} : AtSite(o, to)
       \/ WorkerLoads(o) \/ WorkerDelivers(o) \/ WorkerGivesUp(o)
  \/ Restart

Spec == Init /\ [][Next]_vars

-----------------------------------------------------------------------------
(* The types of the state; who is asked for a link has an order to send to. *)
TypeOK ==
  /\ order \in [Order -> [status : OrderStatus, payload : 1..MaxTexts \cup {None, Invoice}]]
  /\ loaded \in [Order -> OrderStatus \cup {None}]
  /\ users \subseteq Person /\ delivered \subseteq Order
  /\ \A a \in Admin : /\ fsm[a].step \in {None, "link", "broadcast"}
                      /\ fsm[a].step = "link" => fsm[a].order \in Service
                      /\ asked[a] \in {None, Everybody} \cup {LinkFor(o) : o \in Service}
  /\ pending \subseteq (1..Len(typed)) \X Service
  /\ \A d \in DOMAIN drafts : drafts[d].presses \in 0..2 /\ drafts[d].text \in DOMAIN typed

(* What an administrator types reaches nobody but those the last question  *)
(* was about: a link the buyer of that very order, a message everybody     *)
(* when that was asked, and a draft those who get it by its button.        *)
TextReachesThoseMeant ==
  \A r \in reached :
    LET t == typed[r.text] IN
      IF r.to = "buyer" THEN t.asked = LinkFor(r.who)
      ELSE t.asked = Everybody \/ t.wanted

(* A buyer gets a link only for an order that was delivered, never for one *)
(* refunded or cancelled before.                                           *)
LinkMeansDelivered == \A r \in reached : r.to = "buyer" => r.who \in delivered
=============================================================================
