--------------------------- MODULE AdminDeskProofs ---------------------------
(***************************************************************************)
(* For every number of administrators, orders, users and messages: what an *)
(* administrator types reaches nobody but those meant, and a link goes     *)
(* only to the buyer of an order that was delivered.                       *)
(*                                                                         *)
(* The inductive invariant ties the step of a conversation to the question *)
(* on the screen, a broadcast under way to a text that was meant for all,  *)
(* a draft's press to a text that was wanted, and a link that waits to be  *)
(* sent to the question it answers and to a delivered order.               *)
(***************************************************************************)
EXTENDS AdminDesk, FiniteSetTheorems, TLAPS

Question == {None, Everybody} \cup {LinkFor(o) : o \in Service}

Text == [asked : Question, wanted : BOOLEAN]

Draft == [text : Nat, presses : 0..2, announced : Nat \cup {None}]

Task == [text : Nat, todo : SUBSET Person]

(* Types of the parts TypeOK leaves open.                                  *)
Typing ==
  /\ fsm \in [Admin -> [step : {None, "link", "broadcast"}, order : Order \cup {None}]]
  /\ asked \in [Admin -> Question]
  /\ typed \in Seq(Text) /\ Len(typed) <= MaxTexts
  /\ drafts \in Seq(Draft)
  /\ tasks \in Seq(Task)

(* A text for everybody.                                                   *)
ForAll(n) ==
  n \in DOMAIN typed /\ (typed[n].asked = Everybody \/ typed[n].wanted)

(* The conversation an administrator is in is the one last asked about.    *)
Conversing ==
  \A a \in Admin :
    /\ fsm[a].step = "broadcast" => asked[a] = Everybody
    /\ fsm[a].step = "link" => asked[a] = LinkFor(fsm[a].order)

(* A press of a draft's button wants its text sent.                        *)
Pressed == \A d \in DOMAIN drafts : drafts[d].presses > 0 => typed[drafts[d].text].wanted

(* What is being copied is for everybody.                                  *)
Broadcast == \A k \in DOMAIN tasks : ForAll(tasks[k].text)

(* A link that waits answers a question about an order, now delivered.     *)
Waiting == \A l \in pending : typed[l[1]].asked = LinkFor(l[2]) /\ l[2] \in delivered

(* COMPLETED is only ever said of a delivered order.                       *)
Honest == \A o \in Order : order[o].status = "completed" => o \in delivered

(* What got through went to those meant.                                   *)
Arrived ==
  \A r \in reached :
    IF r.to = "buyer"
    THEN r.text \in DOMAIN typed /\ typed[r.text].asked = LinkFor(r.who) /\ r.who \in delivered
    ELSE ForAll(r.text)

IInv ==
  /\ TypeOK /\ Typing
  /\ Conversing /\ Pressed /\ Broadcast /\ Waiting /\ Honest /\ Arrived

-----------------------------------------------------------------------------
(* Which steps write what.                                                 *)
Desk(a) ==
  \/ \E o \in Order : AskLink(a, o) \/ Back(a, o)
  \/ AskBroadcast(a) \/ Menu(a) \/ Cancel(a)
  \/ TypeBroadcast(a) \/ TypeLink(a) \/ TypeDraft(a)

Site(o) ==
  \/ PressDone(o) \/ PressCancel(o) \/ CancelService(o)
  \/ \E to \in {"refunded", "processing"} : AtSite(o, to)
  \/ WorkerLoads(o) \/ WorkerDelivers(o) \/ WorkerGivesUp(o)

(* The steps, by who takes them.                                           *)
LEMMA NextIs ==
  Next <=> \/ \E a \in Admin : Desk(a)
           \/ \E text \in 1..MaxTexts, o \in Order : SendLink(text, o)
           \/ \E d \in 1..MaxTexts : PressDraft(d) \/ SendDraft(d)
           \/ SiteBroadcast
           \/ \E k \in 1..2 * MaxTexts, u \in Person : Copy(k, u)
           \/ \E u \in Person : Register(u)
           \/ \E o \in Order : Site(o)
           \/ Restart
BY DEF Next, Desk, Site

(* An order's row moves to another, and a completed one is a delivery.     *)
LEMMA SiteMoves ==
  ASSUME NEW o \in Order, Site(o)
  PROVE  /\ UNCHANGED <<fsm, asked, typed, pending, broadcasts, reached, restarted>>
         /\ \E row : /\ order' = [order EXCEPT ![o] = row]
                     /\ delivered' = IF row.status = "completed"
                                     THEN delivered \cup {o} ELSE delivered
BY DEF Site, PressDone, PressCancel, CancelService, AtSite, Transition, WorkerLoads,
       WorkerDelivers, WorkerGivesUp, Move

(* A text comes after those typed before.                                  *)
LEMMA TextTyped ==
  ASSUME Typing, NEW text \in Text, Len(typed) < MaxTexts, typed' = Append(typed, text)
  PROVE  /\ Now \in 1..MaxTexts
         /\ typed' \in Seq(Text) /\ Len(typed') = Now
         /\ DOMAIN typed = 1..Len(typed) /\ DOMAIN typed' = 1..Now
         /\ Now \notin DOMAIN typed
         /\ \A n \in DOMAIN typed : n \in DOMAIN typed' /\ typed'[n] = typed[n]
         /\ typed'[Now] = text
BY DeskAssumption DEF Typing, Now

(* An answer to a question is one more text, with room for it.             *)
LEMMA TypeIsTyping ==
  ASSUME Typing, NEW a \in Admin, Type(a)
  PROVE  /\ [asked |-> asked[a], wanted |-> FALSE] \in Text
         /\ Len(typed) < MaxTexts
         /\ typed' = Append(typed, [asked |-> asked[a], wanted |-> FALSE])
BY DEF Type, Typing, Text

(* The text just typed is the last, and asked for what its question was    *)
(* about.                                                                  *)
LEMMA TypeAdds ==
  ASSUME Typing, NEW a \in Admin, Type(a)
  PROVE  /\ Now \in 1..MaxTexts /\ Now \in DOMAIN typed'
         /\ typed'[Now] = [asked |-> asked[a], wanted |-> FALSE]
<1>. DEFINE text == [asked |-> asked[a], wanted |-> FALSE]
<1>1. text \in Text /\ Len(typed) < MaxTexts /\ typed' = Append(typed, text)
  BY TypeIsTyping
<1>. HIDE DEF text
<1>2. Now \in 1..MaxTexts /\ DOMAIN typed' = 1..Now /\ typed'[Now] = text
  BY <1>1, TextTyped
<1>. QED BY <1>2 DEF text

(* So is a broadcast from the site, meant for everybody.                   *)
LEMMA SiteIsTyping ==
  ASSUME Typing, SiteBroadcast
  PROVE  /\ [asked |-> Everybody, wanted |-> TRUE] \in Text
         /\ Len(typed) < MaxTexts
         /\ typed' = Append(typed, [asked |-> Everybody, wanted |-> TRUE])
BY DEF SiteBroadcast, Typing, Text, Question

(* What was typed stays typed, as the answer to the same question.         *)
Stays ==
  \A n \in DOMAIN typed :
    /\ n \in DOMAIN typed' /\ typed'[n].asked = typed[n].asked
    /\ typed[n].wanted => typed'[n].wanted

(* No step changes or takes back a text that was typed.                    *)
LEMMA TextsStay ==
  ASSUME TypeOK, Typing, [Next]_vars
  PROVE  Stays
<1>1. CASE \E a \in Admin : Type(a)
  <2>. PICK a \in Admin : Type(a)
    BY <1>1
  <2>. QED BY TypeIsTyping, TextTyped DEF Stays
<1>2. CASE SiteBroadcast
  BY <1>2, SiteIsTyping, TextTyped DEF Stays
<1>3. CASE \E d \in 1..MaxTexts : PressDraft(d)
  <2>. PICK d \in 1..MaxTexts : PressDraft(d)
    BY <1>3
  <2>1. drafts[d].text \in DOMAIN typed
    BY DEF TypeOK, PressDraft
  <2>2. \A n \in DOMAIN typed : typed[n] \in Text
    BY DEF Typing
  <2>. QED BY <2>1, <2>2 DEF Stays, PressDraft, Text, Typing
<1>4. CASE typed' = typed
  BY <1>4 DEF Stays
<1>5. CASE UNCHANGED vars
  BY <1>5, <1>4 DEF vars
<1>6. CASE Next
  <2>1. CASE \E a \in Admin : Desk(a)
    BY <2>1, <1>1, <1>4
    DEF Desk, AskLink, Back, AskBroadcast, Menu, Cancel, TypeBroadcast, TypeLink, TypeDraft
  <2>2. CASE \E o \in Order : Site(o)
    BY <2>2, SiteMoves, <1>4
  <2>. QED
    BY <1>2, <1>3, <1>4, <1>6, <2>1, <2>2, NextIs
    DEF SendLink, SendDraft, Copy, Register, Restart
<1>. QED BY <1>5, <1>6

(* A delivery is not forgotten.                                            *)
LEMMA DeliveriesStay ==
  ASSUME [Next]_vars
  PROVE  delivered \subseteq delivered'
<1>1. CASE Next
  <2>1. CASE \E a \in Admin : Desk(a)
    BY <2>1
    DEF Desk, AskLink, Back, AskBroadcast, Menu, Cancel, TypeBroadcast, TypeLink, TypeDraft,
        orders
  <2>2. CASE \E o \in Order : Site(o)
    BY <2>2, SiteMoves
  <2>. QED
    BY <1>1, <2>1, <2>2, NextIs
    DEF SendLink, SiteBroadcast, PressDraft, SendDraft, Copy, Register, Restart, orders
<1>2. CASE UNCHANGED vars
  BY <1>2 DEF vars
<1>. QED BY <1>1, <1>2

-----------------------------------------------------------------------------
(* The conversations: what the administrators' own steps do to them.       *)
LEMMA DeskTypes ==
  ASSUME TypeOK, Typing, NEW a \in Admin, Desk(a)
  PROVE  /\ fsm' \in [Admin -> [step : {None, "link", "broadcast"}, order : Order \cup {None}]]
         /\ asked' \in [Admin -> Question]
         /\ \A b \in Admin : fsm'[b].step = "link" => fsm'[b].order \in Service
<1>1. /\ fsm \in [Admin -> [step : {None, "link", "broadcast"}, order : Order \cup {None}]]
      /\ asked \in [Admin -> Question]
      /\ \A b \in Admin : fsm[b].step = "link" => fsm[b].order \in Service
  BY DEF TypeOK, Typing
<1>2. /\ Idle \in [step : {None, "link", "broadcast"}, order : Order \cup {None}]
      /\ Idle.step # "link" /\ None \in Question /\ Everybody \in Question
  BY DeskAssumption DEF Idle, Question
<1>3. CASE \E o \in Order : AskLink(a, o)
  BY <1>1, <1>3, DeskAssumption DEF AskLink, Question
<1>4. CASE AskBroadcast(a)
  BY <1>1, <1>2, <1>4, DeskAssumption DEF AskBroadcast
<1>5. CASE Menu(a) \/ (\E o \in Order : Back(a, o)) \/ Cancel(a)
  BY <1>1, <1>2, <1>5 DEF Menu, Back, Cancel
<1>6. CASE TypeBroadcast(a) \/ TypeLink(a) \/ TypeDraft(a)
  BY <1>1, <1>2, <1>6 DEF TypeBroadcast, TypeLink, TypeDraft
<1>. QED BY <1>3, <1>4, <1>5, <1>6 DEF Desk

(* A step of one administrator leaves every conversation coherent.         *)
LEMMA DeskConverses ==
  ASSUME Typing, Conversing, NEW a \in Admin, Desk(a)
  PROVE  Conversing'
<1>1. /\ fsm \in [Admin -> [step : {None, "link", "broadcast"}, order : Order \cup {None}]]
      /\ asked \in [Admin -> Question]
  BY DEF Typing
<1>2. Idle.step \notin {"link", "broadcast"}
  BY DeskAssumption DEF Idle
<1>3. CASE \E o \in Order : AskLink(a, o)
  BY <1>1, <1>3 DEF AskLink, Conversing
<1>4. CASE AskBroadcast(a)
  BY <1>1, <1>4 DEF AskBroadcast, Conversing
<1>5. CASE Menu(a) \/ (\E o \in Order : Back(a, o)) \/ Cancel(a)
  BY <1>1, <1>2, <1>5 DEF Menu, Back, Cancel, Conversing
<1>6. CASE TypeBroadcast(a) \/ TypeLink(a) \/ TypeDraft(a)
  BY <1>1, <1>2, <1>6 DEF TypeBroadcast, TypeLink, TypeDraft, Conversing
<1>. QED BY <1>3, <1>4, <1>5, <1>6 DEF Desk

(* Only administrators and a restart write the conversations.              *)
LEMMA ConversingStep ==
  ASSUME TypeOK, Typing, Conversing, [Next]_vars
  PROVE  /\ Conversing'
         /\ fsm' \in [Admin -> [step : {None, "link", "broadcast"}, order : Order \cup {None}]]
         /\ asked' \in [Admin -> Question]
         /\ \A a \in Admin : fsm'[a].step = "link" => fsm'[a].order \in Service
<1>1. CASE \E a \in Admin : Desk(a)
  BY <1>1, DeskTypes, DeskConverses
<1>2. CASE Restart
  <2>1. Idle \in [step : {None, "link", "broadcast"}, order : Order \cup {None}]
        /\ Idle.step \notin {"link", "broadcast"}
    BY DeskAssumption DEF Idle
  <2>. QED BY <1>2, <2>1 DEF Restart, Conversing, Typing, TypeOK
<1>3. CASE UNCHANGED <<fsm, asked>>
  BY <1>3 DEF Conversing, Typing, TypeOK
<1>4. CASE \E o \in Order : Site(o)
  BY <1>3, <1>4, SiteMoves
<1>. QED
  BY <1>1, <1>2, <1>3, <1>4, NextIs
  DEF vars, SendLink, PressDraft, SendDraft, SiteBroadcast, Copy, Register

-----------------------------------------------------------------------------
(* A link's text is one typed, for the order of the conversation, and the  *)
(* order is then completed.                                                *)
LEMMA LinkAccepted ==
  ASSUME TypeOK, Typing, Conversing, Honest, NEW a \in Admin, TypeLink(a)
  PROVE  LET o == fsm[a].order IN
         /\ o \in Service /\ asked[a] = LinkFor(o)
         /\ pending' \in {pending, pending \cup {<<Now, o>>}}
         /\ pending' # pending => o \in delivered'
         /\ \/ UNCHANGED <<order, delivered>>
            \/ order' = [order EXCEPT ![o] = Completed(@, Now)] /\ o \in delivered'
         /\ delivered' \in {delivered, delivered \cup {o}}
<1>. DEFINE o == fsm[a].order
<1>1. o \in Service /\ o \in Order /\ asked[a] = LinkFor(o)
  BY DeskAssumption DEF TypeLink, TypeOK, Conversing
<1>2. Accepts(order[o].status, "done") => CanMove(order[o].status, "done") \/ o \in delivered
  BY <1>1 DEF Accepts, Normalized, Honest
<1>. QED BY <1>1, <1>2 DEF TypeLink

(* What transition_order_status accepts is a status.                       *)
LEMMA MovesToStatus ==
  ASSUME NEW from, NEW to, CanMove(from, to)
  PROVE  Normalized(to) \in OrderStatus
BY DEF CanMove, Allowed, OrderStatus

(* Orders keep their types, whatever happens to them at the site.          *)
LEMMA SiteTypes ==
  ASSUME TypeOK, NEW o \in Order, Site(o)
  PROVE  /\ order' \in [Order -> [status : OrderStatus,
                                  payload : 1..MaxTexts \cup {None, Invoice}]]
         /\ loaded' \in [Order -> OrderStatus \cup {None}]
         /\ delivered' \subseteq Order
<1>. DEFINE Row == [status : OrderStatus, payload : 1..MaxTexts \cup {None, Invoice}]
<1>1. order \in [Order -> Row] /\ loaded \in [Order -> OrderStatus \cup {None}]
  BY DEF TypeOK
<1>2. {"completed", "failed"} \subseteq OrderStatus
  BY DEF OrderStatus
<1>3. /\ order[o] \in Row
      /\ \A s \in OrderStatus : [order[o] EXCEPT !.status = s] \in Row
      /\ [order[o] EXCEPT !.payload = Invoice] \in Row
  BY <1>1
<1>4. \A row \in Row : [order EXCEPT ![o] = row] \in [Order -> Row]
  BY <1>1
<1>5. delivered' \subseteq Order
  BY SiteMoves DEF TypeOK
<1>6. CASE \E to : Transition(o, to)
  BY <1>1, <1>3, <1>4, <1>5, <1>6, MovesToStatus DEF Transition, Move
<1>7. CASE WorkerLoads(o) \/ WorkerDelivers(o) \/ WorkerGivesUp(o)
  <2>1. order' \in [Order -> Row]
    BY <1>2, <1>3, <1>4, <1>7 DEF WorkerLoads, WorkerDelivers, WorkerGivesUp, Move
  <2>2. loaded' \in [Order -> OrderStatus \cup {None}]
    BY <1>1, <1>3, <1>7 DEF WorkerLoads, WorkerDelivers, WorkerGivesUp
  <2>. QED BY <1>5, <2>1, <2>2
<1>. QED
  BY <1>6, <1>7 DEF Site, PressDone, PressCancel, CancelService, AtSite

(* An order is completed by a legal transition, by the worker, or was.     *)
LEMMA HonestStep ==
  ASSUME TypeOK, Typing, Conversing, Honest, [Next]_vars
  PROVE  /\ Honest'
         /\ order' \in [Order -> [status : OrderStatus,
                                  payload : 1..MaxTexts \cup {None, Invoice}]]
         /\ loaded' \in [Order -> OrderStatus \cup {None}]
         /\ delivered' \subseteq Order
<1>. DEFINE Row == [status : OrderStatus, payload : 1..MaxTexts \cup {None, Invoice}]
<1>1. order \in [Order -> Row] /\ loaded \in [Order -> OrderStatus \cup {None}]
      /\ delivered \subseteq Order
  BY DEF TypeOK
<1>2. CASE \E a \in Admin : TypeLink(a)
  <2>. PICK a \in Admin : TypeLink(a)
    BY <1>2
  <2>1. Now \in 1..MaxTexts
    BY TypeAdds DEF TypeLink
  <2>2. \A row \in Row : Completed(row, Now) \in Row
    BY <2>1 DEF Completed, OrderStatus
  <2>3. UNCHANGED loaded
    BY DEF TypeLink
  <2>. QED BY <1>1, <2>2, <2>3, LinkAccepted, DeskAssumption DEF Honest
<1>3. CASE \E o \in Order : Site(o)
  <2>. PICK o \in Order : Site(o)
    BY <1>3
  <2>. QED BY <1>1, SiteMoves, SiteTypes DEF Honest
<1>4. CASE UNCHANGED <<order, loaded, delivered>>
  BY <1>1, <1>4 DEF Honest
<1>5. CASE \E a \in Admin : Desk(a) /\ ~TypeLink(a)
  BY <1>4, <1>5
  DEF Desk, AskLink, Back, AskBroadcast, Menu, Cancel, TypeBroadcast, TypeDraft, orders
<1>. QED
  BY <1>2, <1>3, <1>4, <1>5, NextIs
  DEF vars, orders, SendLink, PressDraft, SendDraft, SiteBroadcast, Copy, Register, Restart

-----------------------------------------------------------------------------
(* A link that waits was typed for its order.                              *)
LEMMA WaitingStep ==
  ASSUME TypeOK, Typing, Conversing, Honest, Waiting, [Next]_vars
  PROVE  Waiting' /\ pending' \subseteq (1..Len(typed')) \X Service
<1>1. /\ Stays /\ delivered \subseteq delivered'
      /\ \A n \in DOMAIN typed : n \in 1..Len(typed) /\ n \in DOMAIN typed'
  BY TextsStay, DeliveriesStay DEF Stays, Typing
<1>2. /\ pending \subseteq (1..Len(typed)) \X Service
      /\ DOMAIN typed = 1..Len(typed)
  BY DEF TypeOK, Typing
<1>3. DOMAIN typed' = 1..Len(typed')
  <2>1. CASE \E text \in Text : Len(typed) < MaxTexts /\ typed' = Append(typed, text)
    BY <2>1, TextTyped
  <2>2. CASE \E d : PressDraft(d)
    BY <2>2 DEF PressDraft, Typing
  <2>3. CASE typed' = typed
    BY <1>2, <2>3
  <2>4. CASE \E a \in Admin : Desk(a)
    BY <2>1, <2>3, <2>4, TypeIsTyping
    DEF Desk, AskLink, Back, AskBroadcast, Menu, Cancel, TypeBroadcast, TypeLink, TypeDraft
  <2>. QED
    BY <2>1, <2>2, <2>3, <2>4, SiteIsTyping, SiteMoves, NextIs
    DEF vars, SendLink, SendDraft, Copy, Register, Restart
<1>4. ASSUME NEW l \in pending
      PROVE  /\ l \in (1..Len(typed')) \X Service
             /\ typed'[l[1]].asked = LinkFor(l[2]) /\ l[2] \in delivered'
  BY <1>1, <1>2, <1>3, <1>4 DEF Waiting, Stays
<1>5. CASE \E a \in Admin : TypeLink(a)
  <2>. PICK a \in Admin : TypeLink(a)
    BY <1>5
  <2>1. Now \in DOMAIN typed' /\ typed'[Now].asked = asked[a]
    <3>1. Type(a)
      BY DEF TypeLink
    <3>2. Now \in DOMAIN typed' /\ typed'[Now] = [asked |-> asked[a], wanted |-> FALSE]
      BY <3>1, TypeAdds
    <3>. QED BY <3>2
  <2>. QED BY <1>3, <1>4, <2>1, LinkAccepted DEF Waiting
<1>6. CASE pending' \subseteq pending
  BY <1>4, <1>6 DEF Waiting
<1>7. CASE \E a \in Admin : Desk(a) /\ ~TypeLink(a)
  BY <1>6, <1>7
  DEF Desk, AskLink, Back, AskBroadcast, Menu, Cancel, TypeBroadcast, TypeDraft
<1>. QED
  BY <1>5, <1>6, <1>7, SiteMoves, NextIs
  DEF vars, SendLink, PressDraft, SendDraft, SiteBroadcast, Copy, Register, Restart

(* A draft keeps its text, and a press in flight wants it sent.            *)
LEMMA PressedStep ==
  ASSUME TypeOK, Typing, Pressed, [Next]_vars
  PROVE  /\ Pressed' /\ drafts' \in Seq(Draft)
         /\ \A d \in DOMAIN drafts' : drafts'[d].text \in DOMAIN typed'
<1>1. /\ drafts \in Seq(Draft) /\ Stays
      /\ \A d \in DOMAIN drafts : drafts[d] \in Draft /\ drafts[d].text \in DOMAIN typed
  BY TextsStay DEF TypeOK, Typing
<1>2. CASE \E a \in Admin : TypeDraft(a)
  <2>. PICK a \in Admin : TypeDraft(a)
    BY <1>2
  <2>. DEFINE new == [text |-> Now, presses |-> 0, announced |-> None]
  <2>1. Now \in DOMAIN typed' /\ Now \in Nat
    <3>1. Type(a)
      BY DEF TypeDraft
    <3>2. Now \in 1..MaxTexts /\ Now \in DOMAIN typed'
      BY <3>1, TypeAdds
    <3>. QED BY <3>2, DeskAssumption
  <2>2. new \in Draft /\ drafts' = Append(drafts, new)
    BY <2>1 DEF TypeDraft, Draft
  <2>3. /\ drafts' \in Seq(Draft)
        /\ \A d \in DOMAIN drafts' : (d \in DOMAIN drafts /\ drafts'[d] = drafts[d])
                                     \/ drafts'[d] = new
    BY <1>1, <2>2
  <2>. QED BY <1>1, <2>1, <2>3 DEF Stays, Pressed
<1>3. CASE \E d \in 1..MaxTexts : PressDraft(d)
  <2>. PICK d \in 1..MaxTexts : PressDraft(d)
    BY <1>3
  <2>1. d \in DOMAIN drafts /\ drafts[d] \in Draft /\ drafts[d].presses < 2
    BY <1>1 DEF PressDraft
  <2>2. drafts' = [drafts EXCEPT ![d].presses = @ + 1]
    BY DEF PressDraft
  <2>3. [drafts[d] EXCEPT !.presses = @ + 1] \in Draft
    BY <2>1 DEF Draft
  <2>4. /\ drafts' \in Seq(Draft) /\ DOMAIN drafts' = DOMAIN drafts
        /\ \A e \in DOMAIN drafts : drafts'[e].text = drafts[e].text
        /\ \A e \in DOMAIN drafts \ {d} : drafts'[e] = drafts[e]
    BY <1>1, <2>1, <2>2, <2>3 DEF Draft
  <2>5. typed[drafts[d].text] \in Text
    BY <1>1, <2>1 DEF Typing
  <2>6. typed'[drafts[d].text].wanted
    BY <1>1, <2>1, <2>5 DEF PressDraft, Text
  <2>. QED BY <1>1, <2>4, <2>6 DEF Stays, Pressed
<1>4. CASE \E d \in 1..MaxTexts : SendDraft(d)
  <2>. PICK d \in 1..MaxTexts : SendDraft(d)
    BY <1>4
  <2>. DEFINE size == Cardinality(users)
              row  == [drafts[d] EXCEPT !.presses = @ - 1, !.announced = size]
  <2>1. size \in Nat
    BY FS_Subset, FS_CardinalityType, DeskAssumption DEF TypeOK
  <2>2. d \in DOMAIN drafts /\ drafts[d] \in Draft /\ drafts[d].presses > 0
    BY <1>1 DEF SendDraft
  <2>3. row \in Draft /\ row.text = drafts[d].text /\ row.presses = drafts[d].presses - 1
    <3>. HIDE DEF size
    <3>1. PICK m \in 0..2 : m = drafts[d].presses - 1
      BY <2>2 DEF Draft
    <3>2. row = [drafts[d] EXCEPT !.presses = m, !.announced = size]
      BY <3>1
    <3>3. PICK e \in Draft : e = drafts[d]
      BY <2>2
    <3>4. row = [e EXCEPT !.presses = m, !.announced = size]
      BY <3>2, <3>3
    <3>. HIDE DEF row
    <3>5. row \in Draft /\ row.text = e.text /\ row.presses = m
      BY <2>1, <3>4 DEF Draft
    <3>. QED BY <3>1, <3>3, <3>5
  <2>4. drafts' = [drafts EXCEPT ![d] = row]
    BY <1>1, <2>2 DEF SendDraft
  <2>5. /\ drafts' \in Seq(Draft) /\ DOMAIN drafts' = DOMAIN drafts
        /\ drafts'[d] = row
        /\ \A e \in DOMAIN drafts \ {d} : drafts'[e] = drafts[e]
    BY <1>1, <2>2, <2>3, <2>4
  <2>6. UNCHANGED typed
    BY DEF SendDraft
  <2>. QED BY <1>1, <2>2, <2>3, <2>5, <2>6 DEF Pressed
<1>5. CASE Restart
  <2>1. \A e \in Draft : [e EXCEPT !.presses = 0] \in Draft
    BY DEF Draft
  <2>2. /\ drafts' \in Seq(Draft) /\ DOMAIN drafts' = DOMAIN drafts
        /\ \A d \in DOMAIN drafts : /\ drafts'[d].presses = 0
                                    /\ drafts'[d].text = drafts[d].text
    BY <1>1, <1>5, <2>1 DEF Restart, Draft
  <2>. QED BY <1>1, <2>2 DEF Stays, Pressed
<1>6. CASE UNCHANGED drafts
  BY <1>1, <1>6 DEF Stays, Pressed
<1>7. CASE \E a \in Admin : Desk(a) /\ ~TypeDraft(a)
  BY <1>6, <1>7
  DEF Desk, AskLink, Back, AskBroadcast, Menu, Cancel, TypeBroadcast, TypeLink, broadcasts
<1>. QED
  BY <1>2, <1>3, <1>4, <1>5, <1>6, <1>7, SiteMoves, NextIs
  DEF vars, broadcasts, SendLink, SiteBroadcast, Copy, Register

-----------------------------------------------------------------------------
(* A task put at the end leaves the others as they are.                    *)
LEMMA TaskAdded ==
  ASSUME Typing, NEW task \in Task, tasks' = Append(tasks, task)
  PROVE  /\ tasks' \in Seq(Task)
         /\ \A k \in DOMAIN tasks' : tasks'[k] = task \/ \E j \in DOMAIN tasks : tasks'[k] = tasks[j]
BY DEF Typing

(* An element of a concatenation comes from one of its parts.              *)
LEMMA ConcatElements ==
  ASSUME NEW S, NEW s \in Seq(S), NEW t \in Seq(S)
  PROVE  \A i \in DOMAIN (s \o t) : \/ \E j \in DOMAIN s : (s \o t)[i] = s[j]
                                  \/ \E j \in DOMAIN t : (s \o t)[i] = t[j]
OBVIOUS

(* What remains of a sequence was in it.                                   *)
LEMMA RemovedAt ==
  ASSUME NEW S, NEW s \in Seq(S), NEW k \in 1..Len(s)
  PROVE  /\ RemoveAt(s, k) \in Seq(S)
         /\ \A i \in DOMAIN RemoveAt(s, k) : \E j \in DOMAIN s : RemoveAt(s, k)[i] = s[j]
<1>. DEFINE front == SubSeq(s, 1, k - 1)
            back  == SubSeq(s, k + 1, Len(s))
<1>1. front \in Seq(S) /\ back \in Seq(S)
  OBVIOUS
<1>2. \A i \in DOMAIN front : \E j \in DOMAIN s : front[i] = s[j]
  OBVIOUS
<1>3. \A i \in DOMAIN back : \E j \in DOMAIN s : back[i] = s[j]
  OBVIOUS
<1>4. RemoveAt(s, k) = front \o back
  BY DEF RemoveAt
<1>. HIDE DEF front, back
<1>5. front \o back \in Seq(S)
  BY <1>1
<1>6. ASSUME NEW i \in DOMAIN (front \o back)
      PROVE  \E j \in DOMAIN s : (front \o back)[i] = s[j]
  <2>1. \/ \E j \in DOMAIN front : (front \o back)[i] = front[j]
        \/ \E j \in DOMAIN back : (front \o back)[i] = back[j]
    BY <1>1, ConcatElements
  <2>. QED BY <1>2, <1>3, <2>1
<1>. QED BY <1>4, <1>5, <1>6

(* Only what is for everybody is copied to everybody.                      *)
LEMMA BroadcastStep ==
  ASSUME TypeOK, Typing, Conversing, Pressed, Broadcast, [Next]_vars
  PROVE  Broadcast' /\ tasks' \in Seq(Task)
<1>1. \A n : ForAll(n) => ForAll(n)'
  BY TextsStay DEF Stays, ForAll
<1>2. tasks \in Seq(Task) /\ \A k \in DOMAIN tasks : tasks[k] \in Task
  BY DEF Typing
<1>3. ASSUME NEW task \in Task, tasks' = Append(tasks, task), ForAll(task.text)'
      PROVE  Broadcast' /\ tasks' \in Seq(Task)
  BY <1>1, <1>3, TaskAdded DEF Broadcast
<1>4. CASE UNCHANGED tasks
  BY <1>1, <1>2, <1>4 DEF Broadcast
<1>5. CASE \E a \in Admin : TypeBroadcast(a)
  <2>. PICK a \in Admin : TypeBroadcast(a)
    BY <1>5
  <2>1. Now \in DOMAIN typed' /\ typed'[Now].asked = Everybody /\ Now \in Nat
    <3>1. Type(a) /\ asked[a] = Everybody
      BY DEF TypeBroadcast, Conversing
    <3>2. /\ Now \in 1..MaxTexts /\ Now \in DOMAIN typed'
          /\ typed'[Now] = [asked |-> asked[a], wanted |-> FALSE]
      BY <3>1, TypeAdds
    <3>. QED BY <3>1, <3>2, DeskAssumption
  <2>2. [text |-> Now, todo |-> users] \in Task
    BY <2>1 DEF Task, TypeOK
  <2>3. tasks' = tasks \/ tasks' = Append(tasks, [text |-> Now, todo |-> users])
    BY DEF TypeBroadcast
  <2>. QED BY <1>3, <1>4, <2>1, <2>2, <2>3 DEF ForAll
<1>6. CASE \E d \in 1..MaxTexts : SendDraft(d)
  <2>. PICK d \in 1..MaxTexts : SendDraft(d)
    BY <1>6
  <2>1. /\ d \in DOMAIN drafts /\ drafts[d].presses > 0
        /\ tasks' = tasks \/ tasks' = Append(tasks, [text |-> drafts[d].text, todo |-> users])
    BY DEF SendDraft
  <2>2. drafts[d].text \in Nat /\ ForAll(drafts[d].text)
    BY <2>1 DEF Typing, Draft, TypeOK, Pressed, ForAll
  <2>3. [text |-> drafts[d].text, todo |-> users] \in Task
    BY <2>2 DEF Task, TypeOK
  <2>. QED BY <1>1, <1>3, <1>4, <2>1, <2>2, <2>3
<1>7. CASE SiteBroadcast
  <2>1. PICK segment \in SUBSET users : tasks' = Append(tasks, [text |-> Now, todo |-> segment])
    BY <1>7 DEF SiteBroadcast
  <2>2. Now \in 1..MaxTexts /\ Now \in DOMAIN typed' /\ typed'[Now].wanted
    BY <1>7, SiteIsTyping, TextTyped
  <2>3. [text |-> Now, todo |-> segment] \in Task
    BY <2>2, DeskAssumption DEF Task, TypeOK
  <2>. QED BY <1>3, <2>1, <2>2, <2>3 DEF ForAll
<1>8. CASE \E k, u : Copy(k, u)
  <2>. PICK k, u : Copy(k, u)
    BY <1>8
  <2>1. k \in DOMAIN tasks
    BY DEF Copy
  <2>2. CASE tasks' = RemoveAt(tasks, k)
    BY <1>1, <1>2, <2>1, <2>2, RemovedAt DEF Broadcast
  <2>3. CASE tasks' = [tasks EXCEPT ![k].todo = @ \ {u}]
    <3>1. [tasks[k] EXCEPT !.todo = @ \ {u}] \in Task
      BY <1>2, <2>1 DEF Task
    <3>2. /\ tasks' \in Seq(Task) /\ DOMAIN tasks' = DOMAIN tasks
          /\ \A j \in DOMAIN tasks : tasks'[j].text = tasks[j].text
      BY <1>2, <2>1, <2>3, <3>1 DEF Task
    <3>. QED BY <1>1, <3>2 DEF Broadcast
  <2>. QED BY <2>2, <2>3 DEF Copy
<1>9. CASE Restart
  BY <1>9 DEF Restart, Broadcast
<1>10. CASE \E a \in Admin : Desk(a) /\ ~TypeBroadcast(a)
  BY <1>4, <1>10
  DEF Desk, AskLink, Back, AskBroadcast, Menu, Cancel, TypeLink, TypeDraft, broadcasts
<1>. QED
  BY <1>4, <1>5, <1>6, <1>7, <1>8, <1>9, <1>10, SiteMoves, NextIs
  DEF vars, broadcasts, SendLink, PressDraft, Register

(* What gets through is a link that waited or a copy of a broadcast.       *)
LEMMA ArrivedStep ==
  ASSUME TypeOK, Typing, Waiting, Broadcast, Arrived, [Next]_vars
  PROVE  Arrived'
<1>1. Stays /\ delivered \subseteq delivered' /\ \A n : ForAll(n) => ForAll(n)'
  BY TextsStay, DeliveriesStay DEF Stays, ForAll
<1>2. CASE reached' = reached
  BY <1>1, <1>2 DEF Arrived, Stays
<1>3. CASE \E text, o : SendLink(text, o)
  <2>. PICK text, o : SendLink(text, o)
    BY <1>3
  <2>1. <<text, o>> \in pending /\ UNCHANGED <<typed, delivered>>
    BY DEF SendLink, orders
  <2>2. text \in DOMAIN typed /\ typed[text].asked = LinkFor(o) /\ o \in delivered
    BY <2>1 DEF Waiting, TypeOK, Typing
  <2>. QED BY <1>1, <1>2, <2>1, <2>2 DEF SendLink, Arrived, Stays
<1>4. CASE \E k, u : Copy(k, u)
  <2>. PICK k, u : Copy(k, u)
    BY <1>4
  <2>1. ForAll(tasks[k].text)
    BY DEF Copy, Broadcast
  <2>. QED BY <1>1, <1>2, <2>1 DEF Copy, Arrived, Stays
<1>5. CASE \E a \in Admin : Desk(a)
  BY <1>2, <1>5
  DEF Desk, AskLink, Back, AskBroadcast, Menu, Cancel, TypeBroadcast, TypeLink, TypeDraft
<1>. QED
  BY <1>2, <1>3, <1>4, <1>5, SiteMoves, NextIs
  DEF vars, PressDraft, SendDraft, SiteBroadcast, Register, Restart

(* Every step keeps the types.                                             *)
LEMMA TypesStep ==
  ASSUME IInv, [Next]_vars
  PROVE  TypeOK' /\ Typing'
<1>1. TypeOK /\ Typing /\ Conversing /\ Pressed /\ Broadcast /\ Waiting /\ Honest
  BY DEF IInv
<1>2. typed' \in Seq(Text) /\ Len(typed') <= MaxTexts
  <2>1. CASE \E text \in Text : Len(typed) < MaxTexts /\ typed' = Append(typed, text)
    BY <1>1, <2>1, TextTyped, DeskAssumption
  <2>2. CASE \E d \in 1..MaxTexts : PressDraft(d)
    <3>. PICK d \in 1..MaxTexts : PressDraft(d)
      BY <2>2
    <3>1. drafts[d].text \in DOMAIN typed /\ typed[drafts[d].text] \in Text
      BY <1>1 DEF PressDraft, TypeOK, Typing
    <3>2. [typed[drafts[d].text] EXCEPT !.wanted = TRUE] \in Text
      BY <3>1 DEF Text
    <3>. QED BY <1>1, <3>1, <3>2 DEF PressDraft, Typing
  <2>3. CASE typed' = typed
    BY <1>1, <2>3 DEF Typing
  <2>4. CASE \E a \in Admin : Desk(a)
    BY <1>1, <2>1, <2>3, <2>4, TypeIsTyping
    DEF Desk, AskLink, Back, AskBroadcast, Menu, Cancel, TypeBroadcast, TypeLink, TypeDraft
  <2>. QED
    BY <1>1, <2>1, <2>2, <2>3, <2>4, SiteIsTyping, SiteMoves, NextIs
    DEF vars, SendLink, SendDraft, Copy, Register, Restart
<1>3. users' \subseteq Person
  <2>1. CASE \E u \in Person : Register(u)
    BY <1>1, <2>1 DEF Register, TypeOK
  <2>2. CASE \E a \in Admin : Desk(a)
    BY <1>1, <2>2
    DEF Desk, AskLink, Back, AskBroadcast, Menu, Cancel, TypeBroadcast, TypeLink, TypeDraft,
        broadcasts, TypeOK
  <2>. QED
    BY <1>1, <2>1, <2>2, SiteMoves, NextIs
    DEF vars, broadcasts, SendLink, PressDraft, SendDraft, SiteBroadcast, Copy, Restart, TypeOK
<1>4. \A d \in DOMAIN drafts' : drafts'[d].presses \in 0..2
  <2>1. \A d \in DOMAIN drafts' : drafts'[d] \in Draft
    BY <1>1, PressedStep
  <2>. QED BY <2>1 DEF Draft
<1>5. \A a \in Admin : /\ fsm'[a].step \in {None, "link", "broadcast"}
                       /\ asked'[a] \in Question
  BY <1>1, ConversingStep
<1>. QED
  BY <1>1, <1>2, <1>3, <1>4, <1>5, ConversingStep, HonestStep, WaitingStep, PressedStep,
     BroadcastStep
  DEF TypeOK, Typing, Question

(* The invariant holds of the first state.                                 *)
LEMMA InitIInv == Init => IInv
<1>. SUFFICES ASSUME Init PROVE IInv
  OBVIOUS
<1>1. Idle \in [step : {None, "link", "broadcast"}, order : Order \cup {None}]
      /\ Idle.step \notin {"link", "broadcast"} /\ None \in Question
  BY DeskAssumption DEF Idle, Question
<1>2. {"paid", "failed"} \subseteq OrderStatus
  BY DEF OrderStatus
<1>3. TypeOK
  BY <1>1, <1>2, DeskAssumption DEF Init, TypeOK, Question
<1>4. Typing
  BY <1>1, DeskAssumption DEF Init, Typing
<1>5. Conversing /\ Pressed /\ Broadcast /\ Waiting /\ Arrived
  BY <1>1 DEF Init, Conversing, Pressed, Broadcast, Waiting, Arrived
<1>6. Honest
  BY DEF Init, Honest
<1>. QED BY <1>3, <1>4, <1>5, <1>6 DEF IInv

(* The inductive invariant holds in every state of the desk.               *)
THEOREM DeskInvariant == Spec => []IInv
<1>1. IInv /\ [Next]_vars => IInv'
  BY TypesStep, ConversingStep, PressedStep, BroadcastStep, WaitingStep, HonestStep,
     ArrivedStep
  DEF IInv
<1>. QED BY <1>1, InitIInv, PTL DEF Spec

(* The types of the desk: a conversation about a link always has an order  *)
(* of a service to send it for (admin_panel.py), a draft a text.           *)
THEOREM DeskTypesHold == Spec => []TypeOK
<1>1. IInv => TypeOK
  BY DEF IInv
<1>. QED BY <1>1, DeskInvariant, PTL

(* However many administrators, conversations, drafts, double presses and  *)
(* restarts interleave, a text reaches only those meant (admin_panel.py    *)
(* process_admin_broadcast_message, msg_admin_deliver_service_link;        *)
(* admin_forward.py cb_send_broadcast_flow).                               *)
THEOREM TextsReachThoseMeant == Spec => []TextReachesThoseMeant
<1>1. IInv => TextReachesThoseMeant
  BY DEF IInv, Arrived, ForAll, TextReachesThoseMeant
<1>. QED BY <1>1, DeskInvariant, PTL

(* A link is only sent for an order that the state machine or the worker   *)
(* took to COMPLETED, whatever the buttons, the site and the worker do to  *)
(* the order meanwhile (admin_panel.py msg_admin_deliver_service_link).    *)
THEOREM LinksAreOfDeliveredOrders == Spec => []LinkMeansDelivered
<1>1. IInv => LinkMeansDelivered
  BY DEF IInv, Arrived, LinkMeansDelivered
<1>. QED BY <1>1, DeskInvariant, PTL
=============================================================================
