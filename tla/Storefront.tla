----------------------------- MODULE Storefront -----------------------------
(***************************************************************************)
(* The bot's shop and wallet as one buyer meets them (app/handlers/users/  *)
(* shop.py, wallet.py, start.py, profile.py), with the administrators who  *)
(* decide the receipts and edit prices and services meanwhile.             *)
(*                                                                         *)
(* The chat keeps a step and a dictionary (aiogram's FSM).  Old messages   *)
(* keep their buttons, so a button once shown can be pressed in any step,  *)
(* and two updates of a chat are handled concurrently.  A handler that     *)
(* writes the chat once is one action; one that writes it after reading it *)
(* or after a commit takes a step for each.  set_state, update_data and    *)
(* clear are atomic.  What the buyer types (recipient, details) is left    *)
(* out.                                                                    *)
(***************************************************************************)
EXTENDS Pricing, Sequences, FiniteSets

CONSTANTS
  Handler,         \* updates of the chat handled at once
  Admin,
  Product,         \* stars, premium and gift products the bot may offer
  Service,         \* ids of custom services, not those of products
  Settings,        \* contents of pricing_settings
  FirstSettings,
  Offers,          \* rows of custom_services
  FirstCatalog,
  Icon,            \* Icon[n]: "{icon} {name}" of a service named n
  Amounts,         \* top-up amounts, on buttons or typed
  MinTopup,        \* 1000
  MaxTopup,        \* 10000000
  MinStars,        \* 50
  MaxStars,        \* 50000
  Packages,        \* packages_stars
  Opening,         \* the buyer's balance
  Shown,           \* buttons of the chat's earlier messages
  MaxBusy,         \* updates and decisions under way at once
  MaxSelections,   \* products put in the chat
  MaxRecords,      \* orders and receipts
  MaxCredits,      \* approvals of one receipt
  MaxRevisions,    \* edits of prices and services
  None

ASSUME ShopAssumption ==
  /\ FirstSettings \in Settings /\ \A p \in Settings : PricingSetting(p)
  /\ MinTopup \in Nat \ {0} /\ MaxTopup \in Nat /\ MinStars \in Nat /\ MaxStars \in Nat
  /\ Opening \in Nat /\ {MaxSelections, MaxRevisions} \subseteq Nat
  /\ \A i \in Product : i.type \in {"stars", "premium", "gift"} /\ i.amount \in Nat \ {0}
  /\ Shown \subseteq {i.id : i \in Product} \cup Service \cup {"confirm"}
  /\ None \notin Nat \cup Product

(* Rows of custom_services; each has an icon.                              *)
Rows == Offers \cup {FirstCatalog[v] : v \in DOMAIN FirstCatalog}

ASSUME ServicesAssumption ==
  /\ DOMAIN FirstCatalog \subseteq Service
  /\ \A row \in Rows : row.name \in DOMAIN Icon /\ row.price \in Int

VARIABLES
  step,      \* the FSM state
  data,      \* the FSM dictionary; None for a missing key
  offered,   \* ids of products and services with a button, and "confirm"
  pricing,   \* pricing_settings
  catalog,   \* custom_services
  revision,  \* edits of the two so far
  balance,
  orders,    \* what was bought, the price told and the price charged
  chosen,    \* selections made so far
  spent,     \* selections whose purchase has ended
  receipts,  \* topup transactions of method card
  hand,      \* what each handler of the chat is doing
  desk       \* what each administrator is doing

vars == <<step, data, offered, pricing, catalog, revision, balance, orders, chosen,
          spent, receipts, hand, desk>>

chat == <<step, data>>
shop == <<pricing, catalog, revision>>
books == <<balance, orders, chosen, spent, receipts>>

Empty == [item |-> None, price |-> None, selection |-> None, seen |-> None,
          service |-> None, topup |-> None]

Idle == [at |-> "idle"]

Init ==
  /\ step = None /\ data = Empty
  /\ offered = Shown
  /\ pricing = FirstSettings /\ catalog = FirstCatalog /\ revision = 0
  /\ balance = Opening /\ orders = <<>> /\ chosen = 0 /\ spent = {}
  /\ receipts = <<>>
  /\ hand = [h \in Handler |-> Idle]
  /\ desk = [a \in Admin |-> Idle]

(* Bound: updates and decisions under way at once.                         *)
Busy == Cardinality({h \in Handler : hand[h] # Idle}) + Cardinality({a \in Admin : desk[a] # Idle})

Records == Len(orders) + Len(receipts)

Ready(h) == hand[h] = Idle /\ Busy < MaxBusy

Clear == step' = None /\ data' = Empty

-----------------------------------------------------------------------------
(* The products a screen offers.                                           *)
StarsKeyboard == {i.id : i \in {j \in Product : j.type = "stars" /\ j.amount \in Packages}}

PremiumKeyboard == {i.id : i \in {j \in Product : j.type = "premium" /\ j.amount \in {3, 6, 12}}}

GiftsKeyboard(p) ==
  LET gifts == IF p.gifts = Broken \/ DOMAIN p.gifts = {} THEN DefaultGifts ELSE p.gifts
  IN  {i.id : i \in {j \in Product : j.type = "gift" /\ j.id \in DOMAIN gifts}}

Show(buttons) ==
  /\ Clear
  /\ offered' = offered \cup buttons
  /\ UNCHANGED <<shop, books, hand, desk>>

(* The main menu and the text shortcuts, the wallet, its amounts and the   *)
(* profile drop the conversation.                                          *)
OpenMenu == Show({})

OpenWallet == Show({})

OpenTopup == Show({})

OpenProfile == Show({})

OpenStars == Show(StarsKeyboard)

OpenPremium == Show(PremiumKeyboard)

OpenGifts == Show(GiftsKeyboard(pricing))

ServicesKeyboard == {v \in DOMAIN catalog : catalog[v].active}

OpenServices == Show(ServicesKeyboard)

(* srv:view clears first and then finds out whether the service is there.  *)
ViewService(v) == v \in offered /\ Show({})

-----------------------------------------------------------------------------
(* The price the bot tells.                                                *)
PremiumTold(months, p) ==
  LET standard == [m \in {3, 6, 12} |->
                     CASE m = 3 -> 142000 [] m = 6 -> 210000 [] m = 12 -> 380000]
      prices == IF p.premium = Broken THEN standard ELSE p.premium
  IN  IF months \in DOMAIN prices THEN prices[months] ELSE 145000

GiftTold(id, p) ==
  IF p.gifts # Broken /\ id \in DOMAIN p.gifts THEN p.gifts[id] ELSE 75000

(* Variant: the bot tells the price without the minimum.                   *)
PriceToldWithoutMinimum(i, p) ==
  CASE i.type = "stars"   -> StarsPrice(i.amount, [p EXCEPT !.minPrice = 0])
    [] i.type = "premium" -> PremiumTold(i.amount, p)
    [] i.type = "gift"    -> GiftTold(i.id, p)

PriceTold(i, p) ==
  CASE i.type = "stars"   -> StarsPrice(i.amount, p)
    [] i.type = "premium" -> PremiumTold(i.amount, p)
    [] i.type = "gift"    -> GiftTold(i.id, p)

(* What is in the price list under the name it is charged by.              *)
Listed(i, p) ==
  CASE i.type = "stars"   -> TRUE
    [] i.type = "premium" -> p.premium # Broken /\ i.amount \in DOMAIN p.premium
    [] i.type = "gift"    -> i.slug = i.id /\ p.gifts # Broken /\ i.id \in DOMAIN p.gifts
    [] i.type = "service" -> FALSE

(* update_data leaves the step and the other keys as they are.             *)
Select(i) ==
  /\ chosen < MaxSelections
  /\ chosen' = chosen + 1
  /\ data' = [data EXCEPT !.item = i, !.price = PriceTold(i, pricing),
                          !.selection = chosen + 1, !.seen = revision]
  /\ UNCHANGED <<step, offered, shop, balance, orders, spent, receipts, hand, desk>>

SelectStars(i) == i.type = "stars" /\ i.id \in offered /\ Select(i)

SelectPremium(i) == i.type = "premium" /\ i.id \in offered /\ Select(i)

SelectGift(i) == i.type = "gift" /\ i.id \in offered /\ Select(i)

Enter(s) == step' = s /\ UNCHANGED <<data, offered, shop, books, hand, desk>>

EnterStarsAmount == StarsKeyboard \cap offered # {} /\ Enter("starsAmount")

(* An amount out of range is refused and asked for again.                  *)
TypeStarsAmount(i) ==
  /\ step = "starsAmount"
  /\ i.type = "stars" /\ i.amount \in MinStars..MaxStars
  /\ Select(i)

-----------------------------------------------------------------------------
(* show_order_confirmation: the confirm button only with enough money.  It *)
(* carries the product, which nobody compares.                             *)
ShowConfirmation ==
  /\ offered' = IF data.price = None \/ balance >= data.price
                THEN offered \cup {"confirm"} ELSE offered
  /\ UNCHANGED <<step, data, shop, books, hand, desk>>

RecipientSelf == data.price # None /\ ShowConfirmation

RecipientOther == offered # {} /\ Enter("recipient")

(* A shared contact or a name of three characters; the step is not left.   *)
RecipientShared == step = "recipient" /\ ShowConfirmation

RecipientText == step = "recipient" /\ ShowConfirmation

CancelRecipient == step = "recipient" /\ Show({})

-----------------------------------------------------------------------------
(* buy:confirm buys whatever the dictionary holds when it is pressed.      *)
PressConfirm(h) ==
  /\ Ready(h)
  /\ "confirm" \in offered
  /\ data.price # None
  /\ hand' = [hand EXCEPT ![h] = [at |-> "buying", item |-> data.item, price |-> data.price,
                                  selection |-> data.selection, seen |-> data.seen]]
  /\ UNCHANGED <<chat, offered, shop, books, desk>>

(* The buyer's row is loaded before the order locks it.                    *)
LoadBuyer(h) ==
  /\ hand[h].at = "buying"
  /\ hand' = [hand EXCEPT ![h] =
       IF balance < hand[h].price THEN Idle
       ELSE [at |-> "loaded", cart |-> hand[h], purse |-> balance]]
  /\ UNCHANGED <<chat, offered, shop, books, desk>>

(* create_order: queries.create_order drops the price the bot told, and    *)
(* debit_balance refuses to take nothing.                                  *)
PlaceOrder(h) ==
  /\ hand[h].at = "loaded"
  /\ Records < MaxRecords
  /\ LET cart == hand[h].cart
         purse == hand[h].purse
     IN  \E price \in AuthoritativePrices(cart.item, pricing, catalog) :
           /\ price > 0 /\ purse >= price
           /\ balance' = purse - price
           /\ orders' = Append(orders, [item |-> cart.item, told |-> cart.price, charged |-> price,
                                        fresh |-> cart.seen = revision,
                                        listed |-> Listed(cart.item, pricing)])
           /\ hand' = [hand EXCEPT ![h] = [at |-> "bought", selection |-> cart.selection]]
  /\ UNCHANGED <<chat, offered, shop, chosen, spent, receipts, desk>>

(* The rollback answers the buyer and leaves the conversation as it is.    *)
OrderRefused(h) ==
  /\ hand[h].at = "loaded"
  /\ LET prices == AuthoritativePrices(hand[h].cart.item, pricing, catalog)
     IN  prices = {} \/ \E price \in prices : price <= 0 \/ hand[h].purse < price
  /\ hand' = [hand EXCEPT ![h] = Idle]
  /\ UNCHANGED <<chat, offered, shop, books, desk>>

(* Variant: the conversation is not cleared after a purchase.              *)
EndPurchaseKeepingData(h) ==
  /\ hand[h].at = "bought"
  /\ UNCHANGED chat
  /\ spent' = spent \cup {hand[h].selection}
  /\ hand' = [hand EXCEPT ![h] = Idle]
  /\ UNCHANGED <<offered, shop, balance, orders, chosen, receipts, desk>>

EndPurchase(h) ==
  /\ hand[h].at = "bought"
  /\ Clear
  /\ spent' = spent \cup {hand[h].selection}
  /\ hand' = [hand EXCEPT ![h] = Idle]
  /\ UNCHANGED <<offered, shop, balance, orders, chosen, receipts, desk>>

-----------------------------------------------------------------------------
(* srv:buy sets the step and then adds the service's keys.                 *)
BuyService(h, v) ==
  /\ Ready(h)
  /\ v \in offered \cap DOMAIN catalog
  /\ catalog[v].active /\ balance >= catalog[v].price
  /\ step' = "srvDetails"
  /\ hand' = [hand EXCEPT ![h] =
       [at |-> "putting", key |-> "service", value |-> catalog[v]]]
  /\ UNCHANGED <<data, offered, shop, books, desk>>

PutKey(h) ==
  /\ hand[h].at = "putting"
  /\ data' = [data EXCEPT ![hand[h].key] = hand[h].value]
  /\ hand' = [hand EXCEPT ![h] = Idle]
  /\ UNCHANGED <<step, offered, shop, books, desk>>

(* Details of two characters; shorter ones are asked for again.            *)
ServiceDetails == step = "srvDetails" /\ Enter("srvConfirming")

CancelService == step = "srvDetails" /\ Show({})

(* The title an order of a service is looked up under carries its icon.    *)
Titled(row) ==
  [type |-> "service", id |-> None, amount |-> 1,
   slug |-> IF row = None THEN None ELSE Icon[row.name]]

ConfirmService(h) ==
  /\ Ready(h)
  /\ step = "srvConfirming"
  /\ hand' = [hand EXCEPT ![h] =
       [at |-> "buying", item |-> Titled(data.service),
        price |-> IF data.service = None THEN 0 ELSE data.service.price,
        selection |-> None, seen |-> revision]]
  /\ UNCHANGED <<chat, offered, shop, books, desk>>

-----------------------------------------------------------------------------
(* promo:enter; the code's handler ends by clearing, and never commits.    *)
EnterPromo == Enter("promo")

TypePromo == step = "promo" /\ Show({})

EnterTopup == Enter("topupAmount")

(* pay:card, reached by an amount button or by typing one: the step first, *)
(* then the amount.                                                        *)
PayByCard(h, n) ==
  /\ Ready(h)
  /\ n \in MinTopup..MaxTopup
  /\ step' = "receipt"
  /\ hand' = [hand EXCEPT ![h] = [at |-> "putting", key |-> "topup", value |-> n]]
  /\ UNCHANGED <<data, offered, shop, books, desk>>

(* Each photo of an album is an update of its own.                         *)
SendPhoto(h) ==
  /\ Ready(h)
  /\ step = "receipt"
  /\ hand' = [hand EXCEPT ![h] = [at |-> "photo"]]
  /\ UNCHANGED <<chat, offered, shop, books, desk>>

(* Variant: a missing amount is stored as it is.                           *)
StoreReceiptWithoutDefault(h) ==
  /\ hand[h].at = "photo"
  /\ Records < MaxRecords
  /\ receipts' = Append(receipts, [amount |-> data.topup, status |-> "pending", credits |-> 0])
  /\ hand' = [hand EXCEPT ![h] = [at |-> "stored"]]
  /\ UNCHANGED <<chat, offered, shop, balance, orders, chosen, spent, desk>>

StoreReceipt(h) ==
  /\ hand[h].at = "photo"
  /\ Records < MaxRecords
  /\ receipts' = Append(receipts, [amount |-> IF data.topup = None THEN 0 ELSE data.topup,
                                   status |-> "pending", credits |-> 0])
  /\ hand' = [hand EXCEPT ![h] = [at |-> "stored"]]
  /\ UNCHANGED <<chat, offered, shop, balance, orders, chosen, spent, desk>>

EndReceipt(h) ==
  /\ hand[h].at = "stored"
  /\ Clear
  /\ hand' = [hand EXCEPT ![h] = Idle]
  /\ UNCHANGED <<offered, shop, books, desk>>

-----------------------------------------------------------------------------
(* adm_chk:approve and adm_chk:reject read the row without a lock.  Each   *)
(* administrator has a message with both buttons, and editing them away    *)
(* may fail.                                                               *)
Open(a, r, does) ==
  /\ desk[a] = Idle /\ Busy < MaxBusy
  /\ r \in DOMAIN receipts
  /\ desk' = [desk EXCEPT ![a] = [at |-> does, receipt |-> r, read |-> receipts[r].status]]
  /\ UNCHANGED <<chat, offered, shop, books, hand>>

OpenApproval(a, r) ==
  /\ r \in DOMAIN receipts /\ receipts[r].status # "success"
  /\ receipts[r].credits < MaxCredits
  /\ Open(a, r, "approving")

OpenRejection(a, r) == Open(a, r, "rejecting")

(* Variant: the status is committed by itself, before the credit.          *)
ApproveStatusFirst(a) ==
  /\ desk[a].at \in {"approving", "crediting"}
  /\ LET r == desk[a].receipt IN
       IF desk[a].at = "approving"
       THEN /\ receipts' = [receipts EXCEPT ![r].status = "success"]
            /\ desk' = [desk EXCEPT ![a].at = "crediting"]
            /\ UNCHANGED balance
       ELSE /\ receipts' = [receipts EXCEPT ![r].credits = @ + 1]
            /\ desk' = [desk EXCEPT ![a] = Idle]
            /\ balance' = balance + receipts[r].amount
  /\ UNCHANGED <<chat, offered, shop, orders, chosen, spent, hand>>

(* Status and credit in one commit; a credit of nothing is none.           *)
Approve(a) ==
  /\ desk[a].at = "approving"
  /\ LET r == desk[a].receipt IN
       /\ receipts' = [receipts EXCEPT ![r].status = "success",
                                       ![r].credits = @ + IF receipts[r].amount > 0 THEN 1 ELSE 0]
       /\ balance' = balance + receipts[r].amount
  /\ desk' = [desk EXCEPT ![a] = Idle]
  /\ UNCHANGED <<chat, offered, shop, orders, chosen, spent, hand>>

(* A row read as failed is not written again.                              *)
Reject(a) ==
  /\ desk[a].at = "rejecting"
  /\ receipts' = IF desk[a].read = "failed" THEN receipts
                 ELSE [receipts EXCEPT ![desk[a].receipt].status = "failed"]
  /\ desk' = [desk EXCEPT ![a] = Idle]
  /\ UNCHANGED <<chat, offered, shop, balance, orders, chosen, spent, hand>>

-----------------------------------------------------------------------------
Edit == revision < MaxRevisions /\ revision' = revision + 1
        /\ UNCHANGED <<chat, offered, books, hand, desk>>

UpdatePricing(p) == Edit /\ p # pricing /\ pricing' = p /\ UNCHANGED catalog

CreateService(v, row) ==
  /\ Edit
  /\ v \notin DOMAIN catalog
  /\ catalog' = [w \in DOMAIN catalog \cup {v} |-> IF w = v THEN row ELSE catalog[w]]
  /\ UNCHANGED pricing

UpdateService(v, row) ==
  Edit /\ v \in DOMAIN catalog /\ catalog' = [catalog EXCEPT ![v] = row] /\ UNCHANGED pricing

DeleteService(v) ==
  /\ Edit
  /\ v \in DOMAIN catalog
  /\ catalog' = [w \in DOMAIN catalog \ {v} |-> catalog[w]]
  /\ UNCHANGED pricing

(* The bot restarts.  Redis keeps the chat (production), MemoryStorage     *)
(* does not.                                                               *)
Restart ==
  /\ hand' = [h \in Handler |-> Idle] /\ desk' = [a \in Admin |-> Idle]
  /\ UNCHANGED chat \/ Clear
  /\ UNCHANGED <<offered, shop, books>>

Next ==
  \/ OpenMenu \/ OpenWallet \/ OpenTopup \/ OpenProfile
  \/ OpenServices \/ OpenStars \/ OpenPremium \/ OpenGifts
  \/ \E v \in Service : ViewService(v) \/ DeleteService(v)
  \/ \E i \in Product :
       SelectStars(i) \/ SelectPremium(i) \/ SelectGift(i) \/ TypeStarsAmount(i)
  \/ EnterStarsAmount \/ RecipientSelf \/ RecipientOther
  \/ RecipientShared \/ RecipientText \/ CancelRecipient
  \/ ServiceDetails \/ CancelService \/ EnterPromo \/ TypePromo \/ EnterTopup
  \/ \E h \in Handler :
       \/ PressConfirm(h) \/ LoadBuyer(h) \/ PlaceOrder(h) \/ OrderRefused(h) \/ EndPurchase(h)
       \/ \E v \in Service : BuyService(h, v)
       \/ PutKey(h) \/ ConfirmService(h)
       \/ \E n \in Amounts : PayByCard(h, n)
       \/ SendPhoto(h) \/ StoreReceipt(h) \/ EndReceipt(h)
  \/ \E a \in Admin :
       \/ \E r \in 1..MaxRecords : OpenApproval(a, r) \/ OpenRejection(a, r)
       \/ Approve(a) \/ Reject(a)
  \/ \E p \in Settings : UpdatePricing(p)
  \/ \E v \in Service, row \in Offers : CreateService(v, row) \/ UpdateService(v, row)
  \/ Restart

Spec == Init /\ [][Next]_vars

-----------------------------------------------------------------------------
Item == Product \cup [type : {"service"}, id : {None}, amount : {1},
                      slug : {Icon[n] : n \in DOMAIN Icon} \cup {None}]

(* The types of the state.                                                 *)
TypeOK ==
  /\ step \in {None, "starsAmount", "recipient", "srvDetails", "srvConfirming",
               "promo", "topupAmount", "receipt"}
  /\ data.item \in Product \cup {None} /\ data.selection \in 1..MaxSelections \cup {None}
  /\ data.service \in Rows \cup {None} /\ data.topup \in Amounts \cup {None}
  /\ offered \subseteq {i.id : i \in Product} \cup Service \cup {"confirm"}
  /\ pricing \in Settings /\ DOMAIN catalog \subseteq Service
  /\ balance \in Nat /\ revision \in 0..MaxRevisions
  /\ \A k \in DOMAIN orders : orders[k].item \in Item /\ orders[k].charged \in Nat
  /\ \A r \in DOMAIN receipts :
       receipts[r].amount \in Nat /\ receipts[r].status \in {"pending", "success", "failed"}
  /\ \A a \in Admin : desk[a].at \in {"idle", "approving", "rejecting"}
  /\ \A h \in Handler : hand[h].at \in
       {"idle", "buying", "loaded", "bought", "putting", "photo", "stored"}

(* What is in the price list costs what the bot told, unless prices or     *)
(* services were edited between the choice and the purchase, although the  *)
(* price told is thrown away and computed again from the title and the     *)
(* amount.                                                                 *)
ChargedAsTold ==
  \A k \in DOMAIN orders :
    orders[k].fresh /\ orders[k].listed => orders[k].charged = orders[k].told

(* A choice whose purchase has ended is never again what the chat would    *)
(* buy, whatever handlers were writing the chat meanwhile.                 *)
SpentOnce == data.price # None => data.selection \notin spent

(* A receipt that says success has been credited, one that is pending has  *)
(* not, however approvals, rejections and restarts interleave; a receipt   *)
(* of nothing is credited nothing.                                         *)
SuccessIsCredited ==
  \A r \in DOMAIN receipts :
    /\ receipts[r].status = "success" => receipts[r].credits > 0 \/ receipts[r].amount = 0
    /\ receipts[r].status = "pending" => receipts[r].credits = 0
=============================================================================
