-------------------------- MODULE StorefrontProofs --------------------------
(***************************************************************************)
(* For every catalog, price list and number of updates, administrators and *)
(* receipts: the shop and the wallet of one chat keep their types, charge  *)
(* what they told, never offer a finished purchase again, and credit the   *)
(* receipts they call successful.                                          *)
(*                                                                         *)
(* The inductive invariant follows a choice from the chat through the      *)
(* handlers that took it out of the chat: whatever they hold was told      *)
(* under a revision of the prices not after the present one, and belongs   *)
(* to a selection already made.                                            *)
(***************************************************************************)
EXTENDS Storefront, WellFoundedInduction, TLAPS

Selection == Nat \cup {None}

Data == [item : Product \cup {None}, price : Int \cup {None}, selection : Selection,
         seen : Nat \cup {None}, service : Rows \cup {None}, topup : Amounts \cup {None}]

Cart == [at : {"buying"}, item : Item, price : Int, selection : Selection, seen : Nat]

Buttons == {i.id : i \in Product} \cup Service \cup {"confirm"}

Topup == Amounts \cap (MinTopup..MaxTopup)

(* What a handler can be doing.                                            *)
Hand ==
  {Idle} \cup Cart
    \cup [at : {"loaded"}, cart : Cart, purse : Nat]
    \cup [at : {"bought"}, selection : Selection]
    \cup [at : {"putting"}, key : {"topup"}, value : Topup]
    \cup [at : {"putting"}, key : {"service"}, value : Rows]
    \cup [at : {"photo", "stored"}]

ReceiptStatus == {"pending", "success", "failed"}

Desk == {Idle} \cup [at : {"approving", "rejecting"}, receipt : Nat, read : ReceiptStatus]

Purchase == [item : Item, told : Int, charged : Nat, fresh : BOOLEAN, listed : BOOLEAN]

Receipt == [amount : Nat, status : ReceiptStatus, credits : Nat]

(* The types of the chat, of the shop, of the books and of what handlers   *)
(* and administrators are doing.                                           *)
ChatTyped ==
  /\ step \in {None, "starsAmount", "recipient", "srvDetails", "srvConfirming",
               "promo", "topupAmount", "receipt"}
  /\ data \in Data /\ data.selection \in 1..MaxSelections \cup {None}
  /\ data.topup # None => data.topup \in Topup
  /\ offered \subseteq Buttons

ShopTyped ==
  /\ pricing \in Settings /\ revision \in 0..MaxRevisions
  /\ DOMAIN catalog \subseteq Service /\ \A v \in DOMAIN catalog : catalog[v] \in Rows

BooksTyped ==
  /\ balance \in Nat /\ chosen \in 0..MaxSelections
  /\ orders \in Seq(Purchase) /\ receipts \in Seq(Receipt)

HandsTyped == hand \in [Handler -> Hand]

DesksTyped == desk \in [Admin -> Desk]

(* The price told is the one of the price list, if that is still the one   *)
(* the choice was made under.                                              *)
Told(item, price, seen) ==
  /\ seen \in 0..revision
  /\ item \in Product /\ seen = revision => price = PriceTold(item, pricing)

(* A selection made, or none.                                              *)
Made(selection) == selection \in 1..chosen \cup {None}

Carried(cart) == Told(cart.item, cart.price, cart.seen) /\ Made(cart.selection)

Carries(e) ==
  /\ e.at = "buying" => Carried(e)
  /\ e.at = "loaded" => Carried(e.cart)
  /\ e.at = "bought" => Made(e.selection)

(* What the chat would buy, and what the handlers took out of it.          *)
Chosen ==
  data.price # None => /\ data.item # None /\ data.selection \in 1..chosen
                       /\ data.selection \notin spent
                       /\ Told(data.item, data.price, data.seen)

Held == \A h \in Handler : Carries(hand[h])

Ended == \A selection \in spent : Made(selection)

Examined == \A a \in Admin : desk[a] # Idle => desk[a].receipt \in DOMAIN receipts

IInv ==
  /\ ChatTyped /\ ShopTyped /\ BooksTyped /\ HandsTyped /\ DesksTyped
  /\ Chosen /\ Held /\ Ended /\ Examined
  /\ ChargedAsTold /\ SuccessIsCredited
-----------------------------------------------------------------------------
(* A non-empty set of natural numbers has a least element.                 *)
LEMMA LeastNat ==
  ASSUME NEW S \in SUBSET Nat, S # {}
  PROVE  \E n \in S : \A m \in S : n <= m
<1>1. IsWellFoundedOn({p \in Nat \X Nat : p[1] < p[2]}, Nat)
  BY NatLessThanWellFounded DEF OpToRel
<1>2. PICK n \in S : \A m \in S : <<m, n>> \notin {p \in Nat \X Nat : p[1] < p[2]}
  BY <1>1, WFMin
<1>3. ASSUME NEW m \in S PROVE n <= m
  <2>1. m \in Nat /\ n \in Nat
    OBVIOUS
  <2>2. ~(m < n)
    BY <1>2, <2>1
  <2>3. QED
    BY <2>1, <2>2
<1>4. QED
  BY <1>3

(* The discount is a whole number: of the tiers an amount reaches, one has *)
(* the largest minimum.                                                    *)
LEMMA DiscountType ==
  ASSUME NEW p, PricingSetting(p), NEW amount \in Nat
  PROVE  Discount(amount, p) \in Int
<1> DEFINE reached == IF p.tiers = Broken THEN {} ELSE {t \in p.tiers : amount >= t.min}
           first(t) == \A u \in reached : t.min >= u.min
           short == {amount - t.min : t \in reached}
<1>1. \A t \in reached : t.min \in Int /\ t.pct \in Int /\ amount >= t.min
  BY DEF PricingSetting
<1>2. p.maxDiscount \in Int
  BY DEF PricingSetting
<1>3. CASE reached = {}
  BY <1>3 DEF Discount
<1>4. CASE reached # {}
  <2>1. short \in SUBSET Nat
    <3>1. ASSUME NEW t \in reached PROVE amount - t.min \in Nat
      BY <1>1
    <3>2. QED
      BY <3>1
  <2>2. short # {}
    BY <1>4
  <2> HIDE DEF reached
  <2>3. PICK least \in short : \A m \in short : least <= m
    <3> HIDE DEF short
    <3>1. QED
      BY <2>1, <2>2, LeastNat
  <2>4. PICK tier \in reached : least = amount - tier.min
    BY <2>3
  <2>5. ASSUME NEW u \in reached PROVE tier.min >= u.min
    <3>1. amount - tier.min <= amount - u.min
      BY <2>3, <2>4
    <3>2. tier.min \in Int /\ u.min \in Int
      BY <1>1
    <3>3. QED
      BY <3>1, <3>2
  <2>6. (CHOOSE t \in reached : first(t)) \in reached
    BY <2>5
  <2> DEFINE chosenTier == CHOOSE t \in reached : first(t)
  <2>7. Discount(amount, p) = Smaller(chosenTier.pct, p.maxDiscount)
    BY <1>4 DEF Discount, reached
  <2> HIDE DEF chosenTier
  <2>8. chosenTier.pct \in Int
    BY <1>1, <2>6 DEF chosenTier
  <2>9. QED
    BY <1>2, <2>7, <2>8 DEF Smaller
<1>5. QED
  BY <1>3, <1>4

(* The price of stars is a whole number.                                   *)
LEMMA StarsPriceType ==
  ASSUME NEW p, PricingSetting(p), NEW amount \in Nat
  PROVE  StarsPrice(amount, p) \in Int
<1>1. PICK discount \in Int : discount = Discount(amount, p)
  BY DiscountType
<1>2. p.unit \in Int /\ p.margin \in Int /\ p.minMargin \in Int /\ p.minPrice \in Int
  BY DEF PricingSetting
<1>3. PICK cost \in Int : cost = UnitCost(p)
  BY <1>2, CatalogAssumption DEF UnitCost
<1>4. PICK margin \in Int : margin = Larger(p.margin, p.minMargin)
  BY <1>2 DEF Larger
<1>5. PICK first \in Int : first = cost * (100 + margin)
  OBVIOUS
<1>6. PICK second \in Int : second = first * amount
  OBVIOUS
<1>7. PICK whole \in Int : whole = second * (100 - discount)
  OBVIOUS
<1>8. PICK total \in Int : total = RoundMoney(whole, 10000)
  BY DEF RoundMoney
<1>9. StarsPrice(amount, p) = IF total < p.minPrice /\ amount >= 10 THEN p.minPrice ELSE total
  BY <1>1, <1>3, <1>4, <1>5, <1>6, <1>7, <1>8 DEF StarsPrice
<1>10. QED
  BY <1>2, <1>9

(* So are the prices of premium and gifts, told or charged.                *)
LEMMA ListPricesType ==
  ASSUME NEW p, PricingSetting(p), NEW months, NEW id
  PROVE  /\ PremiumPrice(months, p) \in Int /\ GiftPrice(id, p) \in Int
         /\ PremiumTold(months, p) \in Int /\ GiftTold(id, p) \in Int
<1>1. /\ p.premium # Broken => \A m \in DOMAIN p.premium : p.premium[m] \in Int
      /\ p.gifts # Broken => \A g \in DOMAIN p.gifts : p.gifts[g] \in Int
  BY DEF PricingSetting
<1>2. /\ \A m \in DOMAIN PremiumBase : PremiumBase[m] \in Int
      /\ \A g \in DOMAIN DefaultGifts : DefaultGifts[g] \in Int
  BY CatalogAssumption
<1>3. PremiumPrice(months, p) \in Int
  BY <1>1, <1>2 DEF PremiumPrice
<1>4. GiftPrice(id, p) \in Int
  BY <1>1, <1>2 DEF GiftPrice
<1>5. PremiumTold(months, p) \in Int
  <2> DEFINE standard == [m \in {3, 6, 12} |->
                            CASE m = 3 -> 142000 [] m = 6 -> 210000 [] m = 12 -> 380000]
  <2>1. \A m \in DOMAIN standard : standard[m] \in Int
    OBVIOUS
  <2>2. QED
    BY <1>1, <2>1 DEF PremiumTold
<1>6. GiftTold(id, p) \in Int
  BY <1>1 DEF GiftTold
<1>7. QED
  BY <1>3, <1>4, <1>5, <1>6
-----------------------------------------------------------------------------
(* What the shop keeps and holds is typed by its assumptions.              *)
LEMMA PricingTyped == ShopTyped => PricingSetting(pricing)
  BY ShopAssumption DEF ShopTyped

(* Products are stars, premium or gifts.                                   *)
LEMMA ProductTyped ==
  \A i \in Product : i.type \in {"stars", "premium", "gift"} /\ i.amount \in Nat \ {0}
  BY ShopAssumption

(* A custom service has an icon and a whole price.                         *)
LEMMA RowTyped == \A row \in Rows : row.name \in DOMAIN Icon /\ row.price \in Int
  BY ServicesAssumption

(* An item that is not a product is titled as a service.                   *)
LEMMA ItemTyped ==
  ASSUME NEW i \in Item
  PROVE  i \in Product \/ i.type = "service"
BY DEF Item

(* The bot tells a whole sum for every product.                            *)
LEMMA PriceToldType ==
  ASSUME NEW i \in Product, NEW p, PricingSetting(p)
  PROVE  PriceTold(i, p) \in Int
<1>1. i.amount \in Nat /\ i.type \in {"stars", "premium", "gift"}
  BY ProductTyped
<1>2. StarsPrice(i.amount, p) \in Int
  BY <1>1, StarsPriceType
<1>3. PremiumTold(i.amount, p) \in Int /\ GiftTold(i.id, p) \in Int
  BY ListPricesType
<1>4. QED
  BY <1>1, <1>2, <1>3 DEF PriceTold

(* The server charges a whole sum for every item.                          *)
LEMMA AuthoritativeType ==
  ASSUME NEW i \in Item, NEW p, PricingSetting(p), NEW c, \A v \in DOMAIN c : c[v] \in Rows,
         NEW price \in AuthoritativePrices(i, p, c)
  PROVE  price \in Int
<1>1. CASE i \in Product
  <2>1. i.amount \in Nat /\ i.type \in {"stars", "premium", "gift"}
    BY <1>1, ProductTyped
  <2>2. StarsPrice(i.amount, p) \in Int
    BY <2>1, StarsPriceType
  <2>3. PremiumPrice(i.amount, p) \in Int /\ GiftPrice(i.slug, p) \in Int
    BY ListPricesType
  <2>4. QED
    BY <2>1, <2>2, <2>3 DEF AuthoritativePrices
<1>2. CASE i.type = "service"
  <2>1. \A v \in ServicesNamed(i.slug, c) : c[v].price \in Int
    BY RowTyped DEF ServicesNamed
  <2>2. QED
    BY <1>2, <2>1 DEF AuthoritativePrices
<1>3. QED
  BY <1>1, <1>2, ItemTyped

(* For what is in the price list the bot tells the price the server        *)
(* charges.                                                                *)
LEMMA TellsWhatIsCharged ==
  ASSUME NEW i \in Product, NEW p, NEW c, Listed(i, p)
  PROVE  AuthoritativePrices(i, p, c) = {PriceTold(i, p)}
<1>1. i.type \in {"stars", "premium", "gift"}
  BY ProductTyped
<1>2. CASE i.type = "stars"
  BY <1>2 DEF AuthoritativePrices, PriceTold
<1>3. CASE i.type = "premium"
  <2>1. p.premium # Broken /\ i.amount \in DOMAIN p.premium
    BY <1>3 DEF Listed
  <2>2. PremiumPrice(i.amount, p) = PremiumTold(i.amount, p)
    BY <2>1 DEF PremiumPrice, PremiumTold
  <2>3. QED
    BY <1>3, <2>2 DEF AuthoritativePrices, PriceTold
<1>4. CASE i.type = "gift"
  <2>1. i.slug = i.id /\ p.gifts # Broken /\ i.id \in DOMAIN p.gifts
    BY <1>4 DEF Listed
  <2>2. GiftPrice(i.slug, p) = GiftTold(i.id, p)
    BY <2>1 DEF GiftPrice, GiftTold
  <2>3. QED
    BY <1>4, <2>2 DEF AuthoritativePrices, PriceTold
<1>5. QED
  BY <1>1, <1>2, <1>3, <1>4

(* Nothing but a product is in the price list.                             *)
LEMMA ListedIsProduct ==
  ASSUME NEW i \in Item, NEW p
  PROVE  Listed(i, p) \in BOOLEAN /\ (Listed(i, p) => i \in Product)
<1>1. CASE i \in Product
  BY <1>1, ProductTyped DEF Listed
<1>2. CASE i.type = "service"
  BY <1>2 DEF Listed
<1>3. QED
  BY <1>1, <1>2, ItemTyped

-----------------------------------------------------------------------------
(* What the handlers and administrators hold, by what they are doing.      *)
LEMMA HandKinds ==
  ASSUME NEW e \in Hand
  PROVE  /\ e.at = "idle" => e = Idle
         /\ e.at = "buying" => e \in Cart
         /\ e.at = "loaded" => e.cart \in Cart /\ e.purse \in Nat
         /\ e.at = "bought" => e.selection \in Selection
         /\ e.at = "putting" => \/ e.key = "topup" /\ e.value \in Topup
                                \/ e.key = "service" /\ e.value \in Rows
         /\ e.at \in {"idle", "buying", "loaded", "bought", "putting", "photo", "stored"}
BY DEF Hand, Idle, Cart

(* What an administrator holds, by what it is doing.                       *)
LEMMA DeskKinds ==
  ASSUME NEW e \in Desk
  PROVE  /\ e.at \in {"idle", "approving", "rejecting"}
         /\ e.at = "idle" <=> e = Idle
         /\ e # Idle => e.receipt \in Nat /\ e.read \in ReceiptStatus
BY DEF Desk, Idle

(* What a handler may come to hold.                                        *)
LEMMA HandTypes ==
  /\ Idle \in Hand /\ Cart \subseteq Hand /\ Idle.at = "idle"
  /\ \A cart \in Cart, purse \in Nat : [at |-> "loaded", cart |-> cart, purse |-> purse] \in Hand
  /\ \A selection \in Selection : [at |-> "bought", selection |-> selection] \in Hand
  /\ \A n \in Topup : [at |-> "putting", key |-> "topup", value |-> n] \in Hand
  /\ \A row \in Rows : [at |-> "putting", key |-> "service", value |-> row] \in Hand
  /\ [at |-> "photo"] \in Hand /\ [at |-> "stored"] \in Hand
BY DEF Hand, Idle

(* A cleared conversation.                                                 *)
LEMMA EmptyTyped == Empty \in Data /\ Empty.price = None /\ Empty.item = None
                    /\ Empty.topup = None /\ Empty.service = None /\ Empty.selection = None
BY DEF Empty, Data, Selection
-----------------------------------------------------------------------------
(* The invariant has the types and the four properties.                    *)
LEMMA InvariantTypes == IInv => TypeOK
<1> SUFFICES ASSUME IInv PROVE TypeOK
  OBVIOUS
<1>1. /\ data.item \in Product \cup {None} /\ data.service \in Rows \cup {None}
      /\ data.topup \in Amounts \cup {None}
  BY DEF IInv, ChatTyped, Data
<1>2. \A k \in DOMAIN orders : orders[k].item \in Item /\ orders[k].charged \in Nat
  <2>1. TAKE k \in DOMAIN orders
  <2>2. orders[k] \in Purchase
    BY DEF IInv, BooksTyped
  <2>3. QED
    BY <2>2 DEF Purchase
<1>3. \A r \in DOMAIN receipts :
        receipts[r].amount \in Nat /\ receipts[r].status \in {"pending", "success", "failed"}
  <2>1. TAKE r \in DOMAIN receipts
  <2>2. receipts[r] \in Receipt
    BY DEF IInv, BooksTyped
  <2>3. QED
    BY <2>2 DEF Receipt, ReceiptStatus
<1>4. \A a \in Admin : desk[a].at \in {"idle", "approving", "rejecting"}
  BY DeskKinds DEF IInv, DesksTyped
<1>5. \A h \in Handler :
        hand[h].at \in {"idle", "buying", "loaded", "bought", "putting", "photo", "stored"}
  BY HandKinds DEF IInv, HandsTyped
<1>6. QED
  BY <1>1, <1>2, <1>3, <1>4, <1>5 DEF IInv, TypeOK, ChatTyped, ShopTyped, BooksTyped, Buttons

(* A choice the chat still holds has not been bought to the end.           *)
LEMMA InvariantSpent == IInv => SpentOnce
BY DEF IInv, Chosen, SpentOnce

(* It holds of the first state.                                            *)
LEMMA InitIInv == Init => IInv
<1> SUFFICES ASSUME Init PROVE IInv
  OBVIOUS
<1>1. ChatTyped /\ Chosen
  BY EmptyTyped, ShopAssumption DEF Init, ChatTyped, Chosen, Buttons
<1>2. ShopTyped
  BY ShopAssumption, ServicesAssumption DEF Init, ShopTyped, Rows
<1>3. BooksTyped /\ Ended /\ ChargedAsTold /\ SuccessIsCredited
  BY ShopAssumption DEF Init, BooksTyped, Ended, ChargedAsTold, SuccessIsCredited
<1>4. HandsTyped /\ DesksTyped
  BY HandTypes DEF Init, HandsTyped, DesksTyped, Desk
<1>5. Held /\ Examined
  BY DEF Init, Held, Examined, Carries, Idle
<1>6. QED
  BY <1>1, <1>2, <1>3, <1>4, <1>5 DEF IInv

-----------------------------------------------------------------------------
(* A step that only writes the chat.                                       *)
LEMMA ChatStep ==
  ASSUME IInv, UNCHANGED <<shop, books, hand, desk>>, ChatTyped', Chosen'
  PROVE  IInv'
<1>1. UNCHANGED <<pricing, catalog, revision, balance, orders, chosen, spent, receipts, hand, desk>>
  BY DEF shop, books
<1>2. (ShopTyped /\ BooksTyped /\ HandsTyped /\ DesksTyped)'
  BY <1>1 DEF IInv, ShopTyped, BooksTyped, HandsTyped, DesksTyped
<1>3. Held'
  BY <1>1 DEF IInv, Held, Carries, Carried, Told, Made
<1>4. (Ended /\ Examined /\ ChargedAsTold /\ SuccessIsCredited)'
  BY <1>1 DEF IInv, Ended, Made, Examined, ChargedAsTold, SuccessIsCredited
<1>5. QED
  BY <1>2, <1>3, <1>4 DEF IInv

(* A screen drops the conversation and offers buttons of the shop.         *)
LEMMA ShowStep ==
  ASSUME IInv, NEW buttons \in SUBSET Buttons, Show(buttons)
  PROVE  IInv'
<1>1. ChatTyped'
  BY EmptyTyped DEF IInv, Show, Clear, ChatTyped
<1>2. Chosen'
  BY EmptyTyped DEF Show, Clear, Chosen
<1>3. QED
  BY <1>1, <1>2, ChatStep DEF Show

(* A step of a conversation leaves the choice as it is.                    *)
LEMMA EnterStep ==
  ASSUME IInv, NEW s \in {"starsAmount", "recipient", "srvConfirming", "promo", "topupAmount"},
         Enter(s)
  PROVE  IInv'
<1>1. ChatTyped'
  BY DEF IInv, Enter, ChatTyped
<1>2. Chosen'
  BY DEF IInv, Enter, shop, books, Chosen, Told
<1>3. QED
  BY <1>1, <1>2, ChatStep DEF Enter

(* So does asking for confirmation.                                        *)
LEMMA ConfirmationStep ==
  ASSUME IInv, ShowConfirmation
  PROVE  IInv'
<1>1. ChatTyped'
  BY DEF IInv, ShowConfirmation, ChatTyped, Buttons
<1>2. Chosen'
  BY DEF IInv, ShowConfirmation, shop, books, Chosen, Told
<1>3. QED
  BY <1>1, <1>2, ChatStep DEF ShowConfirmation
(* A choice: one more selection, told under the prices in force.           *)
LEMMA SelectStep ==
  ASSUME IInv, NEW i \in Product, Select(i)
  PROVE  IInv'
<1>1. /\ chosen' = chosen + 1 /\ chosen \in Nat /\ chosen < MaxSelections
      /\ UNCHANGED <<step, offered, pricing, catalog, revision, balance, orders, spent, receipts,
                     hand, desk>>
  BY ShopAssumption DEF IInv, BooksTyped, Select, shop
<1>2. PICK told \in Int : told = PriceTold(i, pricing)
  BY PriceToldType, PricingTyped DEF IInv
<1>3. PICK selection \in Nat : selection = chosen + 1
  BY <1>1
<1>4. PICK seen \in Nat : seen = revision
  BY ShopAssumption DEF IInv, ShopTyped
<1>5. PICK d \in Data : d = data
  BY DEF IInv, ChatTyped
<1>6. PICK new : new = [d EXCEPT !.item = i, !.price = told, !.selection = selection, !.seen = seen]
  OBVIOUS
<1>7. data' = new
  BY <1>2, <1>3, <1>4, <1>5, <1>6 DEF Select
<1>8. /\ new \in Data /\ new.item = i /\ new.price = told /\ new.selection = selection
      /\ new.seen = seen /\ new.topup = d.topup
  BY <1>6 DEF Data, Selection
<1>9. ChatTyped'
  BY <1>1, <1>3, <1>5, <1>7, <1>8, ShopAssumption DEF IInv, ChatTyped
<1>10. Chosen'
  <2>1. selection \notin spent
    BY <1>1, <1>3, ShopAssumption DEF IInv, Ended, Made
  <2>2. i # None /\ selection \in 1..chosen'
    <3>1. i # None
      BY ShopAssumption
    <3>2. QED
      BY <3>1, <1>1, <1>3
  <2>3. Told(i, told, seen)'
    BY <1>1, <1>2, <1>4 DEF Told
  <2>4. QED
    BY <1>1, <1>7, <1>8, <2>1, <2>2, <2>3 DEF Chosen, Told
<1>11. (ShopTyped /\ BooksTyped /\ HandsTyped /\ DesksTyped)'
  BY <1>1, ShopAssumption DEF IInv, ShopTyped, BooksTyped, HandsTyped, DesksTyped
<1>12. Held' /\ Ended'
  BY <1>1 DEF IInv, Held, Carries, Carried, Told, Made, Ended
<1>13. (Examined /\ ChargedAsTold /\ SuccessIsCredited)'
  BY <1>1 DEF IInv, Examined, ChargedAsTold, SuccessIsCredited
<1>14. QED
  BY <1>9, <1>10, <1>11, <1>12, <1>13 DEF IInv
-----------------------------------------------------------------------------
(* A handler takes up something it may hold.                               *)
LEMMA HandStep ==
  ASSUME IInv, NEW h \in Handler, NEW e \in Hand, Carries(e),
         hand' = [hand EXCEPT ![h] = e], UNCHANGED <<pricing, revision, chosen>>
  PROVE  HandsTyped' /\ Held'
<1>1. HandsTyped'
  BY DEF IInv, HandsTyped
<1>2. ASSUME NEW g \in Handler PROVE Carries(hand[g])'
  <2>1. CASE g = h
    <3>1. hand'[g] = e
      BY <2>1 DEF IInv, HandsTyped
    <3>2. QED
      BY <3>1 DEF Carries, Carried, Told, Made
  <2>2. CASE g # h
    <3>1. hand'[g] = hand[g] /\ Carries(hand[g])
      BY <2>2 DEF IInv, HandsTyped, Held
    <3>2. QED
      BY <3>1 DEF Carries, Carried, Told, Made
  <2>3. QED
    BY <2>1, <2>2
<1>3. QED
  BY <1>1, <1>2 DEF Held

(* One that changes neither the shop nor the books.                        *)
LEMMA HandlerStep ==
  ASSUME IInv, UNCHANGED <<shop, books, desk>>, NEW h \in Handler, NEW e \in Hand, Carries(e),
         hand' = [hand EXCEPT ![h] = e], ChatTyped', Chosen'
  PROVE  IInv'
<1>1. UNCHANGED <<pricing, catalog, revision, balance, orders, chosen, spent, receipts, desk>>
  BY DEF shop, books
<1>2. (ShopTyped /\ BooksTyped /\ DesksTyped)'
  BY <1>1 DEF IInv, ShopTyped, BooksTyped, DesksTyped
<1>3. HandsTyped' /\ Held'
  BY <1>1, HandStep
<1>4. (Ended /\ Examined /\ ChargedAsTold /\ SuccessIsCredited)'
  BY <1>1 DEF IInv, Ended, Made, Examined, ChargedAsTold, SuccessIsCredited
<1>5. QED
  BY <1>2, <1>3, <1>4 DEF IInv

(* And leaves the chat as it is.                                           *)
LEMMA QuietStep ==
  ASSUME IInv, UNCHANGED <<chat, offered, shop, books, desk>>, NEW h \in Handler, NEW e \in Hand,
         Carries(e), hand' = [hand EXCEPT ![h] = e]
  PROVE  IInv'
<1>1. UNCHANGED <<step, data, offered, pricing, revision, chosen, spent>>
  BY DEF chat, shop, books
<1>2. ChatTyped' /\ Chosen'
  BY <1>1 DEF IInv, ChatTyped, Chosen, Told
<1>3. QED
  BY <1>2, HandlerStep

(* Being idle, and what carries no choice, is always allowed.              *)
LEMMA IdleCarries ==
  Carries(Idle) /\ \A e : e.at \in {"putting", "photo", "stored"} => Carries(e)
BY DEF Carries, Idle

(* Pressing confirm takes the choice out of the chat, and leaves it there. *)
LEMMA PressConfirmStep ==
  ASSUME IInv, NEW h \in Handler, PressConfirm(h)
  PROVE  IInv'
<1>1. data \in Data /\ data.price # None
  BY DEF PressConfirm, IInv, ChatTyped
<1>2. PICK cart : cart = [at |-> "buying", item |-> data.item, price |-> data.price,
                          selection |-> data.selection, seen |-> data.seen]
  OBVIOUS
<1>3. /\ data.item # None /\ data.selection \in 1..chosen
      /\ Told(data.item, data.price, data.seen)
  BY <1>1 DEF IInv, Chosen
<1>4. data.item \in Item /\ data.price \in Int /\ data.selection \in Selection /\ data.seen \in Nat
  BY <1>1, <1>3, ShopAssumption DEF Data, Item, Told, IInv, ShopTyped
<1>5. cart \in Cart
  BY <1>2, <1>4 DEF Cart
<1>6. Carries(cart)
  BY <1>2, <1>3 DEF Carries, Carried, Told, Made
<1>7. cart \in Hand
  BY <1>5, HandTypes
<1>8. QED
  BY <1>2, <1>6, <1>7, QuietStep DEF PressConfirm

(* A cart keeps what it carries while the buyer is loaded.                 *)
LEMMA LoadBuyerStep ==
  ASSUME IInv, NEW h \in Handler, LoadBuyer(h)
  PROVE  IInv'
<1>1. CASE balance < hand[h].price
  BY <1>1, HandTypes, IdleCarries, QuietStep DEF LoadBuyer
<1>2. CASE ~(balance < hand[h].price)
  <2>1. PICK cart \in Cart : cart = hand[h]
    BY HandKinds DEF LoadBuyer, IInv, HandsTyped
  <2>2. Carried(cart)
    BY <2>1 DEF LoadBuyer, IInv, Held, Carries
  <2>3. PICK purse \in Nat : purse = balance
    BY DEF IInv, BooksTyped
  <2>4. PICK e \in Hand : e = [at |-> "loaded", cart |-> cart, purse |-> purse]
    BY HandTypes
  <2>5. Carries(e)
    BY <2>2, <2>4 DEF Carries
  <2>6. hand' = [hand EXCEPT ![h] = e]
    BY <1>2, <2>1, <2>3, <2>4 DEF LoadBuyer
  <2>7. QED
    BY <2>5, <2>6, QuietStep DEF LoadBuyer
<1>3. QED
  BY <1>1, <1>2

(* A purchase that is refused is forgotten.                                *)
LEMMA OrderRefusedStep ==
  ASSUME IInv, NEW h \in Handler, OrderRefused(h)
  PROVE  IInv'
BY HandTypes, IdleCarries, QuietStep DEF OrderRefused

(* A photo carries no choice.                                              *)
LEMMA SendPhotoStep ==
  ASSUME IInv, NEW h \in Handler, SendPhoto(h)
  PROVE  IInv'
<1>1. PICK e \in Hand : e = [at |-> "photo"]
  BY HandTypes
<1>2. Carries(e)
  BY <1>1, IdleCarries
<1>3. QED
  BY <1>1, <1>2, QuietStep DEF SendPhoto

(* The price charged is computed again, and is the one told if nothing was *)
(* edited since the choice.                                                *)
LEMMA PlaceOrderStep ==
  ASSUME IInv, NEW h \in Handler, PlaceOrder(h)
  PROVE  IInv'
<1>1. /\ hand[h].at = "loaded"
      /\ UNCHANGED <<step, data, offered, pricing, catalog, revision, chosen, spent, receipts,
                     desk>>
  BY DEF PlaceOrder, chat, shop
<1>2. PICK cart \in Cart : cart = hand[h].cart
  BY <1>1, HandKinds DEF IInv, HandsTyped
<1>3. PICK purse \in Nat : purse = hand[h].purse
  BY <1>1, HandKinds DEF IInv, HandsTyped
<1>4. Carried(cart)
  BY <1>1, <1>2 DEF IInv, Held, Carries
<1>5. PICK price \in AuthoritativePrices(cart.item, pricing, catalog) :
        /\ price > 0 /\ purse >= price
        /\ balance' = purse - price
        /\ orders' = Append(orders, [item |-> cart.item, told |-> cart.price, charged |-> price,
                                     fresh |-> cart.seen = revision,
                                     listed |-> Listed(cart.item, pricing)])
        /\ hand' = [hand EXCEPT ![h] = [at |-> "bought", selection |-> cart.selection]]
  BY <1>2, <1>3 DEF PlaceOrder
<1>6. PICK fresh \in BOOLEAN : fresh = (cart.seen = revision)
  OBVIOUS
<1>7. /\ cart.item \in Item /\ cart.price \in Int /\ cart.selection \in Selection
  BY DEF Cart
<1>8. PICK listed \in BOOLEAN : listed = Listed(cart.item, pricing)
  BY <1>7, ListedIsProduct
<1>9. price \in Nat
  <2>1. price \in Int
    BY <1>7, AuthoritativeType, PricingTyped DEF IInv, ShopTyped
  <2>2. QED
    BY <1>5, <2>1
<1>10. PICK order : order = [item |-> cart.item, told |-> cart.price, charged |-> price,
                             fresh |-> fresh, listed |-> listed]
  OBVIOUS
<1>11. order \in Purchase
  BY <1>7, <1>9, <1>10 DEF Purchase
<1>12. orders' = Append(orders, order)
  BY <1>5, <1>6, <1>8, <1>10
<1>13. fresh /\ listed => price = cart.price
  <2>1. SUFFICES ASSUME fresh, listed PROVE price = cart.price
    OBVIOUS
  <2>2. cart.item \in Product
    BY <1>7, <1>8, <2>1, ListedIsProduct
  <2>3. cart.price = PriceTold(cart.item, pricing)
    BY <1>4, <1>6, <2>1, <2>2 DEF Carried, Told
  <2>4. QED
    BY <1>8, <2>1, <2>2, <2>3, TellsWhatIsCharged
<1>14. BooksTyped'
  <2>1. balance' \in Nat
    BY <1>3, <1>5, <1>9
  <2>2. orders' \in Seq(Purchase)
    BY <1>11, <1>12 DEF IInv, BooksTyped
  <2>3. QED
    BY <1>1, <2>1, <2>2 DEF IInv, BooksTyped
<1>15. ChargedAsTold'
  <2>1. orders \in Seq(Purchase)
    BY DEF IInv, BooksTyped
  <2>2. ASSUME NEW k \in DOMAIN orders', orders'[k].fresh, orders'[k].listed
        PROVE  orders'[k].charged = orders'[k].told
    <3>1. CASE k \in DOMAIN orders
      BY <1>12, <2>1, <2>2, <3>1 DEF IInv, ChargedAsTold
    <3>2. CASE k \notin DOMAIN orders
      <4>1. orders'[k] = order
        BY <1>12, <2>1, <2>2, <3>2
      <4>2. QED
        BY <1>10, <1>13, <2>2, <4>1
    <3>3. QED
      BY <3>1, <3>2
  <2>3. QED
    BY <2>2 DEF ChargedAsTold
<1>16. HandsTyped' /\ Held'
  <2>1. PICK e \in Hand : e = [at |-> "bought", selection |-> cart.selection]
    BY <1>7, HandTypes
  <2>2. Carries(e)
    BY <1>4, <2>1 DEF Carries, Carried
  <2>3. QED
    BY <1>1, <1>5, <2>1, <2>2, HandStep
<1>17. (ChatTyped /\ ShopTyped /\ DesksTyped)'
  BY <1>1 DEF IInv, ChatTyped, ShopTyped, DesksTyped
<1>18. (Chosen /\ Ended /\ Examined /\ SuccessIsCredited)'
  BY <1>1 DEF IInv, Chosen, Told, Ended, Made, Examined, SuccessIsCredited
<1>19. QED
  BY <1>14, <1>15, <1>16, <1>17, <1>18 DEF IInv
(* The conversation is cleared in the step that ends the purchase.         *)
LEMMA EndPurchaseStep ==
  ASSUME IInv, NEW h \in Handler, EndPurchase(h)
  PROVE  IInv'
<1>1. /\ hand[h].at = "bought" /\ Clear /\ spent' = spent \cup {hand[h].selection}
      /\ hand' = [hand EXCEPT ![h] = Idle]
      /\ UNCHANGED <<offered, pricing, catalog, revision, balance, orders, chosen, receipts, desk>>
  BY DEF EndPurchase, shop
<1>2. Made(hand[h].selection)
  BY <1>1 DEF IInv, Held, Carries
<1>3. Ended'
  BY <1>1, <1>2 DEF IInv, Ended, Made
<1>4. ChatTyped' /\ Chosen'
  BY <1>1, EmptyTyped DEF IInv, Clear, ChatTyped, Chosen
<1>5. HandsTyped' /\ Held'
  BY <1>1, HandTypes, IdleCarries, HandStep
<1>6. (ShopTyped /\ BooksTyped /\ DesksTyped)'
  BY <1>1 DEF IInv, ShopTyped, BooksTyped, DesksTyped
<1>7. (Examined /\ ChargedAsTold /\ SuccessIsCredited)'
  BY <1>1 DEF IInv, Examined, ChargedAsTold, SuccessIsCredited
<1>8. QED
  BY <1>3, <1>4, <1>5, <1>6, <1>7 DEF IInv

(* A service to be put into the chat is one of the rows.                   *)
LEMMA BuyServiceStep ==
  ASSUME IInv, NEW h \in Handler, NEW v \in Service, BuyService(h, v)
  PROVE  IInv'
<1>1. PICK row \in Rows : row = catalog[v]
  BY DEF BuyService, IInv, ShopTyped
<1>2. PICK e \in Hand : e = [at |-> "putting", key |-> "service", value |-> row]
  BY HandTypes
<1>3. Carries(e)
  BY <1>2, IdleCarries
<1>4. UNCHANGED <<data, offered, pricing, revision, chosen, spent>> /\ step' = "srvDetails"
  BY DEF BuyService, shop, books
<1>5. ChatTyped' /\ Chosen'
  BY <1>4 DEF IInv, ChatTyped, Chosen, Told
<1>6. QED
  BY <1>1, <1>2, <1>3, <1>5, HandlerStep DEF BuyService

(* An amount to be put into the chat is within the limits.                 *)
LEMMA PayByCardStep ==
  ASSUME IInv, NEW h \in Handler, NEW n \in Amounts, PayByCard(h, n)
  PROVE  IInv'
<1>1. n \in Topup
  BY DEF PayByCard, Topup
<1>2. PICK e \in Hand : e = [at |-> "putting", key |-> "topup", value |-> n]
  BY <1>1, HandTypes
<1>3. Carries(e)
  BY <1>2, IdleCarries
<1>4. UNCHANGED <<data, offered, pricing, revision, chosen, spent>> /\ step' = "receipt"
  BY DEF PayByCard, shop, books
<1>5. ChatTyped' /\ Chosen'
  BY <1>4 DEF IInv, ChatTyped, Chosen, Told
<1>6. QED
  BY <1>2, <1>3, <1>5, HandlerStep DEF PayByCard

(* Neither key a handler puts into the chat belongs to a choice.           *)
LEMMA PutKeyStep ==
  ASSUME IInv, NEW h \in Handler, PutKey(h)
  PROVE  IInv'
<1>1. /\ hand[h].at = "putting" /\ data' = [data EXCEPT ![hand[h].key] = hand[h].value]
      /\ UNCHANGED <<step, offered, pricing, revision, chosen, spent>>
  BY DEF PutKey, shop, books
<1>2. PICK d \in Data : d = data
  BY DEF IInv, ChatTyped
<1>3. PICK value : value = hand[h].value
  OBVIOUS
<1>4. \/ hand[h].key = "topup" /\ value \in Topup
      \/ hand[h].key = "service" /\ value \in Rows
  BY <1>1, <1>3, HandKinds DEF IInv, HandsTyped
<1>5. /\ data' \in Data /\ UNCHANGED <<data.item, data.price, data.selection, data.seen>>
      /\ data'.topup # None => data'.topup \in Topup
  <2>1. CASE hand[h].key = "topup" /\ value \in Topup
    <3>1. PICK new : new = [d EXCEPT !.topup = value]
      OBVIOUS
    <3>2. data' = new
      BY <1>1, <1>2, <1>3, <2>1, <3>1
    <3>3. value \in Amounts
      BY <2>1 DEF Topup
    <3>4. /\ new \in Data /\ new.topup = value /\ new.item = d.item /\ new.price = d.price
          /\ new.selection = d.selection /\ new.seen = d.seen
      BY <3>1, <3>3 DEF Data
    <3>5. QED
      BY <1>2, <2>1, <3>2, <3>4
  <2>2. CASE hand[h].key = "service" /\ value \in Rows
    <3>1. PICK new : new = [d EXCEPT !.service = value]
      OBVIOUS
    <3>2. data' = new
      BY <1>1, <1>2, <1>3, <2>2, <3>1
    <3>3. /\ new \in Data /\ new.topup = d.topup /\ new.item = d.item /\ new.price = d.price
          /\ new.selection = d.selection /\ new.seen = d.seen
      BY <2>2, <3>1 DEF Data
    <3>4. d.topup # None => d.topup \in Topup
      BY <1>2 DEF IInv, ChatTyped
    <3>5. QED
      BY <1>2, <3>2, <3>3, <3>4
  <2>3. QED
    BY <1>4, <2>1, <2>2
<1>6. ChatTyped' /\ Chosen'
  BY <1>1, <1>5 DEF IInv, ChatTyped, Chosen, Told
<1>7. QED
  BY <1>6, HandTypes, IdleCarries, HandlerStep DEF PutKey

(* A service is bought under the title its orders carry.                   *)
LEMMA TitledTyped ==
  ASSUME NEW row \in Rows \cup {None}
  PROVE  Titled(row) \in Item /\ Titled(row).type = "service"
<1>1. row # None => row \in Rows /\ row.name \in DOMAIN Icon
  BY RowTyped
<1>2. PICK slug : slug = IF row = None THEN None ELSE Icon[row.name]
  OBVIOUS
<1>3. slug \in {Icon[n] : n \in DOMAIN Icon} \cup {None}
  BY <1>1, <1>2
<1>4. Titled(row) = [type |-> "service", id |-> None, amount |-> 1, slug |-> slug]
  BY <1>2 DEF Titled
<1>5. QED
  BY <1>3, <1>4 DEF Item

(* A service is not a product, whatever prices say.                        *)
LEMMA ConfirmServiceStep ==
  ASSUME IInv, NEW h \in Handler, ConfirmService(h)
  PROVE  IInv'
<1>1. PICK row \in Rows \cup {None} : row = data.service
  BY DEF IInv, ChatTyped, Data
<1>2. PICK item \in Item : item = Titled(row) /\ item.type = "service"
  BY TitledTyped
<1>3. PICK price : price = IF row = None THEN 0 ELSE row.price
  OBVIOUS
<1>4. price \in Int
  BY <1>3, RowTyped
<1>5. PICK seen \in Nat : seen = revision
  BY ShopAssumption DEF IInv, ShopTyped
<1>6. PICK cart : cart = [at |-> "buying", item |-> item, price |-> price, selection |-> None,
                          seen |-> seen]
  OBVIOUS
<1>7. cart \in Cart
  BY <1>4, <1>6 DEF Cart, Selection
<1>8. Carries(cart)
  <2>1. item \notin Product
    BY <1>2, ProductTyped
  <2>2. seen \in 0..revision
    BY <1>5
  <2>3. QED
    BY <1>6, <2>1, <2>2 DEF Carries, Carried, Told, Made
<1>9. hand' = [hand EXCEPT ![h] = cart]
  BY <1>1, <1>2, <1>3, <1>5, <1>6 DEF ConfirmService
<1>10. QED
  BY <1>7, <1>8, <1>9, HandTypes, QuietStep DEF ConfirmService
-----------------------------------------------------------------------------
(* A missing amount is stored as nothing.                                  *)
LEMMA StoreReceiptStep ==
  ASSUME IInv, NEW h \in Handler, StoreReceipt(h)
  PROVE  IInv'
<1>1. UNCHANGED <<step, data, offered, pricing, catalog, revision, balance, orders, chosen, spent,
                  desk>>
  BY DEF StoreReceipt, chat, shop
<1>2. PICK amount : amount = IF data.topup = None THEN 0 ELSE data.topup
  OBVIOUS
<1>3. amount \in Nat
  BY <1>2, ShopAssumption DEF IInv, ChatTyped, Topup
<1>4. PICK receipt : receipt = [amount |-> amount, status |-> "pending", credits |-> 0]
  OBVIOUS
<1>5. receipt \in Receipt
  BY <1>3, <1>4 DEF Receipt, ReceiptStatus
<1>6. receipts' = Append(receipts, receipt) /\ receipts \in Seq(Receipt)
  BY <1>2, <1>4 DEF StoreReceipt, IInv, BooksTyped
<1>7. BooksTyped'
  <2>1. receipts' \in Seq(Receipt)
    BY <1>5, <1>6
  <2>2. QED
    BY <1>1, <2>1 DEF IInv, BooksTyped
<1>8. SuccessIsCredited' /\ Examined'
  <2>1. ASSUME NEW r \in DOMAIN receipts'
        PROVE  \/ r \in DOMAIN receipts /\ receipts'[r] = receipts[r]
               \/ receipts'[r] = receipt
    BY <1>6
  <2>2. DOMAIN receipts \subseteq DOMAIN receipts'
    BY <1>6
  <2>3. Examined'
    BY <1>1, <2>2 DEF IInv, Examined
  <2>4. SuccessIsCredited'
    BY <1>4, <2>1 DEF IInv, SuccessIsCredited
  <2>5. QED
    BY <2>3, <2>4
<1>9. HandsTyped' /\ Held'
  <2>1. PICK e \in Hand : e = [at |-> "stored"]
    BY HandTypes
  <2>2. Carries(e)
    BY <2>1, IdleCarries
  <2>3. QED
    BY <1>1, <2>1, <2>2, HandStep DEF StoreReceipt
<1>10. (ChatTyped /\ ShopTyped /\ DesksTyped)'
  BY <1>1 DEF IInv, ChatTyped, ShopTyped, DesksTyped
<1>11. (Chosen /\ Ended /\ ChargedAsTold)'
  BY <1>1 DEF IInv, Chosen, Told, Ended, Made, ChargedAsTold
<1>12. QED
  BY <1>7, <1>8, <1>9, <1>10, <1>11 DEF IInv

(* Ending a receipt drops the conversation.                                *)
LEMMA EndReceiptStep ==
  ASSUME IInv, NEW h \in Handler, EndReceipt(h)
  PROVE  IInv'
<1>1. ChatTyped' /\ Chosen'
  BY EmptyTyped DEF EndReceipt, Clear, IInv, ChatTyped, Chosen
<1>2. QED
  BY <1>1, HandTypes, IdleCarries, HandlerStep DEF EndReceipt

-----------------------------------------------------------------------------
(* A step of an administrator who decides receipts.                        *)
LEMMA DeskStep ==
  ASSUME IInv, NEW a \in Admin, NEW e \in Desk, desk' = [desk EXCEPT ![a] = e],
         DOMAIN receipts' = DOMAIN receipts, e # Idle => e.receipt \in DOMAIN receipts,
         receipts' \in Seq(Receipt), balance' \in Nat, SuccessIsCredited',
         UNCHANGED <<chat, offered, shop, orders, chosen, spent, hand>>
  PROVE  IInv'
<1>1. UNCHANGED <<step, data, offered, pricing, catalog, revision, orders, chosen, spent, hand>>
  BY DEF chat, shop
<1>2. DesksTyped' /\ Examined'
  BY DEF IInv, DesksTyped, Examined
<1>3. (ChatTyped /\ ShopTyped /\ HandsTyped /\ BooksTyped)'
  BY <1>1 DEF IInv, ChatTyped, ShopTyped, HandsTyped, BooksTyped
<1>4. Chosen' /\ Ended'
  BY <1>1 DEF IInv, Chosen, Told, Ended, Made
<1>5. Held' /\ ChargedAsTold'
  BY <1>1 DEF IInv, Held, Carries, Carried, Told, Made, ChargedAsTold
<1>6. QED
  BY <1>2, <1>3, <1>4, <1>5 DEF IInv

(* An administrator opens a receipt that exists.                           *)
LEMMA OpenStep ==
  ASSUME IInv, NEW a \in Admin, NEW r, NEW does \in {"approving", "rejecting"}, Open(a, r, does)
  PROVE  IInv'
<1>1. UNCHANGED <<receipts, balance>> /\ r \in DOMAIN receipts /\ receipts \in Seq(Receipt)
  BY DEF Open, books, IInv, BooksTyped
<1>2. receipts[r] \in Receipt /\ r \in Nat
  BY <1>1
<1>3. PICK read : read = receipts[r].status
  OBVIOUS
<1>4. read \in ReceiptStatus
  BY <1>2, <1>3 DEF Receipt
<1>5. PICK e : e = [at |-> does, receipt |-> r, read |-> read]
  OBVIOUS
<1>6. e \in Desk /\ e.receipt = r
  BY <1>2, <1>4, <1>5 DEF Desk
<1>7. SuccessIsCredited' /\ balance' \in Nat
  BY <1>1 DEF IInv, SuccessIsCredited, BooksTyped
<1>8. QED
  BY <1>1, <1>3, <1>5, <1>6, <1>7, DeskStep DEF Open, books

(* Approving credits in the step that says success.                        *)
LEMMA ApproveStep ==
  ASSUME IInv, NEW a \in Admin, Approve(a)
  PROVE  IInv'
<1>1. desk[a] \in Desk /\ desk[a] # Idle
  BY DEF Approve, Idle, IInv, DesksTyped
<1>2. PICK r \in DOMAIN receipts : r = desk[a].receipt
  BY <1>1 DEF IInv, Examined
<1>3. receipts \in Seq(Receipt)
  BY DEF IInv, BooksTyped
<1>4. PICK old \in Receipt : old = receipts[r]
  BY <1>3
<1>5. PICK credits : credits = old.credits + IF old.amount > 0 THEN 1 ELSE 0
  OBVIOUS
<1>6. credits \in Nat /\ (old.amount = 0 \/ credits > 0)
  <2>1. old.credits \in Nat /\ old.amount \in Nat
    BY DEF Receipt
  <2>2. QED
    BY <1>5, <2>1
<1>7. PICK new : new = [old EXCEPT !.status = "success", !.credits = credits]
  OBVIOUS
<1>8. /\ new \in Receipt /\ new.status = "success" /\ new.credits = credits
      /\ new.amount = old.amount
  BY <1>6, <1>7 DEF Receipt, ReceiptStatus
<1>9. receipts' = [receipts EXCEPT ![r] = new]
  BY <1>2, <1>4, <1>5, <1>7 DEF Approve
<1>10. receipts' \in Seq(Receipt) /\ DOMAIN receipts' = DOMAIN receipts
  BY <1>3, <1>8, <1>9
<1>11. balance' \in Nat
  <2>1. balance' = balance + old.amount
    BY <1>2, <1>4 DEF Approve
  <2>2. old.amount \in Nat /\ balance \in Nat
    BY DEF Receipt, IInv, BooksTyped
  <2>3. QED
    BY <2>1, <2>2
<1>12. SuccessIsCredited'
  BY <1>3, <1>6, <1>8, <1>9, <1>10 DEF IInv, SuccessIsCredited
<1>13. Idle \in Desk
  BY DEF Desk
<1>14. QED
  BY <1>10, <1>11, <1>12, <1>13, DeskStep DEF Approve

(* Rejecting says failed, of which nothing is promised.                    *)
LEMMA RejectStep ==
  ASSUME IInv, NEW a \in Admin, Reject(a)
  PROVE  IInv'
<1>1. desk[a] \in Desk /\ desk[a] # Idle
  BY DEF Reject, Idle, IInv, DesksTyped
<1>2. PICK r \in DOMAIN receipts : r = desk[a].receipt
  BY <1>1 DEF IInv, Examined
<1>3. receipts \in Seq(Receipt)
  BY DEF IInv, BooksTyped
<1>4. PICK old \in Receipt : old = receipts[r]
  BY <1>3
<1>5. PICK new : new = [old EXCEPT !.status = "failed"]
  OBVIOUS
<1>6. new \in Receipt /\ new.status = "failed"
  BY <1>5 DEF Receipt, ReceiptStatus
<1>7. UNCHANGED receipts \/ receipts' = [receipts EXCEPT ![r] = new]
  BY <1>2, <1>4, <1>5 DEF Reject
<1>8. receipts' \in Seq(Receipt) /\ DOMAIN receipts' = DOMAIN receipts
  BY <1>3, <1>6, <1>7
<1>9. SuccessIsCredited'
  BY <1>3, <1>6, <1>7 DEF IInv, SuccessIsCredited
<1>10. Idle \in Desk /\ balance' \in Nat
  BY DEF Desk, Reject, IInv, BooksTyped
<1>11. QED
  BY <1>8, <1>9, <1>10, DeskStep DEF Reject

-----------------------------------------------------------------------------
(* After an edit no choice claims the present prices.                      *)
LEMMA EditStep ==
  ASSUME IInv, Edit, pricing' \in Settings,
         DOMAIN catalog' \subseteq Service, \A v \in DOMAIN catalog' : catalog'[v] \in Rows
  PROVE  IInv'
<1>1. /\ revision' = revision + 1 /\ revision \in Nat /\ revision < MaxRevisions
      /\ UNCHANGED <<step, data, offered, balance, orders, chosen, spent, receipts, hand, desk>>
  BY ShopAssumption DEF IInv, ShopTyped, Edit, chat, books
<1>2. ShopTyped'
  BY <1>1, ShopAssumption DEF IInv, ShopTyped
<1>3. ASSUME NEW item, NEW price, NEW seen, Told(item, price, seen)
      PROVE  seen \in 0..revision' /\ seen # revision'
  BY <1>1, <1>3 DEF Told
<1>4. Chosen'
  BY <1>1, <1>3 DEF IInv, Chosen, Told
<1>5. Held'
  BY <1>1, <1>3 DEF IInv, Held, Carries, Carried, Told, Made
<1>6. (ChatTyped /\ BooksTyped /\ HandsTyped /\ DesksTyped)'
  BY <1>1 DEF IInv, ChatTyped, BooksTyped, HandsTyped, DesksTyped
<1>7. (Ended /\ Examined /\ ChargedAsTold /\ SuccessIsCredited)'
  BY <1>1 DEF IInv, Ended, Made, Examined, ChargedAsTold, SuccessIsCredited
<1>8. QED
  BY <1>2, <1>4, <1>5, <1>6, <1>7 DEF IInv

(* The edits of prices and services.                                       *)
LEMMA EditsStep ==
  ASSUME IInv,
         \/ \E p \in Settings : UpdatePricing(p)
         \/ \E v \in Service : DeleteService(v)
         \/ \E v \in Service, row \in Offers : CreateService(v, row) \/ UpdateService(v, row)
  PROVE  IInv'
<1>1. /\ pricing \in Settings /\ DOMAIN catalog \subseteq Service
      /\ \A v \in DOMAIN catalog : catalog[v] \in Rows
  BY DEF IInv, ShopTyped
<1>2. ASSUME NEW p \in Settings, UpdatePricing(p) PROVE IInv'
  BY <1>1, <1>2, EditStep DEF UpdatePricing
<1>3. ASSUME NEW v \in Service, DeleteService(v) PROVE IInv'
  BY <1>1, <1>3, EditStep DEF DeleteService
<1>4. ASSUME NEW v \in Service, NEW row \in Offers, CreateService(v, row) PROVE IInv'
  <2>1. row \in Rows
    BY DEF Rows
  <2>2. QED
    BY <1>1, <1>4, <2>1, EditStep DEF CreateService
<1>5. ASSUME NEW v \in Service, NEW row \in Offers, UpdateService(v, row) PROVE IInv'
  <2>1. row \in Rows
    BY DEF Rows
  <2>2. QED
    BY <1>1, <1>5, <2>1, EditStep DEF UpdateService
<1>6. QED
  BY <1>2, <1>3, <1>4, <1>5

(* A restart drops what handlers and administrators held.                  *)
LEMMA RestartStep ==
  ASSUME IInv, Restart
  PROVE  IInv'
<1>1. /\ hand' = [h \in Handler |-> Idle] /\ desk' = [a \in Admin |-> Idle]
      /\ UNCHANGED <<offered, pricing, catalog, revision, balance, orders, chosen, spent, receipts>>
      /\ UNCHANGED <<step, data>> \/ Clear
  BY DEF Restart, chat, shop, books
<1>2. ChatTyped' /\ Chosen'
  BY <1>1, EmptyTyped DEF Clear, IInv, ChatTyped, Chosen, Told
<1>3. HandsTyped' /\ DesksTyped'
  BY <1>1, HandTypes DEF HandsTyped, DesksTyped, Desk
<1>4. Held' /\ Examined'
  BY <1>1, IdleCarries DEF Held, Examined, Carries, Idle
<1>5. (ShopTyped /\ BooksTyped)'
  BY <1>1 DEF IInv, ShopTyped, BooksTyped
<1>6. (Ended /\ ChargedAsTold /\ SuccessIsCredited)'
  BY <1>1 DEF IInv, Ended, Made, ChargedAsTold, SuccessIsCredited
<1>7. QED
  BY <1>2, <1>3, <1>4, <1>5, <1>6 DEF IInv
-----------------------------------------------------------------------------
(* Nothing changes.                                                        *)
LEMMA StutterStep ==
  ASSUME IInv, UNCHANGED vars
  PROVE  IInv'
<1>1. UNCHANGED <<shop, books, hand, desk, step, data, offered, pricing, revision, chosen, spent>>
  BY DEF vars, shop, books
<1>2. ChatTyped' /\ Chosen'
  BY <1>1 DEF IInv, ChatTyped, Chosen, Told
<1>3. QED
  BY <1>1, <1>2, ChatStep

(* The screens offer buttons of what the shop has.                         *)
LEMMA ScreensStep ==
  ASSUME IInv,
         \/ OpenMenu \/ OpenWallet \/ OpenTopup \/ OpenProfile
         \/ OpenServices \/ OpenStars \/ OpenPremium \/ OpenGifts
         \/ \E v \in Service : ViewService(v)
         \/ CancelRecipient \/ CancelService \/ TypePromo
  PROVE  IInv'
<1>1. {} \in SUBSET Buttons
  OBVIOUS
<1>2. ServicesKeyboard \in SUBSET Buttons
  BY DEF ServicesKeyboard, Buttons, IInv, ShopTyped
<1>3. StarsKeyboard \in SUBSET Buttons /\ PremiumKeyboard \in SUBSET Buttons
  BY DEF StarsKeyboard, PremiumKeyboard, Buttons
<1>4. GiftsKeyboard(pricing) \in SUBSET Buttons
  BY DEF GiftsKeyboard, Buttons
<1>5. CASE \/ OpenServices \/ OpenStars \/ OpenPremium \/ OpenGifts
  BY <1>2, <1>3, <1>4, <1>5, ShowStep DEF OpenServices, OpenStars, OpenPremium, OpenGifts
<1>6. CASE \/ OpenMenu \/ OpenWallet \/ OpenTopup \/ OpenProfile
           \/ \E v \in Service : ViewService(v)
           \/ CancelRecipient \/ CancelService \/ TypePromo
  BY <1>1, <1>6, ShowStep
     DEF OpenMenu, OpenWallet, OpenTopup, OpenProfile, ViewService, CancelRecipient,
         CancelService, TypePromo
<1>7. QED
  BY <1>5, <1>6

(* What the buyer does in a conversation, one update at a time.            *)
LEMMA TalkStep ==
  ASSUME IInv,
         \/ \E i \in Product :
              SelectStars(i) \/ SelectPremium(i) \/ SelectGift(i) \/ TypeStarsAmount(i)
         \/ EnterStarsAmount \/ RecipientSelf \/ RecipientOther
         \/ RecipientShared \/ RecipientText
         \/ ServiceDetails \/ EnterPromo \/ EnterTopup
  PROVE  IInv'
<1>1. CASE \E i \in Product :
             SelectStars(i) \/ SelectPremium(i) \/ SelectGift(i) \/ TypeStarsAmount(i)
  BY <1>1, SelectStep DEF SelectStars, SelectPremium, SelectGift, TypeStarsAmount
<1>2. CASE RecipientSelf \/ RecipientShared \/ RecipientText
  BY <1>2, ConfirmationStep DEF RecipientSelf, RecipientShared, RecipientText
<1>3. CASE EnterStarsAmount \/ RecipientOther \/ ServiceDetails \/ EnterPromo \/ EnterTopup
  BY <1>3, EnterStep
     DEF EnterStarsAmount, RecipientOther, ServiceDetails, EnterPromo, EnterTopup
<1>4. QED
  BY <1>1, <1>2, <1>3

(* What a handler of the chat does.                                        *)
LEMMA HandlersStep ==
  ASSUME IInv, NEW h \in Handler,
         \/ PressConfirm(h) \/ LoadBuyer(h) \/ PlaceOrder(h) \/ OrderRefused(h) \/ EndPurchase(h)
         \/ \E v \in Service : BuyService(h, v)
         \/ PutKey(h) \/ ConfirmService(h)
         \/ \E n \in Amounts : PayByCard(h, n)
         \/ SendPhoto(h) \/ StoreReceipt(h) \/ EndReceipt(h)
  PROVE  IInv'
<1>1. CASE PressConfirm(h) \/ LoadBuyer(h) \/ PlaceOrder(h) \/ OrderRefused(h) \/ EndPurchase(h)
  BY <1>1, PressConfirmStep, LoadBuyerStep, PlaceOrderStep, OrderRefusedStep, EndPurchaseStep
<1>2. CASE (\E v \in Service : BuyService(h, v)) \/ PutKey(h) \/ ConfirmService(h)
  BY <1>2, BuyServiceStep, PutKeyStep, ConfirmServiceStep
<1>3. CASE (\E n \in Amounts : PayByCard(h, n)) \/ SendPhoto(h) \/ StoreReceipt(h) \/ EndReceipt(h)
  BY <1>3, PayByCardStep, SendPhotoStep, StoreReceiptStep, EndReceiptStep
<1>4. QED
  BY <1>1, <1>2, <1>3

(* What an administrator does.                                             *)
LEMMA DesksStep ==
  ASSUME IInv, NEW a \in Admin,
         \/ \E r \in 1..MaxRecords : OpenApproval(a, r) \/ OpenRejection(a, r)
         \/ Approve(a) \/ Reject(a)
  PROVE  IInv'
<1>1. ASSUME NEW r, OpenApproval(a, r) \/ OpenRejection(a, r) PROVE IInv'
  BY <1>1, OpenStep DEF OpenApproval, OpenRejection
<1>2. QED
  BY <1>1, ApproveStep, RejectStep

(* Every step keeps the invariant.                                         *)
LEMMA NextIInv ==
  ASSUME IInv, [Next]_vars
  PROVE  IInv'
<1>1. CASE UNCHANGED vars
  BY <1>1, StutterStep
<1>2. CASE \/ OpenMenu \/ OpenWallet \/ OpenTopup \/ OpenProfile
           \/ OpenServices \/ OpenStars \/ OpenPremium \/ OpenGifts
           \/ \E v \in Service : ViewService(v)
           \/ CancelRecipient \/ CancelService \/ TypePromo
  BY <1>2, ScreensStep
<1>3. CASE \/ \E i \in Product :
                SelectStars(i) \/ SelectPremium(i) \/ SelectGift(i) \/ TypeStarsAmount(i)
           \/ EnterStarsAmount \/ RecipientSelf \/ RecipientOther
           \/ RecipientShared \/ RecipientText
           \/ ServiceDetails \/ EnterPromo \/ EnterTopup
  BY <1>3, TalkStep
<1>4. CASE \E h \in Handler :
             \/ PressConfirm(h) \/ LoadBuyer(h) \/ PlaceOrder(h) \/ OrderRefused(h)
             \/ EndPurchase(h)
             \/ \E v \in Service : BuyService(h, v)
             \/ PutKey(h) \/ ConfirmService(h)
             \/ \E n \in Amounts : PayByCard(h, n)
             \/ SendPhoto(h) \/ StoreReceipt(h) \/ EndReceipt(h)
  BY <1>4, HandlersStep
<1>5. CASE \E a \in Admin :
             \/ \E r \in 1..MaxRecords : OpenApproval(a, r) \/ OpenRejection(a, r)
             \/ Approve(a) \/ Reject(a)
  BY <1>5, DesksStep
<1>6. CASE \/ \E p \in Settings : UpdatePricing(p)
           \/ \E v \in Service : DeleteService(v)
           \/ \E v \in Service, row \in Offers : CreateService(v, row) \/ UpdateService(v, row)
  BY <1>6, EditsStep
<1>7. CASE Restart
  BY <1>7, RestartStep
<1>8. QED
  BY <1>1, <1>2, <1>3, <1>4, <1>5, <1>6, <1>7 DEF Next

-----------------------------------------------------------------------------
(* The chat, what handlers took out of it, the books and the prices stay   *)
(* in accord, however updates, edits, decisions and restarts interleave    *)
(* (app/handlers/users/shop.py, wallet.py).                                *)
THEOREM ShopInvariant == Spec => []IInv
<1>1. Init => IInv
  BY InitIInv
<1>2. IInv /\ [Next]_vars => IInv'
  BY NextIInv
<1>3. QED
  BY <1>1, <1>2, PTL DEF Spec

(* Every variable keeps its type; in particular a buyer's balance never    *)
(* falls below zero in the shop.                                           *)
THEOREM ShopTypes == Spec => []TypeOK
BY ShopInvariant, InvariantTypes, PTL

(* An order of what the price list has is charged what the bot told when   *)
(* it was chosen, unless prices were edited since: the price told is       *)
(* thrown away (database/queries.py, create_order) and computed again      *)
(* (app/services/pricing/service.py), for every price list and amount.     *)
THEOREM ChargesWhatItTold == Spec => []ChargedAsTold
<1>1. IInv => ChargedAsTold
  BY DEF IInv
<1>2. QED
  BY <1>1, ShopInvariant, PTL

(* No number of concurrent updates brings a choice back into the chat      *)
(* after its purchase has ended (shop.py, cb_execute_purchase).            *)
THEOREM ChoiceIsSpentOnce == Spec => []SpentOnce
BY ShopInvariant, InvariantSpent, PTL

(* A receipt that says success was credited, and a pending one was not,    *)
(* however many administrators decide it from stale messages (wallet.py).  *)
THEOREM SuccessIsAlwaysCredited == Spec => []SuccessIsCredited
<1>1. IInv => SuccessIsCredited
  BY DEF IInv
<1>2. QED
  BY <1>1, ShopInvariant, PTL
=============================================================================
