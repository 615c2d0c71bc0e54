------------------------------ MODULE Pricing ------------------------------
(***************************************************************************)
(* The price the server charges (app/services/pricing/service.py): what    *)
(* PricingService computes from the row of pricing_settings and from the   *)
(* custom services.  Money is in whole sums; percentages are whole, so the *)
(* only rounding is the one of round_money.  A product is                  *)
(*   [type, id, amount, slug]                                              *)
(* id is its key in the catalog, and slug what the item title it is bought *)
(* under becomes when it is looked up: for a gift the title in lower case  *)
(* without blanks, for a service the title itself.  The bot's titles carry *)
(* the icon of the product, so slug is seldom id.                          *)
(***************************************************************************)
EXTENDS Integers

CONSTANTS
  StarBase,      \* FRAGMENT_STAR_BASE_UZS
  PremiumBase,   \* FRAGMENT_PREMIUM_BASE_UZS
  DefaultGifts,  \* DEFAULT_GIFTS: the price of each
  Broken         \* a JSON column that does not parse

ASSUME CatalogAssumption ==
  /\ StarBase \in Nat \ {0}
  /\ \A m \in DOMAIN PremiumBase : PremiumBase[m] \in Nat \ {0}
  /\ \A g \in DOMAIN DefaultGifts : DefaultGifts[g] \in Nat \ {0}

(* A row of pricing_settings in whole numbers; nothing bounds what the     *)
(* administrators enter.                                                   *)
PricingSetting(p) ==
  /\ {p.unit, p.margin, p.minMargin, p.maxDiscount, p.minPrice} \subseteq Int
  /\ p.tiers = Broken \/ \A t \in p.tiers : t.min \in Int /\ t.pct \in Int
  /\ p.premium = Broken \/ \A m \in DOMAIN p.premium : p.premium[m] \in Int
  /\ p.gifts = Broken \/ \A g \in DOMAIN p.gifts : p.gifts[g] \in Int

(* val.quantize(1, ROUND_HALF_UP) of the fraction n / d. *)
RoundMoney(n, d) == (2 * n + d) \div (2 * d)

Larger(x, y) == IF x >= y THEN x ELSE y
Smaller(x, y) == IF x <= y THEN x ELSE y

(* The first tier, from the largest minimum down, that the amount reaches; *)
(* no discount when there is none or the tiers do not parse.               *)
Discount(amount, p) ==
  LET reached == IF p.tiers = Broken THEN {} ELSE {t \in p.tiers : amount >= t.min}
  IN  IF reached = {} THEN 0
      ELSE LET tier == CHOOSE t \in reached : \A u \in reached : t.min >= u.min
           IN  Smaller(tier.pct, p.maxDiscount)

UnitCost(p) == IF p.unit > 0 THEN p.unit ELSE StarBase

(* The margin never falls below its minimum, the discount never rises      *)
(* above its maximum, and from 10 stars on the minimum price holds.        *)
StarsPrice(amount, p) ==
  LET margin == Larger(p.margin, p.minMargin)
      total  == RoundMoney(UnitCost(p) * (100 + margin) * amount
                             * (100 - Discount(amount, p)), 10000)
  IN  IF total < p.minPrice /\ amount >= 10 THEN p.minPrice ELSE total

PremiumPrice(months, p) ==
  IF p.premium # Broken /\ months \in DOMAIN p.premium THEN p.premium[months]
  ELSE (IF months \in DOMAIN PremiumBase THEN PremiumBase[months] ELSE 140000) + 5000

GiftPrice(id, p) ==
  LET gifts == IF p.gifts = Broken \/ DOMAIN p.gifts = {} THEN DefaultGifts ELSE p.gifts
  IN  IF id \in DOMAIN gifts THEN gifts[id] ELSE 60000

(* The active services of that name; without one the order is refused. *)
ServicesNamed(title, catalog) ==
  {v \in DOMAIN catalog : catalog[v].name = title /\ catalog[v].active}

(* get_authoritative_price: the prices it may answer (two services can     *)
(* share a name), none when it raises.                                     *)
AuthoritativePrices(item, p, catalog) ==
  CASE item.type = "stars"   -> {StarsPrice(item.amount, p)}
    [] item.type = "premium" -> {PremiumPrice(item.amount, p)}
    [] item.type = "gift"    -> {GiftPrice(item.slug, p)}
    [] item.type = "service" -> {catalog[v].price : v \in ServicesNamed(item.slug, catalog)}
=============================================================================
