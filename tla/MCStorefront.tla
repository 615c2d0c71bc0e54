---------------------------- MODULE MCStorefront ----------------------------
(***************************************************************************)
(* One product of each kind, listed by the first settings and not by the   *)
(* second, and two services, the second of which is named as the first's   *)
(* orders are titled.                                                      *)
(***************************************************************************)
EXTENDS Storefront, TLC

CONSTANTS h1, h2, a1, a2

MCPremiumBase == 3 :> 138000 @@ 6 :> 205000 @@ 12 :> 375000
MCDefaultGifts == [g \in {"bear"} |-> 64000]

MCStars == [type |-> "stars", id |-> "stars", amount |-> 100, slug |-> "100telegramstars"]
MCPremium == [type |-> "premium", id |-> "premium", amount |-> 3, slug |-> "telegrampremium"]
MCCrown == [type |-> "gift", id |-> "crown", amount |-> 1, slug |-> "crown"]

MCProduct == {MCStars, MCPremium, MCCrown}

MCPlain ==
  [unit |-> 180, margin |-> 15, minMargin |-> 5, maxDiscount |-> 30, minPrice |-> 1000,
   tiers |-> Broken, premium |-> 3 :> 143000, gifts |-> <<>>]

MCTiered ==
  [unit |-> 0, margin |-> 2, minMargin |-> 5, maxDiscount |-> 30, minPrice |-> 15000,
   tiers |-> {[min |-> 50, pct |-> 10], [min |-> 100, pct |-> 40]},
   premium |-> <<>>, gifts |-> [g \in {"bear", "crown"} |-> 70000]]

MCSettings == {MCPlain, MCTiered}

MCOffers ==
  {[name |-> "icon vpn", price |-> 40000, active |-> TRUE]}

MCFirstCatalog == "vpn" :> [name |-> "vpn", price |-> 30000, active |-> TRUE]

MCIcon == [n \in {"vpn", "icon vpn"} |-> IF n = "vpn" THEN "icon vpn" ELSE "icon icon vpn"]

MCHands == Permutations(Handler) \cup Permutations(Admin)
=============================================================================
