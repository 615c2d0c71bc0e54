--------------------------- MODULE CheckoutProofs ---------------------------
(***************************************************************************)
(* For every number of requests, buyers, keys, price locks and codes, and  *)
(* whatever limits and prices they have: a code keeps its limits, a key    *)
(* buys one order, and the concurrent checkouts implement AtomicCheckout.  *)
(*                                                                         *)
(* The argument is two-phase locking.  What a request checked when it got  *)
(* a row lock (Passed) stays true until its commit, because whoever else   *)
(* changes those rows would have to hold the same lock.  Nothing of the    *)
(* kind can be said of the price lock, which is read without its row lock  *)
(* (PriceLock.cfg).                                                        *)
(***************************************************************************)
EXTENDS Checkout, TLAPS

Statement == [does : {"redeem", "credit", "consume", "debit", "reward"}, row : TableRow]

(* The row lock is held, and what was checked under it still holds.        *)
Passed(r, s) ==
  /\ holder[s.row] = r
  /\ s.does = "redeem" => WithinLimits(plan[r])
  /\ s.does = "credit" => plan[r].code \notin posted
  /\ s.does = "debit" => Affordable(plan[r])

Placed(r) ==
  /\ pc[r] \in {"lookup", "pricing", "working", "answered"} => plan[r] \in Plans
  /\ pc[r] # "working" => at[r] = 1
  /\ \A row \in TableRow : holder[row] = r => pc[r] = "working"
  /\ r \in orders => pc[r] = "answered"
  /\ pc[r] = "working" =>
       /\ at[r] <= Len(Steps(plan[r])) + 1
       /\ \A i \in 1 .. at[r] - 1 : Passed(r, Steps(plan[r])[i])

(* An answer is the order its key is bound to.                             *)
Keyed(r) ==
  answer[r] # None =>
    /\ pc[r] = "answered"
    /\ plan[r].key # None => answer[r] = keys[plan[r].key]

IInv ==
  /\ TypeOK
  /\ CodesWithinLimits
  /\ \A r \in Request : Placed(r)
  /\ \A r \in Request : Keyed(r)

-----------------------------------------------------------------------------
(* Statements of a checkout: which rows they lock, and for what.           *)
About(p, s) ==
  /\ s \in Statement
  /\ s.does = "redeem" => s.row = p.code
  /\ s.does = "credit" => s.row = p.user /\ p.code \in BonusCode
  /\ s.does = "debit" => s.row = p.user

Has(q, s) == \E i \in 1 .. Len(q) : q[i] = s

Fits(p, q) == q \in Seq(Statement) /\ \A i \in 1 .. Len(q) : About(p, q[i])

Joined(p, a, b) ==
  /\ Fits(p, a \o b)
  /\ \A s : Has(a, s) \/ Has(b, s) => Has(a \o b, s)
  /\ Len(a) >= 1 => Len(a \o b) >= 1 /\ (a \o b)[1] = a[1]

(* Statements put one after the other.                                     *)
LEMMA ConcatFits ==
  ASSUME NEW p, NEW a, NEW b, Fits(p, a), Fits(p, b)
  PROVE  Joined(p, a, b)
<1>1. /\ a \in Seq(Statement) /\ b \in Seq(Statement)
      /\ \A i \in 1 .. Len(a) : About(p, a[i])
      /\ \A i \in 1 .. Len(b) : About(p, b[i])
  BY DEF Fits
<1>2. a \o b \in Seq(Statement) /\ Len(a \o b) = Len(a) + Len(b)
  BY <1>1
<1>3. Len(a) \in Nat /\ Len(b) \in Nat
  BY <1>1
<1>4. \A i \in 1 .. Len(a) : i \in 1 .. Len(a \o b) /\ (a \o b)[i] = a[i]
  BY <1>1, <1>2, <1>3
<1>5. \A i \in 1 .. Len(b) :
        Len(a) + i \in 1 .. Len(a \o b) /\ (a \o b)[Len(a) + i] = b[i]
  BY <1>1, <1>2, <1>3
<1>6. ASSUME NEW i \in 1 .. Len(a \o b) PROVE About(p, (a \o b)[i])
  <2>1. CASE i \in 1 .. Len(a)
    BY <2>1, <1>1, <1>4
  <2>2. CASE i \notin 1 .. Len(a)
    <3>1. i - Len(a) \in 1 .. Len(b) /\ i = Len(a) + (i - Len(a))
      BY <2>2, <1>2, <1>3
    <3> QED BY <3>1, <1>1, <1>5
  <2> QED BY <2>1, <2>2
<1>7. ASSUME NEW s, Has(b, s) PROVE Has(a \o b, s)
  <2>1. PICK i \in 1 .. Len(b) : b[i] = s
    BY <1>7 DEF Has
  <2> QED BY <2>1, <1>5 DEF Has
<1>8. ASSUME NEW s, Has(a, s) PROVE Has(a \o b, s)
  BY <1>8, <1>4 DEF Has
<1>9. Fits(p, a \o b)
  BY <1>2, <1>6 DEF Fits
<1>10. Len(a) >= 1 => Len(a \o b) >= 1 /\ (a \o b)[1] = a[1]
  BY <1>2, <1>3, <1>4
<1> QED BY <1>7, <1>8, <1>9, <1>10 DEF Joined

(* One statement.                                                          *)
LEMMA SingleFits ==
  ASSUME NEW p, NEW s, About(p, s)
  PROVE  Fits(p, <<s>>) /\ Has(<<s>>, s)
BY DEF About, Fits, Has

(* No statement.                                                           *)
LEMMA EmptyFits == ASSUME NEW p PROVE Fits(p, <<>>)
BY DEF Fits

(* The types of what a checkout asks for, and of its amounts.              *)
LEMMA PlanFacts ==
  ASSUME NEW p \in Plans
  PROVE  /\ p.user \in User /\ p.lock \in PriceLock \cup {None}
         /\ p.code \in Code \cup {None} /\ p.key \in Key \cup {None}
         /\ p.wallet \in BOOLEAN
         /\ Referrer[p.user] \in User \cup {None} /\ None \notin BonusCode
         /\ Gain(p) \in Nat /\ Due(p) \in Nat /\ Cost(p) \in Nat
<1>1. p \in Plan
  BY PlansAssumption
<1>2. /\ p.user \in User /\ p.lock \in PriceLock \cup {None}
      /\ p.code \in Code \cup {None} /\ p.key \in Key \cup {None}
      /\ p.wallet \in BOOLEAN
  BY <1>1 DEF Plan
<1>3. Referrer[p.user] \in User \cup {None} /\ None \notin BonusCode
  BY <1>2, CatalogAssumption, DistinctAssumption DEF TableRow
<1>4. Gain(p) \in Nat /\ Due(p) \in Nat
  BY <1>2, CatalogAssumption DEF Gain, Due
<1>5. Cost(p) \in Nat
  BY <1>4 DEF Cost
<1> QED BY <1>2, <1>3, <1>4, <1>5

(* What create_order locks, in whatever order: every row that its commit   *)
(* depends on, and the code before anything else.                          *)
LEMMA StepsFit ==
  ASSUME NEW p \in Plans
  PROVE  /\ Fits(p, Steps(p))
         /\ p.code # None => Has(Steps(p), [does |-> "redeem", row |-> p.code])
         /\ p.code # None => Len(Steps(p)) >= 1
                             /\ Steps(p)[1] = [does |-> "redeem", row |-> p.code]
         /\ p.code \in BonusCode => Has(Steps(p), [does |-> "credit", row |-> p.user])
         /\ p.wallet => Has(Steps(p), [does |-> "debit", row |-> p.user])
<1>1. /\ p.user \in User /\ p.lock \in PriceLock \cup {None}
      /\ p.code \in Code \cup {None} /\ p.wallet \in BOOLEAN
      /\ Referrer[p.user] \in User \cup {None} /\ None \notin BonusCode
  BY PlanFacts
<1>2. Fits(p, Debit(p)) /\ (p.wallet => Has(Debit(p), [does |-> "debit", row |-> p.user]))
  <2>1. About(p, [does |-> "debit", row |-> p.user])
    BY <1>1 DEF About, Statement, TableRow
  <2> QED BY <2>1, SingleFits, EmptyFits DEF Debit
<1>3. Fits(p, Consume(p))
  <2>1. p.lock # None => About(p, [does |-> "consume", row |-> p.lock])
    BY <1>1 DEF About, Statement, TableRow
  <2> QED BY <2>1, SingleFits, EmptyFits DEF Consume, Optional
<1>4. Fits(p, Reward(p))
  <2>1. Referrer[p.user] # None => About(p, [does |-> "reward", row |-> Referrer[p.user]])
    BY <1>1 DEF About, Statement, TableRow
  <2> QED BY <2>1, SingleFits, EmptyFits DEF Reward, Optional
<1>5. /\ Fits(p, Redeem(p))
      /\ p.code # None => /\ Has(Redeem(p), [does |-> "redeem", row |-> p.code])
                          /\ Len(Redeem(p)) >= 1
                          /\ Redeem(p)[1] = [does |-> "redeem", row |-> p.code]
  <2>1. p.code # None => About(p, [does |-> "redeem", row |-> p.code])
    BY <1>1 DEF About, Statement, TableRow
  <2>2. CASE p.code = None
    BY <2>2, EmptyFits DEF Redeem, Optional
  <2>3. CASE p.code # None
    <3>1. Redeem(p) = << [does |-> "redeem", row |-> p.code] >>
      BY <2>3 DEF Redeem, Optional
    <3> QED BY <3>1, <2>1, <2>3, SingleFits
  <2> QED BY <2>2, <2>3
<1>6. p.code \in BonusCode =>
        Fits(p, Credit(p)) /\ Has(Credit(p), [does |-> "credit", row |-> p.user])
  <2>1. p.code \in BonusCode => About(p, [does |-> "credit", row |-> p.user])
    BY <1>1 DEF About, Statement, TableRow
  <2> QED BY <2>1, SingleFits DEF Credit
<1>7. CASE p.code = None
  <2>1. Steps(p) = (Debit(p) \o Consume(p)) \o Reward(p)
    BY <1>1, <1>7 DEF Steps
  <2> DEFINE a == Debit(p) \o Consume(p)
  <2>2. Joined(p, Debit(p), Consume(p))
    BY <1>2, <1>3, ConcatFits
  <2>3. Joined(p, a, Reward(p))
    <3>1. Fits(p, a)
      BY <2>2 DEF Joined
    <3> HIDE DEF a
    <3> QED BY <3>1, <1>4, ConcatFits
  <2> HIDE DEF a
  <2> QED BY <2>1, <2>2, <2>3, <1>1, <1>2, <1>7 DEF Joined, a
<1>8. CASE p.code # None /\ p.code \in BonusCode
  <2>1. Steps(p) = (((Redeem(p) \o Credit(p)) \o Consume(p)) \o Debit(p)) \o Reward(p)
    BY <1>8 DEF Steps
  <2> DEFINE a == Redeem(p) \o Credit(p)
             b == a \o Consume(p)
             c == b \o Debit(p)
  <2>2. Joined(p, Redeem(p), Credit(p))
    BY <1>5, <1>6, <1>8, ConcatFits
  <2>3. Joined(p, a, Consume(p))
    <3>1. Fits(p, a)
      BY <2>2 DEF Joined
    <3> HIDE DEF a
    <3> QED BY <3>1, <1>3, ConcatFits
  <2>4. Joined(p, b, Debit(p))
    <3>1. Fits(p, b)
      BY <2>3 DEF Joined
    <3> HIDE DEF b
    <3> QED BY <3>1, <1>2, ConcatFits
  <2>5. Joined(p, c, Reward(p))
    <3>1. Fits(p, c)
      BY <2>4 DEF Joined
    <3> HIDE DEF c
    <3> QED BY <3>1, <1>4, ConcatFits
  <2>6. Len(a) >= 1 /\ a[1] = Redeem(p)[1]
    BY <2>2, <1>5, <1>8 DEF Joined
  <2>7. Len(b) >= 1 /\ b[1] = a[1]
    <3> HIDE DEF a
    <3> QED BY <2>3, <2>6 DEF Joined
  <2>8. Len(c) >= 1 /\ c[1] = b[1]
    <3> HIDE DEF b
    <3> QED BY <2>4, <2>7 DEF Joined
  <2>9. Steps(p) = c \o Reward(p)
    BY <2>1
  <2> HIDE DEF a, b, c
  <2>10. \A s : Has(Redeem(p), s) \/ Has(Credit(p), s) \/ Has(Debit(p), s) => Has(Steps(p), s)
    BY <2>2, <2>3, <2>4, <2>5, <2>9 DEF Joined, a, b, c
  <2>11. Len(Steps(p)) >= 1 /\ Steps(p)[1] = Redeem(p)[1]
    BY <2>5, <2>6, <2>7, <2>8, <2>9 DEF Joined
  <2> QED BY <2>5, <2>9, <2>10, <2>11, <1>2, <1>5, <1>6, <1>8 DEF Joined
<1>9. CASE p.code # None /\ p.code \notin BonusCode
  <2>1. Steps(p) = ((Redeem(p) \o Consume(p)) \o Debit(p)) \o Reward(p)
    BY <1>9 DEF Steps
  <2> DEFINE a == Redeem(p) \o Consume(p)
             c == a \o Debit(p)
  <2>2. Joined(p, Redeem(p), Consume(p))
    BY <1>3, <1>5, ConcatFits
  <2>3. Joined(p, a, Debit(p))
    <3>1. Fits(p, a)
      BY <2>2 DEF Joined
    <3> HIDE DEF a
    <3> QED BY <3>1, <1>2, ConcatFits
  <2>4. Joined(p, c, Reward(p))
    <3>1. Fits(p, c)
      BY <2>3 DEF Joined
    <3> HIDE DEF c
    <3> QED BY <3>1, <1>4, ConcatFits
  <2>5. Len(a) >= 1 /\ a[1] = Redeem(p)[1]
    BY <2>2, <1>5, <1>9 DEF Joined
  <2>6. Len(c) >= 1 /\ c[1] = a[1]
    <3> HIDE DEF a
    <3> QED BY <2>3, <2>5 DEF Joined
  <2>7. Steps(p) = c \o Reward(p)
    BY <2>1
  <2> HIDE DEF a, c
  <2>8. \A s : Has(Redeem(p), s) \/ Has(Debit(p), s) => Has(Steps(p), s)
    BY <2>2, <2>3, <2>4, <2>7 DEF Joined, a, c
  <2>9. Len(Steps(p)) >= 1 /\ Steps(p)[1] = Redeem(p)[1]
    BY <2>4, <2>5, <2>6, <2>7 DEF Joined
  <2> QED BY <2>4, <2>7, <2>8, <2>9, <1>2, <1>5, <1>9 DEF Joined
<1> QED BY <1>1, <1>7, <1>8, <1>9
-----------------------------------------------------------------------------
(* What a request checked under a row lock.                                *)
LEMMA PassedFacts ==
  ASSUME IInv, NEW r \in Request, pc[r] = "working", at[r] > 1
  PROVE  /\ plan[r] \in Plans
         /\ plan[r].code # None => holder[plan[r].code] = r
<1>1. plan[r] \in Plans
  BY DEF IInv, Placed
<1>2. at[r] \in Nat /\ \A i \in 1 .. at[r] - 1 : Passed(r, Steps(plan[r])[i])
  BY DEF IInv, Placed, TypeOK
<1>3. 1 \in 1 .. at[r] - 1
  BY <1>2
<1>4. Passed(r, Steps(plan[r])[1])
  BY <1>2, <1>3
<1>5. holder[Steps(plan[r])[1].row] = r
  BY <1>4 DEF Passed
<1>6. plan[r].code # None => Steps(plan[r])[1] = [does |-> "redeem", row |-> plan[r].code]
  BY <1>1, StepsFit
<1> QED BY <1>1, <1>5, <1>6

(* At the commit every row it depends on is locked, and nothing that was   *)
(* checked has changed.                                                    *)
LEMMA CommitReady ==
  ASSUME IInv, NEW r \in Request, Written(r)
  PROVE  LET p == plan[r] IN
         /\ p \in Plans
         /\ p.code # None => holder[p.code] = r /\ WithinLimits(p)
         /\ p.code \in BonusCode => holder[p.user] = r /\ p.code \notin posted
         /\ p.wallet => holder[p.user] = r /\ Affordable(p)
<1> DEFINE p == plan[r]
<1>1. pc[r] = "working" /\ at[r] > Len(Steps(p))
  BY DEF Written
<1>2. /\ p \in Plans
      /\ at[r] \in Nat
      /\ \A i \in 1 .. at[r] - 1 : Passed(r, Steps(p)[i])
  BY <1>1 DEF IInv, Placed, TypeOK
<1>3. Len(Steps(p)) \in Nat
  BY <1>2, StepsFit DEF Fits
<1>4. \A i \in 1 .. Len(Steps(p)) : Passed(r, Steps(p)[i])
  BY <1>1, <1>2, <1>3
<1>5. \A s : Has(Steps(p), s) => Passed(r, s)
  BY <1>4 DEF Has
<1>6. p.code # None => Passed(r, [does |-> "redeem", row |-> p.code])
  BY <1>2, <1>5, StepsFit
<1>7. p.code \in BonusCode => Passed(r, [does |-> "credit", row |-> p.user])
  BY <1>2, <1>5, StepsFit
<1>8. p.wallet => Passed(r, [does |-> "debit", row |-> p.user])
  BY <1>2, <1>5, StepsFit
<1> QED BY <1>2, <1>6, <1>7, <1>8 DEF Passed

(* A commit disturbs nothing that another request has checked: it would    *)
(* have to hold the same row lock.                                         *)
LEMMA CommitKeepsPassed ==
  ASSUME IInv, NEW q \in Request, Commit(q),
         NEW r \in Request, r # q, pc[r] = "working",
         NEW s, About(plan[r], s), Passed(r, s), at[r] > 1
  PROVE  Passed(r, s)'
<1>1. Written(q)
  BY DEF Commit
<1>2. /\ plan[r] \in Plans /\ plan' = plan
      /\ plan[r].code # None => holder[plan[r].code] = r
  BY PassedFacts DEF Commit, Answers
<1>3. /\ plan[q] \in Plans
      /\ plan[q].code # None => holder[plan[q].code] = q
      /\ plan[q].code \in BonusCode => holder[plan[q].user] = q
      /\ plan[q].wallet => holder[plan[q].user] = q
  BY <1>1, CommitReady
<1>4. /\ plan[r].user \in User /\ plan[r].code \in Code \cup {None}
      /\ plan[q].code \in Code \cup {None} /\ None \notin BonusCode
      /\ plan[q].wallet \in BOOLEAN
  BY <1>2, <1>3, PlanFacts
<1>5. s \in Statement /\ s.row \in TableRow
  BY DEF About, Statement
<1>6. holder'[s.row] = r
  BY <1>5 DEF Passed, Commit, Answers, Released
<1>7. plan[r].code # None => plan[q].code # plan[r].code
  BY <1>2, <1>3
<1>8. ASSUME plan[r].code # None
      PROVE  WithinLimits(plan[r])' = WithinLimits(plan[r])
  <2>1. uses'[plan[r].code] = uses[plan[r].code]
    BY <1>4, <1>7, <1>8 DEF Commit
  <2>2. redeemed'[plan[r].code] = redeemed[plan[r].code]
    BY <1>4, <1>7, <1>8 DEF Commit
  <2> QED BY <2>1, <2>2, <1>2 DEF WithinLimits
<1>9. plan[r].code # None /\ plan[r].code \notin posted => plan[r].code \notin posted'
  BY <1>7 DEF Commit
<1>10. ASSUME s.does = "debit"
       PROVE  Affordable(plan[r])'
  <2>1. holder[plan[r].user] = r /\ Affordable(plan[r])
    BY <1>10 DEF About, Passed
  <2>2. /\ balance \in [User -> Nat]
        /\ plan[r].user # plan[q].user \/ Gain(plan[q]) - Cost(plan[q]) = 0
    <3>1. balance \in [User -> Nat]
      BY DEF IInv, TypeOK
    <3>2. plan[r].user = plan[q].user => ~plan[q].wallet /\ plan[q].code \notin BonusCode
      BY <1>3, <2>1
    <3>3. ~plan[q].wallet /\ plan[q].code \notin BonusCode
          => Gain(plan[q]) = 0 /\ Cost(plan[q]) = 0
      BY DEF Gain, Cost
    <3> QED BY <3>1, <3>2, <3>3
  <2>3. balance'[plan[r].user] = balance[plan[r].user]
    <3>1. Gain(plan[q]) \in Nat /\ Cost(plan[q]) \in Nat
      BY <1>3, PlanFacts
    <3>2. balance' = [balance EXCEPT ![plan[q].user] = @ + Gain(plan[q]) - Cost(plan[q])]
      BY DEF Commit
    <3> HIDE DEF Gain, Cost
    <3> QED BY <3>1, <3>2, <2>2, <1>4
  <2> QED BY <2>1, <2>3, <1>2 DEF Affordable
<1>11. s.does = "redeem" => s.row = plan[r].code
  BY DEF About
<1>12. s.does = "credit" => plan[r].code \in BonusCode
  BY DEF About
<1>13. s.does = "redeem" => plan[r].code # None
  BY <1>5, <1>11, DistinctAssumption
<1>14. s.does = "redeem" => WithinLimits(plan[r])'
  BY <1>8, <1>13 DEF Passed
<1>15. s.does = "credit" => plan'[r].code \notin posted'
  BY <1>2, <1>4, <1>9, <1>12 DEF Passed
<1> QED BY <1>6, <1>10, <1>14, <1>15 DEF Passed
-----------------------------------------------------------------------------
(* Before any checkout.                                                    *)
LEMMA InitInvariant == Init => IInv
<1> SUFFICES ASSUME Init PROVE IInv
  OBVIOUS
<1>1. TypeOK
  BY CatalogAssumption DEF Init, TypeOK, Ended
<1>2. CodesWithinLimits
  BY CatalogAssumption DEF Init, CodesWithinLimits
<1>3. \A r \in Request : Placed(r)
  BY DistinctAssumption DEF Init, Placed
<1>4. \A r \in Request : Keyed(r)
  BY DEF Init, Keyed
<1> QED BY <1>1, <1>2, <1>3, <1>4 DEF IInv

(* A request that a step leaves alone, and which keeps its rows.           *)
LEMMA OthersPlaced ==
  ASSUME IInv, NEW r \in Request,
         pc'[r] = pc[r], at'[r] = at[r], plan'[r] = plan[r],
         r \in orders' => r \in orders,
         \A row \in TableRow : holder'[row] = r <=> holder[row] = r,
         pc[r] = "working" =>
           \A i \in 1 .. at[r] - 1 :
             Passed(r, Steps(plan[r])[i]) => Passed(r, Steps(plan[r])[i])'
  PROVE  Placed(r)'
<1>1. Placed(r)
  BY DEF IInv
<1>2. Steps(plan'[r]) = Steps(plan[r])
  OBVIOUS
<1>3. ASSUME pc[r] = "working"
      PROVE  /\ at[r] <= Len(Steps(plan[r])) + 1
             /\ \A i \in 1 .. at[r] - 1 : Passed(r, Steps(plan[r])[i])'
  BY <1>1, <1>3 DEF Placed
<1> QED BY <1>1, <1>2, <1>3 DEF Placed

(* The same when the step writes nothing.                                  *)
LEMMA OthersUndisturbed ==
  ASSUME IInv, UNCHANGED books, NEW r \in Request,
         pc'[r] = pc[r], at'[r] = at[r], plan'[r] = plan[r],
         \A row \in TableRow : holder'[row] = r <=> holder[row] = r
  PROVE  Placed(r)'
<1>1. UNCHANGED <<balance, uses, redeemed, posted, orders>>
  BY DEF books
<1>2. ASSUME pc[r] = "working", NEW i \in 1 .. at[r] - 1, Passed(r, Steps(plan[r])[i])
      PROVE  Passed(r, Steps(plan[r])[i])'
  <2> DEFINE s == Steps(plan[r])[i]
  <2>1. About(plan[r], s)
    <3>1. /\ plan[r] \in Plans /\ at[r] \in Nat
          /\ at[r] <= Len(Steps(plan[r])) + 1
      BY <1>2 DEF IInv, Placed, TypeOK
    <3>2. Fits(plan[r], Steps(plan[r]))
      BY <3>1, StepsFit
    <3>3. i \in 1 .. Len(Steps(plan[r]))
      BY <3>1, <3>2 DEF Fits
    <3> QED BY <3>2, <3>3 DEF Fits
  <2>2. s.row \in TableRow
    BY <2>1 DEF About, Statement
  <2>3. s' = s
    OBVIOUS
  <2>4. WithinLimits(plan[r])' = WithinLimits(plan[r])
    BY <1>1 DEF WithinLimits
  <2>5. Affordable(plan[r])' = Affordable(plan[r])
    BY <1>1 DEF Affordable
  <2> HIDE DEF s
  <2>6. Passed(r, s)'
    BY <1>1, <1>2, <2>2, <2>3, <2>4, <2>5 DEF Passed, s
  <2> QED BY <2>6 DEF s
<1> QED BY <1>1, <1>2, OthersPlaced
-----------------------------------------------------------------------------
(* Steps that end without an order, or have not come to one.               *)
(* Releasing frees the rows of one transaction and no other.               *)
LEMMA RowFacts ==
  ASSUME IInv, NEW q \in Request
  PROVE  /\ Released(q) \in [TableRow -> Request \cup {None}]
         /\ \A row \in TableRow : Released(q)[row] # q
         /\ \A r \in Request \ {q} : \A row \in TableRow :
              Released(q)[row] = r <=> holder[row] = r
BY DistinctAssumption DEF IInv, TypeOK, Released

(* A rollback.                                                             *)
LEMMA FailKeeps ==
  ASSUME IInv, NEW q \in Request, pc[q] \in {"lookup", "pricing", "working"}, Fail(q)
  PROVE  IInv'
<1> USE DEF Fail
<1>1. TypeOK'
  BY RowFacts DEF IInv, TypeOK, Ended, books
<1>2. CodesWithinLimits'
  BY DEF IInv, CodesWithinLimits, books
<1>3. ASSUME NEW r \in Request PROVE Placed(r)'
  <2>1. CASE r = q
    <3>1. q \notin orders
      BY DEF IInv, Placed
    <3>2. /\ pc'[q] = "failed" /\ at'[q] = 1 /\ orders' = orders
          /\ \A row \in TableRow : holder'[row] # q
      BY RowFacts DEF IInv, TypeOK, books
    <3> QED BY <2>1, <3>1, <3>2 DEF Placed
  <2>2. CASE r # q
    <3>1. /\ pc'[r] = pc[r] /\ at'[r] = at[r] /\ plan'[r] = plan[r]
          /\ \A row \in TableRow : holder'[row] = r <=> holder[row] = r
      BY <2>2, RowFacts DEF IInv, TypeOK
    <3> QED BY <3>1, OthersUndisturbed
  <2> QED BY <2>1, <2>2
<1>4. ASSUME NEW r \in Request PROVE Keyed(r)'
  <2>1. Keyed(r) /\ Keyed(q)
    BY DEF IInv
  <2>2. answer' = answer /\ keys' = keys /\ (answer[r] # None => r # q)
    BY <2>1 DEF Keyed, books
  <2> QED BY <2>1, <2>2 DEF Keyed, IInv, TypeOK
<1> QED BY <1>1, <1>2, <1>3, <1>4 DEF IInv

(* A request that moves on, holding no row yet.                            *)
LEMMA MovesOn ==
  ASSUME IInv, NEW q \in Request, UNCHANGED <<books, at, holder, answer>>,
         pc[q] \in {"idle", "lookup", "pricing"},
         NEW place \in {"lookup", "pricing", "working"}, pc' = [pc EXCEPT ![q] = place],
         NEW p \in Plans, plan' = [plan EXCEPT ![q] = p]
  PROVE  IInv'
<1>1. TypeOK'
  BY DEF IInv, TypeOK, Ended, books
<1>2. CodesWithinLimits'
  BY DEF IInv, CodesWithinLimits, books
<1>3. ASSUME NEW r \in Request PROVE Placed(r)'
  <2>1. CASE r = q
    <3>1. /\ q \notin orders /\ at[q] = 1
          /\ \A row \in TableRow : holder[row] # q
      BY DEF IInv, Placed
    <3>2. pc'[q] = place /\ plan'[q] = p /\ at' = at /\ holder' = holder /\ orders' = orders
      BY DEF IInv, TypeOK, books
    <3>3. Len(Steps(p)) \in Nat
      BY StepsFit DEF Fits
    <3> QED BY <2>1, <3>1, <3>2, <3>3 DEF Placed
  <2>2. CASE r # q
    <3>1. /\ pc'[r] = pc[r] /\ at'[r] = at[r] /\ plan'[r] = plan[r]
          /\ \A row \in TableRow : holder'[row] = r <=> holder[row] = r
      BY <2>2 DEF IInv, TypeOK
    <3> QED BY <3>1, OthersUndisturbed
  <2> QED BY <2>1, <2>2
<1>4. ASSUME NEW r \in Request PROVE Keyed(r)'
  <2>1. Keyed(r) /\ Keyed(q)
    BY DEF IInv
  <2>2. answer' = answer /\ keys' = keys /\ (answer[r] # None => r # q)
    BY <2>1 DEF Keyed, books
  <2> QED BY <2>1, <2>2 DEF Keyed, IInv, TypeOK
<1> QED BY <1>1, <1>2, <1>3, <1>4 DEF IInv

(* An answer that repeats the order of the key.                            *)
LEMMA RepeatKeeps ==
  ASSUME IInv, NEW q \in Request, pc[q] \in {"lookup", "working"},
         KeyTaken(plan[q]), Answers(q, keys[plan[q].key]), UNCHANGED books
  PROVE  IInv'
<1> USE DEF Answers
<1>1. plan[q] \in Plans /\ q \notin orders
  BY DEF IInv, Placed
<1>2. plan[q].key \in Key /\ keys[plan[q].key] \in Request
  BY <1>1, PlanFacts DEF KeyTaken, IInv, TypeOK
<1>3. TypeOK'
  BY <1>2, RowFacts DEF IInv, TypeOK, Ended, books
<1>4. CodesWithinLimits'
  BY DEF IInv, CodesWithinLimits, books
<1>5. ASSUME NEW r \in Request PROVE Placed(r)'
  <2>1. CASE r = q
    <3>1. /\ pc'[q] = "answered" /\ at'[q] = 1 /\ orders' = orders /\ plan' = plan
          /\ \A row \in TableRow : holder'[row] # q
      BY RowFacts DEF IInv, TypeOK, books
    <3> QED BY <1>1, <2>1, <3>1 DEF Placed
  <2>2. CASE r # q
    <3>1. /\ pc'[r] = pc[r] /\ at'[r] = at[r] /\ plan'[r] = plan[r]
          /\ \A row \in TableRow : holder'[row] = r <=> holder[row] = r
      BY <2>2, RowFacts DEF IInv, TypeOK
    <3> QED BY <3>1, OthersUndisturbed
  <2> QED BY <2>1, <2>2
<1>6. ASSUME NEW r \in Request PROVE Keyed(r)'
  <2>1. Keyed(r) /\ plan' = plan /\ keys' = keys
    BY DEF IInv, books
  <2>2. CASE r = q
    <3>1. pc'[q] = "answered" /\ answer'[q] = keys[plan[q].key]
      BY DEF IInv, TypeOK
    <3> QED BY <2>1, <2>2, <3>1 DEF Keyed
  <2>3. CASE r # q
    <3>1. pc'[r] = pc[r] /\ answer'[r] = answer[r]
      BY <2>3 DEF IInv, TypeOK
    <3> QED BY <2>1, <3>1 DEF Keyed
  <2> QED BY <2>2, <2>3
<1> QED BY <1>3, <1>4, <1>5, <1>6 DEF IInv
(* A statement gets its row: what it checks joins what is known.           *)
LEMMA ProceedKeeps ==
  ASSUME IInv, NEW q \in Request, Proceed(q)
  PROVE  IInv'
<1> DEFINE p == plan[q]
<1>0. PICK n, s : n = at[q] /\ s = Steps(p)[n]
  OBVIOUS
<1>1. /\ pc[q] = "working" /\ n <= Len(Steps(p))
      /\ holder[s.row] \in {None, q} /\ Passes(q)
      /\ holder' = [holder EXCEPT ![s.row] = q]
      /\ at' = [at EXCEPT ![q] = at[q] + 1]
      /\ UNCHANGED <<books, plan, pc, answer>>
  BY <1>0 DEF Proceed, Working, Unlocked, Step
<1>2. /\ p \in Plans /\ n \in Nat \ {0} /\ q \notin orders
      /\ \A i \in 1 .. n - 1 : Passed(q, Steps(p)[i])
  BY <1>0, <1>1 DEF IInv, Placed, TypeOK
<1>3. Fits(p, Steps(p))
  BY <1>2, StepsFit
<1>4. Len(Steps(p)) \in Nat
  BY <1>3 DEF Fits
<1>5. About(p, s)
  BY <1>0, <1>1, <1>2, <1>3, <1>4 DEF Fits
<1>6. s.row \in TableRow
  BY <1>5 DEF About, Statement
<1>7. UNCHANGED <<balance, uses, redeemed, posted, used, orders, keys>>
  BY <1>1 DEF books
<1>8. /\ at'[q] = n + 1 /\ holder'[s.row] = q
      /\ \A row \in TableRow : holder[row] = q => holder'[row] = q
  BY <1>0, <1>1, <1>2, <1>6 DEF IInv, TypeOK
<1>9. TypeOK'
  BY <1>0, <1>1, <1>2, <1>6 DEF IInv, TypeOK, books
<1>10. CodesWithinLimits'
  BY <1>7 DEF IInv, CodesWithinLimits
<1>11. Passed(q, s)'
  <2>1. Step(q) = s
    BY <1>0 DEF Step
  <2>2. /\ s.does = "redeem" => WithinLimits(p)
        /\ s.does = "credit" => p.code \notin posted
        /\ s.does = "debit" => Affordable(p)
    BY <1>1, <2>1 DEF Passes
  <2>3. WithinLimits(p)' = WithinLimits(p) /\ Affordable(p)' = Affordable(p)
    BY <1>1, <1>7 DEF WithinLimits, Affordable
  <2> QED BY <1>1, <1>7, <1>8, <2>2, <2>3 DEF Passed
<1>12. ASSUME NEW r \in Request PROVE Placed(r)'
  <2>1. CASE r = q
    <3>1. ASSUME NEW i \in 1 .. n PROVE Passed(q, Steps(p)[i])'
      <4>1. CASE i = n
        <5>1. Steps(p)[i]' = s
          BY <4>1, <1>0, <1>1
        <5> QED BY <5>1, <1>11 DEF Passed
      <4>2. CASE i # n
        <5>1. i \in 1 .. n - 1 /\ i \in 1 .. Len(Steps(p))
          BY <4>2, <1>1, <1>2, <1>4
        <5>2. Passed(q, Steps(p)[i]) /\ About(p, Steps(p)[i])
          BY <5>1, <1>2, <1>3 DEF Fits
        <5>3. PICK e : e = Steps(p)[i]
          OBVIOUS
        <5>4. e.row \in TableRow /\ Passed(q, e)
          BY <5>2, <5>3 DEF About, Statement
        <5>5. WithinLimits(p)' = WithinLimits(p) /\ Affordable(p)' = Affordable(p)
          BY <1>1, <1>7 DEF WithinLimits, Affordable
        <5>6. Passed(q, e)'
          BY <5>4, <5>5, <1>1, <1>7, <1>8 DEF Passed
        <5>7. Steps(p)[i]' = e
          BY <5>3, <1>1
        <5> QED BY <5>6, <5>7 DEF Passed
      <4> QED BY <4>1, <4>2
    <3>2. Placed(q)'
      BY <1>1, <1>2, <1>4, <1>7, <1>8, <3>1 DEF Placed
    <3> QED BY <2>1, <3>2
  <2>2. CASE r # q
    <3>1. /\ pc'[r] = pc[r] /\ at'[r] = at[r] /\ plan'[r] = plan[r]
          /\ \A row \in TableRow : holder'[row] = r <=> holder[row] = r
      BY <1>1, <1>6, <2>2, DistinctAssumption DEF IInv, TypeOK
    <3> QED BY <1>1, <3>1, OthersUndisturbed
  <2> QED BY <2>1, <2>2
<1>13. ASSUME NEW r \in Request PROVE Keyed(r)'
  BY <1>1, <1>7 DEF IInv, Keyed
<1> QED BY <1>9, <1>10, <1>12, <1>13 DEF IInv
(* The commit.                                                             *)
LEMMA CommitKeeps ==
  ASSUME IInv, NEW q \in Request, Commit(q)
  PROVE  IInv'
<1> DEFINE p == plan[q]
<1>1. /\ Written(q) /\ pc[q] = "working" /\ plan' = plan /\ ~KeyTaken(p)
      /\ pc' = [pc EXCEPT ![q] = "answered"] /\ at' = [at EXCEPT ![q] = 1]
      /\ answer' = [answer EXCEPT ![q] = q] /\ holder' = Released(q)
      /\ orders' = orders \cup {q}
      /\ keys' = [k \in Key |-> IF k = p.key THEN q ELSE keys[k]]
      /\ balance' = [balance EXCEPT ![p.user] = @ + Gain(p) - Cost(p)]
      /\ uses' = [c \in Code |-> IF c = p.code THEN uses[c] + 1 ELSE uses[c]]
      /\ redeemed' = [c \in Code |-> IF c = p.code
                                     THEN [redeemed[c] EXCEPT ![p.user] = @ + 1]
                                     ELSE redeemed[c]]
      /\ posted' = posted \cup ({p.code} \cap BonusCode)
      /\ used' = used \cup ({p.lock} \cap PriceLock)
  BY DEF Commit, Answers, Written
<1>2. /\ p \in Plans
      /\ p.code # None => holder[p.code] = q /\ WithinLimits(p)
      /\ p.code \in BonusCode => holder[p.user] = q /\ p.code \notin posted
      /\ p.wallet => holder[p.user] = q /\ Affordable(p)
  BY <1>1, CommitReady
<1>3. /\ p.user \in User /\ p.code \in Code \cup {None} /\ p.wallet \in BOOLEAN
      /\ Gain(p) \in Nat /\ Due(p) \in Nat /\ Cost(p) \in Nat
  BY <1>2, PlanFacts
<1>4. TypeOK'
  <2>1. balance[p.user] + Gain(p) - Cost(p) \in Nat
    <3>1. balance[p.user] \in Nat
      BY <1>3 DEF IInv, TypeOK
    <3>2. p.wallet => balance[p.user] + Gain(p) >= Due(p)
      BY <1>2 DEF Affordable
    <3>3. Cost(p) = IF p.wallet THEN Due(p) ELSE 0
      BY DEF Cost
    <3> HIDE DEF p
    <3> QED BY <3>1, <3>2, <3>3, <1>3
  <2>2. balance' \in [User -> Nat]
    BY <2>1, <1>1, <1>3 DEF IInv, TypeOK
  <2>3. uses' \in [Code -> Nat] /\ redeemed' \in [Code -> [User -> Nat]]
    BY <1>1, <1>3 DEF IInv, TypeOK
  <2>4. posted' \subseteq BonusCode /\ used' \subseteq PriceLock /\ orders' \subseteq Request
    BY <1>1 DEF IInv, TypeOK
  <2>5. keys' \in [Key -> Request \cup {None}]
    BY <1>1 DEF IInv, TypeOK
  <2>6. /\ plan' \in [Request -> Plans \cup {None}]
        /\ pc' \in [Request -> {"idle", "lookup", "pricing", "working"} \cup Ended]
        /\ at' \in [Request -> Nat \ {0}]
        /\ holder' \in [TableRow -> Request \cup {None}]
        /\ answer' \in [Request -> Request \cup {None}]
    BY <1>1, RowFacts DEF IInv, TypeOK, Ended
  <2> QED BY <2>2, <2>3, <2>4, <2>5, <2>6 DEF TypeOK
<1>5. CodesWithinLimits'
  <2> SUFFICES ASSUME NEW c \in Code
               PROVE  /\ uses'[c] <= MaxUses[c]
                      /\ \A u \in User : redeemed'[c][u] <= MaxPerUser[c]
    BY DEF CodesWithinLimits
  <2>1. /\ uses[c] <= MaxUses[c] /\ \A u \in User : redeemed[c][u] <= MaxPerUser[c]
        /\ uses[c] \in Nat /\ redeemed[c] \in [User -> Nat]
        /\ MaxUses[c] \in Nat /\ MaxPerUser[c] \in Nat
    BY CatalogAssumption DEF IInv, TypeOK, CodesWithinLimits
  <2>2. CASE c # p.code
    BY <2>1, <2>2, <1>1
  <2>3. CASE c = p.code
    <3>1. uses[c] < MaxUses[c] /\ redeemed[c][p.user] < MaxPerUser[c]
      BY <2>3, <1>2, DistinctAssumption DEF WithinLimits, TableRow
    <3>2. uses'[c] = uses[c] + 1 /\ redeemed'[c] = [redeemed[c] EXCEPT ![p.user] = @ + 1]
      BY <2>3, <1>1
    <3> QED BY <3>1, <3>2, <2>1, <1>3
  <2> QED BY <2>2, <2>3
<1>6. ASSUME NEW r \in Request PROVE Placed(r)'
  <2>1. CASE r = q
    <3>1. /\ pc'[q] = "answered" /\ at'[q] = 1 /\ plan'[q] = p
          /\ \A row \in TableRow : holder'[row] # q
      BY <1>1, RowFacts DEF IInv, TypeOK
    <3> QED BY <2>1, <3>1, <1>2 DEF Placed
  <2>2. CASE r # q
    <3>1. /\ pc'[r] = pc[r] /\ at'[r] = at[r] /\ plan'[r] = plan[r]
          /\ \A row \in TableRow : holder'[row] = r <=> holder[row] = r
          /\ r \in orders' => r \in orders
      BY <1>1, <2>2, RowFacts DEF IInv, TypeOK
    <3>2. ASSUME pc[r] = "working", NEW i \in 1 .. at[r] - 1,
                 Passed(r, Steps(plan[r])[i])
          PROVE  Passed(r, Steps(plan[r])[i])'
      <4>1. /\ plan[r] \in Plans /\ at[r] \in Nat
            /\ at[r] <= Len(Steps(plan[r])) + 1
        BY <3>2 DEF IInv, Placed, TypeOK
      <4>2. Fits(plan[r], Steps(plan[r]))
        BY <4>1, StepsFit
      <4>3. i \in 1 .. Len(Steps(plan[r])) /\ at[r] > 1
        BY <4>1, <4>2 DEF Fits
      <4>4. PICK s : s = Steps(plan[r])[i]
        OBVIOUS
      <4>5. About(plan[r], s) /\ Passed(r, s)
        BY <3>2, <4>2, <4>3, <4>4 DEF Fits
      <4>6. Passed(r, s)'
        BY <2>2, <3>2, <4>3, <4>5, CommitKeepsPassed
      <4>7. Steps(plan[r])[i]' = s
        BY <4>4, <1>1
      <4> QED BY <4>6, <4>7 DEF Passed
    <3> QED BY <3>1, <3>2, OthersPlaced
  <2> QED BY <2>1, <2>2
<1>7. ASSUME NEW r \in Request PROVE Keyed(r)'
  <2>1. Keyed(r)
    BY DEF IInv
  <2>2. p.key \in Key \cup {None} /\ None \notin Key
    BY <1>2, PlanFacts, DistinctAssumption
  <2>3. CASE r = q
    <3>1. pc'[q] = "answered" /\ answer'[q] = q /\ plan'[q] = p
      BY <1>1 DEF IInv, TypeOK
    <3>2. p.key # None => keys'[p.key] = q
      BY <1>1, <2>2
    <3> QED BY <2>3, <3>1, <3>2 DEF Keyed
  <2>4. CASE r # q
    <3>1. pc'[r] = pc[r] /\ answer'[r] = answer[r] /\ plan'[r] = plan[r]
      BY <1>1, <2>4 DEF IInv, TypeOK
    <3>2. ASSUME answer[r] # None, plan[r].key # None
          PROVE  answer[r] = keys'[plan[r].key]
      <4>1. pc[r] = "answered" /\ answer[r] = keys[plan[r].key]
        BY <2>1, <3>2 DEF Keyed
      <4>2. plan[r].key \in Key
        BY <3>2, <4>1, PlanFacts DEF IInv, Placed
      <4>3. plan[r].key # p.key
        BY <3>2, <4>1, <1>1 DEF KeyTaken
      <4> QED BY <4>1, <4>2, <4>3, <1>1
    <3> QED BY <2>1, <3>1, <3>2 DEF Keyed
  <2> QED BY <2>3, <2>4
<1> QED BY <1>4, <1>5, <1>6, <1>7 DEF IInv

-----------------------------------------------------------------------------
(* Every action, and stuttering.                                           *)
LEMMA NextInvariant == IInv /\ [Next]_vars => IInv'
<1> SUFFICES ASSUME IInv, [Next]_vars PROVE IInv'
  OBVIOUS
<1>1. ASSUME NEW q \in Request, Begin(q) PROVE IInv'
  <2>1. PICK p \in Plans : plan' = [plan EXCEPT ![q] = p]
    BY <1>1 DEF Begin
  <2> QED BY <2>1, <1>1, MovesOn DEF Begin
<1>2. ASSUME NEW q \in Request, TurnAway(q) PROVE IInv'
  <2>1. pc[q] \in {"lookup", "pricing", "working"} /\ Fail(q)
    BY <1>2 DEF TurnAway, Working
  <2> QED BY <2>1, FailKeeps
<1>3. ASSUME NEW q \in Request, AnswerKnown(q) PROVE IInv'
  BY <1>3, RepeatKeeps DEF AnswerKnown
<1>4. ASSUME NEW q \in Request, LookUpKey(q) \/ ReadPrice(q) PROVE IInv'
  <2>1. /\ pc[q] \in {"idle", "lookup", "pricing"}
        /\ UNCHANGED <<books, at, holder, answer>> /\ plan' = plan
        /\ \E place \in {"lookup", "pricing", "working"} : pc' = [pc EXCEPT ![q] = place]
    BY <1>4 DEF LookUpKey, ReadPrice
  <2>2. plan[q] \in Plans /\ plan' = [plan EXCEPT ![q] = plan[q]]
    BY <1>4, <2>1 DEF LookUpKey, ReadPrice, IInv, Placed, TypeOK
  <2>3. PICK place \in {"lookup", "pricing", "working"} : pc' = [pc EXCEPT ![q] = place]
    BY <2>1
  <2>4. PICK p \in Plans : plan' = [plan EXCEPT ![q] = p]
    BY <2>2
  <2> QED BY <2>1, <2>3, <2>4, MovesOn
<1>5. ASSUME NEW q \in Request, PriceLockUsed(q) PROVE IInv'
  BY <1>5, FailKeeps DEF PriceLockUsed
<1>6. ASSUME NEW q \in Request, Proceed(q) PROVE IInv'
  BY <1>6, ProceedKeeps
<1>7. ASSUME NEW q \in Request, Refuse(q) PROVE IInv'
  <2>1. pc[q] \in {"lookup", "pricing", "working"} /\ Fail(q)
    BY <1>7 DEF Refuse, Working
  <2> QED BY <2>1, FailKeeps
<1>8. ASSUME NEW q \in Request, Commit(q) PROVE IInv'
  BY <1>8, CommitKeeps
<1>9. ASSUME NEW q \in Request, LoseRace(q) PROVE IInv'
  BY <1>9, RepeatKeeps DEF LoseRace, Written
<1>10. ASSUME NEW q \in Request, DeadlockVictim(q) PROVE IInv'
  <2>1. pc[q] \in {"lookup", "pricing", "working"} /\ Fail(q)
    BY <1>10 DEF DeadlockVictim, Waiting, Working
  <2> QED BY <2>1, FailKeeps
<1>11. ASSUME NEW q \in Request, Crash(q) PROVE IInv'
  BY <1>11, FailKeeps DEF Crash
<1>12. ASSUME UNCHANGED vars PROVE IInv'
  <2>1. UNCHANGED books /\ UNCHANGED <<plan, pc, at, holder, answer>>
    BY <1>12 DEF vars, books
  <2>2. TypeOK' /\ CodesWithinLimits'
    BY <2>1 DEF IInv, TypeOK, CodesWithinLimits, books
  <2>3. ASSUME NEW r \in Request PROVE Placed(r)' /\ Keyed(r)'
    <3>1. Placed(r)'
      BY <2>1, OthersUndisturbed
    <3>2. Keyed(r)'
      BY <2>1 DEF IInv, Keyed, books
    <3> QED BY <3>1, <3>2
  <2> QED BY <2>2, <2>3 DEF IInv
<1> QED BY <1>1, <1>2, <1>3, <1>4, <1>5, <1>6, <1>7, <1>8, <1>9, <1>10, <1>11, <1>12
        DEF Next, Run

(* Two-phase locking: at every moment of every execution, whatever a       *)
(* checkout verified under a row lock it still holds and is still true     *)
(* (orders/service.py:121-242 with the FOR UPDATE of promotions and        *)
(* wallet).                                                                *)
THEOREM CheckoutInvariant == Spec => []IInv
<1>1. Init => IInv
  BY InitInvariant
<1>2. IInv /\ [Next]_vars => IInv'
  BY NextInvariant
<1> QED BY <1>1, <1>2, PTL DEF Spec

(* No balance and no counter of create_order ever leaves its type: nobody  *)
(* pays more than he has (wallet/service.py:82-137).                       *)
THEOREM CheckoutTypeCorrect == Spec => []TypeOK
<1>1. IInv => TypeOK
  BY DEF IInv
<1> QED BY <1>1, CheckoutInvariant, PTL

(* No race and no failed attempt takes a code past its limits              *)
(* (promotions/service.py:62-82).                                          *)
THEOREM CodesKeepTheirLimits == Spec => []CodesWithinLimits
<1>1. IInv => CodesWithinLimits
  BY DEF IInv
<1> QED BY <1>1, CheckoutInvariant, PTL

(* Requests with one idempotency key are answered with one order, however  *)
(* many there are and whichever commits first (orders/service.py:90-103,   *)
(* 229-257).                                                               *)
THEOREM AKeyBuysOneOrder == Spec => []OneOrderPerKey
<1>1. IInv => OneOrderPerKey
  BY DEF IInv, Keyed, OneOrderPerKey
<1> QED BY <1>1, CheckoutInvariant, PTL

(* The commit of a checkout is the indivisible step of AtomicCheckout, and *)
(* nothing else that it does shows.                                        *)
LEMMA CommitPlaces ==
  ASSUME IInv, NEW q \in Request, Commit(q)
  PROVE  Abs!Place(q, plan[q])
<1> DEFINE p == plan[q]
<1>1. /\ p \in Plans
      /\ p.code # None => WithinLimits(p)
      /\ p.code \in BonusCode => p.code \notin posted
      /\ p.wallet => Affordable(p)
  BY CommitReady DEF Commit
<1>2. Abs!Gain(p) = Gain(p) /\ Abs!Due(p) = Due(p) /\ Abs!Cost(p) = Cost(p)
  BY DEF Abs!Gain, Abs!Due, Abs!Cost, Gain, Due, Cost
<1>3. q \notin orders
  BY DEF Commit, Written, IInv, Placed
<1>4. p.key # None => keys[p.key] = None
  BY DEF Commit, KeyTaken
<1>5. p.code # None => /\ uses[p.code] < MaxUses[p.code]
                       /\ redeemed[p.code][p.user] < MaxPerUser[p.code]
  BY <1>1 DEF WithinLimits
<1>6. p.wallet => Due(p) > 0 /\ balance[p.user] + Gain(p) >= Due(p)
  BY <1>1 DEF Affordable
<1> QED BY <1>1, <1>2, <1>3, <1>4, <1>5, <1>6 DEF Abs!Place, Commit

(* Commit is the only step that changes what AtomicCheckout sees.          *)
LEMMA EveryStepPlacesOrShowsNothing ==
  IInv /\ [Next]_vars => [Abs!ANext]_(Abs!avars)
<1> SUFFICES ASSUME IInv, [Next]_vars PROVE [Abs!ANext]_(Abs!avars)
  OBVIOUS
<1>1. UNCHANGED books => UNCHANGED Abs!avars
  BY DEF books, Abs!avars
<1>2. ASSUME NEW q \in Request, Commit(q) PROVE Abs!ANext
  <2>1. Abs!Place(q, plan[q]) /\ plan[q] \in Plans
    BY <1>2, CommitPlaces, CommitReady DEF Commit
  <2> QED BY <2>1 DEF Abs!ANext
<1>3. ASSUME NEW q \in Request, Begin(q) \/ Crash(q) \/ (Run(q) /\ ~Commit(q))
      PROVE  UNCHANGED books
  BY <1>3 DEF Begin, Crash, Run, TurnAway, AnswerKnown, LookUpKey, ReadPrice,
              PriceLockUsed, Proceed, Refuse, LoseRace, DeadlockVictim, Fail
<1>4. UNCHANGED vars => UNCHANGED books
  BY DEF vars, books
<1> QED BY <1>1, <1>2, <1>3, <1>4 DEF Next, Run

(* create_order with its row locks, its early answers, its rollbacks, its  *)
(* crashes and its race for the key implements AtomicCheckout.             *)
THEOREM CheckoutIsAtomic == Spec => ImplementsAtomicCheckout
<1>1. Init => Abs!AInit
  BY DEF Init, Abs!AInit
<1>2. IInv /\ [Next]_vars => [Abs!ANext]_(Abs!avars)
  BY EveryStepPlacesOrShowsNothing
<1> QED BY <1>1, <1>2, CheckoutInvariant, PTL DEF Spec, ImplementsAtomicCheckout, Abs!ASpec
=============================================================================
