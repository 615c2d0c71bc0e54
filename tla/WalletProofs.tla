---------------------------- MODULE WalletProofs ----------------------------
(***************************************************************************)
(* Proofs about Wallet for every set of users, sessions, references and    *)
(* request plans that satisfies the assumptions of that module.            *)
(***************************************************************************)
EXTENDS Wallet, TLAPS

(* Locks and uncommitted rows belong to open sessions; a row is written    *)
(* only under its user's lock, and a locked user's object is loaded.       *)
LockInv ==
  /\ \A s \in Session, u \in User : lock[u] = s => /\ status[s] = "open"
                                                   /\ cached[s][u] # NotLoaded
  /\ \A s \in Session, u \in User : written[s][u] # NoRow => lock[u] = s

(* An object of a fresh user is only in the session that holds the row     *)
(* lock, and shows the committed balance until that session writes it.     *)
FreshInv ==
  \A s \in Session, u \in FreshUser :
    /\ cached[s][u] # NotLoaded => lock[u] = s
    /\ lock[u] = s /\ written[s][u] = NoRow => cached[s][u] = balance[u]
    /\ written[s][u] # NoRow => written[s][u].before = balance[u]

RowInv ==
  \A s \in Session, u \in User :
    written[s][u] # NoRow => written[s][u].after = written[s][u].before + written[s][u].amount

(* The uncommitted rows of an open session are the calls it has made.      *)
PlanInv ==
  \A s \in Session :
    /\ status[s] = "idle" => at[s] = 1
    /\ at[s] <= Len(plan[s]) + 1
    /\ \A u \in User : written[s][u] # NoRow =>
         \E i \in 1 .. at[s] - 1 : /\ plan[s][i].user = u
                                  /\ written[s][u].amount = plan[s][i].amount
                                  /\ written[s][u].ref = plan[s][i].ref
    /\ status[s] = "open" =>
         \A i \in 1 .. at[s] - 1 : /\ plan[s][i].amount # 0
                                  /\ written[s][plan[s][i].user] # NoRow

(* The inductive invariant behind LedgerChained.                           *)
IInv == TypeOK /\ LockInv /\ FreshInv /\ RowInv /\ PlanInv /\ LedgerChained

-----------------------------------------------------------------------------
(* The next call of an open session is a well-typed wallet call.           *)
LEMMA CallType ==
  ASSUME TypeOK, NEW s \in Session, Calling(s)
  PROVE  /\ plan[s] \in Plans
         /\ at[s] \in 1 .. Len(plan[s])
         /\ Call(s) \in Op
         /\ Call(s).preload => Call(s).user \notin FreshUser
<1>1. plan[s] \in Plans \cup {<<>>} /\ at[s] \in Nat \ {0} /\ at[s] <= Len(plan[s])
  BY DEF TypeOK, Calling
<1>2. plan[s] # <<>>
  BY <1>1
<1>3. plan[s] \in Plans
  BY <1>1, <1>2
<1>4. plan[s] \in Seq(Op)
  BY <1>3, PlansAssumption
<1>5. at[s] \in 1 .. Len(plan[s])
  BY <1>1, <1>4
<1>6. Call(s) \in Op
  BY <1>4, <1>5 DEF Call
<1>7. Call(s).preload => Call(s).user \notin FreshUser
  BY <1>3, <1>5 DEF Call, FreshUser
<1> QED BY <1>3, <1>5, <1>6, <1>7

(* What one ledger row looks like after a successful wallet call.          *)
LEMMA FlushType ==
  ASSUME TypeOK, LockInv, NEW s \in Session, Calling(s),
         lock[Call(s).user] = s, NEW after,
         after = cached[s][Call(s).user] + Call(s).amount, after >= 0
  PROVE  /\ cached[s][Call(s).user] \in Nat
         /\ after \in Nat
         /\ [amount |-> Call(s).amount, before |-> cached[s][Call(s).user],
             after |-> after, ref |-> Call(s).ref] \in Row
<1>1. Call(s) \in Op
  BY CallType
<1>2. Call(s).user \in User /\ Call(s).amount \in Int /\ Call(s).ref \in Ref \cup {NoRef}
  BY <1>1 DEF Op
<1>3. cached[s][Call(s).user] \in Nat
  BY <1>2 DEF TypeOK, LockInv
<1>4. after \in Nat
  BY <1>2, <1>3
<1> QED BY <1>2, <1>3, <1>4 DEF Row

-----------------------------------------------------------------------------
(* The opening balances with empty ledgers.                                *)
LEMMA InitIInv == Init => IInv
<1> SUFFICES ASSUME Init PROVE IInv
  OBVIOUS
<1>1. TypeOK
  BY OpeningAssumption DEF Init, TypeOK, Status
<1>2. LockInv /\ FreshInv /\ RowInv
  BY SentinelAssumption DEF Init, LockInv, FreshInv, RowInv, FreshUser
<1>3. PlanInv
  BY DEF Init, PlanInv
<1>4. LedgerChained
  BY DEF Init, LedgerChained, ChainedLedger, FreshUser
<1> QED BY <1>1, <1>2, <1>3, <1>4 DEF IInv

(* The wallet a session is about to move has no uncommitted row of that    *)
(* session yet: a plan names each wallet once.                             *)
LEMMA NotYetWritten ==
  ASSUME TypeOK, PlanInv, NEW s \in Session, Calling(s)
  PROVE  written[s][Call(s).user] = NoRow
<1>1. plan[s] \in Plans /\ at[s] \in 1 .. Len(plan[s]) /\ Call(s) \in Op
  BY CallType
<1>2. plan[s] \in Seq(Op) /\ Len(plan[s]) \in Nat
  BY <1>1, PlansAssumption
<1>3. \A i \in 1 .. at[s] - 1 : plan[s][i].user # Call(s).user
  BY <1>1, <1>2, PlansAssumption DEF Call
<1> QED BY <1>1, <1>3 DEF PlanInv, Op

(* A credit or debit that flushes its row keeps the invariant: the row     *)
(* starts from the balance read under the lock.                            *)
LEMMA FlushKeepsIInv ==
  ASSUME IInv, NEW s \in Session, Calling(s), lock[Call(s).user] = s, NEW after,
         after = cached[s][Call(s).user] + Call(s).amount, after >= 0,
         Call(s).amount # 0, Flush(s, after)
  PROVE  IInv'
<1> DEFINE u == Call(s).user
           row == [amount |-> Call(s).amount, before |-> cached[s][u],
                   after |-> after, ref |-> Call(s).ref]
<1> USE DEF IInv
<1>1. Call(s) \in Op /\ u \in User
  BY CallType DEF Op
<1>2. row \in Row /\ after \in Nat /\ row # NoRow /\ after # NotLoaded
  BY FlushType, SentinelAssumption
<1>3. /\ written' = [written EXCEPT ![s][u] = row]
      /\ cached' = [cached EXCEPT ![s][u] = after]
      /\ at' = [at EXCEPT ![s] = @ + 1]
      /\ UNCHANGED <<balance, ledger, lock, plan, status>>
  BY DEF Flush
<1> HIDE DEF row, u
<1>4. TypeOK'
  BY <1>1, <1>2, <1>3 DEF TypeOK
<1>5. /\ written'[s][u] = row /\ cached'[s][u] = after
      /\ \A t \in Session, v \in User :
           t # s \/ v # u => /\ written'[t][v] = written[t][v]
                             /\ cached'[t][v] = cached[t][v]
  BY <1>1, <1>3 DEF TypeOK
<1>6. lock[u] = s
  BY DEF u
<1>7. LockInv'
  BY <1>1, <1>2, <1>3, <1>5, <1>6 DEF LockInv
<1>8. u \in FreshUser => row.before = balance[u]
  BY <1>6, NotYetWritten DEF FreshInv, row, u
<1>9. FreshInv'
  BY <1>1, <1>2, <1>3, <1>5, <1>6, <1>8 DEF FreshInv, FreshUser
<1>10. RowInv'
  <2>1. row.after = row.before + row.amount
    BY DEF row, u
  <2> QED BY <1>3, <1>5, <2>1 DEF RowInv
<1>11. PlanInv'
  <2>1. plan[s] \in Plans /\ at[s] \in 1 .. Len(plan[s]) /\ plan[s] \in Seq(Op)
    BY CallType, PlansAssumption
  <2>2. at'[s] = at[s] + 1 /\ \A t \in Session : t # s => at'[t] = at[t]
    BY <1>3 DEF TypeOK
  <2>3. plan[s][at[s]] = Call(s)
    BY DEF Call
  <2>4. row.amount = plan[s][at[s]].amount /\ row.ref = plan[s][at[s]].ref
    BY <2>3 DEF row
  <2>5. plan[s][at[s]].user = u
    BY <2>3 DEF u
  <2>6. \A i \in 1 .. at'[s] - 1 : i = at[s] \/ i \in 1 .. at[s] - 1
    BY <2>1, <2>2
  <2>7. ASSUME NEW t \in Session
        PROVE  /\ status'[t] = "idle" => at'[t] = 1
               /\ at'[t] <= Len(plan'[t]) + 1
    BY <1>3, <2>1, <2>2 DEF PlanInv, Calling
  <2>8. ASSUME NEW t \in Session, NEW v \in User, written'[t][v] # NoRow
        PROVE  \E i \in 1 .. at'[t] - 1 : /\ plan'[t][i].user = v
                                         /\ written'[t][v].amount = plan'[t][i].amount
                                         /\ written'[t][v].ref = plan'[t][i].ref
    <3>1. CASE t = s /\ v = u
      BY <1>3, <1>5, <2>1, <2>2, <2>4, <2>5, <3>1
    <3>2. CASE t = s /\ v # u
      BY <1>3, <1>5, <2>1, <2>2, <2>8, <3>2 DEF PlanInv
    <3>3. CASE t # s
      BY <1>3, <1>5, <2>2, <2>8, <3>3 DEF PlanInv
    <3> QED BY <3>1, <3>2, <3>3
  <2>9. ASSUME NEW t \in Session, status'[t] = "open", NEW i \in 1 .. at'[t] - 1
        PROVE  /\ plan'[t][i].amount # 0
               /\ written'[t][plan'[t][i].user] # NoRow
    <3>1. CASE t = s /\ i = at[s]
      BY <1>2, <1>3, <1>5, <2>3, <2>5, <3>1
    <3>2. CASE t = s /\ i # at[s]
      <4>0. i \in 1 .. at[s] - 1
        BY <2>6, <3>2
      <4>1. plan[s][i].user \in User
        <5>1. Len(plan[s]) \in Nat /\ i \in 1 .. Len(plan[s])
          BY <2>1, <4>0
        <5>2. plan[s][i] \in Op
          BY <2>1, <5>1
        <5> QED BY <5>2 DEF Op
      <4>2. plan[s][i].amount # 0 /\ written[s][plan[s][i].user] # NoRow
        BY <1>3, <2>9, <3>2, <4>0 DEF PlanInv
      <4> QED BY <1>2, <1>3, <1>5, <3>2, <4>1, <4>2
    <3>3. CASE t # s
      BY <1>3, <2>2, <2>9, <3>3 DEF PlanInv, TypeOK
    <3> QED BY <3>1, <3>2, <3>3
  <2> QED BY <2>7, <2>8, <2>9 DEF PlanInv
<1>12. LedgerChained'
  BY <1>3 DEF LedgerChained, ChainedLedger
<1> QED BY <1>4, <1>7, <1>9, <1>10, <1>11, <1>12

(* Every way a session ends without a commit keeps the invariant.          *)
LEMMA CloseKeepsIInv ==
  ASSUME IInv, NEW s \in Session, NEW how \in Ended, Close(s, how),
         UNCHANGED <<balance, ledger>>
  PROVE  IInv'
<1> USE DEF IInv
<1>1. TypeOK'
  BY DEF TypeOK, Close, Status
<1>2. /\ \A u \in User : cached'[s][u] = NotLoaded /\ written'[s][u] = NoRow
      /\ \A t \in Session : t # s => /\ cached'[t] = cached[t]
                                     /\ written'[t] = written[t]
                                     /\ status'[t] = status[t]
      /\ \A u \in User : lock'[u] = IF lock[u] = s THEN NoSession ELSE lock[u]
  BY DEF TypeOK, Close
<1>3. LockInv'
  BY <1>1, <1>2, SentinelAssumption DEF LockInv
<1>4. FreshInv'
  BY <1>1, <1>2, SentinelAssumption DEF FreshInv, FreshUser
<1>5. RowInv'
  BY <1>2 DEF RowInv
<1>6. PlanInv'
  <2>1. UNCHANGED <<plan, at>> /\ status'[s] # "idle" /\ status'[s] # "open"
    BY DEF Close, TypeOK, Ended
  <2>2. ASSUME NEW t \in Session
        PROVE  /\ status'[t] = "idle" => at'[t] = 1
               /\ at'[t] <= Len(plan'[t]) + 1
    BY <1>2, <2>1 DEF PlanInv
  <2>3. ASSUME NEW t \in Session, NEW v \in User, written'[t][v] # NoRow
        PROVE  \E i \in 1 .. at'[t] - 1 : /\ plan'[t][i].user = v
                                         /\ written'[t][v].amount = plan'[t][i].amount
                                         /\ written'[t][v].ref = plan'[t][i].ref
    BY <1>2, <2>1, <2>3 DEF PlanInv
  <2>4. ASSUME NEW t \in Session, status'[t] = "open", NEW i \in 1 .. at'[t] - 1
        PROVE  /\ plan'[t][i].amount # 0
               /\ written'[t][plan'[t][i].user] # NoRow
    BY <1>2, <2>1, <2>4 DEF PlanInv
  <2> QED BY <2>2, <2>3, <2>4 DEF PlanInv
<1>7. LedgerChained'
  BY DEF LedgerChained, ChainedLedger
<1> QED BY <1>1, <1>3, <1>4, <1>5, <1>6, <1>7

(* A new request opens a session and has written nothing.                  *)
LEMMA BeginKeepsIInv ==
  ASSUME IInv, NEW s \in Session, Begin(s)
  PROVE  IInv'
<1> USE DEF IInv
<1>1. PICK p \in Plans : plan' = [plan EXCEPT ![s] = p]
  BY DEF Begin
<1>2. /\ status' = [status EXCEPT ![s] = "open"]
      /\ UNCHANGED <<balance, ledger, lock, cached, written, at>>
      /\ status[s] = "idle"
  BY DEF Begin
<1>3. TypeOK'
  BY <1>1, <1>2 DEF TypeOK, Status
<1>4. LockInv' /\ FreshInv' /\ RowInv'
  BY <1>2 DEF LockInv, FreshInv, RowInv, TypeOK
<1>5. \A u \in User : written[s][u] = NoRow
  BY <1>2 DEF LockInv
<1>6. PlanInv'
  <2>1. Len(p) \in Nat /\ at[s] = 1
    BY <1>2, PlansAssumption DEF PlanInv
  <2> QED BY <1>1, <1>2, <1>5, <2>1 DEF PlanInv, TypeOK
<1>7. LedgerChained'
  BY <1>2 DEF LedgerChained, ChainedLedger
<1> QED BY <1>3, <1>4, <1>6, <1>7

(* A caller loads a User object without locking its row.                   *)
LEMMA LoadUserKeepsIInv ==
  ASSUME IInv, NEW s \in Session, LoadUser(s)
  PROVE  IInv'
<1> DEFINE u == Call(s).user
<1> USE DEF IInv
<1>1. u \in User /\ u \notin FreshUser
  BY CallType DEF Op, LoadUser
<1>2. /\ cached' = [cached EXCEPT ![s][u] = balance[u]]
      /\ UNCHANGED <<balance, ledger, lock, written, plan, at, status>>
  BY DEF LoadUser
<1> HIDE DEF u
<1>3. TypeOK'
  BY <1>1, <1>2 DEF TypeOK
<1>4. /\ cached'[s][u] \in Nat
      /\ \A t \in Session, v \in User :
           t # s \/ v # u => cached'[t][v] = cached[t][v]
  BY <1>1, <1>2 DEF TypeOK
<1>5. LockInv' /\ FreshInv' /\ RowInv'
  BY <1>1, <1>2, <1>4, SentinelAssumption DEF LockInv, FreshInv, RowInv, FreshUser
<1>6. PlanInv' /\ LedgerChained'
  BY <1>2 DEF PlanInv, LedgerChained, ChainedLedger
<1> QED BY <1>3, <1>5, <1>6

(* SELECT ... FOR UPDATE: a fresh object takes the committed balance.      *)
LEMMA LockKeepsIInv ==
  ASSUME IInv, NEW s \in Session, GetUserLocked(s)
  PROVE  IInv'
<1> DEFINE u == Call(s).user
           val == IF cached[s][u] = NotLoaded THEN balance[u] ELSE cached[s][u]
<1> USE DEF IInv
<1>1. u \in User /\ Calling(s) /\ (u \in FreshUser => ~Call(s).preload)
  BY CallType DEF Op, GetUserLocked
<1>2. /\ lock[u] = NoSession
      /\ lock' = [lock EXCEPT ![u] = s]
      /\ cached' = [cached EXCEPT ![s][u] = val]
      /\ UNCHANGED <<balance, ledger, written, plan, at, status>>
  BY DEF GetUserLocked, TypeOK
<1>3. val \in Nat
  BY <1>1 DEF TypeOK
<1>4. u \in FreshUser => val = balance[u]
  BY <1>1, <1>2, SentinelAssumption DEF FreshInv
<1> HIDE DEF u, val
<1>5. TypeOK'
  BY <1>1, <1>2, <1>3 DEF TypeOK
<1>6. /\ lock'[u] = s /\ cached'[s][u] = val
      /\ \A v \in User : v # u => lock'[v] = lock[v]
      /\ \A t \in Session, v \in User :
           t # s \/ v # u => cached'[t][v] = cached[t][v]
  BY <1>1, <1>2 DEF TypeOK
<1>7. \A t \in Session : lock[u] # t /\ written[t][u] = NoRow
  BY <1>1, <1>2, SentinelAssumption DEF LockInv
<1>8. LockInv'
  BY <1>1, <1>2, <1>3, <1>6, <1>7, SentinelAssumption DEF LockInv, Calling
<1>9. FreshInv'
  BY <1>1, <1>2, <1>3, <1>4, <1>6, <1>7, SentinelAssumption DEF FreshInv, FreshUser
<1>10. RowInv' /\ PlanInv' /\ LedgerChained'
  BY <1>2 DEF RowInv, PlanInv, LedgerChained, ChainedLedger
<1> QED BY <1>5, <1>8, <1>9, <1>10

(* session.commit() appends the flushed rows and writes their balances.    *)
LEMMA CommitKeepsIInv ==
  ASSUME IInv, NEW s \in Session, Commit(s)
  PROVE  IInv'
<1> USE DEF IInv
<1>1. /\ balance' = [u \in User |->
                   IF written[s][u] = NoRow THEN balance[u] ELSE written[s][u].after]
      /\ ledger' = [u \in User |->
                  IF written[s][u] = NoRow THEN ledger[u]
                  ELSE Append(ledger[u], written[s][u])]
      /\ Close(s, "committed")
  BY DEF Commit
<1>2. /\ \A u \in User : cached'[s][u] = NotLoaded /\ written'[s][u] = NoRow
      /\ \A t \in Session : t # s => /\ cached'[t] = cached[t]
                                     /\ written'[t] = written[t]
                                     /\ status'[t] = status[t]
      /\ \A u \in User : lock'[u] = IF lock[u] = s THEN NoSession ELSE lock[u]
      /\ status'[s] = "committed"
      /\ UNCHANGED <<plan, at>>
  BY <1>1 DEF TypeOK, Close
<1>3. \A u \in User : written[s][u] # NoRow => /\ written[s][u] \in Row
                                              /\ lock[u] = s
  BY DEF TypeOK, LockInv
<1>4. TypeOK'
  <2>1. balance' \in [User -> Nat]
    BY <1>1, <1>3 DEF TypeOK, Row
  <2>2. ledger' \in [User -> Seq(Row)]
    BY <1>1, <1>3 DEF TypeOK
  <2> QED BY <1>1, <2>1, <2>2 DEF TypeOK, Close, Status, Ended
<1>5. LockInv'
  BY <1>2, <1>4, SentinelAssumption DEF LockInv
<1>6. FreshInv'
  <2> SUFFICES ASSUME NEW t \in Session, NEW u \in FreshUser
               PROVE  /\ cached'[t][u] # NotLoaded => lock'[u] = t
                      /\ lock'[u] = t /\ written'[t][u] = NoRow => cached'[t][u] = balance'[u]
                      /\ written'[t][u] # NoRow => written'[t][u].before = balance'[u]
    BY DEF FreshInv, FreshUser
  <2>0. u \in User
    BY DEF FreshUser
  <2>1. CASE t = s
    BY <1>2, <2>0, <2>1, SentinelAssumption
  <2>2. CASE t # s /\ lock[u] = t
    BY <1>1, <1>2, <1>3, <2>0, <2>2 DEF FreshInv
  <2>3. CASE t # s /\ lock[u] # t
    BY <1>2, <2>0, <2>3, SentinelAssumption DEF FreshInv, LockInv
  <2> QED BY <2>1, <2>2, <2>3
<1>7. RowInv'
  BY <1>2 DEF RowInv
<1>8. PlanInv'
  BY <1>2 DEF PlanInv
<1>9. LedgerChained'
  <2> SUFFICES ASSUME NEW u \in FreshUser PROVE ChainedLedger(u)'
    BY DEF LedgerChained, FreshUser
  <2>0. u \in User /\ ChainedLedger(u) /\ ledger[u] \in Seq(Row)
    BY DEF FreshUser, LedgerChained, TypeOK
  <2>1. CASE written[s][u] = NoRow
    BY <1>1, <2>0, <2>1 DEF ChainedLedger
  <2>2. CASE written[s][u] # NoRow
    <3> DEFINE r == written[s][u]  n == Len(ledger[u])
    <3>1. r \in Row /\ r.before = balance[u] /\ r.after = r.before + r.amount
      BY <1>3, <2>0, <2>2 DEF FreshInv, RowInv
    <3>2. balance'[u] = r.after /\ ledger'[u] = Append(ledger[u], r)
      BY <1>1, <2>0, <2>2
    <3>3. n \in Nat /\ Len(ledger'[u]) = n + 1 /\ ledger'[u][n + 1] = r
          /\ (\A i \in 1 .. n : ledger'[u][i] = ledger[u][i])
          /\ DOMAIN ledger'[u] = 1 .. n + 1 /\ DOMAIN ledger[u] = 1 .. n
      BY <2>0, <3>1, <3>2
    <3>4. balance[u] = IF n = 0 THEN Opening[u] ELSE ledger[u][n].after
      BY <2>0, <3>3 DEF ChainedLedger
    <3> HIDE DEF r, n
    <3>5. ASSUME NEW i \in 1 .. n + 1
          PROVE  /\ ledger'[u][i].after = ledger'[u][i].before + ledger'[u][i].amount
                 /\ ledger'[u][i].before = IF i = 1 THEN Opening[u]
                                           ELSE ledger'[u][i - 1].after
      <4>1. CASE i = n + 1
        <5>1. ledger'[u][i] = r
          BY <3>3, <4>1
        <5>2. n = 0 => r.before = Opening[u]
          BY <3>1, <3>4
        <5>3. n # 0 => n \in 1 .. n /\ i - 1 = n /\ r.before = ledger'[u][n].after
          BY <3>1, <3>3, <3>4, <4>1
        <5> QED BY <3>1, <3>3, <4>1, <5>1, <5>2, <5>3
      <4>2. CASE i \in 1 .. n
        <5>1. ledger'[u][i] = ledger[u][i] /\ (i # 1 => ledger'[u][i - 1] = ledger[u][i - 1])
          BY <3>3, <4>2
        <5> QED BY <2>0, <3>3, <4>2, <5>1 DEF ChainedLedger
      <4> QED BY <3>3, <4>1, <4>2
    <3>6. ledger'[u] # <<>>
      BY <3>2, <3>3
    <3>7. balance'[u] = ledger'[u][Len(ledger'[u])].after
      BY <3>2, <3>3
    <3>8. \A i \in DOMAIN ledger'[u] :
            /\ ledger'[u][i].after = ledger'[u][i].before + ledger'[u][i].amount
            /\ ledger'[u][i].before = IF i = 1 THEN Opening[u]
                                      ELSE ledger'[u][i - 1].after
      BY <3>3, <3>5
    <3> QED BY <3>6, <3>7, <3>8 DEF ChainedLedger
  <2> QED BY <2>1, <2>2
<1> QED BY <1>4, <1>5, <1>6, <1>7, <1>8, <1>9

(* Every step of the sessions keeps the inductive invariant.               *)
LEMMA NextKeepsIInv == IInv /\ [Next]_vars => IInv'
<1> SUFFICES ASSUME IInv, [Next]_vars PROVE IInv'
  OBVIOUS
<1>1. ASSUME NEW s \in Session, Begin(s) PROVE IInv'
  BY <1>1, BeginKeepsIInv
<1>2. ASSUME NEW s \in Session, LoadUser(s) PROVE IInv'
  BY <1>2, LoadUserKeepsIInv
<1>3. ASSUME NEW s \in Session, GetUserLocked(s) PROVE IInv'
  BY <1>3, LockKeepsIInv
<1>4. ASSUME NEW s \in Session, CreditBalance(s) PROVE IInv'
  <2> DEFINE after == cached[s][Call(s).user] + Call(s).amount
  <2>1. Calling(s) /\ lock[Call(s).user] = s /\ Call(s).amount > 0 /\ Flush(s, after)
    BY <1>4 DEF CreditBalance
  <2>2. cached[s][Call(s).user] \in Nat /\ Call(s).amount \in Int
    BY <2>1, CallType DEF IInv, TypeOK, LockInv, Op
  <2>3. after >= 0 /\ Call(s).amount # 0
    BY <2>1, <2>2
  <2> HIDE DEF after
  <2> QED BY <2>1, <2>3, FlushKeepsIInv DEF after
<1>5. ASSUME NEW s \in Session, DebitBalance(s) PROVE IInv'
  <2> DEFINE after == cached[s][Call(s).user] + Call(s).amount
  <2>1. /\ Calling(s) /\ lock[Call(s).user] = s /\ Call(s).amount < 0
        /\ cached[s][Call(s).user] >= -Call(s).amount
        /\ Flush(s, after)
    BY <1>5 DEF DebitBalance
  <2>2. cached[s][Call(s).user] \in Nat /\ Call(s).amount \in Int
    BY <2>1, CallType DEF IInv, TypeOK, LockInv, Op
  <2>3. after >= 0 /\ Call(s).amount # 0
    BY <2>1, <2>2
  <2> HIDE DEF after
  <2> QED BY <2>1, <2>3, FlushKeepsIInv DEF after
<1>6. ASSUME NEW s \in Session,
             RefuseAmount(s) \/ RefuseInsufficient(s) \/ RefuseDuplicate(s) \/ Crash(s)
      PROVE  IInv'
  <2>1. \E how \in Ended : Close(s, how) /\ UNCHANGED <<balance, ledger>>
    BY <1>6 DEF RefuseAmount, RefuseInsufficient, RefuseDuplicate, Crash, Ended
  <2> QED BY <2>1, CloseKeepsIInv
<1>7. ASSUME NEW s \in Session, Commit(s) PROVE IInv'
  BY <1>7, CommitKeepsIInv
<1>8. CASE UNCHANGED vars
  <2>1. UNCHANGED <<balance, ledger, lock, cached, written, plan, at, status>>
    BY <1>8 DEF vars
  <2>2. TypeOK' /\ LockInv'
    BY <2>1 DEF IInv, TypeOK, LockInv
  <2>3. FreshInv' /\ RowInv'
    BY <2>1 DEF IInv, FreshInv, RowInv
  <2>4. PlanInv'
    BY <2>1 DEF IInv, PlanInv
  <2>5. LedgerChained'
    BY <2>1 DEF IInv, LedgerChained, ChainedLedger
  <2> QED BY <2>2, <2>3, <2>4, <2>5 DEF IInv
<1> QED BY <1>1, <1>2, <1>3, <1>4, <1>5, <1>6, <1>7, <1>8 DEF Next, Run

(* The inductive invariant of the wallet sessions (wallet/service.py).     *)
THEOREM InductiveInvariant == Spec => []IInv
<1>1. Init => IInv
  BY InitIInv
<1>2. IInv /\ [Next]_vars => IInv'
  BY NextKeepsIInv
<1> QED BY <1>1, <1>2, PTL DEF Spec

(* Type correctness: in particular balances and ledger snapshots are never *)
(* negative, stale objects or not.                                         *)
THEOREM TypeCorrect == Spec => []TypeOK
<1>1. IInv => TypeOK
  BY DEF IInv
<1> QED BY <1>1, InductiveInvariant, PTL

(* The ledger of a user whose row is never loaded before it is locked      *)
(* chains from the opening balance to users.balance, for any number of     *)
(* concurrent, failing and crashing requests.                              *)
THEOREM LedgerIsChained == Spec => []LedgerChained
<1>1. IInv => LedgerChained
  BY DEF IInv
<1> QED BY <1>1, InductiveInvariant, PTL

-----------------------------------------------------------------------------
(* References: committed rows never share one, an uncommitted row's        *)
(* reference is not committed yet, and no two uncommitted rows share one.  *)
PendingUnused ==
  \A s \in Session, u, v \in User :
    written[s][u] # NoRow /\ written[s][u].ref # NoRef =>
      \A i \in DOMAIN ledger[v] : ledger[v][i].ref # written[s][u].ref

PendingDistinct ==
  \A s, t \in Session, u, v \in User :
    /\ written[s][u] # NoRow /\ written[t][v] # NoRow
    /\ written[s][u].ref # NoRef /\ written[s][u].ref = written[t][v].ref
    => s = t /\ u = v

RefInv == ReferencePostedOnce /\ PendingUnused /\ PendingDistinct

(* A flush passes uq_wallet_reference_tx only with an unused reference.    *)
LEMMA FlushKeepsRefInv ==
  ASSUME IInv, RefInv, NEW s \in Session, NEW after, Calling(s), Flush(s, after)
  PROVE  RefInv'
<1> DEFINE u == Call(s).user
           row == [amount |-> Call(s).amount, before |-> cached[s][u],
                   after |-> after, ref |-> Call(s).ref]
<1>1. /\ written' = [written EXCEPT ![s][u] = row]
      /\ UNCHANGED ledger
      /\ ~RefCommitted(row.ref) /\ ~RefPending(row.ref)
  BY DEF Flush
<1>2. u \in User
  BY CallType DEF IInv, Op
<1> HIDE DEF u, row
<1>3. /\ written'[s][u] = row
      /\ \A t \in Session, v \in User :
           t # s \/ v # u => written'[t][v] = written[t][v]
  BY <1>1, <1>2 DEF IInv, TypeOK
<1>4. ReferencePostedOnce'
  BY <1>1 DEF RefInv, ReferencePostedOnce
<1>5. row.ref # NoRef => \A v \in User : \A i \in DOMAIN ledger[v] : ledger[v][i].ref # row.ref
  BY <1>1 DEF RefCommitted
<1>6. row.ref # NoRef =>
        \A t \in Session, v \in User : written[t][v] # NoRow => written[t][v].ref # row.ref
  BY <1>1 DEF RefPending
<1>7. PendingUnused'
  BY <1>1, <1>3, <1>5 DEF RefInv, PendingUnused
<1>8. PendingDistinct'
  <2> SUFFICES ASSUME NEW t1 \in Session, NEW t2 \in Session,
                      NEW v1 \in User, NEW v2 \in User,
                      written'[t1][v1] # NoRow, written'[t2][v2] # NoRow,
                      written'[t1][v1].ref # NoRef,
                      written'[t1][v1].ref = written'[t2][v2].ref
               PROVE  t1 = t2 /\ v1 = v2
    BY DEF PendingDistinct
  <2>1. CASE t1 = s /\ v1 = u
    BY <1>3, <1>6, <2>1
  <2>2. CASE t2 = s /\ v2 = u
    BY <1>3, <1>6, <2>2
  <2>3. CASE ~(t1 = s /\ v1 = u) /\ ~(t2 = s /\ v2 = u)
    BY <1>3, <2>3 DEF RefInv, PendingDistinct
  <2> QED BY <2>1, <2>2, <2>3
<1> QED BY <1>4, <1>7, <1>8 DEF RefInv

(* A step that posts nothing and writes no new row keeps it.               *)
LEMMA QuietKeepsRefInv ==
  ASSUME RefInv, UNCHANGED ledger,
         \A s \in Session, u \in User :
           written'[s][u] = written[s][u] \/ written'[s][u] = NoRow
  PROVE  RefInv'
<1>1. ReferencePostedOnce'
  BY DEF RefInv, ReferencePostedOnce
<1>2. PendingUnused'
  BY DEF RefInv, PendingUnused
<1>3. PendingDistinct'
  BY DEF RefInv, PendingDistinct
<1> QED BY <1>1, <1>2, <1>3 DEF RefInv

(* Every row of the ledger after a commit is an old one or the session's   *)
(* own uncommitted one, appended at the end.                               *)
LEMMA CommitRows ==
  ASSUME IInv, NEW s \in Session, Commit(s), NEW u \in User
  PROVE  /\ written[s][u] = NoRow => ledger'[u] = ledger[u] /\ balance'[u] = balance[u]
         /\ written[s][u] # NoRow => /\ ledger'[u] = Append(ledger[u], written[s][u])
                                     /\ balance'[u] = written[s][u].after
         /\ \A i \in DOMAIN ledger'[u] :
              \/ i \in DOMAIN ledger[u] /\ ledger'[u][i] = ledger[u][i]
              \/ /\ written[s][u] # NoRow /\ i = Len(ledger[u]) + 1
                 /\ ledger'[u][i] = written[s][u]
<1>1. ledger[u] \in Seq(Row) /\ (written[s][u] # NoRow => written[s][u] \in Row)
  BY DEF IInv, TypeOK
<1>2. /\ written[s][u] = NoRow => ledger'[u] = ledger[u] /\ balance'[u] = balance[u]
      /\ written[s][u] # NoRow => /\ ledger'[u] = Append(ledger[u], written[s][u])
                                  /\ balance'[u] = written[s][u].after
  BY DEF Commit
<1>3. ASSUME NEW i \in DOMAIN ledger'[u]
      PROVE  \/ i \in DOMAIN ledger[u] /\ ledger'[u][i] = ledger[u][i]
             \/ /\ written[s][u] # NoRow /\ i = Len(ledger[u]) + 1
                /\ ledger'[u][i] = written[s][u]
  <2>1. CASE written[s][u] = NoRow
    BY <1>2, <2>1
  <2>2. CASE written[s][u] # NoRow
    BY <1>1, <1>2, <2>2
  <2> QED BY <2>1, <2>2
<1> QED BY <1>2, <1>3

(* A commit posts references that no other row has.                        *)
LEMMA CommitKeepsRefInv ==
  ASSUME IInv, RefInv, NEW s \in Session, Commit(s)
  PROVE  RefInv'
<1>1. /\ \A u \in User : written'[s][u] = NoRow
      /\ \A t \in Session, u \in User : t # s => written'[t][u] = written[t][u]
  BY DEF Commit, Close, IInv, TypeOK
<1>2. ReferencePostedOnce'
  <2> SUFFICES ASSUME NEW u \in User, NEW v \in User,
                      NEW i \in DOMAIN ledger'[u], NEW j \in DOMAIN ledger'[v],
                      ledger'[u][i].ref # NoRef, ledger'[u][i].ref = ledger'[v][j].ref
               PROVE  u = v /\ i = j
    BY DEF ReferencePostedOnce
  <2>1. CASE /\ i \in DOMAIN ledger[u] /\ ledger'[u][i] = ledger[u][i]
             /\ j \in DOMAIN ledger[v] /\ ledger'[v][j] = ledger[v][j]
    BY <2>1 DEF RefInv, ReferencePostedOnce
  <2>2. CASE /\ i \in DOMAIN ledger[u] /\ ledger'[u][i] = ledger[u][i]
             /\ written[s][v] # NoRow /\ ledger'[v][j] = written[s][v]
    BY <2>2 DEF RefInv, PendingUnused
  <2>3. CASE /\ written[s][u] # NoRow /\ ledger'[u][i] = written[s][u]
             /\ j \in DOMAIN ledger[v] /\ ledger'[v][j] = ledger[v][j]
    BY <2>3 DEF RefInv, PendingUnused
  <2>4. CASE /\ written[s][u] # NoRow /\ ledger'[u][i] = written[s][u]
             /\ i = Len(ledger[u]) + 1
             /\ written[s][v] # NoRow /\ ledger'[v][j] = written[s][v]
             /\ j = Len(ledger[v]) + 1
    BY <2>4 DEF RefInv, PendingDistinct
  <2> QED BY CommitRows, <2>1, <2>2, <2>3, <2>4
<1>3. PendingUnused'
  <2> SUFFICES ASSUME NEW t \in Session, NEW u \in User, NEW v \in User,
                      written'[t][u] # NoRow, written'[t][u].ref # NoRef,
                      NEW i \in DOMAIN ledger'[v],
                      ledger'[v][i].ref = written'[t][u].ref
               PROVE  FALSE
    BY DEF PendingUnused
  <2>1. t # s /\ written'[t][u] = written[t][u]
    BY <1>1
  <2>2. CASE i \in DOMAIN ledger[v] /\ ledger'[v][i] = ledger[v][i]
    BY <2>1, <2>2 DEF RefInv, PendingUnused
  <2>3. CASE written[s][v] # NoRow /\ ledger'[v][i] = written[s][v]
    BY <2>1, <2>3 DEF RefInv, PendingDistinct
  <2> QED BY CommitRows, <2>2, <2>3
<1>4. PendingDistinct'
  BY <1>1 DEF RefInv, PendingDistinct
<1> QED BY <1>2, <1>3, <1>4 DEF RefInv

(* Every step keeps references unique among committed and flushed rows.    *)
LEMMA NextKeepsRefInv == IInv /\ RefInv /\ [Next]_vars => RefInv'
<1> SUFFICES ASSUME IInv, RefInv, [Next]_vars PROVE RefInv'
  OBVIOUS
<1>1. ASSUME NEW s \in Session,
             Begin(s) \/ LoadUser(s) \/ GetUserLocked(s)
      PROVE  RefInv'
  <2>1. UNCHANGED <<ledger, written>>
    BY <1>1 DEF Begin, LoadUser, GetUserLocked
  <2> QED BY <2>1, QuietKeepsRefInv
<1>2. ASSUME NEW s \in Session, CreditBalance(s) \/ DebitBalance(s) PROVE RefInv'
  <2>1. Calling(s) /\ \E after : Flush(s, after)
    BY <1>2 DEF CreditBalance, DebitBalance
  <2> QED BY <2>1, FlushKeepsRefInv
<1>3. ASSUME NEW s \in Session,
             RefuseAmount(s) \/ RefuseInsufficient(s) \/ RefuseDuplicate(s) \/ Crash(s)
      PROVE  RefInv'
  <2>1. UNCHANGED ledger /\ \E how \in Ended : Close(s, how)
    BY <1>3 DEF RefuseAmount, RefuseInsufficient, RefuseDuplicate, Crash, Ended
  <2>2. \A t \in Session, u \in User :
          written'[t][u] = written[t][u] \/ written'[t][u] = NoRow
    BY <2>1 DEF Close, IInv, TypeOK
  <2> QED BY <2>1, <2>2, QuietKeepsRefInv
<1>4. ASSUME NEW s \in Session, Commit(s) PROVE RefInv'
  BY <1>4, CommitKeepsRefInv
<1>5. CASE UNCHANGED vars
  <2>1. UNCHANGED <<ledger, written>>
    BY <1>5 DEF vars
  <2> QED BY <2>1, QuietKeepsRefInv
<1> QED BY <1>1, <1>2, <1>3, <1>4, <1>5 DEF Next, Run

(* A payment, refund or bonus reference posts at most one ledger row,      *)
(* however many sessions deliver it at once.                               *)
THEOREM ReferencesPostOnce == Spec => []ReferencePostedOnce
<1>1. Init => RefInv
  BY DEF Init, RefInv, ReferencePostedOnce, PendingUnused, PendingDistinct
<1>2. IInv /\ RefInv /\ [Next]_vars => RefInv'
  BY NextKeepsRefInv
<1>3. RefInv => ReferencePostedOnce
  BY DEF RefInv
<1> QED BY <1>1, <1>2, <1>3, InductiveInvariant, PTL DEF Spec

-----------------------------------------------------------------------------
(* A session about to commit has written, for every wallet of its plan,    *)
(* exactly the row that plan asks for.                                     *)
LEMMA WrittenIsPlanned ==
  ASSUME IInv, NEW s \in Session, status[s] = "open", at[s] > Len(plan[s]),
         plan[s] \in Plans
  PROVE  /\ \A i \in 1 .. Len(plan[s]) :
              /\ plan[s][i] \in Op
              /\ plan[s][i].amount # 0
              /\ written[s][plan[s][i].user] # NoRow
              /\ written[s][plan[s][i].user].amount = plan[s][i].amount
              /\ written[s][plan[s][i].user].ref = plan[s][i].ref
         /\ \A u \in User : written[s][u] # NoRow =>
              \E i \in 1 .. Len(plan[s]) : plan[s][i].user = u
<1>1. plan[s] \in Seq(Op) /\ Len(plan[s]) \in Nat /\ at[s] - 1 = Len(plan[s])
  BY PlansAssumption DEF IInv, TypeOK, PlanInv
<1>2. \A u \in User : written[s][u] # NoRow =>
        \E j \in 1 .. Len(plan[s]) : /\ plan[s][j].user = u
                                    /\ written[s][u].amount = plan[s][j].amount
                                    /\ written[s][u].ref = plan[s][j].ref
  BY <1>1 DEF IInv, PlanInv
<1>3. ASSUME NEW i \in 1 .. Len(plan[s])
      PROVE  /\ plan[s][i] \in Op
             /\ plan[s][i].amount # 0
             /\ written[s][plan[s][i].user] # NoRow
             /\ written[s][plan[s][i].user].amount = plan[s][i].amount
             /\ written[s][plan[s][i].user].ref = plan[s][i].ref
  <2>0. plan[s][i] \in Op
    BY <1>1
  <2>1. plan[s][i] \in Op /\ plan[s][i].user \in User
    BY <2>0 DEF Op
  <2>2. plan[s][i].amount # 0 /\ written[s][plan[s][i].user] # NoRow
    BY <1>1 DEF IInv, PlanInv
  <2>3. PICK j \in 1 .. Len(plan[s]) :
               /\ plan[s][j].user = plan[s][i].user
               /\ written[s][plan[s][i].user].amount = plan[s][j].amount
               /\ written[s][plan[s][i].user].ref = plan[s][j].ref
    BY <1>2, <2>1, <2>2
  <2>4. j = i
    BY <2>3, PlansAssumption
  <2> QED BY <2>1, <2>2, <2>3, <2>4
<1> QED BY <1>2, <1>3

(* A reference is posted after a commit if it was before, or if one of the *)
(* rows that the session had flushed carries it.                           *)
LEMMA PostedByCommit ==
  ASSUME IInv, NEW s \in Session, Commit(s), NEW r
  PROVE  Posted(r)' <=> \/ Posted(r)
                        \/ \E u \in User : written[s][u] # NoRow /\ written[s][u].ref = r
<1>1. ASSUME Posted(r)'
      PROVE  Posted(r) \/ \E u \in User : written[s][u] # NoRow /\ written[s][u].ref = r
  <2>1. PICK u \in User : \E i \in DOMAIN ledger'[u] : ledger'[u][i].ref = r
    BY <1>1 DEF Posted
  <2>2. PICK i \in DOMAIN ledger'[u] : ledger'[u][i].ref = r
    BY <2>1
  <2>3. QED
    BY <2>2, CommitRows DEF Posted
<1>2. ASSUME Posted(r) PROVE Posted(r)'
  <2>1. PICK u \in User : \E i \in DOMAIN ledger[u] : ledger[u][i].ref = r
    BY <1>2 DEF Posted
  <2>2. PICK i \in DOMAIN ledger[u] : ledger[u][i].ref = r
    BY <2>1
  <2>3. ledger[u] \in Seq(Row) /\ (written[s][u] # NoRow => written[s][u] \in Row)
    BY DEF IInv, TypeOK
  <2>4. i \in DOMAIN ledger'[u] /\ ledger'[u][i] = ledger[u][i]
    BY <2>2, <2>3, CommitRows
  <2>5. QED
    BY <2>2, <2>4 DEF Posted
<1>3. ASSUME NEW u \in User, written[s][u] # NoRow, written[s][u].ref = r PROVE Posted(r)'
  <2>1. ledger[u] \in Seq(Row) /\ written[s][u] \in Row
    BY <1>3 DEF IInv, TypeOK
  <2>2. ledger'[u] = Append(ledger[u], written[s][u])
    BY <1>3, CommitRows
  <2>3. /\ Len(ledger[u]) + 1 \in DOMAIN ledger'[u]
        /\ ledger'[u][Len(ledger[u]) + 1] = written[s][u]
    BY <2>1, <2>2
  <2>4. QED
    BY <1>3, <2>3 DEF Posted
<1>4. QED
  BY <1>1, <1>2, <1>3

(* A commit posts a plan as a whole, so that it completes whatever plan it *)
(* begins.                                                                 *)
LEMMA CommitPostsAll ==
  ASSUME IInv, AllOrNothing, NEW s \in Session, Commit(s)
  PROVE  AllOrNothing'
<1>1. SUFFICES ASSUME NEW p \in Plans, NEW i \in 1 .. Len(p), NEW j \in 1 .. Len(p),
                      Posted(p[i].ref)'
               PROVE  Posted(p[j].ref)'
  BY DEF AllOrNothing
<1>2. CASE Posted(p[i].ref)
  BY <1>2, PostedByCommit DEF AllOrNothing
<1>3. CASE ~Posted(p[i].ref)
  <2>1. PICK u \in User : written[s][u] # NoRow /\ written[s][u].ref = p[i].ref
    BY <1>1, <1>3, PostedByCommit
  <2>2. status[s] = "open" /\ at[s] > Len(plan[s]) /\ at[s] \in Nat
    BY DEF Commit, IInv, TypeOK
  <2>3. plan[s] \in Plans
    <3>1. SUFFICES ASSUME plan[s] = <<>> PROVE FALSE
      BY DEF IInv, TypeOK
    <3>2. at[s] = 1
      BY <2>2, <3>1 DEF IInv, PlanInv
    <3>3. QED
      BY <2>1, <3>2 DEF IInv, PlanInv
  <2>4. PICK k \in 1 .. Len(plan[s]) : plan[s][k].ref = p[i].ref
    BY <2>1, <2>2, <2>3, WrittenIsPlanned
  <2>5. \A m \in 1 .. Len(plan[s]) : plan[s][m].amount # 0
    BY <2>2, <2>3, WrittenIsPlanned
  <2>6. PICK m \in 1 .. Len(plan[s]) : plan[s][m].ref = p[j].ref
    BY <2>3, <2>4, <2>5, ReferencesAssumption
  <2>7. /\ plan[s][m].user \in User /\ written[s][plan[s][m].user] # NoRow
        /\ written[s][plan[s][m].user].ref = p[j].ref
    BY <2>2, <2>3, <2>6, WrittenIsPlanned DEF Op
  <2>8. QED
    BY <2>7, PostedByCommit
<1>4. QED
  BY <1>2, <1>3

(* Only a commit posts anything.                                           *)
LEMMA NextKeepsAllOrNothing ==
  ASSUME IInv, AllOrNothing, [Next]_vars
  PROVE  AllOrNothing'
<1>1. ASSUME ledger' = ledger PROVE AllOrNothing'
  BY <1>1 DEF AllOrNothing, Posted
<1>2. ASSUME NEW s \in Session, Commit(s) PROVE AllOrNothing'
  BY <1>2, CommitPostsAll
<1>3. ASSUME NEW s \in Session,
             \/ Begin(s) \/ LoadUser(s) \/ GetUserLocked(s)
             \/ CreditBalance(s) \/ DebitBalance(s)
             \/ RefuseAmount(s) \/ RefuseInsufficient(s) \/ RefuseDuplicate(s) \/ Crash(s)
      PROVE  ledger' = ledger
  BY <1>3 DEF Begin, LoadUser, GetUserLocked, CreditBalance, DebitBalance, Flush, RefuseAmount,
              RefuseInsufficient, RefuseDuplicate, Crash
<1>4. QED
  BY <1>1, <1>2, <1>3 DEF Next, Run, vars

(* The debit of a purchase and the referrer's bonus are posted together or *)
(* not at all, whatever sessions interleave, are refused or crash.         *)
THEOREM PostsAllOrNothing == Spec => []AllOrNothing
<1>1. Init => AllOrNothing
  BY DEF Init, AllOrNothing, Posted
<1>2. IInv /\ AllOrNothing /\ [Next]_vars => AllOrNothing'
  BY NextKeepsAllOrNothing
<1>3. QED
  BY <1>1, <1>2, InductiveInvariant, PTL DEF Spec

(* The commit of a request is one step of AtomicLedger: its rows chain     *)
(* from the balances of that very moment and use fresh references.         *)
LEMMA CommitPostsBatch ==
  ASSUME IInv, RefInv, NEW s \in Session, Commit(s), plan[s] \in Plans
  PROVE  Abs!ANext
<1>1. PICK b \in FreshBatches :
        b = {plan[s][i] : i \in {j \in 1 .. Len(plan[s]) : plan[s][j].user \in FreshUser}}
  BY DEF FreshBatches
<1>2. status[s] = "open" /\ at[s] > Len(plan[s])
  BY DEF Commit
<1>3. ASSUME NEW o \in b
      PROVE  /\ o.user \in FreshUser /\ o.user \in User /\ o.amount # 0
             /\ written[s][o.user] # NoRow /\ written[s][o.user] \in Row
             /\ written[s][o.user].amount = o.amount
             /\ written[s][o.user].ref = o.ref
             /\ written[s][o.user].before = balance[o.user]
             /\ written[s][o.user].after = balance[o.user] + o.amount
  <2>1. PICK i \in 1 .. Len(plan[s]) : o = plan[s][i] /\ o.user \in FreshUser
    BY <1>1
  <2>2. /\ o.amount # 0 /\ written[s][o.user] # NoRow
        /\ written[s][o.user].amount = o.amount /\ written[s][o.user].ref = o.ref
    BY <1>2, <2>1, WrittenIsPlanned
  <2>3. o.user \in User
    BY <2>1 DEF FreshUser
  <2>4. written[s][o.user] \in Row
    BY <2>2, <2>3 DEF IInv, TypeOK
  <2>5. /\ written[s][o.user].before = balance[o.user]
        /\ written[s][o.user].after = balance[o.user] + o.amount
    BY <2>1, <2>2, <2>3 DEF IInv, FreshInv, RowInv
  <2> QED BY <2>1, <2>2, <2>3, <2>4, <2>5
<1>4. ASSUME NEW u \in FreshUser
      PROVE  \/ \E o \in b : o.user = u /\ written[s][u] # NoRow
             \/ (\A o \in b : o.user # u) /\ written[s][u] = NoRow
  <2>1. u \in User
    BY DEF FreshUser
  <2>2. CASE written[s][u] = NoRow
    BY <1>3, <2>2
  <2>3. CASE written[s][u] # NoRow
    <3>1. PICK i \in 1 .. Len(plan[s]) : plan[s][i].user = u
      BY <1>2, <2>1, <2>3, WrittenIsPlanned
    <3>2. plan[s][i] \in b
      BY <1>1, <3>1
    <3> QED BY <2>3, <3>1, <3>2
  <2> QED BY <2>2, <2>3
<1>5. ASSUME NEW o \in b
      PROVE  /\ o.amount # 0
             /\ balance[o.user] + o.amount >= 0
             /\ o.ref # NoRef => \A v \in FreshUser : \A i \in DOMAIN ledger[v] :
                                   ledger[v][i].ref # o.ref
  <2>1. balance[o.user] + o.amount \in Nat
    BY <1>3 DEF Row
  <2>2. o.ref # NoRef => \A v \in FreshUser : \A i \in DOMAIN ledger[v] :
                           ledger[v][i].ref # o.ref
    BY <1>3 DEF RefInv, PendingUnused, FreshUser
  <2> QED BY <1>3, <2>1, <2>2
<1>6. ASSUME NEW u \in FreshUser
      PROVE  \/ \E o \in b :
                  /\ o.user = u
                  /\ balance'[u] = balance[u] + o.amount
                  /\ ledger'[u] = Append(ledger[u],
                       [amount |-> o.amount, before |-> balance[u],
                        after |-> balance[u] + o.amount, ref |-> o.ref])
             \/ /\ \A o \in b : o.user # u
                /\ balance'[u] = balance[u]
                /\ ledger'[u] = ledger[u]
  <2>1. u \in User
    BY DEF FreshUser
  <2>2. CASE \A o \in b : o.user # u
    BY <1>4, <2>1, <2>2, CommitRows
  <2>3. ASSUME NEW o \in b, o.user = u
        PROVE  /\ balance'[u] = balance[u] + o.amount
               /\ ledger'[u] = Append(ledger[u],
                    [amount |-> o.amount, before |-> balance[u],
                     after |-> balance[u] + o.amount, ref |-> o.ref])
    <3>1. written[s][u] = [amount |-> o.amount, before |-> balance[u],
                           after |-> balance[u] + o.amount, ref |-> o.ref]
      BY <1>3, <2>3 DEF Row
    <3> QED BY <1>3, <2>1, <2>3, <3>1, CommitRows
  <2> QED BY <2>2, <2>3
<1>7. \A o \in b : /\ o.amount # 0
                   /\ [u \in FreshUser |-> balance[u]][o.user] + o.amount >= 0
                   /\ o.ref # NoRef => Abs!Unused(o.ref)
  BY <1>3, <1>5 DEF Abs!Unused
<1>8. ASSUME NEW o \in b
      PROVE  Abs!RowOf(o) = [amount |-> o.amount, before |-> balance[o.user],
                             after |-> balance[o.user] + o.amount, ref |-> o.ref]
  BY <1>3 DEF Abs!RowOf
<1>9. ASSUME NEW u \in FreshUser
      PROVE  \/ \E o \in b : /\ o.user = u
                             /\ balance'[u] = Abs!RowOf(o).after
                             /\ ledger'[u] = Append(ledger[u], Abs!RowOf(o))
             \/ /\ \A o \in b : o.user # u
                /\ balance'[u] = balance[u]
                /\ ledger'[u] = ledger[u]
  <2>1. CASE /\ \A o \in b : o.user # u
             /\ balance'[u] = balance[u]
             /\ ledger'[u] = ledger[u]
    BY <2>1
  <2>2. ASSUME NEW o \in b, o.user = u,
               balance'[u] = balance[u] + o.amount,
               ledger'[u] = Append(ledger[u],
                 [amount |-> o.amount, before |-> balance[u],
                  after |-> balance[u] + o.amount, ref |-> o.ref])
        PROVE  /\ balance'[u] = Abs!RowOf(o).after
               /\ ledger'[u] = Append(ledger[u], Abs!RowOf(o))
    <3>1. Abs!RowOf(o) = [amount |-> o.amount, before |-> balance[u],
                          after |-> balance[u] + o.amount, ref |-> o.ref]
      BY <1>8, <2>2
    <3> QED BY <2>2, <3>1
  <2> QED BY <1>6, <2>1, <2>2, Zenon
<1>10. Abs!PostBatch(b)
  <2> DEFINE bal == [u \in FreshUser |-> balance[u]]
             led == [u \in FreshUser |-> ledger[u]]
  <2>1. \A u \in FreshUser : /\ bal[u] = balance[u] /\ bal'[u] = balance'[u]
                             /\ led[u] = ledger[u] /\ led'[u] = ledger'[u]
    OBVIOUS
  <2> HIDE DEF bal, led
  <2>2. \A u \in FreshUser :
          \/ \E o \in b : /\ o.user = u
                          /\ bal'[u] = Abs!RowOf(o).after
                          /\ led'[u] = Append(led[u], Abs!RowOf(o))
          \/ /\ \A o \in b : o.user # u
             /\ bal'[u] = bal[u]
             /\ led'[u] = led[u]
    BY <1>9, <2>1
  <2> QED BY <1>7, <2>2, Zenon DEF Abs!PostBatch, bal, led
<1> QED BY <1>10 DEF Abs!ANext

(* Every step of the sessions is a step of AtomicLedger or a stutter.      *)
LEMMA StepSimulates ==
  IInv /\ RefInv /\ [Next]_vars => [Abs!ANext]_Abs!avars
<1> SUFFICES ASSUME IInv, RefInv, [Next]_vars
             PROVE  Abs!ANext \/ UNCHANGED Abs!avars
  OBVIOUS
<1>1. UNCHANGED <<balance, ledger>> => UNCHANGED Abs!avars
  BY DEF Abs!avars
<1>2. ASSUME NEW s \in Session, Begin(s) \/ LoadUser(s) \/ GetUserLocked(s)
      PROVE  UNCHANGED <<balance, ledger>>
  BY <1>2 DEF Begin, LoadUser, GetUserLocked
<1>3. ASSUME NEW s \in Session, CreditBalance(s) \/ DebitBalance(s)
      PROVE  UNCHANGED <<balance, ledger>>
  BY <1>3 DEF CreditBalance, DebitBalance, Flush
<1>4. ASSUME NEW s \in Session,
             RefuseAmount(s) \/ RefuseInsufficient(s) \/ RefuseDuplicate(s) \/ Crash(s)
      PROVE  UNCHANGED <<balance, ledger>>
  BY <1>4 DEF RefuseAmount, RefuseInsufficient, RefuseDuplicate, Crash
<1>5. ASSUME NEW s \in Session, Commit(s)
      PROVE  Abs!ANext \/ UNCHANGED Abs!avars
  <2>1. CASE plan[s] \in Plans
    BY <1>5, <2>1, CommitPostsBatch
  <2>2. CASE plan[s] \notin Plans
    <3>1. plan[s] = <<>> /\ at[s] \in Nat \ {0} /\ at[s] <= Len(plan[s]) + 1
      BY <2>2 DEF IInv, TypeOK, PlanInv
    <3>2. at[s] = 1
      BY <3>1
    <3>3. \A u \in User : written[s][u] = NoRow
      BY <3>2 DEF IInv, PlanInv
    <3>4. \A u \in FreshUser : balance'[u] = balance[u] /\ ledger'[u] = ledger[u]
      BY <1>5, <3>3, CommitRows DEF FreshUser
    <3> QED BY <3>4 DEF Abs!avars
  <2> QED BY <2>1, <2>2
<1>6. CASE UNCHANGED vars
  BY <1>6, <1>1 DEF vars
<1> QED BY <1>1, <1>2, <1>3, <1>4, <1>5, <1>6 DEF Next, Run

(* The interleaved, failing and crashing sessions implement the atomic     *)
(* ledger on every wallet that is never preloaded.                         *)
THEOREM ImplementsLedger == Spec => ImplementsAtomicLedger
<1>1. Init => Abs!AInit
  BY DEF Init, Abs!AInit, FreshUser
<1>2. Init => RefInv
  BY DEF Init, RefInv, ReferencePostedOnce, PendingUnused, PendingDistinct
<1>3. IInv /\ RefInv /\ [Next]_vars => RefInv'
  BY NextKeepsRefInv
<1>4. IInv /\ RefInv /\ [Next]_vars => [Abs!ANext]_Abs!avars
  BY StepSimulates
<1> QED BY <1>1, <1>2, <1>3, <1>4, InductiveInvariant, PTL
        DEF Spec, ImplementsAtomicLedger, Abs!ASpec
=============================================================================
