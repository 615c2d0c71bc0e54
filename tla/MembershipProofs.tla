-------------------------- MODULE MembershipProofs --------------------------
(***************************************************************************)
(* Proofs about Membership for every set of people, visits, chats and      *)
(* forms, and any number of edits and moves.                               *)
(***************************************************************************)
EXTENDS Membership, WellFoundedInduction, TLAPS

ChannelRow ==
  [link : Link, chat : Chat \cup {None}, type : Types, detected : BOOLEAN, active : BOOLEAN]

Entry == [id : Nat, row : ChannelRow]

Registering ==
  [at : {"register"}, person : Person, invited : Person \cup {None},
   calls : Seq(Person \cup {None})]

Inserting ==
  [at : {"inserting"}, person : Person, invited : Person \cup {None},
   calls : Seq(Person \cup {None}), found : Nat \cup {None}]

Excused == [at : {"exempt"}, person : Person, invited : Person \cup {None}]

Checking ==
  [at : {"checking", "welcome", "gate"}, person : Person, invited : Person \cup {None},
   todo : SUBSET Entry, missing : SUBSET Nat,
   firm : SUBSET Nat, ever : SUBSET Nat, could : SUBSET Nat, held : SUBSET Nat]

Visiting == {Idle} \cup Registering \cup Inserting \cup Excused \cup Checking

(* The rows and the visits stay in their types.                            *)
TypeInv ==
  /\ users \in [Person -> UserRow \cup {None}]
  /\ channels \in Seq(ChannelRow \cup {None})
  /\ exported \in [Chat -> Nat]
  /\ visit \in [Visit -> Visiting]

(* A row is about to be made for a call of get_or_create_user, and the     *)
(* referrer it counts for has a row.                                       *)
FoundInv ==
  \A v \in Visit :
    visit[v].at = "inserting" =>
      /\ visit[v].calls # <<>>
      /\ visit[v].found # None =>
           Head(visit[v].calls) \in Person /\ users[Head(visit[v].calls)] # None

(* What the loop has still to look at: entries of channels that were       *)
(* required, in the state in which they are, if the person passed them     *)
(* ever since.                                                             *)
TodoInv(e) ==
  \A d \in e.todo : d.id \in e.ever /\ (d.id \in e.held => d.row = channels[d.id])

(* A channel required ever since is still to be looked at as it is, is     *)
(* missing, or was passed.                                                 *)
FirmInv(e) ==
  \A i \in e.firm :
    /\ i \in Required(channels)
    /\ \/ [id |-> i, row |-> channels[i]] \in e.todo
       \/ i \in e.missing
       \/ i \in e.could

(* A missing channel was required and not always passed.                   *)
MissingInv(e) == \A i \in e.missing : i \in e.ever /\ i \notin e.held

(* Always passed implies passed now, and that implies passed at some time. *)
PassedInv(e) == e.held \subseteq Passing[e.person] /\ Passing[e.person] \subseteq e.could

LoopInv ==
  \A v \in Visit :
    visit[v].at = "checking" =>
      TodoInv(visit[v]) /\ FirmInv(visit[v]) /\ MissingInv(visit[v]) /\ PassedInv(visit[v])

(* The inductive invariant behind both properties of the gate.             *)
IInv == TypeInv /\ FoundInv /\ LoopInv /\ GateStopsOutsiders /\ GateAdmitsMembers

-----------------------------------------------------------------------------
(* A non-empty set of natural numbers has a least element.                 *)
LEMMA LeastNat ==
  ASSUME NEW S \in SUBSET Nat, S # {}
  PROVE  \E n \in S : \A m \in S : n <= m
<1>1. IsWellFoundedOn({p \in Nat \X Nat : p[1] < p[2]}, Nat)
  BY NatLessThanWellFounded DEF OpToRel
<1>2. PICK n \in S : \A m \in S : <<m, n>> \notin {p \in Nat \X Nat : p[1] < p[2]}
  BY <1>1, WFMin
<1>3. ASSUME NEW m \in S PROVE n <= m
  <2>1. m \in Nat /\ n \in Nat
    OBVIOUS
  <2>2. ~(m < n)
    BY <1>2, <2>1
  <2>3. QED
    BY <2>1, <2>2
<1>4. QED
  BY <1>3

(* The loop takes an entry of its list.                                    *)
LEMMA ForemostIsListed ==
  ASSUME NEW list \in SUBSET Entry, list # {}
  PROVE  Foremost(list) \in list
<1> DEFINE ids == {e.id : e \in list}
<1>1. ids \in SUBSET Nat /\ ids # {}
  BY DEF Entry
<1>2. PICK n \in ids : \A m \in ids : n <= m
  BY <1>1, LeastNat
<1>3. PICK e \in list : e.id = n
  BY <1>2
<1>4. \A f \in list : e.id <= f.id
  BY <1>2, <1>3
<1>5. QED
  BY <1>4 DEF Foremost

(* What a visit is tells its kind apart.                                   *)
LEMMA KindOfVisit ==
  ASSUME NEW m \in Visiting
  PROVE  /\ m.at = "idle" => m = Idle
         /\ m.at = "register" => m \in Registering
         /\ m.at = "inserting" => m \in Inserting
         /\ m.at = "exempt" => m \in Excused
         /\ m.at \in {"checking", "welcome", "gate"} => m \in Checking
BY DEF Visiting, Idle, Registering, Inserting, Excused, Checking

(* The rows in force are in their type.                                    *)
LEMMA RequiredRows ==
  ASSUME NEW rows \in Seq(ChannelRow \cup {None})
  PROVE  /\ Required(rows) \in SUBSET Nat
         /\ ListChannels(rows) \in SUBSET Entry
BY DEF Required, ListChannels, Listed, Entry

(* What a person passes are channels that stand and that let them through. *)
LEMMA PassedRows ==
  ASSUME NEW p \in Person
  PROVE  Passing[p] = {i \in DOMAIN channels : channels[i] # None /\ Passes(p, channels[i])}
BY DEF Passing

(* What a person passes depends on the rows and on Telegram only.          *)
LEMMA PassingSame ==
  ASSUME UNCHANGED <<channels, requests, members, bot>>
  PROVE  Passing' = Passing
BY DEF Passing, Passes, Target, Seen

-----------------------------------------------------------------------------
(* A step of one visit keeps the invariant if what the visit becomes       *)
(* satisfies its part, and rows of users stay.                             *)
LEMMA VisitStep ==
  ASSUME IInv, NEW v \in Visit, NEW m \in Visiting,
         visit' = [visit EXCEPT ![v] = m],
         UNCHANGED <<channels, requests, members, bot, exported>>,
         users' \in [Person -> UserRow \cup {None}],
         \A q \in Person : users[q] # None => users'[q] # None,
         m.at = "inserting" =>
           /\ m.calls # <<>>
           /\ m.found # None => Head(m.calls) \in Person /\ users[Head(m.calls)] # None,
         m.at = "checking" => TodoInv(m) /\ FirmInv(m) /\ MissingInv(m) /\ PassedInv(m),
         m.at = "welcome" => m.firm \subseteq m.could,
         m.at = "gate" => \E i \in m.ever : i \notin m.held
  PROVE  IInv'
<1>1. visit \in [Visit -> Visiting] /\ visit' \in [Visit -> Visiting]
  BY DEF IInv, TypeInv
<1>2. visit'[v] = m /\ \A w \in Visit : w # v => visit'[w] = visit[w]
  BY <1>1
<1>3. Passing' = Passing
  BY PassingSame
<1>4. channels' = channels /\ exported' = exported
  OBVIOUS
<1>5. TypeInv'
  BY <1>1, <1>4 DEF IInv, TypeInv
<1>6. FoundInv'
  BY <1>2 DEF IInv, FoundInv
<1>7. ASSUME NEW w \in Visit, visit'[w].at = "checking"
      PROVE  /\ TodoInv(visit[w])' /\ FirmInv(visit[w])'
             /\ MissingInv(visit[w])' /\ PassedInv(visit[w])'
  <2>1. CASE w = v
    BY <1>2, <1>3, <1>4, <1>7, <2>1 DEF TodoInv, FirmInv, MissingInv, PassedInv
  <2>2. CASE w # v
    BY <1>2, <1>3, <1>4, <1>7, <2>2 DEF IInv, LoopInv, TodoInv, FirmInv, MissingInv, PassedInv
  <2>3. QED
    BY <2>1, <2>2
<1>8. LoopInv'
  BY <1>7 DEF LoopInv
<1>9. GateStopsOutsiders' /\ GateAdmitsMembers'
  BY <1>2 DEF IInv, GateStopsOutsiders, GateAdmitsMembers
<1>10. QED
  BY <1>5, <1>6, <1>8, <1>9 DEF IInv

(* A step that changes users only keeps the invariant if rows stay.        *)
LEMMA UsersStep ==
  ASSUME IInv, UNCHANGED <<channels, requests, members, bot, exported, visit>>,
         users' \in [Person -> UserRow \cup {None}],
         \A q \in Person : users[q] # None => users'[q] # None
  PROVE  IInv'
<1>1. /\ Passing' = Passing /\ channels' = channels /\ visit' = visit
      /\ exported' = exported
  BY PassingSame
<1>2. TypeInv' /\ FoundInv'
  BY <1>1 DEF IInv, TypeInv, FoundInv
<1>3. LoopInv'
  BY <1>1 DEF IInv, LoopInv, TodoInv, FirmInv, MissingInv, PassedInv
<1>4. GateStopsOutsiders' /\ GateAdmitsMembers'
  BY <1>1 DEF IInv, GateStopsOutsiders, GateAdmitsMembers
<1>5. QED
  BY <1>2, <1>3, <1>4 DEF IInv

-----------------------------------------------------------------------------
(* What a step of channels or chats leaves of a visit that is checking.    *)
LEMMA NotedFields ==
  ASSUME TypeInv, NEW v \in Visit, visit[v].at = "checking",
         channels' \in Seq(ChannelRow \cup {None})
  PROVE  LET e == visit[v]
             same == {i \in DOMAIN channels : channels'[i] = channels[i]}
             now == Passing'[e.person]
             n == Noted(v)
         IN  /\ n \in Checking /\ n.at = "checking" /\ n.person = e.person
             /\ n.todo = e.todo /\ n.missing = e.missing
             /\ n.firm = e.firm \cap same \cap Required(channels')
             /\ n.ever = e.ever \cup Required(channels')
             /\ n.could = e.could \cup now
             /\ n.held = e.held \cap same \cap now
<1> DEFINE same == {i \in DOMAIN channels : channels'[i] = channels[i]}
           now == Passing'[visit[v].person]
           firm == visit[v].firm \cap same \cap Required(channels')
           ever == visit[v].ever \cup Required(channels')
           could == visit[v].could \cup now
           held == visit[v].held \cap same \cap now
<1>1. visit[v] \in Checking
  BY KindOfVisit DEF TypeInv
<1>2. PICK e \in Checking : e = visit[v]
  BY <1>1
<1>3. now \in SUBSET Nat
  <2>1. e.person \in Person
    BY <1>2 DEF Checking
  <2>2. Passing'[e.person] =
          {i \in DOMAIN channels' : channels'[i] # None /\ Passes(e.person, channels[i])'}
    BY <2>1 DEF Passing
  <2>3. DOMAIN channels' \subseteq Nat
    OBVIOUS
  <2>4. QED
    BY <1>2, <2>2, <2>3
<1>4. firm \in SUBSET Nat /\ ever \in SUBSET Nat /\ could \in SUBSET Nat /\ held \in SUBSET Nat
  BY <1>2, <1>3, RequiredRows DEF Checking
<1>5. Noted(v) = [e EXCEPT !.firm = firm, !.ever = ever, !.could = could, !.held = held]
  BY <1>2 DEF Noted
<1> HIDE DEF firm, ever, could, held
<1>6. PICK n : n = [e EXCEPT !.firm = firm, !.ever = ever, !.could = could, !.held = held]
  OBVIOUS
<1>7. /\ n \in Checking /\ n.at = e.at /\ n.person = e.person
      /\ n.todo = e.todo /\ n.missing = e.missing
      /\ n.firm = firm /\ n.ever = ever /\ n.could = could /\ n.held = held
  BY <1>4, <1>6 DEF Checking
<1>8. QED
  BY <1>2, <1>5, <1>6, <1>7 DEF firm, ever, could, held

(* Whatever happens to channels and chats, what a visit notes of it keeps  *)
(* the invariant.                                                          *)
LEMMA WitnessStep ==
  ASSUME IInv, Witness, users' = users,
         channels' \in Seq(ChannelRow \cup {None}), exported' \in [Chat -> Nat]
  PROVE  IInv'
<1>1. visit \in [Visit -> Visiting] /\ \A v \in Visit : visit'[v] = Noted(v)
  BY DEF IInv, TypeInv, Witness
<1>2. \A v \in Visit : visit[v].at # "checking" => visit'[v] = visit[v]
  <2>1. SUFFICES ASSUME NEW v \in Visit, visit[v].at # "checking" PROVE Noted(v) = visit[v]
    BY <1>1
  <2>2. QED
    BY <2>1 DEF Noted
<1>3. \A v \in Visit :
        visit[v].at = "checking" => visit'[v] \in Checking /\ visit'[v].at = "checking"
  BY <1>1, NotedFields DEF IInv
<1>4. visit' \in [Visit -> Visiting]
  <2>1. visit' = [v \in Visit |-> Noted(v)]
    BY DEF Witness
  <2>2. \A v \in Visit : Noted(v) \in Visiting
    BY <1>1, <1>2, <1>3 DEF Visiting
  <2>3. QED
    BY <2>1, <2>2
<1>5. TypeInv'
  BY <1>4 DEF IInv, TypeInv
<1>6. FoundInv'
  BY <1>2, <1>3 DEF IInv, FoundInv
<1>7. GateStopsOutsiders' /\ GateAdmitsMembers'
  BY <1>2, <1>3 DEF IInv, GateStopsOutsiders, GateAdmitsMembers
<1>8. ASSUME NEW v \in Visit, visit'[v].at = "checking"
      PROVE  /\ TodoInv(visit[v])' /\ FirmInv(visit[v])'
             /\ MissingInv(visit[v])' /\ PassedInv(visit[v])'
  <2> DEFINE same == {i \in DOMAIN channels : channels'[i] = channels[i]}
  <2>1. visit[v].at = "checking"
    BY <1>2, <1>8
  <2>2. PICK e : e = visit[v]
    OBVIOUS
  <2>3. TodoInv(e) /\ FirmInv(e) /\ MissingInv(e) /\ PassedInv(e)
    BY <2>1, <2>2 DEF IInv, LoopInv
  <2>4. PICK n : n = visit'[v]
    OBVIOUS
  <2>5. /\ n.person = e.person
        /\ n.todo = e.todo /\ n.missing = e.missing
        /\ n.firm = e.firm \cap same \cap Required(channels')
        /\ n.ever = e.ever \cup Required(channels')
        /\ n.could = e.could \cup Passing'[e.person]
        /\ n.held = e.held \cap same \cap Passing'[e.person]
    BY <1>1, <2>1, <2>2, <2>4, NotedFields DEF IInv
  <2>6. \A i \in same : channels'[i] = channels[i]
    OBVIOUS
  <2> HIDE DEF same
  <2>7. \A d \in n.todo : d.id \in n.ever /\ (d.id \in n.held => d.row = channels'[d.id])
    BY <2>3, <2>5, <2>6 DEF TodoInv
  <2>8. \A i \in n.firm :
          /\ i \in Required(channels')
          /\ [id |-> i, row |-> channels'[i]] \in n.todo \/ i \in n.missing \/ i \in n.could
    BY <2>3, <2>5, <2>6 DEF FirmInv
  <2>9. \A i \in n.missing : i \in n.ever /\ i \notin n.held
    BY <2>3, <2>5 DEF MissingInv
  <2>10. n.held \subseteq Passing'[n.person] /\ Passing'[n.person] \subseteq n.could
    BY <2>5
  <2>11. QED
    BY <2>4, <2>7, <2>8, <2>9, <2>10 DEF TodoInv, FirmInv, MissingInv, PassedInv
<1>9. LoopInv'
  BY <1>8 DEF LoopInv
<1>10. QED
  BY <1>5, <1>6, <1>7, <1>9 DEF IInv

-----------------------------------------------------------------------------
(* A visit begins with the calls of get_or_create_user it will make.       *)
LEMMA ArriveKeepsIInv ==
  ASSUME IInv, NEW v \in Visit, NEW p \in Person, NEW way \in {"start", "site", "check"},
         NEW ref \in Person \cup {None}, Arrive(v, p, way, ref)
  PROVE  IInv'
<1>1. PICK m : m = [at |-> "register", person |-> p, calls |-> Calls(way, ref),
                    invited |-> IF way = "start" /\ users[p] = None
                                   /\ ref # None /\ users[ref] # None
                                THEN ref ELSE None]
  OBVIOUS
<1>2. Calls(way, ref) \in Seq(Person \cup {None})
  <2>1. PICK S : S = Person \cup {None}
    OBVIOUS
  <2>2. ref \in S /\ None \in S
    BY <2>1
  <2>3. <<None, ref>> \in Seq(S) /\ <<None>> \in Seq(S) /\ <<>> \in Seq(S)
    BY <2>2
  <2>4. Calls(way, ref) \in {<<None, ref>>, <<None>>, <<>>}
    BY DEF Calls
  <2>5. QED
    BY <2>1, <2>3, <2>4
<1>3. m \in Registering
  BY <1>1, <1>2 DEF Registering
<1>4. m \in Visiting /\ m.at = "register"
  BY <1>3 DEF Visiting, Registering
<1>5. visit' = [visit EXCEPT ![v] = m]
  BY <1>1 DEF Arrive
<1>6. UNCHANGED <<channels, requests, members, bot, exported, users>>
  BY DEF Arrive, telegram
<1>7. QED
  BY <1>4, <1>5, <1>6, VisitStep DEF IInv, TypeInv

(* Who is known goes on; for a newcomer a row is about to be made, and a   *)
(* referrer counts only if there is a row of it.                           *)
LEMMA LookKeepsIInv ==
  ASSUME IInv, NEW v \in Visit, Look(v)
  PROVE  IInv'
<1>1. PICK e \in Registering : e = visit[v]
  BY KindOfVisit DEF IInv, TypeInv, Look
<1>2. /\ e.calls \in Seq(Person \cup {None}) /\ e.calls # <<>>
      /\ e.person \in Person /\ e.invited \in Person \cup {None} /\ e.at = "register"
  BY <1>1 DEF Look, Registering
<1>3. Head(e.calls) \in Person \cup {None} /\ Tail(e.calls) \in Seq(Person \cup {None})
  BY <1>2
<1>4. UNCHANGED <<channels, requests, members, bot, exported, users>>
  BY DEF Look, telegram
<1> DEFINE ref == Head(e.calls)
           found == IF ref = None \/ ref = e.person THEN None
                    ELSE IF users[ref] = None THEN None ELSE users[ref].count
<1>5. CASE users[e.person] = None
  <2>1. found \in Nat \cup {None} /\ (found # None => ref \in Person /\ users[ref] # None)
    BY <1>3 DEF IInv, TypeInv, UserRow
  <2>2. PICK n : n = found
    OBVIOUS
  <2>3. PICK m : m = [at |-> "inserting", person |-> e.person, calls |-> e.calls,
                      invited |-> e.invited, found |-> n]
    OBVIOUS
  <2>4. visit' = [visit EXCEPT ![v] = m]
    BY <1>1, <1>5, <2>2, <2>3 DEF Look
  <2>5. m \in Inserting /\ m.at = "inserting" /\ m.calls = e.calls /\ m.found = n
    BY <1>2, <2>1, <2>2, <2>3 DEF Inserting
  <2>6. m \in Visiting
    BY <2>5 DEF Visiting
  <2>7. m.found # None => Head(m.calls) \in Person /\ users[Head(m.calls)] # None
    BY <2>1, <2>2, <2>5
  <2>8. QED
    BY <1>2, <1>4, <2>4, <2>5, <2>6, <2>7, VisitStep DEF IInv, TypeInv
<1>6. CASE users[e.person] # None
  <2>1. PICK m : m = [e EXCEPT !.calls = Tail(e.calls)]
    OBVIOUS
  <2>2. visit' = [visit EXCEPT ![v] = m]
    BY <1>1, <1>6, <2>1 DEF Look
  <2>3. PICK rest \in Seq(Person \cup {None}) : rest = Tail(e.calls)
    BY <1>3
  <2>4. m = [e EXCEPT !.calls = rest]
    BY <2>1, <2>3
  <2>5. m \in Registering /\ m.at = "register"
    BY <2>4 DEF Registering
  <2>6. m \in Visiting
    BY <2>5 DEF Visiting
  <2>7. QED
    BY <1>4, <2>2, <2>5, <2>6, VisitStep DEF IInv, TypeInv
<1>7. QED
  BY <1>5, <1>6

(* The row made is a row, and the referrer's counts one more.              *)
LEMMA CreatedRows ==
  ASSUME TypeInv, NEW p \in Person, NEW ref, NEW n \in Nat \cup {None},
         users[p] = None,
         n # None => ref \in Person /\ users[ref] # None
  PROVE  /\ Created(p, ref, n) \in [Person -> UserRow \cup {None}]
         /\ \A q \in Person : users[q] # None => Created(p, ref, n)[q] # None
<1> DEFINE by == IF n = None THEN None ELSE ref
<1>1. by \in Person \cup {None}
  OBVIOUS
<1>2. PICK row : row = [Row EXCEPT !.referrer = by]
  OBVIOUS
<1>3. row = [referrer |-> by, count |-> 0, role |-> "user"]
  BY <1>2 DEF Row
<1> HIDE DEF by
<1>4. row \in UserRow
  BY <1>1, <1>3 DEF UserRow
<1>5. row # None
  BY <1>4, MembershipAssumption
<1>6. users \in [Person -> UserRow \cup {None}]
  BY DEF TypeInv
<1>7. CASE n = None
  <2>1. Created(p, ref, n) = [users EXCEPT ![p] = row]
    BY <1>2, <1>7 DEF Created, by
  <2>2. QED
    BY <1>4, <1>5, <1>6, <2>1
<1>8. CASE n # None
  <2>1. ref \in Person /\ ref # p /\ users[ref] \in UserRow /\ n + 1 \in Nat
    BY <1>6, <1>8
  <2>2. PICK old \in UserRow : old = users[ref]
    BY <2>1
  <2>3. PICK k \in Nat : k = n + 1
    BY <2>1
  <2>4. PICK more : more = [old EXCEPT !.count = k]
    OBVIOUS
  <2>5. more \in UserRow
    BY <2>4 DEF UserRow
  <2>6. more # None
    BY <2>5, MembershipAssumption
  <2>7. Created(p, ref, n) = [users EXCEPT ![p] = row, ![ref].count = n + 1]
    BY <1>2, <1>8 DEF Created, by
  <2>8. [users EXCEPT ![p] = row, ![ref].count = n + 1] = [users EXCEPT ![p] = row, ![ref] = more]
    BY <1>6, <2>1, <2>2, <2>3, <2>4
  <2>9. QED
    BY <1>4, <1>5, <1>6, <2>1, <2>5, <2>6, <2>7, <2>8
<1>9. QED
  BY <1>7, <1>8

(* The first of two inserts makes the row, the second ends its visit.      *)
LEMMA InsertKeepsIInv ==
  ASSUME IInv, NEW v \in Visit, Insert(v)
  PROVE  IInv'
<1>1. PICK e \in Inserting : e = visit[v]
  BY KindOfVisit DEF IInv, TypeInv, Insert
<1>2. /\ e.calls \in Seq(Person \cup {None}) /\ e.calls # <<>>
      /\ e.person \in Person /\ e.found \in Nat \cup {None}
      /\ e.found # None => Head(e.calls) \in Person /\ users[Head(e.calls)] # None
  BY <1>1 DEF Insert, Inserting, IInv, FoundInv
<1>3. UNCHANGED <<channels, requests, members, bot, exported>>
  BY DEF Insert, telegram
<1>4. CASE users[e.person] = None
  <2>1. users' = Created(e.person, Head(e.calls), e.found)
    BY <1>1, <1>4 DEF Insert
  <2>2. /\ users' \in [Person -> UserRow \cup {None}]
        /\ \A q \in Person : users[q] # None => users'[q] # None
    BY <1>2, <1>4, <2>1, CreatedRows DEF IInv
  <2>3. PICK rest \in Seq(Person \cup {None}) : rest = Tail(e.calls)
    <3>1. Tail(e.calls) \in Seq(Person \cup {None})
      BY <1>2
    <3>2. QED
      BY <3>1
  <2>4. PICK m : m = [at |-> "register", person |-> e.person, calls |-> rest,
                      invited |-> e.invited]
    OBVIOUS
  <2>5. visit' = [visit EXCEPT ![v] = m]
    BY <1>1, <1>4, <2>3, <2>4 DEF Insert
  <2>6. m \in Registering /\ m.at = "register"
    BY <1>1, <2>4 DEF Registering, Inserting
  <2>7. m \in Visiting
    BY <2>6 DEF Visiting
  <2>8. QED
    BY <1>3, <2>2, <2>5, <2>6, <2>7, VisitStep
<1>5. CASE users[e.person] # None
  <2>1. visit' = [visit EXCEPT ![v] = Idle] /\ users' = users
    BY <1>1, <1>5 DEF Insert
  <2>2. Idle \in Visiting /\ Idle.at = "idle"
    BY DEF Visiting, Idle
  <2>3. QED
    BY <1>3, <2>1, <2>2, VisitStep DEF IInv, TypeInv
<1>6. QED
  BY <1>4, <1>5

(* A visit that passes is excused; else the loop starts with the channels  *)
(* in force, and what the person passes of them.                           *)
LEMMA OpenKeepsIInv ==
  ASSUME IInv, NEW v \in Visit, Open(v)
  PROVE  IInv'
<1>1. PICK e \in Registering : e = visit[v]
  BY KindOfVisit DEF IInv, TypeInv, Open
<1>2. e.person \in Person /\ e.invited \in Person \cup {None}
  BY DEF Registering
<1>3. UNCHANGED <<channels, requests, members, bot, exported, users>>
  BY DEF Open, telegram
<1>4. CASE Exempt(e.person)
  <2>1. PICK m : m = [at |-> "exempt", person |-> e.person, invited |-> e.invited]
    OBVIOUS
  <2>2. visit' = [visit EXCEPT ![v] = m]
    BY <1>1, <1>4, <2>1 DEF Open
  <2>3. m \in Excused /\ m.at = "exempt"
    BY <1>2, <2>1 DEF Excused
  <2>4. m \in Visiting
    BY <2>3 DEF Visiting
  <2>5. QED
    BY <1>3, <2>2, <2>3, <2>4, VisitStep DEF IInv, TypeInv
<1>5. CASE ~Exempt(e.person)
  <2>1. PICK list \in SUBSET Entry : list = ListChannels(channels)
    BY RequiredRows DEF IInv, TypeInv
  <2>2. PICK req \in SUBSET Nat : req = Required(channels)
    BY RequiredRows DEF IInv, TypeInv
  <2>3. PICK now \in SUBSET Nat : now = Passing[e.person]
    <3>1. DOMAIN channels \subseteq Nat
      BY DEF IInv, TypeInv
    <3>2. Passing[e.person] \in SUBSET Nat
      BY <1>2, <3>1, PassedRows
    <3>3. QED
      BY <3>2
  <2>4. PICK m : m = [at |-> "checking", person |-> e.person, invited |-> e.invited,
                      todo |-> list, missing |-> {},
                      firm |-> req, ever |-> req, could |-> now, held |-> now]
    OBVIOUS
  <2>5. visit' = [visit EXCEPT ![v] = m]
    BY <1>1, <1>5, <2>1, <2>2, <2>3, <2>4 DEF Open
  <2>6. m \in Checking /\ m.at = "checking"
    BY <1>2, <2>4 DEF Checking
  <2>7. m \in Visiting
    BY <2>6 DEF Visiting
  <2>8. list = {[id |-> i, row |-> channels[i]] : i \in req}
    BY <2>1, <2>2 DEF ListChannels, Listed
  <2>9. TodoInv(m)
    BY <2>4, <2>8 DEF TodoInv
  <2>10. FirmInv(m)
    BY <2>2, <2>4, <2>8 DEF FirmInv
  <2>11. MissingInv(m) /\ PassedInv(m)
    BY <2>3, <2>4 DEF MissingInv, PassedInv
  <2>12. QED
    BY <1>3, <2>5, <2>6, <2>7, <2>9, <2>10, <2>11, VisitStep DEF IInv, TypeInv
<1>6. QED
  BY <1>4, <1>5

(* The entry looked at leaves the list.  If it is the channel as it stands *)
(* the person passes it now or misses it now; if the channel has changed   *)
(* since, nothing was promised of it.                                      *)
LEMMA CheckKeepsIInv ==
  ASSUME IInv, NEW v \in Visit, Check(v)
  PROVE  IInv'
<1>1. PICK e \in Checking : e = visit[v]
  BY KindOfVisit DEF IInv, TypeInv, Check
<1>2. /\ e.at = "checking" /\ e.todo # {} /\ e.todo \in SUBSET Entry
      /\ e.person \in Person /\ e.missing \in SUBSET Nat
  BY <1>1 DEF Check, Checking
<1>3. UNCHANGED <<channels, requests, members, bot, exported, users>>
  BY DEF Check, telegram
<1>4. TodoInv(e) /\ FirmInv(e) /\ MissingInv(e) /\ PassedInv(e)
  BY <1>1, <1>2 DEF IInv, LoopInv
<1>5. PICK d \in e.todo : d = Foremost(e.todo)
  BY <1>2, ForemostIsListed
<1>6. d \in Entry /\ d.id \in Nat /\ d = [id |-> d.id, row |-> d.row]
  BY <1>2 DEF Entry
<1>7. PICK left \in SUBSET Entry : left = e.todo \ {d}
  BY <1>2
<1>8. PICK missing \in SUBSET Nat :
        missing = IF Passes(e.person, d.row) THEN e.missing ELSE e.missing \cup {d.id}
  BY <1>2, <1>6
<1>9. PICK m : m = [e EXCEPT !.todo = left, !.missing = missing]
  OBVIOUS
<1>10. visit' = [visit EXCEPT ![v] = m]
  BY <1>1, <1>5, <1>7, <1>8, <1>9 DEF Check
<1>11. m \in Checking /\ m.at = "checking" /\ m.todo = left /\ m.missing = missing
  BY <1>2, <1>9 DEF Checking
<1>12. /\ m.person = e.person
       /\ m.firm = e.firm /\ m.ever = e.ever /\ m.could = e.could /\ m.held = e.held
  BY <1>9 DEF Checking
<1>13. m \in Visiting
  BY <1>11 DEF Visiting
<1>14. TodoInv(m)
  BY <1>4, <1>7, <1>11, <1>12 DEF TodoInv
<1>15. \A i \in Passing[e.person] : Passes(e.person, channels[i])
  BY <1>2, PassedRows
<1>16. FirmInv(m)
  <2>1. SUFFICES ASSUME NEW i \in e.firm
                 PROVE  [id |-> i, row |-> channels[i]] \in left \/ i \in missing \/ i \in e.could
    BY <1>3, <1>4, <1>11, <1>12 DEF FirmInv
  <2>2. CASE d = [id |-> i, row |-> channels[i]]
    <3>1. d.id = i /\ d.row = channels[i]
      BY <2>2
    <3>2. CASE Passes(e.person, channels[i])
      <4>1. i \in DOMAIN channels /\ channels[i] # None
        BY <1>4 DEF FirmInv, Required
      <4>2. i \in Passing[e.person]
        BY <1>2, <3>2, <4>1, PassedRows
      <4>3. QED
        BY <1>4, <4>2 DEF PassedInv
    <3>3. CASE ~Passes(e.person, channels[i])
      BY <1>8, <3>1, <3>3
    <3>4. QED
      BY <3>2, <3>3
  <2>3. CASE d # [id |-> i, row |-> channels[i]]
    BY <1>4, <1>7, <1>8, <2>3 DEF FirmInv
  <2>4. QED
    BY <2>2, <2>3
<1>17. MissingInv(m)
  <2>1. ASSUME ~Passes(e.person, d.row) PROVE d.id \in e.ever /\ d.id \notin e.held
    BY <1>4, <1>15, <2>1 DEF TodoInv, PassedInv
  <2>2. QED
    BY <1>4, <1>8, <1>11, <1>12, <2>1 DEF MissingInv
<1>18. PassedInv(m)
  BY <1>4, <1>12 DEF PassedInv
<1>19. QED
  BY <1>3, <1>10, <1>11, <1>13, <1>14, <1>16, <1>17, <1>18, VisitStep DEF IInv, TypeInv

(* At the end of the loop nothing is left to look at: whoever misses       *)
(* nothing has passed what was required all the time.                      *)
LEMMA JudgeKeepsIInv ==
  ASSUME IInv, NEW v \in Visit, Judge(v)
  PROVE  IInv'
<1>1. PICK e \in Checking : e = visit[v]
  BY KindOfVisit DEF IInv, TypeInv, Judge
<1>2. e.at = "checking" /\ e.todo = {}
  BY <1>1 DEF Judge
<1>3. UNCHANGED <<channels, requests, members, bot, exported, users>>
  BY DEF Judge, telegram
<1>4. FirmInv(e) /\ MissingInv(e)
  BY <1>1, <1>2 DEF IInv, LoopInv
<1>5. PICK end \in {"welcome", "gate"} : end = IF e.missing = {} THEN "welcome" ELSE "gate"
  OBVIOUS
<1>6. PICK m : m = [e EXCEPT !.at = end]
  OBVIOUS
<1>7. visit' = [visit EXCEPT ![v] = m]
  BY <1>1, <1>5, <1>6 DEF Judge
<1>8. m \in Checking /\ m.at = end
  BY <1>6 DEF Checking
<1>9. /\ m.firm = e.firm /\ m.ever = e.ever /\ m.could = e.could /\ m.held = e.held
  BY <1>6 DEF Checking
<1>10. m \in Visiting
  BY <1>8 DEF Visiting
<1>11. m.at = "welcome" => m.firm \subseteq m.could
  BY <1>2, <1>4, <1>5, <1>8, <1>9 DEF FirmInv
<1>12. m.at = "gate" => \E i \in m.ever : i \notin m.held
  BY <1>4, <1>5, <1>8, <1>9 DEF MissingInv
<1>13. QED
  BY <1>3, <1>5, <1>7, <1>8, <1>10, <1>11, <1>12, VisitStep DEF IInv, TypeInv

(* A visit that is over leaves nothing.                                    *)
LEMMA EndKeepsIInv ==
  ASSUME IInv, NEW v \in Visit, End(v)
  PROVE  IInv'
<1>1. /\ UNCHANGED <<channels, requests, members, bot, exported, users>>
      /\ visit' = [visit EXCEPT ![v] = Idle]
  BY DEF End, telegram
<1>2. Idle \in Visiting /\ Idle.at = "idle"
  BY DEF Visiting, Idle
<1>3. QED
  BY <1>1, <1>2, VisitStep DEF IInv, TypeInv

-----------------------------------------------------------------------------
(* The row written for a link is a row, and overwriting keeps a known chat. *)
LEMMA WrittenRows ==
  ASSUME TypeInv, NEW link \in Link, NEW type \in Types, NEW chat \in Chat \cup {None},
         NEW detected \in BOOLEAN, NEW active \in {None, FALSE}
  PROVE  AddOrUpdate(link, type, chat, detected, active) \in Seq(ChannelRow \cup {None})
<1> DEFINE old == {i \in DOMAIN channels : channels[i] # None /\ channels[i].link = link}
           first == CHOOSE i \in old : \A j \in old : i <= j
           on == IF active = None THEN ~detected ELSE active
           row == [link |-> link, chat |-> chat, type |-> type, detected |-> detected,
                   active |-> on]
<1>1. on \in BOOLEAN
  OBVIOUS
<1>2. channels \in Seq(ChannelRow \cup {None})
  BY DEF TypeInv
<1> HIDE DEF on
<1>3. row \in ChannelRow
  BY <1>1 DEF ChannelRow
<1>4. AddOrUpdate(link, type, chat, detected, active) =
        IF old = {} THEN Append(channels, row)
        ELSE [channels EXCEPT ![first] =
               [row EXCEPT !.chat = IF chat # None THEN chat ELSE channels[first].chat]]
  BY DEF AddOrUpdate, on
<1>5. CASE old = {}
  <2>1. Append(channels, row) \in Seq(ChannelRow \cup {None})
    BY <1>2, <1>3
  <2>2. QED
    BY <1>4, <1>5, <2>1
<1>6. CASE old # {}
  <2>1. old \in SUBSET Nat
    BY <1>2
  <2>2. first \in old
    BY <1>6, <2>1, LeastNat
  <2>3. first \in DOMAIN channels /\ channels[first] \in ChannelRow
    BY <1>2, <2>2
  <2> HIDE DEF old, first, row
  <2>4. PICK c \in Chat \cup {None} : c = IF chat # None THEN chat ELSE channels[first].chat
    <3>1. PICK was \in ChannelRow : was = channels[first]
      BY <2>3
    <3>2. was.chat \in Chat \cup {None}
      BY DEF ChannelRow
    <3>3. QED
      BY <3>1, <3>2
  <2>5. PICK new : new = [row EXCEPT !.chat = c]
    OBVIOUS
  <2>6. new \in ChannelRow
    BY <1>3, <2>5 DEF ChannelRow
  <2>7. AddOrUpdate(link, type, chat, detected, active) = [channels EXCEPT ![first] = new]
    BY <1>4, <1>6, <2>4, <2>5
  <2>8. QED
    BY <1>2, <2>3, <2>6, <2>7
<1>7. QED
  BY <1>5, <1>6

(* Replacing one row of the list by a row, or by nothing, is well typed.   *)
LEMMA ReplacedRows ==
  ASSUME TypeInv, NEW i \in DOMAIN channels, NEW new \in ChannelRow \cup {None}
  PROVE  [channels EXCEPT ![i] = new] \in Seq(ChannelRow \cup {None})
BY DEF TypeInv

(* An administrator's edit of the list keeps the invariant.                *)
LEMMA EditKeepsIInv ==
  ASSUME IInv, NEW rows \in Seq(ChannelRow \cup {None}), EditChannels(rows)
  PROVE  IInv'
<1>1. Witness /\ channels' = rows /\ UNCHANGED <<users, exported>>
  BY DEF EditChannels, Edit, telegram
<1>2. QED
  BY <1>1, WitnessStep DEF IInv, TypeInv

(* Every edit of the list writes rows.                                     *)
LEMMA ListKeepsIInv ==
  ASSUME IInv,
         \/ \E f \in Forms : CreateChannel(f.link, f.type, f.detected)
         \/ \E i \in 1 .. MaxRows :
              \/ DeleteChannel(i) \/ ToggleChannel(i)
              \/ \E type \in ReqTypes : ConfirmChannel(i, type) \/ UpdateChannelType(i, type)
  PROVE  IInv'
<1>1. TypeInv
  BY DEF IInv
<1>2. ASSUME NEW f \in Forms, CreateChannel(f.link, f.type, f.detected) PROVE IInv'
  <2>1. f.link \in Link /\ f.type \in Types /\ f.detected \in BOOLEAN
    BY MembershipAssumption
  <2>2. PICK type : type = CASE f.type = "ordinary" /\ f.link.kind = "invite" -> "join_request"
                             [] f.type = "ordinary" /\ f.link.kind = "web"    -> "external"
                             [] OTHER -> f.type
    OBVIOUS
  <2>3. type \in Types
    BY <2>1, <2>2 DEF Types
  <2>4. EditChannels(AddOrUpdate(f.link, type, None, f.detected, None))
    BY <1>2, <2>2 DEF CreateChannel
  <2>5. QED
    BY <1>1, <2>1, <2>3, <2>4, WrittenRows, EditKeepsIInv
<1>3. ASSUME NEW i, Exists(i) PROVE i \in DOMAIN channels /\ channels[i] \in ChannelRow
  BY <1>1, <1>3 DEF Exists, TypeInv
<1>4. ASSUME NEW i, DeleteChannel(i) PROVE IInv'
  <2>1. i \in DOMAIN channels /\ EditChannels([channels EXCEPT ![i] = None])
    BY <1>3, <1>4 DEF DeleteChannel
  <2>2. QED
    BY <1>1, <2>1, ReplacedRows, EditKeepsIInv
<1>5. ASSUME NEW i, ToggleChannel(i) PROVE IInv'
  <2>1. i \in DOMAIN channels /\ channels[i] \in ChannelRow
    BY <1>3, <1>5 DEF ToggleChannel
  <2>2. PICK row \in ChannelRow : row = channels[i]
    BY <2>1
  <2>3. PICK on \in BOOLEAN : on = ~row.active
    OBVIOUS
  <2>4. PICK new : new = [row EXCEPT !.active = on]
    OBVIOUS
  <2>5. new \in ChannelRow
    BY <2>4 DEF ChannelRow
  <2>6. EditChannels([channels EXCEPT ![i] = new])
    BY <1>5, <2>1, <2>2, <2>3, <2>4 DEF ToggleChannel
  <2>7. QED
    BY <1>1, <2>1, <2>5, <2>6, ReplacedRows, EditKeepsIInv
<1>6. ASSUME NEW i, NEW type \in ReqTypes, ConfirmChannel(i, type) PROVE IInv'
  <2>1. i \in DOMAIN channels /\ channels[i] \in ChannelRow /\ type \in Types
    <3>1. Exists(i)
      BY <1>6, Zenon DEF ConfirmChannel
    <3>2. QED
      BY <1>3, <3>1, MembershipAssumption
  <2>2. PICK row \in ChannelRow : row = channels[i]
    BY <2>1
  <2>3. PICK new : new = [channels[i] EXCEPT !.detected = FALSE, !.active = TRUE, !.type = type]
    OBVIOUS
  <2>4. new \in ChannelRow
    <3>1. new = [row EXCEPT !.detected = FALSE, !.active = TRUE, !.type = type]
      BY <2>2, <2>3
    <3>2. QED
      BY <2>1, <3>1 DEF ChannelRow
  <2>5. EditChannels([channels EXCEPT ![i] = new])
    BY <1>6, <2>3, Zenon DEF ConfirmChannel
  <2>6. QED
    BY <1>1, <2>1, <2>4, <2>5, ReplacedRows, EditKeepsIInv
<1>7. ASSUME NEW i, NEW type \in ReqTypes, UpdateChannelType(i, type) PROVE IInv'
  <2>1. i \in DOMAIN channels /\ channels[i] \in ChannelRow /\ type \in Types
    BY <1>3, <1>7, MembershipAssumption DEF UpdateChannelType
  <2>2. PICK row \in ChannelRow : row = channels[i]
    BY <2>1
  <2>3. PICK new : new = [row EXCEPT !.type = type]
    OBVIOUS
  <2>4. new \in ChannelRow
    BY <2>1, <2>3 DEF ChannelRow
  <2>5. EditChannels([channels EXCEPT ![i] = new])
    BY <1>7, <2>1, <2>2, <2>3 DEF UpdateChannelType
  <2>6. QED
    BY <1>1, <2>1, <2>4, <2>5, ReplacedRows, EditKeepsIInv
<1>8. QED
  BY <1>2, <1>4, <1>5, <1>6, <1>7

(* A new role leaves rows where they are, or makes one.                    *)
LEMMA RoleKeepsIInv ==
  ASSUME IInv, NEW p \in Person, NEW role \in Roles \cup {"user"},
         SetRole(p, role) \/ AssignAdmin(p, role)
  PROVE  IInv'
<1>1. users \in [Person -> UserRow \cup {None}]
  BY DEF IInv, TypeInv
<1>2. Row \in UserRow
  BY DEF Row, UserRow
<1>3. users[p] # None => users[p] \in UserRow
  BY <1>1
<1>4. PICK row \in UserRow : row = IF users[p] = None THEN Row ELSE users[p]
  BY <1>2, <1>3
<1>5. PICK new : new = [row EXCEPT !.role = role]
  OBVIOUS
<1>6. new \in UserRow
  BY <1>5 DEF UserRow
<1>7. new # None
  BY <1>6, MembershipAssumption
<1>8. UNCHANGED <<channels, visit, requests, members, bot, exported>>
  BY DEF SetRole, AssignAdmin, EditUsers, Edit, telegram
<1>9. users' = [users EXCEPT ![p] = new]
  BY <1>1, <1>4, <1>5 DEF SetRole, AssignAdmin, EditUsers
<1>10. QED
  BY <1>1, <1>6, <1>7, <1>8, <1>9, UsersStep

(* Joining, leaving and asking change Telegram only; a promotion writes a  *)
(* row as well.                                                            *)
LEMMA MoveKeepsIInv ==
  ASSUME IInv,
         \/ \E p \in Movers, c \in Chat : Join(p, c) \/ Part(p, c) \/ AskToJoin(p, c)
         \/ \E c \in Chat : Promote(c, TRUE) \/ Promote(c, FALSE) \/ Demote(c)
  PROVE  IInv'
<1>1. TypeInv /\ channels \in Seq(ChannelRow \cup {None})
  BY DEF IInv, TypeInv
<1>2. ASSUME NEW p, NEW c, Join(p, c) \/ Part(p, c) \/ AskToJoin(p, c) \/ Demote(c)
      PROVE  IInv'
  <2>1. Witness /\ UNCHANGED <<users, channels, exported>>
    BY <1>2 DEF Join, Part, AskToJoin, Demote, Move, telegram
  <2>2. QED
    BY <1>1, <2>1, WitnessStep DEF TypeInv
<1>3. ASSUME NEW c \in Chat, NEW exports \in BOOLEAN, Promote(c, exports) PROVE IInv'
  <2>1. PICK link : link = CASE c \in Public -> [kind |-> "username", chat |-> c, n |-> 0]
                             [] c \notin Public /\ exports ->
                                  [kind |-> "invite", chat |-> c, n |-> exported[c] + 1]
                             [] OTHER -> [kind |-> "path", chat |-> c, n |-> 0]
    OBVIOUS
  <2>2. PICK type : type = CASE link.kind = "invite" -> "join_request"
                             [] link.kind # "invite" /\ c \in Group -> "group"
                             [] OTHER -> "ordinary"
    OBVIOUS
  <2>3. link \in Link
    BY <1>3, <2>1 DEF IInv, TypeInv, Link
  <2>4. type \in Types
    BY <2>2 DEF Types
  <2>5. channels' = AddOrUpdate(link, type, c, TRUE, FALSE) /\ Witness /\ users' = users
    BY <1>3, <2>1, <2>2 DEF Promote, Move
  <2>6. exported' \in [Chat -> Nat]
    BY <1>3 DEF IInv, TypeInv, Promote
  <2>7. QED
    BY <1>1, <2>3, <2>4, <2>5, <2>6, WrittenRows, WitnessStep
<1>4. QED
  BY <1>2, <1>3

-----------------------------------------------------------------------------
(* Every step keeps the invariant.                                         *)
LEMMA NextKeepsIInv ==
  ASSUME IInv, [Next]_vars
  PROVE  IInv'
<1>1. ASSUME NEW v \in Visit,
             \/ \E p \in Person, way \in {"start", "site", "check"}, ref \in Person \cup {None} :
                  Arrive(v, p, way, ref)
             \/ Look(v) \/ Insert(v) \/ Open(v) \/ Check(v) \/ Judge(v) \/ End(v)
      PROVE  IInv'
  BY <1>1, ArriveKeepsIInv, LookKeepsIInv, InsertKeepsIInv, OpenKeepsIInv, CheckKeepsIInv,
     JudgeKeepsIInv, EndKeepsIInv
<1>2. ASSUME NEW p \in Person,
             \/ \E role \in Roles : SetRole(p, role) \/ AssignAdmin(p, role)
             \/ \E admin \in Person : RevokeAdmin(admin, p)
      PROVE  IInv'
  <2>1. \E role \in Roles \cup {"user"} : SetRole(p, role) \/ AssignAdmin(p, role)
    BY <1>2 DEF RevokeAdmin
  <2>2. QED
    BY <2>1, RoleKeepsIInv
<1>3. CASE UNCHANGED vars
  <2>1. UNCHANGED <<channels, requests, members, bot, exported, visit, users>>
    BY <1>3 DEF vars
  <2>2. QED
    BY <2>1, UsersStep DEF IInv, TypeInv
<1>4. QED
  BY <1>1, <1>2, <1>3, ListKeepsIInv, MoveKeepsIInv DEF Next

(* Nobody visits at the start, and the list is empty.                      *)
LEMMA InitIInv == Init => IInv
<1>1. SUFFICES ASSUME Init PROVE IInv
  OBVIOUS
<1>2. users \in [Person -> UserRow \cup {None}]
  <2>1. Row \in UserRow
    BY DEF Row, UserRow
  <2>2. QED
    BY <1>1, <2>1 DEF Init
<1>3. channels \in Seq(ChannelRow \cup {None})
  BY <1>1 DEF Init
<1>4. \A v \in Visit : visit[v] = Idle
  BY <1>1 DEF Init
<1>5. visit \in [Visit -> Visiting]
  BY <1>1 DEF Init, Visiting
<1>6. Idle.at = "idle" /\ exported \in [Chat -> Nat]
  BY <1>1 DEF Idle, Init
<1>7. QED
  BY <1>2, <1>3, <1>4, <1>5, <1>6
     DEF IInv, TypeInv, FoundInv, LoopInv, GateStopsOutsiders, GateAdmitsMembers

(* Rows and visits stay in their types, a referrer that was found keeps    *)
(* its row, and each channel required since a visit began is still to be   *)
(* looked at as it stands, is missing, or was passed.                      *)
THEOREM GateInvariant == Spec => []IInv
<1>1. Init => IInv
  BY InitIInv
<1>2. IInv /\ [Next]_vars => IInv'
  BY NextKeepsIInv
<1>3. QED
  BY <1>1, <1>2, PTL DEF Spec

(* Who is let in passed, at some time of the visit, every channel that was *)
(* required during all of it (subscription.py:26-89, users.py:64-104).     *)
THEOREM OutsidersAreStopped == Spec => []GateStopsOutsiders
<1>1. IInv => GateStopsOutsiders
  BY DEF IInv
<1>2. QED
  BY <1>1, GateInvariant, PTL

(* Who is stopped failed, at some time of the visit, a channel that was    *)
(* required at some time of it (subscription.py:26-89, users.py:64-104).   *)
THEOREM MembersAreAdmitted == Spec => []GateAdmitsMembers
<1>1. IInv => GateAdmitsMembers
  BY DEF IInv
<1>2. QED
  BY <1>1, GateInvariant, PTL
=============================================================================
