---------------------------- MODULE ProcessProofs ---------------------------
(***************************************************************************)
(* Proofs about the processes: how they come up (Bootstrap), for every set *)
(* of them, every database they may start from and any number of stops and *)
(* edits; and what the worker and the breaker of a running process do      *)
(* (Dispatch), for every queue of events, every number of calls and every  *)
(* limit.  The two components share nothing here: each has its own         *)
(* variables, its own invariant and its own specification, BootSpec and    *)
(* Spec.                                                                   *)
(***************************************************************************)
EXTENDS Bootstrap, Dispatch, WellFoundedInduction, TLAPS

-----------------------------------------------------------------------------
(* The start of the processes.                                             *)
StartTypeInv ==
  /\ production \in BOOLEAN
  /\ rows \in [RowName -> {Absent, "default", "edited"}]
  /\ proc \in [Process -> {"down", "upgrading", "starting", "reading", "serving"}]
  /\ seen \in [Process -> Seq({Absent, "default", "edited"})]

(* In production only the api changes the schema, and only to the head:    *)
(* below it the schema is one the history left.                            *)
SchemaInv ==
  \/ schema.version = Latest
  \/ ~(Reads("settings") \cup Reads("admin") \subseteq schema.parts)

(* What a process has read below the head, the schema has room for; it     *)
(* serves only after it has read everything.                               *)
ReadInv ==
  \A p \in Process :
    /\ Len(seen[p]) <= Len(Rows)
    /\ schema.version # Latest =>
         /\ proc[p] # "serving"
         /\ \A i \in 1 .. Len(seen[p]) : Reads(Rows[i]) \subseteq schema.parts

(* The inductive invariant behind ServesOnHead.                            *)
StartInv == StartTypeInv /\ (production => SchemaInv /\ ReadInv)

-----------------------------------------------------------------------------
(* No revision before the last makes all that init_db reads.               *)
LEMMA RevisionsLeaveUnreadable ==
  \A v \in 0 .. Latest - 1 :
    ~(Reads("settings") \subseteq UNION {Adds(r) \cup Pledges(r) : r \in 1 .. v})
<1>1. SUFFICES ASSUME NEW v \in 0 .. 4, NEW r \in 1 .. v
               PROVE  <<"fragment_settings", 0>> \notin Adds(r) \cup Pledges(r)
  BY DEF Reads, Latest
<1>2. r \in {1, 2, 3, 4}
  BY <1>1
<1>3. "fragment_settings" \notin Creates[r]
  BY <1>2 DEF Creates, ShopTables, MoneyTables, PromotionTables, ReferralTables, DeskTables,
              ReliabilityTables, TimelineTables
<1>4. 0 # r
  BY <1>2
<1>5. QED
  BY <1>3, <1>4 DEF Adds, Pledges

(* The rows, in the order in which init_db reads them.                     *)
LEMMA RowsRead ==
  /\ Len(Rows) = 2 /\ Rows[1] = "settings" /\ Rows[2] = "admin"
  /\ RowName = {"settings", "admin"}
  /\ \A n \in {0, 1} : Rows[n + 1] \in RowName
BY DEF Rows, RowName

(* A process that goes somewhere but to serve starts from nothing read.    *)
LEMMA GotoKeepsStartInv ==
  ASSUME StartInv, NEW p \in Process,
         NEW place \in {"down", "upgrading", "starting", "reading"},
         Goto(p, place), production' = production, rows' = rows,
         production => schema' = schema
  PROVE  StartInv'
<1>1. StartTypeInv'
  BY DEF StartInv, StartTypeInv, Goto
<1>2. \A q \in Process : q # p => proc'[q] = proc[q] /\ seen'[q] = seen[q]
  BY DEF StartInv, StartTypeInv, Goto
<1>3. proc'[p] = place /\ seen'[p] = <<>>
  BY DEF StartInv, StartTypeInv, Goto
<1>4. ASSUME production PROVE SchemaInv' /\ ReadInv'
  <2>1. schema' = schema
    BY <1>4
  <2>2. SchemaInv'
    BY <1>4, <2>1 DEF StartInv, SchemaInv
  <2>3. SUFFICES ASSUME NEW q \in Process
                 PROVE  /\ Len(seen'[q]) <= Len(Rows)
                        /\ schema.version # Latest =>
                             /\ proc'[q] # "serving"
                             /\ \A i \in 1 .. Len(seen'[q]) : Reads(Rows[i]) \subseteq schema.parts
    BY <2>1, <2>2 DEF ReadInv
  <2>4. CASE q = p
    BY <1>3, <2>4, RowsRead
  <2>5. CASE q # p
    BY <1>2, <1>4, <2>5 DEF StartInv, ReadInv
  <2>6. QED
    BY <2>4, <2>5
<1>5. QED
  BY <1>1, <1>4 DEF StartInv

(* An upgrade that commits is on the last revision, and then nothing has   *)
(* been read anew.                                                         *)
LEMMA CommitUpgradeKeepsStartInv ==
  ASSUME StartInv, "api" \in Process, CommitUpgrade
  PROVE  StartInv'
<1>1. schema'.version = Latest /\ production' = production
  BY DEF CommitUpgrade
<1>2. StartTypeInv'
  BY DEF StartInv, StartTypeInv, CommitUpgrade, Goto
<1>3. ASSUME production PROVE ReadInv'
  <2>1. \A p \in Process : seen'[p] = <<>> \/ seen'[p] = seen[p]
    BY DEF StartInv, StartTypeInv, CommitUpgrade, Goto
  <2>2. QED
    BY <1>1, <1>3, <2>1, RowsRead DEF StartInv, ReadInv
<1>4. QED
  BY <1>1, <1>2, <1>3 DEF StartInv, SchemaInv

(* Reading goes on only where the schema has what the row needs.           *)
LEMMA ReadKeepsStartInv ==
  ASSUME StartInv, NEW p \in Process, Read(p)
  PROVE  StartInv'
<1> DEFINE k == Rows[Len(seen[p]) + 1]
<1>1. seen[p] \in Seq({Absent, "default", "edited"}) /\ Len(seen[p]) \in {0, 1}
  <2>1. seen[p] \in Seq({Absent, "default", "edited"})
    BY DEF StartInv, StartTypeInv
  <2>2. Len(seen[p]) \in Nat
    BY <2>1
  <2>3. Len(seen[p]) < 2
    BY RowsRead DEF Read
  <2>4. \A n \in Nat : n < 2 => n \in {0, 1}
    OBVIOUS
  <2>5. QED
    BY <2>1, <2>2, <2>3, <2>4
<1>2. k \in RowName
  BY <1>1, RowsRead
<1>3. production' = production /\ rows' = rows /\ schema' = schema
  BY DEF Read
<1>4. CASE ~(Reads(k) \subseteq schema.parts)
  BY <1>3, <1>4, GotoKeepsStartInv DEF Read, Exit
<1>5. CASE Reads(k) \subseteq schema.parts
  <2>1. seen' = [seen EXCEPT ![p] = Append(@, rows[k])] /\ proc' = proc
    BY <1>5 DEF Read
  <2>2. rows[k] \in {Absent, "default", "edited"}
    BY <1>2 DEF StartInv, StartTypeInv
  <2> DEFINE more == Append(seen[p], rows[k])
  <2>3. more \in Seq({Absent, "default", "edited"}) /\ Len(more) = Len(seen[p]) + 1
    BY <1>1, <2>2
  <2> HIDE DEF more
  <2>4. seen' = [seen EXCEPT ![p] = more]
    BY <2>1 DEF more
  <2>5. StartTypeInv'
    BY <1>3, <2>1, <2>3, <2>4 DEF StartInv, StartTypeInv
  <2>6. seen'[p] = more /\ \A q \in Process : q # p => seen'[q] = seen[q]
    BY <2>4 DEF StartInv, StartTypeInv
  <2>7. ASSUME production PROVE ReadInv'
    <3>1. SUFFICES ASSUME NEW q \in Process
                   PROVE  /\ Len(seen'[q]) <= Len(Rows)
                          /\ schema.version # Latest =>
                               /\ proc[q] # "serving"
                             /\ \A i \in 1 .. Len(seen'[q]) : Reads(Rows[i]) \subseteq schema.parts
      BY <1>3, <2>1 DEF ReadInv
    <3>2. CASE q # p
      BY <2>6, <2>7, <3>2 DEF StartInv, ReadInv
    <3>3. CASE q = p
      <4>1. Len(seen'[q]) = Len(seen[p]) + 1
        BY <2>3, <2>6, <3>3
      <4>2. schema.version # Latest => proc[q] # "serving"
        BY <2>7 DEF StartInv, ReadInv
      <4>3. ASSUME schema.version # Latest, NEW i \in 1 .. Len(seen'[q])
            PROVE  Reads(Rows[i]) \subseteq schema.parts
        <5>1. CASE i = Len(seen[p]) + 1
          BY <1>5, <5>1
        <5>2. CASE i # Len(seen[p]) + 1
          <6>1. i \in 1 .. Len(seen[p])
            BY <1>1, <4>1, <5>2
          <6>2. QED
            BY <2>7, <4>3, <6>1 DEF StartInv, ReadInv
        <5>3. QED
          BY <5>1, <5>2
      <4>4. Len(seen'[q]) <= Len(Rows)
        <5>1. Len(Rows) = 2
          BY RowsRead
        <5>2. \A n \in {0, 1} : n + 1 <= 2
          OBVIOUS
        <5>3. QED
          BY <1>1, <4>1, <5>1, <5>2
      <4>5. QED
        BY <4>2, <4>3, <4>4
    <3>4. QED
      BY <3>2, <3>3
  <2>8. QED
    BY <1>3, <2>5, <2>7 DEF StartInv, SchemaInv
<1>6. QED
  BY <1>4, <1>5

(* Who has read everything has read it from a schema at the head.          *)
LEMMA CommitKeepsStartInv ==
  ASSUME StartInv, NEW p \in Process, Commit(p)
  PROVE  StartInv'
<1>1. Len(seen[p]) = 2 /\ schema' = schema /\ production' = production
  BY RowsRead DEF Commit
<1>2. CASE ~(\A k \in Missed(p) : rows[k] = Absent)
  BY <1>1, <1>2, GotoKeepsStartInv DEF Commit, Exit
<1>3. CASE \A k \in Missed(p) : rows[k] = Absent
  <2>1. Goto(p, "serving")
    BY <1>3 DEF Commit
  <2>2. rows' \in [RowName -> {Absent, "default", "edited"}]
    BY <1>3 DEF Commit, StartInv, StartTypeInv
  <2>3. StartTypeInv'
    BY <1>1, <2>1, <2>2 DEF StartInv, StartTypeInv, Goto
  <2>4. /\ proc'[p] = "serving" /\ seen'[p] = <<>>
        /\ \A q \in Process : q # p => proc'[q] = proc[q] /\ seen'[q] = seen[q]
    BY <2>1 DEF StartInv, StartTypeInv, Goto
  <2>5. ASSUME production PROVE schema.version = Latest
    <3>1. SUFFICES ASSUME schema.version # Latest PROVE FALSE
      OBVIOUS
    <3>2. \A i \in 1 .. 2 : Reads(Rows[i]) \subseteq schema.parts
      BY <1>1, <2>5, <3>1 DEF StartInv, ReadInv
    <3>3. Reads("settings") \subseteq schema.parts /\ Reads("admin") \subseteq schema.parts
      BY <3>2, RowsRead
    <3>4. QED
      BY <2>5, <3>1, <3>3 DEF StartInv, SchemaInv
  <2>6. ASSUME production PROVE SchemaInv' /\ ReadInv'
    BY <1>1, <2>4, <2>5, <2>6, RowsRead DEF StartInv, SchemaInv, ReadInv
  <2>7. QED
    BY <1>1, <2>3, <2>6 DEF StartInv
<1>4. QED
  BY <1>2, <1>3

(* Every step keeps the invariant.                                         *)
LEMMA NextKeepsStartInv ==
  ASSUME StartInv, [BootNext]_bootVars
  PROVE  StartInv'
<1>1. "api" \in Process
  BY BootstrapAssumption
<1>2. ASSUME UNCHANGED <<production, schema, proc, seen>>,
             rows' \in [RowName -> {Absent, "default", "edited"}]
      PROVE  StartInv'
  BY <1>2 DEF StartInv, StartTypeInv, SchemaInv, ReadInv
<1>3. ASSUME NEW p \in Process, Start(p) PROVE StartInv'
  BY <1>3, GotoKeepsStartInv DEF Start
<1>4. ASSUME NEW p \in Process, CreateAll(p) PROVE StartInv'
  BY <1>4, GotoKeepsStartInv DEF CreateAll, Exit
<1>5. ASSUME NEW p \in Process, Read(p) PROVE StartInv'
  BY <1>5, ReadKeepsStartInv
<1>6. ASSUME NEW p \in Process, Commit(p) PROVE StartInv'
  BY <1>6, CommitKeepsStartInv
<1>7. CASE Migrate
  <2>1. CASE Exit("api")
    BY <1>1, <1>7, <2>1, GotoKeepsStartInv DEF Migrate, Exit
  <2>2. CASE UNCHANGED <<proc, seen>>
    BY <1>2, <1>7, <2>2 DEF Migrate, StartInv, StartTypeInv
  <2>3. QED
    BY <1>7, <2>1, <2>2 DEF Migrate
<1>8. CASE CommitUpgrade
  BY <1>1, <1>8, CommitUpgradeKeepsStartInv
<1>9. ASSUME NEW p \in Process, Stop(p) PROVE StartInv'
  BY <1>9, GotoKeepsStartInv DEF Stop, Exit
<1>10. ASSUME NEW k \in RowName, Edit(k) PROVE StartInv'
  BY <1>2, <1>10 DEF Edit, StartInv, StartTypeInv
<1>11. CASE UNCHANGED bootVars
  BY <1>2, <1>11 DEF bootVars, StartInv, StartTypeInv
<1>12. QED
  BY <1>3, <1>4, <1>5, <1>6, <1>7, <1>8, <1>9, <1>10, <1>11 DEF BootNext, Boot

(* The invariant holds of every database the processes may find.           *)
LEMMA InitStartInv == BootInit => StartInv
<1>1. SUFFICES ASSUME BootInit PROVE StartInv
  OBVIOUS
<1>2. StartTypeInv
  BY <1>1, BootstrapAssumption DEF BootInit, StartTypeInv
<1>3. SchemaInv
  <2>1. schema \in History /\ schema.version \in 0 .. Latest
    BY <1>1, BootstrapAssumption DEF BootInit
  <2>2. QED
    BY <2>1, HistoryAssumption DEF SchemaInv, Latest
<1>4. ReadInv
  <2>1. \A p \in Process : proc[p] = "down" /\ Len(seen[p]) = 0
    BY <1>1 DEF BootInit
  <2>2. Len(Rows) = 2
    BY RowsRead
  <2>3. 0 <= 2 /\ 1 .. 0 = {}
    OBVIOUS
  <2>4. QED
    BY <2>1, <2>2, <2>3 DEF ReadInv
<1>5. QED
  BY <1>2, <1>3, <1>4 DEF StartInv

(* In production the schema below the head is never one on which init_db   *)
(* reads everything, and nobody has read more than it has room for.        *)
THEOREM StartInvariant == BootSpec => []StartInv
<1>1. BootInit => StartInv
  BY InitStartInv
<1>2. StartInv /\ [BootNext]_bootVars => StartInv'
  BY NextKeepsStartInv
<1>3. QED
  BY <1>1, <1>2, PTL DEF BootSpec

(* In production no process serves on a schema below the head, although    *)
(* only the api waits for the migrations.                                  *)
THEOREM ServesOnlyOnHead == BootSpec => []ServesOnHead
<1>1. StartInv => ServesOnHead
  BY DEF StartInv, ReadInv, ServesOnHead
<1>2. QED
  BY <1>1, StartInvariant, PTL

(* In production a start never undoes what an administrator changed, not   *)
(* even one that looked before the row existed.                            *)
THEOREM EditsSurvive == BootSpec => EditsSurviveStarts
<1>1. ASSUME StartInv, [BootNext]_bootVars
      PROVE  [production => \A k \in RowName : rows[k] = "edited" => rows'[k] = "edited"]_bootVars
  <2>1. SUFFICES ASSUME production, NEW k \in RowName, rows[k] = "edited"
                 PROVE  rows'[k] = "edited"
    OBVIOUS
  <2>2. rows \in [RowName -> {Absent, "default", "edited"}]
    BY <1>1 DEF StartInv, StartTypeInv
  <2>3. ASSUME NEW p \in Process, Commit(p) PROVE rows'[k] = "edited"
    <3>1. CASE \A m \in Missed(p) : rows[m] = Absent
      <4>1. k \notin Missed(p)
        BY <2>1, <3>1, BootstrapAssumption
      <4>2. QED
        BY <2>1, <2>3, <3>1, <4>1 DEF Commit
    <3>2. CASE ~(\A m \in Missed(p) : rows[m] = Absent)
      BY <2>1, <2>3, <3>2 DEF Commit
    <3>3. QED
      BY <3>1, <3>2
  <2>4. ASSUME NEW m \in RowName, Edit(m) PROVE rows'[k] = "edited"
    BY <2>1, <2>2, <2>4 DEF Edit
  <2>5. CASE rows' = rows
    BY <2>1, <2>5
  <2>6. QED
    BY <1>1, <2>3, <2>4, <2>5
       DEF BootNext, Boot, Start, CreateAll, Read, Migrate, CommitUpgrade, Stop, bootVars
<1>2. QED
  BY <1>1, StartInvariant, PTL DEF BootSpec, EditsSurviveStarts

-----------------------------------------------------------------------------
(* The worker and the breaker.                                             *)
TypeInv ==
  /\ row \in [Event -> Row]
  /\ written \in [Event -> Row \cup {None}]
  /\ batch \in SUBSET Event
  /\ worker \in {"idle", "handling", "waiting"}
  /\ sent \in [Event -> Nat] /\ undone \in [Event -> Nat]

(* Between two cycles the session is empty, and the worker waits for       *)
(* Fragment in the course of a delivery only.                              *)
SessionInv ==
  /\ worker = "idle" => batch = {} /\ written = Nothing
  /\ worker = "waiting" => batch # {} /\ Kind[Current] = "request"

(* An event still to handle is not marked, as the session sees it.         *)
TurnInv == \A e \in batch : Seen(e).status # "processed"

(* A top-up is told once more than it was undone only while its mark, made *)
(* by this session or committed, stands; nothing else is told.             *)
ToldInv ==
  \A e \in Event :
    /\ Kind[e] # "topup" => sent[e] = 0
    /\ sent[e] <= undone[e] + (IF Seen(e).status = "processed" THEN 1 ELSE 0)

(* The inductive invariant behind ToldPerRecord.                           *)
IInv == TypeInv /\ SessionInv /\ TurnInv /\ ToldInv

(* The inductive invariant behind ProbesSpaced: a tripped breaker's timer  *)
(* never runs ahead of the time since the last call it let through.        *)
QuietInv ==
  /\ breaker \in Breaker
  /\ quiet \in 0 .. Cooldown
  /\ breaker.state # "CLOSED" => breaker.since <= quiet
-----------------------------------------------------------------------------
(* A non-empty set of natural numbers has a least element.                 *)
LEMMA LeastNat ==
  ASSUME NEW S \in SUBSET Nat, S # {}
  PROVE  \E n \in S : \A m \in S : n <= m
<1>1. IsWellFoundedOn({p \in Nat \X Nat : p[1] < p[2]}, Nat)
  BY NatLessThanWellFounded DEF OpToRel
<1>2. PICK n \in S : \A m \in S : <<m, n>> \notin {p \in Nat \X Nat : p[1] < p[2]}
  BY <1>1, WFMin
<1>3. ASSUME NEW m \in S PROVE n <= m
  <2>1. m \in Nat /\ n \in Nat
    OBVIOUS
  <2>2. ~(m < n)
    BY <1>2, <2>1
  <2>3. QED
    BY <2>1, <2>2
<1>4. QED
  BY <1>3

(* Every event has its place in the queue.                                 *)
LEMMA PlaceType == \A e \in Event : Place[e] \in Nat /\ Queue[Place[e]] = e
<1>1. TAKE e \in Event
<1>2. \E i \in DOMAIN Queue : Queue[i] = e
  BY DEF Event, ToSet
<1>3. Place[e] \in DOMAIN Queue /\ Queue[Place[e]] = e
  BY <1>2 DEF Place
<1>4. DOMAIN Queue \subseteq Nat
  BY DispatchAssumption
<1>5. QED
  BY <1>3, <1>4

(* While events are left, the one whose turn it is is among them.          *)
LEMMA CurrentIsLeft ==
  ASSUME batch \in SUBSET Event, batch # {}
  PROVE  Current \in batch /\ Current \in Event
<1>1. {Place[e] : e \in batch} \in SUBSET Nat /\ {Place[e] : e \in batch} # {}
  BY PlaceType
<1>2. PICK n \in {Place[e] : e \in batch} : \A m \in {Place[e] : e \in batch} : n <= m
  BY <1>1, LeastNat
<1>3. PICK e \in batch : n = Place[e]
  BY <1>2
<1>4. \A d \in batch : ~Before(d, e)
  BY <1>2, <1>3, PlaceType DEF Before
<1>5. QED
  BY <1>4 DEF Current

(* The event in turn can be marked: its row, as the session sees it, is a  *)
(* row, and so are the marks.                                              *)
LEMMA MarksAreRows ==
  ASSUME TypeInv
  PROVE  \A e \in Event :
           /\ Seen(e) \in Row
           /\ Processed(e) = [written EXCEPT ![e] = [Seen(e) EXCEPT !.status = "processed"]]
           /\ [Seen(e) EXCEPT !.status = "processed"] \in Row
           /\ \E r \in Row : Refused(e) = [written EXCEPT ![e] = r] /\ r.status # "processed"
<1>1. TAKE e \in Event
<1>2. Seen(e) \in Row
  BY DEF TypeInv, Seen
<1>3. [Seen(e) EXCEPT !.status = "processed"] \in Row
  BY <1>2 DEF Row
<1>4. \E r \in Row : Refused(e) = [written EXCEPT ![e] = r] /\ r.status # "processed"
  <2>1. Seen(e).retries + 1 \in Nat
    BY <1>2 DEF Row
  <2>2. [status |-> IF Seen(e).retries + 1 >= MaxRetries THEN "failed" ELSE "retry",
         retries |-> Seen(e).retries + 1] \in Row
    BY <2>1 DEF Row
  <2>3. QED
    BY <2>2 DEF Refused
<1>5. QED
  BY <1>2, <1>3, <1>4 DEF Processed

(* What a commit writes is what the session saw.                           *)
LEMMA CommitShowsSeen ==
  ASSUME TypeInv
  PROVE  /\ Merged(written) \in [Event -> Row]
         /\ \A e \in Event : Merged(written)[e] = Seen(e)
BY MarksAreRows DEF Merged, Seen

-----------------------------------------------------------------------------
(* Marking the event in turn keeps the invariant, provided that its        *)
(* messages are accounted for.                                             *)
LEMMA MarkKeepsIInv ==
  ASSUME IInv, batch # {}, NEW r \in Row,
         row' = row, undone' = undone,
         Done([written EXCEPT ![Current] = r]),
         sent' \in [Event -> Nat],
         \A e \in Event : e # Current \/ Kind[e] # "topup" => sent'[e] = sent[e],
         sent'[Current] <= undone[Current] + (IF r.status = "processed" THEN 1 ELSE 0)
  PROVE  IInv'
<1>1. Current \in batch /\ Current \in Event
  BY CurrentIsLeft DEF IInv, TypeInv
<1>2. TypeInv'
  BY <1>1 DEF IInv, TypeInv, Done
<1>3. r # None
  BY DispatchAssumption
<1>4. \A e \in Event : Seen(e)' = IF e = Current THEN r ELSE Seen(e)
  BY <1>1, <1>3 DEF IInv, TypeInv, Done, Seen
<1>5. SessionInv'
  BY DEF Done, SessionInv
<1>6. TurnInv'
  <2>1. batch' = batch \ {Current}
    BY DEF Done
  <2>2. QED
    BY <1>4, <2>1 DEF IInv, TypeInv, TurnInv
<1>7. ToldInv'
  <2>1. SUFFICES ASSUME NEW e \in Event
                 PROVE  /\ Kind[e] # "topup" => sent'[e] = 0
                        /\ sent'[e] <= undone[e] + (IF Seen(e)'.status = "processed" THEN 1 ELSE 0)
    BY DEF ToldInv
  <2>2. CASE e = Current
    BY <1>1, <1>4, <2>2 DEF IInv, ToldInv
  <2>3. CASE e # Current
    BY <1>4, <2>3 DEF IInv, ToldInv
  <2>4. QED
    BY <2>2, <2>3
<1>8. QED
  BY <1>2, <1>5, <1>6, <1>7 DEF IInv

(* A session that goes away gives up its marks, and with the mark of a     *)
(* message it sent the message counts as undone.                           *)
LEMMA ForgetKeepsIInv ==
  ASSUME IInv, Forget, row' = row, sent' = sent
  PROVE  IInv'
<1>1. TypeInv'
  BY DEF IInv, TypeInv, Forget, Nothing
<1>2. SessionInv' /\ TurnInv'
  BY DEF Forget, SessionInv, TurnInv
<1>3. \A e \in Event : Seen(e)' = row[e]
  BY DEF Forget, Nothing, Seen
<1>4. ToldInv'
  <2>1. SUFFICES ASSUME NEW e \in Event
                 PROVE  /\ Kind[e] # "topup" => sent[e] = 0
                        /\ sent[e] <= undone'[e] + (IF row[e].status = "processed" THEN 1 ELSE 0)
    BY <1>3 DEF ToldInv
  <2>2. sent[e] \in Nat /\ undone[e] \in Nat
    BY DEF IInv, TypeInv
  <2>3. CASE Kind[e] = "topup" /\ written[e] # None /\ written[e].status = "processed"
    BY <2>2, <2>3 DEF IInv, ToldInv, Seen, Forget
  <2>4. CASE ~(Kind[e] = "topup" /\ written[e] # None /\ written[e].status = "processed")
    <3>1. undone'[e] = undone[e]
      BY <2>4 DEF Forget
    <3>2. Kind[e] # "topup" \/ written[e] = None \/ Seen(e).status # "processed"
      BY <2>4 DEF Seen
    <3>3. QED
      BY <2>2, <3>1, <3>2 DEF IInv, ToldInv, Seen
  <2>5. QED
    BY <2>3, <2>4
<1>5. QED
  BY <1>1, <1>2, <1>4 DEF IInv

(* The event in turn is one of the batch.                                  *)
LEMMA TurnIsLeft ==
  ASSUME IInv, NEW k, Turn(k)
  PROVE  /\ batch # {} /\ Current \in Event /\ Current \in batch /\ Kind[Current] = k
         /\ Seen(Current).status # "processed"
BY CurrentIsLeft DEF IInv, TypeInv, TurnInv, Turn

(* An order is never told of by a top-up's message.                        *)
LEMMA RequestIsNotTold ==
  ASSUME IInv, batch # {}, Kind[Current] # "topup", sent' = sent
  PROVE  /\ sent' \in [Event -> Nat]
         /\ \A n \in {0, 1} : sent'[Current] <= undone[Current] + n
<1>1. Current \in Event
  BY CurrentIsLeft DEF IInv, TypeInv
<1>2. sent[Current] = 0 /\ undone[Current] \in Nat
  BY <1>1 DEF IInv, TypeInv, ToldInv
<1>3. QED
  BY <1>2 DEF IInv, TypeInv

-----------------------------------------------------------------------------
(* Every step keeps the invariant.                                         *)
LEMMA PublishKeepsIInv ==
  ASSUME IInv, NEW e \in Event, Publish(e)
  PROVE  IInv'
<1>1. TypeInv'
  BY DEF IInv, TypeInv, Publish, Row
<1>2. \A d \in Event : Seen(d)'.status = "processed" <=> Seen(d).status = "processed"
  BY DEF IInv, TypeInv, Publish, Seen, Row
<1>3. SessionInv' /\ TurnInv' /\ ToldInv'
  <2>1. Current' = Current
    BY DEF Publish, Current
  <2>2. SessionInv'
    BY <2>1 DEF IInv, SessionInv, Publish
  <2>3. TurnInv'
    BY <1>2 DEF IInv, TypeInv, TurnInv, Publish
  <2>4. ToldInv'
    BY <1>2 DEF IInv, ToldInv, Publish
  <2>5. QED
    BY <2>2, <2>3, <2>4
<1>4. QED
  BY <1>1, <1>3 DEF IInv

(* A claim takes no event that is marked as processed.                     *)
LEMMA ClaimKeepsIInv ==
  ASSUME IInv, Claim
  PROVE  IInv'
<1> DEFINE ready == {e \in Event : Claimable(e)}
           taken == {e \in ready : Cardinality({d \in ready : Before(d, e)}) < BatchLimit}
<1>1. taken \in SUBSET Event /\ \A e \in taken : row[e].status # "processed"
  BY DEF Claimable
<1>2. /\ worker = "idle" /\ batch' = taken /\ worker' = "handling"
      /\ written' = [e \in Event |-> IF e \in taken
                                      THEN [row[e] EXCEPT !.status = "processing"] ELSE None]
      /\ row' = row /\ sent' = sent /\ undone' = undone
  BY DEF Claim
<1> HIDE DEF taken
<1>3. written = Nothing
  BY <1>2 DEF IInv, SessionInv
<1>4. \A e \in taken : /\ [row[e] EXCEPT !.status = "processing"] \in Row
                        /\ [row[e] EXCEPT !.status = "processing"].status = "processing"
  BY <1>1 DEF IInv, TypeInv, Row
<1>5. TypeInv'
  BY <1>1, <1>2, <1>4 DEF IInv, TypeInv
<1>6. \A e \in Event : Seen(e) = row[e]
  BY <1>3 DEF Seen, Nothing
<1>7. \A e \in Event : Seen(e)' = IF e \in taken THEN [row[e] EXCEPT !.status = "processing"]
                                 ELSE row[e]
  BY <1>1, <1>2, <1>4, DispatchAssumption DEF Seen
<1>8. SessionInv'
  BY <1>2 DEF SessionInv
<1>9. TurnInv'
  BY <1>1, <1>2, <1>4, <1>7 DEF TurnInv
<1>10. ToldInv'
  BY <1>1, <1>2, <1>4, <1>6, <1>7 DEF IInv, ToldInv
<1>11. QED
  BY <1>5, <1>8, <1>9, <1>10 DEF IInv

(* A message and its mark are one step of the session.                     *)
LEMMA TellTopupKeepsIInv ==
  ASSUME IInv, TellTopup
  PROVE  IInv'
<1>1. Turn("topup") /\ sent' = [sent EXCEPT ![Current] = @ + 1]
  BY DEF TellTopup
<1>2. /\ batch # {} /\ Current \in Event /\ Kind[Current] = "topup"
      /\ Seen(Current).status # "processed"
  BY <1>1, TurnIsLeft
<1> DEFINE r == [Seen(Current) EXCEPT !.status = "processed"]
<1>3. r \in Row /\ r.status = "processed" /\ Processed(Current) = [written EXCEPT ![Current] = r]
  BY <1>2, MarksAreRows DEF IInv, Row
<1>4. Done([written EXCEPT ![Current] = r]) /\ row' = row /\ undone' = undone
  BY <1>3 DEF TellTopup
<1> HIDE DEF r
<1>5. sent[Current] \in Nat /\ undone[Current] \in Nat /\ sent[Current] <= undone[Current]
  BY <1>2 DEF IInv, TypeInv, ToldInv
<1>6. sent' \in [Event -> Nat] /\ sent'[Current] = sent[Current] + 1
  BY <1>1, <1>2, <1>5 DEF IInv, TypeInv
<1>7. \A e \in Event : e # Current \/ Kind[e] # "topup" => sent'[e] = sent[e]
  BY <1>1, <1>2 DEF IInv, TypeInv
<1>8. sent'[Current] <= undone[Current] + (IF r.status = "processed" THEN 1 ELSE 0)
  BY <1>3, <1>5, <1>6
<1>9. QED
  BY <1>2, <1>3, <1>4, <1>6, <1>7, <1>8, MarkKeepsIInv

(* Marking an event as failed says nothing of messages.                    *)
LEMMA RefuseKeepsIInv ==
  ASSUME IInv, batch # {}, Kind[Current] # "topup", row' = row, undone' = undone, sent' = sent,
         Done(Refused(Current))
  PROVE  IInv'
<1>1. Current \in Event
  BY CurrentIsLeft DEF IInv, TypeInv
<1>2. PICK r \in Row : Refused(Current) = [written EXCEPT ![Current] = r]
  BY <1>1, MarksAreRows DEF IInv
<1>3. sent' \in [Event -> Nat] /\ \A n \in {0, 1} : sent'[Current] <= undone[Current] + n
  BY RequestIsNotTold
<1>4. QED
  BY <1>2, <1>3, MarkKeepsIInv

(* Nor does marking as processed an event that tells nobody.               *)
LEMMA FinishKeepsIInv ==
  ASSUME IInv, batch # {}, Kind[Current] # "topup", row' = row, undone' = undone, sent' = sent,
         Done(Processed(Current))
  PROVE  IInv'
<1>1. Current \in Event
  BY CurrentIsLeft DEF IInv, TypeInv
<1> DEFINE r == [Seen(Current) EXCEPT !.status = "processed"]
<1>2. r \in Row /\ Processed(Current) = [written EXCEPT ![Current] = r]
  BY <1>1, MarksAreRows DEF IInv
<1> HIDE DEF r
<1>3. sent' \in [Event -> Nat] /\ \A n \in {0, 1} : sent'[Current] <= undone[Current] + n
  BY RequestIsNotTold
<1>4. Done([written EXCEPT ![Current] = r])
  BY <1>2
<1>5. QED
  BY <1>2, <1>3, <1>4, MarkKeepsIInv

(* The commits of a delivery in the middle of a batch.                     *)
LEMMA GiveUpKeepsIInv ==
  ASSUME IInv, GiveUp
  PROVE  IInv'
<1>1. /\ batch # {} /\ Current \in Event /\ Kind[Current] = "request"
  BY TurnIsLeft DEF GiveUp
<1>2. PICK r \in Row : Refused(Current) = [written EXCEPT ![Current] = r] /\ r.status # "processed"
  BY <1>1, MarksAreRows DEF IInv
<1>3. r # None
  BY DispatchAssumption
<1>4. /\ row' = Merged(written) /\ sent' = sent /\ undone' = undone
      /\ Done([Nothing EXCEPT ![Current] = r])
  BY <1>1, <1>2 DEF GiveUp, IInv, TypeInv
<1>5. TypeInv'
  BY <1>1, <1>4, CommitShowsSeen DEF IInv, TypeInv, Done, Nothing
<1>6. \A e \in Event : Seen(e)' = IF e = Current THEN r ELSE Seen(e)
  BY <1>1, <1>3, <1>4, CommitShowsSeen DEF Seen, Done, Nothing, IInv
<1>7. SessionInv'
  BY <1>4 DEF Done, SessionInv
<1>8. TurnInv'
  BY <1>2, <1>4, <1>6 DEF Done, TurnInv, IInv, TypeInv
<1>9. ToldInv'
  <2>1. sent[Current] = 0 /\ undone[Current] \in Nat
    BY <1>1 DEF IInv, TypeInv, ToldInv
  <2>2. SUFFICES ASSUME NEW e \in Event
                 PROVE  /\ Kind[e] # "topup" => sent[e] = 0
                        /\ sent[e] <= undone[e] + (IF Seen(e)'.status = "processed" THEN 1 ELSE 0)
    BY <1>4 DEF ToldInv
  <2>3. CASE e = Current
    BY <2>1, <2>3
  <2>4. CASE e # Current
    BY <1>6, <2>4 DEF IInv, ToldInv
  <2>5. QED
    BY <2>3, <2>4
<1>10. QED
  BY <1>5, <1>7, <1>8, <1>9 DEF IInv

(* A commit makes true of the rows what the session saw.                   *)
LEMMA CommitKeepsIInv ==
  ASSUME IInv, row' = Merged(written), written' = Nothing, sent' = sent, undone' = undone,
         batch' = batch, SessionInv', worker' \in {"idle", "handling", "waiting"}
  PROVE  IInv'
<1>1. TypeInv'
  BY CommitShowsSeen DEF IInv, TypeInv, Nothing
<1>2. \A e \in Event : Seen(e)' = Seen(e)
  BY CommitShowsSeen DEF IInv, Seen, Nothing
<1>3. TurnInv' /\ ToldInv'
  BY <1>2 DEF IInv, TypeInv, TurnInv, ToldInv
<1>4. QED
  BY <1>1, <1>3 DEF IInv

(* Every step keeps the invariant.                                         *)
LEMMA NextKeepsIInv ==
  ASSUME IInv, [Next]_vars
  PROVE  IInv'
<1>1. ASSUME NEW e \in Event, Publish(e) PROVE IInv'
  BY <1>1, PublishKeepsIInv
<1>2. CASE Claim
  BY <1>2, ClaimKeepsIInv
<1>3. CASE TellTopup
  BY <1>3, TellTopupKeepsIInv
<1>4. CASE TellCreated
  <2>1. batch # {} /\ Kind[Current] = "created"
    BY <1>4, TurnIsLeft DEF TellCreated
  <2>2. QED
    BY <1>4, <2>1, RefuseKeepsIInv DEF TellCreated
<1>5. CASE SkipFulfilled
  <2>1. batch # {} /\ Kind[Current] = "request"
    BY <1>5, TurnIsLeft DEF SkipFulfilled
  <2>2. QED
    BY <1>5, <2>1, FinishKeepsIInv DEF SkipFulfilled
<1>6. CASE Defer
  <2>1. batch # {} /\ Kind[Current] = "request"
    BY <1>6, TurnIsLeft DEF Defer
  <2>2. QED
    BY <1>6, <2>1, RefuseKeepsIInv DEF Defer
<1>7. CASE GiveUp
  BY <1>7, GiveUpKeepsIInv
<1>8. CASE Attempt
  <2>1. batch # {} /\ Kind[Current] = "request"
    BY <1>8, TurnIsLeft DEF Attempt
  <2>2. Current' = Current
    BY <1>8 DEF Attempt, Current
  <2>3. SessionInv'
    BY <1>8, <2>1, <2>2 DEF Attempt, SessionInv
  <2>4. QED
    BY <1>8, <2>3, CommitKeepsIInv DEF Attempt
<1>9. CASE Deliver
  BY <1>9, FinishKeepsIInv DEF Deliver, IInv, SessionInv
<1>10. CASE FailDelivery
  BY <1>10, RefuseKeepsIInv DEF FailDelivery, IInv, SessionInv
<1>11. CASE EndCycle
  BY <1>11, CommitKeepsIInv DEF EndCycle, SessionInv
<1>12. CASE DatabaseError
  BY <1>12, ForgetKeepsIInv DEF DatabaseError
<1>13. CASE Crash
  BY <1>13, ForgetKeepsIInv DEF Crash
<1>14. ASSUME UNCHANGED <<row, written, batch, worker, sent, undone>> PROVE IInv'
  <2>1. Current' = Current
    BY <1>14 DEF Current
  <2>2. \A e \in Event : Seen(e)' = Seen(e)
    BY <1>14 DEF Seen
  <2>3. TypeInv' /\ SessionInv' /\ TurnInv' /\ ToldInv'
    BY <1>14, <2>1, <2>2 DEF IInv, TypeInv, SessionInv, TurnInv, ToldInv
  <2>4. QED
    BY <2>3 DEF IInv
<1>15. CASE Tick
  BY <1>14, <1>15 DEF Tick
<1>16. ASSUME NEW c \in Call, BeginCall(c) \/ EndCall(c) PROVE IInv'
  BY <1>14, <1>16 DEF BeginCall, EndCall
<1>17. CASE UNCHANGED vars
  BY <1>14, <1>17 DEF vars
<1>18. QED
  BY <1>1, <1>2, <1>3, <1>4, <1>5, <1>6, <1>7, <1>8, <1>9, <1>10, <1>11, <1>12, <1>13,
     <1>15, <1>16, <1>17 DEF Next, Work

(* It holds of the first state.                                            *)
LEMMA InitIInv == Init => IInv
<1>1. SUFFICES ASSUME Init PROVE IInv
  OBVIOUS
<1>2. TypeInv
  BY <1>1 DEF Init, TypeInv, Row, Nothing
<1>3. SessionInv /\ TurnInv
  BY <1>1 DEF Init, SessionInv, TurnInv
<1>4. ToldInv
  BY <1>1 DEF Init, ToldInv
<1>5. QED
  BY <1>2, <1>3, <1>4 DEF IInv

(* The rows, the batch and the counts of messages stay in their types, and *)
(* every message is covered by its mark or was undone.                     *)
THEOREM BatchInvariant == Spec => []IInv
<1>1. Init => IInv
  BY InitIInv
<1>2. IInv /\ [Next]_vars => IInv'
  BY NextKeepsIInv
<1>3. QED
  BY <1>1, <1>2, PTL DEF Spec

(* A buyer is told of one top-up once, but for the rollbacks and crashes   *)
(* between the message and the commit of its mark.                         *)
THEOREM ToldOncePerRecord == Spec => []ToldPerRecord
<1>1. IInv => ToldPerRecord
  <2>1. SUFFICES ASSUME IInv, NEW e \in Event
                 PROVE  sent[e] <= 1 + undone[e]
    BY DEF ToldPerRecord
  <2>2. sent[e] \in Nat /\ undone[e] \in Nat
    BY <2>1 DEF IInv, TypeInv
  <2>3. QED
    BY <2>1, <2>2 DEF IInv, ToldInv
<1>2. QED
  BY <1>1, BatchInvariant, PTL

-----------------------------------------------------------------------------
(* What each operation of the breaker leaves is a state of the breaker.    *)
LEMMA BreakerStates ==
  ASSUME NEW b \in Breaker
  PROVE  /\ Succeeded(b) \in Breaker /\ Succeeded(b).state = "CLOSED"
         /\ Admitted(b) \in Breaker
         /\ b.state # "CLOSED" => Admitted(b).since = 0
         /\ Ticked(b) \in Breaker /\ Ticked(b).state = b.state
         /\ b.state # "CLOSED" => Ticked(b).since = Sooner(b.since + 1, Cooldown)
<1>1. /\ b.state \in {"CLOSED", "OPEN", "HALF_OPEN"}
      /\ b.failures \in 0 .. Threshold /\ b.since \in 0 .. Cooldown
  BY DEF Breaker
<1>2. Sooner(b.since + 1, Cooldown) \in 0 .. Cooldown
  BY <1>1, BreakerAssumption DEF Sooner
<1>3. Succeeded(b) \in Breaker /\ Succeeded(b).state = "CLOSED"
  BY BreakerAssumption DEF Succeeded, Closed, Breaker
<1>4. Admitted(b) \in Breaker /\ (b.state # "CLOSED" => Admitted(b).since = 0)
  <2>1. CASE b.state = "CLOSED"
    BY <2>1 DEF Admitted
  <2>2. CASE b.state # "CLOSED"
    <3>1. Admitted(b) = [b EXCEPT !.state = "HALF_OPEN", !.since = 0]
      BY <2>2 DEF Admitted
    <3>2. 0 \in 0 .. Cooldown
      BY BreakerAssumption
    <3>3. Admitted(b) = [state |-> "HALF_OPEN", failures |-> b.failures, since |-> 0]
      BY <3>1 DEF Breaker
    <3>4. QED
      BY <1>1, <3>2, <3>3 DEF Breaker
  <2>3. QED
    BY <2>1, <2>2
<1>5. /\ Ticked(b) \in Breaker /\ Ticked(b).state = b.state
      /\ b.state # "CLOSED" => Ticked(b).since = Sooner(b.since + 1, Cooldown)
  BY <1>1, <1>2 DEF Ticked, Breaker
<1>6. QED
  BY <1>3, <1>4, <1>5

(* A failure trips the breaker and starts its timer, or counts.            *)
LEMMA FailedStates ==
  ASSUME NEW b \in Breaker
  PROVE  /\ Failed(b) \in Breaker
         /\ Failed(b).since = 0 \/ (Failed(b).since = b.since /\ Failed(b).state = b.state)
<1>1. /\ b.state \in {"CLOSED", "OPEN", "HALF_OPEN"}
      /\ b.failures \in 0 .. Threshold /\ b.since \in 0 .. Cooldown
  BY DEF Breaker
<1> DEFINE n == Sooner(b.failures + 1, Threshold)
<1>2. n \in 0 .. Threshold
  BY <1>1, BreakerAssumption DEF Sooner
<1> HIDE DEF n
<1>3. Failed(b) = IF n = Threshold THEN [state |-> "OPEN", failures |-> n, since |-> 0]
                  ELSE [b EXCEPT !.failures = n]
  BY DEF Failed, n
<1>4. CASE n = Threshold
  <2>1. Failed(b) = [state |-> "OPEN", failures |-> n, since |-> 0]
    BY <1>3, <1>4
  <2>2. Failed(b) \in Breaker
    BY <1>2, <2>1, BreakerAssumption DEF Breaker
  <2>3. QED
    BY <2>1, <2>2
<1>5. CASE n # Threshold
  <2>1. Failed(b) = [b EXCEPT !.failures = n]
    BY <1>3, <1>5
  <2>2. Failed(b) \in Breaker
    BY <1>1, <1>2, <2>1 DEF Breaker
  <2>3. QED
    BY <2>1, <2>2 DEF Breaker
<1>6. QED
  BY <1>4, <1>5

(* A tripped breaker that lets a call through has waited for the gap.      *)
LEMMA AdmissionWaited ==
  ASSUME QuietInv, Admits(breaker), breaker.state # "CLOSED"
  PROVE  quiet > ProbeGap
BY BreakerAssumption DEF QuietInv, Admits, Breaker

(* A call let through starts the time anew.                                *)
LEMMA AdmitKeepsQuiet ==
  ASSUME QuietInv, Admit
  PROVE  QuietInv'
<1>1. breaker' \in Breaker /\ (breaker.state # "CLOSED" => breaker'.since = 0)
  BY BreakerStates DEF QuietInv, Admit
<1>2. breaker.state = "CLOSED" => breaker' = breaker
  BY DEF Admit, Admitted
<1>3. quiet' = IF breaker.state = "CLOSED" THEN quiet ELSE 0
  BY DEF Admit
<1>4. QED
  BY <1>1, <1>2, <1>3, BreakerAssumption DEF QuietInv

(* An answer, however late, does not let the breaker run ahead of the      *)
(* time.                                                                   *)
LEMMA AnswerKeepsQuiet ==
  ASSUME QuietInv, quiet' = quiet,
         breaker' \in {breaker, Succeeded(breaker), Failed(breaker), Failed(Succeeded(breaker))}
  PROVE  QuietInv'
<1>1. Succeeded(breaker) \in Breaker /\ Succeeded(breaker).state = "CLOSED"
  BY BreakerStates DEF QuietInv
<1>2. /\ Failed(breaker) \in Breaker
      /\ \/ Failed(breaker).since = 0
         \/ Failed(breaker).since = breaker.since /\ Failed(breaker).state = breaker.state
  BY FailedStates DEF QuietInv
<1>3. /\ Failed(Succeeded(breaker)) \in Breaker
      /\ Failed(Succeeded(breaker)).since = 0 \/ Failed(Succeeded(breaker)).state = "CLOSED"
  BY <1>1, FailedStates
<1>4. quiet \in Nat
  BY BreakerAssumption DEF QuietInv
<1>5. QED
  BY <1>1, <1>2, <1>3, <1>4 DEF QuietInv

(* Both clocks run together.                                               *)
LEMMA TickKeepsQuiet ==
  ASSUME QuietInv, Tick
  PROVE  QuietInv'
<1>1. /\ breaker' \in Breaker /\ breaker'.state = breaker.state
      /\ breaker.state # "CLOSED" => breaker'.since = Sooner(breaker.since + 1, Cooldown)
  BY BreakerStates DEF Tick, QuietInv
<1>2. breaker.since \in 0 .. Cooldown
  BY DEF QuietInv, Breaker
<1>3. QED
  BY <1>1, <1>2, BreakerAssumption DEF Tick, QuietInv, Sooner

(* Every step keeps the breaker behind the time.                           *)
LEMMA NextKeepsQuiet ==
  ASSUME QuietInv, [Next]_vars
  PROVE  QuietInv'
<1>1. CASE UNCHANGED circuit
  BY <1>1, AnswerKeepsQuiet DEF circuit
<1>2. CASE Admit
  BY <1>2, AdmitKeepsQuiet
<1>3. CASE Deliver \/ FailDelivery \/ DatabaseError
  BY <1>3, AnswerKeepsQuiet DEF Deliver, FailDelivery, DatabaseError
<1>4. ASSUME NEW c \in Call, EndCall(c) PROVE QuietInv'
  BY <1>4, AnswerKeepsQuiet DEF EndCall
<1>5. CASE Tick
  BY <1>5, TickKeepsQuiet
<1>6. CASE Crash
  <2>1. breaker' = Closed /\ quiet' = Cooldown
    BY <1>6 DEF Crash
  <2>2. QED
    BY <2>1, BreakerAssumption DEF QuietInv, Closed, Breaker
<1>7. QED
  BY <1>1, <1>2, <1>3, <1>4, <1>5, <1>6
     DEF Next, Work, Publish, Claim, TellTopup, TellCreated, SkipFulfilled, Defer, GiveUp,
         Attempt, EndCycle, BeginCall, vars, circuit

(* A tripped breaker lets at most one probe through per gap, whatever late *)
(* answers of calls admitted before come in, and however the worker's      *)
(* deliveries and an administrator's interleave.                           *)
THEOREM ProbesAreSpaced == Spec => ProbesSpaced
<1>1. Init => QuietInv
  BY BreakerAssumption DEF Init, QuietInv, Closed, Breaker
<1>2. QuietInv /\ [Next]_vars => QuietInv'
  BY NextKeepsQuiet
<1>3. ASSUME QuietInv, [Next]_vars
      PROVE  [breaker.state # "CLOSED" /\ ~(OnCall' \subseteq OnCall) => quiet > ProbeGap]_vars
  <2>1. SUFFICES ASSUME ~(OnCall' \subseteq OnCall), breaker.state # "CLOSED"
                 PROVE  quiet > ProbeGap
    OBVIOUS
  <2>2. Attempt \/ \E c \in Call : BeginCall(c)
    <3>1. ASSUME NEW c \in Call, EndCall(c) PROVE FALSE
      BY <2>1, <3>1 DEF EndCall, OnCall
    <3>2. ASSUME UNCHANGED calling, worker' # "waiting" PROVE FALSE
      BY <2>1, <3>2 DEF OnCall
    <3>3. ASSUME UNCHANGED calling, worker' = worker PROVE FALSE
      BY <2>1, <3>3 DEF OnCall
    <3>4. ~Crash
      BY <2>1 DEF Crash, Forget, OnCall
    <3>5. QED
      BY <1>3, <3>1, <3>2, <3>3, <3>4
         DEF Next, Work, Publish, Claim, TellTopup, TellCreated, SkipFulfilled, Defer, GiveUp,
             Deliver, FailDelivery, DatabaseError, EndCycle, Tick, Done, Forget, vars, circuit
  <2>3. Admits(breaker)
    BY <2>2 DEF Attempt, BeginCall, Admit
  <2>4. QED
    BY <1>3, <2>1, <2>3, AdmissionWaited
<1>4. QED
  BY <1>1, <1>2, <1>3, PTL DEF Spec, ProbesSpaced
=============================================================================
