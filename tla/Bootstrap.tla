------------------------------ MODULE Bootstrap -----------------------------
(***************************************************************************)
(* How the system comes up: docker-compose starts the api, the bot and the *)
(* worker, in any order, and restarts whatever exits.  The api's command   *)
(* is "alembic upgrade head && python main.py"; the others only wait for a *)
(* healthy PostgreSQL.  Every main.py runs init_db (database/db.py), which *)
(* inserts the settings and the administrators it does not find; outside   *)
(* production it first creates whatever table is missing.                  *)
(*                                                                         *)
(* The schema is a set of parts: the tables, and what each revision of     *)
(* migrations/versions adds to one of them.  One alembic run is one        *)
(* transaction (migrations/env.py; DDL is transactional in PostgreSQL).    *)
(***************************************************************************)
EXTENDS Integers, Sequences

CONSTANTS
  Process,    \* of which "api" runs the migrations
  History,    \* databases to start from
  Stage,      \* values of (settings.ENVIRONMENT = "production")
  MaxStops,   \* bound on processes that stop or die while they run
  MaxEdits,   \* bound on changes by administrators
  Absent      \* no row, and no alembic run

Latest == 5

(* The tables a revision creates if they do not exist.                     *)
ShopTables == {"users", "pricing_settings", "orders"}
MoneyTables == {"wallet_transactions", "payment_transactions", "price_locks"}
PromotionTables == {"promo_codes", "promo_redemptions"}
ReferralTables == {"referral_settings", "referral_rewards"}
DeskTables == {"support_tickets", "ticket_messages", "in_app_notifications", "admin_audit_logs"}
ReliabilityTables ==
  {"outbox_events", "failed_jobs", "provider_health", "feature_flags", "catalog_products",
   "reconciliation_reports", "reconciliation_discrepancies", "risk_audits",
   "checkout_idempotency"}
TimelineTables == {"order_status_history", "saved_recipients"}
RemainingTables ==
  {"broadcast_drafts", "channel_requirements", "user_join_requests", "custom_services",
   "fragment_settings", "payment_cards", "payment_settings", "click_transactions",
   "payme_transactions", "promo_code_usages", "transactions"}

Creates ==
  <<ShopTables \cup MoneyTables \cup PromotionTables \cup ReferralTables \cup DeskTables,
    ReliabilityTables, TimelineTables, {}, RemainingTables>>

(* The tables it adds columns or indexes to, where these do not exist.     *)
Extends ==
  <<{"users", "pricing_settings", "orders", "promo_codes", "referral_settings",
     "admin_audit_logs"},
    {"orders", "payment_transactions", "users"}, {"orders"}, {"outbox_events"},
    {"outbox_events", "admin_audit_logs"}>>

(* The tables it constrains without looking: the try around the call       *)
(* catches nothing, since batch_alter_table executes when its block ends.  *)
Constrains == <<{}, {}, {}, {"wallet_transactions"}, {"wallet_transactions", "users"}>>

(* A part is <<table, 0>>, the table, or <<table, r>>, what revision r     *)
(* gives to it.                                                            *)
Adds(r) == (Creates[r] \X {0}) \cup (Extends[r] \X {r})

Pledges(r) == Constrains[r] \X {r}

Part == UNION {Adds(r) \cup Pledges(r) : r \in 1 .. Latest}

(* The rows init_db looks for, in its order, and the parts it reads: the   *)
(* four settings and the channels, then settings.ADMINS in users.          *)
Rows == <<"settings", "admin">>

Reads(k) ==
  IF k = "settings"
  THEN {<<"fragment_settings", 0>>, <<"pricing_settings", 0>>, <<"pricing_settings", 1>>,
        <<"referral_settings", 0>>, <<"referral_settings", 1>>, <<"payment_settings", 0>>,
        <<"channel_requirements", 0>>}
  ELSE {<<"users", 0>>, <<"users", 1>>, <<"users", 2>>}

Home(k) == IF k = "settings" THEN <<"fragment_settings", 0>> ELSE <<"users", 0>>

ASSUME BootstrapAssumption ==
  /\ "api" \in Process
  /\ Stage \subseteq BOOLEAN
  /\ MaxStops \in Nat /\ MaxEdits \in Nat
  /\ History \subseteq [parts : SUBSET Part, version : 0 .. Latest, duplicates : BOOLEAN]
  /\ Absent \notin {"default", "edited"}

(* A database below the head lacks something that init_db reads: revisions *)
(* before the last leave it without fragment_settings, and one older than  *)
(* the revisions has no column of theirs.  Not among them is one that a    *)
(* start outside production made with create_all.                          *)
ASSUME HistoryAssumption ==
  \A h \in History :
    h.version < Latest => ~(Reads("settings") \cup Reads("admin") \subseteq h.parts)

VARIABLES
  production,  \* the environment, the same for all processes
  schema,      \* committed: parts, alembic_version, duplicate references
  upgrade,     \* the schema as the alembic run in progress sees it
  rows,        \* committed rows: Absent, "default" or "edited"
  proc,        \* "down", "upgrading", "starting", "reading", "serving"
  seen,        \* what each init_db has read so far
  stops, edits

bootVars == <<production, schema, upgrade, rows, proc, seen, stops, edits>>

RowName == {Rows[i] : i \in 1 .. Len(Rows)}

BootInit ==
  /\ production \in Stage
  /\ schema \in History
  /\ upgrade = Absent
  /\ rows \in [RowName -> {Absent, "default", "edited"}]
  /\ \A k \in RowName : Home(k) \notin schema.parts => rows[k] = Absent
  /\ proc = [p \in Process |-> "down"]
  /\ seen = [p \in Process |-> <<>>]
  /\ stops = 0 /\ edits = 0

-----------------------------------------------------------------------------
Goto(p, place) ==
  /\ proc' = [proc EXCEPT ![p] = place]
  /\ seen' = [seen EXCEPT ![p] = <<>>]

(* The process exits; an alembic run that had not committed is rolled back. *)
Exit(p) ==
  /\ Goto(p, "down")
  /\ upgrade' = IF p = "api" THEN Absent ELSE upgrade

Start(p) ==
  /\ proc[p] = "down"
  /\ IF p = "api" THEN Goto(p, "upgrading") /\ upgrade' = schema
     ELSE Goto(p, "starting") /\ UNCHANGED upgrade
  /\ UNCHANGED <<production, schema, rows, stops, edits>>

(* upgrade() of the next revision.                                         *)
Revised(s) ==
  LET r == s.version + 1 IN
  [s EXCEPT !.parts = @ \cup Adds(r) \cup Pledges(r), !.version = r]

Revisable(s) ==
  LET r == s.version + 1 IN
  /\ Pledges(r) \cap s.parts = {}
  /\ r = 4 => ~s.duplicates

(* Variant: each revision commits.                                         *)
MigrateAndCommit ==
  /\ proc["api"] = "upgrading"
  /\ upgrade.version < Latest
  /\ IF Revisable(upgrade)
     THEN /\ upgrade' = Revised(upgrade)
          /\ schema' = Revised(upgrade)
          /\ UNCHANGED <<proc, seen>>
     ELSE Exit("api") /\ UNCHANGED schema
  /\ UNCHANGED <<production, rows, stops, edits>>

Migrate ==
  /\ proc["api"] = "upgrading"
  /\ upgrade.version < Latest
  /\ IF Revisable(upgrade) THEN upgrade' = Revised(upgrade) /\ UNCHANGED <<proc, seen>>
     ELSE Exit("api")
  /\ UNCHANGED <<production, schema, rows, stops, edits>>

(* The head is reached: the run commits, and main.py starts.               *)
CommitUpgrade ==
  /\ proc["api"] = "upgrading"
  /\ upgrade.version = Latest
  /\ schema' = upgrade
  /\ upgrade' = Absent
  /\ Goto("api", "starting")
  /\ UNCHANGED <<production, rows, stops, edits>>

(* Base.metadata.create_all: missing tables come with all that the models  *)
(* declare, existing ones stay as they are.  It waits for an alembic run that  *)
(* has created tables, and then fails.                                     *)
CreateAll(p) ==
  LET missing == {x \in Part : <<x[1], 0>> \notin schema.parts} IN
  /\ proc[p] = "starting"
  /\ IF production THEN Goto(p, "reading") /\ UNCHANGED <<schema, upgrade>>
     ELSE IF upgrade # Absent /\ upgrade.parts # schema.parts /\ missing # {}
     THEN Exit(p) /\ UNCHANGED schema
     ELSE /\ schema' = [schema EXCEPT !.parts = @ \cup missing]
          /\ Goto(p, "reading")
          /\ UNCHANGED upgrade
  /\ UNCHANGED <<production, rows, stops, edits>>

(* session.get of the next row; without its table or one of its columns    *)
(* init_db raises.                                                         *)
Read(p) ==
  LET k == Rows[Len(seen[p]) + 1] IN
  /\ proc[p] = "reading"
  /\ Len(seen[p]) < Len(Rows)
  /\ IF Reads(k) \subseteq schema.parts
     THEN seen' = [seen EXCEPT ![p] = Append(@, rows[k])] /\ UNCHANGED <<proc, upgrade>>
     ELSE Exit(p)
  /\ UNCHANGED <<production, schema, rows, stops, edits>>

Missed(p) == {k \in RowName : \E i \in DOMAIN seen[p] : Rows[i] = k /\ seen[p][i] = Absent}

(* Variant: rows are merged, not inserted.                                 *)
CommitMerged(p) ==
  /\ proc[p] = "reading"
  /\ Len(seen[p]) = Len(Rows)
  /\ rows' = [k \in RowName |-> IF k \in Missed(p) THEN "default" ELSE rows[k]]
  /\ Goto(p, "serving")
  /\ UNCHANGED <<production, schema, upgrade, stops, edits>>

(* Variant: a duplicate key is retried, with what was read before.         *)
CommitRetried(p) ==
  /\ proc[p] = "reading"
  /\ Len(seen[p]) = Len(Rows)
  /\ \A k \in Missed(p) : rows[k] = Absent
  /\ rows' = [k \in RowName |-> IF k \in Missed(p) THEN "default" ELSE rows[k]]
  /\ Goto(p, "serving")
  /\ UNCHANGED <<production, schema, upgrade, stops, edits>>

(* One commit inserts what was missed, and outside production gives an     *)
(* administrator the role back; a row that somebody else inserted          *)
(* meanwhile is a duplicate key, and the process exits.                    *)
Commit(p) ==
  /\ proc[p] = "reading"
  /\ Len(seen[p]) = Len(Rows)
  /\ IF \A k \in Missed(p) : rows[k] = Absent
     THEN /\ rows' = [k \in RowName |->
               IF k \in Missed(p) \/ (~production /\ k = "admin") THEN "default" ELSE rows[k]]
          /\ Goto(p, "serving")
          /\ UNCHANGED upgrade
     ELSE Exit(p) /\ UNCHANGED rows
  /\ UNCHANGED <<production, schema, stops, edits>>

-----------------------------------------------------------------------------
(* An administrator changes settings or a role on the running system.      *)
Edit(k) ==
  /\ edits < MaxEdits
  /\ \E p \in Process : proc[p] = "serving"
  /\ rows[k] # Absent
  /\ rows' = [rows EXCEPT ![k] = "edited"]
  /\ edits' = edits + 1
  /\ UNCHANGED <<production, schema, upgrade, proc, seen, stops>>

(* The process dies, or the first of its tasks ends and main returns.      *)
Stop(p) ==
  /\ stops < MaxStops
  /\ proc[p] # "down"
  /\ stops' = stops + 1
  /\ Exit(p)
  /\ UNCHANGED <<production, schema, rows, edits>>

Boot(p) ==
  \/ Start(p) \/ CreateAll(p) \/ Read(p) \/ Commit(p)
  \/ p = "api" /\ (Migrate \/ CommitUpgrade)

BootNext ==
  \/ \E p \in Process : Boot(p) \/ Stop(p)
  \/ \E k \in RowName : Edit(k)

(* restart: unless-stopped, and what a start awaits returns.               *)
BootSpec == BootInit /\ [][BootNext]_bootVars /\ \A p \in Process : WF_bootVars(Boot(p))

-----------------------------------------------------------------------------
(* In production no process serves on a schema below the head, although    *)
(* only the api waits for the migrations: one transaction hides the parts  *)
(* of an unfinished upgrade, and init_db reads tables of the last revision *)
(* (env.py:65, db.py:41-125, docker-compose.yml:55-90).                    *)
ServesOnHead ==
  production => \A p \in Process : proc[p] = "serving" => schema.version = Latest

(* In production a start never undoes what an administrator changed, not   *)
(* even one that looked before the row existed (db.py:41-148).             *)
EditsSurviveStarts ==
  [][production => \A k \in RowName : rows[k] = "edited" => rows'[k] = "edited"]_bootVars

(* In production everyone comes up in the end, whoever starts first, also  *)
(* when an upgrade is cut short, unless the ledger already holds duplicate *)
(* references (0004:38-45).                                                *)
EveryoneServes ==
  production /\ (schema.version >= 4 \/ ~schema.duplicates)
    => \A p \in Process : <>[](proc[p] = "serving")
=============================================================================
