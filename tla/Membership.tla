----------------------------- MODULE Membership -----------------------------
(***************************************************************************)
(* Who may use the bot: registration of users (middlewares/                *)
(* user_register.py, handlers/users/start.py, web/auth.py), their roles,   *)
(* the channels they must join (database/queries.py, handlers/channels/    *)
(* channel_events.py, web/routes/admin/channels.py) and the check of the   *)
(* gate (utils/subscription.py, web/routes/users.py), while people join    *)
(* and leave chats and administrators edit the list.                       *)
(*                                                                         *)
(* A visit is one run of /start, of the button "Tekshirish" or of a page   *)
(* of the site; it asks Telegram about one channel after the other, so     *)
(* that chats, roles and rows may change between its steps.  An            *)
(* administrator's request is one step.                                    *)
(***************************************************************************)
EXTENDS Integers, Sequences

CONSTANTS
  Person,
  Visit,       \* visits handled at once
  Chat,
  Public,      \* chats with a username; the others have invite links
  Group,       \* chats that are groups
  Owner,       \* settings.ADMINS
  Roles,       \* roles but "user"
  Forms,       \* what administrators submit on the site: link, type, detected
  ReqTypes,    \* types they confirm or change to
  Registered,  \* people with a row at the start
  Movers,      \* people who join and leave chats
  MaxVisits,   \* visits
  MaxEdits,    \* edits of channels and roles
  MaxMoves,    \* events in chats
  MaxRows,     \* rows of channel_requirements ever made
  None

Types == {"ordinary", "group", "join_request", "external"}

(* What a row calls its chat by: its username, an invite link (the n-th    *)
(* exported for it), the path of its id, or an address outside Telegram.   *)
Link == [kind : {"username", "invite", "path", "web"}, chat : Chat \cup {None}, n : Nat]

(* A row of users.                                                         *)
UserRow == [referrer : Person \cup {None}, count : Nat, role : Roles \cup {"user"}]

ASSUME MembershipAssumption ==
  /\ Public \subseteq Chat /\ Group \subseteq Chat
  /\ Owner \subseteq Person /\ Registered \subseteq Person /\ Movers \subseteq Person
  /\ Forms \subseteq [link : Link, type : Types, detected : BOOLEAN]
  /\ ReqTypes \subseteq Types
  /\ "user" \notin Roles /\ None \notin UserRow

VARIABLES
  users,     \* rows of users: referrer, referrals_count, role
  channels,  \* rows of channel_requirements by id; None once deleted
  requests,  \* user_join_requests
  members,   \* Telegram: who is in which chat
  bot,       \* Telegram: chats the bot administers
  exported,  \* Telegram: invite links exported per chat so far
  visit,     \* what each visit is doing
  visits, edits, moves

vars == <<users, channels, requests, members, bot, exported, visit, visits, edits, moves>>

telegram == <<members, bot, exported>>

Idle == [at |-> "idle"]

Row == [referrer |-> None, count |-> 0, role |-> "user"]

Init ==
  /\ users = [p \in Person |-> IF p \in Registered THEN Row ELSE None]
  /\ channels = <<>> /\ requests = {}
  /\ members = {} /\ bot = {} /\ exported = [c \in Chat |-> 0]
  /\ visit = [v \in Visit |-> Idle]
  /\ visits = 0 /\ edits = 0 /\ moves = 0

-----------------------------------------------------------------------------
(* The channels the list requires.                                         *)
Required(rows) == {i \in DOMAIN rows : rows[i] # None /\ rows[i].active /\ ~rows[i].detected}

(* The chat get_chat_member is asked about: by id, else by username.       *)
Target(row) ==
  IF row.chat # None THEN row.chat
  ELSE IF row.link.kind = "username" THEN row.link.chat ELSE None

(* get_chat_member fails in a chat the bot does not administer.            *)
Seen(p, c) == c \in bot /\ <<p, c>> \in members

Passes(p, row) ==
  CASE row.type = "external"     -> TRUE
    [] row.type = "join_request" ->
         row.chat # None /\ (<<p, row.chat>> \in requests \/ Seen(p, row.chat))
    [] OTHER                     -> Target(row) = None \/ Seen(p, Target(row))

-----------------------------------------------------------------------------
(* What the properties need of the time since a visit read the list: the   *)
(* rows required all that time and unchanged, those required at some time, *)
(* those the person passed at some time, and all the time.                 *)
Passing == [p \in Person |-> {i \in DOMAIN channels : channels[i] # None /\ Passes(p, channels[i])}]

Noted(v) ==
  IF visit[v].at # "checking" THEN visit[v]
  ELSE LET same == {i \in DOMAIN channels : channels'[i] = channels[i]}
           now  == Passing'[visit[v].person]
       IN  [visit[v] EXCEPT !.firm  = @ \cap same \cap Required(channels'),
                            !.ever  = @ \cup Required(channels'),
                            !.could = @ \cup now,
                            !.held  = @ \cap same \cap now]

Witness == visit' = [v \in Visit |-> Noted(v)]

-----------------------------------------------------------------------------
(* Calls of get_or_create_user a visit makes, by the referrer each is      *)
(* given: the middleware's has none, cmd_start's has the one of the link.  *)
Calls(way, ref) ==
  CASE way = "start" -> <<None, ref>>
    [] way = "site"  -> <<None>>
    [] way = "check" -> <<>>

Arrive(v, p, way, ref) ==
  /\ visit[v] = Idle /\ visits < MaxVisits
  /\ visits' = visits + 1
  /\ visit' = [visit EXCEPT ![v] =
       [at |-> "register", person |-> p, calls |-> Calls(way, ref),
        invited |-> IF way = "start" /\ users[p] = None /\ ref # None /\ users[ref] # None
                    THEN ref ELSE None]]
  /\ UNCHANGED <<users, channels, requests, telegram, edits, moves>>

(* The row made of what get_or_create_user found: a referrer of whom n     *)
(* referrals were read, or none.                                           *)
Created(p, ref, n) ==
  LET row == [Row EXCEPT !.referrer = IF n = None THEN None ELSE ref]
  IN  IF n = None THEN [users EXCEPT ![p] = row]
      ELSE [users EXCEPT ![p] = row, ![ref].count = n + 1]

(* get_or_create_user looks first, and the primary key refuses the second  *)
(* of two rows: that request dies.                                         *)
Look(v) ==
  /\ visit[v].at = "register" /\ visit[v].calls # <<>>
  /\ LET p == visit[v].person
         ref == Head(visit[v].calls)
         found == IF ref = None \/ ref = p THEN None
                  ELSE IF users[ref] = None THEN None ELSE users[ref].count
     IN  visit' = IF users[p] = None
                  THEN [visit EXCEPT ![v] = [at |-> "inserting", person |-> p, calls |-> @.calls,
                                             invited |-> @.invited, found |-> found]]
                  ELSE [visit EXCEPT ![v].calls = Tail(@)]
  /\ UNCHANGED <<users, channels, requests, telegram, visits, edits, moves>>

Insert(v) ==
  /\ visit[v].at = "inserting"
  /\ LET p == visit[v].person IN
       \/ /\ users[p] = None
          /\ users' = Created(p, Head(visit[v].calls), visit[v].found)
          /\ visit' = [visit EXCEPT ![v] =
               [at |-> "register", person |-> p, calls |-> Tail(@.calls), invited |-> @.invited]]
       \/ /\ users[p] # None
          /\ visit' = [visit EXCEPT ![v] = Idle]
          /\ UNCHANGED users
  /\ UNCHANGED <<channels, requests, telegram, visits, edits, moves>>

(* verify_user_subscriptions: owners and administrators pass; for the      *)
(* others the list is read.                                                *)
Exempt(p) == p \in Owner \/ (users[p] # None /\ users[p].role # "user")

Listed(rows, ids) == {[id |-> i, row |-> rows[i]] : i \in ids}

(* Variant: channels waiting for their confirmation are listed.            *)
ListChannelsWithDetected(rows) ==
  Listed(rows, {i \in DOMAIN rows : rows[i] # None /\ (rows[i].active \/ rows[i].detected)})

ListChannels(rows) == Listed(rows, Required(rows))

Open(v) ==
  /\ visit[v].at = "register" /\ visit[v].calls = <<>>
  /\ LET p == visit[v].person IN
       visit' = [visit EXCEPT ![v] =
         IF Exempt(p) THEN [at |-> "exempt", person |-> p, invited |-> visit[v].invited]
         ELSE [at |-> "checking", person |-> p, invited |-> visit[v].invited,
               todo |-> ListChannels(channels), missing |-> {},
               firm |-> Required(channels), ever |-> Required(channels),
               could |-> Passing[p], held |-> Passing[p]]]
  /\ UNCHANGED <<users, channels, requests, telegram, visits, edits, moves>>

(* The loop goes through the list in the order of the ids.                 *)
Foremost(list) == CHOOSE e \in list : \A f \in list : e.id <= f.id

(* Variant: a channel Telegram does not answer about is skipped.           *)
CheckSkippingErrors(v) ==
  /\ visit[v].at = "checking" /\ visit[v].todo # {}
  /\ LET next == Foremost(visit[v].todo) IN
       visit' = [visit EXCEPT ![v].todo = @ \ {next},
                              ![v].missing = IF \/ Target(next.row) \notin bot
                                                \/ Passes(visit[v].person, next.row)
                                             THEN @ ELSE @ \cup {next.id}]
  /\ UNCHANGED <<users, channels, requests, telegram, visits, edits, moves>>

Check(v) ==
  /\ visit[v].at = "checking" /\ visit[v].todo # {}
  /\ LET next == Foremost(visit[v].todo) IN
       visit' = [visit EXCEPT ![v].todo = @ \ {next},
                              ![v].missing = IF Passes(visit[v].person, next.row) THEN @
                                             ELSE @ \cup {next.id}]
  /\ UNCHANGED <<users, channels, requests, telegram, visits, edits, moves>>

Judge(v) ==
  /\ visit[v].at = "checking" /\ visit[v].todo = {}
  /\ visit' = [visit EXCEPT ![v].at = IF visit[v].missing = {} THEN "welcome" ELSE "gate"]
  /\ UNCHANGED <<users, channels, requests, telegram, visits, edits, moves>>

End(v) ==
  /\ visit[v].at \in {"welcome", "gate", "exempt"}
  /\ visit' = [visit EXCEPT ![v] = Idle]
  /\ UNCHANGED <<users, channels, requests, telegram, visits, edits, moves>>

-----------------------------------------------------------------------------
(* The first row of that link is overwritten, else a row is added.  There  *)
(* is no unique constraint.                                                *)
AddOrUpdate(link, type, chat, detected, active) ==
  LET old == {i \in DOMAIN channels : channels[i] # None /\ channels[i].link = link}
      first == CHOOSE i \in old : \A j \in old : i <= j
      row == [link |-> link, chat |-> chat, type |-> type, detected |-> detected,
              active |-> IF active = None THEN ~detected ELSE active]
  IN  IF old = {} THEN Append(channels, row)
      ELSE [channels EXCEPT ![first] =
             [row EXCEPT !.chat = IF chat # None THEN chat ELSE channels[first].chat]]

Edit == edits < MaxEdits /\ edits' = edits + 1
        /\ UNCHANGED <<requests, telegram, visits, moves>>

EditChannels(rows) == Edit /\ channels' = rows /\ Witness /\ UNCHANGED users

(* The site's form: no chat id; the type follows the link.                 *)
CreateChannel(link, type, detected) ==
  LET final == CASE type = "ordinary" /\ link.kind = "invite" -> "join_request"
                 [] type = "ordinary" /\ link.kind = "web"    -> "external"
                 [] OTHER -> type
  IN  /\ Len(channels) < MaxRows
      /\ EditChannels(AddOrUpdate(link, final, None, detected, None))

Exists(i) == i \in DOMAIN channels /\ channels[i] # None

DeleteChannel(i) == Exists(i) /\ EditChannels([channels EXCEPT ![i] = None])

ToggleChannel(i) == Exists(i) /\ EditChannels([channels EXCEPT ![i].active = ~@])

ConfirmChannel(i, type) ==
  /\ Exists(i)
  /\ EditChannels([channels EXCEPT ![i] =
       [@ EXCEPT !.detected = FALSE, !.active = TRUE, !.type = type]])

UpdateChannelType(i, type) == Exists(i) /\ EditChannels([channels EXCEPT ![i].type = type])

-----------------------------------------------------------------------------
EditUsers(rows) == Edit /\ users' = rows /\ UNCHANGED <<channels, visit>>

SetRole(p, role) == users[p] # None /\ EditUsers([users EXCEPT ![p].role = role])

(* make_adm registers a candidate who has never written to the bot.        *)
AssignAdmin(p, role) ==
  EditUsers([users EXCEPT ![p] = [(IF @ = None THEN Row ELSE @) EXCEPT !.role = role]])

(* An owner is demoted by nobody else.                                     *)
RevokeAdmin(admin, p) ==
  /\ p \in Owner => admin = p
  /\ SetRole(p, "user")

-----------------------------------------------------------------------------
Move == moves < MaxMoves /\ moves' = moves + 1 /\ Witness
        /\ UNCHANGED <<users, visits, edits>>

Join(p, c) ==
  /\ <<p, c>> \notin members /\ members' = members \cup {<<p, c>>}
  /\ UNCHANGED <<channels, requests, bot, exported>> /\ Move

Part(p, c) ==
  /\ <<p, c>> \in members /\ members' = members \ {<<p, c>>}
  /\ UNCHANGED <<channels, requests, bot, exported>> /\ Move

(* on_chat_join_request: the request stays on record whatever becomes of it. *)
AskToJoin(p, c) ==
  /\ c \in bot \ Public /\ <<p, c>> \notin members
  /\ requests' = requests \cup {<<p, c>>}
  /\ UNCHANGED <<channels, telegram>> /\ Move

(* on_bot_chat_member_updated: a chat without a username gets a new invite *)
(* link, or when that fails the path of its id.                            *)
Promote(c, exports) ==
  LET link == CASE c \in Public -> [kind |-> "username", chat |-> c, n |-> 0]
                [] c \notin Public /\ exports ->
                     [kind |-> "invite", chat |-> c, n |-> exported[c] + 1]
                [] OTHER -> [kind |-> "path", chat |-> c, n |-> 0]
      type == CASE link.kind = "invite" -> "join_request"
                [] link.kind # "invite" /\ c \in Group -> "group"
                [] OTHER -> "ordinary"
  IN  /\ c \notin bot /\ bot' = bot \cup {c}
      /\ Len(channels) < MaxRows
      /\ exported' = [exported EXCEPT ![c] = IF link.kind = "invite" THEN @ + 1 ELSE @]
      /\ channels' = AddOrUpdate(link, type, c, TRUE, FALSE)
      /\ UNCHANGED <<requests, members>> /\ Move

Demote(c) ==
  /\ c \in bot /\ bot' = bot \ {c}
  /\ UNCHANGED <<channels, requests, members, exported>> /\ Move

Next ==
  \/ \E v \in Visit :
       \/ \E p \in Person, way \in {"start", "site", "check"}, ref \in Person \cup {None} :
            Arrive(v, p, way, ref)
       \/ Look(v) \/ Insert(v) \/ Open(v) \/ Check(v) \/ Judge(v) \/ End(v)
  \/ \E f \in Forms : CreateChannel(f.link, f.type, f.detected)
  \/ \E i \in 1..MaxRows :
       \/ DeleteChannel(i) \/ ToggleChannel(i)
       \/ \E type \in ReqTypes : ConfirmChannel(i, type) \/ UpdateChannelType(i, type)
  \/ \E p \in Person :
       \/ \E role \in Roles : SetRole(p, role) \/ AssignAdmin(p, role)
       \/ \E admin \in Person : RevokeAdmin(admin, p)
  \/ \E p \in Movers, c \in Chat : Join(p, c) \/ Part(p, c) \/ AskToJoin(p, c)
  \/ \E c \in Chat : Promote(c, TRUE) \/ Promote(c, FALSE) \/ Demote(c)

Spec == Init /\ [][Next]_vars

-----------------------------------------------------------------------------
(* Who is let in through the gate passed, at some time of the visit, every *)
(* channel that was required during all of it, however chats and the list  *)
(* changed meanwhile.                                                      *)
GateStopsOutsiders ==
  \A v \in Visit : visit[v].at = "welcome" => visit[v].firm \subseteq visit[v].could

(* Who is stopped at the gate failed, at some time of the visit, a channel *)
(* that was required at some time of it: a channel that waits for its      *)
(* confirmation or was switched off stops nobody.                          *)
GateAdmitsMembers ==
  \A v \in Visit : visit[v].at = "gate" => \E i \in visit[v].ever : i \notin visit[v].held

(* Who first came by a user's link has that user as referrer (profile.py:  *)
(* "Do'stlaringiz ushbu havola orqali botga kirib xarid qilishsa").        *)
InvitedIsRecorded ==
  \A v \in Visit :
    visit[v].at \in {"checking", "welcome", "gate"} /\ visit[v].invited # None =>
      users[visit[v].person].referrer = visit[v].invited
=============================================================================
