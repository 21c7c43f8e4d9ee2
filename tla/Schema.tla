------------------------------- MODULE Schema -------------------------------
(* The relational schema on MariaDB: the tables, unique columns and foreign   *)
(* keys that models.py declares, the operations of the migrations that create *)
(* them, and the migration that gives each key its ON DELETE action. DDL      *)
(* commits at once on MariaDB, so every statement is a step of its own and a  *)
(* run that stops leaves what it did.                                         *)
EXTENDS Naturals, Sequences, SequencesExt

VARIABLES
    tables,     \* tables, and columns added later, that exist
    uniques,    \* <<table, columns>> that the database keeps unique
    keys,       \* foreign keys, with what the database does on a deletion
    recorded,   \* the last migration in django_migrations
    granted,    \* what the API's account may do: <<table, privileges>>
    at,         \* the next statement of the migration or of the grants
    deploy      \* "up", "migrating", "granting", or "down" after a failure

schemaVars == <<tables, uniques, keys, recorded, granted, at, deploy>>

-----------------------------------------------------------------------------
(* A foreign key; "PROTECT" is also what a key without an action does.        *)

Ref(of, col, to, act) == [of |-> of, col |-> col, to |-> to, act |-> act]
Plain(r) == [r EXCEPT !.act = "PROTECT"]
\* A table or a later column, with its unique columns and its keys.
New(t, unique, refs) == [name |-> t, unique |-> unique, refs |-> refs]

(* What models.py declares, in its order.                                     *)

MemberModels == {
    New("achievements", {"key"}, <<>>),
    New("alumni", {"user_id", "referral_code", "telegram_id"},
        <<Ref("alumni", "user_id", "directus_users", "SET_NULL"),
         Ref("alumni", "referred_by", "alumni", "SET_NULL")>>),
    New("alumni_achievements", {},
        <<Ref("alumni_achievements", "alumni_id", "alumni", "CASCADE"),
         Ref("alumni_achievements", "achievement_id", "achievements", "CASCADE")>>) }
PollModels == {
    New("club_polls", {}, <<>>),
    New("club_poll_votes", {"poll_id__alumni_id"},
        <<Ref("club_poll_votes", "poll_id", "club_polls", "CASCADE"),
         Ref("club_poll_votes", "alumni_id", "alumni", "CASCADE")>>) }
ClubModels == {
    New("alumni_friends", {},
        <<Ref("alumni_friends", "alumni_id", "alumni", "CASCADE"),
         Ref("alumni_friends", "friend_id", "alumni", "CASCADE")>>),
    New("audit_log", {}, <<>>), New("block_cta", {}, <<>>), New("block_hero", {}, <<>>),
    New("carts", {}, <<Ref("carts", "alumni_id", "alumni", "SET_NULL")>>),
    New("club_auth_revocations", {}, <<>>),
    New("club_checkout_commits", {"order_id"},
        <<Ref("club_checkout_commits", "order_id", "orders", "CASCADE")>>),
    New("club_faq_events", {}, <<>>) }
ServiceModels == {
    New("club_mail_outbox", {}, <<>>), New("club_mail_outbox.owner_user_id", {}, <<>>),
    New("club_news_inbox", {"source_url"}, <<Ref("club_news_inbox", "news_id", "news", "SET_NULL")>>),
    New("club_news_source_runs", {}, <<>>), New("club_page_views", {}, <<>>),
    New("club_settings", {}, <<>>),
    New("club_social_membership", {}, <<Ref("club_social_membership", "alumni_id", "alumni", "CASCADE")>>),
    New("club_social_reactions", {}, <<Ref("club_social_reactions", "alumni_id", "alumni", "CASCADE")>>),
    New("club_staff_sessions", {}, <<Ref("club_staff_sessions", "user_id", "directus_users", "CASCADE")>>) }
OfficeModels == {
    New("club_support_tickets", {}, <<>>),
    New("club_telegram_links", {"token_hash"},
        <<Ref("club_telegram_links", "alumni_id", "alumni", "CASCADE")>>),
    New("directus_files", {},
        <<Ref("directus_files", "uploaded_by", "directus_users", "PROTECT"),
         Ref("directus_files", "modified_by", "directus_users", "PROTECT")>>),
    New("directus_roles", {}, <<Ref("directus_roles", "parent", "directus_roles", "PROTECT")>>),
    New("directus_users", {"email", "token", "external_identifier"},
        <<Ref("directus_users", "role", "directus_roles", "SET_NULL")>>),
    New("event_rsvps", {"event_id__alumni_id"},
        <<Ref("event_rsvps", "event_id", "events", "CASCADE"),
         Ref("event_rsvps", "alumni_id", "alumni", "CASCADE")>>) }
ContentModels == {
    New("events", {}, <<>>), New("levels", {"key"}, <<>>), New("news", {"slug"}, <<>>),
    New("offers", {}, <<Ref("offers", "alumni_id", "alumni", "CASCADE")>>),
    New("orders", {"number"}, <<Ref("orders", "alumni_id", "alumni", "SET_NULL")>>),
    New("pages", {"slug"}, <<>>),
    New("pages_blocks", {}, <<Ref("pages_blocks", "pages_id", "pages", "CASCADE")>>),
    New("podcast_plays", {},
        <<Ref("podcast_plays", "podcast_id", "podcasts", "CASCADE"),
         Ref("podcast_plays", "alumni_id", "alumni", "SET_NULL")>>),
    New("podcasts", {}, <<>>) }
LedgerModels == {
    New("point_rules", {"reason"}, <<>>),
    New("points_ledger", {"idempotency_key"}, <<Ref("points_ledger", "alumni_id", "alumni", "CASCADE")>>),
    New("products", {"slug"}, <<>>), New("programs", {"slug"}, <<>>),
    New("push_subs", {}, <<Ref("push_subs", "alumni_id", "alumni", "CASCADE")>>),
    New("referrals", {},
        <<Ref("referrals", "referrer_id", "alumni", "CASCADE"),
         Ref("referrals", "invited_user_id", "directus_users", "SET_NULL")>>),
    New("timeline_items", {}, <<>>) }

RefsOf(models) == UNION {ToSet(x.refs) : x \in models}
UniquesOf(models) == UNION {{<<x.name, c>> : c \in x.unique} : x \in models}
FirstModels == MemberModels \cup ClubModels \cup ServiceModels \cup OfficeModels
               \cup ContentModels \cup LedgerModels
Declared == FirstModels \cup PollModels

-----------------------------------------------------------------------------
(* The operations of 0001, in its order.                                      *)

MemberTables == <<
    New("achievements", {"key"}, <<>>),
    New("alumni", {"referral_code", "telegram_id"},
        <<Ref("alumni", "referred_by", "alumni", "SET_NULL")>>),
    New("block_cta", {}, <<>>), New("block_hero", {}, <<>>) >>
SiteTables == <<
    New("events", {}, <<>>), New("levels", {"key"}, <<>>), New("news", {"slug"}, <<>>),
    New("club_news_source_runs", {}, <<>>), New("pages", {"slug"}, <<>>),
    New("club_page_views", {}, <<>>) >>
ShopTables == <<
    New("podcasts", {}, <<>>), New("point_rules", {"reason"}, <<>>), New("products", {"slug"}, <<>>),
    New("programs", {"slug"}, <<>>), New("club_settings", {}, <<>>) >>
FriendTables == <<
    New("directus_users", {"email", "token", "external_identifier"}, <<>>),
    New("timeline_items", {}, <<>>),
    New("club_social_membership", {}, <<Ref("club_social_membership", "alumni_id", "alumni", "CASCADE")>>),
    New("alumni_friends", {},
        <<Ref("alumni_friends", "alumni_id", "alumni", "CASCADE"),
         Ref("alumni_friends", "friend_id", "alumni", "CASCADE")>>) >>
LogTables == <<
    New("alumni_achievements", {},
        <<Ref("alumni_achievements", "achievement_id", "achievements", "CASCADE"),
         Ref("alumni_achievements", "alumni_id", "alumni", "CASCADE")>>),
    New("audit_log", {}, <<>>), New("club_auth_revocations", {}, <<>>), New("club_faq_events", {}, <<>>) >>
OrderTables == <<
    New("club_mail_outbox", {}, <<>>),
    New("offers", {}, <<Ref("offers", "alumni_id", "alumni", "CASCADE")>>),
    New("orders", {"number"}, <<Ref("orders", "alumni_id", "alumni", "SET_NULL")>>) >>
LedgerTables == <<
    New("club_checkout_commits", {"order_id"},
        <<Ref("club_checkout_commits", "order_id", "orders", "CASCADE")>>),
    New("pages_blocks", {}, <<Ref("pages_blocks", "pages_id", "pages", "CASCADE")>>),
    New("podcast_plays", {},
        <<Ref("podcast_plays", "alumni_id", "alumni", "SET_NULL"),
         Ref("podcast_plays", "podcast_id", "podcasts", "CASCADE")>>),
    New("points_ledger", {"idempotency_key"},
        <<Ref("points_ledger", "alumni_id", "alumni", "CASCADE")>>) >>
SessionTables == <<
    New("push_subs", {}, <<Ref("push_subs", "alumni_id", "alumni", "CASCADE")>>),
    New("club_social_reactions", {}, <<Ref("club_social_reactions", "alumni_id", "alumni", "CASCADE")>>),
    New("club_staff_sessions", {}, <<Ref("club_staff_sessions", "user_id", "directus_users", "CASCADE")>>),
    New("referrals", {},
        <<Ref("referrals", "referrer_id", "alumni", "CASCADE"),
         Ref("referrals", "invited_user_id", "directus_users", "SET_NULL")>>) >>
FileTables == <<
    New("directus_files", {},
        <<Ref("directus_files", "modified_by", "directus_users", "PROTECT"),
         Ref("directus_files", "uploaded_by", "directus_users", "PROTECT")>>),
    New("alumni.user_id", {"user_id"}, <<Ref("alumni", "user_id", "directus_users", "SET_NULL")>>),
    New("club_support_tickets", {}, <<>>) >>
RoleTables == <<
    New("directus_roles", {}, <<Ref("directus_roles", "parent", "directus_roles", "PROTECT")>>),
    New("directus_users.role", {}, <<Ref("directus_users", "role", "directus_roles", "SET_NULL")>>),
    New("club_telegram_links", {"token_hash"},
        <<Ref("club_telegram_links", "alumni_id", "alumni", "CASCADE")>>),
    New("carts", {}, <<Ref("carts", "alumni_id", "alumni", "SET_NULL")>>) >>
EventTables == <<
    New("event_rsvps", {"event_id__alumni_id"},
        <<Ref("event_rsvps", "alumni_id", "alumni", "CASCADE"),
         Ref("event_rsvps", "event_id", "events", "CASCADE")>>),
    New("club_news_inbox", {"source_url"}, <<Ref("club_news_inbox", "news_id", "news", "SET_NULL")>>) >>
FirstTables == MemberTables \o SiteTables \o ShopTables \o FriendTables \o LogTables
               \o OrderTables \o LedgerTables \o SessionTables \o FileTables
               \o RoleTables \o EventTables

\* 0004 and 0005; 0003 widens four columns of money and changes nothing here.
OwnerColumn == << New("club_mail_outbox.owner_user_id", {}, <<>>) >>
PollTables == <<
    New("club_polls", {}, <<>>),
    New("club_poll_votes", {"poll_id__alumni_id"},
        <<Ref("club_poll_votes", "alumni_id", "alumni", "CASCADE"),
         Ref("club_poll_votes", "poll_id", "club_polls", "CASCADE")>>) >>

-----------------------------------------------------------------------------
(* Migrations. A later column is written with its table, and its unique       *)
(* columns and keys belong to the table and come with it at once.             *)

LaterColumns == [c \in {"alumni.user_id"} |-> "alumni"]
TableOf(x) == IF x.name \in DOMAIN LaterColumns THEN LaterColumns[x.name] ELSE x.name
AtOnce(x) == x.name \in {"alumni.user_id", "directus_users.role"}

\* The keys a migration's tables leave for its end.
Deferred(ops) == FlattenSeq([i \in DOMAIN ops |-> IF AtOnce(ops[i]) THEN <<>> ELSE ops[i].refs])
ActionKeys == FlattenSeq([i \in DOMAIN FirstTables |-> FirstTables[i].refs])

Operations(n) == CASE n = 1 -> FirstTables
                   [] n = 4 -> OwnerColumn
                   [] n = 5 -> PollTables
                   [] OTHER -> <<>>
Latest == 5

\* CREATE TABLE or ADD COLUMN fails when it has been done, and its tables must exist.
Create(n) ==
    LET x == Operations(n)[at]
    IN  /\ x.name \notin tables
        /\ tables' = tables \cup {x.name}
        /\ uniques' = uniques \cup {<<TableOf(x), c>> : c \in x.unique}
        /\ keys' = IF AtOnce(x) THEN keys \cup {Plain(r) : r \in ToSet(x.refs)} ELSE keys
        /\ at' = at + 1
        /\ UNCHANGED <<recorded, granted, deploy>>

\* A key that CREATE TABLE left for the end, without an action.
AddKey(n) ==
    LET r == Deferred(Operations(n))[at - Len(Operations(n))]
    IN  /\ {r.of, r.to} \subseteq tables
        /\ keys' = keys \cup {Plain(r)}
        /\ at' = at + 1
        /\ UNCHANGED <<tables, uniques, recorded, granted, deploy>>

\* Mutant: a key that is not there is taken for one that has its action.
LeftUnlessPlain(r) == r.act = "PROTECT" \/ Plain(r) \notin keys
\* A key that has its action, or is to have none, is left alone.
Left(r) == r.act = "PROTECT" \/ r \in keys

\* apply_actions on one key: leave it, drop it, or add it again with its action.
Same(k, r) == k.of = r.of /\ k.col = r.col
ApplyAction(r) ==
    \/ /\ Left(r)
       /\ at' = at + 1
       /\ UNCHANGED keys
    \/ /\ ~Left(r)
       /\ Plain(r) \in keys
       /\ keys' = keys \ {Plain(r)}
       /\ UNCHANGED at
    \/ /\ ~Left(r)
       /\ \A k \in keys : ~Same(k, r)
       /\ keys' = keys \cup {r}
       /\ at' = at + 1

Statements(n) == IF n = 2 THEN Len(ActionKeys)
                 ELSE Len(Operations(n)) + Len(Deferred(Operations(n)))

Migrate ==
    LET n == recorded + 1
    IN  /\ deploy = "migrating"
        /\ n <= Latest
        /\ at <= Statements(n)
        /\ \/ n # 2 /\ at <= Len(Operations(n)) /\ Create(n)
           \/ n # 2 /\ at > Len(Operations(n)) /\ AddKey(n)
           \/ n = 2 /\ ApplyAction(ActionKeys[at]) /\ UNCHANGED <<tables, uniques, recorded, granted, deploy>>

Record ==
    /\ deploy = "migrating"
    /\ recorded < Latest
    /\ at > Statements(recorded + 1)
    /\ recorded' = recorded + 1
    /\ at' = 1
    /\ UNCHANGED <<tables, uniques, keys, granted, deploy>>

\* The API's account loses everything and is given back table by table (by name in
\* the code; the order of the tables makes no difference here): nothing
\* on the settings, names of roles, and the columns of accounts it works with.
Privileges(t) == CASE t = "directus_users" -> "columns_delete"
                   [] t = "directus_roles" -> "names"
                   [] OTHER -> "all"
RoleTargets == {x.name : x \in Declared} \ {"club_settings", "club_mail_outbox.owner_user_id"}
GrantOrder == FirstTables \o PollTables

Revoke ==
    /\ deploy = "migrating"
    /\ recorded = Latest
    /\ deploy' = "granting"
    /\ granted' = {}
    /\ at' = 1
    /\ UNCHANGED <<tables, uniques, keys, recorded>>

\* What is not a target is passed over.
Grant ==
    /\ deploy = "granting"
    /\ at <= Len(GrantOrder)
    /\ LET t == GrantOrder[at].name
       IN  /\ RoleTargets \cap {t} \subseteq tables
           /\ granted' = granted \cup {<<r, Privileges(r)>> : r \in RoleTargets \cap {t}}
    /\ at' = at + 1
    /\ UNCHANGED <<tables, uniques, keys, recorded, deploy>>

\* A statement fails on what an interrupted run left, or the process stops.
Stop ==
    /\ deploy \in {"migrating", "granting"}
    /\ deploy' = "down"
    /\ UNCHANGED <<tables, uniques, keys, recorded, granted, at>>

\* A deployment stops the writers first, and starts the API when all is done.
StartDeploy ==
    /\ deploy \in {"up", "down"}
    /\ deploy' = "migrating"
    /\ at' = 1
    /\ UNCHANGED <<tables, uniques, keys, recorded, granted>>
StartApi ==
    /\ deploy = "granting"
    /\ at > Len(GrantOrder)
    /\ deploy' = "up"
    /\ UNCHANGED <<tables, uniques, keys, recorded, granted, at>>

\* An empty database, or one from before the polls.
InitSchema ==
    /\ at = 1
    /\ \/ /\ recorded = 0
          /\ deploy = "down"
          /\ tables = {} /\ uniques = {} /\ keys = {} /\ granted = {}
       \/ /\ recorded = 4
          /\ deploy = "up"
          /\ tables = {x.name : x \in ToSet(FirstTables \o OwnerColumn)}
          /\ uniques = UniquesOf(FirstModels)
          /\ keys = RefsOf(FirstModels)
          /\ granted = {<<t, Privileges(t)>> : t \in RoleTargets \cap tables}

NextSchema == Migrate \/ Record \/ Revoke \/ Grant \/ Stop \/ StartDeploy \/ StartApi
SchemaSpec == InitSchema /\ [][NextSchema]_schemaVars

-----------------------------------------------------------------------------
(* Properties.                                                                *)

\* Whenever the API runs on a finished schema, every table, unique column and
\* key that models.py declares exists, every key has its declared ON DELETE action
\* but those of the votes, which 0005 creates after 0002 has given the actions, and
\* the API's account may use every table but the settings: a deployment that was
\* interrupted and repeated has lost no key, no action and no right.
ApiMeetsItsModels ==
    (deploy = "up" /\ recorded = Latest) =>
        /\ {x.name : x \in Declared} \subseteq tables
        /\ UniquesOf(Declared) = uniques
        /\ keys = RefsOf(FirstModels) \cup {Plain(r) : r \in RefsOf(PollModels)}
        /\ granted = {<<t, Privileges(t)>> : t \in RoleTargets}
=============================================================================
