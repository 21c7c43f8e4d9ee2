------------------------------ MODULE Accounts ------------------------------
(***************************************************************************)
(* Accounts of the members and what depends on them: registration, login   *)
(* and sessions, password resets (modules/auth), the link to Telegram      *)
(* (modules/telegram/links.py), erasure (modules/members/service.py), and  *)
(* the personal data that requests admitted before an erasure may write    *)
(* after it (profile, avatar, friends, push, polls, social, orders).       *)
(*                                                                         *)
(* One database transaction, or one statement outside of any, is one       *)
(* action; what a request has read before is in task.  Links and sessions  *)
(* do not expire here: one that has expired is one nobody uses again.      *)
(* Registration waits for the address to be confirmed, as it does whenever *)
(* a mail server is configured.                                            *)
(***************************************************************************)
EXTENDS Integers, FiniteSets

CONSTANTS
  Member,      \* profiles, each with its user id
  Email,
  Telegram,    \* Telegram accounts
  Handler,     \* coroutines that serve requests
  Jti,         \* ids of password reset links
  None,        \* no member, address, Telegram account or link; NULL
  Legacy,      \* profiles of the old system: token_version IS NULL
  OldEmail,    \* OldEmail[m]: the address of a legacy member
  Kind,        \* what requests write about members in an instance (a bound)
  Ruling,      \* the verifications the office sets in an instance (a bound)
  MaxVersion   \* no erasure when token_version has reached it (a bound)

ASSUME AccountAssumption ==
  /\ None \notin Member \cup Email \cup Telegram \cup Jti \cup Nat
  /\ "user" \notin Telegram
  /\ Legacy \subseteq Member
  /\ OldEmail \in [Legacy -> Email]
  /\ \A m, n \in Legacy : OldEmail[m] = OldEmail[n] => m = n
  /\ Kind \subseteq {"profile", "photo", "friends", "push", "votes", "membership",
                     "orders", "subscription", "link"}
  /\ Ruling \subseteq {"pending", "verified", "rejected"} /\ MaxVersion \in Nat
  /\ IsFiniteSet(Jti)

VARIABLES
  account,       \* the directus_users row; "gone": erased, user_id is NULL
  email,         \* its address
  password,      \* how many passwords have replaced the first one
  version,       \* alumni.token_version
  verification,  \* alumni.verification_status
  telegram,      \* alumni.telegram_id
  code,          \* members with a row in club_telegram_links
  personal,      \* what the tables hold about the member
  reopened,      \* history: erased profiles that the office has verified since
  sessions,      \* tokens that have been issued
  reset,         \* reset links by their jti
  used,          \* club_auth_revocations: reset links that have been used
  task           \* what each handler is doing

userVars == <<account, email, password>>
profileVars == <<version, verification, telegram, code, personal, reopened>>
vars == <<userVars, profileVars, sessions, reset, used, task>>

Version == Nat \cup {None}
Verification == {"none", "pending", "verified", "rejected"}
Subject == {"user"} \cup Telegram
Session == [member : Member, by : {"password", "telegram"}, sub : Subject,
            ver : Nat, pw : Nat]

\* issued is the password at the time the link was made.
Reset == [member : Member, ver : Version, issued : Nat]

Idle == [step |-> "idle"]
Task ==
  {Idle}
  \cup [step : {"register"}, email : Email]
  \cup [step : {"login"}, session : Session]
  \cup [step : {"reset"}, jti : Jti]
  \cup [step : {"write"}, session : Session, kind : Kind,
        verification : Verification, telegram : Telegram \cup {None}]

TypeOK ==
  /\ account \in [Member -> {"absent", "unverified", "active", "gone"}]
  /\ email \in [Member -> Email \cup {None}]
  /\ password \in [Member -> Nat]
  /\ version \in [Member -> Version]
  /\ verification \in [Member -> Verification]
  /\ telegram \in [Member -> Telegram \cup {None}]
  /\ code \subseteq Member
  /\ personal \in [Member -> SUBSET (Kind \cup {"profile"})]
  /\ reopened \subseteq Member
  /\ sessions \subseteq Session
  /\ reset \in [Jti -> Reset \cup {None}]
  /\ used \subseteq Jti
  /\ task \in [Handler -> Task]
  /\ \A m \in Member : email[m] # None <=> account[m] \in {"unverified", "active"}

Init ==
  /\ account = [m \in Member |-> IF m \in Legacy THEN "active" ELSE "absent"]
  /\ email = [m \in Member |-> IF m \in Legacy THEN OldEmail[m] ELSE None]
  /\ password = [m \in Member |-> 0]
  /\ version = [m \in Member |-> IF m \in Legacy THEN None ELSE 0]
  /\ verification =
       [m \in Member |-> IF m \in Legacy THEN "verified" ELSE "none"]
  /\ telegram = [m \in Member |-> None]
  /\ code = {}
  /\ personal = [m \in Member |-> IF m \in Legacy THEN {"profile"} ELSE {}]
  /\ reopened = {}
  /\ sessions = {}
  /\ reset = [j \in Jti |-> None]
  /\ used = {}
  /\ task = [h \in Handler |-> Idle]
-----------------------------------------------------------------------------
(* Accounts and sessions. *)

\* recoverable_alumni; also whether alumni.user_id leads to a user.
Recoverable(m) == account[m] \in {"unverified", "active"}

\* find_user by address.
Taken(e) == \E m \in Member : Recoverable(m) /\ email[m] = e

\* COALESCE(token_version, 0).
VersionOf(m) == IF version[m] = None THEN 0 ELSE version[m]

\* resolve_alumni: the session is that of the profile's present generation, and
\* of its user, or of its Telegram account when it has no user.
Accepted(s) ==
  /\ s.ver = VersionOf(s.member)
  /\ IF account[s.member] = "gone"
     THEN telegram[s.member] # None /\ s.sub = telegram[s.member]
     ELSE account[s.member] = "active" /\ s.sub = "user"

Start(h, t) == task[h] = Idle /\ task' = [task EXCEPT ![h] = t]

Finish(h) == task' = [task EXCEPT ![h] = Idle]

\* The check register starts with; the password is hashed after it.
RegisterStart(h, e) ==
  /\ ~Taken(e)
  /\ Start(h, [step |-> "register", email |-> e])
  /\ UNCHANGED <<userVars, profileVars, sessions, reset, used>>

\* Mutant: the address is not looked up again under the lock.
StillFreeTrusted(e) == TRUE

StillFree(e) == ~Taken(e)

\* The transaction of register, with a new profile and a new user.
RegisterCommit(h) ==
  /\ task[h].step = "register"
  /\ \/ /\ StillFree(task[h].email)
        /\ \E m \in Member :
             /\ account[m] = "absent"
             /\ account' = [account EXCEPT ![m] = "unverified"]
             /\ email' = [email EXCEPT ![m] = task[h].email]
             /\ verification' = [verification EXCEPT ![m] = "pending"]
             /\ personal' = [personal EXCEPT ![m] = {"profile"}]
     \/ ~StillFree(task[h].email) /\ UNCHANGED <<account, email, verification, personal>>
  /\ Finish(h)
  /\ UNCHANGED <<password, version, telegram, code, reopened, sessions, reset, used>>

Confirm(m) ==
  /\ account[m] = "unverified"
  /\ account' = [account EXCEPT ![m] = "active"]
  /\ UNCHANGED <<email, password, profileVars, sessions, reset, used, task>>

\* Mutant: the generation is read after the password has been verified.
IssuedLate(s) == [s EXCEPT !.ver = VersionOf(s.member)]

Issued(s) == s

\* authenticate reads hash and generation in one query, then verifies the hash.
LoginStart(h, m) ==
  /\ account[m] = "active"
  /\ Start(h, [step |-> "login",
               session |-> [member |-> m, by |-> "password", sub |-> "user",
                            ver |-> VersionOf(m), pw |-> password[m]]])
  /\ UNCHANGED <<userVars, profileVars, sessions, reset, used>>

\* telegram_login reads the profile by its telegram_id, then the user.
TelegramStart(h, m) ==
  /\ telegram[m] # None
  /\ Start(h, [step |-> "login",
               session |-> [member |-> m, by |-> "telegram",
                            sub |-> IF account[m] = "gone" THEN telegram[m]
                                    ELSE "user",
                            ver |-> VersionOf(m), pw |-> 0]])
  /\ UNCHANGED <<userVars, profileVars, sessions, reset, used>>

\* The rest of both: the profile still has that user, who is active.
LoginFinish(h) ==
  /\ task[h].step = "login"
  /\ LET s == task[h].session IN
     sessions' = IF s.sub = "user" /\ account[s.member] # "active" THEN sessions
                 ELSE sessions \cup {Issued(s)}
  /\ Finish(h)
  /\ UNCHANGED <<userVars, profileVars, reset, used>>
-----------------------------------------------------------------------------
(* Password resets. *)

\* forgot: the link carries token_version as it is, NULL too.
Forgot(m) ==
  /\ Recoverable(m)
  /\ \E j \in Jti :
       /\ reset[j] = None
       /\ reset' = [reset EXCEPT ![j] = [member |-> m, ver |-> version[m],
                                         issued |-> password[m]]]
  /\ UNCHANGED <<userVars, profileVars, sessions, used, task>>

\* reset up to its transaction; the new password is hashed meanwhile.
ResetStart(h, j) ==
  /\ reset[j] # None /\ Recoverable(reset[j].member)
  /\ Start(h, [step |-> "reset", jti |-> j])
  /\ UNCHANGED <<userVars, profileVars, sessions, reset, used>>

\* Mutant: links that have been used are not remembered.
UnusedAlways(j) == TRUE

Unused(j) == j \notin used

Current(l) == l.ver # None => l.ver = VersionOf(l.member)

Usable(j) ==
  reset[j] # None /\ Recoverable(reset[j].member) /\ Current(reset[j]) /\ Unused(j)

ResetCommit(h) ==
  /\ task[h].step = "reset"
  /\ LET j == task[h].jti
         m == reset[j].member IN
     IF Usable(j)
     THEN /\ used' = used \cup {j}
          /\ password' = [password EXCEPT ![m] = @ + 1]
          /\ version' = [version EXCEPT ![m] = VersionOf(m) + 1]
     ELSE UNCHANGED <<used, password, version>>
  /\ Finish(h)
  /\ UNCHANGED <<account, email, verification, telegram, code, personal,
                 reopened, sessions, reset>>
-----------------------------------------------------------------------------
(* Requests that write about a member. *)

\* What require_alumni, verified_alumni or the avatar's route ask for.
Admitted(m, kind) ==
  CASE kind \in {"votes", "orders"} -> TRUE
    [] kind = "photo" -> verification[m] \in {"pending", "verified"}
    [] OTHER -> verification[m] = "verified"

Admit(h, s, kind) ==
  /\ s \in sessions /\ Accepted(s) /\ Admitted(s.member, kind)
  /\ kind = "membership" => telegram[s.member] # None
  /\ Start(h, [step |-> "write", session |-> s, kind |-> kind,
               verification |-> verification[s.member],
               telegram |-> telegram[s.member]])
  /\ UNCHANGED <<userVars, profileVars, sessions, reset, used>>

\* The avatar's transaction: user, Telegram account and generation are the same.
SameProfile(t) ==
  LET m == t.session.member IN
  /\ verification[m] \in {"pending", "verified"}
  /\ Recoverable(m) <=> t.session.sub = "user"
  /\ telegram[m] = t.telegram
  /\ VersionOf(m) = t.session.ver

\* What the statement or transaction that writes looks at again.  An order's
\* compares the discount, which only the verified have.
MayWrite(t) ==
  LET m == t.session.member IN
  CASE t.kind = "photo" -> SameProfile(t)
    [] t.kind = "votes" -> Recoverable(m)
    [] t.kind = "orders" -> verification[m] = "verified" <=> t.verification = "verified"
    [] OTHER -> TRUE

Write(h) ==
  /\ task[h].step = "write"
  /\ LET t == task[h]
         m == t.session.member IN
     IF ~MayWrite(t) THEN UNCHANGED <<code, personal>>
     ELSE IF t.kind = "link" THEN code' = code \cup {m} /\ UNCHANGED personal
     ELSE personal' = [personal EXCEPT ![m] = @ \cup {t.kind}] /\ UNCHANGED code
  /\ Finish(h)
  /\ UNCHANGED <<userVars, version, verification, telegram, reopened, sessions,
                 reset, used>>

\* Mutant: the Telegram account may be that of another profile.
FreeForAnybody(m, t) == TRUE

FreeFor(m, t) == \A n \in Member : telegram[n] = t => n = m

\* consume_link, on /start with the code.
ConsumeLink(m, t) ==
  /\ m \in code /\ verification[m] = "verified"
  /\ telegram[m] \in {None, t} /\ FreeFor(m, t)
  /\ telegram' = [telegram EXCEPT ![m] = t]
  /\ code' = code \ {m}
  /\ UNCHANGED <<userVars, version, verification, personal, reopened, sessions,
                 reset, used, task>>

\* PATCH /admin/members/{id}, which does not look whether the profile is erased.
PatchMember(m, v) ==
  /\ account[m] # "absent"
  /\ verification' = [verification EXCEPT ![m] = v]
  /\ reopened' = IF account[m] = "gone" /\ v = "verified" THEN reopened \cup {m}
                 ELSE reopened
  /\ UNCHANGED <<userVars, version, telegram, code, personal, sessions, reset,
                 used, task>>

\* Mutant: the link to Telegram stays.
UnlinkNever(m) == UNCHANGED telegram

Unlink(m) == telegram' = [telegram EXCEPT ![m] = None]

\* The user's row goes, and the address is free again.
ReleaseAddress(m) == email' = [email EXCEPT ![m] = None]

\* anonymize, of the member or of the office.
Erase(m) ==
  /\ account[m] # "absent" /\ VersionOf(m) < MaxVersion
  /\ account' = [account EXCEPT ![m] = "gone"]
  /\ ReleaseAddress(m)
  /\ verification' = [verification EXCEPT ![m] = "rejected"]
  /\ version' = [version EXCEPT ![m] = VersionOf(m) + 1]
  /\ personal' = [personal EXCEPT ![m] = {}]
  /\ Unlink(m)
  /\ reopened' = reopened \ {m}
  /\ UNCHANGED <<password, code, sessions, reset, used, task>>

\* A crash or an exception.
HandlerStops(h) ==
  /\ task[h] # Idle
  /\ Finish(h)
  /\ UNCHANGED <<userVars, profileVars, sessions, reset, used>>
-----------------------------------------------------------------------------
MemberNext ==
  \E m \in Member :
    \/ Confirm(m) \/ Forgot(m) \/ Erase(m)
    \/ \E t \in Telegram : ConsumeLink(m, t)
    \/ \E v \in Ruling : PatchMember(m, v)

HandlerNext ==
  \E h \in Handler :
    \/ \E e \in Email : RegisterStart(h, e)
    \/ \E m \in Member : LoginStart(h, m) \/ TelegramStart(h, m)
    \/ \E j \in Jti : ResetStart(h, j)
    \/ \E s \in sessions, kind \in Kind : Admit(h, s, kind)
    \/ RegisterCommit(h) \/ LoginFinish(h) \/ ResetCommit(h) \/ Write(h)
    \/ HandlerStops(h)

Next == MemberNext \/ HandlerNext

Spec == Init /\ [][Next]_vars
-----------------------------------------------------------------------------
(* Properties. *)

\* Two registrations of one address, overlapping or one after another, leave one
\* account; an address is free again only after erasure (register).
OneAccountPerEmail ==
  \A m, n \in Member :
    Recoverable(m) /\ Recoverable(n) /\ email[m] = email[n] => m = n

\* A session that is accepted was issued to somebody who knew the password that
\* is valid now, even if the reset overtook the login (authenticate, reset).
SessionsKnowPassword ==
  \A s \in sessions :
    s.by = "password" /\ Accepted(s) => s.pw = password[s.member]

\* Every change of the password took a link of its own (reset's jti and lock).
OneResetPerLink ==
  \A m \in Member :
    password[m] = Cardinality({j \in used : reset[j].member = m})

\* After a reset the links mailed before it are dead, unless they are those of a
\* profile that never had a token_version.
OlderLinksAreDead ==
  \A j \in Jti :
    Usable(j) /\ reset[j].ver # None => reset[j].issued = password[reset[j].member]

\* A reset link changes one password once: the change spends it and ends the links
\* mailed before it, though requests with both may be under way (reset).
ResetLinksAreSpent == OneResetPerLink /\ OlderLinksAreDead

\* Nobody's Telegram account belongs to two profiles (consume_link's lock).
OneProfilePerTelegram ==
  \A m, n \in Member : telegram[m] = telegram[n] /\ telegram[m] # None => m = n

\* Erasure closes the profile, though links, logins and requests from before are
\* still under way: no Telegram account leads to it and no session is accepted,
\* unless the office has verified it again; even then nobody gets in by a
\* password and no reset link can be used (anonymize, patch_member).
ErasedHaveNoAccess ==
  \A m \in Member : account[m] = "gone" =>
    /\ m \notin reopened =>
         telegram[m] = None /\ \A s \in sessions : s.member = m => ~Accepted(s)
    /\ \A s \in sessions : s.member = m /\ Accepted(s) => s.by = "telegram"
    /\ \A j \in Jti : reset[j] # None /\ reset[j].member = m => ~Usable(j)

\* A vote whose request was admitted before the erasure is not written after it,
\* and a photo only if the office has verified the profile again (the second look
\* of upload_avatar and of vote).
LateWritesAreRefused ==
  \A m \in Member : account[m] = "gone" =>
    /\ "votes" \notin personal[m]
    /\ m \notin reopened => "photo" \notin personal[m]

\* Erasure ends the access to a profile and the two writes that look twice, until
\* the office verifies it again (anonymize).
ErasedStayOut == ErasedHaveNoAccess /\ LateWritesAreRefused

\* privacy.html, section 6: erasure removes contact data, unlinks notifications
\* and leaves orders without personal data.
ErasureIsFinal ==
  \A m \in Member : account[m] = "gone" => personal[m] = {}
=============================================================================
