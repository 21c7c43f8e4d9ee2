------------------------------- MODULE Telegram -------------------------------
(* Updates of the bot, by long polling or by webhook: what Telegram keeps until *)
(* it is confirmed, the offset the bot confirms with, and the reactions it      *)
(* records for the profile an account belongs to. Updates are repeated after a  *)
(* lost answer or a restart, and a webhook delivers them in any order.          *)
EXTENDS Naturals, Sequences

CONSTANTS
    Profile, Account, Post,
    MaxUpdates, MaxSecond,  \* bounds on the updates and their dates
    MaxRepeats      \* bound on failures, lost answers and restarts

VARIABLES
    mode,       \* "polling" or "webhook"
    updates,    \* what Telegram has sent, by update_id - 1
    unconfirmed,    \* updates Telegram still keeps
    offset,     \* the bot's next update_id
    batch,      \* updates of the last answer that are left
    deferred,   \* messages the webhook has answered and not handled
    linked,     \* per profile: its account, if it is verified
    reactions,  \* rows of club_social_reactions
    handled,    \* history: updates that were handled to their end
    arrived,    \* history: per profile, reactions that came while it had its account
    second,     \* the date of an update, to the second
    repeats

telegramVars == <<mode, updates, unconfirmed, offset, batch, deferred, linked, reactions,
                  handled, arrived, second, repeats>>

None == "none"
Owners(a) == {p \in Profile : linked[p] = a}

-----------------------------------------------------------------------------
(* record_reaction: one transaction, with the pair's lock.                     *)

\* Mutant: updates of one second are not told apart.
ByDate(r, u, i) == r.date < u.date
Newer(r, u, i) == r.date < u.date \/ (r.date = u.date /\ r.id < i)

RowsOf(p, u) == {r \in reactions : r.profile = p /\ r.post = u.post}
Recorded(p, u, i) ==
    LET old == RowsOf(p, u)
        new == [profile |-> p, post |-> u.post, active |-> u.active, date |-> u.date, id |-> i]
    IN  IF \A r \in old : Newer(r, u, i) THEN (reactions \ old) \cup {new} ELSE reactions

RecordReaction(i) ==
    LET u == updates[i]
    IN  IF u.kind = "reaction" /\ Owners(u.account) # {}
        THEN LET p == CHOOSE p \in Owners(u.account) : TRUE
             IN  /\ reactions' = Recorded(p, u, i)
                 /\ arrived' = [arrived EXCEPT ![p] = @ \cup {i}]
        ELSE UNCHANGED <<reactions, arrived>>

-----------------------------------------------------------------------------
(* poll.                                                                        *)

\* Telegram forgets what is before the offset and answers with the rest in order.
GetUpdates ==
    /\ mode = "polling"
    /\ batch = {}
    /\ unconfirmed' = {i \in unconfirmed : i >= offset}
    /\ batch' = {i \in unconfirmed : i >= offset}
    /\ UNCHANGED <<mode, updates, offset, deferred, linked, reactions, handled, arrived, second, repeats>>

\* The first of the batch, to its end; only then the offset passes it.
Handle ==
    \E i \in batch :
        /\ \A j \in batch : i <= j
        /\ RecordReaction(i)
        /\ handled' = handled \cup {i}
        /\ offset' = i + 1
        /\ batch' = batch \ {i}
        /\ UNCHANGED <<mode, updates, unconfirmed, deferred, linked, second, repeats>>

\* Mutant: the offset passes the update that failed.
OffsetPassed(i) == i + 1
\* Any exception ends the answer's loop; the offset stays at the update that failed.
OffsetStays(i) == offset
HandleFails ==
    \E i \in batch :
        /\ \A j \in batch : i <= j
        /\ repeats < MaxRepeats
        /\ offset' = OffsetStays(i)
        /\ batch' = {}
        /\ repeats' = repeats + 1
        /\ UNCHANGED <<mode, updates, unconfirmed, deferred, linked, reactions, handled, arrived, second>>

\* A restart begins with offset 0, which confirms nothing.
Restart ==
    /\ repeats < MaxRepeats
    /\ offset' = 0
    /\ batch' = {}
    /\ deferred' = {}
    /\ repeats' = repeats + 1
    /\ UNCHANGED <<mode, updates, unconfirmed, linked, reactions, handled, arrived, second>>

-----------------------------------------------------------------------------
(* webhook: a reaction is recorded before the answer, a message is handled     *)
(* after it, and then no error brings it back.                                 *)

Webhook(i, answered) ==
    /\ mode = "webhook"
    /\ i \in unconfirmed
    /\ answered \/ repeats < MaxRepeats
    /\ RecordReaction(i)
    /\ IF updates[i].kind = "reaction"
       THEN handled' = handled \cup {i} /\ UNCHANGED deferred
       ELSE deferred' = deferred \cup {i} /\ UNCHANGED handled
    /\ unconfirmed' = IF answered THEN unconfirmed \ {i} ELSE unconfirmed
    /\ repeats' = IF answered THEN repeats ELSE repeats + 1
    /\ UNCHANGED <<mode, updates, offset, batch, linked, second>>

SafeHandle(i) ==
    /\ i \in deferred
    /\ deferred' = deferred \ {i}
    /\ handled' \in {handled, handled \cup {i}}
    /\ UNCHANGED <<mode, updates, unconfirmed, offset, batch, linked, reactions, arrived, second, repeats>>

-----------------------------------------------------------------------------
(* Telegram's users, and profiles that are linked and erased.                  *)

Sent(u) ==
    /\ Len(updates) < MaxUpdates
    /\ updates' = Append(updates, u)
    /\ unconfirmed' = unconfirmed \cup {Len(updates) + 1}
    /\ UNCHANGED <<mode, offset, batch, deferred, linked, reactions, handled, arrived, second, repeats>>
React(a, post, active) ==
    Sent([kind |-> "reaction", account |-> a, post |-> post, active |-> active, date |-> second])
Write(a) == Sent([kind |-> "message", account |-> a, post |-> None, active |-> FALSE, date |-> second])

Second ==
    /\ second < MaxSecond
    /\ second' = second + 1
    /\ UNCHANGED <<mode, updates, unconfirmed, offset, batch, deferred, linked, reactions, handled, arrived, repeats>>

Link(p, a) ==
    /\ linked[p] = None
    /\ arrived[p] = {}
    /\ Owners(a) = {}
    /\ linked' = [linked EXCEPT ![p] = a]
    /\ UNCHANGED <<mode, updates, unconfirmed, offset, batch, deferred, reactions, handled, arrived, second, repeats>>
\* anonymize removes the rows with the link, under the profile's lock.
Erase(p) ==
    /\ linked[p] # None
    /\ linked' = [linked EXCEPT ![p] = None]
    /\ reactions' = {r \in reactions : r.profile # p}
    /\ UNCHANGED <<mode, updates, unconfirmed, offset, batch, deferred, handled, arrived, second, repeats>>

-----------------------------------------------------------------------------
InitTelegram ==
    /\ mode \in {"polling", "webhook"}
    /\ updates = <<>> /\ unconfirmed = {} /\ offset = 0 /\ batch = {} /\ deferred = {}
    /\ linked = [p \in Profile |-> None]
    /\ reactions = {} /\ handled = {}
    /\ arrived = [p \in Profile |-> {}]
    /\ second = 1 /\ repeats = 0
NextTelegram ==
    \/ GetUpdates \/ Handle \/ HandleFails \/ Restart \/ Second
    \/ \E i \in unconfirmed, answered \in BOOLEAN : Webhook(i, answered)
    \/ \E i \in deferred : SafeHandle(i)
    \/ \E a \in Account : Write(a) \/ (\E p \in Profile : Link(p, a))
                          \/ \E post \in Post, active \in BOOLEAN : React(a, post, active)
    \/ \E p \in Profile : Erase(p)
TelegramSpec == InitTelegram /\ [][NextTelegram]_telegramVars

-----------------------------------------------------------------------------
\* A profile's row says what its account last did to the post, of all reactions
\* that have come while it had the account, in whatever order and however often
\* they came; an erased profile has none.
ReactionsFollow ==
    /\ \A r \in reactions : linked[r.profile] # None /\ r.active = updates[r.id].active
    /\ \A p \in Profile : \A i \in arrived[p] :
          linked[p] # None =>
              \E r \in RowsOf(p, updates[i]) :
                  r.date > updates[i].date \/ (r.date = updates[i].date /\ r.id >= i)

\* Telegram forgets an update only when it was handled, or is a message whose
\* webhook was answered: neither a failure in a batch nor a restart skips one.
NoUpdateIsSkipped ==
    \A i \in DOMAIN updates :
        i \in unconfirmed \/ i \in handled \/ (mode = "webhook" /\ updates[i].kind = "message")
=============================================================================
