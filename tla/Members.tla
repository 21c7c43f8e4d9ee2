------------------------------- MODULE Members -------------------------------
(* The ledger of points (without the service and decay) and the components       *)
(* members meet that share no state with it or with each other, in one            *)
(* specification: the initial state chooses the component that runs, the others  *)
(* keep still. Each of them behaves as it does alone (MembersProofs).             *)
EXTENDS Points, FiniteSets

CONSTANTS
    Guest, Clock, FirstYear, Window, MaxPaid, MaxCuts,
    Limited, Maximum, Span, Sweep, Keep, Visitor, Login, MaxEmail, MaxIp,
    LockEmail, LockIp, AttemptSpan, EndOfTime,
    Profile, Account, Post, MaxUpdates, MaxSecond, MaxRepeats,
    Person, MaxLinks, Poll, Option,
    Source, Url, MaxNews, MaxRefresh,
    Text, Short, PageSize, Pages, MaxRecords, MaxPosts, MaxChanges

VARIABLES
    part,   \* the component that runs
    today, minutes, serving, running, event, answers, late, sub, cuts,
    seconds, entries, swept, served, byEmail, byIp, login, wrong,
    mode, updates, unconfirmed, offset, batch, deferred, linked, reactions, handled,
    arrived, second, repeats,
    left, links, lastLink, asking, removing, asked, status, votes, ballots, told, result,
    inbox, news, refresh, import, merged, created, refreshes,
    channel, posted, archive, reading, current, changes

\* No account is the mark of a profile that has none.
ASSUME AccountsAreNamed == "none" \notin Account
\* Days are counted from the first.
ASSUME DaysFollow == Clock \subseteq Nat /\ Clock # {}
\* Counters are kept for the longest span of a limit, and more than one failure
\* locks an address for no less than the time in which failures count.
ASSUME LimitsFit ==
    /\ Maximum \in [Limited -> Nat] /\ Span \in [Limited -> Nat \ {0}] /\ Keep \in Nat
    /\ Limited = {"global", "route"} /\ \A l \in Limited : Span[l] <= Keep
ASSUME LocksFit ==
    /\ MaxEmail \in Nat \ {0, 1} /\ AttemptSpan \in Nat \ {0} /\ LockEmail \in Nat
    /\ LockEmail >= AttemptSpan
    /\ IsFiniteSet(Login) /\ Login # {}
\* The bounds of an archive are numbers.
ASSUME ArchiveBounds == PageSize \in Nat /\ Pages \in Nat /\ MaxPosts \in Nat

Rm == INSTANCE Reminders WITH pass <- running
Ad == INSTANCE Admission WITH clock <- seconds
Tg == INSTANCE Telegram
Co == INSTANCE Community
Nw == INSTANCE News
Fd == INSTANCE Feed

-----------------------------------------------------------------------------
remindersVars == <<today, minutes, serving, running, event, answers, late, sub, cuts>>
admissionVars == <<seconds, entries, swept, served, byEmail, byIp, login, wrong>>
telegramVars == <<mode, updates, unconfirmed, offset, batch, deferred, linked, reactions, handled,
                  arrived, second, repeats>>
communityVars == <<left, links, lastLink, asking, removing, asked, status, votes, ballots, told, result>>
newsVars == <<inbox, news, refresh, import, merged, created, refreshes>>
feedVars == <<channel, posted, archive, reading, current, changes>>
membersVars == <<part, vars, remindersVars, admissionVars, telegramVars, communityVars,
                newsVars, feedVars>>

\* The limits and the logins of Admission do not share state either, nor do the
\* friendships and the polls of Community but for the members who have left.
Parts == {"points", "reminders", "limits", "logins", "telegram", "friends", "polls", "news", "feed"}

Still(p) ==
    /\ part = p
    /\ part' = part
    /\ IF p = "points" THEN TRUE ELSE UNCHANGED vars
    /\ IF p = "reminders" THEN TRUE ELSE UNCHANGED remindersVars
    /\ IF p \in {"limits", "logins"} THEN TRUE ELSE UNCHANGED admissionVars
    /\ IF p = "telegram" THEN TRUE ELSE UNCHANGED telegramVars
    /\ IF p \in {"friends", "polls"} THEN TRUE ELSE UNCHANGED communityVars
    /\ IF p = "news" THEN TRUE ELSE UNCHANGED newsVars
    /\ IF p = "feed" THEN TRUE ELSE UNCHANGED feedVars

\* A component that keeps still has one initial state.
InitMembers ==
    /\ part \in Parts
    /\ Init /\ Rm!InitReminders /\ Ad!InitAdmission /\ Tg!InitTelegram /\ Co!InitCommunity /\ Nw!InitNews /\ Fd!InitFeed
    /\ part # "telegram" => mode = "polling"

\* Clerks and members; nobody else gives points here, and nothing decays.
PointsMoves ==
    \/ Still("points") /\ \E m \in Member : Erase(m)
    \/ Still("points") /\ \E e \in Event : DeleteEvent(e)
    \/ Still("points") /\ \E e \in Event, m \in Member : Rsvp(e, m)
    \/ Still("points") /\ \E c \in Clerk, e \in Event, m \in Member : Attend(c, e, m)
    \/ Still("points") /\ \E c \in Clerk : AttendCommit(c)
    \/ Still("points") /\ \E c \in Clerk : CreditReferral(c)
    \/ Still("points") /\ \E c \in Clerk : ClerkStops(c)
    \/ Still("points") /\ \E c \in Clerk, m \in Member : Verify(c, m)
    \/ Still("points") /\ Tick

RemindersMoves ==
    \/ Still("reminders") /\ Rm!TickEvents
    \/ Still("reminders") /\ Rm!TickPodcasts
    \/ Still("reminders") /\ Rm!Stop
    \/ Still("reminders") /\ Rm!Restart
    \/ Still("reminders") /\ \E j \in Rm!Job : Rm!Skipped(j)
    \/ Still("reminders") /\ \E j \in Rm!Job : Rm!Cut(j)
    \/ Still("reminders") /\ \E d \in Clock : Rm!NextDay(d)
    \/ Still("reminders") /\ \E e \in Event : Rm!ReadAnswers(e)
    \/ Still("reminders") /\ Rm!PushEvent
    \/ Still("reminders") /\ Rm!FlagEvent
    \/ Still("reminders") /\ \E r \in Rm!Podcasts.left, sent \in BOOLEAN : Rm!Letter(r, sent)
    \/ Still("reminders") /\ Rm!FlagSubscriber
    \/ Still("reminders") /\ \E g \in Guest : Rm!Extend(g)
    \/ Still("reminders") /\ \E e \in Event, g \in Guest : Rm!Rsvp(e, g)
    \/ Still("reminders") /\ \E e \in Event, d \in Clock : Rm!Create(e, d)
    \/ Still("reminders") /\ \E e \in Event, d \in Clock, state \in {"published", "canceled"} : Rm!Patch(e, d, state)
    \/ Still("reminders") /\ \E e \in Event : Rm!DeleteEvent(e)

AdmissionMoves ==
    \/ Still("limits") /\ Ad!Request
    \/ Still("limits") /\ Ad!Passes
    \/ Still("logins") /\ Ad!Passes
    \/ Still("logins") /\ \E h \in Login, v \in Visitor : Ad!StartLogin(h, v)
    \/ Still("logins") /\ \E h \in Login : Ad!WrongPassword(h)
    \/ Still("logins") /\ \E h \in Login : Ad!RightPassword(h)
    \/ Still("logins") /\ \E h \in Login : Ad!LoginStops(h)

TelegramMoves ==
    \/ Still("telegram") /\ Tg!GetUpdates
    \/ Still("telegram") /\ Tg!Handle
    \/ Still("telegram") /\ Tg!HandleFails
    \/ Still("telegram") /\ Tg!Restart
    \/ Still("telegram") /\ \E i \in unconfirmed, answered \in BOOLEAN : Tg!Webhook(i, answered)
    \/ Still("telegram") /\ \E i \in deferred : Tg!SafeHandle(i)
    \/ Still("telegram") /\ \E a \in Account : Tg!Write(a)
    \/ Still("telegram") /\ \E a \in Account, post \in Post, active \in BOOLEAN : Tg!React(a, post, active)
    \/ Still("telegram") /\ Tg!Second
    \/ Still("telegram") /\ \E p \in Profile, a \in Account : Tg!Link(p, a)
    \/ Still("telegram") /\ \E p \in Profile : Tg!Erase(p)

CommunityMoves ==
    \/ Still("friends") /\ \E a, b \in Person : Co!Ask(a, b)
    \/ Still("friends") /\ \E a \in Person : Co!ReadLinks(a)
    \/ Still("friends") /\ \E a \in Person : Co!Answer(a)
    \/ Still("friends") /\ \E a, b \in Person : Co!SeeFriend(a, b)
    \/ Still("friends") /\ \E a, b \in Person : Co!RemoveFriend(a, b)
    \/ Still("friends") /\ \E p \in Person : Co!Erase(p)
    \/ Still("polls") /\ \E q \in Poll : Co!CreatePoll(q)
    \/ Still("polls") /\ \E q \in Poll : Co!LaunchPoll(q)
    \/ Still("polls") /\ \E q \in Poll : Co!ClosePoll(q)
    \/ Still("polls") /\ \E q \in Poll, p \in Person, o \in Option : Co!Admit(q, p, o)
    \/ Still("polls") /\ \E q \in Poll, p \in Person, o \in Option : Co!Vote(q, p, o)
    \/ Still("polls") /\ \E p \in Person : Co!Erase(p)

NewsMoves ==
    \/ Still("news") /\ \E s \in Source, urls \in SUBSET Url : Nw!Fetch(s, urls)
    \/ Still("news") /\ \E s \in Source, u \in Url : Nw!CreateCandidate(s, u)
    \/ Still("news") /\ \E s \in Source, u \in Url : Nw!FindCandidate(s, u)
    \/ Still("news") /\ \E s \in Source : Nw!SaveCandidate(s)
    \/ Still("news") /\ \E s \in Source : Nw!Link(s)
    \/ Still("news") /\ \E s \in Source : Nw!RefreshFails(s)
    \/ Still("news") /\ \E c \in Clerk, u \in Url : Nw!ImportFind(c, u)
    \/ Still("news") /\ \E c \in Clerk : Nw!ImportCommit(c)
    \/ Still("news") /\ \E c \in Clerk : Nw!ImportFails(c)
    \/ Still("news") /\ \E u \in Url, state \in {"new", "dismissed"} : Nw!SetState(u, state)
    \/ Still("news") /\ \E n \in news : Nw!DeleteNews(n)

FeedMoves ==
    \/ Still("feed") /\ \E text \in Text \cup {Short} : Fd!PublishPost(text)
    \/ Still("feed") /\ \E i \in DOMAIN channel, text \in Text \cup {Short} : Fd!EditPost(i, text)
    \/ Still("feed") /\ \E i \in DOMAIN channel : Fd!DeletePost(i)
    \/ Still("feed") /\ Fd!StartReading
    \/ Still("feed") /\ Fd!FetchPage
    \/ Still("feed") /\ Fd!FetchFails
    \/ Still("feed") /\ Fd!MergePosts
    \/ Still("feed") /\ Fd!Unavailable
    \/ Still("feed") /\ Fd!ReadingStops

NextMembers ==
    \/ PointsMoves \/ RemindersMoves \/ AdmissionMoves \/ TelegramMoves
    \/ CommunityMoves \/ NewsMoves \/ FeedMoves

MembersSpec == InitMembers /\ [][NextMembers]_membersVars

-----------------------------------------------------------------------------
(* The properties of the components, stated in their modules.                  *)

\* A reminder's flag stands for reminders that were sent (tasks.py).
RemindersMatchFlags == part = "reminders" => Rm!RemindersMatchFlags
\* Each year paid for lasts a year, over any 29 February (payments.py).
PaidYearsLast == part = "reminders" => Rm!PaidYearsLast
\* No span sees more requests or wrong passwords than its limit allows (security.py).
LimitsAreKept == part \in {"limits", "logins"} => Ad!LimitsAreKept
\* A recorded reaction is the last one that came from its account (social.py).
ReactionsFollow == part = "telegram" => Tg!ReactionsFollow
\* Telegram forgets only updates that were handled, or answered (bot.py).
NoUpdateIsSkipped == part = "telegram" => Tg!NoUpdateIsSkipped
\* Members are friends by one row, and only when both have asked (community.py).
FriendsAgree == part = "friends" => Co!FriendsAgree
\* A confirmed vote stays, and a closed poll is what it was closed with (polls/routes.py).
ResultsStand == part = "polls" => Co!ResultsStand
\* A publication becomes news once, with its candidate naming it (sources.py).
NewsFollowInbox == part = "news" => Nw!NewsFollowInbox
\* The archive of a channel has what its pages showed (sync_changes.py).
FeedIsWhole == part = "feed" => Fd!FeedIsWhole
=============================================================================
