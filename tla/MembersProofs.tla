---------------------------- MODULE MembersProofs ----------------------------
(* Each component of Members behaves as it does alone, and the safety           *)
(* properties of Admission, Community, News, Telegram, Reminders and Feed, for  *)
(* every value of their constants: an inductive invariant of the component's    *)
(* specification implies the property, and the specification of Members implies *)
(* that of the component.                                                       *)
EXTENDS Members, FiniteSetTheorems, TLAPS

-----------------------------------------------------------------------------
(* Largest and least members of finite sets of numbers.                       *)

\* A bounded set of numbers that has a member has a largest.
LEMMA SomeLargest ==
    ASSUME NEW S \in SUBSET Nat, NEW b \in Nat, S # {}, \A x \in S : x <= b
    PROVE  \E x \in S : \A y \in S : y <= x
<1> DEFINE Above(x) == (x + 1)..b
           T == {Above(x) : x \in S}
<1>1. T \subseteq FiniteSubsetsOf(0..b) /\ T # {}
  <2>1. \A x \in S : Above(x) \subseteq 0..b
    OBVIOUS
  <2>2. \A x \in S : IsFiniteSet(Above(x))
    BY FS_Interval
  <2>3. QED BY <2>1, <2>2 DEF FiniteSubsetsOf
<1>2. PICK t \in T : \A u \in T : ~ <<u, t>> \in StrictSubsetOrdering(0..b)
  BY <1>1, FS_StrictSubsetOrderingWellFounded, WFMin
<1>3. PICK x \in S : t = Above(x)
  OBVIOUS
<1>4. ASSUME NEW y \in S, x < y
      PROVE  FALSE
  <2>1. Above(y) \subseteq Above(x) /\ y \in Above(x) /\ y \notin Above(y)
    BY <1>4
  <2>2. Above(x) \subseteq 0..b /\ Above(y) \subseteq 0..b
    OBVIOUS
  <2>3. <<Above(y), Above(x)>> \in StrictSubsetOrdering(0..b)
    BY <2>1, <2>2 DEF StrictSubsetOrdering
  <2>4. QED BY <1>2, <1>3, <2>3
<1>5. QED BY <1>4

\* A set of numbers that has a member has a least.
LEMMA SomeLeast ==
    ASSUME NEW S \in SUBSET Nat, S # {}
    PROVE  \E x \in S : \A y \in S : x <= y
<1>1. PICK b \in S : TRUE
  OBVIOUS
<1> DEFINE L == {b - x : x \in {x \in S : x <= b}}
<1>2. L \in SUBSET Nat /\ L # {} /\ b \in Nat /\ \A x \in L : x <= b
  BY <1>1
<1>3. PICK l \in L : \A k \in L : k <= l
  BY <1>2, SomeLargest
<1>4. PICK x \in S : x <= b /\ l = b - x
  BY <1>3
<1>5. \A y \in S : x <= y
  <2>1. \A y \in S : y <= b => b - y <= b - x
    BY <1>3, <1>4
  <2>2. QED BY <1>1, <1>4, <2>1
<1>6. QED BY <1>5

-----------------------------------------------------------------------------
(* The components keep out of each other's way.                               *)

\* A step of one component leaves the variables of the others alone.
LEMMA OthersMove ==
    /\ PointsMoves => UNCHANGED <<communityVars, newsVars, telegramVars, remindersVars, feedVars, admissionVars>>
    /\ NextMembers => PointsMoves \/ UNCHANGED vars
    /\ RemindersMoves => UNCHANGED <<communityVars, newsVars, telegramVars, feedVars, admissionVars>>
    /\ AdmissionMoves => UNCHANGED <<communityVars, newsVars, telegramVars, remindersVars, feedVars>>
    /\ TelegramMoves => UNCHANGED <<communityVars, newsVars, remindersVars, feedVars, admissionVars>>
    /\ CommunityMoves => UNCHANGED <<newsVars, telegramVars, remindersVars, feedVars, admissionVars>>
    /\ NewsMoves => UNCHANGED <<communityVars, telegramVars, remindersVars, feedVars, admissionVars>>
    /\ FeedMoves => UNCHANGED <<communityVars, newsVars, telegramVars, remindersVars, admissionVars>>
<1>1. PointsMoves => Still("points") BY DEF PointsMoves
<1>2. RemindersMoves => Still("reminders") BY DEF RemindersMoves
<1>3. AdmissionMoves => \E p \in {"limits", "logins"} : Still(p) BY DEF AdmissionMoves
<1>4. TelegramMoves => Still("telegram") BY DEF TelegramMoves
<1>5. CommunityMoves => \E p \in {"friends", "polls"} : Still(p) BY DEF CommunityMoves
<1>6. NewsMoves => Still("news") BY DEF NewsMoves
<1>7. FeedMoves => Still("feed") BY DEF FeedMoves
<1>8. QED BY <1>1, <1>2, <1>3, <1>4, <1>5, <1>6, <1>7 DEF Still, NextMembers

-----------------------------------------------------------------------------
(* Points: the ledger.                                                        *)

\* The ledger in Members does what Points allows (add_in_transaction and its
\* callers), so that what PointsProofs proves of Points holds there as well.
THEOREM PointsAlone == MembersSpec => Spec
<1>1. InitMembers => Init BY DEF InitMembers
<1>2. [NextMembers]_membersVars => [Next]_vars
  <2>1. PointsMoves => Next
    BY DEF PointsMoves, Next, LedgerNext, EventNext, ClerkNext
  <2>2. QED BY <2>1, OthersMove DEF membersVars
<1>3. QED BY <1>1, <1>2, PTL DEF MembersSpec, Spec

-----------------------------------------------------------------------------
(* Community: friendships.                                                    *)

\* What happens between members in Members is what Community allows.
THEOREM CommunityAlone == MembersSpec => Co!CommunitySpec
<1>1. InitMembers => Co!InitCommunity BY DEF InitMembers
<1>2. [NextMembers]_membersVars => [Co!NextCommunity]_<<left, Co!friendVars, Co!pollVars>>
  <2>1. CommunityMoves => Co!NextCommunity
    BY DEF CommunityMoves, Co!NextCommunity
  <2>2. UNCHANGED communityVars => UNCHANGED <<left, Co!friendVars, Co!pollVars>>
    BY DEF communityVars, Co!friendVars, Co!pollVars
  <2>3. QED BY <2>1, <2>2, OthersMove DEF NextMembers, membersVars
<1>3. QED BY <1>1, <1>2, PTL DEF MembersSpec, Co!CommunitySpec

FriendRow == [id : Nat, from : Person, to : Person, status : {"pending", "accepted"}]
AskType == {Co!NoAsk} \cup [step : {"admitted"}, to : Person]
                     \cup [step : {"locked"}, to : Person, seen : SUBSET FriendRow]

FriendsType ==
    /\ links \subseteq FriendRow /\ lastLink \in Nat
    /\ asking \in [Person -> AskType]

\* A row is between two members.
Joins(l, a, b) == (l.from = a /\ l.to = b) \/ (l.from = b /\ l.to = a)

\* Whoever holds the lock of a pair has seen every row that is there now.
LockedAsk(a) ==
    LET b == asking[a].to IN
    /\ a # b
    /\ ~(asking[b].step = "locked" /\ asking[b].to = a)
    /\ \A l \in links : Joins(l, a, b) => l \in asking[a].seen
    /\ \A l \in asking[a].seen : Joins(l, a, b)

OneRow == \A l, k \in links : Joins(l, k.from, k.to) => l = k
RowsAsked ==
    \A l \in links :
        /\ l.from # l.to /\ <<l.from, l.to>> \in asked
        /\ l.status = "accepted" => <<l.to, l.from>> \in asked

FriendsInv ==
    /\ FriendsType
    /\ \A a \in Person :
          /\ asking[a].step = "admitted" => asking[a].to # a
          /\ asking[a].step = "locked" => LockedAsk(a)
    /\ OneRow
    /\ RowsAsked

\* Community counts as its instance here does.
LEMMA CountedAlike == \A S : Co!Cardinality(S) = Cardinality(S)
BY DEF Co!Cardinality, Cardinality

\* A row between two members is one that joins them.
LEMMA BetweenJoins ==
    /\ \A a, b, l : l \in Co!Between(a, b) <=> l \in links /\ Joins(l, a, b)
    /\ \A a, b, l : l \in Co!Between(a, b)' <=> l \in links' /\ Joins(l, a, b)
<1>1. \A a, b, c, d : {c, d} = {a, b} <=> (c = a /\ d = b) \/ (c = b /\ d = a)
  OBVIOUS
<1>2. QED BY <1>1 DEF Co!Between, Joins

\* Nobody has asked at first.
LEMMA FriendsInitially == Co!InitCommunity => FriendsInv
BY DEF Co!InitCommunity, FriendsInv, FriendsType, AskType, OneRow, RowsAsked, Co!NoAsk

\* Rows that go, with all that was asked about them, disturb nothing.
LEMMA RowsGo ==
    ASSUME FriendsInv,
           links' \subseteq links, lastLink' = lastLink, asking' = asking,
           \A l \in links' : \A r \in asked : r \in {<<l.from, l.to>>, <<l.to, l.from>>} => r \in asked'
    PROVE  FriendsInv'
BY DEF FriendsInv, FriendsType, LockedAsk, OneRow, RowsAsked, Joins

\* A request that has read its rows is not disturbed by one about another pair.
LEMMA StillLocked ==
    ASSUME FriendsInv, NEW p \in Person, asking[p].step = "locked", asking'[p] = asking[p],
           \A q \in Person : q = asking[p].to /\ asking'[q].step = "locked" /\ asking'[q].to = p
                              => asking'[q] = asking[q],
           \A l \in links' : Joins(l, p, asking[p].to) => l \in links
    PROVE  LockedAsk(p)'
<1>1. asking[p].to \in Person /\ LockedAsk(p)
  BY DEF FriendsInv, FriendsType, AskType, Co!NoAsk
<1>2. asking'[p].to = asking[p].to /\ asking'[p].seen = asking[p].seen
  OBVIOUS
<1>3. \A l \in links' : Joins(l, p, asking[p].to) => l \in asking[p].seen
  BY <1>1 DEF LockedAsk
<1>4. ~(asking'[asking[p].to].step = "locked" /\ asking'[asking[p].to].to = p)
  BY <1>1 DEF LockedAsk
<1>5. QED BY <1>1, <1>2, <1>3, <1>4 DEF LockedAsk

\* A request on its way keeps the rows as they are.
LEMMA AskFriends ==
    ASSUME FriendsInv, NEW a \in Person, NEW b \in Person, Co!Ask(a, b)
    PROVE  FriendsInv'
<1>1. asking' \in [Person -> AskType]
  BY DEF FriendsInv, FriendsType, AskType, Co!Ask
<1>2. \A p \in Person : asking'[p] = IF p = a THEN [step |-> "admitted", to |-> b] ELSE asking[p]
  BY DEF FriendsInv, FriendsType, Co!Ask
<1>3. \A p \in Person : asking'[p].step = "locked" => LockedAsk(p)'
  BY <1>2, StillLocked DEF Co!Ask
<1>4. \A p \in Person : asking'[p].step = "admitted" => asking'[p].to # p
  BY <1>2 DEF Co!Ask, FriendsInv
<1>5. QED BY <1>1, <1>3, <1>4 DEF Co!Ask, FriendsInv, FriendsType, OneRow, RowsAsked

\* A request that has the lock of its pair sees the only row there is.
LEMMA ReadFriends ==
    ASSUME FriendsInv, NEW a \in Person, Co!ReadLinks(a)
    PROVE  FriendsInv'
<1> DEFINE b == asking[a].to
<1>1. b \in Person /\ a # b
  BY DEF FriendsInv, FriendsType, AskType, Co!NoAsk, Co!ReadLinks, Co!LinksSeen
<1>2. /\ Co!Between(a, b) \in SUBSET FriendRow
      /\ \A l : l \in Co!Between(a, b) <=> l \in links /\ Joins(l, a, b)
  BY BetweenJoins DEF FriendsInv, FriendsType
<1>3. /\ asking' \in [Person -> AskType]
      /\ \A p \in Person : asking'[p] = IF p = a THEN [step |-> "locked", to |-> b, seen |-> Co!Between(a, b)]
                                      ELSE asking[p]
  BY <1>1, <1>2 DEF FriendsInv, FriendsType, AskType, Co!ReadLinks, Co!LinksSeen
<1>4. ~(asking[b].step = "locked" /\ asking[b].to = a)
  BY <1>1 DEF Co!ReadLinks, Co!LinksSeen, Co!PairHeld
<1>5. \A p \in Person : asking'[p].step = "locked" => LockedAsk(p)'
  <2>1. LockedAsk(a)'
    BY <1>1, <1>2, <1>3, <1>4 DEF LockedAsk, Co!ReadLinks
  <2>2. ASSUME NEW p \in Person, p # a, asking[p].step = "locked"
        PROVE  LockedAsk(p)'
    BY <1>3, <1>4, <2>2, StillLocked DEF Co!ReadLinks
  <2>3. QED BY <1>3, <2>1, <2>2
<1>6. QED BY <1>3, <1>5 DEF Co!ReadLinks, FriendsInv, FriendsType, OneRow, RowsAsked

\* The rest of a friend request: its pair has no other row than those it has seen,
\* and no other request about the pair has come so far.
LEMMA AnswerFriends ==
    ASSUME FriendsInv, NEW a \in Person, Co!Answer(a)
    PROVE  FriendsInv'
<1> DEFINE b == asking[a].to
           incoming == {l \in asking[a].seen : l.status = "pending" /\ l.from = b}
<1>1. /\ b \in Person /\ a # b /\ asking[a].seen \subseteq FriendRow /\ LockedAsk(a)
      /\ asking[a].step = "locked"
  BY DEF FriendsInv, FriendsType, AskType, Co!NoAsk, Co!Answer, LockedAsk
<1>2. /\ asking' \in [Person -> AskType]
      /\ \A p \in Person : asking'[p] = IF p = a THEN [step |-> "none"] ELSE asking[p]
  BY DEF FriendsInv, FriendsType, AskType, Co!Answer, Co!NoAsk
<1>3. \A p \in Person : asking'[p].step = "admitted" => asking'[p].to # p
  BY <1>2 DEF FriendsInv
<1>4. ASSUME \A l \in links' : l \in links \/ Joins(l, a, b),
             NEW p \in Person, asking'[p].step = "locked"
      PROVE  LockedAsk(p)'
  <2>1. p # a /\ asking[p].step = "locked" /\ asking'[p] = asking[p]
    BY <1>2, <1>4
  <2>2. asking[p].to \in Person /\ LockedAsk(p)
    BY <2>1 DEF FriendsInv, FriendsType, AskType, Co!NoAsk
  <2>3. ~(p = b /\ asking[p].to = a)
    BY <1>1, <2>1, <2>2 DEF LockedAsk
  <2>4. \A l \in links' : Joins(l, p, asking[p].to) => l \in links
    BY <1>4, <2>1, <2>3 DEF Joins
  <2>5. QED BY <1>2, <2>1, <2>4, StillLocked
<1>5. CASE UNCHANGED <<links, lastLink, asked>>
  BY <1>2, <1>3, <1>4, <1>5 DEF FriendsInv, FriendsType, OneRow, RowsAsked
<1>6. ASSUME NEW l \in incoming, l \in links,
             links' = (links \ {l}) \cup {[l EXCEPT !.status = "accepted"]},
             asked' = asked \cup {<<a, b>>}, lastLink' = lastLink
      PROVE  FriendsInv'
  <2> DEFINE k == [l EXCEPT !.status = "accepted"]
  <2>1. /\ k \in FriendRow /\ k.from = b /\ k.to = a /\ l.from = b /\ l.to = a
        /\ links' = (links \ {l}) \cup {k}
    BY <1>1, <1>6 DEF LockedAsk, FriendRow, Joins
  <2> HIDE DEF k
  <2>2. links' \subseteq FriendRow /\ \A j \in links' : j \in links \/ Joins(j, a, b)
    BY <2>1 DEF FriendsInv, FriendsType, Joins
  <2>3. \A j \in links \ {l} : ~Joins(j, a, b)
    BY <1>6, <2>1 DEF FriendsInv, OneRow, Joins
  <2>4. OneRow'
    BY <2>1, <2>3 DEF FriendsInv, OneRow, Joins
  <2>5. RowsAsked'
    BY <1>1, <1>6, <2>1 DEF FriendsInv, RowsAsked
  <2>6. \A p \in Person : asking'[p].step = "locked" => LockedAsk(p)'
    BY <2>2, <1>4
  <2>7. QED BY <1>2, <1>3, <1>6, <2>2, <2>4, <2>5, <2>6 DEF FriendsInv, FriendsType
<1>7. ASSUME asking[a].seen = {}, lastLink' = lastLink + 1,
             links' = links \cup {[id |-> lastLink', from |-> a, to |-> b, status |-> "pending"]},
             asked' = asked \cup {<<a, b>>}
      PROVE  FriendsInv'
  <2> DEFINE k == [id |-> lastLink', from |-> a, to |-> b, status |-> "pending"]
  <2>1. k \in FriendRow /\ lastLink' \in Nat
    BY <1>1, <1>7 DEF FriendsInv, FriendsType, FriendRow
  <2>2. \A l \in links : ~Joins(l, a, b)
    BY <1>1, <1>7 DEF LockedAsk
  <2>3. OneRow' /\ RowsAsked'
    BY <1>1, <1>7, <2>2 DEF FriendsInv, OneRow, RowsAsked, Joins
  <2>4. \A p \in Person : asking'[p].step = "locked" => LockedAsk(p)'
    <3>1. \A j \in links' : j \in links \/ Joins(j, a, b)
      BY <1>7 DEF Joins
    <3>2. QED BY <3>1, <1>4
  <2>5. QED BY <1>2, <1>3, <1>7, <2>1, <2>3, <2>4 DEF FriendsInv, FriendsType
<1>8. QED BY <1>5, <1>6, <1>7 DEF Co!Answer

\* Every step of the friendships keeps a single row to a pair.
LEMMA FriendsNext == FriendsInv /\ [Co!NextCommunity]_<<left, Co!friendVars, Co!pollVars>> => FriendsInv'
<1> SUFFICES ASSUME FriendsInv, [Co!NextCommunity]_<<left, Co!friendVars, Co!pollVars>>
             PROVE  FriendsInv'
  OBVIOUS
<1>1. ASSUME NEW a \in Person, NEW b \in Person, Co!SeeFriend(a, b)
      PROVE  FriendsInv'
  BY <1>1, RowsGo DEF Co!SeeFriend
<1>2. ASSUME NEW a \in Person, NEW b \in Person, Co!RemoveFriend(a, b)
      PROVE  FriendsInv'
  BY <1>2, RowsGo, BetweenJoins DEF Co!RemoveFriend, Joins
<1>3. ASSUME NEW p \in Person, Co!Erase(p)
      PROVE  FriendsInv'
  BY <1>3, RowsGo DEF Co!Erase
<1>4. CASE UNCHANGED Co!friendVars
  BY <1>4, RowsGo DEF Co!friendVars
<1>5. ASSUME NEW q \in Poll, NEW p \in Person, NEW o \in Option,
             Co!CreatePoll(q) \/ Co!LaunchPoll(q) \/ Co!ClosePoll(q) \/ Co!Admit(q, p, o) \/ Co!Vote(q, p, o)
      PROVE  FriendsInv'
  BY <1>4, <1>5 DEF Co!CreatePoll, Co!LaunchPoll, Co!ClosePoll, Co!Transition, Co!Admit, Co!Vote
<1>6. QED BY <1>1, <1>2, <1>3, <1>4, <1>5, AskFriends, ReadFriends, AnswerFriends
    DEF Co!NextCommunity, Co!CreatePoll, Co!LaunchPoll, Co!ClosePoll, Co!Transition

\* Two members have one row, and are friends by it only when both have asked, in
\* every instance: a request reads and writes under the lock of its pair.
THEOREM FriendsKept == MembersSpec => []FriendsAgree
<1>1. FriendsInv => Co!FriendsAgree
  <2> SUFFICES ASSUME FriendsInv, NEW l \in links
               PROVE  /\ Cardinality(Co!Between(l.from, l.to)) = 1
                      /\ l.status = "accepted" => {<<l.from, l.to>>, <<l.to, l.from>>} \subseteq asked
    BY CountedAlike DEF Co!FriendsAgree
  <2>1. Co!Between(l.from, l.to) = {l}
    BY BetweenJoins DEF FriendsInv, OneRow, Joins
  <2>2. QED BY <2>1, FS_Singleton DEF FriendsInv, RowsAsked
<1>2. Co!CommunitySpec => []FriendsInv
  BY FriendsInitially, FriendsNext, PTL DEF Co!CommunitySpec
<1>3. Co!FriendsAgree => FriendsAgree
  BY DEF FriendsAgree
<1>4. QED BY <1>1, <1>2, <1>3, CommunityAlone, PTL

-----------------------------------------------------------------------------
(* Community: polls.                                                          *)

Ballot == Poll \X Person \X Option

PollsType ==
    /\ status \in [Poll -> {"none", "draft", "active", "closed"}]
    /\ votes \subseteq Ballot /\ ballots \subseteq Ballot /\ told \subseteq Ballot
    /\ result \in [Poll -> SUBSET Ballot]

\* Nobody who has left has a vote, so that what erasure takes out of a closed poll
\* is what it takes out of its result.
PollsInv ==
    /\ PollsType
    /\ \A v \in votes : v[2] \notin left
    /\ Co!ResultsStand

\* There are no votes at first.
LEMMA PollsInitially == Co!InitCommunity => PollsInv
BY DEF Co!InitCommunity, PollsInv, PollsType, Co!ResultsStand

\* A poll changes its state only along its life, and keeps its votes.
LEMMA PollMoves ==
    ASSUME PollsInv, NEW q \in Poll, NEW expected, NEW target,
           <<expected, target>> \in {<<"draft", "active">>, <<"active", "closed">>},
           Co!Transition(q, expected, target)
    PROVE  PollsInv'
<1>1. /\ votes' = votes /\ told' = told /\ left' = left /\ ballots' = ballots
      /\ status' = [status EXCEPT ![q] = target] /\ target \in {"active", "closed"}
      /\ result' = IF target = "closed" THEN [result EXCEPT ![q] = {v \in votes : v[1] = q}] ELSE result
  BY DEF Co!Transition
<1>2. PollsType'
  BY <1>1 DEF PollsInv, PollsType
<1>3. ASSUME NEW r \in Poll, status'[r] = "closed"
      PROVE  {v \in votes : v[1] = r} = {v \in result'[r] : v[2] \notin left}
  <2>1. CASE r # q
    BY <1>1, <1>3, <2>1 DEF PollsInv, PollsType, Co!ResultsStand
  <2>2. CASE r = q
    <3>1. result'[r] = {v \in votes : v[1] = r}
      BY <1>1, <1>3, <2>2 DEF PollsInv, PollsType
    <3>2. QED BY <3>1 DEF PollsInv
  <2>3. QED BY <2>1, <2>2
<1>4. QED BY <1>1, <1>2, <1>3 DEF PollsInv, Co!ResultsStand

\* A vote that is written is the member's first in a poll that is active.
LEMMA VotePolls ==
    ASSUME PollsInv, NEW q \in Poll, NEW p \in Person, NEW o \in Option, Co!Vote(q, p, o)
    PROVE  PollsInv'
<1>1. UNCHANGED <<left, status, result>> /\ ballots' \subseteq ballots
  BY DEF Co!Vote
<1>2. CASE UNCHANGED <<votes, told>>
  BY <1>1, <1>2 DEF PollsInv, PollsType, Co!ResultsStand
<1>3. ASSUME p \notin left, status[q] = "active", \A v \in votes : v[1] = q /\ v[2] = p => v = <<q, p, o>>,
             votes' = votes \cup {<<q, p, o>>}, told' = told \cup {<<q, p, o>>}
      PROVE  PollsInv'
  <2>1. PollsType' /\ \A v \in votes' : v[2] \notin left'
    BY <1>1, <1>3 DEF PollsInv, PollsType, Ballot
  <2>2. \A v, w \in votes' : v[1] = w[1] /\ v[2] = w[2] => v = w
    BY <1>3 DEF PollsInv, Co!ResultsStand
  <2>3. ASSUME NEW r \in Poll, status[r] = "closed"
        PROVE  {v \in votes' : v[1] = r} = {v \in result[r] : v[2] \notin left}
    <3>1. r # q
      BY <1>3, <2>3
    <3>2. {v \in votes' : v[1] = r} = {v \in votes : v[1] = r}
      BY <1>3, <3>1
    <3>3. QED BY <2>3, <3>2 DEF PollsInv, Co!ResultsStand
  <2>4. QED BY <1>1, <1>3, <2>1, <2>2, <2>3 DEF PollsInv, Co!ResultsStand
<1>4. QED BY <1>2, <1>3 DEF Co!Vote, Co!MayVote

\* A member who leaves takes the votes along; a closed poll keeps what it was closed with.
LEMMA ErasePolls ==
    ASSUME PollsInv, NEW p \in Person, Co!Erase(p)
    PROVE  PollsInv'
<1>1. /\ left' = left \cup {p} /\ votes' = {v \in votes : v[2] # p}
      /\ UNCHANGED <<status, ballots, told, result>>
  BY DEF Co!Erase
<1>2. ASSUME NEW r \in Poll, status[r] = "closed"
      PROVE  {v \in votes' : v[1] = r} = {v \in result[r] : v[2] \notin left'}
  <2>1. {v \in votes : v[1] = r} = {v \in result[r] : v[2] \notin left}
    BY <1>2 DEF PollsInv, Co!ResultsStand
  <2>2. QED BY <1>1, <2>1
<1>3. QED BY <1>1, <1>2 DEF PollsInv, PollsType, Co!ResultsStand

\* Every step of the polls keeps the votes and the results.
LEMMA PollsNext == PollsInv /\ [Co!NextCommunity]_<<left, Co!friendVars, Co!pollVars>> => PollsInv'
<1> SUFFICES ASSUME PollsInv, [Co!NextCommunity]_<<left, Co!friendVars, Co!pollVars>>
             PROVE  PollsInv'
  OBVIOUS
<1>1. CASE UNCHANGED <<left, Co!pollVars>>
  BY <1>1 DEF Co!pollVars, PollsInv, PollsType, Co!ResultsStand
<1>2. ASSUME NEW a \in Person, NEW b \in Person,
             Co!Ask(a, b) \/ Co!SeeFriend(a, b) \/ Co!RemoveFriend(a, b) \/ Co!ReadLinks(a) \/ Co!Answer(a)
      PROVE  PollsInv'
  BY <1>1, <1>2 DEF Co!Ask, Co!SeeFriend, Co!RemoveFriend, Co!ReadLinks, Co!Answer, Co!pollVars
<1>3. ASSUME NEW q \in Poll, Co!CreatePoll(q)
      PROVE  PollsInv'
  BY <1>3 DEF Co!CreatePoll, PollsInv, PollsType, Co!ResultsStand
<1>4. ASSUME NEW q \in Poll, Co!LaunchPoll(q) \/ Co!ClosePoll(q)
      PROVE  PollsInv'
  BY <1>4, PollMoves DEF Co!LaunchPoll, Co!ClosePoll
<1>5. ASSUME NEW q \in Poll, NEW p \in Person, NEW o \in Option, Co!Admit(q, p, o)
      PROVE  PollsInv'
  BY <1>5 DEF Co!Admit, PollsInv, PollsType, Co!ResultsStand, Ballot
<1>6. QED BY <1>1, <1>2, <1>3, <1>4, <1>5, VotePolls, ErasePolls DEF Co!NextCommunity, Co!pollVars

\* A confirmed vote stays and a closed poll keeps its result, in every instance:
\* a vote reads its poll again under the lock that closing takes.
THEOREM ResultsKept == MembersSpec => []ResultsStand
<1>1. Co!CommunitySpec => []PollsInv
  BY PollsInitially, PollsNext, PTL DEF Co!CommunitySpec
<1>2. PollsInv => ResultsStand
  BY DEF PollsInv, ResultsStand
<1>3. QED BY <1>1, <1>2, CommunityAlone, PTL

-----------------------------------------------------------------------------
(* News.                                                                      *)

\* What happens to news in Members is what News allows.
THEOREM NewsAlone == MembersSpec => Nw!NewsSpec
<1>1. InitMembers => Nw!InitNews BY DEF InitMembers
<1>2. [NextMembers]_membersVars => [Nw!NextNews]_(Nw!newsVars)
  <2>1. NewsMoves => Nw!NextNews
    BY DEF NewsMoves, Nw!NextNews
  <2>2. UNCHANGED newsVars => UNCHANGED Nw!newsVars
    BY DEF newsVars, Nw!newsVars
  <2>3. QED BY <2>1, <2>2, OthersMove DEF NextMembers, membersVars
<1>3. QED BY <1>1, <1>2, PTL DEF MembersSpec, Nw!NewsSpec

NewsType ==
    /\ inbox \in [Url -> [state : {"absent", "new", "dismissed", "imported"}, sources : SUBSET Source, news : Nat]]
    /\ news \subseteq [id : Nat \ {0}, url : Url] /\ created \in Nat
    /\ refresh \in [Source -> [step : {"idle", "items", "save"}, left : SUBSET Url, url : Url \cup {0}]]
    /\ import \in [Clerk -> [step : {"idle", "found"}, url : Url \cup {0}, found : Nat]]
    /\ merged \in [Url -> SUBSET Source]

\* Numbers of news are not used again, so that a number names one publication.
NewsNumbered ==
    /\ \A n \in news : n.id <= created
    /\ \A n, k \in news : n.id = k.id => n = k

\* A refresh that has found a candidate, and candidates nobody has found.
CandidatesFound ==
    /\ \A s \in Source : refresh[s].step = "save" => refresh[s].url \in Url /\ Nw!Exists(refresh[s].url)
    /\ \A u \in Url : ~Nw!Exists(u) => merged[u] = {}

\* An import holds the row of its candidate alone, and the news it has found are
\* of its address or gone; if it has found none there are none.
ImportsApart ==
    /\ \A c, d \in Clerk :
          import[c].step = "found" /\ import[d].step = "found" /\ import[c].url = import[d].url => c = d
    /\ \A c \in Clerk : import[c].step = "found" =>
          /\ import[c].url \in Url /\ Nw!Exists(import[c].url) /\ import[c].found <= created
          /\ IF import[c].found = 0 THEN \A n \in news : n.url # import[c].url
             ELSE \A n \in news : n.id = import[c].found => n.url = import[c].url

NewsInv == NewsType /\ NewsNumbered /\ CandidatesFound /\ ImportsApart /\ Nw!NewsFollowInbox

\* There is no candidate at first.
LEMMA NewsInitially == Nw!InitNews => NewsInv
BY DEF Nw!InitNews, Nw!Absent, Nw!None, Nw!NoRefresh, Nw!NoImport, Nw!Exists, NewsInv, NewsType,
    NewsNumbered, CandidatesFound, ImportsApart, Nw!NewsFollowInbox

\* A refresh alone: candidates, news and imports stay as they are.
LEMMA RefreshNews ==
    ASSUME NewsInv, UNCHANGED <<inbox, news, import, merged, created>>,
           refresh' \in [Source -> [step : {"idle", "items", "save"}, left : SUBSET Url, url : Url \cup {0}]],
           \A s \in Source : refresh'[s].step = "save" => refresh'[s].url \in Url /\ Nw!Exists(refresh'[s].url)
    PROVE  NewsInv'
BY DEF NewsInv, NewsType, NewsNumbered, CandidatesFound, ImportsApart, Nw!NewsFollowInbox, Nw!NewsOf, Nw!Exists

\* A source that is read makes no candidate yet.
LEMMA FetchNews ==
    ASSUME NewsInv, NEW s \in Source, NEW listed \in SUBSET Url, Nw!Fetch(s, listed)
    PROVE  NewsInv'
BY RefreshNews DEF Nw!Fetch, Nw!NoRefresh, Nw!None, NewsInv, NewsType, CandidatesFound

\* A refresh that fails leaves what it has saved.
LEMMA FailNews ==
    ASSUME NewsInv, NEW s \in Source, Nw!RefreshFails(s)
    PROVE  NewsInv'
BY RefreshNews DEF Nw!RefreshFails, Nw!NoRefresh, Nw!None, NewsInv, NewsType, CandidatesFound

\* A candidate that is found is locked, if an import does not hold it.
LEMMA FindNews ==
    ASSUME NewsInv, NEW s \in Source, NEW u \in Url, Nw!FindCandidate(s, u)
    PROVE  NewsInv'
<1>1. refresh' = [refresh EXCEPT ![s].step = "save", ![s].url = u] /\ Nw!Exists(u)
  BY DEF Nw!FindCandidate
<1> DEFINE r == [refresh[s] EXCEPT !.step = "save", !.url = u]
<1>2. /\ refresh' = [refresh EXCEPT ![s] = r]
      /\ r \in [step : {"save"}, left : SUBSET Url, url : Url] /\ r.url = u
  BY <1>1, ZenonT(30) DEF NewsInv, NewsType
<1> HIDE DEF r
<1>3. refresh' \in [Source -> [step : {"idle", "items", "save"}, left : SUBSET Url, url : Url \cup {0}]]
  BY <1>2 DEF NewsInv, NewsType
<1>4. \A t \in Source : refresh'[t].step = "save" => refresh'[t].url \in Url /\ Nw!Exists(refresh'[t].url)
  BY <1>1, <1>2 DEF NewsInv, NewsType, CandidatesFound
<1>5. QED BY <1>3, <1>4, RefreshNews DEF Nw!FindCandidate

\* A source that is added to a candidate, new or not, whose row nobody imports.
LEMMA MergeNews ==
    ASSUME NewsInv, NEW s \in Source, NEW u \in Url, NEW c, refresh' = Nw!Done(s, u),
           c = IF Nw!Exists(u) THEN [inbox[u] EXCEPT !.sources = @ \cup {s}] ELSE Nw!Candidate({s}),
           inbox' = [inbox EXCEPT ![u] = c], merged' = [merged EXCEPT ![u] = @ \cup {s}],
           UNCHANGED <<news, import, created>>
    PROVE  NewsInv'
<1>1. /\ c \in [state : {"new", "dismissed", "imported"}, sources : SUBSET Source, news : Nat]
      /\ merged[u] \cup {s} \subseteq c.sources
      /\ c.news # 0 => c.state = "imported" /\ c.news = inbox[u].news
      /\ Nw!Exists(u) => c.state = inbox[u].state /\ c.news = inbox[u].news
  <2>1. CASE Nw!Exists(u)
    <3>1. /\ inbox[u] \in [state : {"absent", "new", "dismissed", "imported"}, sources : SUBSET Source, news : Nat]
          /\ inbox[u].state # "absent" /\ merged[u] \subseteq inbox[u].sources
          /\ inbox[u].news # 0 => inbox[u].state = "imported"
      BY <2>1 DEF NewsInv, NewsType, Nw!NewsFollowInbox, Nw!Exists, Nw!None
    <3>2. c = [state |-> inbox[u].state, sources |-> inbox[u].sources \cup {s}, news |-> inbox[u].news]
      BY <2>1, <3>1
    <3>3. QED BY <3>1, <3>2, SMTT(30)
  <2>2. CASE ~Nw!Exists(u)
    BY <2>2 DEF NewsInv, CandidatesFound, Nw!Candidate, Nw!None
  <2>3. QED BY <2>1, <2>2
<1>2. NewsType'
  <2> DEFINE r == [refresh[s] EXCEPT !.step = "items", !.left = @ \ {u}, !.url = 0]
  <2>1. refresh' = [refresh EXCEPT ![s] = r] /\ r \in [step : {"items"}, left : SUBSET Url, url : {0}]
    BY ZenonT(30) DEF NewsInv, NewsType, Nw!Done, Nw!None
  <2> HIDE DEF r
  <2>2. refresh' \in [Source -> [step : {"idle", "items", "save"}, left : SUBSET Url, url : Url \cup {0}]]
    BY <2>1 DEF NewsInv, NewsType
  <2>3. inbox' \in [Url -> [state : {"absent", "new", "dismissed", "imported"}, sources : SUBSET Source, news : Nat]]
    BY <1>1 DEF NewsInv, NewsType
  <2>4. merged' \in [Url -> SUBSET Source]
    BY DEF NewsInv, NewsType
  <2>5. QED BY <2>2, <2>3, <2>4 DEF NewsInv, NewsType
<1>3. inbox'[u] = c /\ \A w \in Url \ {u} : inbox'[w] = inbox[w] /\ merged'[w] = merged[w]
  BY DEF NewsInv, NewsType
<1>4. \A w \in Url : Nw!Exists(w) => Nw!Exists(w)'
  BY <1>1, <1>3 DEF Nw!Exists
<1>5. CandidatesFound'
  <2>1. \A t \in Source : refresh'[t].step = "save" => refresh'[t].url \in Url /\ Nw!Exists(refresh[t].url)'
    <3>1. \A t \in Source : refresh'[t].step = "save" => refresh'[t] = refresh[t]
      BY DEF NewsInv, NewsType, Nw!Done
    <3>2. QED BY <3>1, <1>4 DEF NewsInv, CandidatesFound, Nw!Exists
  <2>2. \A t \in Source : refresh'[t].step = "save" => refresh'[t] = refresh[t]
    BY DEF NewsInv, NewsType, Nw!Done
  <2>3. \A w \in Url : ~Nw!Exists(w)' => merged'[w] = {}
    BY <1>1, <1>3, <1>4 DEF NewsInv, CandidatesFound, Nw!Exists
  <2>4. QED BY <2>1, <2>2, <2>3 DEF CandidatesFound, Nw!Exists
<1>6. ImportsApart'
  BY <1>4 DEF NewsInv, ImportsApart, Nw!Exists
<1>7. Nw!NewsFollowInbox'
  BY <1>1, <1>3 DEF NewsInv, NewsType, Nw!NewsFollowInbox, Nw!None
<1>8. QED BY <1>2, <1>5, <1>6, <1>7 DEF NewsInv, NewsNumbered

\* A candidate is made for an address that has none.
LEMMA CreateNews ==
    ASSUME NewsInv, NEW s \in Source, NEW u \in Url, Nw!CreateCandidate(s, u)
    PROVE  NewsInv'
BY MergeNews DEF Nw!CreateCandidate

\* A candidate gains a source when its row is saved.
LEMMA SaveNews ==
    ASSUME NewsInv, NEW s \in Source, Nw!SaveCandidate(s)
    PROVE  NewsInv'
<1> DEFINE u == refresh[s].url
<1>1. u \in Url /\ Nw!Exists(u)
  BY DEF Nw!SaveCandidate, NewsInv, CandidatesFound
<1>2. inbox' = [inbox EXCEPT ![u] = [inbox[u] EXCEPT !.sources = @ \cup {s}]]
  BY DEF Nw!SaveCandidate
<1>3. QED BY <1>1, <1>2, MergeNews DEF Nw!SaveCandidate

\* The state of candidates and the news they name change, or news go.
LEMMA InboxNews ==
    ASSUME NewsInv, UNCHANGED <<import, merged, created>>, news' \subseteq news,
           inbox' \in [Url -> [state : {"absent", "new", "dismissed", "imported"}, sources : SUBSET Source, news : Nat]],
           \A u \in Url :
              /\ inbox'[u].sources = inbox[u].sources
              /\ inbox'[u].state = "absent" <=> inbox[u].state = "absent"
              /\ inbox'[u].news # 0 => inbox'[u].state = "imported" /\ [id |-> inbox'[u].news, url |-> u] \in news',
           refresh' \in [Source -> [step : {"idle", "items", "save"}, left : SUBSET Url, url : Url \cup {0}]],
           \A s \in Source : refresh'[s].step = "save" => refresh'[s] = refresh[s]
    PROVE  NewsInv'
<1>1. NewsType' /\ NewsNumbered'
  BY DEF NewsInv, NewsType, NewsNumbered
<1>2. CandidatesFound'
  <2>1. ASSUME NEW s \in Source, refresh'[s].step = "save"
        PROVE  refresh'[s].url \in Url /\ inbox'[refresh'[s].url].state # "absent"
    <3>1. refresh[s].url \in Url /\ inbox[refresh[s].url].state # "absent"
      BY <2>1 DEF NewsInv, CandidatesFound, Nw!Exists
    <3>2. QED BY <2>1, <3>1
  <2>2. \A u \in Url : inbox'[u].state = "absent" => merged'[u] = {}
    BY DEF NewsInv, CandidatesFound, Nw!Exists
  <2>3. QED BY <2>1, <2>2 DEF CandidatesFound, Nw!Exists
<1>3. ImportsApart'
  <2>1. ASSUME NEW c \in Clerk, import[c].step = "found"
        PROVE  /\ import[c].url \in Url /\ inbox'[import[c].url].state # "absent" /\ import[c].found <= created
               /\ IF import[c].found = 0 THEN \A n \in news' : n.url # import[c].url
                  ELSE \A n \in news' : n.id = import[c].found => n.url = import[c].url
    <3>1. /\ import[c].url \in Url /\ inbox[import[c].url].state # "absent" /\ import[c].found <= created
          /\ IF import[c].found = 0 THEN \A n \in news : n.url # import[c].url
             ELSE \A n \in news : n.id = import[c].found => n.url = import[c].url
      BY <2>1 DEF NewsInv, ImportsApart, Nw!Exists
    <3>2. CASE import[c].found = 0
      BY <3>1, <3>2
    <3>3. CASE import[c].found # 0
      BY <3>1, <3>3
    <3>4. QED BY <3>2, <3>3
  <2>2. QED BY <2>1 DEF NewsInv, ImportsApart, Nw!Exists
<1>4. Nw!NewsFollowInbox'
  BY DEF NewsInv, Nw!NewsFollowInbox, Nw!None
<1>5. QED BY <1>1, <1>2, <1>3, <1>4 DEF NewsInv

\* News that were there before are linked to their candidates.
LEMMA LinkNews ==
    ASSUME NewsInv, NEW s \in Source, Nw!Link(s)
    PROVE  NewsInv'
<1>1. ASSUME NEW u \in Url
      PROVE  /\ inbox'[u] \in [state : {"absent", "new", "dismissed", "imported"}, sources : SUBSET Source, news : Nat]
             /\ inbox'[u].sources = inbox[u].sources
             /\ inbox'[u].state = "absent" <=> inbox[u].state = "absent"
             /\ inbox'[u].news # 0 => inbox'[u].state = "imported" /\ [id |-> inbox'[u].news, url |-> u] \in news
  <2>1. inbox[u] \in [state : {"absent", "new", "dismissed", "imported"}, sources : SUBSET Source, news : Nat]
    BY DEF NewsInv, NewsType
  <2>2. CASE inbox[u].state = "new" /\ Nw!NewsOf(u) # {}
    <3>1. PICK n \in Nw!NewsOf(u) :
             inbox'[u] = [inbox[u] EXCEPT !.state = "imported", !.news = n.id]
      BY <2>2 DEF Nw!Link
    <3>2. n \in news /\ n \in [id : Nat \ {0}, url : Url] /\ n.url = u
      BY DEF NewsInv, NewsType, Nw!NewsOf
    <3>3. n = [id |-> n.id, url |-> u]
      BY <3>2
    <3>4. inbox'[u] = [state |-> "imported", sources |-> inbox[u].sources, news |-> n.id]
      BY <2>1, <3>1
    <3>5. QED BY <2>1, <2>2, <3>2, <3>3, <3>4
  <2>3. CASE ~(inbox[u].state = "new" /\ Nw!NewsOf(u) # {})
    <3>1. inbox'[u] = inbox[u]
      BY <2>3 DEF Nw!Link
    <3>2. QED BY <2>1, <3>1 DEF NewsInv, Nw!NewsFollowInbox, Nw!None
  <2>4. QED BY <2>2, <2>3
<1>2. inbox' \in [Url -> [state : {"absent", "new", "dismissed", "imported"}, sources : SUBSET Source, news : Nat]]
  <2>1. inbox' = [u \in Url |-> inbox'[u]]
    BY DEF Nw!Link
  <2>2. QED BY <2>1, <1>1
<1>3. refresh' = [refresh EXCEPT ![s] = Nw!NoRefresh]
  BY DEF Nw!Link
<1>4. /\ refresh' \in [Source -> [step : {"idle", "items", "save"}, left : SUBSET Url, url : Url \cup {0}]]
      /\ \A t \in Source : refresh'[t].step = "save" => refresh'[t] = refresh[t]
  BY <1>3 DEF NewsInv, NewsType, Nw!NoRefresh, Nw!None
<1>5. UNCHANGED <<import, merged, created, news>>
  BY DEF Nw!Link
<1>6. QED BY <1>1, <1>2, <1>4, <1>5, InboxNews

\* An editor dismisses a candidate or brings it back.
LEMMA StateNews ==
    ASSUME NewsInv, NEW u \in Url, NEW state \in {"new", "dismissed"}, Nw!SetState(u, state)
    PROVE  NewsInv'
<1>1. /\ inbox[u] \in [state : {"absent", "new", "dismissed", "imported"}, sources : SUBSET Source, news : Nat]
      /\ inbox[u].state \in {"new", "dismissed"} /\ inbox[u].news = 0
  BY DEF NewsInv, NewsType, Nw!NewsFollowInbox, Nw!SetState, Nw!None
<1> DEFINE c == [state |-> state, sources |-> inbox[u].sources, news |-> 0]
<1>2. inbox' = [inbox EXCEPT ![u] = c]
  <2>1. [inbox[u] EXCEPT !.state = state] = c
    BY <1>1
  <2>2. QED BY <2>1 DEF Nw!SetState
<1>3. \A w \in Url : inbox'[w] = IF w = u THEN c ELSE inbox[w]
  BY <1>2 DEF NewsInv, NewsType
<1>4. inbox' \in [Url -> [state : {"absent", "new", "dismissed", "imported"}, sources : SUBSET Source, news : Nat]]
  BY <1>1, <1>2 DEF NewsInv, NewsType
<1>5. \A w \in Url :
         /\ inbox'[w].sources = inbox[w].sources
         /\ inbox'[w].state = "absent" <=> inbox[w].state = "absent"
         /\ inbox'[w].news # 0 => inbox'[w].state = "imported" /\ [id |-> inbox'[w].news, url |-> w] \in news
  BY <1>1, <1>3 DEF NewsInv, Nw!NewsFollowInbox, Nw!None
<1>6. QED BY <1>4, <1>5, InboxNews DEF Nw!SetState, NewsInv, NewsType

\* News that are deleted are named by no candidate.
LEMMA DeleteNewsOf ==
    ASSUME NewsInv, NEW n \in news, Nw!DeleteNews(n)
    PROVE  NewsInv'
<1>1. ASSUME NEW u \in Url
      PROVE  /\ inbox'[u] \in [state : {"absent", "new", "dismissed", "imported"}, sources : SUBSET Source, news : Nat]
             /\ inbox'[u].sources = inbox[u].sources
             /\ inbox'[u].state = "absent" <=> inbox[u].state = "absent"
             /\ inbox'[u].news # 0 => inbox'[u].state = "imported" /\ [id |-> inbox'[u].news, url |-> u] \in news'
  <2>1. inbox[u] \in [state : {"absent", "new", "dismissed", "imported"}, sources : SUBSET Source, news : Nat]
    BY DEF NewsInv, NewsType
  <2>2. CASE inbox[u].news = n.id
    <3>1. inbox'[u] = [state |-> inbox[u].state, sources |-> inbox[u].sources, news |-> 0]
      BY <2>1, <2>2 DEF Nw!DeleteNews, Nw!None
    <3>2. QED BY <2>1, <3>1
  <2>3. CASE inbox[u].news # n.id
    <3>1. inbox'[u] = inbox[u]
      BY <2>3 DEF Nw!DeleteNews
    <3>2. inbox[u].news # 0 => [id |-> inbox[u].news, url |-> u] \in news \ {n}
      BY <2>3 DEF NewsInv, Nw!NewsFollowInbox, Nw!None
    <3>3. QED BY <2>1, <3>1, <3>2 DEF NewsInv, Nw!NewsFollowInbox, Nw!None, Nw!DeleteNews
  <2>4. QED BY <2>2, <2>3
<1>2. inbox' \in [Url -> [state : {"absent", "new", "dismissed", "imported"}, sources : SUBSET Source, news : Nat]]
  <2>1. inbox' = [u \in Url |-> inbox'[u]]
    BY DEF Nw!DeleteNews
  <2>2. QED BY <2>1, <1>1
<1>3. QED BY <1>1, <1>2, InboxNews DEF Nw!DeleteNews, NewsInv, NewsType

\* An import takes the row of its candidate.
LEMMA ImportFindNews ==
    ASSUME NewsInv, NEW c \in Clerk, NEW u \in Url, Nw!ImportFind(c, u)
    PROVE  NewsInv'
<1>1. PICK i : /\ i \in [step : {"found"}, url : {u}, found : Nat] /\ i.found <= created
               /\ IF i.found = 0 THEN \A n \in news : n.url # u
                  ELSE \A n \in news : n.id = i.found => n.url = u
               /\ import' = [import EXCEPT ![c] = i]
  <2>1. CASE Nw!NewsOf(u) = {}
    <3>1. import' = [import EXCEPT ![c] = [step |-> "found", url |-> u, found |-> 0]]
      BY <2>1 DEF Nw!ImportFind, Nw!None
    <3>2. \A n \in news : n.url # u
      BY <2>1 DEF Nw!NewsOf
    <3>3. created \in Nat
      BY DEF NewsInv, NewsType
    <3>4. WITNESS [step |-> "found", url |-> u, found |-> 0]
    <3>5. QED BY <3>1, <3>2, <3>3
  <2>2. CASE Nw!NewsOf(u) # {}
    <3>1. PICK n \in Nw!NewsOf(u) :
             import' = [import EXCEPT ![c] = [step |-> "found", url |-> u, found |-> n.id]]
      BY <2>2 DEF Nw!ImportFind
    <3>2. n \in news /\ n.url = u /\ n.id \in Nat \ {0}
      BY DEF Nw!NewsOf, NewsInv, NewsType
    <3>3. QED BY <3>1, <3>2 DEF NewsInv, NewsNumbered
  <2>3. QED BY <2>1, <2>2
<1>2. Nw!Exists(u) /\ \A d \in Clerk : ~(import[d].step = "found" /\ import[d].url = u)
  BY DEF Nw!ImportFind, Nw!Unlocked, Nw!Locked
<1>3. NewsType'
  BY <1>1 DEF Nw!ImportFind, NewsInv, NewsType
<1>4. ImportsApart'
  <2>1. \A d \in Clerk : import'[d] = IF d = c THEN i ELSE import[d]
    BY <1>1 DEF NewsInv, NewsType
  <2>2. \A d, e \in Clerk : import'[d].step = "found" /\ import'[e].step = "found" /\ import'[d].url = import'[e].url => d = e
    BY <1>1, <1>2, <2>1 DEF NewsInv, ImportsApart
  <2>3. ASSUME NEW d \in Clerk, import'[d].step = "found"
        PROVE  /\ import'[d].url \in Url /\ Nw!Exists(import[d].url)' /\ import'[d].found <= created
               /\ IF import'[d].found = 0 THEN \A n \in news : n.url # import'[d].url
                  ELSE \A n \in news : n.id = import'[d].found => n.url = import'[d].url
    <3>1. CASE d = c
      BY <1>1, <1>2, <2>1, <3>1 DEF Nw!Exists, Nw!ImportFind
    <3>2. CASE d # c
      BY <2>1, <2>3, <3>2 DEF NewsInv, ImportsApart, Nw!Exists, Nw!ImportFind
    <3>3. QED BY <3>1, <3>2
  <2>4. QED BY <2>2, <2>3 DEF ImportsApart, Nw!ImportFind
<1>5. QED BY <1>3, <1>4 DEF Nw!ImportFind, NewsInv, NewsNumbered, CandidatesFound, Nw!NewsFollowInbox, Nw!Exists

\* An import that fails leaves everything as it was.
LEMMA ImportFailsNews ==
    ASSUME NewsInv, NEW c \in Clerk, Nw!ImportFails(c)
    PROVE  NewsInv'
<1>1. \A d \in Clerk : import'[d].step = "found" => d # c /\ import'[d] = import[d]
  BY DEF Nw!ImportFails, Nw!NoImport, NewsInv, NewsType
<1>2. NewsType'
  BY DEF Nw!ImportFails, Nw!NoImport, Nw!None, NewsInv, NewsType
<1>3. ImportsApart'
  BY <1>1 DEF Nw!ImportFails, NewsInv, ImportsApart, Nw!Exists
<1>4. QED BY <1>2, <1>3 DEF Nw!ImportFails, NewsInv, NewsNumbered, CandidatesFound, Nw!NewsFollowInbox, Nw!Exists

\* An import that has found no news makes the only ones of its address, under a
\* new number; one that has found some names them if they are still there.
LEMMA ImportCommitNews ==
    ASSUME NewsInv, NEW c \in Clerk, Nw!ImportCommit(c)
    PROVE  NewsInv'
<1> DEFINE u == import[c].url
           id == IF import[c].found = 0 THEN created + 1 ELSE import[c].found
           i == [state |-> "imported", sources |-> inbox[u].sources, news |-> id]
<1>1. /\ u \in Url /\ Nw!Exists(u) /\ import[c].found \in Nat /\ import[c].found <= created
      /\ created \in Nat /\ id \in Nat \ {0} /\ import[c].step = "found"
      /\ inbox[u] \in [state : {"absent", "new", "dismissed", "imported"}, sources : SUBSET Source, news : Nat]
  BY DEF Nw!ImportCommit, NewsInv, NewsType, ImportsApart
<1>2. inbox' = [inbox EXCEPT ![u] = i]
  <2>1. /\ inbox' = [inbox EXCEPT ![u] = [inbox[u] EXCEPT !.state = "imported", !.news = id]]
        /\ u \in DOMAIN inbox
    BY <1>1 DEF Nw!ImportCommit, Nw!None, NewsInv, NewsType
  <2>2. /\ inbox'[u] = [inbox[u] EXCEPT !.state = "imported", !.news = id]
        /\ inbox' = [inbox EXCEPT ![u] = inbox'[u]]
    BY <2>1
  <2>3. inbox'[u] = i
    BY <1>1, <2>2
  <2>4. QED BY <2>2, <2>3
<1>3. /\ \A w \in Url : inbox'[w] = IF w = u THEN i ELSE inbox[w]
      /\ \A d \in Clerk : import'[d] = IF d = c THEN Nw!NoImport ELSE import[d]
      /\ UNCHANGED <<refresh, merged>>
  BY <1>2 DEF Nw!ImportCommit, NewsInv, NewsType
<1>4. /\ created' \in Nat /\ created <= created'
      /\ \A n \in news' : n.id <= created'
      /\ \A n, k \in news' : n.id = k.id \/ n.url = k.url => n = k
      /\ [id |-> id, url |-> u] \in news' /\ news \subseteq news'
      /\ news' \subseteq [id : Nat \ {0}, url : Url]
      /\ \A n \in news' : n \in news \/ (n.url = u /\ n.id > created)
  <2>1. CASE import[c].found = 0
    <3>1. news' = news \cup {[id |-> created + 1, url |-> u]} /\ created' = created + 1
      BY <2>1 DEF Nw!ImportCommit, Nw!None
    <3>2. \A n \in news : n.url # u /\ n.id <= created /\ n.id \in Nat
      BY <1>1, <2>1 DEF NewsInv, NewsType, NewsNumbered, ImportsApart
    <3>3. QED BY <1>1, <2>1, <3>1, <3>2 DEF NewsInv, NewsType, NewsNumbered, Nw!NewsFollowInbox
  <2>2. CASE import[c].found # 0
    <3>1. news' = news /\ created' = created /\ \E n \in news : n.id = id
      BY <2>2 DEF Nw!ImportCommit, Nw!None
    <3>2. PICK n \in news : n.id = id
      BY <3>1
    <3>3. n.url = u /\ n \in [id : Nat \ {0}, url : Url]
      BY <1>1, <2>2, <3>2 DEF NewsInv, NewsType, ImportsApart
    <3>4. n = [id |-> id, url |-> u]
      BY <3>2, <3>3
    <3>5. QED BY <1>1, <2>2, <3>1, <3>4 DEF NewsInv, NewsType, NewsNumbered, Nw!NewsFollowInbox
  <2>3. QED BY <2>1, <2>2
<1> HIDE DEF u, id
<1>5. NewsType'
  <2>1. i \in [state : {"absent", "new", "dismissed", "imported"}, sources : SUBSET Source, news : Nat]
    BY <1>1
  <2> HIDE DEF i
  <2>2. inbox' \in [Url -> [state : {"absent", "new", "dismissed", "imported"}, sources : SUBSET Source, news : Nat]]
    BY <1>2, <2>1 DEF NewsInv, NewsType
  <2>3. import' \in [Clerk -> [step : {"idle", "found"}, url : Url \cup {0}, found : Nat]]
    BY DEF Nw!ImportCommit, Nw!NoImport, Nw!None, NewsInv, NewsType
  <2>4. QED BY <1>3, <1>4, <2>2, <2>3 DEF NewsInv, NewsType
<1>6. ImportsApart'
  <2>1. ASSUME NEW d \in Clerk, import'[d].step = "found"
        PROVE  /\ import'[d].url \in Url /\ inbox'[import'[d].url].state # "absent" /\ import'[d].found <= created'
               /\ IF import'[d].found = 0 THEN \A n \in news' : n.url # import'[d].url
                  ELSE \A n \in news' : n.id = import'[d].found => n.url = import'[d].url
    <3>1. d # c /\ import'[d] = import[d]
      BY <1>3, <2>1 DEF Nw!NoImport
    <3>2. import[d].url # u
      BY <1>1, <2>1, <3>1 DEF NewsInv, ImportsApart, u
    <3>3. /\ import[d].url \in Url /\ inbox[import[d].url].state # "absent"
          /\ import[d].found <= created /\ import[d].found \in Nat
      BY <2>1, <3>1 DEF NewsInv, NewsType, ImportsApart, Nw!Exists
    <3>4. import[d].found = 0 => \A n \in news' : n.url # import[d].url
      BY <1>4, <2>1, <3>1, <3>2 DEF NewsInv, ImportsApart
    <3>5. import[d].found # 0 => \A n \in news' : n.id = import[d].found => n.url = import[d].url
      <4>1. \A n \in news : import[d].found # 0 /\ n.id = import[d].found => n.url = import[d].url
        BY <2>1, <3>1 DEF NewsInv, ImportsApart
      <4>2. QED BY <1>1, <1>4, <3>3, <4>1
    <3>6. inbox'[import[d].url].state # "absent"
      BY <1>3, <3>2, <3>3
    <3>7. QED BY <1>1, <1>4, <3>1, <3>3, <3>4, <3>5, <3>6
  <2>2. \A d, e \in Clerk : import'[d].step = "found" /\ import'[e].step = "found" /\ import'[d].url = import'[e].url => d = e
    BY <1>3 DEF Nw!NoImport, NewsInv, ImportsApart
  <2>3. QED BY <2>1, <2>2 DEF ImportsApart, Nw!Exists
<1>7. CandidatesFound'
  <2>1. \A w \in Url : inbox'[w].state = "absent" => inbox[w].state = "absent"
    BY <1>3
  <2>2. QED BY <1>3, <2>1 DEF NewsInv, CandidatesFound, Nw!Exists
<1>8. Nw!NewsFollowInbox'
  <2>1. ASSUME NEW w \in Url
        PROVE  /\ inbox'[w].news # 0 => inbox'[w].state = "imported" /\ [id |-> inbox'[w].news, url |-> w] \in news'
               /\ merged'[w] \subseteq inbox'[w].sources
    <3>1. /\ inbox[w].news # 0 => inbox[w].state = "imported" /\ [id |-> inbox[w].news, url |-> w] \in news
          /\ merged[w] \subseteq inbox[w].sources
      BY DEF NewsInv, Nw!NewsFollowInbox, Nw!None
    <3>2. CASE w = u
      BY <1>3, <1>4, <3>1, <3>2
    <3>3. CASE w # u
      BY <1>3, <1>4, <3>1, <3>3
    <3>4. QED BY <3>2, <3>3
  <2>2. QED BY <1>4, <2>1 DEF Nw!NewsFollowInbox, Nw!None
<1>9. QED BY <1>4, <1>5, <1>6, <1>7, <1>8 DEF NewsInv, NewsNumbered

\* Every step of the news keeps candidates and news together.
LEMMA NewsNext == NewsInv /\ [Nw!NextNews]_(Nw!newsVars) => NewsInv'
<1>1. NewsInv /\ UNCHANGED Nw!newsVars => NewsInv'
  BY DEF Nw!newsVars, NewsInv, NewsType, NewsNumbered, CandidatesFound, ImportsApart, Nw!NewsFollowInbox, Nw!Exists
<1>2. QED BY <1>1, FetchNews, FailNews, FindNews, CreateNews, SaveNews, LinkNews, StateNews, DeleteNewsOf,
             ImportFindNews, ImportCommitNews, ImportFailsNews DEF Nw!NextNews

\* A publication becomes news once and its candidate follows it, in every
\* instance: nothing but the locked candidate stands between two imports.
THEOREM NewsKept == MembersSpec => []NewsFollowInbox
<1>1. Nw!NewsSpec => []NewsInv
  BY NewsInitially, NewsNext, PTL DEF Nw!NewsSpec
<1>2. NewsInv => NewsFollowInbox
  BY DEF NewsInv, NewsFollowInbox
<1>3. QED BY <1>1, <1>2, NewsAlone, PTL

-----------------------------------------------------------------------------
(* Telegram: updates, the offset that confirms them, and reactions.           *)

\* The bot in Members does what Telegram allows.
THEOREM TelegramAlone == MembersSpec => Tg!TelegramSpec
<1>1. InitMembers => Tg!InitTelegram BY DEF InitMembers
<1>2. [NextMembers]_membersVars => [Tg!NextTelegram]_(Tg!telegramVars)
  <2>1. TelegramMoves => Tg!NextTelegram
    BY DEF TelegramMoves, Tg!NextTelegram
  <2>2. UNCHANGED telegramVars => UNCHANGED Tg!telegramVars
    BY DEF telegramVars, Tg!telegramVars
  <2>3. QED BY <2>1, <2>2, OthersMove DEF NextMembers, membersVars
<1>3. QED BY <1>1, <1>2, PTL DEF MembersSpec, Tg!TelegramSpec

Update == [kind : {"reaction", "message"}, account : Account, post : Post \cup {Tg!None},
           active : BOOLEAN, date : Nat]
Reaction == [profile : Profile, post : Post \cup {Tg!None}, active : BOOLEAN, date : Nat, id : Nat]

TelegramType ==
    /\ updates \in Seq(Update)
    /\ unconfirmed \subseteq DOMAIN updates /\ batch \subseteq DOMAIN updates
    /\ deferred \subseteq DOMAIN updates /\ handled \subseteq DOMAIN updates
    /\ offset \in Nat /\ second \in Nat
    /\ linked \in [Profile -> Account \cup {Tg!None}]
    /\ arrived \in [Profile -> SUBSET DOMAIN updates]
    /\ reactions \subseteq Reaction

\* What the offset has passed was handled; what comes before an update of the
\* batch was handled, or is in the batch; a webhook has neither.
OffsetInv ==
    /\ mode = "webhook" => batch = {} /\ offset = 0
    /\ offset <= Len(updates) + 1
    /\ \A i \in DOMAIN updates : i < offset => i \in handled
    /\ \A j \in batch, i \in DOMAIN updates : i < j => i \in handled \cup batch
    /\ Tg!NoUpdateIsSkipped

\* A row is the copy of an update of an account that is still linked.
RowsInv ==
    \A r \in reactions :
        /\ linked[r.profile] # Tg!None
        /\ r.id \in DOMAIN updates
        /\ updates[r.id].active = r.active /\ updates[r.id].date = r.date

TelegramInv == TelegramType /\ OffsetInv /\ RowsInv /\ Tg!ReactionsFollow

\* No update has come at first.
LEMMA TelegramInitially == Tg!InitTelegram => TelegramInv
BY DEF Tg!InitTelegram, TelegramInv, TelegramType, OffsetInv, RowsInv, Tg!NoUpdateIsSkipped, Tg!ReactionsFollow

\* Recording an update, however late, keeps the row of the last one.
LEMMA ReactionRecorded ==
    ASSUME TelegramInv, NEW i \in DOMAIN updates, Tg!RecordReaction(i), updates' = updates, linked' = linked
    PROVE  /\ reactions' \subseteq Reaction
           /\ arrived' \in [Profile -> SUBSET DOMAIN updates]
           /\ RowsInv' /\ Tg!ReactionsFollow'
<1> DEFINE u == updates[i]
<1>1. CASE ~(u.kind = "reaction" /\ Tg!Owners(u.account) # {})
  BY <1>1 DEF Tg!RecordReaction, TelegramInv, TelegramType, RowsInv, Tg!ReactionsFollow, Tg!RowsOf
<1>2. CASE u.kind = "reaction" /\ Tg!Owners(u.account) # {}
  <2> DEFINE p == CHOOSE p \in Tg!Owners(u.account) : TRUE
             new == [profile |-> p, post |-> u.post, active |-> u.active, date |-> u.date, id |-> i]
             old == Tg!RowsOf(p, u)
  <2>1. u \in Update /\ i \in Nat
    BY DEF TelegramInv, TelegramType
  <2>2. p \in Profile /\ linked[p] # Tg!None
    BY <1>2, <2>1, AccountsAreNamed DEF Tg!Owners, Update, Tg!None
  <2>3. /\ reactions' = IF \A r \in old : Tg!Newer(r, u, i) THEN (reactions \ old) \cup {new} ELSE reactions
        /\ arrived' = [arrived EXCEPT ![p] = @ \cup {i}]
    BY <1>2 DEF Tg!RecordReaction, Tg!Recorded
  <2>4. new \in Reaction
    BY <2>1, <2>2 DEF Reaction, Update
  <2>5. reactions' \subseteq reactions \cup {new} /\ reactions' \subseteq Reaction
    BY <2>3, <2>4 DEF TelegramInv, TelegramType
  <2>6. arrived' \in [Profile -> SUBSET DOMAIN updates]
    BY <2>2, <2>3 DEF TelegramInv, TelegramType
  <2>7. RowsInv'
    <3>1. SUFFICES ASSUME NEW r \in reactions'
                   PROVE  /\ linked[r.profile] # Tg!None /\ r.id \in DOMAIN updates
                          /\ updates[r.id].active = r.active /\ updates[r.id].date = r.date
      BY DEF RowsInv
    <3>2. CASE r = new
      <4>1. r.profile = p /\ r.id = i /\ r.active = u.active /\ r.date = u.date
        BY <3>2
      <4>2. QED BY <2>2, <4>1
    <3>3. CASE r \in reactions
      BY <3>3 DEF TelegramInv, RowsInv
    <3>4. QED BY <2>5, <3>1, <3>2, <3>3
  <2>8. ASSUME NEW q \in Profile, NEW j \in arrived'[q], linked'[q] # Tg!None
        PROVE  \E r \in Tg!RowsOf(q, updates[j])' :
                  r.date > updates[j].date \/ (r.date = updates[j].date /\ r.id >= j)
    <3>1. CASE q = p /\ j = i
      <4>1. CASE \A r \in old : Tg!Newer(r, u, i)
        <5>1. new \in reactions' /\ new.profile = q /\ new.post = u.post /\ new.date = u.date /\ new.id = i
          BY <2>3, <3>1, <4>1
        <5>2. u.date \in Nat
          BY <2>1 DEF Update
        <5>3. new.id >= i
          BY <2>1, <5>1
        <5>4. QED BY <3>1, <5>1, <5>3 DEF Tg!RowsOf
      <4>2. CASE \E r \in old : ~Tg!Newer(r, u, i)
        <5>1. PICK r \in old : ~Tg!Newer(r, u, i)
          BY <4>2
        <5>2. r \in reactions /\ r.date \in Nat /\ r.id \in Nat /\ u.date \in Nat /\ r \in Tg!RowsOf(q, u)
          BY <2>1, <3>1, <5>1 DEF Tg!RowsOf, TelegramInv, TelegramType, Reaction, Update
        <5>3. r.date > u.date \/ (r.date = u.date /\ r.id >= i)
          BY <2>1, <5>1, <5>2 DEF Tg!Newer
        <5>4. reactions' = reactions
          BY <2>3, <4>2
        <5>5. QED BY <3>1, <5>2, <5>3, <5>4 DEF Tg!RowsOf
      <4>3. QED BY <4>1, <4>2
    <3>2. CASE ~(q = p /\ j = i)
      <4>1. j \in arrived[q] /\ j \in DOMAIN updates
        BY <2>2, <2>3, <3>2 DEF TelegramInv, TelegramType
      <4>2. PICK r \in Tg!RowsOf(q, updates[j]) :
               r.date > updates[j].date \/ (r.date = updates[j].date /\ r.id >= j)
        BY <2>8, <4>1 DEF TelegramInv, Tg!ReactionsFollow
      <4>3. r \in Reaction /\ r \in reactions /\ r.profile = q /\ r.post = updates[j].post
        BY <4>2 DEF Tg!RowsOf, TelegramInv, TelegramType
      <4>4. CASE r \in reactions'
        BY <4>2, <4>3, <4>4 DEF Tg!RowsOf
      <4>5. CASE r \notin reactions'
        <5>1. r \in old /\ Tg!Newer(r, u, i) /\ new \in reactions'
          BY <2>3, <4>3, <4>5
        <5>2. new.profile = q /\ new.post = updates[j].post
          BY <4>3, <5>1 DEF Tg!RowsOf
        <5>3. new.date > updates[j].date \/ (new.date = updates[j].date /\ new.id >= j)
          <6>1. updates[j] \in Update /\ j \in Nat
            BY <4>1 DEF TelegramInv, TelegramType
          <6>2. updates[j].date \in Nat /\ r.date \in Nat /\ r.id \in Nat
            BY <4>3, <6>1 DEF Update, Reaction
          <6>3. new.date = u.date /\ new.id = i /\ u.date \in Nat
            BY <2>1 DEF Update
          <6>4. QED BY <2>1, <4>2, <5>1, <6>1, <6>2, <6>3 DEF Tg!Newer
        <5>4. QED BY <5>1, <5>2, <5>3 DEF Tg!RowsOf
      <4>6. QED BY <4>4, <4>5
    <3>3. QED BY <3>1, <3>2
  <2>9. \A r \in reactions' : linked'[r.profile] # Tg!None /\ r.active = updates'[r.id].active
    BY <2>7 DEF RowsInv
  <2>10. QED BY <2>5, <2>6, <2>7, <2>8, <2>9 DEF Tg!ReactionsFollow, Tg!RowsOf
<1>3. QED BY <1>1, <1>2

\* Updates of the bot are handled in their order, and only then confirmed.
LEMMA HandleUpdate ==
    ASSUME TelegramInv, Tg!Handle
    PROVE  TelegramInv'
<1>1. PICK i \in batch :
        /\ \A j \in batch : i <= j
        /\ Tg!RecordReaction(i)
        /\ handled' = handled \cup {i} /\ offset' = i + 1 /\ batch' = batch \ {i}
        /\ UNCHANGED <<mode, updates, unconfirmed, deferred, linked, second, repeats>>
  BY DEF Tg!Handle
<1>2. i \in DOMAIN updates /\ \A j \in DOMAIN updates : j \in Nat
  BY DEF TelegramInv, TelegramType
<1>3. TelegramType' /\ RowsInv' /\ Tg!ReactionsFollow'
  BY <1>1, <1>2, ReactionRecorded DEF TelegramInv, TelegramType
<1>4. OffsetInv'
  <2>1. \A j \in DOMAIN updates : j < i + 1 => j \in handled'
    BY <1>1, <1>2 DEF TelegramInv, OffsetInv
  <2>2. \A k \in batch', j \in DOMAIN updates : j < k => j \in handled' \cup batch'
    BY <1>1, <1>2 DEF TelegramInv, OffsetInv
  <2>3. Tg!NoUpdateIsSkipped'
    BY <1>1 DEF TelegramInv, OffsetInv, Tg!NoUpdateIsSkipped
  <2>4. offset' <= Len(updates') + 1
    BY <1>1, <1>2 DEF TelegramInv, TelegramType
  <2>5. QED BY <1>1, <2>1, <2>2, <2>3, <2>4 DEF TelegramInv, OffsetInv
<1>5. QED BY <1>3, <1>4 DEF TelegramInv

\* An update that is answered by the webhook need not come again.
LEMMA WebhookUpdate ==
    ASSUME TelegramInv, NEW i \in unconfirmed, NEW answered \in BOOLEAN, Tg!Webhook(i, answered)
    PROVE  TelegramInv'
<1>1. i \in DOMAIN updates
  BY DEF TelegramInv, TelegramType
<1>2. TelegramType' /\ RowsInv' /\ Tg!ReactionsFollow'
  BY <1>1, ReactionRecorded DEF TelegramInv, TelegramType, Tg!Webhook
<1>3. handled \subseteq handled' /\ (i \in handled' \/ updates[i].kind = "message")
  <2>1. updates[i] \in Update
    BY <1>1 DEF TelegramInv, TelegramType
  <2>2. updates[i].kind = "reaction" \/ updates[i].kind = "message"
    BY <2>1 DEF Update
  <2>3. QED BY <2>2 DEF Tg!Webhook
<1>4. OffsetInv'
  BY <1>1, <1>3 DEF TelegramInv, OffsetInv, Tg!Webhook, Tg!NoUpdateIsSkipped
<1>5. QED BY <1>2, <1>4 DEF TelegramInv

\* What is still to come has a larger number than anything before.
LEMMA SendUpdate ==
    ASSUME TelegramInv, NEW u \in Update, Tg!Sent(u)
    PROVE  TelegramInv'
<1>1. /\ updates' \in Seq(Update) /\ DOMAIN updates \subseteq DOMAIN updates'
      /\ \A i \in DOMAIN updates : updates'[i] = updates[i]
      /\ Len(updates) + 1 \in DOMAIN updates' /\ Len(updates) \in Nat
      /\ \A i \in DOMAIN updates' : i \in DOMAIN updates \/ i = Len(updates) + 1
      /\ \A i \in DOMAIN updates : i \in Nat /\ i < Len(updates) + 1
  BY DEF TelegramInv, TelegramType, Tg!Sent
<1>2. TelegramType' /\ RowsInv'
  BY <1>1 DEF TelegramInv, TelegramType, RowsInv, Tg!Sent
<1>3. Tg!ReactionsFollow'
  BY <1>1 DEF TelegramInv, TelegramType, Tg!ReactionsFollow, Tg!RowsOf, Tg!Sent, Reaction, RowsInv
<1>4. OffsetInv'
  <2>1. Len(updates') = Len(updates) + 1 /\ offset \in Nat
    BY DEF TelegramInv, TelegramType, Tg!Sent
  <2>2. \A i \in DOMAIN updates' : i < offset => i \in handled
    BY <1>1 DEF TelegramInv, TelegramType, OffsetInv
  <2>3. \A j \in batch, i \in DOMAIN updates' : i < j => i \in handled \cup batch
    <3>1. SUFFICES ASSUME NEW j \in batch, NEW i \in DOMAIN updates', i < j
                   PROVE  i \in DOMAIN updates
      BY DEF TelegramInv, OffsetInv
    <3>2. j \in DOMAIN updates
      BY DEF TelegramInv, TelegramType
    <3>3. QED BY <1>1, <3>1, <3>2
  <2>4. Tg!NoUpdateIsSkipped'
    BY <1>1 DEF TelegramInv, OffsetInv, Tg!Sent, Tg!NoUpdateIsSkipped
  <2>5. (offset <= Len(updates) /\ offset \in Nat) \/ offset = Len(updates) + 1
    BY <1>1, <2>1 DEF TelegramInv, OffsetInv
  <2>6. offset' <= Len(updates') + 1
    BY <1>1, <2>1, <2>5 DEF Tg!Sent
  <2>7. QED BY <2>2, <2>3, <2>4, <2>6 DEF TelegramInv, OffsetInv, Tg!Sent
<1>5. QED BY <1>2, <1>3, <1>4 DEF TelegramInv

\* An answer confirms what the offset has passed, and only that.
LEMMA OtherUpdates ==
    ASSUME TelegramInv
    PROVE  /\ Tg!GetUpdates => TelegramInv'
           /\ Tg!HandleFails => TelegramInv'
           /\ Tg!Restart => TelegramInv'
           /\ Tg!Second => TelegramInv'
           /\ \A i \in deferred : Tg!SafeHandle(i) => TelegramInv'
<1>1. \A i \in DOMAIN updates : i \in Nat
  BY DEF TelegramInv, TelegramType
<1>2. Tg!GetUpdates => TelegramInv'
  BY <1>1 DEF TelegramInv, TelegramType, OffsetInv, RowsInv, Tg!NoUpdateIsSkipped, Tg!ReactionsFollow, Tg!RowsOf,
              Tg!GetUpdates
<1>3. Tg!HandleFails => TelegramInv'
  BY <1>1 DEF TelegramInv, TelegramType, OffsetInv, RowsInv, Tg!NoUpdateIsSkipped, Tg!ReactionsFollow, Tg!RowsOf,
              Tg!HandleFails, Tg!OffsetStays
<1>4. Tg!Restart => TelegramInv'
  BY <1>1 DEF TelegramInv, TelegramType, OffsetInv, RowsInv, Tg!NoUpdateIsSkipped, Tg!ReactionsFollow, Tg!RowsOf,
              Tg!Restart
<1>5. Tg!Second => TelegramInv'
  BY DEF TelegramInv, TelegramType, OffsetInv, RowsInv, Tg!NoUpdateIsSkipped, Tg!ReactionsFollow, Tg!RowsOf,
         Tg!Second
<1>6. \A i \in deferred : Tg!SafeHandle(i) => TelegramInv'
  BY DEF TelegramInv, TelegramType, OffsetInv, RowsInv, Tg!NoUpdateIsSkipped, Tg!ReactionsFollow, Tg!RowsOf,
         Tg!SafeHandle
<1>7. QED BY <1>2, <1>3, <1>4, <1>5, <1>6

\* A profile that loses its account loses its rows.
LEMMA LinkProfile ==
    ASSUME TelegramInv, NEW p \in Profile
    PROVE  /\ \A a \in Account : Tg!Link(p, a) => TelegramInv'
           /\ Tg!Erase(p) => TelegramInv'
<1>1. ASSUME NEW a \in Account, Tg!Link(p, a)
      PROVE  TelegramInv'
  BY <1>1, AccountsAreNamed DEF TelegramInv, TelegramType, OffsetInv, RowsInv, Tg!NoUpdateIsSkipped,
         Tg!ReactionsFollow, Tg!RowsOf, Tg!Link, Tg!None, Reaction
<1>2. ASSUME Tg!Erase(p)
      PROVE  TelegramInv'
  BY <1>2 DEF TelegramInv, TelegramType, OffsetInv, RowsInv, Tg!NoUpdateIsSkipped,
         Tg!ReactionsFollow, Tg!RowsOf, Tg!Erase, Reaction
<1>3. QED BY <1>1, <1>2

\* Every step of the bot keeps its updates and its rows.
LEMMA TelegramStep == TelegramInv /\ [Tg!NextTelegram]_(Tg!telegramVars) => TelegramInv'
<1> SUFFICES ASSUME TelegramInv, [Tg!NextTelegram]_(Tg!telegramVars)
             PROVE  TelegramInv'
  OBVIOUS
<1>1. CASE UNCHANGED Tg!telegramVars
  BY <1>1 DEF TelegramInv, TelegramType, OffsetInv, RowsInv, Tg!NoUpdateIsSkipped, Tg!ReactionsFollow, Tg!RowsOf,
              Tg!telegramVars
<1>2. CASE Tg!NextTelegram
  <2>1. \A a \in Account, post \in Post, active \in BOOLEAN :
           [kind |-> "reaction", account |-> a, post |-> post, active |-> active, date |-> second] \in Update
    BY DEF Update, TelegramInv, TelegramType
  <2>2. \A a \in Account :
           [kind |-> "message", account |-> a, post |-> Tg!None, active |-> FALSE, date |-> second] \in Update
    BY DEF Update, TelegramInv, TelegramType
  <2>3. \A a \in Account : Tg!Write(a) => TelegramInv'
    BY <2>2, SendUpdate DEF Tg!Write
  <2>4. \A a \in Account, post \in Post, active \in BOOLEAN : Tg!React(a, post, active) => TelegramInv'
    BY <2>1, SendUpdate DEF Tg!React
  <2>5. QED BY <1>2, <2>3, <2>4, HandleUpdate, WebhookUpdate, OtherUpdates, LinkProfile DEF Tg!NextTelegram
<1>3. QED BY <1>1, <1>2

\* Telegram forgets only updates that were handled or answered, after any
\* failures, restarts and repetitions (bot.py).
THEOREM UpdatesKept == MembersSpec => []NoUpdateIsSkipped
<1>1. TelegramInv => NoUpdateIsSkipped
  BY DEF TelegramInv, OffsetInv, NoUpdateIsSkipped
<1>2. QED BY <1>1, TelegramAlone, TelegramInitially, TelegramStep, PTL DEF Tg!TelegramSpec

\* The row of a reaction says what came last from its account, in whatever order
\* updates are answered or repeated (social.py).
THEOREM ReactionsKept == MembersSpec => []ReactionsFollow
<1>1. TelegramInv => ReactionsFollow
  BY DEF TelegramInv, ReactionsFollow
<1>2. QED BY <1>1, TelegramAlone, TelegramInitially, TelegramStep, PTL DEF Tg!TelegramSpec

-----------------------------------------------------------------------------
(* Dates.                                                                     *)

\* Reminders counts as its instance here does.
LEMMA RemindersCount == \A S : Rm!Cardinality(S) = Cardinality(S)
BY DEF Rm!Cardinality, Cardinality

Leaps(y, month) == {z \in 0..y : Rm!Leap(FirstYear + z) /\ (z < y \/ month >= 2)}

\* There are no more leap years than years.
LEMMA LeapsBounded ==
    ASSUME NEW y \in Nat, NEW month \in Nat
    PROVE  /\ IsFiniteSet(Leaps(y, month)) /\ Cardinality(Leaps(y, month)) \in Nat
           /\ Cardinality(Leaps(y, 0)) <= y
<1>1. IsFiniteSet(0..y) /\ IsFiniteSet(0..(y - 1)) /\ Cardinality(0..(y - 1)) = y
  BY FS_Interval
<1>2. Leaps(y, month) \subseteq 0..y /\ Leaps(y, 0) \subseteq 0..(y - 1)
  BY DEF Leaps
<1>3. QED BY <1>1, <1>2, FS_Subset, FS_CardinalityType

\* A year more is a leap year more when it has a 29 February.
LEMMA LeapsNext ==
    ASSUME NEW y \in Nat, NEW month \in Nat
    PROVE  Cardinality(Leaps(y + 1, month)) - Cardinality(Leaps(y, month)) \in {0, 1}
<1> DEFINE z == IF month >= 2 THEN y + 1 ELSE y
<1>1. Leaps(y + 1, month) = IF Rm!Leap(FirstYear + z) THEN Leaps(y, month) \cup {z} ELSE Leaps(y, month)
  BY DEF Leaps
<1>2. Cardinality(Leaps(y, month)) \in Nat /\ IsFiniteSet(Leaps(y, month))
  BY LeapsBounded
<1>3. Cardinality(Leaps(y, month) \cup {z}) = Cardinality(Leaps(y, month)) \/ Cardinality(Leaps(y, month) \cup {z}) = Cardinality(Leaps(y, month)) + 1
  BY <1>2, FS_AddElement
<1>4. QED BY <1>1, <1>2, <1>3

\* The day a month starts counts years, the months of its year and leap days before it.
LEMMA MonthStarts ==
    ASSUME NEW k \in Nat
    PROVE  /\ Rm!MonthStart(k) \in Nat
           /\ Rm!MonthStart(k) = 365 * (k \div 12) + Rm!DaysBefore[(k % 12) + 1]
                                 + Cardinality(Leaps(k \div 12, k % 12))
<1>1. k \div 12 \in Nat /\ k % 12 \in 0..11
  OBVIOUS
<1>2. Rm!DaysBefore[(k % 12) + 1] \in Nat
  BY <1>1 DEF Rm!DaysBefore
<1>3. Rm!MonthStart(k) = 365 * (k \div 12) + Rm!DaysBefore[(k % 12) + 1] + Cardinality(Leaps(k \div 12, k % 12))
  BY RemindersCount DEF Rm!MonthStart, Leaps
<1>4. Cardinality(Leaps(k \div 12, k % 12)) \in Nat
  BY <1>1, LeapsBounded
<1>5. QED BY <1>1, <1>2, <1>3, <1>4

\* From a month to that of the year after it are 365 or 366 days.
LEMMA YearOfMonths ==
    ASSUME NEW k \in Nat
    PROVE  Rm!MonthStart(k + 12) - Rm!MonthStart(k) \in {365, 366}
<1>1. (k + 12) \div 12 = k \div 12 + 1 /\ (k + 12) % 12 = k % 12 /\ k \div 12 \in Nat /\ k % 12 \in 0..11
  OBVIOUS
<1> DEFINE month == k % 12
           y == k \div 12
           c == Cardinality(Leaps(y, month))
           d == Cardinality(Leaps(y + 1, month))
           m == Rm!DaysBefore[(k % 12) + 1]
<1>2. month \in Nat /\ y \in Nat
  BY <1>1
<1>3. d - c \in {0, 1} /\ c \in Nat /\ d \in Nat
  <2>1. \A n, i \in Nat : Cardinality(Leaps(n + 1, i)) - Cardinality(Leaps(n, i)) \in {0, 1}
    BY LeapsNext
  <2>2. \A n, i \in Nat : Cardinality(Leaps(n, i)) \in Nat
    BY LeapsBounded
  <2>3. y + 1 \in Nat
    BY <1>2
  <2> HIDE DEF month, y
  <2>4. QED BY <1>2, <2>1, <2>2, <2>3
<1>4. m \in Nat
  BY <1>1 DEF Rm!DaysBefore
<1>5. Rm!MonthStart(k) = 365 * y + m + c /\ Rm!MonthStart(k + 12) = 365 * (y + 1) + m + d
  <2>1. k + 12 \in Nat
    OBVIOUS
  <2>2. Rm!MonthStart(k + 12) = 365 * ((k + 12) \div 12) + Rm!DaysBefore[((k + 12) % 12) + 1]
                                + Cardinality(Leaps((k + 12) \div 12, (k + 12) % 12))
    BY <2>1, MonthStarts
  <2>3. QED BY <1>1, <2>2, MonthStarts, ZenonT(30)
<1> HIDE DEF month, y, c, d, m
<1>6. QED BY <1>2, <1>3, <1>4, <1>5

\* Every day is in a month.
LEMMA SomeMonth ==
    ASSUME NEW d \in Nat
    PROVE  Rm!MonthAt(d) \in Nat
<1> DEFINE a == 12 * (d \div 366)
           b == 12 * (d \div 365) + 11
           S == {k \in a..b : Rm!MonthStart(k) <= d}
<1>1. d \div 366 \in Nat /\ d \div 365 \in Nat /\ 366 * (d \div 366) <= d /\ d < 365 * (d \div 365 + 1)
      /\ d \div 366 <= d \div 365
  OBVIOUS
<1>2. \A y \in Nat : Rm!MonthStart(12 * y) \in 365 * y .. 366 * y
  <2>1. ASSUME NEW y \in Nat
        PROVE  Rm!MonthStart(12 * y) \in 365 * y .. 366 * y
    <3>1. 12 * y \in Nat /\ (12 * y) \div 12 = y /\ (12 * y) % 12 = 0
      OBVIOUS
    <3>2. Rm!DaysBefore[0 + 1] = 0
      BY DEF Rm!DaysBefore
    <3>3. Rm!MonthStart(12 * y) = 365 * y + Cardinality(Leaps(y, 0))
      <4>1. Rm!MonthStart(12 * y) = 365 * ((12 * y) \div 12) + Rm!DaysBefore[((12 * y) % 12) + 1]
                                    + Cardinality(Leaps((12 * y) \div 12, (12 * y) % 12))
        BY <3>1, MonthStarts
      <4>2. Cardinality(Leaps(y, 0)) \in Nat
        BY LeapsBounded
      <4>3. QED BY <3>1, <3>2, <4>1, <4>2
    <3>4. Cardinality(Leaps(y, 0)) \in Nat /\ Cardinality(Leaps(y, 0)) <= y
      BY LeapsBounded
    <3>5. QED BY <3>3, <3>4
  <2>2. QED BY <2>1
<1>3. a \in S /\ S \in SUBSET Nat /\ S # {} /\ b \in Nat /\ \A k \in S : k <= b
  BY <1>1, <1>2
<1>4. PICK k \in S : \A j \in S : j <= k
  <2> HIDE DEF S, b
  <2>1. QED BY <1>3, SomeLargest
<1>5. Rm!MonthStart(k) <= d /\ k \in a..b /\ k \in Nat
  BY <1>3
<1>6. d < Rm!MonthStart(k + 1)
  <2>1. CASE k = b
    <3>1. k + 1 = 12 * (d \div 365 + 1) /\ d \div 365 + 1 \in Nat
      BY <1>1, <2>1
    <3>2. Rm!MonthStart(12 * (d \div 365 + 1)) \in 365 * (d \div 365 + 1) .. 366 * (d \div 365 + 1)
      <4> DEFINE y == d \div 365 + 1
      <4>1. y \in Nat
        BY <3>1
      <4> HIDE DEF y
      <4>2. Rm!MonthStart(12 * y) \in 365 * y .. 366 * y
        BY <1>2, <4>1
      <4>3. QED BY <4>2 DEF y
    <3>3. QED BY <1>1, <3>1, <3>2
  <2>2. CASE k # b
    <3>1. k + 1 \in a..b /\ k + 1 \notin S
      BY <1>4, <1>5, <2>2, <1>1
    <3>2. QED BY <1>5, <3>1, MonthStarts
  <2>3. QED BY <2>1, <2>2
<1>7. \E j \in a..b : Rm!MonthStart(j) <= d /\ d < Rm!MonthStart(j + 1)
  BY <1>5, <1>6
<1>8. Rm!MonthAt(d) \in a..b
  BY <1>7 DEF Rm!MonthAt
<1>9. QED BY <1>1, <1>8

\* What is paid from a day on is 365 days, or 366 over a 29 February.
LEMMA YearPaid ==
    ASSUME NEW until \in Nat, NEW now \in Nat
    PROVE  LET from == IF until > now THEN until ELSE now IN
           Rm!NextPodcastExpiry(until, now) \in {from + 365, from + 366}
<1> DEFINE d == IF until > now THEN until ELSE now
           k == Rm!MonthAt(d)
<1>1. k \in Nat /\ d \in Nat
  BY SomeMonth
<1>2. Rm!MonthStart(k) \in Nat /\ Rm!MonthStart(k + 12) \in Nat
  BY <1>1, MonthStarts
<1>3. Rm!NextPodcastExpiry(until, now) = Rm!MonthStart(k + 12) + (d - Rm!MonthStart(k))
  BY DEF Rm!NextPodcastExpiry, Rm!AddMonths
<1>4. QED BY <1>1, <1>2, <1>3, YearOfMonths

-----------------------------------------------------------------------------
(* Reminders.                                                                 *)

\* The jobs and requests in Members do what Reminders allows.
THEOREM RemindersAlone == MembersSpec => Rm!RemindersSpec
<1>1. InitMembers => Rm!InitReminders BY DEF InitMembers
<1>2. [NextMembers]_membersVars => [Rm!NextReminders]_(Rm!remindersVars)
  <2>1. RemindersMoves => Rm!NextReminders
    BY DEF RemindersMoves, Rm!NextReminders
  <2>2. UNCHANGED remindersVars => UNCHANGED Rm!remindersVars
    BY DEF remindersVars, Rm!remindersVars
  <2>3. QED BY <2>1, <2>2, OthersMove DEF NextMembers, membersVars
<1>3. QED BY <1>1, <1>2, PTL DEF MembersSpec, Rm!RemindersSpec

EventPass == [step : {"idle", "next", "push", "flag"}, left : SUBSET Event, at : Event \cup {"none"},
              who : SUBSET Guest]
PodcastPass == [step : {"idle", "next", "flag"}, left : SUBSET (Guest \X Nat), at : Guest \cup {"none"},
                who : {{}}]
EventRow == [state : {"absent", "published", "canceled"}, due : Nat, flag : BOOLEAN, told : SUBSET Guest,
             missed : SUBSET Guest, rounds : Nat]
Subscriber == [until : Nat, flag : BOOLEAN, told : Nat, missed : BOOLEAN, owed : Nat, paid : Nat,
               overtook : BOOLEAN]

RemindersType ==
    /\ today \in Nat /\ cuts \in Nat
    /\ DOMAIN running = Rm!Job /\ running \in [Rm!Job -> EventPass \cup PodcastPass]
    /\ Rm!Events \in EventPass /\ Rm!Podcasts \in PodcastPass
    /\ event \in [Event -> EventRow]
    /\ answers \in [Event -> SUBSET Guest] /\ late \in [Event -> SUBSET Guest]
    /\ sub \in [Guest -> Subscriber]

\* An event that the pass is still to come to has no flag, nor has the one it is
\* at; of that one the pass holds, has told or has missed all answers it has read.
AtEvent ==
    LET p == Rm!Events IN
    p.step \in {"push", "flag"} =>
        /\ p.at \in Event \ p.left
        /\ ~event[p.at].flag
        /\ p.step = "push" => answers[p.at] \ late[p.at] \subseteq p.who
        /\ p.step = "flag" => answers[p.at] \ late[p.at] \subseteq event[p.at].told \cup event[p.at].missed
OfEvent(e) ==
    LET p == Rm!Events IN
    /\ event[e].state = "absent" => answers[e] = {} /\ event[e].rounds = 0
    /\ e \in p.left => ~event[e].flag
    /\ event[e].flag => answers[e] \ late[e] \subseteq event[e].told \cup event[e].missed
    /\ event[e].rounds <= 1 + cuts
    /\ event[e].flag \/ (p.step = "flag" /\ p.at = e) \/ event[e].rounds <= cuts
EventsInv ==
    /\ Rm!Events.step = "idle" => Rm!Events.left = {}
    /\ AtEvent
    /\ \A e \in Event : OfEvent(e)

\* A subscriber is in the pass once, without a flag, and with the end it is told
\* unless a payment has overtaken the pass.
SubscribersInv ==
    LET p == Rm!Podcasts IN
    /\ p.step = "idle" => p.left = {}
    /\ \A r, s \in p.left : r[1] = s[1] => r = s
    /\ p.step = "flag" =>
          /\ p.at \in Guest
          /\ \A r \in p.left : r[1] # p.at
          /\ sub[p.at].told = 0 => sub[p.at].missed \/ sub[p.at].overtook
    /\ \A r \in p.left :
          /\ ~sub[r[1]].flag
          /\ sub[r[1]].until # r[2] => sub[r[1]].overtook
    /\ \A g \in Guest :
          /\ sub[g].flag /\ sub[g].told = 0 => sub[g].missed \/ sub[g].overtook
          /\ sub[g].told <= IF sub[g].flag \/ (p.step = "flag" /\ p.at = g) THEN 1 + cuts ELSE cuts

RemindersInv == RemindersType /\ EventsInv /\ SubscribersInv /\ Rm!PaidYearsLast

\* No reminder is due at first.
LEMMA RemindersInitially == Rm!InitReminders => RemindersInv
<1> SUFFICES ASSUME Rm!InitReminders
             PROVE  RemindersInv
  OBVIOUS
<1>1. today \in Nat
  <2>1. \E d \in Clock : \A x \in Clock : d <= x
    BY DaysFollow, SomeLeast
  <2>2. QED BY <2>1, DaysFollow DEF Rm!InitReminders
<1>2. RemindersType
  BY <1>1 DEF Rm!InitReminders, RemindersType, EventPass, PodcastPass, EventRow, Subscriber, Rm!NoPass, Rm!Gone,
              Rm!Job, Rm!Events, Rm!Podcasts
<1>3. EventsInv
  BY <1>2 DEF Rm!InitReminders, EventsInv, AtEvent, OfEvent, Rm!NoPass, Rm!Gone, Rm!Job, Rm!Events
<1>4. SubscribersInv
  BY <1>2 DEF Rm!InitReminders, SubscribersInv, Rm!NoPass, Rm!Job, Rm!Podcasts
<1>5. Rm!PaidYearsLast
  BY DEF Rm!InitReminders, Rm!PaidYearsLast
<1>6. QED BY <1>2, <1>3, <1>4, <1>5 DEF RemindersInv

\* What does not concern the events, or the subscribers, leaves their part alone.
LEMMA EventsKept ==
    ASSUME RemindersType, EventsInv, cuts' \in Nat, cuts' >= cuts,
           UNCHANGED <<event, answers, late>>, Rm!Events' = Rm!Events
    PROVE  EventsInv'
BY DEF EventsInv, AtEvent, OfEvent, RemindersType, EventRow

\* What does not concern the subscribers leaves their part alone.
LEMMA SubscribersKept ==
    ASSUME RemindersType, SubscribersInv, cuts' \in Nat, cuts' >= cuts,
           UNCHANGED sub, Rm!Podcasts' = Rm!Podcasts
    PROVE  SubscribersInv'
BY DEF SubscribersInv, RemindersType, Subscriber

\* What was paid stays paid while no end of a subscription moves.
LEMMA PaidKept == Rm!PaidYearsLast /\ (\A g \in Guest : sub'[g].until = sub[g].until /\ sub'[g].owed = sub[g].owed
                                                  /\ sub'[g].paid = sub[g].paid) => Rm!PaidYearsLast'
BY DEF Rm!PaidYearsLast

\* A job that starts has what it is given left, or ends at once.
LEMMA JobStarts ==
    ASSUME RemindersType
    PROVE  /\ \A S \in SUBSET Event : Rm!Started("event-reminders", S) =>
                 /\ Rm!Events' \in EventPass /\ Rm!Podcasts' = Rm!Podcasts
                 /\ DOMAIN running' = Rm!Job /\ running' \in [Rm!Job -> EventPass \cup PodcastPass]
                 /\ Rm!Events'.left = S /\ Rm!Events'.step = IF S = {} THEN "idle" ELSE "next"
           /\ \A S \in SUBSET (Guest \X Nat) : Rm!Started("podcast-reminders", S) =>
                 /\ Rm!Podcasts' \in PodcastPass /\ Rm!Events' = Rm!Events
                 /\ DOMAIN running' = Rm!Job /\ running' \in [Rm!Job -> EventPass \cup PodcastPass]
                 /\ Rm!Podcasts'.left = S /\ Rm!Podcasts'.step = IF S = {} THEN "idle" ELSE "next"
<1> DEFINE First(S) == IF S = {} THEN Rm!NoPass ELSE [Rm!NoPass EXCEPT !.step = "next", !.left = S]
<1>1. /\ Rm!NoPass \in EventPass /\ Rm!NoPass \in PodcastPass
      /\ Rm!NoPass.left = {} /\ Rm!NoPass.step = "idle"
  BY DEF Rm!NoPass, EventPass, PodcastPass
<1>2. ASSUME NEW S \in SUBSET Event
      PROVE  First(S) \in EventPass /\ First(S).left = S /\ First(S).step = IF S = {} THEN "idle" ELSE "next"
  BY <1>1 DEF EventPass
<1>3. ASSUME NEW S \in SUBSET (Guest \X Nat)
      PROVE  First(S) \in PodcastPass /\ First(S).left = S /\ First(S).step = IF S = {} THEN "idle" ELSE "next"
  BY <1>1 DEF PodcastPass
<1>4. \A j, S : Rm!Started(j, S) => running' = [running EXCEPT ![j] = First(S)]
  BY DEF Rm!Started
<1> HIDE DEF First
<1>5. QED BY <1>2, <1>3, <1>4 DEF RemindersType, Rm!Events, Rm!Podcasts, Rm!Job

\* A pass begins with what has no flag.
LEMMA JobsBegin ==
    ASSUME RemindersInv
    PROVE  /\ Rm!TickEvents => RemindersInv'
           /\ Rm!TickPodcasts => RemindersInv'
<1>1. ASSUME Rm!TickEvents
      PROVE  RemindersInv'
  <2> DEFINE S == {e \in Event : event[e].state = "published" /\ event[e].due = today /\ ~event[e].flag}
  <2>1. /\ Rm!Started("event-reminders", S)
        /\ UNCHANGED <<today, event, answers, late, sub, cuts>>
    BY <1>1 DEF Rm!TickEvents
  <2>2. S \in SUBSET Event /\ \A e \in S : ~event[e].flag
    OBVIOUS
  <2> HIDE DEF S
  <2>3. /\ Rm!Events' \in EventPass /\ Rm!Podcasts' = Rm!Podcasts
        /\ DOMAIN running' = Rm!Job /\ running' \in [Rm!Job -> EventPass \cup PodcastPass]
        /\ Rm!Events'.left = S /\ Rm!Events'.step = IF S = {} THEN "idle" ELSE "next"
    BY <2>1, <2>2, JobStarts DEF RemindersInv
  <2>4. RemindersType'
    BY <2>1, <2>3 DEF RemindersInv, RemindersType
  <2>5. EventsInv'
    BY <2>1, <2>2, <2>3 DEF RemindersInv, RemindersType, EventsInv, AtEvent, OfEvent, Rm!Started, Rm!Events
  <2>6. SubscribersInv' /\ Rm!PaidYearsLast'
    BY <2>1, <2>3, SubscribersKept, PaidKept DEF RemindersInv, RemindersType
  <2>7. QED BY <2>4, <2>5, <2>6 DEF RemindersInv
<1>2. ASSUME Rm!TickPodcasts
      PROVE  RemindersInv'
  <2> DEFINE S == {<<g, sub[g].until>> : g \in {g \in Guest : Rm!Expiring(g) /\ ~sub[g].flag}}
  <2>1. /\ Rm!Started("podcast-reminders", S)
        /\ UNCHANGED <<today, event, answers, late, sub, cuts>>
    BY <1>2 DEF Rm!TickPodcasts
  <2>2. /\ S \in SUBSET (Guest \X Nat)
        /\ \A r \in S : r[1] \in Guest /\ r[2] = sub[r[1]].until /\ ~sub[r[1]].flag /\ r = <<r[1], sub[r[1]].until>>
    BY DEF RemindersInv, RemindersType, Subscriber
  <2> HIDE DEF S
  <2>3. /\ Rm!Podcasts' \in PodcastPass /\ Rm!Events' = Rm!Events
        /\ DOMAIN running' = Rm!Job /\ running' \in [Rm!Job -> EventPass \cup PodcastPass]
        /\ Rm!Podcasts'.left = S /\ Rm!Podcasts'.step = IF S = {} THEN "idle" ELSE "next"
    BY <2>1, <2>2, JobStarts DEF RemindersInv
  <2>4. RemindersType'
    BY <2>1, <2>3 DEF RemindersInv, RemindersType
  <2>5. EventsInv'
    BY <2>1, <2>3, EventsKept DEF RemindersInv, RemindersType
  <2>6. \A r, s \in S : r[1] = s[1] => r = s
    BY <2>2
  <2>7. SubscribersInv' /\ Rm!PaidYearsLast'
    BY <2>1, <2>2, <2>3, <2>6, PaidKept DEF RemindersInv, RemindersType, SubscribersInv, Rm!Started, Rm!Podcasts
  <2>8. QED BY <2>4, <2>5, <2>7 DEF RemindersInv
<1>3. QED BY <1>1, <1>2

\* A job that is cut off leaves nothing to do, and counts once.
LEMMA JobCut ==
    ASSUME RemindersInv, NEW j \in Rm!Job, Rm!Cut(j)
    PROVE  RemindersInv'
<1>1. /\ UNCHANGED <<today, event, answers, late, sub>>
      /\ cuts' = cuts + 1 /\ cuts \in Nat
  BY DEF Rm!Cut, RemindersInv, RemindersType
<1>2. CASE j = "event-reminders"
  <2>1. Rm!Events' = Rm!NoPass /\ Rm!Podcasts' = Rm!Podcasts
    BY <1>2 DEF Rm!Cut, RemindersInv, RemindersType, Rm!Events, Rm!Podcasts, Rm!Job
  <2>2. RemindersType'
    BY <1>1, <1>2, <2>1 DEF Rm!Cut, RemindersInv, RemindersType, Rm!Job, Rm!NoPass, EventPass
  <2>3. EventsInv'
    BY <1>1, <2>1 DEF RemindersInv, RemindersType, EventsInv, AtEvent, OfEvent, EventRow, Rm!NoPass
  <2>4. QED BY <1>1, <2>1, <2>2, <2>3, SubscribersKept, PaidKept DEF RemindersInv
<1>3. CASE j = "podcast-reminders"
  <2>1. Rm!Podcasts' = Rm!NoPass /\ Rm!Events' = Rm!Events
    BY <1>3 DEF Rm!Cut, RemindersInv, RemindersType, Rm!Events, Rm!Podcasts, Rm!Job
  <2>2. RemindersType'
    BY <1>1, <1>3, <2>1 DEF Rm!Cut, RemindersInv, RemindersType, Rm!Job, Rm!NoPass, PodcastPass
  <2>3. SubscribersInv'
    BY <1>1, <2>1 DEF RemindersInv, RemindersType, SubscribersInv, Subscriber, Rm!NoPass
  <2>4. QED BY <1>1, <2>1, <2>2, <2>3, EventsKept, PaidKept DEF RemindersInv
<1>4. QED BY <1>2, <1>3 DEF Rm!Job

\* Time passes, and the process stops and starts, without any of the rows.
LEMMA TimePasses ==
    ASSUME RemindersInv,
           \/ \E j \in Rm!Job : Rm!Skipped(j)
           \/ Rm!Stop \/ Rm!Restart
           \/ \E d \in Clock : Rm!NextDay(d)
           \/ UNCHANGED Rm!remindersVars
    PROVE  RemindersInv'
<1>1. UNCHANGED <<running, event, answers, late, sub, cuts>> /\ today' \in Nat
  BY DaysFollow DEF Rm!Skipped, Rm!Stop, Rm!Restart, Rm!NextDay, Rm!remindersVars, RemindersInv, RemindersType
<1>2. Rm!Events' = Rm!Events /\ Rm!Podcasts' = Rm!Podcasts
  BY <1>1 DEF Rm!Events, Rm!Podcasts
<1>3. RemindersType'
  BY <1>1, <1>2 DEF RemindersInv, RemindersType
<1>4. QED BY <1>1, <1>2, <1>3, EventsKept, SubscribersKept, PaidKept DEF RemindersInv, RemindersType

\* The pass of the events goes on; the other job and the subscribers are as before.
LEMMA EventsGoOn ==
    ASSUME RemindersInv, NEW p \in EventPass, Rm!Then(p), UNCHANGED <<today, answers, sub, cuts>>,
           event' \in [Event -> EventRow], late' \in [Event -> SUBSET Guest]
    PROVE  /\ RemindersType' /\ SubscribersInv' /\ Rm!PaidYearsLast'
           /\ Rm!Events' = p
<1>1. Rm!Events' = p /\ Rm!Podcasts' = Rm!Podcasts
  BY DEF Rm!Then, Rm!Events, Rm!Podcasts, RemindersInv, RemindersType, Rm!Job
<1>2. RemindersType'
  BY <1>1 DEF Rm!Then, RemindersInv, RemindersType, Rm!Job
<1>3. QED BY <1>1, <1>2, SubscribersKept, PaidKept DEF RemindersInv, RemindersType

\* The answers are read when those that came late are none.
LEMMA AnswersRead ==
    ASSUME RemindersInv, NEW e \in Event, Rm!ReadAnswers(e)
    PROVE  RemindersInv'
<1> DEFINE p == [step |-> "push", left |-> Rm!Events.left \ {e}, at |-> e, who |-> answers[e]]
<1>1. p \in EventPass
  BY DEF EventPass, RemindersInv, RemindersType
<1>2. /\ Rm!Then(p) /\ e \in Rm!Events.left
      /\ UNCHANGED <<today, event, answers, sub, cuts>>
      /\ late' = [late EXCEPT ![e] = {}]
  BY DEF Rm!ReadAnswers
<1>3. late' \in [Event -> SUBSET Guest]
  BY <1>2 DEF RemindersInv, RemindersType
<1>4. /\ RemindersType' /\ SubscribersInv' /\ Rm!PaidYearsLast'
      /\ Rm!Events' = p
  BY <1>1, <1>2, <1>3, EventsGoOn DEF RemindersInv, RemindersType
<1>5. p.step = "push" /\ p.left = Rm!Events.left \ {e} /\ p.at = e /\ p.who = answers[e]
  OBVIOUS
<1> HIDE DEF p
<1>6. EventsInv'
  <2>1. AtEvent'
    BY <1>2, <1>3, <1>4, <1>5 DEF RemindersInv, RemindersType, EventsInv, AtEvent, OfEvent, EventRow
  <2>2. ASSUME NEW f \in Event
        PROVE  OfEvent(f)'
    <3>1. OfEvent(f) /\ ~event[e].flag /\ OfEvent(e) /\ f \in Event
      BY <1>2 DEF RemindersInv, EventsInv, OfEvent
    <3>2. late'[f] = late[f] \/ f = e
      BY <1>2 DEF RemindersInv, RemindersType
    <3>3. Rm!Events.step = "next"
      BY DEF Rm!ReadAnswers
    <3>4. QED BY <1>2, <1>4, <1>5, <3>1, <3>2, <3>3 DEF OfEvent
  <2>3. QED BY <1>4, <1>5, <2>1, <2>2 DEF EventsInv
<1>7. QED BY <1>4, <1>6 DEF RemindersInv

\* All who were read are told or missed, once.
LEMMA EventPushed ==
    ASSUME RemindersInv, Rm!PushEvent
    PROVE  RemindersInv'
<1> DEFINE e == Rm!Events.at
           p == [Rm!Events EXCEPT !.step = "flag"]
<1>0. PICK lost \in SUBSET Rm!Events.who : event' = [event EXCEPT ![e] = Rm!Told(event[e], Rm!Events.who, lost)]
  BY DEF Rm!PushEvent
<1> DEFINE row == Rm!Told(event[e], Rm!Events.who, lost)
<1>1. /\ Rm!Events.step = "push" /\ Rm!Then(p)
      /\ event' = [event EXCEPT ![e] = row]
      /\ UNCHANGED <<today, answers, late, sub, cuts>>
  BY <1>0 DEF Rm!PushEvent
<1>2. e \in Event /\ e \notin Rm!Events.left /\ event[e] \in EventRow /\ Rm!Events \in EventPass
      /\ ~event[e].flag /\ answers[e] \ late[e] \subseteq Rm!Events.who
      /\ event[e].rounds <= cuts
  BY <1>1 DEF RemindersInv, RemindersType, EventsInv, AtEvent, OfEvent
<1>3. p \in EventPass /\ p.step = "flag" /\ p.left = Rm!Events.left /\ p.at = e
  BY <1>2 DEF EventPass
<1>4. /\ row \in EventRow /\ row.flag = event[e].flag /\ row.state = event[e].state
      /\ IF event[e].state = "absent" THEN row = event[e] ELSE Rm!Events.who \subseteq row.told \cup row.missed
      /\ row.rounds <= cuts + 1
  <2>1. Rm!Events.who \subseteq Guest /\ cuts \in Nat
    BY <1>2 DEF EventPass, RemindersInv, RemindersType
  <2>2. CASE event[e].state = "absent"
    BY <1>2, <2>1, <2>2 DEF EventRow, Rm!Told
  <2>3. CASE event[e].state # "absent"
    <3> DEFINE reached == event[e].told \cup (Rm!Events.who \ lost)
               failed == event[e].missed \cup lost
    <3>1. row = [event[e] EXCEPT !.told = reached, !.missed = failed, !.rounds = event[e].rounds + 1]
      BY <2>3 DEF Rm!Told
    <3>2. reached \subseteq Guest /\ failed \subseteq Guest /\ event[e].rounds + 1 \in Nat
          /\ Rm!Events.who \subseteq reached \cup failed
      BY <1>2, <2>1 DEF EventRow
    <3> HIDE DEF reached, failed
    <3>3. row \in EventRow /\ row.flag = event[e].flag /\ row.state = event[e].state
      BY <1>2, <3>1, <3>2 DEF EventRow
    <3>4. row.told = reached /\ row.missed = failed /\ row.rounds = event[e].rounds + 1
      BY <1>2, <3>1, <3>2 DEF EventRow
    <3>5. event[e].rounds \in Nat
      BY <1>2 DEF EventRow
    <3>6. QED BY <1>2, <2>1, <2>3, <3>2, <3>3, <3>4, <3>5
  <2>4. QED BY <2>2, <2>3
<1> HIDE DEF p, row
<1>5. event' \in [Event -> EventRow] /\ \A f \in Event : event'[f] = IF f = e THEN row ELSE event[f]
  BY <1>1, <1>4 DEF RemindersInv, RemindersType
<1>6. /\ RemindersType' /\ SubscribersInv' /\ Rm!PaidYearsLast'
      /\ Rm!Events' = p
  BY <1>1, <1>3, <1>5, EventsGoOn DEF RemindersInv, RemindersType
<1> HIDE DEF e
<1>7. AtEvent'
  BY <1>1, <1>2, <1>3, <1>4, <1>5, <1>6 DEF RemindersInv, EventsInv, AtEvent, OfEvent
<1>8. ASSUME NEW f \in Event
      PROVE  OfEvent(f)'
  <2>1. OfEvent(f) /\ cuts \in Nat
    BY DEF RemindersInv, RemindersType, EventsInv
  <2>2. CASE f = e
    BY <1>1, <1>2, <1>3, <1>4, <1>5, <1>6, <2>1, <2>2 DEF OfEvent, EventRow
  <2>3. CASE f # e
    <3>1. event'[f] = event[f]
      BY <1>5, <2>3
    <3>2. QED BY <1>1, <1>3, <1>6, <2>1, <2>3, <3>1 DEF OfEvent
  <2>4. QED BY <2>2, <2>3
<1>9. QED BY <1>3, <1>6, <1>7, <1>8 DEF RemindersInv, EventsInv

\* The flag follows, unless the event is gone; then nothing is left of the pass.
LEMMA EventFlagged ==
    ASSUME RemindersInv, Rm!FlagEvent
    PROVE  RemindersInv'
<1> DEFINE e == Rm!Events.at
           rest == Rm!Rest(Rm!Events)
<1>1. e \in Event /\ e \notin Rm!Events.left /\ Rm!Events \in EventPass /\ Rm!Events.step = "flag"
  BY DEF Rm!FlagEvent, RemindersInv, RemindersType, EventsInv, AtEvent, OfEvent
<1>2. Rm!NoPass \in EventPass /\ Rm!NoPass.step = "idle" /\ Rm!NoPass.left = {}
  BY DEF Rm!NoPass, EventPass
<1>3. rest \in EventPass /\ rest.left = Rm!Events.left /\ rest.step = IF Rm!Events.left = {} THEN "idle" ELSE "next"
  BY <1>1, <1>2 DEF Rm!Rest, EventPass
<1>4. UNCHANGED <<today, answers, late, sub, cuts>>
  BY DEF Rm!FlagEvent
<1>5. CASE event[e].state = "absent"
  <2>1. Rm!Then(Rm!NoPass) /\ event' = event
    BY <1>5 DEF Rm!FlagEvent
  <2>2. /\ RemindersType' /\ SubscribersInv' /\ Rm!PaidYearsLast'
        /\ Rm!Events' = Rm!NoPass
    BY <1>2, <1>4, <2>1, EventsGoOn DEF RemindersInv, RemindersType
  <2>3. event[e].rounds <= cuts
    BY <1>5, <1>1 DEF RemindersInv, RemindersType, EventsInv, AtEvent, OfEvent
  <2>4. EventsInv'
    BY <1>1, <1>2, <1>4, <2>1, <2>2, <2>3 DEF RemindersInv, RemindersType, EventsInv, AtEvent, OfEvent, EventRow
  <2>5. QED BY <2>2, <2>4 DEF RemindersInv
<1>6. CASE event[e].state # "absent"
  <2>1. Rm!Then(rest) /\ event' = [event EXCEPT ![e].flag = TRUE]
    BY <1>6 DEF Rm!FlagEvent
  <2> HIDE DEF rest
  <2>2. /\ event' \in [Event -> EventRow]
        /\ \A f \in Event : /\ event'[f].state = event[f].state /\ event'[f].told = event[f].told
                            /\ event'[f].missed = event[f].missed
                            /\ event'[f].rounds = event[f].rounds
                            /\ event'[f].flag = (f = e \/ event[f].flag)
    <3>1. e \in Event /\ event \in [Event -> EventRow]
      BY <1>1 DEF RemindersInv, RemindersType
    <3> HIDE DEF e
    <3>2. \A f \in Event : event'[f] = IF f = e THEN [event[f] EXCEPT !.flag = TRUE] ELSE event[f]
      BY <2>1, <3>1
    <3>3. \A f \in Event : event[f] \in EventRow /\ event[f].flag \in BOOLEAN
      BY <3>1 DEF EventRow
    <3>4. DOMAIN event' = Event /\ event' = [f \in Event |-> event'[f]]
      BY <2>1, <3>1
    <3>5. \A f \in Event : event'[f] \in EventRow
      <4>1. \A r \in EventRow : [r EXCEPT !.flag = TRUE] \in EventRow
        BY DEF EventRow
      <4>2. QED BY <3>2, <3>3, <4>1
    <3>6. QED BY <3>2, <3>3, <3>4, <3>5 DEF EventRow
  <2>3. /\ RemindersType' /\ SubscribersInv' /\ Rm!PaidYearsLast'
        /\ Rm!Events' = rest
    BY <1>3, <1>4, <2>1, <2>2, EventsGoOn DEF RemindersInv, RemindersType
  <2> HIDE DEF e
  <2>4. AtEvent' /\ (Rm!Events.step = "idle" => Rm!Events.left = {})'
    BY <1>3, <2>3 DEF RemindersInv, AtEvent
  <2>5. ASSUME NEW f \in Event
        PROVE  OfEvent(f)'
    <3>1. OfEvent(f) /\ AtEvent
      BY DEF RemindersInv, EventsInv
    <3>2. CASE f = e
      BY <1>1, <1>3, <1>4, <1>6, <2>2, <2>3, <3>1, <3>2 DEF OfEvent, AtEvent, e
    <3>3. CASE f # e
      BY <1>1, <1>3, <1>4, <2>2, <2>3, <3>1, <3>3 DEF OfEvent, e
    <3>4. QED BY <3>2, <3>3
  <2>6. QED BY <2>3, <2>4, <2>5 DEF RemindersInv, EventsInv
<1>7. QED BY <1>5, <1>6

\* The rows of the events change by a request, not by the pass.
LEMMA EventsRequest ==
    ASSUME RemindersInv,
           UNCHANGED <<today, running, sub, cuts>>,
           event' \in [Event -> EventRow], answers' \in [Event -> SUBSET Guest], late' \in [Event -> SUBSET Guest],
           NEW e \in Event,
           \A f \in Event : f # e => event'[f] = event[f] /\ answers'[f] = answers[f] /\ late'[f] = late[f],
           event'[e].flag => event[e].flag,
           event'[e].state = "absent" => answers'[e] = {} /\ event'[e].rounds = 0,
           answers'[e] = {} \/ /\ answers'[e] \ late'[e] \subseteq answers[e] \ late[e]
                               /\ event'[e].told = event[e].told /\ event'[e].missed = event[e].missed,
           event'[e].rounds = 0 \/ (event'[e].flag = event[e].flag /\ event'[e].rounds = event[e].rounds)
    PROVE  RemindersInv'
<1>1. Rm!Events' = Rm!Events /\ Rm!Podcasts' = Rm!Podcasts
  BY DEF Rm!Events, Rm!Podcasts
<1>2. RemindersType' /\ SubscribersInv' /\ Rm!PaidYearsLast'
  BY <1>1, SubscribersKept, PaidKept DEF RemindersInv, RemindersType
<1>3. AtEvent'
  <2>1. AtEvent
    BY DEF RemindersInv, EventsInv
  <2>2. CASE Rm!Events.at = e
    BY <1>1, <2>1, <2>2 DEF AtEvent
  <2>3. CASE Rm!Events.at # e
    BY <1>1, <2>1, <2>3 DEF AtEvent
  <2>4. QED BY <2>2, <2>3
<1>4. ASSUME NEW f \in Event
      PROVE  OfEvent(f)'
  <2>1. OfEvent(f) /\ cuts \in Nat
    BY DEF RemindersInv, RemindersType, EventsInv
  <2>2. CASE f = e
    BY <1>1, <2>1, <2>2 DEF OfEvent
  <2>3. CASE f # e
    BY <1>1, <2>1, <2>3 DEF OfEvent
  <2>4. QED BY <2>2, <2>3
<1>5. QED BY <1>1, <1>2, <1>3, <1>4 DEF RemindersInv, EventsInv

\* An event that is made, answered, moved or deleted has its flag right.
LEMMA EventRequests ==
    ASSUME RemindersInv, NEW e \in Event
    PROVE  /\ \A g \in Guest : Rm!Rsvp(e, g) => RemindersInv'
           /\ \A d \in Clock : Rm!Create(e, d) => RemindersInv'
           /\ \A d \in Clock, state \in {"published", "canceled"} : Rm!Patch(e, d, state) => RemindersInv'
           /\ Rm!DeleteEvent(e) => RemindersInv'
<1>1. /\ event \in [Event -> EventRow] /\ answers \in [Event -> SUBSET Guest] /\ late \in [Event -> SUBSET Guest]
      /\ event[e] \in EventRow
  BY DEF RemindersInv, RemindersType
<1>2. ASSUME NEW g \in Guest, Rm!Rsvp(e, g)
      PROVE  RemindersInv'
  <2>1. /\ answers' \in [Event -> SUBSET Guest] /\ late' \in [Event -> SUBSET Guest]
        /\ answers'[e] \ late'[e] \subseteq answers[e] \ late[e]
        /\ \A f \in Event : f # e => answers'[f] = answers[f] /\ late'[f] = late[f]
        /\ UNCHANGED <<today, running, event, sub, cuts>> /\ event[e].state = "published"
    BY <1>1, <1>2 DEF Rm!Rsvp
  <2>2. QED BY <1>1, <2>1, EventsRequest
<1>3. ASSUME NEW d \in Clock, Rm!Create(e, d)
      PROVE  RemindersInv'
  <2> DEFINE row == [Rm!Gone EXCEPT !.state = "published", !.due = d]
  <2>1. event' = [event EXCEPT ![e] = row] /\ UNCHANGED <<today, running, answers, late, sub, cuts>>
        /\ event[e].state = "absent"
    BY <1>3 DEF Rm!Create
  <2>2. d \in Nat /\ Rm!Gone \in EventRow /\ ~Rm!Gone.flag /\ Rm!Gone.rounds = 0
    BY DaysFollow DEF Rm!Gone, EventRow
  <2>3. row \in EventRow /\ ~row.flag /\ row.rounds = 0 /\ row.state = "published"
    BY <2>2 DEF EventRow
  <2> HIDE DEF row
  <2>4. event' \in [Event -> EventRow] /\ event'[e] = row /\ \A f \in Event : f # e => event'[f] = event[f]
    BY <1>1, <2>1, <2>3
  <2>5. answers[e] = {}
    BY <2>1 DEF RemindersInv, EventsInv, OfEvent
  <2>6. answers' = answers /\ late' = late /\ answers'[e] = {} /\ ~event'[e].flag /\ event'[e].rounds = 0
    BY <2>1, <2>3, <2>4, <2>5
  <2>7. QED BY <1>1, <2>1, <2>4, <2>6, EventsRequest
<1>4. ASSUME NEW d \in Clock, NEW state \in {"published", "canceled"}, Rm!Patch(e, d, state)
      PROVE  RemindersInv'
  <2>1. d \in Nat
    BY DaysFollow
  <2>2. /\ event' \in [Event -> EventRow] /\ \A f \in Event : f # e => event'[f] = event[f]
        /\ event'[e].flag = event[e].flag /\ event'[e].told = event[e].told /\ event'[e].missed = event[e].missed
        /\ event'[e].rounds = event[e].rounds
        /\ event'[e].state = state
        /\ UNCHANGED <<today, running, answers, late, sub, cuts>>
    BY <1>1, <1>4, <2>1 DEF Rm!Patch, EventRow
  <2>3. QED BY <1>1, <2>2, EventsRequest
<1>5. ASSUME Rm!DeleteEvent(e)
      PROVE  RemindersInv'
  <2>1. Rm!Gone \in EventRow /\ ~Rm!Gone.flag /\ Rm!Gone.rounds = 0
    BY DEF Rm!Gone, EventRow
  <2>2. /\ event' \in [Event -> EventRow] /\ event'[e] = Rm!Gone /\ \A f \in Event : f # e => event'[f] = event[f]
        /\ answers' \in [Event -> SUBSET Guest] /\ answers'[e] = {} /\ \A f \in Event : f # e => answers'[f] = answers[f]
        /\ late' \in [Event -> SUBSET Guest] /\ \A f \in Event : f # e => late'[f] = late[f]
        /\ UNCHANGED <<today, running, sub, cuts>>
    BY <1>1, <1>5, <2>1 DEF Rm!DeleteEvent
  <2>3. ~event'[e].flag /\ event'[e].rounds = 0
    BY <2>1, <2>2
  <2>4. QED BY <2>2, <2>3, EventsRequest
<1>6. QED BY <1>2, <1>3, <1>4, <1>5

\* The pass of the subscribers goes on; the events are as before.
LEMMA SubscribersGoOn ==
    ASSUME RemindersInv, NEW p \in PodcastPass, Rm!ThenPodcasts(p), UNCHANGED <<today, event, answers, late, cuts>>,
           sub' \in [Guest -> Subscriber]
    PROVE  /\ RemindersType' /\ EventsInv'
           /\ Rm!Podcasts' = p
<1>1. Rm!Podcasts' = p /\ Rm!Events' = Rm!Events
  BY DEF Rm!ThenPodcasts, Rm!Events, Rm!Podcasts, RemindersInv, RemindersType, Rm!Job
<1>2. RemindersType'
  BY <1>1 DEF Rm!ThenPodcasts, RemindersInv, RemindersType, Rm!Job
<1>3. QED BY <1>1, <1>2, EventsKept DEF RemindersInv, RemindersType

\* The letter, or its failure, counts for the end it names, if a payment has not moved it.
LEMMA LetterSent ==
    ASSUME RemindersInv, NEW r \in Rm!Podcasts.left, NEW sent \in BOOLEAN, Rm!Letter(r, sent)
    PROVE  RemindersInv'
<1> DEFINE g == r[1]
           p == [step |-> "flag", left |-> Rm!Podcasts.left \ {r}, at |-> g, who |-> {}]
           n == IF sub[g].until = r[2] /\ sent THEN sub[g].told + 1 ELSE sub[g].told
           m == sub[g].missed \/ (sub[g].until = r[2] /\ ~sent)
<1>1. /\ Rm!Podcasts \in PodcastPass /\ sub \in [Guest -> Subscriber] /\ cuts \in Nat
      /\ Rm!Podcasts.left \subseteq Guest \X Nat
  BY DEF RemindersInv, RemindersType, PodcastPass
<1>2. g \in Guest /\ sub[g] \in Subscriber
  BY <1>1
<1>3. /\ Rm!Podcasts.step = "next" /\ Rm!ThenPodcasts(p)
      /\ UNCHANGED <<today, event, answers, late, cuts>>
  BY DEF Rm!Letter
<1>4. p \in PodcastPass /\ p.step = "flag" /\ p.left = Rm!Podcasts.left \ {r} /\ p.at = g
  BY <1>1, <1>2 DEF PodcastPass
<1>5. sub' = [sub EXCEPT ![g].told = n, ![g].missed = m]
  <2>1. CASE sub[g].until # r[2]
    BY <1>1, <1>2, <2>1 DEF Rm!Letter, Subscriber
  <2>2. CASE sub[g].until = r[2] /\ sent
    BY <1>1, <1>2, <2>2 DEF Rm!Letter, Subscriber
  <2>3. CASE sub[g].until = r[2] /\ ~sent
    BY <1>1, <1>2, <2>3 DEF Rm!Letter, Subscriber
  <2>4. QED BY <2>1, <2>2, <2>3
<1>6. n \in Nat /\ m \in BOOLEAN /\ (n = 0 => m \/ sub[g].overtook) /\ n <= 1 + cuts /\ ~sub[g].flag
  <2>1. sub[g].told \in Nat
    BY <1>2 DEF Subscriber
  <2>2. ~sub[g].flag /\ (sub[g].until # r[2] => sub[g].overtook)
        /\ sub[g].told <= IF sub[g].flag \/ (Rm!Podcasts.step = "flag" /\ Rm!Podcasts.at = g) THEN 1 + cuts ELSE cuts
    BY <1>2 DEF RemindersInv, SubscribersInv
  <2>3. QED BY <1>1, <1>3, <2>1, <2>2
<1> HIDE DEF n, m, p
<1>7. /\ sub' \in [Guest -> Subscriber] /\ sub'[g].told = n /\ sub'[g].missed = m
      /\ \A h \in Guest : /\ sub'[h].until = sub[h].until /\ sub'[h].owed = sub[h].owed
                          /\ sub'[h].paid = sub[h].paid /\ sub'[h].overtook = sub[h].overtook
                          /\ sub'[h].flag = sub[h].flag /\ (h # g => sub'[h].told = sub[h].told /\ sub'[h].missed = sub[h].missed)
  BY <1>1, <1>2, <1>5, <1>6 DEF Subscriber
<1>8. RemindersType' /\ EventsInv' /\ Rm!Podcasts' = p
  BY <1>3, <1>4, <1>7, SubscribersGoOn
<1>9. Rm!PaidYearsLast'
  BY <1>7, PaidKept DEF RemindersInv
<1>10. \A s \in p.left : s[1] # g /\ s \in Rm!Podcasts.left /\ s[1] \in Guest
  BY <1>1, <1>4 DEF RemindersInv, SubscribersInv
<1> HIDE DEF g
<1>11. SubscribersInv'
  BY <1>2, <1>3, <1>4, <1>6, <1>7, <1>8, <1>10 DEF RemindersInv, SubscribersInv
<1>12. QED BY <1>8, <1>9, <1>11 DEF RemindersInv

\* The flag follows the letter.
LEMMA SubscriberFlagged ==
    ASSUME RemindersInv, Rm!FlagSubscriber
    PROVE  RemindersInv'
<1> DEFINE g == Rm!Podcasts.at
           p == Rm!Rest(Rm!Podcasts)
<1>1. /\ Rm!Podcasts \in PodcastPass /\ sub \in [Guest -> Subscriber] /\ cuts \in Nat
      /\ Rm!Podcasts.step = "flag" /\ g \in Guest
  BY DEF RemindersInv, RemindersType, SubscribersInv, Rm!FlagSubscriber
<1>2. /\ Rm!ThenPodcasts(p) /\ sub' = [sub EXCEPT ![g].flag = TRUE]
      /\ UNCHANGED <<today, event, answers, late, cuts>>
  BY DEF Rm!FlagSubscriber
<1>3. Rm!NoPass \in PodcastPass /\ Rm!NoPass.step = "idle" /\ Rm!NoPass.left = {}
  BY DEF Rm!NoPass, PodcastPass
<1>4. p \in PodcastPass /\ p.left = Rm!Podcasts.left /\ p.step = IF Rm!Podcasts.left = {} THEN "idle" ELSE "next"
  BY <1>1, <1>3 DEF Rm!Rest, PodcastPass
<1> HIDE DEF p
<1>5. /\ sub' \in [Guest -> Subscriber]
      /\ \A h \in Guest : /\ sub'[h].until = sub[h].until /\ sub'[h].owed = sub[h].owed
                          /\ sub'[h].paid = sub[h].paid /\ sub'[h].overtook = sub[h].overtook
                          /\ sub'[h].told = sub[h].told /\ sub'[h].missed = sub[h].missed
                          /\ sub'[h].flag = (h = g \/ sub[h].flag)
  BY <1>1, <1>2 DEF Subscriber
<1>6. RemindersType' /\ EventsInv' /\ Rm!Podcasts' = p
  BY <1>2, <1>4, <1>5, SubscribersGoOn
<1>7. Rm!PaidYearsLast'
  BY <1>5, PaidKept DEF RemindersInv
<1>8. \A s \in Rm!Podcasts.left : s[1] # g /\ s[1] \in Guest
  BY <1>1 DEF RemindersInv, SubscribersInv, PodcastPass
<1>9. SubscribersInv'
  BY <1>1, <1>2, <1>4, <1>5, <1>6, <1>8 DEF RemindersInv, SubscribersInv, Subscriber
<1>10. QED BY <1>6, <1>7, <1>9 DEF RemindersInv

\* A payment begins a new end, and says whether it has overtaken a pass.
LEMMA SubscriptionExtended ==
    ASSUME RemindersInv, NEW g \in Guest, Rm!Extend(g)
    PROVE  RemindersInv'
<1> DEFINE old == sub[g]
           until == Rm!NextPodcastExpiry(old.until, today)
           owed == (IF old.owed > today THEN old.owed ELSE today) + 365
           new == [until |-> until, flag |-> FALSE, told |-> 0, missed |-> FALSE, owed |-> owed, paid |-> old.paid + 1,
                   overtook |-> Rm!Overtakes(g)]
<1>1. /\ old \in Subscriber /\ sub \in [Guest -> Subscriber] /\ cuts \in Nat /\ today \in Nat
      /\ old.until \in Nat /\ old.owed \in Nat /\ old.paid \in Nat
      /\ old.owed <= old.until /\ old.until <= old.owed + old.paid
  BY DEF RemindersInv, RemindersType, Subscriber, Rm!PaidYearsLast
<1>2. \/ until = (IF old.until > today THEN old.until ELSE today) + 365
      \/ until = (IF old.until > today THEN old.until ELSE today) + 366
  BY <1>1, YearPaid
<1>3. sub' = [sub EXCEPT ![g] = new] /\ UNCHANGED <<today, running, event, answers, late, cuts>>
  BY DEF Rm!Extend
<1> HIDE DEF until
<1>4. until \in Nat /\ owed \in Nat /\ owed <= until /\ until <= owed + (old.paid + 1)
  BY <1>1, <1>2
<1>5. new \in Subscriber /\ ~new.flag /\ new.told = 0 /\ new.overtook = Rm!Overtakes(g)
      /\ new.until = until /\ new.owed = owed /\ new.paid = old.paid + 1
  BY <1>1, <1>4 DEF Subscriber, Rm!Overtakes
<1> HIDE DEF new, owed
<1>6. sub' \in [Guest -> Subscriber] /\ \A h \in Guest : sub'[h] = IF h = g THEN new ELSE sub[h]
  BY <1>1, <1>3, <1>5
<1>7. Rm!PaidYearsLast'
  BY <1>4, <1>5, <1>6 DEF RemindersInv, Rm!PaidYearsLast
<1>8. Rm!Events' = Rm!Events /\ Rm!Podcasts' = Rm!Podcasts
  BY <1>3 DEF Rm!Events, Rm!Podcasts
<1>9. RemindersType' /\ EventsInv'
  BY <1>3, <1>6, <1>8, EventsKept DEF RemindersInv, RemindersType
<1>10. \A r \in Rm!Podcasts.left : r[1] \in Guest
  BY DEF RemindersInv, RemindersType, PodcastPass
<1>11. SubscribersInv'
  <2>1. SubscribersInv /\ new.overtook = (Rm!Podcasts.at = g \/ \E r \in Rm!Podcasts.left : r[1] = g)
    BY <1>5 DEF RemindersInv, Rm!Overtakes
  <2>2. (Rm!Podcasts.step = "flag" =>
          /\ Rm!Podcasts.at \in Guest
          /\ \A r \in Rm!Podcasts.left : r[1] # Rm!Podcasts.at
          /\ sub[Rm!Podcasts.at].told = 0 => sub[Rm!Podcasts.at].missed \/ sub[Rm!Podcasts.at].overtook)'
    BY <1>6, <1>8, <2>1 DEF SubscribersInv
  <2>3. (\A r \in Rm!Podcasts.left :
          /\ ~sub[r[1]].flag
          /\ sub[r[1]].until # r[2] => sub[r[1]].overtook)'
    BY <1>5, <1>6, <1>8, <1>10, <2>1, ZenonT(30) DEF SubscribersInv
  <2>4. (\A h \in Guest :
          /\ sub[h].flag /\ sub[h].told = 0 => sub[h].missed \/ sub[h].overtook
          /\ sub[h].told <= IF sub[h].flag \/ (Rm!Podcasts.step = "flag" /\ Rm!Podcasts.at = h) THEN 1 + cuts ELSE cuts)'
    BY <1>1, <1>3, <1>5, <1>6, <1>8, <2>1 DEF SubscribersInv
  <2>5. QED BY <1>8, <2>1, <2>2, <2>3, <2>4 DEF SubscribersInv
<1>12. QED BY <1>7, <1>9, <1>11 DEF RemindersInv

\* Every step of jobs and requests keeps the flags right.
LEMMA RemindersStep == RemindersInv /\ [Rm!NextReminders]_(Rm!remindersVars) => RemindersInv'
BY JobsBegin, JobCut, TimePasses, AnswersRead, EventPushed, EventFlagged, EventRequests, LetterSent,
   SubscriberFlagged, SubscriptionExtended DEF Rm!NextReminders

\* A flag stands for reminders that were sent, though they may not have arrived,
\* however passes are cut off and overtaken by requests (tasks.py).
THEOREM RemindersKept == MembersSpec => []RemindersMatchFlags
<1>1. RemindersInv => RemindersMatchFlags
  BY DEF RemindersInv, RemindersType, EventsInv, OfEvent, SubscribersInv, Subscriber,
         RemindersMatchFlags, Rm!RemindersMatchFlags
<1>2. QED BY <1>1, RemindersAlone, RemindersInitially, RemindersStep, PTL DEF Rm!RemindersSpec

\* Each year paid for lasts a year, by any calendar (payments.py).
THEOREM PaidYearsKept == MembersSpec => []PaidYearsLast
<1>1. RemindersInv => PaidYearsLast
  BY DEF RemindersInv, PaidYearsLast
<1>2. QED BY <1>1, RemindersAlone, RemindersInitially, RemindersStep, PTL DEF Rm!RemindersSpec

-----------------------------------------------------------------------------
(* Feed: the archive of a channel.                                            *)

\* A synchronisation in Members does what Feed allows.
THEOREM FeedAlone == MembersSpec => Fd!FeedSpec
<1>1. InitMembers => Fd!InitFeed BY DEF InitMembers
<1>2. [NextMembers]_membersVars => [Fd!NextFeed]_(Fd!feedVars)
  <2>1. FeedMoves => Fd!NextFeed
    BY DEF FeedMoves, Fd!NextFeed
  <2>2. UNCHANGED feedVars => UNCHANGED Fd!feedVars
    BY DEF feedVars, Fd!feedVars
  <2>3. QED BY <2>1, <2>2, OthersMove DEF NextMembers, membersVars
<1>3. QED BY <1>1, <1>2, PTL DEF MembersSpec, Fd!FeedSpec

AnyText == Text \cup {Short}
Posts == UNION {[S -> AnyText] : S \in SUBSET (1..MaxPosts)}
Archive == [items : Posts, last : 0..MaxPosts, status : {"archive", "ok", "unavailable"}]
Synchronisation ==
    {Fd!NotReading} \cup [step : {"failed"}, previous : Archive]
        \cup [step : {"page", "merge"}, previous : Archive, found : Posts, before : 0..MaxPosts, read : Nat,
              steady : SUBSET (1..MaxPosts)]

FeedType ==
    /\ posted \in 0..MaxPosts
    /\ channel \in Posts /\ DOMAIN channel \subseteq 1..posted
    /\ archive \in Archive
    /\ reading \in Synchronisation
    /\ current \subseteq DOMAIN archive.items /\ DOMAIN archive.items \subseteq 1..posted

\* A message that does not change is on one of the pages that are still read.
Ahead(i, before) == {j \in Fd!Older(before) : j > i}
StillToCome(i) ==
    /\ reading.step = "page"
    /\ i \in Fd!Older(reading.before)
    /\ Cardinality(Ahead(i, reading.before)) < (Pages - reading.read) * PageSize

ReadingInv ==
    /\ reading.step # "none" => reading.previous = archive
    /\ reading.step \in {"page", "merge"} =>
          /\ DOMAIN reading.found \subseteq 1..posted
          /\ reading.read = 0 => reading.before = 0 /\ reading.steady = {} /\ DOMAIN reading.found = {}
                /\ reading.step = "page"
          /\ reading.read > 0 => reading.before \in 1..posted
          /\ reading.steady \subseteq DOMAIN channel
          /\ \A i \in (current \cup reading.steady) \cap DOMAIN reading.found \cap DOMAIN channel :
                reading.found[i] = channel[i]
          /\ \A i \in reading.steady :
                channel[i] = Short \/ i \in DOMAIN reading.found \/ StillToCome(i)

FeedInv == FeedType /\ ReadingInv /\ Fd!FeedIsWhole

\* Feed counts as its instance here does.
LEMMA FeedCounts == \A S : Fd!Cardinality(S) = Cardinality(S)
BY DEF Fd!Cardinality, Cardinality

\* What the newest n leave out has n newer ones, and they are the newest n.
LEMMA NewestLeaves ==
    ASSUME NEW b \in Nat, NEW S \in SUBSET (1..b), NEW n \in Nat, NEW i \in S \ Fd!Newest(S, n)
    PROVE  /\ Fd!Newest(S, n) \subseteq {j \in S : j > i}
           /\ Cardinality(Fd!Newest(S, n)) >= n
<1> DEFINE Above(k) == {j \in S : j > k}
           T == S \ Fd!Newest(S, n)
<1>1. \A k \in S : k \in Fd!Newest(S, n) <=> Cardinality(Above(k)) < n
  BY FeedCounts DEF Fd!Newest
<1>0. \A k \in S : k \in Nat /\ k <= b
  OBVIOUS
<1>2. \A k : IsFiniteSet(Above(k)) /\ Cardinality(Above(k)) \in Nat
  <2>1. IsFiniteSet(1..b)
    BY FS_Interval
  <2>2. \A k : Above(k) \subseteq S
    OBVIOUS
  <2>3. IsFiniteSet(S)
    BY <2>1, FS_Subset
  <2> HIDE DEF Above
  <2>4. QED BY <2>2, <2>3, FS_Subset, FS_CardinalityType
<1>3. PICK m \in T : \A k \in T : k <= m
  <2>1. T \in SUBSET Nat /\ T # {} /\ \A k \in T : k <= b
    BY <1>0
  <2>2. QED BY <2>1, SomeLargest
<1>4. Above(m) \subseteq Fd!Newest(S, n)
  <2>1. ASSUME NEW j \in Above(m), j \notin Fd!Newest(S, n)
        PROVE  FALSE
    <3>1. j \in T /\ m \in S /\ j > m
      BY <2>1
    <3>2. j <= m
      BY <1>3, <3>1
    <3>3. QED BY <1>0, <3>1, <3>2
  <2>2. QED BY <2>1
<1>5. Cardinality(Above(m)) >= n
  BY <1>1, <1>2, <1>3
<1>6. ASSUME NEW k \in Fd!Newest(S, n)
      PROVE  k > m
  <2>1. k \in S /\ k # m /\ k \in Nat /\ m \in Nat
    BY <1>3, <1>6 DEF Fd!Newest
  <2>2. ASSUME k < m
        PROVE  FALSE
    <3>1. \A j \in S : j > m => j > k
      BY <1>0, <2>1, <2>2
    <3>2. Cardinality(Above(m)) <= Cardinality(Above(k))
      <4>1. Above(m) \subseteq Above(k)
        BY <3>1
      <4>2. QED BY <1>2, <4>1, FS_Subset
    <3>3. Cardinality(Above(k)) < n
      BY <1>1, <1>6, <2>1
    <3>4. QED BY <1>2, <1>5, <3>2, <3>3
  <2>3. QED BY <2>1, <2>2
<1>7. Fd!Newest(S, n) = Above(m)
  BY <1>4, <1>6 DEF Fd!Newest
<1>8. i <= m /\ i \in Nat /\ m \in Nat
  <2>1. i \in T /\ m \in S /\ i \in S
    OBVIOUS
  <2>2. QED BY <1>0, <1>3, <2>1
<1>9. \A j \in Fd!Newest(S, n) : j \in S /\ j > i
  <2>1. \A j \in Fd!Newest(S, n) : j \in S /\ j \in Nat
    BY <1>0 DEF Fd!Newest
  <2>2. QED BY <1>6, <1>8, <2>1
<1>10. QED BY <1>5, <1>7, <1>9

\* A page holds a message, or takes as many of those before it as it has room.
LEMMA PageTakes ==
    ASSUME NEW b \in Nat, DOMAIN channel \subseteq 1..b, NEW before \in Nat, before = 0 \/ before \in 1..b,
           NEW i \in Fd!Older(before) \ Fd!Page(before), PageSize \in Nat, Fd!Page(before) # {}
    PROVE  LET next == Fd!Min(Fd!Page(before)) IN
           /\ i \in Fd!Older(next)
           /\ Cardinality(Ahead(i, next)) <= Cardinality(Ahead(i, before)) - PageSize
<1> DEFINE S == Fd!Older(before)
           P == Fd!Page(before)
           next == Fd!Min(P)
<1>1. S \subseteq 1..b /\ P \subseteq S /\ S \subseteq DOMAIN channel
  BY DEF Fd!Older, Fd!Page, Fd!Newest
<1>2. P \subseteq Ahead(i, before) /\ Cardinality(P) >= PageSize
  BY <1>1, NewestLeaves DEF Fd!Page, Ahead
<1>3. next \in P /\ \A x \in P : next <= x
  <2>1. P \in SUBSET Nat /\ P # {}
    BY <1>1
  <2>2. \E x \in P : \A y \in P : x <= y
    BY <2>1, SomeLeast
  <2>3. QED BY <2>2 DEF Fd!Min
<1>4. i \in Nat /\ next \in Nat /\ i < next /\ (before = 0 \/ next < before) /\ next \in 1..b
  BY <1>1, <1>2, <1>3 DEF Ahead, Fd!Older
<1>5. i \in Fd!Older(next)
  BY <1>1, <1>4 DEF Fd!Older
<1>6. Ahead(i, next) \subseteq Ahead(i, before) \ P
  BY <1>1, <1>3, <1>4 DEF Ahead, Fd!Older
<1>7. /\ IsFiniteSet(Ahead(i, before)) /\ IsFiniteSet(P)
      /\ Cardinality(Ahead(i, before)) \in Nat /\ Cardinality(P) \in Nat
      /\ Cardinality(Ahead(i, next)) \in Nat
  <2>1. Ahead(i, before) \subseteq 1..b /\ Ahead(i, next) \subseteq 1..b
    BY <1>1, <1>6 DEF Ahead
  <2>2. IsFiniteSet(1..b) /\ P \subseteq 1..b
    BY <1>1, FS_Interval
  <2>3. QED BY <2>1, <2>2, FS_Subset, FS_CardinalityType
<1>8. Cardinality(Ahead(i, before) \ P) = Cardinality(Ahead(i, before)) - Cardinality(P)
  <2>1. Ahead(i, before) \cap P = P
    BY <1>2
  <2>2. QED BY <1>7, <2>1, FS_Difference
<1>9. Cardinality(Ahead(i, next)) <= Cardinality(Ahead(i, before) \ P)
  BY <1>6, <1>7, FS_Subset, FS_Difference
<1>10. QED BY <1>2, <1>5, <1>7, <1>8, <1>9

\* An archive may be empty.
LEMMA NoPosts == <<>> \in Posts /\ DOMAIN <<>> = {}
BY DEF Posts

\* Nothing has been read at first.
LEMMA FeedInitially == Fd!InitFeed => FeedInv
<1> SUFFICES ASSUME Fd!InitFeed
             PROVE  FeedInv
  OBVIOUS
<1>2. FeedType /\ ReadingInv
  BY NoPosts, ArchiveBounds DEF Fd!InitFeed, FeedType, ReadingInv, Archive, Synchronisation, Fd!NotReading
<1>3. Fd!Max({0} \cup {}) = 0
  BY DEF Fd!Max
<1>4. Fd!FeedIsWhole
  BY NoPosts, <1>3 DEF Fd!InitFeed, Fd!FeedIsWhole
<1>5. QED BY <1>2, <1>4 DEF FeedInv

\* What is read is a record of a synchronisation on its way.
LEMMA OnItsWay ==
    ASSUME FeedType
    PROVE  /\ reading.step \in {"none", "failed", "page", "merge"}
           /\ reading.step = "none" <=> reading = Fd!NotReading
           /\ reading.step \in {"page", "merge"} =>
                 reading \in [step : {"page", "merge"}, previous : Archive, found : Posts, before : 0..MaxPosts,
                              read : Nat, steady : SUBSET (1..MaxPosts)]
           /\ reading.step # "none" => reading.previous \in Archive
BY DEF FeedType, Synchronisation, Fd!NotReading

\* What stays away keeps its text.
LEMMA Overlaid ==
    ASSUME NEW f \in Posts, NEW g \in Posts
    PROVE  /\ Fd!Over(f, g) \in Posts
           /\ DOMAIN Fd!Over(f, g) = DOMAIN f \cup DOMAIN g
           /\ \A i \in DOMAIN f : Fd!Over(f, g)[i] = f[i]
           /\ \A i \in DOMAIN g \ DOMAIN f : Fd!Over(f, g)[i] = g[i]
<1>1. /\ DOMAIN f \subseteq 1..MaxPosts /\ DOMAIN g \subseteq 1..MaxPosts
      /\ \A i \in DOMAIN f : f[i] \in AnyText
      /\ \A i \in DOMAIN g : g[i] \in AnyText
  BY DEF Posts
<1>2. Fd!Over(f, g) \in [DOMAIN f \cup DOMAIN g -> AnyText]
  BY <1>1 DEF Fd!Over
<1>3. QED BY <1>1, <1>2 DEF Fd!Over, Posts

\* Messages that come, change and go: those that stay as they were are still to
\* come, or found.
LEMMA ChannelChanges ==
    ASSUME FeedInv,
           posted' \in posted..MaxPosts, channel' \in Posts, DOMAIN channel' \subseteq 1..posted',
           archive' = archive, current' \subseteq current,
           NEW gone \in SUBSET DOMAIN channel,
           \A i \in DOMAIN channel \ gone : i \in DOMAIN channel' /\ channel'[i] = channel[i],
           DOMAIN channel' \cap (1..posted) \subseteq DOMAIN channel,
           gone \cap current' \cap DOMAIN channel' = {},
           reading' = IF reading.step \in {"page", "merge"} THEN [reading EXCEPT !.steady = @ \ gone] ELSE reading
    PROVE  FeedInv'
<1>1. posted \in 0..MaxPosts /\ current' \subseteq DOMAIN archive.items /\ DOMAIN archive.items \subseteq 1..posted
  BY DEF FeedInv, FeedType
<1>2. CASE reading.step \in {"page", "merge"}
  <2>0. PICK r : r = reading
    OBVIOUS
  <2>1. r \in [step : {"page", "merge"}, previous : Archive, found : Posts, before : 0..MaxPosts,
               read : Nat, steady : SUBSET (1..MaxPosts)]
    BY <1>2, <2>0, OnItsWay DEF FeedInv
  <2>2. /\ reading' \in [step : {"page", "merge"}, previous : Archive, found : Posts, before : 0..MaxPosts,
                         read : Nat, steady : SUBSET (1..MaxPosts)]
        /\ reading'.step = r.step /\ reading'.previous = r.previous /\ reading'.found = r.found
        /\ reading'.before = r.before /\ reading'.read = r.read /\ reading'.steady = r.steady \ gone
    BY <1>2, <2>0, <2>1
  <2>3. FeedType'
    BY <1>1, <2>2, ArchiveBounds DEF FeedInv, FeedType, Synchronisation
  <2>4. \A i \in r.steady \ gone : i \in DOMAIN channel' /\ channel'[i] = channel[i]
    BY <2>0, <1>2 DEF FeedInv, ReadingInv
  <2>5. ASSUME NEW i \in r.steady \ gone, StillToCome(i)
        PROVE  StillToCome(i)'
    <3>1. r.before \in 1..posted /\ r.step = "page" /\ reading'.before = r.before /\ posted \in Nat
      BY <2>0, <1>1, <1>2, <2>1, <2>2, <2>5, ArchiveBounds DEF FeedInv, ReadingInv, StillToCome
    <3>2. i \in Fd!Older(r.before) /\ Cardinality(Ahead(i, r.before)) < (Pages - r.read) * PageSize
      BY <2>0, <2>5 DEF StillToCome
    <3>3. i \in Fd!Older(r.before)'
      BY <2>4, <2>5, <3>2 DEF Fd!Older
    <3>4. Ahead(i, r.before)' \subseteq Ahead(i, r.before)
      <4>1. \A j \in DOMAIN channel' : j \in 1..posted'
        OBVIOUS
      <4>2. \A j \in DOMAIN channel' : j < r.before => j \in DOMAIN channel
        BY <3>1, <4>1
      <4>3. QED BY <3>1, <4>2 DEF Ahead, Fd!Older
    <3>5. /\ Cardinality(Ahead(i, r.before)') <= Cardinality(Ahead(i, r.before))
          /\ Cardinality(Ahead(i, r.before)') \in Nat /\ Cardinality(Ahead(i, r.before)) \in Nat
      <4>1. Ahead(i, r.before) \subseteq 1..posted
        BY DEF FeedInv, FeedType, Ahead, Fd!Older
      <4>2. 1 \in Int /\ posted \in Int
        BY <3>1
      <4>3. IsFiniteSet(1..posted)
        BY <4>2, FS_Interval
      <4>4. QED BY <3>4, <4>1, <4>3, FS_Subset, FS_CardinalityType
    <3>6. r.read \in Nat
      BY <2>1
    <3>7. Cardinality(Ahead(i, r.before)') < (Pages - r.read) * PageSize
      <4> DEFINE room == (Pages - r.read) * PageSize
      <4>1. room \in Int
        BY <3>6, ArchiveBounds
      <4> HIDE DEF room
      <4>2. Cardinality(Ahead(i, r.before)') < room
        BY <3>2, <3>5, <4>1 DEF room
      <4>3. QED BY <4>2 DEF room
    <3>8. QED BY <2>2, <3>1, <3>3, <3>7 DEF StillToCome
  <2>6. ReadingInv'
    <3>1. reading'.previous = archive' /\ DOMAIN reading'.found \subseteq 1..posted'
      BY <2>0, <1>1, <1>2, <2>1, <2>2, ArchiveBounds DEF FeedInv, ReadingInv
    <3>2. reading'.read = 0 => reading'.before = 0 /\ reading'.steady = {} /\ DOMAIN reading'.found = {}
                                 /\ reading'.step = "page"
      BY <2>0, <1>2, <2>2 DEF FeedInv, ReadingInv
    <3>3. reading'.read > 0 => reading'.before \in 1..posted'
      BY <2>0, <1>1, <1>2, <2>2, ArchiveBounds DEF FeedInv, ReadingInv
    <3>4. reading'.steady \subseteq DOMAIN channel'
      BY <2>2, <2>4
    <3>5. ASSUME NEW i \in (current' \cup reading'.steady) \cap DOMAIN reading'.found \cap DOMAIN channel'
          PROVE  reading'.found[i] = channel'[i]
      <4>1. i \in DOMAIN channel /\ i \notin gone /\ i \in (current \cup r.steady) \cap DOMAIN r.found
        BY <2>0, <1>1, <1>2, <2>2, <2>4, <3>5 DEF FeedInv, ReadingInv
      <4>2. QED BY <2>0, <1>2, <2>2, <4>1 DEF FeedInv, ReadingInv
    <3>6. ASSUME NEW i \in reading'.steady
          PROVE  channel'[i] = Short \/ i \in DOMAIN reading'.found \/ StillToCome(i)'
      BY <2>0, <1>2, <2>2, <2>4, <2>5, <3>6 DEF FeedInv, ReadingInv
    <3>7. QED BY <3>1, <3>2, <3>3, <3>4, <3>5, <3>6 DEF ReadingInv
  <2>7. Fd!FeedIsWhole'
    BY <1>1 DEF FeedInv, Fd!FeedIsWhole
  <2>8. QED BY <2>3, <2>6, <2>7 DEF FeedInv
<1>3. CASE reading.step \notin {"page", "merge"}
  <2>1. reading' = reading
    BY <1>3
  <2>2. FeedType' /\ ReadingInv'
    BY <1>1, <1>3, <2>1, ArchiveBounds DEF FeedInv, FeedType, ReadingInv
  <2>3. Fd!FeedIsWhole'
    BY <1>1 DEF FeedInv, Fd!FeedIsWhole
  <2>4. QED BY <2>2, <2>3 DEF FeedInv
<1>4. QED BY <1>2, <1>3

\* Authors publish, edit and delete; what a synchronisation has read of the rest stays.
LEMMA AuthorsChange ==
    ASSUME FeedInv
    PROVE  /\ \A text \in AnyText : Fd!PublishPost(text) => FeedInv'
           /\ \A i \in DOMAIN channel, text \in AnyText : Fd!EditPost(i, text) => FeedInv'
           /\ \A i \in DOMAIN channel : Fd!DeletePost(i) => FeedInv'
<1>1. /\ posted \in 0..MaxPosts /\ posted \in Nat /\ MaxPosts \in Nat
      /\ channel \in Posts /\ DOMAIN channel \subseteq 1..posted /\ channel \in [DOMAIN channel -> AnyText]
      /\ DOMAIN channel \subseteq 1..MaxPosts
      /\ \A S \in SUBSET (1..MaxPosts) : [S -> AnyText] \subseteq Posts
  BY ArchiveBounds DEF FeedInv, FeedType, Posts
<1>2. reading.step \in {"page", "merge"} =>
         reading = [reading EXCEPT !.steady = @ \ {}]
  BY OnItsWay DEF FeedInv
<1>3. ASSUME NEW text \in AnyText, Fd!PublishPost(text)
      PROVE  FeedInv'
  <2>1. /\ posted' = posted + 1 /\ posted' \in posted..MaxPosts
        /\ UNCHANGED <<archive, reading, current, changes>>
        /\ channel' = Fd!Over(channel, [i \in {posted + 1} |-> text])
    BY <1>1, <1>3 DEF Fd!PublishPost
  <2> DEFINE f == [i \in {posted + 1} |-> text]
  <2>2. f \in Posts /\ DOMAIN f = {posted + 1}
    <3>1. f \in [{posted + 1} -> AnyText] /\ DOMAIN f = {posted + 1}
      BY <1>3
    <3>2. {posted + 1} \in SUBSET (1..MaxPosts)
      BY <1>1, <2>1
    <3>3. QED BY <1>1, <3>1, <3>2
  <2> HIDE DEF f
  <2>3. /\ channel' \in Posts /\ DOMAIN channel' = DOMAIN channel \cup {posted + 1}
        /\ \A i \in DOMAIN channel : channel'[i] = channel[i]
    BY <1>1, <2>1, <2>2, Overlaid DEF f
  <2>4. /\ DOMAIN channel' \subseteq 1..posted' /\ DOMAIN channel' \cap (1..posted) \subseteq DOMAIN channel
    BY <1>1, <2>1, <2>3
  <2>5. reading' = IF reading.step \in {"page", "merge"} THEN [reading EXCEPT !.steady = @ \ {}] ELSE reading
    BY <1>2, <2>1
  <2> DEFINE gone == {}
  <2>6. /\ gone \in SUBSET DOMAIN channel /\ \A i \in DOMAIN channel \ gone : i \in DOMAIN channel' /\ channel'[i] = channel[i]
        /\ gone \cap current' \cap DOMAIN channel' = {}
        /\ reading' = IF reading.step \in {"page", "merge"} THEN [reading EXCEPT !.steady = @ \ gone] ELSE reading
    BY <2>3, <2>5
  <2> HIDE DEF gone
  <2>7. current' \subseteq current
    BY <2>1
  <2>8. QED BY <2>1, <2>3, <2>4, <2>6, <2>7, ChannelChanges
<1>4. ASSUME NEW i \in DOMAIN channel, NEW text \in AnyText, Fd!EditPost(i, text)
      PROVE  FeedInv'
  <2>1. /\ channel' = [channel EXCEPT ![i] = text]
        /\ reading' = IF reading.step \in {"page", "merge"} THEN [reading EXCEPT !.steady = @ \ {i}] ELSE reading
        /\ current' = current \ {i} /\ UNCHANGED <<posted, archive>>
    BY <1>4 DEF Fd!EditPost, Fd!Unsteady
  <2>2. /\ channel' \in [DOMAIN channel -> AnyText] /\ DOMAIN channel' = DOMAIN channel
        /\ \A j \in DOMAIN channel \ {i} : channel'[j] = channel[j]
    BY <1>1, <2>1
  <2>3. channel' \in Posts
    BY <1>1, <2>2
  <2>4. posted' \in posted..MaxPosts
    BY <1>1, <2>1
  <2> DEFINE gone == {i}
  <2>5. /\ gone \in SUBSET DOMAIN channel /\ \A j \in DOMAIN channel \ gone : j \in DOMAIN channel' /\ channel'[j] = channel[j]
        /\ gone \cap current' \cap DOMAIN channel' = {} /\ current' \subseteq current
        /\ DOMAIN channel' \subseteq 1..posted' /\ DOMAIN channel' \cap (1..posted) \subseteq DOMAIN channel
        /\ reading' = IF reading.step \in {"page", "merge"} THEN [reading EXCEPT !.steady = @ \ gone] ELSE reading
    BY <1>1, <2>1, <2>2
  <2> HIDE DEF gone
  <2>6. QED BY <2>1, <2>3, <2>4, <2>5, ChannelChanges
<1>5. ASSUME NEW i \in DOMAIN channel, Fd!DeletePost(i)
      PROVE  FeedInv'
  <2>1. /\ channel' = [j \in DOMAIN channel \ {i} |-> channel[j]]
        /\ reading' = IF reading.step \in {"page", "merge"} THEN [reading EXCEPT !.steady = @ \ {i}] ELSE reading
        /\ UNCHANGED <<posted, archive, current>>
    BY <1>5 DEF Fd!DeletePost, Fd!Unsteady
  <2>2. /\ channel' \in [DOMAIN channel \ {i} -> AnyText] /\ DOMAIN channel' = DOMAIN channel \ {i}
        /\ \A j \in DOMAIN channel \ {i} : channel'[j] = channel[j]
    BY <1>1, <2>1
  <2>3. channel' \in Posts
    BY <1>1, <2>2
  <2>4. posted' \in posted..MaxPosts
    BY <1>1, <2>1
  <2> DEFINE gone == {i}
  <2>5. /\ gone \in SUBSET DOMAIN channel /\ \A j \in DOMAIN channel \ gone : j \in DOMAIN channel' /\ channel'[j] = channel[j]
        /\ gone \cap current' \cap DOMAIN channel' = {} /\ current' \subseteq current
        /\ DOMAIN channel' \subseteq 1..posted' /\ DOMAIN channel' \cap (1..posted) \subseteq DOMAIN channel
        /\ reading' = IF reading.step \in {"page", "merge"} THEN [reading EXCEPT !.steady = @ \ gone] ELSE reading
    BY <1>1, <2>1, <2>2
  <2> HIDE DEF gone
  <2>6. QED BY <2>1, <2>3, <2>4, <2>5, ChannelChanges
<1>6. QED BY <1>3, <1>4, <1>5

\* A synchronisation that begins, fails or ends without a success leaves the
\* posts of the archive.
LEMMA ReadingEnds ==
    ASSUME FeedInv
    PROVE  /\ Fd!StartReading => FeedInv'
           /\ Fd!FetchFails => FeedInv'
           /\ Fd!ReadingStops => FeedInv'
           /\ Fd!Unavailable => FeedInv'
<1>1. archive \in Archive /\ <<>> \in Posts /\ DOMAIN <<>> = {}
  BY NoPosts DEF FeedInv, FeedType
<1>2. ASSUME Fd!StartReading
      PROVE  FeedInv'
  <2>1. /\ reading' = [step |-> "page", previous |-> archive, found |-> <<>>, before |-> 0, read |-> 0, steady |-> {}]
        /\ UNCHANGED <<channel, posted, archive, current>>
    BY <1>2 DEF Fd!StartReading
  <2>2. /\ reading' \in Synchronisation /\ reading'.step = "page" /\ reading'.previous = archive
        /\ reading'.found = <<>> /\ reading'.before = 0 /\ reading'.read = 0 /\ reading'.steady = {}
    BY <1>1, <2>1, ArchiveBounds DEF Synchronisation
  <2>3. QED BY <1>1, <2>1, <2>2 DEF FeedInv, FeedType, ReadingInv, Fd!FeedIsWhole
<1>3. ASSUME Fd!FetchFails
      PROVE  FeedInv'
  <2>1. /\ reading' = [step |-> "failed", previous |-> reading.previous]
        /\ reading.previous = archive
        /\ UNCHANGED <<channel, posted, archive, current>>
    BY <1>3 DEF Fd!FetchFails, FeedInv, ReadingInv
  <2>2. reading' \in Synchronisation /\ reading'.step = "failed" /\ reading'.previous = archive
    BY <1>1, <2>1 DEF Synchronisation
  <2>3. QED BY <2>1, <2>2 DEF FeedInv, FeedType, ReadingInv, Fd!FeedIsWhole
<1>4. ASSUME Fd!ReadingStops
      PROVE  FeedInv'
  <2>1. reading' = Fd!NotReading /\ reading'.step = "none" /\ UNCHANGED <<channel, posted, archive, current>>
    BY <1>4 DEF Fd!ReadingStops, Fd!NotReading
  <2>2. QED BY <2>1 DEF FeedInv, FeedType, ReadingInv, Synchronisation, Fd!FeedIsWhole
<1>5. ASSUME Fd!Unavailable
      PROVE  FeedInv'
  <2>1. reading' = Fd!NotReading /\ reading'.step = "none" /\ UNCHANGED <<channel, posted, current>>
    BY <1>5 DEF Fd!Unavailable, Fd!NotReading
  <2>2. archive' = [archive EXCEPT !.status = "unavailable"]
    BY <1>5 DEF Fd!Unavailable, FeedInv, ReadingInv
  <2>3. archive' \in Archive /\ archive'.items = archive.items /\ archive'.last = archive.last
    BY <1>1, <2>2 DEF Archive
  <2>4. QED BY <2>1, <2>3 DEF FeedInv, FeedType, ReadingInv, Synchronisation, Fd!FeedIsWhole
<1>6. QED BY <1>2, <1>3, <1>4, <1>5

\* Max is the largest member of a bounded set of numbers.
LEMMA LargestIs ==
    ASSUME NEW b \in Nat, NEW S \in SUBSET (0..b), S # {}
    PROVE  Fd!Max(S) \in S /\ \A x \in S : x <= Fd!Max(S)
<1>1. S \in SUBSET Nat /\ \A x \in S : x <= b
  OBVIOUS
<1>2. \E x \in S : \A y \in S : x >= y
  BY <1>1, SomeLargest
<1>3. QED BY <1>1, <1>2 DEF Fd!Max

\* What was merged has every message that stayed as it was while it was read.
LEMMA PostsMerged ==
    ASSUME FeedInv, Fd!MergePosts
    PROVE  FeedInv'
<1> DEFINE found == reading.found
           items == Fd!Merged(archive.items, found)
<1>1. /\ reading.step = "merge" /\ reading.previous = archive /\ Fd!Acceptable(archive, found)
      /\ archive' = [items |-> items, last |-> Fd!Max(DOMAIN found), status |-> "ok"]
      /\ current' = current \cup Fd!Posts(reading.steady)
      /\ reading' = Fd!NotReading /\ reading'.step = "none"
      /\ UNCHANGED <<channel, posted>>
  BY DEF Fd!MergePosts, FeedInv, ReadingInv, Fd!NotReading
<1>2. /\ found \in Posts /\ DOMAIN found \subseteq 1..posted
      /\ archive \in Archive /\ archive.items \in Posts /\ archive.last \in 0..MaxPosts
      /\ DOMAIN archive.items \subseteq 1..posted /\ posted \in Nat /\ posted <= MaxPosts /\ MaxPosts \in Nat
  BY <1>1, OnItsWay, ArchiveBounds DEF FeedInv, FeedType, ReadingInv, Archive
<1>3. /\ items \in Posts /\ DOMAIN items = DOMAIN found \cup DOMAIN archive.items
      /\ \A i \in DOMAIN found : items[i] = found[i]
      /\ \A i \in DOMAIN archive.items \ DOMAIN found : items[i] = archive.items[i]
  BY <1>2, Overlaid DEF Fd!Merged
<1>4. /\ Fd!Max(DOMAIN found) \in DOMAIN found /\ \A x \in DOMAIN found : x <= Fd!Max(DOMAIN found)
      /\ Fd!Max(DOMAIN found) >= archive.last
  <2>1. DOMAIN found \in SUBSET (0..posted) /\ DOMAIN found # {}
    BY <1>1, <1>2 DEF Fd!Acceptable
  <2>2. QED BY <1>1, <1>2, <2>1, LargestIs DEF Fd!Acceptable
<1>5. \A i \in Fd!Posts(reading.steady) : i \in DOMAIN found /\ found[i] = channel[i]
  BY <1>1 DEF FeedInv, ReadingInv, StillToCome, Fd!Posts
<1>6. archive.last = Fd!Max({0} \cup DOMAIN archive.items)
  BY DEF FeedInv, Fd!FeedIsWhole
<1>7. \A x \in DOMAIN archive.items : x <= archive.last
  <2>1. {0} \cup DOMAIN archive.items \in SUBSET (0..posted) /\ {0} \cup DOMAIN archive.items # {}
    BY <1>2
  <2>2. QED BY <1>2, <1>6, <2>1, LargestIs
<1> HIDE DEF found, items
<1>8. archive'.items = items /\ archive'.last = Fd!Max(DOMAIN found) /\ archive' \in Archive
  BY <1>1, <1>2, <1>3, <1>4 DEF Archive
<1>9. FeedType'
  <2>1. current \subseteq DOMAIN archive.items
    BY DEF FeedInv, FeedType
  <2>2. current' \subseteq DOMAIN items /\ DOMAIN items \subseteq 1..posted
    BY <1>1, <1>2, <1>3, <1>5, <2>1
  <2>3. QED BY <1>1, <1>8, <2>2 DEF FeedInv, FeedType, Synchronisation
<1>10. ReadingInv'
  BY <1>1 DEF ReadingInv
<1>11. Fd!FeedIsWhole'
  <2>1. ASSUME NEW i \in current'
        PROVE  i \in DOMAIN items /\ (i \in DOMAIN channel => items[i] = channel[i])
    <3>1. CASE i \in current
      BY <1>1, <1>3, <3>1 DEF FeedInv, FeedType, ReadingInv, Fd!FeedIsWhole, found
    <3>2. CASE i \in Fd!Posts(reading.steady)
      BY <1>3, <1>5, <3>2
    <3>3. QED BY <1>1, <2>1, <3>1, <3>2
  <2>2. Fd!Max(DOMAIN found) = Fd!Max({0} \cup DOMAIN items)
    <3> DEFINE S == {0} \cup DOMAIN items
    <3>1. S \in SUBSET (0..posted) /\ S # {}
      BY <1>2, <1>3
    <3>2. Fd!Max(S) \in S /\ \A x \in S : x <= Fd!Max(S)
      BY <1>2, <3>1, LargestIs
    <3>3. Fd!Max(DOMAIN found) \in S /\ \A x \in S : x <= Fd!Max(DOMAIN found)
      BY <1>2, <1>3, <1>4, <1>7
    <3>4. \A x \in S : x \in Nat
      BY <3>1
    <3> HIDE DEF S
    <3>5. Fd!Max(DOMAIN found) = Fd!Max(S)
      BY <3>2, <3>3, <3>4
    <3>6. QED BY <3>5 DEF S
  <2>3. QED BY <1>1, <1>8, <2>1, <2>2 DEF Fd!FeedIsWhole
<1>12. QED BY <1>9, <1>10, <1>11 DEF FeedInv

\* The newest pages of a channel hold what no later page is to bring.
LEMMA PageFetched ==
    ASSUME FeedInv, Fd!FetchPage
    PROVE  FeedInv'
<1>1. PICK r : r = reading
  OBVIOUS
<1> DEFINE page == Fd!Page(r.before)
           next == Fd!Min(page)
           more == Fd!Older(next) # {} /\ r.read + 1 < Pages
           shown == [i \in Fd!Posts(page) |-> channel[i]]
           found == Fd!Over(shown, r.found)
           steady == IF r.read = 0 THEN Fd!Newest(DOMAIN channel, Pages * PageSize) ELSE r.steady
<1>2. /\ r.step = "page" /\ page # {}
      /\ reading' = [step |-> IF more THEN "page" ELSE "merge", previous |-> r.previous, found |-> found,
                     before |-> next, read |-> r.read + 1, steady |-> steady]
      /\ UNCHANGED <<channel, posted, archive, current>>
  BY <1>1 DEF Fd!FetchPage
<1>3. /\ r \in [step : {"page", "merge"}, previous : Archive, found : Posts, before : 0..MaxPosts,
               read : Nat, steady : SUBSET (1..MaxPosts)]
      /\ r.read \in Nat /\ r.before \in Nat /\ r.found \in Posts /\ r.previous = archive
      /\ posted \in Nat /\ posted <= MaxPosts /\ channel \in Posts /\ DOMAIN channel \subseteq 1..posted
      /\ r.before = 0 \/ r.before \in 1..posted
      /\ MaxPosts \in Nat /\ Pages \in Nat /\ PageSize \in Nat
  BY <1>1, <1>2, OnItsWay, ArchiveBounds DEF FeedInv, FeedType, ReadingInv
<1>4. page \subseteq DOMAIN channel /\ page \subseteq Fd!Older(r.before)
  BY DEF Fd!Page, Fd!Newest, Fd!Older
<1>5. next \in page /\ next \in 1..posted
  <2>1. page \in SUBSET Nat
    BY <1>3, <1>4
  <2>2. \E x \in page : \A y \in page : x <= y
    BY <1>2, <2>1, SomeLeast
  <2>3. QED BY <1>3, <1>4, <2>2 DEF Fd!Min
<1>6. /\ shown \in Posts /\ DOMAIN shown = Fd!Posts(page)
      /\ \A i \in Fd!Posts(page) : shown[i] = channel[i]
  <2>1. Fd!Posts(page) \subseteq DOMAIN channel /\ \A i \in DOMAIN channel : channel[i] \in AnyText
    BY <1>3, <1>4 DEF Fd!Posts, Posts
  <2>2. shown \in [Fd!Posts(page) -> AnyText] /\ Fd!Posts(page) \in SUBSET (1..MaxPosts)
    BY <1>3, <2>1
  <2>3. QED BY <2>2 DEF Posts
<1>7. /\ found \in Posts /\ DOMAIN found = Fd!Posts(page) \cup DOMAIN r.found
      /\ \A i \in Fd!Posts(page) : found[i] = channel[i]
      /\ \A i \in DOMAIN r.found \ Fd!Posts(page) : found[i] = r.found[i]
  BY <1>3, <1>6, Overlaid
<1>8. steady \subseteq DOMAIN channel
  BY <1>1, <1>2 DEF FeedInv, ReadingInv, Fd!Newest
<1>9. ASSUME NEW i \in steady, r.read = 0
      PROVE  i \in Fd!Older(r.before) /\ Cardinality(Ahead(i, r.before)) < (Pages - r.read) * PageSize
  <2>1. r.before = 0 /\ i \in Fd!Newest(DOMAIN channel, Pages * PageSize)
    BY <1>1, <1>2, <1>9 DEF FeedInv, ReadingInv
  <2>2. Fd!Older(0) = DOMAIN channel /\ Ahead(i, 0) = {j \in DOMAIN channel : j > i}
    BY DEF Fd!Older, Ahead
  <2>3. Cardinality(Ahead(i, 0)) < Pages * PageSize
    BY <2>1, <2>2, FeedCounts DEF Fd!Newest
  <2>4. (Pages - r.read) * PageSize = Pages * PageSize
    BY <1>3, <1>9
  <2>5. QED BY <2>1, <2>2, <2>3, <2>4 DEF Fd!Newest
<1>10. ASSUME NEW i \in steady
       PROVE  \/ channel[i] = Short \/ i \in DOMAIN found
              \/ /\ i \in Fd!Older(next)
                 /\ Cardinality(Ahead(i, next)) < (Pages - (r.read + 1)) * PageSize
  <2>1. CASE i \in page
    BY <1>7, <2>1 DEF Fd!Posts
  <2>2. CASE i \notin page /\ i \in Fd!Older(r.before)
                /\ Cardinality(Ahead(i, r.before)) < (Pages - r.read) * PageSize
    <3>1. /\ i \in Fd!Older(next)
          /\ Cardinality(Ahead(i, next)) <= Cardinality(Ahead(i, r.before)) - PageSize
      BY <1>2, <1>3, <2>2, PageTakes
    <3>2. Cardinality(Ahead(i, next)) \in Nat /\ Cardinality(Ahead(i, r.before)) \in Nat
      <4>1. Ahead(i, next) \subseteq 1..posted /\ Ahead(i, r.before) \subseteq 1..posted
        BY <1>3 DEF Ahead, Fd!Older
      <4>2. 1 \in Int /\ posted \in Int
        BY <1>3
      <4>3. IsFiniteSet(1..posted)
        BY <4>2, FS_Interval
      <4>4. QED BY <4>1, <4>3, FS_Subset, FS_CardinalityType
    <3>3. (Pages - (r.read + 1)) * PageSize = (Pages - r.read) * PageSize - PageSize
          /\ (Pages - r.read) * PageSize \in Int
      BY <1>3
    <3>4. QED BY <1>3, <2>2, <3>1, <3>2, <3>3
  <2>3. CASE channel[i] = Short \/ i \in DOMAIN r.found
    BY <1>7, <2>3
  <2>4. QED BY <1>1, <1>2, <1>9, <2>1, <2>2, <2>3 DEF FeedInv, ReadingInv, StillToCome
<1>11. ASSUME NEW i \in (current \cup steady) \cap DOMAIN found \cap DOMAIN channel
       PROVE  found[i] = channel[i]
  <2>1. CASE i \in Fd!Posts(page)
    BY <1>7, <2>1
  <2>2. CASE i \notin Fd!Posts(page)
    <3>1. i \in DOMAIN r.found /\ found[i] = r.found[i]
      BY <1>7, <1>11, <2>2
    <3>2. r.read # 0
      BY <1>1, <1>2, <3>1 DEF FeedInv, ReadingInv
    <3>3. i \in current \cup r.steady
      BY <3>2
    <3>4. QED BY <1>1, <1>2, <1>11, <3>1, <3>3 DEF FeedInv, ReadingInv
  <2>3. QED BY <2>1, <2>2
<1> HIDE DEF page, next, more, shown, found, steady
<1>12. /\ reading' \in Synchronisation
       /\ reading'.step = (IF more THEN "page" ELSE "merge") /\ reading'.previous = archive
       /\ reading'.found = found /\ reading'.before = next /\ reading'.read = r.read + 1 /\ reading'.steady = steady
  <2>1. archive \in Archive /\ next \in 0..MaxPosts /\ r.read + 1 \in Nat /\ steady \in SUBSET (1..MaxPosts)
    BY <1>3, <1>5, <1>8 DEF FeedInv, FeedType
  <2>2. QED BY <1>2, <1>3, <1>7, <2>1 DEF Synchronisation
<1>13. FeedType' /\ Fd!FeedIsWhole'
  BY <1>2, <1>12 DEF FeedInv, FeedType, Fd!FeedIsWhole
<1>14. ASSUME NEW i \in steady
       PROVE  channel[i] = Short \/ i \in DOMAIN found \/ StillToCome(i)'
  <2>1. CASE channel[i] = Short \/ i \in DOMAIN found
    BY <2>1
  <2>2. CASE i \in Fd!Older(next) /\ Cardinality(Ahead(i, next)) < (Pages - (r.read + 1)) * PageSize
    <3>1. Cardinality(Ahead(i, next)) \in Nat
      <4>1. Ahead(i, next) \subseteq 1..posted
        BY <1>3 DEF Ahead, Fd!Older
      <4>2. 1 \in Int /\ posted \in Int
        BY <1>3
      <4>3. IsFiniteSet(1..posted)
        BY <4>2, FS_Interval
      <4>4. QED BY <4>1, <4>3, FS_Subset, FS_CardinalityType
    <3>2. r.read + 1 < Pages
      <4>1. SUFFICES ASSUME r.read + 1 >= Pages
                     PROVE  FALSE
        BY <1>3
      <4>2. (Pages - (r.read + 1)) * PageSize <= 0
        BY <1>3, <4>1
      <4>3. (Pages - (r.read + 1)) * PageSize \in Int
        BY <1>3
      <4>4. QED BY <2>2, <3>1, <4>2, <4>3
    <3>3. more /\ reading'.step = "page"
      BY <1>12, <2>2, <3>2 DEF more
    <3>4. PICK n : n = next
      OBVIOUS
    <3>5. Fd!Older(n)' = Fd!Older(n) /\ Ahead(i, n)' = Ahead(i, n)
      BY <1>2 DEF Fd!Older, Ahead
    <3>6. i \in Fd!Older(n)' /\ Cardinality(Ahead(i, n)') < (Pages - (r.read + 1)) * PageSize
      BY <2>2, <3>4, <3>5
    <3>7. reading'.before = n /\ reading'.read = r.read + 1
      BY <1>12, <3>4
    <3>8. QED BY <3>3, <3>6, <3>7 DEF StillToCome
  <2>3. QED BY <1>10, <2>1, <2>2
<1>15. ReadingInv'
  <2>1. DOMAIN found \subseteq 1..posted
    BY <1>3, <1>4, <1>7, <1>1, <1>2 DEF FeedInv, ReadingInv, Fd!Posts
  <2>2. QED BY <1>2, <1>3, <1>5, <1>8, <1>11, <1>12, <1>14, <2>1 DEF ReadingInv
<1>16. QED BY <1>13, <1>15 DEF FeedInv

\* A step of the archive keeps what it has read as it is.
LEMMA FeedStep ==
    ASSUME FeedInv, [Fd!NextFeed]_(Fd!feedVars)
    PROVE  FeedInv'
<1>1. CASE UNCHANGED Fd!feedVars
  BY <1>1 DEF FeedInv, FeedType, ReadingInv, StillToCome, Ahead, Fd!feedVars, Fd!FeedIsWhole, Fd!Older
<1>2. ASSUME NEW text \in Text \cup {Short}, Fd!PublishPost(text)
      PROVE  FeedInv'
  BY <1>2, AuthorsChange DEF AnyText
<1>3. ASSUME NEW text \in Text \cup {Short}, NEW i \in DOMAIN channel, Fd!EditPost(i, text)
      PROVE  FeedInv'
  BY <1>3, AuthorsChange DEF AnyText
<1>4. ASSUME NEW i \in DOMAIN channel, Fd!DeletePost(i)
      PROVE  FeedInv'
  BY <1>4, AuthorsChange
<1>5. QED BY <1>1, <1>2, <1>3, <1>4, ReadingEnds, PostsMerged, PageFetched DEF Fd!NextFeed

\* The archive has what its pages showed, in the text of the channel unless it
\* was edited since, for every page size, number of pages and bound (sync_changes.py).
THEOREM FeedKept == MembersSpec => []FeedIsWhole
<1>1. FeedInv => FeedIsWhole
  BY DEF FeedInv, FeedIsWhole
<1>2. QED BY <1>1, FeedAlone, FeedInitially, FeedStep, PTL DEF Fd!FeedSpec

-----------------------------------------------------------------------------
(* Admission: limits and failed logins.                                       *)

\* What stands before the handlers in Members does what Admission allows.
THEOREM AdmissionAlone == MembersSpec => Ad!AdmissionSpec
<1>1. InitMembers => Ad!InitAdmission BY DEF InitMembers
<1>2. [NextMembers]_membersVars => [Ad!NextAdmission]_(Ad!admissionVars)
  <2>1. AdmissionMoves => Ad!NextAdmission
    BY DEF AdmissionMoves, Ad!NextAdmission
  <2>2. UNCHANGED admissionVars => UNCHANGED Ad!admissionVars
    BY DEF admissionVars, Ad!admissionVars, Ad!limits, Ad!attempts
  <2>3. QED BY <2>1, <2>2, OthersMove DEF NextMembers, membersVars
<1>3. QED BY <1>1, <1>2, PTL DEF MembersSpec, Ad!AdmissionSpec

\* Times in their order, none of them to come.
Times(ts, now) ==
    /\ ts \in Seq(Nat)
    /\ \A m, n \in 1..Len(ts) : m <= n => ts[m] <= ts[n]
    /\ \A n \in 1..Len(ts) : ts[n] <= now

\* From the front have left exactly the times that are too old.
Leave(gone, ts, rest, span, later, now) ==
    /\ gone \in 0..Len(ts)
    /\ \A m \in 1..gone : ts[m] + span <= later
    /\ gone < Len(ts) => ts[gone + 1] + span > later
    /\ Times(rest, now) /\ Len(rest) = Len(ts) - gone
    /\ \A n \in 1..Len(rest) : rest[n] = ts[n + gone]

LEMMA RecentTimes ==
    ASSUME NEW now \in Nat, NEW later \in Nat, NEW span \in Nat, NEW ts, Times(ts, now),
           NEW rest, rest = Ad!Recent(ts, span, later)
    PROVE  \E gone : Leave(gone, ts, rest, span, later, now)
<1> DEFINE Gone(n) == /\ \A m \in 1..n : ts[m] + span <= later
                      /\ n < Len(ts) => ts[n + 1] + span > later
           S == {n \in 0..Len(ts) : n < Len(ts) => ts[n + 1] + span > later}
<1>1. ts \in Seq(Nat) /\ Len(ts) \in Nat /\ \A m \in 1..Len(ts) : ts[m] \in Nat
  BY DEF Times
<1>2. S \in SUBSET Nat /\ Len(ts) \in S
  BY <1>1
<1>3. PICK n \in S : \A m \in S : n <= m
  BY <1>2, SomeLeast
<1>4. ASSUME NEW m \in 1..n
      PROVE  ts[m] + span <= later
  <2>1. n \in 0..Len(ts) /\ m \in 1..Len(ts)
    BY <1>1
  <2>2. PICK k \in 0..Len(ts) : k = m - 1 /\ k + 1 = m /\ k < n /\ k < Len(ts)
    BY <1>1, <2>1
  <2>3. k \notin S
    BY <1>3, <2>1, <2>2
  <2>4. ts[m] \in Nat /\ ~(ts[m] + span > later)
    BY <1>1, <2>1, <2>2, <2>3
  <2>5. QED BY <2>4
<1>5. n \in 0..Len(ts) /\ Gone(n)
  BY <1>3, <1>4
<1> HIDE DEF Gone
<1>6. PICK gone : gone = CHOOSE k \in 0..Len(ts) : Gone(k)
  OBVIOUS
<1>7. gone \in 0..Len(ts) /\ Gone(gone)
  BY <1>5, <1>6
<1>9. rest = SubSeq(ts, gone + 1, Len(ts))
  BY <1>6 DEF Ad!Recent, Gone
<1>10. /\ rest \in Seq(Nat) /\ Len(rest) = Len(ts) - gone
       /\ \A k \in 1..Len(rest) : rest[k] = ts[k + gone]
  BY <1>1, <1>7, <1>9
<1>11. \A k \in 1..Len(rest) : k + gone \in 1..Len(ts)
  BY <1>1, <1>7, <1>10
<1>12. ASSUME NEW m \in 1..Len(rest), NEW k \in 1..Len(rest), m <= k
       PROVE  rest[m] <= rest[k]
  <2>1. m + gone \in 1..Len(ts) /\ k + gone \in 1..Len(ts) /\ m + gone <= k + gone
    BY <1>7, <1>11, <1>12
  <2>2. QED BY <1>10, <2>1 DEF Times
<1>13. Times(rest, now)
  BY <1>10, <1>11, <1>12 DEF Times
<1>14. QED BY <1>7, <1>10, <1>13 DEF Gone, Leave

\* One time more.
LEMMA OneMore ==
    ASSUME NEW now \in Nat, NEW ts, Times(ts, now)
    PROVE  /\ Times(Append(ts, now), now) /\ Len(Append(ts, now)) = Len(ts) + 1
           /\ \A n \in 1..Len(ts) : Append(ts, now)[n] = ts[n]
           /\ Append(ts, now)[Len(ts) + 1] = now
<1>1. /\ Append(ts, now) \in Seq(Nat) /\ Len(Append(ts, now)) = Len(ts) + 1
      /\ \A n \in 1..Len(ts) : Append(ts, now)[n] = ts[n]
      /\ Append(ts, now)[Len(ts) + 1] = now
  BY DEF Times
<1>2. \A n \in 1..Len(ts) + 1 : Append(ts, now)[n] <= now
  BY <1>1 DEF Times
<1>3. \A m, n \in 1..Len(ts) + 1 : m <= n => Append(ts, now)[m] <= Append(ts, now)[n]
  BY <1>1, <1>2 DEF Times
<1>4. QED BY <1>1, <1>2, <1>3 DEF Times

\* The requests that passed are among the times the limit counts, and no later than
\* those: what a limit forgets has left its span.
Fits(es, ss, span, maximum, now) ==
    /\ Times(es, now) /\ Times(ss, now)
    /\ \A n \in 1..Len(ss) : ss[n] + span > now
    /\ Len(ss) <= Len(es) /\ Len(es) <= maximum
    /\ \A n \in 1..Len(ss) : ss[n] <= es[Len(es) - Len(ss) + n]

LEMMA FitsTimes ==
    ASSUME NEW now \in Nat, NEW span \in Nat, NEW maximum \in Nat, NEW es, NEW ss, Fits(es, ss, span, maximum, now)
    PROVE  /\ es \in Seq(Nat) /\ ss \in Seq(Nat) /\ Len(es) \in Nat /\ Len(ss) \in Nat
           /\ Len(ss) <= Len(es) /\ Len(es) <= maximum
           /\ \A n \in 1..Len(es) : es[n] \in Nat /\ es[n] <= now
           /\ \A n \in 1..Len(ss) : ss[n] \in Nat /\ ss[n] + span > now
           /\ \A m, n \in 1..Len(es) : m <= n => es[m] <= es[n]
           /\ \A m, n \in 1..Len(ss) : m <= n => ss[m] <= ss[n]
           /\ \A n \in 1..Len(ss) : Len(es) - Len(ss) + n \in 1..Len(es)
BY SMTT(30) DEF Fits, Times

\* As time passes requests leave the span.
LEMMA LimitWaits ==
    ASSUME NEW now \in Nat, NEW span \in Nat, NEW maximum \in Nat, NEW es, NEW ss, Fits(es, ss, span, maximum, now)
    PROVE  Fits(es, Ad!Recent(ss, span, now + 1), span, maximum, now + 1)
<1>1. Times(ss, now) /\ now + 1 \in Nat
  BY DEF Fits
<1>2. PICK rest : rest = Ad!Recent(ss, span, now + 1)
  OBVIOUS
<1>3. PICK gone : Leave(gone, ss, rest, span, now + 1, now)
  BY <1>1, <1>2, RecentTimes
<1> USE <1>3 DEF Leave
<1>4. Len(es) \in Nat /\ Len(ss) \in Nat /\ Len(ss) <= Len(es) /\ Len(es) <= maximum
  BY FitsTimes
<1>5. ASSUME NEW ts, Times(ts, now)
      PROVE  Times(ts, now + 1)
  BY <1>5, SMTT(30) DEF Times
<1>6. Times(rest, now + 1) /\ Times(es, now + 1)
  BY <1>2, <1>3, <1>5 DEF Fits
<1>7. ASSUME NEW n \in 1..Len(rest)
      PROVE  rest[n] + span > now + 1 /\ rest[n] <= es[Len(es) - Len(rest) + n]
  <2>1. n + gone \in 1..Len(ss) /\ gone + 1 \in 1..Len(ss) /\ gone + 1 <= n + gone /\ gone < Len(ss)
    BY <1>2, <1>3, <1>4
  <2>2. ss[gone + 1] <= ss[n + gone] /\ ss[gone + 1] \in Nat /\ ss[n + gone] \in Nat
    BY <2>1, FitsTimes
  <2>3. rest[n] = ss[n + gone] /\ ss[gone + 1] + span > now + 1
    BY <1>2, <1>3, <2>1
  <2>4. Len(es) - Len(ss) + (n + gone) = Len(es) - Len(rest) + n
    BY <1>3, <1>4
  <2>5. ss[n + gone] <= es[Len(es) - Len(ss) + (n + gone)]
    BY <2>1 DEF Fits
  <2>6. rest[n] <= es[Len(es) - Len(rest) + n]
    BY <2>3, <2>4, <2>5
  <2>7. rest[n] + span > now + 1
    BY <2>2, <2>3
  <2>8. QED BY <2>6, <2>7
<1>8. Len(rest) <= Len(es)
  BY <1>2, <1>3, <1>4
<1>9. QED BY <1>2, <1>3, <1>4, <1>6, <1>7, <1>8 DEF Fits

\* A request makes the limit forget what has left the span.
LEMMA LimitForgets ==
    ASSUME NEW now \in Nat, NEW span \in Nat, NEW maximum \in Nat, NEW es, NEW ss, Fits(es, ss, span, maximum, now)
    PROVE  Fits(Ad!Recent(es, span, now), ss, span, maximum, now)
<1>1. Times(es, now)
  BY DEF Fits
<1>2. PICK rest : rest = Ad!Recent(es, span, now)
  OBVIOUS
<1>3. PICK gone : Leave(gone, es, rest, span, now, now)
  BY <1>1, <1>2, RecentTimes
<1> USE <1>3 DEF Leave
<1>4. Len(es) \in Nat /\ Len(ss) \in Nat /\ Len(ss) <= Len(es) /\ Len(es) <= maximum
  BY FitsTimes
<1>5. Len(ss) <= Len(rest)
  <2> SUFFICES ASSUME Len(ss) > Len(es) - gone
               PROVE  FALSE
    BY <1>2, <1>3, <1>4
  <2>1. /\ Len(ss) - Len(es) + gone \in 1..Len(ss)
        /\ Len(es) - Len(ss) + (Len(ss) - Len(es) + gone) = gone
        /\ gone \in 1..Len(es) /\ gone \in 1..gone
    BY <1>4
  <2>2. PICK n \in 1..Len(ss) : Len(es) - Len(ss) + n = gone
    BY <2>1
  <2>3. ss[n] <= es[gone]
    BY <2>2 DEF Fits
  <2>4. es[gone] + span <= now
    BY <1>2, <1>3, <2>1
  <2>5. ss[n] \in Nat /\ es[gone] \in Nat /\ ss[n] + span > now
    BY <2>1, FitsTimes
  <2>6. QED BY <2>3, <2>4, <2>5
<1>6. ASSUME NEW n \in 1..Len(ss)
      PROVE  ss[n] <= rest[Len(rest) - Len(ss) + n]
  <2>1. Len(rest) - Len(ss) + n \in 1..Len(rest) /\ (Len(rest) - Len(ss) + n) + gone = Len(es) - Len(ss) + n
    BY <1>2, <1>3, <1>4, <1>5
  <2>2. rest[Len(rest) - Len(ss) + n] = es[Len(es) - Len(ss) + n]
    BY <1>2, <1>3, <2>1
  <2>3. QED BY <2>2 DEF Fits
<1>7. Len(rest) <= maximum
  BY <1>2, <1>3, <1>4
<1>8. QED BY <1>2, <1>3, <1>5, <1>6, <1>7 DEF Fits

\* Counters are removed when none of their requests is in the span any more.
LEMMA LimitSwept ==
    ASSUME NEW now \in Nat, NEW span \in Nat, NEW maximum \in Nat, NEW es, NEW ss, Fits(es, ss, span, maximum, now),
           NEW keep \in Nat, span <= keep, es # <<>>, now - es[Len(es)] >= keep
    PROVE  Fits(<<>>, ss, span, maximum, now)
<1>1. Len(es) \in Nat \ {0} /\ Len(ss) \in Nat /\ es[Len(es)] \in Nat
  <2>1. es \in Seq(Nat) /\ Len(ss) \in Nat
    BY FitsTimes
  <2>2. QED BY <2>1
<1>2. Len(ss) = 0
  <2> SUFFICES ASSUME Len(ss) # 0
               PROVE  FALSE
    OBVIOUS
  <2>1. Len(ss) \in 1..Len(ss) /\ Len(es) - Len(ss) + Len(ss) = Len(es)
    BY <1>1
  <2>2. PICK n \in 1..Len(ss) : Len(es) - Len(ss) + n = Len(es)
    BY <2>1
  <2>3. ss[n] <= es[Len(es)]
    BY <2>2 DEF Fits
  <2>4. ss[n] + span > now /\ ss[n] \in Nat
    BY FitsTimes
  <2>5. QED BY <1>1, <2>3, <2>4
<1>3. Times(<<>>, now) /\ Len(<<>>) = 0
  BY DEF Times
<1>4. QED BY <1>2, <1>3 DEF Fits

\* A request below the maximum is counted where it passes.
LEMMA LimitPasses ==
    ASSUME NEW now \in Nat, NEW span \in Nat \ {0}, NEW maximum \in Nat, NEW es, NEW ss,
           Fits(es, ss, span, maximum, now), Len(es) < maximum
    PROVE  Fits(Append(es, now), Append(ss, now), span, maximum, now)
<1>1. PICK more, passed : more = Append(es, now) /\ passed = Append(ss, now)
  OBVIOUS
<1>2. /\ Times(more, now) /\ Len(more) = Len(es) + 1 /\ more[Len(es) + 1] = now
      /\ \A n \in 1..Len(es) : more[n] = es[n]
  BY <1>1, OneMore DEF Fits
<1>3. /\ Times(passed, now) /\ Len(passed) = Len(ss) + 1 /\ passed[Len(ss) + 1] = now
      /\ \A n \in 1..Len(ss) : passed[n] = ss[n]
  BY <1>1, OneMore DEF Fits
<1>4. Len(es) \in Nat /\ Len(ss) \in Nat /\ Len(ss) <= Len(es)
  BY FitsTimes
<1>5. ASSUME NEW n \in 1..Len(ss) + 1
      PROVE  passed[n] + span > now /\ passed[n] <= more[Len(more) - Len(passed) + n]
  <2>1. CASE n = Len(ss) + 1
    <3>1. Len(more) - Len(passed) + n = Len(es) + 1
      BY <1>2, <1>3, <1>4, <2>1
    <3>2. QED BY <1>2, <1>3, <2>1, <3>1
  <2>2. CASE n \in 1..Len(ss)
    <3>1. Len(es) - Len(ss) + n \in 1..Len(es) /\ Len(more) - Len(passed) + n = Len(es) - Len(ss) + n
      BY <1>2, <1>3, <1>4, <2>2
    <3>2. more[Len(more) - Len(passed) + n] = es[Len(es) - Len(ss) + n]
      BY <1>2, <3>1
    <3>3. QED BY <1>3, <2>2, <3>2 DEF Fits
  <2>3. QED BY <1>4, <2>1, <2>2
<1>6. Len(passed) <= Len(more) /\ Len(more) <= maximum
  BY <1>2, <1>3, <1>4
<1>7. QED BY <1>1, <1>2, <1>3, <1>5, <1>6 DEF Fits

\* A request that is refused makes the last one younger.
LEMMA LimitRefuses ==
    ASSUME NEW now \in Nat, NEW span \in Nat, NEW maximum \in Nat, NEW es, NEW ss,
           Fits(es, ss, span, maximum, now), es # <<>>
    PROVE  Fits([es EXCEPT ![Len(es)] = now], ss, span, maximum, now)
<1>1. PICK more : more = [es EXCEPT ![Len(es)] = now]
  OBVIOUS
<1>2. /\ es \in Seq(Nat) /\ Len(es) \in 1..Len(es) /\ Len(es) \in Nat /\ Len(ss) \in Nat /\ Len(ss) <= Len(es)
      /\ Len(es) <= maximum
  <2>1. es \in Seq(Nat) /\ Len(ss) \in Nat /\ Len(ss) <= Len(es) /\ Len(es) <= maximum
    BY FitsTimes
  <2>2. QED BY <2>1
<1>3. /\ more \in Seq(Nat) /\ Len(more) = Len(es) /\ more[Len(es)] = now
      /\ \A n \in 1..Len(es) : n # Len(es) => more[n] = es[n]
  BY <1>1, <1>2
<1>4. \A n \in 1..Len(es) : es[n] <= now /\ es[n] \in Nat
  BY FitsTimes
<1>5. \A n \in 1..Len(es) : es[n] <= more[n] /\ more[n] <= now /\ more[n] \in Nat
  BY <1>3, <1>4
<1>6. ASSUME NEW m \in 1..Len(es), NEW n \in 1..Len(es), m <= n
      PROVE  more[m] <= more[n]
  <2>1. CASE n = Len(es)
    BY <1>3, <1>5, <2>1
  <2>2. CASE n # Len(es)
    <3>1. m # Len(es) /\ es[m] <= es[n]
      BY <1>2, <1>6, <2>2, FitsTimes
    <3>2. QED BY <1>3, <2>2, <3>1
  <2>3. QED BY <2>1, <2>2
<1>7. Times(more, now)
  BY <1>3, <1>5, <1>6 DEF Times
<1>8. ASSUME NEW n \in 1..Len(ss)
      PROVE  ss[n] <= more[Len(more) - Len(ss) + n]
  <2>1. Len(es) - Len(ss) + n \in 1..Len(es) /\ Len(more) - Len(ss) + n = Len(es) - Len(ss) + n
    BY <1>2, <1>3
  <2>2. PICK k \in 1..Len(es) : k = Len(es) - Len(ss) + n
    BY <2>1
  <2>3. ss[n] <= es[k] /\ ss[n] \in Nat
    BY <2>2, FitsTimes DEF Fits
  <2>4. es[k] <= more[k] /\ es[k] \in Nat /\ more[k] \in Nat
    BY <1>4, <1>5
  <2>5. QED BY <2>1, <2>2, <2>3, <2>4, SMTT(30)
<1>9. QED BY <1>1, <1>2, <1>3, <1>7, <1>8 DEF Fits

LimitsInv ==
    /\ seconds \in Nat
    /\ entries = [l \in Limited |-> entries[l]] /\ served = [l \in Limited |-> served[l]]
    /\ \A l \in Limited : Fits(entries[l], served[l], Span[l], Maximum[l], seconds)

\* What a request finds of a limit's counter.
LEMMA LimitFound ==
    ASSUME LimitsInv, NEW l \in Limited
    PROVE  LET old == Ad!Swept(entries, seconds)[l]
           IN  /\ Fits(old, served[l], Span[l], Maximum[l], seconds)
               /\ Fits(Ad!Recent(old, Span[l], seconds), served[l], Span[l], Maximum[l], seconds)
<1> DEFINE old == Ad!Swept(entries, seconds)[l]
<1>1. Fits(entries[l], served[l], Span[l], Maximum[l], seconds) /\ seconds \in Nat
  BY DEF LimitsInv
<1>2. Span[l] \in Nat \ {0} /\ Maximum[l] \in Nat /\ Keep \in Nat /\ Span[l] <= Keep
  BY LimitsFit
<1>3. \/ old = entries[l]
      \/ old = <<>> /\ entries[l] # <<>> /\ seconds - entries[l][Len(entries[l])] >= Keep
  BY DEF Ad!Swept
<1> HIDE DEF old
<1>4. Fits(old, served[l], Span[l], Maximum[l], seconds)
  BY <1>1, <1>2, <1>3, LimitSwept
<1>5. Fits(Ad!Recent(old, Span[l], seconds), served[l], Span[l], Maximum[l], seconds)
  BY <1>1, <1>2, <1>4, LimitForgets
<1>6. QED BY <1>4, <1>5 DEF old

\* A request is counted by each limit it comes to.
LEMMA LimitsRequest ==
    ASSUME LimitsInv, Ad!Request
    PROVE  LimitsInv'
<1> DEFINE old(l) == Ad!Swept(entries, seconds)[l]
           recent(l) == Ad!Recent(old(l), Span[l], seconds)
           passes == Len(recent("global")) < Maximum["global"]
<1>1. Limited = {"global", "route"}
  BY LimitsFit
<1>2. /\ entries' = [l \in Limited |-> IF l = "global" \/ passes THEN Ad!Counted(l, recent(l), seconds) ELSE old(l)]
      /\ served' = [l \in Limited |-> IF passes /\ Len(recent(l)) < Maximum[l] THEN Append(served[l], seconds) ELSE served[l]]
      /\ seconds' = seconds
  BY <1>1 DEF Ad!Request, Ad!Allowed
<1> HIDE DEF old, recent, passes
<1>3. ASSUME NEW l \in Limited
      PROVE  Fits(entries'[l], served'[l], Span[l], Maximum[l], seconds)
  <2>1. /\ Fits(old(l), served[l], Span[l], Maximum[l], seconds)
        /\ Fits(recent(l), served[l], Span[l], Maximum[l], seconds)
    BY LimitFound DEF old, recent
  <2>2. seconds \in Nat /\ Span[l] \in Nat \ {0} /\ Span[l] \in Nat /\ Maximum[l] \in Nat
    BY LimitsFit DEF LimitsInv
  <2>3. passes <=> Len(recent("global")) < Maximum["global"]
    BY DEF passes
  <2>4. CASE ~passes /\ l # "global"
    BY <1>2, <2>1, <2>4
  <2>5. CASE Len(recent(l)) < Maximum[l] /\ passes
    <3>1. entries'[l] = Append(recent(l), seconds) /\ served'[l] = Append(served[l], seconds)
      BY <1>2, <2>5 DEF Ad!Counted, Ad!Allowed
    <3>2. QED BY <2>1, <2>2, <2>5, <3>1, LimitPasses
  <2>6. CASE ~(Len(recent(l)) < Maximum[l]) /\ (passes \/ l = "global")
    <3>1. /\ served'[l] = served[l]
          /\ entries'[l] = IF recent(l) # <<>> THEN [recent(l) EXCEPT ![Len(recent(l))] = seconds] ELSE recent(l)
      BY <1>2, <2>6 DEF Ad!Counted, Ad!Allowed
    <3>2. CASE recent(l) = <<>>
      BY <2>1, <3>1, <3>2
    <3>3. CASE recent(l) # <<>>
      <4>1. Fits([recent(l) EXCEPT ![Len(recent(l))] = seconds], served[l], Span[l], Maximum[l], seconds)
        BY <2>1, <2>2, <3>3, LimitRefuses
      <4>2. QED BY <3>1, <3>3, <4>1
    <3>4. QED BY <3>2, <3>3
  <2>7. QED BY <2>3, <2>4, <2>5, <2>6
<1>4. QED BY <1>2, <1>3 DEF LimitsInv

LEMMA LimitsPass ==
    ASSUME LimitsInv, Ad!Passes
    PROVE  LimitsInv'
<1>1. /\ seconds' = seconds + 1 /\ entries' = entries
      /\ served' = [l \in Limited |-> Ad!Recent(served[l], Span[l], seconds + 1)]
  BY DEF Ad!Passes
<1>2. ASSUME NEW l \in Limited
      PROVE  Fits(entries'[l], served'[l], Span[l], Maximum[l], seconds')
  <2>1. seconds \in Nat /\ Span[l] \in Nat /\ Maximum[l] \in Nat /\ Fits(entries[l], served[l], Span[l], Maximum[l], seconds)
    BY LimitsFit DEF LimitsInv
  <2>2. QED BY <1>1, <2>1, LimitWaits
<1>3. QED BY <1>1, <1>2 DEF LimitsInv

LEMMA LimitsStep == LimitsInv /\ [Ad!NextAdmission]_(Ad!admissionVars) => LimitsInv'
<1> SUFFICES ASSUME LimitsInv, [Ad!NextAdmission]_(Ad!admissionVars)
             PROVE  LimitsInv'
  OBVIOUS
<1>1. UNCHANGED <<seconds, entries, served>> => LimitsInv'
  BY DEF LimitsInv
<1>2. CASE UNCHANGED Ad!admissionVars
  BY <1>1, <1>2 DEF Ad!admissionVars, Ad!limits
<1>3. ASSUME NEW h \in Login, NEW v \in Visitor, Ad!StartLogin(h, v)
      PROVE  LimitsInv'
  BY <1>1, <1>3 DEF Ad!StartLogin, Ad!limits
<1>4. ASSUME NEW h \in Login, Ad!WrongPassword(h) \/ Ad!RightPassword(h) \/ Ad!LoginStops(h)
      PROVE  LimitsInv'
  BY <1>1, <1>4 DEF Ad!WrongPassword, Ad!RightPassword, Ad!LoginStops, Ad!limits
<1>5. QED BY <1>2, <1>3, <1>4, LimitsRequest, LimitsPass, Zenon DEF Ad!NextAdmission

LEMMA LimitsInitially == Ad!InitAdmission => LimitsInv
<1> SUFFICES ASSUME Ad!InitAdmission
             PROVE  LimitsInv
  OBVIOUS
<1>1. \A l \in Limited : Fits(<<>>, <<>>, Span[l], Maximum[l], 0)
  <2>1. Times(<<>>, 0) /\ Len(<<>>) = 0
    BY DEF Times
  <2>2. \A l \in Limited : Maximum[l] \in Nat
    BY LimitsFit
  <2>3. QED BY <2>1, <2>2 DEF Fits
<1>2. QED BY <1>1 DEF Ad!InitAdmission, LimitsInv

\* The logins whose password is being verified.
Verifying == {h \in Login : login[h] # "none"}
Locking == MaxEmail + Cardinality(Login)

\* The failures since the last success, of which the first ones come from before the
\* counter's window and the others are in it; in the window there are no more than
\* the counter says, one less once it is over, and while it locks the address no
\* more than the lock takes and the logins then verified, less those still verified.
Apart(before, ws, e, p, now) ==
    /\ before \in 0..Len(ws) /\ before <= Locking - 3
    /\ e.fails = 0 => before = Len(ws)
    /\ e.fails > 0 =>
          /\ \A n \in 1..before : ws[n] <= e.first
          /\ Len(ws) - before <= e.fails
          /\ IF e.first + AttemptSpan <= now THEN Len(ws) - before <= e.fails - 1
             ELSE before < Len(ws) /\ ws[before + 1] = e.first
    /\ e.fails >= MaxEmail /\ e.until > now =>
          /\ Len(ws) - before + p <= Locking - 1
          /\ e.first + AttemptSpan <= now => Len(ws) - before + p <= Locking - 2
Accounted(ws, e, p, now) ==
    /\ e \in [fails : Nat, first : Nat, until : Nat] /\ e.first <= now
    /\ Times(ws, now) /\ \A n \in 1..Len(ws) : ws[n] + AttemptSpan > now
    /\ e.fails >= MaxEmail => \A n \in 1..Len(ws) : ws[n] + LockEmail <= e.until
    /\ \E before \in 0..Len(ws) : Apart(before, ws, e, p, now)

LoginsInv ==
    /\ seconds \in Nat /\ login = [h \in Login |-> login[h]]
    /\ Accounted(wrong, byEmail, Cardinality(Verifying), seconds)

\* There is a login at most for each request, and a lock takes more than one failure.
LEMMA VerifyingAreFew ==
    /\ IsFiniteSet(Verifying) /\ Cardinality(Verifying) \in Nat
    /\ Locking \in Nat /\ Locking >= 3 /\ Locking >= MaxEmail + 1 /\ Locking - MaxEmail = Cardinality(Login)
    /\ Cardinality(Verifying) <= Cardinality(Login) /\ Cardinality(Login) \in Nat
<1>1. Verifying \in SUBSET Login /\ IsFiniteSet(Login) /\ Login # {}
  BY LocksFit DEF Verifying
<1>2. IsFiniteSet(Verifying) /\ Cardinality(Verifying) <= Cardinality(Login) /\ Cardinality(Login) \in Nat
      /\ Cardinality(Verifying) \in Nat
  BY <1>1, FS_Subset, FS_CardinalityType
<1>3. Cardinality(Login) # 0
  BY <1>1, FS_EmptySet
<1>4. QED BY <1>2, <1>3, LocksFit DEF Locking

\* What the counter and the failures are numbers of.
LEMMA AccountedTimes ==
    ASSUME NEW now \in Nat, NEW ws, NEW e, NEW p, Accounted(ws, e, p, now)
    PROVE  /\ ws \in Seq(Nat) /\ Len(ws) \in Nat /\ e.fails \in Nat /\ e.first \in Nat /\ e.until \in Nat
           /\ \A n \in 1..Len(ws) : ws[n] \in Nat /\ ws[n] <= now /\ ws[n] + AttemptSpan > now
           /\ \A m, n \in 1..Len(ws) : m <= n => ws[m] <= ws[n]
BY DEF Accounted, Times

\* When the lock is over no failure is in the span any more.
LEMMA LockIsOver ==
    ASSUME NEW now \in Nat, NEW ws, NEW e, NEW p, Accounted(ws, e, p, now), e.fails >= MaxEmail, e.until <= now
    PROVE  Len(ws) = 0
<1> SUFFICES ASSUME Len(ws) # 0
             PROVE  FALSE
  OBVIOUS
<1>1. 1 \in 1..Len(ws)
  BY AccountedTimes
<1>2. ws[1] + LockEmail <= e.until /\ ws[1] + AttemptSpan > now /\ ws[1] \in Nat /\ e.until \in Nat
  BY <1>1, AccountedTimes DEF Accounted
<1>3. QED BY <1>2, LocksFit

\* When the window is over, no failure from before it is in the span.
LEMMA WindowIsOver ==
    ASSUME NEW now \in Nat, NEW ws, NEW e, NEW p, Accounted(ws, e, p, now),
           NEW before, Apart(before, ws, e, p, now), e.fails > 0, e.first + AttemptSpan <= now
    PROVE  before = 0
<1> SUFFICES ASSUME before # 0
             PROVE  FALSE
  OBVIOUS
<1>1. 1 \in 1..before /\ 1 \in 1..Len(ws)
  BY AccountedTimes DEF Apart
<1>2. ws[1] <= e.first /\ ws[1] + AttemptSpan > now /\ ws[1] \in Nat /\ e.first \in Nat
  BY <1>1, AccountedTimes DEF Apart
<1>3. QED BY <1>2, LocksFit

\* So a window that opens when the counter's is over finds few failures.
LEMMA FewBefore ==
    ASSUME NEW now \in Nat, NEW ws, NEW e, NEW p \in Nat, Accounted(ws, e, p, now),
           e.fails = 0 \/ now - e.first > AttemptSpan,
           p >= 1 \/ e.until <= now
    PROVE  Len(ws) <= Locking - 3
<1>1. PICK before \in 0..Len(ws) : Apart(before, ws, e, p, now)
  BY DEF Accounted
<1>2. Len(ws) \in Nat /\ e.fails \in Nat /\ e.first \in Nat /\ e.until \in Nat /\ MaxEmail \in Nat /\ AttemptSpan \in Nat
      /\ Locking \in Nat /\ Locking >= 3 /\ Locking >= MaxEmail + 1
  BY AccountedTimes, VerifyingAreFew, LocksFit
<1>3. CASE e.fails = 0
  BY <1>1, <1>3 DEF Apart
<1>4. CASE e.fails > 0
  <2>1. e.first + AttemptSpan <= now
    BY <1>2, <1>4
  <2>2. before = 0 /\ Len(ws) <= e.fails - 1
    <3>1. before = 0
      BY <1>1, <1>4, <2>1, WindowIsOver
    <3>2. Len(ws) - before <= e.fails - 1
      BY <1>1, <1>4, <2>1 DEF Apart
    <3>3. QED BY <1>2, <3>1, <3>2
  <2>3. CASE e.fails < MaxEmail
    BY <1>2, <2>2, <2>3
  <2>4. CASE e.fails >= MaxEmail /\ e.until <= now
    BY <1>2, <2>4, LockIsOver
  <2>5. CASE e.fails >= MaxEmail /\ e.until > now
    <3>1. Len(ws) - before + p <= Locking - 2
      BY <1>1, <2>1, <2>5 DEF Apart
    <3>2. QED BY <1>2, <2>2, <2>5, <3>1
  <2>6. QED BY <1>2, <2>3, <2>4, <2>5
<1>5. QED BY <1>2, <1>3, <1>4

\* The failures are bounded by what is accounted for.
LEMMA FewFailures ==
    ASSUME NEW now \in Nat, NEW ws, NEW e, NEW p \in Nat, Accounted(ws, e, p, now)
    PROVE  Len(ws) <= 2 * (MaxEmail - 1) + 2 * (Cardinality(Login) - 1)
<1>1. PICK before \in 0..Len(ws) : Apart(before, ws, e, p, now)
  BY DEF Accounted
<1>2. Len(ws) \in Nat /\ e.fails \in Nat /\ e.until \in Nat /\ MaxEmail \in Nat
      /\ Locking \in Nat /\ Locking >= 3 /\ Locking >= MaxEmail + 1
  BY AccountedTimes, VerifyingAreFew, LocksFit
<1>3. Len(ws) <= Locking - 3 + (Locking - 1)
  <2>1. CASE e.fails = 0
    BY <1>1, <1>2, <2>1 DEF Apart
  <2>2. CASE e.fails > 0 /\ e.fails < MaxEmail
    <3>1. Len(ws) - before <= e.fails /\ before <= Locking - 3 /\ before \in Nat
      BY <1>1, <2>2 DEF Apart
    <3>2. QED BY <1>2, <2>2, <3>1
  <2>3. CASE e.fails >= MaxEmail /\ e.until <= now
    <3>1. Len(ws) = 0
      BY <2>3, LockIsOver
    <3>2. QED BY <1>2, <3>1
  <2>4. CASE e.fails >= MaxEmail /\ e.until > now
    <3>1. Len(ws) - before + p <= Locking - 1 /\ before <= Locking - 3 /\ before \in Nat
      BY <1>1, <2>4 DEF Apart
    <3>2. QED BY <1>2, <3>1
  <2>5. QED BY <1>2, <2>1, <2>2, <2>3, <2>4
<1>4. PICK n : n = Cardinality(Login)
  OBVIOUS
<1>5. n \in Nat /\ Locking = MaxEmail + n
  BY <1>4, VerifyingAreFew DEF Locking
<1>6. Locking - 3 + (Locking - 1) = 2 * (MaxEmail - 1) + 2 * (n - 1)
  BY <1>2, <1>5
<1>7. QED BY <1>3, <1>4, <1>6

\* A failure in the counter's window is one more of them.
LEMMA FailureCounts ==
    ASSUME NEW now \in Nat, NEW ws, NEW e, NEW p \in Nat \ {0}, p <= Cardinality(Login), Accounted(ws, e, p, now),
           e.fails > 0, ~(now - e.first > AttemptSpan),
           NEW f, f = [fails |-> e.fails + 1, first |-> e.first,
                       until |-> IF e.fails + 1 >= MaxEmail THEN now + LockEmail ELSE e.until]
    PROVE  Accounted(Append(ws, now), f, p - 1, now)
<1>1. PICK before \in 0..Len(ws) : Apart(before, ws, e, p, now)
  BY DEF Accounted
<1>2. PICK more : more = Append(ws, now)
  OBVIOUS
<1>3. /\ Times(more, now) /\ Len(more) = Len(ws) + 1 /\ more[Len(ws) + 1] = now
      /\ \A n \in 1..Len(ws) : more[n] = ws[n]
  BY <1>2, OneMore DEF Accounted
<1>4. Len(ws) \in Nat /\ e.fails \in Nat /\ e.first \in Nat /\ e.until \in Nat /\ MaxEmail \in Nat /\ AttemptSpan \in Nat \ {0}
      /\ LockEmail \in Nat /\ LockEmail >= AttemptSpan /\ e.first <= now
  BY AccountedTimes, LocksFit DEF Accounted
<1>5. Locking \in Nat /\ Locking >= 3 /\ Locking >= MaxEmail + 1 /\ MaxEmail >= 2 /\ p <= Locking - MaxEmail
  BY VerifyingAreFew, LocksFit
<1>6. /\ f \in [fails : Nat, first : Nat, until : Nat] /\ f.fails = e.fails + 1 /\ f.first = e.first /\ f.first <= now
      /\ f.until = IF f.fails >= MaxEmail THEN now + LockEmail ELSE e.until
  BY <1>4
<1>7. ASSUME NEW n \in 1..Len(more)
      PROVE  /\ more[n] + AttemptSpan > now
             /\ f.fails >= MaxEmail => more[n] + LockEmail <= f.until
  <2>1. CASE n = Len(ws) + 1
    BY <1>3, <1>4, <1>6, <2>1
  <2>2. CASE n \in 1..Len(ws)
    <3>1. more[n] = ws[n] /\ ws[n] \in Nat /\ ws[n] <= now /\ ws[n] + AttemptSpan > now
      BY <1>3, <2>2, AccountedTimes
    <3>2. QED BY <1>4, <1>6, <3>1
  <2>3. QED BY <1>3, <1>4, <2>1, <2>2
<1>8. /\ before <= Locking - 3 /\ before \in 0..Len(more) /\ Len(ws) - before <= e.fails
      /\ \A n \in 1..before : more[n] <= f.first
      /\ IF f.first + AttemptSpan <= now THEN Len(ws) - before <= e.fails - 1
         ELSE before < Len(ws) /\ more[before + 1] = f.first
  <2>1. /\ before <= Locking - 3 /\ Len(ws) - before <= e.fails
        /\ \A n \in 1..before : ws[n] <= e.first
        /\ IF e.first + AttemptSpan <= now THEN Len(ws) - before <= e.fails - 1
           ELSE before < Len(ws) /\ ws[before + 1] = e.first
    BY <1>1 DEF Apart
  <2>2. \A n \in 1..before : n \in 1..Len(ws)
    BY <1>1, <1>4
  <2>3. before < Len(ws) => before + 1 \in 1..Len(ws)
    BY <1>1, <1>4
  <2>4. before \in 0..Len(more)
    BY <1>1, <1>3, <1>4
  <2>5. QED BY <1>3, <1>6, <2>1, <2>2, <2>3, <2>4
<1>9. ASSUME f.fails >= MaxEmail
      PROVE  /\ Len(more) - before + (p - 1) <= Locking - 1
             /\ f.first + AttemptSpan <= now => Len(more) - before + (p - 1) <= Locking - 2
  <2>1. CASE e.fails < MaxEmail
    <3>1. f.fails = MaxEmail /\ e.fails = MaxEmail - 1 /\ before \in Nat
      BY <1>4, <1>6, <1>9, <2>1, SMTT(30)
    <3>2. QED BY <1>3, <1>4, <1>5, <1>8, <3>1, SMTT(30)
  <2>2. CASE e.fails >= MaxEmail /\ e.until > now
    <3>1. /\ Len(ws) - before + p <= Locking - 1 /\ before \in Nat
          /\ e.first + AttemptSpan <= now => Len(ws) - before + p <= Locking - 2
      BY <1>1, <2>2 DEF Apart
    <3>2. QED BY <1>3, <1>4, <1>5, <1>6, <3>1
  <2>3. CASE e.fails >= MaxEmail /\ e.until <= now
    <3>1. Len(ws) = 0
      BY <2>3, LockIsOver
    <3>2. before = 0
      BY <3>1
    <3>3. QED BY <1>3, <1>4, <1>5, <3>1, <3>2
  <2>4. QED BY <1>4, <2>1, <2>2, <2>3
<1>10. Apart(before, more, f, p - 1, now)
  <2>1. /\ f.fails # 0 /\ Len(more) - before <= f.fails
        /\ IF f.first + AttemptSpan <= now THEN Len(more) - before <= f.fails - 1
           ELSE before < Len(more) /\ more[before + 1] = f.first
    <3>1. before \in Nat /\ Len(more) = Len(ws) + 1 /\ f.fails = e.fails + 1
      BY <1>3, <1>4, <1>6
    <3>2. f.fails # 0 /\ Len(more) - before <= f.fails
      BY <1>4, <1>8, <3>1, SMTT(30)
    <3>3. CASE f.first + AttemptSpan <= now
      <4>1. Len(ws) - before <= e.fails - 1
        BY <1>8, <3>3
      <4>2. Len(more) - before <= f.fails - 1
        BY <1>4, <3>1, <4>1
      <4>3. QED BY <3>2, <3>3, <4>2
    <3>4. CASE ~(f.first + AttemptSpan <= now)
      <4>1. before < Len(ws) /\ more[before + 1] = f.first
        BY <1>8, <3>4
      <4>2. before < Len(more)
        BY <1>4, <3>1, <4>1
      <4>3. QED BY <3>2, <3>4, <4>1, <4>2
    <3>5. QED BY <3>3, <3>4
  <2>2. QED BY <1>8, <1>9, <2>1 DEF Apart
<1>11. QED BY <1>2, <1>3, <1>6, <1>7, <1>8, <1>10 DEF Accounted

\* A failure after it opens another window.
LEMMA FailureOpens ==
    ASSUME NEW now \in Nat, NEW ws, NEW e, NEW p \in Nat \ {0}, Accounted(ws, e, p, now),
           e.fails = 0 \/ now - e.first > AttemptSpan,
           NEW f, f = [fails |-> 1, first |-> now, until |-> 0]
    PROVE  Accounted(Append(ws, now), f, p - 1, now)
<1>1. PICK more : more = Append(ws, now)
  OBVIOUS
<1>2. /\ Times(more, now) /\ Len(more) = Len(ws) + 1 /\ more[Len(ws) + 1] = now
      /\ \A n \in 1..Len(ws) : more[n] = ws[n]
  BY <1>1, OneMore DEF Accounted
<1>3. Len(ws) \in Nat /\ MaxEmail \in Nat \ {0, 1} /\ AttemptSpan \in Nat \ {0}
  BY AccountedTimes, LocksFit
<1>4. Len(ws) <= Locking - 3 /\ Locking \in Nat
  BY FewBefore, VerifyingAreFew
<1>5. f \in [fails : Nat, first : Nat, until : Nat] /\ f.fails = 1 /\ f.first = now /\ f.until = 0
  OBVIOUS
<1>6. ASSUME NEW n \in 1..Len(more)
      PROVE  more[n] + AttemptSpan > now
  <2>1. CASE n = Len(ws) + 1
    BY <1>2, <1>3, <2>1
  <2>2. CASE n \in 1..Len(ws)
    BY <1>2, <2>2, AccountedTimes
  <2>3. QED BY <1>2, <1>3, <2>1, <2>2
<1>7. \A n \in 1..Len(ws) : more[n] <= f.first
  BY <1>2, <1>5, AccountedTimes
<1>8. Apart(Len(ws), more, f, p - 1, now)
  <2>1. Len(ws) \in 0..Len(more) /\ Len(more) - Len(ws) = 1 /\ Len(ws) < Len(more) /\ ~(f.first + AttemptSpan <= now)
        /\ ~(f.fails >= MaxEmail)
    BY <1>2, <1>3, <1>5
  <2>2. QED BY <1>2, <1>4, <1>5, <1>7, <2>1 DEF Apart
<1>9. Len(ws) \in 0..Len(more) /\ ~(f.fails >= MaxEmail)
  BY <1>2, <1>3, <1>5
<1>10. QED BY <1>1, <1>2, <1>5, <1>6, <1>8, <1>9 DEF Accounted

\* A counter that is removed has no failure left that another window would not bear.
LEMMA CounterForgotten ==
    ASSUME NEW now \in Nat, NEW ws, NEW e, NEW p \in Nat, Accounted(ws, e, p, now), Ad!Stale(e, now)
    PROVE  Accounted(ws, Ad!NoFails, p, now)
<1>1. Len(ws) \in Nat /\ e.until \in Nat /\ MaxEmail \in Nat \ {0, 1}
  BY AccountedTimes, LocksFit
<1>2. Len(ws) <= Locking - 3
  <2>1. e.until <= now /\ now - e.first > AttemptSpan
    BY <1>1 DEF Ad!Stale
  <2>2. QED BY <2>1, FewBefore
<1>3. /\ Ad!NoFails \in [fails : Nat, first : Nat, until : Nat] /\ Ad!NoFails.fails = 0
      /\ Ad!NoFails.first = 0 /\ Ad!NoFails.until = 0
  BY DEF Ad!NoFails
<1>4. Apart(Len(ws), ws, Ad!NoFails, p, now) /\ Len(ws) \in 0..Len(ws)
  BY <1>1, <1>2, <1>3 DEF Apart
<1>5. QED BY <1>1, <1>3, <1>4 DEF Accounted

\* Logins that are verified matter while the address is locked, and not more of them.
LEMMA OtherLogins ==
    ASSUME NEW now \in Nat, NEW ws, NEW e, NEW p \in Nat, NEW q \in Nat, Accounted(ws, e, p, now),
           q <= p \/ e.until <= now
    PROVE  Accounted(ws, e, q, now)
<1>1. PICK before \in 0..Len(ws) : Apart(before, ws, e, p, now)
  BY DEF Accounted
<1>2. Len(ws) \in Nat /\ e.until \in Nat /\ Locking \in Nat
  BY AccountedTimes, VerifyingAreFew
<1>3. e.fails >= MaxEmail /\ e.until > now =>
          /\ Len(ws) - before + q <= Locking - 1
          /\ e.first + AttemptSpan <= now => Len(ws) - before + q <= Locking - 2
  <2> SUFFICES ASSUME e.fails >= MaxEmail, e.until > now
               PROVE  /\ Len(ws) - before + q <= Locking - 1
                      /\ e.first + AttemptSpan <= now => Len(ws) - before + q <= Locking - 2
    OBVIOUS
  <2>1. /\ Len(ws) - before + p <= Locking - 1 /\ before \in Nat
        /\ e.first + AttemptSpan <= now => Len(ws) - before + p <= Locking - 2
    BY <1>1 DEF Apart
  <2>2. QED BY <1>2, <2>1
<1>4. Apart(before, ws, e, q, now)
  BY <1>1, <1>3 DEF Apart
<1>5. QED BY <1>1, <1>4 DEF Accounted

\* A success forgets the failures.
LEMMA NothingAccounted == ASSUME NEW now \in Nat, NEW p \in Nat PROVE Accounted(<<>>, Ad!NoFails, p, now)
<1>1. /\ Ad!NoFails \in [fails : Nat, first : Nat, until : Nat] /\ Ad!NoFails.fails = 0
      /\ Ad!NoFails.first = 0 /\ Ad!NoFails.until = 0
  BY DEF Ad!NoFails
<1>2. Times(<<>>, now) /\ Len(<<>>) = 0 /\ 0 \in 0..0
  BY DEF Times
<1>3. Apart(0, <<>>, Ad!NoFails, p, now)
  <2>1. 0 <= Locking - 3 /\ ~(0 >= MaxEmail)
    BY VerifyingAreFew, LocksFit
  <2>2. QED BY <1>1, <1>2, <2>1 DEF Apart
<1>4. ~(0 >= MaxEmail)
  BY LocksFit
<1>5. QED BY <1>1, <1>2, <1>3, <1>4 DEF Accounted

\* As time passes failures leave the span, those from before the window first.
LEMMA FailuresWait ==
    ASSUME NEW now \in Nat, NEW ws, NEW e, NEW p \in Nat, Accounted(ws, e, p, now)
    PROVE  Accounted(Ad!Recent(ws, AttemptSpan, now + 1), e, p, now + 1)
<1>1. PICK before \in 0..Len(ws) : Apart(before, ws, e, p, now)
  BY DEF Accounted
<1>2. PICK rest : rest = Ad!Recent(ws, AttemptSpan, now + 1)
  OBVIOUS
<1>3. PICK gone : Leave(gone, ws, rest, AttemptSpan, now + 1, now)
  <2>1. Times(ws, now) /\ now + 1 \in Nat /\ AttemptSpan \in Nat
    BY LocksFit DEF Accounted
  <2>2. QED BY <1>2, <2>1, RecentTimes
<1>4. /\ gone \in 0..Len(ws) /\ Len(rest) = Len(ws) - gone /\ Times(rest, now)
      /\ \A n \in 1..gone : ws[n] + AttemptSpan <= now + 1
      /\ gone < Len(ws) => ws[gone + 1] + AttemptSpan > now + 1
      /\ \A n \in 1..Len(rest) : rest[n] = ws[n + gone]
  BY <1>3 DEF Leave
<1>5. Len(ws) \in Nat /\ e.fails \in Nat /\ e.first \in Nat /\ e.until \in Nat /\ MaxEmail \in Nat \ {0, 1}
      /\ AttemptSpan \in Nat \ {0} /\ e.first <= now /\ e.first <= now + 1 /\ Locking \in Nat /\ Locking >= 3
  BY AccountedTimes, VerifyingAreFew, LocksFit DEF Accounted
<1>6. Times(rest, now + 1)
  BY <1>4 DEF Times
<1>7. ASSUME NEW n \in 1..Len(rest)
      PROVE  /\ rest[n] + AttemptSpan > now + 1
             /\ e.fails >= MaxEmail => rest[n] + LockEmail <= e.until
  <2>1. n + gone \in 1..Len(ws) /\ gone + 1 \in 1..Len(ws) /\ gone + 1 <= n + gone /\ gone < Len(ws)
    BY <1>4, <1>5
  <2>2. ws[gone + 1] <= ws[n + gone] /\ ws[gone + 1] \in Nat /\ ws[n + gone] \in Nat
    BY <2>1, AccountedTimes
  <2>3. rest[n] = ws[n + gone] /\ ws[gone + 1] + AttemptSpan > now + 1
    BY <1>4, <2>1
  <2>4. e.fails >= MaxEmail => ws[n + gone] + LockEmail <= e.until
    BY <2>1 DEF Accounted
  <2>5. rest[n] + AttemptSpan > now + 1
    BY <1>5, <2>2, <2>3
  <2>6. QED BY <2>3, <2>4, <2>5
<1>8. \E after \in 0..Len(rest) : Apart(after, rest, e, p, now + 1)
  <2>1. CASE e.fails = 0
    <3>1. Len(rest) \in Nat /\ Len(rest) <= Locking - 3
      BY <1>1, <1>4, <1>5, <2>1 DEF Apart
    <3>2. Apart(Len(rest), rest, e, p, now + 1) /\ Len(rest) \in 0..Len(rest)
      BY <1>5, <2>1, <3>1 DEF Apart
    <3>3. QED BY <3>2
  <2>2. CASE e.fails > 0 /\ e.first + AttemptSpan <= now + 1
    <3>1. Len(rest) <= e.fails - 1 /\ Len(rest) <= Len(ws) - before
          /\ (Len(rest) <= Len(ws) - before - 1 \/ e.first + AttemptSpan <= now)
      <4>1. CASE e.first + AttemptSpan <= now
        <5>1. before = 0
          BY <1>1, <2>2, <4>1, WindowIsOver
        <5>2. Len(ws) - before <= e.fails - 1
          BY <1>1, <2>2, <4>1 DEF Apart
        <5>3. QED BY <1>4, <1>5, <4>1, <5>1, <5>2
      <4>2. CASE ~(e.first + AttemptSpan <= now)
        <5>1. before < Len(ws) /\ ws[before + 1] = e.first /\ Len(ws) - before <= e.fails
          BY <1>1, <2>2, <4>2 DEF Apart
        <5>2. gone >= before + 1
          <6> SUFFICES ASSUME gone <= before
                       PROVE  FALSE
            BY <1>4, <1>5, <1>1
          <6>1. gone + 1 \in 1..Len(ws) /\ before + 1 \in 1..Len(ws) /\ gone + 1 <= before + 1 /\ gone < Len(ws)
            BY <1>1, <1>4, <1>5, <5>1, SMTT(30)
          <6>2. ws[gone + 1] <= ws[before + 1] /\ ws[gone + 1] \in Nat /\ ws[gone + 1] + AttemptSpan > now + 1
            BY <1>4, <6>1, AccountedTimes
          <6>3. QED BY <1>5, <2>2, <5>1, <6>2, SMTT(30)
        <5>3. QED BY <1>1, <1>4, <1>5, <5>1, <5>2, SMTT(30)
      <4>3. QED BY <4>1, <4>2
    <3>2. Apart(0, rest, e, p, now + 1)
      <4>1. ASSUME e.fails >= MaxEmail, e.until > now + 1
            PROVE  Len(rest) + p <= Locking - 2
        <5>1. /\ Len(ws) - before + p <= Locking - 1
              /\ e.first + AttemptSpan <= now => Len(ws) - before + p <= Locking - 2
          BY <1>1, <1>5, <4>1 DEF Apart
        <5>2. QED BY <1>1, <1>4, <1>5, <3>1, <5>1
      <4>2. 0 \in 0..Len(rest) /\ 0 <= Locking - 3 /\ Len(rest) - 0 = Len(rest) /\ Len(rest) \in Nat
        BY <1>4, <1>5
      <4>3. QED BY <1>5, <2>2, <3>1, <4>1, <4>2 DEF Apart
    <3>3. QED BY <1>4, <1>5, <3>2
  <2>3. CASE e.fails > 0 /\ ~(e.first + AttemptSpan <= now + 1)
    <3>1. before < Len(ws) /\ ws[before + 1] = e.first /\ Len(ws) - before <= e.fails /\ before <= Locking - 3
          /\ \A n \in 1..before : ws[n] <= e.first
      BY <1>1, <1>5, <2>3 DEF Apart
    <3>2. gone <= before
      <4> SUFFICES ASSUME before + 1 <= gone
                   PROVE  FALSE
        BY <1>1, <1>4, <1>5
      <4>1. before + 1 \in 1..gone
        BY <1>1, <1>4
      <4>2. ws[before + 1] + AttemptSpan <= now + 1
        BY <1>4, <4>1
      <4>3. QED BY <2>3, <3>1, <4>2
    <3>3. PICK after : after = before - gone
      OBVIOUS
    <3>4. after \in 0..Len(rest) /\ Len(rest) - after = Len(ws) - before /\ after <= Locking - 3 /\ after < Len(rest)
      BY <1>1, <1>4, <1>5, <3>1, <3>2, <3>3
    <3>5. rest[after + 1] = e.first
      <4>1. after + 1 \in 1..Len(rest) /\ (after + 1) + gone = before + 1
        BY <1>1, <1>4, <3>3, <3>4
      <4>2. QED BY <1>4, <3>1, <4>1, SMTT(30)
    <3>6. ASSUME NEW n \in 1..after
          PROVE  rest[n] <= e.first
      <4>1. n \in 1..Len(rest) /\ n + gone \in 1..before
        BY <1>1, <1>4, <3>3, <3>4
      <4>2. QED BY <1>4, <3>1, <4>1
    <3>7. e.fails >= MaxEmail /\ e.until > now + 1 => Len(ws) - before + p <= Locking - 1
      BY <1>1, <1>5 DEF Apart
    <3>8. Apart(after, rest, e, p, now + 1)
      <4>1. Len(rest) - after <= e.fails /\ e.fails # 0
        BY <1>5, <2>3, <3>1, <3>4
      <4>2. e.fails >= MaxEmail /\ e.until > now + 1 => Len(rest) - after + p <= Locking - 1
        BY <3>4, <3>7
      <4>3. QED BY <2>3, <3>4, <3>5, <3>6, <4>1, <4>2 DEF Apart
    <3>9. QED BY <3>4, <3>8
  <2>4. QED BY <1>5, <2>1, <2>2, <2>3
<1>9. QED BY <1>2, <1>5, <1>6, <1>7, <1>8 DEF Accounted

\* A login that begins, or ends.
LEMMA VerifyingChange ==
    ASSUME LoginsInv, NEW h \in Login, NEW v, login' = [login EXCEPT ![h] = v]
    PROVE  /\ v # "none" => Verifying' = Verifying \cup {h}
           /\ v = "none" => Verifying' = Verifying \ {h}
           /\ Cardinality(Verifying') \in Nat /\ login' = [k \in Login |-> login'[k]]
           /\ login[h] # "none" /\ v = "none" => /\ Cardinality(Verifying) \in Nat \ {0}
                                                 /\ Cardinality(Verifying') = Cardinality(Verifying) - 1
<1>1. login'[h] = v /\ (\A k \in Login \ {h} : login'[k] = login[k]) /\ login' = [k \in Login |-> login'[k]]
  BY DEF LoginsInv
<1>2. /\ v # "none" => Verifying' = Verifying \cup {h}
      /\ v = "none" => Verifying' = Verifying \ {h}
  BY <1>1 DEF Verifying
<1>3. IsFiniteSet(Verifying) /\ Cardinality(Verifying) \in Nat
  BY VerifyingAreFew
<1>4. Cardinality(Verifying') \in Nat
  BY <1>2, <1>3, FS_AddElement, FS_RemoveElement, FS_CardinalityType
<1>5. ASSUME login[h] # "none", v = "none"
      PROVE  Cardinality(Verifying) \in Nat \ {0} /\ Cardinality(Verifying') = Cardinality(Verifying) - 1
  <2>1. h \in Verifying /\ Verifying' = Verifying \ {h}
    BY <1>2, <1>5 DEF Verifying
  <2>2. Cardinality(Verifying') = Cardinality(Verifying) - 1
    BY <1>3, <2>1, FS_RemoveElement
  <2>3. QED BY <1>3, <1>4, <2>2
<1>6. QED BY <1>1, <1>2, <1>4, <1>5

\* A login begins: old counters go, and no other login while the address is locked.
LEMMA LoginBegins ==
    ASSUME LoginsInv, NEW h \in Login, NEW v \in Visitor, Ad!StartLogin(h, v)
    PROVE  LoginsInv'
<1> DEFINE p == Cardinality(Verifying)
<1>1. Accounted(wrong, byEmail, p, seconds) /\ p \in Nat /\ seconds \in Nat
  BY VerifyingAreFew DEF LoginsInv
<1>2. /\ byEmail' = IF Ad!Stale(byEmail, seconds) THEN Ad!NoFails ELSE byEmail
      /\ UNCHANGED <<seconds, wrong>>
  BY DEF Ad!StartLogin, Ad!Cleaned
<1>3. \/ login' = login
      \/ login' = [login EXCEPT ![h] = v] /\ ~(byEmail.until > seconds)
  BY DEF Ad!StartLogin, Ad!Locked
<1>4. PICK q : q = Cardinality(Verifying')
  OBVIOUS
<1>5. q \in Nat /\ (q <= p \/ byEmail.until <= seconds) /\ login' = [k \in Login |-> login'[k]]
  <2>1. CASE login' = login
    <3>1. Verifying' = Verifying
      BY <2>1 DEF Verifying
    <3>2. QED BY <1>1, <1>4, <2>1, <3>1 DEF LoginsInv
  <2>2. CASE login' = [login EXCEPT ![h] = v] /\ ~(byEmail.until > seconds)
    <3>1. q \in Nat /\ login' = [k \in Login |-> login'[k]]
      BY <1>4, <2>2, VerifyingChange
    <3>2. byEmail.until \in Nat
      BY <1>1, AccountedTimes
    <3>3. QED BY <1>1, <2>2, <3>1, <3>2
  <2>3. QED BY <1>3, <2>1, <2>2
<1> HIDE DEF p
<1>6. Accounted(wrong, byEmail, q, seconds)
  BY <1>1, <1>5, OtherLogins
<1>7. Accounted(wrong, byEmail', q, seconds)
  BY <1>1, <1>2, <1>5, <1>6, CounterForgotten
<1>8. QED BY <1>1, <1>2, <1>4, <1>5, <1>7 DEF LoginsInv

\* The password was wrong.
LEMMA LoginFails ==
    ASSUME LoginsInv, NEW h \in Login, Ad!WrongPassword(h)
    PROVE  LoginsInv'
<1>1. PICK p : p = Cardinality(Verifying)
  OBVIOUS
<1>2. /\ Accounted(wrong, byEmail, p, seconds) /\ seconds \in Nat
      /\ p \in Nat /\ p <= Cardinality(Login)
  BY <1>1, VerifyingAreFew DEF LoginsInv
<1>3. /\ login[h] # "none" /\ login' = [login EXCEPT ![h] = "none"]
      /\ byEmail' = Ad!Failed(byEmail, MaxEmail, LockEmail)
      /\ wrong' = Append(wrong, seconds) /\ seconds' = seconds
  BY DEF Ad!WrongPassword
<1>4. p \in Nat \ {0} /\ Cardinality(Verifying') = p - 1 /\ login' = [k \in Login |-> login'[k]]
  BY <1>1, <1>3, VerifyingChange
<1>5. Accounted(wrong', byEmail', p - 1, seconds)
  <2>1. byEmail.fails \in Nat /\ byEmail.first \in Nat
    BY <1>2, AccountedTimes
  <2>2. CASE byEmail.fails = 0 \/ seconds - byEmail.first > AttemptSpan
    <3>1. byEmail' = [fails |-> 1, first |-> seconds, until |-> 0]
      BY <1>3, <2>2, LocksFit DEF Ad!Failed
    <3>2. QED BY <1>2, <1>3, <1>4, <2>2, <3>1, FailureOpens
  <2>3. CASE byEmail.fails > 0 /\ ~(seconds - byEmail.first > AttemptSpan)
    <3>1. byEmail' = [fails |-> byEmail.fails + 1, first |-> byEmail.first,
                      until |-> IF byEmail.fails + 1 >= MaxEmail THEN seconds + LockEmail ELSE byEmail.until]
      BY <1>3, <2>1, <2>3 DEF Ad!Failed
    <3>2. QED BY <1>2, <1>3, <1>4, <2>3, <3>1, FailureCounts
  <2>4. QED BY <2>1, <2>2, <2>3
<1>6. QED BY <1>2, <1>3, <1>4, <1>5 DEF LoginsInv

\* The password was right, or the request stopped before it was known.
LEMMA LoginSucceeds ==
    ASSUME LoginsInv, NEW h \in Login, Ad!RightPassword(h)
    PROVE  LoginsInv'
<1>1. /\ login' = [login EXCEPT ![h] = "none"] /\ byEmail' = Ad!NoFails /\ wrong' = <<>> /\ seconds' = seconds
  BY DEF Ad!RightPassword
<1>2. Cardinality(Verifying') \in Nat /\ login' = [k \in Login |-> login'[k]] /\ seconds \in Nat
  BY <1>1, VerifyingChange DEF LoginsInv
<1>3. QED BY <1>1, <1>2, NothingAccounted DEF LoginsInv

LEMMA LoginEnds ==
    ASSUME LoginsInv, NEW h \in Login, Ad!LoginStops(h)
    PROVE  LoginsInv'
<1>1. PICK p : p = Cardinality(Verifying)
  OBVIOUS
<1>2. Accounted(wrong, byEmail, p, seconds) /\ seconds \in Nat /\ p \in Nat
  BY <1>1, VerifyingAreFew DEF LoginsInv
<1>3. /\ login[h] # "none" /\ login' = [login EXCEPT ![h] = "none"] /\ UNCHANGED <<byEmail, wrong, seconds>>
  BY DEF Ad!LoginStops, Ad!limits
<1>4. p - 1 \in Nat /\ Cardinality(Verifying') = p - 1 /\ login' = [k \in Login |-> login'[k]]
  BY <1>1, <1>3, VerifyingChange
<1>5. Accounted(wrong, byEmail, p - 1, seconds)
  <2>1. p - 1 <= p
    BY <1>2
  <2>2. QED BY <1>2, <1>4, <2>1, OtherLogins
<1>6. QED BY <1>2, <1>3, <1>4, <1>5 DEF LoginsInv

LEMMA LoginsPass ==
    ASSUME LoginsInv, Ad!Passes
    PROVE  LoginsInv'
<1>1. /\ seconds' = seconds + 1 /\ wrong' = Ad!Recent(wrong, AttemptSpan, seconds + 1) /\ UNCHANGED <<byEmail, login>>
  BY DEF Ad!Passes
<1>2. Verifying' = Verifying
  BY <1>1 DEF Verifying
<1>3. Accounted(wrong, byEmail, Cardinality(Verifying), seconds) /\ Cardinality(Verifying) \in Nat /\ seconds \in Nat
  BY VerifyingAreFew DEF LoginsInv
<1>4. Accounted(wrong', byEmail, Cardinality(Verifying), seconds + 1)
  BY <1>1, <1>3, FailuresWait
<1>5. QED BY <1>1, <1>2, <1>3, <1>4 DEF LoginsInv

LEMMA LoginsStep == LoginsInv /\ [Ad!NextAdmission]_(Ad!admissionVars) => LoginsInv'
<1> SUFFICES ASSUME LoginsInv, [Ad!NextAdmission]_(Ad!admissionVars)
             PROVE  LoginsInv'
  OBVIOUS
<1>1. UNCHANGED <<seconds, login, wrong, byEmail>> => LoginsInv'
  BY DEF LoginsInv, Verifying
<1>2. CASE UNCHANGED Ad!admissionVars
  BY <1>1, <1>2 DEF Ad!admissionVars, Ad!attempts
<1>3. CASE Ad!Request
  BY <1>1, <1>3 DEF Ad!Request, Ad!attempts
<1>4. QED BY <1>2, <1>3, LoginBegins, LoginFails, LoginSucceeds, LoginEnds, LoginsPass, Zenon DEF Ad!NextAdmission

LEMMA LoginsInitially == Ad!InitAdmission => LoginsInv
<1> SUFFICES ASSUME Ad!InitAdmission
             PROVE  LoginsInv
  OBVIOUS
<1>1. Cardinality(Verifying) \in Nat /\ seconds = 0
  BY VerifyingAreFew DEF Ad!InitAdmission
<1>2. wrong = <<>> /\ byEmail = Ad!NoFails /\ login = [h \in Login |-> login[h]]
  BY DEF Ad!InitAdmission
<1>3. QED BY <1>1, <1>2, NothingAccounted DEF LoginsInv

\* Admission counts as its instance here does.
LEMMA AdmissionCounts == \A S : Ad!Cardinality(S) = Cardinality(S)
BY DEF Ad!Cardinality, Cardinality

\* No more requests pass a limit in its span than its maximum, and wrong passwords are
\* bounded by two windows that meet and the logins then verified (RateLimits.check,
\* LoginAttempts and login).
THEOREM LimitsKept == MembersSpec => []LimitsAreKept
<1>1. LimitsInv /\ LoginsInv => LimitsAreKept
  <2> SUFFICES ASSUME LimitsInv, LoginsInv
               PROVE  LimitsAreKept
    OBVIOUS
  <2>1. ASSUME NEW l \in Limited
        PROVE  Len(served[l]) <= Maximum[l]
    <3>1. seconds \in Nat /\ Span[l] \in Nat /\ Maximum[l] \in Nat /\ Fits(entries[l], served[l], Span[l], Maximum[l], seconds)
      BY LimitsFit DEF LimitsInv
    <3>2. Len(served[l]) <= Len(entries[l]) /\ Len(entries[l]) <= Maximum[l] /\ Len(served[l]) \in Nat /\ Len(entries[l]) \in Nat
      BY <3>1, FitsTimes
    <3>3. QED BY <3>1, <3>2
  <2>2. Len(wrong) <= 2 * (MaxEmail - 1) + 2 * (Cardinality(Login) - 1)
    <3>1. seconds \in Nat /\ Cardinality(Verifying) \in Nat /\ Accounted(wrong, byEmail, Cardinality(Verifying), seconds)
      BY VerifyingAreFew DEF LoginsInv
    <3>2. QED BY <3>1, FewFailures
  <2>3. QED BY <2>1, <2>2, AdmissionCounts DEF LimitsAreKept, Ad!LimitsAreKept
<1>2. Ad!AdmissionSpec => [](LimitsInv /\ LoginsInv)
  BY LimitsInitially, LimitsStep, LoginsInitially, LoginsStep, PTL DEF Ad!AdmissionSpec
<1>3. QED BY <1>1, <1>2, AdmissionAlone, PTL
=============================================================================
