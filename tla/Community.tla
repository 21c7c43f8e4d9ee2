----------------------------- MODULE Community -----------------------------
(* What members do together: friendships (modules/members/community.py) and  *)
(* the polls of the club (modules/polls/routes.py), beside the erasure of a   *)
(* member (anonymize of modules/members/service.py). A friendship is one row  *)
(* with the one who asked; a friend request reads and writes it under a lock  *)
(* of the pair, a removal takes no lock. A vote is admitted before its         *)
(* transaction, which reads member and poll again.                             *)
EXTENDS Naturals, FiniteSets

CONSTANTS
    Person,     \* verified members
    MaxLinks,   \* bound on the friendship rows ever created
    Poll,
    Option      \* the options of every poll

VARIABLES
    left,       \* the erased members
    links,      \* alumni_friends: [id, from, to, status]
    lastLink,   \* the rows created so far
    asking,     \* the friend request of each member: [step, to, seen]
    removing,   \* <<me, other>> of removals that have seen a row
    asked,      \* <<a, b>>: a's request to b has reached its row, and no removal since
    status,     \* club_polls.status
    votes,      \* club_poll_votes: <<poll, member, option>>
    ballots,    \* admitted requests to vote
    told,       \* the votes that were answered with ok
    result      \* the votes of a poll when it was closed

friendVars == <<links, lastLink, asking, removing, asked>>
pollVars == <<status, votes, ballots, told, result>>

NoAsk == [step |-> "none"]
Between(a, b) == {l \in links : {l.from, l.to} = {a, b}}
PairHeld(a, b) == \E p \in {a, b} : asking[p].step = "locked" /\ {p, asking[p].to} = {a, b}

InitCommunity ==
    /\ left = {}
    /\ links = {} /\ lastLink = 0 /\ asking = [p \in Person |-> NoAsk]
    /\ removing = {} /\ asked = {}
    /\ status = [q \in Poll |-> "none"]
    /\ votes = {} /\ ballots = {} /\ told = {} /\ result = [q \in Poll |-> {}]

-----------------------------------------------------------------------------
(* Friendships.                                                               *)

\* friend up to the transaction: both are verified now.
Ask(a, b) ==
    /\ a # b /\ {a, b} \cap left = {} /\ asking[a] = NoAsk
    /\ asking' = [asking EXCEPT ![a] = [step |-> "admitted", to |-> b]]
    /\ UNCHANGED <<left, links, lastLink, removing, asked, pollVars>>

\* Mutant: the rows are read without acquire_lock.
LinksSeenUnlocked(a) ==
    /\ asking[a].step = "admitted"
    /\ asking' = [asking EXCEPT ![a] =
          [step |-> "locked", to |-> asking[a].to, seen |-> Between(a, asking[a].to)]]

\* The rows are read once the lock of the pair is held.
LinksSeen(a) ==
    LET b == asking[a].to IN
    /\ asking[a].step = "admitted"
    /\ ~PairHeld(a, b)
    /\ asking' = [asking EXCEPT ![a] = [step |-> "locked", to |-> b, seen |-> Between(a, b)]]

ReadLinks(a) == LinksSeen(a) /\ UNCHANGED <<left, links, lastLink, removing, asked, pollVars>>

\* The rest of the transaction, from the rows it has read. A row the other side
\* asked for is accepted, unless it has gone: store.update finds none and raises.
Answer(a) ==
    LET b == asking[a].to
        incoming == {l \in asking[a].seen : l.status = "pending" /\ l.from = b}
    IN
    /\ asking[a].step = "locked"
    /\ asking' = [asking EXCEPT ![a] = NoAsk]
    /\ \/ /\ asking[a].seen # {}
          /\ (incoming = {} \/ \E l \in asking[a].seen : l.status = "accepted")
          /\ UNCHANGED <<links, lastLink, asked>>
       \/ /\ incoming # {} /\ \A l \in asking[a].seen : l.status # "accepted"
          /\ \E l \in incoming :
                IF l \in links
                  THEN /\ links' = (links \ {l}) \cup {[l EXCEPT !.status = "accepted"]}
                       /\ asked' = asked \cup {<<a, b>>}
                  ELSE UNCHANGED <<links, asked>>
          /\ UNCHANGED lastLink
       \/ /\ asking[a].seen = {} /\ lastLink < MaxLinks
          /\ lastLink' = lastLink + 1
          /\ links' = links \cup {[id |-> lastLink', from |-> a, to |-> b, status |-> "pending"]}
          /\ asked' = asked \cup {<<a, b>>}
    /\ UNCHANGED <<left, removing, pollVars>>

\* remove_friend sees a row ...
SeeFriend(a, b) ==
    /\ a \notin left /\ Between(a, b) # {} /\ <<a, b>> \notin removing
    /\ removing' = removing \cup {<<a, b>>}
    /\ UNCHANGED <<left, links, lastLink, asking, asked, pollVars>>

\* ... and deletes what there is by then.
RemoveFriend(a, b) ==
    /\ <<a, b>> \in removing
    /\ removing' = removing \ {<<a, b>>}
    /\ links' = links \ Between(a, b)
    /\ asked' = asked \ {<<a, b>>, <<b, a>>}
    /\ UNCHANGED <<left, lastLink, asking, pollVars>>

-----------------------------------------------------------------------------
(* Polls.                                                                      *)

CreatePoll(q) ==
    /\ status[q] = "none"
    /\ status' = [status EXCEPT ![q] = "draft"]
    /\ UNCHANGED <<left, friendVars, votes, ballots, told, result>>

\* transition of launch_poll and close_poll, under the lock of the poll's row.
Transition(q, expected, target) ==
    /\ status[q] = expected
    /\ status' = [status EXCEPT ![q] = target]
    /\ result' = IF target = "closed" THEN [result EXCEPT ![q] = {v \in votes : v[1] = q}] ELSE result
    /\ UNCHANGED <<left, friendVars, votes, ballots, told>>

LaunchPoll(q) == Transition(q, "draft", "active")
ClosePoll(q) == Transition(q, "active", "closed")

\* require_alumni; member_polls shows active and closed polls.
Admit(q, p, o) ==
    /\ p \notin left /\ status[q] \in {"active", "closed"} /\ <<q, p, o>> \notin ballots
    /\ ballots' = ballots \cup {<<q, p, o>>}
    /\ UNCHANGED <<left, friendVars, status, votes, told, result>>

\* Mutant: the poll is not read again under its lock.
MayVoteStale(q, p) == p \notin left
\* The member still has an account and the poll is active.
MayVote(q, p) == p \notin left /\ status[q] = "active"

\* vote under the locks of the member's row and the poll's. A vote is final.
Vote(q, p, o) ==
    LET previous == {v \in votes : v[1] = q /\ v[2] = p} IN
    /\ <<q, p, o>> \in ballots
    /\ ballots' = ballots \ {<<q, p, o>>}
    /\ IF MayVote(q, p) /\ previous \subseteq {<<q, p, o>>}
         THEN votes' = votes \cup {<<q, p, o>>} /\ told' = told \cup {<<q, p, o>>}
         ELSE UNCHANGED <<votes, told>>
    /\ UNCHANGED <<left, friendVars, status, result>>

-----------------------------------------------------------------------------
\* The transaction of anonymize.
Erase(p) ==
    /\ p \notin left
    /\ left' = left \cup {p}
    /\ links' = {l \in links : p \notin {l.from, l.to}}
    /\ asked' = {r \in asked : p \notin {r[1], r[2]}}
    /\ votes' = {v \in votes : v[2] # p}
    /\ UNCHANGED <<lastLink, asking, removing, status, ballots, told, result>>

-----------------------------------------------------------------------------
NextCommunity ==
    \/ \E a, b \in Person : Ask(a, b) \/ SeeFriend(a, b) \/ RemoveFriend(a, b)
    \/ \E p \in Person : ReadLinks(p) \/ Answer(p) \/ Erase(p)
    \/ \E q \in Poll :
          \/ CreatePoll(q) \/ LaunchPoll(q) \/ ClosePoll(q)
          \/ \E p \in Person, o \in Option : Admit(q, p, o) \/ Vote(q, p, o)
CommunitySpec == InitCommunity /\ [][NextCommunity]_<<left, friendVars, pollVars>>

-----------------------------------------------------------------------------
(* Properties.                                                                *)

\* Two members have at most one row between them, whoever asks, accepts and
\* removes meanwhile, and it is accepted only when each of the two has asked the
\* other since it was last removed (friend and remove_friend of community.py).
FriendsAgree ==
    \A l \in links :
        /\ Cardinality(Between(l.from, l.to)) = 1
        /\ l.status = "accepted" => {<<l.from, l.to>>, <<l.to, l.from>>} \subseteq asked

\* A vote that was confirmed is there, unless its member was erased, nobody has
\* two in a poll, and a closed poll keeps the votes it was closed with, those of
\* erased members excepted (vote and transition of polls/routes.py).
ResultsStand ==
    /\ \A v \in told : v[2] \in left \/ v \in votes
    /\ \A v, w \in votes : v[1] = w[1] /\ v[2] = w[2] => v = w
    /\ \A q \in Poll : status[q] = "closed" =>
          {v \in votes : v[1] = q} = {v \in result[q] : v[2] \notin left}
=============================================================================
