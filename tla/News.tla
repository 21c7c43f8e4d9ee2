-------------------------------- MODULE News --------------------------------
(* Candidates for the club's news: a refresh of each source merges what it     *)
(* found into the inbox, item by item, while the office imports and dismisses  *)
(* candidates and deletes news. A row of the inbox is locked while it changes. *)
EXTENDS Naturals, FiniteSets

CONSTANTS
    Source,     \* pages that are read; refreshes of one exclude each other
    Url,        \* canonical addresses of publications
    Clerk,      \* requests of the office
    MaxNews,    \* bound on the news that are created
    MaxRefresh  \* bound on the refreshes

VARIABLES
    inbox,      \* per address: the candidate, or none
    news,       \* rows with a source: [id, url]
    refresh,    \* per source: step, addresses left, the candidate it has found
    import,     \* per clerk: step, the row it locked, the news it found
    merged,     \* per address: sources whose merge has committed
    created, refreshes

newsVars == <<inbox, news, refresh, import, merged, created, refreshes>>

None == 0
Absent == [state |-> "absent", sources |-> {}, news |-> None]
Candidate(src) == [state |-> "new", sources |-> src, news |-> None]
NoRefresh == [step |-> "idle", left |-> {}, url |-> None]
NoImport == [step |-> "idle", url |-> None, found |-> None]

Locked(u) == \E c \in Clerk : import[c].step = "found" /\ import[c].url = u
Exists(u) == inbox[u].state # "absent"

-----------------------------------------------------------------------------
(* refresh_source, under the lock of its source, which does not wait.         *)

\* The page lists the addresses; an empty list is an error.
Fetch(s, listed) ==
    /\ refresh[s].step = "idle"
    /\ refreshes < MaxRefresh
    /\ listed # {}
    /\ refresh' = [refresh EXCEPT ![s] = [NoRefresh EXCEPT !.step = "items", !.left = listed]]
    /\ refreshes' = refreshes + 1
    /\ UNCHANGED <<inbox, news, import, merged, created>>

\* merge_candidate, one transaction: a row it creates is its own until the end,
\* one it finds is read again when it is locked.
Done(s, u) == [refresh EXCEPT ![s].step = "items", ![s].left = @ \ {u}, ![s].url = None]
CreateCandidate(s, u) ==
    /\ refresh[s].step = "items"
    /\ u \in refresh[s].left
    /\ ~Exists(u)
    /\ inbox' = [inbox EXCEPT ![u] = Candidate({s})]
    /\ merged' = [merged EXCEPT ![u] = @ \cup {s}]
    /\ refresh' = Done(s, u)
    /\ UNCHANGED <<news, import, created, refreshes>>
FindCandidate(s, u) ==
    /\ refresh[s].step = "items"
    /\ u \in refresh[s].left
    /\ Exists(u)
    /\ refresh' = [refresh EXCEPT ![s].step = "save", ![s].url = u]
    /\ UNCHANGED <<inbox, news, import, merged, created, refreshes>>

SaveCandidate(s) ==
    LET u == refresh[s].url
    IN  /\ refresh[s].step = "save"
        /\ ~Locked(u)
        /\ inbox' = [inbox EXCEPT ![u].sources = @ \cup {s}]
        /\ merged' = [merged EXCEPT ![u] = @ \cup {s}]
        /\ refresh' = Done(s, u)
        /\ UNCHANGED <<news, import, created, refreshes>>

\* New candidates whose news exists already are imported; then the run is noted.
NewsOf(u) == {n \in news : n.url = u}
Link(s) ==
    /\ refresh[s].step = "items"
    /\ refresh[s].left = {}
    /\ \A u \in Url : inbox[u].state = "new" /\ NewsOf(u) # {} => ~Locked(u)
    /\ inbox' = [u \in Url |-> IF inbox[u].state = "new" /\ NewsOf(u) # {}
                               THEN [inbox[u] EXCEPT !.state = "imported", !.news = (CHOOSE n \in NewsOf(u) : TRUE).id]
                               ELSE inbox[u]]
    /\ refresh' = [refresh EXCEPT ![s] = NoRefresh]
    /\ UNCHANGED <<news, import, merged, created, refreshes>>

\* Any failure ends the run; what was merged stays.
RefreshFails(s) ==
    /\ refresh[s].step # "idle"
    /\ refresh' = [refresh EXCEPT ![s] = NoRefresh]
    /\ UNCHANGED <<inbox, news, import, merged, created, refreshes>>

-----------------------------------------------------------------------------
(* import_candidate: one transaction, with the candidate's row locked.        *)

\* Mutant: the candidate's row is not locked.
ExistsOnly(u) == Exists(u)
Unlocked(u) == Exists(u) /\ ~Locked(u)
ImportFind(c, u) ==
    /\ import[c].step = "idle"
    /\ Unlocked(u)
    /\ import' = [import EXCEPT ![c] = [step |-> "found", url |-> u,
                      found |-> IF NewsOf(u) = {} THEN None ELSE (CHOOSE n \in NewsOf(u) : TRUE).id]]
    /\ UNCHANGED <<inbox, news, refresh, merged, created, refreshes>>

ImportCommit(c) ==
    LET u == import[c].url
        id == IF import[c].found = None THEN created + 1 ELSE import[c].found
    IN  /\ import[c].step = "found"
        /\ IF import[c].found = None
           THEN /\ created < MaxNews
                /\ news' = news \cup {[id |-> id, url |-> u]}
                /\ created' = id
           ELSE /\ \E n \in news : n.id = id
                /\ UNCHANGED <<news, created>>
        /\ inbox' = [inbox EXCEPT ![u].state = "imported", ![u].news = id]
        /\ import' = [import EXCEPT ![c] = NoImport]
        /\ UNCHANGED <<refresh, merged, refreshes>>

\* The news it found has gone, or the process stops: nothing is written.
ImportFails(c) ==
    /\ import[c].step = "found"
    /\ import' = [import EXCEPT ![c] = NoImport]
    /\ UNCHANGED <<inbox, news, refresh, merged, created, refreshes>>

\* patch, for a candidate that is not imported.
SetState(u, state) ==
    /\ inbox[u].state \in {"new", "dismissed"}
    /\ ~Locked(u)
    /\ inbox' = [inbox EXCEPT ![u].state = state]
    /\ UNCHANGED <<news, refresh, import, merged, created, refreshes>>

\* The office deletes news; the key of the candidates is cleared.
DeleteNews(n) ==
    /\ \A u \in Url : inbox[u].news = n.id => ~Locked(u)
    /\ news' = news \ {n}
    /\ inbox' = [u \in Url |-> IF inbox[u].news = n.id THEN [inbox[u] EXCEPT !.news = None] ELSE inbox[u]]
    /\ UNCHANGED <<refresh, import, merged, created, refreshes>>

-----------------------------------------------------------------------------
InitNews ==
    /\ inbox = [u \in Url |-> Absent]
    /\ news = {}
    /\ refresh = [s \in Source |-> NoRefresh]
    /\ import = [c \in Clerk |-> NoImport]
    /\ merged = [u \in Url |-> {}]
    /\ created = 0 /\ refreshes = 0
NextNews ==
    \/ \E s \in Source :
          \/ \E listed \in SUBSET Url : Fetch(s, listed)
          \/ \E u \in Url : CreateCandidate(s, u) \/ FindCandidate(s, u)
          \/ SaveCandidate(s) \/ Link(s) \/ RefreshFails(s)
    \/ \E c \in Clerk : (\E u \in Url : ImportFind(c, u)) \/ ImportCommit(c) \/ ImportFails(c)
    \/ \E u \in Url, state \in {"new", "dismissed"} : SetState(u, state)
    \/ \E n \in news : DeleteNews(n)
NewsSpec == InitNews /\ [][NextNews]_newsVars

-----------------------------------------------------------------------------
\* A publication becomes news once, whoever imports it and however often, as
\* nothing but the locked candidate stands between two imports; a candidate
\* names the news made from it and every source that found it.
NewsFollowInbox ==
    /\ \A n, k \in news : n.url = k.url => n = k
    /\ \A u \in Url :
          /\ inbox[u].news # None => inbox[u].state = "imported" /\ [id |-> inbox[u].news, url |-> u] \in news
          /\ merged[u] \subseteq inbox[u].sources
=============================================================================
