------------------------------ MODULE Offline ------------------------------
(* The pages a browser keeps for reading without network (service-worker.js):  *)
(* visits in several tabs fetch pages, save the public ones in the cache of the *)
(* installed version and trim it to its limit in steps that interleave; the     *)
(* browser may stop the worker between any two of them.                         *)
EXTENDS Naturals, FiniteSets

CONSTANTS
    Frame,      \* tabs, and the install event
    Public,     \* pages with X-Club-Offline: public
    Private,    \* other pages
    Pinned,     \* the public pages that are never trimmed
    MaxPages,   \* MAX_PAGES
    MaxStops    \* bound on the stops that leave a page untrimmed

VARIABLES
    saved,      \* PAGES_CACHE: the pages that have a copy
    earlier,    \* the order of its keys: <<p, q>> if p was saved before q
    stale,      \* copies older than a week
    window,     \* the request of each window
    kept,       \* pinned pages that have been saved and not removed since
    untrimmed   \* stops after a page was saved and before the trim

copies == <<saved, earlier, stale>>
offlineVars == <<copies, window, kept, untrimmed>>

Page == Public \cup Private
Done == [step |-> "none"]
At(w, step) == [window EXCEPT ![w].step = step]
Finished(w) == [window EXCEPT ![w] = Done]
Delete(pages) ==
    /\ saved' = saved \ pages /\ stale' = stale \ pages
    /\ earlier' = {pair \in earlier : pair[1] \notin pages /\ pair[2] \notin pages}
Write(p) ==
    /\ saved' = saved \cup {p} /\ stale' = stale \ {p}
    /\ earlier' = {pair \in earlier : pair[1] # p /\ pair[2] # p} \cup ((saved \ {p}) \X {p})

InitOffline ==
    /\ saved = {} /\ earlier = {} /\ stale = {} /\ kept = {} /\ untrimmed = 0
    /\ window = [w \in Frame |-> Done]

-----------------------------------------------------------------------------
(* The fetch event.                                                           *)

\* A navigation, or a page the site asks to save (x-club-save-page).
Navigate(w, p, save) ==
    /\ window[w] = Done
    /\ window' = [window EXCEPT ![w] = [step |-> IF save THEN "reuse" ELSE "fetch", page |-> p]]
    /\ UNCHANGED <<copies, kept, untrimmed>>

\* savedPage: a copy of the last week; an older one is removed.
SavedPage(p) == IF p \in stale THEN Delete({p}) /\ kept' = kept \ {p} ELSE UNCHANGED <<copies, kept>>

\* A page to save that is there already is answered without the network.
Reuse(w) ==
    LET p == window[w].page IN
    /\ window[w].step = "reuse"
    /\ window' = IF p \in saved \ stale THEN Finished(w) ELSE At(w, "fetch")
    /\ SavedPage(p)
    /\ UNCHANGED untrimmed

\* There is no network: the copy, or offline.html.
NoNetwork(w) ==
    /\ window[w].step = "fetch"
    /\ window' = Finished(w)
    /\ SavedPage(window[w].page)
    /\ UNCHANGED untrimmed

\* A page that is withdrawn (404 or 410) takes its copy with it; a public one is saved.
Fetched(w, withdrawn) ==
    LET p == window[w].page IN
    /\ window[w].step = "fetch"
    /\ IF withdrawn
         THEN Delete({p}) /\ kept' = kept \ {p}
         ELSE UNCHANGED <<copies, kept>>
    /\ window' = IF p \in Public /\ ~withdrawn THEN At(w, "body") ELSE Finished(w)
    /\ UNCHANGED untrimmed

\* The install event saves the pinned pages and has nothing to fall back on.
Install(w, p) ==
    /\ window[w] = Done /\ p \in Pinned
    /\ window' = [window EXCEPT ![w] = [step |-> "body", page |-> p]]
    /\ UNCHANGED <<copies, kept, untrimmed>>

-----------------------------------------------------------------------------
(* put, an await at a time.                                                    *)

PutDelete(w) ==
    LET p == window[w].page IN
    /\ window[w].step = "body"
    /\ window' = At(w, "deleted")
    /\ Delete({p}) /\ kept' = kept \ {p}
    /\ UNCHANGED untrimmed

PutWrite(w) ==
    LET p == window[w].page IN
    /\ window[w].step = "deleted"
    /\ window' = At(w, "written")
    /\ Write(p)
    /\ kept' = IF p \in Pinned THEN kept \cup {p} ELSE kept
    /\ UNCHANGED untrimmed

\* The browser has no room left.
PutFails(w) ==
    /\ window[w].step = "deleted"
    /\ window' = Finished(w)
    /\ UNCHANGED <<copies, kept, untrimmed>>

Surplus == IF Cardinality(saved) > MaxPages THEN Cardinality(saved) - MaxPages ELSE 0

\* Mutant: the oldest copies, pinned or not.
VictimsOfAll == {p \in saved : Cardinality({q \in saved : <<q, p>> \in earlier}) < Surplus}
\* The oldest copies that are not pinned.
Victims ==
    LET loose == saved \ Pinned
    IN  {p \in loose : Cardinality({q \in loose : <<q, p>> \in earlier}) < Surplus}

PutKeys(w) ==
    /\ window[w].step = "written"
    /\ window' = [window EXCEPT ![w] = [step |-> "trim", page |-> window[w].page, victims |-> Victims]]
    /\ UNCHANGED <<copies, kept, untrimmed>>

PutTrim(w) ==
    /\ window[w].step = "trim"
    /\ window' = Finished(w)
    /\ Delete(window[w].victims)
    /\ UNCHANGED <<kept, untrimmed>>

-----------------------------------------------------------------------------
\* The browser stops the worker.
WorkerStops ==
    LET open == Cardinality({w \in Frame : window[w].step \in {"written", "trim"}}) IN
    /\ \E w \in Frame : window[w] # Done
    /\ untrimmed' = untrimmed + open /\ untrimmed' <= MaxStops
    /\ window' = [w \in Frame |-> Done]
    /\ UNCHANGED <<copies, kept>>

\* A new version removes the caches of the older ones.
Activate ==
    /\ saved' = {} /\ earlier' = {} /\ stale' = {} /\ kept' = {} /\ untrimmed' = 0
    /\ window' = [w \in Frame |-> Done]

\* A copy becomes older than a week.
AgeCopy(p) ==
    /\ p \in saved /\ stale' = stale \cup {p}
    /\ UNCHANGED <<saved, earlier, window, kept, untrimmed>>

-----------------------------------------------------------------------------
NextOffline ==
    \/ \E w \in Frame :
          \/ \E p \in Page, save \in BOOLEAN : Navigate(w, p, save)
          \/ \E p \in Pinned : Install(w, p)
          \/ \E withdrawn \in BOOLEAN : Fetched(w, withdrawn)
          \/ Reuse(w) \/ NoNetwork(w)
          \/ PutDelete(w) \/ PutWrite(w) \/ PutFails(w) \/ PutKeys(w) \/ PutTrim(w)
    \/ WorkerStops \/ Activate
    \/ \E p \in saved : AgeCopy(p)
OfflineSpec == InitOffline /\ [][NextOffline]_offlineVars

-----------------------------------------------------------------------------
(* Properties.                                                                *)

\* However the steps of put interleave, the copies exceed their limit by no more
\* than the saves that have not come to their trim, pinned pages are not trimmed,
\* and no private page has a copy (put and savePage).
CopiesStayBounded ==
    /\ Cardinality(saved) <= MaxPages + untrimmed
                             + Cardinality({w \in Frame : window[w].step \in {"written", "trim"}})
    /\ kept \subseteq saved
    /\ saved \subseteq Public
=============================================================================
