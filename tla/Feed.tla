-------------------------------- MODULE Feed --------------------------------
(* The archive of a channel's posts that the mirror shows (club_web/            *)
(* sync_changes.py): one synchronisation at a time reads the channel page by    *)
(* page, while posts are published, edited and deleted, and merges what it      *)
(* found into the archive it has read before; any error leaves the archive.     *)
EXTENDS Naturals, FiniteSets, FiniteSetsExt

CONSTANTS
    Text,        \* texts of a material
    Short,       \* the text of a message that is none
    PageSize,    \* messages of a page
    Pages,       \* MAX_PAGES
    MaxRecords,  \* MAX_ITEMS
    MaxPosts,    \* bound on the messages, whose numbers grow with their time
    MaxChanges   \* bound on edits and deletions

VARIABLES
    channel,     \* [number -> text] of the messages that are shown
    posted,      \* the last number
    archive,     \* changes.json: [items, last, status]
    reading,     \* the synchronisation
    current,     \* materials the archive has read and nobody has edited since
    changes

feedVars == <<channel, posted, archive, reading, current, changes>>

NotReading == [step |-> "none"]
\* What f says, and g where f says nothing.
Over(f, g) == [i \in DOMAIN f \cup DOMAIN g |-> IF i \in DOMAIN f THEN f[i] ELSE g[i]]
Older(before) == {i \in DOMAIN channel : before = 0 \/ i < before}
Newest(S, n) == {i \in S : Cardinality({j \in S : j > i}) < n}
Page(before) == Newest(Older(before), PageSize)
Posts(page) == {i \in page : channel[i] # Short}

InitFeed ==
    /\ channel = <<>> /\ posted = 0 /\ changes = 0
    /\ archive = [items |-> <<>>, last |-> 0, status |-> "archive"]
    /\ reading = NotReading /\ current = {}

-----------------------------------------------------------------------------
(* The channel.                                                               *)

PublishPost(text) ==
    /\ posted < MaxPosts
    /\ posted' = posted + 1
    /\ channel' = Over(channel, [i \in {posted + 1} |-> text])
    /\ UNCHANGED <<archive, reading, current, changes>>

\* A message that changes is no longer what a synchronisation may have read.
Unsteady(i) ==
    IF reading.step \in {"page", "merge"} THEN [reading EXCEPT !.steady = @ \ {i}] ELSE reading

EditPost(i, text) ==
    /\ i \in DOMAIN channel /\ changes < MaxChanges
    /\ channel' = [channel EXCEPT ![i] = text]
    /\ reading' = Unsteady(i)
    /\ current' = current \ {i}
    /\ changes' = changes + 1
    /\ UNCHANGED <<posted, archive>>

DeletePost(i) ==
    /\ i \in DOMAIN channel /\ changes < MaxChanges
    /\ channel' = [j \in DOMAIN channel \ {i} |-> channel[j]]
    /\ reading' = Unsteady(i)
    /\ changes' = changes + 1
    /\ UNCHANGED <<posted, archive, current>>

-----------------------------------------------------------------------------
(* A synchronisation.                                                         *)

\* main reads the archive that is published.
StartReading ==
    /\ reading = NotReading
    /\ reading' = [step |-> "page", previous |-> archive, found |-> <<>>, before |-> 0,
                   read |-> 0, steady |-> {}]
    /\ UNCHANGED <<channel, posted, archive, current, changes>>

\* A page and the reference to the next one.
FetchPage ==
    LET page == Page(reading.before)
        more == Older(Min(page)) # {} /\ reading.read + 1 < Pages
    IN
    /\ reading.step = "page" /\ page # {}
    /\ reading' = [
          step |-> IF more THEN "page" ELSE "merge",
          previous |-> reading.previous,
          found |-> Over([i \in Posts(page) |-> channel[i]], reading.found),
          before |-> Min(page),
          read |-> reading.read + 1,
          steady |-> IF reading.read = 0 THEN Newest(DOMAIN channel, Pages * PageSize) ELSE reading.steady]
    /\ UNCHANGED <<channel, posted, archive, current, changes>>

\* No answer, no messages, or markup nobody expected.
FetchFails ==
    /\ reading.step = "page"
    /\ reading' = [step |-> "failed", previous |-> reading.previous]
    /\ UNCHANGED <<channel, posted, archive, current, changes>>

\* Mutant: what was known before stays as it was.
MergedStale(previous, found) == Over(previous, found)
\* What was found takes the place of what was known.
Merged(previous, found) == Over(found, previous)

\* The newest material found must not be older than that of the last success.
Acceptable(previous, found) ==
    /\ DOMAIN found # {}
    /\ Max(DOMAIN found) >= previous.last
    /\ Cardinality(DOMAIN Merged(previous.items, found)) <= MaxRecords

MergePosts ==
    LET previous == reading.previous IN
    /\ reading.step = "merge" /\ Acceptable(previous, reading.found)
    /\ archive' = [items |-> Merged(previous.items, reading.found),
                   last |-> Max(DOMAIN reading.found), status |-> "ok"]
    /\ current' = current \cup Posts(reading.steady)
    /\ reading' = NotReading
    /\ UNCHANGED <<channel, posted, changes>>

\* The archive stays, with the news that it could not be brought up to date.
Unavailable ==
    /\ \/ reading.step = "failed"
       \/ reading.step = "merge" /\ ~Acceptable(reading.previous, reading.found)
    /\ archive' = [reading.previous EXCEPT !.status = "unavailable"]
    /\ reading' = NotReading
    /\ UNCHANGED <<channel, posted, current, changes>>

\* The process ends before it has replaced the file.
ReadingStops ==
    /\ reading # NotReading
    /\ reading' = NotReading
    /\ UNCHANGED <<channel, posted, archive, current, changes>>

-----------------------------------------------------------------------------
NextFeed ==
    \/ \E text \in Text \cup {Short} :
          \/ PublishPost(text)
          \/ \E i \in DOMAIN channel : EditPost(i, text)
    \/ \E i \in DOMAIN channel : DeletePost(i)
    \/ StartReading \/ FetchPage \/ FetchFails \/ MergePosts \/ Unavailable \/ ReadingStops
FeedSpec == InitFeed /\ [][NextFeed]_feedVars

-----------------------------------------------------------------------------
(* Properties.                                                                *)

\* What the archive has read it keeps, in the text the channel shows unless it
\* was edited since, though messages come, change and go between two pages: no
\* material of the pages that was there all the time is missed, and the date of
\* the last post is that of the newest in the archive (synchronize).
FeedIsWhole ==
    /\ \A i \in current :
          /\ i \in DOMAIN archive.items
          /\ i \in DOMAIN channel => archive.items[i] = channel[i]
    /\ archive.last = Max({0} \cup DOMAIN archive.items)
=============================================================================
