------------------------------ MODULE Previews ------------------------------
(* Thumbnails and streams of the media library (Media.thumbnail, Media.stream  *)
(* and FileResponse of modules/media/service.py): file descriptors, the single *)
(* rendering worker, the renders under way and the cache of their results. A   *)
(* request waits three seconds for a render that goes on without it.           *)
EXTENDS Naturals, FiniteSets

CONSTANTS
    Image,        \* path, size and modification time of a file: the key
    Reader,       \* requests
    Workers,      \* THUMBNAIL_WORKERS
    MaxPending,   \* 8
    MaxEntries,   \* 64 thumbnails
    MaxBytes,     \* 16 MB of them
    Bytes,        \* sizes a thumbnail may have
    MaxLost       \* bound on descriptors lost to a cancellation

VARIABLES
    reader,       \* [step, image] of every request
    pending,      \* self.pending: [image -> "queued" or "loading"]
    slots,        \* self.slots
    cache,        \* self.cache: [image -> size]
    older,        \* its order: <<i, j>> if i comes before j
    cacheBytes,   \* self.cache_bytes
    open,         \* the number of open descriptors
    lost          \* those opened by a thread for a request that was cancelled

previewVars == <<reader, pending, slots, cache, older, cacheBytes, open, lost>>

Absent == [step |-> "none"]
Step(r, step) == [reader EXCEPT ![r].step = step]
Only(c, S) == [i \in DOMAIN c \cap S |-> c[i]]
Total(c) == Cardinality(UNION {{i} \X (1..c[i]) : i \in DOMAIN c})
\* The order when i has come to its end.
Last(i) == {p \in older : p[1] # i /\ p[2] # i} \cup ((DOMAIN cache \ {i}) \X {i})
\* Mutant: a thumbnail that is made again is counted twice.
DroppedNever(i) == 0
\* The bytes of the thumbnail that is replaced.
Dropped(i) == IF i \in DOMAIN cache THEN cache[i] ELSE 0

\* The oldest are popped until both limits are met: what stays is whatever comes,
\* with all that is younger, within them.
Kept(c, order) ==
    LET From(i) == {j \in DOMAIN c : j = i \/ <<i, j>> \in order}
    IN  {i \in DOMAIN c : Cardinality(From(i)) <= MaxEntries /\ Total(Only(c, From(i))) <= MaxBytes}

InitPreviews ==
    /\ reader = [r \in Reader |-> Absent]
    /\ pending = <<>> /\ slots = Workers
    /\ cache = <<>> /\ older = {} /\ cacheBytes = 0
    /\ open = 0 /\ lost = 0

-----------------------------------------------------------------------------
(* Requests.                                                                  *)

Open(r, i, kind) ==
    /\ reader[r] = Absent
    /\ reader' = [reader EXCEPT ![r] = [step |-> kind, image |-> i]]
    /\ open' = open + 1
    /\ UNCHANGED <<pending, slots, cache, older, cacheBytes, lost>>

\* The request is cancelled while a thread opens the file for it.
LoseDescriptor(r) ==
    /\ reader[r] = Absent /\ lost < MaxLost
    /\ lost' = lost + 1 /\ open' = open + 1
    /\ UNCHANGED <<reader, pending, slots, cache, older, cacheBytes>>

\* Not a regular file, too large or empty; of a stream, also no image or sound,
\* or a range it has not.
Refuse(r) ==
    /\ reader[r].step \in {"thumbnail", "stream"}
    /\ reader' = Step(r, "closing")
    /\ UNCHANGED <<pending, slots, cache, older, cacheBytes, open, lost>>

\* A thumbnail of the last five minutes is answered and becomes the youngest.
Hit(r) ==
    LET i == reader[r].image IN
    /\ reader[r].step = "thumbnail"
    /\ i \in DOMAIN cache
    /\ older' = Last(i)
    /\ reader' = Step(r, "closing")
    /\ UNCHANGED <<pending, slots, cache, cacheBytes, open, lost>>

\* There is none, or an older one.
Miss(r) == reader[r].step = "thumbnail"

\* Its image is being rendered for somebody else.
Join(r) ==
    /\ Miss(r) /\ reader[r].image \in DOMAIN pending
    /\ reader' = Step(r, "waiting")
    /\ UNCHANGED <<pending, slots, cache, older, cacheBytes, open, lost>>

Busy(r) ==
    /\ Miss(r) /\ reader[r].image \notin DOMAIN pending
    /\ Cardinality(DOMAIN pending) >= MaxPending
    /\ reader' = Step(r, "closing")
    /\ UNCHANGED <<pending, slots, cache, older, cacheBytes, open, lost>>

\* A render is created with a descriptor of its own.
Begin(r) ==
    LET i == reader[r].image IN
    /\ Miss(r) /\ i \notin DOMAIN pending
    /\ Cardinality(DOMAIN pending) < MaxPending
    /\ pending' = [j \in DOMAIN pending \cup {i} |-> IF j = i THEN "queued" ELSE pending[j]]
    /\ open' = open + 1
    /\ reader' = Step(r, "waiting")
    /\ UNCHANGED <<slots, cache, older, cacheBytes, lost>>

\* wait_for ends, or the request is cancelled.
GiveUp(r) ==
    /\ reader[r].step \in {"thumbnail", "stream", "waiting"}
    /\ reader' = Step(r, "closing")
    /\ UNCHANGED <<pending, slots, cache, older, cacheBytes, open, lost>>

\* The response takes the descriptor over; Django closes it.
Respond(r) ==
    /\ reader[r].step = "stream"
    /\ reader' = Step(r, "response")
    /\ UNCHANGED <<pending, slots, cache, older, cacheBytes, open, lost>>

Close(r) ==
    /\ reader[r].step \in {"closing", "response"}
    /\ reader' = [reader EXCEPT ![r] = Absent]
    /\ open' = open - 1
    /\ UNCHANGED <<pending, slots, cache, older, cacheBytes, lost>>

-----------------------------------------------------------------------------
(* Renders.                                                                   *)

TakeSlot(i) ==
    /\ i \in DOMAIN pending /\ pending[i] = "queued" /\ slots > 0
    /\ slots' = slots - 1
    /\ pending' = [pending EXCEPT ![i] = "loading"]
    /\ UNCHANGED <<reader, cache, older, cacheBytes, open, lost>>

\* A render has left: nobody waits for it any longer.
Leave(i) ==
    /\ pending' = [j \in DOMAIN pending \ {i} |-> pending[j]]
    /\ reader' = [r \in Reader |-> IF reader[r].step = "waiting" /\ reader[r].image = i
                                   THEN [reader[r] EXCEPT !.step = "closing"] ELSE reader[r]]
    /\ UNCHANGED lost

\* load has closed the descriptor and the result is cached.
Loaded(i, size) ==
    /\ i \in DOMAIN pending /\ pending[i] = "loading"
    /\ slots' = slots + 1
    /\ open' = open - 1
    /\ LET c == [j \in DOMAIN cache \cup {i} |-> IF j = i THEN size ELSE cache[j]]
           kept == Kept(c, Last(i))
       IN  /\ cache' = Only(c, kept)
           /\ older' = Last(i) \cap (kept \X kept)
           /\ cacheBytes' = cacheBytes - Dropped(i) + size - (Total(c) - Total(Only(c, kept)))
    /\ Leave(i)

\* The image is broken, or the task is cancelled and has waited for its thread.
LoadFails(i) ==
    /\ i \in DOMAIN pending /\ pending[i] = "loading"
    /\ slots' = slots + 1
    /\ open' = open - 1
    /\ Leave(i)
    /\ UNCHANGED <<cache, older, cacheBytes>>

\* The task is cancelled before it has a slot.
CancelQueued(i) ==
    /\ i \in DOMAIN pending /\ pending[i] = "queued"
    /\ open' = open - 1
    /\ Leave(i)
    /\ UNCHANGED <<slots, cache, older, cacheBytes>>

-----------------------------------------------------------------------------
NextPreviews ==
    \/ \E r \in Reader :
          \/ \E i \in Image, kind \in {"thumbnail", "stream"} : Open(r, i, kind)
          \/ LoseDescriptor(r) \/ Refuse(r) \/ Hit(r) \/ Join(r) \/ Busy(r) \/ Begin(r)
          \/ GiveUp(r) \/ Respond(r) \/ Close(r)
    \/ \E i \in Image :
          \/ TakeSlot(i) \/ LoadFails(i) \/ CancelQueued(i)
          \/ \E size \in Bytes : Loaded(i, size)
PreviewsSpec == InitPreviews /\ [][NextPreviews]_previewVars

-----------------------------------------------------------------------------
(* Properties.                                                                *)

\* Every path gives back what it took: the open descriptors are those of requests
\* and renders under way (and of a request cancelled while its file was opened),
\* the slots are what is left of them, no more renders are under way than may be,
\* and nobody waits for one that has gone; and the size of the cache is that of
\* its thumbnails, though they are made again, reordered and dropped, and keeps
\* both of its limits (thumbnail and stream).
PreviewsGiveBack ==
    /\ open = Cardinality({r \in Reader : reader[r] # Absent}) + Cardinality(DOMAIN pending) + lost
    /\ slots + Cardinality({i \in DOMAIN pending : pending[i] = "loading"}) = Workers
    /\ Cardinality(DOMAIN pending) <= MaxPending
    /\ \A r \in Reader : reader[r].step = "waiting" => reader[r].image \in DOMAIN pending
    /\ cacheBytes = Total(cache) /\ cacheBytes <= MaxBytes /\ Cardinality(DOMAIN cache) <= MaxEntries
=============================================================================
