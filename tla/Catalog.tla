------------------------------- MODULE Catalog -------------------------------
(* Synchronisation of the programs on sale with the university's catalogue:    *)
(* two listings are collected page by page outside any lock, then the plan is  *)
(* computed and applied in one transaction under a named lock, while the       *)
(* office edits the same rows without it.                                      *)
EXTENDS Naturals, Sequences, FiniteSets, FiniteSetsExt, SequencesExt

CONSTANTS
    Sync,       \* runs of the synchronisation, by hand or by the job
    Card,       \* what the source may list: [hse, title, price], price 0 unknown
    MinCards,   \* fewer current cards are taken for an incomplete listing
    MaxPrograms,    \* bound on the rows
    MaxEdits        \* bound on what the office does

VARIABLES
    listed,     \* the source: current cards and all cards, in its order
    programs,   \* rows: [id, hse, title, price, status], hse 0 without source
    sync,       \* per run: step, both listings, the rows it read
    locked,     \* the run that holds the lock dpo-sync, or none
    touched,    \* rows the office changed since they were read under the lock
    edits

catalogVars == <<listed, programs, sync, locked, touched, edits>>

NoSync == "none"
Idle == [step |-> "idle", actual |-> <<>>, all |-> <<>>, rows |-> {}]
HseOf(cards) == {c.hse : c \in ToSet(cards)}

\* What is taken for a listing of the source: cards in an order, no number twice.
Listings == {cards \in UNION {[1..n -> Card] : n \in 0..Cardinality(Card)} :
                \A i, j \in DOMAIN cards : cards[i].hse = cards[j].hse => i = j}
Ordered(actual, all) == HseOf(actual) \subseteq HseOf(all)

-----------------------------------------------------------------------------
(* collect, first the current programs and then all of them.                  *)

CollectActual(s) ==
    /\ sync[s].step = "idle"
    /\ Len(listed.actual) >= MinCards
    /\ sync' = [sync EXCEPT ![s] = [Idle EXCEPT !.step = "all", !.actual = listed.actual]]
    /\ UNCHANGED <<listed, programs, locked, touched, edits>>

\* The two listings must agree, else nothing is changed.
Complete(s) == /\ Len(listed.all) >= Len(sync[s].actual)
               /\ Ordered(sync[s].actual, listed.all)
CollectAll(s) ==
    /\ sync[s].step = "all"
    /\ sync' = [sync EXCEPT ![s] = IF Complete(s) THEN [sync[s] EXCEPT !.step = "lock", !.all = listed.all]
                                   ELSE Idle]
    /\ UNCHANGED <<listed, programs, locked, touched, edits>>

-----------------------------------------------------------------------------
(* plan_sync. A row with a source is found by the source's number, then by its *)
(* title; a card whose row another card has taken changes nothing.             *)

ById(rows, c) == {r \in rows : r.hse = c.hse}
ByTitle(rows, c) == {r \in rows : r.hse # 0 /\ r.title = c.title}
RowFor(rows, c) == IF ById(rows, c) # {} THEN ById(rows, c) ELSE ByTitle(rows, c)

StatusOf(c, price) == IF c.price > 0 \/ price > 0 THEN "published" ELSE "draft"
Created(id, c) == [id |-> id, hse |-> c.hse, title |-> c.title, price |-> c.price, status |-> StatusOf(c, 0)]

RowOf(rows, c) == CHOOSE r \in RowFor(rows, c) : \A o \in RowFor(rows, c) : o.id <= r.id

\* The first card, in their order, that has found a row gets it; the positions of
\* the cards that have found none.
PlanOf(rows, cards) ==
    LET known == {n \in DOMAIN cards : RowFor(rows, cards[n]) # {}}
        Row(n) == RowOf(rows, cards[n]).id
        First(i) == CHOOSE n \in known : Row(n) = i /\ \A m \in known : Row(m) = i => n <= m
    IN  [of |-> [i \in {Row(n) : n \in known} |-> cards[First(i)]], new |-> DOMAIN cards \ known]

Archived(rows, plan) == {r.id : r \in {r \in rows : r.hse # 0 /\ r.id \notin DOMAIN plan.of /\ r.status # "archived"}}

-----------------------------------------------------------------------------
(* The transaction: the lock, the rows as they are, then every change.        *)

\* Mutant: the lock is not waited for.
FreeAlways(s) == locked # s
Free(s) == locked = NoSync
Read(s) ==
    /\ sync[s].step = "lock"
    /\ Free(s)
    /\ locked' = s
    /\ touched' = {}
    /\ sync' = [sync EXCEPT ![s].step = "apply", ![s].rows = programs]
    /\ UNCHANGED <<listed, programs, edits>>

\* A status or a price the source does not say is left as the office has it.
Patched(p, r, c) == [p EXCEPT !.hse = c.hse, !.price = IF c.price > 0 THEN c.price ELSE p.price,
                              !.status = StatusOf(c, r.price)]

Plan(s) == PlanOf(sync[s].rows, sync[s].all)
Gone(s) == Archived(sync[s].rows, Plan(s))
Kept(s, p) ==
    IF p.id \in DOMAIN Plan(s).of
    THEN Patched(p, CHOOSE r \in sync[s].rows : r.id = p.id, Plan(s).of[p.id])
    ELSE IF p.id \in Gone(s) THEN [p EXCEPT !.status = "archived"] ELSE p
New(s, n) == Created(Max({p.id : p \in programs} \cup {0}) + Cardinality({m \in Plan(s).new : m <= n}), sync[s].all[n])
After(s) == {Kept(s, p) : p \in programs} \cup {New(s, n) : n \in Plan(s).new}

\* A planned row that is gone fails the whole transaction.
Apply(s) ==
    /\ sync[s].step = "apply"
    /\ DOMAIN Plan(s).of \cup Gone(s) \subseteq {p.id : p \in programs}
    /\ Cardinality(programs) + Cardinality(Plan(s).new) <= MaxPrograms
    /\ programs' = After(s)
    /\ sync' = [sync EXCEPT ![s] = Idle]
    /\ locked' = NoSync
    /\ UNCHANGED <<listed, touched, edits>>

\* An answer that cannot be used, a lock that is not obtained, a failed statement.
Fails(s) ==
    /\ sync[s].step # "idle"
    /\ sync' = [sync EXCEPT ![s] = Idle]
    /\ locked' = IF locked = s THEN NoSync ELSE locked
    /\ UNCHANGED <<listed, programs, touched, edits>>

-----------------------------------------------------------------------------
(* The office, which takes no such lock, and the source.                      *)

Edit(p, price, status) ==
    /\ edits < MaxEdits
    /\ programs' = (programs \ {p}) \cup {[p EXCEPT !.price = price, !.status = status]}
    /\ touched' = touched \cup {p.id}
    /\ edits' = edits + 1
    /\ UNCHANGED <<listed, sync, locked>>
Delete(p) ==
    /\ edits < MaxEdits
    /\ programs' = programs \ {p}
    /\ touched' = touched \cup {p.id}
    /\ edits' = edits + 1
    /\ UNCHANGED <<listed, sync, locked>>
Publish(actual, all) ==
    /\ edits < MaxEdits
    /\ Ordered(actual, all)
    /\ listed' = [actual |-> actual, all |-> all]
    /\ edits' = edits + 1
    /\ UNCHANGED <<programs, sync, locked, touched>>

InitCatalog ==
    /\ listed \in {[actual |-> x, all |-> x] : x \in {y \in Listings : Len(y) >= MinCards}}
    /\ programs = {}
    /\ sync = [s \in Sync |-> Idle]
    /\ locked = NoSync /\ touched = {} /\ edits = 0
NextCatalog ==
    \/ \E s \in Sync : CollectActual(s) \/ CollectAll(s) \/ Read(s) \/ Apply(s) \/ Fails(s)
    \/ \E p \in programs : Delete(p) \/ \E price \in {0, 1}, status \in {"draft", "published"} : Edit(p, price, status)
    \/ \E all \in Listings : \E actual \in {all, <<>>} : Publish(actual, all)
CatalogSpec == InitCatalog /\ [][NextCatalog]_catalogVars

-----------------------------------------------------------------------------
\* No two programs stand for one card of the source, however runs overlap; and a
\* run that succeeds settles every row the office did not touch meanwhile: on
\* sale only what the source lists and what has a price, the rest archived.
Settled(p, cards) ==
    p.hse # 0 =>
        /\ p.hse \notin HseOf(cards) => p.status = "archived"
        /\ p.hse \in HseOf(cards) => p.status = IF p.price > 0 THEN "published" ELSE "draft"
CatalogFollowsSource ==
    /\ [](\A p, q \in programs : p.hse = q.hse /\ p.hse # 0 => p = q)
    /\ [][\A s \in Sync : Apply(s) => \A p \in programs' : p.id \notin touched => Settled(p, sync[s].all)]_catalogVars
=============================================================================
