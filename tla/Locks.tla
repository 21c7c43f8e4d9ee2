------------------------------- MODULE Locks -------------------------------
(* The locks of the API's transactions on MariaDB: named locks, rows and the   *)
(* six connections (db/mysql.py), in the order in which the transactions of     *)
(* orders, subscriptions, the office, the catalogue and erasure take them. What *)
(* they do to the rows is in the other modules, where a transaction is a step.  *)
EXTENDS Naturals, FiniteSets, Sequences, Functions

CONSTANTS
    Task,         \* requests and jobs
    Connections,  \* 6
    Session, Member, Order,
    MaxProduct    \* the rows of programs and products, in the order of type and slug

VARIABLES
    plan,   \* the locks a transaction has still to take
    held,   \* the locks it has: [kind, name, mode]
    using   \* the tasks that have a connection

lockVars == <<plan, held, using>>

Product == 1..MaxProduct
\* The products of a cart, as it lists them.
Carts == {items \in UNION {[1..n -> Product] : n \in 1..MaxProduct} : IsInjective(items)}

Exclusive(kind, name) == [kind |-> kind, name |-> name, mode |-> "X"]
Shared(kind, name) == [kind |-> kind, name |-> name, mode |-> "S"]
Conflict(r, q) == r.kind = q.kind /\ r.name = q.name /\ "X" \in {r.mode, q.mode}

\* media_references: the named lock of whatever refers to files.
References == Exclusive("media.references", 0)

\* The rows of programs in the order of the source's cards.
InOrderOfSource(items) == [n \in DOMAIN items |-> Exclusive("product", items[n])]
\* Mutant: the items are left as the cart has them.
Unsorted(items) == [n \in DOMAIN items |-> Exclusive("product", items[n])]
\* commit sorts the items; release takes the reservations commit has stored.
Nth(items, n) == CHOOSE p \in Range(items) : Cardinality({q \in Range(items) : q < p}) = n - 1
Sorted(items) == [n \in DOMAIN items |-> Exclusive("product", Nth(items, n))]

InitLocks ==
    /\ plan = [t \in Task |-> <<>>]
    /\ held = [t \in Task |-> {}]
    /\ using = {}

-----------------------------------------------------------------------------
(* A transaction on a connection of its own.                                  *)

\* A connection is taken and the transaction begins; nobody asks for a second.
Begin(t, locks) ==
    /\ t \notin using /\ Cardinality(using) < Connections
    /\ using' = using \cup {t}
    /\ plan' = [plan EXCEPT ![t] = locks]
    /\ UNCHANGED held

Free(t, r) == \A u \in Task \ {t} : \A q \in held[u] : ~Conflict(r, q)

\* SELECT ... FOR UPDATE, GET_LOCK, or a write.
Take(t) ==
    /\ plan[t] # <<>> /\ Free(t, plan[t][1])
    /\ held' = [held EXCEPT ![t] = @ \cup {plan[t][1]}]
    /\ plan' = [plan EXCEPT ![t] = Tail(@)]
    /\ UNCHANGED using

Leave(t) ==
    /\ plan' = [plan EXCEPT ![t] = <<>>]
    /\ held' = [held EXCEPT ![t] = {}]
    /\ using' = using \ {t}

\* Commit gives the rows back, closing the connection the named locks.
Finish(t) == t \in using /\ plan[t] = <<>> /\ Leave(t)

\* A wait of five seconds for a row or a named lock rolls the transaction back.
TimeOut(t) == plan[t] # <<>> /\ ~Free(t, plan[t][1]) /\ Leave(t)

-----------------------------------------------------------------------------
(* The transactions.                                                          *)

\* Checkout.commit.
Commit(t, s, m, items) ==
    Begin(t, <<Exclusive("cart", s), Shared("member", m)>> \o Sorted(items) \o <<Exclusive("sequence", 0)>>)

\* change_status and apply of a canceled payment, with release.
Close(t, o, items) ==
    Begin(t, <<Exclusive("order", o), Exclusive("commit", o)>> \o Sorted(items))

\* apply of the success of a subscription, with extend.
Extend(t, o, m) == Begin(t, <<Exclusive("order", o), Exclusive("member", m)>>)

\* subscribe: the order it inserts refers to its member.
Subscribe(t, m) ==
    Begin(t, <<Exclusive("podcast", m), Exclusive("sequence", 0), Shared("member", m)>>)

\* write_content of a product's stock or variants locks its row first, as its deletion
\* does; if pictures are sent too, store.update then asks for the lock of references.
EditStock(t, p, pictures) ==
    Begin(t, <<Exclusive("product", p)>> \o (IF pictures THEN <<References>> ELSE <<>>))

\* Any other edit of a product or program is store.update alone, which takes the
\* lock of references first and the row second.
EditOther(t, p, pictures) ==
    Begin(t, (IF pictures THEN <<References>> ELSE <<>>) \o <<Exclusive("product", p)>>)

\* sync_catalog writes the rows of programs in the order of the source's cards.
Synchronise(t, items) == Begin(t, <<Exclusive("dpo-sync", 0)>> \o InOrderOfSource(items))

\* anonymize, with the member's orders.
EraseMember(t, m, o) == Begin(t, <<Exclusive("member", m), Exclusive("order", o)>>)

-----------------------------------------------------------------------------
NextLocks ==
    \E t \in Task :
        \/ Take(t) \/ Finish(t) \/ TimeOut(t)
        \/ \E items \in Carts :
              \/ \E s \in Session, m \in Member : Commit(t, s, m, items)
              \/ \E o \in Order : Close(t, o, items)
              \/ Synchronise(t, items)
        \/ \E m \in Member :
              \/ Subscribe(t, m)
              \/ \E o \in Order : Extend(t, o, m) \/ EraseMember(t, m, o)
        \/ \E p \in Product, pictures \in BOOLEAN : EditStock(t, p, pictures) \/ EditOther(t, p, pictures)
LocksSpec == InitLocks /\ [][NextLocks]_lockVars

-----------------------------------------------------------------------------
(* Properties.                                                                *)

WaitsFor(t, u) ==
    /\ plan[t] # <<>>
    /\ \E q \in held[u] : Conflict(plan[t][1], q)

\* An edit of stock and pictures has its product's row and waits for the lock of
\* references, whose holder may be another edit that waits for the row.
TurnsBack(t) == plan[t][1] = References /\ \E l \in held[t] : l.kind = "product"

\* Transactions wait in a circle only if one of them waits for a member's row, is a
\* synchronisation of the catalogue or an edit of stock and pictures: orders,
\* cancellations, subscriptions and all other edits never stop each other with the
\* rows of products, the references to files and the number of an order
\* (the sorted items of Checkout.commit, media_references before the row).
NoCircleOfProducts ==
    \A S \in (SUBSET Task) \ {{}} :
        \E t \in S :
            \/ \A u \in S \ {t} : ~WaitsFor(t, u)
            \/ plan[t][1].kind = "member"
            \/ Exclusive("dpo-sync", 0) \in held[t]
            \/ TurnsBack(t)
=============================================================================
