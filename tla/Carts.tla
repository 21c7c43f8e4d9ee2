------------------------------- MODULE Carts -------------------------------
(* A visitor's cart (modules/checkout/cart.py), changed from several tabs, and *)
(* the order made from it (create_order of orders.py, commit of store.py). A    *)
(* cart is one row under a lock of its session; adding looks the position up    *)
(* before the lock, ordering reads cart and catalogue before its transaction.   *)
(* Keys, discounts, numbers and payments of an order are in Checkout.           *)
EXTENDS Naturals, FiniteSets, Functions, FiniteSetsExt

CONSTANTS
    Tab,        \* requests of one session at once
    Dpo,        \* lines of programs: type, ref_id and variant_sku
    Merch,      \* lines of products
    MaxLines,   \* MAX_CART_LINES
    MaxQty,     \* MAX_LINE_QTY
    Price,      \* prices a position may have
    Stock,      \* stocks the office may enter
    MaxUnits,   \* bound on the units ever put into the cart
    MaxAltered  \* bound on the changes of the office

VARIABLES
    lines,      \* carts.items_json: [line -> [qty, price]]
    product,    \* [line -> [price, stock, published]]
    tab,        \* the request of each tab
    added,      \* units the answers to the visitor have put in, less those taken out
    ordered,    \* units ordered
    put, altered

cartVars == <<lines, product, tab, added, ordered, put, altered>>

Line == Dpo \cup Merch
Waiting == [step |-> "none"]
Qty(cart, l) == IF l \in DOMAIN cart THEN cart[l].qty ELSE 0
ExceedsStock(info, l, qty) == l \in Merch /\ qty > info.stock
Without(l) == Restrict(lines, DOMAIN lines \ {l})
With(l, entry) == [k \in DOMAIN lines \cup {l} |-> IF k = l THEN entry ELSE lines[k]]

\* save_cart, and the answer that shows the cart to the visitor.
SaveCart(cart) ==
    /\ lines' = cart
    /\ added' = [l \in Line |-> added[l] + Qty(cart, l) - Qty(lines, l)]
    /\ UNCHANGED <<product, ordered, altered>>

InitCarts ==
    /\ lines = <<>>
    /\ product \in [Line -> {[price |-> p, stock |-> s, published |-> TRUE] :
                                p \in {Min(Price)}, s \in {Max(Stock)}}]
    /\ tab = [t \in Tab |-> Waiting]
    /\ added = [l \in Line |-> 0] /\ ordered = [l \in Line |-> 0]
    /\ put = 0 /\ altered = 0

-----------------------------------------------------------------------------
(* The cart.                                                                  *)

\* add_cart up to the lock.
LookUp(t, l, qty) ==
    /\ tab[t] = Waiting /\ qty \in 1..MaxQty
    /\ product[l].published
    /\ tab' = [tab EXCEPT ![t] = [step |-> "add", line |-> l, qty |-> qty, info |-> product[l]]]
    /\ UNCHANGED <<lines, product, added, ordered, put, altered>>

\* The line add_cart leaves: a program once, a product's quantities together.
Entry(l, qty, info) ==
    IF l \in DOMAIN lines
      THEN IF l \in Merch THEN [lines[l] EXCEPT !.qty = Min({MaxQty, @ + qty})] ELSE lines[l]
      ELSE [qty |-> IF l \in Dpo THEN 1 ELSE qty, price |-> info.price]

AddCart(t) ==
    LET l == tab[t].line
        entry == Entry(l, tab[t].qty, tab[t].info)
    IN
    /\ tab[t].step = "add"
    /\ tab' = [tab EXCEPT ![t] = Waiting]
    /\ IF /\ l \in DOMAIN lines \/ Cardinality(DOMAIN lines) < MaxLines
          /\ ~ExceedsStock(tab[t].info, l, entry.qty)
         THEN /\ put' = put + entry.qty - Qty(lines, l)
              /\ put' <= MaxUnits
              /\ SaveCart(With(l, entry))
         ELSE UNCHANGED <<lines, product, added, ordered, put, altered>>

\* change_qty; a line that is not there is left so.
ChangeQty(l, qty) ==
    LET raises == l \in Merch /\ qty > Qty(lines, l) IN
    /\ qty \in 0..MaxQty /\ l \in DOMAIN lines
    /\ raises => product[l].published /\ ~ExceedsStock(product[l], l, qty)
    /\ put' = IF qty > Qty(lines, l) THEN put + qty - Qty(lines, l) ELSE put
    /\ put' <= MaxUnits
    /\ SaveCart(IF qty = 0 THEN Without(l)
                ELSE [lines EXCEPT ![l].qty = IF l \in Dpo THEN 1 ELSE qty])
    /\ UNCHANGED tab

ClearCart ==
    /\ SaveCart(<<>>)
    /\ UNCHANGED <<tab, put>>

-----------------------------------------------------------------------------
(* The order.                                                                 *)

\* create_order reads the cart ...
ReadCart(t) ==
    /\ tab[t] = Waiting /\ lines # <<>>
    /\ tab' = [tab EXCEPT ![t] = [step |-> "cart", items |-> lines]]
    /\ UNCHANGED <<lines, product, added, ordered, put, altered>>

\* ... and then the catalogue; what is no longer there refuses the order.
PriceItems(t) ==
    /\ tab[t].step = "cart"
    /\ tab' = [tab EXCEPT ![t] =
          IF \A l \in DOMAIN tab[t].items : product[l].published
            THEN [step |-> "order", items |-> tab[t].items,
                  priced |-> [l \in DOMAIN tab[t].items |-> product[l].price]]
            ELSE Waiting]
    /\ UNCHANGED <<lines, product, added, ordered, put, altered>>

\* Mutant: the cart is not compared.
SameCartAlways(items) == TRUE
\* commit compares the cart with the one the order was made from.
SameCart(items) == lines = items

Orderable(items, priced) ==
    /\ SameCart(items)
    /\ \A l \in DOMAIN items :
          /\ product[l].published /\ product[l].price = priced[l]
          /\ l \in Merch => items[l].qty <= product[l].stock

\* commit: stock, order and the empty cart in one transaction.
Commit(t) ==
    LET items == tab[t].items IN
    /\ tab[t].step = "order"
    /\ tab' = [tab EXCEPT ![t] = Waiting]
    /\ IF Orderable(items, tab[t].priced)
         THEN /\ ordered' = [l \in Line |-> ordered[l] + Qty(items, l)]
              /\ product' = [l \in Line |->
                    IF l \in Merch THEN [product[l] EXCEPT !.stock = @ - Qty(items, l)] ELSE product[l]]
              /\ lines' = <<>>
         ELSE UNCHANGED <<ordered, product, lines>>
    /\ UNCHANGED <<added, put, altered>>

\* The office changes a position; that an open reservation refuses a new stock is
\* in Checkout.
Edit(l, price, stock, published) ==
    /\ altered < MaxAltered
    /\ altered' = altered + 1
    /\ product' = [product EXCEPT ![l] = [price |-> price, stock |-> stock, published |-> published]]
    /\ UNCHANGED <<lines, tab, added, ordered, put>>

-----------------------------------------------------------------------------
NextCarts ==
    \/ \E t \in Tab :
          \/ \E l \in Line, qty \in 1..MaxQty : LookUp(t, l, qty)
          \/ AddCart(t) \/ ReadCart(t) \/ PriceItems(t) \/ Commit(t)
    \/ \E l \in Line :
          \/ \E qty \in 0..MaxQty : ChangeQty(l, qty)
          \/ \E price \in Price, stock \in Stock, published \in BOOLEAN : Edit(l, price, stock, published)
    \/ ClearCart
CartsSpec == InitCarts /\ [][NextCarts]_cartVars

-----------------------------------------------------------------------------
(* Properties.                                                                *)

\* Every unit the visitor was shown to be in the cart is there or was ordered, and
\* no unit is both, though tabs add, change and order at once and the office edits;
\* lines and quantities keep their limits (add_cart, change_qty, commit).
OrdersTakeTheCart ==
    /\ \A l \in Line : added[l] = ordered[l] + Qty(lines, l)
    /\ Cardinality(DOMAIN lines) <= MaxLines
    /\ \A l \in DOMAIN lines : lines[l].qty \in 1..(IF l \in Dpo THEN 1 ELSE MaxQty)
=============================================================================
