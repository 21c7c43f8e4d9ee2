----------------------------- MODULE MCCheckout -----------------------------
(* Instances of Checkout for TLC. *)
EXTENDS CheckoutRefinement, TLC

CONSTANTS o1, o2, q1, h1, h2, p1, p2

\* One order of one unit, the only one in stock.
OneCart == o1 :> (q1 :> 1)
OneUnit == q1 :> 1

\* Two orders that cannot both be served while the stock is two.
SharedCarts == o1 :> (q1 :> 1) @@ o2 :> (q1 :> 2)
TwoUnits == q1 :> 2

SameHandlers == Permutations({h1, h2})
=============================================================================
