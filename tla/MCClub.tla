------------------------------- MODULE MCClub -------------------------------
(* An instance of Club for TLC. *)
EXTENDS Club, TLC

\* Two cards with one title, one of them without a price.
Cards == {[hse |-> 1, title |-> "x", price |-> 0], [hse |-> 2, title |-> "x", price |-> 1]}

\* Transactions have no names of their own.
Alike == Permutations(Task)
=============================================================================
