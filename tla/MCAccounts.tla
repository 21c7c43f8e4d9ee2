----------------------------- MODULE MCAccounts -----------------------------
(* Instances of Accounts for TLC. *)
EXTENDS AccountsRefinement, TLC

CONSTANTS m1, m2, m3, e1, e2, t1, h1, h2, j1, j2

\* m1 comes from the old system, the others register; or m1 and m2 do.
OldAddress == m1 :> e1
OldAddresses == m1 :> e1 @@ m2 :> e2

Alike == Permutations({h1, h2}) \cup Permutations({m2, m3})
=============================================================================
