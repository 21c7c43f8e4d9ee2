------------------------------ MODULE MCMedia -------------------------------
(* Instance of Media for TLC. *)
EXTENDS Media, TLC

CONSTANTS f1, f2, f3, m1, m2, p1, p2, None1

\* The first member has a photo of the old system.
OldPhoto == m1 :> f1 @@ m2 :> None1

Symmetry == Permutations({f2, f3}) \cup Permutations({p1, p2})
=============================================================================
