------------------------------ MODULE MCPoints ------------------------------
(* Instances of Points for TLC. *)
EXTENDS Points, TLC

CONSTANTS m1, m2, e1, c1, c2, pass1, pass2, k1

\* m2 was invited by m1.
Invited == m1 :> Nobody @@ m2 :> m1
Uninvited == m1 :> Nobody

\* What the office and the service give and take.
Credits == {-40, 100}

\* Months of 31 days.
Months == [d \in Day |-> d \div 31]
=============================================================================
