------------------------------ MODULE MCOutbox ------------------------------
(* Instance of Outbox for TLC. *)
EXTENDS Outbox, TLC

CONSTANTS u1, None1, h1, d1, d2

\* An old confirmation, mail of the office, and a confirmation.
OldOfficeNew == 1 :> u1 @@ 2 :> None1 @@ 3 :> u1
=============================================================================
