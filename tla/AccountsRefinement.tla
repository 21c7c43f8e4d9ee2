------------------------- MODULE AccountsRefinement -------------------------
(* Accounts implements Access.  The site keeps no list of sessions: a token  *)
(* is good while it carries the generation and the user its profile has now. *)
EXTENDS Accounts

AcceptedOf(m) == {s \in sessions : s.member = m /\ Accepted(s)}

Listed ==
  INSTANCE Access WITH
    accepted <- [m \in Member |-> AcceptedOf(m)],
    erased <- {m \in Member : account[m] = "gone"}

\* Generations that are compared do what a list of sessions would do, though
\* logins, resets and erasures overlap (resolve_alumni, authenticate, reset, anonymize).
RefinesAccess == Listed!AccessSpec
=============================================================================
