------------------------------- MODULE Access -------------------------------
(***************************************************************************)
(* What authentication promises, as if the site kept a list of the         *)
(* sessions it accepts: a login enters one, by the password of that        *)
(* moment; a reset strikes out all of its member's at once, and erasure    *)
(* too; nothing else enters, strikes out or brings back any.  An erased     *)
(* member is let in again only after somebody has reopened the profile.    *)
(***************************************************************************)
EXTENDS Naturals

CONSTANT Member

VARIABLES
  password,    \* how many passwords have replaced the first one
  accepted,    \* accepted[m]: the sessions that let in as m
  erased,
  reopened     \* those of the erased who may be let in again

access == <<password, accepted, erased, reopened>>

AccessInit ==
  /\ password = [m \in Member |-> 0]
  /\ accepted = [m \in Member |-> {}]
  /\ erased = {} /\ reopened = {}

\* The password is that of now, and does not let in the erased.
LogIn(m) ==
  /\ m \in erased => m \in reopened
  /\ \E s \in accepted'[m] :
       /\ accepted' = [accepted EXCEPT ![m] = @ \cup {s}]
       /\ s.member = m
       /\ s.by = "password" => s.pw = password[m] /\ m \notin erased
  /\ UNCHANGED <<password, erased, reopened>>

Reset(m) ==
  /\ m \notin erased
  /\ password' = [password EXCEPT ![m] = @ + 1]
  /\ accepted' = [accepted EXCEPT ![m] = {}]
  /\ UNCHANGED <<erased, reopened>>

Erase(m) ==
  /\ erased' = erased \cup {m}
  /\ accepted' = [accepted EXCEPT ![m] = {}]
  /\ reopened' = reopened \ {m}
  /\ UNCHANGED password

Reopen(m) ==
  /\ m \in erased
  /\ reopened' = reopened \cup {m}
  /\ UNCHANGED <<password, accepted, erased>>

AccessNext ==
  \E m \in Member : LogIn(m) \/ Reset(m) \/ Erase(m) \/ Reopen(m)

AccessSpec == AccessInit /\ [][AccessNext]_access
=============================================================================
