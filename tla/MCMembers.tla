------------------------------ MODULE MCMembers ------------------------------
(* An instance of Members for TLC. *)
EXTENDS Members, MCPoints

\* A limit of the client and a longer one of the route.
Maxima == "global" :> 3 @@ "route" :> 2
Spans == "global" :> 1 @@ "route" :> 3
=============================================================================
