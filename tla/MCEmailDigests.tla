--------------------------- MODULE MCEmailDigests ---------------------------
(* EmailDigests for TLC: two alerts of one user, or one of each of two. *)
EXTENDS EmailDigests, TLC

CONSTANTS u1, u2, a1, a2

BothOfOne == a1 :> u1 @@ a2 :> u1
OneEach == a1 :> u1 @@ a2 :> u2
Either == {BothOfOne, OneEach}
=============================================================================
