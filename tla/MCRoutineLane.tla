---------------------------- MODULE MCRoutineLane ----------------------------
(* Two paid deposits, of one player or of two; the deposits may be exchanged. *)
EXTENDS RoutineLane, TLC

CONSTANTS i1, i2, p1, p2

OfOnePlayer == (i1 :> p1) @@ (i2 :> p1)
OfTwoPlayers == (i1 :> p1) @@ (i2 :> p2)

Exchange == Permutations({i1, i2})
=============================================================================
