------------------------- MODULE MCPlayerValidation -------------------------
(* One or two customers and two players, of whom the provider shows one or both. *)
EXTENDS PlayerValidation, TLC

CONSTANTS c1, c2, p1, p2, h1, h2

PlayersAndHandlers == Permutations({p1, p2}) \cup Permutations({h1, h2})
=============================================================================
