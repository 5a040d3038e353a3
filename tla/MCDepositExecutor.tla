-------------------------- MODULE MCDepositExecutor --------------------------
(* DepositExecutor on two deposits, one agent account and two workers. *)
EXTENDS DepositExecutor, TLC

CONSTANTS i1, i2, g1, w1, w2, h1, h2, h3

MCIntents == {i1, i2}
MCAgents == {g1}
MCWorkers == {w1, w2}
MCReferences == {h1, h2, h3}
Symmetric ==
    Permutations(MCIntents) \cup Permutations(MCWorkers) \cup Permutations(MCReferences)
=============================================================================
