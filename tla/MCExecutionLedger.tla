-------------------------- MODULE MCExecutionLedger --------------------------
(* ExecutionLedger on two deposits, two agent accounts and two revisions. *)
EXTENDS ExecutionLedger, TLC

CONSTANTS i1, i2, g1, g2, h1, h2

MCIntents == {i1, i2}
MCAgents == {g1, g2}
MCReferences == {h1, h2}
Symmetric ==
    Permutations(MCIntents) \cup Permutations(MCAgents) \cup Permutations(MCReferences)
=============================================================================
