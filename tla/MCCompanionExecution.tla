------------------------ MODULE MCCompanionExecution ------------------------
(***************************************************************************)
(* The companion's lane with two assignments of one account.               *)
(***************************************************************************)
EXTENDS CompanionExecution, TLC

TwoAssignments == Permutations(Assignments)
=============================================================================
