------------------------- MODULE MCFinalActionWindow -------------------------
(* FinalActionWindow with a window of three ticks. *)
EXTENDS FinalActionWindow

MCExpiries == {1, 2, 4, 7}
MCSkews == {-1, 0, 1}
MCSteps == {-3, -1, 2}
=============================================================================
