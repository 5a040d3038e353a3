--------------------------- MODULE SealedMessages ---------------------------
(***************************************************************************)
(* What the receiving phone and the ledger promise about one message of a  *)
(* payment: once sealed on the phone it stays there until the ledger has   *)
(* its payment, or it is kept aside for review, or it was held in vain as  *)
(* long as messages are held.  A message the ledger has stays there.       *)
(***************************************************************************)
EXTENDS Naturals

CONSTANTS Messages, Hold

VARIABLES
    fate,   \* what became of a message
    age     \* how long it has been sealed

post == <<fate, age>>

\* The ledger may have the payment of a message at any time: another message
\* with the same text may have told it, or an upload nobody awaits any more.
Onward(f) ==
    {f, "recorded"} \cup
    CASE f = "unseen" -> {"sealed", "missed"}
      [] f = "sealed" -> {"reviewed", "expired"}
      [] OTHER -> {}

NoMessages ==
    /\ fate = [m \in Messages |-> "unseen"]
    /\ age = [m \in Messages |-> 0]

Carry ==
    \A m \in Messages :
        /\ fate'[m] \in Onward(fate[m])
        /\ fate'[m] = "expired" /\ fate[m] # "expired" => age[m] = Hold
        /\ age'[m] \in {age[m], age[m] + 1}

SealedSpec == NoMessages /\ [][Carry]_post
=============================================================================
