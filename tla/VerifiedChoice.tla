--------------------------- MODULE VerifiedChoice ---------------------------
(***************************************************************************)
(* What player validation promises, without databases, assignments,        *)
(* handlers or companions.                                                 *)
(*                                                                         *)
(* A customer has one selected player and at most one wish.  Only the      *)
(* latest wish is ever fulfilled, and only for a player the provider       *)
(* shows; what the Owner revoked is only restored by him.                  *)
(***************************************************************************)
CONSTANTS Customers, Players, Shown, None

VARIABLES
    wish,         \* the player a customer waits for
    choice,       \* the player a customer has selected
    account       \* "none", "eligible" or "revoked"

choiceVars == <<wish, choice, account>>

ChoiceInit ==
    /\ wish = [c \in Customers |-> None]
    /\ choice = [c \in Customers |-> None]
    /\ account = [p \in Players |-> "none"]

Wish(c, p) ==
    /\ wish' = [wish EXCEPT ![c] = p]
    /\ UNCHANGED <<choice, account>>

\* A player that was verified before is selected at once.
Choose(c, p) ==
    /\ account[p] = "eligible"
    /\ choice' = [choice EXCEPT ![c] = p]
    /\ wish' = [wish EXCEPT ![c] = None]
    /\ UNCHANGED account

Fulfil(c) ==
    /\ wish[c] \in Shown /\ account[wish[c]] # "revoked"
    /\ choice' = [choice EXCEPT ![c] = wish[c]]
    /\ account' = [account EXCEPT ![wish[c]] = "eligible"]
    /\ wish' = [wish EXCEPT ![c] = None]

\* The wish ends in review.
Abandon(c) ==
    /\ wish' = [wish EXCEPT ![c] = None]
    /\ UNCHANGED <<choice, account>>

\* The Owner revokes or restores the eligibility of a player.
Decide(p) ==
    /\ account[p] # "none"
    /\ account' = [account EXCEPT ![p] = IF @ = "eligible" THEN "revoked" ELSE "eligible"]
    /\ UNCHANGED <<wish, choice>>

ChoiceNext ==
    \/ \E c \in Customers, p \in Players : Wish(c, p) \/ Choose(c, p)
    \/ \E c \in Customers : Fulfil(c) \/ Abandon(c)
    \/ \E p \in Players : Decide(p)

ChoiceSpec == ChoiceInit /\ [][ChoiceNext]_choiceVars
=============================================================================
