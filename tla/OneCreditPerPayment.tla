------------------------- MODULE OneCreditPerPayment -------------------------
(***************************************************************************)
(* What the settlement of receiver messages promises about one payment to  *)
(* a receiving account: it belongs to the customer who first claimed it,   *)
(* and it is credited at most once, by the machine or by hand but never by *)
(* both, and to nobody but the customer it belongs to.                     *)
(***************************************************************************)
CONSTANTS Payments, Customers, None

VARIABLES
    belongs,    \* the customer a payment belongs to, None before any claim
    credit,     \* what became of its credit
    to          \* who was credited, or is about to be

settlement == <<belongs, credit, to>>

\* admitted: the machine may send it; sent: it was let go, whatever came of it;
\* withdrawn: the machine gave it up before sending; by_hand: an Owner's credit.
Credit == {"none", "admitted", "sent", "withdrawn", "by_hand"}

NoPayments ==
    /\ belongs = [p \in Payments |-> None]
    /\ credit = [p \in Payments |-> "none"]
    /\ to = [p \in Payments |-> None]

Claim(p, c) ==
    /\ belongs[p] = None
    /\ belongs' = [belongs EXCEPT ![p] = c]
    /\ UNCHANGED <<credit, to>>

Admit(p) ==
    /\ credit[p] = "none" /\ belongs[p] # None
    /\ credit' = [credit EXCEPT ![p] = "admitted"]
    /\ to' = [to EXCEPT ![p] = belongs[p]]
    /\ UNCHANGED belongs

Send(p) ==
    /\ credit[p] = "admitted"
    /\ credit' = [credit EXCEPT ![p] = "sent"]
    /\ UNCHANGED <<belongs, to>>

\* Several may be given up at once.
Withdraw(some) ==
    /\ \A p \in some : credit[p] = "admitted"
    /\ credit' = [p \in Payments |-> IF p \in some THEN "withdrawn" ELSE credit[p]]
    /\ UNCHANGED <<belongs, to>>

\* A payment nobody claimed may be credited by hand too: it is to nobody's
\* account here, and a later claim finds it settled.
CreditByHand(p) ==
    /\ credit[p] \in {"none", "withdrawn"}
    /\ credit' = [credit EXCEPT ![p] = "by_hand"]
    /\ to' = [to EXCEPT ![p] = belongs[p]]
    /\ UNCHANGED belongs

SettlementNext ==
    \/ \E p \in Payments, c \in Customers : Claim(p, c)
    \/ \E p \in Payments : Admit(p) \/ Send(p) \/ CreditByHand(p)
    \/ \E some \in SUBSET Payments : Withdraw(some)

OneCreditSpec == NoPayments /\ [][SettlementNext]_settlement
=============================================================================
