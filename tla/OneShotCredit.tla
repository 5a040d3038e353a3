---------------------------- MODULE OneShotCredit ----------------------------
(***************************************************************************)
(* What the execution system promises about money, without databases,      *)
(* leases, workers or browsers.                                            *)
(*                                                                         *)
(* A verified deposit gets at most one permit to transfer.  A permit is    *)
(* used at most once, and only a used permit can become a credit at the    *)
(* betting platform; the credit may come late.  A deposit is executed only *)
(* if its own credit exists.  Everything else ends in review, where no     *)
(* permit is ever issued.  An agent account that has been given a permit   *)
(* serves the next deposit only after the previous one was confirmed.      *)
(***************************************************************************)
CONSTANTS Intents, Agents, None

VARIABLES
    permit,       \* "unissued", "issued" or "used"
    lane,         \* the agent account the permit was issued for
    credited,     \* deposits the platform has credited
    verdict       \* "open", "executed" or "review"

oneShotVars == <<permit, lane, credited, verdict>>

OneShotInit ==
    /\ permit = [i \in Intents |-> "unissued"]
    /\ lane = [i \in Intents |-> None]
    /\ credited = {}
    /\ verdict = [i \in Intents |-> "open"]

Issue(i, g) ==
    /\ permit[i] = "unissued" /\ verdict[i] = "open"
    /\ \A j \in Intents : lane[j] = g => verdict[j] = "executed"
    /\ permit' = [permit EXCEPT ![i] = "issued"]
    /\ lane' = [lane EXCEPT ![i] = g]
    /\ UNCHANGED <<credited, verdict>>

Use(i) ==
    /\ permit[i] = "issued" /\ verdict[i] = "open"
    /\ permit' = [permit EXCEPT ![i] = "used"]
    /\ UNCHANGED <<lane, credited, verdict>>

\* Possibly long after the deposit went to review.
Credit(i) ==
    /\ permit[i] = "used" /\ i \notin credited
    /\ credited' = credited \cup {i}
    /\ UNCHANGED <<permit, lane, verdict>>

Confirm(i) ==
    /\ verdict[i] = "open" /\ i \in credited
    /\ verdict' = [verdict EXCEPT ![i] = "executed"]
    /\ UNCHANGED <<permit, lane, credited>>

Refer(i) ==
    /\ verdict[i] = "open"
    /\ verdict' = [verdict EXCEPT ![i] = "review"]
    /\ UNCHANGED <<permit, lane, credited>>

OneShotNext ==
    \E i \in Intents :
        \/ \E g \in Agents : Issue(i, g)
        \/ Use(i) \/ Credit(i) \/ Confirm(i) \/ Refer(i)

OneShotSpec == OneShotInit /\ [][OneShotNext]_oneShotVars
=============================================================================
