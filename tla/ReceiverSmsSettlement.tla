------------------------ MODULE ReceiverSmsSettlement ------------------------
(***************************************************************************)
(* How a customer's claim of a payment and the message a receiving phone   *)
(* got about it become one credit.  The claim and the message arrive in    *)
(* either order; they are matched, and a poller queues a job for the match *)
(* or holds the claim for the Owner, who credits by hand.                  *)
(*                                                                         *)
(* Every command but the arrival of a message runs under one advisory lock *)
(* (20261004) and is one action.  A message is inserted and then, when its *)
(* trigger has got the lock of its reference (20261021), matched and       *)
(* committed: two actions, with the time of the first used by the second.  *)
(*                                                                         *)
(* Time is the age of rows, in ticks, saturated where nothing depends on   *)
(* it any more; "current" is a row that is not older than the cutover of   *)
(* the route.  Jobs run in the routine lane (RoutineLane), of which only   *)
(* what the ledger sees is kept here.                                      *)
(***************************************************************************)
EXTENDS Naturals

CONSTANTS
    References,     \* references of payments
    Customers,
    None,
    MaxMessages,    \* bound: claims that are made
    Hour            \* the sixty minutes of every window, in ticks

ASSUME SettlementAssumption ==
    /\ None \notin References /\ None \notin Customers
    /\ MaxMessages \in Nat /\ Hour \in Nat \ {0}

VARIABLES
    enabled,        \* receiver_sms_route_control
    sent,           \* claims made
    submissions,    \* receiver_sms_deposit_candidates, in the order of submitted_at
    events,         \* receiver_sms_payment_events, one for each reference
    matches,        \* receiver_sms_payment_matches
    holds,          \* receiver_sms_settlement_holds
    jobs,           \* the deposit a lineage points to, as the ledger sees it
    cases           \* owner_manual_payment_cases

rows == <<submissions, events, matches>>
vars == <<enabled, sent, rows, holds, jobs, cases>>

-----------------------------------------------------------------------------
(* Rows. *)

Messages == 1..MaxMessages

\* An age stops where nothing tells it from a greater one: a claim beyond the
\* Hour as a late trigger sees it, a payment at the Hour seen so, a match at it.
Grown(age, last) == IF age < last THEN age + 1 ELSE last

Submission == [of: References \cup {None}, who: Customers \cup {None},
               current: BOOLEAN, age: 0..(Hour + 2)]
NoSubmission == [of |-> None, who |-> None, current |-> FALSE, age |-> 0]

\* age counts from the payment; lag from the insertion to the commit.  doubtful:
\* the amount is outside the policy, another message contradicts this one, or its
\* receiving account was replaced (force_rotated_receiver_sms_review).
Event == [phase: {"none", "inserted", "recorded"}, current: BOOLEAN,
          doubtful: BOOLEAN, age: 0..(Hour + 1), lag: 0..1]
NoEvent == [phase |-> "none", current |-> FALSE, doubtful |-> FALSE, age |-> 0, lag |-> 0]

Disposition == {"ready", "older_review", "held_review"}
Match == [disposition: Disposition \cup {"none"}, age: 0..Hour]
NoMatch == [disposition |-> "none", age |-> 0]

\* prepared: leased; stopped: cancelled before the final action; expired: taken
\* from the queue by the expiry.  The last three of Job end in the open.
Job == {"none", "queued", "prepared", "stopped", "expired", "fenced", "executed", "review"}

\* of: the claim it decides, 0 for a payment nobody had claimed.
Case == [status: {"none", "awaiting_manual_credit", "manually_credited", "rejected"},
         of: 0..MaxMessages]
NoCase == [status |-> "none", of |-> 0]

Claims(table, r) == {m \in Messages : table[m].of = r}
IsFirst(table, m) ==
    /\ table[m].of # None
    /\ \A n \in Messages : table[n].of = table[m].of => m <= n

-----------------------------------------------------------------------------
(* Matching. *)

\* receiver_sms_duplicate_state is not 'none'.
Duplicate(table, m) ==
    LET r == table[m].of IN
    \/ cases[r].status \in {"manually_credited", "rejected"}
    \/ \E n \in Claims(table, r) : jobs[n] = "executed" \/ n < m
    \/ cases[r].status # "none" /\ cases[r].of # m

\* The claim match_receiver_sms_payment looks at: the earliest since the cutover.
IsCandidate(table, m) ==
    /\ table[m].current
    /\ \A n \in Claims(table, table[m].of) : table[n].current => m <= n

\* What an age was when the trigger read the clock.
Before(age, lag) == IF age < lag THEN 0 ELSE age - lag

DispositionOf(s, e) ==
    IF e.doubtful \/ Before(s.age, e.lag) > Hour THEN "held_review"
    ELSE IF Before(e.age, e.lag) >= Hour THEN "older_review" ELSE "ready"

Matchable(table, e, m) ==
    /\ enabled /\ e.current
    /\ IsCandidate(table, m) /\ matches[m].disposition = "none"
    /\ cases[table[m].of].status = "none" /\ ~Duplicate(table, m)

\* match_receiver_sms_payment for the message e of r and the claims of table.
MatchWith(table, r, e) ==
    matches' = [m \in Messages |->
        IF table[m].of = r /\ Matchable(table, e, m)
        THEN [disposition |-> DispositionOf(table[m], e), age |-> 0]
        ELSE matches[m]]

\* The next claim; submitted_at is later than every one before.
WithClaim(r, c) ==
    [submissions EXCEPT ![sent + 1] = [of |-> r, who |-> c, current |-> TRUE, age |-> 0]]

\* Mutant: a claim is recorded and waits for the message to find it.
CaptureAndWait(r, c) ==
    /\ enabled /\ sent < MaxMessages
    /\ sent' = sent + 1
    /\ submissions' = WithClaim(r, c)
    /\ UNCHANGED <<enabled, events, matches, holds, jobs, cases>>

\* capture_telegram_receiver_sms_candidate; a repeated delivery of the same
\* claim changes nothing.
Capture(r, c) ==
    /\ enabled /\ sent < MaxMessages
    /\ sent' = sent + 1
    /\ LET table == WithClaim(r, c) IN
       /\ submissions' = table
       /\ IF events[r].phase = "recorded"
          THEN MatchWith(table, r, events[r]) ELSE UNCHANGED matches
    /\ UNCHANGED <<enabled, events, holds, jobs, cases>>

\* A message of a receiving phone: of a payment just made or an hour ago, and
\* perhaps received before the cutover.
InsertEvent(r) ==
    /\ events[r].phase = "none"
    /\ \E current, doubtful \in BOOLEAN, age \in {0, Hour} :
        /\ current => enabled
        /\ events' = [events EXCEPT ![r] =
               [phase |-> "inserted", current |-> current, doubtful |-> doubtful,
                age |-> age, lag |-> 0]]
    /\ UNCHANGED <<enabled, sent, submissions, matches, holds, jobs, cases>>

CommitEvent(r) ==
    /\ events[r].phase = "inserted"
    /\ MatchWith(submissions, r, events[r])
    /\ events' = [events EXCEPT ![r] = [@ EXCEPT !.phase = "recorded", !.lag = 0]]
    /\ UNCHANGED <<enabled, sent, submissions, holds, jobs, cases>>

\* Another message with this reference and other facts, or a new receiver.
Contradict(r) ==
    /\ events[r].phase = "recorded"
    /\ events' = [events EXCEPT ![r] = [@ EXCEPT !.doubtful = TRUE]]
    /\ UNCHANGED <<enabled, sent, submissions, matches, holds, jobs, cases>>

-----------------------------------------------------------------------------
(* Settlement. *)

\* The routine, asked every few seconds, does one of the following.  It leaves
\* alone what the Owner has a case of (20261023150000), and of what nobody heard
\* of, a repeated reference too (20261028231519).
Unanswered(m) ==
    /\ submissions[m].current /\ submissions[m].age > Hour
    /\ matches[m].disposition = "none" /\ m \notin holds
    /\ cases[submissions[m].of].status = "none" /\ ~Duplicate(submissions, m)
Awaiting(m) ==
    /\ submissions[m].current /\ events[submissions[m].of].current
    /\ matches[m].disposition = "ready" /\ jobs[m] = "none" /\ m \notin holds
    /\ cases[submissions[m].of].status = "none"

\* One that nobody heard of for an hour is held before any match is settled.
HoldUnanswered(m) ==
    /\ enabled /\ Unanswered(m)
    /\ \A n \in Messages : Unanswered(n) => m <= n
    /\ holds' = holds \cup {m}
    /\ UNCHANGED <<enabled, sent, rows, jobs, cases>>

\* What finalize_receiver_sms_match checks again.
Settleable(m) ==
    LET e == events[submissions[m].of] IN
    ~e.doubtful /\ submissions[m].age <= Hour /\ e.age < Hour

NextToSettle(m) ==
    /\ enabled /\ ~\E n \in Messages : Unanswered(n)
    /\ Awaiting(m) /\ \A n \in Messages : Awaiting(n) => m <= n

SettleNext(m) ==
    /\ NextToSettle(m) /\ Settleable(m)
    /\ jobs' = [jobs EXCEPT ![m] = "queued"]
    /\ UNCHANGED <<enabled, sent, rows, holds, cases>>

\* Mutant: a match that fails the checks is tried again later.
LeaveUnsettled(m) == NextToSettle(m) /\ UNCHANGED vars

\* Or a check fails; the customer, the phone's enrolment and the Owner's policy
\* are checked too, so any match may fail.
HoldUnsettled(m) ==
    /\ NextToSettle(m)
    /\ holds' = holds \cup {m}
    /\ UNCHANGED <<enabled, sent, rows, jobs, cases>>

\* Mutant: the expiry rests while the route is stopped.
OutdatedWhileOn(m) ==
    /\ enabled
    /\ jobs[m] = "queued" /\ matches[m].age >= Hour
    /\ cases[submissions[m].of].status = "none"

Outdated(m) ==
    /\ jobs[m] = "queued" /\ matches[m].age >= Hour
    /\ cases[submissions[m].of].status = "none"

\* Every minute, all at once.
MoveExpired ==
    /\ \E m \in Messages : Outdated(m)
    /\ jobs' = [m \in Messages |-> IF Outdated(m) THEN "expired" ELSE jobs[m]]
    /\ UNCHANGED <<enabled, sent, rows, holds, cases>>

-----------------------------------------------------------------------------
(* The lane of a job. *)

JobGoes(m, from, to) ==
    /\ jobs[m] = from
    /\ jobs' = [jobs EXCEPT ![m] = to]
    /\ UNCHANGED <<enabled, sent, rows, holds, cases>>

\* assess_receiver_sms_execution_job lets the lane lease the job.
Lease(m) ==
    /\ JobGoes(m, "queued", "prepared")
    /\ enabled /\ ~events[submissions[m].of].doubtful /\ matches[m].age < Hour

LaneStep(m) ==
    \/ Lease(m)
    \/ JobGoes(m, "prepared", "stopped") \/ JobGoes(m, "prepared", "fenced")
    \/ JobGoes(m, "fenced", "executed") \/ JobGoes(m, "fenced", "review")

-----------------------------------------------------------------------------
(* The Owner. *)

\* Neither evidence nor a job stands behind the claim, or its job expired.
Undecided(m) ==
    /\ IsFirst(submissions, m)
    /\ cases[submissions[m].of].status = "none"
    /\ \/ jobs[m] = "expired"
       \/ \A n \in Claims(submissions, submissions[m].of) : jobs[n] = "none"

CaseBecomes(r, status, m) ==
    /\ cases' = [cases EXCEPT ![r] = [status |-> status, of |-> m]]
    /\ UNCHANGED <<enabled, sent, rows, holds, jobs>>

\* decide_owner_manual_payment_case, or approve and complete in one transaction
\* (approve_owner_manual_payment_for_immediate_credit).
Decide(m) ==
    /\ Undecided(m)
    /\ \E status \in {"awaiting_manual_credit", "rejected", "manually_credited"} :
          CaseBecomes(submissions[m].of, status, m)

\* complete_owner_manual_payment_case for a case; a rejection may be reversed.
Complete(r) ==
    /\ cases[r].status \in {"awaiting_manual_credit", "rejected"}
    /\ \/ \A n \in Claims(submissions, r) : jobs[n] = "none"
       \/ cases[r].of # 0 /\ jobs[cases[r].of] = "expired"
    /\ CaseBecomes(r, "manually_credited", cases[r].of)

\* complete_owner_manual_payment_case for a message nobody claimed.
CompleteUnclaimed(r) ==
    /\ events[r].phase = "recorded"
    /\ cases[r].status = "none" /\ Claims(submissions, r) = {}
    /\ CaseBecomes(r, "manually_credited", 0)

\* Mutant: a credit by hand is recorded beside an automatic one that may be sent.
RecordCreditAnyway(m) ==
    /\ IsFirst(submissions, m) /\ jobs[m] # "executed"
    /\ cases[submissions[m].of].status = "none"
    /\ CaseBecomes(submissions[m].of, "manually_credited", m)

\* record_owner_stopped_credit: the attempt was cancelled before its action, and a
\* job that expired had none.
RecordStoppedCredit(m) ==
    /\ IsFirst(submissions, m) /\ jobs[m] = "stopped"
    /\ cases[submissions[m].of].status = "none"
    /\ CaseBecomes(submissions[m].of, "manually_credited", m)

OwnerStep ==
    \/ \E m \in Messages : Decide(m) \/ RecordStoppedCredit(m)
    \/ \E r \in References : Complete(r) \/ CompleteUnclaimed(r)

-----------------------------------------------------------------------------
(* The route and time. *)

\* The control row is locked while a trigger runs.
NoTrigger == \A r \in References : events[r].phase # "inserted"

\* A new cutover: what came before it is not settled any more.
Activate ==
    /\ ~enabled /\ NoTrigger
    /\ \A m \in Messages : jobs[m] \notin {"queued", "prepared", "fenced", "review"}
    /\ enabled' = TRUE
    /\ submissions' = [m \in Messages |->
           [of |-> submissions[m].of, who |-> submissions[m].who,
            current |-> FALSE, age |-> submissions[m].age]]
    /\ events' = [r \in References |-> [events[r] EXCEPT !.current = FALSE]]
    /\ UNCHANGED <<sent, matches, holds, jobs, cases>>

\* Queued jobs stay queued.
Stop ==
    /\ enabled /\ NoTrigger
    /\ enabled' = FALSE
    /\ UNCHANGED <<sent, rows, holds, jobs, cases>>

\* A trigger does not outlive its statement's timeout: it sees one tick at most.
Tick ==
    /\ \A r \in References : events[r].phase = "inserted" => events[r].lag = 0
    /\ submissions' = [m \in Messages |->
           [of |-> submissions[m].of, who |-> submissions[m].who,
            current |-> submissions[m].current, age |-> Grown(submissions[m].age, Hour + 2)]]
    /\ events' = [r \in References |-> [events[r] EXCEPT
           !.age = Grown(events[r].age, Hour + 1),
           !.lag = IF events[r].phase = "inserted" THEN 1 ELSE 0]]
    /\ matches' = [m \in Messages |->
           [disposition |-> matches[m].disposition, age |-> Grown(matches[m].age, Hour)]]
    /\ UNCHANGED <<enabled, sent, holds, jobs, cases>>

-----------------------------------------------------------------------------
Init ==
    /\ enabled = FALSE /\ sent = 0
    /\ submissions = [m \in Messages |-> NoSubmission]
    /\ events = [r \in References |-> NoEvent]
    /\ matches = [m \in Messages |-> NoMatch]
    /\ holds = {}
    /\ jobs = [m \in Messages |-> "none"]
    /\ cases = [r \in References |-> NoCase]

PollerStep == \E m \in Messages : HoldUnanswered(m) \/ SettleNext(m) \/ HoldUnsettled(m)

Next ==
    \/ \E r \in References, c \in Customers : Capture(r, c)
    \/ \E r \in References : InsertEvent(r) \/ CommitEvent(r) \/ Contradict(r)
    \/ PollerStep \/ MoveExpired
    \/ \E m \in Messages : LaneStep(m)
    \/ OwnerStep \/ Activate \/ Stop \/ Tick

Spec == Init /\ [][Next]_vars

\* The settlement process and the expiry run for ever, a statement ends, time
\* passes.  Neither the lane nor the Owner nor the administrator need act.
FairSpec ==
    /\ Spec
    /\ WF_vars(PollerStep) /\ WF_vars(MoveExpired) /\ WF_vars(Tick)
    /\ \A r \in References : WF_vars(CommitEvent(r))

-----------------------------------------------------------------------------
SettlementTypeOK ==
    /\ enabled \in BOOLEAN /\ sent \in 0..MaxMessages
    /\ submissions \in [Messages -> Submission]
    /\ events \in [References -> Event]
    /\ matches \in [Messages -> Match]
    /\ holds \subseteq Messages
    /\ jobs \in [Messages -> Job]
    /\ cases \in [References -> Case]

\* Whichever comes first, the claim or the message, and however their
\* transactions overlap: once both are there, the first claim is matched,
\* unless the Owner has a case of the payment.
NoMissedMatch ==
    enabled =>
        \A m \in Messages :
            LET r == submissions[m].of IN
            /\ IsFirst(submissions, m) /\ submissions[m].current
            /\ events[r].phase = "recorded" /\ events[r].current
            /\ cases[r].status = "none"
            => matches[m].disposition # "none"

\* The payment as OneCreditPerPayment sees it; a credit by hand beside a job
\* that was or may be sent is none of its states.
CreditOf(r) ==
    LET at == {jobs[m] : m \in Claims(submissions, r)} IN
    IF cases[r].status = "manually_credited"
    THEN IF at \subseteq {"none", "stopped", "expired"} THEN "by_hand" ELSE "twice"
    ELSE IF at \cap {"fenced", "executed", "review"} # {} THEN "sent"
    ELSE IF at \cap {"queued", "prepared"} # {} THEN "admitted"
    ELSE IF at \cap {"stopped", "expired"} # {} THEN "withdrawn"
    ELSE "none"

\* Who is credited: the customer of the claim that has the job or the case.
CreditedTo(r) ==
    IF cases[r].status = "manually_credited"
    THEN IF cases[r].of = 0 THEN None ELSE submissions[cases[r].of].who
    ELSE IF \E m \in Claims(submissions, r) : jobs[m] # "none"
    THEN submissions[CHOOSE m \in Claims(submissions, r) : jobs[m] # "none"].who
    ELSE None

OwnerOf(r) ==
    IF \E m \in Claims(submissions, r) : IsFirst(submissions, m)
    THEN submissions[CHOOSE m \in Claims(submissions, r) : IsFirst(submissions, m)].who
    ELSE None

One == INSTANCE OneCreditPerPayment WITH
    Payments <- References,
    belongs <- [r \in References |-> OwnerOf(r)],
    credit <- [r \in References |-> CreditOf(r)],
    to <- [r \in References |-> CreditedTo(r)]

\* A payment is credited once, by the machine or by hand, to its first claimant.
PaysOnce == One!OneCreditSpec

\* While the route stays on, the first claim of a payment is settled, held or
\* put before the Owner; it does not wait for ever for its message.
EverySubmissionDecided ==
    \A m \in Messages :
        IsFirst(submissions, m) /\ submissions[m].current ~>
            \/ ~enabled \/ m \in holds \/ jobs[m] # "none"
            \/ matches[m].disposition \in {"older_review", "held_review"}
            \/ \E r \in References : submissions[m].of = r /\ cases[r].status # "none"

\* A queued deposit does not wait for ever for its lane, on or off.
QueuedEnds ==
    \A m \in Messages : jobs[m] = "queued" ~> jobs[m] # "queued"
=============================================================================
