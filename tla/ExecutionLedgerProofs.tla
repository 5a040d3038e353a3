------------------------ MODULE ExecutionLedgerProofs ------------------------
(* What the ledger keeps true for any number of deposits, agents, *)
(* revisions, observations and leases.                            *)
EXTENDS ExecutionLedger, TLAPS

\* JointStates, spelled out for the provers.
Joint(r) ==
    \/ r.intent = "verified" /\ r.job = "none" /\ r.attempt = "none" /\ r.recon = "none"
    \/ /\ r.intent = "execution_pending" /\ r.recon = "none"
       /\ \/ r.job = "queued" /\ r.attempt = "none"
          \/ r.job = "leased" /\ r.attempt = "prepared"
    \/ /\ r.intent = "execution_in_progress" /\ r.recon = "none"
       /\ r.job = "leased" /\ r.attempt = "final_action_fenced"
    \/ /\ r.intent = "execution_reconciliation" /\ r.job = "succeeded"
       /\ r.attempt = "reconciliation_required"
       /\ r.recon \in {"deferred", "queued", "leased"}
    \/ /\ r.intent = "executed" /\ r.job = "succeeded"
       /\ r.attempt = "confirmed_executed" /\ r.recon = "succeeded"
    \/ /\ r.intent = "execution_review" /\ r.job = "succeeded"
       /\ r.attempt = "review_required" /\ r.recon = "succeeded"
    \/ /\ r.intent = "execution_review" /\ r.job = "cancelled" /\ r.recon = "none"
       /\ r.attempt \in {"cancelled_before_action", "none"}

\* One deposit's rows: well typed, in a joint state, their details in agreement.
RowOK(r) == r \in Row /\ Joint(r) /\ DetailsAgree(r)

\* A row that is in order is in one of the joint states.
LEMMA RowOKCorresponds == ASSUME NEW r, RowOK(r) PROVE Corresponds(r)
BY DEF RowOK, Joint, Corresponds, JointStates

-----------------------------------------------------------------------------
(* What each command does to a row that is in order. *)

\* A verified deposit without a job is enqueued under the current revision.
LEMMA EnqueuedOK ==
    ASSUME NEW r, RowOK(r), r.intent = "verified", pilot \in Pilot
    PROVE  RowOK(Enqueued(r))
BY DEF RowOK, Row, Joint, DetailsAgree, Enqueued, IntentStatus, JobStatus,
       Pilot

\* Leasing a queued job prepares the one attempt.
LEMMA ExecutionLeasedOK ==
    ASSUME NEW r, RowOK(r), r.job = "queued", NEW g \in Agents
    PROVE  RowOK(ExecutionLeased(r, g))
BY DEF RowOK, Row, Joint, DetailsAgree, ExecutionLeased, IntentStatus,
       JobStatus, AttemptStatus

\* An unfenced attempt is given up.
LEMMA CancelledOK ==
    ASSUME NEW r, RowOK(r), r.attempt = "prepared"
    PROVE  RowOK(CancelledBeforeAction(r))
BY DEF RowOK, Row, Joint, DetailsAgree, CancelledBeforeAction, IntentStatus,
       JobStatus, AttemptStatus

\* The fence is written once, on a prepared attempt.
LEMMA FencedOK ==
    ASSUME NEW r, RowOK(r), r.attempt = "prepared"
    PROVE  RowOK(Fenced(r))
BY DEF RowOK, Row, Joint, DetailsAgree, Fenced, IntentStatus, JobStatus,
       AttemptStatus

\* A fenced attempt is handed to observation, with nothing observed so far.
LEMMA HandedOffOK ==
    ASSUME NEW r, RowOK(r), r.attempt = "final_action_fenced",
           NEW modal \in ModalFact
    PROVE  RowOK(HandedOff(r, modal))
<1> DEFINE s == HandedOff(r, modal)
<1>1. 0 \in 0..LeaseLimit /\ 0 < ObservationLimit
  BY ObservationLimitAssumption, LeaseLimitAssumption
<1>2. s \in Row
  BY <1>1, ZenonT(30) DEF HandedOff, RowOK, Row, IntentStatus, JobStatus, AttemptStatus,
         ReconciliationStatus, ModalFact
<1>3. Joint(s)
  BY DEF HandedOff, RowOK, Row, Joint
<1>4. DetailsAgree(s)
  BY <1>1 DEF HandedOff, RowOK, Row, DetailsAgree, Joint
<1> QED BY <1>2, <1>3, <1>4 DEF RowOK

\* A lapsed observation lease goes back to the queue.
LEMMA RequeuedOK ==
    ASSUME NEW r, RowOK(r), r.recon = "leased"
    PROVE  RowOK(Requeued(r))
BY DEF RowOK, Row, Joint, DetailsAgree, Requeued, ReconciliationStatus

\* A due observation is leased.
LEMMA ReconciliationLeasedOK ==
    ASSUME NEW r, RowOK(r), Due(r)
    PROVE  RowOK(ReconciliationLeased(r))
<1> DEFINE s == ReconciliationLeased(r)
<1>1. r.leases + 1 \in 0..LeaseLimit /\ r.leases + 1 > 0
  BY LeaseLimitAssumption DEF RowOK, Row, Due
<1>2. s \in Row
  BY <1>1 DEF ReconciliationLeased, Due, Reconcilable, RowOK, Row,
         IntentStatus, JobStatus, AttemptStatus, ReconciliationStatus, ModalFact
<1>3. Joint(s)
  BY DEF ReconciliationLeased, Due, Reconcilable, RowOK, Row, Joint
<1>4. DetailsAgree(s)
  BY <1>1 DEF ReconciliationLeased, Due, Reconcilable, RowOK, Row,
         DetailsAgree, Joint
<1> QED BY <1>2, <1>3, <1>4 DEF RowOK

\* A spent observation goes to review.
LEMMA ExhaustedOK ==
    ASSUME NEW r, RowOK(r), Spent(r)
    PROVE  RowOK(Exhausted(r))
<1> DEFINE s == Exhausted(r)
<1>1. r.recorded + 1 \in 0..ObservationLimit
  BY ObservationLimitAssumption DEF RowOK, Row, DetailsAgree, Joint, Reconcilable, Spent
<1>2. s \in Row
  BY <1>1 DEF Exhausted, Resolved, Spent, LeaseLapsed, Reconcilable, RowOK, Row,
         IntentStatus, JobStatus, AttemptStatus, ReconciliationStatus, ModalFact
<1>3. Joint(s)
  BY DEF Exhausted, Resolved, Spent, LeaseLapsed, Reconcilable, RowOK, Row, Joint
<1>4. DetailsAgree(s)
  BY <1>1 DEF Exhausted, Resolved, Spent, LeaseLapsed, Reconcilable, RowOK, Row,
         DetailsAgree, Joint
<1> QED BY <1>2, <1>3, <1>4 DEF RowOK

\* An ambiguous observation goes to review.
LEMMA AmbiguousOK ==
    ASSUME NEW r, RowOK(r), Reconcilable(r), r.recon = "leased"
    PROVE  RowOK(Resolved(r, "review_required", "execution_review"))
<1> DEFINE s == Resolved(r, "review_required", "execution_review")
<1>1. r.recorded + 1 \in 0..ObservationLimit
  BY ObservationLimitAssumption DEF RowOK, Row, DetailsAgree, Joint, Reconcilable
<1>2. s \in Row
  BY <1>1 DEF Resolved, Reconcilable, RowOK, Row,
         IntentStatus, JobStatus, AttemptStatus, ReconciliationStatus, ModalFact
<1>3. Joint(s)
  BY DEF Resolved, Reconcilable, RowOK, Row, Joint
<1>4. DetailsAgree(s)
  BY <1>1 DEF Resolved, Reconcilable, RowOK, Row,
         DetailsAgree, Joint
<1> QED BY <1>2, <1>3, <1>4 DEF RowOK

\* Nothing observed yet: the next observation is scheduled.
LEMMA FollowedUpOK ==
    ASSUME NEW r, RowOK(r), Reconcilable(r), r.recon = "leased",
           r.recorded + 1 < ObservationLimit
    PROVE  RowOK(FollowedUp(r))
<1> DEFINE s == FollowedUp(r)
<1>1. r.recorded + 1 \in 0..ObservationLimit /\ 0 \in 0..LeaseLimit
  BY ObservationLimitAssumption, LeaseLimitAssumption DEF RowOK, Row
<1>2. s \in Row
  BY <1>1 DEF FollowedUp, Reconcilable, RowOK, Row,
         IntentStatus, JobStatus, AttemptStatus, ReconciliationStatus, ModalFact
<1>3. Joint(s)
  BY DEF FollowedUp, Reconcilable, RowOK, Row, Joint
<1>4. DetailsAgree(s)
  BY <1>1 DEF FollowedUp, Reconcilable, RowOK, Row,
         DetailsAgree, Joint
<1> QED BY <1>2, <1>3, <1>4 DEF RowOK

\* Only an exact match of the dialog and one history row confirms.
LEMMA ConfirmedOK ==
    ASSUME NEW r, RowOK(r), Reconcilable(r), r.recon = "leased", r.modal = "true",
           NEW reference \in References
    PROVE  RowOK(Confirmed(r, reference))
<1> DEFINE s == Confirmed(r, reference)
<1>1. r.recorded + 1 \in 0..ObservationLimit
  BY ObservationLimitAssumption DEF RowOK, Row, DetailsAgree, Reconcilable
<1>2. s \in Row
  BY <1>1 DEF Confirmed, Resolved, RowOK, Row, IntentStatus, AttemptStatus,
              ReconciliationStatus
<1>3. Joint(s)
  BY DEF Confirmed, Resolved, RowOK, Row, Joint, Reconcilable
<1>4. DetailsAgree(s)
  BY DEF Confirmed, Resolved, RowOK, Row, DetailsAgree, Joint, Reconcilable
<1> QED BY <1>2, <1>3, <1>4 DEF RowOK

\* A deposit starts in order.
LEMMA NewRowOK == RowOK(NewRow)
BY ObservationLimitAssumption, LeaseLimitAssumption, MaxRevisionsAssumption, NoneAssumption
   DEF RowOK, NewRow, Row, Joint, DetailsAgree, IntentStatus, JobStatus, AttemptStatus,
       ModalFact, ReconciliationStatus

-----------------------------------------------------------------------------
(* What any step does to one row.  Only leasing fresh work looks at the    *)
(* other deposits, so it is kept apart.                                    *)

SweptRow(r, t) ==
    \/ t = r
    \/ FenceLapsed(r) /\ t = HandedOff(r, "null")
    \/ Retryable(r) /\ t = Requeued(r)
    \/ Spent(r) /\ t = Exhausted(r)

PolledRow(r, s) ==
    \/ SweptRow(r, s)
    \/ \E t \in {r, HandedOff(r, "null"), Requeued(r), Exhausted(r)} :
         SweptRow(r, t) /\ Due(t) /\ s = ReconciliationLeased(t)

ObservedRow(r, s) ==
    /\ Reconcilable(r) /\ r.recon = "leased"
    /\ \/ r.modal = "true" /\ \E reference \in References : s = Confirmed(r, reference)
       \/ r.recorded + 1 < ObservationLimit /\ s = FollowedUp(r)
       \/ s = Resolved(r, "review_required", "execution_review")

ReviewedRow(r, s) ==
    /\ r.job = "queued"
    /\ s = [r EXCEPT !.job = "cancelled", !.intent = "execution_review", !.reviewCase = TRUE]

TickedRow(r, s) ==
    \/ r.job = "leased" /\ s = [r EXCEPT !.jobLapsed = TRUE]
    \/ r.recon = "leased" /\ s = [r EXCEPT !.reconLapsed = TRUE]
    \/ r.recon = "deferred" /\ s = [r EXCEPT !.recon = "queued"]
    \/ s = [r EXCEPT !.eligible = FALSE]

QuietRow(r, s) ==
    \/ s = r
    \/ r.intent = "verified" /\ pilot.status = "live" /\ s = Enqueued(r)
    \/ r.attempt = "prepared" /\ s = CancelledBeforeAction(r)
    \/ Fenceable(r) /\ s = Fenced(r)
    \/ AwaitsHandoff(r) /\ \E modal \in ModalFact : s = HandedOff(r, modal)
    \/ PolledRow(r, s)
    \/ ObservedRow(r, s)
    \/ ReviewedRow(r, s)
    \/ TickedRow(r, s)

\* A sweep leaves a row in order.
LEMMA SweptRowOK ==
    ASSUME NEW r, RowOK(r), NEW t, SweptRow(r, t)
    PROVE  RowOK(t)
<1>1. CASE t = r BY <1>1
<1>2. CASE FenceLapsed(r) /\ t = HandedOff(r, "null")
  BY <1>2, HandedOffOK DEF FenceLapsed, AwaitsHandoff, ModalFact
<1>3. CASE Retryable(r) /\ t = Requeued(r)
  BY <1>3, RequeuedOK DEF Retryable, LeaseLapsed
<1>4. CASE Spent(r) /\ t = Exhausted(r)
  BY <1>4, ExhaustedOK
<1> QED BY <1>1, <1>2, <1>3, <1>4 DEF SweptRow

\* The clock, eligibility and the owner's review leave a row in order.
LEMMA TickedRowOK ==
    ASSUME NEW r, RowOK(r), NEW s, TickedRow(r, s) \/ ReviewedRow(r, s)
    PROVE  RowOK(s)
<1>1. CASE r.job = "leased" /\ s = [r EXCEPT !.jobLapsed = TRUE]
  BY <1>1 DEF RowOK, Row, Joint, DetailsAgree
<1>2. CASE r.recon = "leased" /\ s = [r EXCEPT !.reconLapsed = TRUE]
  BY <1>2 DEF RowOK, Row, Joint, DetailsAgree
<1>3. CASE r.recon = "deferred" /\ s = [r EXCEPT !.recon = "queued"]
  BY <1>3 DEF RowOK, Row, Joint, DetailsAgree, ReconciliationStatus
<1>4. CASE s = [r EXCEPT !.eligible = FALSE]
  BY <1>4 DEF RowOK, Row, Joint, DetailsAgree
<1>5. CASE ReviewedRow(r, s)
  BY <1>5 DEF ReviewedRow, RowOK, Row, Joint, DetailsAgree, IntentStatus, JobStatus
<1> QED BY <1>1, <1>2, <1>3, <1>4, <1>5 DEF TickedRow

\* Every quiet step leaves a row in order.
LEMMA QuietRowOK ==
    ASSUME NEW r, RowOK(r), NEW s, QuietRow(r, s), pilot \in Pilot
    PROVE  RowOK(s)
<1>1. CASE r.intent = "verified" /\ pilot.status = "live" /\ s = Enqueued(r)
  BY <1>1, EnqueuedOK
<1>2. CASE r.attempt = "prepared" /\ s = CancelledBeforeAction(r)
  BY <1>2, CancelledOK
<1>3. CASE Fenceable(r) /\ s = Fenced(r)
  BY <1>3, FencedOK DEF Fenceable
<1>4. CASE AwaitsHandoff(r) /\ \E modal \in ModalFact : s = HandedOff(r, modal)
  BY <1>4, HandedOffOK DEF AwaitsHandoff
<1>5. CASE PolledRow(r, s)
  <2>1. CASE SweptRow(r, s) BY <2>1, SweptRowOK
  <2>2. ASSUME NEW t, SweptRow(r, t), Due(t), s = ReconciliationLeased(t)
        PROVE  RowOK(s)
    BY <2>2, SweptRowOK, ReconciliationLeasedOK
  <2> QED BY <1>5, <2>1, <2>2 DEF PolledRow
<1>6. CASE ObservedRow(r, s)
  BY <1>6, ConfirmedOK, FollowedUpOK, AmbiguousOK DEF ObservedRow
<1>7. CASE ReviewedRow(r, s) \/ TickedRow(r, s)
  BY <1>7, TickedRowOK
<1> QED BY <1>1, <1>2, <1>3, <1>4, <1>5, <1>6, <1>7 DEF QuietRow

-----------------------------------------------------------------------------
(* What a step may change of a row, and what it may not. *)

\* An open observation still has a lease left.
NotStranded(r) == r.recon \in {"deferred", "queued"} => r.leases < LeaseLimit

AttemptAdvances(r, s) ==
    s.attempt = r.attempt \/ <<r.attempt, s.attempt>> \in AttemptMoves

HandoffKept(r, s) ==
    /\ s.agent = r.agent
    /\ r.recon # "none" => s.modal = r.modal
    /\ r.recorded <= s.recorded

NothingTakenUp(r, s) ==
    /\ Blocking(s) => Blocking(r)
    /\ ActiveWork(s) => \/ ActiveWork(r) \/ Blocking(r)
                        \/ s.reservation = pilot.revision

ReservationKept(r, s) ==
    /\ s.intent = "verified" => r.intent = "verified"
    /\ \/ s.reservation = r.reservation
       \/ /\ r.intent = "verified" /\ s.intent # "verified"
          /\ pilot.status = "live" /\ s.reservation = pilot.revision

FencedByAuthority(r, s) ==
    s.attempt = "final_action_fenced" => s.attempt = r.attempt \/ Authorized(r)

Follows(r, s) ==
    /\ AttemptAdvances(r, s) /\ HandoffKept(r, s) /\ NothingTakenUp(r, s)
    /\ ReservationKept(r, s) /\ FencedByAuthority(r, s)
    /\ NotStranded(r) => NotStranded(s)

\* What a sweep changes of a row.
LEMMA SweptRowFollows ==
    ASSUME NEW r, RowOK(r), NEW t, SweptRow(r, t)
    PROVE  /\ Follows(r, t)
           /\ t.reservation = r.reservation
<1> USE DEF Follows, AttemptAdvances, AttemptMoves, HandoffKept, NothingTakenUp, Blocking,
            BlockingStatus, ActiveWork, ReservationKept, FencedByAuthority, NotStranded,
            RowOK, Row
<1>1. CASE t = r BY <1>1
<1>2. CASE FenceLapsed(r) /\ t = HandedOff(r, "null")
  BY <1>2, LeaseLimitAssumption DEF FenceLapsed, AwaitsHandoff, HandedOff, Joint
<1>3. CASE Retryable(r) /\ t = Requeued(r)
  BY <1>3 DEF Retryable, LeaseLapsed, Requeued, Joint
<1>4. CASE Spent(r) /\ t = Exhausted(r)
  BY <1>4 DEF Spent, LeaseLapsed, Reconcilable, Exhausted, Resolved, Joint
<1> QED BY <1>1, <1>2, <1>3, <1>4 DEF SweptRow

\* What a poll changes of a row: at most a sweep and then a lease.
LEMMA PolledRowFollows ==
    ASSUME NEW r, RowOK(r), NEW s, PolledRow(r, s)
    PROVE  Follows(r, s)
<1>1. CASE SweptRow(r, s) BY <1>1, SweptRowFollows
<1>2. ASSUME NEW t, SweptRow(r, t), Due(t), s = ReconciliationLeased(t)
      PROVE  Follows(r, s)
  <2>1. RowOK(t) /\ Follows(r, t) /\ t.reservation = r.reservation
    BY <1>2, SweptRowOK, SweptRowFollows
  <2>2. /\ s.attempt = t.attempt /\ s.agent = t.agent /\ s.modal = t.modal
        /\ s.recorded = t.recorded /\ s.reservation = t.reservation
        /\ s.intent = t.intent /\ s.job = t.job /\ s.recon = "leased"
    BY <1>2, <2>1 DEF ReconciliationLeased, RowOK, Row
  <2>3. t.recon = "queued" BY <1>2 DEF Due
  <2>4. Blocking(s) <=> Blocking(t) BY <2>2 DEF Blocking
  <2>5. ActiveWork(t) BY <2>3 DEF ActiveWork
  <2>6. AttemptAdvances(r, s) /\ HandoffKept(r, s)
    BY <2>1, <2>2 DEF Follows, AttemptAdvances, HandoffKept
  <2>7. NothingTakenUp(r, s)
    BY <2>1, <2>2, <2>4, <2>5 DEF Follows, NothingTakenUp
  <2>8. ReservationKept(r, s) /\ FencedByAuthority(r, s)
    BY <2>1, <2>2 DEF Follows, ReservationKept, FencedByAuthority
  <2>9. NotStranded(s) BY <2>2 DEF NotStranded
  <2> QED BY <2>6, <2>7, <2>8, <2>9 DEF Follows
<1> QED BY <1>1, <1>2 DEF PolledRow

\* What any quiet step changes of a row.
LEMMA QuietRowFollows ==
    ASSUME NEW r, RowOK(r), NEW s, QuietRow(r, s)
    PROVE  Follows(r, s)
<1> USE DEF Follows, AttemptAdvances, AttemptMoves, HandoffKept, NothingTakenUp, Blocking,
            BlockingStatus, ActiveWork, ReservationKept, FencedByAuthority, NotStranded,
            RowOK, Row
<1>1. CASE s = r BY <1>1
<1>2. CASE r.intent = "verified" /\ pilot.status = "live" /\ s = Enqueued(r)
  BY <1>2 DEF Enqueued, Joint
<1>3. CASE r.attempt = "prepared" /\ s = CancelledBeforeAction(r)
  BY <1>3 DEF CancelledBeforeAction, Joint
<1>4. CASE Fenceable(r) /\ s = Fenced(r)
  BY <1>4 DEF Fenceable, Fenced, Joint
<1>5. CASE AwaitsHandoff(r) /\ \E modal \in ModalFact : s = HandedOff(r, modal)
  BY <1>5, LeaseLimitAssumption DEF AwaitsHandoff, HandedOff, Joint
<1>6. CASE PolledRow(r, s) BY <1>6, PolledRowFollows
<1>7. CASE ObservedRow(r, s)
  <2>1. CASE Reconcilable(r) /\ \E reference \in References : s = Confirmed(r, reference)
    BY <2>1 DEF Reconcilable, Confirmed, Resolved, Joint
  <2>2. CASE Reconcilable(r) /\ s = FollowedUp(r)
    BY <2>2, LeaseLimitAssumption DEF Reconcilable, FollowedUp, Joint
  <2>3. CASE Reconcilable(r) /\ s = Resolved(r, "review_required", "execution_review")
    BY <2>3 DEF Reconcilable, Resolved, Joint
  <2> QED BY <1>7, <2>1, <2>2, <2>3 DEF ObservedRow
<1>8. CASE ReviewedRow(r, s) BY <1>8 DEF ReviewedRow, Joint
<1>9. CASE TickedRow(r, s) BY <1>9 DEF TickedRow, Joint
<1> QED BY <1>1, <1>2, <1>3, <1>4, <1>5, <1>6, <1>7, <1>8, <1>9 DEF QuietRow

-----------------------------------------------------------------------------
(* The inductive invariant. *)

RowsOK == \A i \in Intents : RowOK(deposits[i])

\* No revision, no pilot.
PilotKnown == pilot.status = "none" <=> pilot.revision = 0

\* A deposit is reserved when it is enqueued, under a revision that was armed.
ReservationsKnown ==
    \A i \in Intents :
        /\ deposits[i].intent = "verified" => deposits[i].reservation = 0
        /\ deposits[i].reservation <= pilot.revision

LedgerInv ==
    /\ TypeOK /\ RowsOK /\ PilotKnown /\ ReservationsKnown
    /\ LaneSerialized /\ OnlyCurrentRevisionAtWork /\ NoStrandedObservation

\* A poll is quiet on every row.
LEMMA PollIsQuiet ==
    ASSUME TypeOK, NEW leased \in Intents \cup {None}, PollReconciliation(leased)
    PROVE  /\ deposits' = [i \in Intents |-> deposits'[i]]
           /\ \A i \in Intents : QuietRow(deposits[i], deposits'[i])
<1>1. PICK adopted  \in OneOf({i \in Intents : FenceLapsed(deposits[i])}),
           requeued \in OneOf({i \in Intents : Retryable(deposits[i])}),
           spent    \in OneOf({i \in Intents : Spent(deposits[i])}) :
        /\ leased \in OneOf(DueAfter(adopted, requeued, spent))
        /\ deposits' = [i \in Intents |->
                          IF i = leased
                          THEN ReconciliationLeased(Swept(i, adopted, requeued, spent))
                          ELSE Swept(i, adopted, requeued, spent)]
  BY DEF PollReconciliation
<1>2. ASSUME NEW i \in Intents PROVE QuietRow(deposits[i], deposits'[i])
  <2> DEFINE r == deposits[i]
             t == Swept(i, adopted, requeued, spent)
  <2>1. i # None BY NoneAssumption
  <2>2. /\ i = adopted => FenceLapsed(r)
        /\ i = requeued => Retryable(r)
        /\ i = spent => Spent(r)
    BY <1>1, <2>1 DEF OneOf
  <2>3. SweptRow(r, t) /\ t \in {r, HandedOff(r, "null"), Requeued(r), Exhausted(r)}
    BY <2>2 DEF Swept, SweptRow
  <2>4. i = leased => Due(t)
    BY <1>1, <2>1 DEF OneOf, DueAfter
  <2>5. deposits'[i] = IF i = leased THEN ReconciliationLeased(t) ELSE t
    BY <1>1
  <2> HIDE DEF t
  <2>6. PolledRow(r, deposits'[i])
    BY <2>3, <2>4, <2>5 DEF PolledRow
  <2> QED BY <2>6 DEF QuietRow
<1> QED BY <1>1, <1>2

\* Recording an observation is quiet on every row.
LEMMA RecordIsQuiet ==
    ASSUME TypeOK, NEW i \in Intents, NEW observation, NEW token, NEW modal,
           NEW seen \in Observation,
           RecordReconciliation(i, observation, token, modal, seen)
    PROVE  /\ deposits' = [j \in Intents |-> deposits'[j]]
           /\ \A j \in Intents : QuietRow(deposits[j], deposits'[j])
<1> DEFINE r == deposits[i]
           s == CASE Outcome(r, seen) = "confirmed_executed" -> Confirmed(r, seen.reference)
                  [] Outcome(r, seen) = "not_observed"       -> FollowedUp(r)
                  [] Outcome(r, seen) = "ambiguous"          ->
                       Resolved(r, "review_required", "execution_review")
<1>1. deposits' = [deposits EXCEPT ![i] = s] /\ Reconcilable(r) /\ r.recon = "leased"
  BY DEF RecordReconciliation, Recordable
<1>2. seen.kind = "confirmed_executed" => seen.reference \in References
  BY DEF Observation
<1>3. \/ /\ Outcome(r, seen) = "confirmed_executed"
         /\ seen.kind = "confirmed_executed" /\ r.modal = "true"
      \/ Outcome(r, seen) = "not_observed" /\ r.recorded + 1 < ObservationLimit
      \/ Outcome(r, seen) = "ambiguous"
  BY DEF Outcome
<1>4. \/ /\ r.modal = "true"
         /\ \E reference \in References : s = Confirmed(r, reference)
      \/ r.recorded + 1 < ObservationLimit /\ s = FollowedUp(r)
      \/ s = Resolved(r, "review_required", "execution_review")
  BY <1>2, <1>3
<1> HIDE DEF s
<1>5. QuietRow(r, s)
  BY <1>1, <1>4 DEF QuietRow, ObservedRow
<1>6. \A j \in Intents : deposits'[j] = IF j = i THEN s ELSE deposits[j]
  BY <1>1 DEF TypeOK
<1>7. deposits' = [j \in Intents |-> deposits'[j]]
  BY <1>1 DEF TypeOK
<1> QED BY <1>5, <1>6, <1>7 DEF QuietRow

\* Steps that change one row of one deposit and nothing else are quiet when that
\* row's change is.
LEMMA OneRowIsQuiet ==
    ASSUME TypeOK, NEW i \in Intents, NEW s, QuietRow(deposits[i], s),
           deposits' = [deposits EXCEPT ![i] = s]
    PROVE  /\ deposits' = [j \in Intents |-> deposits'[j]]
           /\ \A j \in Intents : QuietRow(deposits[j], deposits'[j])
<1>1. \A j \in Intents : deposits'[j] = IF j = i THEN s ELSE deposits[j]
  BY DEF TypeOK
<1>2. deposits' = [j \in Intents |-> deposits'[j]] BY DEF TypeOK
<1> QED BY <1>1, <1>2 DEF QuietRow

\* What moves the pilot and the agents, never together with a deposit.
PilotStep ==
    \/ \E g \in Agents : ArmPilot(g) \/ RetireAgent(g)
    \/ ActivateSwitches \/ StopPilot \/ PilotExpires

\* Every step moves the pilot, or leases fresh work, or is quiet.
LEMMA StepsOfTheLedger ==
    ASSUME TypeOK, [Next]_vars
    PROVE  \/ PilotStep
           \/ \E i \in Intents : LeaseNextExecution(i)
           \/ /\ deposits' = [i \in Intents |-> deposits'[i]]
              /\ \A i \in Intents : QuietRow(deposits[i], deposits'[i])
              /\ UNCHANGED <<pilot, activeAgents>>
<1> DEFINE Quiet == /\ deposits' = [i \in Intents |-> deposits'[i]]
                    /\ \A i \in Intents : QuietRow(deposits[i], deposits'[i])
<1>1. CASE UNCHANGED vars BY <1>1 DEF vars, TypeOK, QuietRow
<1>2. ASSUME NEW i \in Intents, ReviewStoppedPilotJob(i) PROVE Quiet
  <2> DEFINE s == [deposits[i] EXCEPT !.job = "cancelled", !.intent = "execution_review",
                                      !.reviewCase = TRUE]
  <2>1. deposits' = [deposits EXCEPT ![i] = s] /\ deposits[i].job = "queued"
    BY <1>2 DEF ReviewStoppedPilotJob, TypeOK
  <2>2. QuietRow(deposits[i], s) BY <2>1 DEF QuietRow, ReviewedRow
  <2> HIDE DEF s
  <2> QED BY <2>1, <2>2, OneRowIsQuiet
<1>3. ASSUME NEW i \in Intents,
             \/ RevokeEligibility(i) \/ FollowUpDue(i)
             \/ LapseExecutionLease(i) \/ LapseReconciliationLease(i)
      PROVE  Quiet
  <2>1. \E s : /\ deposits' = [deposits EXCEPT ![i] = s]
               /\ TickedRow(deposits[i], s)
    BY <1>3 DEF RevokeEligibility, FollowUpDue, LapseExecutionLease,
                LapseReconciliationLease, TickedRow, TypeOK
  <2> QED BY <2>1, OneRowIsQuiet DEF QuietRow
<1>4. ASSUME NEW i \in Intents, EnqueueVerifiedDeposit(i) PROVE Quiet
  <2>1. QuietRow(deposits[i], Enqueued(deposits[i]))
    BY <1>4 DEF EnqueueVerifiedDeposit, QuietRow
  <2> QED BY <1>4, <2>1, OneRowIsQuiet DEF EnqueueVerifiedDeposit
<1>5. ASSUME NEW i \in Intents, RecoverExpiredPrepared(i) \/ CancelBeforeAction(i)
      PROVE  Quiet
  <2>1. /\ QuietRow(deposits[i], CancelledBeforeAction(deposits[i]))
        /\ deposits' = [deposits EXCEPT ![i] = CancelledBeforeAction(deposits[i])]
    BY <1>5 DEF RecoverExpiredPrepared, PreparedLapsed, CancelBeforeAction, QuietRow
  <2> QED BY <2>1, OneRowIsQuiet
<1>6. ASSUME NEW i \in Intents, FenceFinalAction(i) PROVE Quiet
  <2>1. QuietRow(deposits[i], Fenced(deposits[i]))
    BY <1>6 DEF FenceFinalAction, QuietRow
  <2> QED BY <1>6, <2>1, OneRowIsQuiet DEF FenceFinalAction
<1>7. ASSUME NEW i \in Intents, NEW modal \in ModalFact, RequireReconciliation(i, modal)
      PROVE  Quiet
  <2>1. QuietRow(deposits[i], HandedOff(deposits[i], modal))
    BY <1>7 DEF RequireReconciliation, QuietRow
  <2> QED BY <1>7, <2>1, OneRowIsQuiet DEF RequireReconciliation
<1>8. ASSUME NEW i \in Intents, NEW seen \in Observation,
             RecordReconciliation(i, deposits[i].recorded, deposits[i].leases,
                                  deposits[i].modal, seen)
      PROVE  Quiet
  BY <1>8, RecordIsQuiet
<1>9. ASSUME NEW i \in Intents \cup {None}, PollReconciliation(i) PROVE Quiet
  BY <1>9, PollIsQuiet
<1>10. CASE OwnerStep
  BY <1>2, <1>10 DEF OwnerStep, PilotStep, ReviewStoppedPilotJob
<1>11. CASE EnvironmentStep
  BY <1>3, <1>11 DEF EnvironmentStep, PilotStep, RevokeEligibility, FollowUpDue,
                     LapseExecutionLease, LapseReconciliationLease
<1> HIDE DEF Quiet
<1>12. ASSUME NEW i \in Intents,
              \/ EnqueueVerifiedDeposit(i) \/ RecoverExpiredPrepared(i)
              \/ CancelBeforeAction(i) \/ FenceFinalAction(i)
              \/ \E modal \in ModalFact : RequireReconciliation(i, modal)
              \/ \E seen \in Observation :
                   RecordReconciliation(i, deposits[i].recorded, deposits[i].leases,
                                        deposits[i].modal, seen)
       PROVE  Quiet /\ UNCHANGED <<pilot, activeAgents>>
  BY <1>12, <1>4, <1>5, <1>6, <1>7, <1>8
     DEF EnqueueVerifiedDeposit, RecoverExpiredPrepared, CancelBeforeAction,
         FenceFinalAction, RequireReconciliation, RecordReconciliation
<1>13. ASSUME NEW i \in Intents \cup {None}, PollReconciliation(i)
       PROVE  Quiet /\ UNCHANGED <<pilot, activeAgents>>
  BY <1>13, <1>9 DEF PollReconciliation
<1>14. CASE Next
  BY <1>10, <1>11, <1>12, <1>13, <1>14 DEF Next, Quiet
<1> QED BY <1>1, <1>14

-----------------------------------------------------------------------------
(* The invariant is inductive. *)

\* Nothing is enqueued, armed or prepared at first.
LEMMA InvInitially == Init => LedgerInv
<1> SUFFICES ASSUME Init PROVE LedgerInv OBVIOUS
<1>1. \A i \in Intents : deposits[i] = NewRow BY DEF Init
<1>2. TypeOK
  BY NewRowOK, MaxRevisionsAssumption DEF Init, TypeOK, RowOK, Pilot, PilotStatus
<1>3. RowsOK BY <1>1, NewRowOK DEF RowsOK
<1>4. PilotKnown BY DEF Init, PilotKnown
<1>5. ReservationsKnown BY <1>1 DEF Init, ReservationsKnown, NewRow
<1>6. LaneSerialized /\ OnlyCurrentRevisionAtWork /\ NoStrandedObservation
  BY <1>1 DEF LaneSerialized, OnlyCurrentRevisionAtWork, NoStrandedObservation, NewRow,
              Blocking, BlockingStatus, ActiveWork
<1> QED BY <1>2, <1>3, <1>4, <1>5, <1>6 DEF LedgerInv

\* Moving the pilot touches no deposit; arming finds no work left to outlive.
LEMMA InvUnderPilotStep == ASSUME LedgerInv, PilotStep PROVE LedgerInv'
<1> USE DEF LedgerInv
<1>1. deposits' = deposits /\ activeAgents' \subseteq Agents
  BY DEF PilotStep, ArmPilot, RetireAgent, ActivateSwitches, StopPilot, PilotExpires, TypeOK
<1>2. /\ pilot' \in Pilot /\ PilotKnown'
      /\ pilot'.revision = pilot.revision \/ pilot'.revision = pilot.revision + 1
  BY MaxRevisionsAssumption
     DEF PilotStep, ArmPilot, RetireAgent, ActivateSwitches, StopPilot, PilotExpires, TypeOK,
         Pilot, PilotStatus, PilotKnown
<1>3. \/ pilot'.revision = pilot.revision
      \/ \A i \in Intents : ~ActiveWork(deposits[i]) /\ ~Blocking(deposits[i])
  BY DEF PilotStep, ArmPilot, RetireAgent, ActivateSwitches, StopPilot, PilotExpires, TypeOK,
         Pilot
<1>4. TypeOK' /\ RowsOK' BY <1>1, <1>2 DEF TypeOK, RowsOK
<1>5. ReservationsKnown'
  BY <1>1, <1>2 DEF ReservationsKnown, TypeOK, Pilot, Row
<1>6. LaneSerialized' /\ NoStrandedObservation'
  BY <1>1 DEF LaneSerialized, NoStrandedObservation
<1>7. OnlyCurrentRevisionAtWork'
  BY <1>1, <1>3 DEF OnlyCurrentRevisionAtWork
<1> QED BY <1>2, <1>4, <1>5, <1>6, <1>7

\* A lease takes a lane that nobody blocks.
LEMMA InvUnderLease ==
    ASSUME LedgerInv, NEW i \in Intents, LeaseNextExecution(i)
    PROVE  LedgerInv'
<1> DEFINE r == deposits[i]
           s == ExecutionLeased(r, pilot.agent)
<1> USE DEF LedgerInv
<1>1. /\ Leasable(r) /\ deposits' = [deposits EXCEPT ![i] = s]
      /\ pilot' = pilot /\ activeAgents' = activeAgents
  BY DEF LeaseNextExecution
<1>2. pilot.agent \in Agents BY <1>1 DEF Leasable, Authorized, TypeOK
<1>3. RowOK(r) BY DEF RowsOK
<1>4. RowOK(s) BY <1>1, <1>2, <1>3, ExecutionLeasedOK DEF Leasable
<1>5. /\ s.agent = pilot.agent /\ s.attempt = "prepared" /\ s.job = "leased"
      /\ s.intent = r.intent /\ s.reservation = r.reservation
      /\ s.recon = r.recon /\ s.leases = r.leases
  BY <1>3 DEF ExecutionLeased, RowOK, Row
<1> HIDE DEF s
<1>6. \A j \in Intents : deposits'[j] = IF j = i THEN s ELSE deposits[j]
  BY <1>1 DEF TypeOK
<1>7. TypeOK' /\ RowsOK'
  BY <1>1, <1>4, <1>6 DEF TypeOK, RowsOK, RowOK
<1>8. PilotKnown' BY <1>1 DEF PilotKnown
<1>9. ReservationsKnown'
  BY <1>1, <1>5, <1>6 DEF ReservationsKnown
<1>10. LaneSerialized'
  <2>1. \A j \in Intents \ {i} : Blocking(deposits[j]) => deposits[j].agent # pilot.agent
    BY <1>1 DEF Leasable, Blocks
  <2> QED BY <2>1, <1>5, <1>6 DEF LaneSerialized
<1>11. OnlyCurrentRevisionAtWork'
  BY <1>1, <1>5, <1>6 DEF OnlyCurrentRevisionAtWork, Leasable, Authorized
<1>12. NoStrandedObservation'
  BY <1>5, <1>6 DEF NoStrandedObservation
<1> QED BY <1>7, <1>8, <1>9, <1>10, <1>11, <1>12

\* A quiet step takes up no lane and no work of its own.
LEMMA InvUnderQuietStep ==
    ASSUME LedgerInv,
           deposits' = [i \in Intents |-> deposits'[i]],
           \A i \in Intents : QuietRow(deposits[i], deposits'[i]),
           UNCHANGED <<pilot, activeAgents>>
    PROVE  LedgerInv'
<1> USE DEF LedgerInv
<1>1. \A i \in Intents : RowOK(deposits[i]) /\ RowOK(deposits'[i])
  BY QuietRowOK DEF RowsOK, TypeOK
<1>2. \A i \in Intents : Follows(deposits[i], deposits'[i])
  BY <1>1, QuietRowFollows
<1>3. TypeOK' BY <1>1 DEF TypeOK, RowOK
<1>4. RowsOK' BY <1>1 DEF RowsOK
<1>5. PilotKnown' BY DEF PilotKnown
<1>6. ReservationsKnown'
  BY <1>2 DEF Follows, ReservationKept, ReservationsKnown, TypeOK, Pilot
<1>7. LaneSerialized'
  BY <1>2 DEF Follows, HandoffKept, NothingTakenUp, LaneSerialized
<1>8. OnlyCurrentRevisionAtWork'
  <2> SUFFICES ASSUME NEW i \in Intents, ActiveWork(deposits'[i]) \/ Blocking(deposits'[i])
               PROVE  deposits'[i].reservation = pilot.revision
    BY DEF OnlyCurrentRevisionAtWork
  <2>1. NothingTakenUp(deposits[i], deposits'[i]) /\ ReservationKept(deposits[i], deposits'[i])
    BY <1>2 DEF Follows
  <2> QED BY <2>1 DEF NothingTakenUp, ReservationKept, OnlyCurrentRevisionAtWork
<1>9. NoStrandedObservation'
  BY <1>2 DEF Follows, NotStranded, NoStrandedObservation
<1> QED BY <1>3, <1>4, <1>5, <1>6, <1>7, <1>8, <1>9

\* Whatever the step.
LEMMA InvInductive == LedgerInv /\ [Next]_vars => LedgerInv'
<1> SUFFICES ASSUME LedgerInv, [Next]_vars PROVE LedgerInv' OBVIOUS
<1>1. CASE PilotStep BY <1>1, InvUnderPilotStep
<1>2. CASE \E i \in Intents : LeaseNextExecution(i) BY <1>2, InvUnderLease
<1> QED BY <1>1, <1>2, StepsOfTheLedger, InvUnderQuietStep DEF LedgerInv

\* The ledger keeps its invariant.
THEOREM LedgerInvariant == Spec => []LedgerInv
BY InvInitially, InvInductive, PTL DEF Spec

-----------------------------------------------------------------------------
(* Consequences: the invariants. *)

\* The rows always have their types.
THEOREM TypesHold == Spec => []TypeOK
<1>1. LedgerInv => TypeOK BY DEF LedgerInv
<1> QED BY <1>1, LedgerInvariant, PTL

\* No two open deposits ever share an agent account.
THEOREM LanesAreSerialized == Spec => []LaneSerialized
<1>1. LedgerInv => LaneSerialized BY DEF LedgerInv
<1> QED BY <1>1, LedgerInvariant, PTL

\* Intent, job, attempt and observation job always agree.
THEOREM RowsCorrespond == Spec => []StatusesCorrespond
<1>1. LedgerInv => StatusesCorrespond
  BY RowOKCorresponds DEF LedgerInv, RowsOK, StatusesCorrespond
<1> QED BY <1>1, LedgerInvariant, PTL

\* Work and open attempts always belong to the current revision.
THEOREM WorkIsOfTheCurrentRevision == Spec => []OnlyCurrentRevisionAtWork
<1>1. LedgerInv => OnlyCurrentRevisionAtWork BY DEF LedgerInv
<1> QED BY <1>1, LedgerInvariant, PTL

\* A queued observation can always be leased.
THEOREM NoObservationIsStranded == Spec => []NoStrandedObservation
<1>1. LedgerInv => NoStrandedObservation BY DEF LedgerInv
<1> QED BY <1>1, LedgerInvariant, PTL

-----------------------------------------------------------------------------
(* Consequences: what a step may never do. *)

\* The pilot is the only one who does not touch deposits.
LEMMA PilotStepKeepsDeposits == PilotStep => deposits' = deposits
BY DEF PilotStep, ArmPilot, RetireAgent, ActivateSwitches, StopPilot, PilotExpires

\* What leasing changes: one row without an attempt, which gets its first.
LEMMA LeaseTakesAFreshRow ==
    ASSUME LedgerInv, NEW i \in Intents, LeaseNextExecution(i)
    PROVE  /\ pilot' = pilot /\ Authorized(deposits[i])
           /\ deposits[i].attempt = "none" /\ deposits[i].recon = "none"
           /\ deposits'[i].attempt = "prepared"
           /\ deposits'[i].recorded = deposits[i].recorded
           /\ deposits'[i].reservation = deposits[i].reservation
           /\ \A j \in Intents \ {i} : deposits'[j] = deposits[j]
<1> DEFINE r == deposits[i]
<1>1. RowOK(r) /\ r.job = "queued" /\ Authorized(r)
  BY DEF LedgerInv, RowsOK, LeaseNextExecution, Leasable
<1>2. r.attempt = "none" /\ r.recon = "none" BY <1>1 DEF RowOK, Joint
<1>3. deposits' = [deposits EXCEPT ![i] = ExecutionLeased(r, pilot.agent)] /\ pilot' = pilot
  BY DEF LeaseNextExecution
<1>4. /\ deposits'[i] = ExecutionLeased(r, pilot.agent)
      /\ \A j \in Intents \ {i} : deposits'[j] = deposits[j]
  BY <1>3 DEF LedgerInv, TypeOK
<1>5. /\ deposits'[i].attempt = "prepared"
      /\ deposits'[i].recorded = r.recorded /\ deposits'[i].reservation = r.reservation
  BY <1>1, <1>4 DEF ExecutionLeased, RowOK, Row
<1> QED BY <1>1, <1>2, <1>3, <1>4, <1>5

\* Attempts only advance, whoever calls which command.
THEOREM AttemptsOnlyAdvance == Spec => AttemptsAdvance
<1> DEFINE Advance(i) == \/ deposits'[i].attempt = deposits[i].attempt
                         \/ <<deposits[i].attempt, deposits'[i].attempt>> \in AttemptMoves
<1>1. ASSUME LedgerInv, [Next]_vars, NEW i \in Intents PROVE Advance(i)
  <2>1. CASE PilotStep BY <2>1, PilotStepKeepsDeposits
  <2>2. ASSUME NEW j \in Intents, LeaseNextExecution(j) PROVE Advance(i)
    BY <1>1, <2>2, LeaseTakesAFreshRow DEF AttemptMoves
  <2>3. CASE \A j \in Intents : QuietRow(deposits[j], deposits'[j])
    BY <1>1, <2>3, QuietRowFollows DEF LedgerInv, RowsOK, Follows, AttemptAdvances
  <2> QED BY <1>1, <2>1, <2>2, <2>3, StepsOfTheLedger DEF LedgerInv
<1>2. LedgerInv /\ [Next]_vars => [\A i \in Intents : Advance(i)]_vars BY <1>1
<1> QED BY <1>2, LedgerInvariant, PTL DEF Spec, AttemptsAdvance

\* The agent, the modal fact and what was recorded outlive every later step.
THEOREM HandoffsAreFinal == Spec => HandoffIsFinal
<1> DEFINE Kept(i) ==
      /\ deposits[i].attempt # "none" => deposits'[i].agent = deposits[i].agent
      /\ deposits[i].recon # "none" => deposits'[i].modal = deposits[i].modal
      /\ deposits[i].recorded <= deposits'[i].recorded
<1>1. ASSUME LedgerInv, [Next]_vars, NEW i \in Intents PROVE Kept(i)
  <2>1. deposits[i].recorded <= deposits[i].recorded
    BY <1>1 DEF LedgerInv, TypeOK, Row
  <2>2. CASE PilotStep BY <2>1, <2>2, PilotStepKeepsDeposits
  <2>3. ASSUME NEW j \in Intents, LeaseNextExecution(j) PROVE Kept(i)
    BY <1>1, <2>1, <2>3, LeaseTakesAFreshRow
  <2>4. CASE \A j \in Intents : QuietRow(deposits[j], deposits'[j])
    BY <1>1, <2>4, QuietRowFollows DEF LedgerInv, RowsOK, Follows, HandoffKept
  <2> QED BY <1>1, <2>2, <2>3, <2>4, StepsOfTheLedger DEF LedgerInv
<1>2. LedgerInv /\ [Next]_vars => [\A i \in Intents : Kept(i)]_vars BY <1>1
<1> QED BY <1>2, LedgerInvariant, PTL DEF Spec, HandoffIsFinal

\* What was not fenced when its revision was stopped is never fenced.
THEOREM StopsAreFinal == Spec => StopIsFinal
<1>1. ASSUME LedgerInv, [Next]_vars, NEW i \in Intents, StoppedUnfenced(i)
      PROVE  StoppedUnfenced(i)'
  <2> DEFINE r == deposits[i]
             s == deposits'[i]
  <2>1. /\ r.reservation \in Nat \ {0} /\ r.reservation <= pilot.revision
        /\ r.intent # "verified" /\ pilot \in Pilot /\ RowOK(r) /\ ~Authorized(r)
    BY <1>1, MaxRevisionsAssumption
       DEF LedgerInv, TypeOK, RowsOK, ReservationsKnown, StoppedUnfenced, Authorized, Row,
           Pilot
  <2>2. CASE PilotStep
    <3>1. s = r BY <2>2, PilotStepKeepsDeposits
    <3>2. \/ pilot' = pilot
          \/ pilot'.status = "stopped" /\ pilot'.revision = pilot.revision
          \/ pilot'.revision = pilot.revision + 1
          \/ pilot.status # "stopped" /\ pilot'.revision = pilot.revision
      BY <2>1, <2>2
         DEF PilotStep, ArmPilot, RetireAgent, ActivateSwitches, StopPilot, PilotExpires,
             Pilot
    <3> QED BY <1>1, <2>1, <3>1, <3>2, MaxRevisionsAssumption DEF StoppedUnfenced, Pilot
  <2>3. ASSUME NEW j \in Intents, LeaseNextExecution(j) PROVE StoppedUnfenced(i)'
    BY <1>1, <2>1, <2>3, LeaseTakesAFreshRow DEF StoppedUnfenced
  <2>4. CASE pilot' = pilot /\ QuietRow(r, s)
    <3>1. Follows(r, s) BY <2>1, <2>4, QuietRowFollows
    <3>2. s.reservation = r.reservation
      BY <2>1, <3>1 DEF Follows, ReservationKept
    <3>3. s.attempt \in {"none", "prepared", "cancelled_before_action"}
      BY <1>1, <2>1, <3>1
         DEF Follows, AttemptAdvances, AttemptMoves, FencedByAuthority, StoppedUnfenced
    <3> QED BY <1>1, <2>4, <3>2, <3>3 DEF StoppedUnfenced
  <2> QED BY <1>1, <2>2, <2>3, <2>4, StepsOfTheLedger DEF LedgerInv
<1>2. LedgerInv /\ [Next]_vars =>
        [\A i \in Intents : StoppedUnfenced(i) => StoppedUnfenced(i)']_vars
  BY <1>1
<1> QED BY <1>2, LedgerInvariant, PTL DEF Spec, StopIsFinal
=============================================================================
