--------------------------- MODULE ExecutionLedger ---------------------------
(***************************************************************************)
(* The financial ledger of one-shot KemerBet deposits, as PostgreSQL keeps *)
(* it: app.deposit_intents, app.deposit_jobs, app.deposit_execution_       *)
(* attempts, app.execution_reconciliations, app.deposit_review_cases and   *)
(* the private-live pilot revision that authorizes fresh work.             *)
(*                                                                         *)
(* Every SQL command is one transaction, so every command is one action;   *)
(* which process calls it, and when, is left open.  The commands take the  *)
(* five feature-switch rows FOR UPDATE (lease, fence, stop) or an advisory *)
(* lock on the intent (enqueue, cancel, fence, handoff), so the scans and  *)
(* the updates of one command are not interleaved with a conflicting one.  *)
(*                                                                         *)
(* Time is abstracted to the comparisons the commands make with            *)
(* clock_timestamp(): a lease is current or lapsed, a follow-up job is     *)
(* deferred or due.                                                        *)
(***************************************************************************)
EXTENDS Naturals, FiniteSets

CONSTANTS
    Intents,              \* deposit intents with a verified payment
    Agents,               \* platform agent accounts
    References,           \* keyed fingerprints of agent-history references
    None,                 \* SQL null
    ObservationLimit,     \* the absent observation that goes to review (6)
    LeaseLimit,           \* max_attempts of a reconciliation job (8)
    MaxRevisions,         \* bound: pilot revisions prepared in a behaviour
    Revocable,            \* bound: deposits whose eligibility may be withdrawn
    Retirable             \* bound: agent accounts that may be deactivated

ASSUME NoneAssumption == None \notin Intents \cup Agents \cup References
ASSUME ObservationLimitAssumption == ObservationLimit \in Nat \ {0}
ASSUME LeaseLimitAssumption == LeaseLimit \in Nat \ {0}
ASSUME MaxRevisionsAssumption == MaxRevisions \in Nat

VARIABLES
    deposits,             \* the rows of each deposit, one record per intent
    pilot,                \* the pilot revision the switches point to
    activeAgents          \* agent accounts whose status is active

vars == <<deposits, pilot, activeAgents>>

-----------------------------------------------------------------------------
(* The rows. *)

IntentStatus == {"verified", "execution_pending", "execution_in_progress",
                 "execution_reconciliation", "executed", "execution_review"}
JobStatus == {"none", "queued", "leased", "succeeded", "cancelled"}
AttemptStatus == {"none", "prepared", "cancelled_before_action",
                  "final_action_fenced", "reconciliation_required",
                  "confirmed_executed", "review_required"}
\* exact_player_credit_match: what the handoff asserted of the result dialog.
ModalFact == {"null", "true", "false"}
\* "deferred" is a queued follow-up whose run_after is still in the future.
ReconciliationStatus == {"none", "deferred", "queued", "leased", "succeeded"}

Row == [intent: IntentStatus,
        eligible: BOOLEAN,                 \* policy, player and eligibility hold
        reservation: 0..MaxRevisions,      \* pilot revision of the reservation
        job: JobStatus,                    \* the only execute_deposit job
        jobLapsed: BOOLEAN,                \* lease_expires_at <= clock
        attempt: AttemptStatus,
        agent: Agents \cup {None},
        modal: ModalFact,
        recon: ReconciliationStatus,       \* the latest reconcile_execution job
        reconLapsed: BOOLEAN,
        leases: 0..LeaseLimit,             \* its attempt_count, also its token
        recorded: 0..ObservationLimit,     \* observations recorded so far
        reference: References \cup {None}, \* fingerprint of the confirmed one
        reviewCase: BOOLEAN]               \* an execution review case was opened

NewRow == [intent |-> "verified", eligible |-> TRUE, reservation |-> 0,
           job |-> "none", jobLapsed |-> FALSE,
           attempt |-> "none", agent |-> None, modal |-> "null",
           recon |-> "none", reconLapsed |-> FALSE, leases |-> 0,
           recorded |-> 0, reference |-> None, reviewCase |-> FALSE]

PilotStatus == {"none", "armed", "live", "expired", "stopped"}
Pilot == [revision: 0..MaxRevisions, status: PilotStatus, agent: Agents \cup {None}]

TypeOK ==
    /\ deposits \in [Intents -> Row]
    /\ pilot \in Pilot
    /\ activeAgents \subseteq Agents

\* The statuses of deposit_execution_attempts_one_blocking_agent_idx.
BlockingStatus == {"prepared", "final_action_fenced",
                   "reconciliation_required", "review_required"}
Blocking(r) == r.attempt \in BlockingStatus
\* Mutant: an attempt under review frees its agent.
BlocksUntilReview(g) ==
    \E i \in Intents : /\ deposits[i].attempt \in BlockingStatus \ {"review_required"}
                       /\ deposits[i].agent = g
Blocks(g) == \E i \in Intents : Blocking(deposits[i]) /\ deposits[i].agent = g

\* A job counted by the arming check: status queued, leased or retry_wait.
ActiveWork(r) == \/ r.job \in {"queued", "leased"}
                 \/ r.recon \in {"deferred", "queued", "leased"}

\* Mutant: the fence and the lease trust the reservation, not the pilot's status.
AuthorizedByReservation(r) ==
    r.reservation = pilot.revision /\ pilot.agent \in activeAgents

\* require_private_live_deposit_pilot_authorization for a reservation.
Authorized(r) == /\ pilot.status = "live"
                 /\ r.reservation = pilot.revision
                 /\ pilot.agent \in activeAgents

-----------------------------------------------------------------------------
(* What one command does to the rows of one deposit. *)

Enqueued(r) ==
    [r EXCEPT !.intent = "execution_pending", !.job = "queued",
              !.reservation = pilot.revision]

ExecutionLeased(r, g) ==
    [r EXCEPT !.job = "leased", !.jobLapsed = FALSE,
              !.attempt = "prepared", !.agent = g]

CancelledBeforeAction(r) ==
    [r EXCEPT !.attempt = "cancelled_before_action", !.job = "cancelled",
              !.jobLapsed = FALSE, !.intent = "execution_review",
              !.reviewCase = TRUE]

\* The fence replaces the lease's end by the ten-second action window.
Fenced(r) ==
    [r EXCEPT !.attempt = "final_action_fenced",
              !.intent = "execution_in_progress", !.jobLapsed = FALSE]

HandedOff(r, modal) ==
    [r EXCEPT !.attempt = "reconciliation_required", !.modal = modal,
              !.job = "succeeded", !.jobLapsed = FALSE,
              !.recon = "queued", !.leases = 0,
              !.intent = "execution_reconciliation"]

Requeued(r) == [r EXCEPT !.recon = "queued", !.reconLapsed = FALSE]

ReconciliationLeased(r) ==
    [r EXCEPT !.recon = "leased", !.reconLapsed = FALSE, !.leases = @ + 1]

\* The job is finished and the attempt is settled for good.
Resolved(r, attempt, intent) ==
    [r EXCEPT !.recon = "succeeded", !.reconLapsed = FALSE,
              !.recorded = @ + 1, !.attempt = attempt, !.intent = intent]

\* Mutant: exhaustion settles the attempt and forgets its job.
ExhaustedWithoutJob(r) ==
    [r EXCEPT !.attempt = "review_required", !.intent = "execution_review",
              !.reviewCase = TRUE]

Exhausted(r) ==
    [Resolved(r, "review_required", "execution_review") EXCEPT !.reviewCase = TRUE]

\* The observation is kept and a job for the next one is due in two seconds.
FollowedUp(r) ==
    [r EXCEPT !.recon = "deferred", !.reconLapsed = FALSE,
              !.recorded = @ + 1, !.leases = 0]

-----------------------------------------------------------------------------
(* Fresh work: settlement enqueues the one execution job of an intent. *)

EnqueueVerifiedDeposit(i) ==
    /\ deposits[i].intent = "verified"
    /\ deposits[i].job = "none"
    /\ deposits[i].eligible
    /\ pilot.status = "live" /\ pilot.agent \in activeAgents
    /\ deposits' = [deposits EXCEPT ![i] = Enqueued(@)]
    /\ UNCHANGED <<pilot, activeAgents>>

\* Mutant: a lapsed lease is recovered as unfenced whatever its attempt says.
LapsedAnyway(r) ==
    r.attempt \in {"prepared", "final_action_fenced"} /\ r.job = "leased" /\ r.jobLapsed

\* Mutant: recovery waits behind the live-authority checks.
PreparedLapsedWhileLive(r) ==
    /\ r.attempt = "prepared" /\ r.job = "leased" /\ r.jobLapsed
    /\ pilot.status = "live"

\* An unfenced lease that lapsed: any executor's poll adopts one, first thing.
PreparedLapsed(r) ==
    /\ r.attempt = "prepared" /\ r.intent = "execution_pending"
    /\ r.job = "leased" /\ r.jobLapsed

RecoverExpiredPrepared(i) ==
    /\ PreparedLapsed(deposits[i])
    /\ deposits' = [deposits EXCEPT ![i] = CancelledBeforeAction(@)]
    /\ UNCHANGED <<pilot, activeAgents>>

\* Mutant: the lease forgets the agent's lane.
LeasableOnBusyLane(r) ==
    r.job = "queued" /\ r.intent = "execution_pending" /\ r.eligible /\ Authorized(r)

Leasable(r) ==
    /\ r.job = "queued" /\ r.intent = "execution_pending"
    /\ r.eligible /\ Authorized(r)
    /\ ~Blocks(pilot.agent)

LeaseNextExecution(i) ==
    /\ \A j \in Intents : ~PreparedLapsed(deposits[j])
    /\ Leasable(deposits[i])
    /\ deposits' = [deposits EXCEPT ![i] = ExecutionLeased(@, pilot.agent)]
    /\ UNCHANGED <<pilot, activeAgents>>

\* The token of the single execution lease is implied: the caller holds it.
\* A lapsed lease is still cancelled by its holder.
CancelBeforeAction(i) ==
    LET r == deposits[i] IN
    /\ r.attempt = "prepared" /\ r.intent = "execution_pending" /\ r.job = "leased"
    /\ deposits' = [deposits EXCEPT ![i] = CancelledBeforeAction(@)]
    /\ UNCHANGED <<pilot, activeAgents>>

-----------------------------------------------------------------------------
(* The durable one-shot fence, the handoff to observation. *)

Fenceable(r) ==
    /\ r.attempt = "prepared" /\ r.intent = "execution_pending"
    /\ r.job = "leased" /\ ~r.jobLapsed
    /\ r.eligible /\ Authorized(r)
    /\ r.agent \in activeAgents

\* first_fence_acquired = true.  Any later call on the attempt changes nothing
\* and returns false, so it is not an action of the ledger.
FenceFinalAction(i) ==
    /\ Fenceable(deposits[i])
    /\ deposits' = [deposits EXCEPT ![i] = Fenced(@)]
    /\ UNCHANGED <<pilot, activeAgents>>

\* Mutant: a handoff is accepted again after the first one.
AwaitsAnyHandoff(r) == r.attempt \in {"final_action_fenced", "reconciliation_required"}

AwaitsHandoff(r) ==
    /\ r.attempt = "final_action_fenced" /\ r.intent = "execution_in_progress"
    /\ r.job = "leased"

\* The holder of the lease passes its token and the modal fact it saw; crash
\* recovery has neither and must find the action window over.
RequireReconciliation(i, modal) ==
    /\ modal \in ModalFact
    /\ AwaitsHandoff(deposits[i])
    /\ modal = "null" => deposits[i].jobLapsed
    /\ deposits' = [deposits EXCEPT ![i] = HandedOff(@, modal)]
    /\ UNCHANGED <<pilot, activeAgents>>

-----------------------------------------------------------------------------
(* Observation.  One poll is one transaction of four steps: adopt a lapsed *)
(* fence without a modal fact, requeue one lapsed observation lease, send  *)
(* one whose leases are spent to review, then lease one due job.           *)

FenceLapsed(r) == AwaitsHandoff(r) /\ r.jobLapsed

Reconcilable(r) ==
    r.attempt = "reconciliation_required" /\ r.intent = "execution_reconciliation"

LeaseLapsed(r) == r.recon = "leased" /\ r.reconLapsed
\* Mutant: the last lapsed lease is requeued once more.
RetryableOnceMore(r) == LeaseLapsed(r) /\ r.leases <= LeaseLimit
\* Mutant: exhaustion waits for one lease more than there can be.
SpentTooLate(r) == LeaseLapsed(r) /\ r.leases > LeaseLimit /\ Reconcilable(r)
Retryable(r)   == LeaseLapsed(r) /\ r.leases < LeaseLimit
Spent(r)       == LeaseLapsed(r) /\ r.leases >= LeaseLimit /\ Reconcilable(r)
Due(r)         == r.recon = "queued" /\ r.leases < LeaseLimit /\ Reconcilable(r)

\* One of S, or nothing when there is none.
OneOf(S) == IF S = {} THEN {None} ELSE S

Swept(i, adopted, requeued, spent) ==
    LET r == deposits[i] IN
    CASE i = adopted  -> HandedOff(r, "null")
      [] i = requeued -> Requeued(r)
      [] i = spent    -> Exhausted(r)
      [] OTHER        -> r

DueAfter(adopted, requeued, spent) ==
    {i \in Intents : Due(Swept(i, adopted, requeued, spent))}

\* leased is None when the poll returns no row; its sweeps are kept even so.
PollReconciliation(leased) ==
    \E adopted  \in OneOf({i \in Intents : FenceLapsed(deposits[i])}),
       requeued \in OneOf({i \in Intents : Retryable(deposits[i])}),
       spent    \in OneOf({i \in Intents : Spent(deposits[i])}) :
        /\ leased \in OneOf(DueAfter(adopted, requeued, spent))
        /\ deposits' = [i \in Intents |->
                          IF i = leased
                          THEN ReconciliationLeased(Swept(i, adopted, requeued, spent))
                          ELSE Swept(i, adopted, requeued, spent)]
        /\ UNCHANGED <<pilot, activeAgents>>

\* run_after of a follow-up passes.
FollowUpDue(i) ==
    /\ deposits[i].recon = "deferred"
    /\ deposits' = [deposits EXCEPT ![i].recon = "queued"]
    /\ UNCHANGED <<pilot, activeAgents>>

\* What a reader of the agent history reports.  "exact" stands for exactly one
\* approved deposit row, inside the fence-to-handoff window, whose player,
\* amount and currency are those of the target.
Observation ==
    [kind: {"not_observed", "ambiguous"}, reference: {None}, exact: {FALSE}]
        \cup [kind: {"confirmed_executed"}, reference: References, exact: BOOLEAN]

\* Mutant: one absent observation too many.
OutcomeOneMore(r, seen) ==
    CASE /\ seen.kind = "confirmed_executed" /\ seen.exact
         /\ r.modal = "true"                              -> "confirmed_executed"
      [] /\ seen.kind = "not_observed"
         /\ r.recorded < ObservationLimit                 -> "not_observed"
      [] OTHER                                            -> "ambiguous"

Outcome(r, seen) ==
    CASE /\ seen.kind = "confirmed_executed" /\ seen.exact
         /\ r.modal = "true"                              -> "confirmed_executed"
      [] /\ seen.kind = "not_observed"
         /\ r.recorded + 1 < ObservationLimit             -> "not_observed"
      [] OTHER                                            -> "ambiguous"

\* execution_reconciliations_agent_reference_idx: a reference confirms one
\* attempt of an agent, a second insert fails and nothing is recorded.
ReferenceTaken(i, reference) ==
    \E j \in Intents \ {i} : /\ deposits[j].reference = reference
                             /\ deposits[j].agent = deposits[i].agent

Confirmed(r, reference) ==
    [Resolved(r, "confirmed_executed", "executed") EXCEPT !.reference = reference]

\* token is the attempt_count the caller was leased with for its observation.
Recordable(r, observation, token, modal) ==
    /\ Reconcilable(r)
    /\ r.recon = "leased" /\ ~r.reconLapsed
    /\ r.recorded = observation /\ r.leases = token
    /\ modal = r.modal

RecordReconciliation(i, observation, token, modal, seen) ==
    LET r == deposits[i] IN
    /\ Recordable(r, observation, token, modal)
    /\ deposits' = [deposits EXCEPT ![i] =
         CASE Outcome(r, seen) = "confirmed_executed" -> Confirmed(r, seen.reference)
           [] Outcome(r, seen) = "not_observed"       -> FollowedUp(r)
           [] Outcome(r, seen) = "ambiguous"          ->
                Resolved(r, "review_required", "execution_review")]
    /\ Outcome(r, seen) = "confirmed_executed" => ~ReferenceTaken(i, seen.reference)
    /\ UNCHANGED <<pilot, activeAgents>>

-----------------------------------------------------------------------------
(* The owner's authority over fresh work. *)

\* Mutant: arming looks at attempts, not at queued or leased jobs.
ArmOverQueuedWork(g) ==
    /\ pilot.status \in {"none", "stopped"} /\ pilot.revision < MaxRevisions
    /\ g \in activeAgents
    /\ \A i \in Intents : ~Blocking(deposits[i])
    /\ pilot' = [revision |-> pilot.revision + 1, status |-> "armed", agent |-> g]
    /\ UNCHANGED <<deposits, activeAgents>>

ArmPilot(g) ==
    /\ pilot.status \in {"none", "stopped"}
    /\ pilot.revision < MaxRevisions
    /\ g \in activeAgents
    /\ \A i \in Intents : ~ActiveWork(deposits[i]) /\ ~Blocking(deposits[i])
    /\ pilot' = [revision |-> pilot.revision + 1, status |-> "armed", agent |-> g]
    /\ UNCHANGED <<deposits, activeAgents>>

ActivateSwitches ==
    /\ pilot.status = "armed"
    /\ pilot' = [pilot EXCEPT !.status = "live"]
    /\ UNCHANGED <<deposits, activeAgents>>

\* pilot.expires_at passes: the revision stays armed, but authorizes nothing.
PilotExpires ==
    /\ pilot.status \in {"armed", "live"}
    /\ pilot' = [pilot EXCEPT !.status = "expired"]
    /\ UNCHANGED <<deposits, activeAgents>>

StopPilot ==
    /\ pilot.status \in {"armed", "live", "expired"}
    /\ pilot' = [pilot EXCEPT !.status = "stopped"]
    /\ UNCHANGED <<deposits, activeAgents>>

\* The owner sends a paid job that the stop left untouched to review.
ReviewStoppedPilotJob(i) ==
    LET r == deposits[i] IN
    /\ pilot.status = "stopped" /\ r.reservation = pilot.revision
    /\ r.job = "queued" /\ r.intent = "execution_pending" /\ r.attempt = "none"
    /\ \A j \in Intents \ {i} : ~ActiveWork(deposits[j])
    /\ deposits' = [deposits EXCEPT ![i].job = "cancelled",
                                    ![i].intent = "execution_review",
                                    ![i].reviewCase = TRUE]
    /\ UNCHANGED <<pilot, activeAgents>>

-----------------------------------------------------------------------------
(* The environment: clocks, eligibility decisions, agent status. *)

LapseExecutionLease(i) ==
    /\ deposits[i].job = "leased" /\ ~deposits[i].jobLapsed
    /\ deposits' = [deposits EXCEPT ![i].jobLapsed = TRUE]
    /\ UNCHANGED <<pilot, activeAgents>>

LapseReconciliationLease(i) ==
    /\ deposits[i].recon = "leased" /\ ~deposits[i].reconLapsed
    /\ deposits' = [deposits EXCEPT ![i].reconLapsed = TRUE]
    /\ UNCHANGED <<pilot, activeAgents>>

RevokeEligibility(i) ==
    /\ i \in Revocable /\ deposits[i].eligible
    /\ deposits' = [deposits EXCEPT ![i].eligible = FALSE]
    /\ UNCHANGED <<pilot, activeAgents>>

RetireAgent(g) ==
    /\ g \in activeAgents \cap Retirable
    /\ activeAgents' = activeAgents \ {g}
    /\ UNCHANGED <<deposits, pilot>>

-----------------------------------------------------------------------------
Init ==
    /\ deposits = [i \in Intents |-> NewRow]
    /\ pilot = [revision |-> 0, status |-> "none", agent |-> None]
    /\ activeAgents = Agents

OwnerStep ==
    \/ \E g \in Agents : ArmPilot(g)
    \/ ActivateSwitches \/ StopPilot
    \/ \E i \in Intents : ReviewStoppedPilotJob(i)

EnvironmentStep ==
    \/ PilotExpires
    \/ \E g \in Agents : RetireAgent(g)
    \/ \E i \in Intents : \/ RevokeEligibility(i) \/ FollowUpDue(i)
                          \/ LapseExecutionLease(i) \/ LapseReconciliationLease(i)

\* Any caller, any command, any observation: the workers come later.
Next ==
    \/ OwnerStep
    \/ EnvironmentStep
    \/ \E i \in Intents :
        \/ EnqueueVerifiedDeposit(i) \/ RecoverExpiredPrepared(i)
        \/ LeaseNextExecution(i) \/ CancelBeforeAction(i) \/ FenceFinalAction(i)
        \/ \E modal \in ModalFact : RequireReconciliation(i, modal)
        \/ \E seen \in Observation :
             RecordReconciliation(i, deposits[i].recorded, deposits[i].leases,
                                  deposits[i].modal, seen)
    \/ \E i \in Intents \cup {None} : PollReconciliation(i)

Spec == Init /\ [][Next]_vars

-----------------------------------------------------------------------------
(* Properties. *)

\* One blocking attempt per agent account: the shared agent's wallet and page
\* are never used for two deposits whose outcome is still open.
LaneSerialized ==
    \A i, j \in Intents :
        /\ Blocking(deposits[i]) /\ Blocking(deposits[j])
        /\ deposits[i].agent = deposits[j].agent
        => i = j

\* The rows of one deposit agree: the intent, its execution job, its attempt and
\* its observation job are in one of nine joint states.  These are what the
\* ledger's triggers demand and what the settlement replay and the executor take
\* for granted; no command may leave the database between two of them.
JointStates ==
    { <<"verified", "none", "none", "none">>,
      <<"execution_pending", "queued", "none", "none">>,
      <<"execution_pending", "leased", "prepared", "none">>,
      <<"execution_in_progress", "leased", "final_action_fenced", "none">>,
      <<"executed", "succeeded", "confirmed_executed", "succeeded">>,
      <<"execution_review", "succeeded", "review_required", "succeeded">>,
      <<"execution_review", "cancelled", "cancelled_before_action", "none">>,
      <<"execution_review", "cancelled", "none", "none">> }
    \cup ({"execution_reconciliation"} \X {"succeeded"}
            \X {"reconciliation_required"} \X {"deferred", "queued", "leased"})

DetailsAgree(r) ==
    /\ r.jobLapsed => r.job = "leased"
    /\ r.reconLapsed => r.recon = "leased"
    /\ r.attempt # "none" => r.agent \in Agents
    /\ r.recon = "none" => r.modal = "null" /\ r.recorded = 0
    /\ r.recon = "deferred" => r.leases = 0
    /\ r.recon = "leased" => r.leases > 0
    /\ r.attempt = "reconciliation_required" => r.recorded < ObservationLimit
    /\ r.attempt = "confirmed_executed" <=> r.reference \in References
    /\ r.attempt = "confirmed_executed" => r.modal = "true"
    /\ r.job = "cancelled" => r.reviewCase
    /\ r.reviewCase => r.intent = "execution_review"

Corresponds(r) ==
    <<r.intent, r.job, r.attempt, r.recon>> \in JointStates /\ DetailsAgree(r)

StatusesCorrespond == \A i \in Intents : Corresponds(deposits[i])

\* Money in motion always belongs to the revision the switches point to: when a
\* revision is armed nothing of an earlier one can still be leased, fenced or
\* observed, so a stopped revision's deposits can never be acted on again.
OnlyCurrentRevisionAtWork ==
    \A i \in Intents :
        ActiveWork(deposits[i]) \/ Blocking(deposits[i])
            => deposits[i].reservation = pilot.revision

\* Every open observation has a job that will be leased or sent to review: its
\* attempts are never all spent while it is still queued, where no poll looks.
NoStrandedObservation ==
    \A i \in Intents :
        deposits[i].recon \in {"deferred", "queued"} => deposits[i].leases < LeaseLimit

\* A prepared attempt is fenced at most once, a fenced one is never cancelled and
\* a resolved one never moves: what the attempt trigger allows is all that the
\* commands, in any order and from any caller, ever ask of it.
AttemptMoves ==
    {<<"none", "prepared">>,
     <<"prepared", "cancelled_before_action">>,
     <<"prepared", "final_action_fenced">>,
     <<"final_action_fenced", "reconciliation_required">>,
     <<"reconciliation_required", "confirmed_executed">>,
     <<"reconciliation_required", "review_required">>}

AttemptsAdvance ==
    [][\A i \in Intents :
         \/ deposits'[i].attempt = deposits[i].attempt
         \/ <<deposits[i].attempt, deposits'[i].attempt>> \in AttemptMoves]_vars

\* The handoff's modal fact is written once and the agent never changes: what
\* reconciliation later weighs is what the fenced attempt left behind.
HandoffIsFinal ==
    [][\A i \in Intents :
         /\ deposits[i].attempt # "none" => deposits'[i].agent = deposits[i].agent
         /\ deposits[i].recon # "none" => deposits'[i].modal = deposits[i].modal
         /\ deposits[i].recorded <= deposits'[i].recorded]_vars

\* A stop is final: a deposit of a stopped or superseded revision that was not
\* fenced by then is never fenced, also after the next revision is armed.
StoppedUnfenced(i) ==
    /\ deposits[i].reservation > 0
    /\ deposits[i].attempt \in {"none", "prepared", "cancelled_before_action"}
    /\ \/ deposits[i].reservation < pilot.revision
       \/ pilot.status = "stopped"

StopIsFinal == [][\A i \in Intents : StoppedUnfenced(i) => StoppedUnfenced(i)']_vars
=============================================================================
