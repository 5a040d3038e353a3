------------------------- MODULE DepositExecutorProofs -------------------------
(***************************************************************************)
(* The executor for any number of deposits, agents, workers, references    *)
(* and faults: money leaves an agent at most once for a deposit, a lane is *)
(* held while its credit may land, one process at a time is between its    *)
(* fence and its handoff, and the whole implements OneShotCredit.          *)
(***************************************************************************)
EXTENDS DepositExecutor, ExecutionLedgerProofs

PastFence == {"final_action_fenced", "reconciliation_required",
              "confirmed_executed", "review_required"}

Past(i) == deposits[i].attempt \in PastFence
Owned(i) == \E c \in credits : c.owner = i

\* A worker holds a lease, and has been granted a fence it has not handed off.
Holding == {"preparing", "cancelling", "fencing", "granted", "submitting",
            "handoff", "observing", "recording"}
Hot == {"granted", "submitting", "handoff"}

-----------------------------------------------------------------------------
(* The inductive invariant. *)

\* What a worker believes of the deposit it holds is so in the ledger and at the
\* platform, however long it was away.
InOrder(w) ==
    /\ worker[w].place \in Holding => Held(w) \in Intents
    /\ worker[w].place \in Hot => Past(Held(w))
    /\ worker[w].place = "granted" => dispatched[Held(w)] = 0
    /\ worker[w].place \in {"granted", "submitting"} => deposits[Held(w)].modal # "true"
    /\ worker[w].place = "handoff" /\ worker[w].modal = "true" => Owned(Held(w))

WorkersInOrder == \A w \in Workers : InOrder(w)

\* The first fence is granted to one call, so one worker goes on from it.
OneHolder ==
    \A v, w \in Workers :
        /\ worker[v].place \in Hot /\ worker[w].place \in Hot
        /\ Held(v) = Held(w)
        => v = w

\* What was posted was fenced, what is credited was posted, and the dialog that
\* the handoff asserts was of a credit.
MoneyInOrder ==
    \A i \in Intents :
        /\ dispatched[i] \in {0, 1}
        /\ dispatched[i] = 1 => Past(i)
        /\ i \in inflight => dispatched[i] = 1 /\ ~Owned(i)
        /\ Owned(i) => dispatched[i] = 1
        /\ deposits[i].modal = "true" => Owned(i)

ExecutorInv ==
    /\ LedgerInv /\ ExecutorTypeOK
    /\ WorkersInOrder /\ OneHolder /\ MoneyInOrder

-----------------------------------------------------------------------------
(* What a ledger command that neither fences nor asserts a dialog does to  *)
(* one deposit: it passes no fence, and it settles it or leaves it open.   *)

Verdict(r) == CASE r.intent = "executed"         -> "executed"
                [] r.intent = "execution_review" -> "review"
                [] OTHER                         -> "open"

Calm(r, s) ==
    /\ s.attempt \in PastFence <=> r.attempt \in PastFence
    /\ r.attempt \in PastFence => s.agent = r.agent
    /\ s.modal = "true" => r.modal = "true"

Still(r, s) == Calm(r, s) /\ Verdict(s) = Verdict(r)

Settles(r, s) ==
    /\ Calm(r, s) /\ Verdict(r) = "open"
    /\ \/ Verdict(s) = "review"
       \/ Verdict(s) = "executed" /\ r.modal = "true"

\* One deposit at most is settled.
CalmStep ==
    /\ deposits' = [i \in Intents |-> deposits'[i]]
    /\ \/ \A i \in Intents : Still(deposits[i], deposits'[i])
       \/ \E i \in Intents :
            /\ Settles(deposits[i], deposits'[i])
            /\ \A j \in Intents \ {i} : Still(deposits[j], deposits'[j])

LEMMA NothingMoves == ASSUME TypeOK, deposits' = deposits PROVE CalmStep
BY DEF CalmStep, Still, Calm, TypeOK

LEMMA OneRowMoves ==
    ASSUME TypeOK, NEW i \in Intents, NEW s, deposits' = [deposits EXCEPT ![i] = s],
           Still(deposits[i], s) \/ Settles(deposits[i], s)
    PROVE  CalmStep
<1>1. \A j \in Intents : deposits'[j] = IF j = i THEN s ELSE deposits[j]
  BY DEF TypeOK
<1>2. \A j \in Intents \ {i} : Still(deposits[j], deposits'[j])
  BY <1>1 DEF Still, Calm
<1>3. deposits' = [j \in Intents |-> deposits'[j]]
  BY DEF TypeOK
<1> QED BY <1>1, <1>2, <1>3 DEF CalmStep

\* Cancelling settles; leasing, enqueueing and the clocks do not.
LEMMA UnfencedRows ==
    ASSUME NEW r, RowOK(r)
    PROVE  /\ r.attempt = "prepared" => Settles(r, CancelledBeforeAction(r))
           /\ \A g : r.job = "queued" => Still(r, ExecutionLeased(r, g))
           /\ r.intent = "verified" => Still(r, Enqueued(r))
           /\ \A s : ReviewedRow(r, s) => Settles(r, s)
           /\ \A s : TickedRow(r, s) => Still(r, s)
<1> USE DEF Settles, Still, Calm, Verdict, PastFence, RowOK, Row, Joint
<1>1. r.attempt = "prepared" => Settles(r, CancelledBeforeAction(r))
  BY DEF CancelledBeforeAction
<1>2. \A g : r.job = "queued" => Still(r, ExecutionLeased(r, g))
  BY DEF ExecutionLeased
<1>3. r.intent = "verified" => Still(r, Enqueued(r))
  BY DEF Enqueued
<1>4. \A s : ReviewedRow(r, s) => Settles(r, s)
  BY DEF ReviewedRow
<1>5. \A s : TickedRow(r, s) => Still(r, s)
  BY DEF TickedRow
<1> QED BY <1>1, <1>2, <1>3, <1>4, <1>5

\* Observation settles what it confirms, finds ambiguous or gives up.
LEMMA ObservedRows ==
    ASSUME NEW r, RowOK(r)
    PROVE  /\ FenceLapsed(r) => Still(r, HandedOff(r, "null"))
           /\ Retryable(r) => Still(r, Requeued(r))
           /\ Due(r) => Still(r, ReconciliationLeased(r))
           /\ Spent(r) => Settles(r, Exhausted(r)) /\ ~Due(Exhausted(r))
           /\ \A s : ObservedRow(r, s) => Still(r, s) \/ Settles(r, s)
<1> USE DEF Settles, Still, Calm, Verdict, PastFence, RowOK, Row, Joint
<1>1. FenceLapsed(r) => Still(r, HandedOff(r, "null"))
  BY DEF FenceLapsed, AwaitsHandoff, HandedOff
<1>2. Retryable(r) => Still(r, Requeued(r))
  BY DEF Retryable, LeaseLapsed, Requeued
<1>3. Due(r) => Still(r, ReconciliationLeased(r))
  BY DEF Due, Reconcilable, ReconciliationLeased
<1>4. Spent(r) => Settles(r, Exhausted(r)) /\ ~Due(Exhausted(r))
  BY DEF Spent, LeaseLapsed, Reconcilable, Exhausted, Resolved, Due
<1>5. \A s : ObservedRow(r, s) => Still(r, s) \/ Settles(r, s)
  <2> SUFFICES ASSUME NEW s, ObservedRow(r, s) PROVE Still(r, s) \/ Settles(r, s)
    OBVIOUS
  <2>1. CASE r.modal = "true" /\ \E reference \in References : s = Confirmed(r, reference)
    BY <2>1 DEF ObservedRow, Reconcilable, Confirmed, Resolved
  <2>2. CASE s = FollowedUp(r)
    BY <2>2 DEF ObservedRow, Reconcilable, FollowedUp
  <2>3. CASE s = Resolved(r, "review_required", "execution_review")
    BY <2>3 DEF ObservedRow, Reconcilable, Resolved
  <2> QED BY <2>1, <2>2, <2>3 DEF ObservedRow
<1> QED BY <1>1, <1>2, <1>3, <1>4, <1>5

\* Two rows in a row.
LEMMA StillTwice ==
    ASSUME NEW r, NEW s, NEW t, Still(s, t)
    PROVE  /\ Still(r, s) => Still(r, t)
           /\ Settles(r, s) => Settles(r, t)
BY DEF Still, Settles, Calm

\* A poll settles at most the deposit whose leases are spent.
LEMMA PollIsCalm ==
    ASSUME LedgerInv, NEW leased \in Intents \cup {None}, PollReconciliation(leased)
    PROVE  CalmStep
<1>1. PICK adopted  \in OneOf({i \in Intents : FenceLapsed(deposits[i])}),
           requeued \in OneOf({i \in Intents : Retryable(deposits[i])}),
           spent    \in OneOf({i \in Intents : Spent(deposits[i])}) :
        /\ leased \in OneOf(DueAfter(adopted, requeued, spent))
        /\ deposits' = [i \in Intents |->
                          IF i = leased
                          THEN ReconciliationLeased(Swept(i, adopted, requeued, spent))
                          ELSE Swept(i, adopted, requeued, spent)]
  BY DEF PollReconciliation
<1>2. ASSUME NEW i \in Intents
      PROVE  IF i = spent /\ i # adopted /\ i # requeued
             THEN Settles(deposits[i], deposits'[i])
             ELSE Still(deposits[i], deposits'[i])
  <2> DEFINE r == deposits[i]
             t == Swept(i, adopted, requeued, spent)
  <2>1. i # None BY NoneAssumption
  <2>2. /\ i = adopted => FenceLapsed(r)
        /\ i = requeued => Retryable(r)
        /\ i = spent => Spent(r)
        /\ i = leased => Due(t)
    BY <1>1, <2>1 DEF OneOf, DueAfter
  <2>3. RowOK(r)
    BY DEF LedgerInv, RowsOK
  <2>4. RowOK(t)
    <3>1. SweptRow(r, t)
      BY <2>2 DEF Swept, SweptRow
    <3> QED BY <2>3, <3>1, SweptRowOK
  <2>5. Still(r, r)
    BY DEF Still, Calm
  <2>6. IF i = spent /\ i # adopted /\ i # requeued THEN Settles(r, t) ELSE Still(r, t)
    <3>0. /\ FenceLapsed(r) => ~Retryable(r) /\ ~Spent(r)
          /\ Retryable(r) => ~Spent(r)
      BY <2>3, LeaseLimitAssumption
         DEF RowOK, Row, Joint, FenceLapsed, AwaitsHandoff, Retryable, Spent, LeaseLapsed
    <3>1. CASE i = adopted
      <4>1. t = HandedOff(r, "null") BY <2>2, <3>0, <3>1 DEF Swept
      <4> QED BY <2>2, <2>3, <3>1, <4>1, ObservedRows
    <3>2. CASE i # adopted /\ i = requeued
      <4>1. t = Requeued(r) BY <2>2, <3>0, <3>2 DEF Swept
      <4> QED BY <2>2, <2>3, <3>2, <4>1, ObservedRows
    <3>3. CASE i # adopted /\ i # requeued /\ i = spent
      <4>1. t = Exhausted(r) BY <3>3 DEF Swept
      <4> QED BY <2>2, <2>3, <3>3, <4>1, ObservedRows
    <3>4. CASE i # adopted /\ i # requeued /\ i # spent
      <4>1. t = r BY <3>4 DEF Swept
      <4> QED BY <2>5, <3>4, <4>1
    <3> QED BY <3>1, <3>2, <3>3, <3>4
  <2>7. deposits'[i] = IF i = leased THEN ReconciliationLeased(t) ELSE t
    BY <1>1
  <2> HIDE DEF t
  <2>8. i = leased => Still(t, ReconciliationLeased(t))
    BY <2>2, <2>4, ObservedRows
  <2> QED BY <2>6, <2>7, <2>8, StillTwice
<1>3. deposits' = [i \in Intents |-> deposits'[i]]
  BY <1>1
<1>4. CASE \E i \in Intents : i = spent /\ i # adopted /\ i # requeued
  BY <1>2, <1>3, <1>4 DEF CalmStep
<1>5. CASE ~\E i \in Intents : i = spent /\ i # adopted /\ i # requeued
  BY <1>2, <1>3, <1>5 DEF CalmStep
<1> QED BY <1>4, <1>5

\* So does whoever records an observation.
LEMMA RecordIsCalm ==
    ASSUME LedgerInv, NEW i \in Intents, NEW observation, NEW token, NEW modal,
           NEW seen \in Observation,
           RecordReconciliation(i, observation, token, modal, seen)
    PROVE  CalmStep
<1> DEFINE r == deposits[i]
           s == CASE Outcome(r, seen) = "confirmed_executed" -> Confirmed(r, seen.reference)
                  [] Outcome(r, seen) = "not_observed"       -> FollowedUp(r)
                  [] Outcome(r, seen) = "ambiguous"          ->
                       Resolved(r, "review_required", "execution_review")
<1>1. deposits' = [deposits EXCEPT ![i] = s] /\ Reconcilable(r) /\ r.recon = "leased"
  BY DEF RecordReconciliation, Recordable
<1>2. seen.kind = "confirmed_executed" => seen.reference \in References
  BY DEF Observation
<1>3. \/ /\ Outcome(r, seen) = "confirmed_executed"
         /\ seen.kind = "confirmed_executed" /\ r.modal = "true"
      \/ Outcome(r, seen) = "not_observed" /\ r.recorded + 1 < ObservationLimit
      \/ Outcome(r, seen) = "ambiguous"
  BY DEF Outcome
<1>4. \/ /\ r.modal = "true"
         /\ \E reference \in References : s = Confirmed(r, reference)
      \/ r.recorded + 1 < ObservationLimit /\ s = FollowedUp(r)
      \/ s = Resolved(r, "review_required", "execution_review")
  BY <1>2, <1>3
<1> HIDE DEF s
<1>5. ObservedRow(r, s)
  BY <1>1, <1>4 DEF ObservedRow
<1> QED BY <1>1, <1>5, ObservedRows, OneRowMoves DEF LedgerInv, RowsOK

\* The commands on work that is not fenced yet.
LEMMA UnfencedIsCalm ==
    ASSUME LedgerInv, NEW i \in Intents,
           \/ RecoverExpiredPrepared(i) \/ CancelBeforeAction(i)
           \/ LeaseNextExecution(i) \/ EnqueueVerifiedDeposit(i)
    PROVE  CalmStep
<1>1. RowOK(deposits[i]) /\ TypeOK
  BY DEF LedgerInv, RowsOK
<1>2. CASE RecoverExpiredPrepared(i) \/ CancelBeforeAction(i)
  <2>1. /\ deposits' = [deposits EXCEPT ![i] = CancelledBeforeAction(deposits[i])]
        /\ deposits[i].attempt = "prepared"
    BY <1>2 DEF RecoverExpiredPrepared, PreparedLapsed, CancelBeforeAction
  <2> QED BY <1>1, <2>1, UnfencedRows, OneRowMoves
<1>3. CASE LeaseNextExecution(i)
  <2>1. /\ deposits' = [deposits EXCEPT ![i] = ExecutionLeased(deposits[i], pilot.agent)]
        /\ deposits[i].job = "queued"
    BY <1>1, <1>3 DEF LeaseNextExecution, Leasable, Authorized, TypeOK
  <2> QED BY <1>1, <2>1, UnfencedRows, OneRowMoves
<1>4. CASE EnqueueVerifiedDeposit(i)
  <2>1. /\ deposits' = [deposits EXCEPT ![i] = Enqueued(deposits[i])]
        /\ deposits[i].intent = "verified"
    BY <1>1, <1>4 DEF EnqueueVerifiedDeposit, TypeOK
  <2> QED BY <1>1, <2>1, UnfencedRows, OneRowMoves
<1> QED BY <1>2, <1>3, <1>4

\* The owner and the environment.
LEMMA OthersAreCalm ==
    ASSUME LedgerInv, OwnerStep \/ EnvironmentStep
    PROVE  CalmStep
<1>1. TypeOK
  BY DEF LedgerInv
<1>2. CASE deposits' = deposits
  BY <1>1, <1>2, NothingMoves
<1>3. ASSUME NEW i \in Intents,
             \/ ReviewStoppedPilotJob(i) \/ RevokeEligibility(i) \/ FollowUpDue(i)
             \/ LapseExecutionLease(i) \/ LapseReconciliationLease(i)
      PROVE  CalmStep
  <2>1. RowOK(deposits[i])
    BY DEF LedgerInv, RowsOK
  <2>2. \E s : /\ deposits' = [deposits EXCEPT ![i] = s]
               /\ ReviewedRow(deposits[i], s) \/ TickedRow(deposits[i], s)
    BY <1>1, <1>3 DEF ReviewStoppedPilotJob, ReviewedRow, RevokeEligibility, FollowUpDue,
                      LapseExecutionLease, LapseReconciliationLease, TickedRow, TypeOK
  <2>3. PICK s : /\ deposits' = [deposits EXCEPT ![i] = s]
                 /\ ReviewedRow(deposits[i], s) \/ TickedRow(deposits[i], s)
    BY <2>2
  <2>4. Still(deposits[i], s) \/ Settles(deposits[i], s)
    BY <2>1, <2>3, UnfencedRows
  <2> QED BY <1>1, <2>3, <2>4, OneRowMoves
<1> QED
  BY <1>2, <1>3 DEF OwnerStep, EnvironmentStep, ArmPilot, RetireAgent, ActivateSwitches,
                    StopPilot, PilotExpires

-----------------------------------------------------------------------------
(* The commands a worker calls are commands of the ledger. *)

LEMMA CommandsAreOfTheLedger ==
    ASSUME NEW i \in Intents
    PROVE  /\ PollReconciliation(i) => Next
           /\ \/ RecoverExpiredPrepared(i) \/ CancelBeforeAction(i)
              \/ LeaseNextExecution(i) \/ EnqueueVerifiedDeposit(i) \/ FenceFinalAction(i)
              => Next
           /\ \A modal : RequireReconciliation(i, modal) => Next
           /\ \A seen \in Observation : \A observation, token, modal :
                RecordReconciliation(i, observation, token, modal, seen) => Next
<1>1. PollReconciliation(i) => Next
  BY DEF Next
<1>2. \/ RecoverExpiredPrepared(i) \/ CancelBeforeAction(i)
      \/ LeaseNextExecution(i) \/ EnqueueVerifiedDeposit(i) \/ FenceFinalAction(i)
      => Next
  BY DEF Next
<1>3. ASSUME NEW modal, RequireReconciliation(i, modal) PROVE Next
  <2>1. modal \in ModalFact
    BY <1>3 DEF RequireReconciliation
  <2> QED BY <1>3, <2>1 DEF Next
<1>4. ASSUME NEW seen \in Observation, NEW observation, NEW token, NEW modal,
             RecordReconciliation(i, observation, token, modal, seen)
      PROVE  Next
  <2>1. /\ observation = deposits[i].recorded /\ token = deposits[i].leases
        /\ modal = deposits[i].modal
    BY <1>4 DEF RecordReconciliation, Recordable
  <2>2. RecordReconciliation(i, deposits[i].recorded, deposits[i].leases,
                             deposits[i].modal, seen)
    BY <1>4, <2>1
  <2> QED BY <2>2 DEF Next
<1> QED BY <1>1, <1>2, <1>3, <1>4

-----------------------------------------------------------------------------
(* A worker that goes on with nothing fenced in its hands. *)

Rests(w) ==
    \E state \in Worker :
        /\ worker' = [worker EXCEPT ![w] = state]
        /\ state.place \notin Hot
        /\ state.place \in Holding => state.deposit \in Intents

RestStep(w) ==
    /\ [Next]_vars /\ CalmStep
    /\ Rests(w) /\ PlatformUnchanged /\ faults' \in 0..MaxFaults

LEMMA IdleIsAState ==
    ASSUME NEW manifest \in 0..MaxRevisions
    PROVE  /\ Idle(manifest) \in Worker /\ Idle(manifest).place = "idle"
           /\ Idle(manifest).manifest = manifest
           /\ Unseen \in Observation
BY ObservationLimitAssumption, LeaseLimitAssumption
   DEF Idle, Worker, Place, ModalFact, Unseen, Observation

\* A process that returns, pauses, dies or loses its call holds nothing.
LEMMA LetGo ==
    ASSUME ExecutorTypeOK, NEW w \in Workers, NEW manifest \in 0..MaxRevisions,
           \/ Finish(w) \/ OpenCircuit(w)
           \/ Become(w, Idle(manifest))
           \/ Become(w, [Idle(worker[w].manifest) EXCEPT !.place = "down"])
    PROVE  Rests(w)
<1>1. worker[w] \in Worker /\ worker[w].manifest \in 0..MaxRevisions
  BY DEF ExecutorTypeOK, Worker
<1>2. CASE Finish(w) \/ Become(w, Idle(manifest))
  BY <1>1, <1>2, IdleIsAState DEF Finish, Become, Rests, Hot, Holding
<1>3. ASSUME NEW place \in {"paused", "down"},
             Become(w, [Idle(worker[w].manifest) EXCEPT !.place = place])
      PROVE  Rests(w)
  <2> DEFINE state == [Idle(worker[w].manifest) EXCEPT !.place = place]
  <2>1. state \in Worker /\ state.place = place
    BY <1>1, IdleIsAState DEF Worker, Place
  <2> QED BY <1>3, <2>1 DEF Become, Rests, Hot, Holding
<1> QED BY <1>2, <1>3 DEF OpenCircuit

\* A process that goes on with what it holds.
LEMMA GoesOn ==
    ASSUME ExecutorInv, NEW w \in Workers,
           NEW place \in Place \ Hot, Go(w, place),
           place \in Holding => worker[w].place \in Holding
    PROVE  Rests(w)
<1> DEFINE state == [worker[w] EXCEPT !.place = place]
<1>1. worker[w] \in Worker /\ (worker[w].place \in Holding => worker[w].deposit \in Intents)
  BY DEF ExecutorInv, ExecutorTypeOK, WorkersInOrder, InOrder, Held
<1>2. state \in Worker /\ state.place = place /\ state.deposit = worker[w].deposit
  BY <1>1 DEF Worker
<1> QED BY <1>1, <1>2 DEF Go, Become, Rests

LEMMA FaultsCounted ==
    ASSUME ExecutorTypeOK, Fault
    PROVE  faults' \in 0..MaxFaults
BY FaultsAssumption DEF ExecutorTypeOK, Fault

LEMMA LostRests ==
    ASSUME ExecutorTypeOK, NEW w \in Workers, Lost(w)
    PROVE  Rests(w) /\ faults' \in 0..MaxFaults
<1>1. 0 \in 0..MaxRevisions
  BY MaxRevisionsAssumption
<1> QED BY <1>1, LetGo, FaultsCounted DEF Lost

LEMMA FinishRests ==
    ASSUME ExecutorTypeOK, NEW w \in Workers, Finish(w) \/ OpenCircuit(w)
    PROVE  Rests(w)
<1>1. 0 \in 0..MaxRevisions
  BY MaxRevisionsAssumption
<1> QED BY <1>1, LetGo

\* Nothing changes in the ledger.
LEMMA LedgerRests ==
    ASSUME LedgerInv, UNCHANGED vars
    PROVE  [Next]_vars /\ CalmStep
BY NothingMoves DEF LedgerInv, vars

\* Polls, leases and recoveries.
LEMMA LeasingRests ==
    ASSUME ExecutorInv, NEW w \in Workers,
           \/ LeaseReconciliation(w) \/ LeaseExecution(w) \/ RecoverPrepared(w)
           \/ NothingToLease(w) \/ LeaseUnderOtherManifest(w)
    PROVE  RestStep(w)
<1> USE DEF ExecutorInv
<1>1. /\ worker[w] \in Worker /\ worker[w].manifest \in 0..MaxRevisions
      /\ faults \in 0..MaxFaults
  BY DEF ExecutorTypeOK, Worker
<1>2. CASE LeaseReconciliation(w)
  <2>1. PICK i \in Intents \cup {None} :
          /\ PollReconciliation(i)
          /\ \/ /\ IF i = None THEN Go(w, "polling") ELSE Become(w, ReconciliationLease(w, i))
                /\ UNCHANGED faults
             \/ i # None /\ Lost(w)
    BY <1>2 DEF LeaseReconciliation
  <2>2. Next /\ CalmStep
    BY <2>1, PollIsCalm DEF Next
  <2>3. Rests(w) /\ faults' \in 0..MaxFaults
    <3>1. CASE Lost(w) BY <3>1, LostRests
    <3>2. CASE Go(w, "polling") /\ UNCHANGED faults
      BY <1>1, <3>2, GoesOn DEF Place, Hot, Holding
    <3>3. CASE i \in Intents /\ Become(w, ReconciliationLease(w, i)) /\ UNCHANGED faults
      <4>1. LedgerInv'
        BY <2>2, InvInductive
      <4>2. /\ deposits'[i].recorded \in 0..ObservationLimit
            /\ deposits'[i].leases \in 0..LeaseLimit /\ deposits'[i].modal \in ModalFact
        BY <3>3, <4>1 DEF LedgerInv, TypeOK, Row
      <4> DEFINE state == ReconciliationLease(w, i)
      <4>3. state \in Worker /\ state.place = "observing" /\ state.deposit = i
        BY <1>1, <3>3, <4>2, IdleIsAState DEF ReconciliationLease, Idle, Worker, Place
      <4> HIDE DEF state
      <4>4. worker' = [worker EXCEPT ![w] = state]
        BY <3>3 DEF Become, state
      <4> QED BY <1>1, <3>3, <4>3, <4>4 DEF Rests, Hot
    <3> QED BY <2>1, <3>1, <3>2, <3>3
  <2> QED BY <1>2, <2>2, <2>3 DEF RestStep, LeaseReconciliation
<1>3. CASE LeaseExecution(w)
  <2>1. PICK i \in Intents :
          /\ LeaseNextExecution(i)
          /\ (Hold(w, i, "preparing") /\ UNCHANGED faults) \/ Lost(w)
    BY <1>3 DEF LeaseExecution
  <2>2. Next /\ CalmStep
    BY <2>1, CommandsAreOfTheLedger, UnfencedIsCalm
  <2>3. Rests(w) /\ faults' \in 0..MaxFaults
    <3>1. CASE Lost(w) BY <3>1, LostRests
    <3>2. CASE Hold(w, i, "preparing") /\ UNCHANGED faults
      <4> DEFINE state == [worker[w] EXCEPT !.place = "preparing", !.deposit = i]
      <4>1. state \in Worker /\ state.place = "preparing" /\ state.deposit = i
        BY <1>1 DEF Worker, Place
      <4> QED BY <1>1, <3>2, <4>1 DEF Hold, Become, Rests, Hot
    <3> QED BY <2>1, <3>1, <3>2
  <2> QED BY <1>3, <2>2, <2>3 DEF RestStep, LeaseExecution
<1>4. CASE LeaseUnderOtherManifest(w)
  <2>1. PICK i \in Intents : LeaseNextExecution(i)
    BY <1>4 DEF LeaseUnderOtherManifest
  <2>2. Next /\ CalmStep
    BY <2>1, CommandsAreOfTheLedger, UnfencedIsCalm
  <2> QED BY <1>1, <1>4, <2>2, FinishRests DEF RestStep, LeaseUnderOtherManifest
<1>5. CASE RecoverPrepared(w)
  <2>1. PICK i \in Intents : RecoverExpiredPrepared(i)
    BY <1>5 DEF RecoverPrepared
  <2>2. Next /\ CalmStep
    BY <2>1, CommandsAreOfTheLedger, UnfencedIsCalm
  <2> QED BY <1>1, <1>5, <2>2, FinishRests, LostRests DEF RestStep, RecoverPrepared
<1>6. CASE NothingToLease(w)
  BY <1>1, <1>6, FinishRests, LedgerRests DEF RestStep, NothingToLease
<1> QED BY <1>2, <1>3, <1>4, <1>5, <1>6

\* What is given up, refused or lost before or after the fence.
LEMMA ReturningRests ==
    ASSUME ExecutorInv, NEW w \in Workers,
           \/ Prepare(w) \/ CancelLease(w) \/ FenceRefused(w) \/ HandOffRefused(w)
           \/ CallLost(w) \/ Crash(w) \/ Restart(w) \/ Deploy(w)
    PROVE  RestStep(w)
<1> USE DEF ExecutorInv
<1>1. /\ worker[w] \in Worker /\ worker[w].manifest \in 0..MaxRevisions
      /\ faults \in 0..MaxFaults
  BY DEF ExecutorTypeOK, Worker
<1>2. CASE Prepare(w)
  <2>1. /\ Go(w, "fencing") \/ Go(w, "cancelling")
        /\ worker[w].place \in Holding
    BY <1>2 DEF Prepare, At, Holding
  <2>2. Rests(w)
    BY <2>1, GoesOn DEF Place, Hot
  <2> QED BY <1>1, <1>2, <2>2, LedgerRests DEF RestStep, Prepare
<1>3. CASE CancelLease(w)
  <2>1. Held(w) \in Intents
    BY <1>3 DEF CancelLease, At, WorkersInOrder, InOrder, Holding
  <2>2. [Next]_vars /\ CalmStep
    BY <1>3, <2>1, CommandsAreOfTheLedger, UnfencedIsCalm, LedgerRests DEF CancelLease
  <2> QED BY <1>1, <1>3, <2>2, FinishRests, LostRests DEF RestStep, CancelLease
<1>4. CASE FenceRefused(w) \/ HandOffRefused(w) \/ Restart(w)
  BY <1>1, <1>4, FinishRests, LedgerRests
     DEF RestStep, FenceRefused, HandOffRefused, Restart
<1>5. CASE CallLost(w)
  BY <1>5, LostRests, LedgerRests DEF RestStep, CallLost
<1>6. CASE Crash(w)
  BY <1>1, <1>6, LetGo, FaultsCounted, LedgerRests DEF RestStep, Crash
<1>7. CASE Deploy(w)
  <2>1. pilot.revision \in 0..MaxRevisions
    BY DEF LedgerInv, TypeOK, Pilot
  <2> QED BY <1>1, <1>7, <2>1, LetGo, LedgerRests DEF RestStep, Deploy
<1> QED BY <1>2, <1>3, <1>4, <1>5, <1>6, <1>7

\* Observing and recording.
LEMMA ObservingRests ==
    ASSUME ExecutorInv, NEW w \in Workers,
           Observe(w) \/ Record(w) \/ RecordReplayed(w) \/ RecordRefused(w)
    PROVE  RestStep(w)
<1> USE DEF ExecutorInv
<1>1. /\ worker[w] \in Worker /\ worker[w].manifest \in 0..MaxRevisions
      /\ worker[w].seen \in Observation /\ faults \in 0..MaxFaults
  BY DEF ExecutorTypeOK, Worker
<1>2. CASE Observe(w)
  <2>1. Held(w) \in Intents
    BY <1>2 DEF Observe, At, WorkersInOrder, InOrder, Holding
  <2>2. ReadHistory(Held(w), worker[w].modal) \in Observation
    <3>1. \A c \in Visible(Held(w)) : c.reference \in References
      BY DEF Visible, ExecutorTypeOK, CreditRow
    <3> QED BY <3>1, IdleIsAState DEF ReadHistory, Observation, Unseen
  <2>3. CASE Finish(w)
    BY <1>1, <1>2, <2>3, FinishRests, LedgerRests DEF RestStep, Observe
  <2>4. ASSUME NEW seen \in Observation,
               Become(w, [worker[w] EXCEPT !.place = "recording", !.seen = seen])
        PROVE  RestStep(w)
    <3> DEFINE state == [worker[w] EXCEPT !.place = "recording", !.seen = seen]
    <3>1. state \in Worker /\ state.place = "recording" /\ state.deposit = Held(w)
      BY <1>1, <2>4 DEF Worker, Place, Held
    <3>2. Rests(w)
      BY <2>1, <2>4, <3>1 DEF Become, Rests, Hot
    <3> QED BY <1>1, <1>2, <3>2, LedgerRests DEF RestStep, Observe
  <2>5. Unseen \in Observation
    BY <1>1, IdleIsAState
  <2> QED BY <1>2, <2>2, <2>3, <2>4, <2>5 DEF Observe
<1>3. CASE Record(w)
  <2>1. Held(w) \in Intents
    BY <1>3 DEF Record, At, WorkersInOrder, InOrder, Holding
  <2>2. Next /\ CalmStep
    BY <1>1, <1>3, <2>1, CommandsAreOfTheLedger, RecordIsCalm DEF Record, RecordBy
  <2> QED BY <1>1, <1>3, <2>2, FinishRests, LostRests DEF RestStep, Record
<1>4. CASE RecordReplayed(w) \/ RecordRefused(w)
  BY <1>1, <1>4, FinishRests, LedgerRests DEF RestStep, RecordReplayed, RecordRefused
<1> QED BY <1>2, <1>3, <1>4

-----------------------------------------------------------------------------
(* The invariant is inductive. *)

\* In a calm step nothing passes the fence, and no dialog is asserted.
LEMMA CalmKeeps ==
    ASSUME CalmStep, NEW i \in Intents
    PROVE  /\ Past(i)' <=> Past(i)
           /\ deposits'[i].modal = "true" => deposits[i].modal = "true"
           /\ Past(i) => deposits'[i].agent = deposits[i].agent
BY DEF CalmStep, Still, Settles, Calm, Past

LEMMA LedgerInvKept == ASSUME LedgerInv, [Next]_vars PROVE LedgerInv'
BY InvInductive

LEMMA InvUnderRest ==
    ASSUME ExecutorInv, NEW w \in Workers, RestStep(w)
    PROVE  ExecutorInv'
<1> USE DEF ExecutorInv
<1>1. PICK state \in Worker :
        /\ worker' = [worker EXCEPT ![w] = state]
        /\ state.place \notin Hot
        /\ state.place \in Holding => state.deposit \in Intents
  BY DEF RestStep, Rests
<1>2. \A v \in Workers : worker'[v] = IF v = w THEN state ELSE worker[v]
  BY <1>1 DEF ExecutorTypeOK
<1>3. /\ UNCHANGED <<dispatched, inflight, credits>> /\ faults' \in 0..MaxFaults
      /\ LedgerInv'
  BY LedgerInvKept DEF RestStep, PlatformUnchanged
<1>4. \A i \in Intents : /\ Past(i)' <=> Past(i)
                         /\ deposits'[i].modal = "true" => deposits[i].modal = "true"
  BY CalmKeeps DEF RestStep
<1>5. ExecutorTypeOK'
  BY <1>1, <1>3 DEF ExecutorTypeOK, LedgerInv
<1>6. WorkersInOrder'
  <2> SUFFICES ASSUME NEW v \in Workers PROVE InOrder(v)'
    BY DEF WorkersInOrder
  <2>1. CASE v = w
    BY <1>1, <1>2, <2>1 DEF InOrder, Hot, Held
  <2>2. CASE v # w
    <3>1. worker'[v] = worker[v] /\ Held(v)' = Held(v)
      BY <1>2, <2>2 DEF Held
    <3>2. worker[v].place \in Hot => Held(v) \in Intents
      BY DEF WorkersInOrder, InOrder, Hot, Holding
    <3>3. Past(Held(v))' <=> deposits'[Held(v)].attempt \in PastFence
      BY <3>1 DEF Past
    <3>4. Owned(Held(v))' <=> Owned(Held(v))
      BY <1>3, <3>1 DEF Owned
    <3> QED BY <1>3, <1>4, <3>1, <3>2, <3>3, <3>4 DEF WorkersInOrder, InOrder, Hot, Past
  <2> QED BY <2>1, <2>2
<1>7. OneHolder'
  BY <1>1, <1>2 DEF OneHolder, Held
<1>8. MoneyInOrder'
  BY <1>3, <1>4 DEF MoneyInOrder, Owned
<1> QED BY <1>3, <1>5, <1>6, <1>7, <1>8

\* A fence that is granted passes the fence of a deposit that was never posted.
LEMMA InvUnderFence ==
    ASSUME ExecutorInv, NEW w \in Workers, Fence(w)
    PROVE  ExecutorInv'
<1> USE DEF ExecutorInv
<1>1. /\ FenceFinalAction(Held(w)) /\ Held(w) \in Intents
      /\ UNCHANGED <<dispatched, inflight, credits>>
  BY DEF Fence, At, WorkersInOrder, InOrder, Holding, PlatformUnchanged
<1> DEFINE i == Held(w)
           r == deposits[i]
<1>2. RowOK(r) /\ r.attempt = "prepared" /\ r.recon = "none" /\ r.modal = "null"
  BY <1>1 DEF LedgerInv, RowsOK, RowOK, Joint, DetailsAgree, FenceFinalAction, Fenceable
<1>3. /\ \A j \in Intents : j # i => deposits'[j] = deposits[j]
      /\ deposits'[i].attempt = "final_action_fenced" /\ deposits'[i].modal = "null"
  <2>1. deposits' = [deposits EXCEPT ![i] = Fenced(r)]
    BY <1>1 DEF FenceFinalAction
  <2>2. Fenced(r).attempt = "final_action_fenced" /\ Fenced(r).modal = "null"
    BY <1>2 DEF Fenced, RowOK, Row
  <2> QED BY <1>1, <2>1, <2>2 DEF LedgerInv, TypeOK
<1>4. LedgerInv'
  BY <1>1, CommandsAreOfTheLedger, LedgerInvKept
<1>5. dispatched[i] = 0 /\ ~Past(i) /\ \A v \in Workers : worker[v].place \in Hot => Held(v) # i
  BY <1>1, <1>2 DEF MoneyInOrder, WorkersInOrder, InOrder, Past, PastFence
<1>6. PICK state \in Worker :
        /\ worker' = [worker EXCEPT ![w] = state] /\ faults' \in 0..MaxFaults
        /\ state.place \notin Hot \/ (state.place = "granted" /\ state.deposit = i)
        /\ state.place \in Holding => state.deposit \in Intents
  <2>1. CASE Lost(w)
    <3>1. Rests(w) /\ faults' \in 0..MaxFaults
      BY <2>1, LostRests
    <3> QED BY <3>1 DEF Rests
  <2>2. CASE Go(w, "granted") /\ UNCHANGED faults
    <3> DEFINE state == [worker[w] EXCEPT !.place = "granted"]
    <3>1. worker[w] \in Worker
      BY DEF ExecutorTypeOK
    <3>2. state \in Worker /\ state.place = "granted" /\ state.deposit = i
      BY <3>1 DEF Worker, Place, Held
    <3> QED BY <1>1, <2>2, <3>2 DEF Go, Become, ExecutorTypeOK
  <2> QED BY <2>1, <2>2 DEF Fence
<1>7. \A v \in Workers : worker'[v] = IF v = w THEN state ELSE worker[v]
  BY <1>6 DEF ExecutorTypeOK
<1>8. \A j \in Intents : Past(j)' <=> j = i \/ Past(j)
  BY <1>1, <1>3 DEF Past, PastFence
<1> HIDE DEF i
<1>9. ExecutorTypeOK'
  BY <1>1, <1>4, <1>6 DEF ExecutorTypeOK, LedgerInv
<1>10. WorkersInOrder'
  <2> SUFFICES ASSUME NEW v \in Workers PROVE InOrder(v)'
    BY DEF WorkersInOrder
  <2>1. CASE v = w
    BY <1>1, <1>3, <1>5, <1>6, <1>7, <2>1 DEF InOrder, Hot, Held, Past, PastFence
  <2>2. CASE v # w
    <3>1. worker'[v] = worker[v] /\ Held(v)' = Held(v)
      BY <1>7, <2>2 DEF Held
    <3>2. worker[v].place \in Hot => Held(v) \in Intents /\ Held(v) # i
      BY <1>5 DEF WorkersInOrder, InOrder, Hot, Holding
    <3>3. worker[v].place \in Hot => deposits'[Held(v)] = deposits[Held(v)]
      BY <1>3, <3>2
    <3>4. Past(Held(v))' <=> deposits'[Held(v)].attempt \in PastFence
      BY <3>1 DEF Past
    <3>5. Owned(Held(v))' <=> Owned(Held(v))
      BY <1>1, <3>1 DEF Owned
    <3> QED BY <1>1, <3>1, <3>2, <3>3, <3>4, <3>5 DEF WorkersInOrder, InOrder, Hot, Past
  <2> QED BY <2>1, <2>2
<1>11. OneHolder'
  BY <1>5, <1>6, <1>7 DEF OneHolder, Held, Hot
<1>12. MoneyInOrder'
  BY <1>1, <1>2, <1>3, <1>8 DEF MoneyInOrder, Owned
<1> QED BY <1>4, <1>9, <1>10, <1>11, <1>12

\* Nothing of the ledger moves: what a worker between fence and handoff does.
\* It keeps its deposit and goes to another place of the three.
LEMMA HeldOn ==
    ASSUME ExecutorInv, NEW w \in Workers, worker[w].place \in {"granted", "submitting"},
           NEW place \in {"submitting", "handoff"}, NEW modal \in ModalFact,
           worker' = [worker EXCEPT ![w] =
               [worker[w] EXCEPT !.place = place, !.modal = modal]],
           UNCHANGED <<vars, faults>>, inflight' \subseteq Intents, credits' = credits,
           dispatched' \in [Intents -> Nat],
           \A i \in Intents \ {Held(w)} : dispatched'[i] = dispatched[i],
           place = "handoff" /\ modal = "true" => Owned(Held(w))
    PROVE  LedgerInv' /\ ExecutorTypeOK' /\ WorkersInOrder' /\ OneHolder'
<1> USE DEF ExecutorInv
<1> DEFINE state == [worker[w] EXCEPT !.place = place, !.modal = modal]
<1>1. state \in Worker /\ state.place = place /\ state.modal = modal
      /\ state.deposit = Held(w)
  BY DEF ExecutorTypeOK, Worker, Place, Held
<1>2. \A v \in Workers : worker'[v] = IF v = w THEN state ELSE worker[v]
  BY DEF ExecutorTypeOK
<1>3. worker' \in [Workers -> Worker]
  BY <1>1 DEF ExecutorTypeOK
<1> HIDE DEF state
<1>4. LedgerInv' /\ TypeOK' /\ deposits' = deposits
  BY LedgerRests, LedgerInvKept DEF LedgerInv, vars
<1>5. ExecutorTypeOK'
  BY <1>3, <1>4 DEF ExecutorTypeOK
<1>6. /\ Held(w) \in Intents /\ Past(Held(w)) /\ deposits[Held(w)].modal # "true"
      /\ \A v \in Workers : v # w /\ worker[v].place \in Hot => Held(v) # Held(w)
  BY DEF WorkersInOrder, InOrder, OneHolder, Holding, Hot
<1>7. WorkersInOrder'
  <2> SUFFICES ASSUME NEW v \in Workers PROVE InOrder(v)'
    BY DEF WorkersInOrder
  <2>1. CASE v = w
    BY <1>1, <1>2, <1>4, <1>6, <2>1 DEF InOrder, Hot, Held, Past, Owned
  <2>2. CASE v # w
    <3>1. worker'[v] = worker[v] /\ Held(v)' = Held(v)
      BY <1>2, <2>2 DEF Held
    <3>2. worker[v].place \in Hot => Held(v) \in Intents \ {Held(w)}
      BY <1>6, <2>2 DEF WorkersInOrder, InOrder, Hot, Holding
    <3>3. Past(Held(v))' <=> Past(Held(v))
      BY <1>4, <3>1 DEF Past
    <3>4. Owned(Held(v))' <=> Owned(Held(v))
      BY <3>1 DEF Owned
    <3> QED BY <1>4, <3>1, <3>2, <3>3, <3>4 DEF WorkersInOrder, InOrder, Hot
  <2> QED BY <2>1, <2>2
<1>8. OneHolder'
  BY <1>1, <1>2, <1>6 DEF OneHolder, Held, Hot
<1> QED BY <1>4, <1>5, <1>7, <1>8

LEMMA InvUnderRelease ==
    ASSUME ExecutorInv, NEW w \in Workers, ReleasePost(w)
    PROVE  ExecutorInv'
<1> USE DEF ExecutorInv
<1> DEFINE i == Held(w)
<1>1. /\ worker[w] \in Worker /\ worker[w].place = "granted" /\ i \in Intents
      /\ dispatched[i] = 0 /\ Past(i) /\ deposits[i].modal # "true" /\ ~Owned(i)
  BY DEF ReleasePost, At, WorkersInOrder, InOrder, Holding, Hot, MoneyInOrder, ExecutorTypeOK
<1>2. /\ dispatched' = [dispatched EXCEPT ![i] = 1]
      /\ inflight' = inflight \cup {i} /\ UNCHANGED <<vars, credits, faults>>
  BY <1>1 DEF ReleasePost
<1>3. worker' = [worker EXCEPT ![w] =
          [worker[w] EXCEPT !.place = "submitting", !.modal = worker[w].modal]]
  <2>1. [worker[w] EXCEPT !.place = "submitting"] =
          [worker[w] EXCEPT !.place = "submitting", !.modal = worker[w].modal]
    BY <1>1 DEF Worker
  <2> QED BY <2>1 DEF ReleasePost, Go, Become
<1>4. worker[w].modal \in ModalFact
  BY <1>1 DEF Worker
<1>5. /\ dispatched' \in [Intents -> Nat] /\ dispatched'[i] = 1
      /\ \A j \in Intents \ {i} : dispatched'[j] = dispatched[j]
  BY <1>1, <1>2 DEF ExecutorTypeOK
<1>6. inflight' \subseteq Intents
  BY <1>1, <1>2 DEF ExecutorTypeOK
<1> HIDE DEF i
<1>7. LedgerInv' /\ ExecutorTypeOK' /\ WorkersInOrder' /\ OneHolder'
  BY <1>1, <1>2, <1>3, <1>4, <1>5, <1>6, HeldOn DEF i
<1>8. MoneyInOrder'
  BY <1>1, <1>2, <1>5 DEF MoneyInOrder, Owned, Past, vars
<1> QED BY <1>7, <1>8

LEMMA InvUnderAnswer ==
    ASSUME ExecutorInv, NEW w \in Workers, WithholdPost(w) \/ ReadResult(w)
    PROVE  ExecutorInv'
<1> USE DEF ExecutorInv
<1>1. /\ worker[w].place \in {"granted", "submitting"}
      /\ UNCHANGED <<vars, faults>> /\ UNCHANGED <<dispatched, inflight, credits>>
  BY DEF WithholdPost, ReadResult, At, PlatformUnchanged
<1>2. PICK modal \in ModalFact :
        HandOffWith(w, modal) /\ (modal = "true" => Owned(Held(w)))
  BY DEF WithholdPost, ReadResult, OwnCredits, Owned, ModalFact
<1>3. LedgerInv' /\ ExecutorTypeOK' /\ WorkersInOrder' /\ OneHolder'
  BY <1>1, <1>2, HeldOn DEF HandOffWith, Become, ExecutorTypeOK
<1>4. MoneyInOrder'
  BY <1>1 DEF MoneyInOrder, Owned, Past, vars
<1> QED BY <1>3, <1>4

\* Only the one who was granted the fence asserts a dialog.
LEMMA InvUnderHandOff ==
    ASSUME ExecutorInv, NEW w \in Workers, HandOff(w)
    PROVE  ExecutorInv'
<1> USE DEF ExecutorInv
<1> DEFINE i == Held(w)
           r == deposits[i]
           modal == worker[w].modal
<1>1. /\ RequireReconciliation(i, modal) /\ i \in Intents /\ worker[w].place = "handoff"
      /\ modal = "true" => Owned(i)
      /\ UNCHANGED <<dispatched, inflight, credits>>
  BY DEF HandOff, At, WorkersInOrder, InOrder, Holding, PlatformUnchanged
<1>2. RowOK(r) /\ r.attempt = "final_action_fenced"
  BY <1>1 DEF LedgerInv, RowsOK, RequireReconciliation, AwaitsHandoff
<1>3. /\ \A j \in Intents : j # i => deposits'[j] = deposits[j]
      /\ deposits'[i].attempt = "reconciliation_required" /\ deposits'[i].modal = modal
  <2>1. deposits' = [deposits EXCEPT ![i] = HandedOff(r, modal)]
    BY <1>1 DEF RequireReconciliation
  <2>2. /\ HandedOff(r, modal).attempt = "reconciliation_required"
        /\ HandedOff(r, modal).modal = modal
    BY <1>2 DEF HandedOff, RowOK, Row
  <2> QED BY <1>1, <2>1, <2>2 DEF LedgerInv, TypeOK
<1>4. LedgerInv'
  BY <1>1, CommandsAreOfTheLedger, LedgerInvKept
<1>5. Rests(w) /\ faults' \in 0..MaxFaults
  BY FinishRests, LostRests DEF HandOff, ExecutorTypeOK
<1>6. PICK state \in Worker :
        /\ worker' = [worker EXCEPT ![w] = state]
        /\ state.place \notin Hot
        /\ state.place \in Holding => state.deposit \in Intents
  BY <1>5 DEF Rests
<1>7. \A v \in Workers : worker'[v] = IF v = w THEN state ELSE worker[v]
  BY <1>6 DEF ExecutorTypeOK
<1>8. /\ \A j \in Intents : Past(j)' <=> Past(j)
      /\ \A v \in Workers : v # w /\ worker[v].place \in Hot => Held(v) # i
  BY <1>1, <1>2, <1>3 DEF Past, PastFence, OneHolder, Hot
<1> HIDE DEF i, modal
<1>9. ExecutorTypeOK'
  BY <1>1, <1>4, <1>5, <1>6 DEF ExecutorTypeOK, LedgerInv
<1>10. WorkersInOrder'
  <2> SUFFICES ASSUME NEW v \in Workers PROVE InOrder(v)'
    BY DEF WorkersInOrder
  <2>1. CASE v = w
    BY <1>6, <1>7, <2>1 DEF InOrder, Hot, Held
  <2>2. CASE v # w
    <3>1. worker'[v] = worker[v] /\ Held(v)' = Held(v)
      BY <1>7, <2>2 DEF Held
    <3>2. worker[v].place \in Hot => Held(v) \in Intents /\ Held(v) # i
      BY <1>8, <2>2 DEF WorkersInOrder, InOrder, Hot, Holding
    <3>3. worker[v].place \in Hot => deposits'[Held(v)] = deposits[Held(v)]
      BY <1>3, <3>2
    <3>4. Past(Held(v))' <=> deposits'[Held(v)].attempt \in PastFence
      BY <3>1 DEF Past
    <3>5. Owned(Held(v))' <=> Owned(Held(v))
      BY <1>1, <3>1 DEF Owned
    <3> QED BY <1>1, <3>1, <3>2, <3>3, <3>4, <3>5 DEF WorkersInOrder, InOrder, Hot, Past
  <2> QED BY <2>1, <2>2
<1>11. OneHolder'
  BY <1>6, <1>7 DEF OneHolder, Held
<1>12. MoneyInOrder'
  BY <1>1, <1>3, <1>8 DEF MoneyInOrder, Owned
<1> QED BY <1>4, <1>9, <1>10, <1>11, <1>12

\* The platform decides posts in flight, and people credit by hand.
LEMMA InvUnderPlatform ==
    ASSUME ExecutorInv, PlatformStep
    PROVE  ExecutorInv'
<1> USE DEF ExecutorInv
<1>1. UNCHANGED <<vars, worker, dispatched, faults>>
  BY DEF PlatformStep, LandCredit, RefusePost, StrayCredit
<1> DEFINE Decided ==
             /\ inflight' \subseteq inflight
             /\ credits' \subseteq CreditRow
             /\ \A i \in Intents : Owned(i) => Owned(i)'
             /\ \A i \in Intents :
                  Owned(i)' => Owned(i) \/ (i \in inflight /\ i \notin inflight')
<1>2. Decided
  <2>1. ASSUME NEW i \in Intents, LandCredit(i) PROVE Decided
    <3>1. /\ i \in inflight /\ inflight' = inflight \ {i}
      BY <2>1 DEF LandCredit
    <3>2. deposits[i].agent \in Agents
      BY <3>1 DEF MoneyInOrder, Past, PastFence, LedgerInv, RowsOK, RowOK, DetailsAgree
    <3>3. PICK reference \in References, j \in OpenWindow(deposits[i].agent) :
            credits' = credits \cup
              {[owner |-> i, agent |-> deposits[i].agent, reference |-> reference,
                during |-> j, exact |-> TRUE]}
      BY <2>1 DEF LandCredit
    <3>4. j \in Intents \cup {None}
      BY DEF OpenWindow, OneOf
    <3>5. credits' \subseteq CreditRow
      <4>1. [owner |-> i, agent |-> deposits[i].agent, reference |-> reference,
             during |-> j, exact |-> TRUE] \in CreditRow
        BY <3>2, <3>4 DEF CreditRow
      <4> QED BY <3>3, <4>1 DEF ExecutorTypeOK
    <3>6. \A k \in Intents : (Owned(k) => Owned(k)') /\ (Owned(k)' => Owned(k) \/ k = i)
      BY <3>3 DEF Owned
    <3> QED BY <3>1, <3>5, <3>6
  <2>2. ASSUME NEW i \in Intents, RefusePost(i) PROVE Decided
    BY <2>2 DEF RefusePost, ExecutorTypeOK, Owned
  <2>3. ASSUME NEW g \in Agents, StrayCredit(g) PROVE Decided
    <3>1. PICK j \in OpenWindow(g) \ {None}, reference \in References, exact \in BOOLEAN :
            credits' = credits \cup
              {[owner |-> None, agent |-> g, reference |-> reference,
                during |-> j, exact |-> exact]}
      BY <2>3 DEF StrayCredit
    <3>2. j \in Intents \cup {None} /\ inflight' = inflight
      BY <2>3 DEF OpenWindow, OneOf, StrayCredit
    <3>3. \A i \in Intents : i # None
      BY NoneAssumption
    <3> QED BY <3>1, <3>2, <3>3 DEF ExecutorTypeOK, CreditRow, Owned
  <2> QED BY <2>1, <2>2, <2>3 DEF PlatformStep
<1>3. LedgerInv' /\ TypeOK' /\ deposits' = deposits
  BY <1>1, LedgerRests, LedgerInvKept DEF LedgerInv, vars
<1>4. ExecutorTypeOK'
  BY <1>1, <1>2, <1>3 DEF ExecutorTypeOK
<1>5. WorkersInOrder'
  <2> SUFFICES ASSUME NEW v \in Workers PROVE InOrder(v)'
    BY DEF WorkersInOrder
  <2>1. worker'[v] = worker[v] /\ Held(v)' = Held(v) /\ InOrder(v)
    BY <1>1 DEF Held, WorkersInOrder
  <2>2. worker[v].place \in Hot => Held(v) \in Intents
    BY <2>1 DEF InOrder, Hot, Holding
  <2>3. Past(Held(v))' <=> Past(Held(v))
    BY <1>3, <2>1 DEF Past
  <2>4. Held(v) \in Intents /\ Owned(Held(v)) => Owned(Held(v))'
    BY <1>2, <2>1 DEF Owned
  <2> QED BY <1>1, <1>3, <2>1, <2>2, <2>3, <2>4 DEF InOrder, Hot
<1>6. OneHolder'
  BY <1>1 DEF OneHolder, Held
<1>7. MoneyInOrder'
  BY <1>1, <1>2, <1>3 DEF MoneyInOrder, Past
<1> QED BY <1>3, <1>4, <1>5, <1>6, <1>7

\* The owner, the clocks and settlement touch no worker.
LEMMA InvUnderLedger ==
    ASSUME ExecutorInv, LedgerAlone, UNCHANGED executorVars
    PROVE  ExecutorInv'
<1> USE DEF ExecutorInv
<1>1. [Next]_vars /\ CalmStep
  <2>1. ASSUME NEW i \in Intents, EnqueueVerifiedDeposit(i) PROVE [Next]_vars /\ CalmStep
    BY <2>1, CommandsAreOfTheLedger, UnfencedIsCalm
  <2>2. CASE OwnerStep \/ EnvironmentStep
    BY <2>2, OthersAreCalm DEF Next
  <2> QED BY <2>1, <2>2 DEF LedgerAlone
<1>2. /\ LedgerInv' /\ TypeOK'
      /\ UNCHANGED <<worker, dispatched, inflight, credits, faults>>
  BY <1>1, LedgerInvKept DEF LedgerInv, executorVars
<1>3. \A i \in Intents : /\ Past(i)' <=> Past(i)
                         /\ deposits'[i].modal = "true" => deposits[i].modal = "true"
  BY <1>1, CalmKeeps
<1>4. ExecutorTypeOK'
  BY <1>2 DEF ExecutorTypeOK
<1>5. WorkersInOrder'
  <2> SUFFICES ASSUME NEW v \in Workers PROVE InOrder(v)'
    BY DEF WorkersInOrder
  <2>1. worker'[v] = worker[v] /\ Held(v)' = Held(v) /\ InOrder(v)
    BY <1>2 DEF Held, WorkersInOrder
  <2>2. worker[v].place \in Hot => Held(v) \in Intents
    BY <2>1 DEF InOrder, Hot, Holding
  <2>3. Past(Held(v))' <=> deposits'[Held(v)].attempt \in PastFence
    BY <2>1 DEF Past
  <2>4. Owned(Held(v))' <=> Owned(Held(v))
    BY <1>2, <2>1 DEF Owned
  <2> QED BY <1>2, <1>3, <2>1, <2>2, <2>3, <2>4 DEF InOrder, Hot, Past
<1>6. OneHolder'
  BY <1>2 DEF OneHolder, Held
<1>7. MoneyInOrder'
  BY <1>2, <1>3 DEF MoneyInOrder, Owned
<1> QED BY <1>2, <1>4, <1>5, <1>6, <1>7

\* Every process starts paused, with nothing posted.
LEMMA ExecutorInvInitially == ExecutorInit => ExecutorInv
<1> SUFFICES ASSUME ExecutorInit PROVE ExecutorInv
  OBVIOUS
<1>1. LedgerInv /\ \A i \in Intents : deposits[i].modal = "null"
  BY InvInitially DEF ExecutorInit, Init, NewRow
<1> DEFINE state == [Idle(0) EXCEPT !.place = "paused"]
<1>2. state \in Worker /\ state.place = "paused"
  BY IdleIsAState, MaxRevisionsAssumption DEF Worker, Place
<1> HIDE DEF state
<1>3. worker = [w \in Workers |-> state]
  BY DEF ExecutorInit, state
<1>4. ExecutorTypeOK
  BY <1>1, <1>2, <1>3, FaultsAssumption DEF ExecutorTypeOK, ExecutorInit, LedgerInv
<1>5. WorkersInOrder /\ OneHolder
  BY <1>2, <1>3 DEF WorkersInOrder, InOrder, OneHolder, Hot, Holding
<1>6. MoneyInOrder
  BY <1>1 DEF MoneyInOrder, Owned, ExecutorInit
<1> QED BY <1>1, <1>4, <1>5, <1>6 DEF ExecutorInv

\* The steps of a worker that rests, and the few that do not.
LEMMA StepsOfAWorker ==
    ASSUME ExecutorInv, NEW w \in Workers,
           WorkerStep(w) \/ CallLost(w) \/ Crash(w) \/ Restart(w) \/ Deploy(w)
    PROVE  \/ RestStep(w) \/ Fence(w) \/ ReleasePost(w) \/ HandOff(w)
           \/ WithholdPost(w) \/ ReadResult(w)
<1>1. CASE WorkerStep(w)
  BY <1>1, LeasingRests, ReturningRests, ObservingRests DEF WorkerStep
<1>2. CASE CallLost(w) \/ Crash(w) \/ Restart(w) \/ Deploy(w)
  BY <1>2, ReturningRests
<1> QED BY <1>1, <1>2

LEMMA ExecutorInvInductive == ExecutorInv /\ [ExecutorNext]_allVars => ExecutorInv'
<1> SUFFICES ASSUME ExecutorInv, [ExecutorNext]_allVars PROVE ExecutorInv'
  OBVIOUS
<1>1. ASSUME NEW w \in Workers,
             WorkerStep(w) \/ CallLost(w) \/ Crash(w) \/ Restart(w) \/ Deploy(w)
      PROVE  ExecutorInv'
  BY <1>1, StepsOfAWorker, InvUnderRest, InvUnderFence, InvUnderRelease, InvUnderHandOff,
     InvUnderAnswer
<1>2. CASE PlatformStep
  BY <1>2, InvUnderPlatform
<1>3. CASE LedgerAlone /\ UNCHANGED executorVars
  BY <1>3, InvUnderLedger
<1>4. CASE UNCHANGED allVars
  BY <1>4 DEF allVars, vars, executorVars, ExecutorInv, LedgerInv, ExecutorTypeOK, TypeOK,
     RowsOK, PilotKnown, ReservationsKnown, LaneSerialized, OnlyCurrentRevisionAtWork,
     NoStrandedObservation, WorkersInOrder, InOrder, OneHolder, MoneyInOrder, Past, Owned,
     Held
<1> QED BY <1>1, <1>2, <1>3, <1>4 DEF ExecutorNext

LEMMA ExecutorInvAlways == ExecutorSpec => []ExecutorInv
BY ExecutorInvInitially, ExecutorInvInductive, PTL DEF ExecutorSpec

-----------------------------------------------------------------------------
(* Consequences: the invariants. *)

\* Workers, posts and histories always have their types.
THEOREM ExecutorTypesHold == ExecutorSpec => []ExecutorTypeOK
<1>1. ExecutorInv => ExecutorTypeOK
  BY DEF ExecutorInv
<1> QED BY <1>1, ExecutorInvAlways, PTL

\* One POST for a deposit, whatever is lost, crashes or comes late.
THEOREM OnePostEver == ExecutorSpec => []AtMostOnePost
<1>1. ExecutorInv => AtMostOnePost
  BY DEF ExecutorInv, MoneyInOrder, AtMostOnePost
<1> QED BY <1>1, ExecutorInvAlways, PTL

\* An attempt that was cancelled was never posted, and no page can still post it.
THEOREM CancelledNeverPosted == ExecutorSpec => []CancelledWasNeverPosted
<1>1. ExecutorInv => CancelledWasNeverPosted
  BY DEF ExecutorInv, MoneyInOrder, WorkersInOrder, InOrder, Past, PastFence, Hot,
         CancelledWasNeverPosted
<1> QED BY <1>1, ExecutorInvAlways, PTL

\* A deposit that may still be credited blocks its agent: if it were confirmed,
\* its credit would have been seen in the dialog.
LEMMA MayLandBlocks ==
    ASSUME ExecutorInv, NEW i \in Intents,
           \/ i \in inflight
           \/ \E w \in Workers : Held(w) = i /\ worker[w].place \in {"granted", "submitting"}
    PROVE  Blocking(deposits[i])
<1>1. Past(i) /\ deposits[i].modal # "true"
  BY DEF ExecutorInv, MoneyInOrder, WorkersInOrder, InOrder, Hot
<1>2. deposits[i].attempt # "confirmed_executed"
  BY <1>1 DEF ExecutorInv, LedgerInv, RowsOK, RowOK, DetailsAgree
<1> QED BY <1>1, <1>2 DEF Past, PastFence, Blocking, BlockingStatus

\* The lane is held while a worker may click or a post may land.
THEOREM LanesAreHeld == ExecutorSpec => []LaneHeldWhileCreditMayLand
<1>1. ExecutorInv => LaneHeldWhileCreditMayLand
  BY MayLandBlocks DEF LaneHeldWhileCreditMayLand
<1> QED BY <1>1, ExecutorInvAlways, PTL

\* One process at most is between its fence and its handoff on an agent.
THEOREM OneHand == ExecutorSpec => []OneHandOnTheAgent
<1>1. ASSUME ExecutorInv, NEW v \in Workers, NEW w \in Workers,
             worker[v].place \in {"granted", "submitting"},
             worker[w].place \in {"granted", "submitting"},
             Row_(v).agent = Row_(w).agent
      PROVE  v = w
  <2>1. Held(v) \in Intents /\ Held(w) \in Intents
    BY <1>1 DEF ExecutorInv, WorkersInOrder, InOrder, Holding
  <2>2. Blocking(deposits[Held(v)]) /\ Blocking(deposits[Held(w)])
    BY <1>1, <2>1, MayLandBlocks
  <2>3. Held(v) = Held(w)
    BY <1>1, <2>1, <2>2 DEF ExecutorInv, LedgerInv, LaneSerialized, Row_
  <2> QED BY <1>1, <2>3 DEF ExecutorInv, OneHolder, Hot
<1>2. ExecutorInv => OneHandOnTheAgent
  BY <1>1 DEF OneHandOnTheAgent
<1> QED BY <1>2, ExecutorInvAlways, PTL

-----------------------------------------------------------------------------
(* The executor implements OneShotCredit. *)

LaneOf(i) == IF PermitOf(i) = "unissued" THEN None ELSE deposits[i].agent
Credited == {c.owner : c \in credits} \ {None}

\* What of a deposit the promise sees.
Mapped ==
    \A i \in Intents :
        /\ PermitOf(i) = IF ~Past(i) THEN "unissued"
                         ELSE IF dispatched[i] = 0 THEN "issued" ELSE "used"
        /\ LaneOf(i) = IF Past(i) THEN deposits[i].agent ELSE None
        /\ VerdictOf(i) = Verdict(deposits[i])
        /\ i \in Credited <=> Owned(i)

LEMMA Maps == (ExecutorInv => Mapped) /\ (ExecutorInv' => Mapped')
<1>1. ExecutorInv => Mapped
  BY NoneAssumption
     DEF ExecutorInv, LedgerInv, TypeOK, Row, AttemptStatus, Mapped, PermitOf, LaneOf,
         VerdictOf, Verdict, Past, PastFence, Credited, Owned
<1>2. ExecutorInv' => Mapped'
  BY NoneAssumption
     DEF ExecutorInv, LedgerInv, TypeOK, Row, AttemptStatus, Mapped, PermitOf, LaneOf,
         VerdictOf, Verdict, Past, PastFence, Credited, Owned
<1> QED BY <1>1, <1>2

Unmoved(i) ==
    /\ PermitOf(i)' = PermitOf(i) /\ LaneOf(i)' = LaneOf(i) /\ VerdictOf(i)' = VerdictOf(i)

\* Nothing the promise sees moves, or one deposit's permit or verdict does.
LEMMA PromiseStutters ==
    ASSUME \A i \in Intents : Unmoved(i), Credited' = Credited
    PROVE  UNCHANGED Promise!oneShotVars
BY DEF Unmoved, LaneOf, Credited, Promise!oneShotVars

LEMMA PromiseMoves ==
    ASSUME NEW i \in Intents, \A j \in Intents \ {i} : Unmoved(j), Credited' = Credited
    PROVE  /\ /\ PermitOf(i)' = PermitOf(i) /\ LaneOf(i)' = LaneOf(i)
              /\ VerdictOf(i) = "open"
              /\ \/ VerdictOf(i)' = "review"
                 \/ VerdictOf(i)' = "executed" /\ i \in Credited
              => Promise!Refer(i) \/ Promise!Confirm(i)
           /\ /\ PermitOf(i) = "issued" /\ PermitOf(i)' = "used"
              /\ LaneOf(i)' = LaneOf(i)
              /\ VerdictOf(i) = "open" /\ VerdictOf(i)' = VerdictOf(i)
              => Promise!Use(i)
           /\ \A g \in Agents :
              /\ PermitOf(i) = "unissued" /\ PermitOf(i)' = "issued" /\ LaneOf(i)' = g
              /\ VerdictOf(i) = "open" /\ VerdictOf(i)' = VerdictOf(i)
              /\ \A j \in Intents : LaneOf(j) = g => VerdictOf(j) = "executed"
              => Promise!Issue(i, g)
<1> USE DEF Unmoved, LaneOf, Credited
<1>1. /\ PermitOf(i)' = PermitOf(i) /\ LaneOf(i)' = LaneOf(i)
      /\ VerdictOf(i) = "open"
      /\ \/ VerdictOf(i)' = "review"
         \/ VerdictOf(i)' = "executed" /\ i \in Credited
      => Promise!Refer(i) \/ Promise!Confirm(i)
  BY DEF Promise!Refer, Promise!Confirm
<1>2. /\ PermitOf(i) = "issued" /\ PermitOf(i)' = "used"
      /\ LaneOf(i)' = LaneOf(i)
      /\ VerdictOf(i) = "open" /\ VerdictOf(i)' = VerdictOf(i)
      => Promise!Use(i)
  BY DEF Promise!Use
<1>3. ASSUME NEW g \in Agents,
             PermitOf(i) = "unissued", PermitOf(i)' = "issued", LaneOf(i)' = g,
             VerdictOf(i) = "open", VerdictOf(i)' = VerdictOf(i),
             \A j \in Intents : LaneOf(j) = g => VerdictOf(j) = "executed"
      PROVE  Promise!Issue(i, g)
  BY <1>3 DEF Promise!Issue
<1> QED BY <1>1, <1>2, <1>3

\* A calm step with the platform at rest settles one deposit at most, and
\* executes it only if its credit was seen.
LEMMA CalmKeepsPromise ==
    ASSUME ExecutorInv, ExecutorInv', CalmStep, UNCHANGED <<dispatched, credits>>
    PROVE  [Promise!OneShotNext]_(Promise!oneShotVars)
<1>1. Mapped /\ Mapped'
  BY Maps
<1>2. Credited' = Credited
  BY DEF Credited
<1>3. \A i \in Intents : PermitOf(i)' = PermitOf(i) /\ LaneOf(i)' = LaneOf(i)
  BY <1>1, CalmKeeps DEF Mapped
<1>4. \A i \in Intents : Verdict(deposits'[i]) = VerdictOf(i)'
  BY <1>1 DEF Mapped
<1>5. CASE \A i \in Intents : Still(deposits[i], deposits'[i])
  <2>1. \A i \in Intents : Unmoved(i)
    BY <1>1, <1>3, <1>4, <1>5 DEF Unmoved, Still, Mapped
  <2> QED BY <1>2, <2>1, PromiseStutters
<1>6. ASSUME NEW i \in Intents, Settles(deposits[i], deposits'[i]),
             \A j \in Intents \ {i} : Still(deposits[j], deposits'[j])
      PROVE  Promise!OneShotNext
  <2>1. \A j \in Intents \ {i} : Unmoved(j)
    BY <1>1, <1>3, <1>4, <1>6 DEF Unmoved, Still, Mapped
  <2>2. deposits[i].modal = "true" => i \in Credited
    BY <1>1 DEF ExecutorInv, MoneyInOrder, Mapped
  <2>3. Promise!Refer(i) \/ Promise!Confirm(i)
    BY <1>1, <1>2, <1>3, <1>4, <1>6, <2>1, <2>2, PromiseMoves DEF Settles, Mapped
  <2> QED BY <2>3 DEF Promise!OneShotNext
<1> QED BY <1>5, <1>6 DEF CalmStep

\* The fence issues the permit, of a lane nobody else is in.
LEMMA FenceIssues ==
    ASSUME ExecutorInv, ExecutorInv', NEW w \in Workers, Fence(w)
    PROVE  Promise!OneShotNext
<1> DEFINE i == Held(w)
           r == deposits[i]
           g == r.agent
<1>1. /\ FenceFinalAction(i) /\ i \in Intents /\ UNCHANGED <<dispatched, credits>>
  BY DEF ExecutorInv, Fence, At, WorkersInOrder, InOrder, Holding, PlatformUnchanged
<1>2. RowOK(r) /\ r.attempt = "prepared" /\ r.intent = "execution_pending"
  BY <1>1 DEF ExecutorInv, LedgerInv, RowsOK, FenceFinalAction, Fenceable
<1>3. g \in Agents
  BY <1>2 DEF RowOK, DetailsAgree
<1>4. /\ \A j \in Intents \ {i} : deposits'[j] = deposits[j]
      /\ deposits'[i].attempt = "final_action_fenced" /\ deposits'[i].agent = g
      /\ deposits'[i].intent = "execution_in_progress"
  <2>1. deposits' = [deposits EXCEPT ![i] = Fenced(r)]
    BY <1>1 DEF FenceFinalAction
  <2>2. /\ Fenced(r).attempt = "final_action_fenced" /\ Fenced(r).agent = g
        /\ Fenced(r).intent = "execution_in_progress"
    BY <1>2 DEF Fenced, RowOK, Row
  <2> QED BY <1>1, <2>1, <2>2 DEF ExecutorInv, LedgerInv, TypeOK
<1>5. Mapped /\ Mapped' /\ Credited' = Credited
  BY <1>1, Maps DEF Credited
<1>6. dispatched[i] = 0 /\ ~Past(i)
  BY <1>1, <1>2 DEF ExecutorInv, MoneyInOrder, Past, PastFence
<1> HIDE DEF i
<1>7. PICK j \in Intents : j = i
  BY <1>1
<1>8. PICK h \in Agents : h = g
  BY <1>3
<1> HIDE DEF g
<1>9. \A k \in Intents \ {j} : Unmoved(k)
  <2>1. \A k \in Intents \ {j} : (Past(k)' <=> Past(k))
    BY <1>4, <1>7 DEF Past
  <2> QED BY <1>1, <1>4, <1>5, <1>7, <2>1 DEF Unmoved, Mapped
<1>10. /\ PermitOf(j) = "unissued" /\ PermitOf(j)' = "issued" /\ LaneOf(j)' = h
      /\ VerdictOf(j) = "open" /\ VerdictOf(j)' = VerdictOf(j)
  <2>1. Past(j)'
    BY <1>4, <1>7 DEF Past, PastFence
  <2>2. Verdict(r) = "open" /\ Verdict(deposits'[j]) = "open"
    BY <1>2, <1>4, <1>7 DEF Verdict
  <2> QED BY <1>1, <1>4, <1>5, <1>6, <1>7, <1>8, <2>1, <2>2 DEF Mapped
<1>11. ASSUME NEW k \in Intents, LaneOf(k) = h PROVE VerdictOf(k) = "executed"
  <2>1. Past(k) /\ deposits[k].agent = g
    BY <1>3, <1>5, <1>11, <1>8, NoneAssumption DEF Mapped
  <2>2. k # i
    BY <1>6, <1>7, <2>1
  <2>3. ~Blocking(deposits[k])
    BY <1>2, <1>7, <2>1, <2>2
       DEF g, ExecutorInv, LedgerInv, LaneSerialized, Blocking, BlockingStatus
  <2>4. deposits[k].attempt = "confirmed_executed"
    BY <2>1, <2>3 DEF Past, PastFence, Blocking, BlockingStatus
  <2>5. deposits[k].intent = "executed"
    BY <2>4 DEF ExecutorInv, LedgerInv, RowsOK, RowOK, Joint
  <2> QED BY <1>5, <2>5 DEF Mapped, Verdict
<1>12. Promise!Issue(j, h)
  BY <1>5, <1>9, <1>10, <1>11, PromiseMoves
<1> QED BY <1>12 DEF Promise!OneShotNext

\* The released POST uses it.
LEMMA ReleaseUses ==
    ASSUME ExecutorInv, ExecutorInv', NEW w \in Workers, ReleasePost(w)
    PROVE  Promise!OneShotNext
<1> DEFINE i == Held(w)
<1>1. /\ i \in Intents /\ Past(i) /\ dispatched[i] = 0 /\ AwaitsHandoff(deposits[i])
      /\ dispatched' = [dispatched EXCEPT ![i] = @ + 1]
      /\ deposits' = deposits /\ credits' = credits
  BY DEF ExecutorInv, ReleasePost, At, WorkersInOrder, InOrder, Holding, Hot, Row_, vars
<1>2. Mapped /\ Mapped' /\ Credited' = Credited
  BY <1>1, Maps DEF Credited
<1> HIDE DEF i
<1>3. PICK j \in Intents : j = i
  BY <1>1
<1>4. /\ \A k \in Intents : Past(k)' <=> Past(k)
      /\ \A k \in Intents \ {j} : dispatched'[k] = dispatched[k]
      /\ dispatched'[j] = 1
  BY <1>1, <1>3 DEF Past, ExecutorInv, ExecutorTypeOK
<1>5. \A k \in Intents \ {j} : Unmoved(k)
  BY <1>1, <1>2, <1>4 DEF Unmoved, Mapped
<1>6. /\ PermitOf(j) = "issued" /\ PermitOf(j)' = "used" /\ LaneOf(j)' = LaneOf(j)
      /\ VerdictOf(j) = "open" /\ VerdictOf(j)' = VerdictOf(j)
  <2>1. Verdict(deposits[j]) = "open"
    BY <1>1, <1>3 DEF Verdict, AwaitsHandoff
  <2> QED BY <1>1, <1>2, <1>3, <1>4, <2>1 DEF Mapped
<1>7. Promise!Use(j)
  BY <1>2, <1>5, <1>6, PromiseMoves
<1> QED BY <1>7 DEF Promise!OneShotNext

\* The handoff settles nothing.
LEMMA HandOffKeepsPromise ==
    ASSUME ExecutorInv, ExecutorInv', NEW w \in Workers, HandOff(w)
    PROVE  UNCHANGED Promise!oneShotVars
<1> DEFINE i == Held(w)
           r == deposits[i]
           s == HandedOff(r, worker[w].modal)
<1>1. /\ i \in Intents /\ AwaitsHandoff(r) /\ deposits' = [deposits EXCEPT ![i] = s]
      /\ UNCHANGED <<dispatched, credits>>
  BY DEF ExecutorInv, HandOff, RequireReconciliation, At, WorkersInOrder, InOrder, Holding,
         PlatformUnchanged
<1>2. /\ r.attempt \in PastFence /\ s.attempt \in PastFence /\ s.agent = r.agent
      /\ Verdict(r) = "open" /\ Verdict(s) = "open"
  BY <1>1 DEF ExecutorInv, LedgerInv, RowsOK, RowOK, Row, AwaitsHandoff, HandedOff, Verdict,
              PastFence
<1> HIDE DEF i, s
<1>3. \A k \in Intents : deposits'[k] = IF k = i THEN s ELSE deposits[k]
  BY <1>1 DEF ExecutorInv, LedgerInv, TypeOK
<1>4. Mapped /\ Mapped' /\ Credited' = Credited
  BY <1>1, Maps DEF Credited
<1>5. \A k \in Intents : (Past(k)' <=> Past(k)) /\ deposits'[k].agent = deposits[k].agent
                         /\ Verdict(deposits'[k]) = Verdict(deposits[k])
  BY <1>2, <1>3 DEF Past
<1>6. \A k \in Intents : Unmoved(k)
  BY <1>1, <1>4, <1>5 DEF Unmoved, Mapped
<1> QED BY <1>4, <1>6, PromiseStutters

\* The platform credits what was posted, once; a credit by hand is no deposit's.
LEMMA PlatformKeepsPromise ==
    ASSUME ExecutorInv, ExecutorInv', PlatformStep
    PROVE  [Promise!OneShotNext]_(Promise!oneShotVars)
<1>1. UNCHANGED <<deposits, dispatched>>
  BY DEF PlatformStep, LandCredit, RefusePost, StrayCredit, vars
<1>2. Mapped /\ Mapped'
  BY Maps
<1>3. \A i \in Intents : Past(i)' <=> Past(i)
  BY <1>1 DEF Past
<1>4. \A i \in Intents : Unmoved(i)
  BY <1>1, <1>2, <1>3 DEF Unmoved, Mapped
<1>5. ASSUME NEW i \in Intents, LandCredit(i) PROVE Promise!OneShotNext
  <2>1. i \in inflight /\ i # None
    BY <1>5, NoneAssumption DEF LandCredit
  <2>2. PermitOf(i) = "used" /\ i \notin Credited
    BY <1>2, <2>1 DEF ExecutorInv, MoneyInOrder, Mapped
  <2>3. PICK c : c.owner = i /\ credits' = credits \cup {c}
    BY <1>5 DEF LandCredit
  <2>4. Credited' = Credited \cup {i}
    BY <2>1, <2>3 DEF Credited
  <2>5. Promise!Credit(i)
    BY <1>4, <2>2, <2>4 DEF Promise!Credit, Unmoved, LaneOf, Credited
  <2> QED BY <2>5 DEF Promise!OneShotNext
<1>6. ASSUME NEW i \in Intents, RefusePost(i) PROVE UNCHANGED Promise!oneShotVars
  <2>1. Credited' = Credited
    BY <1>6 DEF RefusePost, Credited
  <2> QED BY <1>4, <2>1, PromiseStutters
<1>7. ASSUME NEW g \in Agents, StrayCredit(g) PROVE UNCHANGED Promise!oneShotVars
  <2>1. PICK c : c.owner = None /\ credits' = credits \cup {c}
    BY <1>7 DEF StrayCredit
  <2>2. Credited' = Credited
    BY <2>1 DEF Credited
  <2> QED BY <1>4, <2>2, PromiseStutters
<1> QED BY <1>5, <1>6, <1>7 DEF PlatformStep

\* Nothing at all moves.
LEMMA IdleKeepsPromise ==
    ASSUME ExecutorInv, ExecutorInv', UNCHANGED <<deposits, dispatched, credits>>
    PROVE  UNCHANGED Promise!oneShotVars
<1>1. Mapped /\ Mapped' /\ Credited' = Credited
  BY Maps DEF Credited
<1>2. \A i \in Intents : Past(i)' <=> Past(i)
  BY DEF Past
<1>3. \A i \in Intents : Unmoved(i)
  BY <1>1, <1>2 DEF Unmoved, Mapped
<1> QED BY <1>1, <1>3, PromiseStutters

LEMMA StepKeepsPromise ==
    ASSUME ExecutorInv, ExecutorInv', [ExecutorNext]_allVars
    PROVE  [Promise!OneShotNext]_(Promise!oneShotVars)
<1>1. ASSUME NEW w \in Workers,
             WorkerStep(w) \/ CallLost(w) \/ Crash(w) \/ Restart(w) \/ Deploy(w)
      PROVE  [Promise!OneShotNext]_(Promise!oneShotVars)
  <2>1. CASE RestStep(w)
    BY <2>1, CalmKeepsPromise DEF RestStep, PlatformUnchanged
  <2>2. CASE WithholdPost(w) \/ ReadResult(w)
    BY <2>2, IdleKeepsPromise DEF WithholdPost, ReadResult, PlatformUnchanged, vars
  <2> QED BY <1>1, <2>1, <2>2, StepsOfAWorker, FenceIssues, ReleaseUses, HandOffKeepsPromise
<1>2. CASE PlatformStep
  BY <1>2, PlatformKeepsPromise
<1>3. CASE LedgerAlone /\ UNCHANGED executorVars
  <2>1. CalmStep
    BY <1>3, UnfencedIsCalm, OthersAreCalm DEF ExecutorInv, LedgerAlone
  <2> QED BY <1>3, <2>1, CalmKeepsPromise DEF executorVars
<1>4. CASE UNCHANGED allVars
  BY <1>4, IdleKeepsPromise DEF allVars, vars, executorVars
<1> QED BY <1>1, <1>2, <1>3, <1>4 DEF ExecutorNext

\* What the executor does, with its lost calls, crashes, late credits and
\* credits by hand, is what OneShotCredit allows: a permit is issued once and
\* used once, and only a deposit with its own credit is called executed.
THEOREM PromiseIsKept == ExecutorSpec => KeepsPromise
<1>1. ExecutorInit => Promise!OneShotInit
  BY DEF ExecutorInit, Init, NewRow, Promise!OneShotInit, PermitOf, VerdictOf
<1>2. ExecutorInv /\ ExecutorInv' /\ [ExecutorNext]_allVars
        => [Promise!OneShotNext]_(Promise!oneShotVars)
  BY StepKeepsPromise
<1> QED BY <1>1, <1>2, ExecutorInvAlways, PTL
           DEF ExecutorSpec, KeepsPromise, Promise!OneShotSpec
=============================================================================
