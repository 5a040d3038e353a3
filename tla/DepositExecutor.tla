--------------------------- MODULE DepositExecutor ---------------------------
(***************************************************************************)
(* The executor processes around the ledger: each worker's runOnce, one    *)
(* awaited call at a time, its runner's circuit, the KemerBet page and the *)
(* betting platform behind it.                                             *)
(*                                                                         *)
(* A database call is one ledger action.  Its reply may be lost, or the    *)
(* call itself, and then the worker knows nothing; a worker may crash      *)
(* between any two awaits and loses all it held.  A POST that was released *)
(* to the platform lands, or is refused, whenever the platform gets to it. *)
(***************************************************************************)
EXTENDS ExecutionLedger

CONSTANTS
    Workers,              \* executor processes
    MaxFaults,            \* bound: crashes and lost calls or replies together
    MaxStrayCredits       \* bound: credits made by hand from an agent account

ASSUME FaultsAssumption == MaxFaults \in Nat

VARIABLES
    worker,               \* where each worker is and what it holds
    dispatched,           \* POSTs released so far for each deposit
    inflight,             \* deposits whose POST the platform has not decided
    credits,              \* the agents' transfer histories
    faults

executorVars == <<worker, dispatched, inflight, credits, faults>>
allVars == <<vars, executorVars>>

\* The awaits of one runOnce, plus the open circuit and the dead process.
Place == {"idle", "polling", "preparing", "cancelling", "fencing", "granted",
          "submitting", "handoff", "observing", "recording", "paused", "down"}

Unseen == [kind |-> "not_observed", reference |-> None, exact |-> FALSE]

\* One local record serves both kinds of lease.
Worker == [place: Place,
           manifest: 0..MaxRevisions,        \* the pilot manifest it started with
           deposit: Intents \cup {None},     \* of the lease it holds
           observation: 0..ObservationLimit, \* of a reconciliation lease
           token: 0..LeaseLimit,
           modal: ModalFact,
           seen: Observation]

\* during is the deposit whose fence-to-handoff window contains the credit.
CreditRow == [owner: Intents \cup {None}, agent: Agents, reference: References,
              during: Intents \cup {None}, exact: BOOLEAN]

ExecutorTypeOK ==
    /\ TypeOK
    /\ worker \in [Workers -> Worker]
    /\ dispatched \in [Intents -> Nat]
    /\ inflight \subseteq Intents
    /\ credits \subseteq CreditRow
    /\ faults \in 0..MaxFaults

Idle(manifest) ==
    [place |-> "idle", manifest |-> manifest, deposit |-> None, observation |-> 0,
     token |-> 0, modal |-> "null", seen |-> Unseen]

At(w, place) == worker[w].place = place
Held(w) == worker[w].deposit
Row_(w) == deposits[Held(w)]

Become(w, state) == worker' = [worker EXCEPT ![w] = state]
Go(w, place) == Become(w, [worker[w] EXCEPT !.place = place])
\* runOnce returned or threw: nothing of it is remembered.
Finish(w) == Become(w, Idle(worker[w].manifest))
\* runner: the result opens the circuit, the loop waits for an explicit stop.
OpenCircuit(w) == Become(w, [Idle(worker[w].manifest) EXCEPT !.place = "paused"])

PlatformUnchanged == UNCHANGED <<dispatched, inflight, credits>>
Fault == faults < MaxFaults /\ faults' = faults + 1

\* A call whose reply never arrives throws; so does one that never got there.
Lost(w) == Finish(w) /\ Fault

-----------------------------------------------------------------------------
(* Leasing: reconciliation first, then fresh work. *)

ReconciliationLease(w, i) ==
    [Idle(worker[w].manifest) EXCEPT
        !.place = "observing", !.deposit = i, !.observation = deposits'[i].recorded,
        !.token = deposits'[i].leases, !.modal = deposits'[i].modal]

LeaseReconciliation(w) ==
    /\ At(w, "idle")
    /\ \E i \in Intents \cup {None} :
        /\ PollReconciliation(i)
        /\ \/ /\ IF i = None THEN Go(w, "polling") ELSE Become(w, ReconciliationLease(w, i))
              /\ UNCHANGED faults
           \/ i # None /\ Lost(w)
    /\ PlatformUnchanged

Hold(w, i, place) == Become(w, [worker[w] EXCEPT !.place = place, !.deposit = i])

LeaseExecution(w) ==
    /\ At(w, "polling")
    /\ \E i \in Intents :
        /\ LeaseNextExecution(i)
        /\ worker[w].manifest = deposits[i].reservation
        /\ (Hold(w, i, "preparing") /\ UNCHANGED faults) \/ Lost(w)
    /\ PlatformUnchanged

\* The lease is taken, but its pilot authorization is not the one this process
\* was started for: the adapter throws, and the lease is left to lapse.
LeaseUnderOtherManifest(w) ==
    /\ At(w, "polling")
    /\ \E i \in Intents :
        /\ LeaseNextExecution(i)
        /\ worker[w].manifest # deposits[i].reservation
    /\ Finish(w)
    /\ UNCHANGED faults /\ PlatformUnchanged

RecoverPrepared(w) ==
    /\ At(w, "polling")
    /\ \E i \in Intents : RecoverExpiredPrepared(i)
    /\ (OpenCircuit(w) /\ UNCHANGED faults) \/ Lost(w)
    /\ PlatformUnchanged

NothingToLease(w) ==
    /\ At(w, "polling")
    /\ \A i \in Intents : ~PreparedLapsed(deposits[i]) /\ ~Leasable(deposits[i])
    /\ Finish(w)
    /\ UNCHANGED <<vars, faults>> /\ PlatformUnchanged

-----------------------------------------------------------------------------
(* Before the fence: prepare the page, or give the lease up. *)

\* Session, lookup, fill and readback succeeded and the lease is current, or
\* any of them did not.
Prepare(w) ==
    /\ At(w, "preparing")
    /\ \/ ~Row_(w).jobLapsed /\ Go(w, "fencing")
       \/ Go(w, "cancelling")
    /\ UNCHANGED <<vars, faults>> /\ PlatformUnchanged

\* A lease another worker already recovered replays as cancelled.
CancelLease(w) ==
    /\ At(w, "cancelling")
    /\ \/ CancelBeforeAction(Held(w))
       \/ Row_(w).attempt = "cancelled_before_action" /\ UNCHANGED vars
    /\ (OpenCircuit(w) /\ UNCHANGED faults) \/ Lost(w)
    /\ PlatformUnchanged

\* A reply that is lost here is fatal to the attempt, not to the money: the
\* fence call is outside the try block, so the worker never learns it may act.
Fence(w) ==
    /\ At(w, "fencing")
    /\ FenceFinalAction(Held(w))
    /\ (Go(w, "granted") /\ UNCHANGED faults) \/ Lost(w)
    /\ PlatformUnchanged

FenceRefused(w) ==
    /\ At(w, "fencing")
    /\ ~Fenceable(Row_(w))
    /\ Finish(w)
    /\ UNCHANGED <<vars, faults>> /\ PlatformUnchanged

-----------------------------------------------------------------------------
(* After the fence: one POST at most, then the handoff, whatever happened. *)

\* Mutant: a click without an answer is made again.
ReleasePostAgain(w) ==
    /\ At(w, "granted")
    /\ AwaitsHandoff(Row_(w)) /\ ~Row_(w).jobLapsed
    /\ dispatched' = [dispatched EXCEPT ![Held(w)] = @ + 1]
    /\ inflight' = inflight \cup {Held(w)}
    /\ Go(w, "submitting") \/ Go(w, "granted")
    /\ UNCHANGED <<vars, credits, faults>>

\* The route handler releases the POST only while the ten seconds measured on
\* the worker's monotonic clock from before the fence call have not passed;
\* they end no later than the lease the fence wrote.
ReleasePost(w) ==
    /\ At(w, "granted")
    /\ AwaitsHandoff(Row_(w)) /\ ~Row_(w).jobLapsed
    /\ dispatched' = [dispatched EXCEPT ![Held(w)] = @ + 1]
    /\ inflight' = inflight \cup {Held(w)}
    /\ Go(w, "submitting")
    /\ UNCHANGED <<vars, credits, faults>>

HandOffWith(w, modal) ==
    Become(w, [worker[w] EXCEPT !.place = "handoff", !.modal = modal])

\* Stale authority, page drift or a click that failed: no POST, no modal fact.
WithholdPost(w) ==
    /\ At(w, "granted")
    /\ HandOffWith(w, "false")
    /\ UNCHANGED <<vars, faults>> /\ PlatformUnchanged

OwnCredits(i) == {c \in credits : c.owner = i}

\* Mutant: an answered POST counts as this player's credit.
ReadAnyResult(w) ==
    /\ At(w, "submitting")
    /\ HandOffWith(w, "true") \/ HandOffWith(w, "false")
    /\ UNCHANGED <<vars, faults>> /\ PlatformUnchanged

\* The result dialog shows this player and this amount, or nothing of use.
ReadResult(w) ==
    /\ At(w, "submitting")
    /\ \/ OwnCredits(Held(w)) # {} /\ HandOffWith(w, "true")
       \/ HandOffWith(w, "false")
    /\ UNCHANGED <<vars, faults>> /\ PlatformUnchanged

\* Errors of the handoff are swallowed: crash recovery will adopt the fence.
HandOff(w) ==
    /\ At(w, "handoff")
    /\ RequireReconciliation(Held(w), worker[w].modal)
    /\ (Finish(w) /\ UNCHANGED faults) \/ Lost(w)
    /\ PlatformUnchanged

HandOffRefused(w) ==
    /\ At(w, "handoff")
    /\ ~AwaitsHandoff(Row_(w))
    /\ Finish(w)
    /\ UNCHANGED <<vars, faults>> /\ PlatformUnchanged

-----------------------------------------------------------------------------
(* Observation of the agent history. *)

Visible(i) == {c \in credits : c.during = i /\ c.agent = deposits[i].agent}

\* Approved rows of the target player in the window; "exact" rows also match
\* operation, amount and currency.
ReadHistory(i, modal) ==
    LET rows == Visible(i) IN
    IF rows = {} THEN Unseen
    ELSE IF Cardinality(rows) = 1 /\ modal = "true" /\ \A c \in rows : c.exact
    THEN [kind |-> "confirmed_executed", exact |-> TRUE,
          reference |-> (CHOOSE c \in rows : TRUE).reference]
    ELSE [Unseen EXCEPT !.kind = "ambiguous"]

Observe(w) ==
    /\ At(w, "observing")
    /\ IF Row_(w).reconLapsed
       THEN Finish(w)
       ELSE \E seen \in {ReadHistory(Held(w), worker[w].modal), Unseen} :
              Become(w, [worker[w] EXCEPT !.place = "recording", !.seen = seen])
    /\ UNCHANGED <<vars, faults>> /\ PlatformUnchanged

RecordBy(w) ==
    RecordReconciliation(Held(w), worker[w].observation, worker[w].token,
                         worker[w].modal, worker[w].seen)

Record(w) ==
    /\ At(w, "recording")
    /\ RecordBy(w)
    /\ \/ /\ IF Outcome(Row_(w), worker[w].seen) = "ambiguous"
             THEN OpenCircuit(w) ELSE Finish(w)
          /\ UNCHANGED faults
       \/ Lost(w)
    /\ PlatformUnchanged

\* The job of this lease was settled by somebody else: the command replays what
\* was recorded for it, with the statuses of now.  Only an ambiguous outcome that
\* still stands is an answer the worker stops for; one it cannot place throws.
ReplaysAmbiguous(r, observation) ==
    r.attempt = "review_required" /\ r.recorded = observation + 1

RecordReplayed(w) ==
    /\ At(w, "recording")
    /\ Row_(w).recorded > worker[w].observation
    /\ IF ReplaysAmbiguous(Row_(w), worker[w].observation)
       THEN OpenCircuit(w) ELSE Finish(w)
    /\ UNCHANGED <<vars, faults>> /\ PlatformUnchanged

\* The lease is no longer this worker's, or the reference is already taken.
RecordRefused(w) ==
    /\ At(w, "recording")
    /\ Row_(w).recorded = worker[w].observation
    /\ \/ ~Recordable(Row_(w), worker[w].observation, worker[w].token, worker[w].modal)
       \/ ReferenceTaken(Held(w), worker[w].seen.reference)
    /\ Finish(w)
    /\ UNCHANGED <<vars, faults>> /\ PlatformUnchanged

-----------------------------------------------------------------------------
(* Processes. *)

\* A call that never reached the database.
CallLost(w) ==
    /\ worker[w].place \in {"idle", "polling", "cancelling", "fencing",
                            "handoff", "recording"}
    /\ Lost(w)
    /\ UNCHANGED vars /\ PlatformUnchanged

Crash(w) ==
    /\ ~At(w, "down")
    /\ Become(w, [Idle(worker[w].manifest) EXCEPT !.place = "down"])
    /\ Fault
    /\ UNCHANGED vars /\ PlatformUnchanged

\* The container is restarted as it was; an open circuit is not remembered.
Restart(w) ==
    /\ At(w, "down")
    /\ Finish(w)
    /\ UNCHANGED <<vars, faults>> /\ PlatformUnchanged

\* The operator starts a process, or one whose circuit opened, anew with the
\* manifest of the current revision.
Deploy(w) ==
    /\ At(w, "paused")
    /\ pilot.revision > 0
    /\ Become(w, Idle(pilot.revision))
    /\ UNCHANGED <<vars, faults>> /\ PlatformUnchanged

-----------------------------------------------------------------------------
(* The platform. *)

Fresh(reference) == \A c \in credits : c.reference # reference

\* The deposit whose window on this agent is open now, if any.
OpenWindow(g) ==
    OneOf({i \in Intents : AwaitsHandoff(deposits[i]) /\ deposits[i].agent = g})

LandCredit(i) ==
    /\ i \in inflight
    /\ inflight' = inflight \ {i}
    /\ \E reference \in References, j \in OpenWindow(deposits[i].agent) :
        /\ Fresh(reference)
        /\ credits' = credits \cup
             {[owner |-> i, agent |-> deposits[i].agent, reference |-> reference,
               during |-> j, exact |-> TRUE]}
    /\ UNCHANGED <<vars, worker, dispatched, faults>>

RefusePost(i) ==
    /\ i \in inflight
    /\ inflight' = inflight \ {i}
    /\ UNCHANGED <<vars, worker, dispatched, credits, faults>>

\* Somebody credits the same player by hand from the same agent account while a
\* fenced deposit is open; the amount may be the same.
StrayCredit(g) ==
    /\ Cardinality({c \in credits : c.owner = None}) < MaxStrayCredits
    /\ \E j \in OpenWindow(g) \ {None}, reference \in References, exact \in BOOLEAN :
        /\ Fresh(reference)
        /\ credits' = credits \cup
             {[owner |-> None, agent |-> g, reference |-> reference,
               during |-> j, exact |-> exact]}
    /\ UNCHANGED <<vars, worker, dispatched, inflight, faults>>

-----------------------------------------------------------------------------
ExecutorInit ==
    /\ Init
    /\ worker = [w \in Workers |-> [Idle(0) EXCEPT !.place = "paused"]]
    /\ dispatched = [i \in Intents |-> 0]
    /\ inflight = {} /\ credits = {} /\ faults = 0

\* What a worker does next by itself.
WorkerStep(w) ==
    \/ LeaseReconciliation(w) \/ LeaseExecution(w) \/ RecoverPrepared(w)
    \/ NothingToLease(w) \/ LeaseUnderOtherManifest(w)
    \/ Prepare(w) \/ CancelLease(w)
    \/ Fence(w) \/ FenceRefused(w) \/ ReleasePost(w) \/ WithholdPost(w)
    \/ ReadResult(w) \/ HandOff(w) \/ HandOffRefused(w)
    \/ Observe(w) \/ Record(w) \/ RecordReplayed(w) \/ RecordRefused(w)

PlatformStep ==
    \/ \E i \in Intents : LandCredit(i) \/ RefusePost(i)
    \/ \E g \in Agents : StrayCredit(g)

LedgerAlone == OwnerStep \/ EnvironmentStep \/ \E i \in Intents : EnqueueVerifiedDeposit(i)

ExecutorNext ==
    \/ \E w \in Workers : WorkerStep(w) \/ CallLost(w) \/ Crash(w) \/ Restart(w) \/ Deploy(w)
    \/ PlatformStep
    \/ LedgerAlone /\ UNCHANGED executorVars

ExecutorSpec == ExecutorInit /\ [][ExecutorNext]_allVars

-----------------------------------------------------------------------------
(* Safety. *)

\* Money leaves an agent at most once for a deposit, across lost replies,
\* crashes, restarts and stale workers: the first fence is granted to one call.
AtMostOnePost == \A i \in Intents : dispatched[i] <= 1

\* A deposit that was given up before the fence was never posted: whoever cancels
\* an attempt, no page is left that may still click.
CancelledWasNeverPosted ==
    \A i \in Intents :
        deposits[i].attempt \in {"none", "prepared", "cancelled_before_action"} =>
            /\ dispatched[i] = 0
            /\ \A w \in Workers : Held(w) = i => worker[w].place \notin {"granted", "submitting"}

\* The agent's lane stays closed for as long as a worker may still click or a
\* POST may still land, even when its attempt went to review long before.
LaneHeldWhileCreditMayLand ==
    \A i \in Intents :
        \/ i \in inflight
        \/ \E w \in Workers : Held(w) = i /\ worker[w].place \in {"granted", "submitting"}
        => Blocking(deposits[i])

\* At most one process is between its fence and its handoff on an agent account.
OneHandOnTheAgent ==
    \A v, w \in Workers :
        /\ worker[v].place \in {"granted", "submitting"}
        /\ worker[w].place \in {"granted", "submitting"}
        /\ Row_(v).agent = Row_(w).agent
        => v = w

\* The executor keeps the promise of OneShotCredit.
PermitOf(i) ==
    IF deposits[i].attempt \in {"none", "prepared", "cancelled_before_action"}
    THEN "unissued" ELSE IF dispatched[i] = 0 THEN "issued" ELSE "used"

VerdictOf(i) ==
    CASE deposits[i].intent = "executed"         -> "executed"
      [] deposits[i].intent = "execution_review" -> "review"
      [] OTHER                                   -> "open"

Promise == INSTANCE OneShotCredit WITH
    permit   <- [i \in Intents |-> PermitOf(i)],
    lane     <- [i \in Intents |-> IF PermitOf(i) = "unissued" THEN None ELSE deposits[i].agent],
    credited <- {c.owner : c \in credits} \ {None},
    verdict  <- [i \in Intents |-> VerdictOf(i)]

KeepsPromise == Promise!OneShotSpec

-----------------------------------------------------------------------------
(* Liveness. *)

\* A worker whose circuit is closed keeps going, a process that crashed is
\* started again, clocks run.  Nobody is obliged to close a circuit, to enqueue,
\* or to let a POST land.
Fairness ==
    /\ \A w \in Workers : WF_allVars(WorkerStep(w)) /\ WF_allVars(Restart(w))
    /\ \A i \in Intents :
        /\ WF_allVars(LapseExecutionLease(i) /\ UNCHANGED executorVars)
        /\ WF_allVars(LapseReconciliationLease(i) /\ UNCHANGED executorVars)
        /\ WF_allVars(FollowUpDue(i) /\ UNCHANGED executorVars)

FairExecutorSpec == ExecutorSpec /\ Fairness

NobodyWorks == \A w \in Workers : At(w, "paused")

\* A fenced deposit, whatever was lost on the way, is settled one way or the
\* other as long as one process still runs.
FencedSettles ==
    \A i \in Intents :
        AwaitsHandoff(deposits[i]) ~>
            deposits[i].intent \in {"executed", "execution_review"} \/ NobodyWorks

\* A prepared lease never strands the agent's lane: it is fenced, cancelled or
\* recovered as long as one process still runs.
PreparedMovesOn ==
    \A i \in Intents :
        deposits[i].attempt = "prepared" ~>
            deposits[i].attempt # "prepared" \/ NobodyWorks
=============================================================================
