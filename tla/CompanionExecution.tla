-------------------------- MODULE CompanionExecution --------------------------
(***************************************************************************)
(* The one-use execution lane of the Windows companion: the worker on the  *)
(* agent's own PC, the device bridge and its assignment rows, and the      *)
(* betting platform's page between them.                                   *)
(*                                                                         *)
(* The worker polls for an assignment, writes evidence, prepares the page, *)
(* asks the bridge for the one authority the database will ever fence for  *)
(* this assignment, marks it consumed, writes that the final action        *)
(* starts, clicks, and reports.  It may crash between any two steps, any   *)
(* write may fail, replies get lost, requests arrive late, and the data    *)
(* directory may be restored from an older copy while the worker is down.  *)
(* Signatures, digests and clocks are abstracted: a message is what it     *)
(* binds, and time is the window of an assignment.                         *)
(***************************************************************************)
EXTENDS CompanionEvidence

CONSTANTS
    MaxFaults,     \* bound: crashes, lost replies and failed writes
    MaxRestores    \* bound: restores of the data directory

ASSUME BoundsAreNaturals == MaxFaults \in Nat /\ MaxRestores \in Nat

VARIABLES
    control,    \* the singleton execution control: "active" or "disabled"
    rows,       \* the bridge's assignment rows
    window,     \* "open", "action_over" (the ten seconds after the fence) or "over"
    wire,       \* requests on their way to the bridge, however late
    worker,     \* the companion's worker
    nonces,     \* request nonces drawn so far
    disk,       \* the companion's data directory
    backup,     \* an older copy of it
    allowance,  \* the route's permission to let one deposit request through
    posts,      \* deposit requests that left for the platform
    landed,     \* assignments whose deposit the platform executed
    observed,   \* what the platform's history later showed of the attempt
    told,       \* the terminal status the device was last sent
    faults, restores

bridge == <<control, rows, window, observed, told>>
device == <<worker, nonces, disk, backup>>
page   == <<allowance, posts, landed>>
budget == <<faults, restores>>
vars   == <<bridge, wire, device, page, budget>>

Account == "agent account"

ASSUME NoneIsNoAccount == None # Account

Open == {"claimed", "signed", "authority_claimed", "authority_signed"}
Fenced == {"authority_claimed", "authority_signed", "result_recorded"}

Row == [state : {"none", "result_recorded"} \cup Open,
        nonce : Nat,     \* of the authority request, 0 before the fence
        outcome : Outcomes \cup {"none"}]

Pcs == {"down", "failed_closed", "polling", "enrolling", "observing", "preparing",
        "discarding", "discarding_chain", "asking", "keeping", "consuming", "fencing",
        "starting", "armed", "clicked", "routed", "concluding", "resulting", "recording",
        "submitting", "submitted", "reconciling", "idle_uncertain", "clearing",
        "clearing_chain"}

\* phase is the worker's copy of the journal, set before the journal is written.
Worker == [pc : Pcs,
           of : Assignments \cup {None},
           phase : Phases \cup {"missing"},
           nonce : Nat,
           outcome : Outcomes \cup {"none"}]

Message ==
    [kind : {"authority"}, of : Assignments, nonce : Nat, outcome : {"none"}]
    \cup [kind : {"result"}, of : Assignments, nonce : Nat, outcome : Outcomes]

Resting(pc) == [pc |-> pc, of |-> None, phase |-> "missing", nonce |-> 0, outcome |-> "none"]

\* One more thing went wrong; a bound.
Fault == faults < MaxFaults /\ faults' = faults + 1

Goes(pc) == worker' = [worker EXCEPT !.pc = pc]

\* A write of the worker: the result decides where it goes on.
Writes(results, phase, then, otherwise) ==
    \E r \in results :
        /\ disk' = r.disk
        /\ IF r.end = "failed" THEN Fault ELSE UNCHANGED faults
        /\ worker' = [worker EXCEPT !.phase = phase,
                                    !.pc = IF r.end = "done" THEN then ELSE otherwise]

-----------------------------------------------------------------------------
(* The bridge. *)

\* Mutant: the lease looks at the last observation only for a final verdict.
LeasableOnceReviewed ==
    \A b \in Assignments : rows[b].state \in Fenced =>
        observed[b] \in {"confirmed_executed", "review_required"}

\* Fresh work on the account: every fenced attempt before it is confirmed.
Leasable ==
    \A b \in Assignments : rows[b].state \in Fenced => observed[b] = "confirmed_executed"

LeaseAssignment(a) ==
    /\ control = "active" /\ rows[a].state = "none"
    /\ \A b \in Assignments : rows[b].state \notin Open
    /\ Leasable
    /\ rows' = [rows EXCEPT ![a].state = "claimed"]
    /\ UNCHANGED <<control, window, observed, told, wire, device, page, budget>>

SignAssignment(a) ==
    /\ rows[a].state = "claimed" /\ window[a] = "open"
    /\ rows' = [rows EXCEPT ![a].state = "signed"]
    /\ UNCHANGED <<control, window, observed, told, wire, device, page, budget>>

\* Mutant: a second request for the same assignment takes the authority over.
ClaimAuthorityAgain(m) ==
    /\ m.kind = "authority" /\ window[m.of] = "open"
    /\ rows[m.of].state \in {"signed"} \cup Fenced
    /\ control = "active"
    /\ rows' = [rows EXCEPT ![m.of].state = "authority_claimed", ![m.of].nonce = m.nonce]
    /\ UNCHANGED <<control, window, observed, told, wire, device, page, budget>>

\* The database fences the final action, once, for one request nonce.
ClaimAuthority(m) ==
    /\ m.kind = "authority"
    /\ rows[m.of].state = "signed" /\ window[m.of] = "open"
    /\ control = "active"
    /\ rows' = [rows EXCEPT ![m.of].state = "authority_claimed", ![m.of].nonce = m.nonce]
    /\ UNCHANGED <<control, window, observed, told, wire, device, page, budget>>

SignAuthority(a) ==
    /\ rows[a].state = "authority_claimed" /\ window[a] = "open"
    /\ rows' = [rows EXCEPT ![a].state = "authority_signed"]
    /\ UNCHANGED <<control, window, observed, told, wire, device, page, budget>>

\* The handler accepts a result only under a currently valid assignment.
AcceptResult(m) ==
    /\ m.kind = "result"
    /\ rows[m.of].state = "authority_signed" /\ rows[m.of].nonce = m.nonce
    /\ window[m.of] # "over"
    /\ rows' = [rows EXCEPT ![m.of].state = "result_recorded", ![m.of].outcome = m.outcome]
    /\ UNCHANGED <<control, window, observed, told, wire, device, page, budget>>

StatusOf(a) ==
    IF rows[a].state # "result_recorded" THEN "non_terminal"
    ELSE IF rows[a].outcome # "submission_attempted" THEN "uncertain"
    ELSE IF observed[a] = "confirmed_executed" THEN "succeeded"
    ELSE IF observed[a] \in {"review_required", "not_observed"} THEN "failed"
    ELSE "non_terminal"

\* Mutant: an accepted request is taken for an executed deposit.
ObserveTrusting(a, seen) ==
    /\ rows[a].state = "result_recorded" \/ (rows[a].state \in Fenced /\ window[a] = "over")
    /\ \/ seen = "confirmed_executed" /\ rows[a].outcome = "submission_attempted"
       \/ seen = "not_observed" /\ observed[a] = "none"
       \/ seen = "review_required"
    /\ observed[a] \in {"none", "not_observed"}
    /\ observed' = [observed EXCEPT ![a] = seen]
    /\ UNCHANGED <<control, rows, window, told, wire, device, page, budget>>

\* The attempt is reconciled against the platform's history once its result is
\* in or its lease has lapsed.  Only what landed is confirmed; what landed too
\* late to be seen is not.
Observe(a, seen) ==
    /\ rows[a].state = "result_recorded" \/ (rows[a].state \in Fenced /\ window[a] = "over")
    /\ \/ seen = "confirmed_executed" /\ a \in landed
       \/ seen = "not_observed" /\ observed[a] = "none"
       \/ seen = "review_required"
    /\ observed[a] \in {"none", "not_observed"}
    /\ observed' = [observed EXCEPT ![a] = seen]
    /\ UNCHANGED <<control, rows, window, told, wire, device, page, budget>>

DisableControl ==
    /\ control = "active"
    /\ control' = "disabled"
    /\ UNCHANGED <<rows, window, observed, told, wire, device, page, budget>>

TimePasses(a) ==
    /\ rows[a].state # "none"
    /\ \/ window[a] = "open" /\ rows[a].nonce # 0 /\ window' = [window EXCEPT ![a] = "action_over"]
       \/ window[a] # "over" /\ window' = [window EXCEPT ![a] = "over"]
    /\ UNCHANGED <<control, rows, observed, told, wire, device, page, budget>>

-----------------------------------------------------------------------------
(* The worker: taking an assignment and preparing the page. *)

\* The open row is handed out again to every poll, its authority only if signed:
\* then, or outside its validity, the worker takes nothing.
TakeAssignment(a) ==
    /\ worker.pc = "polling"
    /\ rows[a].state \in {"signed", "authority_claimed"} /\ window[a] # "over"
    /\ worker' = [Resting("enrolling") EXCEPT !.of = a]
    /\ UNCHANGED <<bridge, wire, nonces, disk, backup, page, budget>>

KeepAssignment ==
    /\ worker.pc = "enrolling"
    /\ Writes(PersistInitial(disk, worker.of), "missing", "observing", "polling")
    /\ UNCHANGED <<bridge, wire, nonces, backup, page, restores>>

ObserveAssignment ==
    /\ worker.pc = "observing"
    /\ Writes(PersistJournal(disk, worker.of, Observed, "none"),
              Observed, "preparing", "polling")
    /\ UNCHANGED <<bridge, wire, nonces, backup, page, restores>>

\* Before the authority was asked for, a failure may discard the evidence.
PreparationFails ==
    /\ worker.pc = "preparing" /\ Fault
    /\ Goes("discarding")
    /\ UNCHANGED <<bridge, wire, nonces, disk, backup, page, restores>>

DiscardJournal ==
    /\ worker.pc = "discarding"
    /\ Writes(RemoveJournal(disk, worker.of, Observed), Observed, "discarding_chain", "polling")
    /\ UNCHANGED <<bridge, wire, nonces, backup, page, restores>>

DiscardChain ==
    /\ worker.pc = "discarding_chain"
    /\ Writes(ClearChain(disk, worker.of, {"enrollment", "assignment"}),
              Observed, "polling", "polling")
    /\ UNCHANGED <<bridge, wire, nonces, backup, page, restores>>

-----------------------------------------------------------------------------
(* The worker: from the request for authority to the click. *)

AskAuthority ==
    /\ worker.pc = "preparing"
    /\ nonces' = nonces + 1
    /\ wire' = wire \cup {[kind |-> "authority", of |-> worker.of,
                           nonce |-> nonces + 1, outcome |-> "none"]}
    /\ worker' = [worker EXCEPT !.pc = "asking", !.nonce = nonces + 1]
    /\ UNCHANGED <<bridge, disk, backup, page, budget>>

AuthorityArrives ==
    /\ worker.pc = "asking"
    /\ rows[worker.of].state = "authority_signed" /\ rows[worker.of].nonce = worker.nonce
    /\ window[worker.of] = "open"
    /\ Goes("keeping")
    /\ UNCHANGED <<bridge, wire, nonces, disk, backup, page, budget>>

Grantable(a, n) ==
    /\ window[a] = "open"
    /\ \/ rows[a].state = "signed" /\ control = "active"
       \/ rows[a].state \in Fenced /\ rows[a].nonce = n

\* Refused, or no answer in time: never asked again, never retried.
AuthorityFails ==
    /\ worker.pc = "asking"
    /\ \/ ~Grantable(worker.of, worker.nonce) /\ UNCHANGED faults
       \/ Fault
    /\ Goes("failed_closed")
    /\ UNCHANGED <<bridge, wire, nonces, disk, backup, page, restores>>

KeepAuthority ==
    /\ worker.pc = "keeping"
    /\ Writes(PersistPart(disk, worker.of, {"enrollment", "assignment"}, "authority"),
              Observed, "consuming", "failed_closed")
    /\ UNCHANGED <<bridge, wire, nonces, backup, page, restores>>

ConsumeAuthority ==
    /\ worker.pc = "consuming"
    /\ Writes(ConsumeOnce(disk, worker.of), Observed, "fencing", "failed_closed")
    /\ UNCHANGED <<bridge, wire, nonces, backup, page, restores>>

RecordFence ==
    /\ worker.pc = "fencing"
    /\ Writes(PersistJournal(disk, worker.of, Consumed, "none"),
              Consumed, "starting", "concluding")
    /\ UNCHANGED <<bridge, wire, nonces, backup, page, restores>>

DeadlinePassed ==
    /\ worker.pc = "starting" /\ window[worker.of] # "open"
    /\ Goes("concluding")
    /\ UNCHANGED <<bridge, wire, nonces, disk, backup, page, budget>>

RecordStart ==
    /\ worker.pc = "starting" /\ window[worker.of] = "open"
    /\ Writes(PersistJournal(disk, worker.of, Started, "none"),
              Started, "armed", "concluding")
    /\ UNCHANGED <<bridge, wire, nonces, backup, page, restores>>

\* The surface is verified once more, then the route is told to expect one
\* request, then the transfer button is pressed.
Click ==
    /\ worker.pc = "armed" /\ window[worker.of] = "open"
    /\ Goes("clicked")
    /\ UNCHANGED <<bridge, wire, nonces, disk, backup, page, budget>>

HoldBack ==
    /\ worker.pc = "armed"
    /\ \/ window[worker.of] # "open" /\ UNCHANGED faults
       \/ Fault
    /\ Goes("concluding")
    /\ UNCHANGED <<bridge, wire, nonces, disk, backup, page, restores>>

\* The route takes the pending authorization before its first await ...
RouteConsumes ==
    /\ worker.pc = "clicked" /\ window[worker.of] = "open"
    /\ allowance' = [allowance EXCEPT ![worker.of] = "consumed"]
    /\ Goes("routed")
    /\ UNCHANGED <<bridge, wire, nonces, disk, backup, posts, landed, budget>>

\* ... and forwards the request, even if the worker has given up meanwhile.
RouteForwards(a) ==
    /\ allowance[a] = "consumed" /\ window[a] = "open"
    /\ allowance' = [allowance EXCEPT ![a] = "gone"]
    /\ posts' = [posts EXCEPT ![a] = @ + 1]
    /\ UNCHANGED <<bridge, wire, device, landed, budget>>

RouteBlocks(a) ==
    /\ allowance[a] = "consumed"
    /\ allowance' = [allowance EXCEPT ![a] = "gone"]
    /\ UNCHANGED <<bridge, wire, device, posts, landed, budget>>

\* A 2xx answer says that the request was submitted, no more.
PlatformAnswers ==
    /\ worker.pc = "routed" /\ allowance[worker.of] = "gone" /\ posts[worker.of] > 0
    /\ worker' = [worker EXCEPT !.pc = "concluding", !.outcome = "submission_attempted"]
    /\ UNCHANGED <<bridge, wire, nonces, disk, backup, page, budget>>

\* A failed click, another answer, or none in time.
GiveUp ==
    /\ worker.pc \in {"clicked", "routed"}
    /\ worker' = [worker EXCEPT !.pc = "concluding", !.outcome = "local_uncertain"]
    /\ UNCHANGED <<bridge, wire, nonces, disk, backup, page, budget>>

-----------------------------------------------------------------------------
(* The worker: the result and its reconciliation. *)

Conclude ==
    /\ worker.pc = "concluding"
    /\ worker' = [worker EXCEPT !.pc = "resulting", !.outcome =
         IF @ # "none" THEN @
         ELSE IF worker.phase = Consumed THEN "post_fence_no_local_action"
         ELSE "local_uncertain"]
    /\ UNCHANGED <<bridge, wire, nonces, disk, backup, page, budget>>

KeepResult ==
    /\ worker.pc = "resulting"
    /\ Writes(PersistPart(disk, worker.of, {"enrollment", "assignment", "authority"}, "result"),
              worker.phase, "recording", "failed_closed")
    /\ UNCHANGED <<bridge, wire, nonces, backup, page, restores>>

RecordResult ==
    /\ worker.pc = "recording"
    /\ Writes(PersistJournal(disk, worker.of, Recorded, worker.outcome),
              Recorded, "submitting", "failed_closed")
    /\ UNCHANGED <<bridge, wire, nonces, backup, page, restores>>

SubmitResult ==
    /\ worker.pc = "submitting"
    /\ wire' = wire \cup {[kind |-> "result", of |-> worker.of,
                           nonce |-> worker.nonce, outcome |-> worker.outcome]}
    /\ Goes("submitted")
    /\ UNCHANGED <<bridge, nonces, disk, backup, page, budget>>

ResultAcknowledged ==
    /\ worker.pc = "submitted" /\ rows[worker.of].state = "result_recorded"
    /\ Goes("reconciling")
    /\ UNCHANGED <<bridge, wire, nonces, disk, backup, page, budget>>

\* Refused, or the answer is lost: the result is not sent a second time.
ResultFails ==
    /\ worker.pc = "submitted"
    /\ \/ /\ window[worker.of] = "over" /\ rows[worker.of].state # "result_recorded"
          /\ UNCHANGED faults
       \/ Fault
    /\ Goes("failed_closed")
    /\ UNCHANGED <<bridge, wire, nonces, disk, backup, page, restores>>

\* Mutant: an uncertain attempt is cleared away like a finished one.
StatusClearsUncertain ==
    LET status == StatusOf(worker.of) IN
    /\ worker.pc = "reconciling"
    /\ rows[worker.of].state = "result_recorded" /\ window[worker.of] # "over"
    /\ \/ /\ status \in {"succeeded", "failed"} /\ Goes("clearing")
          /\ told' = [told EXCEPT ![worker.of] = status]
       \/ status = "uncertain" /\ Goes("clearing") /\ UNCHANGED told
    /\ UNCHANGED <<control, rows, window, observed, wire, nonces, disk, backup, page, budget>>

StatusArrives ==
    LET status == StatusOf(worker.of) IN
    /\ worker.pc = "reconciling"
    /\ rows[worker.of].state = "result_recorded" /\ window[worker.of] # "over"
    /\ \/ /\ status \in {"succeeded", "failed"} /\ Goes("clearing")
          /\ told' = [told EXCEPT ![worker.of] = status]
       \/ status = "uncertain" /\ Goes("idle_uncertain") /\ UNCHANGED told
    /\ UNCHANGED <<control, rows, window, observed, wire, nonces, disk, backup, page, budget>>

\* The handler of status queries wants a currently valid assignment, too, and
\* the database a result it has recorded.
StatusFails ==
    /\ worker.pc = "reconciling"
    /\ \/ /\ window[worker.of] = "over" \/ rows[worker.of].state # "result_recorded"
          /\ UNCHANGED faults
       \/ Fault
    /\ Goes("failed_closed")
    /\ UNCHANGED <<bridge, wire, nonces, disk, backup, page, restores>>

ClearJournal ==
    /\ worker.pc = "clearing"
    /\ Writes(RemoveJournal(disk, worker.of, Recorded),
              Recorded, "clearing_chain", "failed_closed")
    /\ UNCHANGED <<bridge, wire, nonces, backup, page, restores>>

ClearAttempt ==
    /\ worker.pc = "clearing_chain"
    /\ Writes(ClearChain(disk, worker.of, Parts), Recorded, "polling", "failed_closed")
    /\ UNCHANGED <<bridge, wire, nonces, backup, page, restores>>

-----------------------------------------------------------------------------
(* Starting, stopping, and the world around. *)


Boot ==
    /\ worker.pc = "down"
    /\ worker' = CASE Recovery(disk) = "fresh"     -> Resting("polling")
                   [] Recovery(disk) = "reconcile" ->
                        [Resting("reconciling") EXCEPT !.of = disk.journal.of,
                                                       !.phase = Recorded]
                   [] Recovery(disk) = "operator"  -> Resting("failed_closed")
    /\ UNCHANGED <<bridge, wire, nonces, disk, backup, page, budget>>

\* The page dies with the process: what its route holds is not forwarded.
PageDies == allowance' = [a \in Assignments |->
                IF allowance[a] = "consumed" THEN "gone" ELSE allowance[a]]

\* The operator closes the companion while it waits, or its handoff expires.
Leave ==
    /\ worker.pc \in {"polling", "failed_closed", "idle_uncertain"}
    /\ worker' = Resting("down") /\ PageDies
    /\ UNCHANGED <<bridge, wire, nonces, disk, backup, posts, landed, budget>>

Crash ==
    /\ worker.pc # "down" /\ Fault
    /\ worker' = Resting("down") /\ PageDies
    /\ UNCHANGED <<bridge, wire, nonces, disk, backup, posts, landed, restores>>

TakeBackup ==
    /\ restores < MaxRestores /\ backup # disk
    /\ backup' = disk
    /\ UNCHANGED <<bridge, wire, worker, nonces, disk, page, budget>>

RestoreBackup ==
    /\ worker.pc = "down" /\ restores < MaxRestores
    /\ disk' = backup /\ restores' = restores + 1
    /\ UNCHANGED <<bridge, wire, worker, nonces, backup, page, faults>>

\* The platform executes a deposit it was sent, sooner or later or never.
Land(a) ==
    /\ posts[a] > 0 /\ a \notin landed
    /\ landed' = landed \cup {a}
    /\ UNCHANGED <<bridge, wire, device, allowance, posts, budget>>

-----------------------------------------------------------------------------
Init ==
    /\ control = "active"
    /\ rows = [a \in Assignments |-> [state |-> "none", nonce |-> 0, outcome |-> "none"]]
    /\ window = [a \in Assignments |-> "open"]
    /\ wire = {}
    /\ worker = Resting("down")
    /\ nonces = 0
    /\ disk = EmptyDisk /\ backup = EmptyDisk
    /\ allowance = [a \in Assignments |-> "unused"]
    /\ posts = [a \in Assignments |-> 0]
    /\ landed = {}
    /\ observed = [a \in Assignments |-> "none"]
    /\ told = [a \in Assignments |-> "none"]
    /\ faults = 0 /\ restores = 0

BridgeStep ==
    \/ \E a \in Assignments : LeaseAssignment(a) \/ SignAssignment(a) \/ SignAuthority(a)
    \/ \E m \in wire : ClaimAuthority(m) \/ AcceptResult(m)

WorkerStep ==
    \/ \E a \in Assignments : TakeAssignment(a)
    \/ KeepAssignment \/ ObserveAssignment
    \/ DiscardJournal \/ DiscardChain
    \/ AskAuthority \/ AuthorityArrives \/ AuthorityFails
    \/ KeepAuthority \/ ConsumeAuthority \/ RecordFence
    \/ DeadlinePassed \/ RecordStart \/ Click \/ HoldBack
    \/ PlatformAnswers \/ GiveUp
    \/ Conclude \/ KeepResult \/ RecordResult \/ SubmitResult
    \/ ResultAcknowledged \/ ResultFails
    \/ StatusArrives \/ StatusFails \/ ClearJournal \/ ClearAttempt

Environment ==
    \/ Boot \/ Leave \/ Crash \/ PreparationFails
    \/ RouteConsumes \/ TakeBackup \/ RestoreBackup \/ DisableControl
    \/ \E a \in Assignments :
        \/ RouteForwards(a) \/ RouteBlocks(a) \/ Land(a) \/ TimePasses(a)
        \/ \E seen \in {"not_observed", "review_required", "confirmed_executed"} :
             Observe(a, seen)

Next == BridgeStep \/ WorkerStep \/ Environment

Spec == Init /\ [][Next]_vars

-----------------------------------------------------------------------------
(* Properties *)

\* Every variable stays within its type.
CompanionTypeOK ==
    /\ control \in {"active", "disabled"}
    /\ rows \in [Assignments -> Row]
    /\ window \in [Assignments -> {"open", "action_over", "over"}]
    /\ wire \subseteq Message
    /\ worker \in Worker
    /\ nonces \in Nat
    /\ disk \in Disk /\ backup \in Disk
    /\ allowance \in [Assignments -> {"unused", "consumed", "gone"}]
    /\ posts \in [Assignments -> Nat]
    /\ landed \subseteq Assignments
    /\ observed \in [Assignments ->
                       {"none", "not_observed", "review_required", "confirmed_executed"}]
    /\ told \in [Assignments -> {"none", "succeeded", "failed"}]
    /\ faults \in 0..MaxFaults /\ restores \in 0..MaxRestores

\* "No exception, timeout, response replay, or process restart can trigger a
\* blind provider retry" (the worker's own comment), nor can a restored data
\* directory: an assignment's deposit leaves for the platform at most once.
AtMostOnePost == \A a \in Assignments : posts[a] <= 1

\* If the device reported that it never acted, then no request left, and none
\* is still held by the page's route to leave later.
NoLocalActionIsTrue ==
    \A a \in Assignments : rows[a].outcome = "post_fence_no_local_action" =>
        posts[a] = 0 /\ allowance[a] = "unused"

\* As long as the data directory was not restored, a deposit that left is in
\* the journal until the bridge has sent a terminal status for it.
PostedIsRemembered ==
    restores = 0 =>
        \A a \in Assignments : posts[a] > 0 =>
            \/ told[a] # "none"
            \/ disk.journal.of = a /\ disk.journal.phase \in {Started, Recorded}

\* The account never has two deposits in doubt: of two that left, one was
\* confirmed from the platform's history.
NeverTwiceInDoubt ==
    \A a, b \in Assignments : a # b /\ posts[a] > 0 /\ posts[b] > 0 =>
        \/ observed[a] = "confirmed_executed" \/ observed[b] = "confirmed_executed"

\* The lane as the promise about money that every execution lane makes: a
\* fenced nonce is the permit, the route's consumption of it is the use.
PermitOf(a) ==
    IF rows[a].state \notin Fenced THEN "unissued"
    ELSE IF allowance[a] = "unused" THEN "issued" ELSE "used"

LaneOf(a) == IF rows[a].state \in Fenced THEN Account ELSE None

VerdictOf(a) ==
    CASE observed[a] = "confirmed_executed" -> "executed"
      [] observed[a] = "review_required"    -> "review"
      [] OTHER                              -> "open"

Promise == INSTANCE OneShotCredit WITH
    Intents  <- Assignments,
    Agents   <- {Account},
    permit   <- [a \in Assignments |-> PermitOf(a)],
    lane     <- [a \in Assignments |-> LaneOf(a)],
    credited <- landed,
    verdict  <- [a \in Assignments |-> VerdictOf(a)]

\* The companion's lane implements the one-shot credit.
CompanionKeepsPromise == Promise!OneShotSpec

\* The device package says that absence or ambiguity "cannot become a safe
\* retry or definitive provider failure".  The device is told "failed" only for
\* an attempt that was not merely unseen or ambiguous.
AbsenceIsNotFailure ==
    \A a \in Assignments : told[a] = "failed" =>
        observed[a] \notin {"not_observed", "review_required"}

=============================================================================
