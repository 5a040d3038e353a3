----------------------------- MODULE RoutineLane -----------------------------
(***************************************************************************)
(* The routine deposit lane: one Windows companion that leases paid        *)
(* deposits of one agent account from the routine broker in PostgreSQL,    *)
(* presses Transfer in a KemerBet page at most once for each, and confirms *)
(* a deposit by the success dialog alone.                                  *)
(*                                                                         *)
(* A deposit whose outcome is unknown is contained: a signed pause command *)
(* sends it to the Owner's review and frees the lane, the page is reset,   *)
(* and only then is the next deposit leased.  Its credit may still land,   *)
(* and its transfer may even be sent: a request that took the allowance is *)
(* in the hands of the page's route, which asks the authority alone and    *)
(* not the worker.                                                         *)
(*                                                                         *)
(* A broker command is one transaction, so one action.  The request of a   *)
(* caller that gave up may still arrive.  The client replays a request     *)
(* under its own request id and the broker answers a known id from its     *)
(* ledger, so a replay is a later arrival of the same request.             *)
(***************************************************************************)
EXTENDS Naturals, FiniteSets

CONSTANTS
    Intents,              \* paid deposits that settlement queues for the lane
    Players,
    PlayerOf,             \* the player a deposit credits
    None,                 \* null
    MaxLate,              \* bound: requests in flight that nobody awaits
    MaxCrashes            \* bound: crashes of the companion

ASSUME NoneAssumption == None \notin Intents \cup Players
ASSUME PlayerAssumption == PlayerOf \in [Intents -> Players]
ASSUME BoundsAssumption == MaxLate \in Nat /\ MaxCrashes \in Nat

VARIABLES
    rows,                 \* the execution attempt of each deposit
    policy,               \* the Owner's latest processing event and its pause
    transport,            \* the broker transport is activated
    worker,               \* the companion's process
    late,                 \* requests in flight whose caller gave up
    page,                 \* the KemerBet page of this launch
    allowance,            \* the route's leave to let one request of a deposit pass
    posts,                \* transfers sent for each deposit
    credited,             \* deposits the provider has credited
    crashes

broker == <<rows, policy, transport>>
provider == <<page, allowance, posts, credited>>
vars == <<rows, policy, transport, worker, late, page, allowance, posts, credited, crashes>>

-----------------------------------------------------------------------------
(* The rows and the commands. *)

AttemptStatus == {"none", "prepared", "final_action_fenced", "reconciliation_required",
                  "confirmed_executed", "review_required", "cancelled_before_action"}

\* "mine": leased_by is the worker instance of the running launch.
\* paid_outside: the Owner recorded a credit made by hand.
Row == [attempt: AttemptStatus, mine: BOOLEAN, lapsed: BOOLEAN,
        evidence: BOOLEAN,                     \* routine_telebirr_dispatch_evidence
        review: {"none", "open", "resolved"},
        paid_outside: BOOLEAN]
NewRow == [attempt |-> "none", mine |-> FALSE, lapsed |-> FALSE,
           evidence |-> FALSE, review |-> "none", paid_outside |-> FALSE]

\* A review reached here is isolated in the same transaction and frees the lane.
OpenStatus == {"prepared", "final_action_fenced", "reconciliation_required"}
Open(i) == rows[i].attempt \in OpenStatus

Operations == {"lease", "fence", "record_dispatch", "confirm_modal", "contain", "pause"}
Command == [op: Operations, i: Intents \cup {None}, mine: BOOLEAN]

PolicyStatus == {"live", "paused", "stopped"}

-----------------------------------------------------------------------------
(* What a command does to the row of one deposit. *)

\* cancel_deposit_execution_before_action: the claim is kept, a case is opened.
Cancelled(r) == [r EXCEPT !.attempt = "cancelled_before_action", !.lapsed = FALSE, !.review = "open"]
Leased(r, mine) == [r EXCEPT !.attempt = "prepared", !.mine = mine]
\* The ten-second window of the fence replaces the end of the lease.
Fenced(r) == [r EXCEPT !.attempt = "final_action_fenced", !.lapsed = FALSE]
HandedOff(r) == [r EXCEPT !.attempt = "reconciliation_required", !.lapsed = FALSE]
Dispatched(r) == [HandedOff(r) EXCEPT !.evidence = TRUE]
PaidOutside(r) == [r EXCEPT !.review = "resolved", !.paid_outside = TRUE]
Isolated(r) == [r EXCEPT !.attempt = "review_required", !.lapsed = FALSE, !.review = "open"]

\* Mutant: a possible credit under review does not hold back its player.
AdmissibleAgain(table, j) == table[j].attempt = "none"

\* assess_routine_telebirr_execution_job: a player with an unresolved possible
\* credit is not credited again, by whatever payment.
Admissible(table, j) ==
    /\ table[j].attempt = "none"
    /\ \A i \in Intents : PlayerOf[i] = PlayerOf[j] => table[i].attempt # "review_required"

\* A lease on a free lane finds the next deposit, or nothing: no deposit may be
\* queued, a feature switch may be off, a release may be draining.
LeaseNext(c, table, answer) ==
    \/ /\ rows' = table
       /\ answer = [verdict |-> "none", i |-> None]
    \/ \E j \in Intents :
        /\ policy = "live" /\ Admissible(table, j)
        /\ rows' = [table EXCEPT ![j] = Leased(@, c.mine)]
        /\ answer = [verdict |-> "execute", i |-> j]

\* Mutant: a lapsed fence is left to itself.
LeaseHeldIgnoringFence(c, i, answer) ==
    LET r == rows[i] IN
    \/ /\ r.attempt = "prepared" /\ r.lapsed
       /\ LeaseNext(c, [rows EXCEPT ![i] = Cancelled(r)], answer)
    \/ /\ r.attempt = "prepared" /\ ~r.lapsed
       /\ answer = IF c.mine = r.mine /\ policy = "live"
                   THEN [verdict |-> "execute", i |-> i]
                   ELSE [verdict |-> "none", i |-> None]
       /\ UNCHANGED rows
    \/ /\ r.attempt = "final_action_fenced"
       /\ answer = [verdict |-> "none", i |-> None]
       /\ UNCHANGED rows
    \/ /\ r.attempt = "reconciliation_required"
       /\ answer = [verdict |-> "reconcile", i |-> i]
       /\ UNCHANGED rows

\* The lane is held: an unfenced lease that lapsed is cancelled and the lane is
\* free, a current one is given again to its holder, a fence whose window is over
\* is handed to reconciliation, and what awaits reconciliation is returned.
LeaseHeld(c, i, answer) ==
    LET r == rows[i] IN
    \/ /\ r.attempt = "prepared" /\ r.lapsed
       /\ LeaseNext(c, [rows EXCEPT ![i] = Cancelled(r)], answer)
    \/ /\ r.attempt = "prepared" /\ ~r.lapsed
       /\ answer = IF c.mine = r.mine /\ policy = "live"
                   THEN [verdict |-> "execute", i |-> i]
                   ELSE [verdict |-> "none", i |-> None]
       /\ UNCHANGED rows
    \/ /\ r.attempt = "final_action_fenced" /\ ~r.lapsed
       /\ answer = [verdict |-> "none", i |-> None]
       /\ UNCHANGED rows
    \/ /\ \/ r.attempt = "final_action_fenced" /\ r.lapsed
          \/ r.attempt = "reconciliation_required"
       /\ answer = [verdict |-> "reconcile", i |-> i]
       /\ rows' = [rows EXCEPT ![i] = HandedOff(@)]

Lease(c, answer) ==
    /\ \/ \E i \in Intents : Open(i) /\ LeaseHeld(c, i, answer)
       \/ (\A i \in Intents : ~Open(i)) /\ LeaseNext(c, rows, answer)
    /\ UNCHANGED policy

\* What the command's own conditions admit; any other command raises.
Fenceable(c) ==
    LET r == rows[c.i] IN
    /\ policy = "live"
    /\ r.attempt = "prepared" /\ r.mine = c.mine /\ ~r.lapsed
Recordable(c) == LET r == rows[c.i] IN r.attempt = "final_action_fenced" /\ r.mine = c.mine
\* A confirmation is repeated for an attempt it already confirmed.
Confirmable(c) ==
    \/ rows[c.i].attempt = "reconciliation_required" /\ rows[c.i].evidence
    \/ rows[c.i].attempt = "confirmed_executed"
\* Only the worker that leased it may close an attempt it has not handed off.
Closable(c) ==
    rows[c.i].attempt \in {"prepared", "final_action_fenced"} => rows[c.i].mine = c.mine

\* Mutant: an uncertain attempt is cancelled although it was fenced.
ContainedAsUnfenced(r) ==
    IF r.attempt \in {"prepared", "final_action_fenced"} THEN Cancelled(r)
    ELSE IF r.attempt = "reconciliation_required" THEN Isolated(r)
    ELSE r

\* route_routine_deposit_uncertainty_to_review: what was never fenced is
\* cancelled, what was is isolated, what is confirmed stays as it is; what was
\* contained before has its review opened again, were it resolved.
Contained(r) ==
    CASE r.attempt = "prepared"                                           -> Cancelled(r)
      [] r.attempt \in {"final_action_fenced", "reconciliation_required"} -> Isolated(r)
      [] r.attempt = "confirmed_executed"                                 -> r
      [] OTHER                                                            -> [r EXCEPT !.review = "open"]

Accepts(c) ==
    CASE c.op = "fence"           -> Fenceable(c)
      [] c.op = "record_dispatch" -> Recordable(c)
      [] c.op = "confirm_modal"   -> Confirmable(c)
      [] c.op = "contain"         -> Closable(c)
      [] c.op = "pause"           -> c.i # None /\ rows[c.i].attempt = "prepared" => Closable(c)
      [] OTHER                    -> FALSE

\* The row the command leaves behind; a pause binds the attempt it is about.
Result(c) ==
    LET r == rows[c.i] IN
    CASE c.op = "fence"           -> Fenced(r)
      [] c.op = "record_dispatch" -> Dispatched(r)
      [] c.op = "confirm_modal"   -> [r EXCEPT !.attempt = "confirmed_executed"]
      [] c.op = "contain"         -> Contained(r)
      [] c.op = "pause"           -> IF r.attempt = "prepared" THEN Cancelled(r) ELSE r

Accepted == [verdict |-> "accepted", i |-> None]
Refused == [verdict |-> "refused", i |-> None]
Pending == [verdict |-> "pending", i |-> None]

\* execute_agent_platform_routine_deposit_command.
Execute(c, answer) ==
    \/ /\ transport /\ c.op = "lease"
       /\ Lease(c, answer)
    \/ /\ transport /\ c.op # "lease" /\ Accepts(c)
       /\ rows' = IF c.i = None THEN rows ELSE [rows EXCEPT ![c.i] = Result(c)]
       /\ policy' = IF c.op = "pause" /\ policy = "live" THEN "paused" ELSE policy
       /\ answer = Accepted
    \/ /\ ~transport \/ (c.op # "lease" /\ ~Accepts(c))
       /\ answer = Refused
       /\ UNCHANGED <<rows, policy>>

-----------------------------------------------------------------------------
(* The companion: createRoutineDepositWorker under startRoutineDepositQueue. *)

Phases == {"off", "ready", "lease", "prepare", "fence", "act", "watch",
           "record_dispatch", "confirm_modal", "contain", "reset", "dismiss",
           "pause", "paused"}
Calls == {"lease", "fence", "record_dispatch", "confirm_modal", "contain", "pause"}
Verdicts == {"none", "execute", "reconcile", "accepted", "refused", "pending"}

Worker == [phase: Phases,
           lease: Intents \cup {None},           \* the binding it works on
           answer: [verdict: Verdicts, i: Intents \cup {None}],
           hold: BOOLEAN,                        \* pendingContainment
           reset: BOOLEAN,                       \* pendingPageReset
           fresh: BOOLEAN,                       \* within the action authority's window
           modal: BOOLEAN]                       \* routineSuccessModalPending

NewWorker(phase) ==
    [phase |-> phase, lease |-> None, answer |-> Pending, hold |-> FALSE,
     reset |-> FALSE, fresh |-> FALSE, modal |-> FALSE]

Page == [sent: SUBSET Intents,                   \* its transfers await a reply
         dialogs: SUBSET Intents]                \* success dialogs it shows
EmptyPage == [sent |-> {}, dialogs |-> {}]

RoutineTypeOK ==
    /\ rows \in [Intents -> Row]
    /\ policy \in PolicyStatus /\ transport \in BOOLEAN
    /\ worker \in Worker
    /\ late \subseteq Command
    /\ page \in Page /\ allowance \in [Intents -> {"unused", "consumed", "gone"}]
    /\ posts \in [Intents -> 0..2] /\ credited \subseteq Intents
    /\ crashes \in 0..MaxCrashes

\* The request the worker awaits: its phase is named after it.
Awaited == [op |-> worker.phase, i |-> worker.lease, mine |-> TRUE]
Awaits == worker.phase \in Calls /\ worker.answer = Pending

To(phase) == [worker EXCEPT !.phase = phase, !.answer = Pending]
Containing == [To("contain") EXCEPT !.hold = TRUE, !.fresh = FALSE]
Freed == [To("ready") EXCEPT !.lease = None, !.fresh = FALSE]

\* The broker's answer reaches the worker, or the request stays on its way.
Deliver ==
    /\ Awaits
    /\ \E verdict \in Verdicts, i \in Intents \cup {None} :
        /\ Execute(Awaited, [verdict |-> verdict, i |-> i])
        /\ worker' = [worker EXCEPT !.answer = [verdict |-> verdict, i |-> i]]
    /\ UNCHANGED <<transport, late, provider, crashes>>

Arrive(c) ==
    /\ c \in late
    /\ \E verdict \in Verdicts, i \in Intents \cup {None} :
        Execute(c, [verdict |-> verdict, i |-> i])
    /\ late' = late \ {c}
    /\ UNCHANGED <<transport, worker, provider, crashes>>

Lose(c) ==
    /\ c \in late
    /\ late' = late \ {c}
    /\ UNCHANGED <<broker, worker, provider, crashes>>

\* runOnce: an uncertain payment first, then the page, then the next lease.
RunOnce ==
    /\ worker.phase = "ready"
    /\ worker' = IF worker.hold THEN To("contain")
                 ELSE IF worker.reset THEN To("reset")
                 ELSE To("lease")
    /\ UNCHANGED <<broker, late, provider, crashes>>

\* Mutant: a containment that could not be delivered is forgotten.
UnansweredForgets ==
    IF worker.phase = "pause" THEN To("paused")
    ELSE IF worker.phase \in {"lease", "contain"}
         THEN [Freed EXCEPT !.hold = FALSE]
    ELSE Containing

\* No usable answer.  A lease is asked for again later, a containment is kept and
\* repeated, a pause holds locally; anything else leaves the payment uncertain.
Unanswered ==
    CASE worker.phase = "lease"   -> Freed
      [] worker.phase = "contain" -> To("ready")
      [] worker.phase = "pause"   -> To("paused")
      [] OTHER                    -> Containing

\* The request is lost, or its reply is, or it may still arrive.
GiveUp ==
    /\ worker.phase \in Calls
    /\ worker.answer.verdict # "refused"
    /\ worker' = Unanswered
    /\ \/ late' = late
       \/ /\ worker.answer = Pending /\ Cardinality(late) < MaxLate
          /\ late' = late \cup {Awaited}
    /\ UNCHANGED <<broker, provider, crashes>>

Rejected ==
    /\ worker.phase \in Calls /\ worker.answer = Refused
    /\ worker' = Unanswered
    /\ UNCHANGED <<broker, late, provider, crashes>>

\* A lease that is not the expected one pauses the worker for this launch.
LeaseAnswered ==
    LET a == worker.answer IN
    /\ worker.phase = "lease" /\ a.verdict \in {"none", "execute", "reconcile"}
    /\ \/ a.verdict = "none" /\ worker' = To("ready")
       \/ a.verdict = "execute" /\ worker' = [To("prepare") EXCEPT !.lease = a.i]
       \/ a.verdict = "reconcile" /\ worker' = [To("confirm_modal") EXCEPT !.lease = a.i]
       \/ a.verdict # "none" /\ worker' = [To("pause") EXCEPT !.lease = a.i]
    /\ UNCHANGED <<broker, late, provider, crashes>>

\* The page is filled in and shows no success dialog: the fence is requested.  The
\* authority is measured from before the request, so it ends no later than the
\* window the broker gives it.
RequestFence ==
    /\ worker.phase = "prepare" /\ page.dialogs = {}
    /\ worker' = [To("fence") EXCEPT !.fresh = TRUE]
    /\ UNCHANGED <<broker, late, provider, crashes>>

\* An answer that comes after the window is uncertain.
FenceAnswered ==
    /\ worker.phase = "fence" /\ worker.answer = Accepted
    /\ \/ worker.fresh /\ worker' = To("act")
       \/ worker' = Containing
       \/ worker' = [To("pause") EXCEPT !.fresh = FALSE]
    /\ UNCHANGED <<broker, late, provider, crashes>>

\* The page's request takes the allowance of a fresh authority before the route
\* first waits; the worker goes on to wait for its report and then for the dialog.
RouteConsumes ==
    /\ worker.phase = "act" /\ worker.fresh
    /\ worker' = [To("watch") EXCEPT !.fresh = FALSE]
    /\ allowance' = [allowance EXCEPT ![worker.lease] = "consumed"]
    /\ page' = [page EXCEPT !.sent = @ \cup {worker.lease}]
    /\ UNCHANGED <<broker, late, posts, credited, crashes>>

\* Having read the headers, the route asks whether the authority is still fresh,
\* and of nothing else: the worker may have contained the deposit and reset the page.
RouteForwards(i) ==
    /\ allowance[i] = "consumed"
    /\ allowance' = [allowance EXCEPT ![i] = "gone"]
    /\ posts' = [posts EXCEPT ![i] = @ + 1]
    /\ UNCHANGED <<broker, worker, late, page, credited, crashes>>

\* An override header, a failed read of one, or the authority has expired.
RouteBlocks(i) ==
    /\ allowance[i] = "consumed"
    /\ allowance' = [allowance EXCEPT ![i] = "gone"]
    /\ page' = [page EXCEPT !.sent = @ \ {i}]
    /\ UNCHANGED <<broker, worker, late, posts, credited, crashes>>

\* The form cannot be prepared, the authority expired, the click failed, no
\* dialog was recognized in time: contained; a clock anomaly pauses instead.  An
\* allowance nobody took is cleared, one that was taken is beyond the worker's reach.
Uncertain ==
    /\ \/ /\ worker.phase \in {"prepare", "act", "watch"}
          /\ worker' = Containing
       \/ /\ worker.phase \in {"act", "watch"}
          /\ worker' = [To("pause") EXCEPT !.fresh = FALSE]
    /\ UNCHANGED <<broker, late, provider, crashes>>

\* Once the route reported the request as submitted, exactly one success dialog
\* with the amount is taken for the deposit's own.
DialogSeen ==
    /\ worker.phase = "watch" /\ posts[worker.lease] > 0
    /\ Cardinality(page.dialogs) = 1
    /\ worker' = [To("record_dispatch") EXCEPT !.modal = TRUE]
    /\ UNCHANGED <<broker, late, provider, crashes>>

DispatchRecorded ==
    /\ worker.phase = "record_dispatch" /\ worker.answer = Accepted
    /\ worker' = To("confirm_modal")
    /\ UNCHANGED <<broker, late, provider, crashes>>

ModalConfirmed ==
    /\ worker.phase = "confirm_modal" /\ worker.answer = Accepted
    /\ worker' = To("dismiss")
    /\ UNCHANGED <<broker, late, provider, crashes>>

\* Mutant: the contained payment's page is used for the next deposit.
PauseAnsweredKeepingPage ==
    /\ worker.phase \in {"contain", "pause"} /\ worker.answer = Accepted
    /\ worker' = IF worker.phase = "pause" THEN To("paused")
                 ELSE [Freed EXCEPT !.hold = FALSE]
    /\ UNCHANGED <<broker, late, provider, crashes>>

PauseAnswered ==
    /\ worker.phase \in {"contain", "pause"} /\ worker.answer = Accepted
    /\ worker' = IF worker.phase = "pause" THEN To("paused")
                 ELSE [To("reset") EXCEPT !.hold = FALSE, !.reset = TRUE]
    /\ UNCHANGED <<broker, late, provider, crashes>>

\* dismissSettledRoutineSuccess: the one dialog it verified, if any.
Dismissable == worker.modal => Cardinality(page.dialogs) = 1

\* resetAfterContainedRoutineDeposit navigates away from form and dialogs.
Reset ==
    /\ worker.phase = "reset"
    /\ \/ /\ Dismissable
          /\ worker' = [Freed EXCEPT !.reset = FALSE, !.modal = FALSE]
          /\ page' = EmptyPage
       \/ worker' = To("ready") /\ page' = page
    /\ UNCHANGED <<broker, late, allowance, posts, credited, crashes>>

\* A settled result that cannot be dismissed pauses the launch, locally only.
Dismiss ==
    /\ worker.phase = "dismiss"
    /\ \/ /\ Dismissable
          /\ worker' = [Freed EXCEPT !.modal = FALSE]
          /\ page' = IF worker.modal THEN EmptyPage ELSE page
       \/ /\ worker.modal
          /\ worker' = To("paused") /\ page' = page
    /\ UNCHANGED <<broker, late, allowance, posts, credited, crashes>>

-----------------------------------------------------------------------------
(* The process, the provider, the clock and the Owner. *)

Stops(w) == /\ worker' = NewWorker("off")
            /\ page' = EmptyPage
            /\ allowance' = [i \in Intents |->
                 IF allowance[i] = "consumed" THEN "gone" ELSE allowance[i]]
            /\ late' = {[c EXCEPT !.mine = FALSE] : c \in w}
            /\ rows' = [i \in Intents |-> [rows[i] EXCEPT !.mine = FALSE]]
            /\ UNCHANGED <<policy, transport, posts, credited>>

\* The process or its PC ends; an awaited request may be on its way.  A stop by
\* the operator is the same: its aborted signal also aborts every request and ends
\* the authority the route asks.
Crash ==
    /\ worker.phase \notin {"off", "paused"} /\ crashes < MaxCrashes
    /\ crashes' = crashes + 1
    /\ \/ Stops(late)
       \/ Awaits /\ Cardinality(late) < MaxLate /\ Stops(late \cup {Awaited})

\* The operator closes a launch that is held for review.
CloseReview ==
    /\ worker.phase = "paused"
    /\ Stops(late)
    /\ UNCHANGED crashes

Launch ==
    /\ worker.phase = "off"
    /\ worker' = NewWorker("ready")
    /\ UNCHANGED <<broker, late, provider, crashes>>

\* Possibly long after the request, or never.
Credit(i) ==
    /\ posts[i] > 0 /\ i \notin credited
    /\ credited' = credited \cup {i}
    /\ UNCHANGED <<broker, worker, late, page, allowance, posts, crashes>>

\* The reply of a credited transfer reaches the page that sent it.
DialogOpens(i) ==
    /\ i \in page.sent \cap credited
    /\ page' = [sent |-> page.sent \ {i}, dialogs |-> page.dialogs \cup {i}]
    /\ UNCHANGED <<broker, worker, late, allowance, posts, credited, crashes>>

\* Of a request in the route's hands the expiry shows in RouteBlocks.
AuthorityExpires ==
    /\ worker.fresh
    /\ worker' = [worker EXCEPT !.fresh = FALSE]
    /\ UNCHANGED <<broker, late, provider, crashes>>

\* The lease ends, or the fence's window, which the authority never outlasts, be
\* it the worker's or that of a request in the route's hands.
Lapse(i) ==
    /\ rows[i].attempt \in {"prepared", "final_action_fenced"} /\ ~rows[i].lapsed
    /\ ~(rows[i].attempt = "final_action_fenced" /\ worker.fresh /\ worker.lease = i)
    /\ ~(rows[i].attempt = "final_action_fenced" /\ allowance[i] = "consumed")
    /\ rows' = [rows EXCEPT ![i].lapsed = TRUE]
    /\ UNCHANGED <<policy, transport, worker, late, provider, crashes>>

\* save_owner_routine_telebirr_processing: the standing authorization is renewed,
\* a stopped one replaced only when no routine deposit is unresolved.
Authorize ==
    /\ \/ policy = "paused"
       \/ /\ policy = "stopped"
          /\ \A i \in Intents : rows[i].attempt \in {"none", "confirmed_executed"}
    /\ policy' = "live"
    /\ UNCHANGED <<rows, transport, worker, late, provider, crashes>>

StopPolicy ==
    /\ policy # "stopped"
    /\ policy' = "stopped"
    /\ UNCHANGED <<rows, transport, worker, late, provider, crashes>>

DisableTransport ==
    /\ transport /\ transport' = FALSE
    /\ UNCHANGED <<rows, policy, worker, late, provider, crashes>>

ActivateTransport ==
    /\ ~transport /\ policy # "stopped"
    /\ transport' = TRUE
    /\ UNCHANGED <<rows, policy, worker, late, provider, crashes>>

\* Mutant: an Owner's credit is recorded for any reviewed deposit.
RecordReviewedCredit(i) ==
    /\ rows[i].review = "open" /\ ~rows[i].paid_outside
    /\ rows' = [rows EXCEPT ![i] = PaidOutside(@)]
    /\ UNCHANGED <<policy, transport, worker, late, provider, crashes>>

\* record_owner_stopped_credit: the Owner credited the player by hand, which is
\* recorded only for an attempt proven stopped before the final action.
RecordStoppedCredit(i) ==
    /\ rows[i].attempt = "cancelled_before_action"
    /\ rows[i].review = "open" /\ ~rows[i].paid_outside
    /\ rows' = [rows EXCEPT ![i] = PaidOutside(@)]
    /\ UNCHANGED <<policy, transport, worker, late, provider, crashes>>

-----------------------------------------------------------------------------
Init ==
    /\ rows = [i \in Intents |-> NewRow]
    /\ policy = "live" /\ transport = TRUE
    /\ worker = NewWorker("off") /\ late = {}
    /\ page = EmptyPage /\ allowance = [i \in Intents |-> "unused"]
    /\ posts = [i \in Intents |-> 0] /\ credited = {}
    /\ crashes = 0

WorkerStep ==
    \/ RunOnce \/ Rejected \/ LeaseAnswered \/ RequestFence \/ FenceAnswered
    \/ RouteConsumes \/ Uncertain \/ DialogSeen \/ DispatchRecorded \/ ModalConfirmed
    \/ PauseAnswered \/ Reset \/ Dismiss

OwnerStep ==
    \/ Authorize \/ StopPolicy \/ DisableTransport \/ ActivateTransport
    \/ \E i \in Intents : RecordStoppedCredit(i)

Next ==
    \/ WorkerStep \/ OwnerStep
    \/ Deliver \/ GiveUp \/ \E c \in late : Arrive(c) \/ Lose(c)
    \/ Crash \/ CloseReview \/ Launch \/ AuthorityExpires
    \/ \E i \in Intents : RouteForwards(i) \/ RouteBlocks(i)
    \/ \E i \in Intents : Credit(i) \/ DialogOpens(i) \/ Lapse(i)

Spec == Init /\ [][Next]_vars

\* The lease is the expected one, the answer is received.
Usable == (LeaseAnswered \/ PauseAnswered) /\ worker'.phase # "pause"

\* The runner goes on, the operator relaunches, clocks run, and what the runner
\* repeats until it works, a lease, a containment, a reset, works at last.
Fairness ==
    /\ WF_vars(WorkerStep \/ Deliver \/ GiveUp \/ Launch \/ CloseReview)
    /\ \A op \in {"lease", "contain"} : /\ SF_vars(worker.phase = op /\ Deliver)
                                       /\ SF_vars(worker.phase = op /\ Usable)
    /\ SF_vars(worker.phase = "reset" /\ Reset /\ worker'.reset = FALSE)
    /\ \A i \in Intents : WF_vars(Lapse(i))

FairSpec == Spec /\ Fairness

-----------------------------------------------------------------------------
(* Properties. *)

\* A payment is never credited twice: the companion presses Transfer once at
\* most, and never for a payment the Owner recorded as credited by hand, also
\* when a request it gave up on is executed later.
NeverPaidTwice ==
    \A i \in Intents :
        posts[i] + (IF rows[i].paid_outside THEN 1 ELSE 0) <= 1

\* While a deposit is being prepared and transferred the page shows and awaits
\* nothing of another: an earlier payment was confirmed, or isolated by the
\* broker and its page reset, before this one was leased.
PageIsOwn ==
    worker.phase \in {"prepare", "fence", "act", "watch"} =>
        page.sent \cup page.dialogs \subseteq {worker.lease}

\* The ledger says executed only of a deposit the provider credited, although
\* the proof is a dialog that names an amount and no deposit.
ExecutedIsCredited ==
    \A i \in Intents : rows[i].attempt = "confirmed_executed" => i \in credited

\* A player never has two transfers whose outcome is open, not even when the
\* first was contained and the lane went on with others.
OneDoubtPerPlayer ==
    \A i, j \in Intents :
        /\ PlayerOf[i] = PlayerOf[j]
        /\ posts[i] > 0 /\ rows[i].attempt # "confirmed_executed"
        /\ posts[j] > 0 /\ rows[j].attempt # "confirmed_executed"
        => i = j

\* A transfer leaves only while the ledger holds its deposit in doubt: fenced, or
\* under review when the route forwards a request after its worker gave up and
\* contained the deposit.  It never leaves for a deposit the ledger calls stopped
\* before the action, which the Owner may pay by hand, nor for one handed on to
\* reconciliation or called executed.
TransferOnlyInDoubt ==
    [][\A i \in Intents : posts'[i] > posts[i] =>
           rows[i].attempt \in {"final_action_fenced", "review_required"}]_vars

\* The lane as OneShotCredit promises it, with the player in the place of the
\* agent account: containment gives up the account's order, not the player's.
\* The permit is used when the route takes the allowance, while the deposit is
\* undecided; the transfer itself may leave after the deposit went to review.
Issued(i) == rows[i].attempt \in {"final_action_fenced", "reconciliation_required",
                                  "confirmed_executed", "review_required"}

PermitOf(i) ==
    IF ~Issued(i) THEN "unissued" ELSE IF allowance[i] = "unused" THEN "issued" ELSE "used"

LaneOf(i) == IF Issued(i) THEN PlayerOf[i] ELSE None

VerdictOf(i) ==
    CASE rows[i].attempt = "confirmed_executed"                             -> "executed"
      [] rows[i].attempt \in {"review_required", "cancelled_before_action"} -> "review"
      [] OTHER                                                              -> "open"

Promise == INSTANCE OneShotCredit WITH
    Agents  <- Players,
    permit  <- [i \in Intents |-> PermitOf(i)],
    lane    <- [i \in Intents |-> LaneOf(i)],
    verdict <- [i \in Intents |-> VerdictOf(i)]

LaneKeepsPromise == Promise!OneShotSpec

\* Whatever is lost, whoever crashes and however often the Owner pauses, a leased
\* deposit ends executed, cancelled or under review, as long as the transport is
\* not switched off for good: a dead launch strands no payment in the lane.
EveryDepositSettles ==
    <>[]transport => \A i \in Intents : []<>~Open(i)
=============================================================================
