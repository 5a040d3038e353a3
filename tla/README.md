# A TLA+ development of FetanAgent's deposit execution

FetanAgent takes a customer's payment (TeleBirr, receiver SMS, CBE Birr), verifies it, and credits
the customer's KemerBet player from a shared agent account. The credit is a click in a web page that
cannot be undone and whose answer can be lost. The programs around that click exist to make it
happen **at most once**, to call a deposit *executed* **only if its own credit exists**, and to leave
everything uncertain to a person. This directory models that core and the lanes around it, checks them
with TLC and proves their main invariants with TLAPS.

Paths below are relative to the repository; migrations are named by their timestamp under
`supabase/migrations/`.

## 1. Inventory

| component | state it keeps | operations | talks to |
|---|---|---|---|
| **Execution ledger** (`20260815175508`, `20260815203606`) | `deposit_intents`, `deposit_jobs`, `deposit_execution_attempts`, `execution_reconciliations`, `deposit_review_cases` | enqueue; lease execution; cancel before action; fence; require reconciliation; lease reconciliation (with three sweeps); record reconciliation | called by settlement and by the executor; guarded by triggers |
| **Private-live pilot** (`20260821151428`, `20260910170000`, `20260913112000`, `20260925213244`) | pilot revisions, reservations, feature switches | arm, activate, expire, stop, review a stopped paid job, recover an expired prepared lease | wraps enqueue, lease and fence with its authorization |
| **Executor runtime and runner** (`apps/executor/src`) | one runOnce's locals, the circuit of the process, a backoff | lease observation or work, prepare, fence, submit, hand off, observe, record | ledger by SQL; agent page by a browser |
| **Page driver and adapter** (`playwright-kemerbet-agent-page.ts`, `kemerbet-deposit-browser-adapter.ts`) | one allowance of the route handler, result dialog | fill, release the POST, read the result, read the history | KemerBet platform |
| **Verified settlement** (`20260816021101`) | payment claims | claim and enqueue in one transaction, with replay | intake, ledger |
| **Owner resolutions** (`20260926154350`, `20261011203435`, `20261023150000`, `20261026001036`, `20261029143500`) | review cases, manual payment cases, receipts | close a reviewed attempt, decide and complete a manual payment, record a credit of a stopped job | ledger, receiver SMS |
| **Routine execution** (`20261005090000` and later; `apps/windows-companion/src/routine-deposit-worker.ts`) | runtime events, pauses, broker requests; the worker's pause, containment and pending page reset | lease, fence, record dispatch, confirm modal, contain, pause | ledger; companion over signed HTTP |
| **Companion execution** (`execution-worker.ts`, `execution-v2-*-store.ts`, `execution-v2-crash-journal.ts`, `provider-route.ts`; bridge migration `20260914030000`) | a journal, an attempt chain and replay markers on the operator's workstation; assignment rows in the bridge | lease, authority, click, result, status; record, assess and clear evidence | device bridge over signed HTTP; agent page |
| **Activation epoch, emergency stop** (`20260910154104`) | epochs, control row | activate, revoke, emergency disable | switches, pilot |
| **Intake and verification ledger** (`20260808010418`) | submissions, verification attempts and evidence, claims | submit, lease verification, complete, claim | bot, verifier, settlement |
| **Receiver SMS** (`20261020211657`, `20261021103000`, `20261021110002`, `20261022111509`, `20261030202601`; `receiver-sms-settlement-runtime.ts`) | events, candidates, matches, holds, the route's control row | record an event, capture a candidate, match, settle or hold, expire, activate, stop | Android device, bot, routine lane, Owner |
| **Receiving phone** (`android/telebirr-verifier`: `ReceiverSms*.kt`, `VerifierForegroundService.kt`; `receiver-sms-upload-bridge.ts`, `receiver-sms-ingest-broker.ts`, `20261105212827`) | sealed, acknowledged and reviewed files; the service and its sessions; the phone's enrolments | capture a message, seal it, upload the oldest, acknowledge or set aside; pair, revoke | bridge and broker over signed HTTP, receiver SMS ledger |
| **Player validation** (`20261016132139`, `20261017115839`, `20261026143000`, `20261106005305`; bridge; `lookup-worker.ts`) | requests, assignments, selections; three files on the workstation | ask, reuse, claim, sign, release, accept; find, keep, submit, clear | bot, companion over signed HTTP |
| **Telegram actions** (`20260808130535`, `apps/bot`) | one-use nonces | issue and consume an action | API |
| **TeleBirr device brokers and bridge** | device state, assignments | pair, lease, report | Android verifier |
| **Domain package** (`packages/domain`) | none | state tables, verification window | everything |
| Admin, API, web, beta admission, maintenance, shadow worker, scripts, CBE Birr formats | rendering, authentication, deployment, parsing | | not modelled |

### What is hard here

* **Two clocks and a fence.** A worker's lease lapses by the database clock while the worker still
  prepares its page. Any other poll may then cancel the attempt. Whether the click can still happen
  is decided by the fence, in the database, and by a ten-second window on the worker's own clocks.
* **Lost replies.** Every call may succeed in the database and be lost on the way back: a lease
  nobody works on, a fence nobody was told about, a handoff that must be repeated by somebody else.
* **The platform is not transactional.** A released POST lands later, or never; a credit may appear
  after the deposit went to review, and somebody may credit the same player by hand meanwhile.
* **Crashes** forget everything in memory, the open circuit included.
* **Stops.** The owner stops a pilot, or it expires, at any moment between enqueue and settlement.
* **Two disks.** The companion's evidence is written file by file and must say, after any crash, what
  may already have been clicked, searched or signed; its directory may be torn or restored.
* **Requests that outlive their caller.** A signed command is executed after the companion gave up on
  it and went on, or after another launch took over.
* **Two halves of a payment.** The customer's claim and the receiver's message come in either order, in
  transactions that overlap, and the Owner may credit by hand what the machine is about to settle.
* **Two sessions over one directory.** A stopped service leaves its threads at work while the next one
  starts over the same files, and their locks are not the same.
* **Limits.** Eight leases of an observation job, six observations, one blocking attempt per agent.

`PROJECT.json` lists each hazard at the line where it bites, and the properties that would catch it.

## 2. The modules

| module | what it models | lines of code it stands for |
|---|---|---|
| `ExecutionLedger` | the ledger and the pilot's authority at the boundary of SQL commands | the migrations named above |
| `DepositExecutor` (extends it) | executor processes, the agent page and the platform around the ledger | `apps/executor/src` |
| `OneShotCredit` | what the whole promises about money: an abstract specification | none; it is a statement of intent |
| `FinalActionWindow` | the clocks of one final action, from the fence call to the POST | freshness guards of `apps/executor/src`, the fence and its adoption |
| `CompanionEvidence` | the companion's journal, attempt chain and markers as operators on a disk | `apps/windows-companion/src/execution-v2-*.ts` |
| `CompanionExecution` (extends it) | the guarded lane: bridge rows, companion worker, page route and platform | `execution-worker.ts`, `execution-handler.ts`, `20260914030000` |
| `RoutineLane` | the routine lane: broker commands, companion worker, page, Owner | `routine-deposit-worker.ts`, `20261005090000` and later |
| `PlayerValidation` | requests, bridge handlers, the companion's lookup worker and its files | `lookup-worker.ts`, the bridge, `20261016132139` and later |
| `VerifiedChoice` | what player validation promises a customer: an abstract specification | none |
| `ReceiverSmsSettlement` | claims, messages, matching, settlement and the Owner's cases | `20261020211657` to `20261030202601`, the settlement process |
| `OneCreditPerPayment` | what that settlement promises about a payment: an abstract specification | none |
| `ReceiverSmsOutbox` | the receiving phone's service, files and uploads, and the enrolment and record they meet | `ReceiverSms*.kt`, the upload bridge, `20261023181039` |
| `SealedMessages` | what the phone and the ledger promise about a message: an abstract specification | none |
| `*Proofs` | theorems about a module for all values of its constants | |
| `MC*` | finite instances for TLC | |

### 2.1 ExecutionLedger

`deposits[i]` is one record per intent that gathers the rows of the five tables: the intent's status,
its only `execute_deposit` job, its only attempt, the latest `reconcile_execution` job with its
`attempt_count` (`leases`), the number of recorded observations, the reference that confirmed it and
whether a review case was opened. One attempt per intent and one execution job per intent are not
simplifications: the indexes `deposit_execution_attempts_one_blocking_intent_idx` and the job key
`deposit-execution:v1:<intent>` with `max_attempts = 1` make them so. `pilot` is the revision the
switches point to. Time is abstracted to the comparisons with `clock_timestamp()`: a lease is
current or lapsed (`jobLapsed`, `reconLapsed`), a follow-up is `deferred` until its `run_after`.

Each SQL command is one action because it is one transaction, and because commands that touch the
same deposit serialize on the feature-switch rows or on the intent's advisory lock. The commands, by
action:

| action | code |
|---|---|
| `EnqueueVerifiedDeposit` | `enqueue_verified_deposit_execution`, as `finalize_verified_deposit_and_enqueue_execution` calls it |
| `LeaseNextExecution`, `RecoverExpiredPrepared` | `lease_next_private_live_deposit_execution`, whose first step is `recover_expired_private_live_prepared` |
| `CancelBeforeAction`, `FenceFinalAction` | the executor's two commands on a prepared attempt |
| `RequireReconciliation` | handoff by the holder (with the modal fact) or by crash recovery (without) |
| `PollReconciliation` | all four steps of `lease_next_deposit_execution_reconciliation`: adopt a lapsed fence, requeue a lapsed lease, exhaust one, lease one due job. The sweeps are part of the action; each takes one row if there is one, as the code does with `limit 1` |
| `RecordReconciliation` | `record_deposit_execution_reconciliation` with its three outcomes and the sixth-observation rule |
| `ArmPilot`, `ActivateSwitches`, `PilotExpires`, `StopPilot`, `ReviewStoppedPilotJob` | the owner |
| `LapseExecutionLease`, `LapseReconciliationLease`, `FollowUpDue`, `RevokeEligibility`, `RetireAgent` | clocks and administration |

`Next` lets anybody call any command with any observation at any time, so what holds here holds
whatever the workers do. Replays that change nothing (a repeated fence returns
`first_fence_acquired = false`) are stutters and are not actions.

An ambiguous observation recorded by a worker sends the intent to `execution_review` without opening
a review case, while the exhausted lease and the cancelled attempt open one. The model keeps the
difference: `DetailsAgree` claims a case only for cancelled work.

### 2.2 DepositExecutor

A worker is where it is in `runOnce` (`place`) and what it holds. Each `await` is one or more actions;
between two of them anything may happen. The order is the code's: observation first
(`LeaseReconciliation`), then fresh work (`LeaseExecution`, `RecoverPrepared`, `NothingToLease`);
`Prepare` or `CancelLease`; `Fence`; `ReleasePost` or `WithholdPost`; `ReadResult`; `HandOff`; and for
an observation `Observe` then `Record`. `OpenCircuit` is the runner's `circuitReason`: it stays open
until the operator deploys the process anew.

* `Lost` pairs a ledger action with a reply that never arrives, `CallLost` is a call that never got
  there, `Crash` forgets everything; together they are bounded by `MaxFaults`.
* `LeaseUnderOtherManifest` is the adapter's rejection of a lease whose authorization does not
  belong to the manifest the process was started with: the lease has been taken by then.
* `ReleasePost` requires the fence not to have lapsed. In the code the worker measures ten seconds
  on a monotonic clock from *before* the fence call, and the database's window starts when that call
  runs; so the worker's window ends first. That inclusion is the one quantitative fact the guard
  stands for, and it is the theorem `PostsAreInTime` about `FinalActionWindow` (2.4).
* `credits` is the agent's history. `during` is the deposit whose fence-to-handoff window contains
  the credit; `LandCredit` and `StrayCredit` are the platform's and are external to the code.
* `ReadHistory` is the adapter's `reconcile`: rows of the target player in the window, `confirmed`
  only when there is exactly one, it matches in full, and the handoff asserted the modal fact.
* A read may also miss everything (`Unseen`), since the history page can be stale or unavailable.

Assumption about the platform: when the result dialog shows the player's new balance, the agent's
history contains the row from then on or later, with a reference of its own.

### 2.3 OneShotCredit

Permits, lanes, credits and verdicts; no database, lease, worker or browser. `DepositExecutor` maps
its state to it (`Promise`): a permit is issued by the fence, used by the POST; a verdict is the
intent's final status. `KeepsPromise` says that each step of the executor is a step of it or changes
nothing of it.

### 2.4 FinalActionWindow

Three clocks of one rate: PostgreSQL's (`clock`), the worker's wall clock (`wall`) and its monotonic
clock (`mono`). The wall clock may be stepped either way (`StepWall`); the monotonic clock stands still
while the machine sleeps (`Sleep`). The database finds the lease current and stamps the fence later, when
its locks are granted (`CheckLease`, `WriteFence`); crash recovery adopts the fence when its window is
over (`Adopt`). The worker reads both its clocks five times before the click (`Check`) and once more in the
route handler, synchronously with letting the POST go (`RouteRequest`). A read ends the action unless all
three measurements agree: the elapsed monotonic time since before the fence call (`ElapsedShort`), the two
server dates on the wall clock (`WallFresh`), and a deadline set at the first read with both clocks moving
forward (`ClocksAgree`). The adapter's second guard of the same dates is left out: it only withholds more.

`PostInTime` has one exception, and it is real: a machine that slept *and* whose wall clock is behind the
database's may let a late POST go. One fault is covered by the other clock, both at once are not. What such
a POST could do is limited by the handoff, which then belongs to somebody else: nobody fences again and the
credit can only be found by observation.

### 2.5 CompanionEvidence and CompanionExecution

The Windows companion works on one assignment at a time. `CompanionEvidence` says what each store does to
the disk, as a set of possible results: done, refused, or failed before, within or after its effect
(`PersistJournal`, `StorePart`, `Consume`, the clearing operations, and what a start reads back).
`CompanionExecution` runs the worker over it, one action per await: poll, enrol, observe, prepare, ask the
bridge for authority, mark it consumed, write *fence consumed*, write *final action started*, click, read,
write the result, submit, ask for the status, clear. `Boot` is the start-up assessment that decides between
polling, resubmitting, reconciling and failing closed. The bridge's rows follow the handler's transactions;
requests stay on the `wire` as long as they like, so a retry and a late original can both arrive.

* The route (`RouteConsumes`, `RouteForwards`) and the worker's timer (`GiveUp`) run beside each other: the
  request may be forwarded after the worker gave up and called the outcome uncertain.
* `TakeBackup`/`RestoreBackup` put an older data directory in place while the worker is down. Restoring the
  memory of a running machine is out of the model.
* A lapsed authority claim adopted by another handler cannot be observed: acceptance is refused after expiry.
* `Observe` may also come after the assignment's window is over; observation has no deadline.

### 2.6 RoutineLane

One launch of the companion leases paid deposits of one account over signed HTTP. Each command is one
transaction of the broker and one action (`Execute`); `Deliver` is a command whose caller still waits,
`GiveUp` is the caller's fifteen seconds being over, `Arrive` is the abandoned request executed later, `Lose`
the one that never is. A command repeated under its request id is answered from the broker's ledger and is
the same arrival.

* The route of the page runs beside the worker. The page's request takes the allowance before the route
  first waits (`RouteConsumes`, `consumeExactRequest`); the route then reads three headers and asks nothing but
  whether the authority is fresh (`RouteForwards`, `RouteBlocks`, `provider-route.ts:96-111`). When the click
  throws meanwhile, `clear()` drops an allowance nobody took and cannot recall one that was taken: the worker
  contains the deposit, resets the page and may be at work on the next one when the transfer leaves. It then
  leaves for a deposit under review, which `TransferOnlyInDoubt` allows; its page no longer awaits the reply.
* The refinement maps the permit to the allowance: it is used when the route takes it, while the deposit is
  undecided, as in `CompanionExecution`. When the transfer itself may leave is `TransferOnlyInDoubt`'s question.
* The end of a launch, also by its operator, ends what the route holds: the page is gone, and an aborted signal
  ends the freshness. While a request is held the broker's window is not over, for the authority is measured
  from before the fence was asked for (`Lapse`; the quantitative fact is that of 2.4).
* `page` holds the transfers and dialogs of this launch. The dialog that confirms a transfer names no deposit,
  so it is a set of deposits here and `PageIsOwn` says that it only ever holds the right one.
* Containment (`Contained`) cancels an unfenced attempt or isolates a fenced one in review, in one
  transaction, and the lane is free; `Reset` must reload the page before the next lease.
* A lease that returns nothing stands for an empty queue, a switch that is off, a draining release and a
  refused assessment. Certificate expiry and the five-minute validity of signed HTTP are abstracted: a late
  arrival is allowed at any time, which over-approximates.
* A pause command of the companion pauses the Owner's policy, the Owner stops it (`StopPolicy`). He may authorize
  a paused policy again at any time, a stopped one only when every routine deposit is settled (`Authorize`). He
  records credits made by hand of deposits that were cancelled before the action (`RecordStoppedCredit`). At this commit no command closes an isolated
  `review_required` attempt: its player stays blocked for the lane (`Admissible`).
* A containment that arrives late for a deposit already credited by hand opens a review again; the row of
  `owner_manual_payment_cases` prevents a second recording, hence `paid_outside`.
* The broker's `reconcile`, `complete` and `confirm_history` operations are not called by this worker.

### 2.7 PlayerValidation and VerifiedChoice

A customer's message becomes a request (`Ask`) or selects a player verified before (`Reuse`). A bridge
handler has several transactions, each one action: `Claim`, `Sign`, `Complete`, `Release` for an assignment,
`Accept` and `Confirm` for a result. A handler goes on after its caller gave up (`GiveUp`, `Drop`). The
companion keeps the assignment, a *started* marker and the signed result in three files. `Crash` stops it
between any two writes, leaves any of the files it was removing (`LeftBehind`), and half of one if
`TornWrites`; a failed write is a crash and a restart.

* A repeated message and a player already pending change nothing and are stutters. `Ask` may happen although
  the player became eligible since the bot looked.
* One `Find` is one search cycle; inside it `executeSingleLookup` may retry the page.
* There is one clock; the thirty seconds of allowed skew are abstracted. Replies *in progress*, *refused*,
  401, 503 and 204 all leave the companion where it was and are one reply, `unavailable`.
* The claim takes the oldest pending request and finds nothing while that one's identity or customer is not
  active (`20261016132139:294-307`), which would hold up every later request. No command of the repository
  deactivates either, so in the model all are active and `EveryRequestDecided` says nothing of that case.
* Accounts made by registration, certificate revocation, the legacy readiness hold and two messages of the
  same millisecond are left out.

`VerifiedChoice` is the promise to the customer: only the latest wish is fulfilled, only with a player the
provider shows, and the Owner's revocation is only undone by him.

### 2.8 ReceiverSmsSettlement and OneCreditPerPayment

One row of state per table: `submissions` are the claims in the order of `submitted_at`, `events` the
messages (one per reference), `matches`, `holds`, the Owner's `cases`, and `jobs`, which is the deposit a
match's lineage points to, as the ledger sees it.

| action | code |
|---|---|
| `Capture` | `capture_telegram_receiver_sms_candidate`, which matches at once if the message is there |
| `InsertEvent`, `CommitEvent`, `Contradict` | `record_receiver_sms_payment_event` and its trigger, which calls `match_receiver_sms_payment` |
| `HoldUnanswered`, `SettleNext`, `HoldUnsettled` | the three outcomes of `settle_next_receiver_sms_match`, with the checks `finalize_receiver_sms_match` repeats |
| `MoveExpired` | `move_expired_receiver_sms_to_owner`, called by pg_cron |
| `Lease`, `LaneStep` | `assess_receiver_sms_execution_job` and the routine lane, reduced to the statuses of a job |
| `Decide`, `Complete`, `CompleteUnclaimed`, `RecordStoppedCredit` | the Owner's commands on manual payments |
| `Activate`, `Stop` | the route's switch; activation sets a new cutover |

* All commands take one advisory lock and are atomic, but for the arrival of a message: its trigger reads the
  clock and the route's switch, waits for the lock of the reference and matches with what it read before.
  `lag` is that distance; a statement timeout bounds it by a tick.
* Time is the age of a row, in ticks. It stops growing where no comparison tells it from a greater one, so
  the state space is finite. The sixty minutes of every window are `Hour` ticks.
* A claim nobody heard of is held only if it is the first of its reference: `20261028231519` adds
  `receiver_sms_duplicate_state(candidate.id) = 'none'` to the text of `settle_next_receiver_sms_match`.
* `doubtful` gathers what turns a ready match to review: an amount outside the policy, a contradicting
  message, a replaced receiver.
* Any match may also fail the checks of customer, enrolment and policy, hence `HoldUnsettled` has no
  condition of its own.
* Left out: the one-time resume after the incident of `20261023104500`, claims with a TeleBirr proof of the
  earlier route, changes of the amount policy and the notices to customers.

`OneCreditPerPayment` is the promise: a payment belongs to who first claimed it, and is credited once, by the
machine or by hand but never by both. A credit by hand beside a job that was or may be sent maps to a state
the promise does not have.

### 2.9 ReceiverSmsOutbox and SealedMessages

A session of the foreground service has a thread that captures and one that uploads. `sealed`, `acks` and
`reviews` are the three kinds of files in its directory and `temps` the temporary ones; a step of a thread is
what it does to one file name, since names appear by an atomic rename.

| action | code |
|---|---|
| `Start`, `StartFails`, `Inspect`, `InspectFails` | `ReceiverSmsRuntimeComposition.create` and the `init` of the outbox, whose sweep and inspection of the directory are apart |
| `Stop`, `HeartbeatRefused`, `Destroy`, `OperatorStart`, `Crash` | the service; a sticky one is started again |
| `Miss`, `Stage`, `Seal`, `WriteFails` | the broadcast receiver and `stage` |
| `Cycle`, `TimeOut`, `Archive`, `Acknowledge`, `Mark`, `Close` | `ReceiverSmsPhoneUpload.run` with `nextPending`, `archiveForReview` and the three writes of `closeRecord` |
| `Admit`, `Record`, `RecordLate` | the bridge's check of the enrolment; the broker's second one with `record_receiver_sms_payment_event` |
| `Pair`, `Revoke` | the Owner's enrolment of the phone |

* `@Synchronized` excludes only methods of one outbox. `current` is the session of the running service; the
  other one may still be writing, and its temporary file makes the directory fail inspection, so that
  captured messages are missed and a start may turn the service off. That is what the code does.
* An upload carries the enrolment in force when it was signed (`era`), because the server refuses what was
  signed before the enrolment it finds, and because the ledger's replay compares the enrolment. The time of
  signing itself differs in every upload and is not compared.
* `fast` is a phone whose clock is ahead of the server's by more than five seconds: everything is refused.
* A payment that no provider or account in force covers makes the record raise, which the phone sees as 503
  and tries again, five hours long. The comment at `ReceiverSmsPhoneUpload.kt:122` says that one rejected
  event must not block every later message. The code keeps it for what the server refuses with 400, 403 or
  409; a message answered 503 does block the others until its time is over. `QueueMovesOn` excuses exactly
  this. It has no run of its own: a block that lasts for ever would need a clock that stands still.
* The comment at `ReceiverSmsEncryptedOutbox.kt:16` says that a message stays sealed until the server
  acknowledges it; a message also leaves after five hours, or to review. `MessageIsKept` states what
  holds.
* Left out: messages whose fields cannot be read (set aside without an upload), a clock that lags (an upload
  signed just after pairing may be refused), a queue of 512 messages or a directory of 2,048 files, of which
  reviews are never removed, and acknowledgements removed after 30 days.

`SealedMessages` is the promise: a sealed message stays until the ledger has its payment, it was kept aside, or
it was held in vain for the whole time; what the ledger has stays there. A message the phone closed and the
ledger has nothing of maps to a fate the promise does not have.

## 3. What is checked

| run | instance | questions |
|---|---|---|
| `ledger` | 2 deposits, 2 agents, 2 references, 2 revisions, 3 observations, 2 leases | types; one blocking attempt per agent; rows correspond; only the current revision is at work; no observation stranded; attempts advance along the trigger's graph; a handoff and a stop are final |
| `executor` | 2 deposits on 1 agent, 2 workers, 2 faults, 1 credit by hand, 3 references | lanes held while a credit may land; one hand on the agent; at most one POST; cancelled was never posted; the promise (`OneShotCredit`) |
| `executor_liveness` | 1 deposit, 2 workers, 2 revisions, 1 fault | a fenced deposit settles; a prepared one moves on |
| `action_window` | a window of 3 ticks, leases ending at 1, 2, 4 or 7, 2 reads before the route handler, 2 wall steps, 2 ticks asleep, 7 ticks in all | the POST is in time |
| `companion` | 2 assignments of one account, 2 faults, 1 restored directory | one POST; no POST is reported as none; a POST is remembered; no second deposit in doubt; the promise (`OneShotCredit`) |
| `companion_absence` | no fault | a disagreement with the package's documentation, see below |
| `routine_lane` | 2 deposits of 1 player, 2 abandoned requests, 1 crash | nothing paid twice; one doubt per player; a transfer leaves only of a deposit in doubt; the promise (`OneShotCredit`) |
| `routine_liveness` | 2 deposits of 2 players, 2 crashes, no abandoned request | the page shows its own deposit; executed means credited; every leased deposit settles |
| `player_validation` | 1 customer, 2 players, 3 messages, 2 assignments, 2 handlers, 2 faults, torn files | one active assignment; one Find each; the result is kept until decided; signed is kept; the promise (`VerifiedChoice`) |
| `player_liveness` | 2 customers, 2 messages, 1 fault, files written whole | every request is decided |
| `settlement` | 1 payment, 2 customers, 2 claims, an hour of 2 ticks | no match is missed; the promise (`OneCreditPerPayment`); no first claim and no queued job waits for ever |
| `sms_outbox` | 2 messages of 1 or 2 payments, in the same or other words, covered or not; 2 enrolments, a hold of 1 tick, 2 disturbances | a retry is a replay; the promise (`SealedMessages`); no message blocks the queue |

Deadlock is checked for the routine lane, whose loop never ends. It is not checked elsewhere: revisions,
messages, assignments and deposits are bounded and may all be settled, and a companion that fails closed
waits for a person, so these systems really stop; a final action ends when it is released, withheld or
refused.

**Disagreements found.** The run `companion_absence` ends in a counterexample of a sentence of the repository
its code does not keep: the contracts' README says that absence or ambiguity remains uncertain; the status
function reports *failed* for an attempt whose latest observation did not see it, and the companion clears.

Smaller ones were met while modelling and have no run of their own; the models follow the code. The outbox
says of itself that a message stays sealed until the server acknowledges it; one that was not uploaded for
five hours is deleted (2.9). The same README of the contracts promises that results are accepted late, but the device handler verifies the assignment as currently
valid and answers 401 after its expiry. A changed player is said to release the old assignment, but choosing an
already verified player leaves it active until it expires. The acceptance of a result is documented as
repeatable, but the repetition of one that was found and then held for review raises.

**Why the bounds are enough.** Interference is between two deposits (a lane, a reference, a window)
or between two workers (a lease), so two of each. `ObservationLimit` is 6 and `LeaseLimit` 8 in the
code; all comparisons are with the limit or one below it, and 2 and 3 put runs below, at and past each
boundary; the proofs cover every value. Two revisions are needed for work to meet the wrong one. Two
faults let a lost reply be followed by a crash of the process that recovers it. `Revocable`,
`Retirable`, `MaxRevisions`, `MaxFaults` and `MaxStrayCredits` are bounds of the instances only.
Symmetry is used in the safety runs only. In `action_window` the reads differ only in being the first one
(which sets the deadline) or a later one, so two stand for five; the ends of the lease lie before, inside
and after the window of a fence written early or late, and seven ticks let a reply come after both.

In the companion's lanes two of each assignment, deposit, player and handler are the pairs that interfere
(a retry and a late original, a lane and its successor). Two faults let a failed write be followed by a
crash during its recovery. Two abandoned requests let a late fence meet a late containment; two deposits let a request the route holds
leave while the next deposit is being transferred. Three messages
are a wish, its replacement and a reuse. `MaxFaults`, `MaxRestores`, `MaxLate`, `MaxCrashes`,
`MaxMessages` and `MaxAssignments` are bounds of the instances only; the proofs cover every value.

In `settlement` payments do not interfere: the locks and all conditions are per reference, but for the
poller's order, which is between claims. Two claims of two customers are a first claimant and a rival. An hour
of two ticks has a time before, at and past each boundary and room for a trigger one tick late. The proofs
cover any number of payments, customers and claims and any hour.

In `sms_outbox` two messages are one and the one behind it, or two tellings of one payment. Two disturbances
let a lost call be followed by a crash or a new pairing; a second enrolment is what makes an upload one of an
earlier time. A hold of one tick has a state before and at its end. `MaxEras` and `MaxDisturbances` bound the
instance only.

**Fairness** (`FairExecutorSpec`). Weak fairness of a worker's next step: the runner's loop never
stops unless its circuit opens, and every await has a timeout. Weak fairness of `Restart`:
`infra/compose.executor.yaml` restarts the container unless stopped. Weak fairness of lapsing and
`FollowUpDue`: clocks advance. Nobody is obliged to close a circuit, to enqueue, or to let a POST
land, so both liveness properties end in `\/ NobodyWorks`, all circuits open, which is the designed
stop.

*Routine*: weak fairness of the worker, of delivery or giving up, of the operator's
relaunch and of lapsing; strong fairness of a delivered and usable lease and containment and of a page reset
that succeeds, because the worker retries these without end and its transport is assumed to work again and
again; the property is claimed while the transport stays on, and for `MaxLate = 0`: a stream of late
requests can keep cancelling. *Player*: weak fairness of the companion, each handler and the clocks;
`Spent` excuses the exhaustion of the instance's assignment ids, and torn files are excluded because a torn
assignment file blocks the lane until somebody removes it. *Settlement*: weak fairness of the poller, whose
process is restarted and asks every few seconds; of the expiry, which pg_cron runs every minute; of a
trigger's end, by the statement timeout; and of time. Neither the lane, the Owner nor the administrator need
act: `EverySubmissionDecided` is claimed while the route is on, `QueuedEnds` on or off. *Outbox*: weak fairness
of a wanted service's start (Android restarts a sticky service), of its loop, of its threads and of the
server's answers; nothing is assumed of the operator, the Owner, the heartbeat or time.

Every property has a mutant of the code's definitions in the module, an off-by-one or a dropped guard
of the plausible kind, listed in `PROJECT.json`, under which its run fails.

## 4. What is proved

`ExecutionLedgerProofs` proves, for any sets of deposits, agents and references and any limits, from the four
assumptions of `ExecutionLedger` (`None` is no element of the sets; the limits are positive, `MaxRevisions`
natural):

| theorem | statement |
|---|---|
| `LedgerInvariant` | the inductive invariant `LedgerInv` |
| `TypesHold`, `LanesAreSerialized`, `RowsCorrespond`, `WorkIsOfTheCurrentRevision`, `NoObservationIsStranded` | the five invariants of run `ledger` |
| `HandoffsAreFinal`, `StopsAreFinal` | its two action properties |
| `AttemptsOnlyAdvance` | an attempt goes along the graph its trigger allows |

`DepositExecutorProofs` extends it to the whole executor, for any number of workers and, with
`FaultsAssumption` (`MaxFaults` natural), of faults. A behaviour of the executor is one of the ledger, so
`LedgerInv` holds in it, and what is added relates the workers and the platform to the ledger:

| theorem | statement |
|---|---|
| `ExecutorTypesHold` | the type invariant |
| `OnePostEver`, `CancelledNeverPosted`, `LanesAreHeld`, `OneHand` | the four invariants of run `executor` |
| `PromiseIsKept` | `KeepsPromise`: the executor implements `OneShotCredit` |

Its inductive invariant `ExecutorInv` is needed because none of these follows from the ledger or from a worker
alone. A stale worker acts on what it was told long ago, so `WorkersInOrder` says that what it believes is
still so: who holds a grant is past the fence and has not posted, who asserts the dialog saw its own credit.
`OneHolder` says that the first fence was granted to one worker, however many hold the same lease.
`MoneyInOrder` orders the money: credited, then posted before, then fenced before, and a modal fact only of an
own credit. The steps are sorted by what they may disturb: a *calm* step of the ledger (`CalmStep`: no fence,
no dialog, at most one deposit settled), the fence, the release of the POST, its answer, the handoff and the
platform's own steps. The refinement uses the same sorting: a calm step confirms, refers or changes nothing
(`CalmKeepsPromise`), the fence issues (`FenceIssues`, where `LaneSerialized` gives that everybody before in
that lane was executed) and the release uses (`ReleaseUses`).

`FinalActionWindowProofs` proves, for any window, number of reads, lease, skew and steps of the wall clock
(integers) and any bounds:

| theorem | statement |
|---|---|
| `WindowTypesHold` | the type invariant |
| `PostsAreInTime` | `PostInTime`, the property of run `action_window` |

Its invariant adds to the types that the monotonic time since the request is at least the database's time
since the fence while the machine has not slept (`Measured`), and that a fence is adopted only when its window
is over (`AdoptedLate`). A release then is in time by `ElapsedShort` when the machine did not sleep, and by
`WallFresh` when the wall clock is not behind.

| `CompanionExecutionProofs` | |
|---|---|
| `TypeCorrect` | the type invariant |
| `OnePost` | `AtMostOnePost`: one POST for each assignment, over any number of crashes and restores |
| `OneInDoubt` | `NeverTwiceInDoubt`: no second deposit while one is in doubt |
| `WhatLeftIsRemembered` | `PostedIsRemembered`: what left is in the journal until its end was told, unless the directory was restored |
| `ReportsOfNoActionAreTrue` | `NoLocalActionIsTrue`: of a deposit reported as not acted upon nothing left, and nothing can leave later |
| `PromiseIsKept` | `CompanionKeepsPromise`: the companion implements `OneShotCredit` |

| `RoutineLaneProofs` | |
|---|---|
| `TypeCorrect` | the type invariant |
| `PaidOnce`, `OneDoubt` | the two invariants of run `routine_lane` |
| `OnlyInDoubt` | its action property `TransferOnlyInDoubt` |
| `OwnPage`, `ExecutedMeansCredited` | the two invariants of run `routine_liveness` |
| `PromiseIsKept` | `LaneKeepsPromise`: broker, worker and route together implement `OneShotCredit`; the permit is used when the route takes the allowance |

| `PlayerValidationProofs` | |
|---|---|
| `TypeCorrect` | the type invariant |
| `ActiveOnce`, `FindOnce`, `ResultKept` | the three invariants of run `player_validation` |
| `FoundSeen` | `FoundWasSeen`: a player recorded as found was returned by a search of this very assignment (no run checks it) |
| `SignedStays` | its action property `SignedIsKept` |
| `PromiseIsKept` | `ChoiceIsVerified`: player validation implements `VerifiedChoice` |

| `ReceiverSmsSettlementProofs` | |
|---|---|
| `TypeCorrect` | the type invariant |
| `NoneMissed` | `NoMissedMatch` |
| `PaidOnce` | `PaysOnce`: the settlement implements `OneCreditPerPayment` |

| `ReceiverSmsOutboxProofs` | |
|---|---|
| `TypeCorrect` | the type invariant |
| `RetriesAreReplays` | `OwnRetryIsReplay`, the invariant of run `sms_outbox` |
| `PromiseIsKept` | `MessageIsKept`: the outbox, the bridge and the ledger implement `SealedMessages` |

Each of these modules proves its type invariant; only the run `ledger` checks it with TLC too, since elsewhere
a run that checked it would say nothing the proof does not.

`OnePost` rests on nonces. The proof's `MoneyInv` says that the nonces a worker draws are new (`NoncesDrawn`),
that an authority in hand and not yet marked is that of the bridge's one fence (`AuthorityIsFresh`), that
posts are counted by what was consumed (`PostsCounted`) and that nothing moves while the worker is down
(`DownIsQuiet`). Restoring a directory can take the markers back, not the nonce. `WhatLeftIsRemembered` needs
to know that who is about to click is on record (`ActionsAreRecorded`) and that a submission is only claimed,
sent, recorded or cleared once the route is done (`SubmissionIsOver`). `ReportsOfNoActionAreTrue` rests on
`ReportInv`: every result on the wire carries the nonce of its assignment's fence, one still being worked on
has none there, and an outcome without action is only given while the route has taken nothing. `PromiseIsKept`
then goes by what each step moves: the fence issues a permit in a lane nobody is in doubt in, the route's
release of the request uses it, a landing credits (`LandingCredits`), an observation confirms or refers
(`ObservationSettles`), and every other step moves nothing that `OneShotCredit` sees (`RestStutters`). The
assumption `NoneIsNoAccount` says that the account is not the null value: a lane is taken by it or by nobody.

In the routine lane `NeverPaidTwice` needs the broker and the worker together: who holds the lane (`LaneInv`),
what a command may still find and that a transfer is sent only of an allowance that was taken (`BrokerInv`),
and that the worker is given only a deposit whose allowance was never taken (`WorkerInv`).
`PageIsOwn` needs in addition that a page is clean outside a transfer (`CleanInv`) and that a dialog is of a
credited deposit (`CreditInv`). The refinement asks for more than these: a permit may only be used while its
deposit is open, but the worker acts on an answer that may be old, and an abandoned containment may arrive at
any time. `AuthorityInv` closes that gap. What the worker has to contain it holds until the broker has settled
it (`HoldInv`), so a late request of this launch that could end an attempt is about a deposit being contained
or over (`LateInv`), and while the worker's window is open its fence stands (`FenceInv`). Attempts only
advance, and only the one open row moves anything the promise sees. `OnlyInDoubt` follows the request on from
there (`RouteInv`): while the route holds it the fence stands or the deposit went to review, since only the
record of a success hands a fence on (`CommandKeepsDoubt`), and a success is of a deposit whose request left.

For player validation the server's steps and the companion's are separated by what they may do to the other
side (`RowsAdvance`, `Submission`, `CallsAdvance`): rows only advance, a result in a call is one the companion
has on disk. `FindNotRepeated` then follows from the three files alone (`FindInv`), and
`ResultKeptUntilDecided` from `SubmitInv`. `SignedStays` needs `RequestInv` too: a new message withdraws the
assignment of the request it supersedes, which is never the new message itself, because assignments are for
messages handled before. For the refinement `RequestInv` says that a customer has one pending request, so its
wish is determined (`WishNow`), and `IssuedInv` that whatever reached the companion was issued, for a message
whose player is fixed (`WishesStay`): a player found was therefore shown for the very request that is decided.

For the settlement `SafeInv` says that only the first claim of a payment is matched and only a match has a job
(`ClaimInv`), and that a payment with a case has no job that may be sent (`CaseInv`). `NoneMissed` follows
from it by what each action can do to a first claim that waits. The refinement is proved in full: `Described`
computes the mapped state of a payment from its first claim, so that each step of the code is shown to move
one payment as the promise allows (`OneMoves`), several at once (`SomeMove`, the expiry), or none.

For the outbox `OutboxInv` says where a message is at every write: a message whose file was written is in its
file, under review or in the ledger, an uploading thread that was accepted and every tombstone are of a
message the ledger has (`UploadsInOrder`, `FilesInOrder`), and the ledger's events are of an enrolment that
was in force (`EventsInOrder`). `RetriesAreReplays` needs `RefusalsInOrder`: while enrolment, service and
clock are steady only a message that another one contradicts is refused. The refinement reads a message's fate
off these places: the ledger only advances, files only move onward, and each fate moves as the promise allows
(`FateMoves`).

In the ledger none of the invariants is inductive alone. `LanesAreSerialized` needs the revision: a lease goes
to the agent of the current pilot, so a queued row must be of that revision, and arming must have found
nothing open; `StopsAreFinal` needs that a reservation is never of a future revision. So `LedgerInv` is
`TypeOK`, each row in order (`RowsOK`), the pilot's agent known once armed (`PilotKnown`), reservations
bounded by the current revision (`ReservationsKnown`), and the three cross-row invariants together.

The ledger's argument has three layers. (1) Each row transformation (`EnqueuedOK`, `FencedOK`, `HandedOffOK`,
...) keeps a row in order. (2) `StepsOfTheLedger` sorts every step of `Next` into three kinds: a step of the
pilot alone, a lease, and a *quiet* step, which changes rows without taking up a lane or fresh work. (3) The
cross-row invariants are shown to survive each kind once. The action properties follow from what the row
transformations do (`Follows`).

**Only model-checked:** liveness, which is out of the prover's reach: `FencedSettles`, `PreparedMovesOn`,
`EveryDepositSettles`, `EveryRequestDecided`, `EverySubmissionDecided`, `QueuedEnds` and `QueueMovesOn`. Every
safety invariant, action property and refinement of a passing run has its theorem. The run `companion_absence`
shows a violation and has none.

## 5. Not modelled, and why

The Owner's resolution of a fenced test (`20261011203435`) accepts only a review without a case, which no
containment leaves since `20261024083926`. Proofs, digests, tokens and UUIDs (equality of identities is structural in the records); the
order `priority, run_after, created_at` in which due rows are taken (any row may be); lock waits
(a deadlock between commands is aborted by PostgreSQL and appears as a lost call); navigation and
selectors (success or failure of `Prepare`); formats and rendering. Components with status
`not_modelled` in `PROJECT.json` are either out of scope for the reason given there or next in the plan.

## 6. Plan

In order of importance, what is left:

1. `VerifiedSettlement`: claims, enqueue and replay, over the intake ledger.
2. Proofs: consequences of the promises that span components, such as the number of posts per deposit
   that `OneShotCredit` allows.
3. `TelegramActions`, `DeviceBroker` with `ActivationEpoch`; the domain package's tables and verification
   window as operators against a reference definition.
