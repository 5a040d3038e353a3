-------------------------- MODULE PlayerValidation --------------------------
(***************************************************************************)
(* Automatic validation of the player a Telegram customer names.           *)
(*                                                                         *)
(* The customer's message becomes a request in PostgreSQL.  The bridge     *)
(* leases the oldest pending request to the Windows companion as a signed  *)
(* assignment; the companion searches the player once at the provider and  *)
(* submits a signed result, which selects the player or ends in review.    *)
(*                                                                         *)
(* A bridge call is a handler with several transactions; each transaction  *)
(* is one action.  A handler goes on after the companion gave up on it.    *)
(* The companion keeps three files and may stop between any two writes.    *)
(* Repeated deliveries of one message and a player already pending change  *)
(* nothing and are not steps.  Companion and database read one clock.      *)
(***************************************************************************)
EXTENDS Naturals, FiniteSets

CONSTANTS
    Customers,
    Players,
    Shown,                \* the players the provider shows for this agent
    Handlers,             \* calls the bridge can have in flight
    MaxMessages,          \* bound: player messages of all customers
    MaxAssignments,       \* bound: assignments issued
    MaxFaults,            \* bound: crashes, lost calls, failures to sign or to search
    TornWrites,           \* a crash may leave half a file
    None,                 \* null, or no file
    Torn                  \* a file that is not valid JSON

ASSUME ShownAssumption == Shown \subseteq Players
ASSUME BoundsAssumption == MaxMessages \in Nat /\ MaxAssignments \in Nat /\ MaxFaults \in Nat
ASSUME NullAssumption == /\ None # Torn
                         /\ None \notin Customers \cup Players \cup Handlers \cup Nat
                         /\ Torn \notin Nat
ASSUME TornAssumption == TornWrites \in BOOLEAN

VARIABLES
    requests,             \* telegram_player_validation_requests, by message
    sent,                 \* messages handled so far
    selected,             \* telegram_player_selections
    account,              \* the player's account and its eligibility decision
    rows,                 \* telegram_player_validation_assignments
    calls,                \* the handlers of the bridge
    worker,               \* the companion's process
    disk,                 \* its three files
    history,              \* searches and results of each assignment
    faults

customer == <<requests, sent, selected, account>>
companion == <<worker, disk, history>>
vars == <<requests, sent, selected, account, rows, calls, worker, disk, history, faults>>

Messages == 1..MaxMessages
Assignments == 1..MaxAssignments

-----------------------------------------------------------------------------
(* The rows. *)

Request == [status: {"none", "pending", "superseded", "validated", "review_required"},
            c: Customers \cup {None}, player: Players \cup {None},
            base: 0..MaxMessages]             \* selection_origin_inbound_event_id
NoRequest == [status |-> "none", c |-> None, player |-> None, base |-> 0]

Selection == [player: Players \cup {None}, origin: 0..MaxMessages]
NoSelection == [player |-> None, origin |-> 0]

Result == [of: Assignments, outcome: {"found", "review_required"}, n: Nat]
ASSUME ResultAssumption == None \notin Result /\ Torn \notin Result

\* lapsed: claim_lease_expires_at has passed; over: expires_at has passed.
Row == [state: {"none", "claimed", "signed", "completed", "review_required", "expired", "superseded"},
        of: 0..MaxMessages, lapsed: BOOLEAN, over: BOOLEAN, result: Result \cup {None}]
NoRow == [state |-> "none", of |-> 0, lapsed |-> FALSE, over |-> FALSE, result |-> None]
Claimed(m) == [state |-> "claimed", of |-> m, lapsed |-> FALSE, over |-> FALSE, result |-> None]

Pending(m) == m \in Messages /\ requests[m].status = "pending"
Active(a) == rows[a].state \in {"claimed", "signed"}
Spent == \A a \in Assignments : rows[a].state # "none"

-----------------------------------------------------------------------------
(* The customer's messages and the Owner's decision. *)

\* The requests once the pending one of the customer is superseded.
Withdrawn(c) ==
    [m \in Messages |-> IF requests[m].status = "pending" /\ requests[m].c = c
                        THEN [requests[m] EXCEPT !.status = "superseded"] ELSE requests[m]]

\* request_telegram_player_validation, tried when the player cannot be reused;
\* the player may have become eligible in between.
Ask(c, p) ==
    /\ sent < MaxMessages
    /\ ~\E m \in Messages : Pending(m) /\ requests[m].c = c /\ requests[m].player = p
    /\ sent' = sent + 1
    /\ requests' = [Withdrawn(c) EXCEPT ![sent'] =
            [status |-> "pending", c |-> c, player |-> p, base |-> selected[c].origin]]
    /\ rows' = [a \in Assignments |->
            IF Active(a) /\ Pending(rows[a].of) /\ requests[rows[a].of].c = c
            THEN [rows[a] EXCEPT !.state = "superseded"] ELSE rows[a]]
    /\ UNCHANGED <<selected, account, calls, companion, faults>>

\* save_telegram_player_selection: the pending request is superseded, its
\* assignment is not.
Reuse(c, p) ==
    /\ sent < MaxMessages /\ account[p] = "eligible"
    /\ sent' = sent + 1
    /\ requests' = Withdrawn(c)
    /\ selected' = [selected EXCEPT ![c] = [player |-> p, origin |-> sent']]
    /\ UNCHANGED <<account, rows, calls, companion, faults>>

\* decide_owner_player_deposit_eligibility.
Decide(p) ==
    /\ account[p] # "none"
    /\ account' = [account EXCEPT ![p] = IF @ = "eligible" THEN "revoked" ELSE "eligible"]
    /\ UNCHANGED <<requests, sent, selected, rows, calls, companion, faults>>

-----------------------------------------------------------------------------
(* The bridge. *)

Replies == {"none", "assignment", "accepted", "superseded", "unavailable"}
Call == [stage: {"idle", "claim", "sign", "complete", "release", "accept", "confirm", "answer"},
         a: 0..MaxAssignments, result: Result \cup {None}, reply: Replies]
Opened(stage, result) == [stage |-> stage, a |-> 0, result |-> result, reply |-> "none"]
NoCall == Opened("idle", None)

\* Nobody reads the answer to a call the companion gave up on.  An empty queue,
\* a refusal and an error are one reply: the companion ends its cycle.
Answered(h, reply, a) ==
    calls' = [calls EXCEPT ![h] =
        IF worker.call = h THEN [NoCall EXCEPT !.stage = "answer", !.a = a, !.reply = reply]
        ELSE NoCall]
At(h, stage, a) ==
    calls' = [calls EXCEPT ![h] = [@ EXCEPT !.stage = stage, !.a = a]]

\* The active assignment is worth handing out.
Current(a) == Active(a) /\ Pending(rows[a].of) /\ ~rows[a].over

\* A signed assignment is handed out again; a claim goes to another handler
\* when the thirty seconds of its lease are over.
HandOut(h, a) ==
    \/ /\ rows[a].state = "signed"
       /\ Answered(h, "assignment", a)
       /\ UNCHANGED rows
    \/ /\ rows[a].state = "claimed" /\ ~rows[a].lapsed
       /\ Answered(h, "unavailable", 0)
       /\ UNCHANGED rows
    \/ /\ rows[a].state = "claimed" /\ rows[a].lapsed
       /\ rows' = [rows EXCEPT ![a].lapsed = FALSE]
       /\ At(h, "sign", a)

\* An active assignment that is not current any more is closed.
Settled ==
    [a \in Assignments |->
        IF Active(a)
        THEN [rows[a] EXCEPT !.state = IF Pending(rows[a].of) THEN "expired" ELSE "superseded"]
        ELSE rows[a]]

Oldest(m) == Pending(m) /\ \A k \in 1..(m - 1) : ~Pending(k)
NextFree(a) == rows[a].state = "none" /\ \A b \in 1..(a - 1) : rows[b].state # "none"

\* The oldest pending request is leased, if there is one.  It would be left where
\* it is, and with it those behind it, if its customer were inactive; no command
\* makes a customer or an identity inactive, so all are active here.
LeaseOldest(h) ==
    \/ /\ (\A m \in Messages : ~Pending(m)) \/ Spent
       /\ rows' = Settled
       /\ Answered(h, "unavailable", 0)
    \/ \E m \in Messages, a \in Assignments :
        /\ Oldest(m) /\ NextFree(a)
        /\ rows' = [Settled EXCEPT ![a] = Claimed(m)]
        /\ At(h, "sign", a)

\* Mutant: a claim does not look for an active assignment.
ClaimAnew(h) ==
    /\ calls[h].stage = "claim"
    /\ \/ \E m \in Messages, a \in Assignments :
           /\ Oldest(m) /\ NextFree(a)
           /\ rows' = [rows EXCEPT ![a] = Claimed(m)]
           /\ At(h, "sign", a)
       \/ /\ (\A m \in Messages : ~Pending(m)) \/ Spent
          /\ UNCHANGED rows
          /\ Answered(h, "unavailable", 0)
    /\ UNCHANGED <<customer, companion, faults>>

\* claim_telegram_player_validation_assignment.
Claim(h) ==
    /\ calls[h].stage = "claim"
    /\ \/ \E a \in Assignments : Current(a) /\ HandOut(h, a)
       \/ (\A a \in Assignments : ~Current(a)) /\ LeaseOldest(h)
    /\ UNCHANGED <<customer, companion, faults>>

Sign(h) ==
    /\ calls[h].stage = "sign"
    /\ At(h, "complete", calls[h].a)
    /\ UNCHANGED <<customer, rows, companion, faults>>

\* The signer fails; the assignment is released so that it can be issued anew.
SignFails(h) ==
    /\ calls[h].stage = "sign" /\ faults < MaxFaults
    /\ At(h, "release", calls[h].a)
    /\ faults' = faults + 1
    /\ UNCHANGED <<customer, rows, companion>>

\* complete_telegram_player_validation_assignment: the first signature of a
\* current claim stays, another handler's later one is refused.
Complete(h) ==
    LET a == calls[h].a IN
    /\ calls[h].stage = "complete"
    /\ \/ /\ Current(a) /\ rows[a].state = "claimed" /\ ~rows[a].lapsed
          /\ rows' = [rows EXCEPT ![a].state = "signed"]
          /\ Answered(h, "assignment", a)
       \/ /\ ~(Current(a) /\ rows[a].state = "claimed" /\ ~rows[a].lapsed)
          /\ UNCHANGED rows
          /\ Answered(h, "unavailable", 0)
    /\ UNCHANGED <<customer, companion, faults>>

\* Mutant: a release does not look whether the assignment was signed meanwhile.
ReleaseAnyway(h) ==
    LET a == calls[h].a IN
    /\ calls[h].stage = "release"
    /\ rows' = [rows EXCEPT ![a].state = IF Active(a) THEN "expired" ELSE @]
    /\ Answered(h, "unavailable", 0)
    /\ UNCHANGED <<customer, companion, faults>>

\* release_telegram_player_validation_assignment.
Release(h) ==
    LET a == calls[h].a IN
    /\ calls[h].stage = "release"
    /\ rows' = [rows EXCEPT ![a].state = IF @ = "claimed" THEN "expired" ELSE @]
    /\ Answered(h, "unavailable", 0)
    /\ UNCHANGED <<customer, companion, faults>>

-----------------------------------------------------------------------------
(* The result. *)

Player(m) == requests[m].player
Customer(m) == requests[m].c

\* The repeated submission of a recorded result: a review is confirmed, a
\* player found must have been selected by finalize_telegram_player_validation.
RetryAccepted(a) ==
    \/ /\ rows[a].result.outcome = "review_required"
       /\ requests[rows[a].of].status = "review_required"
    \/ /\ rows[a].result.outcome = "found"
       /\ requests[rows[a].of].status = "validated"

\* Mutant: a result is taken although its request was superseded.
AcceptableOnceSigned(r) == rows[r.of].state = "signed" /\ ~rows[r.of].over

\* A new result is taken for the signed assignment of a pending request whose
\* customer has selected nothing else since.
Acceptable(r) ==
    LET m == rows[r.of].of IN
    /\ rows[r.of].state = "signed" /\ ~rows[r.of].over
    /\ Pending(m) /\ selected[Customer(m)].origin = requests[m].base

\* What the request of a new result becomes; a revoked account is left to review.
Verdict(r) ==
    IF r.outcome = "found" /\ account[Player(rows[r.of].of)] # "revoked"
    THEN "validated" ELSE "review_required"

\* accept_and_finalize_telegram_player_validation_result for a new result.
Record(r) ==
    LET m == rows[r.of].of IN
    /\ rows' = [rows EXCEPT ![r.of] = [@ EXCEPT !.result = r,
                    !.state = IF r.outcome = "found" THEN "completed" ELSE "review_required"]]
    /\ requests' = [requests EXCEPT ![m].status = Verdict(r)]
    /\ IF Verdict(r) = "validated"
       THEN /\ selected' = [selected EXCEPT ![Customer(m)] = [player |-> Player(m), origin |-> m]]
            /\ account' = [account EXCEPT ![Player(m)] = "eligible"]
       ELSE UNCHANGED <<selected, account>>

Accept(h) ==
    LET r == calls[h].result IN
    /\ calls[h].stage = "accept"
    /\ \/ /\ rows[r.of].result = r
          /\ Answered(h, IF RetryAccepted(r.of) THEN "accepted" ELSE "unavailable", 0)
          /\ UNCHANGED <<requests, selected, account, rows>>
       \/ /\ rows[r.of].result # r /\ Acceptable(r)
          /\ Record(r)
          /\ Answered(h, "accepted", 0)
       \/ /\ rows[r.of].result # r /\ ~Acceptable(r)
          /\ At(h, "confirm", 0)
          /\ UNCHANGED <<requests, selected, account, rows>>
    /\ UNCHANGED <<sent, companion, faults>>

\* confirm_superseded_telegram_player_validation_result, in a transaction of its own.
Confirm(h) ==
    LET a == calls[h].result.of IN
    /\ calls[h].stage = "confirm"
    /\ Answered(h, IF rows[a].state = "superseded" /\ requests[rows[a].of].status = "superseded"
                   THEN "superseded" ELSE "unavailable", 0)
    /\ UNCHANGED <<customer, rows, companion, faults>>

\* A call, its handler or its answer is lost.
Drop(h) ==
    /\ calls[h].stage # "idle" /\ calls[h].reply # "unavailable" /\ faults < MaxFaults
    /\ Answered(h, "unavailable", 0)
    /\ faults' = faults + 1
    /\ UNCHANGED <<customer, rows, companion>>

\* Time passes: the lease of a claim, the five minutes of an assignment.
LapseLease(a) ==
    /\ rows[a].state = "claimed" /\ ~rows[a].lapsed
    /\ rows' = [rows EXCEPT ![a].lapsed = TRUE]
    /\ UNCHANGED <<customer, calls, companion, faults>>

Lapse(a) ==
    /\ rows[a].state # "none" /\ ~rows[a].over
    /\ rows' = [rows EXCEPT ![a].over = TRUE]
    /\ UNCHANGED <<customer, calls, companion, faults>>

-----------------------------------------------------------------------------
(* The companion. *)

\* "save", "mark" and "keep" are the writes of the three files.
Worker == [pc: {"off", "idle", "polling", "save", "mark", "find", "keep", "submitting", "clear"},
           a: 0..MaxAssignments, outcome: {"found", "review_required"}, call: Handlers \cup {None}]
Doing(pc, outcome, h) == [pc |-> pc, a |-> 0, outcome |-> outcome, call |-> h]
Idle == Doing("idle", "review_required", None)
Off == Doing("off", "review_required", None)
To(pc) == worker' = [worker EXCEPT !.pc = pc]

Disk == [assignment: Assignments \cup {None, Torn}, started: Assignments \cup {None, Torn},
         result: Result \cup {None, Torn}]
Empty == [assignment |-> None, started |-> None, result |-> None]

\* found: a search of the assignment's player returned it.
Tried == [finds: Nat, found: BOOLEAN, results: Nat]

\* A cycle with nothing on disk asks for an assignment.
Poll ==
    /\ worker.pc = "idle" /\ disk.assignment = None
    /\ \E h \in Handlers :
        /\ calls[h].stage = "idle"
        /\ calls' = [calls EXCEPT ![h] = Opened("claim", None)]
        /\ worker' = Doing("polling", "review_required", h)
    /\ UNCHANGED <<customer, rows, disk, history, faults>>


Assigned ==
    LET h == worker.call IN
    /\ worker.pc = "polling" /\ calls[h].stage = "answer"
    /\ worker' = IF calls[h].reply = "assignment" /\ ~rows[calls[h].a].over
                 THEN [Idle EXCEPT !.pc = "save", !.a = calls[h].a] ELSE Idle
    /\ calls' = [calls EXCEPT ![h] = NoCall]
    /\ UNCHANGED <<customer, rows, disk, history, faults>>

Save ==
    /\ worker.pc = "save"
    /\ disk' = [disk EXCEPT !.assignment = worker.a]
    /\ worker' = Idle
    /\ UNCHANGED <<customer, rows, calls, history, faults>>

\* The assignment on disk can still be worked on.
Held(a) == disk.assignment = a /\ ~rows[a].over

\* The started marker shows that a search may have been made: it is inconclusive.
Resume(a) ==
    /\ worker.pc = "idle" /\ Held(a) /\ disk.result = None
    /\ \/ disk.started = None /\ To("mark")
       \/ disk.started = a /\ worker' = [Idle EXCEPT !.pc = "keep"]
    /\ UNCHANGED <<customer, rows, calls, disk, history, faults>>

Mark(a) ==
    /\ worker.pc = "mark" /\ disk.assignment = a
    /\ disk' = [disk EXCEPT !.started = a]
    /\ To("find")
    /\ UNCHANGED <<customer, rows, calls, history, faults>>

\* executeSingleLookup; whatever is not the exact player is inconclusive.
Find(a, outcome) ==
    /\ worker.pc = "find" /\ disk.assignment = a
    /\ outcome = "found" => Player(rows[a].of) \in Shown
    /\ history' = [history EXCEPT ![a] = [finds |-> @.finds + 1, results |-> @.results,
                                          found |-> @.found \/ outcome = "found"]]
    /\ worker' = Doing("keep", outcome, None)
    /\ UNCHANGED <<customer, rows, calls, disk, faults>>

\* Mutant: the marker is removed when the search itself failed.
UnmarkAfterFailure(a) ==
    /\ worker.pc = "find" /\ disk.assignment = a /\ faults < MaxFaults
    /\ disk' = [disk EXCEPT !.started = None]
    /\ history' = [history EXCEPT ![a].finds = @ + 1]
    /\ worker' = Idle
    /\ faults' = faults + 1
    /\ UNCHANGED <<customer, rows, calls>>

\* The session or its window is not ready: nothing was searched.
NotReady(a) ==
    /\ worker.pc = "find" /\ disk.assignment = a /\ faults < MaxFaults
    /\ disk' = [disk EXCEPT !.started = None]
    /\ worker' = Idle
    /\ faults' = faults + 1
    /\ UNCHANGED <<customer, rows, calls, history>>

NewResult(a) == [of |-> a, outcome |-> worker.outcome, n |-> history[a].results + 1]

\* A result is signed within the assignment's five minutes only.
Keep(a) ==
    /\ worker.pc = "keep" /\ disk.assignment = a
    /\ IF rows[a].over THEN UNCHANGED <<disk, history>>
       ELSE /\ disk' = [disk EXCEPT !.result = NewResult(a)]
            /\ history' = [history EXCEPT ![a].results = @ + 1]
    /\ worker' = Idle
    /\ UNCHANGED <<customer, rows, calls, faults>>

\* A result of another assignment is not submitted, and not removed either.
Submit(a) ==
    /\ worker.pc = "idle" /\ Held(a)
    /\ disk.result \notin {None, Torn} /\ disk.result.of = a
    /\ \E h \in Handlers :
        /\ calls[h].stage = "idle"
        /\ calls' = [calls EXCEPT ![h] = Opened("accept", disk.result)]
        /\ worker' = Doing("submitting", "review_required", h)
    /\ UNCHANGED <<customer, rows, disk, history, faults>>

\* Mutant: any answer to the submission ends the assignment.
AnsweredAtAll ==
    LET h == worker.call IN
    /\ worker.pc = "submitting" /\ calls[h].stage = "answer"
    /\ worker' = [Idle EXCEPT !.pc = "clear"]
    /\ calls' = [calls EXCEPT ![h] = NoCall]
    /\ UNCHANGED <<customer, rows, disk, history, faults>>

Submitted ==
    LET h == worker.call IN
    /\ worker.pc = "submitting" /\ calls[h].stage = "answer"
    /\ worker' = IF calls[h].reply \in {"accepted", "superseded"}
                 THEN [Idle EXCEPT !.pc = "clear"] ELSE Idle
    /\ calls' = [calls EXCEPT ![h] = NoCall]
    /\ UNCHANGED <<customer, rows, disk, history, faults>>

\* Mutant: an assignment that expired stays on disk.
KeepExpired(a) == FALSE

Expire(a) ==
    /\ worker.pc = "idle" /\ disk.assignment = a /\ rows[a].over
    /\ To("clear")
    /\ UNCHANGED <<customer, rows, calls, disk, history, faults>>

Clear ==
    /\ worker.pc = "clear"
    /\ disk' = Empty
    /\ worker' = Idle
    /\ UNCHANGED <<customer, rows, calls, history, faults>>

\* The request timed out; its handler goes on.
GiveUp ==
    /\ worker.pc \in {"polling", "submitting"} /\ faults < MaxFaults
    /\ calls' = [calls EXCEPT ![worker.call] = IF @.stage = "answer" THEN NoCall ELSE @]
    /\ worker' = Idle
    /\ faults' = faults + 1
    /\ UNCHANGED <<customer, rows, disk, history>>

\* A file being written is complete, absent or torn after a crash.
Written(x) == {None, x} \cup (IF TornWrites THEN {Torn} ELSE {})

\* What a crash leaves: of files being removed together, any may remain.
LeftBehind ==
    CASE worker.pc = "save" -> {[disk EXCEPT !.assignment = x] : x \in Written(worker.a)}
      [] worker.pc = "mark" -> {[disk EXCEPT !.started = x] : x \in Written(disk.assignment)}
      [] worker.pc = "keep" /\ ~rows[disk.assignment].over ->
            {[disk EXCEPT !.result = x] : x \in Written(NewResult(disk.assignment))}
      [] worker.pc = "clear" ->
            [assignment: {None, disk.assignment}, started: {None, disk.started},
             result: {None, disk.result}]
      [] OTHER -> {disk}

Crash ==
    /\ worker.pc # "off" /\ faults < MaxFaults
    /\ disk' \in LeftBehind
    /\ history' = IF worker.pc = "keep"
                  THEN [history EXCEPT ![disk.assignment].results = @ + 1] ELSE history
    /\ worker' = Off
    /\ calls' = [h \in Handlers |->
            IF h = worker.call /\ calls[h].stage = "answer" THEN NoCall ELSE calls[h]]
    /\ faults' = faults + 1
    /\ UNCHANGED <<customer, rows>>

Start ==
    /\ worker.pc = "off"
    /\ worker' = Idle
    /\ UNCHANGED <<customer, rows, calls, disk, history, faults>>

-----------------------------------------------------------------------------

Init ==
    /\ requests = [m \in Messages |-> NoRequest]
    /\ sent = 0
    /\ selected = [c \in Customers |-> NoSelection]
    /\ account = [p \in Players |-> "none"]
    /\ rows = [a \in Assignments |-> NoRow]
    /\ calls = [h \in Handlers |-> NoCall]
    /\ worker = Idle
    /\ disk = Empty
    /\ history = [a \in Assignments |-> [finds |-> 0, found |-> FALSE, results |-> 0]]
    /\ faults = 0

CustomerStep ==
    \/ \E c \in Customers, p \in Players : Ask(c, p) \/ Reuse(c, p)
    \/ \E p \in Players : Decide(p)

HandlerStep(h) ==
    \/ Claim(h) \/ Sign(h) \/ Complete(h) \/ Release(h)
    \/ Accept(h) \/ Confirm(h)

FileStep(a) ==
    \/ Resume(a) \/ Mark(a) \/ Keep(a) \/ Submit(a) \/ Expire(a)
    \/ \E outcome \in {"found", "review_required"} : Find(a, outcome)

CompanionStep ==
    \/ Poll \/ Assigned \/ Save \/ Submitted \/ Clear \/ Start
    \/ \E a \in Assignments : FileStep(a)

FaultStep ==
    \/ GiveUp \/ Crash
    \/ \E h \in Handlers : SignFails(h) \/ Drop(h)
    \/ \E a \in Assignments : NotReady(a)

Next ==
    \/ CustomerStep \/ CompanionStep \/ FaultStep
    \/ \E h \in Handlers : HandlerStep(h)
    \/ \E a \in Assignments : LapseLease(a) \/ Lapse(a)

Spec == Init /\ [][Next]_vars

\* The companion runs and is restarted, the bridge executes its calls, time passes.
FairSpec ==
    /\ Spec
    /\ WF_vars(CompanionStep)
    /\ \A h \in Handlers : WF_vars(HandlerStep(h))
    /\ \A a \in Assignments : WF_vars(LapseLease(a)) /\ WF_vars(Lapse(a))

-----------------------------------------------------------------------------
(* Properties. *)

\* Every variable has its type, and no fault goes beyond its bound.
PlayerTypeOK ==
    /\ requests \in [Messages -> Request] /\ sent \in 0..MaxMessages
    /\ selected \in [Customers -> Selection]
    /\ account \in [Players -> {"none", "eligible", "revoked"}]
    /\ rows \in [Assignments -> Row]
    /\ calls \in [Handlers -> Call]
    /\ worker \in Worker /\ disk \in Disk
    /\ history \in [Assignments -> Tried]
    /\ faults \in 0..MaxFaults

\* The claim keeps one assignment active whatever handlers of earlier claims do
\* late: its insert never meets the unique index on active assignments.
OneActive ==
    \A a, b \in Assignments : Active(a) /\ Active(b) => a = b

Closed(a) == rows[a].state \in {"completed", "review_required", "superseded"}

\* One assignment, one Find: a crash, a lost answer or a browser that was not
\* ready never makes the companion search again for an undecided assignment.
FindNotRepeated ==
    \A a \in Assignments : history[a].finds > 1 => Closed(a)

\* The database calls a player found only if the companion's search for this
\* very assignment returned the player.
FoundWasSeen ==
    \A a \in Assignments : rows[a].state = "completed" => history[a].found

\* The companion removes its result only when the database has recorded exactly
\* that result, has withdrawn the assignment, or can no longer take it.
ResultKeptUntilDecided ==
    \A a \in Assignments :
        worker.pc = "clear" /\ Held(a) /\ disk.result \notin {None, Torn} =>
            rows[a].result = disk.result \/ rows[a].state = "superseded"

\* A signed assignment may be in the companion's hands: a handler that failed or
\* came late never takes it back.
SignedIsKept ==
    [][\A a \in Assignments : rows[a].state = "signed" /\ rows'[a].state # "signed" =>
            \/ rows'[a].result # None
            \/ rows[a].over
            \/ ~Pending(rows[a].of)' /\ rows'[a].state = "superseded"]_vars

\* The player a customer waits for: that of its pending request.
WishOf(c) ==
    IF \E m \in Messages : Pending(m) /\ Customer(m) = c
    THEN Player(CHOOSE m \in Messages : Pending(m) /\ Customer(m) = c) ELSE None

\* The database keeps the promise of VerifiedChoice: only the customer's latest
\* wish is fulfilled, by a player the provider shows, never over a revocation.
Choice == INSTANCE VerifiedChoice WITH
    wish   <- [c \in Customers |-> WishOf(c)],
    choice <- [c \in Customers |-> selected[c].player]

ChoiceIsVerified == Choice!ChoiceSpec

\* A pending request is decided, or assignments for it are issued again and
\* again: no lost call, crash or stale file stops the lane for good.
EveryRequestDecided ==
    \A m \in Messages : Pending(m) ~> ~Pending(m) \/ Spent

=============================================================================
