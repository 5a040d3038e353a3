-------------------------- MODULE ReceiverSmsOutbox --------------------------
(***************************************************************************)
(* The outbox of the receiving phone.  A foreground service captures the   *)
(* messages of payments, seals each in a file, and uploads the oldest,     *)
(* signed, until the ledger answers; a bridge and a broker check the       *)
(* phone's enrolment, and the ledger keeps one event for each reference.   *)
(*                                                                         *)
(* A session of the service has a thread that captures and a thread that   *)
(* uploads, which exclude each other where they touch the files.  A        *)
(* stopped session is abandoned: its threads finish what they do beside    *)
(* those of the next session, over the same directory.                     *)
(*                                                                         *)
(* A file appears under its name by a rename from a temporary file, so a   *)
(* step of a thread is what it does to one name.  Whose message a file     *)
(* holds, and whether it can be read, is taken as given.                   *)
(***************************************************************************)
EXTENDS FiniteSets, Naturals

CONSTANTS
    Messages,       \* messages that arrive, each once
    References,     \* references of payments
    Texts,          \* what tells two messages of one reference apart
    Bills,          \* what the messages may say, see Bill
    None,
    Hold,           \* the five hours a message is held, in ticks
    MaxEras,        \* bound: enrolments of this phone
    MaxDisturbances \* bound: stops, crashes, failed writes, lost calls and
                    \* changes of the enrolment

\* covered: a provider and a receiving account are in force for the payment.
Bill == [reference: References, text: Texts, covered: BOOLEAN]

ASSUME OutboxAssumption ==
    /\ IsFiniteSet(Messages)
    /\ None \notin Messages \cup Texts \cup {"one", "two"}
    /\ Bills \subseteq [Messages -> Bill]
    /\ Hold \in Nat /\ MaxEras \in Nat \ {0} /\ MaxDisturbances \in Nat

Sessions == {"one", "two"}
Threads == Sessions \X {"capture", "upload"}
\* Whose temporary file is left when the process died.
Gone == <<"none", "capture">>

VARIABLES
    bill,       \* what each message says
    fast,       \* the phone's clock is ahead of the server's
    at,         \* the service
    current,    \* the session it runs, None when it is off
    wanted,     \* operatorEnabled
    sealed, acks, reviews,  \* files, by the message they are of
    temps,      \* threads whose temporary file is in the directory
    modified,   \* order of the sealed files by lastModified, 0 before any
    age,        \* of a sealed file
    capture,    \* the message a session's capturing thread is about to seal
    upload,     \* what its uploading thread is at
    heard,      \* what became of a message on the phone
    events,     \* receiver_sms_payment_events
    conflicts,  \* receiver_sms_payment_conflicts, by the message told
    era, live,  \* the newest enrolment of the phone, and that it is not revoked
    late,       \* uploads under way that no thread awaits
    disturbed

files == <<sealed, acks, reviews, temps, modified, age>>
threads == <<capture, upload>>
service == <<at, current, wanted>>
ledger == <<events, conflicts>>
enrolment == <<era, live>>
given == <<bill, fast>>
vars == <<given, service, files, threads, heard, ledger, enrolment, late, disturbed>>

-----------------------------------------------------------------------------
(* State. *)

\* era: the newest enrolment that was in force when the upload was signed.
Signed == [of: Messages, era: 0..MaxEras]
Steps == {"idle", "sent", "admitted", "refused", "accepted", "writing", "closing"}
Upload == [step: Steps, of: Messages \cup {None}, era: 0..MaxEras]
AtRest == [step |-> "idle", of |-> None, era |-> 0]

NoEvent == [text |-> None, era |-> 0]
Event == [text: Texts, era: 1..MaxEras] \cup {NoEvent}

Heard == {"unheard", "taken", "missed", "kept", "expired"}

RefOf(m) == bill[m].reference

\* The methods of one outbox exclude each other (@Synchronized); an upload is
\* between them while it waits for the server.
Unlocked(s) == capture[s] = None /\ upload[s].step \notin {"writing", "closing"}
Resting(s) == capture[s] = None /\ upload[s].step = "idle"
InFlight(s) == upload[s].step \in {"sent", "admitted"}

Expired == {m \in sealed : age[m] = Hold}
HeardExpiring(some) == [m \in Messages |-> IF m \in some THEN "expired" ELSE heard[m]]
IsOldest(m, some) == m \in some /\ \A n \in some : modified[m] <= modified[n]

Init ==
    /\ bill \in Bills /\ fast \in BOOLEAN
    /\ at = "off" /\ current = None /\ wanted = TRUE
    /\ sealed = {} /\ acks = {} /\ reviews = {} /\ temps = {}
    /\ modified = [m \in Messages |-> 0] /\ age = [m \in Messages |-> 0]
    /\ capture = [s \in Sessions |-> None] /\ upload = [s \in Sessions |-> AtRest]
    /\ heard = [m \in Messages |-> "unheard"]
    /\ events = [r \in References |-> NoEvent] /\ conflicts = {}
    /\ era = 1 /\ live = TRUE
    /\ late = {} /\ disturbed = 0

-----------------------------------------------------------------------------
(* The service. *)

Quiet == UNCHANGED <<given, threads, ledger, enrolment, late>>

\* A sticky restart, a boot or the operator: a new outbox over the directory.
\* Its init deletes what a crash left, also what another session is about to
\* rename, and what is expired.
\* Bound: at most one abandoned session still works beside it.
Start ==
    /\ at = "off" /\ wanted
    /\ \E s \in Sessions :
        /\ Resting(s) /\ s = "two" => ~Resting("one")
        /\ current' = s
    /\ at' = "swept"
    /\ temps' = {}
    /\ sealed' = (sealed \ (acks \cup reviews)) \ Expired
    /\ heard' = HeardExpiring(Expired \ (acks \cup reviews))
    /\ UNCHANGED <<wanted, acks, reviews, modified, age, disturbed>>
    /\ Quiet

Unavailable ==
    /\ at' = "off" /\ current' = None /\ wanted' = FALSE
    /\ UNCHANGED <<files, heard, disturbed>>
    /\ Quiet

\* A file init listed is gone when it is deleted: its thread was faster.
StartFails ==
    /\ at = "off" /\ wanted
    /\ \E s \in Sessions : ~Unlocked(s)
    /\ Unavailable

\* init ends with an inspection that no temporary file passes.
Inspect ==
    /\ at = "swept"
    /\ temps = {}
    /\ at' = "on"
    /\ UNCHANGED <<given, current, wanted, files, threads, heard, ledger, enrolment, late, disturbed>>

InspectFails == at = "swept" /\ temps # {} /\ Unavailable

\* The loop ends; what its threads are at goes on.
StopsLoop ==
    /\ at' = "stopped" /\ wanted' = FALSE
    /\ UNCHANGED <<current, files, heard>>
    /\ Quiet

\* The operator.
Stop ==
    /\ at = "on" /\ disturbed < MaxDisturbances
    /\ disturbed' = disturbed + 1
    /\ StopsLoop

\* The heartbeat, which counts the sealed files, learns that the enrolment is
\* revoked.
HeartbeatRefused ==
    /\ at = "on" /\ upload[current].step = "idle" /\ Unlocked(current) /\ temps = {}
    /\ ~live
    /\ StopsLoop /\ UNCHANGED disturbed

\* onDestroy comes later than the stop; until then messages are captured.
Destroy ==
    /\ at = "stopped"
    /\ at' = "off" /\ current' = None
    /\ UNCHANGED <<given, wanted, files, threads, heard, ledger, enrolment, late, disturbed>>

\* A service not yet destroyed goes on with the session it has.
OperatorStart ==
    /\ ~wanted
    /\ wanted' = TRUE
    /\ at' = IF at = "stopped" THEN "on" ELSE at
    /\ UNCHANGED <<given, current, files, threads, heard, ledger, enrolment, late, disturbed>>

\* The process dies; what it wrote stays, what it sent goes on.
Crash ==
    /\ disturbed < MaxDisturbances
    /\ \/ at # "off" \/ \E s \in Sessions : ~Resting(s)
    /\ disturbed' = disturbed + 1
    /\ at' = "off" /\ current' = None
    /\ temps' = IF temps = {} THEN {} ELSE {Gone}
    /\ capture' = [s \in Sessions |-> None]
    /\ upload' = [s \in Sessions |-> AtRest]
    /\ heard' = [m \in Messages |-> IF heard[m] = "taken" THEN "missed" ELSE heard[m]]
    /\ late' = late \cup {[of |-> upload[s].of, era |-> upload[s].era] : s \in {t \in Sessions : InFlight(t)}}
    /\ UNCHANGED <<given, wanted, sealed, acks, reviews, modified, age, ledger, enrolment>>

-----------------------------------------------------------------------------
(* Capture. *)

\* Nobody listens, or the directory cannot be inspected.
Miss(m) ==
    /\ heard[m] = "unheard"
    /\ at \in {"on", "stopped"} => Unlocked(current) /\ temps # {}
    /\ heard' = [heard EXCEPT ![m] = "missed"]
    /\ UNCHANGED <<given, service, files, threads, ledger, enrolment, late, disturbed>>

Stage(m) ==
    /\ heard[m] = "unheard"
    /\ at \in {"on", "stopped"} /\ Unlocked(current) /\ temps = {}
    /\ heard' = [heard EXCEPT ![m] = "taken"]
    /\ capture' = [capture EXCEPT ![current] = m]
    /\ temps' = {<<current, "capture">>}
    /\ UNCHANGED <<given, service, sealed, acks, reviews, modified, age, upload, ledger,
                   enrolment, late, disturbed>>

\* The rename, unless another session deleted the temporary file.
Seal(s) ==
    /\ capture[s] # None
    /\ capture' = [capture EXCEPT ![s] = None]
    /\ temps' = temps \ {<<s, "capture">>}
    /\ IF <<s, "capture">> \in temps
       THEN /\ sealed' = sealed \cup {capture[s]}
            /\ modified' = [modified EXCEPT ![capture[s]] =
                                Cardinality({n \in Messages : modified[n] > 0}) + 1]
            /\ heard' = [heard EXCEPT ![capture[s]] = "kept"]
       ELSE /\ heard' = [heard EXCEPT ![capture[s]] = "missed"]
            /\ UNCHANGED <<sealed, modified>>
    /\ UNCHANGED <<given, service, acks, reviews, age, upload, ledger, enrolment, late, disturbed>>

\* The write or the rename of a temporary file fails; the thread removes it.
WriteFails(s) ==
    /\ disturbed < MaxDisturbances
    /\ disturbed' = disturbed + 1
    /\ \/ /\ capture[s] # None
          /\ capture' = [capture EXCEPT ![s] = None]
          /\ temps' = temps \ {<<s, "capture">>}
          /\ heard' = [heard EXCEPT ![capture[s]] = "missed"]
          /\ UNCHANGED upload
       \/ /\ upload[s].step = "writing"
          /\ upload' = [upload EXCEPT ![s] = AtRest]
          /\ temps' = temps \ {<<s, "upload">>}
          /\ UNCHANGED <<capture, heard>>
    /\ UNCHANGED <<given, service, sealed, acks, reviews, modified, age, ledger, enrolment, late>>

-----------------------------------------------------------------------------
(* Upload. *)

\* One cycle of the service up to the request: nextPending drops what is
\* expired, and fails if a temporary file is in the directory.
Cycle ==
    /\ at = "on" /\ upload[current].step = "idle" /\ Unlocked(current)
    /\ sealed' = sealed \ Expired
    /\ heard' = HeardExpiring(Expired)
    /\ IF temps = {} /\ sealed \ Expired # {}
       THEN \E m \in Messages :
                /\ IsOldest(m, sealed \ Expired)
                /\ upload' = [upload EXCEPT ![current] = [step |-> "sent", of |-> m, era |-> era]]
       ELSE UNCHANGED upload
    /\ UNCHANGED <<given, service, acks, reviews, temps, modified, age, capture, ledger,
                   enrolment, late, disturbed>>

Goes(s, step) == upload' = [upload EXCEPT ![s].step = step]
Ends(s) == upload' = [upload EXCEPT ![s] = AtRest]

\* verifyReceiverSmsEvent: signed after the enrolment in force began, and not
\* ahead of the server's clock.
Acceptable(e) == e = era /\ ~fast

\* The bridge: an unknown phone gets 401 and tries again, an event that does
\* not verify 403.
Admit(s) ==
    /\ upload[s].step = "sent"
    /\ IF ~live THEN Ends(s)
       ELSE Goes(s, IF Acceptable(upload[s].era) THEN "admitted" ELSE "refused")
    /\ UNCHANGED <<given, service, files, capture, heard, ledger, enrolment, late, disturbed>>

\* Mutant: the signed bodies are compared; every upload has its own time in it.
ReplaysToTheLetter(event, m, e) == FALSE

\* Everything but the time of signing is compared.
Replays(event, m, e) == event.text = bill[m].text /\ event.era = e

\* record_receiver_sms_payment_event of an enrolment in force.
Receive(m, e) ==
    LET known == events[RefOf(m)] IN
    /\ events' = IF known = NoEvent
                 THEN [events EXCEPT ![RefOf(m)] = [text |-> bill[m].text, era |-> e]]
                 ELSE events
    /\ conflicts' = IF known # NoEvent /\ ~Replays(known, m, e)
                    THEN conflicts \cup {m} ELSE conflicts

Taken(m, e) == events[RefOf(m)] = NoEvent \/ Replays(events[RefOf(m)], m, e)

\* The broker verifies again, and the ledger records.  An enrolment revoked
\* meanwhile is a review, 409 as a conflict is; a payment that no account in
\* force covers raises, and the phone tries again.
Record(s) ==
    LET m == upload[s].of
        e == upload[s].era
    IN
    /\ upload[s].step = "admitted"
    /\ IF ~live \/ ~Acceptable(e) THEN Goes(s, "refused") /\ UNCHANGED ledger
       ELSE IF ~bill[m].covered THEN Ends(s) /\ UNCHANGED ledger
       ELSE /\ Receive(m, e)
            /\ Goes(s, IF Taken(m, e) THEN "accepted" ELSE "refused")
    /\ UNCHANGED <<given, service, files, capture, heard, enrolment, late, disturbed>>

\* The phone gives up on an answer; the upload may still reach the ledger.
TimeOut(s) ==
    /\ InFlight(s) /\ disturbed < MaxDisturbances
    /\ disturbed' = disturbed + 1
    /\ late' = late \cup {[of |-> upload[s].of, era |-> upload[s].era]}
    /\ Ends(s)
    /\ UNCHANGED <<given, service, files, capture, heard, ledger, enrolment>>

RecordLate(q) ==
    /\ q \in late
    /\ late' = late \ {q}
    /\ live /\ Acceptable(q.era) /\ bill[q.of].covered
    /\ Receive(q.of, q.era)
    /\ UNCHANGED <<given, service, files, threads, heard, enrolment, disturbed>>

\* Mutant: a refused message counts as done.
ArchiveAsDone(s) ==
    /\ upload[s].step = "refused" /\ Unlocked(s)
    /\ sealed' = sealed \ {upload[s].of} /\ acks' = acks \cup {upload[s].of}
    /\ Ends(s)
    /\ UNCHANGED <<given, service, reviews, temps, modified, age, capture, heard, ledger,
                   enrolment, late, disturbed>>

\* Mutant: a refused message is tried again.
RetryRefused(s) ==
    /\ upload[s].step = "refused" /\ Unlocked(s)
    /\ Ends(s)
    /\ UNCHANGED <<given, service, files, capture, heard, ledger, enrolment, late, disturbed>>

\* 400, 403 and 409: archiveForReview.
Archive(s) ==
    /\ upload[s].step = "refused" /\ Unlocked(s)
    /\ IF upload[s].of \in sealed \ reviews
       THEN sealed' = sealed \ {upload[s].of} /\ reviews' = reviews \cup {upload[s].of}
       ELSE UNCHANGED <<sealed, reviews>>
    /\ Ends(s)
    /\ UNCHANGED <<given, service, acks, temps, modified, age, capture, heard, ledger,
                   enrolment, late, disturbed>>

\* 202: acknowledge, which fails if the file is gone.
Acknowledge(s) ==
    /\ upload[s].step = "accepted" /\ Unlocked(s)
    /\ IF upload[s].of \in sealed \ acks
       THEN temps' = temps \cup {<<s, "upload">>} /\ Goes(s, "writing")
       ELSE Ends(s) /\ UNCHANGED temps
    /\ UNCHANGED <<given, service, sealed, acks, reviews, modified, age, capture, heard, ledger,
                   enrolment, late, disturbed>>

Mark(s) ==
    /\ upload[s].step = "writing"
    /\ IF <<s, "upload">> \in temps
       THEN acks' = acks \cup {upload[s].of} /\ Goes(s, "closing")
       ELSE Ends(s) /\ UNCHANGED acks
    /\ temps' = temps \ {<<s, "upload">>}
    /\ UNCHANGED <<given, service, sealed, reviews, modified, age, capture, heard, ledger,
                   enrolment, late, disturbed>>

Close(s) ==
    /\ upload[s].step = "closing"
    /\ sealed' = sealed \ {upload[s].of}
    /\ Ends(s)
    /\ UNCHANGED <<given, service, acks, reviews, temps, modified, age, capture, heard, ledger,
                   enrolment, late, disturbed>>

-----------------------------------------------------------------------------
(* The Owner and time. *)

\* A code is used: a new enrolment of the phone's key, the others revoked.
Pair ==
    /\ era < MaxEras /\ disturbed < MaxDisturbances
    /\ disturbed' = disturbed + 1
    /\ era' = era + 1 /\ live' = TRUE
    /\ UNCHANGED <<given, service, files, threads, heard, ledger, late>>

Revoke ==
    /\ live /\ disturbed < MaxDisturbances
    /\ disturbed' = disturbed + 1
    /\ live' = FALSE
    /\ UNCHANGED <<given, service, files, threads, heard, ledger, era, late>>

Tick ==
    /\ age' = [m \in Messages |-> IF m \in sealed /\ age[m] < Hold THEN age[m] + 1 ELSE age[m]]
    /\ UNCHANGED <<given, service, sealed, acks, reviews, temps, modified, threads, heard,
                   ledger, enrolment, late, disturbed>>

Serves(s) == Admit(s) \/ Record(s)
Works(s) == Seal(s) \/ Archive(s) \/ Acknowledge(s) \/ Mark(s) \/ Close(s)

Next ==
    \/ Start \/ StartFails \/ Inspect \/ InspectFails
    \/ Stop \/ HeartbeatRefused \/ Destroy \/ OperatorStart \/ Crash
    \/ \E m \in Messages : Miss(m) \/ Stage(m)
    \/ Cycle
    \/ \E s \in Sessions : Serves(s) \/ Works(s) \/ WriteFails(s) \/ TimeOut(s)
    \/ \E q \in late : RecordLate(q)
    \/ Pair \/ Revoke \/ Tick

Spec == Init /\ [][Next]_vars

\* Android restarts a sticky service, its threads run, the loop comes round
\* every few seconds and the server answers.  Nothing is assumed of the
\* operator, the Owner, the heartbeat or time.
Fairness ==
    /\ WF_vars(Start) /\ WF_vars(Inspect) /\ WF_vars(InspectFails)
    /\ WF_vars(Cycle)
    /\ \A s \in Sessions : WF_vars(Serves(s)) /\ WF_vars(Works(s))

FairSpec == Spec /\ Fairness

-----------------------------------------------------------------------------
(* Properties. *)

TypeOK ==
    /\ bill \in Bills /\ fast \in BOOLEAN
    /\ at \in {"off", "swept", "on", "stopped"}
    /\ current \in Sessions \cup {None} /\ wanted \in BOOLEAN
    /\ sealed \subseteq Messages /\ acks \subseteq Messages /\ reviews \subseteq Messages
    /\ temps \subseteq Threads \cup {Gone}
    /\ modified \in [Messages -> Nat] /\ age \in [Messages -> 0..Hold]
    /\ capture \in [Sessions -> Messages \cup {None}]
    /\ upload \in [Sessions -> Upload]
    /\ heard \in [Messages -> Heard]
    /\ events \in [References -> Event] /\ conflicts \subseteq Messages
    /\ era \in 1..MaxEras /\ live \in BOOLEAN
    /\ late \subseteq Signed
    /\ disturbed \in 0..MaxDisturbances

\* While the phone's clock is right and its enrolment stands, no message is
\* put aside or contradicted because it is uploaded again, however often its
\* answer is lost or the process dies: only another message of the same
\* reference that says something else can do that.
OwnRetryIsReplay ==
    ~fast /\ era = 1 /\ live =>
        \A m \in reviews \cup conflicts :
            \E n \in Messages \ {m} : RefOf(n) = RefOf(m) /\ bill[n].text # bill[m].text

InLedger(m) == events[RefOf(m)].text = bill[m].text

\* A message the phone closed and the ledger has nothing of is lost, no fate
\* of SealedMessages.
FateOf(m) ==
    IF InLedger(m) THEN "recorded"
    ELSE IF m \in reviews THEN "reviewed"
    ELSE IF m \in acks THEN "lost"
    ELSE CASE heard[m] \in {"unheard", "taken"} -> "unseen"
           [] heard[m] = "missed" -> "missed"
           [] heard[m] = "expired" -> "expired"
           [] heard[m] = "kept" -> IF m \in sealed THEN "sealed" ELSE "lost"

Promise == INSTANCE SealedMessages WITH fate <- [m \in Messages |-> FateOf(m)]

\* A sealed message stays on the phone until the ledger has its payment, the
\* server refused it and it is kept for review, or five hours are over.
MessageIsKept == Promise!SealedSpec

\* One message must not block those behind it: while the service is wanted and
\* the phone enrolled, the oldest sealed message leaves the queue, unless no
\* account in force covers its payment or that of one before it.
QueueMovesOn ==
    \A m \in Messages :
        m \in sealed ~>
            \/ m \notin sealed \/ ~wanted \/ ~live
            \/ \E n \in sealed : modified[n] <= modified[m] /\ ~bill[n].covered
=============================================================================
