----------------------- MODULE ReceiverSmsOutboxProofs -----------------------
(***************************************************************************)
(* Theorems about ReceiverSmsOutbox for all values of its constants: its   *)
(* types, that a retry is a replay, and that the outbox implements         *)
(* SealedMessages.                                                         *)
(***************************************************************************)
EXTENDS ReceiverSmsOutbox, FiniteSetTheorems, TLAPS

-----------------------------------------------------------------------------
(* The inductive invariant. *)

\* A service that is not off runs a session.
ServiceInOrder == at # "off" => current \in Sessions

\* A message is captured once, by one session.
CapturesInOrder ==
    /\ \A s \in Sessions : capture[s] # None => heard[capture[s]] = "taken"
    /\ \A s, t \in Sessions : capture[s] # None /\ capture[s] = capture[t] => s = t

\* What an uploading thread is at is of a message and of an enrolment of the
\* past or the present; what it closes is in the ledger.
UploadsInOrder ==
    \A s \in Sessions : upload[s].step # "idle" =>
        /\ upload[s].of \in Messages
        /\ upload[s].era \in 1..era
        /\ upload[s].step \in {"accepted", "writing", "closing"} => InLedger(upload[s].of)

LateInOrder == \A q \in late : q.era \in 1..era

\* Where a message is whose file was written: in its file, under review or in
\* the ledger.  A tombstone is of a message the ledger has.
FilesInOrder ==
    /\ \A m \in sealed : heard[m] = "kept"
    /\ \A m \in acks : InLedger(m)
    /\ \A m \in Messages : heard[m] = "kept" => m \in sealed \cup reviews \/ InLedger(m)

\* An event says what one of the messages of its reference says.
EventsInOrder ==
    \A r \in References : events[r] # NoEvent =>
        /\ events[r].era \in 1..era
        /\ \E n \in Messages : RefOf(n) = r /\ bill[n].text = events[r].text

\* Another message tells something else of the same payment.
Contested(m) == \E n \in Messages \ {m} : RefOf(n) = RefOf(m) /\ bill[n].text # bill[m].text

Steady == ~fast /\ era = 1 /\ live

\* While nothing disturbs it, only a contested message is refused.
RefusalsInOrder ==
    Steady =>
        /\ \A m \in reviews \cup conflicts : Contested(m)
        /\ \A s \in Sessions : upload[s].step = "refused" => Contested(upload[s].of)

OutboxInv ==
    /\ TypeOK
    /\ ServiceInOrder /\ CapturesInOrder /\ UploadsInOrder /\ LateInOrder
    /\ FilesInOrder /\ EventsInOrder /\ RefusalsInOrder

-----------------------------------------------------------------------------
(* The initial state, and what a bill is. *)

LEMMA BillFacts ==
  ASSUME TypeOK, NEW m \in Messages
  PROVE  /\ RefOf(m) \in References
         /\ bill[m].text \in Texts /\ bill[m].text # None
         /\ bill[m].covered \in BOOLEAN
<1>1. bill \in [Messages -> Bill]
  BY OutboxAssumption DEF TypeOK
<1> QED BY <1>1, OutboxAssumption DEF Bill, RefOf

LEMMA InitHolds == Init => OutboxInv
<1> SUFFICES ASSUME Init PROVE OutboxInv
  OBVIOUS
<1>1. TypeOK
  BY OutboxAssumption DEF Init, TypeOK, Upload, Steps, AtRest, Heard, Event, NoEvent, Signed
<1>2. ServiceInOrder /\ CapturesInOrder /\ UploadsInOrder /\ LateInOrder
  BY OutboxAssumption DEF Init, ServiceInOrder, CapturesInOrder, UploadsInOrder, LateInOrder, AtRest
<1>3. FilesInOrder /\ EventsInOrder /\ RefusalsInOrder
  BY DEF Init, FilesInOrder, EventsInOrder, RefusalsInOrder, AtRest
<1> QED BY <1>1, <1>2, <1>3 DEF OutboxInv

-----------------------------------------------------------------------------
(* The ledger and the enrolment only advance. *)

\* The event that an upload of m signed under e adds.
Tells(m, e) == [text |-> bill[m].text, era |-> e]

\* What a step may do to the event of a reference.
EventAdvances(r) ==
    \/ events'[r] = events[r]
    \/ /\ events[r] = NoEvent
       /\ \E m \in Messages, e \in 1..era : RefOf(m) = r /\ events'[r] = Tells(m, e)

LEMMA ReceiveAdvances ==
  ASSUME TypeOK, NEW m \in Messages, NEW e \in 1..era, Receive(m, e)
  PROVE  \A r \in References : EventAdvances(r)
<1> USE DEF TypeOK
<1>1. CASE events[RefOf(m)] = NoEvent
  <2>1. events' = [events EXCEPT ![RefOf(m)] = Tells(m, e)]
    BY <1>1 DEF Receive, Tells
  <2> QED BY <1>1, <2>1 DEF EventAdvances
<1>2. CASE events[RefOf(m)] # NoEvent
  BY <1>2 DEF Receive, EventAdvances
<1> QED BY <1>1, <1>2

LEMMA LedgerAdvances ==
  ASSUME OutboxInv, [Next]_vars
  PROVE  /\ bill' = bill /\ fast' = fast
         /\ era' \in {era, era + 1}
         /\ Steady' => Steady
         /\ \A r \in References : EventAdvances(r)
<1>1. CASE UNCHANGED <<given, events, enrolment>>
  BY <1>1 DEF EventAdvances, given, enrolment, Steady
<1>2. ASSUME NEW s \in Sessions, Record(s)
      PROVE  \A r \in References : EventAdvances(r)
  <2>1. CASE UNCHANGED events
    BY <2>1 DEF EventAdvances
  <2>2. CASE Receive(upload[s].of, upload[s].era)
    <3>1. upload[s].of \in Messages /\ upload[s].era \in 1..era
      BY <1>2 DEF Record, OutboxInv, UploadsInOrder
    <3> QED BY <2>2, <3>1, ReceiveAdvances DEF OutboxInv
  <2> QED BY <1>2, <2>1, <2>2 DEF Record, ledger
<1>3. ASSUME NEW s \in Sessions, Record(s)
      PROVE  UNCHANGED <<given, enrolment>>
  BY <1>3 DEF Record
<1>4. ASSUME NEW q \in late, RecordLate(q)
      PROVE  \A r \in References : EventAdvances(r)
  <2>1. q.of \in Messages /\ q.era \in 1..era
    BY <1>4 DEF OutboxInv, LateInOrder, TypeOK, Signed
  <2> QED BY <1>4, <2>1, ReceiveAdvances DEF OutboxInv, RecordLate
<1>5. ASSUME NEW q \in late, RecordLate(q)
      PROVE  UNCHANGED <<given, enrolment>>
  BY <1>5 DEF RecordLate
<1>6. CASE Pair \/ Revoke
  BY <1>6 DEF Pair, Revoke, EventAdvances, Steady, given, ledger, OutboxInv, TypeOK
<1>7. CASE UNCHANGED <<given, enrolment>> /\ \A r \in References : EventAdvances(r)
  BY <1>7 DEF given, enrolment, Steady
<1>8. \/ UNCHANGED <<given, events, enrolment>> \/ Pair \/ Revoke
      \/ \E s \in Sessions : Record(s)
      \/ \E q \in late : RecordLate(q)
  BY DEF vars, Next, Start, StartFails, Inspect, InspectFails, Unavailable, Quiet, StopsLoop, Stop,
     HeartbeatRefused, Destroy, OperatorStart, Crash, Miss, Stage, Cycle, Serves, Works, Admit, Seal,
     Archive, Acknowledge, Mark, Close, WriteFails, TimeOut, Tick, ledger
<1> QED BY <1>1, <1>2, <1>3, <1>4, <1>5, <1>6, <1>7, <1>8

LEMMA LedgerKeeps ==
  ASSUME OutboxInv, [Next]_vars, NEW m \in Messages, InLedger(m)
  PROVE  InLedger(m)'
<1>1. events[RefOf(m)] # NoEvent
  BY BillFacts DEF OutboxInv, InLedger, NoEvent
<1>2. events'[RefOf(m)] = events[RefOf(m)] /\ bill' = bill
  BY <1>1, LedgerAdvances, BillFacts DEF OutboxInv, EventAdvances
<1> QED BY <1>2 DEF InLedger, RefOf
-----------------------------------------------------------------------------
(* Types. *)

LEMMA HeardTypes ==
  ASSUME TypeOK, NEW some
  PROVE  HeardExpiring(some) \in [Messages -> Heard]
BY DEF TypeOK, HeardExpiring, Heard

LEMMA RestTypes == AtRest \in Upload
BY OutboxAssumption DEF AtRest, Upload, Steps

LEMMA ServiceTypes ==
  ASSUME OutboxInv,
         \/ Start \/ StartFails \/ Inspect \/ InspectFails \/ Stop \/ HeartbeatRefused
         \/ Destroy \/ OperatorStart \/ Crash
  PROVE  TypeOK'
<1> USE DEF OutboxInv, TypeOK, Quiet, given, threads, ledger, enrolment, files
<1>1. CASE Start
  <2>1. heard' \in [Messages -> Heard]
    BY <1>1, HeardTypes DEF Start
  <2> QED BY <1>1, <2>1 DEF Start
<1>2. CASE StartFails \/ InspectFails
  BY <1>2 DEF StartFails, InspectFails, Unavailable
<1>3. CASE Inspect \/ Destroy \/ OperatorStart
  BY <1>3 DEF Inspect, Destroy, OperatorStart
<1>4. CASE Stop \/ HeartbeatRefused
  <2>1. disturbed' \in 0..MaxDisturbances
    BY <1>4, OutboxAssumption DEF Stop, HeartbeatRefused
  <2> QED BY <1>4, <2>1 DEF Stop, HeartbeatRefused, StopsLoop
<1>5. CASE Crash
  <2>1. capture' \in [Sessions -> Messages \cup {None}] /\ upload' \in [Sessions -> Upload]
    BY <1>5, RestTypes DEF Crash
  <2>2. heard' \in [Messages -> Heard]
    BY <1>5 DEF Crash, Heard
  <2>3. late' \subseteq Signed
    <3>1. ASSUME NEW s \in Sessions, InFlight(s)
          PROVE  [of |-> upload[s].of, era |-> upload[s].era] \in Signed
      BY <3>1, OutboxAssumption DEF InFlight, Signed, Upload, UploadsInOrder
    <3> QED BY <1>5, <3>1 DEF Crash
  <2>4. temps' \subseteq Threads \cup {Gone} /\ disturbed' \in 0..MaxDisturbances
    BY <1>5, OutboxAssumption DEF Crash
  <2> QED BY <1>5, <2>1, <2>2, <2>3, <2>4 DEF Crash
<1> QED BY <1>1, <1>2, <1>3, <1>4, <1>5

LEMMA CaptureTypes ==
  ASSUME OutboxInv,
         \/ \E m \in Messages : Miss(m) \/ Stage(m)
         \/ \E s \in Sessions : Seal(s) \/ WriteFails(s)
  PROVE  TypeOK'
<1> USE DEF OutboxInv, TypeOK, given, service, files, threads, ledger, enrolment
<1>1. ASSUME NEW m \in Messages, Miss(m) PROVE TypeOK'
  BY <1>1 DEF Miss, Heard
<1>2. ASSUME NEW m \in Messages, Stage(m) PROVE TypeOK'
  BY <1>2 DEF Stage, Heard, ServiceInOrder, Threads
<1>3. ASSUME NEW s \in Sessions, Seal(s) PROVE TypeOK'
  <2>1. Cardinality({n \in Messages : modified[n] > 0}) \in Nat
    <3>1. IsFiniteSet({n \in Messages : modified[n] > 0})
      BY OutboxAssumption, FS_Subset
    <3> QED BY <3>1, FS_CardinalityType
  <2>2. capture[s] \in Messages
    BY <1>3 DEF Seal
  <2>3. modified' \in [Messages -> Nat]
    BY <1>3, <2>1, <2>2 DEF Seal
  <2>4. heard' \in [Messages -> Heard]
    BY <1>3, <2>2 DEF Seal, Heard
  <2>5. sealed' \subseteq Messages /\ capture' \in [Sessions -> Messages \cup {None}]
    BY <1>3, <2>2 DEF Seal
  <2> QED BY <1>3, <2>3, <2>4, <2>5 DEF Seal
<1>4. ASSUME NEW s \in Sessions, WriteFails(s) PROVE TypeOK'
  <2>1. heard' \in [Messages -> Heard]
    BY <1>4 DEF WriteFails, Heard
  <2>2. capture' \in [Sessions -> Messages \cup {None}]
    BY <1>4 DEF WriteFails
  <2>3. upload' \in [Sessions -> Upload]
    BY <1>4, RestTypes DEF WriteFails
  <2>4. disturbed' \in 0..MaxDisturbances
    BY <1>4, OutboxAssumption DEF WriteFails
  <2> QED BY <1>4, <2>1, <2>2, <2>3, <2>4 DEF WriteFails
<1> QED BY <1>1, <1>2, <1>3, <1>4

LEMMA GoesTypes ==
  ASSUME TypeOK, NEW s \in Sessions, NEW step \in Steps, Goes(s, step)
  PROVE  upload' \in [Sessions -> Upload]
<1> DEFINE u == [upload[s] EXCEPT !.step = step]
<1>1. u \in Upload
  BY DEF TypeOK, Upload
<1>2. upload' = [upload EXCEPT ![s] = u]
  BY DEF TypeOK, Goes
<1> QED BY <1>1, <1>2 DEF TypeOK

LEMMA EndsTypes ==
  ASSUME TypeOK, NEW s \in Sessions, Ends(s)
  PROVE  upload' \in [Sessions -> Upload]
BY RestTypes DEF TypeOK, Ends

LEMMA ReceiveTypes ==
  ASSUME TypeOK, NEW m \in Messages, NEW e \in 1..era, Receive(m, e)
  PROVE  events' \in [References -> Event] /\ conflicts' \subseteq Messages
<1>1. Tells(m, e) \in Event
  <2>1. e \in 1..MaxEras /\ bill[m].text \in Texts
    BY BillFacts, OutboxAssumption DEF TypeOK
  <2> QED BY <2>1 DEF Tells, Event
<1>2. events' = events \/ events' = [events EXCEPT ![RefOf(m)] = Tells(m, e)]
  BY DEF Receive, Tells
<1>3. events' \in [References -> Event]
  BY <1>1, <1>2 DEF TypeOK
<1> QED BY <1>3 DEF Receive, TypeOK

LEMMA UploadTypes ==
  ASSUME OutboxInv,
         \/ Cycle
         \/ \E s \in Sessions :
              Admit(s) \/ Record(s) \/ TimeOut(s) \/ Archive(s) \/ Acknowledge(s) \/ Mark(s) \/ Close(s)
         \/ \E q \in late : RecordLate(q)
  PROVE  TypeOK'
<1> USE DEF OutboxInv, TypeOK, given, service, files, ledger, enrolment
<1>1. CASE Cycle
  <2>1. heard' \in [Messages -> Heard]
    BY <1>1, HeardTypes DEF Cycle
  <2>2. upload' \in [Sessions -> Upload]
    <3>1. ASSUME NEW m \in Messages
          PROVE  [step |-> "sent", of |-> m, era |-> era] \in Upload
      BY DEF Upload, Steps
    <3> QED BY <1>1, <3>1 DEF Cycle
  <2> QED BY <1>1, <2>1, <2>2 DEF Cycle, threads
<1>2. ASSUME NEW s \in Sessions, Admit(s) PROVE TypeOK'
  <2>1. upload' \in [Sessions -> Upload]
    BY <1>2, GoesTypes, EndsTypes DEF Admit, Steps
  <2> QED BY <1>2, <2>1 DEF Admit
<1>3. ASSUME NEW s \in Sessions, Record(s) PROVE TypeOK'
  <2>1. upload' \in [Sessions -> Upload]
    BY <1>3, GoesTypes, EndsTypes DEF Record, Steps
  <2>2. upload[s].of \in Messages /\ upload[s].era \in 1..era
    BY <1>3 DEF Record, UploadsInOrder
  <2>3. events' \in [References -> Event] /\ conflicts' \subseteq Messages
    <3>1. CASE UNCHANGED ledger
      BY <3>1
    <3>2. CASE Receive(upload[s].of, upload[s].era)
      BY <2>2, <3>2, ReceiveTypes
    <3> QED BY <1>3, <3>1, <3>2 DEF Record
  <2> QED BY <1>3, <2>1, <2>3 DEF Record
<1>4. ASSUME NEW s \in Sessions, TimeOut(s) PROVE TypeOK'
  <2>1. upload' \in [Sessions -> Upload]
    BY <1>4, EndsTypes DEF TimeOut
  <2>2. [of |-> upload[s].of, era |-> upload[s].era] \in Signed
    BY <1>4, OutboxAssumption DEF TimeOut, InFlight, Signed, Upload, UploadsInOrder
  <2>3. late' \subseteq Signed
    BY <1>4, <2>2 DEF TimeOut
  <2>4. disturbed' \in 0..MaxDisturbances
    BY <1>4, OutboxAssumption DEF TimeOut
  <2> QED BY <1>4, <2>1, <2>3, <2>4 DEF TimeOut
<1>5. ASSUME NEW s \in Sessions, Archive(s) PROVE TypeOK'
  <2>1. upload' \in [Sessions -> Upload]
    BY <1>5, EndsTypes DEF Archive
  <2> QED BY <1>5, <2>1 DEF Archive
<1>6. ASSUME NEW s \in Sessions, Acknowledge(s) PROVE TypeOK'
  <2>1. upload' \in [Sessions -> Upload]
    BY <1>6, GoesTypes, EndsTypes DEF Acknowledge, Steps
  <2>2. temps' \subseteq Threads \cup {Gone}
    BY <1>6 DEF Acknowledge, Threads
  <2> QED BY <1>6, <2>1, <2>2 DEF Acknowledge
<1>7. ASSUME NEW s \in Sessions, Mark(s) PROVE TypeOK'
  <2>1. upload' \in [Sessions -> Upload]
    BY <1>7, GoesTypes, EndsTypes DEF Mark, Steps
  <2>2. upload[s].of \in Messages
    BY <1>7 DEF Mark, UploadsInOrder
  <2> QED BY <1>7, <2>1, <2>2 DEF Mark
<1>8. ASSUME NEW s \in Sessions, Close(s) PROVE TypeOK'
  <2>1. upload' \in [Sessions -> Upload]
    BY <1>8, EndsTypes DEF Close
  <2> QED BY <1>8, <2>1 DEF Close
<1>9. ASSUME NEW q \in late, RecordLate(q) PROVE TypeOK'
  <2>1. q.of \in Messages /\ q.era \in 1..era
    BY DEF LateInOrder, Signed
  <2>2. events' \in [References -> Event] /\ conflicts' \subseteq Messages
    BY <1>9, <2>1, ReceiveTypes DEF RecordLate
  <2> QED BY <1>9, <2>2 DEF RecordLate, threads
<1> QED BY <1>1, <1>2, <1>3, <1>4, <1>5, <1>6, <1>7, <1>8, <1>9

LEMMA TypesStep == OutboxInv /\ [Next]_vars => TypeOK'
<1> SUFFICES ASSUME OutboxInv, [Next]_vars PROVE TypeOK'
  OBVIOUS
<1>1. CASE UNCHANGED vars
  BY <1>1 DEF OutboxInv, TypeOK, vars, given, service, files, threads, ledger, enrolment
<1>2. CASE Pair \/ Revoke
  <2>1. disturbed' \in 0..MaxDisturbances /\ era' \in 1..MaxEras
    BY <1>2, OutboxAssumption DEF Pair, Revoke, OutboxInv, TypeOK
  <2> QED BY <1>2, <2>1 DEF Pair, Revoke, OutboxInv, TypeOK, given, service, files, threads, ledger
<1>3. CASE Tick
  <2>1. age' \in [Messages -> 0..Hold]
    BY <1>3, OutboxAssumption DEF Tick, OutboxInv, TypeOK
  <2> QED BY <1>3, <2>1
      DEF Tick, OutboxInv, TypeOK, given, service, threads, ledger, enrolment
<1> QED BY <1>1, <1>2, <1>3, ServiceTypes, CaptureTypes, UploadTypes DEF Next, Serves, Works
-----------------------------------------------------------------------------
(* The service, capture and uploads. *)

LEMMA ServiceStep == OutboxInv /\ [Next]_vars => ServiceInOrder'
<1> SUFFICES ASSUME OutboxInv, [Next]_vars PROVE ServiceInOrder'
  OBVIOUS
<1> USE DEF OutboxInv, ServiceInOrder
<1>1. CASE UNCHANGED service
  BY <1>1 DEF service
<1>2. CASE \/ Start \/ StartFails \/ Inspect \/ InspectFails \/ Stop \/ HeartbeatRefused
           \/ Destroy \/ OperatorStart \/ Crash
  BY <1>2 DEF Start, StartFails, Inspect, InspectFails, Unavailable, Stop, HeartbeatRefused,
     StopsLoop, Destroy, OperatorStart, Crash
<1>3. UNCHANGED service \/ Start \/ StartFails \/ Inspect \/ InspectFails \/ Stop
      \/ HeartbeatRefused \/ Destroy \/ OperatorStart \/ Crash
  BY DEF vars, Next, Miss, Stage, Cycle, Serves, Works, Admit, Record, Seal, Archive, Acknowledge,
     Mark, Close, WriteFails, TimeOut, RecordLate, Pair, Revoke, Tick
<1> QED BY <1>1, <1>2, <1>3

LEMMA CapturesStep == OutboxInv /\ [Next]_vars => CapturesInOrder'
<1> SUFFICES ASSUME OutboxInv, [Next]_vars PROVE CapturesInOrder'
  OBVIOUS
<1> USE DEF OutboxInv, TypeOK, CapturesInOrder
<1>1. CASE UNCHANGED <<capture, heard>>
  BY <1>1
<1>2. ASSUME UNCHANGED capture,
             heard' = heard \/ \E some : some \subseteq sealed /\ heard' = HeardExpiring(some)
      PROVE  CapturesInOrder'
  BY <1>2 DEF HeardExpiring, FilesInOrder
<1>3. ASSUME NEW m \in Messages, Miss(m) PROVE CapturesInOrder'
  BY <1>3 DEF Miss, threads
<1>4. ASSUME NEW m \in Messages, Stage(m) PROVE CapturesInOrder'
  BY <1>4, OutboxAssumption DEF Stage, ServiceInOrder
<1>5. ASSUME NEW s \in Sessions, Seal(s) PROVE CapturesInOrder'
  BY <1>5 DEF Seal
<1>6. ASSUME NEW s \in Sessions, WriteFails(s) PROVE CapturesInOrder'
  BY <1>6 DEF WriteFails
<1>7. CASE Crash
  BY <1>7 DEF Crash
<1>8. CASE Start
  BY <1>2, <1>8 DEF Start, Expired, Quiet, threads
<1>9. CASE Cycle
  BY <1>2, <1>9 DEF Cycle, Expired
<1>10. \/ UNCHANGED <<capture, heard>> \/ Start \/ Crash \/ Cycle
       \/ \E m \in Messages : Miss(m) \/ Stage(m)
       \/ \E s \in Sessions : Seal(s) \/ WriteFails(s)
  BY DEF vars, Next, StartFails, Inspect, InspectFails, Unavailable, Quiet, Stop, HeartbeatRefused,
     StopsLoop, Destroy, OperatorStart, Serves, Works, Admit, Record, Archive, Acknowledge, Mark,
     Close, TimeOut, RecordLate, Pair, Revoke, Tick, threads
<1> QED BY <1>1, <1>3, <1>4, <1>5, <1>6, <1>7, <1>8, <1>9, <1>10

\* What is recorded as accepted is in the ledger.
LEMMA TakenIsInLedger ==
  ASSUME OutboxInv, [Next]_vars, NEW m \in Messages, NEW e \in 1..era, Receive(m, e), Taken(m, e)
  PROVE  InLedger(m)'
<1>1. bill' = bill
  BY LedgerAdvances
<1>2. CASE events[RefOf(m)] = NoEvent
  BY <1>1, <1>2, BillFacts DEF OutboxInv, TypeOK, Receive, InLedger, RefOf
<1>3. CASE Replays(events[RefOf(m)], m, e)
  <2>1. InLedger(m)
    BY <1>3 DEF Replays, InLedger
  <2> QED BY <2>1, LedgerKeeps
<1> QED BY <1>2, <1>3 DEF Taken

Done == {"accepted", "writing", "closing"}

\* What a step may do to an uploading thread: nothing, end its upload, begin
\* one, or go on with it; what is done then is in the ledger, and what is
\* refused while all is steady is contested.
GoesOn(s, m) ==
    /\ upload[s].step # "idle" /\ upload[s].of = m
    /\ upload'[s].of = m /\ upload'[s].era = upload[s].era
    /\ upload'[s].step \in Done => InLedger(m)'
    /\ upload'[s].step = "refused" /\ Steady => Contested(m)

UploadAdvances(s) ==
    \/ upload'[s] = upload[s]
    \/ upload'[s].step = "idle"
    \/ upload'[s].step = "sent" /\ upload'[s].of \in Messages /\ upload'[s].era = era
    \/ \E m \in Messages : GoesOn(s, m)

LEMMA GoesFacts ==
  ASSUME TypeOK, NEW s \in Sessions, NEW step \in Steps, Goes(s, step)
  PROVE  /\ \A t \in Sessions \ {s} : upload'[t] = upload[t]
         /\ upload'[s].step = step
         /\ upload'[s].of = upload[s].of /\ upload'[s].era = upload[s].era
BY DEF TypeOK, Upload, Goes

LEMMA EndsFacts ==
  ASSUME TypeOK, NEW s \in Sessions, Ends(s)
  PROVE  /\ \A t \in Sessions \ {s} : upload'[t] = upload[t]
         /\ upload'[s].step = "idle"
BY DEF TypeOK, Ends, AtRest

LEMMA RefusedIsContested ==
  ASSUME OutboxInv, Steady, NEW m \in Messages, NEW e \in 1..era, ~Taken(m, e)
  PROVE  Contested(m)
<1>1. RefOf(m) \in References
  BY BillFacts DEF OutboxInv
<1>2. events[RefOf(m)] # NoEvent /\ ~Replays(events[RefOf(m)], m, e)
  BY DEF Taken
<1>3. PICK n \in Messages : RefOf(n) = RefOf(m) /\ bill[n].text = events[RefOf(m)].text
  BY <1>1, <1>2 DEF OutboxInv, EventsInOrder
<1>4. events[RefOf(m)].era = e
  BY <1>1, <1>2 DEF OutboxInv, EventsInOrder, Steady
<1>5. bill[n].text # bill[m].text
  BY <1>2, <1>3, <1>4 DEF Replays
<1> QED BY <1>3, <1>5 DEF Contested

LEMMA UploadsAdvance ==
  ASSUME OutboxInv, [Next]_vars
  PROVE  \A s \in Sessions : UploadAdvances(s)
<1> USE DEF OutboxInv
<1>1. CASE UNCHANGED upload
  BY <1>1 DEF UploadAdvances
<1>2. ASSUME NEW s \in Sessions, Ends(s)
      PROVE  \A t \in Sessions : UploadAdvances(t)
  BY <1>2, EndsFacts DEF UploadAdvances
<1>3. ASSUME NEW s \in Sessions, NEW step \in Steps, Goes(s, step),
             upload[s].step # "idle",
             step \in Done => upload[s].step \in Done,
             step # "refused"
      PROVE  \A t \in Sessions : UploadAdvances(t)
  <2>1. PICK m \in Messages : upload[s].of = m
    BY <1>3 DEF UploadsInOrder
  <2>2. step \in Done => InLedger(m)'
    BY <1>3, <2>1, LedgerKeeps DEF UploadsInOrder, Done
  <2>3. GoesOn(s, m)
    BY <1>3, <2>1, <2>2, GoesFacts DEF GoesOn
  <2> QED BY <1>3, <2>3, GoesFacts DEF UploadAdvances
<1>4. CASE Crash
  BY <1>4 DEF Crash, UploadAdvances, AtRest
<1>5. CASE Cycle
  BY <1>5 DEF Cycle, UploadAdvances, TypeOK
<1>6. ASSUME NEW s \in Sessions, Admit(s)
      PROVE  \A t \in Sessions : UploadAdvances(t)
  <2>1. CASE Ends(s)
    BY <1>2, <2>1
  <2>2. CASE Goes(s, "admitted")
    BY <1>3, <1>6, <2>2 DEF Admit, Done, Steps
  <2>3. CASE Goes(s, "refused") /\ ~Acceptable(upload[s].era)
    <3>1. PICK m \in Messages : upload[s].of = m
      BY <1>6 DEF Admit, UploadsInOrder
    <3>2. ~Steady
      BY <1>6, <2>3 DEF Admit, UploadsInOrder, Steady, Acceptable
    <3>3. GoesOn(s, m)
      BY <1>6, <2>3, <3>1, <3>2, GoesFacts DEF Admit, GoesOn, Done, Steps
    <3> QED BY <2>3, <3>3, GoesFacts DEF UploadAdvances, Steps
  <2> QED BY <1>6, <2>1, <2>2, <2>3 DEF Admit
<1>7. ASSUME NEW s \in Sessions, Record(s)
      PROVE  \A t \in Sessions : UploadAdvances(t)
  <2>1. PICK m \in Messages : upload[s].of = m
    BY <1>7 DEF Record, UploadsInOrder
  <2>2. PICK e \in 1..era : upload[s].era = e
    BY <1>7 DEF Record, UploadsInOrder
  <2>3. CASE Ends(s)
    BY <1>2, <2>3
  <2>4. CASE Goes(s, "refused") /\ (~live \/ ~Acceptable(e))
    <3>1. ~Steady
      BY <2>4 DEF Steady, Acceptable
    <3>2. GoesOn(s, m)
      BY <1>7, <2>1, <2>4, <3>1, GoesFacts DEF Record, GoesOn, Done, Steps
    <3> QED BY <2>4, <3>2, GoesFacts DEF UploadAdvances, Steps
  <2>5. CASE Goes(s, "refused") /\ ~Taken(m, e)
    <3>1. Steady => Contested(m)
      BY <2>5, RefusedIsContested
    <3>2. GoesOn(s, m)
      BY <1>7, <2>1, <2>5, <3>1, GoesFacts DEF Record, GoesOn, Done, Steps
    <3> QED BY <2>5, <3>2, GoesFacts DEF UploadAdvances, Steps
  <2>6. CASE Goes(s, "accepted") /\ Taken(m, e) /\ Receive(m, e)
    <3>1. InLedger(m)'
      BY <2>6, TakenIsInLedger
    <3>2. GoesOn(s, m)
      BY <1>7, <2>1, <2>6, <3>1, GoesFacts DEF Record, GoesOn, Done, Steps
    <3> QED BY <2>6, <3>2, GoesFacts DEF UploadAdvances, Steps
  <2> QED BY <1>7, <2>1, <2>2, <2>3, <2>4, <2>5, <2>6 DEF Record
<1>8. ASSUME NEW s \in Sessions, Acknowledge(s) \/ Mark(s)
      PROVE  \A t \in Sessions : UploadAdvances(t)
  <2>1. Ends(s) \/ Goes(s, "writing") \/ Goes(s, "closing")
    BY <1>8 DEF Acknowledge, Mark
  <2>2. upload[s].step \in {"accepted", "writing"}
    BY <1>8 DEF Acknowledge, Mark
  <2> QED BY <1>2, <1>3, <2>1, <2>2 DEF Done, Steps
<1>9. ASSUME NEW s \in Sessions, TimeOut(s) \/ Archive(s) \/ Close(s)
      PROVE  Ends(s)
  BY <1>9 DEF TimeOut, Archive, Close
<1>10. ASSUME NEW s \in Sessions, WriteFails(s)
       PROVE  UNCHANGED upload \/ Ends(s)
  BY <1>10 DEF WriteFails, Ends
<1>11. \/ UNCHANGED upload \/ Crash \/ Cycle
       \/ \E s \in Sessions : \/ Admit(s) \/ Record(s) \/ Acknowledge(s) \/ Mark(s)
                              \/ TimeOut(s) \/ Archive(s) \/ Close(s) \/ WriteFails(s)
  BY DEF vars, Next, Start, StartFails, Inspect, InspectFails, Unavailable, Quiet, Stop, HeartbeatRefused,
     StopsLoop, Destroy, OperatorStart, Miss, Stage, Seal, Serves, Works, RecordLate, Pair, Revoke,
     Tick, threads
<1> QED BY <1>1, <1>2, <1>4, <1>5, <1>6, <1>7, <1>8, <1>9, <1>10, <1>11

LEMMA UploadsStep == OutboxInv /\ [Next]_vars => UploadsInOrder'
<1> SUFFICES ASSUME OutboxInv, [Next]_vars PROVE UploadsInOrder'
  OBVIOUS
<1>1. ASSUME NEW m \in Messages, InLedger(m)
      PROVE  InLedger(m)'
  BY <1>1, LedgerKeeps
<1>2. era' >= era /\ era \in Nat \ {0} /\ era' \in Nat
  BY LedgerAdvances, OutboxAssumption DEF OutboxInv, TypeOK
<1>3. ASSUME NEW s \in Sessions, upload'[s].step # "idle"
      PROVE  \E m \in Messages :
               /\ upload'[s].of = m
               /\ upload'[s].era \in 1..era'
               /\ upload'[s].step \in Done => InLedger(m)'
  <2>1. UploadAdvances(s)
    BY UploadsAdvance
  <2>2. CASE upload'[s] = upload[s]
    <3>1. PICK m \in Messages : upload[s].of = m
      BY <1>3, <2>2 DEF OutboxInv, UploadsInOrder
    <3>2. upload[s].era \in 1..era'
      BY <1>2, <1>3, <2>2 DEF OutboxInv, UploadsInOrder
    <3>3. upload[s].step \in Done => InLedger(m)
      BY <1>3, <2>2, <3>1 DEF OutboxInv, UploadsInOrder, Done
    <3> QED BY <1>1, <2>2, <3>1, <3>2, <3>3
  <2>3. CASE upload'[s].step = "sent" /\ upload'[s].of \in Messages /\ upload'[s].era = era
    BY <1>2, <2>3 DEF Done
  <2>4. ASSUME NEW m \in Messages, GoesOn(s, m)
        PROVE  \E n \in Messages :
                 /\ upload'[s].of = n
                 /\ upload'[s].era \in 1..era'
                 /\ upload'[s].step \in Done => InLedger(n)'
    BY <1>2, <2>4 DEF GoesOn, OutboxInv, UploadsInOrder
  <2> QED BY <1>3, <2>1, <2>2, <2>3, <2>4 DEF UploadAdvances
<1> QED BY <1>3 DEF UploadsInOrder, InLedger, RefOf, Done
LEMMA LateStep == OutboxInv /\ [Next]_vars => LateInOrder'
<1> SUFFICES ASSUME OutboxInv, [Next]_vars PROVE LateInOrder'
  OBVIOUS
<1>1. era' >= era /\ era \in Nat \ {0} /\ era' \in Nat
  BY LedgerAdvances, OutboxAssumption DEF OutboxInv, TypeOK
<1>2. ASSUME NEW q \in late' PROVE q \in late \/ \E s \in Sessions : InFlight(s) /\ q.era = upload[s].era
  <2>1. CASE late' \subseteq late
    BY <2>1
  <2>2. CASE Crash
    BY <2>2 DEF Crash
  <2>3. ASSUME NEW s \in Sessions, TimeOut(s)
        PROVE  q \in late \/ (InFlight(s) /\ q.era = upload[s].era)
    BY <2>3 DEF TimeOut
  <2>4. \/ late' \subseteq late \/ Crash
        \/ \E s \in Sessions : TimeOut(s)
    BY DEF vars, Next, Start, StartFails, Inspect, InspectFails, Unavailable, Quiet, Stop,
       HeartbeatRefused, StopsLoop, Destroy, OperatorStart, Miss, Stage, Cycle, Seal, Serves, Works, Admit,
       Record, Archive, Acknowledge, Mark, Close, WriteFails, RecordLate, Pair, Revoke, Tick
  <2> QED BY <2>1, <2>2, <2>3, <2>4
<1>3. ASSUME NEW s \in Sessions, InFlight(s) PROVE upload[s].era \in 1..era
  BY <1>3 DEF InFlight, OutboxInv, UploadsInOrder
<1>4. ASSUME NEW q \in late PROVE q.era \in 1..era
  BY DEF OutboxInv, LateInOrder
<1>5. ASSUME NEW q \in late' PROVE q.era \in 1..era'
  BY <1>1, <1>2, <1>3, <1>4, <1>5
<1> QED BY <1>5 DEF LateInOrder

LEMMA EventsStep == OutboxInv /\ [Next]_vars => EventsInOrder'
<1> SUFFICES ASSUME OutboxInv, [Next]_vars PROVE EventsInOrder'
  OBVIOUS
<1>1. bill' = bill /\ era' >= era /\ era \in Nat \ {0} /\ era' \in Nat
  BY LedgerAdvances, OutboxAssumption DEF OutboxInv, TypeOK
<1>2. ASSUME NEW r \in References, events'[r] # NoEvent
      PROVE  /\ events'[r].era \in 1..era'
             /\ \E n \in Messages : RefOf(n) = r /\ bill[n].text = events'[r].text
  <2>1. EventAdvances(r)
    BY LedgerAdvances
  <2>2. CASE events'[r] = events[r]
    BY <1>1, <1>2, <2>2 DEF OutboxInv, EventsInOrder
  <2>3. ASSUME NEW m \in Messages, NEW e \in 1..era, RefOf(m) = r, events'[r] = Tells(m, e)
        PROVE  /\ events'[r].era \in 1..era'
               /\ \E n \in Messages : RefOf(n) = r /\ bill[n].text = events'[r].text
    BY <1>1, <2>3 DEF Tells
  <2> QED BY <2>1, <2>2, <2>3 DEF EventAdvances
<1> QED BY <1>1, <1>2 DEF EventsInOrder, RefOf

-----------------------------------------------------------------------------
(* The files. *)

\* What a step may do to the files of a message, and to what became of it.
FileMoves(m) ==
    /\ m \in acks' => m \in acks \/ InLedger(m)
    /\ m \in reviews => m \in reviews'
    /\ \/ heard'[m] = heard[m] /\ (m \in sealed' <=> m \in sealed)
       \/ heard[m] = "unheard" /\ heard'[m] \in {"taken", "missed"} /\ m \notin sealed'
       \/ heard[m] = "taken" /\ heard'[m] = "missed" /\ m \notin sealed'
       \/ heard[m] = "taken" /\ heard'[m] = "kept" /\ m \in sealed'
       \/ heard[m] = "kept" /\ heard'[m] = "expired" /\ m \notin sealed' /\ age[m] = Hold
       \/ heard[m] = "kept" /\ heard'[m] = "kept" /\ m \notin sealed'
             /\ (m \in reviews' \/ InLedger(m))

LEMMA FilesMove ==
  ASSUME OutboxInv, [Next]_vars
  PROVE  \A m \in Messages : FileMoves(m)
<1> USE DEF OutboxInv, TypeOK, FilesInOrder
<1>1. CASE UNCHANGED <<sealed, acks, reviews, heard>>
  BY <1>1 DEF FileMoves
<1>2. CASE Start
  <2>1. UNCHANGED <<acks, reviews>> /\ sealed' = (sealed \ (acks \cup reviews)) \ Expired
    BY <1>2 DEF Start
  <2>2. heard' = HeardExpiring(Expired \ (acks \cup reviews))
    BY <1>2 DEF Start
  <2> QED BY <2>1, <2>2 DEF FileMoves, HeardExpiring, Expired
<1>3. CASE Crash
  BY <1>3 DEF Crash, FileMoves
<1>4. ASSUME NEW n \in Messages, Miss(n) \/ Stage(n)
      PROVE  \A m \in Messages : FileMoves(m)
  BY <1>4 DEF Miss, Stage, FileMoves, files
<1>5. ASSUME NEW s \in Sessions, Seal(s)
      PROVE  \A m \in Messages : FileMoves(m)
  BY <1>5 DEF Seal, FileMoves, CapturesInOrder
<1>6. ASSUME NEW s \in Sessions, WriteFails(s)
      PROVE  \A m \in Messages : FileMoves(m)
  BY <1>6 DEF WriteFails, FileMoves, CapturesInOrder
<1>7. CASE Cycle
  BY <1>7 DEF Cycle, FileMoves, HeardExpiring, Expired
<1>8. ASSUME NEW s \in Sessions, Archive(s) \/ Mark(s) \/ Close(s)
      PROVE  \A m \in Messages : FileMoves(m)
  BY <1>8 DEF Archive, Mark, Close, FileMoves, UploadsInOrder
<1>9. CASE Tick
  BY <1>9 DEF Tick, FileMoves
<1>10. \/ UNCHANGED <<sealed, acks, reviews, heard>> \/ Start \/ Crash \/ Cycle
       \/ \E m \in Messages : Miss(m) \/ Stage(m)
       \/ \E s \in Sessions : Seal(s) \/ WriteFails(s) \/ Archive(s) \/ Mark(s) \/ Close(s)
  BY DEF vars, Next, StartFails, Inspect, InspectFails, Unavailable, Quiet, Stop, HeartbeatRefused,
     StopsLoop, Destroy, OperatorStart, Serves, Works, Admit, Record, Acknowledge, TimeOut,
     RecordLate, Pair, Revoke, Tick, files
<1> QED BY <1>1, <1>2, <1>3, <1>4, <1>5, <1>6, <1>7, <1>8, <1>10

LEMMA FilesStep == OutboxInv /\ [Next]_vars => FilesInOrder'
<1> SUFFICES ASSUME OutboxInv, [Next]_vars PROVE FilesInOrder'
  OBVIOUS
<1>1. ASSUME NEW m \in Messages PROVE FileMoves(m) /\ (InLedger(m) => InLedger(m)')
  BY FilesMove, LedgerKeeps
<1>2. sealed' \subseteq Messages /\ acks' \subseteq Messages
  BY TypesStep DEF TypeOK
<1>3. ASSUME NEW m \in sealed' PROVE heard'[m] = "kept"
  <2>1. m \in Messages /\ FileMoves(m)
    BY <1>1, <1>2
  <2> QED BY <2>1 DEF FileMoves, OutboxInv, FilesInOrder
<1>4. ASSUME NEW m \in acks' PROVE InLedger(m)'
  BY <1>1, <1>2 DEF FileMoves, OutboxInv, FilesInOrder
<1>5. ASSUME NEW m \in Messages, heard'[m] = "kept"
      PROVE  m \in sealed' \cup reviews' \/ InLedger(m)'
  BY <1>1, <1>5 DEF FileMoves, OutboxInv, FilesInOrder
<1> QED BY <1>3, <1>4, <1>5 DEF FilesInOrder

-----------------------------------------------------------------------------
(* Refusals. *)

LEMMA ReviewsGrow ==
  ASSUME [Next]_vars
  PROVE  reviews' \subseteq reviews \/ \E s \in Sessions : Archive(s)
BY DEF vars, Next, Start, StartFails, Inspect, InspectFails, Unavailable, Quiet, Stop,
   HeartbeatRefused, StopsLoop, Destroy, OperatorStart, Crash, Miss, Stage, Cycle, Seal, Serves, Works,
   Admit, Record, Acknowledge, Mark, Close, WriteFails, TimeOut, RecordLate, Pair, Revoke, Tick, files

LEMMA RefusalsStep == OutboxInv /\ [Next]_vars => RefusalsInOrder'
<1> SUFFICES ASSUME OutboxInv, [Next]_vars, Steady'
             PROVE  RefusalsInOrder'
  BY DEF RefusalsInOrder
<1>1. Steady
  BY LedgerAdvances
<1>2. \A m \in reviews \cup conflicts : Contested(m)
  BY <1>1 DEF OutboxInv, RefusalsInOrder
<1>3. ASSUME NEW s \in Sessions, upload[s].step = "refused"
      PROVE  \E m \in Messages : upload[s].of = m /\ Contested(m)
  BY <1>1, <1>3 DEF OutboxInv, RefusalsInOrder, UploadsInOrder
<1>4. ASSUME NEW s \in Sessions, upload'[s].step = "refused"
      PROVE  \E m \in Messages : upload'[s].of = m /\ Contested(m)
  <2>1. UploadAdvances(s)
    BY UploadsAdvance
  <2> QED BY <1>1, <1>3, <1>4, <2>1 DEF UploadAdvances, GoesOn
<1>5. ASSUME NEW m \in reviews' PROVE Contested(m)
  <2>1. CASE reviews' \subseteq reviews
    BY <1>2, <2>1
  <2>2. ASSUME NEW s \in Sessions, Archive(s) PROVE Contested(m)
    BY <1>2, <1>3, <2>2 DEF Archive
  <2>3. reviews' \subseteq reviews \/ \E s \in Sessions : Archive(s)
    BY ReviewsGrow
  <2> QED BY <2>1, <2>2, <2>3
<1>6. ASSUME NEW m \in conflicts' PROVE Contested(m)
  <2>1. ASSUME NEW n \in Messages, NEW e \in 1..era, Receive(n, e)
        PROVE  Contested(m)
    <3>1. CASE m \in conflicts
      BY <1>2, <3>1
    <3>2. CASE m = n /\ ~Taken(n, e)
      BY <1>1, <3>2, RefusedIsContested
    <3> QED BY <1>6, <2>1, <3>1, <3>2 DEF Receive, Taken
  <2>2. CASE conflicts' \subseteq conflicts
    BY <1>2, <1>6, <2>2
  <2>3. ASSUME NEW s \in Sessions, Record(s) PROVE Contested(m)
    <3>1. upload[s].of \in Messages /\ upload[s].era \in 1..era
      BY <2>3 DEF Record, OutboxInv, UploadsInOrder
    <3>2. conflicts' \subseteq conflicts \/ Receive(upload[s].of, upload[s].era)
      BY <2>3 DEF Record, ledger
    <3> QED BY <2>1, <2>2, <3>1, <3>2
  <2>4. ASSUME NEW q \in late, RecordLate(q) PROVE Contested(m)
    <3>1. q.of \in Messages /\ q.era \in 1..era
      BY DEF OutboxInv, LateInOrder, TypeOK, Signed
    <3> QED BY <2>1, <2>4, <3>1 DEF RecordLate
  <2>5. \/ conflicts' \subseteq conflicts
        \/ \E s \in Sessions : Record(s)
        \/ \E q \in late : RecordLate(q)
    BY DEF vars, Next, Start, StartFails, Inspect, InspectFails, Unavailable, Quiet, Stop,
       HeartbeatRefused, StopsLoop, Destroy, OperatorStart, Crash, Miss, Stage, Cycle, Seal, Serves, Works,
       Admit, Archive, Acknowledge, Mark, Close, WriteFails, TimeOut, Pair, Revoke, Tick, ledger
  <2> QED BY <2>2, <2>3, <2>4, <2>5
<1>7. bill' = bill
  BY LedgerAdvances
<1> QED BY <1>4, <1>5, <1>6, <1>7 DEF RefusalsInOrder, Contested, RefOf

LEMMA OutboxInvariant == Spec => []OutboxInv
<1>1. OutboxInv /\ [Next]_vars => OutboxInv'
  BY TypesStep, ServiceStep, CapturesStep, UploadsStep, LateStep, FilesStep, EventsStep, RefusalsStep
  DEF OutboxInv
<1> QED BY <1>1, InitHolds, PTL DEF Spec

\* Files, threads, enrolments and what is recorded keep their types, whatever
\* stops, dies or is lost.
THEOREM TypeCorrect == Spec => []TypeOK
<1>1. OutboxInv => TypeOK
  BY DEF OutboxInv
<1> QED BY <1>1, OutboxInvariant, PTL

\* An undisturbed phone's repeated upload is known again: only what another
\* message of the reference contradicts is put aside.
THEOREM RetriesAreReplays == Spec => []OwnRetryIsReplay
<1>1. OutboxInv => OwnRetryIsReplay
  BY DEF OutboxInv, RefusalsInOrder, Steady, Contested, OwnRetryIsReplay
<1> QED BY <1>1, OutboxInvariant, PTL
-----------------------------------------------------------------------------
(* The outbox keeps the promise of SealedMessages. *)

\* The fate of a message, without the one that does not happen.
FateDescribed(m) ==
    /\ InLedger(m) => FateOf(m) = "recorded"
    /\ ~InLedger(m) /\ m \in reviews => FateOf(m) = "reviewed"
    /\ ~InLedger(m) /\ m \notin reviews =>
         /\ heard[m] \in {"unheard", "taken"} => FateOf(m) = "unseen"
         /\ heard[m] = "missed" => FateOf(m) = "missed"
         /\ heard[m] = "kept" => FateOf(m) = "sealed"
         /\ heard[m] = "expired" => FateOf(m) = "expired"

LEMMA Described ==
  ASSUME OutboxInv, NEW m \in Messages
  PROVE  FateDescribed(m)
BY DEF OutboxInv, FilesInOrder, FateDescribed, FateOf

LEMMA DescribedAfter ==
  ASSUME OutboxInv', NEW m \in Messages
  PROVE  FateDescribed(m)'
BY DEF OutboxInv, FilesInOrder, FateDescribed, FateOf

LEMMA OnwardIs ==
  /\ Promise!Onward("unseen") = {"unseen", "recorded", "sealed", "missed"}
  /\ Promise!Onward("sealed") = {"sealed", "recorded", "reviewed", "expired"}
  /\ \A f : {f, "recorded"} \subseteq Promise!Onward(f)
BY DEF Promise!Onward

\* Only a sealed message is put aside.
LEMMA ArchivedWasSealed ==
  ASSUME OutboxInv, [Next]_vars, NEW m \in reviews' \ reviews
  PROVE  heard[m] = "kept"
<1>1. ASSUME NEW s \in Sessions, Archive(s) PROVE heard[m] = "kept"
  BY <1>1 DEF Archive, OutboxInv, FilesInOrder
<1>2. reviews' \subseteq reviews \/ \E s \in Sessions : Archive(s)
  BY ReviewsGrow
<1> QED BY <1>1, <1>2

LEMMA FateMoves ==
  ASSUME OutboxInv, OutboxInv', [Next]_vars, NEW m \in Messages
  PROVE  /\ FateOf(m)' \in Promise!Onward(FateOf(m))
         /\ FateOf(m)' = "expired" /\ FateOf(m) # "expired" => age[m] = Hold
<1>1. FateDescribed(m) /\ FateDescribed(m)'
  BY Described, DescribedAfter
<1>2. FileMoves(m) /\ (InLedger(m) => InLedger(m)')
  BY FilesMove, LedgerKeeps
<1>3. heard[m] \in Heard /\ heard'[m] \in Heard
  BY DEF OutboxInv, TypeOK
<1>4. CASE InLedger(m)'
  BY <1>1, <1>4, OnwardIs DEF FateDescribed
<1>5. CASE ~InLedger(m)' /\ m \in reviews
  BY <1>1, <1>2, <1>5, OnwardIs DEF FateDescribed, FileMoves
<1>6. CASE ~InLedger(m)' /\ m \notin reviews /\ m \in reviews'
  <2>1. heard[m] = "kept"
    BY <1>6, ArchivedWasSealed
  <2> QED BY <1>1, <1>2, <1>6, <2>1, OnwardIs DEF FateDescribed
<1>7. CASE ~InLedger(m)' /\ m \notin reviews'
  BY <1>1, <1>2, <1>3, <1>7, OnwardIs DEF FateDescribed, FileMoves, Heard
<1> QED BY <1>4, <1>5, <1>6, <1>7

LEMMA AgeMoves ==
  ASSUME OutboxInv, [Next]_vars, NEW m \in Messages
  PROVE  age'[m] \in {age[m], age[m] + 1}
<1>1. CASE Tick
  BY <1>1 DEF Tick, OutboxInv, TypeOK
<1>2. UNCHANGED age \/ Tick
  BY DEF vars, Next, Start, StartFails, Inspect, InspectFails, Unavailable, Quiet, Stop, HeartbeatRefused,
     StopsLoop, Destroy, OperatorStart, Crash, Miss, Stage, Cycle, Seal, Serves, Works, Admit, Record,
     Archive, Acknowledge, Mark, Close, WriteFails, TimeOut, RecordLate, Pair, Revoke, files
<1> QED BY <1>1, <1>2

\* Whatever stops, dies, is lost or overlaps, a sealed message stays on the
\* phone until the ledger has its payment, it is kept for review or the time it
\* is held is over: the outbox implements SealedMessages.
THEOREM PromiseIsKept == Spec => MessageIsKept
<1>1. Init => Promise!NoMessages
  <2> SUFFICES ASSUME Init PROVE Promise!NoMessages
    OBVIOUS
  <2>1. ASSUME NEW m \in Messages PROVE FateOf(m) = "unseen"
    <3>1. ~InLedger(m)
      BY InitHolds, BillFacts DEF OutboxInv, Init, InLedger, NoEvent
    <3> QED BY <3>1 DEF Init, FateOf
  <2> QED BY <2>1 DEF Init, Promise!NoMessages
<1>2. OutboxInv /\ OutboxInv' /\ [Next]_vars => [Promise!Carry]_(Promise!post)
  <2> SUFFICES ASSUME OutboxInv, OutboxInv', [Next]_vars PROVE Promise!Carry
    OBVIOUS
  <2>1. ASSUME NEW m \in Messages
        PROVE  /\ FateOf(m)' \in Promise!Onward(FateOf(m))
               /\ FateOf(m)' = "expired" /\ FateOf(m) # "expired" => age[m] = Hold
               /\ age'[m] \in {age[m], age[m] + 1}
    BY FateMoves, AgeMoves
  <2> QED BY <2>1 DEF Promise!Carry
<1> QED BY <1>1, <1>2, OutboxInvariant, PTL DEF Spec, MessageIsKept, Promise!SealedSpec
=============================================================================
