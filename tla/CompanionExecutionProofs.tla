---------------------- MODULE CompanionExecutionProofs ----------------------
(***************************************************************************)
(* The companion's lane for any number of assignments, faults and restores *)
(* of its data directory: the types, one post at most for every deposit,   *)
(* never a second deposit in doubt on the lane, what left is remembered, a *)
(* report of no action is true, and the lane implements OneShotCredit.     *)
(***************************************************************************)
EXTENDS CompanionExecution, TLAPS

\* What the worker is about to report has an outcome.
Reporting == {"resulting", "recording", "submitting"}

\* A worker that does something does it for an assignment, and every journal
\* entry, the one in the older copy too, names one.
Engaged ==
    /\ worker.pc \in Reporting => worker.outcome # "none"
    /\ worker.pc \notin {"down", "failed_closed", "polling"} => worker.of \in Assignments
    /\ disk.journal.phase # "missing" => disk.journal.of \in Assignments
    /\ backup.journal.phase # "missing" => backup.journal.of \in Assignments

TypeInv == CompanionTypeOK /\ Engaged

\* A nonce is drawn by the worker before anyone else knows it.
NoncesDrawn ==
    /\ worker.nonce <= nonces
    /\ \A a \in Assignments : rows[a].nonce <= nonces
    /\ \A m \in wire : m.nonce <= nonces

\* Between the fence and the end of an action of the page's route.
Acting == {"keeping", "consuming", "fencing", "starting", "armed", "clicked"}

\* A worker whose request answers the nonce of the fence, and whatever it does
\* next, finds the route's permission unused.
AuthorityIsFresh ==
    LET a == worker.of IN
    /\ worker.pc \in Acting => rows[a].state \in Fenced /\ rows[a].nonce = worker.nonce
    /\ /\ worker.pc \in Acting \cup {"asking"}
       /\ rows[a].state \in Fenced /\ rows[a].nonce = worker.nonce
       => allowance[a] = "unused"

\* Only a fenced assignment has used its permission, and only a used one was posted.
PostsCounted ==
    \A a \in Assignments :
        /\ rows[a].state \notin Fenced => allowance[a] = "unused"
        /\ posts[a] = 0 \/ (posts[a] = 1 /\ allowance[a] = "gone")

\* The route of a worker that is down holds nothing.
DownIsQuiet ==
    worker.pc = "down" => \A a \in Assignments : allowance[a] # "consumed"

MoneyInv == TypeInv /\ NoncesDrawn /\ AuthorityIsFresh /\ PostsCounted /\ DownIsQuiet

-----------------------------------------------------------------------------
\* One open row at a time, and none after an attempt in doubt.
LaneInv ==
    \A a, b \in Assignments : a # b =>
        /\ ~(rows[a].state \in Open /\ rows[b].state \in Open)
        /\ rows[a].state \in Open /\ rows[b].state \in Fenced =>
             observed[b] = "confirmed_executed"
        /\ rows[a].state \in Fenced /\ rows[b].state \in Fenced =>
             observed[a] = "confirmed_executed" \/ observed[b] = "confirmed_executed"

-----------------------------------------------------------------------------
(* Types. *)

\* Each file of the disk is replaced by one of its kind.
LEMMA DiskParts ==
    ASSUME NEW d \in Disk
    PROVE  /\ \A j \in Journal : [d EXCEPT !.journal = j] \in Disk
           /\ \A c \in Chain : [d EXCEPT !.chain = c] \in Disk
           /\ \A a \in Assignments : [d EXCEPT !.markers = @ \cup {a}] \in Disk
           /\ d.chain \in Chain
           /\ NoJournal \in Journal /\ NoChain \in Chain
BY DEF Disk, Chain, Journal, NoJournal, NoChain

Typed(results) == \A r \in results : r.disk \in Disk

\* Every operation on the disk leaves a disk and costs at most one error.
LEMMA ResultsTyped ==
    ASSUME NEW d \in Disk, NEW a \in Assignments
    PROVE  /\ Typed(PersistInitial(d, a))
           /\ \A p \in Phases : \A o : Typed(PersistJournal(d, a, p, o))
           /\ \A p : Typed(RemoveJournal(d, a, p))
           /\ \A before \in SUBSET Parts, part \in Parts : Typed(PersistPart(d, a, before, part))
           /\ \A parts \in SUBSET Parts : Typed(ClearChain(d, a, parts))
           /\ Typed(ConsumeOnce(d, a))
<1> USE DiskParts DEF Typed, Done, Refused, Failed
<1>1. Typed(PersistInitial(d, a))
  <2>1. Kept(a, {"enrollment", "assignment"}, "whole") \in Chain
    BY DEF Kept, Chain, Parts
  <2>2. ShortChains(a) \subseteq Chain
    BY DEF Kept, ShortChains, Chain, Parts
  <2> QED BY <2>1, <2>2 DEF PersistInitial
<1>2. \A p \in Phases : \A o : Typed(PersistJournal(d, a, p, o))
  <2>1. \A p \in Phases : [of |-> a, phase |-> p] \in Journal
    BY DEF Journal
  <2> QED BY <2>1 DEF PersistJournal
<1>3. \A p : Typed(RemoveJournal(d, a, p))
  BY DEF RemoveJournal
<1>4. \A before \in SUBSET Parts, part \in Parts : Typed(PersistPart(d, a, before, part))
  <2> SUFFICES ASSUME NEW before \in SUBSET Parts, NEW part \in Parts
               PROVE  Typed(PersistPart(d, a, before, part))
    OBVIOUS
  <2>1. [d.chain EXCEPT !.parts = before \cup {part}] \in Chain
    BY DEF Chain
  <2>2. [d.chain EXCEPT !.files = "torn"] \in Chain
    BY DEF Chain
  <2>3. /\ [d EXCEPT !.chain.parts = before \cup {part}] \in Disk
        /\ [d EXCEPT !.chain.files = "torn"] \in Disk
    BY <2>1, <2>2
  <2> QED BY <2>3 DEF PersistPart
<1>5. \A parts \in SUBSET Parts : Typed(ClearChain(d, a, parts))
  <2> SUFFICES ASSUME NEW parts \in SUBSET Parts PROVE Typed(ClearChain(d, a, parts))
    OBVIOUS
  <2>1. \A rest \in SUBSET Parts : Kept(a, rest, "whole") \in Chain
    BY DEF Kept, Chain
  <2> QED BY <2>1 DEF ClearChain
<1>6. Typed(ConsumeOnce(d, a))
  BY DEF ConsumeOnce
<1> QED BY <1>1, <1>2, <1>3, <1>4, <1>5, <1>6

\* The initial states are typed.
LEMMA TypeInitially == Init => CompanionTypeOK
<1> SUFFICES ASSUME Init PROVE CompanionTypeOK
  OBVIOUS
<1> USE BoundsAreNaturals DEF Init
<1>1. EmptyDisk \in Disk
  BY DEF EmptyDisk, Disk, NoJournal, NoChain, Journal, Chain
<1>2. rows \in [Assignments -> Row] /\ worker \in Worker
  BY DEF Row, Worker, Resting, Open, Outcomes, Pcs, Phases
<1>3. faults \in 0..MaxFaults /\ restores \in 0..MaxRestores
  OBVIOUS
<1> QED BY <1>1, <1>2, <1>3 DEF CompanionTypeOK

\* One more fault stays within the bound.
LEMMA FaultTyped == CompanionTypeOK /\ Fault => faults' \in 0..MaxFaults
BY BoundsAreNaturals DEF CompanionTypeOK, Fault

\* The steps of the worker that touch its disk.
WriteStep ==
    \/ KeepAssignment \/ ObserveAssignment \/ DiscardJournal \/ DiscardChain
    \/ KeepAuthority \/ ConsumeAuthority \/ RecordFence \/ RecordStart
    \/ KeepResult \/ RecordResult \/ ClearJournal \/ ClearAttempt

\* A write of the worker leaves everything typed.
LEMMA WritesTyped ==
    ASSUME CompanionTypeOK, worker.of \in Assignments, WriteStep
    PROVE  CompanionTypeOK'
<1> DEFINE a == worker.of
<1>1. Typed(PersistInitial(disk, a)) /\ Typed(ConsumeOnce(disk, a))
  BY ResultsTyped DEF CompanionTypeOK
<1>2. \A p \in Phases : \A o : Typed(PersistJournal(disk, a, p, o))
  BY ResultsTyped DEF CompanionTypeOK
<1>3. \A p : Typed(RemoveJournal(disk, a, p))
  BY ResultsTyped DEF CompanionTypeOK
<1>4. \A before \in SUBSET Parts, part \in Parts : Typed(PersistPart(disk, a, before, part))
  BY ResultsTyped DEF CompanionTypeOK
<1>5. \A parts \in SUBSET Parts : Typed(ClearChain(disk, a, parts))
  BY ResultsTyped DEF CompanionTypeOK
<1>6. worker.phase \in Phases \cup {"missing"}
  BY DEF CompanionTypeOK, Worker
<1>7. disk' \in Disk
  <2> USE DEF Writes, Typed, Phases, Parts
  <2>1. CASE KeepAssignment
    BY <1>1, <2>1 DEF KeepAssignment
  <2>2. CASE ObserveAssignment
    BY <1>2, <2>2 DEF ObserveAssignment
  <2>3. CASE DiscardJournal
    BY <1>3, <2>3 DEF DiscardJournal
  <2>4. CASE DiscardChain
    BY <1>5, <2>4 DEF DiscardChain
  <2>5. CASE KeepAuthority
    BY <1>4, <2>5 DEF KeepAuthority
  <2>6. CASE ConsumeAuthority
    BY <1>1, <2>6 DEF ConsumeAuthority
  <2>7. CASE RecordFence
    BY <1>2, <2>7 DEF RecordFence
  <2>8. CASE RecordStart
    BY <1>2, <2>8 DEF RecordStart
  <2>9. CASE KeepResult
    BY <1>4, <2>9 DEF KeepResult
  <2>10. CASE RecordResult
    BY <1>2, <2>10 DEF RecordResult
  <2>11. CASE ClearJournal
    BY <1>3, <2>11 DEF ClearJournal
  <2>12. CASE ClearAttempt
    BY <1>5, <2>12 DEF ClearAttempt
  <2> QED BY <2>1, <2>2, <2>3, <2>4, <2>5, <2>6, <2>7, <2>8, <2>9, <2>10, <2>11, <2>12
          DEF WriteStep
<1>9. faults' \in 0..MaxFaults
  <2>1. Fault \/ UNCHANGED faults
    BY DEF Writes, WriteStep, KeepAssignment, ObserveAssignment, DiscardJournal, DiscardChain, KeepAuthority, ConsumeAuthority, RecordFence, RecordStart, KeepResult, RecordResult, ClearJournal, ClearAttempt
  <2> QED BY <2>1, FaultTyped DEF CompanionTypeOK
<1>10. worker' \in Worker
  <2>1. \A p \in Phases \cup {"missing"}, q \in Pcs :
          [worker EXCEPT !.phase = p, !.pc = q] \in Worker
    BY DEF CompanionTypeOK, Worker
  <2>2. \E p \in Phases \cup {"missing"}, q \in Pcs :
          worker' = [worker EXCEPT !.phase = p, !.pc = q]
    BY <1>6 DEF Writes, Phases, Pcs, WriteStep, KeepAssignment, ObserveAssignment, DiscardJournal, DiscardChain, KeepAuthority, ConsumeAuthority, RecordFence, RecordStart, KeepResult, RecordResult, ClearJournal, ClearAttempt
  <2> QED BY <2>1, <2>2
<1>8. UNCHANGED <<bridge, wire, nonces, backup, page, restores>>
  BY DEF WriteStep, KeepAssignment, ObserveAssignment, DiscardJournal, DiscardChain,
         KeepAuthority, ConsumeAuthority, RecordFence, RecordStart, KeepResult, RecordResult,
         ClearJournal, ClearAttempt
<1> QED BY <1>7, <1>8, <1>9, <1>10 DEF CompanionTypeOK, bridge, page

\* A write touches nothing of the worker but its place and its copy of the journal.
LEMMA WriteMoves ==
    ASSUME WriteStep, worker \in Worker
    PROVE  /\ worker'.of = worker.of /\ worker'.nonce = worker.nonce
           /\ worker'.outcome = worker.outcome
           /\ worker'.pc \in Reporting => worker.pc \in Reporting
           /\ worker'.pc \in Acting => worker.pc \in Acting
           /\ worker'.pc \notin {"down", "asking", "clicked", "routed", "submitted"}
           /\ worker.pc \in {"enrolling", "observing", "discarding", "discarding_chain",
                             "keeping", "consuming", "fencing", "starting", "resulting",
                             "recording", "clearing", "clearing_chain"}
           /\ UNCHANGED <<bridge, wire, nonces, backup, page, restores>>
BY ZenonT(30)
   DEF WriteStep, Worker, Writes, Reporting, Acting, KeepAssignment, ObserveAssignment, DiscardJournal,
       DiscardChain, KeepAuthority, ConsumeAuthority, RecordFence, RecordStart, KeepResult,
       RecordResult, ClearJournal, ClearAttempt

\* What each operation may do to the disk.
LEMMA InitialResults ==
    ASSUME NEW d \in Disk, NEW a \in Assignments, NEW r \in PersistInitial(d, a)
    PROVE  /\ r.disk.journal = d.journal /\ r.disk.markers = d.markers
           /\ r.disk.chain = d.chain \/ d.chain = NoChain
BY DEF PersistInitial, Done, Failed, Refused, Disk

LEMMA JournalResults ==
    ASSUME NEW d \in Disk, NEW a \in Assignments, NEW p \in Phases, NEW o,
           NEW r \in PersistJournal(d, a, p, o)
    PROVE  LET next == [of |-> a, phase |-> p] IN
           /\ r.disk.chain = d.chain /\ r.disk.markers = d.markers
           /\ \/ r.disk.journal = d.journal
              \/ r.disk.journal = next /\ LegalTransition(d.journal, next, o)
           /\ r.end = "done" => r.disk.journal = next
BY DEF PersistJournal, Done, Failed, Refused, Disk

LEMMA RemoveResults ==
    ASSUME NEW d \in Disk, NEW a \in Assignments, NEW p, NEW r \in RemoveJournal(d, a, p)
    PROVE  /\ r.disk.chain = d.chain /\ r.disk.markers = d.markers
           /\ r.disk.journal = d.journal \/
              (d.journal = [of |-> a, phase |-> p] /\ r.disk.journal = NoJournal)
BY DEF RemoveJournal, Done, Failed, Refused, Disk

LEMMA PartResults ==
    ASSUME NEW d \in Disk, NEW a \in Assignments, NEW before, NEW part,
           NEW r \in PersistPart(d, a, before, part)
    PROVE  /\ r.disk.journal = d.journal /\ r.disk.markers = d.markers
           /\ r.disk.chain.of = d.chain.of
           /\ r.disk.chain.parts = d.chain.parts \/
              (d.chain.parts = before /\ r.disk.chain.parts = before \cup {part})
           /\ r.end = "done" => d.chain.of = a /\ part \in r.disk.chain.parts
<1>1. d.chain \in Chain
  BY DEF Disk
<1> QED BY <1>1 DEF PersistPart, Kept, Done, Failed, Refused, Disk, Chain

LEMMA ClearResults ==
    ASSUME NEW d \in Disk, NEW a \in Assignments, NEW parts, NEW r \in ClearChain(d, a, parts)
    PROVE  /\ r.disk.journal = d.journal /\ r.disk.markers = d.markers
           /\ r.disk.chain = d.chain \/ d.chain = Kept(a, parts, "whole")
BY DEF ClearChain, Done, Failed, Refused, Disk

LEMMA ConsumeResults ==
    ASSUME NEW d \in Disk, NEW a \in Assignments, NEW r \in ConsumeOnce(d, a)
    PROVE  /\ r.disk.journal = d.journal /\ r.disk.chain = d.chain
           /\ r.disk.markers = d.markers \/ r.disk.markers = d.markers \cup {a}
           /\ r.end = "done" => a \in r.disk.markers
BY DEF ConsumeOnce, Done, Failed, Refused, Disk

\* A write names an assignment in the journal, or leaves it, or removes it.
LEMMA WritesEngaged ==
    ASSUME TypeInv, WriteStep, worker.of \in Assignments
    PROVE  Engaged'
<1>1. disk \in Disk /\ worker \in Worker
  BY DEF TypeInv, CompanionTypeOK
<1>2. disk'.journal.phase # "missing" => disk'.journal.of \in Assignments
  <2>1. disk'.journal = disk.journal \/ disk'.journal = NoJournal
        \/ \E p \in Phases : disk'.journal = [of |-> worker.of, phase |-> p]
    <3> DEFINE a == worker.of
    <3> HIDE DEF a
    <3>7. /\ \A r \in PersistInitial(disk, a) : r.disk.journal = disk.journal
          /\ \A r \in ConsumeOnce(disk, a) : r.disk.journal = disk.journal
      BY <1>1, InitialResults, ConsumeResults DEF a
    <3>8. \A p \in Phases : \A o : \A r \in PersistJournal(disk, a, p, o) :
            r.disk.journal = disk.journal \/ r.disk.journal = [of |-> a, phase |-> p]
      BY <1>1, JournalResults DEF a
    <3>9. \A p : \A r \in RemoveJournal(disk, a, p) :
            r.disk.journal = disk.journal \/ r.disk.journal = NoJournal
      BY <1>1, RemoveResults, ZenonT(30) DEF a
    <3>10. /\ \A parts : \A r \in ClearChain(disk, a, parts) : r.disk.journal = disk.journal
           /\ \A before, part : \A r \in PersistPart(disk, a, before, part) :
                 r.disk.journal = disk.journal
      BY <1>1, ClearResults, PartResults DEF a
    <3> USE DEF Writes, a
    <3>1. CASE KeepAssignment
      BY <3>1, <3>7 DEF KeepAssignment
    <3>2. CASE ObserveAssignment
      BY <3>2, <3>8 DEF ObserveAssignment, Phases
    <3>3. CASE RecordFence
      BY <3>3, <3>8 DEF RecordFence, Phases
    <3>4. CASE RecordStart
      BY <3>4, <3>8 DEF RecordStart, Phases
    <3>5. CASE RecordResult
      BY <3>5, <3>8 DEF RecordResult, Phases
    <3>6. CASE DiscardJournal \/ ClearJournal
      BY <3>6, <3>9 DEF DiscardJournal, ClearJournal
    <3>11. CASE DiscardChain \/ ClearAttempt
      BY <3>11, <3>10, ZenonT(30) DEF DiscardChain, ClearAttempt
    <3>12. CASE KeepAuthority
      BY <3>12, <3>10 DEF KeepAuthority
    <3>13. CASE KeepResult
      BY <3>13, <3>10 DEF KeepResult
    <3>14. CASE ConsumeAuthority
      BY <3>14, <3>7 DEF ConsumeAuthority
    <3> QED BY <3>1, <3>2, <3>3, <3>4, <3>5, <3>6, <3>11, <3>12, <3>13, <3>14 DEF WriteStep
  <2>2. CASE disk'.journal = disk.journal
    BY <2>2 DEF TypeInv, Engaged
  <2>3. CASE disk'.journal = NoJournal
    BY <2>3 DEF NoJournal
  <2>4. ASSUME NEW p \in Phases, disk'.journal = [of |-> worker.of, phase |-> p]
        PROVE  disk'.journal.of \in Assignments
    BY <2>4
  <2> QED BY <2>1, <2>2, <2>3, <2>4
<1> QED BY <1>1, <1>2, WriteMoves DEF TypeInv, Engaged

\* What a message carries.
LEMMA MessageFields ==
    ASSUME NEW m \in Message
    PROVE  /\ m.of \in Assignments /\ m.nonce \in Nat /\ m.kind \in {"authority", "result"}
           /\ m.kind = "result" => m.outcome \in Outcomes
           /\ m.kind = "authority" => m.outcome = "none"
BY DEF Message

\* A step of the bridge.
LEMMA BridgeTyped ==
    ASSUME TypeInv, BridgeStep
    PROVE  TypeInv'
<1> USE DEF TypeInv, CompanionTypeOK, bridge, device, page, budget, Reporting
<1>1. /\ rows' \in [Assignments -> Row]
      /\ UNCHANGED <<control, window, observed, told, wire, device, page, budget>>
  <2> USE DEF Row, Open
  <2>1. ASSUME NEW a \in Assignments, LeaseAssignment(a) \/ SignAssignment(a) \/ SignAuthority(a)
        PROVE  <1>1!1 /\ <1>1!2
    BY <2>1, SMTT(30) DEF LeaseAssignment, SignAssignment, SignAuthority
  <2>2. ASSUME NEW m \in wire, ClaimAuthority(m) \/ AcceptResult(m)
        PROVE  <1>1!1 /\ <1>1!2
    <3>1. m.of \in Assignments /\ m.nonce \in Nat
          /\ (m.kind = "result" => m.outcome \in Outcomes)
      BY MessageFields
    <3>2. CASE ClaimAuthority(m)
      <4>1. \A r \in Row, n \in Nat :
              [r EXCEPT !.state = "authority_claimed", !.nonce = n] \in Row
        OBVIOUS
      <4>4. [rows[m.of] EXCEPT !.state = "authority_claimed", !.nonce = m.nonce] \in Row
        <5>1. rows[m.of] \in Row
          BY <3>1
        <5> HIDE DEF Row
        <5> QED BY <3>1, <4>1, <5>1
      <4>2. rows' = [rows EXCEPT ![m.of] =
                       [rows[m.of] EXCEPT !.state = "authority_claimed", !.nonce = m.nonce]]
        BY <3>2 DEF ClaimAuthority
      <4>3. rows' \in [Assignments -> Row]
        BY <4>2, <4>4
      <4> QED BY <3>2, <4>3 DEF ClaimAuthority
    <3>3. CASE AcceptResult(m)
      BY <3>1, <3>3 DEF AcceptResult
    <3> QED BY <2>2, <3>2, <3>3
  <2> QED BY <2>1, <2>2 DEF BridgeStep
<1> QED BY <1>1 DEF Engaged

\* A step of the world around: the page, the platform, time, faults.
LEMMA EnvironmentTyped ==
    ASSUME TypeInv, Environment
    PROVE  TypeInv'
<1> USE DEF TypeInv, CompanionTypeOK, bridge, device, page, budget, Reporting
<1>1. CASE Boot
  <2>1. worker' \in Worker /\ worker'.pc \notin Reporting /\ UNCHANGED <<bridge, wire, nonces, disk, backup, page, budget>>
    BY <1>1, ZenonT(30) DEF Boot, Resting, Worker, Pcs, Phases, Disk, Journal, Recovery
  <2>2. worker'.pc \in {"polling", "failed_closed"} \/ worker'.of \in Assignments
    <3>1. Recovery(disk) \in {"fresh", "reconcile", "operator"}
      BY DEF Recovery
    <3>2. Recovery(disk) = "reconcile" => disk.journal.of \in Assignments
      BY DEF Recovery, Engaged, Recorded
    <3> QED BY <1>1, <3>1, <3>2 DEF Boot, Resting
  <2> QED BY <2>1, <2>2 DEF Engaged
<1>2. CASE Leave \/ Crash
  <2>1. worker' \in Worker /\ worker'.pc = "down"
    BY <1>2 DEF Leave, Crash, Resting, Worker, Pcs
  <2>2. allowance' \in [Assignments -> {"unused", "consumed", "gone"}]
    BY <1>2 DEF Leave, Crash, PageDies
  <2>3. faults' \in 0..MaxFaults
    BY <1>2, FaultTyped DEF Leave, Crash
  <2> QED BY <1>2, <2>1, <2>2, <2>3 DEF Leave, Crash, Engaged
<1>3. CASE PreparationFails
  <2>1. worker' \in Worker /\ worker'.of = worker.of /\ worker'.pc \notin Reporting
    BY <1>3 DEF PreparationFails, Goes, Worker, Pcs
  <2> QED BY <1>3, <2>1, FaultTyped DEF PreparationFails, Engaged
<1>4. CASE RouteConsumes
  <2>1. worker' \in Worker /\ worker'.of = worker.of /\ worker'.pc \notin Reporting
    BY <1>4 DEF RouteConsumes, Goes, Worker, Pcs
  <2> QED BY <1>4, <2>1 DEF RouteConsumes, Engaged
<1>5. CASE TakeBackup \/ RestoreBackup \/ DisableControl
  BY <1>5, BoundsAreNaturals DEF TakeBackup, RestoreBackup, DisableControl, Engaged
<1>6. ASSUME NEW a \in Assignments, RouteForwards(a) \/ RouteBlocks(a) \/ Land(a) \/ TimePasses(a)
      PROVE  TypeInv'
  BY <1>6 DEF RouteForwards, RouteBlocks, Land, TimePasses, Engaged
<1>7. ASSUME NEW a \in Assignments,
             NEW seen \in {"not_observed", "review_required", "confirmed_executed"},
             Observe(a, seen)
      PROVE  TypeInv'
  BY <1>7 DEF Observe, Engaged
<1> QED BY <1>1, <1>2, <1>3, <1>4, <1>5, <1>6, <1>7 DEF Environment

\* The fields of the worker that a step may set.
LEMMA WorkerUpdates ==
    ASSUME NEW w \in Worker, NEW q \in Pcs
    PROVE  /\ [w EXCEPT !.pc = q] \in Worker
           /\ \A n \in Nat : [w EXCEPT !.pc = q, !.nonce = n] \in Worker
           /\ \A o \in Outcomes \cup {"none"} : [w EXCEPT !.pc = q, !.outcome = o] \in Worker
BY DEF Worker

\* A worker's step that writes nothing to the disk.
QuietStep ==
    \/ \E a \in Assignments : TakeAssignment(a)
    \/ AskAuthority \/ AuthorityArrives \/ AuthorityFails \/ DeadlinePassed \/ Click \/ HoldBack
    \/ PlatformAnswers \/ GiveUp \/ Conclude \/ SubmitResult \/ ResultAcknowledged
    \/ ResultFails \/ StatusArrives \/ StatusFails

LEMMA WorkerSteps == WorkerStep <=> (WriteStep \/ QuietStep)
BY DEF WorkerStep, WriteStep, QuietStep

LEMMA QuietTyped ==
    ASSUME TypeInv, QuietStep
    PROVE  TypeInv'
<1> USE DEF TypeInv, CompanionTypeOK, bridge, device, page, budget, Reporting
<1>1. ASSUME NEW a \in Assignments, TakeAssignment(a)
      PROVE  TypeInv'
  <2>1. worker' \in Worker /\ worker'.of \in Assignments /\ worker'.pc \notin Reporting
    BY <1>1 DEF TakeAssignment, Resting, Worker, Pcs
  <2> QED BY <1>1, <2>1 DEF TakeAssignment, Engaged
<1>2. CASE AskAuthority
  <2>1. worker' \in Worker /\ worker'.of = worker.of /\ worker'.pc \notin Reporting
    <3>1. nonces + 1 \in Nat /\ "asking" \in Pcs /\ worker \in Worker
      BY DEF Pcs
    <3>2. [worker EXCEPT !.pc = "asking", !.nonce = nonces + 1] \in Worker
      BY <3>1, WorkerUpdates
    <3> QED BY <1>2, <3>2 DEF AskAuthority, Worker
  <2>2. worker.of \in Assignments
    BY <1>2 DEF AskAuthority, Engaged
  <2>3. [kind |-> "authority", of |-> worker.of, nonce |-> nonces + 1, outcome |-> "none"]
          \in Message
    BY <2>2 DEF Message
  <2>4. nonces' \in Nat /\ wire' \subseteq Message
    BY <1>2, <2>3 DEF AskAuthority
  <2> QED BY <1>2, <2>1, <2>2, <2>4 DEF AskAuthority, Engaged
<1>3. CASE AuthorityArrives \/ DeadlinePassed \/ Click \/ ResultAcknowledged
  <2>1. worker' \in Worker /\ worker'.of = worker.of /\ worker'.pc \notin Reporting
    BY <1>3 DEF AuthorityArrives, DeadlinePassed, Click, ResultAcknowledged, Goes, Worker, Pcs
  <2>2. worker.of \in Assignments
    BY <1>3 DEF AuthorityArrives, DeadlinePassed, Click, ResultAcknowledged, Engaged
  <2>3. UNCHANGED <<bridge, wire, nonces, disk, backup, page, budget>>
    BY <1>3 DEF AuthorityArrives, DeadlinePassed, Click, ResultAcknowledged
  <2> QED BY <2>1, <2>2, <2>3 DEF Engaged
<1>4. CASE AuthorityFails \/ HoldBack \/ ResultFails \/ StatusFails
  <2>1. worker' \in Worker /\ worker'.of = worker.of /\ worker'.pc \notin Reporting
    BY <1>4 DEF AuthorityFails, HoldBack, ResultFails, StatusFails, Goes, Worker, Pcs
  <2>2. worker.of \in Assignments
    BY <1>4 DEF AuthorityFails, HoldBack, ResultFails, StatusFails, Engaged
  <2>3. UNCHANGED <<bridge, wire, nonces, disk, backup, page, restores>>
    BY <1>4 DEF AuthorityFails, HoldBack, ResultFails, StatusFails
  <2>4. faults' \in 0..MaxFaults
    BY <1>4, FaultTyped DEF AuthorityFails, HoldBack, ResultFails, StatusFails
  <2> QED BY <2>1, <2>2, <2>3, <2>4 DEF Engaged
<1>5. CASE PlatformAnswers \/ GiveUp \/ Conclude
  <2>1. \E q \in {"concluding", "resulting"}, o \in Outcomes :
          worker' = [worker EXCEPT !.pc = q, !.outcome = o]
    BY <1>5 DEF PlatformAnswers, GiveUp, Conclude, Worker, Outcomes
  <2>2. worker.of \in Assignments
    BY <1>5 DEF PlatformAnswers, GiveUp, Conclude, Engaged
  <2>3. UNCHANGED <<bridge, wire, nonces, disk, backup, page, budget>>
    BY <1>5 DEF PlatformAnswers, GiveUp, Conclude
  <2>4. worker' \in Worker /\ worker'.of = worker.of /\ worker'.outcome # "none"
    <3>1. "concluding" \in Pcs /\ "resulting" \in Pcs /\ worker \in Worker
      BY DEF Pcs
    <3>2. worker' \in Worker
      <4>1. PICK q \in {"concluding", "resulting"}, o \in Outcomes :
              worker' = [worker EXCEPT !.pc = q, !.outcome = o]
        BY <2>1
      <4>2. q \in Pcs /\ o \in Outcomes \cup {"none"}
        BY <3>1
      <4> QED BY <3>1, <4>1, <4>2, WorkerUpdates
    <3> QED BY <2>1, <3>1, <3>2 DEF Worker, Outcomes
  <2> QED BY <2>2, <2>3, <2>4 DEF Engaged
<1>6. CASE SubmitResult
  <2>1. worker' \in Worker /\ worker'.of = worker.of /\ worker'.pc \notin Reporting
    BY <1>6 DEF SubmitResult, Goes, Worker, Pcs
  <2>2. worker.of \in Assignments /\ worker.outcome \in Outcomes /\ worker.nonce \in Nat
    BY <1>6 DEF SubmitResult, Engaged, Worker
  <2>3. [kind |-> "result", of |-> worker.of, nonce |-> worker.nonce,
         outcome |-> worker.outcome] \in Message
    BY <2>2 DEF Message
  <2>4. wire' \subseteq Message
    BY <1>6, <2>3 DEF SubmitResult
  <2> QED BY <1>6, <2>1, <2>2, <2>4 DEF SubmitResult, Engaged
<1>7. CASE StatusArrives
  <2>1. worker' \in Worker /\ worker'.of = worker.of /\ worker'.pc \notin Reporting
    BY <1>7 DEF StatusArrives, Goes, Worker, Pcs
  <2>2. worker.of \in Assignments
    BY <1>7 DEF StatusArrives, Engaged
  <2>3. told' \in [Assignments -> {"none", "succeeded", "failed"}]
    BY <1>7, <2>2 DEF StatusArrives
  <2> QED BY <1>7, <2>1, <2>2, <2>3 DEF StatusArrives, Engaged
<1> QED BY <1>1, <1>2, <1>3, <1>4, <1>5, <1>6, <1>7 DEF QuietStep

LEMMA TypeStep == TypeInv /\ [Next]_vars => TypeInv'
<1> SUFFICES ASSUME TypeInv, [Next]_vars PROVE TypeInv'
  OBVIOUS
<1>1. CASE WriteStep
  <2>1. worker \in Worker
    BY DEF TypeInv, CompanionTypeOK
  <2>2. worker.of \in Assignments
    BY <1>1, <2>1, WriteMoves DEF TypeInv, Engaged
  <2> QED BY <1>1, <2>2, WritesTyped, WritesEngaged DEF TypeInv
<1>2. CASE UNCHANGED vars
  BY <1>2 DEF vars, bridge, device, page, budget, TypeInv, CompanionTypeOK, Engaged
<1> QED BY <1>1, <1>2, WorkerSteps, QuietTyped, BridgeTyped, EnvironmentTyped DEF Next

\* The type invariant holds, and so does what it needs.
THEOREM TypeCorrect == Spec => []CompanionTypeOK
<1>1. Init => TypeInv
  BY TypeInitially DEF Init, TypeInv, Engaged, Resting, EmptyDisk, NoJournal, Reporting
<1>2. TypeInv /\ [Next]_vars => TypeInv'
  BY TypeStep
<1>3. TypeInv => CompanionTypeOK
  BY DEF TypeInv
<1> QED BY <1>1, <1>2, <1>3, PTL DEF Spec
-----------------------------------------------------------------------------
(* One post. *)

LEMMA BridgeKeepsMoney ==
    ASSUME MoneyInv, BridgeStep
    PROVE  NoncesDrawn' /\ AuthorityIsFresh' /\ PostsCounted' /\ DownIsQuiet'
<1> USE DEF MoneyInv, NoncesDrawn, AuthorityIsFresh, PostsCounted, DownIsQuiet, TypeInv,
            CompanionTypeOK, bridge, device, page, budget, Fenced
<1>1. ASSUME NEW a \in Assignments, LeaseAssignment(a) \/ SignAssignment(a) \/ SignAuthority(a)
      PROVE  NoncesDrawn' /\ AuthorityIsFresh' /\ PostsCounted' /\ DownIsQuiet'
  <2>1. \A b \in Assignments :
           rows'[b].nonce = rows[b].nonce /\ (rows'[b].state \in Fenced <=> rows[b].state \in Fenced)
    BY <1>1 DEF LeaseAssignment, SignAssignment, SignAuthority, Row
  <2>2. UNCHANGED <<wire, device, page>>
    BY <1>1 DEF LeaseAssignment, SignAssignment, SignAuthority
  <2>3. worker.pc \in Acting \cup {"asking"} => worker.of \in Assignments
    BY DEF Engaged, Acting
  <2> QED
    <3>1. NoncesDrawn'
      <4>1. \A b \in Assignments : rows[b].nonce \in Nat /\ rows[b].nonce <= nonces
        BY DEF Row
      <4>2. \A b \in Assignments : rows'[b].nonce <= nonces
        BY <2>1, <2>2, <4>1
      <4> QED BY <2>2, <4>2
    <3>2. AuthorityIsFresh'
      BY <2>1, <2>2, <2>3
    <3>3. PostsCounted' /\ DownIsQuiet'
      BY <2>1, <2>2
    <3> QED BY <3>1, <3>2, <3>3
<1>2. ASSUME NEW m \in wire, ClaimAuthority(m)
      PROVE  NoncesDrawn' /\ AuthorityIsFresh' /\ PostsCounted' /\ DownIsQuiet'
  <2>1. m.of \in Assignments /\ m.nonce \in Nat
    BY MessageFields
  <2>2. /\ rows[m.of].state = "signed"
        /\ rows'[m.of].state = "authority_claimed" /\ rows'[m.of].nonce = m.nonce
        /\ \A b \in Assignments : b # m.of => rows'[b] = rows[b]
        /\ UNCHANGED <<wire, device, page>>
    BY <1>2, <2>1 DEF ClaimAuthority, Row
  <2>3. worker.pc \in Acting \cup {"asking"} => worker.of \in Assignments
    BY DEF Engaged, Acting
  <2> QED
    <3>1. NoncesDrawn'
      BY <2>1, <2>2
    <3>2. AuthorityIsFresh'
      BY <2>1, <2>2, <2>3
    <3>3. PostsCounted' /\ DownIsQuiet'
      BY <2>1, <2>2
    <3> QED BY <3>1, <3>2, <3>3
<1>3. ASSUME NEW m \in wire, AcceptResult(m)
      PROVE  NoncesDrawn' /\ AuthorityIsFresh' /\ PostsCounted' /\ DownIsQuiet'
  <2>1. m.of \in Assignments
    BY MessageFields
  <2>2. /\ \A b \in Assignments :
           rows'[b].nonce = rows[b].nonce /\ (rows'[b].state \in Fenced <=> rows[b].state \in Fenced)
        /\ UNCHANGED <<wire, device, page>>
    BY <1>3, <2>1 DEF AcceptResult, Row
  <2>3. worker.pc \in Acting \cup {"asking"} => worker.of \in Assignments
    BY DEF Engaged, Acting
  <2> QED
    <3>1. NoncesDrawn'
      <4>1. \A b \in Assignments : rows[b].nonce \in Nat /\ rows[b].nonce <= nonces
        BY DEF Row
      <4>2. \A b \in Assignments : rows'[b].nonce = rows[b].nonce
        BY <2>2
      <4>3. \A b \in Assignments : rows'[b].nonce <= nonces
        BY <4>1, <4>2
      <4> QED BY <2>2, <4>3
    <3>2. AuthorityIsFresh'
      BY <2>2, <2>3
    <3>3. PostsCounted' /\ DownIsQuiet'
      BY <2>2
    <3> QED BY <3>1, <3>2, <3>3
<1> QED BY <1>1, <1>2, <1>3 DEF BridgeStep

LEMMA WorkerKeepsMoney ==
    ASSUME MoneyInv, WorkerStep
    PROVE  NoncesDrawn' /\ AuthorityIsFresh' /\ PostsCounted' /\ DownIsQuiet'
<1> USE DEF MoneyInv, NoncesDrawn, AuthorityIsFresh, PostsCounted, DownIsQuiet, TypeInv,
            CompanionTypeOK, bridge, device, page, budget, Fenced
<1>1. CASE WriteStep
  BY <1>1, WriteMoves DEF Acting
<1>2. ASSUME NEW a \in Assignments, TakeAssignment(a)
      PROVE  NoncesDrawn' /\ AuthorityIsFresh' /\ PostsCounted' /\ DownIsQuiet'
  BY <1>2 DEF TakeAssignment, Resting, Acting, Worker
<1>3. CASE AskAuthority
  <2>1. /\ worker'.pc = "asking" /\ worker'.nonce = nonces + 1 /\ worker'.of = worker.of
        /\ nonces' = nonces + 1 /\ UNCHANGED <<bridge, page>>
    BY <1>3 DEF AskAuthority, Worker
  <2>2. \A m \in wire' : m.nonce <= nonces'
    <3>1. ASSUME NEW m \in wire PROVE m.nonce <= nonces + 1
      <4>1. m.nonce \in Nat /\ m.nonce <= nonces
        BY MessageFields
      <4> QED BY <4>1
    <3>2. \A m \in wire' : m \in wire \/ m.nonce = nonces + 1
      BY <1>3 DEF AskAuthority
    <3> QED BY <2>1, <3>1, <3>2
  <2>3. worker.of \in Assignments /\ nonces \in Nat
    BY <1>3 DEF AskAuthority, Engaged
  <2>4. \A b \in Assignments : rows[b].nonce <= nonces /\ rows[b].nonce \in Nat
    BY DEF Row
  <2> QED BY <2>1, <2>2, <2>3, <2>4 DEF Acting
<1>4. CASE AuthorityArrives
  BY <1>4 DEF AuthorityArrives, Goes, Acting, Worker
<1>5. CASE SubmitResult
  <2>1. \A m \in wire' : m.nonce <= nonces'
    BY <1>5 DEF SubmitResult
  <2> QED BY <1>5, <2>1 DEF SubmitResult, Goes, Acting, Worker
<1>6. CASE Click
  BY <1>6 DEF Click, Goes, Acting, Worker
<1>7. CASE AuthorityFails \/ DeadlinePassed \/ HoldBack \/ ResultAcknowledged \/ ResultFails
           \/ StatusArrives \/ StatusFails
  BY <1>7 DEF AuthorityFails, DeadlinePassed, HoldBack, ResultAcknowledged, ResultFails,
              StatusArrives, StatusFails, Goes, Acting, Worker
<1>8. CASE PlatformAnswers \/ GiveUp \/ Conclude
  <2>1. \E q \in {"concluding", "resulting"}, o \in Outcomes :
          worker' = [worker EXCEPT !.pc = q, !.outcome = o]
    BY <1>8 DEF PlatformAnswers, GiveUp, Conclude, Worker, Outcomes
  <2>2. worker'.pc \in {"concluding", "resulting"} /\ worker'.nonce = worker.nonce
    BY <2>1 DEF Worker
  <2>3. UNCHANGED <<rows, wire, nonces, allowance, posts>>
    BY <1>8 DEF PlatformAnswers, GiveUp, Conclude
  <2>4. NoncesDrawn'
    BY <2>2, <2>3
  <2> QED BY <2>2, <2>3, <2>4 DEF Acting
<1> QED BY <1>1, <1>2, <1>3, <1>4, <1>5, <1>6, <1>7, <1>8, WorkerSteps DEF QuietStep

LEMMA EnvironmentKeepsMoney ==
    ASSUME MoneyInv, Environment
    PROVE  NoncesDrawn' /\ AuthorityIsFresh' /\ PostsCounted' /\ DownIsQuiet'
<1> USE DEF MoneyInv, NoncesDrawn, AuthorityIsFresh, PostsCounted, DownIsQuiet, TypeInv,
            CompanionTypeOK, bridge, device, page, budget
<1>1. CASE Boot
  <2>1. Recovery(disk) \in {"fresh", "reconcile", "operator"}
    BY DEF Recovery
  <2>2. worker'.pc \in {"polling", "reconciling", "failed_closed"} /\ worker'.nonce = 0
    BY <1>1, <2>1 DEF Boot, Resting
  <2>3. UNCHANGED <<rows, wire, nonces, allowance, posts>>
    BY <1>1 DEF Boot
  <2>4. NoncesDrawn'
    BY <2>2, <2>3
  <2>5. AuthorityIsFresh' /\ PostsCounted' /\ DownIsQuiet'
    BY <2>2, <2>3 DEF Acting
  <2> QED BY <2>4, <2>5
<1>8. CASE PreparationFails
  BY <1>8 DEF PreparationFails, Goes, Acting, Worker
<1>2. CASE Leave \/ Crash
  <2>1. /\ worker'.pc = "down" /\ worker'.nonce = 0
        /\ \A b \in Assignments : allowance'[b] = IF allowance[b] = "consumed" THEN "gone"
                                                 ELSE allowance[b]
        /\ UNCHANGED <<rows, wire, nonces, posts>>
    BY <1>2 DEF Leave, Crash, PageDies, Resting
  <2> QED BY <2>1 DEF Acting
<1>3. CASE RouteConsumes
  <2>1. /\ worker.pc = "clicked" /\ worker.of \in Assignments
        /\ allowance' = [allowance EXCEPT ![worker.of] = "consumed"]
        /\ worker'.pc = "routed" /\ worker'.nonce = worker.nonce
        /\ UNCHANGED <<rows, wire, nonces, posts>>
    BY <1>3 DEF RouteConsumes, Goes, Engaged, Worker
  <2>2. rows[worker.of].state \in Fenced /\ allowance[worker.of] = "unused"
    BY <2>1 DEF Acting
  <2> QED BY <2>1, <2>2 DEF Acting
<1>4. CASE TakeBackup \/ RestoreBackup \/ DisableControl
  BY <1>4 DEF TakeBackup, RestoreBackup, DisableControl
<1>5. ASSUME NEW a \in Assignments, RouteForwards(a) \/ RouteBlocks(a)
      PROVE  NoncesDrawn' /\ AuthorityIsFresh' /\ PostsCounted' /\ DownIsQuiet'
  <2>1. /\ allowance[a] = "consumed" /\ allowance' = [allowance EXCEPT ![a] = "gone"]
        /\ \/ posts' = posts
           \/ posts' = [posts EXCEPT ![a] = posts[a] + 1]
        /\ UNCHANGED <<rows, wire, worker, nonces>>
    BY <1>5 DEF RouteForwards, RouteBlocks
  <2>2. posts[a] = 0
    BY <2>1
  <2> QED BY <2>1, <2>2
<1>6. ASSUME NEW a \in Assignments, Land(a) \/ TimePasses(a)
      PROVE  NoncesDrawn' /\ AuthorityIsFresh' /\ PostsCounted' /\ DownIsQuiet'
  BY <1>6 DEF Land, TimePasses
<1>7. ASSUME NEW a \in Assignments,
             NEW seen \in {"not_observed", "review_required", "confirmed_executed"},
             Observe(a, seen)
      PROVE  NoncesDrawn' /\ AuthorityIsFresh' /\ PostsCounted' /\ DownIsQuiet'
  BY <1>7 DEF Observe
<1> QED BY <1>1, <1>2, <1>3, <1>4, <1>5, <1>6, <1>7, <1>8 DEF Environment

LEMMA MoneyStep == MoneyInv /\ [Next]_vars => MoneyInv'
<1> SUFFICES ASSUME MoneyInv, [Next]_vars PROVE MoneyInv'
  OBVIOUS
<1>1. TypeInv'
  BY TypeStep DEF MoneyInv
<1>2. CASE UNCHANGED vars
  BY <1>1, <1>2 DEF vars, bridge, device, page, MoneyInv, NoncesDrawn, AuthorityIsFresh,
                    PostsCounted, DownIsQuiet
<1> QED BY <1>1, <1>2, BridgeKeepsMoney, WorkerKeepsMoney, EnvironmentKeepsMoney
        DEF Next, MoneyInv

LEMMA MoneyInvariant == Spec => []MoneyInv
<1>1. Init => MoneyInv
  BY TypeInitially DEF Init, MoneyInv, TypeInv, Engaged, Resting, EmptyDisk, NoJournal,
     Reporting, NoncesDrawn, AuthorityIsFresh, PostsCounted, DownIsQuiet, Acting, Fenced
<1> QED BY <1>1, MoneyStep, PTL DEF Spec

\* The deposit of an assignment leaves for the platform at most once, whatever
\* crashes, fails or is restored.
THEOREM OnePost == Spec => []AtMostOnePost
<1>1. MoneyInv => AtMostOnePost
  <2> SUFFICES ASSUME MoneyInv, NEW a \in Assignments PROVE posts[a] <= 1
    BY DEF AtMostOnePost
  <2>1. posts[a] = 0 \/ posts[a] = 1
    BY DEF MoneyInv, PostsCounted
  <2> QED BY <2>1
<1> QED BY <1>1, MoneyInvariant, PTL
-----------------------------------------------------------------------------
(* One deposit in doubt. *)

LEMMA RowsMove ==
    ASSUME CompanionTypeOK, LaneInv, BridgeStep
    PROVE  LaneInv'
<1> USE DEF CompanionTypeOK, bridge, LaneInv, Open, Fenced
<1>1. ASSUME NEW c \in Assignments, LeaseAssignment(c)
      PROVE  LaneInv'
  <2>1. /\ \A b \in Assignments : rows[b].state \notin Open
        /\ \A b \in Assignments : rows[b].state \in Fenced => observed[b] = "confirmed_executed"
        /\ rows'[c].state = "claimed" /\ \A b \in Assignments \ {c} : rows'[b] = rows[b]
        /\ observed' = observed
    BY <1>1 DEF LeaseAssignment, Leasable, Row
  <2> QED BY <2>1
<1>2. ASSUME NEW c \in Assignments, SignAssignment(c) \/ SignAuthority(c)
      PROVE  LaneInv'
  <2>1. /\ \/ rows[c].state = "claimed" /\ rows'[c].state = "signed"
           \/ rows[c].state = "authority_claimed" /\ rows'[c].state = "authority_signed"
        /\ \A b \in Assignments \ {c} : rows'[b] = rows[b]
        /\ observed' = observed
    BY <1>2 DEF SignAssignment, SignAuthority, Row
  <2> QED BY <2>1
<1>3. ASSUME NEW m \in wire, ClaimAuthority(m) \/ AcceptResult(m)
      PROVE  LaneInv'
  <2>1. m.of \in Assignments
    BY MessageFields
  <2>2. /\ \/ rows[m.of].state = "signed" /\ rows'[m.of].state = "authority_claimed"
           \/ rows[m.of].state = "authority_signed" /\ rows'[m.of].state = "result_recorded"
        /\ \A b \in Assignments \ {m.of} : rows'[b] = rows[b]
        /\ observed' = observed
    BY <1>3, <2>1 DEF ClaimAuthority, AcceptResult, Row
  <2> QED BY <2>1, <2>2
<1> QED BY <1>1, <1>2, <1>3 DEF BridgeStep

LEMMA LaneStep == MoneyInv /\ LaneInv /\ [Next]_vars => LaneInv'
<1> SUFFICES ASSUME MoneyInv, LaneInv, [Next]_vars PROVE LaneInv'
  OBVIOUS
<1>1. CompanionTypeOK
  BY DEF MoneyInv, TypeInv
<1>2. CASE WriteStep
  <2>1. worker \in Worker
    BY <1>1 DEF CompanionTypeOK
  <2> QED BY <1>2, <2>1, WriteMoves DEF bridge, LaneInv
<1>3. CASE QuietStep
  BY <1>3 DEF QuietStep, TakeAssignment, AskAuthority, AuthorityArrives, AuthorityFails,
     DeadlinePassed, Click, HoldBack, PlatformAnswers, GiveUp, Conclude, SubmitResult,
     ResultAcknowledged, ResultFails, StatusArrives, StatusFails, bridge, LaneInv
<1>4. ASSUME NEW c \in Assignments,
             NEW seen \in {"not_observed", "review_required", "confirmed_executed"},
             Observe(c, seen)
      PROVE  LaneInv'
  <2>1. /\ observed[c] # "confirmed_executed" /\ rows' = rows
        /\ \A b \in Assignments \ {c} : observed'[b] = observed[b]
    BY <1>1, <1>4 DEF Observe, CompanionTypeOK
  <2> QED BY <2>1 DEF LaneInv
<1>5. CASE UNCHANGED vars
  BY <1>5 DEF vars, bridge, LaneInv
<1>6. ASSUME NEW c \in Assignments, RouteForwards(c) \/ RouteBlocks(c) \/ Land(c) \/ TimePasses(c)
      PROVE  LaneInv'
  BY <1>6 DEF RouteForwards, RouteBlocks, Land, TimePasses, bridge, LaneInv
<1>7. CASE Boot \/ Leave \/ Crash \/ PreparationFails \/ RouteConsumes \/ TakeBackup
           \/ RestoreBackup \/ DisableControl
  BY <1>7 DEF Boot, Leave, Crash, PreparationFails, RouteConsumes, TakeBackup, RestoreBackup,
     DisableControl, bridge, LaneInv
<1> QED BY <1>1, <1>2, <1>3, <1>4, <1>5, <1>6, <1>7, RowsMove, WorkerSteps DEF Next, Environment

\* The account never has two deposits in doubt.
THEOREM OneInDoubt == Spec => []NeverTwiceInDoubt
<1>1. Init => LaneInv
  BY DEF Init, LaneInv, Open, Fenced
<1>2. MoneyInv /\ LaneInv => NeverTwiceInDoubt
  <2> SUFFICES ASSUME MoneyInv, LaneInv, NEW a \in Assignments, NEW b \in Assignments,
                      a # b, posts[a] > 0, posts[b] > 0
               PROVE  observed[a] = "confirmed_executed" \/ observed[b] = "confirmed_executed"
    BY DEF NeverTwiceInDoubt
  <2>1. posts[a] # 0 /\ posts[b] # 0
    BY DEF MoneyInv, TypeInv, CompanionTypeOK
  <2>2. allowance[a] = "gone" /\ allowance[b] = "gone"
    BY <2>1 DEF MoneyInv, PostsCounted
  <2>3. rows[a].state \in Fenced /\ rows[b].state \in Fenced
    BY <2>2 DEF MoneyInv, PostsCounted
  <2> QED BY <2>3 DEF LaneInv
<1> QED BY <1>1, <1>2, MoneyInvariant, LaneStep, PTL DEF Spec
-----------------------------------------------------------------------------
(* What left is remembered. *)

\* The journal speaks of a's final action, or of its result.
OnRecord(a) == disk.journal.of = a /\ disk.journal.phase \in {Started, Recorded}

\* Who is about to click, and what the route has taken, is on record.
ActionsAreRecorded ==
    /\ worker.pc \in {"armed", "clicked"} => OnRecord(worker.of)
    /\ \A a \in Assignments : allowance[a] = "consumed" => OnRecord(a)

\* A submission is claimed only after the route was done, and only after that is
\* the device told how the attempt ended, and cleans up.
SubmissionIsOver ==
    /\ worker.outcome = "submission_attempted" => allowance[worker.of] = "gone"
    /\ \A m \in wire : m.outcome = "submission_attempted" => allowance[m.of] = "gone"
    /\ \A a \in Assignments :
         /\ rows[a].outcome = "submission_attempted" => allowance[a] = "gone"
         /\ told[a] # "none" => allowance[a] = "gone"
    /\ worker.pc \in {"clearing", "clearing_chain"} => told[worker.of] # "none"

EvidenceInv == ActionsAreRecorded /\ SubmissionIsOver /\ PostedIsRemembered

\* From the request for authority to the result's way out.
Working == Acting \cup {"asking", "routed", "concluding"} \cup Reporting

\* From the fence to the answer to the result the worker holds the fence's nonce.
Holding == Acting \cup {"routed", "concluding", "submitted"} \cup Reporting

\* Nothing is known yet of how the attempt went.
Undecided == Acting \cup {"enrolling", "observing", "preparing", "asking", "routed"}

\* Where a write leads to.
LEMMA WritesLead ==
    ASSUME WriteStep, worker \in Worker
    PROVE  /\ worker'.pc \in Working => worker.pc \in Working
           /\ worker'.pc \in Holding => worker.pc \in Holding
           /\ worker'.pc \in Undecided => worker.pc \in Undecided
           /\ worker'.pc = "armed" => worker.pc = "starting" /\ worker'.phase = Started
           /\ worker'.pc = "concluding" => worker.pc \in Acting
           /\ worker'.pc \in {"clearing", "clearing_chain"} => worker.pc = "clearing"
BY ZenonT(30)
   DEF WriteStep, Worker, Writes, Reporting, Acting, Working, Holding, Undecided, KeepAssignment,
       ObserveAssignment, DiscardJournal, DiscardChain, KeepAuthority, ConsumeAuthority,
       RecordFence, RecordStart, KeepResult, RecordResult, ClearJournal, ClearAttempt

\* A started action stays on record until a finished attempt is cleared away.
LEMMA RecordsStay ==
    ASSUME CompanionTypeOK, worker.of \in Assignments, WriteStep,
           NEW a \in Assignments, OnRecord(a)
    PROVE  OnRecord(a)' \/ (worker.pc = "clearing" /\ worker.of = a)
<1>1. disk \in Disk
  BY DEF CompanionTypeOK
<1> DEFINE c == worker.of
           kept(r) == r.disk.journal = disk.journal
           onRecord(j) == j.of = a /\ j.phase \in {Started, Recorded}
<1> HIDE DEF c
<1>2. /\ \A r \in PersistInitial(disk, c) : kept(r)
      /\ \A r \in ConsumeOnce(disk, c) : kept(r)
      /\ \A parts : \A r \in ClearChain(disk, c, parts) : kept(r)
      /\ \A before, part : \A r \in PersistPart(disk, c, before, part) : kept(r)
  BY <1>1, InitialResults, ConsumeResults, ClearResults, PartResults DEF c
<1>3. \A p \in Phases : \A o : \A r \in PersistJournal(disk, c, p, o) :
         onRecord(r.disk.journal)
  <2> SUFFICES ASSUME NEW p \in Phases, NEW o, NEW r \in PersistJournal(disk, c, p, o)
               PROVE  onRecord(r.disk.journal)
    OBVIOUS
  <2>1. CASE kept(r)
    BY <2>1 DEF OnRecord
  <2>2. CASE /\ r.disk.journal = [of |-> c, phase |-> p]
             /\ LegalTransition(disk.journal, [of |-> c, phase |-> p], o)
    BY <2>2 DEF LegalTransition, OnRecord, NoJournal, Phases, Observed, Consumed, Started, Recorded
  <2> QED BY <1>1, <2>1, <2>2, JournalResults DEF c
<1>4. \A p : \A r \in RemoveJournal(disk, c, p) :
         kept(r) \/ disk.journal = [of |-> c, phase |-> p]
  BY <1>1, RemoveResults DEF c
<1>5. \/ disk'.journal = disk.journal
      \/ onRecord(disk'.journal)
      \/ worker.pc = "clearing" /\ c = a
  <2> USE DEF Writes, c
  <2>1. CASE KeepAssignment
    BY <1>2, <2>1 DEF KeepAssignment
  <2>2. CASE ConsumeAuthority
    BY <1>2, <2>2 DEF ConsumeAuthority
  <2>3. CASE DiscardChain
    BY <1>2, <2>3 DEF DiscardChain
  <2>4. CASE ClearAttempt
    BY <1>2, <2>4 DEF ClearAttempt
  <2>5. CASE KeepAuthority
    BY <1>2, <2>5 DEF KeepAuthority
  <2>6. CASE KeepResult
    BY <1>2, <2>6 DEF KeepResult
  <2>7. CASE ObserveAssignment
    BY <1>3, <2>7 DEF ObserveAssignment, Phases
  <2>8. CASE RecordFence
    BY <1>3, <2>8 DEF RecordFence, Phases
  <2>9. CASE RecordStart
    BY <1>3, <2>9 DEF RecordStart, Phases
  <2>10. CASE RecordResult
    BY <1>3, <2>10 DEF RecordResult, Phases
  <2>11. CASE DiscardJournal
    <3>1. disk.journal # [of |-> c, phase |-> Observed]
      BY DEF OnRecord, Observed, Started, Recorded
    <3> QED BY <1>4, <2>11, <3>1 DEF DiscardJournal
  <2>12. CASE ClearJournal
    <3>1. disk.journal = [of |-> c, phase |-> Recorded] => c = a
      BY DEF OnRecord
    <3> QED BY <1>4, <2>12, <3>1 DEF ClearJournal
  <2> QED BY <2>1, <2>2, <2>3, <2>4, <2>5, <2>6, <2>7, <2>8, <2>9, <2>10, <2>11, <2>12 DEF WriteStep
<1> QED BY <1>5 DEF OnRecord, c

\* The write that a click waits for puts the action on record.
LEMMA StartsAreRecorded ==
    ASSUME CompanionTypeOK, WriteStep, worker'.pc = "armed",
           NEW a \in Assignments, worker.of = a
    PROVE  OnRecord(a)'
<1>1. disk \in Disk /\ worker \in Worker
  BY DEF CompanionTypeOK
<1>2. RecordStart
  BY <1>1 DEF WriteStep, Worker, Writes, KeepAssignment,
       ObserveAssignment, DiscardJournal, DiscardChain, KeepAuthority, ConsumeAuthority,
       RecordFence, RecordStart, KeepResult, RecordResult, ClearJournal, ClearAttempt
<1>3. PICK r \in PersistJournal(disk, a, Started, "none") :
         disk' = r.disk /\ worker'.pc = IF r.end = "done" THEN "armed" ELSE "concluding"
  BY <1>1, <1>2 DEF RecordStart, Writes, Worker
<1>4. Started \in Phases
  BY DEF Phases
<1>5. r.end = "done"
  BY <1>3
<1>6. r.disk.journal = [of |-> a, phase |-> Started]
  BY <1>1, <1>4, <1>5, JournalResults
<1> QED BY <1>3, <1>6 DEF OnRecord

\* The bridge touches no evidence; it takes over what a result claims.
LEMMA BridgeKeepsEvidence ==
    ASSUME MoneyInv, EvidenceInv, BridgeStep
    PROVE  EvidenceInv'
<1> USE DEF MoneyInv, TypeInv, CompanionTypeOK, bridge, device, page, budget
<1>1. UNCHANGED <<observed, told, wire, device, page, budget>>
  BY DEF BridgeStep, LeaseAssignment, SignAssignment, SignAuthority, ClaimAuthority, AcceptResult
<1>2. \A a \in Assignments :
        \/ rows'[a].outcome = rows[a].outcome
        \/ \E m \in wire : m.of = a /\ rows'[a].outcome = m.outcome
  <2>1. ASSUME NEW c \in Assignments, LeaseAssignment(c) \/ SignAssignment(c) \/ SignAuthority(c)
        PROVE  <1>2
    BY <2>1 DEF LeaseAssignment, SignAssignment, SignAuthority, Row
  <2>2. ASSUME NEW m \in wire, ClaimAuthority(m) \/ AcceptResult(m)
        PROVE  <1>2
    BY <2>2, MessageFields DEF ClaimAuthority, AcceptResult, Row
  <2> QED BY <2>1, <2>2 DEF BridgeStep
<1>3. ActionsAreRecorded' /\ PostedIsRemembered'
  BY <1>1 DEF EvidenceInv, ActionsAreRecorded, PostedIsRemembered, OnRecord
<1>4. SubmissionIsOver'
  BY <1>1, <1>2 DEF EvidenceInv, SubmissionIsOver
<1> QED BY <1>3, <1>4 DEF EvidenceInv

\* A write puts the action on record before the click, and takes it off only
\* when the device was told how the attempt ended.
LEMMA WritesKeepEvidence ==
    ASSUME MoneyInv, EvidenceInv, WriteStep
    PROVE  EvidenceInv'
<1> USE DEF MoneyInv, TypeInv, CompanionTypeOK, bridge, page
<1>1. worker \in Worker /\ worker.of \in Assignments
  BY WriteMoves DEF Engaged
<1>2. /\ worker'.of = worker.of /\ worker'.outcome = worker.outcome
      /\ worker'.pc # "clicked"
      /\ UNCHANGED <<bridge, wire, page, restores>>
  BY <1>1, WriteMoves
<1>3. \A a \in Assignments : OnRecord(a) => OnRecord(a)' \/ told[a] # "none"
  <2> SUFFICES ASSUME NEW a \in Assignments, OnRecord(a)
               PROVE  OnRecord(a)' \/ told[a] # "none"
    OBVIOUS
  <2>1. OnRecord(a)' \/ (worker.pc = "clearing" /\ worker.of = a)
    BY <1>1, RecordsStay
  <2> QED BY <2>1 DEF EvidenceInv, SubmissionIsOver
<1>4. ActionsAreRecorded'
  <2>1. worker'.pc \in {"armed", "clicked"} => OnRecord(worker.of)'
    <3>1. PICK a \in Assignments : worker.of = a
      BY <1>1
    <3>2. worker'.pc = "armed" => OnRecord(a)'
      BY <3>1, StartsAreRecorded
    <3> QED BY <1>2, <3>1, <3>2 DEF OnRecord
  <2>2. \A a \in Assignments : allowance'[a] = "consumed" => OnRecord(a)'
    BY <1>2, <1>3 DEF EvidenceInv, ActionsAreRecorded, SubmissionIsOver
  <2> QED BY <1>2, <2>1, <2>2 DEF ActionsAreRecorded, OnRecord
<1>5. SubmissionIsOver'
  BY <1>1, <1>2, WritesLead DEF EvidenceInv, SubmissionIsOver
<1>6. PostedIsRemembered'
  BY <1>2, <1>3 DEF EvidenceInv, PostedIsRemembered, OnRecord
<1> QED BY <1>4, <1>5, <1>6 DEF EvidenceInv

\* The other steps of the worker leave the disk alone.
LEMMA QuietKeepsEvidence ==
    ASSUME MoneyInv, EvidenceInv, QuietStep
    PROVE  EvidenceInv'
<1> USE DEF MoneyInv, TypeInv, CompanionTypeOK, bridge, page, budget
<1>1. UNCHANGED <<disk, rows, page, restores>>
  BY DEF QuietStep, TakeAssignment, AskAuthority, AuthorityArrives, AuthorityFails,
     DeadlinePassed, Click, HoldBack, PlatformAnswers, GiveUp, Conclude, SubmitResult,
     ResultAcknowledged, ResultFails, StatusArrives, StatusFails
<1>2. \A a \in Assignments : told'[a] # told[a] => allowance[a] = "gone"
  <2>1. CASE StatusArrives
    <3>1. PICK a \in Assignments : worker.of = a
      BY <2>1 DEF StatusArrives, Engaged
    <3>2. StatusOf(a) \in {"succeeded", "failed"} => rows[a].outcome = "submission_attempted"
      BY DEF StatusOf
    <3>3. \A c \in Assignments : told'[c] # told[c] =>
             c = a /\ StatusOf(a) \in {"succeeded", "failed"}
      BY <2>1, <3>1 DEF StatusArrives
    <3> QED BY <3>2, <3>3 DEF EvidenceInv, SubmissionIsOver
  <2>2. CASE ~StatusArrives
    BY <2>2 DEF QuietStep, TakeAssignment, AskAuthority, AuthorityArrives, AuthorityFails,
       DeadlinePassed, Click, HoldBack, PlatformAnswers, GiveUp, Conclude, SubmitResult,
       ResultAcknowledged, ResultFails, StatusFails
  <2> QED BY <2>1, <2>2
<1>3. \A a \in Assignments : told[a] # "none" => told'[a] # "none"
  BY DEF QuietStep, TakeAssignment, AskAuthority, AuthorityArrives, AuthorityFails,
     DeadlinePassed, Click, HoldBack, PlatformAnswers, GiveUp, Conclude, SubmitResult,
     ResultAcknowledged, ResultFails, StatusArrives, StatusFails, Engaged
<1> DEFINE Leads ==
             /\ worker'.pc \in {"armed", "clicked"} => worker.pc = "armed" /\ worker'.of = worker.of
             /\ worker'.pc \in {"clearing", "clearing_chain"} => told'[worker'.of] # "none"
             /\ worker'.outcome = "submission_attempted" => allowance[worker'.of] = "gone"
             /\ \A m \in wire' : m.outcome = "submission_attempted" => allowance[m.of] = "gone"
<1>4. Leads
  <2> USE DEF EvidenceInv, SubmissionIsOver, Goes, Worker
  <2>1. ASSUME NEW a \in Assignments, TakeAssignment(a)
        PROVE  Leads
    BY <2>1 DEF TakeAssignment, Resting
  <2>2. CASE AskAuthority
    BY <2>2 DEF AskAuthority
  <2>3. CASE AuthorityArrives \/ DeadlinePassed \/ Click \/ ResultAcknowledged
    BY <2>3 DEF AuthorityArrives, DeadlinePassed, Click, ResultAcknowledged
  <2>4. CASE AuthorityFails \/ HoldBack \/ ResultFails \/ StatusFails
    BY <2>4 DEF AuthorityFails, HoldBack, ResultFails, StatusFails
  <2>5. CASE PlatformAnswers
    BY <2>5 DEF PlatformAnswers
  <2>6. CASE GiveUp
    BY <2>6 DEF GiveUp
  <2>7. CASE Conclude
    <3>1. worker'.outcome = "submission_attempted" => worker.outcome = "submission_attempted"
      BY <2>7 DEF Conclude
    <3>2. worker'.pc = "resulting" /\ worker'.of = worker.of /\ wire' = wire
      BY <2>7 DEF Conclude
    <3> QED BY <3>1, <3>2
  <2>8. CASE SubmitResult
    BY <2>8 DEF SubmitResult
  <2>9. CASE StatusArrives
    <3>1. worker.of \in Assignments
      BY <2>9 DEF StatusArrives, Engaged
    <3>2. /\ worker'.of = worker.of /\ worker'.outcome = worker.outcome /\ wire' = wire
          /\ worker'.pc \in {"clearing", "idle_uncertain"}
          /\ worker'.pc = "clearing" => told'[worker.of] \in {"succeeded", "failed"}
      BY <2>9, <3>1 DEF StatusArrives
    <3> QED BY <3>2
  <2> QED BY <2>1, <2>2, <2>3, <2>4, <2>5, <2>6, <2>7, <2>8, <2>9 DEF QuietStep
<1>5. ActionsAreRecorded'
  BY <1>1, <1>4 DEF EvidenceInv, ActionsAreRecorded, OnRecord
<1>6. SubmissionIsOver'
  BY <1>1, <1>2, <1>4 DEF EvidenceInv, SubmissionIsOver
<1>7. PostedIsRemembered'
  BY <1>1, <1>3 DEF EvidenceInv, PostedIsRemembered
<1> QED BY <1>5, <1>6, <1>7 DEF EvidenceInv

\* A crash takes what the route held; a restore of the disk needs the worker down.
LEMMA EnvironmentKeepsEvidence ==
    ASSUME MoneyInv, EvidenceInv, Environment
    PROVE  EvidenceInv'
<1> USE DEF MoneyInv, TypeInv, CompanionTypeOK, bridge, device, page, budget, EvidenceInv
<1>1. CASE Boot
  <2>1. Recovery(disk) \in {"fresh", "reconcile", "operator"}
    BY DEF Recovery
  <2>2. worker'.pc \in {"polling", "reconciling", "failed_closed"} /\ worker'.outcome = "none"
    BY <1>1, <2>1 DEF Boot, Resting
  <2>3. UNCHANGED <<rows, told, wire, allowance, posts, disk, restores>>
    BY <1>1 DEF Boot
  <2> QED BY <2>2, <2>3 DEF ActionsAreRecorded, SubmissionIsOver, PostedIsRemembered, OnRecord
<1>2. CASE Leave \/ Crash
  <2>1. /\ worker'.pc = "down" /\ worker'.outcome = "none"
        /\ \A b \in Assignments : allowance'[b] = IF allowance[b] = "consumed" THEN "gone"
                                                 ELSE allowance[b]
        /\ UNCHANGED <<rows, told, wire, posts, disk, restores>>
    BY <1>2 DEF Leave, Crash, PageDies, Resting
  <2>2. \A m \in wire : m.of \in Assignments
    BY MessageFields
  <2> QED BY <2>1, <2>2 DEF ActionsAreRecorded, SubmissionIsOver, PostedIsRemembered, OnRecord
<1>3. CASE PreparationFails
  BY <1>3 DEF PreparationFails, Goes, Worker, ActionsAreRecorded, SubmissionIsOver,
     PostedIsRemembered, OnRecord
<1>4. CASE RouteConsumes
  <2>1. PICK a \in Assignments : worker.of = a
    BY <1>4 DEF RouteConsumes, Engaged
  <2>2. /\ worker.pc = "clicked" /\ worker'.pc = "routed"
        /\ worker'.of = a /\ worker'.outcome = worker.outcome
        /\ allowance' = [allowance EXCEPT ![a] = "consumed"]
        /\ UNCHANGED <<rows, told, wire, posts, disk, restores>>
    BY <1>4, <2>1 DEF RouteConsumes, Goes, Worker
  <2>3. allowance[a] = "unused"
    BY <2>1, <2>2 DEF AuthorityIsFresh, Acting
  <2>4. OnRecord(a)
    BY <2>1, <2>2 DEF ActionsAreRecorded
  <2>5. ActionsAreRecorded'
    BY <2>2, <2>4 DEF ActionsAreRecorded, OnRecord
  <2>6. SubmissionIsOver'
    <3>1. \A m \in wire : m.of \in Assignments
      BY MessageFields
    <3> QED BY <2>1, <2>2, <2>3, <3>1 DEF SubmissionIsOver
  <2> QED BY <2>2, <2>5, <2>6 DEF PostedIsRemembered
<1>5. CASE TakeBackup \/ DisableControl
  BY <1>5 DEF TakeBackup, DisableControl, ActionsAreRecorded, SubmissionIsOver,
     PostedIsRemembered, OnRecord
<1>6. CASE RestoreBackup
  <2>1. /\ worker.pc = "down" /\ restores' # 0
        /\ UNCHANGED <<rows, told, wire, worker, allowance, posts>>
    BY <1>6, BoundsAreNaturals DEF RestoreBackup
  <2>2. \A a \in Assignments : allowance[a] # "consumed"
    BY <2>1 DEF DownIsQuiet
  <2> QED BY <2>1, <2>2 DEF ActionsAreRecorded, SubmissionIsOver, PostedIsRemembered, OnRecord
<1>7. ASSUME NEW a \in Assignments, RouteForwards(a) \/ RouteBlocks(a)
      PROVE  EvidenceInv'
  <2>1. /\ allowance[a] = "consumed" /\ allowance' = [allowance EXCEPT ![a] = "gone"]
        /\ \A b \in Assignments \ {a} : posts'[b] = posts[b]
        /\ UNCHANGED <<rows, told, wire, worker, disk, restores>>
    BY <1>7 DEF RouteForwards, RouteBlocks
  <2>2. ActionsAreRecorded'
    BY <2>1 DEF ActionsAreRecorded, OnRecord
  <2>3. SubmissionIsOver'
    <3>1. \A m \in wire : m.of \in Assignments
      BY MessageFields
    <3> QED BY <2>1, <3>1 DEF SubmissionIsOver
  <2>4. PostedIsRemembered'
    BY <2>1 DEF ActionsAreRecorded, PostedIsRemembered, OnRecord
  <2> QED BY <2>2, <2>3, <2>4
<1>8. ASSUME NEW a \in Assignments, Land(a) \/ TimePasses(a)
      PROVE  EvidenceInv'
  BY <1>8 DEF Land, TimePasses, ActionsAreRecorded, SubmissionIsOver, PostedIsRemembered, OnRecord
<1>9. ASSUME NEW a \in Assignments,
             NEW seen \in {"not_observed", "review_required", "confirmed_executed"},
             Observe(a, seen)
      PROVE  EvidenceInv'
  BY <1>9 DEF Observe, ActionsAreRecorded, SubmissionIsOver, PostedIsRemembered, OnRecord
<1> QED BY <1>1, <1>2, <1>3, <1>4, <1>5, <1>6, <1>7, <1>8, <1>9 DEF Environment

LEMMA EvidenceStep == MoneyInv /\ EvidenceInv /\ [Next]_vars => EvidenceInv'
<1> SUFFICES ASSUME MoneyInv, EvidenceInv, [Next]_vars PROVE EvidenceInv'
  OBVIOUS
<1>1. CASE UNCHANGED vars
  BY <1>1 DEF vars, bridge, device, page, budget, EvidenceInv, ActionsAreRecorded,
     SubmissionIsOver, PostedIsRemembered, OnRecord
<1> QED BY <1>1, WorkerSteps, BridgeKeepsEvidence, WritesKeepEvidence, QuietKeepsEvidence,
        EnvironmentKeepsEvidence DEF Next

\* Unless its data directory was restored from an older copy, the companion's
\* journal remembers every deposit that left, until the bridge has said how it
\* ended: whatever crashes in between, a starting companion finds it.
THEOREM WhatLeftIsRemembered == Spec => []PostedIsRemembered
<1>1. Init => EvidenceInv
  BY DEF Init, EvidenceInv, ActionsAreRecorded, SubmissionIsOver, PostedIsRemembered, Resting
<1>2. EvidenceInv => PostedIsRemembered
  BY DEF EvidenceInv
<1> QED BY <1>1, <1>2, MoneyInvariant, EvidenceStep, PTL DEF Spec
-----------------------------------------------------------------------------
(* What is reported is true. *)

\* A result carries the nonce of its fence, and a recorded one was sent; the
\* worker's own is not on its way before it is submitted.
ResultsAreBound ==
    /\ \A m \in wire : m.kind = "result" =>
         rows[m.of].state \in Fenced /\ rows[m.of].nonce = m.nonce
    /\ \A a \in Assignments :
         /\ rows[a].state = "result_recorded" =>
              \E m \in wire : m.kind = "result" /\ m.of = a
         /\ rows[a].outcome # "none" => rows[a].state = "result_recorded"
    /\ worker.pc \in Working => \A m \in wire : m.kind = "result" => m.nonce # worker.nonce
    /\ worker.pc \in Holding =>
         rows[worker.of].state \in Fenced /\ rows[worker.of].nonce = worker.nonce

\* Who claims not to have acted has not.
InnocenceIsTrue ==
    /\ worker.pc \in Undecided => worker.outcome = "none"
    /\ worker.pc = "armed" => worker.phase = Started
    /\ worker.pc = "concluding" /\ worker.outcome = "none" /\ worker.phase = Consumed =>
         allowance[worker.of] = "unused"
    /\ worker.outcome = "post_fence_no_local_action" =>
         worker.pc # "concluding" /\ worker.of \in Assignments /\ allowance[worker.of] = "unused"
    /\ \A m \in wire : m.outcome = "post_fence_no_local_action" => allowance[m.of] = "unused"
    /\ \A a \in Assignments :
         rows[a].outcome = "post_fence_no_local_action" => allowance[a] = "unused"

\* An attempt is looked at only when its result is in or its lease has lapsed.
LooksAreLate ==
    \A a \in Assignments : observed[a] # "none" =>
        \/ rows[a].state = "result_recorded"
        \/ rows[a].state \in Fenced /\ window[a] = "over"

ReportInv == ResultsAreBound /\ InnocenceIsTrue /\ LooksAreLate

\* A worker that may still act on a fenced assignment has reported nothing about it.
LEMMA NothingReportedYet ==
    ASSUME MoneyInv, ReportInv, worker.pc \in Acting
    PROVE  /\ \A m \in wire : m.kind = "result" => m.of # worker.of
           /\ rows[worker.of].state # "result_recorded"
           /\ rows[worker.of].outcome = "none"
<1>1. worker.of \in Assignments
  BY DEF MoneyInv, TypeInv, Engaged, Acting
<1>2. \A m \in wire : m.kind = "result" => m.of # worker.of
  <2>1. rows[worker.of].nonce = worker.nonce
    BY DEF MoneyInv, AuthorityIsFresh
  <2> QED BY <2>1 DEF ReportInv, ResultsAreBound, Working
<1> QED BY <1>1, <1>2 DEF ReportInv, ResultsAreBound

\* The bridge fences once, and takes over only what was sent.
LEMMA BridgeKeepsReports ==
    ASSUME MoneyInv, ReportInv, BridgeStep
    PROVE  ReportInv'
<1> USE DEF MoneyInv, TypeInv, CompanionTypeOK, bridge, device, page, budget, ReportInv
<1>1. UNCHANGED <<observed, window, wire, device, page>>
  BY DEF BridgeStep, LeaseAssignment, SignAssignment, SignAuthority, ClaimAuthority, AcceptResult
<1> DEFINE Moves(a) ==
             \/ rows'[a] = rows[a]
             \/ /\ rows[a].state \notin Fenced /\ rows'[a].state # "result_recorded"
                /\ rows'[a].outcome = rows[a].outcome
             \/ /\ rows[a].state \in Fenced /\ rows'[a].state \in Fenced
                /\ rows[a].state # "result_recorded"
                /\ rows'[a].nonce = rows[a].nonce
                /\ \/ rows'[a].state # "result_recorded" /\ rows'[a].outcome = rows[a].outcome
                   \/ /\ rows'[a].state = "result_recorded"
                      /\ \E m \in wire : /\ m.kind = "result" /\ m.of = a
                                         /\ m.outcome = rows'[a].outcome
<1>2. \A a \in Assignments : Moves(a)
  <2> USE DEF Fenced, Row
  <2>1. ASSUME NEW c \in Assignments, LeaseAssignment(c) \/ SignAssignment(c) \/ SignAuthority(c)
        PROVE  \A a \in Assignments : Moves(a)
    BY <2>1 DEF LeaseAssignment, SignAssignment, SignAuthority
  <2>2. ASSUME NEW m \in wire, ClaimAuthority(m)
        PROVE  \A a \in Assignments : Moves(a)
    <3>1. m.of \in Assignments
      BY MessageFields
    <3>2. /\ rows[m.of].state = "signed" /\ rows'[m.of].state = "authority_claimed"
          /\ rows'[m.of].outcome = rows[m.of].outcome
          /\ \A b \in Assignments \ {m.of} : rows'[b] = rows[b]
      BY <2>2, <3>1 DEF ClaimAuthority
    <3> QED BY <3>2
  <2>3. ASSUME NEW m \in wire, AcceptResult(m)
        PROVE  \A a \in Assignments : Moves(a)
    <3>1. m.of \in Assignments
      BY MessageFields
    <3>2. /\ m.kind = "result"
          /\ rows[m.of].state = "authority_signed" /\ rows'[m.of].state = "result_recorded"
          /\ rows'[m.of].outcome = m.outcome /\ rows'[m.of].nonce = rows[m.of].nonce
          /\ \A b \in Assignments \ {m.of} : rows'[b] = rows[b]
      BY <2>3, <3>1 DEF AcceptResult
    <3> QED BY <3>2
  <2> QED BY <2>1, <2>2, <2>3 DEF BridgeStep
<1> HIDE DEF Moves
<1>3. ResultsAreBound'
  <2>1. \A m \in wire : m.kind = "result" =>
           rows'[m.of].state \in Fenced /\ rows'[m.of].nonce = m.nonce
    <3> SUFFICES ASSUME NEW m \in wire, m.kind = "result"
                 PROVE  rows'[m.of].state \in Fenced /\ rows'[m.of].nonce = m.nonce
      OBVIOUS
    <3>1. m.of \in Assignments
      BY MessageFields
    <3> QED BY <1>2, <3>1 DEF Moves, ResultsAreBound
  <2>2. \A a \in Assignments :
           /\ rows'[a].state = "result_recorded" =>
                \E m \in wire : m.kind = "result" /\ m.of = a
           /\ rows'[a].outcome # "none" => rows'[a].state = "result_recorded"
    BY <1>2 DEF Moves, ResultsAreBound, Fenced
  <2>3. worker.pc \in Holding =>
           rows'[worker.of].state \in Fenced /\ rows'[worker.of].nonce = worker.nonce
    <3>1. worker.pc \in Holding => worker.of \in Assignments
      BY DEF Engaged, Holding, Acting, Reporting
    <3> QED BY <1>2, <3>1 DEF Moves, ResultsAreBound
  <2> QED BY <1>1, <2>1, <2>2, <2>3 DEF ResultsAreBound
<1>4. InnocenceIsTrue'
  <2>1. \A a \in Assignments : rows'[a].outcome = "post_fence_no_local_action" =>
           allowance[a] = "unused"
    BY <1>2 DEF Moves, InnocenceIsTrue
  <2> QED BY <1>1, <2>1 DEF InnocenceIsTrue
<1>5. LooksAreLate'
  BY <1>1, <1>2 DEF Moves, LooksAreLate, Fenced
<1> QED BY <1>3, <1>4, <1>5

\* A write that fails before the final action was started leaves the permission unused.
LEMMA WritesKeepReports ==
    ASSUME MoneyInv, ReportInv, WriteStep
    PROVE  ReportInv'
<1> USE DEF MoneyInv, TypeInv, CompanionTypeOK, bridge, page, ReportInv
<1>1. worker \in Worker
  OBVIOUS
<1>2. /\ worker'.of = worker.of /\ worker'.outcome = worker.outcome
      /\ worker'.nonce = worker.nonce
      /\ UNCHANGED <<bridge, wire, page>>
  BY <1>1, WriteMoves
<1>3. ResultsAreBound'
  BY <1>1, <1>2, WritesLead DEF ResultsAreBound
<1>4. InnocenceIsTrue'
  <2>1. worker'.pc \in Undecided => worker'.outcome = "none"
    BY <1>1, <1>2, WritesLead DEF InnocenceIsTrue
  <2>2. worker'.pc = "armed" => worker'.phase = Started
    BY <1>1, WritesLead
  <2>3. worker'.pc = "concluding" => worker.outcome = "none" /\ allowance[worker.of] = "unused"
    BY <1>1, WritesLead DEF InnocenceIsTrue, AuthorityIsFresh, Undecided
  <2> QED BY <1>2, <2>1, <2>2, <2>3 DEF InnocenceIsTrue
<1>5. LooksAreLate'
  BY <1>2 DEF LooksAreLate
<1> QED BY <1>3, <1>4, <1>5

\* The other steps of the worker: the nonce is drawn before the fence, and the
\* result claims innocence only if the start was never written.
LEMMA QuietKeepsReports ==
    ASSUME MoneyInv, ReportInv, QuietStep
    PROVE  ReportInv'
<1> USE DEF MoneyInv, TypeInv, CompanionTypeOK, bridge, page, budget, ReportInv
<1>1. UNCHANGED <<rows, window, observed, allowance>>
  BY DEF QuietStep, TakeAssignment, AskAuthority, AuthorityArrives, AuthorityFails,
     DeadlinePassed, Click, HoldBack, PlatformAnswers, GiveUp, Conclude, SubmitResult,
     ResultAcknowledged, ResultFails, StatusArrives, StatusFails
<1>2. LooksAreLate'
  BY <1>1 DEF LooksAreLate
<1>3. ASSUME NEW a \in Assignments, TakeAssignment(a)
      PROVE  ResultsAreBound' /\ InnocenceIsTrue'
  <2>1. worker' = [Resting("enrolling") EXCEPT !.of = a] /\ wire' = wire
    BY <1>3 DEF TakeAssignment
  <2>2. worker'.pc = "enrolling" /\ worker'.outcome = "none"
    BY <2>1 DEF Resting
  <2> QED BY <1>1, <2>1, <2>2 DEF ResultsAreBound, InnocenceIsTrue, Working, Holding, Acting,
             Reporting
<1>4. CASE AskAuthority
  <2>1. /\ worker'.pc = "asking" /\ worker'.nonce = nonces + 1 /\ worker'.of = worker.of
        /\ worker.pc = "preparing" /\ worker'.outcome = worker.outcome
    BY <1>4 DEF AskAuthority, Worker
  <2>2. \A m \in wire' : m \in wire \/ (m.kind = "authority" /\ m.outcome = "none")
    BY <1>4 DEF AskAuthority
  <2>3. wire \subseteq wire'
    BY <1>4 DEF AskAuthority
  <2>4. \A m \in wire : m.nonce # nonces + 1
    <3>1. \A m \in wire : m.nonce \in Nat /\ m.nonce <= nonces
      BY MessageFields DEF NoncesDrawn
    <3> QED BY <3>1
  <2>5. ResultsAreBound'
    <3>1. worker'.pc \notin Holding
      BY <2>1 DEF Holding, Acting, Reporting
    <3>2. \A m \in wire' : m.kind = "result" => m \in wire
      BY <2>2
    <3> QED BY <1>1, <2>1, <2>3, <2>4, <3>1, <3>2 DEF ResultsAreBound
  <2>6. InnocenceIsTrue'
    <3>1. worker.outcome = "none"
      BY <2>1 DEF InnocenceIsTrue, Undecided
    <3> QED BY <1>1, <2>1, <2>2, <3>1 DEF InnocenceIsTrue
  <2> QED BY <1>2, <2>5, <2>6
<1>5. CASE AuthorityArrives
  <2>1. /\ worker.pc = "asking" /\ worker'.pc = "keeping" /\ worker'.of = worker.of
        /\ worker'.nonce = worker.nonce /\ worker'.outcome = worker.outcome /\ wire' = wire
        /\ rows[worker.of].state \in Fenced /\ rows[worker.of].nonce = worker.nonce
    BY <1>5 DEF AuthorityArrives, Goes, Worker, Fenced
  <2>2. ResultsAreBound'
    BY <1>1, <2>1 DEF ResultsAreBound, Working
  <2>3. InnocenceIsTrue'
    BY <1>1, <2>1 DEF InnocenceIsTrue, Undecided
  <2> QED BY <1>2, <2>2, <2>3
<1>6. CASE Click
  <2>1. /\ worker.pc = "armed" /\ worker'.pc = "clicked" /\ worker'.of = worker.of
        /\ worker'.nonce = worker.nonce /\ worker'.outcome = worker.outcome /\ wire' = wire
    BY <1>6 DEF Click, Goes, Worker
  <2>2. worker.pc \in Acting
    BY <2>1 DEF Acting
  <2>3. ResultsAreBound'
    BY <1>1, <2>1, <2>2 DEF ResultsAreBound, Working, Holding
  <2>4. InnocenceIsTrue'
    BY <1>1, <2>1, <2>2 DEF InnocenceIsTrue, Undecided
  <2> QED BY <1>2, <2>3, <2>4
<1>7. CASE DeadlinePassed \/ HoldBack
  <2>1. /\ worker.pc \in {"starting", "armed"} /\ worker'.pc = "concluding"
        /\ worker'.of = worker.of /\ worker'.phase = worker.phase
        /\ worker'.nonce = worker.nonce /\ worker'.outcome = worker.outcome /\ wire' = wire
    BY <1>7 DEF DeadlinePassed, HoldBack, Goes, Worker
  <2>2. worker.pc \in Acting
    BY <2>1 DEF Acting
  <2>3. ResultsAreBound'
    BY <1>1, <2>1, <2>2 DEF ResultsAreBound, Working, Holding
  <2>4. allowance[worker.of] = "unused" /\ worker.outcome = "none"
    BY <2>2 DEF AuthorityIsFresh, InnocenceIsTrue, Undecided
  <2>5. InnocenceIsTrue'
    BY <1>1, <2>1, <2>4 DEF InnocenceIsTrue, Undecided, Acting
  <2> QED BY <1>2, <2>3, <2>5
<1>8. CASE PlatformAnswers \/ GiveUp
  <2>1. /\ worker.pc \in {"clicked", "routed"} /\ worker'.pc = "concluding"
        /\ worker'.of = worker.of /\ worker'.nonce = worker.nonce
        /\ worker'.outcome \in {"submission_attempted", "local_uncertain"} /\ wire' = wire
    BY <1>8, ZenonT(30) DEF PlatformAnswers, GiveUp, Worker
  <2>2. ResultsAreBound'
    BY <1>1, <2>1 DEF ResultsAreBound, Working, Holding, Acting
  <2>3. InnocenceIsTrue'
    BY <1>1, <2>1 DEF InnocenceIsTrue, Undecided, Acting
  <2> QED BY <1>2, <2>2, <2>3
<1>9. CASE Conclude
  <2>1. /\ worker.pc = "concluding" /\ worker'.pc = "resulting"
        /\ worker'.of = worker.of /\ worker'.nonce = worker.nonce /\ wire' = wire
        /\ \/ worker'.outcome = worker.outcome
           \/ worker'.outcome = "local_uncertain"
           \/ worker.outcome = "none" /\ worker.phase = Consumed
    BY <1>9 DEF Conclude, Worker
  <2>2. worker.of \in Assignments
    BY <2>1 DEF Engaged
  <2>3. ResultsAreBound'
    BY <1>1, <2>1 DEF ResultsAreBound, Working, Holding, Reporting
  <2>4. InnocenceIsTrue'
    BY <1>1, <2>1, <2>2 DEF InnocenceIsTrue, Undecided, Acting
  <2> QED BY <1>2, <2>3, <2>4
<1>10. CASE SubmitResult
  <2>1. /\ worker.pc = "submitting" /\ worker'.pc = "submitted"
        /\ worker'.of = worker.of /\ worker'.nonce = worker.nonce
        /\ worker'.outcome = worker.outcome
    BY <1>10 DEF SubmitResult, Goes, Worker
  <2>2. \A m \in wire' : m \in wire \/ (/\ m.of = worker.of /\ m.nonce = worker.nonce
                                        /\ m.outcome = worker.outcome)
    BY <1>10 DEF SubmitResult
  <2>3. wire \subseteq wire'
    BY <1>10 DEF SubmitResult
  <2>4. rows[worker.of].state \in Fenced /\ rows[worker.of].nonce = worker.nonce
    BY <2>1 DEF ResultsAreBound, Holding, Reporting
  <2>5. ResultsAreBound'
    <3>1. worker'.pc \notin Working
      BY <2>1 DEF Working, Acting, Reporting
    <3>2. \A m \in wire' : m.kind = "result" =>
             rows[m.of].state \in Fenced /\ rows[m.of].nonce = m.nonce
      BY <2>2, <2>4 DEF ResultsAreBound
    <3>3. \A a \in Assignments : rows[a].state = "result_recorded" =>
             \E m \in wire' : m.kind = "result" /\ m.of = a
      BY <2>3 DEF ResultsAreBound
    <3> QED BY <1>1, <2>1, <2>4, <3>1, <3>2, <3>3 DEF ResultsAreBound
  <2>6. InnocenceIsTrue'
    BY <1>1, <2>1, <2>2 DEF InnocenceIsTrue, Undecided, Acting
  <2> QED BY <1>2, <2>5, <2>6
<1>11. CASE AuthorityFails \/ ResultAcknowledged \/ ResultFails \/ StatusArrives \/ StatusFails
  <2>1. /\ worker'.pc \in {"failed_closed", "reconciling", "clearing", "idle_uncertain"}
        /\ worker'.of = worker.of /\ worker'.outcome = worker.outcome /\ wire' = wire
    BY <1>11 DEF AuthorityFails, ResultAcknowledged, ResultFails, StatusArrives, StatusFails,
       Goes, Worker
  <2>2. ResultsAreBound'
    BY <1>1, <2>1 DEF ResultsAreBound, Working, Holding, Reporting, Acting
  <2>3. InnocenceIsTrue'
    BY <1>1, <2>1 DEF InnocenceIsTrue, Undecided, Acting
  <2> QED BY <1>2, <2>2, <2>3
<1> QED BY <1>2, <1>3, <1>4, <1>5, <1>6, <1>7, <1>8, <1>9, <1>10, <1>11 DEF QuietStep

\* The route consumes the permission of an assignment nothing was reported about.
LEMMA EnvironmentKeepsReports ==
    ASSUME MoneyInv, ReportInv, Environment
    PROVE  ReportInv'
<1> USE DEF MoneyInv, TypeInv, CompanionTypeOK, bridge, device, page, budget, ReportInv
<1>0. \A m \in wire : m.of \in Assignments
  BY MessageFields
<1>1. CASE Boot
  <2>1. Recovery(disk) \in {"fresh", "reconcile", "operator"}
    BY DEF Recovery
  <2>2. worker'.pc \in {"polling", "reconciling", "failed_closed"} /\ worker'.outcome = "none"
    BY <1>1, <2>1 DEF Boot, Resting
  <2>3. UNCHANGED <<rows, window, observed, wire, allowance>>
    BY <1>1 DEF Boot
  <2> QED BY <2>2, <2>3 DEF ResultsAreBound, InnocenceIsTrue, LooksAreLate, Working, Holding,
             Acting, Reporting
<1>2. CASE Leave \/ Crash
  <2>1. /\ worker'.pc = "down" /\ worker'.outcome = "none"
        /\ \A b \in Assignments : allowance'[b] = IF allowance[b] = "consumed" THEN "gone"
                                                 ELSE allowance[b]
        /\ UNCHANGED <<rows, window, observed, wire>>
    BY <1>2 DEF Leave, Crash, PageDies, Resting
  <2>2. ResultsAreBound' /\ LooksAreLate'
    BY <2>1 DEF ResultsAreBound, LooksAreLate, Working, Holding, Acting, Reporting
  <2>3. InnocenceIsTrue'
    BY <1>0, <2>1 DEF InnocenceIsTrue, Undecided, Acting
  <2> QED BY <2>2, <2>3
<1>3. CASE PreparationFails
  <2>1. /\ worker'.pc = "discarding" /\ worker'.of = worker.of
        /\ worker'.outcome = worker.outcome
        /\ UNCHANGED <<rows, window, observed, wire, allowance>>
    BY <1>3 DEF PreparationFails, Goes, Worker
  <2> QED BY <2>1 DEF ResultsAreBound, InnocenceIsTrue, LooksAreLate, Working, Holding,
             Undecided, Acting, Reporting
<1>4. CASE RouteConsumes
  <2>1. PICK a \in Assignments : worker.of = a
    BY <1>4 DEF RouteConsumes, Engaged
  <2>2. /\ worker.pc = "clicked" /\ worker'.pc = "routed"
        /\ worker'.of = a /\ worker'.outcome = worker.outcome /\ worker'.nonce = worker.nonce
        /\ allowance' = [allowance EXCEPT ![a] = "consumed"]
        /\ UNCHANGED <<rows, window, observed, wire>>
    BY <1>4, <2>1 DEF RouteConsumes, Goes, Worker
  <2>3. worker.pc \in Acting
    BY <2>2 DEF Acting
  <2>4. /\ \A m \in wire : m.kind = "result" => m.of # a
        /\ rows[a].outcome = "none"
    BY <2>1, <2>3, NothingReportedYet
  <2>5. ResultsAreBound' /\ LooksAreLate'
    BY <2>1, <2>2, <2>3 DEF ResultsAreBound, LooksAreLate, Working, Holding
  <2>6. \A m \in wire : m.outcome = "post_fence_no_local_action" =>
           m.kind = "result"
    BY MessageFields
  <2>7. worker.outcome = "none"
    BY <2>3 DEF InnocenceIsTrue, Undecided
  <2>8. InnocenceIsTrue'
    <3>1. \A m \in wire : m.outcome = "post_fence_no_local_action" =>
             allowance'[m.of] = "unused"
      BY <1>0, <2>2, <2>4, <2>6 DEF InnocenceIsTrue
    <3>2. \A b \in Assignments : rows[b].outcome = "post_fence_no_local_action" =>
             allowance'[b] = "unused"
      BY <2>2, <2>4 DEF InnocenceIsTrue
    <3> QED BY <2>2, <2>7, <3>1, <3>2 DEF InnocenceIsTrue
  <2> QED BY <2>5, <2>8
<1>5. CASE TakeBackup \/ RestoreBackup \/ DisableControl
  BY <1>5 DEF TakeBackup, RestoreBackup, DisableControl, ResultsAreBound, InnocenceIsTrue,
     LooksAreLate
<1>6. ASSUME NEW a \in Assignments, RouteForwards(a) \/ RouteBlocks(a)
      PROVE  ReportInv'
  <2>1. /\ allowance[a] = "consumed" /\ allowance' = [allowance EXCEPT ![a] = "gone"]
        /\ UNCHANGED <<rows, window, observed, wire, worker>>
    BY <1>6 DEF RouteForwards, RouteBlocks
  <2>2. ResultsAreBound' /\ LooksAreLate'
    BY <2>1 DEF ResultsAreBound, LooksAreLate
  <2>3. InnocenceIsTrue'
    BY <1>0, <2>1 DEF InnocenceIsTrue
  <2> QED BY <2>2, <2>3
<1>7. ASSUME NEW a \in Assignments, Land(a)
      PROVE  ReportInv'
  BY <1>7 DEF Land, ResultsAreBound, InnocenceIsTrue, LooksAreLate
<1>8. ASSUME NEW a \in Assignments, TimePasses(a)
      PROVE  ReportInv'
  <2>1. /\ \A b \in Assignments : window[b] = "over" => window'[b] = "over"
        /\ UNCHANGED <<rows, observed, wire, worker, allowance>>
    BY <1>8 DEF TimePasses
  <2>2. ResultsAreBound' /\ InnocenceIsTrue'
    BY <2>1 DEF ResultsAreBound, InnocenceIsTrue
  <2>3. LooksAreLate'
    BY <2>1 DEF LooksAreLate
  <2> QED BY <2>2, <2>3
<1>9. ASSUME NEW a \in Assignments,
             NEW seen \in {"not_observed", "review_required", "confirmed_executed"},
             Observe(a, seen)
      PROVE  ReportInv'
  BY <1>9 DEF Observe, ResultsAreBound, InnocenceIsTrue, LooksAreLate
<1> QED BY <1>1, <1>2, <1>3, <1>4, <1>5, <1>6, <1>7, <1>8, <1>9 DEF Environment

LEMMA ReportStep == MoneyInv /\ ReportInv /\ [Next]_vars => ReportInv'
<1> SUFFICES ASSUME MoneyInv, ReportInv, [Next]_vars PROVE ReportInv'
  OBVIOUS
<1>1. CASE UNCHANGED vars
  BY <1>1 DEF vars, bridge, device, page, budget, ReportInv, ResultsAreBound,
     InnocenceIsTrue, LooksAreLate
<1> QED BY <1>1, WorkerSteps, BridgeKeepsReports, WritesKeepReports, QuietKeepsReports,
        EnvironmentKeepsReports DEF Next

LEMMA ReportInvariant == Spec => []ReportInv
<1>1. Init => ReportInv
  BY DEF Init, ReportInv, ResultsAreBound, InnocenceIsTrue, LooksAreLate, Resting, Working,
     Holding, Undecided, Acting, Reporting
<1> QED BY <1>1, MoneyInvariant, ReportStep, PTL DEF Spec

\* When the device reported that it never acted, no deposit left for the platform,
\* and the page holds none that could leave later.
THEOREM ReportsOfNoActionAreTrue == Spec => []NoLocalActionIsTrue
<1>1. MoneyInv /\ ReportInv => NoLocalActionIsTrue
  BY DEF MoneyInv, PostsCounted, ReportInv, InnocenceIsTrue, NoLocalActionIsTrue
<1> QED BY <1>1, MoneyInvariant, ReportInvariant, PTL
-----------------------------------------------------------------------------
(* The lane implements OneShotCredit. *)

Unmoved(a) ==
    /\ PermitOf(a)' = PermitOf(a) /\ LaneOf(a)' = LaneOf(a) /\ VerdictOf(a)' = VerdictOf(a)

\* Nothing the promise sees moves, or one deposit's permit or verdict does.
LEMMA PromiseStutters ==
    ASSUME \A a \in Assignments : Unmoved(a), landed' = landed
    PROVE  UNCHANGED Promise!oneShotVars
BY DEF Unmoved, Promise!oneShotVars

LEMMA PromiseMoves ==
    ASSUME NEW a \in Assignments, \A b \in Assignments \ {a} : Unmoved(b), landed' = landed
    PROVE  /\ /\ PermitOf(a)' = PermitOf(a) /\ LaneOf(a)' = LaneOf(a)
              /\ VerdictOf(a) = "open"
              /\ \/ VerdictOf(a)' = "review"
                 \/ VerdictOf(a)' = "executed" /\ a \in landed
              => Promise!Refer(a) \/ Promise!Confirm(a)
           /\ /\ PermitOf(a) = "issued" /\ PermitOf(a)' = "used"
              /\ LaneOf(a)' = LaneOf(a)
              /\ VerdictOf(a) = "open" /\ VerdictOf(a)' = VerdictOf(a)
              => Promise!Use(a)
           /\ /\ PermitOf(a) = "unissued" /\ PermitOf(a)' = "issued" /\ LaneOf(a)' = Account
              /\ VerdictOf(a) = "open" /\ VerdictOf(a)' = VerdictOf(a)
              /\ \A b \in Assignments : LaneOf(b) = Account => VerdictOf(b) = "executed"
              => Promise!Issue(a, Account)
<1> USE DEF Unmoved
<1>1. /\ PermitOf(a)' = PermitOf(a) /\ LaneOf(a)' = LaneOf(a)
      /\ VerdictOf(a) = "open"
      /\ \/ VerdictOf(a)' = "review"
         \/ VerdictOf(a)' = "executed" /\ a \in landed
      => Promise!Refer(a) \/ Promise!Confirm(a)
  BY DEF Promise!Refer, Promise!Confirm
<1>2. /\ PermitOf(a) = "issued" /\ PermitOf(a)' = "used"
      /\ LaneOf(a)' = LaneOf(a)
      /\ VerdictOf(a) = "open" /\ VerdictOf(a)' = VerdictOf(a)
      => Promise!Use(a)
  BY DEF Promise!Use
<1>3. ASSUME PermitOf(a) = "unissued", PermitOf(a)' = "issued", LaneOf(a)' = Account,
             VerdictOf(a) = "open", VerdictOf(a)' = VerdictOf(a),
             \A b \in Assignments : LaneOf(b) = Account => VerdictOf(b) = "executed"
      PROVE  Promise!Issue(a, Account)
  BY <1>3 DEF Promise!Issue
<1> QED BY <1>1, <1>2, <1>3

\* What is fenced and what was seen say whether the promise moves.
LEMMA UnmovedIf ==
    ASSUME NEW a \in Assignments,
           rows'[a].state \in Fenced <=> rows[a].state \in Fenced,
           allowance'[a] = "unused" <=> allowance[a] = "unused",
           observed'[a] = observed[a]
    PROVE  Unmoved(a)
BY DEF Unmoved, PermitOf, LaneOf, VerdictOf

\* The fence issues the permit: the lane's earlier deposits are confirmed.
LEMMA FenceIssues ==
    ASSUME MoneyInv, LaneInv, ReportInv, NEW m \in wire, ClaimAuthority(m)
    PROVE  Promise!OneShotNext
<1> USE DEF MoneyInv, TypeInv, CompanionTypeOK
<1>1. PICK a \in Assignments : m.of = a
  BY MessageFields
<1>2. /\ rows[a].state = "signed" /\ rows'[a].state = "authority_claimed"
      /\ \A b \in Assignments \ {a} : rows'[b] = rows[b]
      /\ UNCHANGED <<observed, allowance, landed>>
  BY <1>1 DEF ClaimAuthority, Row, page
<1>3. allowance[a] = "unused"
  BY <1>2 DEF PostsCounted, Fenced
<1>4. \A b \in Assignments \ {a} : Unmoved(b)
  BY <1>2, UnmovedIf
<1>5. /\ PermitOf(a) = "unissued" /\ PermitOf(a)' = "issued" /\ LaneOf(a)' = Account
      /\ VerdictOf(a) = "open" /\ VerdictOf(a)' = VerdictOf(a)
  <2>1. observed[a] = "none"
    BY <1>2 DEF ReportInv, LooksAreLate, Fenced
  <2> QED BY <1>2, <1>3, <2>1 DEF PermitOf, LaneOf, VerdictOf, Fenced
<1>6. \A b \in Assignments : LaneOf(b) = Account => VerdictOf(b) = "executed"
  <2> SUFFICES ASSUME NEW b \in Assignments, LaneOf(b) = Account
               PROVE  VerdictOf(b) = "executed"
    OBVIOUS
  <2>1. rows[b].state \in Fenced /\ b # a
    BY <1>2, NoneIsNoAccount DEF LaneOf, Fenced
  <2>2. observed[b] = "confirmed_executed"
    BY <1>2, <2>1 DEF LaneInv, Open
  <2> QED BY <2>2 DEF VerdictOf
<1>7. Promise!Issue(a, Account)
  BY <1>2, <1>4, <1>5, <1>6, PromiseMoves
<1> QED BY <1>7 DEF Promise!OneShotNext

\* The route uses it: nothing was reported or seen of the attempt.
LEMMA ConsumptionUses ==
    ASSUME MoneyInv, ReportInv, RouteConsumes
    PROVE  Promise!OneShotNext
<1> USE DEF MoneyInv, TypeInv, CompanionTypeOK
<1>1. PICK a \in Assignments : worker.of = a
  BY DEF RouteConsumes, Engaged
<1>2. /\ worker.pc = "clicked" /\ window[a] = "open"
      /\ allowance' = [allowance EXCEPT ![a] = "consumed"]
      /\ UNCHANGED <<rows, observed, landed>>
  BY <1>1 DEF RouteConsumes, bridge
<1>3. worker.pc \in Acting
  BY <1>2 DEF Acting
<1>4. rows[a].state \in Fenced /\ allowance[a] = "unused"
  BY <1>1, <1>3 DEF AuthorityIsFresh
<1>5. observed[a] = "none"
  BY <1>1, <1>2, <1>3, NothingReportedYet DEF ReportInv, LooksAreLate
<1>6. \A b \in Assignments \ {a} : Unmoved(b)
  BY <1>2, UnmovedIf
<1>7. /\ PermitOf(a) = "issued" /\ PermitOf(a)' = "used" /\ LaneOf(a)' = LaneOf(a)
      /\ VerdictOf(a) = "open" /\ VerdictOf(a)' = VerdictOf(a)
  BY <1>2, <1>4, <1>5 DEF PermitOf, LaneOf, VerdictOf
<1>8. Promise!Use(a)
  BY <1>2, <1>6, <1>7, PromiseMoves
<1> QED BY <1>8 DEF Promise!OneShotNext

\* Only a deposit that left can land.
LEMMA LandingCredits ==
    ASSUME MoneyInv, NEW a \in Assignments, Land(a)
    PROVE  Promise!OneShotNext
<1> USE DEF MoneyInv, TypeInv, CompanionTypeOK
<1>1. /\ posts[a] > 0 /\ a \notin landed /\ landed' = landed \cup {a}
      /\ UNCHANGED <<rows, observed, allowance>>
  BY DEF Land, bridge
<1>2. allowance[a] = "gone" /\ rows[a].state \in Fenced
  BY <1>1 DEF PostsCounted
<1>3. PermitOf(a) = "used"
  BY <1>2 DEF PermitOf
<1>4. \A b \in Assignments : Unmoved(b)
  BY <1>1, UnmovedIf
<1>5. Promise!Credit(a)
  BY <1>1, <1>3, <1>4 DEF Promise!Credit, Unmoved
<1> QED BY <1>5 DEF Promise!OneShotNext

\* An observation confirms what landed or refers the attempt to review.
LEMMA ObservationSettles ==
    ASSUME CompanionTypeOK, NEW a \in Assignments,
           NEW seen \in {"not_observed", "review_required", "confirmed_executed"},
           Observe(a, seen)
    PROVE  [Promise!OneShotNext]_(Promise!oneShotVars)
<1> USE DEF CompanionTypeOK
<1>1. /\ observed[a] \in {"none", "not_observed"}
      /\ observed' = [observed EXCEPT ![a] = seen]
      /\ seen = "confirmed_executed" => a \in landed
      /\ UNCHANGED <<rows, allowance, landed>>
  BY DEF Observe, page
<1>2. \A b \in Assignments \ {a} : Unmoved(b)
  BY <1>1, UnmovedIf
<1>3. PermitOf(a)' = PermitOf(a) /\ LaneOf(a)' = LaneOf(a) /\ VerdictOf(a) = "open"
  BY <1>1 DEF PermitOf, LaneOf, VerdictOf
<1>4. CASE seen = "not_observed"
  <2>1. Unmoved(a)
    BY <1>1, <1>3, <1>4 DEF Unmoved, VerdictOf
  <2> QED BY <1>1, <1>2, <2>1, PromiseStutters
<1>5. CASE seen # "not_observed"
  <2>1. VerdictOf(a)' = "review" \/ (VerdictOf(a)' = "executed" /\ a \in landed)
    BY <1>1, <1>5 DEF VerdictOf
  <2>2. Promise!Refer(a) \/ Promise!Confirm(a)
    BY <1>1, <1>2, <1>3, <2>1, PromiseMoves
  <2> QED BY <2>2 DEF Promise!OneShotNext
<1> QED BY <1>4, <1>5

\* Everything else shows the promise nothing.
LEMMA RestStutters ==
    ASSUME MoneyInv, [Next]_vars,
           \A m \in wire : ~ClaimAuthority(m), ~RouteConsumes,
           \A a \in Assignments : ~Land(a),
           \A a \in Assignments :
             \A seen \in {"not_observed", "review_required", "confirmed_executed"} :
               ~Observe(a, seen)
    PROVE  UNCHANGED Promise!oneShotVars
<1> USE DEF MoneyInv, TypeInv, CompanionTypeOK, bridge, device, page
<1> SUFFICES /\ \A a \in Assignments :
                  /\ rows'[a].state \in Fenced <=> rows[a].state \in Fenced
                  /\ allowance'[a] = "unused" <=> allowance[a] = "unused"
             /\ UNCHANGED <<observed, landed>>
  BY UnmovedIf, PromiseStutters
<1>1. ASSUME NEW c \in Assignments, LeaseAssignment(c) \/ SignAssignment(c) \/ SignAuthority(c)
      PROVE  /\ \A a \in Assignments : rows'[a].state \in Fenced <=> rows[a].state \in Fenced
             /\ UNCHANGED <<observed, allowance, landed>>
  BY <1>1, SMTT(30) DEF LeaseAssignment, SignAssignment, SignAuthority, Row, Fenced
<1>2. ASSUME NEW m \in wire, AcceptResult(m)
      PROVE  /\ \A a \in Assignments : rows'[a].state \in Fenced <=> rows[a].state \in Fenced
             /\ UNCHANGED <<observed, allowance, landed>>
  BY <1>2, MessageFields DEF AcceptResult, Row, Fenced
<1>3. CASE WriteStep
  <2>1. worker \in Worker
    OBVIOUS
  <2> QED BY <1>3, <2>1, WriteMoves
<1>4. CASE QuietStep
  BY <1>4 DEF QuietStep, TakeAssignment, AskAuthority, AuthorityArrives, AuthorityFails,
     DeadlinePassed, Click, HoldBack, PlatformAnswers, GiveUp, Conclude, SubmitResult,
     ResultAcknowledged, ResultFails, StatusArrives, StatusFails
<1>5. CASE Leave \/ Crash
  BY <1>5 DEF Leave, Crash, PageDies
<1>6. CASE Boot \/ PreparationFails \/ TakeBackup \/ RestoreBackup \/ DisableControl
  BY <1>6 DEF Boot, PreparationFails, TakeBackup, RestoreBackup, DisableControl
<1>7. ASSUME NEW c \in Assignments, RouteForwards(c) \/ RouteBlocks(c)
      PROVE  /\ \A a \in Assignments : allowance'[a] = "unused" <=> allowance[a] = "unused"
             /\ UNCHANGED <<rows, observed, landed>>
  BY <1>7 DEF RouteForwards, RouteBlocks
<1>8. ASSUME NEW c \in Assignments, TimePasses(c)
      PROVE  UNCHANGED <<rows, observed, allowance, landed>>
  BY <1>8 DEF TimePasses
<1>9. CASE UNCHANGED vars
  BY <1>9 DEF vars
<1> QED BY <1>1, <1>2, <1>3, <1>4, <1>5, <1>6, <1>7, <1>8, <1>9, WorkerSteps
        DEF Next, BridgeStep, Environment

\* With its crashes, lost replies, failed writes and restored disks, the lane does
\* what OneShotCredit allows: a permit is issued once, to a lane without a deposit
\* in doubt, and used once, and only what landed is called executed.
THEOREM PromiseIsKept == Spec => CompanionKeepsPromise
<1>1. Init => Promise!OneShotInit
  BY DEF Init, Promise!OneShotInit, PermitOf, LaneOf, VerdictOf, Fenced
<1>2. Init => LaneInv
  BY DEF Init, LaneInv, Open, Fenced
<1>3. MoneyInv /\ LaneInv /\ ReportInv /\ [Next]_vars
        => [Promise!OneShotNext]_(Promise!oneShotVars)
  BY FenceIssues, ConsumptionUses, LandingCredits, ObservationSettles, RestStutters
     DEF MoneyInv, TypeInv
<1> QED BY <1>1, <1>2, <1>3, MoneyInvariant, LaneStep, ReportInvariant, PTL
        DEF Spec, CompanionKeepsPromise, Promise!OneShotSpec
=============================================================================
