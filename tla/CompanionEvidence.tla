-------------------------- MODULE CompanionEvidence --------------------------
(***************************************************************************)
(* What the Windows companion writes to its disk about the one deposit it  *)
(* works on, as operators on the disk: the crash journal, the attempt      *)
(* chain and the markers of consumed authorities.  Every operation is the  *)
(* set of its possible results.  A result is what the disk holds           *)
(* afterwards and whether the operation is done, refused, or failed with   *)
(* an input/output error, which may come before, in the middle of, or      *)
(* after its effect.  Encryption, envelopes and digests are abstracted to  *)
(* the identity of the assignment they bind.                               *)
(***************************************************************************)
EXTENDS Naturals

CONSTANTS
    Assignments,  \* one-use execution assignments
    None

ASSUME NoneIsNoAssignment == None \notin Assignments

Observed == "assignment_observed"
Consumed == "fence_consumed"
Started  == "final_action_started"
Recorded == "signed_result_recorded"

Outcomes == {"submission_attempted", "local_uncertain", "post_fence_no_local_action"}
Parts    == {"enrollment", "assignment", "authority", "result"}

Phases == {Observed, Consumed, Started, Recorded}

Journal == [of : Assignments \cup {None}, phase : Phases \cup {"missing"}]
Chain   == [of : Assignments \cup {None}, parts : SUBSET Parts, files : {"whole", "torn"}]
Disk    == [journal : Journal, chain : Chain, markers : SUBSET Assignments]

NoJournal == [of |-> None, phase |-> "missing"]
NoChain   == [of |-> None, parts |-> {}, files |-> "whole"]
EmptyDisk == [journal |-> NoJournal, chain |-> NoChain, markers |-> {}]

Done(d)    == [disk |-> d, end |-> "done"]
Refused(d) == [disk |-> d, end |-> "refused"]
Failed(d)  == [disk |-> d, end |-> "failed"]

-----------------------------------------------------------------------------
(* The crash journal: one file, replaced by an atomic rename. *)

\* The one way forward for each phase; the outcome of a recorded result has to
\* agree with whether the final action was started.
LegalTransition(was, next, outcome) ==
    /\ next.of \in Assignments
    /\ \/ was = NoJournal /\ next.phase = Observed
       \/ was.of = next.of /\ was.phase = Observed /\ next.phase = Consumed
       \/ was.of = next.of /\ was.phase = Consumed /\ next.phase = Started
       \/ /\ was.of = next.of /\ was.phase = Consumed /\ next.phase = Recorded
          /\ outcome = "post_fence_no_local_action"
       \/ /\ was.of = next.of /\ was.phase = Started /\ next.phase = Recorded
          /\ outcome \in {"submission_attempted", "local_uncertain"}

\* The step is judged against what the file holds, not what the worker remembers.
PersistJournal(d, a, phase, outcome) ==
    LET next  == [of |-> a, phase |-> phase]
        after == [d EXCEPT !.journal = next]
    IN  IF LegalTransition(d.journal, next, outcome)
        THEN {Done(after), Failed(d), Failed(after)}
        ELSE {Refused(d)}

\* Only the very entry the caller holds is removed.
RemoveJournal(d, a, phase) ==
    IF d.journal = [of |-> a, phase |-> phase]
    THEN {Done([d EXCEPT !.journal = NoJournal]), Failed(d),
          Failed([d EXCEPT !.journal = NoJournal])}
    ELSE {Refused(d)}

-----------------------------------------------------------------------------
(* The attempt chain: four files, each created once and never overwritten. *)

Kept(a, parts, files) == [of |-> a, parts |-> parts, files |-> files]

\* What a failed first write may leave behind: a prefix, or a file cut short.
ShortChains(a) ==
    {Kept(a, {}, "torn"), Kept(a, {"enrollment"}, "whole"), Kept(a, {"enrollment"}, "torn")}

\* The enrollment, then the assignment.
PersistInitial(d, a) ==
    LET both == Kept(a, {"enrollment", "assignment"}, "whole")
    IN  IF d.chain = NoChain
        THEN {Done([d EXCEPT !.chain = both])}
             \cup {Failed([d EXCEPT !.chain = c]) : c \in {NoChain, both} \cup ShortChains(a)}
        ELSE {Refused(d)}

PersistPart(d, a, before, part) ==
    LET after == [d EXCEPT !.chain.parts = before \cup {part}]
        torn  == [d EXCEPT !.chain.files = "torn"]
    IN  IF d.chain = Kept(a, before, "whole")
        THEN {Done(after), Failed(d), Failed(torn), Failed(after)}
        ELSE {Refused(d)}

\* Removes the result, the authority, the assignment and the enrollment, in
\* this order, when the chain is exactly the caller's.
ClearChain(d, a, parts) ==
    LET left(rest) == [d EXCEPT !.chain =
                         IF rest = {} THEN NoChain
                         ELSE Kept(a, rest, "whole")]
        rests == {{"enrollment"}, {"enrollment", "assignment"},
                  {"enrollment", "assignment", "authority"}, Parts}
    IN  IF d.chain = Kept(a, parts, "whole")
        THEN {Done(left({}))} \cup {Failed(left(rest)) : rest \in rests \cap SUBSET parts}
        ELSE {Refused(d)}

-----------------------------------------------------------------------------
(* The replay store: an exclusive create per consumed authority. *)

ConsumeOnce(d, a) ==
    LET after == [d EXCEPT !.markers = @ \cup {a}]
    IN  IF a \notin d.markers
        THEN {Done(after), Failed(d), Failed(after)}
        ELSE {Refused(d)}

-----------------------------------------------------------------------------
(* What a starting companion makes of the files it finds. *)

Consistent(c) ==
    /\ c.files = "whole" /\ {"enrollment", "assignment"} \subseteq c.parts
    /\ "result" \in c.parts => "authority" \in c.parts

Recovery(d) ==
    IF d.journal = NoJournal /\ d.chain = NoChain THEN "fresh"
    ELSE IF /\ d.journal.phase = Recorded
            /\ Consistent(d.chain) /\ d.chain.parts = Parts
            /\ d.chain.of = d.journal.of
         THEN "reconcile" ELSE "operator"
=============================================================================
