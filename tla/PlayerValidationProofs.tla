----------------------- MODULE PlayerValidationProofs -----------------------
(***************************************************************************)
(* Proofs about PlayerValidation for any number of customers, messages,    *)
(* assignments, handlers and faults.                                       *)
(*                                                                         *)
(* Customers and handlers change the rows and never the companion's state; *)
(* the companion changes its own state and never the rows.  RowsAdvance    *)
(* says all the companion needs to know of the others, and the invariants  *)
(* of the companion follow from it.  RowsStay and WishesStay say which     *)
(* message an assignment is for and what becomes of the message; with them *)
(* every step is one of VerifiedChoice, or nothing the promise sees.       *)
(***************************************************************************)
EXTENDS PlayerValidation, TLAPS

\* The facts about records that PlayerTypeOK leaves out.
ShapeInv ==
    /\ \A m \in Messages : requests[m].status = "pending" =>
            requests[m].c \in Customers /\ requests[m].player \in Players
    /\ \A h \in Handlers :
        /\ calls[h].stage \in {"sign", "complete", "release"} => calls[h].a \in Assignments
        /\ calls[h].stage \in {"accept", "confirm"} => calls[h].result \in Result
        /\ calls[h].reply = "assignment" => calls[h].a \in Assignments
        /\ calls[h].stage # "answer" => calls[h].reply = "none"
    /\ worker.pc \in {"polling", "submitting"} => worker.call \in Handlers
    /\ worker.pc = "save" => worker.a \in Assignments
    /\ worker.pc \in {"mark", "find", "keep"} => disk.assignment \in Assignments

TypeInv == PlayerTypeOK /\ ShapeInv

\* A row that was never issued is not over; only a decided one has a result.
RowInv ==
    \A a \in Assignments :
        /\ rows[a].state = "none" => ~rows[a].over
        /\ rows[a].result # None => rows[a].state \in {"completed", "review_required"}
        /\ rows[a].state = "completed" =>
                rows[a].result # None /\ rows[a].result.of = a /\ rows[a].result.outcome = "found"

\* What customers, handlers and the clock may do to a row.
Advance(old, new) ==
    /\ old.state \in {"completed", "review_required", "superseded"} => new.state = old.state
    /\ old.over => new.over
    /\ old.result # None => new.result = old.result
    /\ new.state # "none" => old.state # "none" \/ ~new.over
RowsAdvance == \A a \in Assignments : Advance(rows[a], rows'[a])

\* A result that becomes part of a row was submitted by a call.
Submission == \A a \in Assignments : rows'[a].result # rows[a].result =>
                  \E h \in Handlers : calls[h].stage = "accept" /\ calls[h].result = rows'[a].result

-----------------------------------------------------------------------------
(* Types. *)

LEMMA InitTypes == Init => TypeInv /\ RowInv /\ OneActive
<1> SUFFICES ASSUME Init PROVE TypeInv /\ RowInv /\ OneActive
  OBVIOUS
<1>1. 0 \in 0..MaxMessages /\ 0 \in 0..MaxAssignments /\ 0 \in 0..MaxFaults
  BY BoundsAssumption
<1>2. NoRequest \in Request /\ NoSelection \in Selection /\ NoRow \in Row
  BY <1>1 DEF NoRequest, Request, NoSelection, Selection, NoRow, Row
<1>3. NoCall \in Call /\ Idle \in Worker /\ Empty \in Disk
  BY <1>1 DEF NoCall, Opened, Call, Replies, Idle, Doing, Worker, Empty, Disk
<1>4. [finds |-> 0, found |-> FALSE, results |-> 0] \in Tried
  BY DEF Tried
<1>5. PlayerTypeOK
  BY <1>1, <1>2, <1>3, <1>4 DEF Init, PlayerTypeOK
<1>6. ShapeInv
  BY DEF Init, ShapeInv, NoRequest, NoCall, Opened, Idle, Doing
<1>7. RowInv /\ OneActive
  BY DEF Init, RowInv, OneActive, Active, NoRow
<1> QED
  BY <1>5, <1>6, <1>7 DEF TypeInv

\* What an answer does to the calls.
LEMMA AnswerTypes ==
    ASSUME TypeInv, NEW h \in Handlers, NEW reply \in Replies, NEW a \in 0..MaxAssignments,
           reply = "assignment" => a \in Assignments, Answered(h, reply, a)
    PROVE  /\ calls' \in [Handlers -> Call]
           /\ \A k \in Handlers :
                \/ calls'[k] = calls[k]
                \/ /\ calls'[k].stage \in {"idle", "answer"}
                   /\ calls'[k].reply = "assignment" => calls'[k].a \in Assignments
                   /\ calls'[k].stage # "answer" => calls'[k].reply = "none"
<1>1. calls \in [Handlers -> Call]
  BY DEF TypeInv, PlayerTypeOK
<1>2. 0 \in 0..MaxAssignments
  BY BoundsAssumption
<1> DEFINE new == IF worker.call = h
                  THEN [NoCall EXCEPT !.stage = "answer", !.a = a, !.reply = reply] ELSE NoCall
<1>3. /\ new \in Call /\ new.stage \in {"idle", "answer"}
      /\ new.reply = "assignment" => new.a \in Assignments
      /\ new.stage # "answer" => new.reply = "none"
  BY <1>2 DEF NoCall, Opened, Call, Replies
<1>4. calls' = [calls EXCEPT ![h] = new]
  BY DEF Answered
<1> QED
  BY <1>1, <1>3, <1>4

LEMMA StageTypes ==
    ASSUME TypeInv, NEW h \in Handlers, NEW a \in 0..MaxAssignments,
           NEW stage \in {"sign", "complete", "release", "confirm"},
           stage # "confirm" => a \in Assignments,
           stage = "confirm" => calls[h].result \in Result,
           At(h, stage, a)
    PROVE  /\ calls' \in [Handlers -> Call]
           /\ \A k \in Handlers :
                \/ calls'[k] = calls[k]
                \/ /\ calls'[k].stage = stage /\ calls'[k].result = calls[k].result
                   /\ calls'[k].a = a /\ calls'[k].reply = calls[k].reply /\ k = h
<1>1. calls \in [Handlers -> Call]
  BY DEF TypeInv, PlayerTypeOK
<1> DEFINE new == [calls[h] EXCEPT !.stage = stage, !.a = a]
<1>2. /\ new \in Call /\ new.stage = stage /\ new.result = calls[h].result
      /\ new.a = a /\ new.reply = calls[h].reply
  BY <1>1 DEF Call
<1>3. calls' = [calls EXCEPT ![h] = new]
  BY DEF At
<1> QED
  BY <1>1, <1>2, <1>3
\* What is left to show of a step that leaves the companion alone.
ServerTypes == /\ requests' \in [Messages -> Request] /\ sent' \in 0..MaxMessages
               /\ selected' \in [Customers -> Selection]
               /\ account' \in [Players -> {"none", "eligible", "revoked"}]
               /\ \A m \in Messages : requests'[m].status = "pending" =>
                        requests'[m].c \in Customers /\ requests'[m].player \in Players

LEMMA CustomerTypesKept ==
    TypeInv /\ UNCHANGED customer => ServerTypes
BY DEF TypeInv, PlayerTypeOK, ShapeInv, ServerTypes, customer

LEMMA AnswerKeepsTypes ==
    ASSUME TypeInv, ServerTypes, NEW h \in Handlers, NEW reply \in Replies,
           NEW a \in 0..MaxAssignments, reply = "assignment" => a \in Assignments,
           Answered(h, reply, a), rows' \in [Assignments -> Row],
           faults' \in 0..MaxFaults, UNCHANGED companion
    PROVE  TypeInv'
<1>1. /\ calls' \in [Handlers -> Call]
      /\ \A k \in Handlers :
            \/ calls'[k] = calls[k]
            \/ /\ calls'[k].stage \in {"idle", "answer"}
               /\ calls'[k].reply = "assignment" => calls'[k].a \in Assignments
               /\ calls'[k].stage # "answer" => calls'[k].reply = "none"
  BY AnswerTypes
<1>2. PlayerTypeOK'
  BY <1>1 DEF TypeInv, PlayerTypeOK, ServerTypes, companion
<1>3. ShapeInv'
  BY <1>1 DEF TypeInv, ShapeInv, ServerTypes, companion
<1> QED
  BY <1>2, <1>3 DEF TypeInv

LEMMA StageKeepsTypes ==
    ASSUME TypeInv, ServerTypes, NEW h \in Handlers, NEW a \in 0..MaxAssignments,
           NEW stage \in {"sign", "complete", "release", "confirm"},
           stage # "confirm" => a \in Assignments,
           stage = "confirm" => calls[h].result \in Result,
           calls[h].stage # "answer",
           At(h, stage, a), rows' \in [Assignments -> Row],
           faults' \in 0..MaxFaults, UNCHANGED companion
    PROVE  TypeInv'
<1>1. /\ calls' \in [Handlers -> Call]
      /\ \A k \in Handlers :
            \/ calls'[k] = calls[k]
            \/ /\ calls'[k].stage = stage /\ calls'[k].result = calls[k].result
               /\ calls'[k].a = a /\ calls'[k].reply = calls[k].reply /\ k = h
  BY StageTypes
<1>2. PlayerTypeOK'
  BY <1>1 DEF TypeInv, PlayerTypeOK, ServerTypes, companion
<1>3. calls[h].reply = "none"
  BY DEF TypeInv, ShapeInv
<1>4. ShapeInv'
  BY <1>1, <1>3 DEF TypeInv, ShapeInv, ServerTypes, companion
<1> QED
  BY <1>2, <1>4 DEF TypeInv

-----------------------------------------------------------------------------
(* The rows. *)

\* All that a step does to the rows.
RowsKept == /\ rows' \in [Assignments -> Row]
            /\ RowInv' /\ OneActive' /\ RowsAdvance /\ Submission

LEMMA SameRows ==
    TypeInv /\ RowInv /\ OneActive /\ UNCHANGED rows => RowsKept
BY DEF TypeInv, PlayerTypeOK, RowInv, OneActive, Active, RowsKept, RowsAdvance, Advance, Submission

\* A row that changes its state, and nothing else, towards its end.
LEMMA StateRows ==
    ASSUME TypeInv, RowInv, OneActive, rows' \in [Assignments -> Row],
           \A a \in Assignments :
               \/ rows'[a] = rows[a]
               \/ /\ rows[a].state \in {"claimed", "signed"}
                  /\ rows'[a].state \notin {"none", "completed", "review_required"}
                  /\ rows'[a].over = rows[a].over /\ rows'[a].result = rows[a].result
    PROVE  RowsKept
<1>1. \A a \in Assignments : Active(a)' => Active(a)
  BY DEF Active
<1>2. OneActive'
  BY <1>1 DEF OneActive
<1>3. RowInv' /\ RowsAdvance /\ Submission
  BY DEF RowInv, RowsAdvance, Advance, Submission
<1> QED
  BY <1>2, <1>3 DEF RowsKept

LEMMA SettledRows ==
    ASSUME TypeInv
    PROVE  /\ Settled \in [Assignments -> Row]
           /\ \A a \in Assignments :
                /\ Settled[a].state \notin {"claimed", "signed"}
                /\ \/ Settled[a] = rows[a]
                   \/ /\ rows[a].state \in {"claimed", "signed"}
                      /\ Settled[a].state \in {"expired", "superseded"}
                      /\ Settled[a].over = rows[a].over /\ Settled[a].result = rows[a].result
<1>1. rows \in [Assignments -> Row]
  BY DEF TypeInv, PlayerTypeOK
<1>2. \A v \in Row, x \in {"expired", "superseded"} :
        /\ [v EXCEPT !.state = x] \in Row /\ [v EXCEPT !.state = x].state = x
        /\ [v EXCEPT !.state = x].over = v.over /\ [v EXCEPT !.state = x].result = v.result
  BY DEF Row
<1>3. Settled = [a \in Assignments |-> IF Active(a)
        THEN [rows[a] EXCEPT !.state = IF Pending(rows[a].of) THEN "expired" ELSE "superseded"]
        ELSE rows[a]]
  BY DEF Settled
<1>4. ASSUME NEW a \in Assignments
      PROVE  /\ Settled[a] \in Row /\ Settled[a].state \notin {"claimed", "signed"}
             /\ \/ Settled[a] = rows[a]
                \/ /\ rows[a].state \in {"claimed", "signed"}
                   /\ Settled[a].state \in {"expired", "superseded"}
                   /\ Settled[a].over = rows[a].over /\ Settled[a].result = rows[a].result
  <2>1. CASE Active(a)
    <3>1. PICK x \in {"expired", "superseded"} : Settled[a] = [rows[a] EXCEPT !.state = x]
      BY <1>3, <2>1
    <3>2. rows[a] \in Row
      BY <1>1
    <3> DEFINE old == rows[a]
    <3>3. [old EXCEPT !.state = x] \in Row /\ [old EXCEPT !.state = x].state = x
      BY <3>2, <1>2
    <3>4. Settled[a] \in Row /\ Settled[a].state = x
      BY <3>1, <3>3
    <3>5. Settled[a].over = rows[a].over /\ Settled[a].result = rows[a].result
      BY <3>1, <3>2, <1>2
    <3> QED
      BY <3>4, <3>5, <2>1 DEF Active
  <2>2. CASE ~Active(a)
    BY <2>2, <1>1, <1>3 DEF Active
  <2> QED
    BY <2>1, <2>2
<1> QED
  BY <1>3, <1>4

\* What a step of the bridge, a customer or the clock does as a whole.
ServerKeeps == TypeInv' /\ RowsKept

LEMMA ClaimKeeps ==
    ASSUME TypeInv, RowInv, OneActive, NEW h \in Handlers, Claim(h)
    PROVE  ServerKeeps
<1>1. rows \in [Assignments -> Row] /\ calls \in [Handlers -> Call] /\ faults \in 0..MaxFaults
  BY DEF TypeInv, PlayerTypeOK
<1>2. ServerTypes /\ UNCHANGED companion /\ faults' = faults
  BY CustomerTypesKept DEF Claim
<1>3. 0 \in 0..MaxAssignments /\ "assignment" \in Replies /\ "unavailable" \in Replies
  BY BoundsAssumption DEF Replies
<1>4. Assignments \subseteq 0..MaxAssignments
  BY DEF Assignments
<1>5. CASE \E a \in Assignments : Current(a) /\ HandOut(h, a)
  <2>1. PICK a \in Assignments : Current(a) /\ HandOut(h, a)
    BY <1>5
  <2>2. CASE rows[a].state = "signed" /\ Answered(h, "assignment", a) /\ UNCHANGED rows
    BY <2>2, <1>1, <1>2, <1>3, <1>4, AnswerKeepsTypes, SameRows DEF ServerKeeps
  <2>3. CASE Answered(h, "unavailable", 0) /\ UNCHANGED rows
    BY <2>3, <1>1, <1>2, <1>3, AnswerKeepsTypes, SameRows DEF ServerKeeps
  <2>4. CASE /\ rows[a].state = "claimed" /\ rows' = [rows EXCEPT ![a].lapsed = FALSE]
             /\ At(h, "sign", a)
    <3>1. /\ [rows[a] EXCEPT !.lapsed = FALSE] \in Row
          /\ rows' \in [Assignments -> Row]
          /\ \A b \in Assignments :
                /\ rows'[b].state = rows[b].state
                /\ rows'[b].over = rows[b].over /\ rows'[b].result = rows[b].result
      BY <2>4, <1>1 DEF Row
    <3>2. RowsKept
      BY <3>1 DEF RowsKept, RowInv, OneActive, Active, RowsAdvance, Advance, Submission
    <3>3. TypeInv'
      BY <3>1, <2>4, <1>1, <1>2, <1>4, StageKeepsTypes DEF Claim
    <3> QED
      BY <3>2, <3>3 DEF ServerKeeps
  <2> QED
    BY <2>1, <2>2, <2>3, <2>4 DEF HandOut
<1>6. CASE LeaseOldest(h)
  <2>1. CASE rows' = Settled /\ Answered(h, "unavailable", 0)
    <3>1. rows' \in [Assignments -> Row]
      BY <2>1, SettledRows
    <3>2. RowsKept
      BY <3>1, <2>1, SettledRows, StateRows
    <3>3. TypeInv'
      BY <3>1, <2>1, <1>1, <1>2, <1>3, AnswerKeepsTypes
    <3> QED
      BY <3>2, <3>3 DEF ServerKeeps
  <2>2. CASE \E m \in Messages, a \in Assignments :
                /\ Oldest(m) /\ NextFree(a)
                /\ rows' = [Settled EXCEPT ![a] = Claimed(m)]
                /\ At(h, "sign", a)
    <3>1. PICK m \in Messages, a \in Assignments :
                /\ NextFree(a)
                /\ rows' = [Settled EXCEPT ![a] = Claimed(m)]
                /\ At(h, "sign", a)
      BY <2>2
    <3>2. /\ Claimed(m) \in Row /\ Claimed(m).state = "claimed"
          /\ ~Claimed(m).over /\ Claimed(m).result = None
      <4>1. m \in 0..MaxMessages
        BY BoundsAssumption DEF Messages
      <4> QED
        BY <4>1 DEF Row, Claimed
    <3>3. /\ rows' \in [Assignments -> Row] /\ rows'[a] = Claimed(m)
          /\ \A b \in Assignments : b # a => rows'[b] = Settled[b]
      BY <3>1, <3>2, SettledRows
    <3>4. rows[a].state = "none" /\ rows[a].result = None
      BY <3>1 DEF NextFree, RowInv
    <3>5. RowInv' /\ RowsAdvance /\ Submission
      BY <3>2, <3>3, <3>4, SettledRows DEF RowInv, RowsAdvance, Advance, Submission
    <3>6. \A b \in Assignments : Active(b)' => b = a
      BY <3>3, SettledRows DEF Active
    <3>7. RowsKept
      BY <3>3, <3>5, <3>6 DEF RowsKept, OneActive
    <3>8. TypeInv'
      BY <3>1, <3>3, <1>1, <1>2, <1>4, StageKeepsTypes DEF Claim
    <3> QED
      BY <3>7, <3>8 DEF ServerKeeps
  <2> QED
    BY <1>6, <2>1, <2>2 DEF LeaseOldest
<1> QED
  BY <1>5, <1>6 DEF Claim

LEMMA SignKeeps ==
    ASSUME TypeInv, RowInv, OneActive, NEW h \in Handlers, Sign(h) \/ SignFails(h)
    PROVE  ServerKeeps
<1>1. rows' \in [Assignments -> Row] /\ calls \in [Handlers -> Call] /\ faults' \in 0..MaxFaults
  BY BoundsAssumption DEF TypeInv, PlayerTypeOK, Sign, SignFails
<1>2. ServerTypes /\ UNCHANGED companion /\ UNCHANGED rows
  BY CustomerTypesKept DEF Sign, SignFails
<1>3. calls[h].stage = "sign" /\ calls[h].a \in Assignments /\ calls[h].a \in 0..MaxAssignments
  BY DEF Sign, SignFails, TypeInv, ShapeInv, Assignments
<1>4. TypeInv'
  BY <1>1, <1>2, <1>3, StageKeepsTypes DEF Sign, SignFails
<1> QED
  BY <1>2, <1>4, SameRows DEF ServerKeeps

LEMMA CompleteKeeps ==
    ASSUME TypeInv, RowInv, OneActive, NEW h \in Handlers, Complete(h)
    PROVE  ServerKeeps
<1> DEFINE a == calls[h].a
<1>1. rows \in [Assignments -> Row] /\ calls \in [Handlers -> Call] /\ faults \in 0..MaxFaults
  BY DEF TypeInv, PlayerTypeOK
<1>2. ServerTypes /\ UNCHANGED companion /\ faults' = faults
  BY CustomerTypesKept DEF Complete
<1>3. a \in Assignments /\ a \in 0..MaxAssignments /\ 0 \in 0..MaxAssignments
  BY BoundsAssumption DEF Complete, TypeInv, ShapeInv, Assignments
<1>4. "assignment" \in Replies /\ "unavailable" \in Replies
  BY DEF Replies
<1>5. CASE UNCHANGED rows /\ Answered(h, "unavailable", 0)
  BY <1>5, <1>1, <1>2, <1>3, <1>4, AnswerKeepsTypes, SameRows DEF ServerKeeps
<1>6. CASE /\ rows[a].state = "claimed" /\ rows' = [rows EXCEPT ![a].state = "signed"]
           /\ Answered(h, "assignment", a)
  <2>1. rows' \in [Assignments -> Row]
    BY <1>6, <1>1, <1>3 DEF Row
  <2>2. RowsKept
    BY <1>6, <1>1, <1>3, <2>1, StateRows DEF Row
  <2> QED
    BY <2>1, <2>2, <1>6, <1>1, <1>2, <1>3, <1>4, AnswerKeepsTypes DEF ServerKeeps
<1> QED
  BY <1>5, <1>6 DEF Complete

LEMMA ReleaseKeeps ==
    ASSUME TypeInv, RowInv, OneActive, NEW h \in Handlers, Release(h)
    PROVE  ServerKeeps
<1> DEFINE a == calls[h].a
<1>1. rows \in [Assignments -> Row] /\ calls \in [Handlers -> Call] /\ faults \in 0..MaxFaults
  BY DEF TypeInv, PlayerTypeOK
<1>2. ServerTypes /\ UNCHANGED companion /\ faults' = faults
  BY CustomerTypesKept DEF Release
<1>3. a \in Assignments /\ 0 \in 0..MaxAssignments /\ "unavailable" \in Replies
  BY BoundsAssumption DEF Release, TypeInv, ShapeInv, Replies
<1>4. rows' = [rows EXCEPT ![a].state = IF @ = "claimed" THEN "expired" ELSE @]
  BY DEF Release
<1>5. rows' \in [Assignments -> Row]
  BY <1>1, <1>3, <1>4 DEF Row
<1>6. RowsKept
  <2>1. \A b \in Assignments : b # a => rows'[b] = rows[b]
    BY <1>1, <1>4
  <2>2. CASE rows[a].state = "claimed"
    BY <2>1, <2>2, <1>1, <1>3, <1>4, <1>5, StateRows DEF Row
  <2>3. CASE rows[a].state # "claimed"
    <3>1. rows'[a] = rows[a]
      BY <2>3, <1>1, <1>3, <1>4 DEF Row
    <3> QED
      BY <3>1, <2>1, <1>5, StateRows
  <2> QED
    BY <2>2, <2>3
<1> QED
  BY <1>1, <1>2, <1>3, <1>5, <1>6, AnswerKeepsTypes DEF ServerKeeps, Release

LEMMA RecordKeeps ==
    ASSUME TypeInv, RowInv, OneActive, NEW r \in Result, Acceptable(r), Record(r), UNCHANGED sent,
           \E h \in Handlers : calls[h].stage = "accept" /\ calls[h].result = r
    PROVE  ServerTypes /\ RowsKept
<1> DEFINE a == r.of
           m == rows[a].of
           state == IF r.outcome = "found" THEN "completed" ELSE "review_required"
<1>1. /\ rows \in [Assignments -> Row] /\ requests \in [Messages -> Request]
      /\ selected \in [Customers -> Selection] /\ sent \in 0..MaxMessages
      /\ account \in [Players -> {"none", "eligible", "revoked"}]
  BY DEF TypeInv, PlayerTypeOK
<1>2. a \in Assignments /\ rows[a].state = "signed" /\ rows[a] \in Row
  BY <1>1 DEF Acceptable, Result
<1>3. /\ m \in Messages /\ m \in 0..MaxMessages /\ requests[m].status = "pending"
      /\ requests[m].c \in Customers /\ requests[m].player \in Players
  BY DEF Acceptable, Pending, Messages, TypeInv, ShapeInv
<1>4. Verdict(r) \in {"validated", "review_required"}
  BY DEF Verdict
<1> DEFINE q == Verdict(r)
<1>5. requests' = [requests EXCEPT ![m].status = q]
  BY DEF Record
<1>6. /\ requests' \in [Messages -> Request]
      /\ \A k \in Messages : requests'[k].status = "pending" => requests'[k] = requests[k]
  BY <1>1, <1>3, <1>4, <1>5 DEF Request
<1>7. selected' \in [Customers -> Selection]
  <2>1. [player |-> requests[m].player, origin |-> m] \in Selection
    BY <1>3 DEF Selection
  <2> QED
    BY <2>1, <1>1 DEF Record, Player, Customer
<1>8. account' \in [Players -> {"none", "eligible", "revoked"}]
  BY <1>1 DEF Record
<1>9. ServerTypes
  BY <1>1, <1>6, <1>7, <1>8 DEF ServerTypes, TypeInv, ShapeInv
<1> DEFINE new == [rows[a] EXCEPT !.result = r, !.state = state]
<1>10. /\ new \in Row /\ new.state = state /\ new.result = r
       /\ new.over = rows[a].over /\ new.of = rows[a].of
  BY <1>2 DEF Row
<1>11. rows' = [rows EXCEPT ![a] = new]
  BY DEF Record
<1>12. /\ rows' \in [Assignments -> Row] /\ rows'[a] = new
       /\ \A b \in Assignments : b # a => rows'[b] = rows[b]
  BY <1>1, <1>2, <1>10, <1>11
<1>13. rows[a].result = None
  BY <1>2 DEF RowInv
<1> HIDE DEF new
<1>14. RowInv' /\ RowsAdvance /\ Submission
  <2>1. r # None
    BY ResultAssumption
  <2> QED
    BY <2>1, <1>2, <1>10, <1>12, <1>13 DEF RowInv, RowsAdvance, Advance, Submission
<1>15. \A b \in Assignments : Active(b)' => Active(b)
  BY <1>2, <1>12 DEF Active
<1> QED
  BY <1>9, <1>12, <1>14, <1>15 DEF RowsKept, OneActive

LEMMA AcceptKeeps ==
    ASSUME TypeInv, RowInv, OneActive, NEW h \in Handlers, Accept(h)
    PROVE  ServerKeeps
<1> DEFINE r == calls[h].result
<1>1. /\ rows \in [Assignments -> Row] /\ faults \in 0..MaxFaults
      /\ 0 \in 0..MaxAssignments /\ "accepted" \in Replies /\ "unavailable" \in Replies
  BY BoundsAssumption DEF TypeInv, PlayerTypeOK, Replies
<1>2. r \in Result /\ UNCHANGED companion /\ faults' = faults /\ UNCHANGED sent
  BY DEF Accept, TypeInv, ShapeInv
<1>3. CASE UNCHANGED <<requests, selected, account, rows>>
  <2>1. ServerTypes
    BY <1>2, <1>3, CustomerTypesKept DEF customer
  <2>2. RowsKept
    BY <1>3, SameRows
  <2>3. CASE Answered(h, IF RetryAccepted(r.of) THEN "accepted" ELSE "unavailable", 0)
    BY <2>1, <2>2, <2>3, <1>1, <1>2, <1>3, AnswerKeepsTypes DEF ServerKeeps
  <2>4. CASE At(h, "confirm", 0)
    BY <2>1, <2>2, <2>4, <1>1, <1>2, <1>3, StageKeepsTypes DEF ServerKeeps, Accept
  <2>5. CASE Answered(h, "accepted", 0)
    BY <2>1, <2>2, <2>5, <1>1, <1>2, <1>3, AnswerKeepsTypes DEF ServerKeeps
  <2> QED
    BY <2>3, <2>4, <2>5 DEF Accept
<1>4. CASE Acceptable(r) /\ Record(r) /\ Answered(h, "accepted", 0)
  <2>1. ServerTypes /\ RowsKept
    BY <1>2, <1>4, RecordKeeps DEF Accept
  <2> QED
    BY <2>1, <1>1, <1>2, <1>4, AnswerKeepsTypes DEF ServerKeeps, RowsKept
<1> QED
  BY <1>3, <1>4 DEF Accept

LEMMA ConfirmKeeps ==
    ASSUME TypeInv, RowInv, OneActive, NEW h \in Handlers, Confirm(h) \/ Drop(h)
    PROVE  ServerKeeps
<1>1. /\ rows' \in [Assignments -> Row] /\ 0 \in 0..MaxAssignments
      /\ "superseded" \in Replies /\ "unavailable" \in Replies
      /\ faults' \in 0..MaxFaults
  BY BoundsAssumption DEF TypeInv, PlayerTypeOK, Replies, Confirm, Drop
<1>2. ServerTypes /\ UNCHANGED companion /\ UNCHANGED rows
  BY CustomerTypesKept DEF Confirm, Drop
<1>3. Answered(h, "superseded", 0) \/ Answered(h, "unavailable", 0)
  BY DEF Confirm, Drop
<1>4. TypeInv'
  BY <1>1, <1>2, <1>3, AnswerKeepsTypes
<1> QED
  BY <1>2, <1>4, SameRows DEF ServerKeeps

LEMMA QuietKeepsTypes ==
    ASSUME TypeInv, ServerTypes, rows' \in [Assignments -> Row],
           UNCHANGED <<calls, companion, faults>>
    PROVE  TypeInv'
<1>1. PlayerTypeOK'
  BY DEF TypeInv, PlayerTypeOK, ServerTypes, companion
<1>2. ShapeInv'
  BY DEF TypeInv, ShapeInv, ServerTypes, companion
<1> QED
  BY <1>1, <1>2 DEF TypeInv

LEMMA LapseKeeps ==
    ASSUME TypeInv, RowInv, OneActive, NEW a \in Assignments, LapseLease(a) \/ Lapse(a)
    PROVE  ServerKeeps
<1>1. rows \in [Assignments -> Row]
  BY DEF TypeInv, PlayerTypeOK
<1>2. ServerTypes /\ UNCHANGED <<calls, companion, faults>>
  BY CustomerTypesKept DEF LapseLease, Lapse
<1>3. CASE LapseLease(a)
  <2>1. /\ rows' \in [Assignments -> Row]
        /\ \A b \in Assignments :
             /\ rows'[b].state = rows[b].state /\ rows'[b].over = rows[b].over
             /\ rows'[b].result = rows[b].result
    BY <1>1, <1>3 DEF LapseLease, Row
  <2>2. RowsKept
    BY <2>1 DEF RowsKept, RowInv, OneActive, Active, RowsAdvance, Advance, Submission
  <2> QED
    BY <2>1, <2>2, <1>2, QuietKeepsTypes DEF ServerKeeps
<1>4. CASE Lapse(a)
  <2>1. /\ rows' \in [Assignments -> Row] /\ rows[a].state # "none"
        /\ \A b \in Assignments :
             /\ rows'[b].state = rows[b].state /\ rows'[b].result = rows[b].result
             /\ rows'[b].over = rows[b].over \/ (b = a /\ rows'[b].over)
    BY <1>1, <1>4 DEF Lapse, Row
  <2>2. RowsKept
    BY <2>1 DEF RowsKept, RowInv, OneActive, Active, RowsAdvance, Advance, Submission
  <2> QED
    BY <2>1, <2>2, <1>2, QuietKeepsTypes DEF ServerKeeps
<1> QED
  BY <1>3, <1>4

-----------------------------------------------------------------------------
(* The customers. *)

LEMMA WithdrawnTypes ==
    ASSUME TypeInv, NEW c \in Customers
    PROVE  /\ Withdrawn(c) \in [Messages -> Request]
           /\ \A m \in Messages : Withdrawn(c)[m].status = "pending" => Withdrawn(c)[m] = requests[m]
<1>1. requests \in [Messages -> Request]
  BY DEF TypeInv, PlayerTypeOK
<1>2. \A v \in Request : /\ [v EXCEPT !.status = "superseded"] \in Request
                        /\ [v EXCEPT !.status = "superseded"].status = "superseded"
  BY DEF Request
<1> QED
  BY <1>1, <1>2 DEF Withdrawn

LEMMA AskKeeps ==
    ASSUME TypeInv, RowInv, OneActive, NEW c \in Customers, NEW p \in Players, Ask(c, p)
    PROVE  ServerKeeps
<1>1. /\ rows \in [Assignments -> Row] /\ requests \in [Messages -> Request]
      /\ selected \in [Customers -> Selection] /\ sent \in 0..MaxMessages
      /\ UNCHANGED <<selected, account, calls, companion, faults>>
  BY DEF TypeInv, PlayerTypeOK, Ask
<1>2. sent' = sent + 1 /\ sent' \in Messages /\ sent' \in 0..MaxMessages
  BY <1>1, BoundsAssumption DEF Ask, Messages
<1> DEFINE new == [status |-> "pending", c |-> c, player |-> p, base |-> selected[c].origin]
<1>3. new \in Request /\ new.c \in Customers /\ new.player \in Players
  BY <1>1 DEF Selection, Request
<1>4. requests' = [Withdrawn(c) EXCEPT ![sent'] = new]
  BY DEF Ask
<1> HIDE DEF new
<1>5. /\ requests' \in [Messages -> Request]
      /\ \A m \in Messages : requests'[m].status = "pending" =>
            requests'[m] = new \/ requests'[m] = requests[m]
  BY <1>2, <1>3, <1>4, WithdrawnTypes
<1>6. ServerTypes
  BY <1>1, <1>2, <1>3, <1>5 DEF ServerTypes, TypeInv, PlayerTypeOK, ShapeInv
<1>7. /\ rows' \in [Assignments -> Row]
      /\ \A a \in Assignments :
            \/ rows'[a] = rows[a]
            \/ /\ rows[a].state \in {"claimed", "signed"}
               /\ rows'[a].state = "superseded"
               /\ rows'[a].over = rows[a].over /\ rows'[a].result = rows[a].result
  <2>1. \A v \in Row :
          /\ [v EXCEPT !.state = "superseded"] \in Row
          /\ [v EXCEPT !.state = "superseded"].state = "superseded"
          /\ [v EXCEPT !.state = "superseded"].over = v.over
          /\ [v EXCEPT !.state = "superseded"].result = v.result
    BY DEF Row
  <2>2. rows' = [a \in Assignments |->
            IF Active(a) /\ Pending(rows[a].of) /\ requests[rows[a].of].c = c
            THEN [rows[a] EXCEPT !.state = "superseded"] ELSE rows[a]]
    BY DEF Ask
  <2> QED
    BY <2>1, <2>2, <1>1 DEF Active
<1>8. RowsKept
  BY <1>7, StateRows
<1>9. TypeInv'
  BY <1>1, <1>6, <1>7, QuietKeepsTypes
<1> QED
  BY <1>8, <1>9 DEF ServerKeeps

LEMMA ReuseKeeps ==
    ASSUME TypeInv, RowInv, OneActive, NEW c \in Customers, NEW p \in Players, Reuse(c, p)
    PROVE  ServerKeeps
<1>1. /\ rows \in [Assignments -> Row] /\ selected \in [Customers -> Selection]
      /\ sent \in 0..MaxMessages /\ UNCHANGED <<account, rows, calls, companion, faults>>
  BY DEF TypeInv, PlayerTypeOK, Reuse
<1>2. sent' \in 0..MaxMessages
  BY <1>1, BoundsAssumption DEF Reuse
<1>3. [player |-> p, origin |-> sent'] \in Selection
  BY <1>2 DEF Selection
<1>4. selected' \in [Customers -> Selection]
  BY <1>1, <1>3 DEF Reuse
<1>5. ServerTypes
  BY <1>1, <1>2, <1>4, WithdrawnTypes DEF Reuse, ServerTypes, TypeInv, PlayerTypeOK, ShapeInv
<1> QED
  BY <1>1, <1>5, SameRows, QuietKeepsTypes DEF ServerKeeps

LEMMA DecideKeeps ==
    ASSUME TypeInv, RowInv, OneActive, NEW p \in Players, Decide(p)
    PROVE  ServerKeeps
<1>1. ServerTypes
  BY DEF Decide, ServerTypes, TypeInv, PlayerTypeOK, ShapeInv
<1>2. rows' \in [Assignments -> Row] /\ UNCHANGED rows
  BY DEF Decide, TypeInv, PlayerTypeOK
<1> QED
  BY <1>1, <1>2, SameRows, QuietKeepsTypes DEF ServerKeeps, Decide

-----------------------------------------------------------------------------
(* The companion. *)

\* Every step of the companion and of its faults, none of which touches a row.
Companion ==
    \/ CompanionStep \/ GiveUp \/ Crash
    \/ \E a \in Assignments : NotReady(a)

\* A call as the companion may change it.
Quiet(call) == /\ call.stage \in {"idle", "claim"} \/ (call.stage = "accept" /\ call.result \in Result)
               /\ call.reply = "none"

LEMMA CompanionKeepsTypes ==
    ASSUME TypeInv, UNCHANGED <<customer, rows>>,
           worker' \in Worker, disk' \in Disk, history' \in [Assignments -> Tried],
           faults' \in 0..MaxFaults, calls' \in [Handlers -> Call],
           \A h \in Handlers : calls'[h] = calls[h] \/ Quiet(calls'[h]),
           worker'.pc \in {"polling", "submitting"} => worker'.call \in Handlers,
           worker'.pc = "save" => worker'.a \in Assignments,
           worker'.pc \in {"mark", "find", "keep"} => disk'.assignment \in Assignments
    PROVE  TypeInv'
<1>1. PlayerTypeOK'
  BY DEF TypeInv, PlayerTypeOK, customer
<1>2. ShapeInv'
  BY DEF TypeInv, ShapeInv, customer, Quiet
<1> QED
  BY <1>1, <1>2 DEF TypeInv

\* Dropping one call, or starting one.
LEMMA CallTypes ==
    ASSUME TypeInv, NEW h \in Handlers
    PROVE  /\ [calls EXCEPT ![h] = NoCall] \in [Handlers -> Call]
           /\ \A k \in Handlers : LET c == [calls EXCEPT ![h] = NoCall][k] IN
                c = calls[k] \/ Quiet(c)
<1>1. calls \in [Handlers -> Call]
  BY DEF TypeInv, PlayerTypeOK
<1>2. NoCall \in Call /\ Quiet(NoCall)
  BY BoundsAssumption DEF NoCall, Opened, Call, Replies, Quiet
<1> QED
  BY <1>1, <1>2

LEMMA NetTypes ==
    ASSUME TypeInv, Poll \/ Assigned \/ Submitted \/ GiveUp \/ Start
    PROVE  TypeInv'
<1>1. /\ calls \in [Handlers -> Call] /\ worker \in Worker /\ disk \in Disk
      /\ history \in [Assignments -> Tried] /\ faults \in 0..MaxFaults
  BY DEF TypeInv, PlayerTypeOK
<1>2. /\ Idle \in Worker /\ Idle.pc = "idle"
      /\ [Idle EXCEPT !.pc = "clear"] \in Worker /\ [Idle EXCEPT !.pc = "clear"].pc = "clear"
  BY BoundsAssumption DEF Idle, Doing, Worker
<1>3. \A h \in Handlers : LET w == Doing("polling", "review_required", h) IN
        w \in Worker /\ w.pc = "polling" /\ w.call = h
  BY BoundsAssumption DEF Doing, Worker
<1>4. CASE Poll
  <2>1. PICK h \in Handlers :
          /\ calls' = [calls EXCEPT ![h] = Opened("claim", None)]
          /\ worker' = Doing("polling", "review_required", h)
    BY <1>4 DEF Poll
  <2> DEFINE new == Opened("claim", None)
  <2>2. new \in Call /\ Quiet(new)
    BY BoundsAssumption DEF NoCall, Opened, Call, Replies, Quiet
  <2>3. /\ calls' \in [Handlers -> Call]
        /\ \A k \in Handlers : calls'[k] = calls[k] \/ Quiet(calls'[k])
    BY <2>1, <2>2, <1>1
  <2>4. worker' \in Worker /\ worker'.pc = "polling" /\ worker'.call \in Handlers
    BY <2>1, <1>3
  <2>5. UNCHANGED <<customer, rows, disk, history, faults>>
    BY <1>4 DEF Poll
  <2> QED
    BY <2>3, <2>4, <2>5, <1>1, CompanionKeepsTypes
<1>5. CASE Assigned
  <2> DEFINE h == worker.call
  <2>1. h \in Handlers
    BY <1>5 DEF Assigned, TypeInv, ShapeInv
  <2>2. /\ calls' = [calls EXCEPT ![h] = NoCall]
        /\ UNCHANGED <<customer, rows, disk, history, faults>>
    BY <1>5 DEF Assigned
  <2>3. /\ worker' \in Worker
        /\ worker'.pc = "idle" \/ (worker'.pc = "save" /\ worker'.a \in Assignments)
    <3>1. CASE worker' = Idle
      BY <3>1, <1>2
    <3>2. CASE /\ calls[h].reply = "assignment"
               /\ worker' = [Idle EXCEPT !.pc = "save", !.a = calls[h].a]
      <4>1. calls[h].a \in Assignments /\ calls[h].a \in 0..MaxAssignments
        BY <3>2, <2>1 DEF TypeInv, ShapeInv, Assignments
      <4>2. \A a \in 0..MaxAssignments : LET w == [Idle EXCEPT !.pc = "save", !.a = a] IN
                w \in Worker /\ w.pc = "save" /\ w.a = a
        BY DEF Idle, Doing, Worker
      <4> QED
        BY <3>2, <4>1, <4>2
    <3> QED
      BY <3>1, <3>2, <1>5 DEF Assigned
  <2> QED
    BY <2>1, <2>2, <2>3, <1>1, CallTypes, CompanionKeepsTypes
<1>6. CASE Submitted
  <2> DEFINE h == worker.call
  <2>1. h \in Handlers
    BY <1>6 DEF Submitted, TypeInv, ShapeInv
  <2>2. /\ calls' = [calls EXCEPT ![h] = NoCall]
        /\ UNCHANGED <<customer, rows, disk, history, faults>>
    BY <1>6 DEF Submitted
  <2>3. worker' \in Worker /\ worker'.pc \in {"idle", "clear"}
    BY <1>6, <1>2 DEF Submitted
  <2> QED
    BY <2>1, <2>2, <2>3, <1>1, CallTypes, CompanionKeepsTypes
<1>7. CASE GiveUp
  <2> DEFINE h == worker.call
  <2>1. h \in Handlers
    BY <1>7 DEF GiveUp, TypeInv, ShapeInv
  <2>2. /\ UNCHANGED <<customer, rows, disk, history>> /\ worker' = Idle
        /\ faults' \in 0..MaxFaults
    BY <1>7, <1>1, BoundsAssumption DEF GiveUp
  <2>3. calls' = [calls EXCEPT ![h] = NoCall] \/ calls' = calls
    BY <1>7, <1>1, <2>1 DEF GiveUp
  <2> QED
    BY <2>1, <2>2, <2>3, <1>1, <1>2, CallTypes, CompanionKeepsTypes
<1>8. CASE Start
  <2>1. UNCHANGED <<customer, rows, calls, disk, history, faults>> /\ worker' = Idle
    BY <1>8 DEF Start
  <2> QED
    BY <2>1, <1>1, <1>2, CompanionKeepsTypes
<1> QED
  BY <1>4, <1>5, <1>6, <1>7, <1>8

LEMMA FileTypes ==
    ASSUME TypeInv, Save \/ Clear \/ \E a \in Assignments : FileStep(a) \/ NotReady(a)
    PROVE  TypeInv'
<1>1. /\ calls \in [Handlers -> Call] /\ worker \in Worker /\ disk \in Disk
      /\ history \in [Assignments -> Tried] /\ faults \in 0..MaxFaults
  BY DEF TypeInv, PlayerTypeOK
<1>2. Idle \in Worker /\ Idle.pc = "idle"
  BY BoundsAssumption DEF Idle, Doing, Worker
<1>3. \A pc \in {"mark", "find", "clear"} :
        To(pc) => worker' \in Worker /\ worker'.pc = pc
  BY <1>1 DEF To, Worker
<1>4. CASE Save
  <2>1. /\ UNCHANGED <<customer, rows, calls, history, faults>> /\ worker' = Idle
        /\ disk' = [disk EXCEPT !.assignment = worker.a] /\ worker.a \in Assignments
    BY <1>4 DEF Save, TypeInv, ShapeInv
  <2>2. disk' \in Disk
    BY <2>1, <1>1 DEF Disk
  <2> QED
    BY <2>1, <2>2, <1>1, <1>2, CompanionKeepsTypes
<1>5. CASE Clear
  <2>1. UNCHANGED <<customer, rows, calls, history, faults>> /\ worker' = Idle /\ disk' = Empty
    BY <1>5 DEF Clear
  <2>2. Empty \in Disk
    BY DEF Empty, Disk
  <2> QED
    BY <2>1, <2>2, <1>1, <1>2, CompanionKeepsTypes
<1>6. ASSUME NEW a \in Assignments, Resume(a) PROVE TypeInv'
  <2>1. /\ UNCHANGED <<customer, rows, calls, disk, history, faults>> /\ disk.assignment = a
        /\ To("mark") \/ worker' = [Idle EXCEPT !.pc = "keep"]
    BY <1>6 DEF Resume, Held
  <2>2. /\ [Idle EXCEPT !.pc = "keep"] \in Worker
        /\ [Idle EXCEPT !.pc = "keep"].pc = "keep"
    BY BoundsAssumption DEF Idle, Doing, Worker
  <2>3. worker' \in Worker /\ worker'.pc \in {"mark", "keep"}
    BY <2>1, <2>2, <1>3
  <2> QED
    BY <2>1, <2>3, <1>1, CompanionKeepsTypes
<1>7. ASSUME NEW a \in Assignments, Mark(a) PROVE TypeInv'
  <2>1. /\ UNCHANGED <<customer, rows, calls, history, faults>> /\ disk.assignment = a
        /\ To("find") /\ disk' = [disk EXCEPT !.started = a]
    BY <1>7 DEF Mark
  <2>2. disk' \in Disk /\ disk'.assignment = a
    BY <2>1, <1>1 DEF Disk
  <2> QED
    BY <2>1, <2>2, <1>1, <1>3, CompanionKeepsTypes
<1>8. ASSUME NEW a \in Assignments, NEW outcome \in {"found", "review_required"}, Find(a, outcome)
      PROVE  TypeInv'
  <2>1. /\ UNCHANGED <<customer, rows, calls, disk, faults>> /\ disk.assignment = a
        /\ worker' = Doing("keep", outcome, None)
    BY <1>8 DEF Find
  <2>2. worker' \in Worker /\ worker'.pc = "keep"
    BY <2>1, BoundsAssumption DEF Idle, Doing, Worker
  <2> DEFINE new == [finds |-> history[a].finds + 1, results |-> history[a].results,
                     found |-> history[a].found \/ outcome = "found"]
  <2>3. new \in Tried
    BY <1>1 DEF Tried
  <2>4. history' = [history EXCEPT ![a] = new]
    BY <1>8 DEF Find
  <2>5. history' \in [Assignments -> Tried]
    BY <2>3, <2>4, <1>1
  <2> QED
    BY <2>1, <2>2, <2>5, <1>1, CompanionKeepsTypes
<1>9. ASSUME NEW a \in Assignments, Keep(a) PROVE TypeInv'
  <2>1. UNCHANGED <<customer, rows, calls, faults>> /\ worker' = Idle
    BY <1>9 DEF Keep
  <2>2. disk' \in Disk /\ history' \in [Assignments -> Tried]
    <3>1. NewResult(a) \in Result
      BY <1>1 DEF NewResult, Result, Worker, Tried
    <3>2. [disk EXCEPT !.result = NewResult(a)] \in Disk
      BY <3>1, <1>1 DEF Disk
    <3>3. [history EXCEPT ![a].results = @ + 1] \in [Assignments -> Tried]
      BY <1>1 DEF Tried
    <3> QED
      BY <3>2, <3>3, <1>1, <1>9 DEF Keep
  <2> QED
    BY <2>1, <2>2, <1>1, <1>2, CompanionKeepsTypes
<1>10. ASSUME NEW a \in Assignments, Submit(a) PROVE TypeInv'
  <2>1. PICK h \in Handlers :
          /\ calls' = [calls EXCEPT ![h] = Opened("accept", disk.result)]
          /\ worker' = Doing("submitting", "review_required", h)
    BY <1>10 DEF Submit
  <2>2. UNCHANGED <<customer, rows, disk, history, faults>> /\ disk.result \in Result
    BY <1>10, <1>1 DEF Submit, Disk
  <2> DEFINE new == Opened("accept", disk.result)
  <2>3. new \in Call /\ Quiet(new)
    BY <2>2, BoundsAssumption DEF NoCall, Opened, Call, Replies, Quiet
  <2>4. /\ calls' \in [Handlers -> Call]
        /\ \A k \in Handlers : calls'[k] = calls[k] \/ Quiet(calls'[k])
    BY <2>1, <2>3, <1>1
  <2>5. worker' \in Worker /\ worker'.pc = "submitting" /\ worker'.call = h
    BY <2>1, BoundsAssumption DEF Idle, Doing, Worker
  <2> QED
    BY <2>2, <2>4, <2>5, <1>1, CompanionKeepsTypes
<1>11. ASSUME NEW a \in Assignments, Expire(a) PROVE TypeInv'
  <2>1. UNCHANGED <<customer, rows, calls, disk, history, faults>> /\ To("clear")
    BY <1>11 DEF Expire
  <2> QED
    BY <2>1, <1>1, <1>3, CompanionKeepsTypes
<1>12. ASSUME NEW a \in Assignments, NotReady(a) PROVE TypeInv'
  <2>1. /\ UNCHANGED <<customer, rows, calls, history>> /\ worker' = Idle
        /\ disk' = [disk EXCEPT !.started = None] /\ faults' \in 0..MaxFaults
    BY <1>12, <1>1, BoundsAssumption DEF NotReady
  <2>2. disk' \in Disk
    BY <2>1, <1>1 DEF Disk
  <2> QED
    BY <2>1, <2>2, <1>1, <1>2, CompanionKeepsTypes
<1> QED
  BY <1>4, <1>5, <1>6, <1>7, <1>8, <1>9, <1>10, <1>11, <1>12 DEF FileStep

\* What a crash leaves on disk.
LEMMA LeftBehindTypes ==
    ASSUME TypeInv, NEW d \in LeftBehind
    PROVE  /\ d \in Disk
           /\ \/ d.assignment = disk.assignment \/ d.assignment \in {None, Torn}
              \/ worker.pc = "save" /\ d.assignment = worker.a
           /\ d.started # disk.started => worker.pc \in {"mark", "clear"}
           /\ d.assignment # disk.assignment => worker.pc \in {"save", "clear"}
           /\ \/ d.result = disk.result \/ d.result \in {None, Torn}
              \/ /\ worker.pc = "keep" /\ disk.assignment \in Assignments
                 /\ d.result = NewResult(disk.assignment)
<1>1. disk \in Disk /\ worker \in Worker /\ history \in [Assignments -> Tried]
  BY DEF TypeInv, PlayerTypeOK
<1>2. \A x : Written(x) \subseteq {None, Torn, x}
  BY DEF Written
<1>3. CASE worker.pc = "save"
  <2>1. PICK x \in Written(worker.a) : d = [disk EXCEPT !.assignment = x]
    BY <1>3 DEF LeftBehind
  <2>2. worker.a \in Assignments
    BY <1>3 DEF TypeInv, ShapeInv
  <2> QED
    BY <2>1, <2>2, <1>1, <1>2, <1>3 DEF Disk
<1>4. CASE worker.pc = "mark"
  <2>1. PICK x \in Written(disk.assignment) : d = [disk EXCEPT !.started = x]
    BY <1>4 DEF LeftBehind
  <2>2. disk.assignment \in Assignments
    BY <1>4 DEF TypeInv, ShapeInv
  <2> QED
    BY <2>1, <2>2, <1>1, <1>2, <1>4 DEF Disk
<1>5. CASE worker.pc = "keep" /\ ~rows[disk.assignment].over
  <2>1. PICK x \in Written(NewResult(disk.assignment)) : d = [disk EXCEPT !.result = x]
    BY <1>5 DEF LeftBehind
  <2>2. disk.assignment \in Assignments
    BY <1>5 DEF TypeInv, ShapeInv
  <2>3. NewResult(disk.assignment) \in Result
    BY <2>2, <1>1 DEF NewResult, Result, Worker, Tried
  <2> QED
    BY <2>1, <2>2, <2>3, <1>1, <1>2, <1>5 DEF Disk
<1>6. CASE worker.pc = "clear"
  <2>1. d \in [assignment: {None, disk.assignment}, started: {None, disk.started},
               result: {None, disk.result}]
    BY <1>6 DEF LeftBehind
  <2> QED
    BY <2>1, <1>1, <1>6 DEF Disk
<1>7. CASE /\ worker.pc \notin {"save", "mark", "clear"}
           /\ ~(worker.pc = "keep" /\ ~rows[disk.assignment].over)
  <2>1. d = disk
    BY <1>7 DEF LeftBehind
  <2> QED
    BY <2>1, <1>1
<1> QED
  BY <1>3, <1>4, <1>5, <1>6, <1>7

LEMMA CrashTypes ==
    ASSUME TypeInv, Crash
    PROVE  TypeInv'
<1>1. /\ calls \in [Handlers -> Call] /\ history \in [Assignments -> Tried]
      /\ faults \in 0..MaxFaults
  BY DEF TypeInv, PlayerTypeOK
<1>2. Off \in Worker /\ Off.pc = "off"
  BY BoundsAssumption DEF Off, Doing, Worker
<1>3. disk' \in Disk
  BY LeftBehindTypes DEF Crash
<1>4. NoCall \in Call /\ Quiet(NoCall)
  BY BoundsAssumption DEF NoCall, Opened, Call, Replies, Quiet
<1>5. /\ calls' \in [Handlers -> Call]
      /\ \A h \in Handlers : calls'[h] = calls[h] \/ Quiet(calls'[h])
  BY <1>1, <1>4 DEF Crash
<1>6. history' \in [Assignments -> Tried]
  <2>1. CASE worker.pc = "keep"
    BY <2>1, <1>1 DEF Crash, TypeInv, ShapeInv, Tried
  <2>2. CASE worker.pc # "keep"
    BY <2>2, <1>1 DEF Crash
  <2> QED
    BY <2>1, <2>2
<1>7. UNCHANGED <<customer, rows>> /\ worker' = Off /\ faults' \in 0..MaxFaults
  BY <1>1, BoundsAssumption DEF Crash
<1> QED
  BY <1>2, <1>3, <1>5, <1>6, <1>7, CompanionKeepsTypes

LEMMA CompanionTypes == TypeInv /\ Companion => TypeInv' /\ UNCHANGED <<customer, rows>>
<1> SUFFICES ASSUME TypeInv, Companion PROVE TypeInv' /\ UNCHANGED <<customer, rows>>
  OBVIOUS
<1>1. TypeInv'
  BY NetTypes, FileTypes, CrashTypes DEF Companion, CompanionStep
<1>2. UNCHANGED <<customer, rows>>
  BY DEF Companion, CompanionStep, FileStep, Poll, Assigned, Save, Submitted, Clear, Start,
         Resume, Mark, Keep, Submit, Expire, Find, GiveUp, Crash, NotReady
<1> QED
  BY <1>1, <1>2

-----------------------------------------------------------------------------
(* The steps of the others, and what a handler does to a call. *)

Server ==
    \/ CustomerStep
    \/ \E h \in Handlers : HandlerStep(h) \/ SignFails(h) \/ Drop(h)
    \/ \E a \in Assignments : LapseLease(a) \/ Lapse(a)

LEMMA NextSplit == Next => Server \/ Companion
BY DEF Next, Server, Companion, FaultStep

LEMMA ServerStep ==
    ASSUME TypeInv, RowInv, OneActive, Server
    PROVE  ServerKeeps /\ UNCHANGED companion
<1>1. ServerKeeps
  BY ClaimKeeps, SignKeeps, CompleteKeeps, ReleaseKeeps, AcceptKeeps, ConfirmKeeps, LapseKeeps,
     AskKeeps, ReuseKeeps, DecideKeeps DEF Server, CustomerStep, HandlerStep
<1>2. UNCHANGED companion
  BY DEF Server, CustomerStep, HandlerStep, Ask, Reuse, Decide, Claim, Sign, SignFails, Complete,
         Release, Accept, Confirm, Drop, LapseLease, Lapse, companion
<1> QED
  BY <1>1, <1>2

\* An answer that ends an assignment is backed by the rows.
Backed(old, new) ==
    /\ new.reply = "accepted" =>
            old.stage = "accept" /\ rows'[old.result.of].result = old.result
    /\ new.reply = "superseded" =>
            old.stage = "confirm" /\ rows'[old.result.of].state = "superseded"

Moved(old, new) ==
    \/ new.stage = "idle"
    \/ new.stage = "answer" /\ Backed(old, new)
    \/ old.stage \in {"claim", "sign"} /\ new.stage \in {"sign", "complete", "release"}
    \/ old.stage = "accept" /\ new.stage = "confirm" /\ new.result = old.result

CallsAdvance ==
    \A h \in Handlers :
        \/ calls'[h] = calls[h]
        \/ Moved(calls[h], calls'[h]) /\ (worker.call = h => calls'[h].stage # "idle")

\* The answer of a handler, with what backs it.
LEMMA AnswerAdvances ==
    ASSUME TypeInv, NEW h \in Handlers, NEW reply \in Replies, NEW a, Answered(h, reply, a),
           reply = "accepted" =>
                calls[h].stage = "accept" /\ rows'[calls[h].result.of].result = calls[h].result,
           reply = "superseded" =>
                calls[h].stage = "confirm" /\ rows'[calls[h].result.of].state = "superseded"
    PROVE  CallsAdvance
<1> DEFINE new == IF worker.call = h
                  THEN [NoCall EXCEPT !.stage = "answer", !.a = a, !.reply = reply] ELSE NoCall
<1>1. /\ worker.call = h => new.stage = "answer" /\ new.reply = reply
      /\ worker.call # h => new.stage = "idle"
  BY DEF NoCall, Opened
<1>2. /\ calls'[h] = new
      /\ \A k \in Handlers : k # h => calls'[k] = calls[k]
  BY DEF Answered, TypeInv, PlayerTypeOK
<1> HIDE DEF new
<1> QED
  BY <1>1, <1>2 DEF CallsAdvance, Moved, Backed

LEMMA StageAdvances ==
    ASSUME TypeInv, NEW h \in Handlers, NEW a, NEW stage, At(h, stage, a),
           \/ calls[h].stage \in {"claim", "sign"} /\ stage \in {"sign", "complete", "release"}
           \/ calls[h].stage = "accept" /\ stage = "confirm"
    PROVE  CallsAdvance
<1> DEFINE new == [calls[h] EXCEPT !.stage = stage, !.a = a]
<1>1. calls \in [Handlers -> Call]
  BY DEF TypeInv, PlayerTypeOK
<1>2. new.stage = stage /\ new.result = calls[h].result /\ stage # "idle"
  BY <1>1 DEF Call
<1>3. /\ calls'[h] = new
      /\ \A k \in Handlers : k # h => calls'[k] = calls[k]
  BY <1>1 DEF At
<1> HIDE DEF new
<1> QED
  BY <1>2, <1>3 DEF CallsAdvance, Moved

LEMMA CallsStep ==
    ASSUME TypeInv, RowInv, OneActive, Server
    PROVE  CallsAdvance
<1>1. {"assignment", "accepted", "superseded", "unavailable"} \subseteq Replies
  BY DEF Replies
<1>2. CASE UNCHANGED calls
  BY <1>2 DEF CallsAdvance
<1>3. ASSUME NEW h \in Handlers, Claim(h) PROVE CallsAdvance
  <2>1. \/ \E a : Answered(h, "assignment", a) \/ Answered(h, "unavailable", a)
        \/ \E a : At(h, "sign", a)
    BY <1>3 DEF Claim, HandOut, LeaseOldest
  <2> QED
    BY <2>1, <1>1, <1>3, AnswerAdvances, StageAdvances DEF Claim
<1>4. ASSUME NEW h \in Handlers, Sign(h) \/ SignFails(h) PROVE CallsAdvance
  BY <1>4, StageAdvances DEF Sign, SignFails
<1>5. ASSUME NEW h \in Handlers, Complete(h) \/ Release(h) \/ Drop(h) PROVE CallsAdvance
  <2>1. \E a : Answered(h, "assignment", a) \/ Answered(h, "unavailable", a)
    BY <1>5 DEF Complete, Release, Drop
  <2> QED
    BY <2>1, <1>1, AnswerAdvances
<1>6. ASSUME NEW h \in Handlers, Accept(h) PROVE CallsAdvance
  <2> DEFINE r == calls[h].result
  <2>1. calls[h].stage = "accept" /\ r \in Result /\ r.of \in Assignments
    BY <1>6 DEF Accept, TypeInv, ShapeInv, Result
  <2>2. CASE rows[r.of].result = r /\ UNCHANGED rows
             /\ (Answered(h, "accepted", 0) \/ Answered(h, "unavailable", 0))
    BY <2>1, <2>2, <1>1, AnswerAdvances
  <2>3. CASE Record(r) /\ Answered(h, "accepted", 0)
    <3>1. rows \in [Assignments -> Row]
      BY DEF TypeInv, PlayerTypeOK
    <3> DEFINE a == r.of
               state == IF r.outcome = "found" THEN "completed" ELSE "review_required"
               new == [rows[a] EXCEPT !.result = r, !.state = state]
    <3>2. new.result = r
      BY <3>1, <2>1 DEF Row
    <3>3. rows' = [rows EXCEPT ![a] = new]
      BY <2>3 DEF Record
    <3> HIDE DEF new
    <3>4. rows'[a].result = r
      BY <3>1, <3>2, <3>3, <2>1
    <3> QED
      BY <2>1, <2>3, <3>4, <1>1, AnswerAdvances
  <2>4. CASE At(h, "confirm", 0)
    BY <2>1, <2>4, StageAdvances
  <2> QED
    BY <1>6, <2>2, <2>3, <2>4 DEF Accept
<1>7. ASSUME NEW h \in Handlers, Confirm(h) PROVE CallsAdvance
  <2>1. calls[h].stage = "confirm" /\ UNCHANGED rows
    BY <1>7 DEF Confirm
  <2>2. \/ Answered(h, "unavailable", 0)
        \/ rows[calls[h].result.of].state = "superseded" /\ Answered(h, "superseded", 0)
    BY <1>7 DEF Confirm
  <2> QED
    BY <2>1, <2>2, <1>1, AnswerAdvances
<1>8. ASSUME CustomerStep \/ \E a \in Assignments : LapseLease(a) \/ Lapse(a)
      PROVE  CallsAdvance
  BY <1>2, <1>8 DEF CustomerStep, Ask, Reuse, Decide, LapseLease, Lapse
<1> QED
  BY <1>3, <1>4, <1>5, <1>6, <1>7, <1>8 DEF Server, HandlerStep

-----------------------------------------------------------------------------

Base == TypeInv /\ RowInv /\ OneActive

LEMMA BaseStep == Base /\ [Next]_vars => Base'
<1> SUFFICES ASSUME Base, [Next]_vars PROVE Base'
  OBVIOUS
<1>1. CASE Server
  BY <1>1, ServerStep DEF Base, ServerKeeps, RowsKept
<1>2. CASE Companion
  BY <1>2, CompanionTypes, SameRows DEF Base, RowsKept
<1>3. CASE UNCHANGED vars
  <2>1. UNCHANGED <<customer, rows, calls, companion, faults>>
    BY <1>3 DEF vars, customer, companion
  <2>2. ServerTypes /\ rows' \in [Assignments -> Row]
    BY <2>1, CustomerTypesKept DEF Base, TypeInv, PlayerTypeOK
  <2> QED
    BY <2>1, <2>2, QuietKeepsTypes, SameRows DEF Base, RowsKept
<1> QED
  BY <1>1, <1>2, <1>3, NextSplit

\* Every variable keeps its type, whatever the interleaving, and no fault goes
\* beyond its bound.
THEOREM TypeCorrect == Spec => []PlayerTypeOK
<1>1. Init => Base
  BY InitTypes DEF Base
<1>2. Base => PlayerTypeOK
  BY DEF Base, TypeInv
<1> QED
  BY <1>1, <1>2, BaseStep, PTL DEF Spec

\* However handlers of earlier claims go on, fail or come late, no second
\* assignment is active: claim_telegram_player_validation_assignment looks for one
\* that is still current and closes every other before it issues the next.
THEOREM ActiveOnce == Spec => []OneActive
<1>1. Init => Base
  BY InitTypes DEF Base
<1>2. Base => OneActive
  BY DEF Base
<1> QED
  BY <1>1, <1>2, BaseStep, PTL DEF Spec

-----------------------------------------------------------------------------
(* One search per assignment, and the result kept until it is decided. *)

\* A searched assignment that is open is the one on disk, with its marker; the
\* marker is written only for one that was not searched.
FindInv ==
    /\ FindNotRepeated
    /\ \A a \in Assignments : history[a].finds > 0 =>
            \/ Closed(a) \/ rows[a].over
            \/ disk.assignment = a /\ disk.started = a
    /\ worker.pc \in {"polling", "save"} => disk.assignment = None
    /\ worker.pc \in {"mark", "find"} =>
            history[disk.assignment].finds = 0 \/ Closed(disk.assignment)
    /\ worker.pc = "find" => disk.started = disk.assignment

\* Nothing more can come of the assignment on disk.
Decided == \/ rows[disk.assignment].state = "superseded"
           \/ disk.result \in Result /\ rows[disk.assignment].result = disk.result

\* The call the companion waits for carries the result on disk, and an answer
\* that ends the assignment is true.
SubmitInv ==
    /\ worker.pc = "submitting" =>
        /\ disk.assignment \in Assignments
        /\ disk.result \in Result /\ disk.result.of = disk.assignment
        /\ calls[worker.call].stage \in {"accept", "confirm", "answer"}
        /\ calls[worker.call].stage # "answer" => calls[worker.call].result = disk.result
        /\ calls[worker.call].reply \in {"accepted", "superseded"} => Decided
    /\ worker.pc = "clear" =>
        disk.assignment \in Assignments /\ (rows[disk.assignment].over \/ Decided)

HandInv == FindInv /\ SubmitInv

LEMMA DecidedIsClosed ==
    ASSUME Base, disk.assignment \in Assignments, Decided
    PROVE  Closed(disk.assignment)
BY ResultAssumption DEF Base, RowInv, Decided, Closed

\* What is decided stays decided.
LEMMA DecidedStays ==
    ASSUME Base, RowsAdvance, UNCHANGED disk, disk.assignment \in Assignments, Decided
    PROVE  Decided'
BY ResultAssumption DEF RowsAdvance, Advance, Decided

LEMMA HandServer ==
    ASSUME Base, HandInv, Server
    PROVE  HandInv'
<1>1. /\ RowsAdvance /\ CallsAdvance /\ TypeInv'
      /\ worker' = worker /\ disk' = disk /\ history' = history
  BY ServerStep, CallsStep DEF Base, ServerKeeps, RowsKept, companion
<1>3. worker.pc \in {"mark", "find"} => disk.assignment \in Assignments
  BY DEF Base, TypeInv, ShapeInv
<1>4. FindInv'
  <2> DEFINE Ended(row) == row.state \in {"completed", "review_required", "superseded"}
  <2>1. \A a \in Assignments : Ended(rows[a]) => Ended(rows'[a])
    BY <1>1 DEF RowsAdvance, Advance
  <2>2. \A a \in Assignments : Closed(a) = Ended(rows[a]) /\ Closed(a)' = Ended(rows'[a])
    BY DEF Closed
  <2> HIDE DEF Ended
  <2>3. ASSUME NEW a \in Assignments, history'[a].finds > 1 PROVE Closed(a)'
    <3>1. Ended(rows[a])
      BY <1>1, <2>2, <2>3 DEF HandInv, FindInv, FindNotRepeated
    <3> QED
      BY <2>1, <2>2, <3>1
  <2>4. ASSUME NEW a \in Assignments, history'[a].finds > 0
        PROVE  Closed(a)' \/ rows'[a].over \/ (disk'.assignment = a /\ disk'.started = a)
    <3>1. CASE Closed(a)
      BY <2>1, <2>2, <3>1
    <3>2. CASE rows[a].over
      BY <1>1, <3>2 DEF RowsAdvance, Advance
    <3>3. CASE disk.assignment = a /\ disk.started = a
      BY <1>1, <3>3
    <3> QED
      BY <1>1, <2>4, <3>1, <3>2, <3>3 DEF HandInv, FindInv
  <2>5. ASSUME worker.pc \in {"mark", "find"}
        PROVE  history[disk.assignment].finds = 0 \/ Closed(disk.assignment)'
    <3>1. CASE history[disk.assignment].finds = 0
      BY <3>1
    <3>2. CASE Closed(disk.assignment)
      <4> DEFINE b == disk.assignment
      <4>1. rows[b].state \in {"completed", "review_required", "superseded"} /\ b \in Assignments
        BY <1>3, <2>5, <3>2 DEF Closed
      <4>2. rows'[b].state = rows[b].state
        BY <1>1, <4>1 DEF RowsAdvance, Advance
      <4> QED
        BY <1>1, <4>1, <4>2 DEF Closed
    <3> QED
      BY <2>5, <3>1, <3>2 DEF HandInv, FindInv
  <2> QED
    BY <1>1, <2>3, <2>4, <2>5 DEF HandInv, FindInv, FindNotRepeated
<1>5. ASSUME worker.pc = "clear"
      PROVE  disk.assignment \in Assignments /\ (rows'[disk.assignment].over \/ Decided')
  <2>1. disk.assignment \in Assignments /\ (rows[disk.assignment].over \/ Decided)
    BY <1>5 DEF HandInv, SubmitInv
  <2>2. CASE rows[disk.assignment].over
    BY <1>1, <2>1, <2>2 DEF RowsAdvance, Advance
  <2>3. CASE Decided
    BY <1>1, <2>1, <2>3, DecidedStays
  <2> QED
    BY <2>1, <2>2, <2>3
<1>6. ASSUME worker.pc = "submitting"
      PROVE  /\ calls'[worker.call].stage \in {"accept", "confirm", "answer"}
             /\ calls'[worker.call].stage # "answer" => calls'[worker.call].result = disk.result
             /\ calls'[worker.call].reply \in {"accepted", "superseded"} => Decided'
  <2> DEFINE h == worker.call
  <2>1. h \in Handlers
    BY <1>6 DEF Base, TypeInv, ShapeInv
  <2>2. CASE calls'[h] = calls[h]
    BY <1>1, <1>6, <2>2, DecidedStays DEF HandInv, SubmitInv
  <2>3. CASE Moved(calls[h], calls'[h]) /\ calls'[h].stage # "idle"
    <3>1. CASE calls'[h].stage = "answer" /\ Backed(calls[h], calls'[h])
      <4>1. ASSUME calls'[h].reply \in {"accepted", "superseded"} PROVE Decided'
        <5>1. calls[h].result = disk.result
          BY <1>6, <3>1, <4>1 DEF HandInv, SubmitInv, Backed
        <5>2. /\ disk.result.of = disk.assignment /\ disk.result \in Result
          BY <1>6 DEF HandInv, SubmitInv
        <5>3. \/ rows'[disk.assignment].result = disk.result
              \/ rows'[disk.assignment].state = "superseded"
          BY <3>1, <4>1, <5>1, <5>2 DEF Backed
        <5> QED
          BY <5>2, <5>3, <1>1 DEF Decided
      <4> QED
        BY <3>1, <4>1
    <3>2. CASE calls'[h].stage = "confirm" /\ calls'[h].result = calls[h].result
               /\ calls[h].stage = "accept"
      <4>1. calls'[h].reply = "none"
        BY <1>1, <2>1, <3>2 DEF TypeInv, ShapeInv
      <4> QED
        BY <1>6, <3>2, <4>1 DEF HandInv, SubmitInv
    <3>3. calls[h].stage \notin {"claim", "sign"}
      BY <1>6 DEF HandInv, SubmitInv
    <3> QED
      BY <2>3, <3>1, <3>2, <3>3 DEF Moved
  <2> QED
    BY <1>1, <2>1, <2>2, <2>3 DEF CallsAdvance
<1>7. SubmitInv'
  BY <1>1, <1>5, <1>6 DEF HandInv, SubmitInv
<1> QED
  BY <1>4, <1>7 DEF HandInv

\* A step that searches nothing, writes nothing to the disk and is not about to.
LEMMA FindQuiet ==
    ASSUME Base, HandInv, UNCHANGED <<rows, disk, history>>,
           worker'.pc \notin {"polling", "save", "mark", "find"}
    PROVE  FindInv'
BY DEF HandInv, FindInv, FindNotRepeated, Closed

LEMMA HandNet ==
    ASSUME Base, HandInv, Poll \/ Assigned \/ Submitted \/ GiveUp \/ Start
    PROVE  HandInv'
<1>1. UNCHANGED <<rows, disk, history>>
  BY DEF Poll, Assigned, Submitted, GiveUp, Start
<1>2. CASE Poll
  <2>1. worker'.pc = "polling" /\ disk.assignment = None
    BY <1>2 DEF Poll, Doing
  <2> QED
    BY <1>1, <2>1 DEF HandInv, FindInv, SubmitInv, FindNotRepeated, Closed
<1>3. CASE Assigned
  <2>1. worker'.pc \in {"idle", "save"} /\ worker.pc = "polling"
    BY <1>3 DEF Assigned, Idle, Doing
  <2> QED
    BY <1>1, <2>1 DEF HandInv, FindInv, SubmitInv, FindNotRepeated, Closed
<1>4. CASE Submitted
  <2>1. \/ worker'.pc = "idle"
        \/ worker'.pc = "clear" /\ calls[worker.call].reply \in {"accepted", "superseded"}
    BY <1>4 DEF Submitted, Idle, Doing
  <2>2. worker.pc = "submitting"
    BY <1>4 DEF Submitted
  <2>3. FindInv'
    BY <1>1, <2>1, FindQuiet
  <2>4. SubmitInv'
    BY <1>1, <2>1, <2>2 DEF HandInv, SubmitInv, Decided
  <2> QED
    BY <2>3, <2>4 DEF HandInv
<1>5. CASE GiveUp \/ Start
  <2>1. worker'.pc = "idle"
    BY <1>5 DEF GiveUp, Start, Idle, Doing
  <2> QED
    BY <1>1, <2>1, FindQuiet DEF HandInv, SubmitInv
<1> QED
  BY <1>2, <1>3, <1>4, <1>5

LEMMA HandFile ==
    ASSUME Base, HandInv, Save \/ Clear \/ \E a \in Assignments : FileStep(a) \/ NotReady(a)
    PROVE  HandInv'
<1>1. /\ disk \in Disk /\ history \in [Assignments -> Tried] /\ rows' = rows
      /\ worker \in Worker
  BY CompanionTypes DEF Base, TypeInv, PlayerTypeOK, Companion, CompanionStep
<1>2. Idle.pc = "idle" /\ Empty.assignment = None
  BY DEF Idle, Doing, Empty
<1>3. \A pc \in {"mark", "find", "clear"} : To(pc) => worker'.pc = pc
  BY <1>1 DEF To, Worker
<1>4. ASSUME worker'.pc = "idle" PROVE SubmitInv'
  BY <1>4 DEF SubmitInv
<1>5. CASE Save
  <2>1. \A a \in Assignments : history[a].finds > 0 => Closed(a) \/ rows[a].over
    BY <1>5, NullAssumption DEF Save, HandInv, FindInv, Assignments
  <2>2. worker'.pc = "idle" /\ history' = history
    BY <1>2, <1>5 DEF Save
  <2>3. FindInv'
    BY <1>1, <2>1, <2>2 DEF HandInv, FindInv, FindNotRepeated, Closed
  <2> QED
    BY <1>4, <2>2, <2>3 DEF HandInv
<1>6. CASE Clear
  <2>1. \A a \in Assignments : history[a].finds > 0 => Closed(a) \/ rows[a].over
    BY <1>6, DecidedIsClosed DEF Clear, HandInv, FindInv, SubmitInv
  <2>2. worker'.pc = "idle" /\ history' = history
    BY <1>2, <1>6 DEF Clear
  <2>3. FindInv'
    BY <1>1, <2>1, <2>2 DEF HandInv, FindInv, FindNotRepeated, Closed
  <2> QED
    BY <1>4, <2>2, <2>3 DEF HandInv
<1>7. ASSUME NEW a \in Assignments, Resume(a) PROVE HandInv'
  <2>1. /\ UNCHANGED <<disk, history>> /\ disk.assignment = a /\ ~rows[a].over
    BY <1>7 DEF Resume, Held
  <2>2. CASE disk.started = None /\ To("mark")
    <3>1. None # a
      BY NullAssumption DEF Assignments
    <3>2. history[a].finds \in Nat
      BY <1>1 DEF Tried
    <3>3. history[a].finds = 0 \/ Closed(a)
      BY <2>1, <2>2, <3>1, <3>2 DEF HandInv, FindInv
    <3>4. worker'.pc = "mark"
      BY <1>3, <2>2
    <3> QED
      BY <1>1, <2>1, <3>3, <3>4 DEF HandInv, FindInv, SubmitInv, FindNotRepeated, Closed
  <2>3. CASE worker' = [Idle EXCEPT !.pc = "keep"]
    <3>1. worker'.pc = "keep"
      BY <2>3 DEF Idle, Doing
    <3> QED
      BY <1>1, <2>1, <3>1, FindQuiet DEF HandInv, SubmitInv
  <2> QED
    BY <1>7, <2>2, <2>3 DEF Resume
<1>8. ASSUME NEW a \in Assignments, Mark(a) PROVE HandInv'
  <2>1. /\ history' = history /\ disk.assignment = a /\ worker.pc = "mark"
        /\ worker'.pc = "find"
    BY <1>3, <1>8 DEF Mark
  <2>2. disk'.assignment = a /\ disk'.started = a
    BY <1>1, <1>8 DEF Mark, Disk
  <2> QED
    BY <1>1, <2>1, <2>2 DEF HandInv, FindInv, SubmitInv, FindNotRepeated, Closed
<1>9. ASSUME NEW a \in Assignments, NEW outcome \in {"found", "review_required"}, Find(a, outcome)
      PROVE  HandInv'
  <2>1. /\ disk' = disk /\ disk.assignment = a /\ worker.pc = "find" /\ worker'.pc = "keep"
    BY <1>9 DEF Find, Doing
  <2>2. /\ history'[a].finds = history[a].finds + 1
        /\ \A b \in Assignments : b # a => history'[b] = history[b]
    BY <1>1, <1>9 DEF Find
  <2>3. history[a].finds = 0 \/ Closed(a)
    BY <2>1 DEF HandInv, FindInv
  <2>4. disk.started = a
    BY <2>1 DEF HandInv, FindInv
  <2>5. history[a].finds \in Nat
    BY <1>1 DEF Tried
  <2>6. FindNotRepeated'
    BY <1>1, <2>2, <2>3, <2>5 DEF HandInv, FindInv, FindNotRepeated, Closed
  <2>7. \A b \in Assignments : history'[b].finds > 0 =>
            Closed(b)' \/ rows'[b].over \/ (disk'.assignment = b /\ disk'.started = b)
    BY <1>1, <2>1, <2>2, <2>4 DEF HandInv, FindInv, Closed
  <2> QED
    BY <2>1, <2>6, <2>7 DEF HandInv, FindInv, SubmitInv
<1>10. ASSUME NEW a \in Assignments, Keep(a) PROVE HandInv'
  <2>1. /\ worker'.pc = "idle"
        /\ disk'.assignment = disk.assignment /\ disk'.started = disk.started
    BY <1>1, <1>2, <1>10 DEF Keep, Disk
  <2>2. \A b \in Assignments : history'[b].finds = history[b].finds
    BY <1>1, <1>10 DEF Keep, Tried
  <2>3. FindInv'
    BY <1>1, <2>1, <2>2 DEF HandInv, FindInv, FindNotRepeated, Closed
  <2> QED
    BY <1>4, <2>1, <2>3 DEF HandInv
<1>11. ASSUME NEW a \in Assignments, Submit(a) PROVE HandInv'
  <2>1. PICK h \in Handlers :
          /\ calls' = [calls EXCEPT ![h] = Opened("accept", disk.result)]
          /\ worker' = Doing("submitting", "review_required", h)
    BY <1>11 DEF Submit
  <2>2. /\ UNCHANGED <<disk, history>> /\ disk.assignment = a
        /\ disk.result \in Result /\ disk.result.of = a
    BY <1>1, <1>11 DEF Submit, Held, Disk
  <2>3. /\ worker'.pc = "submitting" /\ worker'.call = h
        /\ calls'[h].stage = "accept" /\ calls'[h].result = disk.result /\ calls'[h].reply = "none"
    BY <2>1 DEF Doing, Opened, Base, TypeInv, PlayerTypeOK
  <2>4. FindInv'
    BY <1>1, <2>2, <2>3, FindQuiet
  <2>5. SubmitInv'
    BY <2>2, <2>3 DEF SubmitInv
  <2> QED
    BY <2>4, <2>5 DEF HandInv
<1>12. ASSUME NEW a \in Assignments, Expire(a) PROVE HandInv'
  <2>1. /\ UNCHANGED <<disk, history>> /\ worker'.pc = "clear"
        /\ disk.assignment = a /\ rows[a].over
    BY <1>3, <1>12 DEF Expire
  <2> QED
    BY <1>1, <2>1, FindQuiet DEF HandInv, SubmitInv
<1>13. ASSUME NEW a \in Assignments, NotReady(a) PROVE HandInv'
  <2>1. /\ history' = history /\ worker'.pc = "idle" /\ disk.assignment = a /\ worker.pc = "find"
        /\ disk'.assignment = a
    BY <1>1, <1>2, <1>13 DEF NotReady, Disk
  <2>2. FindInv'
    BY <1>1, <2>1 DEF HandInv, FindInv, FindNotRepeated, Closed
  <2> QED
    BY <1>4, <2>1, <2>2 DEF HandInv
<1> QED
  BY <1>5, <1>6, <1>7, <1>8, <1>9, <1>10, <1>11, <1>12, <1>13 DEF FileStep

LEMMA HandCrash ==
    ASSUME Base, HandInv, Crash
    PROVE  HandInv'
<1>1. /\ history \in [Assignments -> Tried] /\ rows' = rows
      /\ worker.pc = "keep" => disk.assignment \in Assignments
  BY DEF Crash, Base, TypeInv, PlayerTypeOK, ShapeInv
<1>2. worker'.pc = "off"
  BY DEF Crash, Off, Doing
<1>3. /\ disk'.started # disk.started => worker.pc \in {"mark", "clear"}
      /\ disk'.assignment # disk.assignment => worker.pc \in {"save", "clear"}
  BY LeftBehindTypes DEF Crash, Base
<1>4. \A a \in Assignments : history'[a].finds = history[a].finds
  BY <1>1 DEF Crash, Tried
<1>5. FindNotRepeated'
  BY <1>1, <1>4 DEF HandInv, FindInv, FindNotRepeated, Closed
<1>6. ASSUME NEW a \in Assignments, history[a].finds > 0, ~Closed(a), ~rows[a].over
      PROVE  disk'.assignment = a /\ disk'.started = a
  <2>1. disk.assignment = a /\ disk.started = a
    BY <1>6 DEF HandInv, FindInv
  <2>2. a # None /\ history[a].finds # 0
    BY <1>6, NullAssumption DEF Assignments
  <2>3. worker.pc \notin {"save", "mark"}
    BY <1>6, <2>1, <2>2 DEF HandInv, FindInv
  <2>4. worker.pc # "clear"
    BY <1>6, <2>1, DecidedIsClosed DEF HandInv, SubmitInv
  <2> QED
    BY <1>3, <2>1, <2>3, <2>4
<1>7. FindInv'
  BY <1>1, <1>2, <1>4, <1>5, <1>6 DEF FindInv, Closed
<1> QED
  BY <1>2, <1>7 DEF HandInv, SubmitInv

LEMMA HandInit == Init => HandInv
<1> SUFFICES ASSUME Init PROVE HandInv
  OBVIOUS
<1>1. worker.pc = "idle"
  BY DEF Init, Idle, Doing
<1>2. \A a \in Assignments : history[a].finds = 0
  BY DEF Init
<1> QED
  BY <1>1, <1>2 DEF HandInv, FindInv, SubmitInv, FindNotRepeated

LEMMA HandStep == Base /\ HandInv /\ [Next]_vars => HandInv'
<1> SUFFICES ASSUME Base, HandInv, [Next]_vars PROVE HandInv'
  OBVIOUS
<1>1. CASE Server
  BY <1>1, HandServer
<1>2. CASE Companion
  BY <1>2, HandNet, HandFile, HandCrash DEF Companion, CompanionStep
<1>3. CASE UNCHANGED vars
  BY <1>3 DEF vars, HandInv, FindInv, SubmitInv, FindNotRepeated, Closed, Decided
<1> QED
  BY <1>1, <1>2, <1>3, NextSplit

\* Whatever crashes, answers are lost or windows are not ready, the companion
\* searches a second time only for an assignment that is closed: the marker is
\* written before the search and removed only when nothing was searched.
THEOREM FindOnce == Spec => []FindNotRepeated
<1>1. Init => Base /\ HandInv
  BY InitTypes, HandInit DEF Base
<1>2. HandInv => FindNotRepeated
  BY DEF HandInv, FindInv
<1> QED
  BY <1>1, <1>2, BaseStep, HandStep, PTL DEF Spec

\* The companion removes the result it holds only for an assignment that is over,
\* withdrawn, or decided by exactly this result, also when calls it gave up on
\* still run.
THEOREM ResultKept == Spec => []ResultKeptUntilDecided
<1>1. Init => Base /\ HandInv
  BY InitTypes, HandInit DEF Base
<1>2. HandInv => ResultKeptUntilDecided
  BY DEF HandInv, SubmitInv, Decided, ResultKeptUntilDecided, Held
<1> QED
  BY <1>1, <1>2, BaseStep, HandStep, PTL DEF Spec

-----------------------------------------------------------------------------
(* A player called found was returned by a search. *)

Seen(r) == r.outcome = "found" => history[r.of].found

\* Every result, wherever it is on its way, was seen.
SeenInv ==
    /\ \A a \in Assignments : rows[a].result # None => Seen(rows[a].result)
    /\ \A h \in Handlers : calls[h].stage \in {"accept", "confirm"} => Seen(calls[h].result)
    /\ disk.result \in Result => Seen(disk.result)
    /\ worker.pc = "keep" /\ worker.outcome = "found" => history[disk.assignment].found

LEMMA SeenServer ==
    ASSUME Base, SeenInv, Server
    PROVE  SeenInv'
<1>1. /\ Submission /\ CallsAdvance
      /\ worker' = worker /\ disk' = disk /\ history' = history
  BY ServerStep, CallsStep DEF Base, ServerKeeps, RowsKept, companion
<1>2. \A a \in Assignments : rows'[a].result # None => Seen(rows'[a].result)
  BY <1>1 DEF SeenInv, Submission
<1>3. \A h \in Handlers : calls'[h].stage \in {"accept", "confirm"} => Seen(calls'[h].result)
  BY <1>1 DEF SeenInv, CallsAdvance, Moved
<1> QED
  BY <1>1, <1>2, <1>3 DEF SeenInv, Seen

\* The companion never forgets that a search found the player.
LEMMA HistoryGrows ==
    ASSUME Base, Companion
    PROVE  \A a \in Assignments : history[a].found => history'[a].found
<1>1. history \in [Assignments -> Tried] /\ (worker.pc = "keep" => disk.assignment \in Assignments)
  BY DEF Base, TypeInv, PlayerTypeOK, ShapeInv
<1>2. CASE history' = history
  BY <1>2
<1>3. ASSUME NEW a \in Assignments, NEW outcome, Find(a, outcome)
      PROVE  \A b \in Assignments : history[b].found => history'[b].found
  BY <1>1, <1>3 DEF Find
<1>4. ASSUME NEW a \in Assignments, history' = [history EXCEPT ![a].results = @ + 1]
      PROVE  \A b \in Assignments : history[b].found => history'[b].found
  BY <1>1, <1>4 DEF Tried
<1> QED
  BY <1>1, <1>2, <1>3, <1>4 DEF Companion, CompanionStep, FileStep, Poll, Assigned, Save, Submitted,
     Clear, Start, Resume, Mark, Keep, Submit, Expire, GiveUp, Crash, NotReady

LEMMA NewResultSeen ==
    ASSUME Base, SeenInv, worker.pc = "keep"
    PROVE  Seen(NewResult(disk.assignment))
BY DEF SeenInv, Seen, NewResult

LEMMA SeenCompanion ==
    ASSUME Base, SeenInv, Companion
    PROVE  SeenInv'
<1>1. /\ disk \in Disk /\ calls \in [Handlers -> Call] /\ worker \in Worker
      /\ history \in [Assignments -> Tried] /\ rows \in [Assignments -> Row]
      /\ rows' = rows /\ TypeInv'
  BY CompanionTypes DEF Base, TypeInv, PlayerTypeOK
<1>2. \A r \in Result : Seen(r) => (r.outcome = "found" => history'[r.of].found)
  BY HistoryGrows DEF Seen, Result
<1>3. ASSUME NEW a \in Assignments, rows'[a].result # None
      PROVE  Seen(rows[a].result)'
  <2>1. rows[a].result \in Result /\ Seen(rows[a].result)
    BY <1>1, <1>3 DEF SeenInv, Row
  <2> QED
    BY <1>1, <1>2, <2>1 DEF Seen
<1>4. /\ \/ disk'.result = disk.result \/ disk'.result \in {None, Torn}
         \/ worker.pc = "keep" /\ disk'.result = NewResult(disk.assignment)
      /\ worker'.pc = "keep" /\ worker'.outcome = "found" => history'[disk'.assignment].found
      /\ \A h \in Handlers :
            \/ calls'[h] = calls[h]
            \/ calls'[h].stage \in {"idle", "claim"}
            \/ disk.result \in Result /\ calls'[h].result = disk.result
  <2> DEFINE Goal ==
        /\ \/ disk'.result = disk.result \/ disk'.result \in {None, Torn}
           \/ worker.pc = "keep" /\ disk'.result = NewResult(disk.assignment)
        /\ worker'.pc = "keep" /\ worker'.outcome = "found" => history'[disk'.assignment].found
        /\ \A h \in Handlers :
              \/ calls'[h] = calls[h]
              \/ calls'[h].stage \in {"idle", "claim"}
              \/ disk.result \in Result /\ calls'[h].result = disk.result
  <2>1. /\ Idle.pc = "idle" /\ NoCall.stage = "idle" /\ Empty.result = None
        /\ [Idle EXCEPT !.pc = "keep"].outcome = "review_required"
    BY DEF Idle, Doing, NoCall, Opened, Empty
  <2>2. \A pc \in {"mark", "find", "clear"} : To(pc) => worker'.pc = pc
    BY <1>1 DEF To, Worker
  <2>3. CASE Poll
    <3>1. worker'.pc = "polling" /\ disk' = disk
      BY <2>3 DEF Poll, Doing
    <3>2. \A h \in Handlers : calls'[h] = calls[h] \/ calls'[h].stage = "claim"
      BY <2>3, <1>1 DEF Poll, Opened
    <3> QED
      BY <3>1, <3>2
  <2>4. CASE Assigned \/ Submitted
    <3>1. worker'.pc \in {"idle", "save", "clear"} /\ disk' = disk
      <4>1. CASE Assigned
        BY <4>1 DEF Assigned, Idle, Doing
      <4>2. CASE Submitted
        BY <4>2 DEF Submitted, Idle, Doing
      <4> QED
        BY <2>4, <4>1, <4>2
    <3>2. \A h \in Handlers : calls'[h] = calls[h] \/ calls'[h] = NoCall
      BY <2>4, <1>1 DEF Assigned, Submitted
    <3> QED
      BY <2>1, <3>1, <3>2
  <2>5. CASE GiveUp
    <3>1. worker' = Idle /\ disk' = disk
      BY <2>5 DEF GiveUp
    <3>2. \A h \in Handlers : calls'[h] = calls[h] \/ calls'[h] = NoCall
      BY <2>5, <1>1 DEF GiveUp
    <3> QED
      BY <2>1, <3>1, <3>2
  <2>6. CASE Start \/ Save \/ Clear
    BY <2>1, <2>6, <1>1 DEF Start, Save, Clear, Disk
  <2>7. ASSUME NEW a \in Assignments, Resume(a) \/ Mark(a) \/ Expire(a) \/ NotReady(a)
        PROVE  Goal
    <3>1. calls' = calls /\ disk'.result = disk.result
      BY <2>7, <1>1 DEF Resume, Mark, Expire, NotReady, Disk
    <3>2. worker'.pc = "keep" => worker'.outcome = "review_required"
      BY <2>1, <2>2, <2>7 DEF Resume, Mark, Expire, NotReady
    <3> QED
      BY <3>1, <3>2
  <2>8. ASSUME NEW a \in Assignments, NEW outcome \in {"found", "review_required"}, Find(a, outcome)
        PROVE  Goal
    <3>1. calls' = calls /\ disk' = disk /\ disk.assignment = a /\ worker'.outcome = outcome
      BY <2>8 DEF Find, Doing
    <3>2. outcome = "found" => history'[a].found
      BY <2>8, <1>1 DEF Find
    <3> QED
      BY <3>1, <3>2
  <2>9. ASSUME NEW a \in Assignments, Keep(a) PROVE Goal
    <3>1. calls' = calls /\ worker' = Idle /\ worker.pc = "keep" /\ disk.assignment = a
      BY <2>9 DEF Keep
    <3>2. disk'.result = disk.result \/ disk'.result = NewResult(a)
      BY <2>9, <1>1 DEF Keep, Disk
    <3> QED
      BY <2>1, <3>1, <3>2
  <2>10. ASSUME NEW a \in Assignments, Submit(a) PROVE Goal
    <3>1. worker'.pc = "submitting" /\ disk' = disk /\ disk.result \in Result
      BY <2>10, <1>1 DEF Submit, Doing, Disk
    <3>2. \A h \in Handlers : calls'[h] = calls[h] \/ calls'[h].result = disk.result
      BY <2>10, <1>1 DEF Submit, Opened
    <3> QED
      BY <3>1, <3>2
  <2>11. CASE Crash
    <3>1. worker'.pc = "off"
      BY <2>11 DEF Crash, Off, Doing
    <3>2. \/ disk'.result = disk.result \/ disk'.result \in {None, Torn}
          \/ worker.pc = "keep" /\ disk'.result = NewResult(disk.assignment)
      BY <2>11, LeftBehindTypes DEF Crash, Base
    <3>3. \A h \in Handlers : calls'[h] = calls[h] \/ calls'[h] = NoCall
      BY <2>11 DEF Crash
    <3> QED
      BY <2>1, <3>1, <3>2, <3>3
  <2> QED
    BY <2>3, <2>4, <2>5, <2>6, <2>7, <2>8, <2>9, <2>10, <2>11
    DEF Companion, CompanionStep, FileStep
<1>5. disk'.result \in Result => Seen(disk.result)'
  <2>1. CASE disk'.result = disk.result
    BY <1>2, <2>1 DEF SeenInv, Seen
  <2>2. CASE worker.pc = "keep" /\ disk'.result = NewResult(disk.assignment)
    <3>1. Seen(disk'.result)
      BY <2>2, NewResultSeen
    <3> QED
      BY <1>2, <3>1 DEF Seen
  <2> QED
    BY <1>4, <2>1, <2>2, ResultAssumption
<1>6. ASSUME NEW h \in Handlers, calls'[h].stage \in {"accept", "confirm"}
      PROVE  Seen(calls[h].result)'
  <2>1. calls'[h].result \in Result
    BY <1>1, <1>6 DEF TypeInv, ShapeInv
  <2>2. calls'[h] = calls[h] \/ (disk.result \in Result /\ calls'[h].result = disk.result)
    BY <1>4, <1>6
  <2>3. Seen(calls'[h].result)
    BY <1>6, <2>2 DEF SeenInv
  <2> QED
    BY <1>2, <2>1, <2>3 DEF Seen
<1> QED
  BY <1>3, <1>4, <1>5, <1>6 DEF SeenInv

LEMMA SeenInit == Init => SeenInv
BY ResultAssumption DEF Init, SeenInv, NoRow, NoCall, Opened, Empty, Idle, Doing

LEMMA SeenStep == Base /\ SeenInv /\ [Next]_vars => SeenInv'
<1> SUFFICES ASSUME Base, SeenInv, [Next]_vars PROVE SeenInv'
  OBVIOUS
<1>1. CASE UNCHANGED vars
  BY <1>1 DEF vars, SeenInv, Seen
<1> QED
  BY <1>1, NextSplit, SeenServer, SeenCompanion

\* The database calls a player found only if the companion's search for this very
\* assignment returned the player, whichever call brought the result.
THEOREM FoundSeen == Spec => []FoundWasSeen
<1>1. Init => Base /\ SeenInv
  BY InitTypes, SeenInit DEF Base
<1>2. Base /\ SeenInv => FoundWasSeen
  BY DEF Base, RowInv, SeenInv, Seen, FoundWasSeen
<1> QED
  BY <1>1, <1>2, BaseStep, SeenStep, PTL DEF Spec

-----------------------------------------------------------------------------
(* A signed assignment is kept, and every assignment is for one message. *)

\* A signed assignment ends with its result, its time, or its request.
SignedLeaves(a) ==
    rows[a].state = "signed" /\ rows'[a].state # "signed" =>
        \/ rows'[a].result # None
        \/ rows[a].over
        \/ ~Pending(rows[a].of)' /\ rows'[a].state = "superseded"

\* An assignment once issued stays issued, for the same message; a new one is
\* for a pending message.
StaysFor(a) ==
    /\ rows[a].state # "none" => rows'[a].state # "none" /\ rows'[a].of = rows[a].of
    /\ rows[a].state = "none" /\ rows'[a].state # "none" => Pending(rows'[a].of)

RowsStay == \A a \in Assignments : SignedLeaves(a) /\ StaysFor(a)

LEMMA RowFields ==
    ASSUME NEW v \in Row
    PROVE  /\ \A x : /\ [v EXCEPT !.state = x].state = x
                     /\ [v EXCEPT !.state = x].of = v.of
                     /\ [v EXCEPT !.lapsed = x].state = v.state
                     /\ [v EXCEPT !.lapsed = x].of = v.of
                     /\ [v EXCEPT !.over = x].state = v.state
                     /\ [v EXCEPT !.over = x].of = v.of
           /\ \A x, r : /\ [v EXCEPT !.result = r, !.state = x].state = x
                        /\ [v EXCEPT !.result = r, !.state = x].of = v.of
                        /\ [v EXCEPT !.result = r, !.state = x].result = r
BY DEF Row

LEMMA SameRowsStay ==
    ASSUME rows' = rows
    PROVE  RowsStay
BY DEF RowsStay, SignedLeaves, StaysFor

\* A claim that finds nothing current closes what is active, and its lease is of
\* a number never issued.
LEMMA ClaimStays ==
    ASSUME Base, NEW h \in Handlers, Claim(h)
    PROVE  RowsStay
<1>1. rows \in [Assignments -> Row] /\ requests' = requests
  BY DEF Base, TypeInv, PlayerTypeOK, Claim, customer
<1>2. ASSUME NEW b \in Assignments, rows' = [rows EXCEPT ![b].lapsed = FALSE] PROVE RowsStay
  <2>1. \A a \in Assignments : rows'[a].state = rows[a].state /\ rows'[a].of = rows[a].of
    BY <1>1, <1>2, RowFields
  <2> QED
    BY <2>1 DEF RowsStay, SignedLeaves, StaysFor
<1>3. ASSUME LeaseOldest(h), \A a \in Assignments : ~Current(a) PROVE RowsStay
  <2>1. ASSUME NEW a \in Assignments
        PROVE  /\ Settled[a].of = rows[a].of
               /\ rows[a].state # "none" => Settled[a].state # "none"
               /\ rows[a].state = "none" => Settled[a].state = "none"
               /\ rows[a].state = "signed" =>
                    rows[a].over \/ (~Pending(rows[a].of) /\ Settled[a].state = "superseded")
    <3>1. Settled[a] = IF Active(a)
            THEN [rows[a] EXCEPT !.state = IF Pending(rows[a].of) THEN "expired" ELSE "superseded"]
            ELSE rows[a]
      BY DEF Settled
    <3>2. rows[a] \in Row
      BY <1>1
    <3>3. CASE Active(a)
      <4>1. PICK x \in {"expired", "superseded"} :
              /\ Settled[a] = [rows[a] EXCEPT !.state = x]
              /\ ~Pending(rows[a].of) => x = "superseded"
        BY <3>1, <3>3
      <4>2. Settled[a].state = x /\ Settled[a].of = rows[a].of
        BY <3>2, <4>1, RowFields
      <4>3. rows[a].over \/ ~Pending(rows[a].of)
        BY <1>3, <3>3 DEF Current
      <4> QED
        BY <3>3, <4>1, <4>2, <4>3 DEF Active
    <3>4. CASE ~Active(a)
      BY <3>1, <3>4 DEF Active
    <3> QED
      BY <3>3, <3>4
  <2>2. CASE rows' = Settled
    BY <1>1, <2>1, <2>2 DEF RowsStay, SignedLeaves, StaysFor, Pending
  <2>3. ASSUME NEW m \in Messages, NEW b \in Assignments, Oldest(m), NextFree(b),
               rows' = [Settled EXCEPT ![b] = Claimed(m)]
        PROVE  RowsStay
    <3>1. Settled \in [Assignments -> Row]
      BY SettledRows DEF Base
    <3>2. rows'[b] = Claimed(m) /\ \A a \in Assignments \ {b} : rows'[a] = Settled[a]
      BY <2>3, <3>1
    <3>3. Claimed(m).state = "claimed" /\ Claimed(m).of = m
      BY DEF Claimed
    <3>4. rows[b].state = "none" /\ Pending(m)
      BY <2>3 DEF NextFree, Oldest
    <3>5. SignedLeaves(b) /\ StaysFor(b)
      BY <3>2, <3>3, <3>4 DEF SignedLeaves, StaysFor
    <3>6. \A a \in Assignments \ {b} : SignedLeaves(a) /\ StaysFor(a)
      BY <1>1, <2>1, <3>2 DEF SignedLeaves, StaysFor, Pending
    <3> QED
      BY <3>5, <3>6 DEF RowsStay
  <2> QED
    BY <1>3, <2>2, <2>3 DEF LeaseOldest
<1>4. CASE rows' = rows
  BY <1>4, SameRowsStay
<1> QED
  BY <1>2, <1>3, <1>4 DEF Claim, HandOut

\* The signature, the release, the clock.
LEMMA HandlingStays ==
    ASSUME Base,
           \/ \E h \in Handlers : Complete(h) \/ Release(h)
           \/ \E a \in Assignments : LapseLease(a) \/ Lapse(a)
    PROVE  RowsStay
<1>1. rows \in [Assignments -> Row]
  BY DEF Base, TypeInv, PlayerTypeOK
<1>2. CASE rows' = rows
  BY <1>2, SameRowsStay
<1>3. ASSUME NEW a \in Assignments, NEW x \in {"signed", "expired"}, rows[a].state = "claimed",
             rows' = [rows EXCEPT ![a].state = x]
      PROVE  RowsStay
  <2>1. /\ rows'[a].state = x /\ rows'[a].of = rows[a].of
        /\ \A b \in Assignments \ {a} : rows'[b] = rows[b]
    BY <1>1, <1>3, RowFields
  <2> QED
    BY <1>3, <2>1 DEF RowsStay, SignedLeaves, StaysFor
<1>4. ASSUME NEW a \in Assignments,
             \/ rows' = [rows EXCEPT ![a].lapsed = TRUE]
             \/ rows' = [rows EXCEPT ![a].over = TRUE]
      PROVE  RowsStay
  <2>1. \A b \in Assignments : rows'[b].state = rows[b].state /\ rows'[b].of = rows[b].of
    <3>1. CASE rows' = [rows EXCEPT ![a].lapsed = TRUE]
      BY <1>1, <3>1, RowFields
    <3>2. CASE rows' = [rows EXCEPT ![a].over = TRUE]
      BY <1>1, <3>2, RowFields
    <3> QED
      BY <1>4, <3>1, <3>2
  <2> QED
    BY <2>1 DEF RowsStay, SignedLeaves, StaysFor
<1>5. ASSUME NEW h \in Handlers, Complete(h) PROVE RowsStay
  <2>1. PICK a \in Assignments : a = calls[h].a
    BY <1>5 DEF Complete, Base, TypeInv, ShapeInv
  <2> QED
    BY <1>2, <1>3, <1>5, <2>1 DEF Complete
<1>6. ASSUME NEW h \in Handlers, Release(h) PROVE RowsStay
  <2>1. PICK a \in Assignments : a = calls[h].a
    BY <1>6 DEF Release, Base, TypeInv, ShapeInv
  <2>2. rows' = [rows EXCEPT ![a].state = IF rows[a].state = "claimed" THEN "expired"
                                          ELSE rows[a].state]
    BY <1>6, <2>1 DEF Release
  <2>3. CASE rows[a].state = "claimed"
    BY <1>3, <2>2, <2>3
  <2>4. CASE rows[a].state # "claimed"
    <3>1. rows' = rows
      BY <1>1, <2>2, <2>4 DEF Row
    <3> QED
      BY <1>2, <3>1
  <2> QED
    BY <2>3, <2>4
<1>7. ASSUME NEW a \in Assignments, LapseLease(a) \/ Lapse(a) PROVE RowsStay
  BY <1>4, <1>7 DEF LapseLease, Lapse
<1> QED
  BY <1>5, <1>6, <1>7

\* Messages are handled in order, a customer has one request pending, and every
\* assignment is for a message that was handled.
RequestInv ==
    /\ \A m \in Messages : m > sent => requests[m].status = "none"
    /\ \A m, k \in Messages : Pending(m) /\ Pending(k) /\ Customer(m) = Customer(k) => m = k
    /\ \A a \in Assignments : rows[a].state # "none" => rows[a].of \in Messages /\ rows[a].of <= sent

\* A request keeps its customer and its player, and is not pending twice.
SameWish(m) ==
    /\ requests'[m].c = requests[m].c /\ requests'[m].player = requests[m].player
    /\ requests'[m].status = "pending" => requests[m].status = "pending"
    /\ requests'[m].status = "none" <=> requests[m].status = "none"

LEMMA WithdrawnFields ==
    ASSUME Base, NEW c \in Customers, NEW m \in Messages
    PROVE  /\ Withdrawn(c)[m].c = requests[m].c /\ Withdrawn(c)[m].player = requests[m].player
           /\ Withdrawn(c)[m].status = "pending" <=>
                requests[m].status = "pending" /\ requests[m].c # c
           /\ Withdrawn(c)[m].status = "none" <=> requests[m].status = "none"
<1>1. requests[m] \in Request
  BY DEF Base, TypeInv, PlayerTypeOK
<1>2. \A v \in Request : /\ [v EXCEPT !.status = "superseded"].c = v.c
                        /\ [v EXCEPT !.status = "superseded"].player = v.player
                        /\ [v EXCEPT !.status = "superseded"].status = "superseded"
  BY DEF Request
<1>3. Withdrawn(c)[m] = IF requests[m].status = "pending" /\ requests[m].c = c
                        THEN [requests[m] EXCEPT !.status = "superseded"] ELSE requests[m]
  BY DEF Withdrawn
<1>4. CASE requests[m].status = "pending" /\ requests[m].c = c
  BY <1>1, <1>2, <1>3, <1>4
<1>5. CASE ~(requests[m].status = "pending" /\ requests[m].c = c)
  BY <1>3, <1>5
<1> QED
  BY <1>4, <1>5

\* The new message is pending, the customer's earlier one is not any more.
LEMMA AskRequests ==
    ASSUME Base, NEW c \in Customers, NEW p \in Players, Ask(c, p)
    PROVE  /\ sent \in Nat /\ sent' = sent + 1 /\ sent' \in Messages
           /\ requests'[sent'].status = "pending" /\ requests'[sent'].c = c
           /\ requests'[sent'].player = p
           /\ \A m \in Messages \ {sent'} :
                /\ SameWish(m)
                /\ Pending(m)' <=> Pending(m) /\ Customer(m) # c
<1>1. sent \in Nat /\ sent' = sent + 1 /\ sent' \in Messages
  BY BoundsAssumption DEF Base, TypeInv, PlayerTypeOK, Ask, Messages
<1> DEFINE new == [status |-> "pending", c |-> c, player |-> p, base |-> selected[c].origin]
<1>2. new.status = "pending" /\ new.c = c /\ new.player = p
  OBVIOUS
<1>3. requests' = [Withdrawn(c) EXCEPT ![sent'] = new]
  BY DEF Ask
<1> HIDE DEF new
<1>4. Withdrawn(c) \in [Messages -> Request]
  BY WithdrawnTypes DEF Base
<1>5. requests'[sent'] = new /\ \A m \in Messages \ {sent'} : requests'[m] = Withdrawn(c)[m]
  BY <1>1, <1>3, <1>4
<1>6. ASSUME NEW m \in Messages \ {sent'}
      PROVE  SameWish(m) /\ (Pending(m)' <=> Pending(m) /\ Customer(m) # c)
  BY <1>5, WithdrawnFields DEF SameWish, Pending, Customer
<1> QED
  BY <1>1, <1>2, <1>5, <1>6

LEMMA ReuseRequests ==
    ASSUME Base, NEW c \in Customers, NEW p \in Players, Reuse(c, p)
    PROVE  /\ sent \in Nat /\ sent' = sent + 1
           /\ \A m \in Messages :
                /\ SameWish(m)
                /\ Pending(m)' <=> Pending(m) /\ Customer(m) # c
<1>1. sent \in Nat /\ sent' = sent + 1
  BY DEF Base, TypeInv, PlayerTypeOK, Reuse
<1>2. requests' = Withdrawn(c)
  BY DEF Reuse
<1>3. ASSUME NEW m \in Messages
      PROVE  SameWish(m) /\ (Pending(m)' <=> Pending(m) /\ Customer(m) # c)
  BY <1>2, WithdrawnFields DEF SameWish, Pending, Customer
<1> QED
  BY <1>1, <1>3

LEMMA RecordRequests ==
    ASSUME Base, NEW r \in Result, Acceptable(r), Record(r), NEW m, m = rows[r.of].of
    PROVE  /\ m \in Messages /\ Pending(m) /\ ~Pending(m)'
           /\ \A k \in Messages : SameWish(k) /\ (k # m => requests'[k] = requests[k])
<1>1. requests \in [Messages -> Request]
  BY DEF Base, TypeInv, PlayerTypeOK
<1>2. m \in Messages /\ Pending(m) /\ requests[m].status = "pending"
  BY DEF Acceptable, Pending
<1>3. PICK x \in {"validated", "review_required"} : x = Verdict(r)
  BY DEF Verdict
<1>4. requests' = [requests EXCEPT ![m].status = x]
  BY <1>3 DEF Record
<1>5. \A v \in Request : /\ [v EXCEPT !.status = x].c = v.c
                        /\ [v EXCEPT !.status = x].player = v.player
                        /\ [v EXCEPT !.status = x].status = x
  BY DEF Request
<1>6. /\ requests'[m] = [requests[m] EXCEPT !.status = x]
      /\ \A k \in Messages : k # m => requests'[k] = requests[k]
  BY <1>1, <1>2, <1>4
<1>7. requests'[m].c = requests[m].c /\ requests'[m].player = requests[m].player
      /\ requests'[m].status = x
  BY <1>1, <1>2, <1>5, <1>6
<1>8. SameWish(m) /\ ~Pending(m)'
  BY <1>2, <1>7 DEF SameWish, Pending
<1>9. \A k \in Messages : k # m => SameWish(k)
  BY <1>6 DEF SameWish
<1> QED
  BY <1>2, <1>6, <1>8, <1>9

LEMMA AskStays ==
    ASSUME Base, RequestInv, NEW c \in Customers, NEW p \in Players, Ask(c, p)
    PROVE  RowsStay
<1>1. rows \in [Assignments -> Row]
  BY DEF Base, TypeInv, PlayerTypeOK
<1>2. ASSUME NEW a \in Assignments PROVE SignedLeaves(a) /\ StaysFor(a)
  <2>1. rows'[a] = IF Active(a) /\ Pending(rows[a].of) /\ requests[rows[a].of].c = c
                   THEN [rows[a] EXCEPT !.state = "superseded"] ELSE rows[a]
    BY DEF Ask
  <2>2. CASE rows'[a] = rows[a]
    BY <2>2 DEF SignedLeaves, StaysFor
  <2>3. CASE Active(a) /\ Pending(rows[a].of) /\ requests[rows[a].of].c = c
    <3>1. rows'[a].state = "superseded" /\ rows'[a].of = rows[a].of
      BY <1>1, <2>1, <2>3, RowFields
    <3>2. PICK m \in Messages : m = rows[a].of
      BY <2>3 DEF Pending
    <3>3. m <= sent /\ rows[a].state # "none"
      BY <2>3, <3>2 DEF RequestInv, Active
    <3>4. m # sent'
      <4>1. sent \in Nat /\ sent' = sent + 1
        BY AskRequests
      <4> QED
        BY <3>3, <4>1 DEF Messages
    <3>5. ~Pending(m)'
      BY <2>3, <3>2, <3>4, AskRequests DEF Customer
    <3>6. rows[a].of = m
      BY <3>2
    <3>7. ~Pending(rows[a].of)'
      BY <3>1, <3>5, <3>6 DEF Pending
    <3> QED
      BY <3>1, <3>3, <3>7 DEF SignedLeaves, StaysFor
  <2> QED
    BY <2>1, <2>2, <2>3
<1> QED
  BY <1>2 DEF RowsStay

LEMMA AcceptStays ==
    ASSUME Base, NEW h \in Handlers, Accept(h)
    PROVE  RowsStay
<1>1. CASE rows' = rows
  BY <1>1, SameRowsStay
<1>2. ASSUME NEW r, r = calls[h].result, Record(r), Acceptable(r) PROVE RowsStay
  <2>1. r \in Result /\ r.of \in Assignments /\ r # None
    BY <1>2, ResultAssumption DEF Accept, Base, TypeInv, ShapeInv, Result
  <2> DEFINE x == IF r.outcome = "found" THEN "completed" ELSE "review_required"
  <2>2. rows' = [rows EXCEPT ![r.of] = [@ EXCEPT !.result = r, !.state = x]]
    BY <1>2 DEF Record
  <2>3. x # "none"
    OBVIOUS
  <2> HIDE DEF x
  <2>4. PICK a \in Assignments : a = r.of
    BY <2>1
  <2>5. rows \in [Assignments -> Row]
    BY DEF Base, TypeInv, PlayerTypeOK
  <2>6. /\ rows'[a] = [rows[a] EXCEPT !.result = r, !.state = x]
        /\ \A b \in Assignments \ {a} : rows'[b] = rows[b]
    BY <2>2, <2>4, <2>5
  <2>7. rows'[a].result = r /\ rows'[a].state = x /\ rows'[a].of = rows[a].of
    BY <2>5, <2>6, RowFields
  <2>8. rows[a].state = "signed"
    BY <1>2, <2>4 DEF Acceptable
  <2> QED
    BY <2>1, <2>3, <2>6, <2>7, <2>8 DEF RowsStay, SignedLeaves, StaysFor
<1> QED
  BY <1>1, <1>2 DEF Accept

LEMMA StepStays ==
    ASSUME Base, RequestInv, [Next]_vars
    PROVE  RowsStay
<1>1. CASE rows' = rows
  BY <1>1, SameRowsStay
<1>2. CASE Companion \/ UNCHANGED vars
  BY <1>1, <1>2, CompanionTypes DEF Base, vars
<1>3. ASSUME NEW h \in Handlers, HandlerStep(h) \/ SignFails(h) \/ Drop(h) PROVE RowsStay
  <2>1. Sign(h) \/ SignFails(h) \/ Confirm(h) \/ Drop(h) => rows' = rows
    BY DEF Sign, SignFails, Confirm, Drop
  <2> QED
    BY <1>1, <1>3, <2>1, ClaimStays, HandlingStays, AcceptStays DEF HandlerStep
<1>4. CASE CustomerStep
  <2>1. \A c \in Customers, p \in Players : Reuse(c, p) => rows' = rows
    BY DEF Reuse
  <2>2. \A p \in Players : Decide(p) => rows' = rows
    BY DEF Decide
  <2> QED
    BY <1>1, <1>4, <2>1, <2>2, AskStays DEF CustomerStep
<1>5. CASE \E a \in Assignments : LapseLease(a) \/ Lapse(a)
  BY <1>5, HandlingStays
<1> QED
  BY <1>2, <1>3, <1>4, <1>5, NextSplit DEF Server

LEMMA SameWishes ==
    ASSUME UNCHANGED requests, NEW m
    PROVE  SameWish(m)
BY DEF SameWish

\* What a step does to the requests that were made before it.
WishesStay == /\ sent \in Nat /\ sent' \in Nat /\ sent <= sent'
              /\ \A m \in Messages : m <= sent \/ m > sent' => SameWish(m)

LEMMA StepWishes ==
    ASSUME Base, [Next]_vars
    PROVE  WishesStay
<1>1. sent \in Nat
  BY DEF Base, TypeInv, PlayerTypeOK
<1>2. CASE UNCHANGED <<requests, sent>>
  BY <1>1, <1>2, SameWishes DEF WishesStay
<1>3. CASE Companion \/ UNCHANGED vars
  BY <1>2, <1>3, CompanionTypes DEF Base, vars, customer
<1>4. ASSUME NEW c \in Customers, NEW p \in Players, Ask(c, p) PROVE WishesStay
  BY <1>4, AskRequests DEF WishesStay, Messages
<1>5. ASSUME NEW c \in Customers, NEW p \in Players, Reuse(c, p) PROVE WishesStay
  BY <1>5, ReuseRequests DEF WishesStay, Messages
<1>6. ASSUME NEW p \in Players, Decide(p) PROVE WishesStay
  BY <1>2, <1>6 DEF Decide
<1>7. ASSUME NEW h \in Handlers, Accept(h) PROVE WishesStay
  <2>1. CASE UNCHANGED requests
    BY <1>2, <1>7, <2>1 DEF Accept
  <2>2. ASSUME NEW r, r = calls[h].result, Acceptable(r), Record(r) PROVE WishesStay
    <3>1. r \in Result
      BY <1>7, <2>2 DEF Accept, Base, TypeInv, ShapeInv
    <3>2. \A k \in Messages : SameWish(k)
      BY <2>2, <3>1, RecordRequests
    <3>3. sent' = sent
      BY <1>7 DEF Accept
    <3> QED
      BY <1>1, <3>2, <3>3 DEF WishesStay
  <2> QED
    BY <1>7, <2>1, <2>2 DEF Accept
<1>8. ASSUME NEW h \in Handlers,
             \/ Claim(h) \/ Sign(h) \/ SignFails(h) \/ Complete(h) \/ Release(h)
             \/ Confirm(h) \/ Drop(h)
      PROVE  WishesStay
  BY <1>2, <1>8 DEF Claim, Sign, SignFails, Complete, Release, Confirm, Drop, customer
<1>9. ASSUME NEW a \in Assignments, LapseLease(a) \/ Lapse(a) PROVE WishesStay
  BY <1>2, <1>9 DEF LapseLease, Lapse, customer
<1> QED
  BY <1>3, <1>4, <1>5, <1>6, <1>7, <1>8, <1>9, NextSplit DEF Server, CustomerStep, HandlerStep

\* A customer's new message withdraws the request that was pending.
LEMMA OnePending ==
    ASSUME Base, RequestInv, [Next]_vars
    PROVE  \A m, k \in Messages : Pending(m)' /\ Pending(k)' /\ Customer(m)' = Customer(k)' => m = k
<1> SUFFICES ASSUME NEW m \in Messages, NEW k \in Messages, Pending(m)', Pending(k)',
                    Customer(m)' = Customer(k)'
             PROVE  m = k
  OBVIOUS
<1>1. \A n \in Messages : SameWish(n) => (Pending(n)' => Pending(n)) /\ Customer(n)' = Customer(n)
  BY DEF SameWish, Pending, Customer
<1>2. CASE \A n \in Messages : SameWish(n)
  BY <1>1, <1>2 DEF RequestInv
<1>3. ASSUME NEW c \in Customers, NEW p \in Players, Ask(c, p) PROVE m = k
  <2>1. PICK new \in Messages : new = sent'
    BY <1>3, AskRequests
  <2>2. requests'[new].c = c
    BY <1>3, <2>1, AskRequests
  <2>3. \A n \in Messages \ {new} : SameWish(n) /\ (Pending(n)' => Customer(n) # c)
    BY <1>3, <2>1, AskRequests
  <2>4. Customer(new)' = c
    BY <2>2 DEF Customer
  <2> QED
    BY <1>1, <2>3, <2>4 DEF RequestInv
<1>4. CASE ~\E c \in Customers, p \in Players : Ask(c, p)
  <2>1. CASE UNCHANGED requests
    BY <1>2, <2>1, SameWishes
  <2>2. ASSUME NEW c \in Customers, NEW p \in Players, Reuse(c, p) PROVE m = k
    BY <1>2, <2>2, ReuseRequests
  <2>3. ASSUME NEW h \in Handlers, Accept(h) PROVE m = k
    <3>1. ASSUME NEW r, r = calls[h].result, Acceptable(r), Record(r) PROVE m = k
      <4>1. r \in Result
        BY <2>3, <3>1 DEF Accept, Base, TypeInv, ShapeInv
      <4> QED
        BY <1>2, <3>1, <4>1, RecordRequests
    <3> QED
      BY <2>1, <2>3, <3>1 DEF Accept
  <2>4. \/ UNCHANGED requests
        \/ \E c \in Customers, p \in Players : Ask(c, p) \/ Reuse(c, p)
        \/ \E h \in Handlers : Accept(h)
    BY CompanionTypes, NextSplit
    DEF Server, CustomerStep, HandlerStep, Base, vars, customer, Decide, Claim, Sign, SignFails,
        Complete, Release, Confirm, Drop, LapseLease, Lapse
  <2> QED
    BY <1>4, <2>1, <2>2, <2>3, <2>4
<1> QED
  BY <1>3, <1>4

LEMMA RequestStep == Base /\ RequestInv /\ [Next]_vars => RequestInv'
<1> SUFFICES ASSUME Base, RequestInv, [Next]_vars PROVE RequestInv'
  OBVIOUS
<1>1. WishesStay /\ RowsStay
  BY StepWishes, StepStays
<1>2. ASSUME NEW m \in Messages, m > sent' PROVE requests'[m].status = "none"
  BY <1>1, <1>2 DEF WishesStay, SameWish, RequestInv, Messages
<1>3. \A m, k \in Messages : Pending(m)' /\ Pending(k)' /\ Customer(m)' = Customer(k)' => m = k
  BY OnePending
<1>4. ASSUME NEW a \in Assignments, rows'[a].state # "none"
      PROVE  rows'[a].of \in Messages /\ rows'[a].of <= sent'
  <2>1. CASE rows[a].state # "none"
    BY <1>1, <1>4, <2>1 DEF RowsStay, StaysFor, RequestInv, WishesStay, Messages
  <2>2. CASE rows[a].state = "none"
    <3>1. PICK m \in Messages : m = rows'[a].of /\ requests[m].status = "pending"
      BY <1>1, <1>4, <2>2 DEF RowsStay, StaysFor, Pending
    <3>2. m <= sent
      BY <1>1, <3>1 DEF RequestInv, WishesStay, Messages
    <3> QED
      BY <1>1, <3>1, <3>2 DEF WishesStay, Messages
  <2> QED
    BY <2>1, <2>2
<1> QED
  BY <1>2, <1>3, <1>4 DEF RequestInv

LEMMA RequestInit == Init => RequestInv
BY DEF Init, RequestInv, NoRequest, NoRow, Pending

\* A signed assignment may be in the companion's hands: it ends with its result, with
\* its five minutes or with its request, and no handler that failed or came late
\* takes it back.
THEOREM SignedStays == Spec => SignedIsKept
<1>1. Init => Base /\ RequestInv
  BY InitTypes, RequestInit DEF Base
<1>2. Base /\ RequestInv /\ [Next]_vars =>
        [\A a \in Assignments : rows[a].state = "signed" /\ rows'[a].state # "signed" =>
            \/ rows'[a].result # None
            \/ rows[a].over
            \/ ~Pending(rows[a].of)' /\ rows'[a].state = "superseded"]_vars
  <2> SUFFICES ASSUME Base, RequestInv, [Next]_vars, NEW a \in Assignments,
                      rows[a].state = "signed", rows'[a].state # "signed"
               PROVE  \/ rows'[a].result # None
                      \/ rows[a].over
                      \/ ~Pending(rows[a].of)' /\ rows'[a].state = "superseded"
    OBVIOUS
  <2>1. SignedLeaves(a)
    BY StepStays DEF RowsStay
  <2> QED
    BY <2>1 DEF SignedLeaves
<1> QED
  BY <1>1, <1>2, BaseStep, RequestStep, PTL DEF Spec, SignedIsKept

-----------------------------------------------------------------------------
(* The database keeps the promise of VerifiedChoice. *)

\* What the bridge hands out was issued.
CallIssued(h) ==
    calls[h].stage \in {"sign", "complete", "release"} \/ calls[h].reply = "assignment" =>
        calls[h].a \in Assignments /\ rows[calls[h].a].state # "none"

\* An assignment that reached the companion was issued, and a player it found is shown.
IssuedInv ==
    /\ \A h \in Handlers : CallIssued(h)
    /\ worker.pc = "save" => rows[worker.a].state # "none"
    /\ disk.assignment \in Assignments => rows[disk.assignment].state # "none"
    /\ \A a \in Assignments : history[a].found =>
            rows[a].state # "none" /\ Player(rows[a].of) \in Shown

LEMMA CallStays ==
    ASSUME Base, IssuedInv, RowsStay, NEW h \in Handlers, calls'[h] = calls[h]
    PROVE  CallIssued(h)'
BY DEF IssuedInv, CallIssued, RowsStay, StaysFor

LEMMA AnswerIssued ==
    ASSUME Base, IssuedInv, RowsStay, NEW h \in Handlers, NEW reply \in Replies, NEW a,
           Answered(h, reply, a),
           reply = "assignment" => a \in Assignments /\ rows[a].state # "none"
    PROVE  \A k \in Handlers : CallIssued(k)'
<1> DEFINE new == IF worker.call = h
                  THEN [NoCall EXCEPT !.stage = "answer", !.a = a, !.reply = reply] ELSE NoCall
<1>1. /\ new.stage \in {"idle", "answer"}
      /\ new.reply = "assignment" => new.a \in Assignments /\ rows'[new.a].state # "none"
  BY DEF NoCall, Opened, RowsStay, StaysFor
<1>2. /\ calls'[h] = new
      /\ \A k \in Handlers : k # h => calls'[k] = calls[k]
  BY DEF Answered, Base, TypeInv, PlayerTypeOK
<1> HIDE DEF new
<1>3. CallIssued(h)'
  BY <1>1, <1>2 DEF CallIssued
<1> QED
  BY <1>2, <1>3, CallStays

LEMMA StageIssued ==
    ASSUME Base, IssuedInv, RowsStay, NEW h \in Handlers, NEW a, NEW stage, At(h, stage, a),
           calls[h].stage # "answer",
           stage \in {"sign", "complete", "release"} =>
                a \in Assignments /\ rows'[a].state # "none"
    PROVE  \A k \in Handlers : CallIssued(k)'
<1> DEFINE new == [calls[h] EXCEPT !.stage = stage, !.a = a]
<1>1. calls \in [Handlers -> Call]
  BY DEF Base, TypeInv, PlayerTypeOK
<1>2. new.stage = stage /\ new.a = a /\ new.reply = calls[h].reply
  BY <1>1 DEF Call
<1>3. calls[h].reply = "none"
  BY DEF Base, TypeInv, ShapeInv
<1>4. /\ calls'[h] = new
      /\ \A k \in Handlers : k # h => calls'[k] = calls[k]
  BY <1>1 DEF At
<1> HIDE DEF new
<1>5. CallIssued(h)'
  BY <1>2, <1>3, <1>4 DEF CallIssued
<1> QED
  BY <1>4, <1>5, CallStays

LEMMA ClaimIssues ==
    ASSUME Base, IssuedInv, RowsStay, NEW h \in Handlers, Claim(h)
    PROVE  \A k \in Handlers : CallIssued(k)'
<1>1. {"assignment", "unavailable"} \subseteq Replies
  BY DEF Replies
<1>2. ASSUME NEW a, Answered(h, "unavailable", a) PROVE \A k \in Handlers : CallIssued(k)'
  BY <1>1, <1>2, AnswerIssued
<1>3. ASSUME NEW a \in Assignments, HandOut(h, a) PROVE \A k \in Handlers : CallIssued(k)'
  <2>1. CASE rows[a].state = "signed" /\ Answered(h, "assignment", a)
    BY <1>1, <2>1, AnswerIssued
  <2>2. CASE rows[a].state = "claimed" /\ At(h, "sign", a)
    <3>1. rows'[a].state # "none"
      BY <2>2 DEF RowsStay, StaysFor
    <3> QED
      BY <2>2, <3>1, StageIssued DEF Claim
  <2> QED
    BY <1>2, <1>3, <2>1, <2>2 DEF HandOut
<1>4. ASSUME NEW m \in Messages, NEW a \in Assignments, rows' = [Settled EXCEPT ![a] = Claimed(m)],
             At(h, "sign", a)
      PROVE  \A k \in Handlers : CallIssued(k)'
  <2>1. rows'[a] = Claimed(m)
    BY <1>4, SettledRows DEF Base
  <2>2. rows'[a].state # "none"
    BY <2>1 DEF Claimed
  <2> QED
    BY <1>4, <2>2, StageIssued DEF Claim
<1> QED
  BY <1>2, <1>3, <1>4 DEF Claim, LeaseOldest

LEMMA CallsIssued ==
    ASSUME Base, IssuedInv, RowsStay, Server
    PROVE  \A k \in Handlers : CallIssued(k)'
<1>1. {"assignment", "accepted", "superseded", "unavailable"} \subseteq Replies
  BY DEF Replies
<1>2. CASE UNCHANGED calls
  BY <1>2, CallStays
<1>3. ASSUME NEW h \in Handlers, NEW reply \in Replies \ {"assignment"}, NEW a,
             Answered(h, reply, a)
      PROVE  \A k \in Handlers : CallIssued(k)'
  BY <1>3, AnswerIssued
<1>4. ASSUME NEW h \in Handlers, Sign(h) \/ SignFails(h) PROVE \A k \in Handlers : CallIssued(k)'
  <2>1. PICK a \in Assignments : a = calls[h].a /\ rows[a].state # "none"
    BY <1>4 DEF Sign, SignFails, IssuedInv, CallIssued
  <2>2. rows'[a].state # "none"
    BY <2>1 DEF RowsStay, StaysFor
  <2> QED
    BY <1>4, <2>1, <2>2, StageIssued DEF Sign, SignFails
<1>5. ASSUME NEW h \in Handlers, Complete(h) PROVE \A k \in Handlers : CallIssued(k)'
  <2>1. PICK a \in Assignments : a = calls[h].a /\ rows[a].state # "none"
    BY <1>5 DEF Complete, IssuedInv, CallIssued
  <2>2. CASE Answered(h, "assignment", a)
    BY <1>1, <2>1, <2>2, AnswerIssued
  <2> QED
    BY <1>1, <1>3, <1>5, <2>1, <2>2 DEF Complete
<1>6. ASSUME NEW h \in Handlers, Release(h) \/ Drop(h) PROVE \A k \in Handlers : CallIssued(k)'
  BY <1>1, <1>3, <1>6 DEF Release, Drop
<1>7. ASSUME NEW h \in Handlers, Accept(h) PROVE \A k \in Handlers : CallIssued(k)'
  <2>1. CASE At(h, "confirm", 0)
    BY <1>7, <2>1, StageIssued DEF Accept
  <2>2. Answered(h, "accepted", 0) \/ Answered(h, "unavailable", 0) \/ At(h, "confirm", 0)
    BY <1>7 DEF Accept
  <2> QED
    BY <1>1, <1>3, <2>1, <2>2
<1>8. ASSUME NEW h \in Handlers, Confirm(h) PROVE \A k \in Handlers : CallIssued(k)'
  <2>1. Answered(h, "superseded", 0) \/ Answered(h, "unavailable", 0)
    BY <1>8 DEF Confirm
  <2> QED
    BY <1>1, <1>3, <2>1
<1>9. ASSUME CustomerStep \/ \E a \in Assignments : LapseLease(a) \/ Lapse(a)
      PROVE  \A k \in Handlers : CallIssued(k)'
  BY <1>2, <1>9 DEF CustomerStep, Ask, Reuse, Decide, LapseLease, Lapse
<1> QED
  BY <1>4, <1>5, <1>6, <1>7, <1>8, <1>9, ClaimIssues DEF Server, HandlerStep

LEMMA PlayerStays ==
    ASSUME Base, RequestInv, WishesStay, RowsStay, NEW a \in Assignments, rows[a].state # "none"
    PROVE  rows'[a].state # "none" /\ (Player(rows[a].of)' = Player(rows[a].of))
<1>1. PICK m \in Messages : m = rows[a].of /\ m <= sent
  BY DEF RequestInv
<1>2. rows'[a].of = m /\ rows'[a].state # "none"
  BY <1>1 DEF RowsStay, StaysFor
<1>3. requests'[m].player = requests[m].player
  BY <1>1 DEF WishesStay, SameWish
<1> QED
  BY <1>1, <1>2, <1>3 DEF Player

LEMMA IssuedServer ==
    ASSUME Base, RequestInv, IssuedInv, Server, WishesStay, RowsStay
    PROVE  IssuedInv'
<1>1. UNCHANGED companion
  BY ServerStep DEF Base
<1>2. worker' = worker /\ disk' = disk /\ history' = history
  BY <1>1 DEF companion
<1>3. \A h \in Handlers : CallIssued(h)'
  BY CallsIssued
<1>4. worker'.pc = "save" => rows'[worker'.a].state # "none"
  BY <1>2 DEF IssuedInv, RowsStay, StaysFor, Base, TypeInv, ShapeInv
<1>5. disk'.assignment \in Assignments => rows'[disk'.assignment].state # "none"
  BY <1>2 DEF IssuedInv, RowsStay, StaysFor
<1>6. ASSUME NEW a \in Assignments, history'[a].found
      PROVE  rows'[a].state # "none" /\ (Player(rows[a].of) \in Shown)'
  <2>1. rows[a].state # "none" /\ Player(rows[a].of) \in Shown
    BY <1>2, <1>6 DEF IssuedInv
  <2> QED
    BY <2>1, PlayerStays
<1> QED
  BY <1>3, <1>4, <1>5, <1>6 DEF IssuedInv

\* The calls after a step of the companion.
CallsKept ==
    \A h \in Handlers :
        \/ calls'[h] = calls[h]
        \/ calls'[h].reply = "none" /\ calls'[h].stage \in {"idle", "claim", "accept"}

\* What the companion may do to its assignment and to its searches.
LEMMA CompanionIssues ==
    ASSUME Base, Companion
    PROVE  /\ CallsKept
           /\ \/ disk'.assignment = disk.assignment \/ disk'.assignment \in {None, Torn}
              \/ worker.pc = "save" /\ disk'.assignment = worker.a
           /\ worker'.pc = "save" => \E h \in Handlers :
                calls[h].reply = "assignment" /\ worker'.a = calls[h].a
           /\ \A a \in Assignments : history'[a].found =>
                history[a].found \/ (disk.assignment = a /\ Player(rows[a].of) \in Shown)
<1> DEFINE Goal ==
            /\ CallsKept
            /\ \/ disk'.assignment = disk.assignment \/ disk'.assignment \in {None, Torn}
               \/ worker.pc = "save" /\ disk'.assignment = worker.a
            /\ worker'.pc = "save" => \E h \in Handlers :
                 calls[h].reply = "assignment" /\ worker'.a = calls[h].a
            /\ \A a \in Assignments : history'[a].found =>
                 history[a].found \/ (disk.assignment = a /\ Player(rows[a].of) \in Shown)
<1>1. /\ calls \in [Handlers -> Call] /\ disk \in Disk /\ worker \in Worker
      /\ history \in [Assignments -> Tried]
  BY DEF Base, TypeInv, PlayerTypeOK
<1>2. /\ NoCall.reply = "none" /\ NoCall.stage = "idle" /\ Idle.pc = "idle"
      /\ Empty.assignment = None /\ Off.pc = "off"
  BY DEF NoCall, Opened, Idle, Off, Doing, Empty
<1>3. \A pc \in {"mark", "find", "clear"} : To(pc) => worker'.pc = pc
  BY <1>1 DEF To, Worker
<1>4. ASSUME NEW h \in Handlers, calls' = [calls EXCEPT ![h] = NoCall] PROVE CallsKept
  BY <1>1, <1>2, <1>4 DEF CallsKept
<1>5. CASE Poll
  <2>1. worker'.pc = "polling" /\ disk' = disk /\ history' = history
    BY <1>5 DEF Poll, Doing
  <2>2. CallsKept
    BY <1>1, <1>5 DEF Poll, Opened, CallsKept
  <2> QED
    BY <2>1, <2>2
<1>6. CASE Assigned
  <2>1. PICK h \in Handlers : h = worker.call
    BY <1>6 DEF Assigned, Base, TypeInv, ShapeInv
  <2>2. CallsKept
    BY <1>4, <1>6, <2>1 DEF Assigned
  <2>3. worker'.pc = "save" => calls[h].reply = "assignment" /\ worker'.a = calls[h].a
    BY <1>6, <2>1 DEF Assigned, Idle, Doing
  <2>4. disk' = disk /\ history' = history
    BY <1>6 DEF Assigned
  <2> QED
    BY <2>2, <2>3, <2>4
<1>7. CASE Submitted
  <2>1. PICK h \in Handlers : h = worker.call
    BY <1>7 DEF Submitted, Base, TypeInv, ShapeInv
  <2>2. CallsKept
    BY <1>4, <1>7, <2>1 DEF Submitted
  <2>3. worker'.pc # "save" /\ disk' = disk /\ history' = history
    BY <1>7 DEF Submitted, Idle, Doing
  <2> QED
    BY <2>2, <2>3
<1>8. CASE GiveUp
  <2>1. CallsKept
    BY <1>1, <1>2, <1>8 DEF GiveUp, CallsKept
  <2>2. worker'.pc # "save" /\ disk' = disk /\ history' = history
    BY <1>2, <1>8 DEF GiveUp
  <2> QED
    BY <2>1, <2>2
<1>9. CASE Start \/ Save \/ Clear
  <2>1. UNCHANGED calls /\ worker' = Idle /\ history' = history
    BY <1>9 DEF Start, Save, Clear
  <2>2. \/ disk'.assignment = disk.assignment \/ disk'.assignment = None
        \/ worker.pc = "save" /\ disk'.assignment = worker.a
    BY <1>1, <1>2, <1>9 DEF Start, Save, Clear, Disk
  <2> QED
    BY <1>2, <2>1, <2>2 DEF CallsKept
<1>10. ASSUME NEW a \in Assignments, Resume(a) \/ Mark(a) \/ Expire(a) \/ NotReady(a) PROVE Goal
  <2>1. UNCHANGED calls /\ history' = history /\ disk'.assignment = disk.assignment
    BY <1>1, <1>10 DEF Resume, Mark, Expire, NotReady, Disk
  <2>2. worker'.pc # "save"
    BY <1>2, <1>3, <1>10 DEF Resume, Mark, Expire, NotReady, Idle, Doing
  <2> QED
    BY <2>1, <2>2 DEF CallsKept
<1>11. ASSUME NEW a \in Assignments, NEW outcome \in {"found", "review_required"}, Find(a, outcome)
       PROVE  Goal
  <2>1. UNCHANGED calls /\ disk' = disk /\ disk.assignment = a /\ worker'.pc = "keep"
    BY <1>11 DEF Find, Doing
  <2>2. \A b \in Assignments : b # a => history'[b] = history[b]
    BY <1>1, <1>11 DEF Find
  <2>3. history'[a].found => history[a].found \/ outcome = "found"
    BY <1>1, <1>11 DEF Find
  <2>4. outcome = "found" => Player(rows[a].of) \in Shown
    BY <1>11 DEF Find
  <2> QED
    BY <2>1, <2>2, <2>3, <2>4 DEF CallsKept
<1>12. ASSUME NEW a \in Assignments, Keep(a) PROVE Goal
  <2>1. UNCHANGED calls /\ worker' = Idle
    BY <1>12 DEF Keep
  <2>2. disk'.assignment = disk.assignment
    BY <1>1, <1>12 DEF Keep, Disk
  <2>3. \A b \in Assignments : history'[b].found = history[b].found
    BY <1>1, <1>12 DEF Keep, Tried
  <2> QED
    BY <1>2, <2>1, <2>2, <2>3 DEF CallsKept
<1>13. ASSUME NEW a \in Assignments, Submit(a) PROVE Goal
  <2>1. worker'.pc = "submitting" /\ disk' = disk /\ history' = history
    BY <1>13 DEF Submit, Doing
  <2>2. CallsKept
    BY <1>1, <1>13 DEF Submit, Opened, CallsKept
  <2> QED
    BY <2>1, <2>2
<1>14. CASE Crash
  <2>1. worker'.pc = "off"
    BY <1>2, <1>14 DEF Crash
  <2>2. \/ disk'.assignment = disk.assignment \/ disk'.assignment \in {None, Torn}
        \/ worker.pc = "save" /\ disk'.assignment = worker.a
    BY <1>14, LeftBehindTypes DEF Crash, Base
  <2>3. CallsKept
    BY <1>2, <1>14 DEF Crash, CallsKept
  <2>4. \A b \in Assignments : history'[b].found = history[b].found
    <3>1. CASE worker.pc = "keep"
      BY <1>1, <1>14, <3>1 DEF Crash, Base, TypeInv, ShapeInv, Tried
    <3>2. CASE worker.pc # "keep"
      BY <1>14, <3>2 DEF Crash
    <3> QED
      BY <3>1, <3>2
  <2> QED
    BY <2>1, <2>2, <2>3, <2>4
<1> QED
  BY <1>5, <1>6, <1>7, <1>8, <1>9, <1>10, <1>11, <1>12, <1>13, <1>14
  DEF Companion, CompanionStep, FileStep

LEMMA IssuedCompanion ==
    ASSUME Base, IssuedInv, Companion
    PROVE  IssuedInv'
<1>1. rows' = rows /\ requests' = requests
  BY CompanionTypes DEF Base, customer
<1>2. ASSUME NEW h \in Handlers PROVE CallIssued(h)'
  <2>1. CASE calls'[h] = calls[h]
    BY <1>1, <2>1 DEF IssuedInv, CallIssued
  <2>2. CASE calls'[h].reply = "none" /\ calls'[h].stage \in {"idle", "claim", "accept"}
    BY <2>2 DEF CallIssued
  <2> QED
    BY <2>1, <2>2, CompanionIssues DEF CallsKept
<1>3. worker'.pc = "save" => rows'[worker'.a].state # "none"
  BY <1>1, CompanionIssues DEF IssuedInv, CallIssued
<1>4. None \notin Assignments /\ Torn \notin Assignments
  BY NullAssumption DEF Assignments
<1>5. disk'.assignment \in Assignments => rows'[disk'.assignment].state # "none"
  BY <1>1, <1>4, CompanionIssues DEF IssuedInv
<1>6. ASSUME NEW a \in Assignments, history'[a].found
      PROVE  rows'[a].state # "none" /\ (Player(rows[a].of) \in Shown)'
  <2>1. rows[a].state # "none" /\ Player(rows[a].of) \in Shown
    BY <1>6, CompanionIssues DEF IssuedInv
  <2> QED
    BY <1>1, <2>1 DEF Player
<1> QED
  BY <1>2, <1>3, <1>5, <1>6 DEF IssuedInv

LEMMA IssuedInit == Init => IssuedInv
BY NullAssumption DEF Init, IssuedInv, CallIssued, NoCall, Opened, Idle, Doing, Empty, Assignments

LEMMA IssuedStep == Base /\ RequestInv /\ IssuedInv /\ [Next]_vars => IssuedInv'
<1> SUFFICES ASSUME Base, RequestInv, IssuedInv, [Next]_vars PROVE IssuedInv'
  OBVIOUS
<1>1. WishesStay /\ RowsStay
  BY StepWishes, StepStays
<1>2. CASE UNCHANGED vars
  BY <1>2 DEF vars, IssuedInv, CallIssued, Player
<1> QED
  BY <1>1, <1>2, NextSplit, IssuedServer, IssuedCompanion

\* The wish of a customer is the player of its one pending request.
WishInv ==
    \A c \in Customers :
        /\ \A m \in Messages : Pending(m) /\ Customer(m) = c => WishOf(c) = Player(m)
        /\ (\A m \in Messages : ~(Pending(m) /\ Customer(m) = c)) => WishOf(c) = None

LEMMA WishNow == RequestInv => WishInv
<1> SUFFICES ASSUME RequestInv, NEW c \in Customers
             PROVE  /\ \A m \in Messages : Pending(m) /\ Customer(m) = c => WishOf(c) = Player(m)
                    /\ (\A m \in Messages : ~(Pending(m) /\ Customer(m) = c)) => WishOf(c) = None
  BY DEF WishInv
<1>1. ASSUME NEW m \in Messages, Pending(m), Customer(m) = c PROVE WishOf(c) = Player(m)
  <2> DEFINE k == CHOOSE n \in Messages : Pending(n) /\ Customer(n) = c
  <2>1. k \in Messages /\ Pending(k) /\ Customer(k) = c
    BY <1>1
  <2>2. WishOf(c) = Player(k)
    BY <1>1 DEF WishOf
  <2> HIDE DEF k
  <2>3. k = m
    BY <1>1, <2>1 DEF RequestInv
  <2> QED
    BY <2>2, <2>3
<1>2. (\A m \in Messages : ~(Pending(m) /\ Customer(m) = c)) => WishOf(c) = None
  BY DEF WishOf
<1> QED
  BY <1>1, <1>2

LEMMA WishNext == RequestInv' => WishInv'
BY WishNow, PTL

LEMMA WishSame ==
    ASSUME RequestInv, RequestInv', NEW c \in Customers,
           \A m \in Messages : (Pending(m)' /\ Customer(m)' = c) <=> (Pending(m) /\ Customer(m) = c),
           \A m \in Messages : Pending(m) /\ Customer(m) = c => Player(m)' = Player(m)
    PROVE  WishOf(c)' = WishOf(c)
BY WishNow, WishNext DEF WishInv

\* All that the promise sees.
Wishes == [c \in Customers |-> WishOf(c)]
Choices == [c \in Customers |-> selected[c].player]

LEMMA SameWishFields ==
    ASSUME NEW m, SameWish(m)
    PROVE  /\ Customer(m)' = Customer(m) /\ Player(m)' = Player(m)
           /\ Pending(m)' => Pending(m)
BY DEF SameWish, Customer, Player, Pending

LEMMA AskIsAWish ==
    ASSUME Base, RequestInv, RequestInv', NEW c \in Customers, NEW p \in Players, Ask(c, p)
    PROVE  Choice!Wish(c, p)
<1>1. PICK new \in Messages : new = sent' /\ new > sent
  BY AskRequests DEF Messages
<1>2. /\ requests'[new].status = "pending" /\ requests'[new].c = c /\ requests'[new].player = p
      /\ \A m \in Messages \ {new} :
            SameWish(m) /\ (Pending(m)' <=> Pending(m) /\ Customer(m) # c)
  BY <1>1, AskRequests
<1>3. Pending(new)' /\ Customer(new)' = c /\ Player(new)' = p
  BY <1>2 DEF Pending, Customer, Player
<1>4. WishOf(c)' = p
  BY <1>3, WishNext DEF WishInv
<1>5. ~Pending(new)
  BY <1>1 DEF RequestInv, Pending
<1>6. ASSUME NEW d \in Customers, d # c PROVE WishOf(d)' = WishOf(d)
  <2>1. \A m \in Messages : (Pending(m)' /\ Customer(m)' = d) <=> (Pending(m) /\ Customer(m) = d)
    BY <1>2, <1>3, <1>5, <1>6, SameWishFields
  <2>2. \A m \in Messages : Pending(m) /\ Customer(m) = d => Player(m)' = Player(m)
    BY <1>2, <1>5, SameWishFields
  <2> QED
    BY <2>1, <2>2, WishSame
<1>7. Wishes' = [Wishes EXCEPT ![c] = p]
  BY <1>4, <1>6 DEF Wishes
<1>8. UNCHANGED <<selected, account>>
  BY DEF Ask
<1> QED
  BY <1>7, <1>8 DEF Choice!Wish, Wishes

LEMMA ReuseIsAChoice ==
    ASSUME Base, RequestInv, RequestInv', NEW c \in Customers, NEW p \in Players, Reuse(c, p)
    PROVE  Choice!Choose(c, p)
<1>1. \A m \in Messages : SameWish(m) /\ (Pending(m)' <=> Pending(m) /\ Customer(m) # c)
  BY ReuseRequests
<1>2. WishOf(c)' = None
  BY <1>1, SameWishFields, WishNext DEF WishInv
<1>3. ASSUME NEW d \in Customers, d # c PROVE WishOf(d)' = WishOf(d)
  <2>1. \A m \in Messages : (Pending(m)' /\ Customer(m)' = d) <=> (Pending(m) /\ Customer(m) = d)
    BY <1>1, <1>3, SameWishFields
  <2>2. \A m \in Messages : Pending(m) /\ Customer(m) = d => Player(m)' = Player(m)
    BY <1>1, SameWishFields
  <2> QED
    BY <2>1, <2>2, WishSame
<1>4. Wishes' = [Wishes EXCEPT ![c] = None]
  BY <1>2, <1>3 DEF Wishes
<1>5. Choices' = [Choices EXCEPT ![c] = p]
  <2>1. selected \in [Customers -> Selection]
    BY DEF Base, TypeInv, PlayerTypeOK
  <2>2. selected'[c].player = p /\ \A d \in Customers \ {c} : selected'[d] = selected[d]
    BY <2>1 DEF Reuse
  <2> QED
    BY <2>2 DEF Choices
<1>6. account[p] = "eligible" /\ UNCHANGED account
  BY DEF Reuse
<1> QED
  BY <1>4, <1>5, <1>6 DEF Choice!Choose, Wishes, Choices

\* The recorded result ends the wish of its request's customer and no other.
LEMMA RecordEndsTheWish ==
    ASSUME Base, RequestInv, RequestInv', NEW r \in Result, Acceptable(r), Record(r),
           NEW m, m = rows[r.of].of, NEW c, c = Customer(m)
    PROVE  /\ c \in Customers /\ m \in Messages /\ WishOf(c) = Player(m)
           /\ Wishes' = [Wishes EXCEPT ![c] = None]
<1>1. /\ m \in Messages /\ Pending(m) /\ ~Pending(m)'
      /\ \A k \in Messages : SameWish(k) /\ (k # m => requests'[k] = requests[k])
  BY RecordRequests
<1>2. c \in Customers
  BY <1>1 DEF Base, TypeInv, ShapeInv, Pending, Customer
<1>3. WishOf(c) = Player(m)
  BY <1>1, <1>2, WishNow DEF WishInv
<1>4. WishOf(c)' = None
  <2>1. \A k \in Messages : ~(Pending(k)' /\ Customer(k)' = c)
    BY <1>1, SameWishFields DEF RequestInv
  <2> QED
    BY <1>2, <2>1, WishNext DEF WishInv
<1>5. ASSUME NEW d \in Customers, d # c PROVE WishOf(d)' = WishOf(d)
  <2>1. \A k \in Messages : k # m => (Pending(k)' <=> Pending(k))
    BY <1>1 DEF Pending
  <2>2. \A k \in Messages : (Pending(k)' /\ Customer(k)' = d) <=> (Pending(k) /\ Customer(k) = d)
    BY <1>1, <1>5, <2>1, SameWishFields
  <2>3. \A k \in Messages : Pending(k) /\ Customer(k) = d => Player(k)' = Player(k)
    BY <1>1, SameWishFields
  <2> QED
    BY <2>2, <2>3, WishSame
<1>6. Wishes' = [Wishes EXCEPT ![c] = None]
  BY <1>2, <1>4, <1>5 DEF Wishes
<1> QED
  BY <1>1, <1>2, <1>3, <1>6

LEMMA RecordIsADecision ==
    ASSUME Base, SeenInv, RequestInv, RequestInv', IssuedInv, NEW r \in Result,
           Acceptable(r), Record(r), Seen(r)
    PROVE  \E c \in Customers : Choice!Fulfil(c) \/ Choice!Abandon(c)
<1>1. PICK m \in Messages : m = rows[r.of].of
  BY DEF Acceptable, Pending
<1>2. PICK c \in Customers : c = Customer(m)
  BY <1>1, RecordEndsTheWish
<1>3. WishOf(c) = Player(m) /\ Wishes' = [Wishes EXCEPT ![c] = None]
  BY <1>1, <1>2, RecordEndsTheWish
<1>4. Wishes[c] = Player(m)
  BY <1>3 DEF Wishes
<1>5. CASE Verdict(r) = "validated"
  <2>1. r.outcome = "found" /\ account[Player(m)] # "revoked"
    BY <1>1, <1>5 DEF Verdict
  <2>2. Player(m) \in Shown
    BY <1>1, <2>1 DEF Seen, IssuedInv, Result
  <2>3. PICK p \in Shown : p = Player(m)
    BY <2>2
  <2>4. selected' = [selected EXCEPT ![c] = [player |-> p, origin |-> m]]
    BY <1>1, <1>2, <1>5, <2>3 DEF Record
  <2>5. account' = [account EXCEPT ![p] = "eligible"]
    BY <1>1, <1>5, <2>3 DEF Record
  <2>6. Choices' = [Choices EXCEPT ![c] = p]
    <3>1. selected \in [Customers -> Selection]
      BY DEF Base, TypeInv, PlayerTypeOK
    <3>2. selected'[c].player = p /\ \A d \in Customers \ {c} : selected'[d] = selected[d]
      BY <2>4, <3>1
    <3> QED
      BY <3>2 DEF Choices
  <2>7. Choice!Fulfil(c)
    BY <1>3, <1>4, <2>1, <2>3, <2>5, <2>6 DEF Choice!Fulfil, Wishes, Choices
  <2> QED
    BY <2>7
<1>6. CASE Verdict(r) # "validated"
  <2>1. UNCHANGED <<selected, account>>
    BY <1>6 DEF Record
  <2>2. Choice!Abandon(c)
    BY <1>3, <2>1 DEF Choice!Abandon, Wishes
  <2> QED
    BY <2>2
<1> QED
  BY <1>5, <1>6

\* A step that leaves requests, selections and accounts alone, the promise does not see.
LEMMA QuietStutters ==
    ASSUME UNCHANGED <<requests, selected, account>>
    PROVE  UNCHANGED Choice!choiceVars
BY DEF Choice!choiceVars, WishOf, Pending, Customer, Player

LEMMA StepIsPromised ==
    Base /\ SeenInv /\ RequestInv /\ RequestInv' /\ IssuedInv /\ [Next]_vars =>
        [Choice!ChoiceNext]_(Choice!choiceVars)
<1> SUFFICES ASSUME Base, SeenInv, RequestInv, RequestInv', IssuedInv, [Next]_vars
             PROVE  Choice!ChoiceNext \/ UNCHANGED Choice!choiceVars
  OBVIOUS
<1>1. CASE UNCHANGED <<requests, selected, account>>
  BY <1>1, QuietStutters
<1>2. CASE Companion \/ UNCHANGED vars
  BY <1>1, <1>2, CompanionTypes DEF Base, vars, customer
<1>3. ASSUME NEW c \in Customers, NEW p \in Players, Ask(c, p) PROVE Choice!ChoiceNext
  BY <1>3, AskIsAWish DEF Choice!ChoiceNext
<1>4. ASSUME NEW c \in Customers, NEW p \in Players, Reuse(c, p) PROVE Choice!ChoiceNext
  BY <1>4, ReuseIsAChoice DEF Choice!ChoiceNext
<1>5. ASSUME NEW p \in Players, Decide(p) PROVE Choice!ChoiceNext
  <2>1. UNCHANGED <<requests, selected>>
    BY <1>5 DEF Decide
  <2>2. Wishes' = Wishes /\ Choices' = Choices
    BY <2>1 DEF Wishes, Choices, WishOf, Pending, Customer, Player
  <2>3. Choice!Decide(p)
    BY <1>5, <2>2 DEF Decide, Choice!Decide, Wishes, Choices
  <2> QED
    BY <2>3 DEF Choice!ChoiceNext
<1>6. ASSUME NEW h \in Handlers, Accept(h), ~UNCHANGED <<requests, selected, account>>
      PROVE  Choice!ChoiceNext
  <2>1. PICK r \in Result : r = calls[h].result /\ Acceptable(r) /\ Record(r)
    BY <1>6 DEF Accept, Base, TypeInv, ShapeInv
  <2>2. Seen(r)
    BY <1>6, <2>1 DEF Accept, SeenInv
  <2> QED
    BY <2>1, <2>2, RecordIsADecision DEF Choice!ChoiceNext
<1>7. ASSUME NEW h \in Handlers,
             \/ Claim(h) \/ Sign(h) \/ SignFails(h) \/ Complete(h) \/ Release(h)
             \/ Confirm(h) \/ Drop(h)
      PROVE  UNCHANGED <<requests, selected, account>>
  BY <1>7 DEF Claim, Sign, SignFails, Complete, Release, Confirm, Drop, customer
<1>8. ASSUME NEW a \in Assignments, LapseLease(a) \/ Lapse(a)
      PROVE  UNCHANGED <<requests, selected, account>>
  BY <1>8 DEF LapseLease, Lapse, customer
<1> QED
  BY <1>1, <1>2, <1>3, <1>4, <1>5, <1>6, <1>7, <1>8, NextSplit
  DEF Server, CustomerStep, HandlerStep

LEMMA InitIsPromised == Init => Choice!ChoiceInit
<1> SUFFICES ASSUME Init PROVE Choice!ChoiceInit
  OBVIOUS
<1>1. \A m \in Messages : ~Pending(m)
  BY DEF Init, Pending, NoRequest
<1>2. \A c \in Customers : WishOf(c) = None
  BY <1>1 DEF WishOf
<1>3. \A c \in Customers : selected[c].player = None
  BY DEF Init, NoSelection
<1> QED
  BY <1>2, <1>3 DEF Init, Choice!ChoiceInit

\* Player validation implements VerifiedChoice: only the customer's latest wish is
\* fulfilled, only by a player the provider showed for it, and never over the
\* Owner's revocation, whatever is lost, late or restarted.
THEOREM PromiseIsKept == Spec => ChoiceIsVerified
<1>1. Init => Base /\ SeenInv /\ RequestInv /\ IssuedInv /\ Choice!ChoiceInit
  BY InitTypes, SeenInit, RequestInit, IssuedInit, InitIsPromised DEF Base
<1> QED
  BY <1>1, BaseStep, SeenStep, RequestStep, IssuedStep, StepIsPromised, PTL
  DEF Spec, ChoiceIsVerified, Choice!ChoiceSpec
=============================================================================
