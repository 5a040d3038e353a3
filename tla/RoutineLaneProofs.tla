-------------------------- MODULE RoutineLaneProofs --------------------------
(***************************************************************************)
(* The routine lane for any number of deposits, players, late requests and *)
(* crashes: no deposit is paid twice, no player has two in doubt, the page *)
(* shows only its own deposit, what is executed was credited, the lane     *)
(* implements OneShotCredit with the player in the place of the account,   *)
(* and a transfer leaves only while the ledger holds its deposit in doubt. *)
(***************************************************************************)
EXTENDS RoutineLane, FiniteSetTheorems, TLAPS

\* The statuses in which a credit of the deposit may still be unknown.
Doubtful == OpenStatus \cup {"review_required"}

\* One open attempt holds the lane, one unresolved one its player.
LaneInv ==
    /\ \A i, j \in Intents : Open(i) /\ Open(j) => i = j
    /\ \A i, j \in Intents :
        /\ PlayerOf[i] = PlayerOf[j]
        /\ rows[i].attempt \in Doubtful /\ rows[j].attempt \in Doubtful
        => i = j

\* Only a deposit the broker fenced had its allowance taken, once, and was then
\* transferred at most once; only one the broker cancelled before the fence was
\* credited by hand.
BrokerInv ==
    \A i \in Intents :
        /\ posts[i] = 0 \/ (posts[i] = 1 /\ allowance[i] = "gone")
        /\ allowance[i] # "unused" => Issued(i)
        /\ i \in credited => posts[i] > 0
        /\ rows[i].paid_outside => rows[i].attempt = "cancelled_before_action"

\* Until the page's request takes the allowance the worker holds a deposit whose
\* allowance was never taken, and from the granted fence on one the broker issued.
WorkerInv ==
    /\ worker.phase \in {"prepare", "fence", "act"} =>
         worker.lease \in Intents /\ allowance[worker.lease] = "unused"
    /\ worker.phase = "lease" /\ worker.answer.verdict = "execute" =>
         worker.answer.i \in Intents /\ allowance[worker.answer.i] = "unused"
    /\ worker.phase = "act" \/ (worker.phase = "fence" /\ worker.answer = Accepted) =>
         Issued(worker.lease)

TypeInv ==
    /\ rows \in [Intents -> Row]
    /\ policy \in PolicyStatus /\ transport \in BOOLEAN
    /\ worker \in Worker
    /\ late \subseteq Command
    /\ page \in Page /\ allowance \in [Intents -> {"unused", "consumed", "gone"}]
    /\ posts \in [Intents -> Nat] /\ credited \subseteq Intents
    /\ crashes \in 0..MaxCrashes

MoneyInv == TypeInv /\ LaneInv /\ BrokerInv /\ WorkerInv

-----------------------------------------------------------------------------
(* Rows. *)

\* Each change of a row leaves a row of the named status, paid or not as before.
LEMMA RowParts ==
    ASSUME NEW r \in Row
    PROVE  /\ Cancelled(r) \in Row /\ Cancelled(r).attempt = "cancelled_before_action"
           /\ Cancelled(r).paid_outside = r.paid_outside
           /\ \A b \in BOOLEAN : /\ Leased(r, b) \in Row /\ Leased(r, b).attempt = "prepared"
                                 /\ Leased(r, b).paid_outside = r.paid_outside
           /\ Fenced(r) \in Row /\ Fenced(r).attempt = "final_action_fenced"
           /\ Fenced(r).paid_outside = r.paid_outside
           /\ HandedOff(r) \in Row /\ HandedOff(r).attempt = "reconciliation_required"
           /\ HandedOff(r).paid_outside = r.paid_outside
           /\ Isolated(r) \in Row /\ Isolated(r).attempt = "review_required"
           /\ Isolated(r).paid_outside = r.paid_outside
<1>1. r \in Row /\ DOMAIN r = {"attempt", "mine", "lapsed", "evidence", "review", "paid_outside"}
  BY DEF Row
<1> QED BY <1>1 DEF Row, Cancelled, Leased, Fenced, HandedOff, Isolated, AttemptStatus

LEMMA DispatchedParts ==
    ASSUME NEW r \in Row
    PROVE  /\ Dispatched(r) \in Row /\ Dispatched(r).attempt = "reconciliation_required"
           /\ Dispatched(r).paid_outside = r.paid_outside
<1>1. \A s \in Row : /\ [s EXCEPT !.evidence = TRUE] \in Row
                     /\ [s EXCEPT !.evidence = TRUE].attempt = s.attempt
                     /\ [s EXCEPT !.evidence = TRUE].paid_outside = s.paid_outside
  BY DEF Row
<1> QED BY <1>1, RowParts DEF Dispatched

LEMMA OtherParts ==
    ASSUME NEW r \in Row
    PROVE  /\ \A b \in BOOLEAN : /\ [r EXCEPT !.mine = b] \in Row
                                 /\ [r EXCEPT !.mine = b].attempt = r.attempt
                                 /\ [r EXCEPT !.mine = b].paid_outside = r.paid_outside
           /\ [r EXCEPT !.lapsed = TRUE] \in Row
           /\ [r EXCEPT !.lapsed = TRUE].attempt = r.attempt
           /\ [r EXCEPT !.lapsed = TRUE].paid_outside = r.paid_outside
           /\ [r EXCEPT !.review = "open"] \in Row
           /\ [r EXCEPT !.review = "open"].attempt = r.attempt
           /\ [r EXCEPT !.review = "open"].paid_outside = r.paid_outside
           /\ [r EXCEPT !.attempt = "confirmed_executed"] \in Row
           /\ [r EXCEPT !.attempt = "confirmed_executed"].attempt = "confirmed_executed"
           /\ [r EXCEPT !.attempt = "confirmed_executed"].paid_outside = r.paid_outside
           /\ PaidOutside(r) \in Row /\ PaidOutside(r).attempt = r.attempt
BY DEF Row, PaidOutside, AttemptStatus

-----------------------------------------------------------------------------
(* Commands. *)

\* What any transaction of the broker leaves of a row.
Moves(i) ==
    /\ rows'[i].paid_outside = rows[i].paid_outside
    /\ Issued(i) => Issued(i)'
    /\ rows[i].attempt = "cancelled_before_action" => rows'[i].attempt = rows[i].attempt

\* A deposit that takes the lane, or its player, had it before.
TakesNothing(i) ==
    /\ Open(i)' => Open(i)
    /\ rows'[i].attempt \in Doubtful => rows[i].attempt \in Doubtful

LEMMA LaneKept ==
    ASSUME LaneInv, \A i \in Intents : TakesNothing(i)
    PROVE  LaneInv'
BY DEF LaneInv, TakesNothing, Open

\* Replacing one row that keeps its promises keeps them all.
LEMMA OneRow ==
    ASSUME rows \in [Intents -> Row], NEW i \in Intents, NEW r \in Row,
           rows' = [rows EXCEPT ![i] = r],
           r.paid_outside = rows[i].paid_outside,
           \/ r.attempt = rows[i].attempt
           \/ rows[i].attempt \in OpenStatus /\ r.attempt # "none",
           Issued(i) => r.attempt \in {"final_action_fenced", "reconciliation_required",
                                       "confirmed_executed", "review_required"}
    PROVE  /\ rows' \in [Intents -> Row]
           /\ \A j \in Intents : Moves(j) /\ TakesNothing(j)
           /\ \A j \in Intents : j # i => rows'[j] = rows[j]
           /\ rows'[i] = r
<1>1. \A j \in Intents : rows'[j] = IF j = i THEN r ELSE rows[j]
  OBVIOUS
<1>2. rows' \in [Intents -> Row]
  OBVIOUS
<1>3. ASSUME NEW j \in Intents PROVE Moves(j) /\ TakesNothing(j)
  <2>1. CASE j = i
    BY <1>1, <2>1 DEF Moves, TakesNothing, Issued, Open, OpenStatus, Doubtful
  <2>2. CASE j # i
    BY <1>1, <2>2 DEF Moves, TakesNothing, Issued, Open
  <2> QED BY <2>1, <2>2
<1> QED BY <1>1, <1>2, <1>3

\* On a free lane a lease adds one prepared attempt of a player without doubts.
LEMMA LeaseNextKeeps ==
    ASSUME rows \in [Intents -> Row], LaneInv,
           NEW c, c.mine \in BOOLEAN, NEW answer,
           NEW table \in [Intents -> Row],
           \A i \in Intents : table[i].attempt \notin OpenStatus,
           \A i \in Intents : \/ table[i] = rows[i]
                              \/ /\ rows[i].attempt = "prepared"
                                 /\ table[i].attempt = "cancelled_before_action"
                                 /\ table[i].paid_outside = rows[i].paid_outside,
           LeaseNext(c, table, answer)
    PROVE  /\ rows' \in [Intents -> Row]
           /\ \A i \in Intents : Moves(i)
           /\ LaneInv'
           /\ answer.verdict = "execute" => answer.i \in Intents /\ ~Issued(answer.i)
           /\ answer.verdict \in {"none", "execute"} /\ answer # Accepted
<1>1. CASE rows' = table /\ answer = [verdict |-> "none", i |-> None]
  <2>1. \A i \in Intents : Moves(i) /\ TakesNothing(i)
    BY <1>1 DEF Moves, TakesNothing, Issued, Open, OpenStatus, Doubtful
  <2> QED BY <1>1, <2>1, LaneKept DEF Accepted
<1>2. ASSUME NEW j \in Intents, Admissible(table, j),
             rows' = [table EXCEPT ![j] = Leased(@, c.mine)],
             answer = [verdict |-> "execute", i |-> j]
      PROVE  /\ rows' \in [Intents -> Row]
             /\ \A i \in Intents : Moves(i)
             /\ LaneInv'
             /\ answer.verdict = "execute" => answer.i \in Intents /\ ~Issued(answer.i)
             /\ answer.verdict \in {"none", "execute"} /\ answer # Accepted
  <2>1. /\ Leased(table[j], c.mine) \in Row
        /\ Leased(table[j], c.mine).attempt = "prepared"
        /\ Leased(table[j], c.mine).paid_outside = table[j].paid_outside
    BY RowParts
  <2>2. \A i \in Intents : rows'[i] = IF i = j THEN Leased(table[j], c.mine) ELSE table[i]
    BY <1>2
  <2>3. rows' \in [Intents -> Row]
    BY <1>2, <2>1
  <2>4. table[j].attempt = "none" /\ table[j] = rows[j]
    BY <1>2 DEF Admissible
  <2>5. \A i \in Intents : Moves(i)
    BY <2>1, <2>2, <2>4 DEF Moves, Issued
  <2>6. \A i \in Intents : rows'[i].attempt \in OpenStatus => i = j
    BY <2>2
  <2>7. \A i \in Intents : i # j /\ rows'[i].attempt \in Doubtful =>
          rows'[i].attempt = "review_required" /\ rows[i].attempt = "review_required"
    BY <2>2 DEF Doubtful, OpenStatus
  <2>8. \A i \in Intents : i # j /\ rows'[i].attempt \in Doubtful => PlayerOf[i] # PlayerOf[j]
    BY <1>2, <2>2, <2>7 DEF Admissible
  <2>9. \A i, k \in Intents : Open(i)' /\ Open(k)' => i = k
    BY <2>6 DEF Open
  <2>10. \A i, k \in Intents :
           /\ PlayerOf[i] = PlayerOf[k]
           /\ rows'[i].attempt \in Doubtful /\ rows'[k].attempt \in Doubtful
           => i = k
    BY <2>7, <2>8 DEF LaneInv, Doubtful
  <2>11. LaneInv'
    BY <2>9, <2>10 DEF LaneInv
  <2> QED BY <1>2, <2>3, <2>4, <2>5, <2>11 DEF Issued, Accepted
<1> QED BY <1>1, <1>2 DEF LeaseNext

\* The lease command, with the recovery of what it finds in the lane.
LEMMA LeaseKeeps ==
    ASSUME rows \in [Intents -> Row], LaneInv, NEW c, c.mine \in BOOLEAN, NEW answer,
           Lease(c, answer)
    PROVE  /\ rows' \in [Intents -> Row]
           /\ \A i \in Intents : Moves(i)
           /\ LaneInv'
           /\ answer.verdict = "execute" => answer.i \in Intents /\ ~Issued(answer.i)
           /\ answer # Accepted
<1>1. CASE (\A i \in Intents : ~Open(i)) /\ LeaseNext(c, rows, answer)
  BY <1>1, LeaseNextKeeps DEF Open
<1>2. ASSUME NEW i \in Intents, Open(i), LeaseHeld(c, i, answer)
      PROVE  /\ rows' \in [Intents -> Row]
             /\ \A j \in Intents : Moves(j)
             /\ LaneInv'
             /\ answer.verdict = "execute" => answer.i \in Intents /\ ~Issued(answer.i)
             /\ answer # Accepted
  <2> DEFINE r == rows[i]
  <2>1. CASE r.attempt = "prepared" /\ LeaseNext(c, [rows EXCEPT ![i] = Cancelled(r)], answer)
    <3> DEFINE table == [rows EXCEPT ![i] = Cancelled(r)]
    <3>1. /\ Cancelled(r) \in Row /\ Cancelled(r).attempt = "cancelled_before_action"
          /\ Cancelled(r).paid_outside = r.paid_outside
      BY RowParts
    <3>2. table \in [Intents -> Row]
      BY <3>1
    <3>3. \A j \in Intents : table[j] = IF j = i THEN Cancelled(r) ELSE rows[j]
      OBVIOUS
    <3>4. \A j \in Intents : j # i => rows[j].attempt \notin OpenStatus
      BY <1>2 DEF LaneInv, Open
    <3>5. \A j \in Intents : table[j].attempt \notin OpenStatus
      BY <3>1, <3>3, <3>4 DEF OpenStatus
    <3>6. LeaseNext(c, table, answer)
      BY <2>1
    <3>7. \A j \in Intents : \/ table[j] = rows[j]
                             \/ /\ rows[j].attempt = "prepared"
                                /\ table[j].attempt = "cancelled_before_action"
                                /\ table[j].paid_outside = rows[j].paid_outside
      BY <2>1, <3>1, <3>3
    <3> HIDE DEF table
    <3> QED BY <3>2, <3>5, <3>6, <3>7, LeaseNextKeeps
  <2>2. CASE /\ UNCHANGED rows
             /\ \/ answer = [verdict |-> "none", i |-> None]
                \/ r.attempt = "prepared" /\ answer = [verdict |-> "execute", i |-> i]
    <3>1. \A j \in Intents : Moves(j) /\ TakesNothing(j)
      BY <2>2 DEF Moves, TakesNothing, Issued, Open
    <3> QED BY <2>2, <3>1, LaneKept DEF Accepted, Issued
  <2>3. CASE /\ r.attempt \in {"final_action_fenced", "reconciliation_required"}
             /\ answer = [verdict |-> "reconcile", i |-> i]
             /\ rows' = [rows EXCEPT ![i] = HandedOff(@)]
    <3>1. /\ HandedOff(r) \in Row /\ HandedOff(r).attempt = "reconciliation_required"
          /\ HandedOff(r).paid_outside = r.paid_outside
      BY RowParts
    <3>2. rows' = [rows EXCEPT ![i] = HandedOff(r)]
      BY <2>3
    <3>3. rows' \in [Intents -> Row] /\ \A j \in Intents : Moves(j) /\ TakesNothing(j)
      BY <2>3, <3>1, <3>2, OneRow DEF OpenStatus
    <3> QED BY <2>3, <3>3, LaneKept DEF Accepted
  <2> QED BY <1>2, <2>1, <2>2, <2>3 DEF LeaseHeld
<1> QED BY <1>1, <1>2 DEF Lease

\* The row a command leaves of the deposit it is about.
LEMMA ResultKeeps ==
    ASSUME rows \in [Intents -> Row], NEW c \in Command, c.i \in Intents,
           c.op # "lease", Accepts(c)
    PROVE  /\ Result(c) \in Row
           /\ Result(c).paid_outside = rows[c.i].paid_outside
           /\ \/ Result(c).attempt = rows[c.i].attempt
              \/ rows[c.i].attempt \in OpenStatus /\ Result(c).attempt # "none"
           /\ Issued(c.i) => Result(c).attempt \in
                {"final_action_fenced", "reconciliation_required",
                 "confirmed_executed", "review_required"}
           /\ c.op = "fence" => Result(c).attempt = "final_action_fenced"
<1> DEFINE r == rows[c.i]
<1>1. r \in Row
  OBVIOUS
<1>2. c.op \in {"fence", "record_dispatch", "confirm_modal", "contain", "pause"}
  BY DEF Command, Operations
<1>3. CASE c.op = "fence"
  <2>1. Result(c) = Fenced(r) /\ r.attempt = "prepared"
    BY <1>3 DEF Result, Accepts, Fenceable
  <2> QED BY <1>1, <2>1, RowParts DEF Issued, OpenStatus
<1>4. CASE c.op = "record_dispatch"
  <2>1. Result(c) = Dispatched(r) /\ r.attempt = "final_action_fenced"
    BY <1>4 DEF Result, Accepts, Recordable
  <2> QED BY <1>1, <1>4, <2>1, DispatchedParts DEF Issued, OpenStatus
<1>5. CASE c.op = "confirm_modal"
  <2>1. /\ Result(c) = [r EXCEPT !.attempt = "confirmed_executed"]
        /\ r.attempt \in {"reconciliation_required", "confirmed_executed"}
    BY <1>5 DEF Result, Accepts, Confirmable
  <2> QED BY <1>1, <1>5, <2>1, OtherParts DEF Issued, OpenStatus
<1>6. CASE c.op = "contain"
  <2>1. Result(c) = Contained(r)
    BY <1>6 DEF Result
  <2>2. CASE r.attempt = "prepared"
    BY <1>1, <1>6, <2>1, <2>2, RowParts DEF Contained, Issued, OpenStatus
  <2>3. CASE r.attempt \in {"final_action_fenced", "reconciliation_required"}
    <3>1. Result(c) = Isolated(r)
      BY <2>1, <2>3 DEF Contained
    <3> QED BY <1>1, <1>6, <2>3, <3>1, RowParts DEF Issued, OpenStatus
  <2>4. CASE r.attempt \notin OpenStatus
    <3>1. Result(c) = r \/ Result(c) = [r EXCEPT !.review = "open"]
      BY <2>1, <2>4 DEF Contained, OpenStatus
    <3> QED BY <1>1, <1>6, <3>1, OtherParts DEF Issued
  <2> QED BY <2>2, <2>3, <2>4 DEF OpenStatus
<1>7. CASE c.op = "pause"
  <2>1. Result(c) = IF r.attempt = "prepared" THEN Cancelled(r) ELSE r
    BY <1>7 DEF Result
  <2> QED BY <1>1, <1>7, <2>1, RowParts DEF Issued, OpenStatus
<1> QED BY <1>2, <1>3, <1>4, <1>5, <1>6, <1>7

\* Any transaction: rows move as promised, a lease to execute is of a deposit
\* never fenced, an accepted fence is issued.
LEMMA CommandKeeps ==
    ASSUME rows \in [Intents -> Row], policy \in PolicyStatus, LaneInv,
           NEW c \in Command, NEW answer, Execute(c, answer)
    PROVE  /\ rows' \in [Intents -> Row]
           /\ policy' \in PolicyStatus
           /\ \A i \in Intents : Moves(i)
           /\ LaneInv'
           /\ answer.verdict = "execute" => answer.i \in Intents /\ ~Issued(answer.i)
           /\ c.op = "fence" /\ c.i \in Intents /\ answer = Accepted => Issued(c.i)'
<1>1. CASE c.op = "lease" /\ Lease(c, answer)
  <2>1. c.mine \in BOOLEAN /\ policy' = policy
    BY <1>1 DEF Command, Lease
  <2> QED BY <1>1, <2>1, LeaseKeeps
<1>2. CASE UNCHANGED rows /\ policy' \in PolicyStatus /\ answer \in {Accepted, Refused}
           /\ (answer = Accepted => c.i \notin Intents)
  <2>1. \A i \in Intents : Moves(i) /\ TakesNothing(i)
    BY <1>2 DEF Moves, TakesNothing, Issued, Open
  <2> QED BY <1>2, <2>1, LaneKept DEF Accepted, Refused
<1>3. CASE /\ c.op # "lease" /\ Accepts(c) /\ c.i \in Intents
           /\ rows' = [rows EXCEPT ![c.i] = Result(c)]
           /\ policy' \in PolicyStatus /\ answer = Accepted
  <2>1. /\ rows' \in [Intents -> Row]
        /\ \A j \in Intents : Moves(j) /\ TakesNothing(j)
        /\ rows'[c.i] = Result(c)
    BY <1>3, ResultKeeps, OneRow
  <2>2. c.op = "fence" => Issued(c.i)'
    BY <1>3, <2>1, ResultKeeps DEF Issued
  <2> QED BY <1>3, <2>1, <2>2, LaneKept DEF Accepted
<1>4. c.i \in Intents \/ c.i = None
  BY DEF Command
<1>5. CASE c.op # "lease" /\ Accepts(c)
           /\ rows' = (IF c.i = None THEN rows ELSE [rows EXCEPT ![c.i] = Result(c)])
           /\ policy' = (IF c.op = "pause" /\ policy = "live" THEN "paused" ELSE policy)
           /\ answer = Accepted
  <2>1. policy' \in PolicyStatus
    BY <1>5 DEF PolicyStatus
  <2>2. None \notin Intents
    BY NoneAssumption
  <2>3. CASE c.i = None
    BY <1>2, <1>5, <2>1, <2>2, <2>3
  <2>4. CASE c.i # None
    BY <1>3, <1>4, <1>5, <2>1, <2>4
  <2> QED BY <2>3, <2>4
<1>6. CASE answer = Refused /\ UNCHANGED <<rows, policy>>
  <2>1. answer # Accepted
    BY <1>6 DEF Accepted, Refused
  <2> QED BY <1>2, <1>6, <2>1
<1> QED BY <1>1, <1>5, <1>6 DEF Execute

-----------------------------------------------------------------------------
(* The worker. *)

\* Every field of a worker may be replaced by a value of its kind.
LEMMA WorkerParts ==
    ASSUME NEW w \in Worker
    PROVE  /\ Pending \in [verdict : Verdicts, i : Intents \cup {None}]
           /\ \A p \in Phases : /\ [w EXCEPT !.phase = p, !.answer = Pending] \in Worker
                               /\ [w EXCEPT !.phase = p, !.answer = Pending].phase = p
                               /\ [w EXCEPT !.phase = p, !.answer = Pending].lease = w.lease
                               /\ [w EXCEPT !.phase = p, !.answer = Pending].answer = Pending
           /\ \A i \in Intents \cup {None} :
                /\ [w EXCEPT !.lease = i] \in Worker
                /\ [w EXCEPT !.lease = i].phase = w.phase
                /\ [w EXCEPT !.lease = i].answer = w.answer
                /\ [w EXCEPT !.lease = i].lease = i
           /\ \A b \in BOOLEAN :
                \A v \in {[w EXCEPT !.hold = b], [w EXCEPT !.reset = b],
                          [w EXCEPT !.fresh = b], [w EXCEPT !.modal = b]} :
                  v \in Worker /\ v.phase = w.phase /\ v.lease = w.lease /\ v.answer = w.answer
<1>1. Pending \in [verdict : Verdicts, i : Intents \cup {None}]
  BY DEF Pending, Verdicts
<1> QED BY <1>1 DEF Worker

\* The workers the steps make: which phase they are in and what they work on.
LEMMA WorkerMoves ==
    ASSUME worker \in Worker
    PROVE  /\ \A p \in Phases : To(p) \in Worker /\ To(p).phase = p
                               /\ To(p).lease = worker.lease /\ To(p).answer = Pending
           /\ Containing \in Worker /\ Containing.phase = "contain" /\ Containing.answer = Pending
           /\ Freed \in Worker /\ Freed.phase = "ready" /\ Freed.answer = Pending
           /\ \A p \in Phases : NewWorker(p) \in Worker /\ NewWorker(p).phase = p
                               /\ NewWorker(p).answer = Pending
<1>1. Pending \in [verdict : Verdicts, i : Intents \cup {None}]
  BY DEF Pending, Verdicts
<1>2. \A p \in Phases : To(p) \in Worker /\ To(p).phase = p
                        /\ To(p).lease = worker.lease /\ To(p).answer = Pending
  BY WorkerParts DEF To
<1>3. To("contain") \in Worker /\ To("contain").phase = "contain" /\ To("contain").answer = Pending
  BY <1>2 DEF Phases
<1>4. \A w \in Worker : LET v == [w EXCEPT !.hold = TRUE, !.fresh = FALSE] IN
        v \in Worker /\ v.phase = w.phase /\ v.answer = w.answer
  BY DEF Worker
<1>5. Containing \in Worker /\ Containing.phase = "contain" /\ Containing.answer = Pending
  <2> HIDE DEF To
  <2> QED BY <1>3, <1>4 DEF Containing
<1>6. \A w \in Worker : LET v == [w EXCEPT !.lease = None, !.fresh = FALSE] IN
        v \in Worker /\ v.phase = w.phase /\ v.answer = w.answer
  BY DEF Worker
<1>7. To("ready") \in Worker /\ To("ready").phase = "ready" /\ To("ready").answer = Pending
  BY <1>2 DEF Phases
<1>8. Freed \in Worker /\ Freed.phase = "ready" /\ Freed.answer = Pending
  BY <1>6, <1>7 DEF Freed
<1>9. \A p \in Phases : NewWorker(p) \in Worker /\ NewWorker(p).phase = p
                        /\ NewWorker(p).answer = Pending
  BY <1>1 DEF NewWorker, Worker
<1> QED BY <1>2, <1>5, <1>8, <1>9

\* A worker that neither prepares nor acts, and awaits no answer, owes nothing.
LEMMA Calm ==
    ASSUME MoneyInv, worker' \in Worker, worker'.answer = Pending,
           worker'.phase \notin {"prepare", "fence", "act"},
           UNCHANGED <<rows, policy, transport, allowance, posts, credited, crashes>>,
           late' \subseteq Command, page' \in Page
    PROVE  MoneyInv'
<1>1. TypeInv'
  BY DEF MoneyInv, TypeInv
<1>2. LaneInv' /\ BrokerInv'
  BY DEF MoneyInv, LaneInv, BrokerInv, Open, Issued
<1>3. WorkerInv'
  BY DEF WorkerInv, Pending
<1> QED BY <1>1, <1>2, <1>3 DEF MoneyInv

LEMMA AwaitedTyped ==
    ASSUME worker \in Worker, worker.phase \in Calls
    PROVE  Awaited \in Command
BY DEF Awaited, Calls, Command, Operations, Worker

\* The steps after which the worker neither prepares nor acts.
CalmStep ==
    \/ RunOnce \/ GiveUp \/ Rejected \/ Uncertain \/ DialogSeen \/ DispatchRecorded
    \/ ModalConfirmed \/ PauseAnswered \/ Reset \/ Dismiss \/ Launch

\* Which worker a calm step leaves.
LEMMA CalmWorkers ==
    ASSUME worker \in Worker, page \in Page, late \subseteq Command, CalmStep
    PROVE  /\ worker' \in Worker /\ worker'.answer = Pending
           /\ worker'.phase \notin {"prepare", "fence", "act"}
           /\ late' \subseteq Command /\ page' \in Page
<1>1. \A p \in {"lease", "contain", "reset", "ready", "paused", "pause", "record_dispatch",
                "confirm_modal", "dismiss"} :
        /\ To(p) \in Worker /\ To(p).phase = p /\ To(p).answer = Pending
        /\ To(p).phase \notin {"prepare", "fence", "act"}
  BY WorkerMoves DEF Phases
<1>2. /\ Containing \in Worker /\ Containing.phase = "contain" /\ Containing.answer = Pending
      /\ Freed \in Worker /\ Freed.phase = "ready" /\ Freed.answer = Pending
  BY WorkerMoves
<1>3. EmptyPage \in Page
  BY DEF EmptyPage, Page
<1>4. CASE RunOnce
  BY <1>1, <1>4 DEF RunOnce, provider
<1>5. Unanswered \in Worker /\ Unanswered.answer = Pending
      /\ Unanswered.phase \notin {"prepare", "fence", "act"}
  BY <1>1, <1>2 DEF Unanswered
<1>6. CASE GiveUp
  <2> HIDE DEF Unanswered
  <2>1. late' \subseteq Command
    BY <1>6, AwaitedTyped DEF GiveUp
  <2> QED BY <1>5, <1>6, <2>1 DEF GiveUp, provider
<1>7. CASE Rejected
  <2> HIDE DEF Unanswered
  <2> QED BY <1>5, <1>7 DEF Rejected, provider
<1>8. CASE Uncertain
  <2>1. \A w \in Worker : LET v == [w EXCEPT !.fresh = FALSE] IN
          v \in Worker /\ v.phase = w.phase /\ v.answer = w.answer
    BY WorkerParts
  <2>2. worker' = Containing \/ worker' = [To("pause") EXCEPT !.fresh = FALSE]
    BY <1>8 DEF Uncertain
  <2>3. UNCHANGED <<late, page>>
    BY <1>8 DEF Uncertain, provider
  <2> QED BY <1>1, <1>2, <2>1, <2>2, <2>3, ZenonT(30)
<1>9. \A w \in Worker : LET v == [w EXCEPT !.modal = TRUE] IN
        v \in Worker /\ v.phase = w.phase /\ v.answer = w.answer
  BY WorkerParts
<1>10. CASE DialogSeen
  <2>1. worker' = [To("record_dispatch") EXCEPT !.modal = TRUE] /\ UNCHANGED <<late, page>>
    BY <1>10 DEF DialogSeen, provider
  <2> QED BY <1>1, <1>9, <2>1
<1>11. CASE DispatchRecorded \/ ModalConfirmed
  BY <1>1, <1>11 DEF DispatchRecorded, ModalConfirmed, provider
<1>12. CASE PauseAnswered
  <2>1. \A w \in Worker : LET v == [w EXCEPT !.hold = FALSE, !.reset = TRUE] IN
          v \in Worker /\ v.phase = w.phase /\ v.answer = w.answer
    BY DEF Worker
  <2>2. /\ \/ worker' = To("paused")
           \/ worker' = [To("reset") EXCEPT !.hold = FALSE, !.reset = TRUE]
        /\ UNCHANGED <<late, page>>
    BY <1>12 DEF PauseAnswered, provider
  <2> QED BY <1>1, <2>1, <2>2, ZenonT(30)
<1>13. CASE Reset
  <2>1. \A w \in Worker : LET v == [w EXCEPT !.reset = FALSE, !.modal = FALSE] IN
          v \in Worker /\ v.phase = w.phase /\ v.answer = w.answer
    BY DEF Worker
  <2>2. /\ \/ worker' = [Freed EXCEPT !.reset = FALSE, !.modal = FALSE]
           \/ worker' = To("ready")
        /\ late' = late /\ page' \in Page
    BY <1>3, <1>13 DEF Reset
  <2> QED BY <1>1, <1>2, <2>1, <2>2, ZenonT(30)
<1>14. CASE Dismiss
  <2>1. \A w \in Worker : LET v == [w EXCEPT !.modal = FALSE] IN
          v \in Worker /\ v.phase = w.phase /\ v.answer = w.answer
    BY WorkerParts
  <2>2. /\ \/ worker' = [Freed EXCEPT !.modal = FALSE]
           \/ worker' = To("paused")
        /\ late' = late /\ page' \in Page
    BY <1>3, <1>14 DEF Dismiss
  <2> QED BY <1>1, <1>2, <2>1, <2>2
<1>15. CASE Launch
  <2>1. NewWorker("ready") \in Worker /\ NewWorker("ready").phase = "ready"
        /\ NewWorker("ready").answer = Pending
    BY WorkerMoves DEF Phases
  <2> QED BY <1>15, <2>1 DEF Launch, provider
<1> QED BY <1>4, <1>6, <1>7, <1>8, <1>10, <1>11, <1>12, <1>13, <1>14, <1>15 DEF CalmStep

LEMMA CalmKeeps ==
    ASSUME MoneyInv, CalmStep
    PROVE  MoneyInv'
<1>1. UNCHANGED <<rows, policy, transport, allowance, posts, credited, crashes>>
  BY DEF CalmStep, RunOnce, GiveUp, Rejected, Uncertain, DialogSeen, DispatchRecorded,
         ModalConfirmed, PauseAnswered, Reset, Dismiss, Launch, broker, provider
<1> QED BY <1>1, CalmWorkers, Calm DEF MoneyInv, TypeInv

-----------------------------------------------------------------------------
(* The steps that do more. *)

\* What the broker promises survives any moves of the rows.
LEMMA BrokerMoves ==
    ASSUME BrokerInv, \A i \in Intents : Moves(i), UNCHANGED <<allowance, posts, credited>>
    PROVE  BrokerInv'
BY DEF BrokerInv, Moves

\* A step that moves rows and leaves the worker and the transfers alone.
LEMMA RowsMove ==
    ASSUME MoneyInv, rows' \in [Intents -> Row], \A i \in Intents : Moves(i), LaneInv',
           policy' \in PolicyStatus, transport' \in BOOLEAN, late' \subseteq Command,
           UNCHANGED <<worker, provider, crashes>>
    PROVE  MoneyInv'
<1>1. TypeInv'
  BY DEF MoneyInv, TypeInv, provider
<1>2. BrokerInv'
  BY BrokerMoves DEF MoneyInv, provider
<1>3. WorkerInv'
  BY DEF MoneyInv, WorkerInv, Moves, provider
<1> QED BY <1>1, <1>2, <1>3 DEF MoneyInv

LEMMA ArriveKeeps ==
    ASSUME MoneyInv, NEW c \in late, Arrive(c)
    PROVE  MoneyInv'
<1>1. PICK verdict \in Verdicts, i \in Intents \cup {None} :
        Execute(c, [verdict |-> verdict, i |-> i])
  BY DEF Arrive
<1>2. c \in Command
  BY DEF MoneyInv, TypeInv
<1>3. rows' \in [Intents -> Row] /\ policy' \in PolicyStatus /\ LaneInv'
      /\ \A j \in Intents : Moves(j)
  BY <1>1, <1>2, CommandKeeps DEF MoneyInv, TypeInv
<1>4. transport' \in BOOLEAN /\ late' \subseteq Command /\ UNCHANGED <<worker, provider, crashes>>
  BY DEF Arrive, MoneyInv, TypeInv
<1> QED BY <1>3, <1>4, RowsMove

LEMMA DeliverKeeps ==
    ASSUME MoneyInv, Deliver
    PROVE  MoneyInv'
<1>1. PICK verdict \in Verdicts, i \in Intents \cup {None} :
        /\ Execute(Awaited, [verdict |-> verdict, i |-> i])
        /\ worker' = [worker EXCEPT !.answer = [verdict |-> verdict, i |-> i]]
  BY DEF Deliver
<1> DEFINE answer == [verdict |-> verdict, i |-> i]
<1>2. worker \in Worker /\ worker.phase \in Calls
  BY DEF Deliver, Awaits, MoneyInv, TypeInv
<1>3. PICK c \in Command : c = Awaited
  BY <1>2, AwaitedTyped
<1>4. /\ rows' \in [Intents -> Row]
      /\ policy' \in PolicyStatus
      /\ \A j \in Intents : Moves(j)
      /\ LaneInv'
      /\ answer.verdict = "execute" => answer.i \in Intents /\ ~Issued(answer.i)
      /\ c.op = "fence" /\ c.i \in Intents /\ answer = Accepted => Issued(c.i)'
  <2> HIDE DEF answer
  <2> QED BY <1>1, <1>3, CommandKeeps DEF MoneyInv, TypeInv, answer
<1>5. /\ worker' \in Worker /\ worker'.phase = worker.phase
      /\ worker'.lease = worker.lease /\ worker'.answer = answer
  BY <1>1, <1>2 DEF Worker
<1>6. UNCHANGED <<transport, late, page, allowance, posts, credited, crashes>>
  BY DEF Deliver, provider
<1>7. TypeInv'
  BY <1>4, <1>5, <1>6 DEF MoneyInv, TypeInv
<1>8. BrokerInv'
  BY <1>4, <1>6, BrokerMoves DEF MoneyInv
<1>9. WorkerInv'
  <2>1. worker'.phase \notin {"prepare", "act"}
    BY <1>2, <1>5 DEF Calls
  <2>2. worker'.phase = "fence" => worker'.lease \in Intents /\ allowance'[worker'.lease] = "unused"
    BY <1>5, <1>6 DEF MoneyInv, WorkerInv
  <2>3. worker'.phase = "lease" /\ worker'.answer.verdict = "execute" =>
          worker'.answer.i \in Intents /\ allowance'[worker'.answer.i] = "unused"
    BY <1>4, <1>5, <1>6 DEF MoneyInv, BrokerInv
  <2>4. c.op = worker.phase /\ c.i = worker.lease
    BY <1>3 DEF Awaited
  <2>5. worker'.phase = "fence" /\ worker'.answer = Accepted => Issued(worker.lease)'
    BY <1>4, <1>5, <2>2, <2>4 DEF Issued
  <2> QED BY <1>5, <2>1, <2>2, <2>3, <2>5 DEF WorkerInv, Issued
<1> QED BY <1>4, <1>7, <1>8, <1>9 DEF MoneyInv

\* The steps of the worker towards the transfer.
LEMMA LeaseAnsweredKeeps ==
    ASSUME MoneyInv, LeaseAnswered
    PROVE  MoneyInv'
<1> DEFINE a == worker.answer
<1>1. worker \in Worker /\ a.i \in Intents \cup {None}
  BY DEF MoneyInv, TypeInv, Worker
<1>2. UNCHANGED <<rows, policy, transport, late, page, allowance, posts, credited, crashes>>
  BY DEF LeaseAnswered, broker, provider
<1>3. \A w \in Worker : LET v == [w EXCEPT !.lease = a.i] IN
        v \in Worker /\ v.phase = w.phase /\ v.answer = w.answer /\ v.lease = a.i
  BY <1>1, WorkerParts, ZenonT(30)
<1>4. \A q \in {"ready", "prepare", "confirm_modal", "pause"} :
        To(q) \in Worker /\ To(q).phase = q /\ To(q).answer = Pending
  BY <1>1, WorkerMoves DEF Phases
<1>5. CASE a.verdict = "execute" /\ worker' = [To("prepare") EXCEPT !.lease = a.i]
  <2>1. worker' \in Worker /\ worker'.phase = "prepare" /\ worker'.lease = a.i
    BY <1>3, <1>4, <1>5
  <2>2. a.i \in Intents /\ allowance[a.i] = "unused"
    BY <1>5 DEF LeaseAnswered, MoneyInv, WorkerInv
  <2>3. TypeInv'
    BY <1>2, <2>1 DEF MoneyInv, TypeInv
  <2>4. LaneInv' /\ BrokerInv'
    BY <1>2 DEF MoneyInv, LaneInv, BrokerInv, Open, Issued
  <2>5. WorkerInv'
    BY <1>2, <2>1, <2>2 DEF WorkerInv
  <2> QED BY <2>3, <2>4, <2>5 DEF MoneyInv
<1>6. CASE \/ worker' = To("ready")
           \/ worker' = [To("confirm_modal") EXCEPT !.lease = a.i]
           \/ worker' = [To("pause") EXCEPT !.lease = a.i]
  <2>1. worker' \in Worker /\ worker'.answer = Pending
        /\ worker'.phase \notin {"prepare", "fence", "act"}
    BY <1>3, <1>4, <1>6
  <2> QED BY <1>2, <2>1, Calm DEF MoneyInv, TypeInv
<1> QED BY <1>5, <1>6 DEF LeaseAnswered

LEMMA RequestFenceKeeps ==
    ASSUME MoneyInv, RequestFence
    PROVE  MoneyInv'
<1>1. worker \in Worker
  BY DEF MoneyInv, TypeInv
<1>2. UNCHANGED <<rows, policy, transport, late, page, allowance, posts, credited, crashes>>
  BY DEF RequestFence, broker, provider
<1>3. To("fence") \in Worker /\ To("fence").phase = "fence"
      /\ To("fence").lease = worker.lease /\ To("fence").answer = Pending
  BY <1>1, WorkerMoves DEF Phases
<1>4. worker' = [To("fence") EXCEPT !.fresh = TRUE]
  BY DEF RequestFence
<1>5. worker' \in Worker /\ worker'.phase = "fence"
      /\ worker'.lease = worker.lease /\ worker'.answer = Pending
  BY <1>3, <1>4, WorkerParts
<1>6. TypeInv' /\ LaneInv' /\ BrokerInv'
  BY <1>2, <1>5 DEF MoneyInv, TypeInv, LaneInv, BrokerInv, Open, Issued
<1>7. WorkerInv'
  BY <1>2, <1>5 DEF RequestFence, MoneyInv, WorkerInv, Pending, Accepted
<1> QED BY <1>6, <1>7 DEF MoneyInv

LEMMA FenceAnsweredKeeps ==
    ASSUME MoneyInv, FenceAnswered
    PROVE  MoneyInv'
<1>1. worker \in Worker
  BY DEF MoneyInv, TypeInv
<1>2. UNCHANGED <<rows, policy, transport, late, page, allowance, posts, credited, crashes>>
  BY DEF FenceAnswered, broker, provider
<1>3. CASE worker' = To("act")
  <2>1. worker' \in Worker /\ worker'.phase = "act" /\ worker'.lease = worker.lease
    BY <1>1, <1>3, WorkerMoves DEF Phases
  <2>2. TypeInv' /\ LaneInv' /\ BrokerInv'
    BY <1>2, <2>1 DEF MoneyInv, TypeInv, LaneInv, BrokerInv, Open, Issued
  <2>3. WorkerInv'
    BY <1>2, <2>1 DEF FenceAnswered, MoneyInv, WorkerInv, Issued
  <2> QED BY <2>2, <2>3 DEF MoneyInv
<1>4. CASE worker' = Containing
  BY <1>1, <1>2, <1>4, WorkerMoves, Calm DEF MoneyInv, TypeInv
<1>5. CASE worker' = [To("pause") EXCEPT !.fresh = FALSE]
  <2>1. To("pause") \in Worker /\ To("pause").phase = "pause" /\ To("pause").answer = Pending
    BY <1>1, WorkerMoves DEF Phases
  <2>2. worker' \in Worker /\ worker'.phase = "pause" /\ worker'.answer = Pending
    BY <1>5, <2>1, WorkerParts
  <2> QED BY <1>2, <2>2, Calm DEF MoneyInv, TypeInv
<1> QED BY <1>3, <1>4, <1>5 DEF FenceAnswered

\* The allowance is the deposit's first, and the broker issued it.
LEMMA RouteConsumesKeeps ==
    ASSUME MoneyInv, RouteConsumes
    PROVE  MoneyInv'
<1>1. PICK i \in Intents : worker.lease = i
  BY DEF RouteConsumes, MoneyInv, WorkerInv
<1>2. worker \in Worker /\ allowance[i] = "unused" /\ Issued(i)
  BY <1>1 DEF RouteConsumes, MoneyInv, TypeInv, WorkerInv
<1>3. To("watch") \in Worker /\ To("watch").phase = "watch" /\ To("watch").answer = Pending
  BY <1>2, WorkerMoves DEF Phases
<1>4. worker' \in Worker /\ worker'.phase = "watch" /\ worker'.answer = Pending
  BY <1>3, WorkerParts DEF RouteConsumes
<1>5. UNCHANGED <<rows, policy, transport, late, posts, credited, crashes>>
      /\ allowance' = [allowance EXCEPT ![i] = "consumed"]
      /\ page' = [page EXCEPT !.sent = @ \cup {i}]
  BY <1>1 DEF RouteConsumes, broker
<1>6. page' \in Page
  BY <1>5 DEF MoneyInv, TypeInv, Page
<1>7. allowance' \in [Intents -> {"unused", "consumed", "gone"}]
      /\ \A j \in Intents : allowance'[j] = IF j = i THEN "consumed" ELSE allowance[j]
  BY <1>5 DEF MoneyInv, TypeInv
<1>8. TypeInv'
  BY <1>4, <1>5, <1>6, <1>7 DEF MoneyInv, TypeInv
<1>9. BrokerInv'
  BY <1>2, <1>5, <1>7 DEF MoneyInv, BrokerInv, Issued
<1>10. LaneInv' /\ WorkerInv'
  BY <1>4, <1>5 DEF MoneyInv, LaneInv, WorkerInv, Open, Pending
<1> QED BY <1>8, <1>9, <1>10 DEF MoneyInv

\* The route lets a request pass or stops it, whatever the worker does meanwhile.
LEMMA RouteKeeps ==
    ASSUME MoneyInv, NEW i \in Intents, RouteForwards(i) \/ RouteBlocks(i)
    PROVE  MoneyInv'
<1>1. UNCHANGED <<rows, policy, transport, worker, late, credited, crashes>>
      /\ allowance[i] = "consumed" /\ allowance' = [allowance EXCEPT ![i] = "gone"]
      /\ (posts' = posts \/ posts' = [posts EXCEPT ![i] = @ + 1])
  BY DEF RouteForwards, RouteBlocks, broker
<1>2. page' \in Page
  BY DEF RouteForwards, RouteBlocks, MoneyInv, TypeInv, Page
<1>3. allowance' \in [Intents -> {"unused", "consumed", "gone"}]
      /\ \A j \in Intents : allowance'[j] = IF j = i THEN "gone" ELSE allowance[j]
  BY <1>1 DEF MoneyInv, TypeInv
<1>4. posts[i] = 0 /\ posts \in [Intents -> Nat]
  BY <1>1 DEF MoneyInv, TypeInv, BrokerInv
<1>5. posts' \in [Intents -> Nat] /\ posts'[i] \in {0, 1}
      /\ \A j \in Intents \ {i} : posts'[j] = posts[j]
  BY <1>1, <1>4
<1>6. TypeInv'
  BY <1>1, <1>2, <1>3, <1>5 DEF MoneyInv, TypeInv
<1>7. BrokerInv'
  BY <1>1, <1>3, <1>4, <1>5 DEF MoneyInv, BrokerInv, Issued
<1>8. LaneInv' /\ WorkerInv'
  BY <1>1, <1>3 DEF MoneyInv, LaneInv, WorkerInv, Open, Issued
<1> QED BY <1>6, <1>7, <1>8 DEF MoneyInv

\* A launch ends: its leases are no longer the worker's.
LEMMA StopsKeeps ==
    ASSUME MoneyInv, NEW w \in SUBSET Command, Stops(w), crashes' \in 0..MaxCrashes
    PROVE  MoneyInv'
<1>1. worker' \in Worker /\ worker'.phase = "off" /\ worker'.answer = Pending
  BY WorkerMoves DEF Stops, MoneyInv, TypeInv, Phases
<1>2. \A r \in Row : /\ [r EXCEPT !.mine = FALSE] \in Row
                     /\ [r EXCEPT !.mine = FALSE].attempt = r.attempt
                     /\ [r EXCEPT !.mine = FALSE].paid_outside = r.paid_outside
  BY OtherParts
<1>3. rows' = [i \in Intents |-> [rows[i] EXCEPT !.mine = FALSE]]
  BY DEF Stops
<1>4. rows \in [Intents -> Row]
  BY DEF MoneyInv, TypeInv
<1>5. rows' \in [Intents -> Row] /\ \A i \in Intents : Moves(i) /\ TakesNothing(i)
  BY <1>2, <1>3, <1>4 DEF Moves, TakesNothing, Issued, Open
<1>6. late' \subseteq Command
  <2>1. \A c \in Command : [c EXCEPT !.mine = FALSE] \in Command
    BY DEF Command
  <2> QED BY <2>1 DEF Stops
<1>7. page' \in Page /\ UNCHANGED <<policy, transport, posts, credited>>
  BY DEF Stops, EmptyPage, Page
<1>11. /\ allowance' \in [Intents -> {"unused", "consumed", "gone"}]
       /\ \A i \in Intents : allowance[i] = "gone" => allowance'[i] = "gone"
       /\ \A i \in Intents : allowance'[i] # "unused" => allowance[i] # "unused"
  BY DEF Stops, MoneyInv, TypeInv
<1>8. LaneInv' /\ BrokerInv'
  <2>1. \A i \in Intents : Moves(i)
    BY <1>5
  <2>2. BrokerInv
    BY DEF MoneyInv
  <2>3. BrokerInv'
    BY <1>7, <1>11, <2>1, <2>2 DEF BrokerInv, Moves
  <2> QED BY <1>5, <2>3, LaneKept DEF MoneyInv
<1>9. TypeInv'
  BY <1>1, <1>5, <1>6, <1>7, <1>11 DEF MoneyInv, TypeInv
<1>10. WorkerInv'
  BY <1>1 DEF WorkerInv
<1> QED BY <1>8, <1>9, <1>10 DEF MoneyInv

LEMMA EndKeeps ==
    ASSUME MoneyInv, Crash \/ CloseReview
    PROVE  MoneyInv'
<1>1. late \subseteq Command /\ crashes \in 0..MaxCrashes /\ worker \in Worker
  BY DEF MoneyInv, TypeInv
<1>2. CASE Crash
  <2>1. crashes' \in 0..MaxCrashes
    BY <1>1, <1>2, BoundsAssumption DEF Crash
  <2>2. CASE Stops(late)
    BY <1>1, <2>1, <2>2, StopsKeeps
  <2>3. CASE Awaits /\ Stops(late \cup {Awaited})
    <3>1. PICK w \in SUBSET Command : w = late \cup {Awaited}
      BY <1>1, <2>3, AwaitedTyped DEF Awaits
    <3>2. Stops(w)
      BY <2>3, <3>1
    <3> QED BY <2>1, <3>2, StopsKeeps
  <2> QED BY <1>2, <2>2, <2>3 DEF Crash
<1>3. CASE CloseReview
  BY <1>1, <1>3, StopsKeeps DEF CloseReview
<1> QED BY <1>2, <1>3

\* The provider and the network.
LEMMA OutsideKeeps ==
    ASSUME MoneyInv,
           \/ \E c \in late : Lose(c)
           \/ \E i \in Intents : Credit(i) \/ DialogOpens(i)
    PROVE  MoneyInv'
<1>1. UNCHANGED <<rows, policy, transport, worker, allowance, posts, crashes>>
  BY DEF Lose, Credit, DialogOpens, broker, provider
<1>2. late' \subseteq Command /\ credited' \subseteq Intents
  BY DEF Lose, Credit, DialogOpens, provider, MoneyInv, TypeInv
<1>3. page' \in Page
  BY DEF Lose, Credit, DialogOpens, provider, MoneyInv, TypeInv, Page
<1>4. TypeInv'
  BY <1>1, <1>2, <1>3 DEF MoneyInv, TypeInv
<1>5. \A i \in Intents : i \in credited' => i \in credited \/ posts[i] > 0
  BY DEF Lose, Credit, DialogOpens, provider
<1>6. LaneInv' /\ BrokerInv' /\ WorkerInv'
  BY <1>1, <1>5 DEF MoneyInv, LaneInv, BrokerInv, WorkerInv, Open, Issued
<1> QED BY <1>4, <1>6 DEF MoneyInv

LEMMA ExpiryKeeps ==
    ASSUME MoneyInv, AuthorityExpires
    PROVE  MoneyInv'
<1>1. worker' \in Worker /\ worker'.phase = worker.phase
      /\ worker'.lease = worker.lease /\ worker'.answer = worker.answer
  BY WorkerParts DEF AuthorityExpires, MoneyInv, TypeInv
<1>2. UNCHANGED <<rows, policy, transport, late, page, allowance, posts, credited, crashes>>
  BY DEF AuthorityExpires, broker, provider
<1>3. TypeInv'
  BY <1>1, <1>2 DEF MoneyInv, TypeInv
<1>4. LaneInv' /\ BrokerInv' /\ WorkerInv'
  BY <1>1, <1>2 DEF MoneyInv, LaneInv, BrokerInv, WorkerInv, Open, Issued
<1> QED BY <1>3, <1>4 DEF MoneyInv

\* A lease or a fence that ends stays what it is until a command looks at it.
LEMMA LapseKeeps ==
    ASSUME MoneyInv, NEW i \in Intents, Lapse(i)
    PROVE  MoneyInv'
<1>1. rows \in [Intents -> Row]
  BY DEF MoneyInv, TypeInv
<1>2. rows' = [rows EXCEPT ![i] = [rows[i] EXCEPT !.lapsed = TRUE]]
  BY DEF Lapse
<1>3. rows' \in [Intents -> Row] /\ \A j \in Intents : Moves(j) /\ TakesNothing(j)
  <2> DEFINE r == [rows[i] EXCEPT !.lapsed = TRUE]
  <2>1. r \in Row /\ r.attempt = rows[i].attempt /\ r.paid_outside = rows[i].paid_outside
    BY <1>1, OtherParts
  <2>2. rows' = [rows EXCEPT ![i] = r]
    BY <1>2
  <2> HIDE DEF r
  <2> QED BY <1>1, <2>1, <2>2, OneRow DEF Issued
<1>4. transport' \in BOOLEAN /\ policy' \in PolicyStatus /\ late' \subseteq Command
      /\ UNCHANGED <<worker, provider, crashes>>
  BY DEF Lapse, MoneyInv, TypeInv
<1>5. LaneInv'
  BY <1>3, LaneKept DEF MoneyInv
<1> QED BY <1>3, <1>4, <1>5, RowsMove

\* The Owner: a switch, or a credit by hand of a deposit that was never fenced.
LEMMA OwnerKeeps ==
    ASSUME MoneyInv, OwnerStep
    PROVE  MoneyInv'
<1>1. CASE Authorize \/ StopPolicy \/ DisableTransport \/ ActivateTransport
  <2>1. rows' = rows /\ policy' \in PolicyStatus /\ transport' \in BOOLEAN
        /\ late' = late /\ UNCHANGED <<worker, provider, crashes>>
    BY <1>1 DEF Authorize, StopPolicy, DisableTransport, ActivateTransport, PolicyStatus,
                MoneyInv, TypeInv
  <2>2. \A i \in Intents : Moves(i) /\ TakesNothing(i)
    BY <2>1 DEF Moves, TakesNothing, Issued, Open
  <2> QED BY <2>1, <2>2, LaneKept, RowsMove DEF MoneyInv, TypeInv
<1>2. ASSUME NEW i \in Intents, RecordStoppedCredit(i)
      PROVE  MoneyInv'
  <2>1. rows \in [Intents -> Row] /\ rows[i].attempt = "cancelled_before_action"
    BY <1>2 DEF RecordStoppedCredit, MoneyInv, TypeInv
  <2>2. PaidOutside(rows[i]) \in Row /\ PaidOutside(rows[i]).attempt = rows[i].attempt
    BY <2>1, OtherParts
  <2>3. rows' = [rows EXCEPT ![i] = PaidOutside(rows[i])]
    BY <1>2 DEF RecordStoppedCredit
  <2>4. rows' \in [Intents -> Row] /\ rows'[i].attempt = rows[i].attempt
        /\ \A j \in Intents : j # i => rows'[j] = rows[j]
    BY <2>1, <2>2, <2>3
  <2>5. \A j \in Intents : rows'[j].attempt = rows[j].attempt
    BY <2>4
  <2>6. UNCHANGED <<policy, transport, worker, late, page, allowance, posts, credited, crashes>>
    BY <1>2 DEF RecordStoppedCredit, provider
  <2>7. TypeInv'
    BY <2>4, <2>6 DEF MoneyInv, TypeInv
  <2>8. LaneInv' /\ WorkerInv'
    BY <2>5, <2>6 DEF MoneyInv, LaneInv, WorkerInv, Open, Issued
  <2>9. BrokerInv'
    BY <2>1, <2>4, <2>5, <2>6 DEF MoneyInv, BrokerInv, Issued
  <2> QED BY <2>7, <2>8, <2>9 DEF MoneyInv
<1> QED BY <1>1, <1>2 DEF OwnerStep

-----------------------------------------------------------------------------
(* The theorems. *)

LEMMA MoneyInitially == Init => MoneyInv
<1> SUFFICES ASSUME Init PROVE MoneyInv
  OBVIOUS
<1>1. NewRow \in Row
  BY DEF NewRow, Row, AttemptStatus
<1>2. worker = NewWorker("off")
  BY DEF Init
<1>3. NewWorker("off") \in Worker /\ NewWorker("off").phase = "off"
  BY DEF NewWorker, Worker, Phases, Pending, Verdicts
<1>4. \A i \in Intents : rows[i].attempt = "none" /\ rows[i].paid_outside = FALSE /\ posts[i] = 0
        /\ allowance[i] = "unused" /\ i \notin credited
  BY DEF Init, NewRow
<1>5. TypeInv
  BY <1>1, <1>2, <1>3, BoundsAssumption DEF Init, TypeInv, PolicyStatus, EmptyPage, Page
<1>6. LaneInv /\ BrokerInv
  BY <1>4 DEF LaneInv, BrokerInv, Open, OpenStatus, Doubtful
<1>7. WorkerInv
  BY <1>2, <1>3 DEF WorkerInv
<1> QED BY <1>5, <1>6, <1>7 DEF MoneyInv

LEMMA MoneyStep == MoneyInv /\ [Next]_vars => MoneyInv'
<1> SUFFICES ASSUME MoneyInv, [Next]_vars PROVE MoneyInv'
  OBVIOUS
<1>1. CASE UNCHANGED vars
  BY <1>1 DEF vars, MoneyInv, TypeInv, LaneInv, BrokerInv, WorkerInv, Open, Issued
<1>2. CASE WorkerStep
  BY <1>2, CalmKeeps, LeaseAnsweredKeeps, RequestFenceKeeps, FenceAnsweredKeeps,
     RouteConsumesKeeps
  DEF WorkerStep, CalmStep
<1>3. CASE OwnerStep
  BY <1>3, OwnerKeeps
<1>4. CASE Deliver
  BY <1>4, DeliverKeeps
<1>5. CASE GiveUp \/ Launch
  BY <1>5, CalmKeeps DEF CalmStep
<1>6. CASE \E c \in late : Arrive(c) \/ Lose(c)
  BY <1>6, ArriveKeeps, OutsideKeeps
<1>7. CASE Crash \/ CloseReview
  BY <1>7, EndKeeps
<1>8. CASE AuthorityExpires
  BY <1>8, ExpiryKeeps
<1>9. CASE \E i \in Intents : Credit(i) \/ DialogOpens(i) \/ Lapse(i)
  BY <1>9, OutsideKeeps, LapseKeeps
<1>10. CASE \E i \in Intents : RouteForwards(i) \/ RouteBlocks(i)
  BY <1>10, RouteKeeps
<1> QED BY <1>1, <1>2, <1>3, <1>4, <1>5, <1>6, <1>7, <1>8, <1>9, <1>10 DEF Next

LEMMA MoneyAlways == Spec => []MoneyInv
BY MoneyInitially, MoneyStep, PTL DEF Spec

\* Every variable keeps its type, and no deposit is transferred twice.
THEOREM TypeCorrect == Spec => []RoutineTypeOK
<1>1. MoneyInv => RoutineTypeOK
  <2> SUFFICES ASSUME MoneyInv PROVE RoutineTypeOK
    OBVIOUS
  <2>1. \A i \in Intents : posts[i] \in 0..2
    BY DEF MoneyInv, BrokerInv
  <2>2. posts \in [Intents -> 0..2]
    BY <2>1 DEF MoneyInv, TypeInv
  <2> QED BY <2>2 DEF MoneyInv, TypeInv, RoutineTypeOK
<1> QED BY <1>1, MoneyAlways, PTL

\* No deposit is credited both by the companion and by hand, nor twice by either.
THEOREM PaidOnce == Spec => []NeverPaidTwice
<1>1. MoneyInv => NeverPaidTwice
  BY DEF MoneyInv, BrokerInv, NeverPaidTwice, Issued
<1> QED BY <1>1, MoneyAlways, PTL

\* No player has two transfers whose outcome is open.
THEOREM OneDoubt == Spec => []OneDoubtPerPlayer
<1>1. MoneyInv => OneDoubtPerPlayer
  BY DEF MoneyInv, LaneInv, BrokerInv, OneDoubtPerPlayer, Issued, Doubtful, OpenStatus
<1> QED BY <1>1, MoneyAlways, PTL

-----------------------------------------------------------------------------
(* The page, and the dialog as proof. *)

Clean == page.sent = {} /\ page.dialogs = {}

\* Phases that begin or end a deposit find the page clean, unless the payment
\* is still to be contained or its page to be reset.
CleanInv ==
    /\ \/ worker.phase \in {"off", "lease"}
       \/ worker.phase = "ready" /\ worker.hold = FALSE /\ worker.reset = FALSE
       \/ worker.phase \in {"confirm_modal", "dismiss"} /\ worker.modal = FALSE
       => Clean
    /\ worker.phase = "contain" => worker.hold = TRUE
    /\ worker.phase = "reset" => worker.reset = TRUE
    /\ worker.phase = "record_dispatch" => worker.modal = TRUE

\* The broker has evidence of the deposit's credit, or took it for executed.
Backed(i) == rows[i].evidence = TRUE \/ rows[i].attempt = "confirmed_executed"

\* Whatever claims a credit, a dialog, a record of one, a request to record one,
\* is of a deposit the provider credited.
CreditInv ==
    /\ page.dialogs \subseteq credited
    /\ \A i \in Intents : Backed(i) => i \in credited
    /\ worker.phase = "record_dispatch" => worker.lease \in credited
    /\ \A c \in late : c.op = "record_dispatch" => c.i \in credited

ShownInv == PageIsOwn /\ CleanInv /\ CreditInv

\* Which rows a command may come to back with evidence.
LEMMA CommandBacks ==
    ASSUME rows \in [Intents -> Row], NEW c \in Command, NEW answer, Execute(c, answer),
           NEW i \in Intents, Backed(i)'
    PROVE  Backed(i) \/ (c.op = "record_dispatch" /\ c.i = i)
<1>1. \A r \in Row : /\ Cancelled(r).evidence = r.evidence
                     /\ Cancelled(r).attempt = "cancelled_before_action"
                     /\ \A b : Leased(r, b).evidence = r.evidence /\ Leased(r, b).attempt = "prepared"
                     /\ Fenced(r).evidence = r.evidence /\ Fenced(r).attempt = "final_action_fenced"
                     /\ HandedOff(r).evidence = r.evidence
                     /\ HandedOff(r).attempt = "reconciliation_required"
                     /\ Isolated(r).evidence = r.evidence /\ Isolated(r).attempt = "review_required"
                     /\ [r EXCEPT !.review = "open"].evidence = r.evidence
                     /\ [r EXCEPT !.review = "open"].attempt = r.attempt
  BY DEF Row, Cancelled, Leased, Fenced, HandedOff, Isolated
<1>2. ASSUME NEW table \in [Intents -> Row], LeaseNext(c, table, answer),
             table[i].evidence = rows[i].evidence,
             table[i].attempt = "confirmed_executed" => rows[i].attempt = "confirmed_executed"
      PROVE  Backed(i)
  <2>1. rows' = table \/ \E j \in Intents : rows' = [table EXCEPT ![j] = Leased(table[j], c.mine)]
    BY <1>2 DEF LeaseNext
  <2>2. CASE rows' = table
    BY <1>2, <2>2 DEF Backed
  <2>3. ASSUME NEW j \in Intents, rows' = [table EXCEPT ![j] = Leased(table[j], c.mine)]
        PROVE  Backed(i)
    <3>1. rows'[i] = IF i = j THEN Leased(table[j], c.mine) ELSE table[i]
      BY <1>2, <2>3
    <3>2. table[j] \in Row
      BY <1>2
    <3> QED BY <1>1, <1>2, <3>1, <3>2 DEF Backed
  <2> QED BY <2>1, <2>2, <2>3
<1>3. CASE c.op = "lease" /\ Lease(c, answer)
  <2>1. CASE LeaseNext(c, rows, answer)
    BY <1>2, <2>1
  <2>2. ASSUME NEW j \in Intents, LeaseHeld(c, j, answer) PROVE Backed(i)
    <3>1. CASE LeaseNext(c, [rows EXCEPT ![j] = Cancelled(rows[j])], answer)
      <4> DEFINE table == [rows EXCEPT ![j] = Cancelled(rows[j])]
      <4>1. Cancelled(rows[j]) \in Row
        BY RowParts
      <4>2. table \in [Intents -> Row]
        BY <4>1
      <4>3. table[i] = IF i = j THEN Cancelled(rows[j]) ELSE rows[i]
        OBVIOUS
      <4>4. table[i].evidence = rows[i].evidence
            /\ (table[i].attempt = "confirmed_executed" => rows[i].attempt = "confirmed_executed")
        BY <1>1, <4>3
      <4>5. LeaseNext(c, table, answer)
        BY <3>1
      <4> HIDE DEF table
      <4> QED BY <1>2, <4>2, <4>4, <4>5
    <3>2. CASE UNCHANGED rows
      BY <3>2 DEF Backed
    <3>3. CASE rows' = [rows EXCEPT ![j] = HandedOff(@)]
      <4>1. rows'[i] = IF i = j THEN HandedOff(rows[j]) ELSE rows[i]
        BY <3>3
      <4> QED BY <1>1, <4>1 DEF Backed
    <3> QED BY <2>2, <3>1, <3>2, <3>3 DEF LeaseHeld
  <2> QED BY <1>3, <2>1, <2>2 DEF Lease
<1>4. CASE UNCHANGED rows
  BY <1>4 DEF Backed
<1>5. CASE /\ c.op # "lease" /\ Accepts(c) /\ c.i \in Intents
           /\ rows' = [rows EXCEPT ![c.i] = Result(c)]
  <2> DEFINE r == rows[c.i]
  <2>1. r \in Row /\ rows'[i] = IF i = c.i THEN Result(c) ELSE rows[i]
    BY <1>5
  <2>2. c.op \in {"fence", "record_dispatch", "confirm_modal", "contain", "pause"}
    BY <1>5 DEF Command, Operations
  <2>3. CASE i # c.i \/ c.op = "record_dispatch"
    BY <2>1, <2>3 DEF Backed
  <2>4. CASE c.op = "fence"
    BY <1>1, <2>1, <2>4 DEF Backed, Result
  <2>5. CASE c.op = "confirm_modal"
    BY <1>5, <2>1, <2>5 DEF Backed, Accepts, Confirmable
  <2>6. CASE c.op = "contain"
    <3>1. \/ Result(c) = Cancelled(r) \/ Result(c) = Isolated(r) \/ Result(c) = r
          \/ Result(c) = [r EXCEPT !.review = "open"]
      BY <2>6 DEF Result, Contained
    <3>2. /\ Result(c).evidence = r.evidence
          /\ Result(c).attempt = "confirmed_executed" => r.attempt = "confirmed_executed"
      <4>1. CASE Result(c) = Cancelled(r) \/ Result(c) = Isolated(r) \/ Result(c) = r
        BY <1>1, <2>1, <4>1
      <4>2. CASE Result(c) = [r EXCEPT !.review = "open"]
        BY <2>1, <4>2 DEF Row
      <4> QED BY <3>1, <4>1, <4>2
    <3> QED BY <2>1, <3>2 DEF Backed
  <2>7. CASE c.op = "pause"
    <3>1. Result(c) \in {Cancelled(r), r}
      BY <2>7 DEF Result
    <3> QED BY <1>1, <2>1, <3>1 DEF Backed
  <2> QED BY <2>2, <2>3, <2>4, <2>5, <2>6, <2>7
<1>6. c.i \in Intents \/ c.i = None
  BY DEF Command
<1> QED BY <1>3, <1>4, <1>5, <1>6 DEF Execute

\* The flags of the workers the steps make.
LEMMA WorkerFlags ==
    ASSUME worker \in Worker
    PROVE  /\ \A p \in Phases : /\ To(p).phase = p /\ To(p).lease = worker.lease
                               /\ To(p).hold = worker.hold /\ To(p).reset = worker.reset
                               /\ To(p).modal = worker.modal
           /\ Containing.phase = "contain" /\ Containing.hold = TRUE
           /\ Freed.phase = "ready" /\ Freed.hold = worker.hold /\ Freed.reset = worker.reset
           /\ Freed.modal = worker.modal
           /\ \A p \in Phases : NewWorker(p).phase = p
BY DEF To, Containing, Freed, NewWorker, Worker

\* A dialog that is the only one is the deposit's own.
LEMMA OnlyDialog ==
    ASSUME NEW i, NEW D \in SUBSET {i}, Cardinality(D) = 1
    PROVE  D = {i}
<1>1. D = {} \/ D = {i}
  OBVIOUS
<1>2. Cardinality({}) = 0
  BY FS_EmptySet
<1> QED BY <1>1, <1>2

\* What the broker believes does not depend on the worker's steps.
LEMMA CreditKept ==
    ASSUME CreditInv, UNCHANGED <<rows, page, credited>>,
           worker'.phase = "record_dispatch" => worker'.lease \in credited,
           \A c \in late' : c.op = "record_dispatch" => c \in late \/ c.i \in credited
    PROVE  CreditInv'
BY DEF CreditInv, Backed

\* The calm steps.
LEMMA CalmShown ==
    ASSUME MoneyInv, ShownInv, CalmStep
    PROVE  ShownInv'
<1> DEFINE own == {"prepare", "fence", "act", "watch"}
<1>1. worker \in Worker /\ page \in Page
  BY DEF MoneyInv, TypeInv
<1>2. \A p \in {"lease", "contain", "reset", "ready", "paused", "pause", "record_dispatch",
                "confirm_modal", "dismiss"} :
        /\ To(p).phase = p /\ To(p).lease = worker.lease
        /\ To(p).hold = worker.hold /\ To(p).reset = worker.reset /\ To(p).modal = worker.modal
        /\ To(p) \in Worker
  BY <1>1, WorkerFlags, WorkerMoves DEF Phases
<1>3. /\ Containing.phase = "contain" /\ Containing.hold = TRUE
      /\ Freed.phase = "ready" /\ Freed.hold = worker.hold /\ Freed.reset = worker.reset
      /\ Freed.modal = worker.modal /\ Freed \in Worker
  BY <1>1, WorkerFlags, WorkerMoves
<1>4. EmptyPage.sent = {} /\ EmptyPage.dialogs = {}
  BY DEF EmptyPage
<1>5. CASE RunOnce
  <2>1. worker.phase = "ready" /\ UNCHANGED <<rows, late, page, credited>>
    BY <1>5 DEF RunOnce, broker, provider
  <2>2. /\ worker.hold = TRUE => worker' = To("contain")
        /\ worker.hold = FALSE /\ worker.reset = TRUE => worker' = To("reset")
        /\ worker.hold = FALSE /\ worker.reset = FALSE => worker' = To("lease")
    BY <1>5 DEF RunOnce
  <2>3. worker.hold \in BOOLEAN /\ worker.reset \in BOOLEAN
    BY <1>1 DEF Worker
  <2>4. PageIsOwn' /\ CleanInv'
    BY <1>2, <2>1, <2>2, <2>3 DEF ShownInv, PageIsOwn, CleanInv, Clean
  <2>5. CreditInv'
    BY <1>2, <2>1, <2>2, <2>3, CreditKept DEF ShownInv
  <2> QED BY <2>4, <2>5 DEF ShownInv
<1>6. CASE Rejected \/ GiveUp
  <2>1. worker' = Unanswered /\ worker.phase \in Calls /\ UNCHANGED <<rows, page, credited>>
        /\ (late' = late \/ late' = late \cup {Awaited})
    BY <1>6 DEF Rejected, GiveUp, broker, provider
  <2>2. \A c \in late' : c.op = "record_dispatch" => c \in late \/ c.i \in credited
    BY <2>1 DEF Awaited, ShownInv, CreditInv
  <2>3. \/ worker.phase = "lease" /\ worker' = Freed
        \/ worker.phase = "contain" /\ worker' = To("ready")
        \/ worker' = To("paused")
        \/ worker' = Containing
    BY <2>1 DEF Unanswered
  <2>4. PageIsOwn' /\ CleanInv'
    BY <1>2, <1>3, <2>1, <2>3 DEF ShownInv, PageIsOwn, CleanInv, Clean
  <2>5. CreditInv'
    BY <1>2, <1>3, <2>1, <2>2, <2>3, CreditKept DEF ShownInv
  <2> QED BY <2>4, <2>5 DEF ShownInv
<1>7. CASE Uncertain
  <2>1. UNCHANGED <<rows, late, page, credited>>
    BY <1>7 DEF Uncertain, broker, provider
  <2>2. \A w \in Worker : [w EXCEPT !.fresh = FALSE].phase = w.phase
    BY DEF Worker
  <2>3. worker' = Containing \/ worker'.phase = "pause"
    BY <1>2, <1>7, <2>2 DEF Uncertain
  <2>4. PageIsOwn' /\ CleanInv'
    BY <1>3, <2>1, <2>3 DEF ShownInv, PageIsOwn, CleanInv, Clean
  <2>5. CreditInv'
    BY <1>3, <2>1, <2>3, CreditKept DEF ShownInv
  <2> QED BY <2>4, <2>5 DEF ShownInv
<1>8. CASE DialogSeen
  <2>1. worker.phase = "watch" /\ Cardinality(page.dialogs) = 1
        /\ UNCHANGED <<rows, late, page, credited>>
    BY <1>8 DEF DialogSeen, broker, provider
  <2>2. page.dialogs \subseteq {worker.lease}
    BY <2>1 DEF ShownInv, PageIsOwn
  <2>3. PICK i : i = worker.lease
    OBVIOUS
  <2>4. PICK D \in SUBSET {i} : D = page.dialogs
    BY <2>2, <2>3
  <2>5. worker.lease \in page.dialogs
    BY <2>1, <2>3, <2>4, OnlyDialog
  <2>6. worker.lease \in credited
    BY <2>5 DEF ShownInv, CreditInv
  <2>7. \A w \in Worker : LET v == [w EXCEPT !.modal = TRUE] IN
          v.phase = w.phase /\ v.lease = w.lease /\ v.modal = TRUE
    BY DEF Worker
  <2>8. worker'.phase = "record_dispatch" /\ worker'.lease = worker.lease /\ worker'.modal = TRUE
    BY <1>2, <1>8, <2>7 DEF DialogSeen
  <2>9. PageIsOwn' /\ CleanInv'
    BY <2>8 DEF PageIsOwn, CleanInv
  <2>10. CreditInv'
    BY <2>1, <2>6, <2>8, CreditKept DEF ShownInv
  <2> QED BY <2>9, <2>10 DEF ShownInv
<1>9. CASE DispatchRecorded \/ ModalConfirmed
  <2>1. /\ \/ worker.phase = "record_dispatch" /\ worker' = To("confirm_modal")
           \/ worker.phase = "confirm_modal" /\ worker' = To("dismiss")
        /\ UNCHANGED <<rows, late, page, credited>>
    BY <1>9 DEF DispatchRecorded, ModalConfirmed, broker, provider
  <2>2. PageIsOwn' /\ CleanInv'
    BY <1>2, <2>1 DEF ShownInv, PageIsOwn, CleanInv, Clean
  <2>3. CreditInv'
    BY <1>2, <2>1, CreditKept DEF ShownInv
  <2> QED BY <2>2, <2>3 DEF ShownInv
<1>10. CASE PauseAnswered
  <2>1. \A w \in Worker : LET v == [w EXCEPT !.hold = FALSE, !.reset = TRUE] IN
          v.phase = w.phase /\ v.reset = TRUE
    BY DEF Worker
  <2>2. UNCHANGED <<rows, late, page, credited>>
    BY <1>10 DEF PauseAnswered, broker, provider
  <2>3. worker'.phase = "paused" \/ (worker'.phase = "reset" /\ worker'.reset = TRUE)
    BY <1>2, <1>10, <2>1 DEF PauseAnswered
  <2>4. PageIsOwn' /\ CleanInv'
    BY <2>3 DEF PageIsOwn, CleanInv
  <2>5. CreditInv'
    BY <2>2, <2>3, CreditKept DEF ShownInv
  <2> QED BY <2>4, <2>5 DEF ShownInv
<1>11. ASSUME page' = EmptyPage, UNCHANGED <<rows, late, credited>>,
              worker'.phase = "ready"
       PROVE  ShownInv'
  <2>1. PageIsOwn' /\ CleanInv'
    BY <1>4, <1>11 DEF PageIsOwn, CleanInv, Clean
  <2>2. CreditInv'
    BY <1>4, <1>11 DEF ShownInv, CreditInv, Backed
  <2> QED BY <2>1, <2>2 DEF ShownInv
<1>12. CASE Reset
  <2>1. \A w \in Worker : [w EXCEPT !.reset = FALSE, !.modal = FALSE].phase = w.phase
    BY DEF Worker
  <2>2. UNCHANGED <<rows, late, credited>> /\ worker.phase = "reset"
    BY <1>12 DEF Reset, broker
  <2>3. \/ worker'.phase = "ready" /\ page' = EmptyPage
        \/ worker' = To("ready") /\ page' = page
    BY <1>3, <1>12, <2>1 DEF Reset
  <2>4. ASSUME worker' = To("ready"), page' = page PROVE ShownInv'
    <3>1. PageIsOwn' /\ CleanInv'
      BY <1>2, <2>2, <2>4 DEF ShownInv, PageIsOwn, CleanInv, Clean
    <3>2. CreditInv'
      BY <1>2, <2>2, <2>4, CreditKept DEF ShownInv
    <3> QED BY <3>1, <3>2 DEF ShownInv
  <2> QED BY <1>11, <2>2, <2>3, <2>4
<1>13. CASE Dismiss
  <2>1. \A w \in Worker : [w EXCEPT !.modal = FALSE].phase = w.phase
    BY DEF Worker
  <2>2. UNCHANGED <<rows, late, credited>> /\ worker.phase = "dismiss" /\ worker.modal \in BOOLEAN
    BY <1>1, <1>13 DEF Dismiss, broker, Worker
  <2>3. \/ worker'.phase = "ready" /\ page' = EmptyPage
        \/ worker.modal = FALSE /\ worker'.phase = "ready" /\ page' = page
        \/ worker'.phase = "paused" /\ page' = page
    BY <1>2, <1>3, <1>13, <2>1, <2>2, ZenonT(30) DEF Dismiss
  <2>4. ASSUME page' = page,
               worker'.phase = "paused" \/ (worker.modal = FALSE /\ worker'.phase = "ready")
        PROVE  ShownInv'
    <3>1. PageIsOwn' /\ CleanInv'
      BY <2>2, <2>4 DEF ShownInv, PageIsOwn, CleanInv, Clean
    <3>2. CreditInv'
      BY <2>2, <2>4, CreditKept DEF ShownInv
    <3> QED BY <3>1, <3>2 DEF ShownInv
  <2> QED BY <1>11, <2>2, <2>3, <2>4
<1>14. CASE Launch
  <2>1. worker.phase = "off" /\ worker'.phase = "ready" /\ UNCHANGED <<rows, late, page, credited>>
    BY <1>1, <1>14, WorkerFlags DEF Launch, broker, provider, Phases
  <2>2. PageIsOwn' /\ CleanInv'
    BY <2>1 DEF ShownInv, PageIsOwn, CleanInv, Clean
  <2>3. CreditInv'
    BY <2>1, CreditKept DEF ShownInv
  <2> QED BY <2>2, <2>3 DEF ShownInv
<1> QED BY <1>5, <1>6, <1>7, <1>8, <1>9, <1>10, <1>12, <1>13, <1>14 DEF CalmStep

\* Steps that leave the worker and the page alone.
LEMMA AsideShown ==
    ASSUME ShownInv, UNCHANGED <<worker, page>>, credited \subseteq credited',
           \A i \in Intents : Backed(i)' => Backed(i) \/ i \in credited,
           late' \subseteq late
    PROVE  ShownInv'
BY DEF ShownInv, PageIsOwn, CleanInv, Clean, CreditInv

LEMMA ArriveShown ==
    ASSUME MoneyInv, ShownInv, NEW c \in late, Arrive(c)
    PROVE  ShownInv'
<1>1. PICK verdict \in Verdicts, k \in Intents \cup {None} :
        Execute(c, [verdict |-> verdict, i |-> k])
  BY DEF Arrive
<1>2. c \in Command /\ rows \in [Intents -> Row]
  BY DEF MoneyInv, TypeInv
<1>3. ASSUME NEW i \in Intents, Backed(i)' PROVE Backed(i) \/ i \in credited
  BY <1>1, <1>2, <1>3, CommandBacks DEF ShownInv, CreditInv
<1>4. UNCHANGED <<worker, page, credited>> /\ late' \subseteq late
  BY DEF Arrive, provider
<1> QED BY <1>3, <1>4, AsideShown

LEMMA DeliverShown ==
    ASSUME MoneyInv, ShownInv, Deliver
    PROVE  ShownInv'
<1>1. PICK verdict \in Verdicts, k \in Intents \cup {None} :
        /\ Execute(Awaited, [verdict |-> verdict, i |-> k])
        /\ worker' = [worker EXCEPT !.answer = [verdict |-> verdict, i |-> k]]
  BY DEF Deliver
<1>2. worker \in Worker /\ worker.phase \in Calls /\ rows \in [Intents -> Row]
  BY DEF Deliver, Awaits, MoneyInv, TypeInv
<1>3. PICK c \in Command : c = Awaited
  BY <1>2, AwaitedTyped
<1>4. ASSUME NEW i \in Intents, Backed(i)' PROVE Backed(i) \/ i \in credited
  <2>1. Backed(i) \/ (c.op = "record_dispatch" /\ c.i = i)
    BY <1>1, <1>2, <1>3, <1>4, CommandBacks
  <2> QED BY <1>3, <2>1 DEF Awaited, ShownInv, CreditInv
<1>5. /\ worker'.phase = worker.phase /\ worker'.lease = worker.lease
      /\ worker'.hold = worker.hold /\ worker'.reset = worker.reset /\ worker'.modal = worker.modal
  BY <1>1, <1>2 DEF Worker
<1>6. UNCHANGED <<late, page, credited>>
  BY DEF Deliver, provider
<1>7. PageIsOwn' /\ CleanInv'
  BY <1>5, <1>6 DEF ShownInv, PageIsOwn, CleanInv, Clean
<1>8. CreditInv'
  BY <1>4, <1>5, <1>6 DEF ShownInv, CreditInv
<1> QED BY <1>7, <1>8 DEF ShownInv

\* The steps towards the transfer keep the page the deposit's own.
LEMMA ForwardShown ==
    ASSUME MoneyInv, ShownInv, LeaseAnswered \/ RequestFence \/ FenceAnswered \/ AuthorityExpires
    PROVE  ShownInv'
<1>1. worker \in Worker
  BY DEF MoneyInv, TypeInv
<1>2. UNCHANGED <<rows, late, page, credited>>
  BY DEF LeaseAnswered, RequestFence, FenceAnswered, AuthorityExpires, broker, provider
<1>3. \A p \in {"ready", "prepare", "confirm_modal", "pause", "fence", "act"} :
        /\ To(p).phase = p /\ To(p).lease = worker.lease /\ To(p).modal = worker.modal
        /\ To(p) \in Worker
  BY <1>1, WorkerFlags, WorkerMoves DEF Phases
<1>4. \A w \in Worker : LET v == [w EXCEPT !.lease = worker.answer.i] IN
        v.phase = w.phase /\ v.modal = w.modal
  BY DEF Worker
<1>5. \A w \in Worker, b \in BOOLEAN : LET v == [w EXCEPT !.fresh = b] IN
        /\ v.phase = w.phase /\ v.lease = w.lease /\ v.hold = w.hold
        /\ v.reset = w.reset /\ v.modal = w.modal
  BY DEF Worker
<1>6. CASE LeaseAnswered
  <2>1. Clean
    BY <1>6 DEF LeaseAnswered, ShownInv, CleanInv
  <2>2. worker'.phase \in {"ready", "prepare", "confirm_modal", "pause"}
    BY <1>3, <1>4, <1>6 DEF LeaseAnswered
  <2>3. PageIsOwn' /\ CleanInv'
    BY <1>2, <2>1, <2>2 DEF PageIsOwn, CleanInv, Clean
  <2>4. CreditInv'
    BY <1>2, <2>2, CreditKept DEF ShownInv
  <2> QED BY <2>3, <2>4 DEF ShownInv
<1>7. ASSUME worker.phase \in {"prepare", "fence"},
              \/ worker'.phase \in {"fence", "act"} /\ worker'.lease = worker.lease
              \/ worker'.phase = "pause"
              \/ worker' = Containing
      PROVE  ShownInv'
  <2>1. PageIsOwn' /\ CleanInv'
    BY <1>1, <1>2, <1>7, WorkerFlags DEF ShownInv, PageIsOwn, CleanInv
  <2>2. CreditInv'
    BY <1>1, <1>2, <1>7, WorkerFlags, CreditKept DEF ShownInv
  <2> QED BY <2>1, <2>2 DEF ShownInv
<1>9. CASE RequestFence
  <2>1. worker' = [To("fence") EXCEPT !.fresh = TRUE]
    BY <1>9 DEF RequestFence
  <2>2. worker'.phase = "fence" /\ worker'.lease = worker.lease
    BY <1>3, <1>5, <2>1
  <2> QED BY <1>7, <1>9, <2>2 DEF RequestFence
<1>10. CASE FenceAnswered
  <2>1. CASE worker' = To("act")
    <3>1. worker'.phase = "act" /\ worker'.lease = worker.lease
      BY <1>3, <2>1
    <3> QED BY <1>7, <1>10, <3>1 DEF FenceAnswered
  <2>2. CASE worker' = Containing
    BY <1>7, <1>10, <2>2 DEF FenceAnswered
  <2>3. CASE worker' = [To("pause") EXCEPT !.fresh = FALSE]
    <3>1. worker'.phase = "pause"
      BY <1>3, <1>5, <2>3
    <3> QED BY <1>7, <1>10, <3>1 DEF FenceAnswered
  <2> QED BY <1>10, <2>1, <2>2, <2>3 DEF FenceAnswered
<1>8. CASE AuthorityExpires
  <2>1. /\ worker'.phase = worker.phase /\ worker'.lease = worker.lease
        /\ worker'.hold = worker.hold /\ worker'.reset = worker.reset
        /\ worker'.modal = worker.modal
    BY <1>1, <1>5, <1>8 DEF AuthorityExpires
  <2>2. PageIsOwn' /\ CleanInv'
    BY <1>2, <2>1 DEF ShownInv, PageIsOwn, CleanInv, Clean
  <2>3. CreditInv'
    BY <1>2, <2>1, CreditKept DEF ShownInv, CreditInv
  <2> QED BY <2>2, <2>3 DEF ShownInv
<1> QED BY <1>6, <1>8, <1>9, <1>10

LEMMA RouteConsumesShown ==
    ASSUME MoneyInv, ShownInv, RouteConsumes
    PROVE  ShownInv'
<1>1. worker \in Worker /\ page \in Page /\ worker.phase = "act"
  BY DEF MoneyInv, TypeInv, RouteConsumes
<1>2. UNCHANGED <<rows, late, credited>>
  BY DEF RouteConsumes, broker
<1>3. page'.sent = page.sent \cup {worker.lease} /\ page'.dialogs = page.dialogs
  BY <1>1 DEF RouteConsumes, Page
<1>4. worker'.phase = "watch" /\ worker'.lease = worker.lease
  <2>1. \A w \in Worker : LET v == [w EXCEPT !.fresh = FALSE] IN
          v.phase = w.phase /\ v.lease = w.lease
    BY DEF Worker
  <2> QED BY <1>1, <2>1, WorkerFlags, WorkerMoves DEF RouteConsumes, Phases
<1>5. PageIsOwn' /\ CleanInv'
  BY <1>1, <1>3, <1>4 DEF ShownInv, PageIsOwn, CleanInv
<1>6. CreditInv'
  BY <1>2, <1>3, <1>4 DEF ShownInv, CreditInv, Backed
<1> QED BY <1>5, <1>6 DEF ShownInv

\* The route takes a request from the page, or sends it and leaves the page alone.
LEMMA RouteShown ==
    ASSUME MoneyInv, ShownInv, NEW i \in Intents, RouteForwards(i) \/ RouteBlocks(i)
    PROVE  ShownInv'
<1>1. page \in Page /\ UNCHANGED <<rows, worker, late, credited>>
  BY DEF RouteForwards, RouteBlocks, broker, MoneyInv, TypeInv
<1>2. page'.sent \subseteq page.sent /\ page'.dialogs = page.dialogs
  BY <1>1 DEF RouteForwards, RouteBlocks, Page
<1>3. PageIsOwn' /\ CleanInv'
  BY <1>1, <1>2 DEF ShownInv, PageIsOwn, CleanInv, Clean
<1>4. CreditInv'
  BY <1>1, <1>2 DEF ShownInv, CreditInv, Backed
<1> QED BY <1>3, <1>4 DEF ShownInv

LEMMA EndShown ==
    ASSUME MoneyInv, ShownInv, Crash \/ CloseReview
    PROVE  ShownInv'
<1>1. worker \in Worker /\ rows \in [Intents -> Row] /\ late \subseteq Command
  BY DEF MoneyInv, TypeInv
<1>2. PICK w \in SUBSET Command :
        /\ Stops(w)
        /\ \A c \in w : c.op = "record_dispatch" => c.i \in credited
  <2>1. CASE Stops(late)
    BY <1>1, <2>1 DEF ShownInv, CreditInv
  <2>2. CASE Awaits /\ Stops(late \cup {Awaited})
    <3>1. late \cup {Awaited} \in SUBSET Command
      BY <1>1, <2>2, AwaitedTyped DEF Awaits
    <3>2. \A c \in late \cup {Awaited} : c.op = "record_dispatch" => c.i \in credited
      BY DEF Awaited, ShownInv, CreditInv
    <3> QED BY <2>2, <3>1, <3>2
  <2> QED BY <2>1, <2>2 DEF Crash, CloseReview
<1>3. worker'.phase = "off" /\ page' = EmptyPage /\ credited' = credited
  BY <1>1, <1>2, WorkerFlags DEF Stops, Phases
<1>4. PageIsOwn' /\ CleanInv'
  BY <1>3 DEF PageIsOwn, CleanInv, Clean, EmptyPage
<1>5. \A c \in Command : LET d == [c EXCEPT !.mine = FALSE] IN d.op = c.op /\ d.i = c.i
  BY DEF Command
<1>6. ASSUME NEW c \in late', c.op = "record_dispatch"
      PROVE  c.i \in credited
  <2>1. PICK d \in w : c = [d EXCEPT !.mine = FALSE]
    BY <1>2, <1>6 DEF Stops
  <2>2. d \in Command /\ c.op = d.op /\ c.i = d.i
    BY <1>2, <1>5, <2>1
  <2> QED BY <1>2, <1>6, <2>2
<1>7. \A r \in Row : LET q == [r EXCEPT !.mine = FALSE] IN
        q.evidence = r.evidence /\ q.attempt = r.attempt
  BY DEF Row
<1>8. \A i \in Intents : Backed(i)' => Backed(i)
  BY <1>1, <1>2, <1>7 DEF Stops, Backed
<1>9. CreditInv'
  BY <1>3, <1>6, <1>8 DEF ShownInv, CreditInv, EmptyPage
<1> QED BY <1>4, <1>9 DEF ShownInv

\* The reply of a transfer reaches only the page that sent it.
LEMMA DialogOpensShown ==
    ASSUME MoneyInv, ShownInv, NEW i \in Intents, DialogOpens(i)
    PROVE  ShownInv'
<1>1. i \in page.sent /\ i \in credited /\ UNCHANGED <<rows, worker, late, credited>>
  BY DEF DialogOpens, broker
<1>2. page'.sent = page.sent \ {i} /\ page'.dialogs = page.dialogs \cup {i}
  BY DEF DialogOpens
<1>3. ~Clean
  BY <1>1 DEF Clean
<1>4. PageIsOwn' /\ CleanInv'
  BY <1>1, <1>2, <1>3 DEF ShownInv, PageIsOwn, CleanInv
<1>5. CreditInv'
  BY <1>1, <1>2 DEF ShownInv, CreditInv, Backed
<1> QED BY <1>4, <1>5 DEF ShownInv

\* Clocks, the provider, the network and the Owner.
LEMMA OthersShown ==
    ASSUME MoneyInv, ShownInv,
           \/ OwnerStep \/ \E c \in late : Lose(c)
           \/ \E i \in Intents : Credit(i) \/ Lapse(i)
    PROVE  ShownInv'
<1>1. rows \in [Intents -> Row]
  BY DEF MoneyInv, TypeInv
<1>2. \A r \in Row : /\ [r EXCEPT !.lapsed = TRUE].evidence = r.evidence
                     /\ [r EXCEPT !.lapsed = TRUE].attempt = r.attempt
                     /\ PaidOutside(r).evidence = r.evidence /\ PaidOutside(r).attempt = r.attempt
  BY DEF Row, PaidOutside
<1>3. \/ UNCHANGED rows
      \/ \E j \in Intents : rows' = [rows EXCEPT ![j] = [rows[j] EXCEPT !.lapsed = TRUE]]
      \/ \E j \in Intents : rows' = [rows EXCEPT ![j] = PaidOutside(rows[j])]
  BY DEF OwnerStep, Authorize, StopPolicy, DisableTransport, ActivateTransport,
         RecordStoppedCredit, Lose, Credit, Lapse, broker
<1>4. \A i \in Intents : Backed(i)' => Backed(i)
  <2>1. CASE UNCHANGED rows
    BY <2>1 DEF Backed
  <2>2. ASSUME NEW j \in Intents, rows' = [rows EXCEPT ![j] = [rows[j] EXCEPT !.lapsed = TRUE]]
        PROVE  \A i \in Intents : Backed(i)' => Backed(i)
    BY <1>1, <1>2, <2>2 DEF Backed
  <2>3. ASSUME NEW j \in Intents, rows' = [rows EXCEPT ![j] = PaidOutside(rows[j])]
        PROVE  \A i \in Intents : Backed(i)' => Backed(i)
    BY <1>1, <1>2, <2>3 DEF Backed
  <2> QED BY <1>3, <2>1, <2>2, <2>3
<1>5. UNCHANGED <<worker, page>> /\ credited \subseteq credited' /\ late' \subseteq late
  BY DEF OwnerStep, Authorize, StopPolicy, DisableTransport, ActivateTransport,
         RecordStoppedCredit, Lose, Credit, Lapse, broker, provider
<1> QED BY <1>4, <1>5, AsideShown

LEMMA ShownInitially == Init => ShownInv
<1> SUFFICES ASSUME Init PROVE ShownInv
  OBVIOUS
<1>1. worker.phase = "off" /\ page.sent = {} /\ page.dialogs = {} /\ late = {}
  BY DEF Init, NewWorker, EmptyPage
<1>2. \A i \in Intents : rows[i].evidence = FALSE /\ rows[i].attempt = "none"
  BY DEF Init, NewRow
<1> QED BY <1>1, <1>2 DEF ShownInv, PageIsOwn, CleanInv, Clean, CreditInv, Backed

LEMMA ShownStep == MoneyInv /\ ShownInv /\ [Next]_vars => ShownInv'
<1> SUFFICES ASSUME MoneyInv, ShownInv, [Next]_vars PROVE ShownInv'
  OBVIOUS
<1>1. CASE UNCHANGED vars
  BY <1>1, AsideShown DEF vars, Backed
<1>2. CASE WorkerStep
  BY <1>2, CalmShown, ForwardShown, RouteConsumesShown DEF WorkerStep, CalmStep
<1>3. CASE OwnerStep \/ \E c \in late : Lose(c)
  BY <1>3, OthersShown
<1>4. CASE Deliver
  BY <1>4, DeliverShown
<1>5. CASE GiveUp \/ Launch
  BY <1>5, CalmShown DEF CalmStep
<1>6. CASE \E c \in late : Arrive(c)
  BY <1>6, ArriveShown
<1>7. CASE Crash \/ CloseReview
  BY <1>7, EndShown
<1>8. CASE AuthorityExpires
  BY <1>8, ForwardShown
<1>9. CASE \E i \in Intents : Credit(i) \/ DialogOpens(i) \/ Lapse(i)
  BY <1>9, OthersShown, DialogOpensShown
<1>10. CASE \E i \in Intents : RouteForwards(i) \/ RouteBlocks(i)
  BY <1>10, RouteShown
<1> QED BY <1>1, <1>2, <1>3, <1>4, <1>5, <1>6, <1>7, <1>8, <1>9, <1>10 DEF Next

LEMMA ShownAlways == Spec => []ShownInv
BY MoneyAlways, ShownInitially, ShownStep, PTL DEF Spec

\* While a deposit is prepared and transferred the page is its own.
THEOREM OwnPage == Spec => []PageIsOwn
<1>1. ShownInv => PageIsOwn
  BY DEF ShownInv
<1> QED BY <1>1, ShownAlways, PTL

\* The ledger calls executed only what the provider credited.
THEOREM ExecutedMeansCredited == Spec => []ExecutedIsCredited
<1>1. ShownInv => ExecutedIsCredited
  BY DEF ShownInv, CreditInv, Backed, ExecutedIsCredited
<1> QED BY <1>1, ShownAlways, PTL
-----------------------------------------------------------------------------
(* How attempts advance, and who may end them. *)

\* What one transaction may do to an attempt.
Advances(i) ==
    LET was == rows[i].attempt
        is  == rows'[i].attempt
    IN  \/ is = was
        \/ was = "none" /\ is = "prepared"
        \/ was = "prepared" /\ is \in {"cancelled_before_action", "final_action_fenced"}
        \/ was = "final_action_fenced" /\ is = "reconciliation_required"
        \/ was = "reconciliation_required" /\ is = "confirmed_executed" /\ rows[i].evidence
        \/ was \in {"final_action_fenced", "reconciliation_required"} /\ is = "review_required"

LEMMA ResultAdvances ==
    ASSUME rows \in [Intents -> Row], NEW c \in Command, c.i \in Intents,
           c.op # "lease", Accepts(c), rows'[c.i] = Result(c)
    PROVE  Advances(c.i)
<1> DEFINE r == rows[c.i]
<1>1. r \in Row
  OBVIOUS
<1>2. c.op \in {"fence", "record_dispatch", "confirm_modal", "contain", "pause"}
  BY DEF Command, Operations
<1>3. CASE c.op = "fence"
  <2>1. rows'[c.i] = Fenced(r) /\ r.attempt = "prepared"
    BY <1>3 DEF Result, Accepts, Fenceable
  <2> QED BY <1>1, <2>1, RowParts DEF Advances
<1>4. CASE c.op = "record_dispatch"
  <2>1. rows'[c.i] = Dispatched(r) /\ r.attempt = "final_action_fenced"
    BY <1>4 DEF Result, Accepts, Recordable
  <2> QED BY <1>1, <2>1, DispatchedParts DEF Advances
<1>5. CASE c.op = "confirm_modal"
  <2>1. /\ rows'[c.i] = [r EXCEPT !.attempt = "confirmed_executed"]
        /\ \/ r.attempt = "reconciliation_required" /\ r.evidence
           \/ r.attempt = "confirmed_executed"
    BY <1>5 DEF Result, Accepts, Confirmable
  <2> QED BY <1>1, <2>1, OtherParts DEF Advances
<1>6. CASE c.op = "contain"
  <2>1. rows'[c.i] = Contained(r)
    BY <1>6 DEF Result
  <2>2. CASE r.attempt = "prepared"
    BY <1>1, <2>1, <2>2, RowParts DEF Contained, Advances
  <2>3. CASE r.attempt \in {"final_action_fenced", "reconciliation_required"}
    <3>1. rows'[c.i] = Isolated(r)
      BY <2>1, <2>3 DEF Contained
    <3> QED BY <1>1, <2>3, <3>1, RowParts DEF Advances
  <2>4. CASE r.attempt \notin OpenStatus
    <3>1. rows'[c.i] = r \/ rows'[c.i] = [r EXCEPT !.review = "open"]
      BY <2>1, <2>4 DEF Contained, OpenStatus
    <3> QED BY <1>1, <3>1, OtherParts DEF Advances
  <2> QED BY <2>2, <2>3, <2>4 DEF OpenStatus
<1>7. CASE c.op = "pause"
  <2>1. rows'[c.i] = IF r.attempt = "prepared" THEN Cancelled(r) ELSE r
    BY <1>7 DEF Result
  <2> QED BY <1>1, <2>1, RowParts DEF Advances
<1> QED BY <1>2, <1>3, <1>4, <1>5, <1>6, <1>7

\* A lease found by a command begins an attempt.
LEMMA LeaseNextAdvances ==
    ASSUME NEW table \in [Intents -> Row], NEW c, c.mine \in BOOLEAN, NEW answer,
           LeaseNext(c, table, answer), NEW i \in Intents
    PROVE  \/ rows'[i] = table[i]
           \/ table[i].attempt = "none" /\ rows'[i].attempt = "prepared"
<1>1. CASE rows' = table
  BY <1>1
<1>2. ASSUME NEW j \in Intents, Admissible(table, j),
             rows' = [table EXCEPT ![j] = Leased(@, c.mine)]
      PROVE  \/ rows'[i] = table[i]
             \/ table[i].attempt = "none" /\ rows'[i].attempt = "prepared"
  <2>1. Leased(table[j], c.mine).attempt = "prepared"
    BY RowParts
  <2>2. rows'[i] = IF i = j THEN Leased(table[j], c.mine) ELSE table[i]
    BY <1>2
  <2> QED BY <1>2, <2>1, <2>2 DEF Admissible
<1> QED BY <1>1, <1>2 DEF LeaseNext

LEMMA AttemptsAdvance ==
    ASSUME rows \in [Intents -> Row], NEW c \in Command, NEW answer, Execute(c, answer),
           NEW i \in Intents
    PROVE  Advances(i)
<1>0. c.mine \in BOOLEAN /\ (c.i \in Intents \/ c.i = None)
  BY DEF Command
<1>1. CASE UNCHANGED rows
  BY <1>1 DEF Advances
<1>2. CASE LeaseNext(c, rows, answer)
  BY <1>0, <1>2, LeaseNextAdvances DEF Advances
<1>3. ASSUME NEW j \in Intents, Open(j), LeaseHeld(c, j, answer) PROVE Advances(i)
  <2> DEFINE r == rows[j]
  <2>1. CASE r.attempt = "prepared" /\ LeaseNext(c, [rows EXCEPT ![j] = Cancelled(r)], answer)
    <3> DEFINE table == [rows EXCEPT ![j] = Cancelled(r)]
    <3>1. Cancelled(r) \in Row /\ Cancelled(r).attempt = "cancelled_before_action"
      BY RowParts
    <3>2. table \in [Intents -> Row] /\ LeaseNext(c, table, answer)
      BY <2>1, <3>1
    <3>3. table[i] = IF i = j THEN Cancelled(r) ELSE rows[i]
      OBVIOUS
    <3> HIDE DEF table
    <3>4. \/ rows'[i] = table[i]
          \/ table[i].attempt = "none" /\ rows'[i].attempt = "prepared"
      BY <1>0, <3>2, LeaseNextAdvances
    <3> QED BY <2>1, <3>1, <3>3, <3>4 DEF Advances
  <2>2. CASE /\ r.attempt \in {"final_action_fenced", "reconciliation_required"}
             /\ rows' = [rows EXCEPT ![j] = HandedOff(@)]
    <3>1. HandedOff(r).attempt = "reconciliation_required"
      BY RowParts
    <3>2. rows'[i] = IF i = j THEN HandedOff(r) ELSE rows[i]
      BY <2>2
    <3> QED BY <2>2, <3>1, <3>2 DEF Advances
  <2>3. CASE UNCHANGED rows
    BY <1>1, <2>3
  <2> QED BY <1>3, <2>1, <2>2, <2>3 DEF LeaseHeld
<1>4. CASE /\ c.op # "lease" /\ Accepts(c) /\ c.i \in Intents
           /\ rows' = [rows EXCEPT ![c.i] = Result(c)]
  <2>1. CASE i = c.i
    BY <1>4, <2>1, ResultAdvances
  <2>2. CASE i # c.i
    BY <1>4, <2>2 DEF Advances
  <2> QED BY <2>1, <2>2
<1> QED BY <1>0, <1>1, <1>2, <1>3, <1>4 DEF Execute, Lease

\* A fence of this launch within its window stands, unless this launch itself
\* records its dispatch or contains it.
LEMMA FenceStands ==
    ASSUME rows \in [Intents -> Row], LaneInv, NEW c \in Command, NEW answer,
           Execute(c, answer), NEW i \in Intents,
           rows[i].attempt = "final_action_fenced", rows[i].mine, ~rows[i].lapsed,
           ~(c.mine /\ c.i = i /\ c.op \in {"record_dispatch", "contain"})
    PROVE  rows'[i] = rows[i]
<1>1. Open(i)
  BY DEF Open, OpenStatus
<1>2. CASE c.op = "lease"
  <2>1. \A j \in Intents : Open(j) => j = i
    BY <1>1 DEF LaneInv
  <2>2. Lease(c, answer) \/ UNCHANGED rows
    BY <1>2 DEF Execute
  <2>3. ASSUME LeaseHeld(c, i, answer) PROVE UNCHANGED rows
    BY <2>3 DEF LeaseHeld
  <2> QED BY <1>1, <2>1, <2>2, <2>3 DEF Lease
<1>3. CASE c.op # "lease" /\ c.i = i /\ Accepts(c) /\ rows' = [rows EXCEPT ![i] = Result(c)]
  <2>1. c.op \in {"fence", "record_dispatch", "confirm_modal", "contain", "pause"}
    BY <1>3 DEF Command, Operations
  <2>2. c.op \notin {"fence", "confirm_modal"}
    BY <1>3 DEF Accepts, Fenceable, Confirmable
  <2>3. c.op \notin {"record_dispatch", "contain"}
    <3>1. c.mine \in BOOLEAN
      BY DEF Command
    <3> QED BY <1>3, <3>1 DEF Accepts, Recordable, Closable
  <2>4. c.op = "pause" => Result(c) = rows[i]
    BY <1>3 DEF Result
  <2> QED BY <1>3, <2>1, <2>2, <2>3, <2>4
<1>4. CASE c.op # "lease" /\ c.i # i /\ rows' = [rows EXCEPT ![c.i] = Result(c)]
  BY <1>4
<1> QED BY <1>2, <1>3, <1>4 DEF Execute

-----------------------------------------------------------------------------
(* The worker's authority over the deposit it holds. *)

\* The attempt is over.
Settled(i) == rows[i].attempt \in {"confirmed_executed", "review_required",
                                   "cancelled_before_action"}

\* The phases in which the worker works on a deposit.
Working == {"prepare", "fence", "act", "watch", "record_dispatch", "confirm_modal"}

\* A worker that holds a deposit knows which, and holds on to what it has to
\* contain until the broker has settled it.
HoldInv ==
    /\ worker.hold => worker.phase \in {"contain", "ready"}
    /\ worker.phase = "contain" => worker.hold
    /\ worker.phase \in Working \/ worker.hold => worker.lease \in Intents
    /\ worker.lease # None => rows[worker.lease].attempt # "none"
    /\ worker.phase = "lease" /\ worker.answer.verdict \in {"execute", "reconcile"} =>
         worker.answer.i \in Intents /\ rows[worker.answer.i].attempt # "none"
    /\ worker.phase = "contain" /\ worker.answer = Accepted => Settled(worker.lease)

\* A late request of this launch that could end an attempt is about one that is
\* being contained, or over.
LateInv ==
    \A c \in late : c.mine /\ c.op \in {"record_dispatch", "contain"} =>
        c.i \in Intents /\ ((worker.hold /\ worker.lease = c.i) \/ Settled(c.i))

\* The worker is about to transfer, or was just given the fence.
Authorized == worker.phase = "act" \/ (worker.phase = "fence" /\ worker.answer = Accepted)

\* Within the window of its authority the worker's fence stands.
FenceInv ==
    worker.fresh /\ Authorized =>
        /\ rows[worker.lease].attempt = "final_action_fenced"
        /\ rows[worker.lease].mine /\ ~rows[worker.lease].lapsed

AuthorityInv == HoldInv /\ LateInv /\ FenceInv

\* What the steps leave in the worker's hands.
LEMMA WorkerHands ==
    ASSUME worker \in Worker
    PROVE  /\ \A p \in Phases : /\ To(p).phase = p /\ To(p).answer = Pending
                               /\ To(p).lease = worker.lease /\ To(p).hold = worker.hold
                               /\ To(p).fresh = worker.fresh /\ To(p) \in Worker
           /\ Containing.phase = "contain" /\ Containing.answer = Pending
           /\ Containing.lease = worker.lease /\ Containing.hold = TRUE
           /\ Freed.phase = "ready" /\ Freed.answer = Pending
           /\ Freed.lease = None /\ Freed.hold = worker.hold /\ Freed \in Worker
           /\ \A p \in Phases : /\ NewWorker(p).phase = p /\ NewWorker(p).answer = Pending
                               /\ NewWorker(p).lease = None /\ NewWorker(p).hold = FALSE
                               /\ NewWorker(p).fresh = FALSE
<1>1. /\ \A p \in Phases : /\ To(p).phase = p /\ To(p).answer = Pending
                          /\ To(p).lease = worker.lease /\ To(p).hold = worker.hold
                          /\ To(p).fresh = worker.fresh
      /\ \A p \in Phases : /\ NewWorker(p).phase = p /\ NewWorker(p).answer = Pending
                          /\ NewWorker(p).lease = None /\ NewWorker(p).hold = FALSE
                          /\ NewWorker(p).fresh = FALSE
  BY DEF To, NewWorker, Worker
<1>2. /\ Containing.phase = "contain" /\ Containing.answer = Pending
      /\ Containing.lease = worker.lease /\ Containing.hold = TRUE
  BY DEF To, Containing, Worker
<1>3. Freed.phase = "ready" /\ Freed.answer = Pending /\ Freed.lease = None
      /\ Freed.hold = worker.hold
  BY DEF To, Freed, Worker
<1> QED BY <1>1, <1>2, <1>3, WorkerMoves

\* A step of the worker that leaves the rows keeps its authority sound, if it
\* lets go of a deposit only when that is settled and takes up only what the
\* lease named.
LEMMA HandsKeep ==
    ASSUME AuthorityInv, rows' = rows, worker'.answer = Pending,
           worker'.hold => worker'.phase \in {"contain", "ready"},
           worker'.phase = "contain" => worker'.hold,
           worker'.phase \in Working \/ worker'.hold => worker'.lease \in Intents,
           \/ worker'.lease = worker.lease
           \/ worker'.lease = None
           \/ /\ worker.phase = "lease" /\ worker.answer.verdict \in {"execute", "reconcile"}
              /\ worker'.lease = worker.answer.i,
           worker'.phase = "act" => /\ worker.phase = "fence" /\ worker.answer = Accepted
                                    /\ worker'.lease = worker.lease
                                    /\ worker'.fresh => worker.fresh,
           worker.hold => \/ worker'.hold /\ worker'.lease = worker.lease
                          \/ Settled(worker.lease),
           \A c \in late' : c \in late \/ (worker'.hold /\ worker'.lease = c.i)
    PROVE  AuthorityInv'
<1>1. Pending # Accepted /\ Pending.verdict \notin {"execute", "reconcile"}
  BY DEF Pending, Accepted
<1>2. HoldInv'
  BY <1>1 DEF AuthorityInv, HoldInv
<1>3. LateInv'
  BY DEF AuthorityInv, HoldInv, LateInv, Settled
<1>4. FenceInv'
  BY <1>1 DEF AuthorityInv, FenceInv, Authorized
<1> QED BY <1>2, <1>3, <1>4 DEF AuthorityInv

\* The steps of the worker, and the launch of one.
LEMMA WorkerKeepsAuthority ==
    ASSUME MoneyInv, AuthorityInv, WorkerStep \/ GiveUp \/ Launch
    PROVE  AuthorityInv'
<1>1. worker \in Worker
  BY DEF MoneyInv, TypeInv
<1>2. rows' = rows
  BY DEF WorkerStep, RunOnce, Rejected, LeaseAnswered, RequestFence, FenceAnswered, RouteConsumes,
         Uncertain, DialogSeen, DispatchRecorded, ModalConfirmed, PauseAnswered, Reset,
         Dismiss, GiveUp, Launch, broker
<1>3. \A p \in {"ready", "lease", "prepare", "fence", "act", "watch", "record_dispatch",
                "confirm_modal", "contain", "reset", "dismiss", "pause", "paused"} :
        /\ To(p).phase = p /\ To(p).answer = Pending /\ To(p).lease = worker.lease
        /\ To(p).hold = worker.hold /\ To(p).fresh = worker.fresh /\ To(p) \in Worker
  BY <1>1, WorkerHands DEF Phases
<1>4. /\ Containing.phase = "contain" /\ Containing.answer = Pending
      /\ Containing.lease = worker.lease /\ Containing.hold = TRUE
      /\ Freed.phase = "ready" /\ Freed.answer = Pending
      /\ Freed.lease = None /\ Freed.hold = worker.hold /\ Freed \in Worker
  BY <1>1, WorkerHands
<1>5. /\ worker.hold \in BOOLEAN
      /\ worker.hold => worker.phase \in {"contain", "ready"}
      /\ worker.phase = "contain" => worker.hold
      /\ worker.phase \in Working \/ worker.hold => worker.lease \in Intents
      /\ worker.phase = "lease" /\ worker.answer.verdict \in {"execute", "reconcile"} =>
           worker.answer.i \in Intents
      /\ worker.phase = "contain" /\ worker.answer = Accepted => Settled(worker.lease)
  BY <1>1 DEF Worker, AuthorityInv, HoldInv
<1>6. \A w \in Worker, b \in BOOLEAN :
        /\ [w EXCEPT !.fresh = b].phase = w.phase /\ [w EXCEPT !.fresh = b].answer = w.answer
        /\ [w EXCEPT !.fresh = b].lease = w.lease /\ [w EXCEPT !.fresh = b].hold = w.hold
        /\ [w EXCEPT !.modal = b].phase = w.phase /\ [w EXCEPT !.modal = b].answer = w.answer
        /\ [w EXCEPT !.modal = b].lease = w.lease /\ [w EXCEPT !.modal = b].hold = w.hold
        /\ [w EXCEPT !.modal = b].fresh = w.fresh
  BY DEF Worker
<1>7. \A w \in Worker :
        /\ [w EXCEPT !.lease = worker.answer.i].phase = w.phase
        /\ [w EXCEPT !.lease = worker.answer.i].answer = w.answer
        /\ [w EXCEPT !.lease = worker.answer.i].lease = worker.answer.i
        /\ [w EXCEPT !.lease = worker.answer.i].hold = w.hold
        /\ [w EXCEPT !.reset = FALSE, !.modal = FALSE].phase = w.phase
        /\ [w EXCEPT !.reset = FALSE, !.modal = FALSE].answer = w.answer
        /\ [w EXCEPT !.reset = FALSE, !.modal = FALSE].lease = w.lease
        /\ [w EXCEPT !.reset = FALSE, !.modal = FALSE].hold = w.hold
        /\ [w EXCEPT !.hold = FALSE, !.reset = TRUE].phase = w.phase
        /\ [w EXCEPT !.hold = FALSE, !.reset = TRUE].answer = w.answer
        /\ [w EXCEPT !.hold = FALSE, !.reset = TRUE].lease = w.lease
        /\ [w EXCEPT !.hold = FALSE, !.reset = TRUE].hold = FALSE
  BY DEF Worker
<1>8. CASE RunOnce
  <2>1. /\ worker.phase = "ready" /\ late' = late
        /\ \/ worker.hold /\ worker' = To("contain")
           \/ ~worker.hold /\ worker' \in {To("reset"), To("lease")}
    BY <1>5, <1>8 DEF RunOnce
  <2> QED BY <1>2, <1>3, <1>5, <2>1, HandsKeep DEF Working
<1>9. CASE Rejected \/ GiveUp
  <2>1. /\ worker.phase \in Calls /\ worker' = Unanswered
        /\ \A c \in late' : c \in late \/ c = Awaited
    BY <1>9 DEF Rejected, GiveUp
  <2>2. \/ worker.phase = "lease" /\ worker' = Freed
        \/ worker.phase = "contain" /\ worker' = To("ready")
        \/ worker.phase = "pause" /\ worker' = To("paused")
        \/ worker.phase \in {"fence", "record_dispatch", "confirm_modal"} /\ worker' = Containing
    BY <2>1 DEF Unanswered, Calls
  <2>3. Awaited.op = worker.phase /\ Awaited.i = worker.lease /\ Awaited.mine = TRUE
    BY DEF Awaited
  <2>4. HoldInv' /\ FenceInv'
    BY <1>2, <1>3, <1>4, <1>5, <2>2
    DEF AuthorityInv, HoldInv, FenceInv, Authorized, Working, Settled, Pending, Accepted
  <2>5. LateInv'
    <3>1. ASSUME NEW c \in late', c.mine, c.op \in {"record_dispatch", "contain"}
          PROVE  c.i \in Intents /\ ((worker'.hold /\ worker'.lease = c.i) \/ Settled(c.i))
      <4>1. CASE c \in late
        <5>1. c.i \in Intents /\ ((worker.hold /\ worker.lease = c.i) \/ Settled(c.i))
          BY <3>1, <4>1 DEF AuthorityInv, LateInv
        <5> QED BY <1>3, <1>4, <1>5, <2>2, <5>1
      <4>2. CASE c = Awaited
        BY <1>3, <1>4, <1>5, <2>2, <2>3, <3>1, <4>2 DEF Working
      <4> QED BY <2>1, <4>1, <4>2
    <3> QED BY <1>2, <3>1 DEF LateInv, Settled
  <2> QED BY <2>4, <2>5 DEF AuthorityInv
<1>10. CASE LeaseAnswered
  <2>1. /\ worker.phase = "lease" /\ late' = late
        /\ \/ worker' = To("ready")
           \/ /\ worker.answer.verdict \in {"execute", "reconcile"}
              /\ worker' \in {[To("prepare") EXCEPT !.lease = worker.answer.i],
                              [To("confirm_modal") EXCEPT !.lease = worker.answer.i],
                              [To("pause") EXCEPT !.lease = worker.answer.i]}
    BY <1>10 DEF LeaseAnswered
  <2>2. ~worker.hold
    BY <1>5, <2>1
  <2>3. CASE worker' = To("ready")
    BY <1>2, <1>3, <1>5, <2>1, <2>2, <2>3, HandsKeep DEF Working
  <2>4. CASE worker' # To("ready")
    <3>1. PICK p \in {"prepare", "confirm_modal", "pause"} :
            worker' = [To(p) EXCEPT !.lease = worker.answer.i]
      BY <2>1, <2>4
    <3>2. /\ worker'.phase = p /\ worker'.answer = Pending /\ worker'.lease = worker.answer.i
          /\ worker'.hold = worker.hold
      BY <1>3, <1>7, <3>1
    <3>3. worker.answer.verdict \in {"execute", "reconcile"} /\ worker.answer.i \in Intents
      BY <1>5, <2>1, <2>4
    <3> QED BY <1>2, <2>1, <2>2, <3>2, <3>3, HandsKeep DEF Working
  <2> QED BY <2>3, <2>4
<1>11. CASE RequestFence
  <2>1. worker.phase = "prepare" /\ late' = late /\ worker' = [To("fence") EXCEPT !.fresh = TRUE]
    BY <1>11 DEF RequestFence
  <2>2. /\ worker'.phase = "fence" /\ worker'.answer = Pending
        /\ worker'.lease = worker.lease /\ worker'.hold = worker.hold
    BY <1>3, <1>6, <2>1
  <2> QED BY <1>2, <1>5, <2>1, <2>2, HandsKeep DEF Working
<1>12. CASE FenceAnswered
  <2>1. /\ worker.phase = "fence" /\ worker.answer = Accepted /\ late' = late
        /\ \/ worker.fresh /\ worker' = To("act")
           \/ worker' = Containing
           \/ worker' = [To("pause") EXCEPT !.fresh = FALSE]
    BY <1>12 DEF FenceAnswered
  <2>2. CASE worker.fresh /\ worker' = To("act")
    BY <1>2, <1>3, <1>5, <2>1, <2>2, HandsKeep DEF Working
  <2>3. CASE worker' = Containing
    BY <1>2, <1>4, <1>5, <2>1, <2>3, HandsKeep DEF Working
  <2>4. CASE worker' = [To("pause") EXCEPT !.fresh = FALSE]
    BY <1>2, <1>3, <1>5, <1>6, <2>1, <2>4, HandsKeep DEF Working
  <2> QED BY <2>1, <2>2, <2>3, <2>4
<1>13. CASE RouteConsumes
  <2>1. worker.phase = "act" /\ late' = late /\ worker' = [To("watch") EXCEPT !.fresh = FALSE]
    BY <1>13 DEF RouteConsumes
  <2> QED BY <1>2, <1>3, <1>5, <1>6, <2>1, HandsKeep DEF Working
<1>14. CASE Uncertain
  <2>1. late' = late /\ worker.phase \in {"prepare", "act", "watch"}
        /\ (worker' = Containing \/ worker' = [To("pause") EXCEPT !.fresh = FALSE])
    BY <1>14 DEF Uncertain
  <2>2. CASE worker' = Containing
    BY <1>2, <1>4, <1>5, <2>1, <2>2, HandsKeep DEF Working
  <2>3. CASE worker' = [To("pause") EXCEPT !.fresh = FALSE]
    BY <1>2, <1>3, <1>5, <1>6, <2>1, <2>3, HandsKeep DEF Working
  <2> QED BY <2>1, <2>2, <2>3
<1>15. CASE DialogSeen
  <2>1. worker.phase = "watch" /\ late' = late
        /\ worker' = [To("record_dispatch") EXCEPT !.modal = TRUE]
    BY <1>15 DEF DialogSeen
  <2> QED BY <1>2, <1>3, <1>5, <1>6, <2>1, HandsKeep DEF Working
<1>16. CASE DispatchRecorded \/ ModalConfirmed
  <2>1. /\ late' = late
        /\ \/ worker.phase = "record_dispatch" /\ worker' = To("confirm_modal")
           \/ worker.phase = "confirm_modal" /\ worker' = To("dismiss")
    BY <1>16 DEF DispatchRecorded, ModalConfirmed
  <2> QED BY <1>2, <1>3, <1>5, <2>1, HandsKeep DEF Working
<1>17. CASE PauseAnswered
  <2>1. /\ late' = late /\ worker.answer = Accepted
        /\ \/ worker.phase = "pause" /\ worker' = To("paused")
           \/ worker.phase = "contain" /\ worker' = [To("reset") EXCEPT !.hold = FALSE, !.reset = TRUE]
    BY <1>17 DEF PauseAnswered
  <2>2. CASE worker.phase = "pause"
    BY <1>2, <1>3, <1>5, <2>1, <2>2, HandsKeep DEF Working
  <2>3. CASE worker.phase = "contain"
    <3>1. /\ worker'.phase = "reset" /\ worker'.answer = Pending
          /\ worker'.lease = worker.lease /\ worker'.hold = FALSE
      <4>1. PICK w \in Worker : w = To("reset")
        BY <1>3
      <4>2. w.phase = "reset" /\ w.answer = Pending /\ w.lease = worker.lease
        BY <1>3, <4>1
      <4>3. worker' = [w EXCEPT !.hold = FALSE, !.reset = TRUE]
        BY <2>1, <2>3, <4>1
      <4> QED BY <1>7, <4>2, <4>3
    <3>2. Settled(worker.lease)
      BY <1>5, <2>1, <2>3
    <3> QED BY <1>2, <2>1, <3>1, <3>2, HandsKeep DEF Working
  <2> QED BY <2>1, <2>2, <2>3
<1>18. CASE Reset \/ Dismiss
  <2>1. /\ late' = late /\ worker.phase \in {"reset", "dismiss"}
        /\ worker' \in {[Freed EXCEPT !.reset = FALSE, !.modal = FALSE], To("ready"),
                        [Freed EXCEPT !.modal = FALSE], To("paused")}
    BY <1>18 DEF Reset, Dismiss
  <2>2. /\ worker'.phase \in {"ready", "paused"} /\ worker'.answer = Pending
        /\ worker'.lease \in {None, worker.lease} /\ worker'.hold = worker.hold
    <3>1. PICK w \in Worker : w = Freed
      BY <1>4
    <3>2. /\ w.phase = "ready" /\ w.answer = Pending /\ w.lease = None /\ w.hold = worker.hold
      BY <1>4, <3>1
    <3>3. \/ worker' = [w EXCEPT !.reset = FALSE, !.modal = FALSE]
          \/ worker' = [w EXCEPT !.modal = FALSE]
          \/ worker' = To("ready") \/ worker' = To("paused")
      BY <2>1, <3>1
    <3>4. CASE worker' = [w EXCEPT !.reset = FALSE, !.modal = FALSE]
      BY <1>7, <3>2, <3>4
    <3>5. CASE worker' = [w EXCEPT !.modal = FALSE]
      BY <1>6, <3>2, <3>5
    <3>6. CASE worker' = To("ready") \/ worker' = To("paused")
      BY <1>3, <3>6
    <3> QED BY <3>3, <3>4, <3>5, <3>6
  <2> QED BY <1>2, <1>5, <2>1, <2>2, HandsKeep DEF Working
<1>19. CASE Launch
  <2>1. worker.phase = "off" /\ late' = late /\ worker' = NewWorker("ready")
    BY <1>19 DEF Launch
  <2>2. /\ worker'.phase = "ready" /\ worker'.answer = Pending
        /\ worker'.lease = None /\ worker'.hold = FALSE
    BY <1>1, <2>1, WorkerHands DEF Phases
  <2> QED BY <1>2, <1>5, <2>1, <2>2, HandsKeep DEF Working
<1> QED BY <1>8, <1>9, <1>10, <1>11, <1>12, <1>13, <1>14, <1>15, <1>16, <1>17, <1>18, <1>19
    DEF WorkerStep

\* A lease names an attempt that has begun.
LEMMA LeaseNames ==
    ASSUME rows \in [Intents -> Row], NEW c, c.mine \in BOOLEAN, NEW answer, Lease(c, answer),
           answer.verdict \in {"execute", "reconcile"}
    PROVE  answer.i \in Intents /\ rows'[answer.i].attempt # "none"
<1>1. ASSUME NEW table \in [Intents -> Row], LeaseNext(c, table, answer)
      PROVE  answer.i \in Intents /\ rows'[answer.i].attempt # "none"
  <2>1. PICK j \in Intents : /\ rows' = [table EXCEPT ![j] = Leased(@, c.mine)]
                             /\ answer = [verdict |-> "execute", i |-> j]
    BY <1>1 DEF LeaseNext
  <2>2. rows'[j] = Leased(table[j], c.mine)
    BY <2>1
  <2>3. Leased(table[j], c.mine).attempt = "prepared"
    BY RowParts
  <2> QED BY <2>1, <2>2, <2>3
<1>2. ASSUME NEW j \in Intents, Open(j), LeaseHeld(c, j, answer)
      PROVE  answer.i \in Intents /\ rows'[answer.i].attempt # "none"
  <2>1. Cancelled(rows[j]) \in Row /\ HandedOff(rows[j]).attempt = "reconciliation_required"
    BY RowParts
  <2>2. [rows EXCEPT ![j] = Cancelled(rows[j])] \in [Intents -> Row]
    BY <2>1
  <2>3. CASE LeaseNext(c, [rows EXCEPT ![j] = Cancelled(rows[j])], answer)
    BY <1>1, <2>2, <2>3
  <2>4. CASE rows' = rows /\ answer.i = j
    BY <1>2, <2>4 DEF Open, OpenStatus
  <2>5. CASE rows' = [rows EXCEPT ![j] = HandedOff(@)] /\ answer.i = j
    BY <2>1, <2>5
  <2> QED BY <1>2, <2>3, <2>4, <2>5 DEF LeaseHeld
<1> QED BY <1>1, <1>2 DEF Lease

\* An accepted fence is the requesting launch's, and begins its window.
LEMMA FenceBegins ==
    ASSUME rows \in [Intents -> Row], NEW c \in Command, c.i \in Intents, c.op = "fence",
           Execute(c, Accepted)
    PROVE  /\ rows'[c.i].attempt = "final_action_fenced"
           /\ rows'[c.i].mine = c.mine /\ ~rows'[c.i].lapsed
<1>1. Accepted # Refused
  BY DEF Accepted, Refused
<1>2. Accepts(c) /\ c.i # None /\ rows' = [rows EXCEPT ![c.i] = Fenced(rows[c.i])]
  BY <1>1, NoneAssumption DEF Execute, Result
<1>3. rows[c.i].mine = c.mine
  BY <1>2 DEF Accepts, Fenceable
<1>4. \A r \in Row : Fenced(r).mine = r.mine /\ Fenced(r).lapsed = FALSE
                     /\ Fenced(r).attempt = "final_action_fenced"
  BY DEF Fenced, Row
<1> QED BY <1>2, <1>3, <1>4

\* An accepted containment has settled what it is about.
LEMMA ContainmentSettles ==
    ASSUME rows \in [Intents -> Row], NEW c \in Command, c.i \in Intents, c.op = "contain",
           rows[c.i].attempt # "none", Execute(c, Accepted)
    PROVE  Settled(c.i)'
<1> DEFINE r == rows[c.i]
<1>1. Accepted # Refused
  BY DEF Accepted, Refused
<1>2. c.i # None /\ rows' = [rows EXCEPT ![c.i] = Contained(r)]
  BY <1>1, NoneAssumption DEF Execute, Result
<1>3. r \in Row /\ r.attempt \in AttemptStatus
  BY DEF Row
<1>4. rows'[c.i] = Contained(r)
  BY <1>2
<1>5. CASE r.attempt = "prepared"
  BY <1>3, <1>4, <1>5, RowParts DEF Contained, Settled
<1>6. CASE r.attempt \in {"final_action_fenced", "reconciliation_required"}
  <2>1. Contained(r) = Isolated(r)
    BY <1>6 DEF Contained
  <2> QED BY <1>3, <1>4, <2>1, RowParts DEF Settled
<1>7. CASE r.attempt \in {"confirmed_executed", "review_required", "cancelled_before_action"}
  <2>1. Contained(r) = r \/ Contained(r) = [r EXCEPT !.review = "open"]
    BY <1>7 DEF Contained
  <2>2. [r EXCEPT !.review = "open"].attempt = r.attempt
    BY <1>3, OtherParts
  <2>3. rows'[c.i].attempt = r.attempt
    BY <1>4, <2>1, <2>2
  <2> QED BY <1>7, <2>3 DEF Settled
<1> QED BY <1>3, <1>5, <1>6, <1>7 DEF AttemptStatus

LEMMA DeliverKeepsAuthority ==
    ASSUME MoneyInv, AuthorityInv, Deliver
    PROVE  AuthorityInv'
<1>1. PICK verdict \in Verdicts, k \in Intents \cup {None} :
        /\ Execute(Awaited, [verdict |-> verdict, i |-> k])
        /\ worker' = [worker EXCEPT !.answer = [verdict |-> verdict, i |-> k]]
  BY DEF Deliver
<1>2. worker \in Worker /\ worker.phase \in Calls /\ rows \in [Intents -> Row] /\ late' = late
  BY DEF Deliver, Awaits, MoneyInv, TypeInv
<1>3. PICK c \in Command : c = Awaited
  BY <1>2, AwaitedTyped
<1>4. PICK answer : answer = [verdict |-> verdict, i |-> k]
  OBVIOUS
<1>5. /\ worker'.phase = worker.phase /\ worker'.lease = worker.lease
      /\ worker'.hold = worker.hold /\ worker'.fresh = worker.fresh /\ worker'.answer = answer
  BY <1>1, <1>2, <1>4 DEF Worker
<1>6. Execute(c, answer) /\ c.op = worker.phase /\ c.i = worker.lease /\ c.mine = TRUE
  BY <1>1, <1>3, <1>4 DEF Awaited
<1>7. \A i \in Intents : Advances(i)
  BY <1>2, <1>6, AttemptsAdvance
<1>8. \A i \in Intents : /\ rows[i].attempt # "none" => rows'[i].attempt # "none"
                         /\ Settled(i) => Settled(i)'
  BY <1>7 DEF Advances, Settled
<1>9. worker.lease \in Intents \cup {None}
  BY <1>2 DEF Worker
<1>10. worker.phase = "lease" /\ answer.verdict \in {"execute", "reconcile"} =>
         answer.i \in Intents /\ rows'[answer.i].attempt # "none"
  <2> SUFFICES ASSUME worker.phase = "lease", answer.verdict \in {"execute", "reconcile"}
               PROVE  answer.i \in Intents /\ rows'[answer.i].attempt # "none"
    OBVIOUS
  <2>1. Lease(c, answer)
    BY <1>6 DEF Execute, Refused
  <2>2. c.mine \in BOOLEAN
    BY DEF Command
  <2> QED BY <1>2, <2>1, <2>2, LeaseNames
<1>11. worker.phase = "contain" /\ answer = Accepted => Settled(worker.lease)'
  <2> SUFFICES ASSUME worker.phase = "contain", answer = Accepted
               PROVE  Settled(worker.lease)'
    OBVIOUS
  <2>1. c.i \in Intents /\ rows[c.i].attempt # "none"
    BY <1>6, NoneAssumption DEF AuthorityInv, HoldInv
  <2>2. Settled(c.i)'
    BY <1>2, <1>6, <2>1, ContainmentSettles
  <2> QED BY <1>5, <1>6, <2>2 DEF Settled
<1>12. HoldInv'
  <2>1. worker'.lease # None => rows'[worker'.lease].attempt # "none"
    BY <1>5, <1>8, <1>9 DEF AuthorityInv, HoldInv
  <2> QED BY <1>5, <1>10, <1>11, <2>1 DEF AuthorityInv, HoldInv, Settled
<1>13. LateInv'
  <2>1. \A d \in late : d.mine /\ d.op \in {"record_dispatch", "contain"} =>
          d.i \in Intents /\ ((worker.hold /\ worker.lease = d.i) \/ Settled(d.i))
    BY DEF AuthorityInv, LateInv
  <2> QED BY <1>2, <1>5, <1>8, <2>1 DEF LateInv
<1>14. FenceInv'
  <2> SUFFICES ASSUME worker.phase = "fence", answer = Accepted
               PROVE  /\ rows'[worker.lease].attempt = "final_action_fenced"
                      /\ rows'[worker.lease].mine /\ ~rows'[worker.lease].lapsed
    BY <1>2, <1>5 DEF FenceInv, Authorized, Calls
  <2>1. c.i \in Intents
    BY <1>6 DEF AuthorityInv, HoldInv, Working
  <2> QED BY <1>2, <1>6, <2>1, FenceBegins
<1> QED BY <1>12, <1>13, <1>14 DEF AuthorityInv

\* Steps that leave the worker alone.
LEMMA RowsKeepAuthority ==
    ASSUME AuthorityInv, worker \in Worker, worker' = worker, late' \subseteq late,
           \A i \in Intents : /\ rows[i].attempt # "none" => rows'[i].attempt # "none"
                              /\ Settled(i) => Settled(i)',
           \A i \in Intents :
             /\ worker.fresh /\ Authorized /\ worker.lease = i
             /\ rows[i].attempt = "final_action_fenced" /\ rows[i].mine /\ ~rows[i].lapsed
             => /\ rows'[i].attempt = "final_action_fenced"
                /\ rows'[i].mine /\ ~rows'[i].lapsed
    PROVE  AuthorityInv'
<1>1. worker.lease \in Intents \cup {None}
  BY DEF Worker
<1>2. HoldInv'
  <2>1. worker.phase = "contain" => worker.lease \in Intents
    BY DEF AuthorityInv, HoldInv
  <2>2. worker.phase = "contain" /\ worker.answer = Accepted => Settled(worker.lease)'
    BY <2>1 DEF AuthorityInv, HoldInv, Settled
  <2> QED BY <1>1, <2>2 DEF AuthorityInv, HoldInv, Settled
<1>3. LateInv'
  <2>1. \A d \in late : d.mine /\ d.op \in {"record_dispatch", "contain"} =>
          d.i \in Intents /\ ((worker.hold /\ worker.lease = d.i) \/ Settled(d.i))
    BY DEF AuthorityInv, LateInv
  <2> QED BY <2>1 DEF LateInv
<1>4. FenceInv'
  <2>1. Authorized => worker.lease \in Intents
    BY DEF AuthorityInv, HoldInv, Authorized, Working
  <2>2. Authorized' <=> Authorized
    BY DEF Authorized
  <2> QED BY <2>1, <2>2 DEF AuthorityInv, FenceInv
<1> QED BY <1>2, <1>3, <1>4 DEF AuthorityInv

\* A late request of this launch cannot end the fence its worker acts on.
LEMMA ArriveKeepsAuthority ==
    ASSUME MoneyInv, AuthorityInv, NEW c \in late, Arrive(c)
    PROVE  AuthorityInv'
<1>1. PICK verdict \in Verdicts, k \in Intents \cup {None} :
        Execute(c, [verdict |-> verdict, i |-> k])
  BY DEF Arrive
<1>2. c \in Command /\ rows \in [Intents -> Row] /\ worker \in Worker /\ LaneInv
  BY DEF MoneyInv, TypeInv
<1>3. \A i \in Intents : Advances(i)
  BY <1>1, <1>2, AttemptsAdvance
<1>4. \A i \in Intents : /\ rows[i].attempt # "none" => rows'[i].attempt # "none"
                         /\ Settled(i) => Settled(i)'
  BY <1>3 DEF Advances, Settled
<1>5. ASSUME NEW i \in Intents, worker.fresh, Authorized, worker.lease = i,
             rows[i].attempt = "final_action_fenced", rows[i].mine, ~rows[i].lapsed
      PROVE  rows'[i] = rows[i]
  <2>1. ~worker.hold
    BY <1>5 DEF AuthorityInv, HoldInv, Authorized
  <2>2. ~Settled(i)
    BY <1>5 DEF Settled
  <2>3. ~(c.mine /\ c.i = i /\ c.op \in {"record_dispatch", "contain"})
    BY <2>1, <2>2 DEF AuthorityInv, LateInv
  <2> QED BY <1>1, <1>2, <1>5, <2>3, FenceStands
<1>6. worker' = worker /\ late' \subseteq late
  BY DEF Arrive
<1> QED BY <1>2, <1>4, <1>5, <1>6, RowsKeepAuthority

\* A new launch has nothing in hand, and nothing late is its own.
LEMMA EndKeepsAuthority ==
    ASSUME MoneyInv, AuthorityInv, Crash \/ CloseReview
    PROVE  AuthorityInv'
<1>1. worker \in Worker /\ rows \in [Intents -> Row] /\ late \subseteq Command
  BY DEF MoneyInv, TypeInv
<1>2. PICK w \in SUBSET Command : Stops(w)
  <2>1. CASE Stops(late)
    BY <1>1, <2>1
  <2>2. CASE Awaits /\ Stops(late \cup {Awaited})
    <3>1. late \cup {Awaited} \in SUBSET Command
      BY <1>1, <2>2, AwaitedTyped DEF Awaits
    <3> QED BY <2>2, <3>1
  <2> QED BY <2>1, <2>2 DEF Crash, CloseReview
<1>3. /\ worker'.phase = "off" /\ worker'.answer = Pending /\ worker'.lease = None
      /\ worker'.hold = FALSE /\ worker'.fresh = FALSE
  BY <1>1, <1>2, WorkerHands DEF Stops, Phases
<1>4. \A d \in Command : [d EXCEPT !.mine = FALSE].mine = FALSE
  BY DEF Command
<1>5. \A d \in late' : d.mine = FALSE
  BY <1>2, <1>4 DEF Stops
<1> QED BY <1>3, <1>5 DEF AuthorityInv, HoldInv, LateInv, FenceInv, Working

LEMMA ExpiryKeepsAuthority ==
    ASSUME MoneyInv, AuthorityInv, AuthorityExpires
    PROVE  AuthorityInv'
<1>1. worker \in Worker
  BY DEF MoneyInv, TypeInv
<1>2. /\ worker'.phase = worker.phase /\ worker'.lease = worker.lease
      /\ worker'.hold = worker.hold /\ worker'.answer = worker.answer /\ worker'.fresh = FALSE
  BY <1>1 DEF AuthorityExpires, Worker
<1>3. rows' = rows /\ late' = late
  BY DEF AuthorityExpires, broker
<1> QED BY <1>2, <1>3 DEF AuthorityInv, HoldInv, LateInv, FenceInv, Settled

\* The clock ends no fence the worker may still act on.
LEMMA LapseKeepsAuthority ==
    ASSUME MoneyInv, AuthorityInv, NEW j \in Intents, Lapse(j)
    PROVE  AuthorityInv'
<1>1. worker \in Worker /\ rows \in [Intents -> Row]
  BY DEF MoneyInv, TypeInv
<1>2. \A r \in Row : [r EXCEPT !.lapsed = TRUE].attempt = r.attempt
  BY DEF Row
<1>3. /\ rows' = [rows EXCEPT ![j] = [rows[j] EXCEPT !.lapsed = TRUE]]
      /\ ~(rows[j].attempt = "final_action_fenced" /\ worker.fresh /\ worker.lease = j)
      /\ worker' = worker /\ late' = late
  BY DEF Lapse
<1>4. \A i \in Intents : /\ i # j => rows'[i] = rows[i]
                         /\ rows'[i].attempt = rows[i].attempt
  BY <1>1, <1>2, <1>3
<1>5. \A i \in Intents : /\ rows[i].attempt # "none" => rows'[i].attempt # "none"
                         /\ Settled(i) => Settled(i)'
  BY <1>4 DEF Settled
<1> QED BY <1>1, <1>3, <1>4, <1>5, RowsKeepAuthority

\* The provider, the network and the Owner.
LEMMA OthersKeepAuthority ==
    ASSUME MoneyInv, AuthorityInv,
           \/ OwnerStep \/ \E c \in late : Lose(c)
           \/ \E i \in Intents : RouteForwards(i) \/ RouteBlocks(i)
           \/ \E i \in Intents : Credit(i) \/ DialogOpens(i)
    PROVE  AuthorityInv'
<1>1. worker \in Worker /\ rows \in [Intents -> Row]
  BY DEF MoneyInv, TypeInv
<1>2. \A r \in Row : PaidOutside(r).attempt = r.attempt /\ PaidOutside(r).mine = r.mine
                     /\ PaidOutside(r).lapsed = r.lapsed
  BY DEF PaidOutside, Row
<1>3. worker' = worker /\ late' \subseteq late
  BY DEF OwnerStep, Authorize, StopPolicy, DisableTransport, ActivateTransport,
         RecordStoppedCredit, Lose, RouteForwards, RouteBlocks, Credit, DialogOpens,
         broker, provider
<1>4. rows' = rows \/ \E j \in Intents : rows' = [rows EXCEPT ![j] = PaidOutside(rows[j])]
  BY DEF OwnerStep, Authorize, StopPolicy, DisableTransport, ActivateTransport,
         RecordStoppedCredit, Lose, RouteForwards, RouteBlocks, Credit, DialogOpens,
         broker, provider
<1>5. \A i \in Intents : /\ rows'[i].attempt = rows[i].attempt /\ rows'[i].mine = rows[i].mine
                         /\ rows'[i].lapsed = rows[i].lapsed
  BY <1>1, <1>2, <1>4
<1>6. \A i \in Intents : /\ rows[i].attempt # "none" => rows'[i].attempt # "none"
                         /\ Settled(i) => Settled(i)'
  BY <1>5 DEF Settled
<1> QED BY <1>1, <1>3, <1>5, <1>6, RowsKeepAuthority

LEMMA AuthorityInitially == Init => AuthorityInv
<1> SUFFICES ASSUME Init PROVE AuthorityInv
  OBVIOUS
<1>1. worker.phase = "off" /\ worker.lease = None /\ worker.hold = FALSE /\ late = {}
  BY DEF Init, NewWorker
<1> QED BY <1>1 DEF AuthorityInv, HoldInv, LateInv, FenceInv, Authorized, Working

LEMMA AuthorityStep == MoneyInv /\ AuthorityInv /\ [Next]_vars => AuthorityInv'
<1> SUFFICES ASSUME MoneyInv, AuthorityInv, [Next]_vars PROVE AuthorityInv'
  OBVIOUS
<1>1. CASE UNCHANGED vars
  BY <1>1 DEF vars, AuthorityInv, HoldInv, LateInv, FenceInv, Authorized, Settled
<1>2. CASE WorkerStep \/ GiveUp \/ Launch
  BY <1>2, WorkerKeepsAuthority
<1>3. CASE Deliver
  BY <1>3, DeliverKeepsAuthority
<1>4. CASE \E c \in late : Arrive(c) \/ Lose(c)
  BY <1>4, ArriveKeepsAuthority, OthersKeepAuthority
<1>5. CASE Crash \/ CloseReview
  BY <1>5, EndKeepsAuthority
<1>6. CASE AuthorityExpires
  BY <1>6, ExpiryKeepsAuthority
<1>7. CASE \/ OwnerStep \/ \E i \in Intents : RouteForwards(i) \/ RouteBlocks(i)
           \/ \E i \in Intents : Credit(i) \/ DialogOpens(i) \/ Lapse(i)
  BY <1>7, OthersKeepAuthority, LapseKeepsAuthority
<1> QED BY <1>1, <1>2, <1>3, <1>4, <1>5, <1>6, <1>7 DEF Next

LEMMA AuthorityAlways == Spec => []AuthorityInv
BY MoneyAlways, AuthorityInitially, AuthorityStep, PTL DEF Spec

-----------------------------------------------------------------------------
(* The lane implements OneShotCredit. *)

Unmoved(i) ==
    /\ PermitOf(i)' = PermitOf(i) /\ LaneOf(i)' = LaneOf(i) /\ VerdictOf(i)' = VerdictOf(i)

\* Nothing the promise sees moves, or one deposit's permit or verdict does.
LEMMA PromiseStutters ==
    ASSUME \A i \in Intents : Unmoved(i), credited' = credited
    PROVE  UNCHANGED Promise!oneShotVars
BY DEF Unmoved, Promise!oneShotVars

LEMMA PromiseMoves ==
    ASSUME NEW i \in Intents, \A j \in Intents \ {i} : Unmoved(j), credited' = credited,
           VerdictOf(i) = "open"
    PROVE  /\ /\ PermitOf(i)' = PermitOf(i) /\ LaneOf(i)' = LaneOf(i)
              /\ \/ VerdictOf(i)' = "review"
                 \/ VerdictOf(i)' = "executed" /\ i \in credited
              => Promise!Refer(i) \/ Promise!Confirm(i)
           /\ /\ PermitOf(i) = "issued" /\ PermitOf(i)' = "used"
              /\ LaneOf(i)' = LaneOf(i) /\ VerdictOf(i)' = VerdictOf(i)
              => Promise!Use(i)
           /\ \A g \in Players :
                /\ PermitOf(i) = "unissued" /\ PermitOf(i)' = "issued" /\ LaneOf(i)' = g
                /\ VerdictOf(i)' = VerdictOf(i)
                /\ \A j \in Intents : LaneOf(j) = g => VerdictOf(j) = "executed"
                => Promise!Issue(i, g)
<1> USE DEF Unmoved
<1>1. /\ PermitOf(i)' = PermitOf(i) /\ LaneOf(i)' = LaneOf(i)
      /\ \/ VerdictOf(i)' = "review"
         \/ VerdictOf(i)' = "executed" /\ i \in credited
      => Promise!Refer(i) \/ Promise!Confirm(i)
  BY DEF Promise!Refer, Promise!Confirm
<1>2. /\ PermitOf(i) = "issued" /\ PermitOf(i)' = "used"
      /\ LaneOf(i)' = LaneOf(i) /\ VerdictOf(i)' = VerdictOf(i)
      => Promise!Use(i)
  BY DEF Promise!Use
<1>3. ASSUME NEW g \in Players,
             PermitOf(i) = "unissued", PermitOf(i)' = "issued", LaneOf(i)' = g,
             VerdictOf(i)' = VerdictOf(i),
             \A j \in Intents : LaneOf(j) = g => VerdictOf(j) = "executed"
      PROVE  Promise!Issue(i, g)
  BY <1>3 DEF Promise!Issue
<1> QED BY <1>1, <1>2, <1>3

\* A lease that begins and a fence that is handed off show the promise nothing.
LEMMA UnmovedIf ==
    ASSUME NEW i \in Intents, allowance'[i] = allowance[i],
           \/ rows'[i].attempt = rows[i].attempt
           \/ rows[i].attempt = "none" /\ rows'[i].attempt = "prepared"
           \/ /\ rows[i].attempt = "final_action_fenced"
              /\ rows'[i].attempt = "reconciliation_required"
    PROVE  Unmoved(i)
BY DEF Unmoved, PermitOf, LaneOf, VerdictOf, Issued

\* The fence issues the permit: its player's earlier deposits are confirmed.
LEMMA FenceIssues ==
    ASSUME MoneyInv, NEW i \in Intents, \A j \in Intents \ {i} : Unmoved(j),
           UNCHANGED <<allowance, credited>>,
           rows[i].attempt = "prepared", rows'[i].attempt = "final_action_fenced"
    PROVE  Promise!OneShotNext
<1>1. allowance[i] = "unused"
  BY DEF MoneyInv, BrokerInv, Issued
<1>2. PlayerOf[i] \in Players
  BY PlayerAssumption
<1>3. /\ PermitOf(i) = "unissued" /\ PermitOf(i)' = "issued" /\ LaneOf(i)' = PlayerOf[i]
      /\ VerdictOf(i) = "open" /\ VerdictOf(i)' = VerdictOf(i)
  BY <1>1 DEF PermitOf, LaneOf, VerdictOf, Issued
<1>4. ASSUME NEW j \in Intents, LaneOf(j) = PlayerOf[i] PROVE VerdictOf(j) = "executed"
  <2>1. Issued(j) /\ PlayerOf[j] = PlayerOf[i]
    BY <1>2, <1>4, NoneAssumption DEF LaneOf
  <2>2. rows[i].attempt \in Doubtful /\ j # i
    BY <2>1 DEF Issued, Doubtful, OpenStatus
  <2>3. rows[j].attempt \notin Doubtful
    BY <2>1, <2>2 DEF MoneyInv, LaneInv
  <2> QED BY <2>1, <2>3 DEF Issued, Doubtful, OpenStatus, VerdictOf
<1>5. Promise!Issue(i, PlayerOf[i])
  BY <1>2, <1>3, <1>4, PromiseMoves
<1> QED BY <1>2, <1>5 DEF Promise!OneShotNext

\* A transaction moves the permit or the verdict of the open deposit, if any.
LEMMA CommandKeepsPromise ==
    ASSUME MoneyInv, ShownInv, NEW c \in Command, NEW answer, Execute(c, answer),
           UNCHANGED <<allowance, credited>>
    PROVE  [Promise!OneShotNext]_(Promise!oneShotVars)
<1>1. rows \in [Intents -> Row] /\ LaneInv
  BY DEF MoneyInv, TypeInv
<1>2. \A i \in Intents : Advances(i)
  BY <1>1, AttemptsAdvance
<1>3. ASSUME NEW i \in Intents, ~Open(i) PROVE Unmoved(i)
  BY <1>2, <1>3, UnmovedIf DEF Advances, Open, OpenStatus
<1>4. CASE \A i \in Intents : ~Open(i)
  BY <1>3, <1>4, PromiseStutters
<1>5. ASSUME NEW i \in Intents, Open(i)
      PROVE  [Promise!OneShotNext]_(Promise!oneShotVars)
  <2>1. \A j \in Intents \ {i} : Unmoved(j)
    BY <1>1, <1>3, <1>5 DEF LaneInv
  <2>2. VerdictOf(i) = "open"
    BY <1>5 DEF Open, OpenStatus, VerdictOf
  <2>3. CASE Unmoved(i)
    BY <2>1, <2>3, PromiseStutters
  <2>4. CASE rows[i].attempt = "prepared" /\ rows'[i].attempt = "final_action_fenced"
    BY <2>1, <2>4, FenceIssues
  <2>5. CASE \/ /\ rows[i].attempt = "prepared"
                /\ rows'[i].attempt = "cancelled_before_action"
             \/ /\ rows[i].attempt \in {"final_action_fenced", "reconciliation_required"}
                /\ rows'[i].attempt = "review_required"
             \/ /\ rows[i].attempt = "reconciliation_required" /\ rows[i].evidence
                /\ rows'[i].attempt = "confirmed_executed"
    <3>1. PermitOf(i)' = PermitOf(i) /\ LaneOf(i)' = LaneOf(i)
      BY <2>5 DEF PermitOf, LaneOf, Issued
    <3>2. rows[i].evidence => i \in credited
      BY DEF ShownInv, CreditInv, Backed
    <3>3. \/ VerdictOf(i)' = "review"
          \/ VerdictOf(i)' = "executed" /\ i \in credited
      BY <2>5, <3>2 DEF VerdictOf
    <3>4. Promise!Refer(i) \/ Promise!Confirm(i)
      BY <2>1, <2>2, <3>1, <3>3, PromiseMoves
    <3> QED BY <3>4 DEF Promise!OneShotNext
  <2> QED BY <1>2, <1>5, <2>3, <2>4, <2>5, UnmovedIf DEF Advances, Open, OpenStatus
<1> QED BY <1>4, <1>5

LEMMA BrokerKeepsPromise ==
    ASSUME MoneyInv, ShownInv, Deliver \/ \E c \in late : Arrive(c)
    PROVE  [Promise!OneShotNext]_(Promise!oneShotVars)
<1>1. CASE Deliver
  <2>1. PICK c \in Command : c = Awaited
    BY <1>1, AwaitedTyped DEF Deliver, Awaits, MoneyInv, TypeInv
  <2>2. PICK verdict, k : Execute(c, [verdict |-> verdict, i |-> k])
    BY <1>1, <2>1 DEF Deliver
  <2>3. UNCHANGED <<allowance, credited>>
    BY <1>1 DEF Deliver, provider
  <2> QED BY <2>2, <2>3, CommandKeepsPromise
<1>2. ASSUME NEW c \in late, Arrive(c) PROVE [Promise!OneShotNext]_(Promise!oneShotVars)
  <2>1. c \in Command
    BY DEF MoneyInv, TypeInv
  <2>2. PICK verdict, k : Execute(c, [verdict |-> verdict, i |-> k])
    BY <1>2 DEF Arrive
  <2>3. UNCHANGED <<allowance, credited>>
    BY <1>2 DEF Arrive, provider
  <2> QED BY <2>1, <2>2, <2>3, CommandKeepsPromise
<1> QED BY <1>1, <1>2

\* The route's allowance is the permit: it is taken while the outcome is open.
LEMMA RouteConsumesUses ==
    ASSUME MoneyInv, AuthorityInv, RouteConsumes
    PROVE  Promise!OneShotNext
<1>1. PICK i \in Intents : worker.lease = i
  BY DEF RouteConsumes, MoneyInv, WorkerInv
<1>2. allowance[i] = "unused" /\ rows[i].attempt = "final_action_fenced"
  BY <1>1 DEF RouteConsumes, MoneyInv, WorkerInv, AuthorityInv, FenceInv, Authorized
<1>3. allowance' = [allowance EXCEPT ![i] = "consumed"] /\ DOMAIN allowance = Intents
      /\ UNCHANGED <<rows, credited>>
  BY <1>1 DEF RouteConsumes, broker, MoneyInv, TypeInv
<1>4. allowance'[i] = "consumed" /\ \A j \in Intents \ {i} : allowance'[j] = allowance[j]
  BY <1>2, <1>3
<1>5. \A j \in Intents \ {i} : Unmoved(j)
  BY <1>3, <1>4, UnmovedIf
<1>6. /\ PermitOf(i) = "issued" /\ PermitOf(i)' = "used" /\ LaneOf(i)' = LaneOf(i)
      /\ VerdictOf(i) = "open" /\ VerdictOf(i)' = VerdictOf(i)
  BY <1>2, <1>3, <1>4 DEF PermitOf, LaneOf, VerdictOf, Issued
<1>7. Promise!Use(i)
  BY <1>3, <1>5, <1>6, PromiseMoves
<1> QED BY <1>7 DEF Promise!OneShotNext

\* What the route does with a request it took, or what ends it, is no use of another.
LEMMA TakenStaysTaken ==
    ASSUME \A i \in Intents : rows'[i].attempt = rows[i].attempt, credited' = credited,
           \A i \in Intents : allowance'[i] = "unused" <=> allowance[i] = "unused"
    PROVE  UNCHANGED Promise!oneShotVars
<1>1. \A i \in Intents : Unmoved(i)
  BY DEF Unmoved, PermitOf, LaneOf, VerdictOf, Issued
<1> QED BY <1>1, PromiseStutters

LEMMA CreditCredits ==
    ASSUME MoneyInv, NEW i \in Intents, Credit(i)
    PROVE  Promise!OneShotNext
<1>1. posts[i] > 0 /\ i \notin credited /\ credited' = credited \cup {i}
      /\ UNCHANGED <<rows, allowance>>
  BY DEF Credit, broker
<1>2. PermitOf(i) = "used"
  <2>1. allowance[i] = "gone"
    BY <1>1 DEF MoneyInv, BrokerInv
  <2> QED BY <2>1 DEF MoneyInv, BrokerInv, PermitOf
<1>3. \A j \in Intents : Unmoved(j)
  BY <1>1, UnmovedIf
<1>4. Promise!Credit(i)
  BY <1>1, <1>2, <1>3 DEF Promise!Credit, Unmoved
<1> QED BY <1>4 DEF Promise!OneShotNext

\* Everything else shows the promise nothing.
LEMMA RestStutters ==
    ASSUME MoneyInv, [Next]_vars, ~Deliver, \A c \in late : ~Arrive(c), ~RouteConsumes,
           \A i \in Intents : ~Credit(i)
    PROVE  UNCHANGED Promise!oneShotVars
<1> SUFFICES /\ \A i \in Intents : rows'[i].attempt = rows[i].attempt
             /\ credited' = credited
             /\ \A i \in Intents : allowance'[i] = "unused" <=> allowance[i] = "unused"
  BY TakenStaysTaken
<1>1. rows \in [Intents -> Row]
  BY DEF MoneyInv, TypeInv
<1>2. \A r \in Row : /\ [r EXCEPT !.mine = FALSE].attempt = r.attempt
                     /\ [r EXCEPT !.lapsed = TRUE].attempt = r.attempt
                     /\ PaidOutside(r).attempt = r.attempt
  BY DEF Row, PaidOutside
<1>3. CASE WorkerStep \/ GiveUp \/ Launch
  BY <1>3 DEF WorkerStep, RunOnce, Rejected, LeaseAnswered, RequestFence, FenceAnswered,
         Uncertain, DialogSeen, DispatchRecorded, ModalConfirmed, PauseAnswered, Reset,
         Dismiss, GiveUp, Launch, broker, provider
<1>4. CASE Crash \/ CloseReview
  <2>1. /\ rows' = [i \in Intents |-> [rows[i] EXCEPT !.mine = FALSE]]
        /\ credited' = credited
        /\ \A i \in Intents : allowance'[i] = "unused" <=> allowance[i] = "unused"
    BY <1>4 DEF Crash, CloseReview, Stops
  <2> QED BY <1>1, <1>2, <2>1
<1>5. CASE AuthorityExpires \/ UNCHANGED vars \/ \E c \in late : Lose(c)
  BY <1>5 DEF AuthorityExpires, Lose, vars, broker, provider
<1>6. ASSUME NEW j \in Intents, DialogOpens(j) \/ Lapse(j) \/ RecordStoppedCredit(j)
      PROVE  /\ \A i \in Intents : rows'[i].attempt = rows[i].attempt
             /\ UNCHANGED <<allowance, credited>>
  <2>1. /\ \/ rows' = rows
           \/ rows' = [rows EXCEPT ![j] = [rows[j] EXCEPT !.lapsed = TRUE]]
           \/ rows' = [rows EXCEPT ![j] = PaidOutside(rows[j])]
        /\ UNCHANGED <<allowance, credited>>
    BY <1>6 DEF DialogOpens, Lapse, RecordStoppedCredit, broker, provider
  <2>2. CASE rows' = [rows EXCEPT ![j] = [rows[j] EXCEPT !.lapsed = TRUE]]
    BY <1>1, <1>2, <2>1, <2>2
  <2>3. CASE rows' = [rows EXCEPT ![j] = PaidOutside(rows[j])]
    BY <1>1, <1>2, <2>1, <2>3
  <2> QED BY <2>1, <2>2, <2>3
<1>7. CASE Authorize \/ StopPolicy \/ DisableTransport \/ ActivateTransport
  BY <1>7 DEF Authorize, StopPolicy, DisableTransport, ActivateTransport, provider
<1>8. ASSUME NEW j \in Intents, RouteForwards(j) \/ RouteBlocks(j)
      PROVE  /\ \A i \in Intents : rows'[i].attempt = rows[i].attempt
             /\ credited' = credited
             /\ \A i \in Intents : allowance'[i] = "unused" <=> allowance[i] = "unused"
  BY <1>8 DEF RouteForwards, RouteBlocks, broker, MoneyInv, TypeInv
<1> QED BY <1>3, <1>4, <1>5, <1>6, <1>7, <1>8 DEF Next, OwnerStep

\* With its crashes, pauses, containments and late requests, the lane does what
\* OneShotCredit allows, a player in the place of the agent account: a permit is
\* issued once, to a player without a deposit in doubt, and used once: the route
\* takes the allowance while the deposit is undecided, even if the transfer leaves
\* later.  Only what was credited is called executed.
THEOREM PromiseIsKept == Spec => LaneKeepsPromise
<1>1. Init => Promise!OneShotInit
  BY DEF Init, NewRow, Promise!OneShotInit, PermitOf, LaneOf, VerdictOf, Issued
<1>2. MoneyInv /\ ShownInv /\ AuthorityInv /\ [Next]_vars
        => [Promise!OneShotNext]_(Promise!oneShotVars)
  BY BrokerKeepsPromise, RouteConsumesUses, CreditCredits, RestStutters
<1> QED BY <1>1, <1>2, MoneyAlways, ShownAlways, AuthorityAlways, PTL
        DEF Spec, LaneKeepsPromise, Promise!OneShotSpec
-----------------------------------------------------------------------------
(* The request in the route's hands. *)

\* The ledger holds the deposit in doubt, and as long as it is not under review
\* only this launch can end its fence.
InDoubt(i) ==
    \/ rows[i].attempt = "review_required"
    \/ rows[i].attempt = "final_action_fenced" /\ rows[i].mine /\ ~rows[i].lapsed

RouteInv == \A i \in Intents : allowance[i] = "consumed" => InDoubt(i)

\* Of what the broker executes only the record of its success ends the doubt.
LEMMA CommandKeepsDoubt ==
    ASSUME rows \in [Intents -> Row], LaneInv, NEW c \in Command, NEW answer,
           Execute(c, answer), NEW i \in Intents, InDoubt(i),
           ~(c.op = "record_dispatch" /\ c.i = i)
    PROVE  InDoubt(i)'
<1>1. CASE rows[i].attempt = "review_required"
  BY <1>1, AttemptsAdvance DEF Advances, InDoubt
<1>2. CASE rows[i].attempt = "final_action_fenced" /\ rows[i].mine /\ ~rows[i].lapsed
  <2>1. CASE ~(c.op = "contain" /\ c.i = i)
    <3>1. rows'[i] = rows[i]
      BY <1>2, <2>1, FenceStands
    <3> QED BY <1>2, <3>1 DEF InDoubt
  <2>2. CASE c.op = "contain" /\ c.i = i
    <3>1. \/ UNCHANGED rows
          \/ rows' = [rows EXCEPT ![i] = Contained(rows[i])]
      BY <2>2, NoneAssumption DEF Execute, Result
    <3>2. CASE UNCHANGED rows
      BY <1>2, <3>2 DEF InDoubt
    <3>3. CASE rows' = [rows EXCEPT ![i] = Contained(rows[i])]
      <4>1. rows'[i] = Isolated(rows[i])
        BY <1>2, <3>3 DEF Contained
      <4>2. rows'[i].attempt = "review_required"
        BY <4>1, RowParts
      <4> QED BY <4>2 DEF InDoubt
    <3> QED BY <3>1, <3>2, <3>3
  <2> QED BY <2>1, <2>2
<1> QED BY <1>1, <1>2 DEF InDoubt

\* A success is recorded of a credited deposit, whose request the route let pass.
LEMMA BrokerKeepsRoute ==
    ASSUME MoneyInv, ShownInv, RouteInv, Deliver \/ \E c \in late : Arrive(c)
    PROVE  RouteInv'
<1>1. allowance' = allowance
  BY DEF Deliver, Arrive, provider
<1>2. rows \in [Intents -> Row] /\ LaneInv
  BY DEF MoneyInv, TypeInv
<1>3. PICK c \in Command : /\ \E answer : Execute(c, answer)
                           /\ c.op = "record_dispatch" => c.i \in credited
  <2>1. CASE Deliver
    <3>1. PICK c \in Command : c = Awaited
      BY <2>1, AwaitedTyped DEF Deliver, Awaits, MoneyInv, TypeInv
    <3>2. \E answer : Execute(c, answer)
      BY <2>1, <3>1 DEF Deliver
    <3>3. c.op = "record_dispatch" => c.i \in credited
      BY <3>1 DEF Awaited, ShownInv, CreditInv
    <3> QED BY <3>2, <3>3
  <2>2. ASSUME NEW c \in late, Arrive(c)
        PROVE  /\ c \in Command /\ \E answer : Execute(c, answer)
               /\ c.op = "record_dispatch" => c.i \in credited
    BY <2>2 DEF Arrive, MoneyInv, TypeInv, ShownInv, CreditInv
  <2> QED BY <2>1, <2>2
<1>4. ASSUME NEW i \in Intents, allowance[i] = "consumed" PROVE InDoubt(i)'
  <2>1. i \notin credited
    BY <1>4 DEF MoneyInv, TypeInv, BrokerInv
  <2>2. InDoubt(i)
    BY <1>4 DEF RouteInv
  <2> QED BY <1>2, <1>3, <2>1, <2>2, CommandKeepsDoubt
<1> QED BY <1>1, <1>4 DEF RouteInv

\* The allowance is taken while the fence is this launch's and within its window.
LEMMA RouteConsumesKeepsRoute ==
    ASSUME MoneyInv, AuthorityInv, RouteInv, RouteConsumes
    PROVE  RouteInv'
<1>1. PICK i \in Intents : worker.lease = i
  BY DEF RouteConsumes, MoneyInv, WorkerInv
<1>2. InDoubt(i)
  BY <1>1 DEF RouteConsumes, AuthorityInv, FenceInv, Authorized, InDoubt
<1>3. rows' = rows /\ allowance' = [allowance EXCEPT ![i] = "consumed"]
  BY <1>1 DEF RouteConsumes, broker
<1>4. ASSUME NEW j \in Intents, allowance'[j] = "consumed" PROVE InDoubt(j)'
  <2>1. j = i \/ allowance[j] = "consumed"
    BY <1>3, <1>4 DEF MoneyInv, TypeInv
  <2>2. InDoubt(j)
    BY <1>2, <2>1 DEF RouteInv
  <2> QED BY <1>3, <2>2 DEF InDoubt
<1> QED BY <1>4 DEF RouteInv

\* The end of a launch ends its route; the window outlasts a request it holds.
LEMMA RestKeepsRoute ==
    ASSUME MoneyInv, RouteInv, [Next]_vars, ~Deliver, \A c \in late : ~Arrive(c),
           ~RouteConsumes
    PROVE  RouteInv'
<1>1. rows \in [Intents -> Row] /\ allowance \in [Intents -> {"unused", "consumed", "gone"}]
  BY DEF MoneyInv, TypeInv
<1>2. \A r \in Row : /\ [r EXCEPT !.lapsed = TRUE].attempt = r.attempt
                     /\ PaidOutside(r).attempt = r.attempt /\ PaidOutside(r).mine = r.mine
                     /\ PaidOutside(r).lapsed = r.lapsed
  BY DEF Row, PaidOutside
<1>3. CASE UNCHANGED <<rows, allowance>>
  BY <1>3 DEF RouteInv, InDoubt
<1>4. CASE WorkerStep \/ GiveUp \/ Launch
  BY <1>3, <1>4 DEF WorkerStep, RunOnce, Rejected, LeaseAnswered, RequestFence, FenceAnswered,
         Uncertain, DialogSeen, DispatchRecorded, ModalConfirmed, PauseAnswered, Reset,
         Dismiss, GiveUp, Launch, broker, provider
<1>5. CASE Crash \/ CloseReview
  <2>1. \A i \in Intents : allowance'[i] # "consumed"
    BY <1>5 DEF Crash, CloseReview, Stops
  <2> QED BY <2>1 DEF RouteInv
<1>6. CASE AuthorityExpires \/ UNCHANGED vars \/ \E c \in late : Lose(c)
  BY <1>3, <1>6 DEF AuthorityExpires, Lose, vars, broker, provider
<1>7. ASSUME NEW j \in Intents, Credit(j) \/ DialogOpens(j) PROVE RouteInv'
  BY <1>3, <1>7 DEF Credit, DialogOpens, broker
<1>8. ASSUME NEW j \in Intents, Lapse(j) PROVE RouteInv'
  <2>1. /\ rows' = [rows EXCEPT ![j] = [rows[j] EXCEPT !.lapsed = TRUE]]
        /\ allowance' = allowance
        /\ rows[j].attempt \in {"prepared", "final_action_fenced"}
        /\ ~(rows[j].attempt = "final_action_fenced" /\ allowance[j] = "consumed")
    BY <1>8 DEF Lapse, provider
  <2>2. allowance[j] # "consumed"
    BY <2>1 DEF RouteInv, InDoubt
  <2>3. \A i \in Intents : i # j => rows'[i] = rows[i]
    BY <1>1, <2>1
  <2> QED BY <2>1, <2>2, <2>3 DEF RouteInv, InDoubt
<1>9. ASSUME NEW j \in Intents, RecordStoppedCredit(j) PROVE RouteInv'
  <2>1. rows' = [rows EXCEPT ![j] = PaidOutside(rows[j])] /\ allowance' = allowance
    BY <1>9 DEF RecordStoppedCredit, provider
  <2>2. \A i \in Intents : /\ rows'[i].attempt = rows[i].attempt /\ rows'[i].mine = rows[i].mine
                           /\ rows'[i].lapsed = rows[i].lapsed
    BY <1>1, <1>2, <2>1
  <2> QED BY <2>1, <2>2 DEF RouteInv, InDoubt
<1>10. CASE Authorize \/ StopPolicy \/ DisableTransport \/ ActivateTransport
  BY <1>3, <1>10 DEF Authorize, StopPolicy, DisableTransport, ActivateTransport, provider
<1>11. ASSUME NEW j \in Intents, RouteForwards(j) \/ RouteBlocks(j) PROVE RouteInv'
  <2>1. rows' = rows /\ allowance' = [allowance EXCEPT ![j] = "gone"]
    BY <1>11 DEF RouteForwards, RouteBlocks, broker
  <2>2. \A i \in Intents : allowance'[i] = "consumed" => allowance[i] = "consumed"
    BY <1>1, <2>1
  <2> QED BY <2>1, <2>2 DEF RouteInv, InDoubt
<1> QED BY <1>4, <1>5, <1>6, <1>7, <1>8, <1>9, <1>10, <1>11 DEF Next, OwnerStep

LEMMA RouteInitially == Init => RouteInv
BY DEF Init, RouteInv

LEMMA RouteAlways == Spec => []RouteInv
<1>1. MoneyInv /\ ShownInv /\ AuthorityInv /\ RouteInv /\ [Next]_vars => RouteInv'
  BY BrokerKeepsRoute, RouteConsumesKeepsRoute, RestKeepsRoute
<1> QED BY <1>1, RouteInitially, MoneyAlways, ShownAlways, AuthorityAlways, PTL DEF Spec

\* Only the route lets a transfer pass.
LEMMA OnlyRouteForwards ==
    ASSUME MoneyInv, [Next]_vars, NEW i \in Intents, posts'[i] > posts[i]
    PROVE  RouteForwards(i)
<1>1. posts \in [Intents -> Nat]
  BY DEF MoneyInv, TypeInv
<1>2. posts' # posts
  BY <1>1
<1>3. PICK j \in Intents : RouteForwards(j)
  BY <1>2 DEF Next, WorkerStep, RunOnce, Rejected, LeaseAnswered, RequestFence, FenceAnswered,
         RouteConsumes, Uncertain, DialogSeen, DispatchRecorded, ModalConfirmed, PauseAnswered,
         Reset, Dismiss, GiveUp, Launch, OwnerStep, Authorize, StopPolicy, DisableTransport,
         ActivateTransport, RecordStoppedCredit, Deliver, Arrive, Lose, Crash, CloseReview,
         Stops, AuthorityExpires, RouteBlocks, Credit, DialogOpens, Lapse, vars, provider
<1>4. posts'[i] = IF i = j THEN posts[i] + 1 ELSE posts[i]
  BY <1>1, <1>3 DEF RouteForwards
<1> QED BY <1>1, <1>3, <1>4

\* A transfer may leave after the worker contained its deposit, never after the
\* ledger called it stopped, reconciled or executed.
THEOREM OnlyInDoubt == Spec => TransferOnlyInDoubt
<1>1. MoneyInv /\ RouteInv /\ [Next]_vars
        => [\A i \in Intents : posts'[i] > posts[i] =>
              rows[i].attempt \in {"final_action_fenced", "review_required"}]_vars
  <2> SUFFICES ASSUME MoneyInv, RouteInv, [Next]_vars, NEW i \in Intents,
                      posts'[i] > posts[i]
               PROVE  rows[i].attempt \in {"final_action_fenced", "review_required"}
    OBVIOUS
  <2>1. allowance[i] = "consumed"
    BY OnlyRouteForwards DEF RouteForwards
  <2> QED BY <2>1 DEF RouteInv, InDoubt
<1> QED BY <1>1, MoneyAlways, RouteAlways, PTL DEF Spec, TransferOnlyInDoubt
=============================================================================
