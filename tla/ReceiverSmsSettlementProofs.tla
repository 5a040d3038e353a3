--------------------- MODULE ReceiverSmsSettlementProofs ---------------------
(***************************************************************************)
(* The settlement of receiver messages for any number of payments,         *)
(* customers and claims, and any length of the hour: no match is missed,   *)
(* and the settlement implements OneCreditPerPayment.                      *)
(***************************************************************************)
EXTENDS ReceiverSmsSettlement, TLAPS

First(m) == IsFirst(submissions, m)

\* The statuses a job has when it was never sent and never will be.
Withdrawn == {"none", "stopped", "expired"}

\* Claims are numbered as they are made; only the first of a payment is matched,
\* and only what was matched has a job.
ClaimInv ==
    /\ \A m \in Messages : submissions[m].of # None <=> m <= sent
    /\ \A m \in Messages : matches[m].disposition # "none" => First(m)
    /\ \A m \in Messages : jobs[m] # "none" => matches[m].disposition # "none"

\* A payment with an Owner's case has no job that may be sent; a case of a claim
\* is one of the first, and a case that is still open is one of a claim.
CaseInv ==
    \A r \in References :
        /\ cases[r].status # "none" =>
              \A m \in Messages : submissions[m].of = r => jobs[m] \in Withdrawn
        /\ cases[r].of # 0 => First(cases[r].of) /\ submissions[cases[r].of].of = r
        /\ cases[r].status \in {"awaiting_manual_credit", "rejected"} => cases[r].of # 0

SafeInv == SettlementTypeOK /\ ClaimInv /\ CaseInv

-----------------------------------------------------------------------------
(* Rows. *)

\* The parts of each table's rows.
LEMMA RowParts ==
    /\ \A s \in Submission : /\ s.of \in References \cup {None} /\ s.who \in Customers \cup {None}
                             /\ s.current \in BOOLEAN /\ s.age \in 0..(Hour + 2)
    /\ \A e \in Event : /\ e.phase \in {"none", "inserted", "recorded"}
                        /\ e.current \in BOOLEAN /\ e.doubtful \in BOOLEAN
                        /\ e.age \in 0..(Hour + 1) /\ e.lag \in 0..1
    /\ \A x \in Match : x.disposition \in Disposition \cup {"none"} /\ x.age \in 0..Hour
    /\ \A k \in Case : /\ k.of \in 0..MaxMessages
                       /\ k.status \in {"none", "awaiting_manual_credit",
                                        "manually_credited", "rejected"}
BY DEF Submission, Event, Match, Case

LEMMA AgesGrow ==
    ASSUME NEW last \in Nat, NEW age \in 0..last
    PROVE  Grown(age, last) \in 0..last
BY DEF Grown

\* Two first claims of one payment are one.
LEMMA FirstsAgree ==
    ASSUME NEW m \in Messages, NEW n \in Messages, First(m), First(n),
           submissions[m].of = submissions[n].of
    PROVE  m = n
BY SettlementAssumption DEF First, IsFirst, Messages

\* Where the claims stay, the first ones stay.
LEMMA FirstsStay ==
    ASSUME \A m \in Messages : submissions'[m].of = submissions[m].of
    PROVE  \A m \in Messages : First(m)' <=> First(m)
BY DEF First, IsFirst, Messages

-----------------------------------------------------------------------------
(* Steps of the invariant. *)

\* What a match does, whichever command makes it.
LEMMA MatchParts ==
    ASSUME NEW table, NEW r, NEW e, matches \in [Messages -> Match], MatchWith(table, r, e)
    PROVE  /\ matches' \in [Messages -> Match]
           /\ \A m \in Messages :
                \/ matches'[m] = matches[m]
                \/ table[m].of = r /\ Matchable(table, e, m)
           /\ \A m \in Messages :
                table[m].of = r /\ Matchable(table, e, m) => matches'[m].disposition # "none"
           /\ \A m \in Messages :
                matches[m].disposition # "none" => matches'[m] = matches[m]
<1>1. \A s, d : DispositionOf(s, d) \in Disposition
  BY DEF DispositionOf, Disposition
<1>2. \A d \in Disposition : /\ [disposition |-> d, age |-> 0] \in Match
                             /\ [disposition |-> d, age |-> 0].disposition = d /\ d # "none"
  BY SettlementAssumption DEF Match, Disposition
<1>3. \A m \in Messages :
        matches'[m] = IF table[m].of = r /\ Matchable(table, e, m)
                      THEN [disposition |-> DispositionOf(table[m], e), age |-> 0]
                      ELSE matches[m]
  BY DEF MatchWith
<1>4. \A m \in Messages : matches'[m] \in Match
  BY <1>1, <1>2, <1>3
<1>5. matches' \in [Messages -> Match]
  BY <1>4 DEF MatchWith
<1>6. \A m \in Messages : Matchable(table, e, m) => matches[m].disposition = "none"
  BY DEF Matchable
<1> QED BY <1>1, <1>2, <1>3, <1>5, <1>6

\* The first claim of a payment without a case is matched unless it was.
LEMMA FirstIsMatchable ==
    ASSUME SettlementTypeOK, NEW table, NEW e, NEW m \in Messages,
           enabled, e.current, table[m].current, IsFirst(table, m),
           cases[table[m].of].status = "none",
           \A n \in Messages : table[n].of = table[m].of => jobs[n] # "executed",
           matches[m].disposition = "none"
    PROVE  Matchable(table, e, m)
<1>1. ~Duplicate(table, m)
  BY SettlementAssumption DEF Duplicate, Claims, IsFirst, Messages
<1>2. IsCandidate(table, m)
  BY DEF IsCandidate, Claims, IsFirst
<1> QED BY <1>1, <1>2 DEF Matchable

\* A candidate that is no repetition is the first claim of its payment.
LEMMA MatchableIsFirst ==
    ASSUME NEW table, NEW e, NEW m \in Messages, table[m].of # None,
           Matchable(table, e, m)
    PROVE  IsFirst(table, m)
<1>1. \A n \in Messages : table[n].of = table[m].of => ~(n < m)
  BY DEF Matchable, Duplicate, Claims
<1> QED BY <1>1, SettlementAssumption DEF IsFirst, Messages

\* A new claim is the last; it has no match and no job.
LEMMA CaptureParts ==
    ASSUME SafeInv, NEW r \in References, NEW c \in Customers, Capture(r, c)
    PROVE  /\ sent + 1 \in Messages /\ sent' = sent + 1 /\ enabled
           /\ submissions' \in [Messages -> Submission]
           /\ submissions'[sent + 1].of = r /\ submissions'[sent + 1].who = c
           /\ \A m \in Messages : m # sent + 1 => submissions'[m] = submissions[m]
           /\ submissions[sent + 1].of = None
           /\ matches[sent + 1].disposition = "none" /\ jobs[sent + 1] = "none"
           /\ matches' \in [Messages -> Match]
           /\ \A m \in Messages :
                matches[m].disposition # "none" => matches'[m] = matches[m]
           /\ \A m \in Messages :
                \/ matches'[m] = matches[m]
                \/ submissions'[m].of = r /\ Matchable(submissions', events[r], m)
           /\ \A m \in Messages :
                /\ events[r].phase = "recorded" /\ submissions'[m].of = r
                /\ Matchable(submissions', events[r], m)
                => matches'[m].disposition # "none"
           /\ UNCHANGED <<enabled, events, holds, jobs, cases>>
<1>1. sent + 1 \in Messages /\ sent' = sent + 1 /\ enabled /\ submissions' = WithClaim(r, c)
      /\ UNCHANGED <<enabled, events, holds, jobs, cases>>
  BY SettlementAssumption DEF Capture, SafeInv, SettlementTypeOK, Messages
<1>2. [of |-> r, who |-> c, current |-> TRUE, age |-> 0] \in Submission
  BY SettlementAssumption DEF Submission
<1>3. /\ submissions' \in [Messages -> Submission]
      /\ submissions'[sent + 1].of = r /\ submissions'[sent + 1].who = c
      /\ \A m \in Messages : m # sent + 1 => submissions'[m] = submissions[m]
  BY <1>1, <1>2 DEF WithClaim, SafeInv, SettlementTypeOK
<1>4. ~(sent + 1 <= sent)
  BY DEF SafeInv, SettlementTypeOK
<1>5. /\ submissions[sent + 1].of = None
      /\ matches[sent + 1].disposition = "none" /\ jobs[sent + 1] = "none"
  BY <1>1, <1>4 DEF SafeInv, ClaimInv, First, IsFirst
<1>6. MatchWith(submissions', r, events[r]) \/ UNCHANGED matches
  BY <1>1 DEF Capture
<1>7. events[r].phase = "recorded" => MatchWith(submissions', r, events[r])
  BY <1>1 DEF Capture
<1>8. matches \in [Messages -> Match]
  BY DEF SafeInv, SettlementTypeOK
<1> HIDE DEF Capture
<1>9. MatchWith(submissions', r, events[r]) =>
        /\ matches' \in [Messages -> Match]
        /\ \A m \in Messages :
             \/ matches'[m] = matches[m]
             \/ submissions'[m].of = r /\ Matchable(submissions', events[r], m)
        /\ \A m \in Messages :
             submissions'[m].of = r /\ Matchable(submissions', events[r], m)
             => matches'[m].disposition # "none"
        /\ \A m \in Messages :
             matches[m].disposition # "none" => matches'[m] = matches[m]
  BY <1>8, MatchParts
<1> QED BY <1>1, <1>3, <1>5, <1>6, <1>7, <1>8, <1>9

\* The first claims stay the first; only the new one may join them.
LEMMA CaptureFirsts ==
    ASSUME SafeInv, NEW r \in References, NEW c \in Customers, Capture(r, c)
    PROVE  /\ \A m \in Messages : First(m) => First(m)' /\ m # sent + 1
           /\ \A m \in Messages : First(m)' /\ m # sent + 1 => First(m)
           /\ IsFirst(submissions', sent + 1) <=> \A m \in Messages : submissions[m].of # r
<1>1. /\ sent + 1 \in Messages /\ sent \in Nat
      /\ submissions'[sent + 1].of = r /\ submissions[sent + 1].of = None
      /\ \A m \in Messages : m # sent + 1 => submissions'[m].of = submissions[m].of
  BY CaptureParts DEF SafeInv, SettlementTypeOK
<1>2. \A m \in Messages : submissions[m].of # None => m <= sent
  BY DEF SafeInv, ClaimInv
<1>3. r # None /\ Messages \subseteq Nat
  BY SettlementAssumption DEF Messages
<1>4. \A m \in Messages : First(m)' <=>
         /\ submissions'[m].of # None
         /\ \A k \in Messages : submissions'[k].of = submissions'[m].of => m <= k
  BY DEF First, IsFirst
<1>5. \A m \in Messages : First(m) <=>
         /\ submissions[m].of # None
         /\ \A k \in Messages : submissions[k].of = submissions[m].of => m <= k
  BY DEF First, IsFirst
<1>6. ASSUME NEW m \in Messages, First(m) PROVE First(m)' /\ m # sent + 1
  <2>1. m <= sent /\ m # sent + 1
    BY <1>1, <1>2, <1>3, <1>5, <1>6
  <2> QED BY <1>1, <1>3, <1>4, <1>5, <1>6, <2>1
<1>7. ASSUME NEW m \in Messages, First(m)', m # sent + 1 PROVE First(m)
  <2>1. submissions[m].of # None
    BY <1>1, <1>4, <1>7
  <2> QED BY <1>1, <1>4, <1>5, <1>7, <2>1
<1>8. IsFirst(submissions', sent + 1) <=> \A m \in Messages : submissions[m].of # r
  <2>1. \A m \in Messages : submissions[m].of = r => m <= sent /\ ~(sent + 1 <= m)
    <3>1. \A a, b \in Nat : a <= b => ~(b + 1 <= a)
      OBVIOUS
    <3> QED BY <1>1, <1>2, <1>3, <3>1
  <2>2. \A m \in Messages : submissions'[m].of = r <=> m = sent + 1 \/ submissions[m].of = r
    BY <1>1, <1>3
  <2> QED BY <1>1, <1>3, <2>1, <2>2 DEF IsFirst
<1> QED BY <1>6, <1>7, <1>8

LEMMA CaptureKeeps ==
    ASSUME SafeInv, NEW r \in References, NEW c \in Customers, Capture(r, c)
    PROVE  SafeInv'
<1>1. SettlementTypeOK'
  <2>1. sent' \in 0..MaxMessages
    BY CaptureParts, SettlementAssumption DEF Messages
  <2>2. /\ submissions' \in [Messages -> Submission] /\ matches' \in [Messages -> Match]
        /\ UNCHANGED <<enabled, events, holds, jobs, cases>>
    BY CaptureParts
  <2> QED BY <2>1, <2>2 DEF SafeInv, SettlementTypeOK
<1>2. \A m \in Messages : submissions'[m].of # None <=> m <= sent'
  <2>1. \A m \in Messages : submissions[m].of # None <=> m <= sent
    BY DEF SafeInv, ClaimInv
  <2> QED BY <2>1, CaptureParts, SettlementAssumption DEF SafeInv, SettlementTypeOK, Messages
<1>3. ASSUME NEW m \in Messages, matches'[m].disposition # "none" PROVE First(m)'
  <2>1. CASE matches'[m] = matches[m]
    BY <1>3, <2>1, CaptureFirsts DEF SafeInv, ClaimInv
  <2>2. CASE submissions'[m].of = r /\ Matchable(submissions', events[r], m)
    BY <2>2, MatchableIsFirst, SettlementAssumption DEF First
  <2> QED BY <2>1, <2>2, CaptureParts
<1>4. \A m \in Messages : jobs'[m] # "none" => matches'[m].disposition # "none"
  BY CaptureParts DEF SafeInv, ClaimInv
<1>5. ASSUME NEW p \in References PROVE
        /\ cases'[p].status # "none" =>
              \A m \in Messages : submissions'[m].of = p => jobs'[m] \in Withdrawn
        /\ cases'[p].of # 0 => IsFirst(submissions', cases'[p].of) /\ submissions'[cases'[p].of].of = p
        /\ cases'[p].status \in {"awaiting_manual_credit", "rejected"} => cases'[p].of # 0
  <2>1. cases[p].of # 0 => cases[p].of \in Messages
    BY RowParts, SettlementAssumption DEF SafeInv, SettlementTypeOK, Messages
  <2>2. cases[p].of # 0 => IsFirst(submissions', cases[p].of) /\ submissions'[cases[p].of].of = p
    BY <2>1, CaptureParts, CaptureFirsts DEF SafeInv, CaseInv, First
  <2>3. cases' = cases /\ jobs' = jobs
    BY CaptureParts
  <2>4. cases[p].status # "none" =>
              \A m \in Messages : submissions'[m].of = p => jobs[m] \in Withdrawn
    BY CaptureParts DEF SafeInv, CaseInv, Withdrawn
  <2>5. cases[p].status \in {"awaiting_manual_credit", "rejected"} => cases[p].of # 0
    BY DEF SafeInv, CaseInv
  <2> QED BY <2>2, <2>3, <2>4, <2>5
<1>6. ClaimInv'
  BY <1>2, <1>3, <1>4 DEF ClaimInv
<1>7. CaseInv'
  BY <1>5 DEF CaseInv, First
<1> QED BY <1>1, <1>6, <1>7 DEF SafeInv

LEMMA CommitKeeps ==
    ASSUME SafeInv, NEW r \in References, CommitEvent(r)
    PROVE  SafeInv'
<1>1. /\ matches \in [Messages -> Match] /\ MatchWith(submissions, r, events[r])
      /\ events' = [events EXCEPT ![r] = [@ EXCEPT !.phase = "recorded", !.lag = 0]]
      /\ UNCHANGED <<enabled, sent, submissions, holds, jobs, cases>>
  BY DEF CommitEvent, SafeInv, SettlementTypeOK
<1>2. \A e \in Event : [e EXCEPT !.phase = "recorded", !.lag = 0] \in Event
  <2>1. "recorded" \in {"none", "inserted", "recorded"} /\ 0 \in 0..1
    OBVIOUS
  <2> QED BY <2>1, Zenon DEF Event
<1>3. events' \in [References -> Event]
  BY <1>1, <1>2 DEF SafeInv, SettlementTypeOK
<1>4. /\ matches' \in [Messages -> Match]
      /\ \A m \in Messages :
           \/ matches'[m] = matches[m]
           \/ submissions[m].of = r /\ Matchable(submissions, events[r], m)
      /\ \A m \in Messages : matches[m].disposition # "none" => matches'[m] = matches[m]
  BY <1>1, MatchParts
<1>5. SettlementTypeOK'
  BY <1>1, <1>3, <1>4 DEF SafeInv, SettlementTypeOK
<1>6. \A m \in Messages : Matchable(submissions, events[r], m) /\ submissions[m].of = r => First(m)
  BY MatchableIsFirst, SettlementAssumption DEF First
<1>7. \A m \in Messages : First(m)' <=> First(m)
  BY <1>1, FirstsStay
<1>8. ClaimInv'
  BY <1>1, <1>4, <1>6, <1>7 DEF SafeInv, ClaimInv
<1>9. CaseInv'
  BY <1>1 DEF SafeInv, CaseInv, First, IsFirst
<1> QED BY <1>5, <1>8, <1>9 DEF SafeInv

\* Commands that touch neither who claims what, nor dispositions, jobs and cases.
Quiet ==
    /\ UNCHANGED <<sent, jobs, cases>>
    /\ \A m \in Messages : /\ submissions'[m].of = submissions[m].of
                           /\ submissions'[m].who = submissions[m].who
                           /\ matches'[m].disposition = matches[m].disposition

LEMMA QuietKeeps ==
    ASSUME SafeInv, SettlementTypeOK', Quiet
    PROVE  SafeInv'
<1>1. \A m \in Messages : First(m)' <=> First(m)
  BY FirstsStay DEF Quiet
<1>2. ClaimInv'
  BY <1>1 DEF SafeInv, ClaimInv, Quiet
<1>3. ASSUME NEW p \in References PROVE
        /\ cases'[p].status # "none" =>
              \A m \in Messages : submissions'[m].of = p => jobs'[m] \in Withdrawn
        /\ cases'[p].of # 0 => IsFirst(submissions', cases'[p].of) /\ submissions'[cases'[p].of].of = p
        /\ cases'[p].status \in {"awaiting_manual_credit", "rejected"} => cases'[p].of # 0
  <2>1. cases[p].of # 0 => cases[p].of \in Messages
    BY RowParts, SettlementAssumption DEF SafeInv, SettlementTypeOK, Messages
  <2>2. cases[p].of # 0 => IsFirst(submissions', cases[p].of) /\ submissions'[cases[p].of].of = p
    BY <1>1, <2>1 DEF SafeInv, CaseInv, First, Quiet
  <2>3. cases[p].status # "none" =>
              \A m \in Messages : submissions'[m].of = p => jobs[m] \in Withdrawn
    BY DEF SafeInv, CaseInv, Quiet
  <2>4. cases[p].status \in {"awaiting_manual_credit", "rejected"} => cases[p].of # 0
    BY DEF SafeInv, CaseInv
  <2> QED BY <2>2, <2>3, <2>4 DEF Quiet
<1>4. CaseInv'
  BY <1>3 DEF CaseInv, First
<1> QED BY <1>2, <1>4 DEF SafeInv

LEMMA InsertQuiet ==
    ASSUME SafeInv, NEW r \in References, InsertEvent(r)
    PROVE  SettlementTypeOK' /\ Quiet
<1>1. PICK current \in BOOLEAN, doubtful \in BOOLEAN, age \in {0, Hour} :
        events' = [events EXCEPT ![r] =
               [phase |-> "inserted", current |-> current, doubtful |-> doubtful,
                age |-> age, lag |-> 0]]
  BY DEF InsertEvent
<1>2. [phase |-> "inserted", current |-> current, doubtful |-> doubtful,
       age |-> age, lag |-> 0] \in Event
  BY SettlementAssumption DEF Event
<1> QED BY <1>1, <1>2 DEF InsertEvent, SafeInv, SettlementTypeOK, Quiet

LEMMA ContradictQuiet ==
    ASSUME SafeInv, NEW r \in References, Contradict(r)
    PROVE  SettlementTypeOK' /\ Quiet
<1>1. \A e \in Event : [e EXCEPT !.doubtful = TRUE] \in Event
  BY DEF Event
<1> QED BY <1>1 DEF Contradict, SafeInv, SettlementTypeOK, Quiet

LEMMA HoldQuiet ==
    ASSUME SafeInv, NEW m \in Messages, HoldUnanswered(m) \/ HoldUnsettled(m)
    PROVE  SettlementTypeOK' /\ Quiet
BY DEF HoldUnanswered, HoldUnsettled, SafeInv, SettlementTypeOK, Quiet, rows

LEMMA StopQuiet ==
    ASSUME SafeInv, Stop
    PROVE  SettlementTypeOK' /\ Quiet
BY DEF Stop, SafeInv, SettlementTypeOK, Quiet, rows

LEMMA ActivateQuiet ==
    ASSUME SafeInv, Activate
    PROVE  SettlementTypeOK' /\ Quiet
<1>1. \A s \in Submission :
        [of |-> s.of, who |-> s.who, current |-> FALSE, age |-> s.age] \in Submission
  BY DEF Submission
<1>2. \A e \in Event : [e EXCEPT !.current = FALSE] \in Event
  BY DEF Event
<1>3. submissions' \in [Messages -> Submission] /\ events' \in [References -> Event]
  BY <1>1, <1>2 DEF Activate, SafeInv, SettlementTypeOK
<1>4. enabled' \in BOOLEAN /\ UNCHANGED <<sent, matches, holds, jobs, cases>>
  BY DEF Activate
<1>5. \A m \in Messages : submissions'[m].of = submissions[m].of /\ submissions'[m].who = submissions[m].who
  BY DEF Activate
<1> QED BY <1>3, <1>4, <1>5 DEF SafeInv, SettlementTypeOK, Quiet

LEMMA TickQuiet ==
    ASSUME SafeInv, Tick
    PROVE  SettlementTypeOK' /\ Quiet
<1>1. ASSUME NEW s \in Submission
      PROVE  [of |-> s.of, who |-> s.who, current |-> s.current,
              age |-> Grown(s.age, Hour + 2)] \in Submission
  <2>1. Grown(s.age, Hour + 2) \in 0..(Hour + 2)
    BY AgesGrow, RowParts, SettlementAssumption
  <2> QED BY <2>1, RowParts DEF Submission
<1>2. ASSUME NEW e \in Event
      PROVE  \A lag \in 0..1 :
               [e EXCEPT !.age = Grown(e.age, Hour + 1), !.lag = lag] \in Event
  <2>1. Grown(e.age, Hour + 1) \in 0..(Hour + 1)
    BY AgesGrow, RowParts, SettlementAssumption
  <2> QED BY <2>1 DEF Event
<1>3. ASSUME NEW x \in Match
      PROVE  [disposition |-> x.disposition, age |-> Grown(x.age, Hour)] \in Match
  <2>1. Grown(x.age, Hour) \in 0..Hour
    BY AgesGrow, RowParts, SettlementAssumption
  <2> QED BY <2>1, RowParts DEF Match
<1>4. submissions' \in [Messages -> Submission]
  BY <1>1 DEF Tick, SafeInv, SettlementTypeOK
<1>5. matches' \in [Messages -> Match]
  BY <1>3 DEF Tick, SafeInv, SettlementTypeOK
<1>6. events' \in [References -> Event]
  <2>1. \A r \in References : (IF events[r].phase = "inserted" THEN 1 ELSE 0) \in 0..1
    OBVIOUS
  <2> QED BY <1>2, <2>1 DEF Tick, SafeInv, SettlementTypeOK
<1>7. UNCHANGED <<enabled, sent, holds, jobs, cases>>
  BY DEF Tick
<1>8. \A m \in Messages : /\ submissions'[m].of = submissions[m].of
                          /\ submissions'[m].who = submissions[m].who
                          /\ matches'[m].disposition = matches[m].disposition
  BY DEF Tick
<1> QED BY <1>4, <1>5, <1>6, <1>7, <1>8 DEF SafeInv, SettlementTypeOK, Quiet

\* A claim with a job is of some payment; a job that is not withdrawn has no case.
LEMMA JobParts ==
    ASSUME SafeInv, NEW m \in Messages, jobs[m] # "none"
    PROVE  /\ First(m) /\ submissions[m].of \in References
           /\ matches[m].disposition # "none"
           /\ jobs[m] \notin Withdrawn => cases[submissions[m].of].status = "none"
<1>1. First(m) /\ matches[m].disposition # "none"
  BY DEF SafeInv, ClaimInv
<1>2. submissions[m].of \in References
  BY <1>1, RowParts DEF First, IsFirst, SafeInv, SettlementTypeOK
<1> QED BY <1>1, <1>2 DEF SafeInv, CaseInv

\* Jobs move where a match is and no case, or to where they are given up.
LEMMA JobsKeep ==
    ASSUME SafeInv, UNCHANGED <<enabled, sent, rows, holds, cases>>,
           jobs' \in [Messages -> Job],
           \A m \in Messages :
               \/ jobs'[m] = jobs[m]
               \/ /\ matches[m].disposition # "none"
                  /\ jobs'[m] \in Withdrawn \/ cases[submissions[m].of].status = "none"
    PROVE  SafeInv'
<1>1. SettlementTypeOK'
  BY DEF SafeInv, SettlementTypeOK, rows
<1>2. \A m \in Messages : First(m)' <=> First(m)
  BY FirstsStay DEF rows
<1>3. ClaimInv'
  BY <1>2 DEF SafeInv, ClaimInv, rows
<1>4. CaseInv'
  BY DEF SafeInv, CaseInv, First, IsFirst, rows
<1> QED BY <1>1, <1>3, <1>4 DEF SafeInv

LEMMA JobGoesKeeps ==
    ASSUME SafeInv, NEW m \in Messages, NEW from, NEW to \in Job,
           from \notin Withdrawn, JobGoes(m, from, to)
    PROVE  SafeInv'
<1>1. jobs[m] = from /\ jobs' = [jobs EXCEPT ![m] = to]
      /\ UNCHANGED <<enabled, sent, rows, holds, cases>>
  BY DEF JobGoes
<1>2. matches[m].disposition # "none" /\ cases[submissions[m].of].status = "none"
  BY <1>1, JobParts DEF Withdrawn
<1>3. jobs' \in [Messages -> Job]
  BY <1>1 DEF SafeInv, SettlementTypeOK
<1>4. \A n \in Messages : n # m => jobs'[n] = jobs[n]
  BY <1>1 DEF SafeInv, SettlementTypeOK
<1> QED BY <1>1, <1>2, <1>3, <1>4, JobsKeep

\* The lane moves a job on, from the queue to its end.
LEMMA LaneMoves ==
    ASSUME NEW m \in Messages, LaneStep(m)
    PROVE  \E from \in {"queued", "prepared", "fenced"} :
             \E to \in {"prepared", "stopped", "fenced", "executed", "review"} :
               /\ JobGoes(m, from, to)
               /\ \/ from = "queued" /\ to = "prepared"
                  \/ from = "prepared" /\ to \in {"stopped", "fenced"}
                  \/ from = "fenced" /\ to \in {"executed", "review"}
BY DEF LaneStep, Lease

LEMMA LaneKeeps ==
    ASSUME SafeInv, NEW m \in Messages, LaneStep(m)
    PROVE  SafeInv'
<1>1. PICK from \in {"queued", "prepared", "fenced"},
           to \in {"prepared", "stopped", "fenced", "executed", "review"} : JobGoes(m, from, to)
  BY LaneMoves
<1>2. from \notin Withdrawn /\ to \in Job
  BY DEF Withdrawn, Job
<1> QED BY <1>1, <1>2, JobGoesKeeps

LEMMA SettleKeeps ==
    ASSUME SafeInv, NEW m \in Messages, SettleNext(m)
    PROVE  SafeInv'
<1>1. jobs' = [jobs EXCEPT ![m] = "queued"] /\ UNCHANGED <<enabled, sent, rows, holds, cases>>
      /\ matches[m].disposition # "none" /\ cases[submissions[m].of].status = "none"
  BY DEF SettleNext, NextToSettle, Awaiting
<1>2. jobs' \in [Messages -> Job] /\ \A n \in Messages : n # m => jobs'[n] = jobs[n]
  BY <1>1 DEF SafeInv, SettlementTypeOK, Job
<1> QED BY <1>1, <1>2, JobsKeep

LEMMA MoveExpiredKeeps ==
    ASSUME SafeInv, MoveExpired
    PROVE  SafeInv'
<1>1. jobs' = [m \in Messages |-> IF Outdated(m) THEN "expired" ELSE jobs[m]]
      /\ UNCHANGED <<enabled, sent, rows, holds, cases>>
  BY DEF MoveExpired
<1>2. \A m \in Messages : /\ Outdated(m) => jobs'[m] = "expired" /\ jobs[m] = "queued"
                          /\ ~Outdated(m) => jobs'[m] = jobs[m]
  BY <1>1 DEF Outdated
<1>3. jobs' \in [Messages -> Job]
  BY <1>1 DEF SafeInv, SettlementTypeOK, Job
<1>4. \A m \in Messages : Outdated(m) => matches[m].disposition # "none" /\ jobs'[m] \in Withdrawn
  BY <1>2, JobParts DEF Withdrawn
<1> QED BY <1>1, <1>2, <1>3, <1>4, JobsKeep

\* A case is made or moved where no job may be sent, of the first claim if of any.
LEMMA CaseKeeps ==
    ASSUME SafeInv, NEW r \in References, NEW status, NEW m \in 0..MaxMessages,
           status \in {"awaiting_manual_credit", "manually_credited", "rejected"},
           CaseBecomes(r, status, m),
           \A n \in Messages : submissions[n].of = r => jobs[n] \in Withdrawn,
           m # 0 => First(m) /\ submissions[m].of = r,
           status # "manually_credited" => m # 0
    PROVE  SafeInv'
<1>1. cases' = [cases EXCEPT ![r] = [status |-> status, of |-> m]]
      /\ UNCHANGED <<enabled, sent, rows, holds, jobs>>
  BY DEF CaseBecomes
<1>2. [status |-> status, of |-> m] \in Case
  BY DEF Case
<1>3. SettlementTypeOK'
  BY <1>1, <1>2 DEF SafeInv, SettlementTypeOK, rows
<1>4. \A n \in Messages : First(n)' <=> First(n)
  BY <1>1, FirstsStay DEF rows
<1>5. ClaimInv'
  BY <1>1, <1>4 DEF SafeInv, ClaimInv, rows
<1>6. cases'[r].status = status /\ cases'[r].of = m
      /\ \A p \in References : p # r => cases'[p] = cases[p]
  BY <1>1 DEF SafeInv, SettlementTypeOK
<1>7. CaseInv'
  BY <1>1, <1>6 DEF SafeInv, CaseInv, First, IsFirst, rows
<1> QED BY <1>3, <1>5, <1>7 DEF SafeInv

\* Where the first claim's job is given up, so is every job of the payment.
LEMMA NothingOut ==
    ASSUME SafeInv, NEW m \in Messages, First(m), jobs[m] \in Withdrawn
    PROVE  \A n \in Messages : submissions[n].of = submissions[m].of => jobs[n] \in Withdrawn
<1>1. ASSUME NEW n \in Messages, submissions[n].of = submissions[m].of, jobs[n] # "none"
      PROVE  n = m
  BY <1>1, JobParts, FirstsAgree
<1> QED BY <1>1 DEF Withdrawn

\* What each command of the Owner does to the cases.
LEMMA OwnerMoves ==
    ASSUME SafeInv, OwnerStep
    PROVE  \E r \in References, m \in 0..MaxMessages,
              status \in {"awaiting_manual_credit", "manually_credited", "rejected"} :
             /\ CaseBecomes(r, status, m)
             /\ \A n \in Messages : submissions[n].of = r => jobs[n] \in Withdrawn
             /\ m # 0 => First(m) /\ submissions[m].of = r
             /\ status # "manually_credited" => m # 0
             /\ m = 0 => \A n \in Messages : submissions[n].of # r
             /\ cases[r].status # "manually_credited"
<1>1. Messages \subseteq 0..MaxMessages /\ 0 \in 0..MaxMessages /\ 0 \notin Messages
  BY SettlementAssumption DEF Messages
<1>2. \A m \in Messages : First(m) => submissions[m].of \in References
  BY RowParts DEF First, IsFirst, SafeInv, SettlementTypeOK
<1>3. ASSUME NEW m \in Messages, Decide(m) \/ RecordStoppedCredit(m)
      PROVE  /\ First(m) /\ cases[submissions[m].of].status = "none"
             /\ \E status \in {"awaiting_manual_credit", "manually_credited", "rejected"} :
                  CaseBecomes(submissions[m].of, status, m)
             /\ \A n \in Messages : submissions[n].of = submissions[m].of => jobs[n] \in Withdrawn
  <2>1. First(m) /\ cases[submissions[m].of].status = "none"
    BY <1>3 DEF Decide, Undecided, RecordStoppedCredit, First
  <2>2. \E status \in {"awaiting_manual_credit", "manually_credited", "rejected"} :
          CaseBecomes(submissions[m].of, status, m)
    BY <1>3 DEF Decide, RecordStoppedCredit
  <2>3. jobs[m] \in Withdrawn
    BY <1>3 DEF Decide, Undecided, RecordStoppedCredit, Claims, Withdrawn
  <2> QED BY <2>1, <2>2, <2>3, NothingOut
<1>4. ASSUME NEW r \in References, Complete(r)
      PROVE  /\ CaseBecomes(r, "manually_credited", cases[r].of)
             /\ cases[r].of \in 0..MaxMessages /\ cases[r].of # 0
             /\ cases[r].status \in {"awaiting_manual_credit", "rejected"}
             /\ \A n \in Messages : submissions[n].of = r => jobs[n] \in Withdrawn
             /\ cases[r].of # 0 => First(cases[r].of) /\ submissions[cases[r].of].of = r
  BY <1>4, RowParts DEF Complete, SafeInv, CaseInv, SettlementTypeOK
<1>5. ASSUME NEW r \in References, CompleteUnclaimed(r)
      PROVE  /\ CaseBecomes(r, "manually_credited", 0) /\ cases[r].status = "none"
             /\ \A n \in Messages : submissions[n].of # r
  BY <1>5 DEF CompleteUnclaimed, Claims
<1>6. CASE \E m \in Messages : Decide(m) \/ RecordStoppedCredit(m)
  <2>1. PICK m \in Messages : Decide(m) \/ RecordStoppedCredit(m)
    BY <1>6
  <2>2. PICK status \in {"awaiting_manual_credit", "manually_credited", "rejected"} :
          CaseBecomes(submissions[m].of, status, m)
    BY <1>3, <2>1
  <2> QED BY <1>1, <1>2, <1>3, <2>1, <2>2
<1>7. CASE \E r \in References : Complete(r)
  BY <1>4, <1>7
<1>8. CASE \E r \in References : CompleteUnclaimed(r)
  BY <1>1, <1>5, <1>8
<1> QED BY <1>6, <1>7, <1>8 DEF OwnerStep

LEMMA OwnerKeeps ==
    ASSUME SafeInv, OwnerStep
    PROVE  SafeInv'
BY OwnerMoves, CaseKeeps

LEMMA SafeInitially == Init => SafeInv
<1> SUFFICES ASSUME Init PROVE SafeInv
  OBVIOUS
<1>1. NoSubmission \in Submission /\ NoEvent \in Event /\ NoMatch \in Match /\ NoCase \in Case
  BY SettlementAssumption DEF NoSubmission, Submission, NoEvent, Event, NoMatch, Match, NoCase, Case
<1>2. SettlementTypeOK
  <2>1. /\ enabled \in BOOLEAN /\ sent \in 0..MaxMessages /\ holds \subseteq Messages
        /\ jobs \in [Messages -> Job]
    <3>1. 0 \in 0..MaxMessages /\ "none" \in Job
      BY SettlementAssumption DEF Job
    <3> QED BY <3>1, Zenon DEF Init
  <2>2. /\ submissions \in [Messages -> Submission] /\ events \in [References -> Event]
        /\ matches \in [Messages -> Match] /\ cases \in [References -> Case]
    BY <1>1 DEF Init
  <2> QED BY <2>1, <2>2 DEF SettlementTypeOK
<1>3. /\ \A m \in Messages : /\ submissions[m].of = None /\ ~(m <= sent)
                             /\ matches[m].disposition = "none" /\ jobs[m] = "none"
      /\ \A r \in References : cases[r].status = "none" /\ cases[r].of = 0
  BY SettlementAssumption DEF Init, NoSubmission, NoMatch, NoCase, Messages
<1> QED BY <1>2, <1>3 DEF SafeInv, ClaimInv, CaseInv

LEMMA SafeStep == SafeInv /\ [Next]_vars => SafeInv'
<1> SUFFICES ASSUME SafeInv, [Next]_vars PROVE SafeInv'
  OBVIOUS
<1>1. CASE UNCHANGED vars
  BY <1>1, QuietKeeps DEF vars, rows, Quiet, SafeInv, SettlementTypeOK
<1>2. CASE \E r \in References, c \in Customers : Capture(r, c)
  BY <1>2, CaptureKeeps
<1>3. CASE \E r \in References : CommitEvent(r)
  BY <1>3, CommitKeeps
<1>4. CASE \E r \in References : InsertEvent(r) \/ Contradict(r)
  BY <1>4, InsertQuiet, ContradictQuiet, QuietKeeps
<1>5. CASE PollerStep
  BY <1>5, HoldQuiet, SettleKeeps, QuietKeeps DEF PollerStep
<1>6. CASE MoveExpired
  BY <1>6, MoveExpiredKeeps
<1>7. CASE \E m \in Messages : LaneStep(m)
  BY <1>7, LaneKeeps
<1>8. CASE OwnerStep
  BY <1>8, OwnerKeeps
<1>9. CASE Activate \/ Stop \/ Tick
  BY <1>9, ActivateQuiet, StopQuiet, TickQuiet, QuietKeeps
<1> QED BY <1>1, <1>2, <1>3, <1>4, <1>5, <1>6, <1>7, <1>8, <1>9 DEF Next

LEMMA SafeAlways == Spec => []SafeInv
BY SafeInitially, SafeStep, PTL DEF Spec

\* Every row keeps its type, for any number of payments, customers and claims.
THEOREM TypeCorrect == Spec => []SettlementTypeOK
<1>1. SafeInv => SettlementTypeOK
  BY DEF SafeInv
<1> QED BY <1>1, SafeAlways, PTL

-----------------------------------------------------------------------------
(* No match is missed. *)

\* A first claim and a message are both there and current, and no case is.
Met(m) ==
    /\ First(m) /\ submissions[m].current
    /\ events[submissions[m].of].phase = "recorded" /\ events[submissions[m].of].current
    /\ cases[submissions[m].of].status = "none"

LEMMA MetIsMatched ==
    /\ NoMissedMatch <=>
         (enabled => \A m \in Messages : Met(m) => matches[m].disposition # "none")
    /\ NoMissedMatch' <=>
         (enabled' => \A m \in Messages : Met(m)' => matches'[m].disposition # "none")
BY DEF NoMissedMatch, Met, First

\* Nothing else meets, and no match is lost.
LEMMA MissStays ==
    ASSUME NoMissedMatch, enabled' => enabled,
           \A m \in Messages : Met(m)' => Met(m),
           \A m \in Messages : matches[m].disposition # "none" => matches'[m].disposition # "none"
    PROVE  NoMissedMatch'
BY MetIsMatched

LEMMA CaptureMisses ==
    ASSUME SafeInv, NoMissedMatch, NEW r \in References, NEW c \in Customers, Capture(r, c)
    PROVE  NoMissedMatch'
<1>1. ASSUME NEW m \in Messages, Met(m)', matches'[m].disposition = "none"
      PROVE  FALSE
  <2>1. /\ IsFirst(submissions', m) /\ submissions'[m].current
        /\ events[submissions'[m].of].phase = "recorded" /\ events[submissions'[m].of].current
        /\ cases[submissions'[m].of].status = "none"
    BY <1>1, CaptureParts DEF Met, First
  <2>2. matches[m].disposition = "none"
    BY <1>1, CaptureParts
  <2>3. CASE m = sent + 1
    <3>1. submissions'[m].of = r
      BY <2>3, CaptureParts
    <3>2. \A n \in Messages : submissions'[n].of = r => jobs[n] # "executed"
      BY <2>1, <2>3, CaptureFirsts, CaptureParts
    <3>3. Matchable(submissions', events[r], m)
      BY <2>1, <2>2, <3>1, <3>2, CaptureParts, FirstIsMatchable DEF SafeInv
    <3> QED BY <1>1, <2>1, <3>1, <3>3, CaptureParts
  <2>4. CASE m # sent + 1
    <3>1. First(m) /\ submissions'[m] = submissions[m]
      BY <2>1, <2>4, CaptureFirsts, CaptureParts DEF First
    <3> QED BY <2>1, <2>2, <3>1, CaptureParts, MetIsMatched DEF Met
  <2> QED BY <2>3, <2>4
<1> QED BY <1>1, MetIsMatched

LEMMA CommitMisses ==
    ASSUME SafeInv, NoMissedMatch, NEW r \in References, CommitEvent(r)
    PROVE  NoMissedMatch'
<1>1. /\ MatchWith(submissions, r, events[r])
      /\ events' = [events EXCEPT ![r] = [@ EXCEPT !.phase = "recorded", !.lag = 0]]
      /\ UNCHANGED <<enabled, sent, submissions, holds, jobs, cases>>
  BY DEF CommitEvent
<1>2. /\ \A p \in References : p # r => events'[p] = events[p]
      /\ events'[r].current = events[r].current
  BY <1>1, Zenon DEF SafeInv, SettlementTypeOK, Event
<1>3. /\ \A m \in Messages :
           submissions[m].of = r /\ Matchable(submissions, events[r], m)
           => matches'[m].disposition # "none"
      /\ \A m \in Messages : matches[m].disposition # "none" => matches'[m] = matches[m]
  BY <1>1, MatchParts DEF SafeInv, SettlementTypeOK
<1>4. ASSUME NEW m \in Messages, enabled', Met(m)', matches'[m].disposition = "none"
      PROVE  FALSE
  <2>1. /\ First(m) /\ submissions[m].current /\ enabled
        /\ events'[submissions[m].of].phase = "recorded" /\ events'[submissions[m].of].current
        /\ cases[submissions[m].of].status = "none"
    BY <1>1, <1>4 DEF Met, First, IsFirst
  <2>2. matches[m].disposition = "none"
    BY <1>3, <1>4
  <2>3. submissions[m].of \in References
    BY <2>1, RowParts DEF First, IsFirst, SafeInv, SettlementTypeOK
  <2>4. submissions[m].of = r
    BY <1>2, <2>1, <2>2, <2>3, MetIsMatched DEF Met
  <2>5. \A n \in Messages : submissions[n].of = submissions[m].of => jobs[n] # "executed"
    BY <2>1, <2>2, JobParts, FirstsAgree
  <2>6. Matchable(submissions, events[r], m)
    BY <1>2, <2>1, <2>2, <2>4, <2>5, FirstIsMatchable DEF First, SafeInv
  <2> QED BY <1>3, <1>4, <2>4, <2>6
<1> QED BY <1>4, MetIsMatched

LEMMA EventMisses ==
    ASSUME SafeInv, NoMissedMatch, NEW r \in References, InsertEvent(r) \/ Contradict(r)
    PROVE  NoMissedMatch'
<1>1. UNCHANGED <<enabled, submissions, matches, cases>>
  BY DEF InsertEvent, Contradict
<1>2. ASSUME NEW p \in References
      PROVE  events'[p].phase = "recorded" =>
               events[p].phase = "recorded" /\ events'[p].current = events[p].current
  <2>1. CASE InsertEvent(r)
    BY <2>1 DEF InsertEvent, SafeInv, SettlementTypeOK
  <2>2. CASE Contradict(r)
    BY <2>2 DEF Contradict, SafeInv, SettlementTypeOK, Event
  <2> QED BY <2>1, <2>2
<1>3. \A m \in Messages : First(m) => submissions[m].of \in References
  BY RowParts DEF First, IsFirst, SafeInv, SettlementTypeOK
<1>4. \A m \in Messages : Met(m)' => Met(m)
  BY <1>1, <1>2, <1>3 DEF Met, First, IsFirst
<1> QED BY <1>1, <1>4, MissStays

LEMMA OtherMisses ==
    ASSUME SafeInv, NoMissedMatch, UNCHANGED <<enabled, rows>>,
           \A r \in References : cases'[r].status = "none" => cases[r].status = "none"
    PROVE  NoMissedMatch'
<1>1. \A m \in Messages : First(m) => submissions[m].of \in References
  BY RowParts DEF First, IsFirst, SafeInv, SettlementTypeOK
<1>2. \A m \in Messages : Met(m)' => Met(m)
  BY <1>1 DEF Met, First, IsFirst, rows
<1> QED BY <1>2, MissStays DEF rows

LEMMA RouteMisses ==
    ASSUME SafeInv, NoMissedMatch, Activate \/ Stop \/ Tick
    PROVE  NoMissedMatch'
<1>1. CASE Activate
  <2>1. \A m \in Messages : submissions'[m].current = FALSE
    BY <1>1 DEF Activate
  <2> QED BY <2>1, MetIsMatched DEF Met
<1>2. CASE Stop
  BY <1>2, MetIsMatched DEF Stop
<1>3. CASE Tick
  <2>1. UNCHANGED <<enabled, cases>>
    BY <1>3 DEF Tick
  <2>2. \A m \in Messages : /\ submissions'[m].of = submissions[m].of
                            /\ submissions'[m].current = submissions[m].current
                            /\ matches'[m].disposition = matches[m].disposition
    BY <1>3 DEF Tick
  <2>3. \A r \in References : events'[r].phase = events[r].phase
                              /\ events'[r].current = events[r].current
    BY <1>3, ZenonT(30) DEF Tick, SafeInv, SettlementTypeOK, Event
  <2>4. \A m \in Messages : First(m)' <=> First(m)
    BY <2>2, FirstsStay
  <2>5. \A m \in Messages : First(m) => submissions[m].of \in References
    BY RowParts DEF First, IsFirst, SafeInv, SettlementTypeOK
  <2>6. \A m \in Messages : Met(m)' => Met(m)
    BY <2>1, <2>2, <2>3, <2>4, <2>5 DEF Met
  <2> QED BY <2>1, <2>2, <2>6, MissStays
<1> QED BY <1>1, <1>2, <1>3

LEMMA MissInitially == Init => NoMissedMatch
BY DEF Init, NoMissedMatch

LEMMA MissStep == SafeInv /\ NoMissedMatch /\ [Next]_vars => NoMissedMatch'
<1> SUFFICES ASSUME SafeInv, NoMissedMatch, [Next]_vars PROVE NoMissedMatch'
  OBVIOUS
<1>1. CASE UNCHANGED vars
  BY <1>1, OtherMisses DEF vars
<1>2. CASE \E r \in References, c \in Customers : Capture(r, c)
  BY <1>2, CaptureMisses
<1>3. CASE \E r \in References : CommitEvent(r)
  BY <1>3, CommitMisses
<1>4. CASE \E r \in References : InsertEvent(r) \/ Contradict(r)
  BY <1>4, EventMisses
<1>5. CASE PollerStep
  <2>1. UNCHANGED <<enabled, rows, cases>>
    BY <1>5 DEF PollerStep, HoldUnanswered, SettleNext, HoldUnsettled
  <2> QED BY <2>1, OtherMisses
<1>6. CASE MoveExpired
  BY <1>6, OtherMisses DEF MoveExpired
<1>7. CASE \E m \in Messages : LaneStep(m)
  <2>1. UNCHANGED <<enabled, rows, cases>>
    BY <1>7 DEF LaneStep, Lease, JobGoes
  <2> QED BY <2>1, OtherMisses
<1>8. CASE OwnerStep
  <2>1. PICK r \in References, m \in 0..MaxMessages,
             status \in {"awaiting_manual_credit", "manually_credited", "rejected"} :
          CaseBecomes(r, status, m)
    BY <1>8, OwnerMoves
  <2>2. \A p \in References : cases'[p].status = "none" => cases[p].status = "none"
    BY <2>1 DEF CaseBecomes, SafeInv, SettlementTypeOK
  <2> QED BY <2>1, <2>2, OtherMisses DEF CaseBecomes
<1>9. CASE Activate \/ Stop \/ Tick
  BY <1>9, RouteMisses
<1> QED BY <1>1, <1>2, <1>3, <1>4, <1>5, <1>6, <1>7, <1>8, <1>9 DEF Next

\* A first claim and its message find each other, whichever comes first and
\* however their transactions overlap.
THEOREM NoneMissed == Spec => []NoMissedMatch
BY SafeAlways, MissInitially, MissStep, PTL DEF Spec

-----------------------------------------------------------------------------
(* The settlement implements OneCreditPerPayment. *)

\* Every payment that was claimed has a first claim, of a customer.
FirstInv ==
    \A m \in Messages : submissions[m].of # None =>
        /\ submissions[m].who \in Customers
        /\ \E k \in Messages : First(k) /\ submissions[k].of = submissions[m].of

LEMMA FirstInitially == Init => FirstInv
BY DEF Init, FirstInv, NoSubmission

\* All commands but the capture leave who claims what.
SameClaims ==
    \A m \in Messages : /\ submissions'[m].of = submissions[m].of
                        /\ submissions'[m].who = submissions[m].who

LEMMA FirstStays ==
    ASSUME FirstInv, SameClaims
    PROVE  FirstInv'
<1>1. \A m \in Messages : First(m)' <=> First(m)
  BY FirstsStay DEF SameClaims
<1> QED BY <1>1 DEF FirstInv, SameClaims

LEMMA CaptureFirst ==
    ASSUME SafeInv, FirstInv, NEW r \in References, NEW c \in Customers, Capture(r, c)
    PROVE  FirstInv'
<1> SUFFICES ASSUME NEW m \in Messages, submissions'[m].of # None
             PROVE  /\ submissions'[m].who \in Customers
                    /\ \E k \in Messages : IsFirst(submissions', k)
                                           /\ submissions'[k].of = submissions'[m].of
  BY DEF FirstInv, First
<1>1. ASSUME NEW k \in Messages, First(k)
      PROVE  IsFirst(submissions', k) /\ submissions'[k].of = submissions[k].of
  BY <1>1, CaptureFirsts, CaptureParts DEF First
<1>2. CASE m # sent + 1
  <2>1. submissions'[m] = submissions[m]
    BY <1>2, CaptureParts
  <2>2. PICK k \in Messages : First(k) /\ submissions[k].of = submissions[m].of
    BY <2>1 DEF FirstInv
  <2> QED BY <1>1, <2>1, <2>2 DEF FirstInv
<1>3. CASE m = sent + 1
  <2>1. submissions'[m].of = r /\ submissions'[m].who = c
    BY <1>3, CaptureParts
  <2>2. CASE \A n \in Messages : submissions[n].of # r
    BY <1>3, <2>1, <2>2, CaptureFirsts
  <2>3. CASE \E n \in Messages : submissions[n].of = r
    <3>1. PICK n \in Messages : submissions[n].of = r
      BY <2>3
    <3>2. PICK k \in Messages : First(k) /\ submissions[k].of = r
      BY <3>1, SettlementAssumption DEF FirstInv
    <3> QED BY <1>1, <2>1, <3>2
  <2> QED BY <2>2, <2>3
<1> QED BY <1>2, <1>3

LEMMA ClaimsMove == [Next]_vars => SameClaims \/ \E r \in References, c \in Customers : Capture(r, c)
<1> SUFFICES ASSUME [Next]_vars, ~\E r \in References, c \in Customers : Capture(r, c)
             PROVE  SameClaims
  OBVIOUS
<1>1. CASE Activate
  BY <1>1 DEF Activate, SameClaims
<1>2. CASE Tick
  BY <1>2 DEF Tick, SameClaims
<1>3. CASE ~Activate /\ ~Tick
  <2>1. UNCHANGED submissions
    BY <1>3 DEF Next, vars, rows, InsertEvent, CommitEvent, Contradict, PollerStep,
           HoldUnanswered, SettleNext, HoldUnsettled, MoveExpired, LaneStep, Lease, JobGoes,
           OwnerStep, Decide, RecordStoppedCredit, Complete, CompleteUnclaimed, CaseBecomes, Stop
  <2> QED BY <2>1 DEF SameClaims
<1> QED BY <1>1, <1>2, <1>3

LEMMA FirstAlways == Spec => []FirstInv
<1>1. SafeInv /\ FirstInv /\ [Next]_vars => FirstInv'
  BY ClaimsMove, FirstStays, CaptureFirst
<1> QED BY <1>1, SafeAlways, FirstInitially, PTL DEF Spec

\* The status of a credit whose job is this.
Outcome(job) ==
    CASE job \in {"fenced", "executed", "review"} -> "sent"
      [] job \in {"queued", "prepared"} -> "admitted"
      [] job \in {"stopped", "expired"} -> "withdrawn"
      [] OTHER -> "none"

ByHand(r) == cases[r].status = "manually_credited"

\* A payment nobody claimed, and one that has the first claim m.
Unclaimed(r) == \A m \in Messages : submissions[m].of # r
ClaimedBy(r, m) == First(m) /\ submissions[m].of = r

\* The abstract payment, told from its first claim.
Described ==
    \A r \in References :
        /\ Unclaimed(r) \/ \E m \in Messages : ClaimedBy(r, m)
        /\ Unclaimed(r) =>
              /\ OwnerOf(r) = None /\ CreditedTo(r) = None
              /\ CreditOf(r) = IF ByHand(r) THEN "by_hand" ELSE "none"
        /\ \A m \in Messages : ClaimedBy(r, m) =>
              /\ OwnerOf(r) = submissions[m].who /\ submissions[m].who \in Customers
              /\ CreditOf(r) = IF ByHand(r) THEN "by_hand" ELSE Outcome(jobs[m])
              /\ CreditedTo(r) =
                   IF (ByHand(r) /\ cases[r].of = 0) \/ (~ByHand(r) /\ jobs[m] = "none")
                   THEN None ELSE submissions[m].who

LEMMA UnclaimedParts ==
    ASSUME SafeInv, NEW r \in References, Unclaimed(r)
    PROVE  /\ OwnerOf(r) = None /\ CreditedTo(r) = None
           /\ CreditOf(r) = IF ByHand(r) THEN "by_hand" ELSE "none"
<1>1. Claims(submissions, r) = {}
  BY DEF Claims, Unclaimed
<1>2. cases[r].of = 0
  BY RowParts, SettlementAssumption
     DEF SafeInv, CaseInv, SettlementTypeOK, Unclaimed, Messages
<1>3. {jobs[m] : m \in Claims(submissions, r)} = {}
  BY <1>1
<1>4. CreditOf(r) = IF ByHand(r) THEN "by_hand" ELSE "none"
  BY <1>3 DEF CreditOf, ByHand
<1> QED BY <1>1, <1>2, <1>4 DEF OwnerOf, CreditedTo

LEMMA ClaimedParts ==
    ASSUME SafeInv, FirstInv, NEW r \in References, NEW m \in Messages, ClaimedBy(r, m)
    PROVE  /\ OwnerOf(r) = submissions[m].who /\ submissions[m].who \in Customers
           /\ CreditOf(r) = IF ByHand(r) THEN "by_hand" ELSE Outcome(jobs[m])
           /\ CreditedTo(r) =
                IF (ByHand(r) /\ cases[r].of = 0) \/ (~ByHand(r) /\ jobs[m] = "none")
                THEN None ELSE submissions[m].who
<1>1. m \in Claims(submissions, r) /\ First(m) /\ submissions[m].of = r
  BY DEF Claims, ClaimedBy
<1>2. \A n \in Claims(submissions, r) : First(n) => n = m
  BY <1>1, FirstsAgree DEF Claims
<1>3. \A n \in Claims(submissions, r) : jobs[n] # "none" => n = m
  BY <1>2, JobParts DEF Claims
<1>4. OwnerOf(r) = submissions[m].who
  BY <1>1, <1>2 DEF OwnerOf, First
<1>5. submissions[m].who \in Customers
  BY <1>1, SettlementAssumption DEF FirstInv
<1> DEFINE at == {jobs[n] : n \in Claims(submissions, r)}
<1>6. jobs[m] \in at /\ \A j \in at : j \in {"none", jobs[m]}
  BY <1>1, <1>3
<1>7. ByHand(r) => jobs[m] \in Withdrawn
  BY <1>1 DEF ByHand, SafeInv, CaseInv
<1>8. jobs[m] \in Job
  BY DEF SafeInv, SettlementTypeOK
<1>9. CreditOf(r) = IF ByHand(r) THEN "by_hand" ELSE Outcome(jobs[m])
  <2>1. CASE ByHand(r)
    <3>1. at \subseteq {"none", "stopped", "expired"}
      BY <1>6, <1>7, <2>1 DEF Withdrawn
    <3> QED BY <2>1, <3>1 DEF CreditOf, ByHand
  <2>2. CASE ~ByHand(r)
    <3>1. /\ at \cap {"fenced", "executed", "review"} # {} <=> jobs[m] \in {"fenced", "executed", "review"}
          /\ at \cap {"queued", "prepared"} # {} <=> jobs[m] \in {"queued", "prepared"}
          /\ at \cap {"stopped", "expired"} # {} <=> jobs[m] \in {"stopped", "expired"}
      BY <1>6
    <3>2. CreditOf(r) = IF at \cap {"fenced", "executed", "review"} # {} THEN "sent"
                        ELSE IF at \cap {"queued", "prepared"} # {} THEN "admitted"
                        ELSE IF at \cap {"stopped", "expired"} # {} THEN "withdrawn"
                        ELSE "none"
      BY <2>2 DEF CreditOf, ByHand
    <3> HIDE DEF at
    <3> QED BY <1>8, <2>2, <3>1, <3>2 DEF Outcome, Job
  <2> QED BY <2>1, <2>2
<1>10. ByHand(r) /\ cases[r].of # 0 => cases[r].of = m
  <2>1. cases[r].of # 0 => cases[r].of \in Claims(submissions, r) /\ First(cases[r].of)
    BY RowParts, SettlementAssumption DEF SafeInv, CaseInv, SettlementTypeOK, Claims, Messages
  <2> QED BY <1>2, <2>1
<1>11. CreditedTo(r) =
         IF (ByHand(r) /\ cases[r].of = 0) \/ (~ByHand(r) /\ jobs[m] = "none")
         THEN None ELSE submissions[m].who
  <2>1. CASE ByHand(r)
    BY <1>10, <2>1 DEF CreditedTo, ByHand
  <2>2. CASE ~ByHand(r) /\ jobs[m] = "none"
    BY <1>3, <2>2 DEF CreditedTo, ByHand
  <2>3. CASE ~ByHand(r) /\ jobs[m] # "none"
    BY <1>1, <1>3, <2>3 DEF CreditedTo, ByHand
  <2> QED BY <2>1, <2>2, <2>3
<1> QED BY <1>4, <1>5, <1>9, <1>11

LEMMA Describes == SafeInv /\ FirstInv => Described
<1> SUFFICES ASSUME SafeInv, FirstInv, NEW r \in References
             PROVE  Unclaimed(r) \/ \E m \in Messages : ClaimedBy(r, m)
  BY UnclaimedParts, ClaimedParts DEF Described
<1> QED BY SettlementAssumption DEF FirstInv, Unclaimed, ClaimedBy

\* A payment as the abstraction sees it does not change.
Unmoved(r) ==
    /\ OwnerOf(r)' = OwnerOf(r)
    /\ CreditOf(r)' = CreditOf(r)
    /\ CreditedTo(r)' = CreditedTo(r)

LEMMA AllUnmoved ==
    ASSUME \A r \in References : Unmoved(r)
    PROVE  UNCHANGED One!settlement
BY DEF Unmoved, One!settlement

\* One payment moves, the others do not.
LEMMA OneMoves ==
    ASSUME NEW r \in References, \A p \in References : p # r => Unmoved(p)
    PROVE  /\ \A c \in Customers :
                OwnerOf(r) = None /\ OwnerOf(r)' = c /\ CreditOf(r)' = CreditOf(r)
                /\ CreditedTo(r)' = CreditedTo(r) => One!Claim(r, c)
           /\ OwnerOf(r)' = OwnerOf(r) =>
                /\ CreditOf(r) = "none" /\ OwnerOf(r) # None /\ CreditOf(r)' = "admitted"
                   /\ CreditedTo(r)' = OwnerOf(r) => One!Admit(r)
                /\ CreditOf(r) = "admitted" /\ CreditOf(r)' = "sent"
                   /\ CreditedTo(r)' = CreditedTo(r) => One!Send(r)
                /\ CreditOf(r) \in {"none", "withdrawn"} /\ CreditOf(r)' = "by_hand"
                   /\ CreditedTo(r)' = OwnerOf(r) => One!CreditByHand(r)
<1>1. /\ \A p \in References : p # r => OwnerOf(p)' = OwnerOf(p)
      /\ \A p \in References : p # r => CreditOf(p)' = CreditOf(p)
      /\ \A p \in References : p # r => CreditedTo(p)' = CreditedTo(p)
  BY DEF Unmoved
<1>2. /\ OwnerOf(r)' = OwnerOf(r) =>
           [p \in References |-> OwnerOf(p)'] = [p \in References |-> OwnerOf(p)]
      /\ CreditOf(r)' = CreditOf(r) =>
           [p \in References |-> CreditOf(p)'] = [p \in References |-> CreditOf(p)]
      /\ CreditedTo(r)' = CreditedTo(r) =>
           [p \in References |-> CreditedTo(p)'] = [p \in References |-> CreditedTo(p)]
  BY <1>1
<1>3. /\ [p \in References |-> OwnerOf(p)'] =
           [[p \in References |-> OwnerOf(p)] EXCEPT ![r] = OwnerOf(r)']
      /\ [p \in References |-> CreditOf(p)'] =
           [[p \in References |-> CreditOf(p)] EXCEPT ![r] = CreditOf(r)']
      /\ [p \in References |-> CreditedTo(p)'] =
           [[p \in References |-> CreditedTo(p)] EXCEPT ![r] = CreditedTo(r)']
  BY <1>1
<1> QED BY <1>2, <1>3 DEF One!Claim, One!Admit, One!Send, One!CreditByHand

\* Several are withdrawn at once.
LEMMA SomeMove ==
    ASSUME NEW some \in SUBSET References,
           \A p \in References : p \notin some => Unmoved(p),
           \A p \in some : /\ OwnerOf(p)' = OwnerOf(p) /\ CreditedTo(p)' = CreditedTo(p)
                           /\ CreditOf(p) = "admitted" /\ CreditOf(p)' = "withdrawn"
    PROVE  One!Withdraw(some)
<1>1. /\ \A p \in References : OwnerOf(p)' = OwnerOf(p) /\ CreditedTo(p)' = CreditedTo(p)
      /\ \A p \in References :
           CreditOf(p)' = IF p \in some THEN "withdrawn" ELSE CreditOf(p)
  BY DEF Unmoved
<1> QED BY <1>1 DEF One!Withdraw

\* While the claims stay, what moves a payment is its case or its first job.
LEMMA MovesWithJob ==
    ASSUME Described, Described', SameClaims, NEW r \in References
    PROVE  /\ OwnerOf(r)' = OwnerOf(r)
           /\ cases'[r] = cases[r]
              /\ (\A m \in Messages : submissions[m].of = r => jobs'[m] = jobs[m]) => Unmoved(r)
           /\ ~ByHand(r) /\ ~ByHand(r)'
              /\ (\A m \in Messages : submissions[m].of = r => jobs'[m] = jobs[m]) => Unmoved(r)
           /\ \A m \in Messages : ClaimedBy(r, m) => ClaimedBy(r, m)'
           /\ Unclaimed(r) => Unclaimed(r)'
<1>1. Unclaimed(r)' <=> Unclaimed(r)
  BY DEF Unclaimed, SameClaims
<1>2. \A m \in Messages : First(m)' <=> First(m)
  BY FirstsStay DEF SameClaims
<1>3. \A m \in Messages : ClaimedBy(r, m)' <=> ClaimedBy(r, m)
  BY <1>2 DEF ClaimedBy, SameClaims
<1>4. cases'[r] = cases[r] => (ByHand(r)' <=> ByHand(r))
  BY DEF ByHand
<1>5. CASE Unclaimed(r)
  BY <1>1, <1>3, <1>4, <1>5 DEF Described, Unmoved
<1>6. CASE \E m \in Messages : ClaimedBy(r, m)
  <2>1. PICK m \in Messages : ClaimedBy(r, m)
    BY <1>6
  <2>2. submissions[m].of = r /\ submissions'[m].who = submissions[m].who
    BY <2>1 DEF ClaimedBy, SameClaims
  <2>3. ClaimedBy(r, m)'
    BY <1>3, <2>1
  <2>4. /\ OwnerOf(r) = submissions[m].who
        /\ CreditOf(r) = IF ByHand(r) THEN "by_hand" ELSE Outcome(jobs[m])
        /\ CreditedTo(r) =
             IF (ByHand(r) /\ cases[r].of = 0) \/ (~ByHand(r) /\ jobs[m] = "none")
             THEN None ELSE submissions[m].who
    BY <2>1 DEF Described
  <2>5. /\ OwnerOf(r)' = submissions'[m].who
        /\ CreditOf(r)' = IF ByHand(r)' THEN "by_hand" ELSE Outcome(jobs'[m])
        /\ CreditedTo(r)' =
             IF (ByHand(r)' /\ cases'[r].of = 0) \/ (~ByHand(r)' /\ jobs'[m] = "none")
             THEN None ELSE submissions'[m].who
    BY <2>3 DEF Described, Outcome
  <2> QED BY <1>1, <1>3, <1>4, <2>2, <2>4, <2>5 DEF Unmoved
<1> QED BY <1>5, <1>6 DEF Described

LEMMA CaptureClaims ==
    ASSUME SafeInv, FirstInv, Described, Described',
           NEW r \in References, NEW c \in Customers, Capture(r, c)
    PROVE  One!Claim(r, c) \/ UNCHANGED One!settlement
<1> DEFINE n == sent + 1
<1>1. /\ n \in Messages /\ cases' = cases /\ jobs' = jobs /\ jobs[n] = "none"
      /\ submissions'[n].of = r /\ submissions'[n].who = c
      /\ \A m \in Messages : m # n => submissions'[m] = submissions[m]
      /\ submissions[n].of = None
  BY CaptureParts
<1>2. \A p \in References : ByHand(p)' <=> ByHand(p)
  BY <1>1 DEF ByHand
<1>3. ASSUME NEW p \in References, p # r \/ ~Unclaimed(r)
      PROVE  Unmoved(p)
  <2>1. CASE Unclaimed(p)
    <3>1. Unclaimed(p)'
      BY <1>1, <1>3, <2>1 DEF Unclaimed
    <3> QED BY <1>2, <2>1, <3>1 DEF Described, Unmoved
  <2>2. CASE \E m \in Messages : ClaimedBy(p, m)
    <3>1. PICK m \in Messages : ClaimedBy(p, m)
      BY <2>2
    <3>2. m # n /\ IsFirst(submissions', m)
      BY <3>1, CaptureFirsts DEF ClaimedBy, First
    <3>3. submissions'[m] = submissions[m] /\ ClaimedBy(p, m)'
      BY <1>1, <3>1, <3>2 DEF ClaimedBy, First
    <3>4. /\ OwnerOf(p) = submissions[m].who
          /\ CreditOf(p) = IF ByHand(p) THEN "by_hand" ELSE Outcome(jobs[m])
          /\ CreditedTo(p) =
               IF (ByHand(p) /\ cases[p].of = 0) \/ (~ByHand(p) /\ jobs[m] = "none")
               THEN None ELSE submissions[m].who
      BY <3>1 DEF Described
    <3>5. /\ OwnerOf(p)' = submissions'[m].who
          /\ CreditOf(p)' = IF ByHand(p)' THEN "by_hand" ELSE Outcome(jobs'[m])
          /\ CreditedTo(p)' =
               IF (ByHand(p)' /\ cases'[p].of = 0) \/ (~ByHand(p)' /\ jobs'[m] = "none")
               THEN None ELSE submissions'[m].who
      BY <3>3 DEF Described, Outcome
    <3> QED BY <1>1, <1>2, <3>3, <3>4, <3>5 DEF Unmoved
  <2> QED BY <2>1, <2>2 DEF Described
<1>4. CASE ~Unclaimed(r)
  BY <1>3, <1>4, AllUnmoved
<1>5. CASE Unclaimed(r)
  <2>1. IsFirst(submissions', n)
    BY <1>5, CaptureFirsts DEF Unclaimed
  <2>2. cases[r].of = 0
    BY <1>5, RowParts, SettlementAssumption
       DEF SafeInv, CaseInv, SettlementTypeOK, Unclaimed, Messages
  <2>3. OwnerOf(r) = None /\ CreditedTo(r) = None
        /\ CreditOf(r) = IF ByHand(r) THEN "by_hand" ELSE "none"
    BY <1>5 DEF Described
  <2> HIDE DEF n
  <2>4. \A m \in Messages : IsFirst(submissions', m) /\ submissions'[m].of = r =>
          /\ OwnerOf(r)' = submissions'[m].who
          /\ CreditOf(r)' = IF ByHand(r)' THEN "by_hand" ELSE Outcome(jobs'[m])
          /\ CreditedTo(r)' =
               IF (ByHand(r)' /\ cases'[r].of = 0) \/ (~ByHand(r)' /\ jobs'[m] = "none")
               THEN None ELSE submissions'[m].who
    BY DEF Described, ClaimedBy, First, Outcome
  <2>5. Outcome("none") = "none"
    BY DEF Outcome
  <2>6. /\ OwnerOf(r)' = c
        /\ CreditOf(r)' = IF ByHand(r) THEN "by_hand" ELSE "none"
        /\ CreditedTo(r)' = None
    BY <1>1, <1>2, <2>1, <2>2, <2>4, <2>5
  <2> QED BY <1>3, <2>3, <2>6, OneMoves
<1> QED BY <1>4, <1>5

\* One job moves, of a payment without a case.
LEMMA JobMoves ==
    ASSUME SafeInv, Described, Described', NEW m \in Messages, NEW to, First(m),
           NEW r \in References, r = submissions[m].of,
           jobs' = [jobs EXCEPT ![m] = to], UNCHANGED <<rows, cases>>,
           cases[r].status = "none"
    PROVE  /\ \A p \in References : p # r => Unmoved(p)
           /\ OwnerOf(r)' = OwnerOf(r) /\ OwnerOf(r) \in Customers
           /\ CreditOf(r) = Outcome(jobs[m]) /\ CreditOf(r)' = Outcome(to)
           /\ to # "none" => CreditedTo(r)' = OwnerOf(r)
           /\ jobs[m] # "none" => CreditedTo(r) = OwnerOf(r)
<1>1. r = submissions[m].of
  OBVIOUS
<1>2. SameClaims /\ cases' = cases /\ submissions' = submissions
  BY DEF SameClaims, rows
<1>3. jobs'[m] = to /\ \A k \in Messages : k # m => jobs'[k] = jobs[k]
  BY DEF SafeInv, SettlementTypeOK
<1>4. \A p \in References : p # r => Unmoved(p)
  BY <1>1, <1>2, <1>3, MovesWithJob
<1>5. ~ByHand(r) /\ ~ByHand(r)' /\ ClaimedBy(r, m)
  BY <1>1, <1>2 DEF ByHand, ClaimedBy
<1>6. ClaimedBy(r, m)'
  BY <1>2, <1>5, MovesWithJob
<1>7. /\ OwnerOf(r) = submissions[m].who /\ submissions[m].who \in Customers
      /\ CreditOf(r) = Outcome(jobs[m])
      /\ CreditedTo(r) = IF jobs[m] = "none" THEN None ELSE submissions[m].who
  BY <1>5 DEF Described
<1>8. /\ OwnerOf(r)' = submissions'[m].who
      /\ CreditOf(r)' = Outcome(jobs'[m])
      /\ CreditedTo(r)' = IF jobs'[m] = "none" THEN None ELSE submissions'[m].who
  BY <1>5, <1>6 DEF Described, Outcome
<1> QED BY <1>1, <1>2, <1>3, <1>4, <1>7, <1>8

LEMMA FirstHasReference ==
    ASSUME SafeInv, NEW m \in Messages, First(m)
    PROVE  \E r \in References : r = submissions[m].of
BY RowParts DEF First, IsFirst, SafeInv, SettlementTypeOK

LEMMA Outcomes ==
    /\ Outcome("none") = "none"
    /\ Outcome("queued") = "admitted" /\ Outcome("prepared") = "admitted"
    /\ Outcome("stopped") = "withdrawn" /\ Outcome("expired") = "withdrawn"
    /\ Outcome("fenced") = "sent" /\ Outcome("executed") = "sent" /\ Outcome("review") = "sent"
BY DEF Outcome

LEMMA SettleAdmits ==
    ASSUME SafeInv, Described, Described', NEW m \in Messages, SettleNext(m)
    PROVE  \E r \in References : One!Admit(r)
<1>1. /\ jobs' = [jobs EXCEPT ![m] = "queued"] /\ UNCHANGED <<rows, cases>>
      /\ matches[m].disposition # "none" /\ jobs[m] = "none"
      /\ cases[submissions[m].of].status = "none"
  BY DEF SettleNext, NextToSettle, Awaiting
<1>2. First(m)
  BY <1>1 DEF SafeInv, ClaimInv
<1>3. PICK r \in References : r = submissions[m].of
  BY <1>2, FirstHasReference
<1>4. /\ \A p \in References : p # r => Unmoved(p)
      /\ OwnerOf(r)' = OwnerOf(r) /\ OwnerOf(r) \in Customers
      /\ CreditOf(r) = "none" /\ CreditOf(r)' = "admitted" /\ CreditedTo(r)' = OwnerOf(r)
  BY <1>1, <1>2, <1>3, JobMoves, Outcomes
<1> QED BY <1>4, OneMoves, SettlementAssumption

LEMMA LaneSends ==
    ASSUME SafeInv, Described, Described', NEW m \in Messages, LaneStep(m)
    PROVE  \/ \E r \in References : One!Send(r) \/ One!Withdraw({r})
           \/ UNCHANGED One!settlement
<1>1. PICK from \in {"queued", "prepared", "fenced"},
           to \in {"prepared", "stopped", "fenced", "executed", "review"} :
             /\ JobGoes(m, from, to)
             /\ \/ from = "queued" /\ to = "prepared"
                \/ from = "prepared" /\ to \in {"stopped", "fenced"}
                \/ from = "fenced" /\ to \in {"executed", "review"}
  BY LaneMoves
<1>2. jobs[m] = from /\ jobs' = [jobs EXCEPT ![m] = to] /\ UNCHANGED <<rows, cases>>
  BY <1>1 DEF JobGoes
<1>3. First(m) /\ cases[submissions[m].of].status = "none"
  BY <1>2, JobParts DEF Withdrawn
<1>4. PICK r \in References : r = submissions[m].of
  BY <1>3, FirstHasReference
<1>5. /\ \A p \in References : p # r => Unmoved(p)
      /\ OwnerOf(r)' = OwnerOf(r)
      /\ CreditOf(r) = Outcome(from) /\ CreditOf(r)' = Outcome(to)
      /\ CreditedTo(r)' = CreditedTo(r)
  BY <1>2, <1>3, <1>4, JobMoves
<1>6. CASE Outcome(from) = Outcome(to)
  <2>1. Unmoved(r)
    BY <1>5, <1>6 DEF Unmoved
  <2> QED BY <1>5, <2>1, AllUnmoved
<1>7. CASE from = "prepared" /\ to = "fenced"
  BY <1>5, <1>7, OneMoves, Outcomes
<1>8. CASE from = "prepared" /\ to = "stopped"
  <2>1. {r} \in SUBSET References
    OBVIOUS
  <2>2. CreditOf(r) = "admitted" /\ CreditOf(r)' = "withdrawn"
    BY <1>5, <1>8, Outcomes
  <2>3. One!Withdraw({r})
    BY <1>5, <2>1, <2>2, SomeMove
  <2> QED BY <2>3
<1> QED BY <1>1, <1>6, <1>7, <1>8, Outcomes

LEMMA ExpiryWithdraws ==
    ASSUME SafeInv, Described, Described', MoveExpired
    PROVE  \E some \in SUBSET References : One!Withdraw(some)
<1> DEFINE some == {r \in References : \E m \in Messages : ClaimedBy(r, m) /\ Outdated(m)}
<1>1. jobs' = [m \in Messages |-> IF Outdated(m) THEN "expired" ELSE jobs[m]]
      /\ UNCHANGED <<rows, cases>>
  BY DEF MoveExpired
<1>2. SameClaims /\ cases' = cases /\ submissions' = submissions
  BY <1>1 DEF SameClaims, rows
<1>3. \A m \in Messages : Outdated(m) => jobs[m] = "queued" /\ jobs'[m] = "expired" /\ First(m)
  BY <1>1, JobParts DEF Outdated
<1>4. ASSUME NEW p \in References, p \notin some PROVE Unmoved(p)
  <2>1. \A m \in Messages : submissions[m].of = p => ~Outdated(m)
    BY <1>3, <1>4 DEF ClaimedBy
  <2>2. \A m \in Messages : submissions[m].of = p => jobs'[m] = jobs[m]
    BY <1>1, <2>1
  <2> QED BY <1>2, <2>2, MovesWithJob
<1>5. ASSUME NEW p \in some
      PROVE  /\ OwnerOf(p)' = OwnerOf(p) /\ CreditedTo(p)' = CreditedTo(p)
             /\ CreditOf(p) = "admitted" /\ CreditOf(p)' = "withdrawn"
  <2>1. PICK m \in Messages : ClaimedBy(p, m) /\ Outdated(m)
    BY <1>5
  <2>2. p \in References /\ ~ByHand(p) /\ ~ByHand(p)'
    BY <1>2, <2>1 DEF Outdated, ByHand, ClaimedBy
  <2>3. ClaimedBy(p, m)'
    BY <1>2, <2>1, <2>2, MovesWithJob
  <2>4. /\ OwnerOf(p) = submissions[m].who
        /\ CreditOf(p) = Outcome(jobs[m])
        /\ CreditedTo(p) = IF jobs[m] = "none" THEN None ELSE submissions[m].who
    BY <2>1, <2>2 DEF Described
  <2>5. /\ OwnerOf(p)' = submissions'[m].who
        /\ CreditOf(p)' = Outcome(jobs'[m])
        /\ CreditedTo(p)' = IF jobs'[m] = "none" THEN None ELSE submissions'[m].who
    BY <2>2, <2>3 DEF Described, Outcome
  <2> QED BY <1>2, <1>3, <2>1, <2>4, <2>5, Outcomes
<1>6. some \in SUBSET References
  OBVIOUS
<1> HIDE DEF some
<1>7. One!Withdraw(some)
  BY <1>4, <1>5, <1>6, SomeMove
<1> QED BY <1>6, <1>7

LEMMA OwnerCredits ==
    ASSUME SafeInv, Described, Described', OwnerStep
    PROVE  (\E r \in References : One!CreditByHand(r)) \/ UNCHANGED One!settlement
<1>1. PICK r \in References, m \in 0..MaxMessages,
           status \in {"awaiting_manual_credit", "manually_credited", "rejected"} :
        /\ CaseBecomes(r, status, m)
        /\ \A n \in Messages : submissions[n].of = r => jobs[n] \in Withdrawn
        /\ m # 0 => First(m) /\ submissions[m].of = r
        /\ m = 0 => \A n \in Messages : submissions[n].of # r
        /\ cases[r].status # "manually_credited"
  BY OwnerMoves
<1>2. /\ cases' = [cases EXCEPT ![r] = [status |-> status, of |-> m]]
      /\ jobs' = jobs /\ submissions' = submissions
  BY <1>1 DEF CaseBecomes, rows
<1>3. cases'[r].status = status /\ cases'[r].of = m
      /\ \A p \in References : p # r => cases'[p] = cases[p]
  BY <1>2 DEF SafeInv, SettlementTypeOK
<1>4. SameClaims
  BY <1>2 DEF SameClaims
<1>5. \A p \in References : p # r => Unmoved(p)
  BY <1>2, <1>3, <1>4, MovesWithJob
<1>6. ~ByHand(r) /\ (ByHand(r)' <=> status = "manually_credited")
  BY <1>1, <1>3 DEF ByHand
<1>7. CASE status # "manually_credited"
  <2>1. Unmoved(r)
    BY <1>2, <1>4, <1>6, <1>7, MovesWithJob
  <2> QED BY <1>5, <2>1, AllUnmoved
<1>8. CASE status = "manually_credited"
  <2>1. OwnerOf(r)' = OwnerOf(r)
    BY <1>4, MovesWithJob
  <2>2. CASE m = 0
    <3>1. Unclaimed(r) /\ Unclaimed(r)'
      BY <1>1, <1>2, <2>2 DEF Unclaimed
    <3>2. CreditOf(r) = "none" /\ OwnerOf(r) = None
      BY <1>6, <3>1 DEF Described
    <3>3. CreditOf(r)' = "by_hand" /\ CreditedTo(r)' = None
      BY <1>6, <1>8, <3>1 DEF Described
    <3> QED BY <1>5, <2>1, <3>2, <3>3, OneMoves
  <2>3. CASE m # 0
    <3>1. m \in Messages /\ ClaimedBy(r, m)
      BY <1>1, <2>3, SettlementAssumption DEF ClaimedBy, Messages
    <3>2. ClaimedBy(r, m)'
      BY <1>4, <3>1, MovesWithJob
    <3>3. jobs[m] \in Withdrawn
      BY <1>1, <3>1 DEF ClaimedBy
    <3>4. CreditOf(r) = Outcome(jobs[m]) /\ OwnerOf(r) = submissions[m].who
      BY <1>6, <3>1 DEF Described
    <3>5. CreditOf(r)' = "by_hand" /\ CreditedTo(r)' = submissions'[m].who
      BY <1>3, <1>6, <1>8, <2>3, <3>1, <3>2 DEF Described
    <3>6. CreditOf(r) \in {"none", "withdrawn"}
      BY <3>3, <3>4, Outcomes DEF Withdrawn
    <3> QED BY <1>2, <1>5, <2>1, <3>4, <3>5, <3>6, OneMoves
  <2> QED BY <2>2, <2>3
<1> QED BY <1>7, <1>8

\* Steps that change neither claims, jobs nor cases are not seen.
LEMMA QuietUnseen ==
    ASSUME Described, Described', SameClaims, UNCHANGED <<jobs, cases>>
    PROVE  UNCHANGED One!settlement
<1>1. \A r \in References : Unmoved(r)
  BY MovesWithJob
<1> QED BY <1>1, AllUnmoved

LEMMA StartsWithNone == Init /\ Described => One!NoPayments
<1> SUFFICES ASSUME Init, Described PROVE One!NoPayments
  OBVIOUS
<1>1. \A r \in References : Unclaimed(r) /\ ~ByHand(r)
  BY SettlementAssumption DEF Init, Unclaimed, NoSubmission, ByHand, NoCase
<1>2. \A r \in References : OwnerOf(r) = None /\ CreditedTo(r) = None /\ CreditOf(r) = "none"
  BY <1>1 DEF Described
<1> QED BY <1>2 DEF One!NoPayments

LEMMA StepsAsOne ==
    SafeInv /\ FirstInv /\ Described /\ Described' /\ [Next]_vars => [One!SettlementNext]_One!settlement
<1> SUFFICES ASSUME SafeInv, FirstInv, Described, Described', [Next]_vars
             PROVE  One!SettlementNext \/ UNCHANGED One!settlement
  OBVIOUS
<1>1. CASE \E r \in References, c \in Customers : Capture(r, c)
  <2>1. PICK r \in References, c \in Customers : Capture(r, c)
    BY <1>1
  <2> QED BY <2>1, CaptureClaims DEF One!SettlementNext
<1>2. CASE \E m \in Messages : SettleNext(m)
  BY <1>2, SettleAdmits DEF One!SettlementNext
<1>3. CASE \E m \in Messages : LaneStep(m)
  <2>1. PICK m \in Messages : LaneStep(m)
    BY <1>3
  <2>2. \/ \E r \in References : One!Send(r) \/ One!Withdraw({r})
        \/ UNCHANGED One!settlement
    BY <2>1, LaneSends
  <2>3. \A r \in References : {r} \in SUBSET References
    OBVIOUS
  <2> QED BY <2>2, <2>3 DEF One!SettlementNext
<1>4. CASE MoveExpired
  BY <1>4, ExpiryWithdraws DEF One!SettlementNext
<1>5. CASE OwnerStep
  BY <1>5, OwnerCredits DEF One!SettlementNext
<1>6. CASE /\ ~\E r \in References, c \in Customers : Capture(r, c)
           /\ ~\E m \in Messages : SettleNext(m) \/ LaneStep(m)
           /\ ~MoveExpired /\ ~OwnerStep
  <2>1. SameClaims
    BY <1>6, ClaimsMove
  <2>2. UNCHANGED <<jobs, cases>>
    BY <1>6 DEF Next, vars, PollerStep, HoldUnanswered, HoldUnsettled, InsertEvent,
                CommitEvent, Contradict, Activate, Stop, Tick
  <2> QED BY <2>1, <2>2, QuietUnseen
<1> QED BY <1>1, <1>2, <1>3, <1>4, <1>5, <1>6

\* The settlement credits each payment once, by the machine or by hand, and to
\* the customer who first claimed it: it implements OneCreditPerPayment.
THEOREM PaidOnce == Spec => PaysOnce
<1>1. SafeInv /\ FirstInv => Described
  BY Describes
<1>2. Init /\ Described => One!NoPayments
  BY StartsWithNone
<1>3. SafeInv /\ FirstInv /\ Described /\ Described' /\ [Next]_vars
      => [One!SettlementNext]_One!settlement
  BY StepsAsOne
<1> QED BY <1>1, <1>2, <1>3, SafeAlways, FirstAlways, PTL DEF Spec, PaysOnce, One!OneCreditSpec
=============================================================================
