----------------------- MODULE FinalActionWindowProofs -----------------------
(* The POST is in time for every window, lease, skew and step of the clocks. *)
EXTENDS FinalActionWindow, TLAPS

\* What the worker measures contains what the database measures.
Measured ==
    /\ phase \in {"requested", "checked"} => mono >= requestedAt
    /\ phase \in {"fenced", "granted"} /\ slept = 0
         => mono - requestedAt >= clock - fencedAt

\* The fence is adopted only when its window is over.
AdoptedLate == adopted => /\ phase \notin {"leased", "requested", "checked", "refused"}
                          /\ clock >= fencedAt + Window

WindowInv == WindowTypeOK /\ Measured /\ AdoptedLate

\* The deadline and the guard after a read are integers.
LEMMA ReadTyped ==
    ASSUME WindowTypeOK PROVE GuardRead \in Guard
<1>1. /\ guard \in Guard /\ wall \in Int /\ mono \in Nat /\ expiry \in Int
      /\ fencedAt \in Nat /\ Window \in Nat
  BY WindowAssumption DEF WindowTypeOK
<1>2. Deadline \in Int
  BY <1>1 DEF Deadline, Shorter, Guard
<1> QED
  BY <1>1, <1>2 DEF GuardRead, Guard

\* The initial states.
LEMMA WindowInvInitially == WindowInit => WindowInv
<1> SUFFICES ASSUME WindowInit PROVE WindowInv
  OBVIOUS
<1>1. WindowTypeOK
  <2>1. guard \in Guard
    BY DEF WindowInit, Guard
  <2>2. 0 \in 0..MaxSteps /\ 0 \in 0..MaxSlept /\ 0 \in 0..Checks
    BY ChecksAssumption, BoundAssumption
  <2>3. wall \in Int /\ expiry \in Int
    BY ClockAssumption DEF WindowInit
  <2> QED
    BY <2>1, <2>2, <2>3 DEF WindowInit, WindowTypeOK, Phase
<1>2. Measured /\ AdoptedLate
  BY DEF WindowInit, Measured, AdoptedLate
<1> QED
  BY <1>1, <1>2 DEF WindowInv

\* Every step keeps the measurements in order.
LEMMA WindowInvInductive == WindowInv /\ [WindowNext]_windowVars => WindowInv'
<1> SUFFICES ASSUME WindowInv, [WindowNext]_windowVars PROVE WindowInv'
  OBVIOUS
<1> USE WindowAssumption, ChecksAssumption, ClockAssumption, BoundAssumption
    DEF WindowInv, Measured, AdoptedLate
<1>1. CASE RequestFence
  BY <1>1 DEF RequestFence, WindowTypeOK, Phase, clocks
<1>2. CASE CheckLease
  BY <1>2 DEF CheckLease, WindowTypeOK, Phase, clocks
<1>11. CASE WriteFence
  BY <1>11 DEF WriteFence, WindowTypeOK, Phase, clocks
<1>3. CASE FenceReply
  BY <1>3 DEF FenceReply, WindowTypeOK, Phase, Guard, clocks
<1>4. CASE Check
  <2>1. GuardRead \in Guard
    BY ReadTyped
  <2>2. CASE Fresh
    BY <1>4, <2>1, <2>2 DEF Check, WindowTypeOK, clocks
  <2>3. CASE ~Fresh
    BY <1>4, <2>3 DEF Check, WindowTypeOK, Phase, clocks
  <2> QED
    BY <2>2, <2>3
<1>5. CASE RouteRequest
  BY <1>5 DEF RouteRequest, WindowTypeOK, Phase, clocks
<1>6. CASE Adopt
  BY <1>6 DEF Adopt, WindowTypeOK, clocks
<1>7. CASE Tick
  BY <1>7 DEF Tick, WindowTypeOK, action
<1>8. CASE Sleep
  BY <1>8 DEF Sleep, WindowTypeOK, action
<1>9. CASE StepWall
  BY <1>9 DEF StepWall, WindowTypeOK, action
<1>10. CASE UNCHANGED windowVars
  BY <1>10 DEF windowVars, clocks, action, WindowTypeOK
<1> QED
  BY <1>1, <1>2, <1>3, <1>4, <1>5, <1>6, <1>7, <1>8, <1>9, <1>10, <1>11 DEF WindowNext

\* The clocks of a worker and of the database stay well typed.
THEOREM WindowTypesHold == WindowSpec => []WindowTypeOK
<1>1. WindowInv => WindowTypeOK
  BY DEF WindowInv
<1> QED
  BY <1>1, WindowInvInitially, WindowInvInductive, PTL DEF WindowSpec

\* A POST that the route handler lets go is in time by the database's clock, or
\* both clocks of the worker are wrong.
LEMMA ReleaseInTime ==
    ASSUME WindowInv, WindowNext, Releases
    PROVE  \/ clock < fencedAt + Window /\ clock < expiry /\ ~adopted
           \/ BothClocksWrong
<1>1. phase = "granted" /\ Fresh
  BY DEF WindowNext, Releases, RequestFence, CheckLease, WriteFence, FenceReply, Check,
         RouteRequest, Adopt, Tick, Sleep, StepWall, action
<1>2. /\ clock \in Nat /\ wall \in Int /\ mono \in Nat /\ slept \in Nat
      /\ expiry \in Int /\ requestedAt \in Nat /\ fencedAt \in Nat /\ Window \in Nat
  BY WindowAssumption, BoundAssumption DEF WindowInv, WindowTypeOK
<1>3. CASE slept = 0
  <2>1. clock - fencedAt < Shorter(Window, expiry - fencedAt)
    BY <1>1, <1>2, <1>3 DEF Fresh, ElapsedShort, WindowInv, Measured, Shorter
  <2> QED
    BY <1>2, <2>1 DEF Shorter, WindowInv, AdoptedLate
<1>4. CASE wall >= clock
  BY <1>1, <1>2, <1>4 DEF Fresh, WallFresh, WindowInv, AdoptedLate
<1> QED
  BY <1>2, <1>3, <1>4 DEF BothClocksWrong

\* However late the reply and however the wall clock is stepped, no POST is let
\* go once the fence may be adopted, for every window and every lease.
THEOREM PostsAreInTime == WindowSpec => PostInTime
<1>1. WindowInv /\ [WindowNext]_windowVars
        => [Releases => \/ clock < fencedAt + Window /\ clock < expiry /\ ~adopted
                        \/ BothClocksWrong]_windowVars
  BY ReleaseInTime
<1> QED
  BY <1>1, WindowInvInitially, WindowInvInductive, PTL DEF WindowSpec, PostInTime
=============================================================================
