-------------------------- MODULE FinalActionWindow --------------------------
(***************************************************************************)
(* The clocks of one final action.  The database writes a fence that may   *)
(* be adopted by crash recovery when its window is over by the database's  *)
(* clock.  The worker that asked for the fence reads its own two clocks    *)
(* before every step towards the POST and withholds it when the window, or *)
(* the lease it was granted, may be over.                                  *)
(*                                                                         *)
(* The clocks run at one rate.  What may go wrong with them is bounded:    *)
(* the wall clock may be stepped, either way, and the monotonic clock may  *)
(* stand still while the machine sleeps.                                   *)
(***************************************************************************)
EXTENDS Integers

CONSTANTS
    Window,               \* the action window (10 s)
    Checks,               \* reads of the clocks between fence and POST (5)
    Expiries,             \* ends of the original lease, on the database's clock
    Skews,                \* wall clock minus database clock at the start
    Steps,                \* sizes of a step of the wall clock
    MaxClock,             \* bound: the database's clock
    MaxSteps,             \* bound: steps of the wall clock
    MaxSlept              \* bound: ticks the monotonic clock misses

ASSUME WindowAssumption == Window \in Nat
ASSUME ChecksAssumption == Checks \in Nat
ASSUME ClockAssumption == Expiries \subseteq Int /\ Skews \subseteq Int /\ Steps \subseteq Int
ASSUME BoundAssumption == MaxClock \in Nat /\ MaxSteps \in Nat /\ MaxSlept \in Nat

VARIABLES
    clock, wall, mono,    \* database, worker's wall clock, worker's monotonic clock
    stepped, slept,
    phase,
    expiry,               \* leaseExpiresAt
    requestedAt,          \* fenceRequestedAt, monotonic
    fencedAt,             \* final_action_fenced_at
    guard,                \* the freshness guard's state
    checks,               \* reads of the clocks that found the action fresh
    adopted               \* crash recovery took the fence over

clocks == <<clock, wall, mono, stepped, slept>>
action == <<phase, expiry, requestedAt, fencedAt, guard, checks, adopted>>
windowVars == <<clocks, action>>

Phase == {"leased", "requested", "checked", "refused",
          "fenced", "granted", "released", "withheld"}

\* createKemerBetDepositFinalActionFreshnessGuard.  deadline and lastWall mean
\* nothing until the first read; lastMono starts at startedAt.  The adapter makes a
\* second guard of the same dates, which can only withhold more: it is left out.
Guard == [startedAt: Int, read: BOOLEAN, deadline: Int, lastWall: Int, lastMono: Int]

WindowTypeOK ==
    /\ clock \in Nat /\ wall \in Int /\ mono \in Nat
    /\ stepped \in 0..MaxSteps /\ slept \in 0..MaxSlept
    /\ phase \in Phase
    /\ expiry \in Int /\ requestedAt \in Nat /\ fencedAt \in Nat
    /\ guard \in Guard
    /\ checks \in 0..Checks
    /\ adopted \in BOOLEAN

Shorter(a, b) == IF a <= b THEN a ELSE b

-----------------------------------------------------------------------------
(* The worker's two measurements. *)

\* Mutant: the elapsed time is measured from the reply, not from the request.
ElapsedFromReply ==
    mono - guard.startedAt < Shorter(Window, expiry - fencedAt)

\* On the monotonic clock, from before the fence call, against a duration of two
\* dates of the server.
ElapsedShort == mono - requestedAt < Shorter(Window, expiry - fencedAt)

\* isKemerBetDepositFinalActionFresh: on the wall clock, against the two dates.
WallFresh == wall >= fencedAt /\ wall < expiry /\ wall - fencedAt < Window

Deadline == IF guard.read THEN guard.deadline
            ELSE guard.startedAt + Shorter(expiry - wall, fencedAt + Window - wall)

\* A clock that went back, or ran past the deadline set at the first read, ends
\* the action.
ClocksAgree ==
    /\ mono >= guard.lastMono /\ mono < Deadline
    /\ guard.read => wall >= guard.lastWall

Fresh == ElapsedShort /\ WallFresh /\ ClocksAgree

GuardRead == [startedAt |-> guard.startedAt, read |-> TRUE, deadline |-> Deadline,
              lastWall |-> wall, lastMono |-> mono]

-----------------------------------------------------------------------------
(* One final action. *)

RequestFence ==
    /\ phase = "leased"
    /\ IF wall < expiry THEN phase' = "requested" /\ requestedAt' = mono
       ELSE phase' = "refused" /\ UNCHANGED requestedAt
    /\ UNCHANGED <<clocks, expiry, fencedAt, guard, checks, adopted>>

\* The command finds the lease current, then waits for the rows it locks.
CheckLease ==
    /\ phase = "requested"
    /\ phase' = IF clock < expiry THEN "checked" ELSE "refused"
    /\ UNCHANGED <<clocks, expiry, requestedAt, fencedAt, guard, checks, adopted>>

\* The trigger stamps the fence with the time of its own write.
WriteFence ==
    /\ phase = "checked"
    /\ phase' = "fenced" /\ fencedAt' = clock
    /\ UNCHANGED <<clocks, expiry, requestedAt, guard, checks, adopted>>

\* The reply arrives, however late, and the guard is created.
FenceReply ==
    /\ phase = "fenced"
    /\ phase' = "granted"
    /\ guard' = [startedAt |-> mono, read |-> FALSE, deadline |-> 0,
                 lastWall |-> 0, lastMono |-> mono]
    /\ UNCHANGED <<clocks, expiry, requestedAt, fencedAt, checks, adopted>>

\* A read before submitting, in the adapter, around the page's own waits: the
\* action goes on only if it is fresh.
Check ==
    /\ phase = "granted" /\ checks < Checks
    /\ IF Fresh THEN checks' = checks + 1 /\ guard' = GuardRead /\ UNCHANGED phase
       ELSE phase' = "withheld" /\ UNCHANGED <<checks, guard>>
    /\ UNCHANGED <<clocks, expiry, requestedAt, fencedAt, adopted>>

\* The route handler reads once more, synchronously with letting the POST go.
RouteRequest ==
    /\ phase = "granted" /\ checks = Checks
    /\ phase' = IF Fresh THEN "released" ELSE "withheld"
    /\ UNCHANGED <<clocks, expiry, requestedAt, fencedAt, guard, checks, adopted>>

\* Crash recovery finds the job's lease, fenced_at plus the window, over.
Adopt ==
    /\ phase \in {"fenced", "granted", "released", "withheld"} /\ ~adopted
    /\ clock >= fencedAt + Window
    /\ adopted' = TRUE
    /\ UNCHANGED <<clocks, phase, expiry, requestedAt, fencedAt, guard, checks>>

-----------------------------------------------------------------------------
(* The clocks. *)

Tick ==
    /\ clock < MaxClock
    /\ clock' = clock + 1 /\ wall' = wall + 1 /\ mono' = mono + 1
    /\ UNCHANGED <<stepped, slept, action>>

\* The machine sleeps: its monotonic clock misses the tick.
Sleep ==
    /\ clock < MaxClock /\ slept < MaxSlept
    /\ clock' = clock + 1 /\ wall' = wall + 1 /\ slept' = slept + 1
    /\ UNCHANGED <<mono, stepped, action>>

StepWall ==
    /\ stepped < MaxSteps
    /\ \E d \in Steps : wall' = wall + d
    /\ stepped' = stepped + 1
    /\ UNCHANGED <<clock, mono, slept, action>>

WindowInit ==
    /\ clock = 0 /\ mono = 0 /\ wall \in Skews
    /\ stepped = 0 /\ slept = 0
    /\ phase = "leased" /\ expiry \in Expiries
    /\ requestedAt = 0 /\ fencedAt = 0
    /\ guard = [startedAt |-> 0, read |-> FALSE, deadline |-> 0,
                lastWall |-> 0, lastMono |-> 0]
    /\ checks = 0 /\ adopted = FALSE

WindowNext ==
    \/ RequestFence \/ CheckLease \/ WriteFence \/ FenceReply \/ Check \/ RouteRequest
    \/ Adopt
    \/ Tick \/ Sleep \/ StepWall

WindowSpec == WindowInit /\ [][WindowNext]_windowVars

-----------------------------------------------------------------------------
(* Properties. *)

Releases == phase # "released" /\ phase' = "released"

\* Only a machine that slept and whose wall clock is behind the database's can
\* be wrong about the time; one fault of one clock is covered by the other.
BothClocksWrong == slept > 0 /\ wall < clock

\* The POST is let go before the window and the original lease are over by the
\* database's clock, so before any other process may adopt the fence, however
\* late the reply came and however the wall clock was stepped.
PostInTime ==
    [][Releases => \/ clock < fencedAt + Window /\ clock < expiry /\ ~adopted
                   \/ BothClocksWrong]_windowVars
=============================================================================
