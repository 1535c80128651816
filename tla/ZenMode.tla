------------------------------ MODULE ZenMode ------------------------------
(***************************************************************************)
(* The timed "zen" period of middleware/zen.go.                            *)
(*                                                                         *)
(* ZenMode.Start runs on the goroutine of the API handler that calls it    *)
(* (internal/httpapi ZenModeStart), so any number of calls may overlap.    *)
(* A call reads `enabled` under stateMu, drops the lock, tries to put a    *)
(* token into the one-slot channel timerMu, and only then sets the period  *)
(* under stateMu and spawns the goroutine that ends it.  That goroutine    *)
(* sleeps, clears the period under stateMu, and afterwards takes the token *)
(* back out of timerMu.  Every one of these steps is an action here.       *)
(***************************************************************************)
EXTENDS Naturals

CONSTANTS
    Callers,    \* API calls that may be in progress at the same time
    Duration,   \* length of a period (config ZenMode.Time), in clock ticks
    MaxTime     \* bound: no Start call begins after this time

ASSUME ZenAssumption ==
    /\ Duration \in Nat \ {0}
    /\ MaxTime \in Nat

VARIABLES
    now,        \* the wall clock
    enabled,    \* z.enabled
    startedAt,  \* z.startedAt; 0 stands for the zero time
    endsAt,     \* z.endsAt; 0 stands for the zero time
    token,      \* number of elements in the channel timerMu
    pc,         \* where each Start call is
    began,      \* the time.Now() a Start call has read
    timer,      \* the goroutine spawned by a Start call
    deadline    \* when that goroutine's time.After fires

vars == <<now, enabled, startedAt, endsAt, token, pc, began, timer, deadline>>

TypeOK ==
    /\ now \in Nat
    /\ enabled \in BOOLEAN
    /\ startedAt \in Nat
    /\ endsAt \in Nat
    /\ token \in {0, 1}
    /\ pc \in [Callers -> {"idle", "checked", "acquired"}]
    /\ began \in [Callers -> Nat]
    /\ timer \in [Callers -> {"none", "spawned", "sleeping", "expired"}]
    /\ deadline \in [Callers -> Nat]

\* ZenMode.Init: no period is running and the channel is empty.
Init ==
    /\ now = 1
    /\ enabled = FALSE
    /\ startedAt = 0
    /\ endsAt = 0
    /\ token = 0
    /\ pc = [c \in Callers |-> "idle"]
    /\ began = [c \in Callers |-> 0]
    /\ timer = [c \in Callers |-> "none"]
    /\ deadline = [c \in Callers |-> 0]

-----------------------------------------------------------------------------
(* Start, on an API handler's goroutine.                                   *)

\* The read of enabled under RLock.  A running period ends the call here,
\* otherwise the call goes on with a value that may be stale by then.
StartCheck(c) ==
    /\ now <= MaxTime
    /\ pc[c] = "idle"
    /\ ~enabled
    /\ pc' = [pc EXCEPT ![c] = "checked"]
    /\ UNCHANGED <<now, enabled, startedAt, endsAt, token, began, timer, deadline>>

\* Mutant: the call enters the period without taking the token.
StartAcquireUnguarded(c) ==
    /\ pc[c] = "checked"
    /\ token' = token + 1
    /\ began' = [began EXCEPT ![c] = now]
    /\ pc' = [pc EXCEPT ![c] = "acquired"]
    /\ UNCHANGED <<now, enabled, startedAt, endsAt, timer, deadline>>

\* The select: the send on timerMu succeeds and the start time is read ...
StartAcquire(c) ==
    /\ pc[c] = "checked"
    /\ token = 0
    /\ token' = 1
    /\ began' = [began EXCEPT ![c] = now]
    /\ pc' = [pc EXCEPT ![c] = "acquired"]
    /\ UNCHANGED <<now, enabled, startedAt, endsAt, timer, deadline>>

\* ... or the channel is full, and the call returns without a period.
StartRefuse(c) ==
    /\ pc[c] = "checked"
    /\ token = 1
    /\ pc' = [pc EXCEPT ![c] = "idle"]
    /\ UNCHANGED <<now, enabled, startedAt, endsAt, token, began, timer, deadline>>

\* The period is installed under stateMu and the goroutine is spawned.
StartEnable(c) ==
    /\ pc[c] = "acquired"
    /\ enabled' = TRUE
    /\ startedAt' = began[c]
    /\ endsAt' = began[c] + Duration
    /\ timer' = [timer EXCEPT ![c] = "spawned"]
    /\ pc' = [pc EXCEPT ![c] = "idle"]
    /\ UNCHANGED <<now, token, began, deadline>>

-----------------------------------------------------------------------------
(* The goroutine that ends the period.                                     *)

\* Mutant: the goroutine's timer counts from the previous clock tick.
TimerArmShort(c) ==
    /\ timer[c] = "spawned"
    /\ timer' = [timer EXCEPT ![c] = "sleeping"]
    /\ deadline' = [deadline EXCEPT ![c] = (now + Duration) - 1]
    /\ UNCHANGED <<now, enabled, startedAt, endsAt, token, pc, began>>

\* It calls time.After when the scheduler first runs it, not when spawned.
TimerArm(c) ==
    /\ timer[c] = "spawned"
    /\ timer' = [timer EXCEPT ![c] = "sleeping"]
    /\ deadline' = [deadline EXCEPT ![c] = now + Duration]
    /\ UNCHANGED <<now, enabled, startedAt, endsAt, token, pc, began>>

\* Mutant: the token goes back before the period is cleared (the two statements
\* at the end of the goroutine swapped; TimerRelease is left as it is).
TimerFireReleasesFirst(c) ==
    /\ timer[c] = "sleeping"
    /\ now >= deadline[c]
    /\ token' = 0
    /\ timer' = [timer EXCEPT ![c] = "none"]
    /\ UNCHANGED <<now, enabled, startedAt, endsAt, pc, began, deadline>>

\* It wakes up and clears the period under stateMu.
TimerFire(c) ==
    /\ timer[c] = "sleeping"
    /\ now >= deadline[c]
    /\ enabled' = FALSE
    /\ startedAt' = 0
    /\ endsAt' = 0
    /\ timer' = [timer EXCEPT ![c] = "expired"]
    /\ UNCHANGED <<now, token, pc, began, deadline>>

\* It takes the token out of timerMu: only now may another Start succeed.
TimerRelease(c) ==
    /\ timer[c] = "expired"
    /\ token = 1
    /\ token' = 0
    /\ timer' = [timer EXCEPT ![c] = "none"]
    /\ UNCHANGED <<now, enabled, startedAt, endsAt, pc, began, deadline>>

-----------------------------------------------------------------------------
\* Time passes.  Beyond MaxTime it does so only while a goroutine sleeps, which
\* keeps the model finite and still lets every period end.
Tick ==
    /\ now < MaxTime \/ \E c \in Callers : timer[c] = "sleeping" /\ now < deadline[c]
    /\ now' = now + 1
    /\ UNCHANGED <<enabled, startedAt, endsAt, token, pc, began, timer, deadline>>

Next ==
    \/ Tick
    \/ \E c \in Callers :
          \/ StartCheck(c)
          \/ StartAcquire(c)
          \/ StartRefuse(c)
          \/ StartEnable(c)
          \/ TimerArm(c)
          \/ TimerFire(c)
          \/ TimerRelease(c)

Spec == Init /\ [][Next]_vars

\* The clock advances and goroutines that have started are scheduled; nobody
\* is obliged to call the API.
Fairness ==
    /\ WF_vars(Tick)
    /\ \A c \in Callers :
          /\ WF_vars(StartAcquire(c) \/ StartRefuse(c))
          /\ WF_vars(StartEnable(c))
          /\ WF_vars(TimerArm(c))
          /\ WF_vars(TimerFire(c))
          /\ WF_vars(TimerRelease(c))

FairSpec == Spec /\ Fairness

-----------------------------------------------------------------------------
(* Properties.                                                             *)

Holds(c) == pc[c] = "acquired" \/ timer[c] # "none"

Live(c) == timer[c] \in {"spawned", "sleeping"}

\* At most one call or goroutine is responsible for the channel's token, and
\* the token is in the channel exactly while there is one: overlapping Start
\* calls that all read enabled = FALSE cannot both start a period.
OneOwner ==
    /\ \A c, d \in Callers : Holds(c) /\ Holds(d) => c = d
    /\ token = 1 <=> \E c \in Callers : Holds(c)

\* A running period has exactly the goroutine that will end it, whose timer is
\* set no earlier than the end time that StatusView reports.
PeriodHasTimer ==
    /\ enabled <=> \E c \in Callers : Live(c)
    /\ \A c \in Callers : timer[c] = "sleeping" => deadline[c] >= endsAt

\* The goroutine of an earlier period never ends a later one: a period is only
\* cleared at or after the end time it was installed with.
NoEarlyEnd == [][enabled /\ ~enabled' => now >= endsAt]_vars

\* Nobody replaces the end time of a running period (a second Start does not
\* prolong it).
PeriodIsFixed == [][enabled /\ enabled' => endsAt' = endsAt]_vars

\* A period that has started is over eventually, and then the token is back in
\* place so that the next Start can succeed.
PeriodEnds == (token = 1) ~> (token = 0 /\ ~enabled)

=============================================================================
