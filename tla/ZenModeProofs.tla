--------------------------- MODULE ZenModeProofs ---------------------------
(***************************************************************************)
(* Proofs about ZenMode, for any set of callers, any period length and any *)
(* bound of the clock.                                                     *)
(***************************************************************************)
EXTENDS ZenMode, TLAPS

\* The inductive invariant.  OneOwner alone is not inductive: a goroutine that
\* fires must know that the period it clears is the one its own call installed,
\* hence PeriodHasTimer; and a call that has taken the token has not yet spawned
\* its goroutine.
IInv ==
    /\ TypeOK
    /\ OneOwner
    /\ PeriodHasTimer
    /\ \A c \in Callers : pc[c] = "acquired" => timer[c] = "none" /\ began[c] <= now
    /\ \A c \in Callers : timer[c] = "spawned" => endsAt <= now + Duration
    /\ \A c \in Callers : timer[c] = "sleeping" => endsAt <= deadline[c]

\* The initial state of ZenMode.Init satisfies the invariant.
LEMMA InitInv == Init => IInv
<1> SUFFICES ASSUME Init PROVE IInv
    OBVIOUS
<1>1. TypeOK
    BY DEF Init, TypeOK
<1>2. ~enabled /\ endsAt = 0 /\ token = 0
    BY DEF Init
<1>3. \A c \in Callers : pc[c] = "idle" /\ timer[c] = "none"
    BY DEF Init
<1>4. OneOwner
    BY <1>2, <1>3 DEF OneOwner, Holds
<1>5. PeriodHasTimer
    BY <1>2, <1>3 DEF PeriodHasTimer, Live
<1>6. QED
    BY <1>1, <1>3, <1>4, <1>5 DEF IInv

\* Every step of Start, of the goroutine and of the clock keeps the invariant.
LEMMA StepInv == IInv /\ [Next]_vars => IInv'
<1> SUFFICES ASSUME IInv, [Next]_vars PROVE IInv'
    OBVIOUS
<1> USE ZenAssumption DEF ZenAssumption, IInv, TypeOK, OneOwner, PeriodHasTimer, Holds, Live
<1>1. CASE Tick
    BY <1>1 DEF Tick
<1>2. ASSUME NEW c \in Callers, StartCheck(c) PROVE IInv'
    BY <1>2 DEF StartCheck
<1>3. ASSUME NEW c \in Callers, StartAcquire(c) PROVE IInv'
    BY <1>3 DEF StartAcquire
<1>4. ASSUME NEW c \in Callers, StartRefuse(c) PROVE IInv'
    BY <1>4 DEF StartRefuse
<1>5. ASSUME NEW c \in Callers, StartEnable(c) PROVE IInv'
    BY <1>5 DEF StartEnable
<1>6. ASSUME NEW c \in Callers, TimerArm(c) PROVE IInv'
    BY <1>6 DEF TimerArm
<1>7. ASSUME NEW c \in Callers, TimerFire(c) PROVE IInv'
    BY <1>7 DEF TimerFire
<1>8. ASSUME NEW c \in Callers, TimerRelease(c) PROVE IInv'
    BY <1>8 DEF TimerRelease
<1>9. CASE UNCHANGED vars
    BY <1>9 DEF vars
<1>10. QED
    BY <1>1, <1>2, <1>3, <1>4, <1>5, <1>6, <1>7, <1>8, <1>9 DEF Next

\* At most one Start call or goroutine owns the token of timerMu, whatever the
\* number of overlapping calls.
THEOREM OneOwnerAlways == Spec => []OneOwner
<1>1. IInv => OneOwner
    BY DEF IInv
<1>2. QED
    BY <1>1, InitInv, StepInv, PTL DEF Spec

\* The model's variables keep their types, and a running period always has the
\* goroutine that ends it, armed no earlier than the reported end.
THEOREM PeriodHasTimerAlways == Spec => [](TypeOK /\ PeriodHasTimer)
<1>1. IInv => TypeOK /\ PeriodHasTimer
    BY DEF IInv
<1>2. QED
    BY <1>1, InitInv, StepInv, PTL DEF Spec

\* No goroutine of an earlier period ends a later one.
THEOREM NoEarlyEndAlways == Spec => NoEarlyEnd
<1>1. IInv /\ [Next]_vars => [enabled /\ ~enabled' => now >= endsAt]_vars
    <2> SUFFICES ASSUME IInv, Next, enabled, ~enabled' PROVE now >= endsAt
        BY DEF vars
    <2>1. \E c \in Callers : TimerFire(c)
        BY DEF Next, Tick, StartCheck, StartAcquire, StartRefuse, StartEnable,
               TimerArm, TimerRelease
    <2>2. PICK c \in Callers : TimerFire(c)
        BY <2>1
    <2>3. now >= deadline[c] /\ endsAt <= deadline[c]
        BY <2>2 DEF TimerFire, IInv
    <2>4. now \in Nat /\ endsAt \in Nat /\ deadline[c] \in Nat
        BY DEF IInv, TypeOK
    <2>5. QED
        BY <2>3, <2>4
<1>2. QED
    BY <1>1, InitInv, StepInv, PTL DEF Spec, NoEarlyEnd

\* The end of a running period is never moved.
THEOREM PeriodIsFixedAlways == Spec => PeriodIsFixed
<1>1. IInv /\ [Next]_vars => [enabled /\ enabled' => endsAt' = endsAt]_vars
    <2> SUFFICES ASSUME IInv, Next, enabled, enabled' PROVE endsAt' = endsAt
        BY DEF vars
    <2>1. ASSUME NEW c \in Callers, StartEnable(c) PROVE FALSE
        <3>1. PICK d \in Callers : Live(d)
            BY DEF IInv, PeriodHasTimer
        <3>2. Holds(c) /\ Holds(d) /\ timer[c] = "none"
            BY <2>1, <3>1 DEF StartEnable, Holds, Live, IInv
        <3>3. QED
            BY <3>1, <3>2 DEF IInv, OneOwner, Live
    <2>2. ASSUME NEW c \in Callers, TimerFire(c) PROVE FALSE
        BY <2>2 DEF TimerFire
    <2>3. QED
        BY <2>1, <2>2 DEF Next, Tick, StartCheck, StartAcquire, StartRefuse,
               TimerArm, TimerRelease
<1>2. QED
    BY <1>1, InitInv, StepInv, PTL DEF Spec, PeriodIsFixed

=============================================================================
