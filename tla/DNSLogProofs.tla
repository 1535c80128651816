---------------------------- MODULE DNSLogProofs ----------------------------
(***************************************************************************)
(* Proofs about DNSLog, for any keys, any set of selectable modes and any  *)
(* number of events, failing writes and crashes; about Dashboard, for any  *)
(* window and any number of hours, queries, failures and crashes; and      *)
(* about LogQueries, for any clients, events, questions and clock.         *)
(***************************************************************************)
EXTENDS DNSLog, Dashboard, LogQueries, SequenceTheorems, FiniteSetTheorems, TLAPS

-----------------------------------------------------------------------------
(* Types.                                                                  *)

Pc == [admin : {"idle", "start", "stop", "stopping", "discard", "set", "setWrite",
                "persist", "restore", "restoreWrite", "clearing"},
       shutdown : {"run", "stop", "stopping", "discard", "closing"},
       worker : {"idle", "last", "done"}]

\* The part of TypeOK that is about control: locks, positions and flags.
ControlType ==
    /\ up \in BOOLEAN /\ enabled \in BOOLEAN /\ requiresClear \in BOOLEAN
    /\ stopOK \in BOOLEAN /\ ovEnabled \in BOOLEAN
    /\ lifecycleMu \in {"free", "admin", "shutdown"}
    /\ flushMu \in {"free", "admin", "shutdown", "worker"}
    /\ pc \in Pc

\* Who holds which lock where.
LockInv ==
    /\ lifecycleMu = "admin" <=>
         pc.admin \in {"stopping", "discard", "setWrite", "restoreWrite", "clearing"}
    /\ lifecycleMu = "shutdown" <=> pc.shutdown \in {"stopping", "discard"}
    /\ flushMu = "admin" => pc.admin \in {"stopping", "clearing"}
    /\ flushMu = "shutdown" => pc.shutdown = "stopping"
    /\ flushMu = "worker" => pc.worker \in {"idle", "last"}
    /\ pc.admin = "clearing" => flushMu = "admin" /\ batch = <<>>
    /\ flushMu = "free" => batch = <<>>

\* While a holder of lifecycleMu is stopping the log, nothing is accepted, and
\* what it has taken is all there was.
StopInv ==
    /\ pc.shutdown \in {"stopping", "discard"} => ~enabled
    /\ pc.admin \in {"stopping", "discard", "set", "setWrite", "persist", "restore",
                     "restoreWrite", "clearing"} => ~enabled
    /\ flushMu = "admin" => queue = <<>>
    /\ flushMu = "shutdown" => queue = <<>>
    /\ stopOK => ~enabled /\ queue = <<>> /\ batch = <<>>

\* The memory of a process that is not running.
DownInv ==
    ~up => /\ ~enabled /\ ~stopOK
           /\ queue = <<>> /\ batch = <<>>
           /\ flushMu = "free"
           /\ pc.admin = "idle" /\ pc.shutdown = "run" /\ pc.worker = "idle"

\* The persisted choice.
ChoiceInv ==
    /\ enabled => ovEnabled \/ pc.admin = "stop"
    /\ pc.admin = "start" => ovEnabled

Control ==
    /\ ControlType
    /\ LockInv
    /\ StopInv
    /\ DownInv
    /\ NeverStartsIncompatible
    /\ ChoiceInv

\* The initial state of a process started on an empty database.
LEMMA ControlInit == Init => Control
<1> SUFFICES ASSUME Init PROVE Control
    OBVIOUS
<1>1. ControlType
    <2>1. enabled \in BOOLEAN /\ ovEnabled \in BOOLEAN
        BY Zenon DEF Init
    <2>2. up \in BOOLEAN /\ requiresClear \in BOOLEAN /\ stopOK \in BOOLEAN
        BY DEF Init
    <2>3. QED
        BY <2>1, <2>2 DEF Init, ControlType, Pc
<1>2. LockInv
    BY DEF Init, LockInv
<1>3. StopInv
    BY DEF Init, StopInv
<1>4. DownInv
    BY DEF Init, DownInv
<1>5. NeverStartsIncompatible
    BY DEF Init, NeverStartsIncompatible
<1>6. ChoiceInv
    <2>1. enabled => ovEnabled
        BY Zenon DEF Init
    <2>2. QED
        BY <2>1 DEF Init, ChoiceInv
<1>7. QED
    BY <1>1, <1>2, <1>3, <1>4, <1>5, <1>6 DEF Control

-----------------------------------------------------------------------------
(* Every action keeps Control.  Each lemma covers one group of actions.     *)

\* Start and end of the process, and the operator's edit of the key file.
LEMMA ControlProcess ==
    Control /\ (Restart \/ Crash \/ ChangeKey \/ Stop \/ WorkerExit \/ ProcessExit) => Control'
<1> USE DEF Control, ControlType, Pc, LockInv, StopInv, DownInv, NeverStartsIncompatible,
            ChoiceInv, disk, memory, locks, request, ghosts, bounds
<1> SUFFICES ASSUME Control PROVE
        (Restart \/ Crash \/ ChangeKey \/ Stop \/ WorkerExit \/ ProcessExit) => Control'
    OBVIOUS
<1>1. CASE Restart
    <2>1. requiresClear' \in BOOLEAN
        BY <1>1, Zenon DEF Restart, Mismatch
    <2>2. enabled' \in BOOLEAN /\ (enabled' => ovEnabled /\ ~requiresClear')
        BY <1>1, Zenon DEF Restart
    <2>3. UNCHANGED <<ovEnabled, queue, lifecycleMu, flushMu, batch, pc, stopOK>> /\ up' /\ up' \in BOOLEAN
        BY <1>1 DEF Restart
    <2>4. pc.admin = "idle" /\ pc.shutdown = "run" /\ ~stopOK
        BY <1>1 DEF Restart
    <2>5. QED
        BY <2>1, <2>2, <2>3, <2>4
<1>2. CASE Crash
    BY <1>2 DEF Crash
<1>3. CASE ChangeKey
    BY <1>3 DEF ChangeKey
<1>4. CASE Stop
    BY <1>4 DEF Stop
<1>5. CASE WorkerExit
    BY <1>5 DEF WorkerExit
<1>6. CASE ProcessExit
    BY <1>6 DEF ProcessExit
<1>7. QED
    BY <1>1, <1>2, <1>3, <1>4, <1>5, <1>6

\* Queries, aliases and rotation.
LEMMA ControlQueries ==
    Control /\ (Run \/ AddAlias \/ Rotate) => Control'
<1> USE DEF Control, ControlType, Pc, LockInv, StopInv, DownInv, NeverStartsIncompatible,
            ChoiceInv, disk, memory, locks, request, ghosts, bounds
<1> SUFFICES ASSUME Control PROVE (Run \/ AddAlias \/ Rotate) => Control'
    OBVIOUS
<1>1. CASE Run
    BY <1>1 DEF Run
<1>2. CASE AddAlias
    BY <1>2 DEF AddAlias
<1>3. CASE Rotate
    BY <1>3 DEF Rotate
<1>4. QED
    BY <1>1, <1>2, <1>3

\* doInsert, whoever calls it.
LEMMA ControlInsert ==
    ASSUME NEW p \in {"worker", "admin", "shutdown"}, Control,
           InsertTake(p) \/ InsertNothing(p) \/ InsertCommit(p) \/ InsertFail(p)
    PROVE  Control'
<1> USE DEF Control, ControlType, Pc, LockInv, StopInv, DownInv, NeverStartsIncompatible,
            ChoiceInv, disk, memory, locks, request, ghosts, bounds, Returned, WriteFails, Inserting
<1>1. CASE InsertTake(p)
    BY <1>1 DEF InsertTake
<1>2. CASE InsertNothing(p)
    BY <1>2 DEF InsertNothing
<1>3. CASE InsertCommit(p)
    BY <1>3 DEF InsertCommit
<1>4. CASE InsertFail(p)
    BY <1>4 DEF InsertFail
<1>5. QED
    BY <1>1, <1>2, <1>3, <1>4

\* The administrator's requests.
LEMMA ControlAdmin ==
    ASSUME Control,
           \/ ToggleStart \/ ToggleStop \/ StartLogging \/ Clear \/ ClearCommit \/ ClearFail
           \/ \E mode \in Modes : PrivacyUpdate(mode)
           \/ SetPseudonymization \/ ConfigurePrivacy \/ ConfigurePrivacyFail
           \/ PersistPrivacy \/ PersistPrivacyFail
    PROVE  Control'
<1> USE DEF Control, ControlType, Pc, LockInv, StopInv, DownInv, NeverStartsIncompatible,
            ChoiceInv, disk, memory, locks, request, ghosts, bounds, WriteFails
<1>1. CASE ToggleStart
    BY <1>1 DEF ToggleStart
<1>2. CASE ToggleStop
    BY <1>2 DEF ToggleStop
<1>3. CASE StartLogging
    BY <1>3 DEF StartLogging
<1>4. CASE Clear
    BY <1>4 DEF Clear
<1>5. CASE ClearCommit
    BY <1>5 DEF ClearCommit
<1>6. CASE ClearFail
    BY <1>6 DEF ClearFail
<1>7. CASE \E mode \in Modes : PrivacyUpdate(mode)
    BY <1>7 DEF PrivacyUpdate
<1>8. CASE SetPseudonymization
    BY <1>8 DEF SetPseudonymization
<1>9. CASE ConfigurePrivacy
    <2>1. requiresClear' \in BOOLEAN
        BY <1>9, Zenon DEF ConfigurePrivacy, Mismatch
    <2>2. QED
        BY <1>9, <2>1 DEF ConfigurePrivacy
<1>10. CASE ConfigurePrivacyFail
    BY <1>10 DEF ConfigurePrivacyFail
<1>11. CASE PersistPrivacy
    BY <1>11 DEF PersistPrivacy
<1>12. CASE PersistPrivacyFail
    BY <1>12 DEF PersistPrivacyFail
<1>13. QED
    BY <1>1, <1>2, <1>3, <1>4, <1>5, <1>6, <1>7, <1>8, <1>9, <1>10, <1>11, <1>12

\* StopLogging up to its doInsert, and its error path.
LEMMA ControlStop ==
    ASSUME NEW p \in {"admin", "shutdown"}, Control, StopLogging(p) \/ DiscardQueued(p)
    PROVE  Control'
<1> USE DEF Control, ControlType, Pc, LockInv, StopInv, DownInv, NeverStartsIncompatible,
            ChoiceInv, disk, memory, locks, request, ghosts, bounds
<1>1. CASE StopLogging(p)
    BY <1>1 DEF StopLogging
<1>2. CASE DiscardQueued(p)
    BY <1>2 DEF DiscardQueued
<1>3. QED
    BY <1>1, <1>2

\* Control is inductive.
LEMMA ControlStep == Control /\ [Next]_vars => Control'
<1> SUFFICES ASSUME Control, [Next]_vars PROVE Control'
    OBVIOUS
<1>1. CASE UNCHANGED vars
    BY <1>1 DEF vars, disk, memory, locks, request, ghosts, bounds, Control, ControlType, Pc,
                LockInv, StopInv, DownInv, NeverStartsIncompatible, ChoiceInv
<1>2. CASE Next
    <2>1. CASE Restart \/ Crash \/ ChangeKey \/ Stop \/ WorkerExit
        BY <2>1, ControlProcess
    <2>2. CASE Run \/ AddAlias \/ Rotate
        BY <2>2, ControlQueries
    <2>3. CASE Worker
        BY <2>3, ControlInsert DEF Worker
    <2>4. CASE ToggleStart \/ ToggleStop \/ Clear \/ \E mode \in Modes : PrivacyUpdate(mode)
        BY <2>4, ControlAdmin
    <2>5. CASE AdminStep
        BY <2>5, ControlAdmin, ControlStop, ControlInsert DEF AdminStep
    <2>6. CASE ShutdownStep
        BY <2>6, ControlProcess, ControlStop, ControlInsert DEF ShutdownStep
    <2>7. QED
        BY <1>2, <2>1, <2>2, <2>3, <2>4, <2>5, <2>6 DEF Next
<1>3. QED
    BY <1>1, <1>2

-----------------------------------------------------------------------------
(* Theorems that need nothing else.                                        *)

\* A successful stop leaves nothing to be written: the flush of StopLogging waits
\* for the worker's flush and takes whatever that one had to put back.
THEOREM StopIsBarrier == Spec => []StopBarrier
<1>1. Control => StopBarrier
    BY DEF Control, StopInv, StopBarrier
<1>2. QED
    BY <1>1, ControlInit, ControlStep, PTL DEF Spec

\* The log never runs over incompatible data, and StartLogging never refuses what
\* DNSLogToggle has accepted.
THEOREM StartIsSafe == Spec => []NeverStartsIncompatible
<1>1. Control => NeverStartsIncompatible
    BY DEF Control
<1>2. QED
    BY <1>1, ControlInit, ControlStep, PTL DEF Spec

\* A running log is switched on in the overrides that the next start applies.
THEOREM ChoiceIsDurable == Spec => []ChoiceSurvives
<1>1. Control => ChoiceSurvives
    BY DEF Control, ChoiceInv, ChoiceSurvives
<1>2. QED
    BY <1>1, ControlInit, ControlStep, PTL DEF Spec

-----------------------------------------------------------------------------
(* Type correctness of the data.                                           *)

DataType ==
    /\ rows \in Seq(Event) /\ batch \in Seq(Event) /\ queue \in Seq(Event)
    /\ hosts \subseteq Keys \cup {Plain}
    /\ state \in Privacy /\ privacy \in Privacy /\ want \in Privacy
    /\ ovMode \in [domains : BOOLEAN, clients : BOOLEAN]
    /\ key \in Keys
    /\ counted \in [rows : BOOLEAN, hosts : BOOLEAN]
    /\ nextId \in Nat /\ clearedBelow \in Nat
    /\ gone \subseteq Nat
    /\ faults \in Nat /\ crashes \in Nat

\* A pseudonymizer's settings are well formed.
LEMMA PrivacyOfType ==
    ASSUME NEW m, m.domains \in BOOLEAN, m.clients \in BOOLEAN, NEW k \in Keys
    PROVE  PrivacyOf(m, k) \in Privacy
BY DEF PrivacyOf, Privacy

\* What is stored is a key or plain.  fp = NoKey only if nothing is pseudonymized,
\* which is what PrivacyOf guarantees.
KeyedPrivacy == {p \in Privacy : p.domains \/ p.clients => p.fp \in Keys}

LEMMA PrivacyOfKeyed ==
    ASSUME NEW m, m.domains \in BOOLEAN, m.clients \in BOOLEAN, NEW k \in Keys
    PROVE  PrivacyOf(m, k) \in KeyedPrivacy
BY PrivacyOfType DEF PrivacyOf, KeyedPrivacy

LEMMA ReprType ==
    ASSUME NEW p \in KeyedPrivacy
    PROVE  DomainRepr(p) \in Keys \cup {Plain} /\ ClientRepr(p) \in Keys \cup {Plain}
BY DEF KeyedPrivacy, Privacy, DomainRepr, ClientRepr

\* The event numbers in a sequence of events.
LEMMA IdsType == ASSUME NEW s \in Seq(Event) PROVE Ids(s) \subseteq Nat
<1>1. \A i \in DOMAIN s : s[i] \in Event
    OBVIOUS
<1>2. QED
    BY <1>1 DEF Ids, Event

\* DataType with settings that have a key where they need one.
DataInv ==
    /\ DataType
    /\ state \in KeyedPrivacy /\ privacy \in KeyedPrivacy /\ want \in KeyedPrivacy

LEMMA DataInit == Init => DataInv
<1> SUFFICES ASSUME Init PROVE DataInv
    OBVIOUS
<1>1. key \in Keys /\ ovMode \in [domains : BOOLEAN, clients : BOOLEAN]
    BY DNSLogAssumption DEF Init, DNSLogAssumption
<1>2. privacy \in KeyedPrivacy
    BY <1>1, PrivacyOfKeyed DEF Init
<1>3. state \in KeyedPrivacy /\ want \in KeyedPrivacy
    BY <1>2 DEF Init
<1>4. rows = <<>> /\ batch = <<>> /\ queue = <<>> /\ hosts = {} /\ gone = {}
    BY DEF Init
<1>5. QED
    BY <1>1, <1>2, <1>3, <1>4 DEF Init, DataInv, DataType, KeyedPrivacy

LEMMA DataStep == ControlType /\ DataInv /\ [Next]_vars => DataInv'
<1> SUFFICES ASSUME ControlType, DataInv, [Next]_vars PROVE DataInv'
    OBVIOUS
<1> USE DEF DataInv, DataType, disk, memory, locks, request, ghosts, bounds
<1>0. KeyedPrivacy \subseteq Privacy
    BY DEF KeyedPrivacy
<1>a. \A p \in Privacy : p.domains \in BOOLEAN /\ p.clients \in BOOLEAN
    BY DEF Privacy
<1>d. ovMode.domains \in BOOLEAN /\ ovMode.clients \in BOOLEAN
    OBVIOUS
<1>1. CASE UNCHANGED vars
    BY <1>1 DEF vars
<1>2. CASE Restart
    <2>0. privacy' = PrivacyOf(ovMode, key) /\ key \in Keys
        BY <1>2 DEF Restart
    <2>1. privacy' \in KeyedPrivacy
        BY <2>0, <1>d, PrivacyOfKeyed
    <2>2. state' \in KeyedPrivacy
        BY <1>2, <2>1 DEF Restart
    <2>3. QED
        BY <1>2, <2>1, <2>2, <1>0 DEF Restart
<1>b. Ids(rows) \subseteq Nat /\ Ids(queue) \subseteq Nat /\ Ids(batch \o queue) \subseteq Nat
    <2>1. batch \o queue \in Seq(Event)
        OBVIOUS
    <2>2. QED
        BY <2>1, IdsType
<1>c. <<>> \in Seq(Event) /\ rows \o batch \in Seq(Event) /\ batch \o queue \in Seq(Event)
    OBVIOUS
<1>3. CASE Crash \/ ProcessExit
    <2>1. CASE Crash
        <3>1. crashes' \in Nat
            BY <2>1 DEF Crash
        <3>2. queue' \in Seq(Event) /\ batch' \in Seq(Event) /\ gone' \subseteq Nat
            BY <2>1, <1>b, <1>c DEF Crash
        <3>3. QED
            BY <2>1, <3>1, <3>2 DEF Crash
    <2>2. CASE ProcessExit
        BY <2>2, <1>b, <1>c DEF ProcessExit
    <2>3. QED
        BY <1>3, <2>1, <2>2
<1>4. CASE ChangeKey \/ Stop \/ WorkerExit \/ AddAlias
    BY <1>4, ReprType DEF ChangeKey, Stop, WorkerExit, AddAlias
<1>5. CASE Run
    <2>1. [id |-> nextId, dom |-> DomainRepr(privacy), cli |-> ClientRepr(privacy)] \in Event
        BY ReprType DEF Event
    <2>2. QED
        BY <1>5, <2>1 DEF Run
<1>6. CASE Rotate
    <2>1. PICK n \in 1..Len(rows) : /\ gone' = gone \cup Ids(SubSeq(rows, 1, n))
                                    /\ rows' = SubSeq(rows, n + 1, Len(rows))
        BY <1>6 DEF Rotate
    <2>2. SubSeq(rows, 1, n) \in Seq(Event) /\ SubSeq(rows, n + 1, Len(rows)) \in Seq(Event)
        OBVIOUS
    <2>3. gone' \subseteq Nat /\ rows' \in Seq(Event)
        BY <2>1, <2>2, IdsType
    <2>4. QED
        BY <1>6, <2>3 DEF Rotate
<1>7. ASSUME NEW p, InsertTake(p) \/ InsertNothing(p) \/ InsertCommit(p) \/ InsertFail(p)
      PROVE  DataInv'
    <2>1. CASE InsertTake(p)
        BY <2>1, <1>c DEF InsertTake
    <2>2. CASE InsertNothing(p)
        BY <2>2 DEF InsertNothing
    <2>3. CASE InsertCommit(p)
        BY <2>3, <1>c DEF InsertCommit
    <2>4. CASE InsertFail(p)
        BY <2>4, <1>c DEF InsertFail, WriteFails
    <2>5. QED
        BY <1>7, <2>1, <2>2, <2>3, <2>4
<1>8. ASSUME NEW p, StopLogging(p) \/ DiscardQueued(p) PROVE DataInv'
    <2>1. CASE StopLogging(p)
        BY <2>1 DEF StopLogging
    <2>2. CASE DiscardQueued(p)
        BY <2>2, <1>b, <1>c DEF DiscardQueued
    <2>3. QED
        BY <1>8, <2>1, <2>2
<1>9. CASE ToggleStart \/ ToggleStop \/ StartLogging
    BY <1>9 DEF ToggleStart, ToggleStop, StartLogging
<1>10. CASE Clear \/ ClearCommit \/ ClearFail
    <2>1. CASE Clear
        BY <2>1, <1>b, <1>c DEF Clear
    <2>2. CASE ClearCommit
        BY <2>2, <1>b, <1>c DEF ClearCommit
    <2>3. CASE ClearFail
        BY <2>3 DEF ClearFail, WriteFails
    <2>4. QED
        BY <1>10, <2>1, <2>2, <2>3
<1>11. ASSUME NEW mode \in Modes, PrivacyUpdate(mode) PROVE DataInv'
    <2>1. mode.domains \in BOOLEAN /\ mode.clients \in BOOLEAN
        BY DNSLogAssumption DEF DNSLogAssumption
    <2>2. want' \in KeyedPrivacy
        BY <1>11, <2>1, PrivacyOfKeyed DEF PrivacyUpdate
    <2>3. QED
        BY <1>11, <2>2, <1>0 DEF PrivacyUpdate
<1>12. CASE SetPseudonymization
    <2>0. want.domains \in BOOLEAN /\ want.clients \in BOOLEAN /\ want' = PrivacyOf(want, key)
        BY <1>12, <1>a DEF SetPseudonymization
    <2>1. want' \in KeyedPrivacy
        BY <2>0, PrivacyOfKeyed
    <2>2. counted' \in [rows : BOOLEAN, hosts : BOOLEAN]
        BY <1>12 DEF SetPseudonymization
    <2>3. QED
        BY <1>12, <2>1, <2>2, <1>0 DEF SetPseudonymization
<1>13. CASE ConfigurePrivacy \/ ConfigurePrivacyFail
    BY <1>13 DEF ConfigurePrivacy, ConfigurePrivacyFail, WriteFails
<1>14. CASE PersistPrivacy
    BY <1>14, <1>a DEF PersistPrivacy
<1>15. CASE PersistPrivacyFail
    <2>0. want' = PrivacyOf(ovMode, key) /\ key \in Keys
        BY <1>15 DEF PersistPrivacyFail
    <2>1. want' \in KeyedPrivacy
        BY <2>0, <1>d, PrivacyOfKeyed
    <2>2. QED
        BY <1>15, <2>1, <1>0 DEF PersistPrivacyFail, WriteFails
<1>16. QED
    BY <1>1, <1>2, <1>3, <1>4, <1>5, <1>6, <1>7, <1>8, <1>9, <1>10, <1>11, <1>12, <1>13, <1>14,
       <1>15 DEF Next, Worker, AdminStep, ShutdownStep

\* Every variable keeps its type.
THEOREM TypeCorrect == Spec => []TypeOK
<1>1. Control /\ DataInv => TypeOK
    BY DEF Control, ControlType, DataInv, DataType, Pc, TypeOK
<1>2. Control => ControlType
    BY DEF Control
<1>3. QED
    BY <1>1, <1>2, ControlInit, ControlStep, DataInit, DataStep, PTL DEF Spec

-----------------------------------------------------------------------------
(* Without failing writes, stored events never mix representations.        *)

\* Compatibility of the sequences the actions build.
LEMMA CompatibleConcat ==
    ASSUME NEW p, NEW s \in Seq(Event), NEW t \in Seq(Event), Compatible(s, p), Compatible(t, p)
    PROVE  Compatible(s \o t, p)
BY DEF Compatible

LEMMA CompatibleAppend ==
    ASSUME NEW p, NEW s \in Seq(Event), NEW e \in Event, Compatible(s, p),
           e.dom = DomainRepr(p), e.cli = ClientRepr(p)
    PROVE  Compatible(Append(s, e), p)
BY DEF Compatible

LEMMA CompatibleSuffix ==
    ASSUME NEW p, NEW s \in Seq(Event), Compatible(s, p), NEW n \in 1..Len(s)
    PROVE  Compatible(SubSeq(s, n + 1, Len(s)), p)
BY DEF Compatible

LEMMA CompatibleEmpty ==
    ASSUME NEW p PROVE Compatible(<<>>, p)
BY DEF Compatible

\* The argument for the mismatch test: where it accepts new settings over existing
\* rows, both settings produce the same representations.  Two different keys are
\* accepted only if neither setting uses a key.
LEMMA MismatchSound ==
    ASSUME NEW st \in KeyedPrivacy, NEW p \in KeyedPrivacy, NEW h \in BOOLEAN,
           ~Mismatch(st, p, TRUE, h)
    PROVE  DomainRepr(st) = DomainRepr(p) /\ ClientRepr(st) = ClientRepr(p)
BY DEF Mismatch, KeyedPrivacy, Privacy, DomainRepr, ClientRepr

\* The recorded state describes all events there are; the settings in use are the
\* recorded ones unless a clear is required; and while no events are accepted
\* none are pending, so a count of zero rows stays right until it is used.
CompatInv ==
    /\ pc.admin # "discard" /\ pc.shutdown # "discard"
    /\ \/ enabled \/ pc.admin = "stopping" \/ pc.shutdown = "stopping"
       \/ queue = <<>> /\ batch = <<>>
    /\ Compatible(rows, state) /\ Compatible(batch, state) /\ Compatible(queue, state)
    /\ up /\ ~requiresClear => privacy = state
    /\ pc.admin \in {"setWrite", "restoreWrite"} /\ ~counted.rows => rows = <<>>

\* It holds until a write fails.
CompatUntilFault == faults = 0 => CompatInv

LEMMA CompatInit == Init => CompatUntilFault
BY CompatibleEmpty DEF Init, CompatUntilFault, CompatInv

\* New settings are accepted: rows keep describing what the new state says.
LEMMA AcceptSettings ==
    ASSUME NEW rs \in Seq(Event), NEW st \in KeyedPrivacy, NEW p \in KeyedPrivacy,
           NEW r \in BOOLEAN, NEW h \in BOOLEAN, rs # <<>> => r,
           ~Mismatch(st, p, r, h), Compatible(rs, st)
    PROVE  Compatible(rs, p)
<1>1. CASE r
    <2>1. DomainRepr(st) = DomainRepr(p) /\ ClientRepr(st) = ClientRepr(p)
        BY <1>1, MismatchSound
    <2>2. QED
        BY <2>1 DEF Compatible
<1>2. CASE ~r
    BY <1>2, CompatibleEmpty
<1>3. QED
    BY <1>1, <1>2

\* A step fails at most one write, and takes no failure back.
LEMMA FaultsOnlyGrow ==
    ASSUME [Next]_vars
    PROVE  faults' = faults \/ WriteFails
<1> USE DEF bounds
<1>1. CASE UNCHANGED vars
    BY <1>1 DEF vars
<1>2. CASE Restart \/ Crash \/ ChangeKey \/ Run \/ AddAlias \/ Rotate
    BY <1>2 DEF Restart, Crash, ChangeKey, Run, AddAlias, Rotate
<1>3. ASSUME NEW p, InsertTake(p) \/ InsertNothing(p) \/ InsertCommit(p) \/ InsertFail(p)
      PROVE  faults' = faults \/ WriteFails
    BY <1>3 DEF InsertTake, InsertNothing, InsertCommit, InsertFail
<1>4. ASSUME NEW p, StopLogging(p) \/ DiscardQueued(p) PROVE faults' = faults
    BY <1>4 DEF StopLogging, DiscardQueued
<1>5. CASE ToggleStart \/ ToggleStop \/ StartLogging \/ Clear \/ ClearCommit \/ ClearFail
    BY <1>5 DEF ToggleStart, ToggleStop, StartLogging, Clear, ClearCommit, ClearFail
<1>6. ASSUME NEW mode \in Modes, PrivacyUpdate(mode) PROVE faults' = faults
    BY <1>6 DEF PrivacyUpdate
<1>7. CASE \/ SetPseudonymization \/ ConfigurePrivacy \/ ConfigurePrivacyFail
           \/ PersistPrivacy \/ PersistPrivacyFail
    BY <1>7 DEF SetPseudonymization, ConfigurePrivacy, ConfigurePrivacyFail, PersistPrivacy,
          PersistPrivacyFail
<1>8. CASE Stop \/ WorkerExit \/ ProcessExit
    BY <1>8 DEF Stop, WorkerExit, ProcessExit
<1>9. QED
    BY <1>1, <1>2, <1>3, <1>4, <1>5, <1>6, <1>7, <1>8 DEF Next, Worker, AdminStep, ShutdownStep

LEMMA FaultsGrow ==
    ASSUME DataInv, [Next]_vars, faults' = 0
    PROVE  faults = 0 /\ ~WriteFails
<1>1. faults \in Nat
    BY DEF DataInv, DataType
<1>2. QED
    BY <1>1, FaultsOnlyGrow DEF WriteFails

LEMMA CompatStep ==
    Control /\ DataInv /\ CompatUntilFault /\ [Next]_vars => CompatUntilFault'
<1> SUFFICES ASSUME Control, DataInv, CompatUntilFault, [Next]_vars, faults' = 0
             PROVE  CompatInv'
    BY DEF CompatUntilFault
<1> USE DEF disk, memory, locks, request, ghosts, bounds
<1>0. CompatInv /\ ~WriteFails
    BY FaultsGrow DEF CompatUntilFault
<1> USE <1>0
<1>1. CASE UNCHANGED vars
    BY <1>1 DEF vars, CompatInv, Compatible
<1>2. CASE Restart
    <2>1. queue = <<>> /\ batch = <<>> /\ pc.admin = "idle" /\ pc.shutdown = "run"
        BY <1>2 DEF Restart, Control, DownInv
    <2>2. Compatible(rows, state')
        <3>1. CASE requiresClear'
            BY <1>2, <3>1 DEF Restart, CompatInv
        <3>2. CASE ~requiresClear'
            <4>1. privacy' \in KeyedPrivacy
                BY <1>2, PrivacyOfKeyed DEF Restart, DataInv, DataType
            <4>2. ~Mismatch(state, privacy', rows # <<>>, hosts # {})
                BY <1>2, <3>2 DEF Restart
            <4>3. Compatible(rows, privacy')
                BY <4>1, <4>2, AcceptSettings DEF DataInv, DataType, CompatInv
            <4>4. QED
                BY <1>2, <3>2, <4>3 DEF Restart
        <3>3. QED
            BY <3>1, <3>2
    <2>3. ~requiresClear' => privacy' = state'
        BY <1>2 DEF Restart
    <2>4. QED
        BY <1>2, <2>1, <2>2, <2>3, CompatibleEmpty DEF Restart, CompatInv
<1>3. CASE Crash \/ ProcessExit
    <2>1. queue' = <<>> /\ batch' = <<>> /\ pc'.admin = "idle" /\ pc'.shutdown = "run" /\ ~up'
        BY <1>3 DEF Crash, ProcessExit
    <2>2. UNCHANGED <<rows, state, faults>>
        BY <1>3 DEF Crash, ProcessExit
    <2>3. QED
        BY <2>1, <2>2, CompatibleEmpty DEF CompatInv
<1>4. CASE ChangeKey \/ Stop \/ WorkerExit \/ AddAlias
    BY <1>4 DEF ChangeKey, Stop, WorkerExit, AddAlias, CompatInv, Control, ControlType, Pc
<1>5. CASE Run
    <2>1. privacy = state /\ privacy \in KeyedPrivacy
        BY <1>5 DEF Run, CompatInv, DataInv
    <2>2. DEFINE e == [id |-> nextId, dom |-> DomainRepr(privacy), cli |-> ClientRepr(privacy)]
    <2>3. e \in Event /\ e.dom = DomainRepr(state) /\ e.cli = ClientRepr(state)
        BY <2>1, ReprType DEF Event, DataInv, DataType
    <2>4. Compatible(Append(queue, e), state)
        BY <2>3, CompatibleAppend DEF CompatInv, DataInv, DataType
    <2>5. QED
        BY <1>5, <2>4 DEF Run, CompatInv
<1>6. CASE Rotate
    <2>1. PICK n \in 1..Len(rows) : rows' = SubSeq(rows, n + 1, Len(rows))
        BY <1>6 DEF Rotate
    <2>2. Compatible(rows', state)
        BY <2>1, CompatibleSuffix DEF CompatInv, DataInv, DataType
    <2>3. rows # <<>>
        BY <2>1 DEF DataInv, DataType
    <2>4. QED
        BY <1>6, <2>2, <2>3 DEF Rotate, CompatInv
<1>7. ASSUME NEW p \in {"worker", "admin", "shutdown"},
             InsertTake(p) \/ InsertNothing(p) \/ InsertCommit(p) \/ InsertFail(p)
      PROVE  CompatInv'
    <2>1. CASE InsertTake(p)
        BY <2>1, CompatibleEmpty DEF InsertTake, CompatInv
    <2>2. CASE InsertNothing(p)
        BY <2>2, CompatibleEmpty DEF InsertNothing, Returned, Inserting, CompatInv, Control, LockInv,
              ControlType, Pc
    <2>3. CASE InsertCommit(p)
        <3>1. Compatible(rows', state) /\ batch' = <<>> /\ UNCHANGED <<queue, state, up, enabled,
                  privacy, requiresClear, counted, faults>>
            BY <2>3, CompatibleConcat DEF InsertCommit, CompatInv, DataInv, DataType
        <3>2. pc.admin \in {"setWrite", "restoreWrite"} => batch = <<>>
            BY DEF CompatInv, Control, LockInv, StopInv, ControlType
        <3>3. pc' = [pc EXCEPT ![p] = pc'[p]] /\ pc'[p] # "discard"
            BY <2>3 DEF InsertCommit, Returned, Control, ControlType, Pc
        <3>4. CASE p = "worker"
            BY <2>3, <3>1, <3>2, <3>4, CompatibleEmpty DEF InsertCommit, Returned, CompatInv, Control,
                  ControlType, Pc
        <3>5. CASE p # "worker"
            <4>1. queue = <<>>
                BY <2>3, <3>5 DEF InsertCommit, Control, StopInv
            <4>2. QED
                BY <2>3, <3>1, <3>5, <4>1, CompatibleEmpty DEF InsertCommit, Returned, CompatInv,
                      Control, ControlType, Pc, LockInv
        <3>6. QED
            BY <3>4, <3>5
    <2>4. CASE InsertFail(p)
        BY <2>4, <1>0 DEF InsertFail
    <2>5. QED
        BY <1>7, <2>1, <2>2, <2>3, <2>4
<1>8. ASSUME NEW p \in {"admin", "shutdown"}, StopLogging(p) \/ DiscardQueued(p) PROVE CompatInv'
    BY <1>8 DEF StopLogging, DiscardQueued, CompatInv, Control, ControlType, Pc
<1>9. CASE ToggleStart \/ ToggleStop \/ StartLogging
    BY <1>9 DEF ToggleStart, ToggleStop, StartLogging, CompatInv, Control, ControlType, Pc
<1>10. CASE Clear \/ ClearCommit \/ ClearFail
    <2>1. CASE Clear
        BY <2>1, CompatibleEmpty DEF Clear, CompatInv, Control, ControlType, Pc, LockInv
    <2>2. CASE ClearCommit
        <3>1. queue = <<>> /\ batch = <<>>
            BY <2>2 DEF ClearCommit, Control, LockInv, StopInv
        <3>2. QED
            BY <2>2, <3>1, CompatibleEmpty DEF ClearCommit, CompatInv, Control, ControlType, Pc
    <2>3. CASE ClearFail
        BY <2>3, <1>0 DEF ClearFail
    <2>4. QED
        BY <1>10, <2>1, <2>2, <2>3
<1>11. ASSUME NEW mode \in Modes, PrivacyUpdate(mode) PROVE CompatInv'
    BY <1>11 DEF PrivacyUpdate, CompatInv, Control, ControlType, Pc
<1>12. CASE SetPseudonymization
    BY <1>12 DEF SetPseudonymization, CompatInv, Control, ControlType, Pc
<1>13. CASE ConfigurePrivacy
    <2>1. queue = <<>> /\ batch = <<>>
        BY <1>13 DEF ConfigurePrivacy, CompatInv, Control, ControlType, Pc, LockInv, StopInv
    <2>2. Compatible(rows, state')
        <3>1. CASE requiresClear'
            BY <1>13, <3>1 DEF ConfigurePrivacy, CompatInv
        <3>2. CASE ~requiresClear'
            <4>1. ~Mismatch(state, want, counted.rows, counted.hosts)
                BY <1>13, <3>2 DEF ConfigurePrivacy
            <4>2. rows # <<>> => counted.rows
                BY <1>13 DEF ConfigurePrivacy, CompatInv
            <4>3. Compatible(rows, want)
                BY <4>1, <4>2, AcceptSettings DEF DataInv, DataType, CompatInv
            <4>4. QED
                BY <1>13, <3>2, <4>3 DEF ConfigurePrivacy
        <3>3. QED
            BY <3>1, <3>2
    <2>3. ~requiresClear' => privacy' = state'
        BY <1>13 DEF ConfigurePrivacy
    <2>4. QED
        BY <1>13, <2>1, <2>2, <2>3, CompatibleEmpty DEF ConfigurePrivacy, CompatInv, Control,
              ControlType, Pc
<1>14. CASE PersistPrivacy
    BY <1>14 DEF PersistPrivacy, CompatInv, Control, ControlType, Pc
<1>15. CASE ConfigurePrivacyFail \/ PersistPrivacyFail
    BY <1>15, <1>0 DEF ConfigurePrivacyFail, PersistPrivacyFail
<1>16. QED
    BY <1>1, <1>2, <1>3, <1>4, <1>5, <1>6, <1>7, <1>8, <1>9, <1>10, <1>11, <1>12, <1>13, <1>14,
       <1>15 DEF Next, Worker, AdminStep, ShutdownStep

\* Until a database write fails, the events the log holds never mix representations
\* without RequiresClear being reported, whatever the order of queries, flushes,
\* stops, changes of the key or of either mode, clears, crashes and restarts.
THEOREM EventsNeverMix == Spec => []EventsCompatible
<1>1. CompatUntilFault => EventsCompatible
    BY DEF CompatUntilFault, CompatInv, EventsCompatible
<1>2. Control => ControlType
    BY DEF Control
<1>3. QED
    BY <1>1, <1>2, ControlInit, ControlStep, DataInit, DataStep, CompatInit, CompatStep, PTL
       DEF Spec

-----------------------------------------------------------------------------
(* The privacy settings in use are the persisted ones.                     *)

\* Two settings select the same fields.
SameModes(p, m) == p.domains = m.domains /\ p.clients = m.clients

\* Between the change in memory and its persistence the settings in use are the
\* requested ones; on the way back, which takes a failure, the requested ones are
\* the persisted ones.
SettingsInv ==
    /\ up /\ pc.admin \notin {"persist", "restore", "restoreWrite"} => SameModes(privacy, ovMode)
    /\ pc.admin = "persist" => privacy = want
    /\ pc.admin \in {"restore", "restoreWrite"} => faults = 1 /\ SameModes(want, ovMode)

\* It holds until a second write fails.
SettingsUntilFault == faults <= 1 => SettingsInv

\* newDNSLogPseudonymizer keeps the modes it is asked for.
LEMMA PrivacyOfModes ==
    ASSUME NEW m, NEW k
    PROVE  PrivacyOf(m, k).domains = m.domains /\ PrivacyOf(m, k).clients = m.clients
BY DEF PrivacyOf

LEMMA SettingsInit == Init => SettingsUntilFault
BY PrivacyOfModes DEF Init, SettingsUntilFault, SettingsInv, SameModes

LEMMA SettingsStep ==
    Control /\ DataInv /\ SettingsUntilFault /\ [Next]_vars => SettingsUntilFault'
<1> SUFFICES ASSUME Control, DataInv, SettingsUntilFault, [Next]_vars, faults' <= 1
             PROVE  SettingsInv'
    BY DEF SettingsUntilFault
<1> USE DEF disk, memory, locks, request, ghosts, bounds
<1>0. /\ SettingsInv
      /\ faults \in Nat
      /\ WriteFails => faults = 0 /\ faults' = 1
    BY FaultsOnlyGrow DEF SettingsUntilFault, DataInv, DataType, WriteFails
<1>t. pc \in Pc /\ up \in BOOLEAN
    BY DEF Control, ControlType
<1> USE <1>0, <1>t DEF SettingsInv, SameModes, Pc
<1>1. CASE UNCHANGED vars
    BY <1>1 DEF vars
<1>2. CASE Restart
    <2>1. pc.admin = "idle" /\ UNCHANGED <<pc, ovMode, faults>>
        BY <1>2 DEF Restart, Control, DownInv
    <2>2. SameModes(privacy', ovMode)
        BY <1>2, PrivacyOfModes DEF Restart
    <2>3. QED
        BY <2>1, <2>2
<1>3. CASE Crash \/ ProcessExit
    BY <1>3 DEF Crash, ProcessExit
<1>4. CASE ChangeKey \/ Stop \/ WorkerExit \/ AddAlias \/ Run \/ Rotate
    BY <1>4 DEF ChangeKey, Stop, WorkerExit, AddAlias, Run, Rotate
<1>5. ASSUME NEW p \in {"worker", "admin", "shutdown"},
             InsertTake(p) \/ InsertNothing(p) \/ InsertCommit(p) \/ InsertFail(p)
      PROVE  SettingsInv'
    <2>1. UNCHANGED <<up, privacy, ovMode, want>>
        BY <1>5 DEF InsertTake, InsertNothing, InsertCommit, InsertFail
    <2>2. CASE InsertTake(p)
        BY <2>1, <2>2 DEF InsertTake
    <2>3. CASE ~InsertTake(p)
        <3>1. /\ pc' = [pc EXCEPT ![p] = pc'[p]]
              /\ pc'[p] \in {"idle", "last", "done", "discard", "closing"}
            BY <1>5, <2>3 DEF InsertNothing, InsertCommit, InsertFail, Returned
        <3>2. p = "admin" => pc.admin \in {"stopping", "clearing"}
            BY <1>5, <2>3 DEF InsertNothing, InsertCommit, InsertFail, Inserting, Control, LockInv
        <3>3. faults' = faults \/ faults = 0
            BY FaultsOnlyGrow
        <3>4. QED
            BY <2>1, <3>1, <3>2, <3>3, FaultsOnlyGrow
    <2>4. QED
        BY <2>2, <2>3
<1>6. ASSUME NEW p \in {"admin", "shutdown"}, StopLogging(p) \/ DiscardQueued(p)
      PROVE  SettingsInv'
    BY <1>6 DEF StopLogging, DiscardQueued
<1>7. CASE ToggleStart \/ ToggleStop \/ StartLogging \/ Clear \/ ClearCommit \/ ClearFail
    BY <1>7 DEF ToggleStart, ToggleStop, StartLogging, Clear, ClearCommit, ClearFail
<1>8. ASSUME NEW mode \in Modes, PrivacyUpdate(mode) PROVE SettingsInv'
    BY <1>8 DEF PrivacyUpdate
<1>9. CASE SetPseudonymization
    <2>1. SameModes(want', want)
        BY <1>9, PrivacyOfModes DEF SetPseudonymization
    <2>2. QED
        BY <1>9, <2>1 DEF SetPseudonymization
<1>10. CASE ConfigurePrivacy
    BY <1>10 DEF ConfigurePrivacy
<1>11. CASE ConfigurePrivacyFail
    BY <1>11 DEF ConfigurePrivacyFail
<1>12. CASE PersistPrivacy
    BY <1>12 DEF PersistPrivacy
<1>13. CASE PersistPrivacyFail
    <2>1. SameModes(want', ovMode)
        BY <1>13, PrivacyOfModes DEF PersistPrivacyFail
    <2>2. QED
        BY <1>13, <2>1 DEF PersistPrivacyFail
<1>14. QED
    BY <1>1, <1>2, <1>3, <1>4, <1>5, <1>6, <1>7, <1>8, <1>9, <1>10, <1>11, <1>12, <1>13
       DEF Next, Worker, AdminStep, ShutdownStep

\* Whatever is interleaved with a privacy request, and wherever one write of it
\* fails, the settings in use afterwards are those the next start will apply.
THEOREM SettingsAreDurable == Spec => []PrivacySurvives
<1>1. SettingsUntilFault => PrivacySurvives
    BY DEF SettingsUntilFault, SettingsInv, SameModes, PrivacySurvives
<1>2. Control => ControlType
    BY DEF Control
<1>3. QED
    BY <1>1, <1>2, ControlInit, ControlStep, DataInit, DataStep, SettingsInit, SettingsStep, PTL
       DEF Spec

-----------------------------------------------------------------------------
(* Every accepted event is stored once, in order, or accounted for.        *)

\* Numbers increase from the oldest event to the youngest.
Ordered(s) == \A i, j \in DOMAIN s : i < j => s[i].id < s[j].id

\* The sequence l holds what was accepted (numbers below n) and is not gone (g);
\* nothing in it is older than the last Clear (c).
AccountOf(l, g, n, c) ==
    /\ Ordered(l)
    /\ Ids(l) = (1 .. n - 1) \ g
    /\ g \subseteq 1 .. n - 1
    /\ 1 <= n /\ c <= n
    /\ \A e \in Ids(l) : e >= c

LogInv == AccountOf(Log, gone, nextId, clearedBelow)

LEMMA IdsEmpty == Ids(<<>>) = {}
BY DEF Ids

LEMMA IdsConcat ==
    ASSUME NEW s \in Seq(Event), NEW t \in Seq(Event)
    PROVE  Ids(s \o t) = Ids(s) \cup Ids(t)
<1> DEFINE u == s \o t
<1>1. /\ DOMAIN u = 1 .. Len(s) + Len(t)
      /\ DOMAIN s = 1 .. Len(s) /\ DOMAIN t = 1 .. Len(t)
      /\ Len(s) \in Nat /\ Len(t) \in Nat
    BY ConcatProperties, LenProperties
<1>2. \A i \in 1 .. Len(s) : u[i] = s[i]
    BY <1>1, ConcatProperties
<1>3. \A i \in 1 .. Len(t) : Len(s) + i \in DOMAIN u /\ u[Len(s) + i] = t[i]
    BY <1>1, ConcatProperties
<1>4. \A i \in DOMAIN u : i \in DOMAIN s \/ \E j \in DOMAIN t : i = Len(s) + j
    <2> TAKE i \in DOMAIN u
    <2>1. CASE i <= Len(s)
        BY <1>1, <2>1
    <2>2. CASE i > Len(s)
        <3>1. i - Len(s) \in DOMAIN t /\ i = Len(s) + (i - Len(s))
            BY <1>1, <2>2
        <3>2. QED
            BY <3>1
    <2>3. QED
        BY <1>1, <2>1, <2>2
<1>5. DOMAIN s \subseteq DOMAIN u
    BY <1>1
<1> HIDE DEF u
<1>6. Ids(u) = Ids(s) \cup Ids(t)
    <2>1. Ids(s) \subseteq Ids(u)
        BY <1>1, <1>2, <1>5 DEF Ids
    <2>2. Ids(t) \subseteq Ids(u)
        BY <1>1, <1>3 DEF Ids
    <2>3. \A i \in DOMAIN u : u[i].id \in Ids(s) \cup Ids(t)
        <3> TAKE i \in DOMAIN u
        <3>1. CASE i \in DOMAIN s
            BY <1>1, <1>2, <3>1 DEF Ids
        <3>2. CASE \E j \in DOMAIN t : i = Len(s) + j
            BY <1>1, <1>3, <3>2 DEF Ids
        <3>3. QED
            BY <1>4, <3>1, <3>2
    <2>4. QED
        BY <2>1, <2>2, <2>3 DEF Ids
<1>7. QED
    BY <1>6 DEF u

LEMMA IdsAppend ==
    ASSUME NEW s \in Seq(Event), NEW e \in Event
    PROVE  Ids(Append(s, e)) = Ids(s) \cup {e.id}
<1>1. /\ DOMAIN Append(s, e) = 1 .. Len(s) + 1 /\ DOMAIN s = 1 .. Len(s)
      /\ Len(s) \in Nat
      /\ Append(s, e)[Len(s) + 1] = e
      /\ \A i \in 1 .. Len(s) : Append(s, e)[i] = s[i]
    OBVIOUS
<1>2. QED
    BY <1>1 DEF Ids

\* The two parts of an ordered sequence are ordered and have no event in common.
LEMMA OrderedParts ==
    ASSUME NEW s \in Seq(Event), NEW t \in Seq(Event), Ordered(s \o t)
    PROVE  Ordered(s) /\ Ordered(t) /\ Ids(s) \cap Ids(t) = {}
<1> DEFINE u == s \o t
<1>1. /\ DOMAIN u = 1 .. Len(s) + Len(t)
      /\ DOMAIN s = 1 .. Len(s) /\ DOMAIN t = 1 .. Len(t)
      /\ Len(s) \in Nat /\ Len(t) \in Nat
    BY ConcatProperties, LenProperties
<1>2. \A i \in 1 .. Len(s) : u[i] = s[i]
    BY <1>1, ConcatProperties
<1>3. \A i \in 1 .. Len(t) : u[Len(s) + i] = t[i]
    BY <1>1, ConcatProperties
<1>4. \A i, j \in DOMAIN u : i < j => u[i].id < u[j].id
    BY DEF Ordered
<1>5. /\ \A i \in DOMAIN s : s[i].id \in Nat
      /\ \A i \in DOMAIN t : t[i].id \in Nat
    <2>1. /\ \A i \in DOMAIN s : s[i] \in Event
          /\ \A i \in DOMAIN t : t[i] \in Event
        OBVIOUS
    <2>2. QED
        BY <2>1 DEF Event
<1> HIDE DEF u
<1>6. Ordered(s)
    BY <1>1, <1>2, <1>4 DEF Ordered
<1>7. Ordered(t)
    <2> SUFFICES ASSUME NEW i \in DOMAIN t, NEW j \in DOMAIN t, i < j
                 PROVE  t[i].id < t[j].id
        BY DEF Ordered
    <2>1. Len(s) + i \in DOMAIN u /\ Len(s) + j \in DOMAIN u /\ Len(s) + i < Len(s) + j
        BY <1>1
    <2>2. u[Len(s) + i].id < u[Len(s) + j].id
        BY <1>4, <2>1
    <2>3. QED
        BY <1>1, <1>3, <2>2
<1>8. \A i \in DOMAIN s, j \in DOMAIN t : s[i].id # t[j].id
    <2> TAKE i \in DOMAIN s, j \in DOMAIN t
    <2>1. i \in DOMAIN u /\ Len(s) + j \in DOMAIN u /\ i < Len(s) + j
        BY <1>1
    <2>2. u[i].id < u[Len(s) + j].id
        BY <1>4, <2>1
    <2>3. s[i].id < t[j].id
        BY <1>1, <1>2, <1>3, <2>2
    <2>4. QED
        BY <1>5, <2>3
<1>9. QED
    BY <1>6, <1>7, <1>8 DEF Ids

\* The youngest events go ...
LEMMA DropLast ==
    ASSUME NEW s \in Seq(Event), NEW t \in Seq(Event), NEW g, NEW n \in Nat, NEW c \in Nat,
           AccountOf(s \o t, g, n, c)
    PROVE  AccountOf(s, g \cup Ids(t), n, c)
<1>1. Ids(s \o t) = Ids(s) \cup Ids(t)
    BY IdsConcat
<1>2. Ordered(s) /\ Ids(s) \cap Ids(t) = {}
    BY OrderedParts DEF AccountOf
<1>3. QED
    BY <1>1, <1>2 DEF AccountOf

\* ... or the oldest.
LEMMA DropFirst ==
    ASSUME NEW s \in Seq(Event), NEW t \in Seq(Event), NEW g, NEW n \in Nat, NEW c \in Nat,
           AccountOf(s \o t, g, n, c)
    PROVE  AccountOf(t, g \cup Ids(s), n, c)
<1>1. Ids(s \o t) = Ids(s) \cup Ids(t)
    BY IdsConcat
<1>2. Ordered(t) /\ Ids(s) \cap Ids(t) = {}
    BY OrderedParts DEF AccountOf
<1>3. QED
    BY <1>1, <1>2 DEF AccountOf

\* A new event is accepted.
LEMMA AcceptEvent ==
    ASSUME NEW l \in Seq(Event), NEW g, NEW n \in Nat, NEW c \in Nat, NEW e \in Event,
           e.id = n, AccountOf(l, g, n, c)
    PROVE  AccountOf(Append(l, e), g, n + 1, c)
<1>1. Ids(Append(l, e)) = Ids(l) \cup {n}
    BY IdsAppend
<1>2. Ordered(Append(l, e))
    <2>1. /\ DOMAIN Append(l, e) = 1 .. Len(l) + 1 /\ DOMAIN l = 1 .. Len(l)
          /\ Len(l) \in Nat
          /\ Append(l, e)[Len(l) + 1] = e
          /\ \A i \in 1 .. Len(l) : Append(l, e)[i] = l[i]
        OBVIOUS
    <2>2. \A i \in DOMAIN l : l[i].id < n
        <3>1. \A i \in DOMAIN l : l[i].id \in Ids(l)
            BY DEF Ids
        <3>2. QED
            BY <3>1 DEF AccountOf
    <2> DEFINE m == Append(l, e)
    <2> HIDE DEF m
    <2> SUFFICES ASSUME NEW i \in DOMAIN m, NEW j \in DOMAIN m, i < j
                 PROVE  m[i].id < m[j].id
        BY DEF Ordered, m
    <2>3. i \in DOMAIN l /\ m[i] = l[i]
        BY <2>1 DEF m
    <2>4. CASE j = Len(l) + 1
        BY <2>1, <2>2, <2>3, <2>4 DEF m
    <2>5. CASE j # Len(l) + 1
        <3>1. j \in DOMAIN l /\ m[j] = l[j]
            BY <2>1, <2>5 DEF m
        <3>2. QED
            BY <2>3, <3>1 DEF AccountOf, Ordered
    <2>6. QED
        BY <2>4, <2>5
<1>3. QED
    BY <1>1, <1>2 DEF AccountOf

LEMMA LogInit == Init => LogInv
<1> SUFFICES ASSUME Init PROVE LogInv
    OBVIOUS
<1>1. Log = <<>>
    BY DEF Init, Log
<1>2. AccountOf(<<>>, {}, 1, 1)
    BY IdsEmpty DEF AccountOf, Ordered
<1>3. QED
    BY <1>1, <1>2 DEF Init, LogInv

\* Concatenation as Log uses it.
LEMMA LogParts ==
    ASSUME NEW r \in Seq(Event), NEW b \in Seq(Event), NEW q \in Seq(Event)
    PROVE  /\ (r \o b) \o q = r \o (b \o q)
           /\ r \o <<>> = r /\ <<>> \o r = r
           /\ r \o b \in Seq(Event) /\ (r \o b) \o q \in Seq(Event)
BY ConcatAssociative, ConcatEmptySeq, ConcatProperties

LEMMA DropFirstOfLog ==
    ASSUME NEW x \in Seq(Event), NEW y \in Seq(Event), NEW b \in Seq(Event), NEW q \in Seq(Event),
           NEW g, NEW n \in Nat, NEW c \in Nat, AccountOf(((x \o y) \o b) \o q, g, n, c)
    PROVE  AccountOf((y \o b) \o q, g \cup Ids(x), n, c)
<1>1. (x \o y) \o b = x \o (y \o b)
    BY ConcatAssociative
<1>2. y \o b \in Seq(Event) /\ (y \o b) \o q \in Seq(Event)
    BY LogParts
<1>3. (x \o (y \o b)) \o q = x \o ((y \o b) \o q)
    <2>1. ASSUME NEW w \in Seq(Event) PROVE (x \o w) \o q = x \o (w \o q)
        BY ConcatAssociative
    <2>2. QED
        BY <1>2, <2>1, Zenon
<1>4. AccountOf(x \o ((y \o b) \o q), g, n, c)
    BY <1>1, <1>3
<1>5. QED
    BY <1>2, <1>4, DropFirst

\* The oldest rows are deleted.
LEMMA RotateOldest ==
    ASSUME NEW r \in Seq(Event), NEW b \in Seq(Event), NEW q \in Seq(Event), NEW k \in 1 .. Len(r),
           NEW g, NEW n \in Nat, NEW c \in Nat, AccountOf((r \o b) \o q, g, n, c)
    PROVE  AccountOf((SubSeq(r, k + 1, Len(r)) \o b) \o q, g \cup Ids(SubSeq(r, 1, k)), n, c)
<1>1. PICK x \in Seq(Event), y \in Seq(Event) :
        /\ x = SubSeq(r, 1, k) /\ y = SubSeq(r, k + 1, Len(r))
        /\ x \o y = r
    <2>1. k \in Nat /\ Len(r) \in Nat /\ k >= 1 /\ k <= Len(r)
        OBVIOUS
    <2>2. 1 \in 1 .. Len(r) + 1 /\ k \in 1 - 1 .. Len(r) /\ Len(r) \in k .. Len(r)
        BY <2>1
    <2>3. SubSeq(r, 1, k) \o SubSeq(r, k + 1, Len(r)) = SubSeq(r, 1, Len(r))
        BY <2>2, ConcatAdjacentSubSeq
    <2>4. SubSeq(r, 1, Len(r)) = r
        BY SubSeqFull
    <2>5. SubSeq(r, 1, k) \in Seq(Event) /\ SubSeq(r, k + 1, Len(r)) \in Seq(Event)
        OBVIOUS
    <2>6. QED
        BY <2>3, <2>4, <2>5
<1>2. AccountOf((y \o b) \o q, g \cup Ids(x), n, c)
    BY <1>1, DropFirstOfLog
<1>3. QED
    BY <1>1, <1>2

LEMMA LogStep == Control /\ DataInv /\ LogInv /\ [Next]_vars => LogInv'
<1> SUFFICES ASSUME Control, DataInv, LogInv, [Next]_vars PROVE LogInv'
    OBVIOUS
<1> USE DEF disk, memory, locks, request, ghosts, bounds
<1>0. /\ rows \in Seq(Event) /\ batch \in Seq(Event) /\ queue \in Seq(Event)
      /\ <<>> \in Seq(Event)
      /\ nextId \in Nat /\ clearedBelow \in Nat
    BY EmptySeq DEF DataInv, DataType
<1>l. Log = (rows \o batch) \o queue /\ Log' = (rows' \o batch') \o queue'
    BY DEF Log
<1>a. AccountOf((rows \o batch) \o queue, gone, nextId, clearedBelow)
    BY <1>l DEF LogInv
<1>s. ASSUME (rows' \o batch') \o queue' = (rows \o batch) \o queue,
             UNCHANGED <<gone, nextId, clearedBelow>>
      PROVE  LogInv'
    BY <1>s, <1>a, <1>l DEF LogInv
<1>1. CASE UNCHANGED vars
    BY <1>1, <1>s DEF vars
<1>2. CASE \/ Restart \/ ChangeKey \/ Stop \/ WorkerExit \/ AddAlias
           \/ ToggleStart \/ ToggleStop \/ StartLogging \/ ClearFail
           \/ SetPseudonymization \/ ConfigurePrivacy \/ ConfigurePrivacyFail
           \/ PersistPrivacy \/ PersistPrivacyFail
    <2>1. UNCHANGED <<rows, batch, queue, gone, nextId, clearedBelow>>
        BY <1>2 DEF Restart, ChangeKey, Stop, WorkerExit, AddAlias, ToggleStart, ToggleStop,
              StartLogging, ClearFail, SetPseudonymization, ConfigurePrivacy, ConfigurePrivacyFail,
              PersistPrivacy, PersistPrivacyFail
    <2>2. QED
        BY <2>1, <1>s
<1>3. CASE Crash \/ ProcessExit
    <2>1. /\ rows' = rows /\ batch' = <<>> /\ queue' = <<>>
          /\ gone' = gone \cup Ids(batch \o queue)
          /\ UNCHANGED <<nextId, clearedBelow>>
        BY <1>3 DEF Crash, ProcessExit
    <2>2. (rows \o batch) \o queue = rows \o (batch \o queue) /\ batch \o queue \in Seq(Event)
        BY <1>0, LogParts
    <2>3. AccountOf(rows, gone \cup Ids(batch \o queue), nextId, clearedBelow)
        BY <1>0, <1>a, <2>2, DropLast
    <2>4. Log' = rows
        BY <1>0, <1>l, <2>1, LogParts
    <2>5. QED
        BY <2>1, <2>3, <2>4 DEF LogInv
<1>4. CASE Run
    <2> DEFINE e == [id |-> nextId, dom |-> DomainRepr(privacy), cli |-> ClientRepr(privacy)]
    <2>1. e \in Event /\ e.id = nextId
        BY <1>0, ReprType DEF Event, DataInv
    <2>2. /\ queue' = Append(queue, e)
          /\ nextId' = nextId + 1
          /\ UNCHANGED <<rows, batch, gone, clearedBelow>>
        BY <1>4 DEF Run
    <2> HIDE DEF e
    <2>3. rows \o batch \in Seq(Event) /\ (rows \o batch) \o queue \in Seq(Event)
        BY <1>0, LogParts
    <2>4. ASSUME NEW l \in Seq(Event), NEW q \in Seq(Event)
          PROVE  l \o Append(q, e) = Append(l \o q, e)
        BY <2>1
    <2>5. Log' = Append((rows \o batch) \o queue, e)
        BY <1>0, <1>l, <2>2, <2>3, <2>4
    <2>6. AccountOf(Append((rows \o batch) \o queue, e), gone, nextId + 1, clearedBelow)
        BY <1>0, <1>a, <2>1, <2>3, AcceptEvent
    <2>7. QED
        BY <2>2, <2>5, <2>6 DEF LogInv
<1>5. CASE Rotate
    <2>1. PICK n \in 1 .. Len(rows) : /\ gone' = gone \cup Ids(SubSeq(rows, 1, n))
                                      /\ rows' = SubSeq(rows, n + 1, Len(rows))
        BY <1>5 DEF Rotate
    <2>2. UNCHANGED <<batch, queue, nextId, clearedBelow>>
        BY <1>5 DEF Rotate
    <2>3. AccountOf((SubSeq(rows, n + 1, Len(rows)) \o batch) \o queue,
                    gone \cup Ids(SubSeq(rows, 1, n)), nextId, clearedBelow)
        BY <1>0, <1>a, RotateOldest
    <2>4. Log' = (SubSeq(rows, n + 1, Len(rows)) \o batch) \o queue
        BY <1>l, <2>1, <2>2
    <2>5. QED
        BY <2>1, <2>2, <2>3, <2>4 DEF LogInv
<1>6. ASSUME NEW p \in {"worker", "admin", "shutdown"},
             InsertTake(p) \/ InsertNothing(p) \/ InsertCommit(p) \/ InsertFail(p)
      PROVE  LogInv'
    <2>1. UNCHANGED <<gone, nextId, clearedBelow>>
        BY <1>6 DEF InsertTake, InsertNothing, InsertCommit, InsertFail
    <2>2. CASE InsertTake(p)
        <3>1. batch = <<>> /\ rows' = rows /\ batch' = queue /\ queue' = <<>>
            BY <2>2 DEF InsertTake, Control, LockInv
        <3>2. rows \o <<>> = rows /\ (rows \o queue) \o <<>> = rows \o queue
            BY <1>0, LogParts
        <3>3. QED
            BY <1>s, <2>1, <3>1, <3>2
    <2>3. CASE InsertNothing(p)
        <3>1. UNCHANGED <<rows, batch, queue>>
            BY <2>3 DEF InsertNothing
        <3>2. QED
            BY <1>s, <2>1, <3>1
    <2>4. CASE InsertCommit(p)
        <3>1. rows' = rows \o batch /\ batch' = <<>> /\ queue' = queue
            BY <2>4 DEF InsertCommit
        <3>2. (rows \o batch) \o <<>> = rows \o batch
            BY <1>0, LogParts
        <3>3. QED
            BY <1>s, <2>1, <3>1, <3>2
    <2>5. CASE InsertFail(p)
        <3>1. rows' = rows /\ batch' = <<>> /\ queue' = batch \o queue
            BY <2>5 DEF InsertFail
        <3>2. rows \o <<>> = rows /\ (rows \o batch) \o queue = rows \o (batch \o queue)
            BY <1>0, LogParts
        <3>3. QED
            BY <1>s, <2>1, <3>1, <3>2
    <2>6. QED
        BY <1>6, <2>2, <2>3, <2>4, <2>5
<1>7. ASSUME NEW p \in {"admin", "shutdown"}, StopLogging(p) \/ DiscardQueued(p) PROVE LogInv'
    <2>1. CASE StopLogging(p)
        <3>1. UNCHANGED <<rows, batch, queue, gone, nextId, clearedBelow>>
            BY <2>1 DEF StopLogging
        <3>2. QED
            BY <1>s, <3>1
    <2>2. CASE DiscardQueued(p)
        <3>1. /\ queue' = <<>> /\ gone' = gone \cup Ids(queue)
              /\ UNCHANGED <<rows, batch, nextId, clearedBelow>>
            BY <2>2 DEF DiscardQueued
        <3>2. rows \o batch \in Seq(Event)
            BY <1>0, LogParts
        <3>3. AccountOf(rows \o batch, gone \cup Ids(queue), nextId, clearedBelow)
            BY <1>0, <1>a, <3>2, DropLast
        <3>4. Log' = rows \o batch
            BY <1>0, <1>l, <3>1, <3>2, LogParts
        <3>5. QED
            BY <3>1, <3>3, <3>4 DEF LogInv
    <2>3. QED
        BY <1>7, <2>1, <2>2
<1>8. ASSUME NEW mode \in Modes, PrivacyUpdate(mode) PROVE LogInv'
    <2>1. UNCHANGED <<rows, batch, queue, gone, nextId, clearedBelow>>
        BY <1>8 DEF PrivacyUpdate
    <2>2. QED
        BY <1>s, <2>1
<1>9. CASE Clear
    <2>1. /\ queue' = <<>> /\ gone' = gone \cup Ids(queue)
          /\ UNCHANGED <<rows, batch, nextId, clearedBelow>>
        BY <1>9 DEF Clear
    <2>2. rows \o batch \in Seq(Event)
        BY <1>0, LogParts
    <2>3. AccountOf(rows \o batch, gone \cup Ids(queue), nextId, clearedBelow)
        BY <1>0, <1>a, <2>2, DropLast
    <2>4. Log' = rows \o batch
        BY <1>0, <1>l, <2>1, <2>2, LogParts
    <2>5. QED
        BY <2>1, <2>3, <2>4 DEF LogInv
<1>10. CASE ClearCommit
    <2>1. batch = <<>> /\ queue = <<>>
        BY <1>10 DEF ClearCommit, Control, LockInv, StopInv
    <2>2. /\ rows' = <<>> /\ gone' = gone \cup Ids(rows) /\ clearedBelow' = nextId
          /\ UNCHANGED <<batch, queue, nextId>>
        BY <1>10 DEF ClearCommit
    <2>3. (rows \o batch) \o queue = rows \o <<>>
        BY <1>0, <2>1, LogParts
    <2>4. AccountOf(<<>>, gone \cup Ids(rows), nextId, clearedBelow)
        BY <1>0, <1>a, <2>3, DropFirst
    <2>5. AccountOf(<<>>, gone \cup Ids(rows), nextId, nextId)
        BY <1>0, <2>4, IdsEmpty DEF AccountOf
    <2>6. Log' = <<>>
        BY <1>0, <1>l, <2>1, <2>2, LogParts
    <2>7. QED
        BY <2>2, <2>5, <2>6 DEF LogInv
<1>11. QED
    BY <1>1, <1>2, <1>3, <1>4, <1>5, <1>6, <1>7, <1>8, <1>9, <1>10
       DEF Next, Worker, AdminStep, ShutdownStep

\* Whoever flushes, however often a flush fails and is repeated, and whenever the
\* log is stopped, cleared or rotated or the process ends: every event is stored at
\* most once and in order, and what is missing was discarded on purpose or lost with
\* the process.
THEOREM EventsAccounted == Spec => []Accounted
<1>1. LogInv => Accounted
    BY DEF LogInv, AccountOf, Ordered, Accounted
<1>2. Control => ControlType
    BY DEF Control
<1>3. QED
    BY <1>1, <1>2, ControlInit, ControlStep, DataInit, DataStep, LogInit, LogStep, PTL DEF Spec

\* A successful Clear leaves nothing that a later flush could write.
THEOREM ClearIsBarrier == Spec => []ClearBarrier
<1>1. LogInv => ClearBarrier
    BY DEF LogInv, AccountOf, ClearBarrier
<1>2. Control => ControlType
    BY DEF Control
<1>3. QED
    BY <1>1, <1>2, ControlInit, ControlStep, DataInit, DataStep, LogInit, LogStep, PTL DEF Spec

-----------------------------------------------------------------------------
(* The dashboard.                                                          *)

DashType ==
    /\ hour \in HistoryHours .. LastHour
    /\ pending \in [Hours -> Nat] /\ logged \in [Hours -> Int]
    /\ dashboardMu \in {"free", "rotate", "reader", "job"}
    /\ refreshed \in 0 .. hour /\ tornAt \in 0 .. hour
    /\ DOMAIN stats \subseteq 0 .. hour - 1

\* A task that is not idle began in this hour or earlier, and keeps dashboardMu
\* between its reading and its writing.  The job always writes.
TaskInv ==
    /\ task = [p \in Tasks |-> [at |-> task[p].at, now |-> task[p].now, write |-> task[p].write,
                                points |-> task[p].points]]
    /\ \A p \in Tasks :
         /\ task[p].at # "idle" => task[p].now \in HistoryHours .. hour
         /\ dashboardMu = p => task[p].at = "store"
    /\ task["job"].at # "idle" => task["job"].write = TRUE

\* Only the last hour has events that wait, and not any more when the job of this
\* hour has begun.
PendingInv ==
    /\ \A h \in Hours : h < hour - 1 => pending[h] = 0
    /\ refreshed = hour => Flushed
    /\ task["job"].at # "idle" /\ task["job"].now = hour => Flushed

\* What a task of this hour is about to write: all hours, or the last one where
\* the others are in the table.  Only a load that came before the job may have
\* counted too few events of the last hour.
PointsInv ==
    \A p \in Tasks : dashboardMu = p /\ task[p].now = hour =>
        /\ \/ DOMAIN task[p].points = Window(hour)
           \/ p = "job" /\ DOMAIN task[p].points = {hour - 1} /\ CacheComplete(hour)
        /\ \A h \in DOMAIN task[p].points :
             h < hour - 1 \/ p = "job" \/ refreshed = hour => task[p].points[h] = logged[h]

\* A table that has the last hour was written in this one.
StatsInv ==
    hour - 1 \in DOMAIN stats /\ tornAt < hour /\ dashboardMu # "rotate" =>
        \A h \in DOMAIN stats : h < hour - 1 \/ refreshed = hour => stats[h] = logged[h]

DashInv == DashType /\ TaskInv /\ PendingInv /\ PointsInv /\ StatsInv

\* The hours of the log, and of a window.
LEMMA WindowHoursIn ==
    ASSUME NEW n \in HistoryHours .. LastHour
    PROVE  /\ Window(n) \subseteq 0 .. n - 1
           /\ n - 1 \in Window(n)
           /\ n \in Hours
           /\ 0 .. n - 1 \subseteq Hours
BY DashboardAssumption DEF DashboardAssumption, Window, Hours

LEMMA DashInit == DashboardInit => DashInv
<1> SUFFICES ASSUME DashboardInit PROVE DashInv
    OBVIOUS
<1> USE DEF DashboardInit
<1>1. HistoryHours \in Nat \ {0} /\ LastHour \in Nat /\ HistoryHours <= LastHour
    BY DashboardAssumption DEF DashboardAssumption
<1>2. DashType
    <2>1. DOMAIN stats = {}
        OBVIOUS
    <2>2. QED
        BY <1>1, <2>1 DEF DashType, None
<1>3. TaskInv
    BY DEF TaskInv, NoTask, Tasks
<1>4. PendingInv
    BY <1>1 DEF PendingInv, None, NoTask, Tasks
<1>5. PointsInv
    BY DEF PointsInv, Tasks
<1>6. StatsInv
    BY DEF StatsInv
<1>7. QED
    BY <1>2, <1>3, <1>4, <1>5, <1>6 DEF DashInv

\* The clock.
LEMMA DashTick == DashInv /\ Tick => DashInv'
<1> SUFFICES ASSUME DashInv, Tick PROVE DashInv'
    OBVIOUS
<1> USE DEF DashInv, Tick, log, history
<1>1. HistoryHours \in Nat \ {0} /\ LastHour \in Nat
    BY DashboardAssumption DEF DashboardAssumption
<1>2. hour \in Nat /\ hour' = hour + 1 /\ hour' \in HistoryHours .. LastHour
    BY <1>1 DEF DashType
<1>3. UNCHANGED <<logging, pending, logged, stats, dashboardMu, task, refreshed, tornAt>>
    OBVIOUS
<1>4. DashType'
    BY <1>1, <1>2, <1>3 DEF DashType
<1>5. TaskInv'
    <2>1. \A p \in Tasks : task[p].at # "idle" => task[p].now \in HistoryHours .. hour'
        BY <1>1, <1>2 DEF TaskInv
    <2>2. QED
        BY <1>3, <2>1 DEF TaskInv
<1>6. PendingInv'
    <2>1. \A h \in Hours : h < hour' - 1 => pending'[h] = 0
        BY <1>2, <1>3 DEF Flushed, Hours
    <2>2. refreshed' # hour'
        BY <1>2, <1>3 DEF DashType
    <2>3. task["job"].at # "idle" => task["job"].now # hour'
        BY <1>1, <1>2 DEF TaskInv, Tasks
    <2>4. QED
        BY <1>3, <2>1, <2>2, <2>3 DEF PendingInv
<1>7. PointsInv'
    <2>1. \A p \in Tasks : dashboardMu' = p => task'[p].now # hour'
        BY <1>1, <1>2, <1>3 DEF TaskInv
    <2>2. QED
        BY <2>1 DEF PointsInv
<1>8. StatsInv'
    <2>1. hour' - 1 \notin DOMAIN stats'
        BY <1>2, <1>3 DEF DashType
    <2>2. QED
        BY <2>1 DEF StatsInv
<1>9. QED
    BY <1>4, <1>5, <1>6, <1>7, <1>8

\* A task begins.
LEMMA DashBegin ==
    ASSUME DashInv, NEW p \in Tasks, NEW w, Begin(p, w),
           p = "job" => Flushed /\ w = TRUE
    PROVE  DashInv'
<1> USE DEF DashInv
<1>1. /\ UNCHANGED <<hour, logging, pending, logged, stats, dashboardMu, refreshed, tornAt>>
      /\ task' = [task EXCEPT ![p] = [at |-> "lock", now |-> hour, write |-> w, points |-> <<>>]]
      /\ task[p].at = "idle"
    BY DEF Begin, log, history
<1>2. \A x \in Tasks : x # p => task'[x] = task[x]
    BY <1>1 DEF TaskInv
<1>3. task'[p] = [at |-> "lock", now |-> hour, write |-> w, points |-> <<>>]
    BY <1>1 DEF TaskInv
<1>4. dashboardMu # p
    BY <1>1 DEF TaskInv
<1>5. DashType'
    BY <1>1 DEF DashType
<1>6. TaskInv'
    <2>1. task' = [x \in Tasks |-> [at |-> task'[x].at, now |-> task'[x].now,
                                    write |-> task'[x].write, points |-> task'[x].points]]
        BY <1>1 DEF TaskInv
    <2>2. hour \in HistoryHours .. hour
        BY DashboardAssumption DEF DashType, DashboardAssumption
    <2>3. \A x \in Tasks : task'[x].at # "idle" => task'[x].now \in HistoryHours .. hour
        <3> TAKE x \in Tasks
        <3>1. CASE x = p
            BY <1>3, <2>2, <3>1
        <3>2. CASE x # p
            BY <1>2, <3>2 DEF TaskInv
        <3>3. QED
            BY <3>1, <3>2
    <2>4. \A x \in Tasks : dashboardMu = x => task'[x].at = "store"
        BY <1>2, <1>4 DEF TaskInv
    <2>5. task'["job"].at # "idle" => task'["job"].write = TRUE
        BY <1>2, <1>3 DEF TaskInv, Tasks
    <2>6. QED
        BY <1>1, <2>1, <2>3, <2>4, <2>5 DEF TaskInv
<1>7. PendingInv'
    <2>1. task'["job"].at # "idle" /\ task'["job"].now = hour => Flushed
        BY <1>2, <1>3 DEF PendingInv, Tasks
    <2>2. QED
        BY <1>1, <2>1 DEF PendingInv, Flushed
<1>8. PointsInv'
    BY <1>1, <1>2, <1>4 DEF PointsInv, CacheComplete
<1>9. StatsInv'
    BY <1>1 DEF StatsInv
<1>10. QED
    BY <1>5, <1>6, <1>7, <1>8, <1>9

\* A task is over, or all are.
LEMMA DashEnd ==
    ASSUME DashInv, NEW t \in [Tasks -> BOOLEAN],
           task' = [x \in Tasks |-> IF t[x] THEN NoTask ELSE task[x]]
    PROVE  /\ task' = [x \in Tasks |-> [at |-> task'[x].at, now |-> task'[x].now,
                                        write |-> task'[x].write, points |-> task'[x].points]]
           /\ \A x \in Tasks : task'[x].at # "idle" =>
                /\ ~t[x] /\ task'[x] = task[x]
                /\ task'[x].now \in HistoryHours .. hour
           /\ task'["job"].at # "idle" => task'["job"].write = TRUE
<1>1. \A x \in Tasks : task'[x] = IF t[x] THEN NoTask ELSE task[x]
    OBVIOUS
<1>2. NoTask.at = "idle" /\ NoTask = [at |-> NoTask.at, now |-> NoTask.now, write |-> NoTask.write,
                                      points |-> NoTask.points]
    BY DEF NoTask
<1>3. \A x \in Tasks : task[x] = [at |-> task[x].at, now |-> task[x].now, write |-> task[x].write,
                                  points |-> task[x].points]
    BY DEF DashInv, TaskInv
<1>4. \A x \in Tasks : task'[x] = [at |-> task'[x].at, now |-> task'[x].now,
                                   write |-> task'[x].write, points |-> task'[x].points]
    BY <1>1, <1>2, <1>3
<1>5. QED
    BY <1>1, <1>2, <1>4 DEF DashInv, TaskInv, Tasks

\* dashboardMu is taken and the tables are read.
LEMMA DashRead == ASSUME DashInv, NEW p \in Tasks, ReadTables(p) PROVE DashInv'
<1> USE DEF DashInv
<1> DEFINE n == task[p].now
           hours == HoursToQuery(p, n)
<1>1. /\ task[p].at = "lock" /\ dashboardMu = "free"
      /\ UNCHANGED <<hour, logging, pending, logged, stats, tornAt>>
    BY DEF ReadTables, log
<1>2. n \in HistoryHours .. hour
    BY <1>1 DEF TaskInv
<1>3. /\ p = "reader" \/ p = "job"
      /\ ~CacheComplete(n) => hours = Window(n)
      /\ CacheComplete(n) => hours = IF p = "job" THEN {n - 1} ELSE {}
    BY DEF HoursToQuery, Tasks
<1>4. CASE hours # {} /\ task[p].write
    <2>1. /\ dashboardMu' = p /\ refreshed' = refreshed
          /\ task' = [task EXCEPT ![p].at = "store", ![p].points = QueryBuckets(hours)]
        BY <1>4 DEF ReadTables
    <2>2. task'[p] = [at |-> "store", now |-> n, write |-> task[p].write,
                      points |-> QueryBuckets(hours)]
        <3>1. task[p] = [at |-> task[p].at, now |-> n, write |-> task[p].write,
                         points |-> task[p].points]
            BY DEF TaskInv
        <3>2. task'[p] = [task[p] EXCEPT !.at = "store", !.points = QueryBuckets(hours)]
            BY <2>1 DEF TaskInv
        <3>3. QED
            BY <3>1, <3>2
    <2>3. \A x \in Tasks : x # p => task'[x] = task[x]
        BY <2>1 DEF TaskInv
    <2>4. DashType'
        BY <1>1, <2>1 DEF DashType, Tasks
    <2>5. TaskInv'
        <3>1. DOMAIN task' = Tasks /\ task' = [x \in Tasks |-> task'[x]]
            BY <2>1 DEF TaskInv
        <3>2. \A x \in Tasks : task'[x] = [at |-> task'[x].at, now |-> task'[x].now,
                                           write |-> task'[x].write, points |-> task'[x].points]
            BY <2>2, <2>3 DEF TaskInv
        <3>3. task' = [x \in Tasks |-> [at |-> task'[x].at, now |-> task'[x].now,
                                    write |-> task'[x].write, points |-> task'[x].points]]
            BY <3>1, <3>2
        <3>4. \A x \in Tasks : task'[x].at # "idle" => task'[x].now \in HistoryHours .. hour
            BY <1>1, <1>2, <2>2, <2>3 DEF TaskInv
        <3>5. \A x \in Tasks : dashboardMu' = x => task'[x].at = "store"
            BY <2>1, <2>2
        <3>6. task'["job"].at # "idle" => task'["job"].write = TRUE
            BY <1>1, <2>2, <2>3 DEF TaskInv, Tasks
        <3>7. QED
            BY <1>1, <3>3, <3>4, <3>5, <3>6 DEF TaskInv
    <2>6. PendingInv'
        <3>1. task'["job"].at # "idle" /\ task'["job"].now = hour => Flushed
            BY <1>1, <2>2, <2>3 DEF PendingInv, Tasks
        <3>2. QED
            BY <1>1, <2>1, <3>1 DEF PendingInv, Flushed
    <2>7. PointsInv'
        <3>1. QueryBuckets(hours) = [h \in hours |-> logged[h]]
            BY DEF QueryBuckets
        <3>2. task'[p].points = [h \in hours |-> logged[h]] /\ task'[p].now = n
            BY <2>2, <3>1
        <3>3. hours = Window(n) \/ (p = "job" /\ hours = {n - 1} /\ CacheComplete(n))
            BY <1>3, <1>4
        <3>4. \A x \in Tasks : dashboardMu' = x => x = p
            BY <2>1
        <3> HIDE DEF hours, n
        <3>5. /\ DOMAIN task'[p].points = hours
              /\ \A h \in hours : task'[p].points[h] = logged[h]
            BY <3>2
        <3>6. QED
            BY <1>1, <3>2, <3>3, <3>4, <3>5 DEF PointsInv, CacheComplete
    <2>8. StatsInv'
        BY <1>1, <2>1 DEF StatsInv, Tasks
    <2>9. QED
        BY <2>4, <2>5, <2>6, <2>7, <2>8
<1>5. CASE ~(hours # {} /\ task[p].write)
    <2>1. p = "reader"
        <3>1. p = "job" => task[p].write = TRUE
            BY <1>1 DEF TaskInv
        <3>2. Window(n) # {}
            <4>1. n \in HistoryHours .. LastHour
                BY <1>2, DashboardAssumption DEF DashType, DashboardAssumption
            <4>2. QED
                BY <4>1, WindowHoursIn
        <3>3. QED
            BY <1>3, <1>5, <3>1, <3>2
    <2>2. /\ task' = [task EXCEPT ![p] = NoTask]
          /\ UNCHANGED <<refreshed, dashboardMu>>
        BY <1>5, <2>1 DEF ReadTables
    <2>3. PICK t \in [Tasks -> BOOLEAN] : task' = [x \in Tasks |-> IF t[x] THEN NoTask ELSE task[x]]
        <3>1. task' = [x \in Tasks |-> IF [y \in Tasks |-> y = p][x] THEN NoTask ELSE task[x]]
            BY <2>2 DEF TaskInv
        <3>2. [y \in Tasks |-> y = p] \in [Tasks -> BOOLEAN]
            OBVIOUS
        <3>3. QED
            BY <3>1, <3>2
    <2>4. /\ task' = [x \in Tasks |-> [at |-> task'[x].at, now |-> task'[x].now,
                                        write |-> task'[x].write, points |-> task'[x].points]]
          /\ \A x \in Tasks : task'[x].at # "idle" =>
                /\ task'[x] = task[x]
                /\ task'[x].now \in HistoryHours .. hour
          /\ task'["job"].at # "idle" => task'["job"].write = TRUE
        BY <2>3, DashEnd
    <2>5. QED
        BY <1>1, <2>2, <2>4 DEF DashType, TaskInv, PendingInv, PointsInv, StatsInv, Flushed, Tasks
<1>6. QED
    BY <1>4, <1>5

\* The table is written.
LEMMA DashStore == ASSUME DashInv, NEW p \in Tasks, StoreStats(p) PROVE DashInv'
<1> USE DEF DashInv
<1> DEFINE n == task[p].now
           w == task[p].points
<1>1. /\ dashboardMu = p /\ dashboardMu' = "free"
      /\ stats' = CacheStatements(w, n)
      /\ refreshed' = IF p = "job" THEN n ELSE refreshed
      /\ task' = [task EXCEPT ![p] = NoTask]
      /\ UNCHANGED <<hour, logging, pending, logged, tornAt>>
    BY DEF StoreStats, log
<1>2. n \in HistoryHours .. hour /\ task[p].at = "store"
    BY <1>1 DEF TaskInv
<1>3. /\ DOMAIN stats' = Window(n) \cap (DOMAIN stats \cup DOMAIN w)
      /\ \A h \in DOMAIN stats' : stats'[h] = IF h \in DOMAIN w THEN w[h] ELSE stats[h]
    BY <1>1 DEF CacheStatements
<1>4. PICK t \in [Tasks -> BOOLEAN] : /\ task' = [x \in Tasks |-> IF t[x] THEN NoTask ELSE task[x]]
                                      /\ t[p]
    <2>1. task' = [x \in Tasks |-> IF [y \in Tasks |-> y = p][x] THEN NoTask ELSE task[x]]
        BY <1>1 DEF TaskInv
    <2>2. [y \in Tasks |-> y = p] \in [Tasks -> BOOLEAN] /\ [y \in Tasks |-> y = p][p]
        OBVIOUS
    <2>3. QED
        BY <2>1, <2>2
<1>5. /\ task' = [x \in Tasks |-> [at |-> task'[x].at, now |-> task'[x].now,
                                    write |-> task'[x].write, points |-> task'[x].points]]
      /\ \A x \in Tasks : task'[x].at # "idle" =>
            /\ ~t[x] /\ task'[x] = task[x]
            /\ task'[x].now \in HistoryHours .. hour
      /\ task'["job"].at # "idle" => task'["job"].write = TRUE
    BY <1>4, DashEnd
<1>b. HistoryHours \in Nat /\ LastHour \in Nat /\ hour \in HistoryHours .. LastHour
    BY DashboardAssumption DEF DashType, DashboardAssumption
<1>n. n \in HistoryHours .. LastHour /\ n <= hour
    BY <1>2, <1>b
<1>6. DashType'
    <2>1. Window(n) \subseteq 0 .. hour - 1
        BY <1>n, <1>b, WindowHoursIn
    <2>2. refreshed' \in 0 .. hour
        BY <1>1, <1>n, <1>b DEF DashType
    <2>3. QED
        BY <1>1, <1>3, <2>1, <2>2 DEF DashType
<1>7. TaskInv'
    BY <1>1, <1>5 DEF TaskInv, Tasks
<1>8. PendingInv'
    <2>1. task'["job"].at # "idle" /\ task'["job"].now = hour => Flushed
        BY <1>5 DEF PendingInv, Tasks
    <2>2. refreshed' = hour => Flushed
        BY <1>1, <1>2 DEF PendingInv, Tasks
    <2>3. QED
        BY <1>1, <2>1, <2>2 DEF PendingInv, Flushed
<1>9. PointsInv'
    BY <1>1 DEF PointsInv, Tasks
<1>10. StatsInv'
    <2> SUFFICES ASSUME hour - 1 \in DOMAIN stats', tornAt < hour, NEW h \in DOMAIN stats',
                        h < hour - 1 \/ refreshed' = hour
                 PROVE  stats'[h] = logged[h]
        BY <1>1 DEF StatsInv
    <2> HIDE DEF n, w
    <2>1. n = hour
        <3>1. hour - 1 \in Window(n)
            BY <1>3
        <3>2. QED
            BY <1>n, <1>b, <3>1, WindowHoursIn
    <2>2. /\ \/ DOMAIN w = Window(hour)
             \/ p = "job" /\ DOMAIN w = {hour - 1} /\ CacheComplete(hour)
          /\ \A x \in DOMAIN w : x < hour - 1 \/ p = "job" \/ refreshed = hour => w[x] = logged[x]
        BY <1>1, <2>1 DEF PointsInv, n, w
    <2>3. p = "job" \/ refreshed' = refreshed
        BY <1>1
    <2>4. CASE h \in DOMAIN w
        BY <1>3, <2>2, <2>3, <2>4
    <2>5. CASE h \notin DOMAIN w
        <3>1. h \in Window(hour) /\ stats'[h] = stats[h] /\ h \in DOMAIN stats
            BY <1>3, <2>1, <2>5
        <3>2. p = "job" /\ DOMAIN w = {hour - 1} /\ CacheComplete(hour)
            BY <2>2, <2>5, <3>1
        <3>3. hour - 1 \in DOMAIN stats
            BY <1>b, <3>2, WindowHoursIn DEF CacheComplete
        <3>4. h \in 0 .. hour - 1 /\ h # hour - 1
            BY <1>b, <2>5, <3>1, <3>2, WindowHoursIn
        <3>5. h < hour - 1
            BY <1>b, <3>4
        <3>6. stats[h] = logged[h]
            BY <1>1, <3>1, <3>3, <3>5 DEF StatsInv, Tasks
        <3>7. QED
            BY <3>1, <3>6
    <2>6. QED
        BY <2>4, <2>5
<1>11. QED
    BY <1>6, <1>7, <1>8, <1>9, <1>10

\* A step that leaves tasks, clock and refresh alone, and may write what is queued:
\* hours before the last one keep their rows, and the last one too once it is flushed.
LEMMA DashLog ==
    ASSUME DashInv,
           UNCHANGED <<hour, stats, dashboardMu, task, refreshed, tornAt>>,
           pending' \in [Hours -> Nat], logged' \in [Hours -> Int],
           \A h \in Hours : h < hour => pending'[h] = 0 \/ pending'[h] = pending[h],
           \A h \in Hours : h < hour /\ pending[h] = 0 => logged'[h] = logged[h]
    PROVE  DashInv'
<1> USE DEF DashInv
<1>b. HistoryHours \in Nat /\ LastHour \in Nat /\ hour \in HistoryHours .. LastHour
    BY DashboardAssumption DEF DashType, DashboardAssumption
<1>1. Flushed => Flushed'
    BY DEF Flushed
<1>2. \A h \in 0 .. hour - 1 : h < hour - 1 \/ Flushed => logged'[h] = logged[h]
    <2> TAKE h \in 0 .. hour - 1
    <2>1. h \in Hours /\ h < hour
        BY <1>b, WindowHoursIn
    <2>2. QED
        BY <2>1 DEF PendingInv, Flushed
<1>3. DashType'
    BY DEF DashType
<1>4. TaskInv'
    BY DEF TaskInv
<1>5. PendingInv'
    <2>1. \A h \in Hours : h < hour - 1 => pending'[h] = 0
        BY <1>b DEF PendingInv, Hours
    <2>2. QED
        BY <1>1, <2>1 DEF PendingInv
<1>6. PointsInv'
    <2> SUFFICES ASSUME NEW p \in Tasks, dashboardMu = p, task[p].now = hour
                 PROVE  /\ \/ DOMAIN task[p].points = Window(hour)
                           \/ p = "job" /\ DOMAIN task[p].points = {hour - 1} /\ CacheComplete(hour)
                        /\ \A h \in DOMAIN task[p].points :
                             h < hour - 1 \/ p = "job" \/ refreshed = hour
                               => task[p].points[h] = logged'[h]
        BY DEF PointsInv, CacheComplete
    <2>1. DOMAIN task[p].points \subseteq 0 .. hour - 1
        BY <1>b, WindowHoursIn DEF PointsInv
    <2>2. p = "job" => Flushed
        BY DEF TaskInv, PendingInv
    <2>3. refreshed = hour => Flushed
        BY DEF PendingInv
    <2>4. \A h \in DOMAIN task[p].points :
            h < hour - 1 \/ p = "job" \/ refreshed = hour =>
              task[p].points[h] = logged[h] /\ logged'[h] = logged[h]
        BY <1>2, <2>1, <2>2, <2>3 DEF PointsInv
    <2>5. QED
        BY <2>4 DEF PointsInv
<1>7. StatsInv'
    <2>1. refreshed = hour => Flushed
        BY DEF PendingInv
    <2>2. DOMAIN stats \subseteq 0 .. hour - 1
        BY DEF DashType
    <2>3. QED
        BY <1>2, <2>1, <2>2 DEF StatsInv
<1>8. QED
    BY <1>3, <1>4, <1>5, <1>6, <1>7

\* A step that gives dashboardMu up, or takes it for rotate: the table is as it was,
\* or empty, or known to be torn.
LEMMA DashTorn ==
    ASSUME DashInv,
           UNCHANGED <<hour, refreshed>>,
           NEW t \in [Tasks -> BOOLEAN],
           task' = [x \in Tasks |-> IF t[x] THEN NoTask ELSE task[x]],
           dashboardMu' \in {"free", "rotate"},
           pending' \in [Hours -> Nat], logged' \in [Hours -> Int],
           \A h \in Hours : h < hour => pending'[h] = 0 \/ pending'[h] = pending[h],
           tornAt' \in {tornAt, hour},
           \/ DOMAIN stats' = {}
           \/ stats' = stats /\ dashboardMu' = "rotate"
           \/ stats' = stats /\ tornAt' = hour
           \/ UNCHANGED <<stats, logged>> /\ dashboardMu # "rotate" /\ tornAt' = tornAt
    PROVE  DashInv'
<1> USE DEF DashInv
<1>b. HistoryHours \in Nat /\ LastHour \in Nat /\ hour \in HistoryHours .. LastHour
    BY DashboardAssumption DEF DashType, DashboardAssumption
<1>1. Flushed => Flushed'
    BY DEF Flushed
<1>2. /\ task' = [x \in Tasks |-> [at |-> task'[x].at, now |-> task'[x].now,
                                    write |-> task'[x].write, points |-> task'[x].points]]
      /\ \A x \in Tasks : task'[x].at # "idle" =>
            /\ task'[x] = task[x]
            /\ task'[x].now \in HistoryHours .. hour
      /\ task'["job"].at # "idle" => task'["job"].write = TRUE
    BY DashEnd
<1>3. DashType'
    BY <1>b DEF DashType
<1>4. TaskInv'
    BY <1>2 DEF TaskInv, Tasks
<1>5. PendingInv'
    <2>1. \A h \in Hours : h < hour - 1 => pending'[h] = 0
        BY <1>b DEF PendingInv, Hours
    <2>2. task'["job"].at # "idle" /\ task'["job"].now = hour => Flushed
        BY <1>2 DEF PendingInv, Tasks
    <2>3. QED
        BY <1>1, <2>1, <2>2 DEF PendingInv
<1>6. PointsInv'
    BY DEF PointsInv, Tasks
<1>7. StatsInv'
    <2>1. CASE DOMAIN stats' = {}
        BY <2>1 DEF StatsInv
    <2>2. CASE dashboardMu' = "rotate"
        BY <2>2 DEF StatsInv
    <2>3. CASE tornAt' = hour
        BY <1>b, <2>3 DEF StatsInv
    <2>4. CASE UNCHANGED <<stats, logged>> /\ dashboardMu # "rotate" /\ tornAt' = tornAt
        BY <2>4 DEF StatsInv
    <2>5. QED
        BY <2>1, <2>2, <2>3, <2>4
<1>8. QED
    BY <1>3, <1>4, <1>5, <1>6, <1>7

LEMMA DashStep == DashInv /\ [DashboardNext]_dashVars => DashInv'
<1> SUFFICES ASSUME DashInv, [DashboardNext]_dashVars PROVE DashInv'
    OBVIOUS
<1> USE DEF log, history
<1>b. HistoryHours \in Nat /\ LastHour \in Nat /\ hour \in HistoryHours .. LastHour
    BY DashboardAssumption DEF DashInv, DashType, DashboardAssumption
<1>t. pending \in [Hours -> Nat] /\ logged \in [Hours -> Int] /\ hour \in Hours
    BY <1>b, WindowHoursIn DEF DashInv, DashType
<1>k. /\ [x \in Tasks |-> FALSE] \in [Tasks -> BOOLEAN]
      /\ task = [x \in Tasks |-> IF [y \in Tasks |-> FALSE][x] THEN NoTask ELSE task[x]]
    BY DEF DashInv, TaskInv
<1>n. None \in [Hours -> Nat] /\ None \in [Hours -> Int] /\ \A h \in Hours : None[h] = 0
    BY DEF None
<1>f. /\ [h \in Hours |-> logged[h] + pending[h]] \in [Hours -> Int]
      /\ \A h \in Hours : pending[h] = 0 => [x \in Hours |-> logged[x] + pending[x]][h] = logged[h]
    BY <1>t
<1>1. CASE UNCHANGED dashVars
    BY <1>1, <1>t, DashLog DEF dashVars
<1>2. CASE Tick
    BY <1>2, DashTick
<1>3. ASSUME NEW hours \in Requested, LoadHistory(hours) PROVE DashInv'
    <2>1. Begin("reader", logging)
        BY <1>3 DEF LoadHistory
    <2>2. QED
        BY <2>1, DashBegin DEF Tasks
<1>4. CASE RefreshJob
    BY <1>4, DashBegin DEF RefreshJob, Tasks
<1>5. ASSUME NEW p \in Tasks, ReadTables(p) \/ StoreStats(p) PROVE DashInv'
    BY <1>5, DashRead, DashStore
<1>6. ASSUME NEW p \in Tasks, StoreStatsFail(p) PROVE DashInv'
    <2>1. /\ dashboardMu = p /\ dashboardMu' = "free" /\ task' = [task EXCEPT ![p] = NoTask]
          /\ UNCHANGED <<hour, pending, logged, stats, refreshed, tornAt>>
        BY <1>6 DEF StoreStatsFail
    <2>2. [y \in Tasks |-> y = p] \in [Tasks -> BOOLEAN]
        OBVIOUS
    <2>3. task' = [x \in Tasks |-> IF [y \in Tasks |-> y = p][x] THEN NoTask ELSE task[x]]
        BY <2>1 DEF DashInv, TaskInv
    <2>4. dashboardMu # "rotate"
        BY <2>1 DEF Tasks
    <2>5. QED
        BY <1>t, <2>1, <2>2, <2>3, <2>4, DashTorn
<1>7. CASE LogQuery
    <2>1. /\ pending' = [pending EXCEPT ![hour] = pending[hour] + 1]
          /\ UNCHANGED <<hour, logged, stats, dashboardMu, task, refreshed, tornAt>>
        BY <1>7 DEF LogQuery
    <2>2. pending' \in [Hours -> Nat]
        BY <1>t, <2>1
    <2>3. \A h \in Hours : h < hour => pending'[h] = pending[h]
        BY <1>b, <1>t, <2>1 DEF Hours
    <2>4. QED
        BY <1>t, <2>1, <2>2, <2>3, DashLog
<1>8. CASE Flush
    BY <1>8, <1>f, <1>n, DashLog DEF Flush
<1>9. CASE ToggleLogging
    <2>1. /\ pending' = None
          /\ UNCHANGED <<hour, stats, dashboardMu, task, refreshed, tornAt>>
          /\ logged' = [h \in Hours |-> logged[h] + pending[h]] \/ logged' = logged
        BY <1>9 DEF ToggleLogging
    <2>2. QED
        BY <1>f, <1>n, <1>t, <2>1, DashLog
<1>10. CASE RotateRows
    <2>1. PICK h \in Hours : \E m \in 0 .. logged[h] :
            logged' = [x \in Hours |-> IF x < h THEN 0 ELSE logged[x] - IF x = h THEN m ELSE 0]
        BY <1>10 DEF RotateRows
    <2>2. PICK m \in 0 .. logged[h] :
            logged' = [x \in Hours |-> IF x < h THEN 0 ELSE logged[x] - IF x = h THEN m ELSE 0]
        BY <2>1
    <2>3. logged' \in [Hours -> Int]
        BY <1>t, <2>2
    <2>4. /\ dashboardMu' = "rotate"
          /\ UNCHANGED <<hour, pending, stats, task, refreshed, tornAt>>
        BY <1>10 DEF RotateRows
    <2>5. QED
        BY <1>t, <1>k, <2>3, <2>4, DashTorn
<1>11. CASE RotateStats
    <2>1. /\ dashboardMu' = "free" /\ DOMAIN stats' = {}
          /\ UNCHANGED <<hour, pending, logged, task, refreshed, tornAt>>
        BY <1>11 DEF RotateStats
    <2>2. QED
        BY <1>t, <1>k, <2>1, DashTorn
<1>12. CASE RotateStatsFail
    <2>1. /\ dashboardMu' = "free" /\ tornAt' = hour
          /\ UNCHANGED <<hour, pending, logged, stats, task, refreshed>>
        BY <1>12 DEF RotateStatsFail
    <2>2. QED
        BY <1>t, <1>k, <2>1, DashTorn
<1>13. CASE ClearLog
    <2>1. /\ dashboardMu' = "free" /\ DOMAIN stats' = {} /\ pending' = None /\ logged' = None
          /\ UNCHANGED <<hour, task, refreshed, tornAt>>
        BY <1>13 DEF ClearLog
    <2>2. QED
        BY <1>n, <1>k, <2>1, DashTorn
<1>14. CASE CrashRestart
    <2>1. /\ dashboardMu' = "free" /\ pending' = None
          /\ tornAt' = IF dashboardMu = "rotate" THEN hour ELSE tornAt
          /\ task' = [p \in Tasks |-> NoTask]
          /\ UNCHANGED <<hour, logged, stats, refreshed>>
        BY <1>14 DEF CrashRestart
    <2>2. [x \in Tasks |-> TRUE] \in [Tasks -> BOOLEAN]
        OBVIOUS
    <2>3. task' = [x \in Tasks |-> IF [y \in Tasks |-> TRUE][x] THEN NoTask ELSE task[x]]
        BY <2>1
    <2>4. CASE dashboardMu = "rotate"
        BY <1>n, <1>t, <2>1, <2>2, <2>3, <2>4, DashTorn
    <2>5. CASE dashboardMu # "rotate"
        BY <1>n, <1>t, <2>1, <2>2, <2>3, <2>5, DashTorn
    <2>6. QED
        BY <2>4, <2>5
<1>15. QED
    BY <1>1, <1>2, <1>3, <1>4, <1>5, <1>6, <1>7, <1>8, <1>9, <1>10, <1>11, <1>12, <1>13, <1>14
       DEF DashboardNext

\* For any length of the window and of the run: however loads, refreshes, flushes,
\* rotations and clears overlap and wherever a write fails or the process dies, a
\* dashboard that is answered from the table of hours counts the rows there are, but
\* for the hour whose refresh is yet to come.
THEOREM HistoryIsExact == DashboardSpec => []HistoryExact
<1>1. DashInv => HistoryExact
    <2> SUFFICES ASSUME DashInv, dashboardMu = "free", CacheComplete(hour), tornAt < hour,
                        NEW h \in Window(hour)
                 PROVE  stats[h] = logged[h] \/ (h = hour - 1 /\ refreshed < hour)
        BY DEF HistoryExact
    <2>1. HistoryHours \in Nat /\ LastHour \in Nat /\ hour \in HistoryHours .. LastHour
        BY DashboardAssumption DEF DashInv, DashType, DashboardAssumption
    <2>2. h \in 0 .. hour - 1 /\ h \in DOMAIN stats /\ hour - 1 \in DOMAIN stats
        BY <2>1, WindowHoursIn DEF CacheComplete
    <2>3. refreshed \in Nat /\ refreshed <= hour
        BY <2>1 DEF DashInv, DashType
    <2>4. h < hour - 1 \/ h = hour - 1
        BY <2>1, <2>2
    <2>5. refreshed = hour \/ refreshed < hour
        BY <2>1, <2>3
    <2>6. h < hour - 1 \/ refreshed = hour => stats[h] = logged[h]
        BY <2>2 DEF DashInv, StatsInv
    <2>7. QED
        BY <2>4, <2>5, <2>6
<1>2. QED
    BY <1>1, DashInit, DashStep, PTL DEF DashboardSpec

-----------------------------------------------------------------------------
(* LogQueries.                                                             *)

LEMMA MaxOf ==
    ASSUME NEW a \in Int, NEW b \in Int
    PROVE  Max({a, b}) = IF a >= b THEN a ELSE b
BY DEF Max

Origin == [dt : Int, time : Int, late : Int, address : Addresses, domain : Domains, blocked : BOOLEAN]

\* The row of an event.
RowOf(e) == [dt |-> e.dt, client |-> Stored(e.address), domain |-> e.domain, blocked |-> e.blocked]

\* Rows and events are the same, one by one, and a row is stored late by what
\* Late allows for.
RowsInv ==
    /\ origin \subseteq Origin /\ IsFiniteSet(origin)
    /\ table = {RowOf(e) : e \in origin}
    /\ \A e, f \in origin : e.dt = f.dt => e = f
    /\ \A e \in origin : e.dt <= sequence /\ e.time <= e.dt /\ e.dt <= e.time + e.late

ClockInv ==
    /\ tick \in Int /\ tick > MaxDelay /\ tokens \in BOOLEAN
    /\ sequence \in Nat /\ accepted \in Nat /\ latest \in Int
    /\ IF accepted = 0 THEN sequence = 0 ELSE sequence + 1 <= latest + accepted

\* An alias belongs to what is stored for its address.
NamesInv ==
    /\ DOMAIN aliases \subseteq {Stored(a) : a \in Addresses}
    /\ named = [a \in Addresses |-> HostOf(Stored(a))]

QueriesInv == ClockInv /\ RowsInv /\ NamesInv

LEMMA QueriesInitial == QueriesInit => QueriesInv
<1> SUFFICES ASSUME QueriesInit PROVE QueriesInv
    OBVIOUS
<1>1. ClockInv
    BY LogQueriesAssumption DEF LogQueriesAssumption, QueriesInit, ClockInv
<1>2. IsFiniteSet({})
    BY FS_EmptySet
<1>3. RowsInv
    BY <1>2 DEF QueriesInit, RowsInv
<1>4. DOMAIN aliases = {}
    BY DEF QueriesInit
<1>5. NamesInv
    BY <1>4 DEF QueriesInit, NamesInv, HostOf
<1> QED
    BY <1>1, <1>3, <1>5 DEF QueriesInv

LEMMA StoredApart ==
    ASSUME NEW a, NEW b
    PROVE  /\ Stored(a) = Stored(b) <=> a = b
           /\ Stored(a).of = a
BY DEF Stored

LEMMA LogEventStep ==
    ASSUME QueriesInv, NEW a \in Addresses, NEW d \in Domains, NEW b \in BOOLEAN,
           NEW delay \in 0..MaxDelay, LogEvent(a, d, b, delay)
    PROVE  QueriesInv'
<1> DEFINE time == tick - delay
           dt == Max({time, sequence + 1})
           e == [dt |-> dt, time |-> time, late |-> Late(time), address |-> a,
                 domain |-> d, blocked |-> b]
<1>1. /\ tick \in Int /\ tick > MaxDelay /\ MaxDelay \in Nat /\ time \in Int /\ time >= 1
      /\ sequence \in Nat /\ accepted \in Nat /\ latest \in Int
    BY LogQueriesAssumption DEF LogQueriesAssumption, QueriesInv, ClockInv
<1>2. dt = IF time >= sequence + 1 THEN time ELSE sequence + 1
    BY <1>1, MaxOf
<1>3. /\ table' = table \cup {[dt |-> dt, client |-> Stored(a), domain |-> d, blocked |-> b]}
      /\ sequence' = dt /\ origin' = origin \cup {e}
      /\ accepted' = accepted + 1 /\ latest' = Max({latest, time})
      /\ UNCHANGED <<tick, tokens, aliases, named>>
    BY DEF LogEvent
<1> HIDE DEF time, dt
<1>4. latest' = IF latest >= time THEN latest ELSE time
    BY <1>1, <1>3, MaxOf
<1>5. IF accepted = 0 THEN sequence = 0 ELSE sequence + 1 <= latest + accepted
    BY DEF QueriesInv, ClockInv
<1>6. Late(time) \in Int /\ dt \in Int /\ time <= dt /\ dt <= time + Late(time)
    BY <1>1, <1>2, <1>5 DEF Late
<1>7. dt \in Nat /\ dt >= sequence + 1 /\ dt <= latest' + accepted /\ latest' \in Int
    BY <1>1, <1>2, <1>4, <1>5
<1>8. ClockInv'
    <2>1. accepted' \in Nat /\ accepted' # 0 /\ sequence' + 1 <= latest' + accepted'
        BY <1>1, <1>3, <1>7
    <2> QED
        BY <2>1, <1>3, <1>7 DEF QueriesInv, ClockInv
<1>9. RowsInv'
    <2>1. e \in Origin /\ e.dt = dt /\ e.time = time /\ e.late = Late(time)
        BY <1>1, <1>6 DEF Origin
    <2>2. RowOf(e) = [dt |-> dt, client |-> Stored(a), domain |-> d, blocked |-> b]
        BY DEF RowOf
    <2> HIDE DEF e
    <2>3. /\ origin \subseteq Origin /\ IsFiniteSet(origin)
          /\ table = {RowOf(f) : f \in origin}
          /\ \A f, g \in origin : f.dt = g.dt => f = g
          /\ \A f \in origin : f.dt <= sequence /\ f.time <= f.dt /\ f.dt <= f.time + f.late
        BY DEF QueriesInv, RowsInv
    <2>4. IsFiniteSet(origin')
        BY <1>3, <2>3, FS_AddElement
    <2>5. ASSUME NEW f PROVE RowOf(f)' = RowOf(f)
        BY <1>3 DEF RowOf, Stored
    <2>6. table' = {RowOf(f) : f \in origin'}
        BY <1>3, <2>2, <2>3
    <2>7. table' = {RowOf(f)' : f \in origin'}
        BY <2>5, <2>6
    <2>8. \A f \in origin : f.dt \in Int /\ f.dt < dt /\ f.dt <= dt
        <3>1. \A f \in origin : f.dt \in Int
            BY <2>3 DEF Origin
        <3> QED
            BY <3>1, <2>3, <1>1, <1>7
    <2>9. \A f, g \in origin' : f.dt = g.dt => f = g
        BY <1>3, <2>1, <2>3, <2>8
    <2>10. \A f \in origin' : f.dt <= sequence' /\ f.time <= f.dt /\ f.dt <= f.time + f.late
        BY <1>3, <1>6, <2>1, <2>3, <2>8
    <2> QED
        BY <1>3, <2>1, <2>3, <2>4, <2>7, <2>9, <2>10 DEF RowsInv
<1>10. NamesInv'
    BY <1>3 DEF QueriesInv, NamesInv, HostOf, Stored
<1> QED
    BY <1>8, <1>9, <1>10 DEF QueriesInv

LEMMA SetAliasStep ==
    ASSUME QueriesInv, NEW term \in Terms, NEW name, SetAlias(term, name)
    PROVE  QueriesInv'
<1>1. PICK client \in TransformClient(term) :
        /\ aliases' = [c \in DOMAIN aliases \cup {client} |-> IF c = client THEN name ELSE aliases[c]]
        /\ named' = [named EXCEPT ![client.of] = name]
    BY DEF SetAlias
<1>2. UNCHANGED <<tick, tokens, table, sequence, origin, accepted, latest>>
    BY DEF SetAlias
<1>3. term.form # "name" /\ term.of \in Addresses /\ term.form \in {"plain", "token"}
    <2>1. term.form # "name"
        BY <1>1 DEF TransformClient
    <2> QED
        BY <2>1 DEF Terms
<1>4. client = Stored(term.of)
    <2>1. CASE term.form = "plain"
        BY <2>1, <1>1 DEF TransformClient
    <2>2. CASE term.form = "token"
        <3>1. tokens /\ client = term
            BY <2>2, <1>1 DEF TransformClient
        <3>2. term = [form |-> "token", of |-> term.of]
            BY <2>2 DEF Terms
        <3> QED
            BY <3>1, <3>2 DEF Stored
    <2> QED
        BY <1>3, <2>1, <2>2
<1>5. client.of = term.of
    BY <1>4, StoredApart
<1>6. ASSUME NEW a PROVE Stored(a)' = Stored(a)
    BY <1>2 DEF Stored
<1>7. NamesInv'
    <2>1. /\ DOMAIN aliases \subseteq {Stored(a) : a \in Addresses}
          /\ named = [a \in Addresses |-> HostOf(Stored(a))]
        BY DEF QueriesInv, NamesInv
    <2>2. DOMAIN aliases' = DOMAIN aliases \cup {client}
        BY <1>1
    <2>3. DOMAIN aliases' \subseteq {Stored(a)' : a \in Addresses}
        BY <2>1, <2>2, <1>3, <1>4, <1>6
    <2>4. ASSUME NEW a \in Addresses PROVE named'[a] = HostOf(Stored(a))'
        <3>1. named'[a] = IF a = term.of THEN name ELSE HostOf(Stored(a))
            BY <1>1, <1>5, <2>1
        <3>2. HostOf(Stored(a))' = IF Stored(a) \in DOMAIN aliases' THEN aliases'[Stored(a)] ELSE NoTerm
            BY <1>6 DEF HostOf
        <3>3. Stored(a) = client <=> a = term.of
            BY <1>4, StoredApart
        <3>4. Stored(a) \in DOMAIN aliases' =>
                aliases'[Stored(a)] = IF Stored(a) = client THEN name ELSE aliases[Stored(a)]
            BY <1>1
        <3> QED
            BY <3>1, <3>2, <3>3, <3>4, <2>2 DEF HostOf
    <2>5. named' = [a \in Addresses |-> named'[a]]
        BY <1>1, <2>1
    <2> QED
        BY <2>3, <2>4, <2>5 DEF NamesInv
<1>8. ClockInv' /\ RowsInv'
    BY <1>2, <1>6 DEF QueriesInv, ClockInv, RowsInv, RowOf
<1> QED
    BY <1>7, <1>8 DEF QueriesInv

LEMMA RotateLogStep ==
    ASSUME QueriesInv, NEW age \in Ages, RotateLog(age)
    PROVE  QueriesInv'
<1> DEFINE kept(dt) == dt >= tick - age
<1>1. /\ table' = {r \in table : r.dt >= tick - age}
      /\ origin' = {e \in origin : e.dt >= tick - age}
      /\ UNCHANGED <<tick, tokens, sequence, aliases, named, accepted, latest>>
    BY DEF RotateLog
<1>2. /\ origin \subseteq Origin /\ IsFiniteSet(origin)
      /\ table = {RowOf(f) : f \in origin}
      /\ \A f, g \in origin : f.dt = g.dt => f = g
      /\ \A f \in origin : f.dt <= sequence /\ f.time <= f.dt /\ f.dt <= f.time + f.late
    BY DEF QueriesInv, RowsInv
<1>3. ASSUME NEW e PROVE RowOf(e)' = RowOf(e) /\ RowOf(e).dt = e.dt
    BY <1>1 DEF RowOf, Stored
<1>4. table' = {RowOf(e) : e \in origin'}
    BY <1>1, <1>2, <1>3
<1>5. IsFiniteSet(origin')
    BY <1>1, <1>2, FS_Subset
<1>6. RowsInv'
    <2>1. table' = {RowOf(e)' : e \in origin'}
        BY <1>3, <1>4
    <2>2. origin' \subseteq origin
        BY <1>1
    <2> QED
        BY <2>1, <2>2, <1>1, <1>2, <1>5 DEF RowsInv
<1>7. ClockInv' /\ NamesInv'
    BY <1>1 DEF QueriesInv, ClockInv, NamesInv, HostOf, Stored
<1> QED
    BY <1>6, <1>7 DEF QueriesInv

LEMMA QueriesStep == QueriesInv /\ [QueriesNext]_queryVars => QueriesInv'
<1> SUFFICES ASSUME QueriesInv, [QueriesNext]_queryVars PROVE QueriesInv'
    OBVIOUS
<1>1. ASSUME AdvanceClock \/ SetClockBack PROVE QueriesInv'
    <2>1. UNCHANGED <<tokens, table, sequence, aliases, origin, named, accepted, latest>>
        BY <1>1 DEF AdvanceClock, SetClockBack
    <2>2. tick' \in Int /\ tick' > MaxDelay
        BY <1>1, LogQueriesAssumption
        DEF LogQueriesAssumption, AdvanceClock, SetClockBack, QueriesInv, ClockInv
    <2> QED
        BY <2>1, <2>2 DEF QueriesInv, ClockInv, RowsInv, NamesInv, HostOf, Stored, RowOf
<1>2. ASSUME NEW pseudonymized \in BOOLEAN, ClearAndConfigure(pseudonymized) PROVE QueriesInv'
    <2>1. /\ table' = {} /\ aliases' = <<>> /\ sequence' = 0 /\ tokens' \in BOOLEAN
          /\ origin' = {} /\ named' = [a \in Addresses |-> NoTerm]
          /\ accepted' = 0 /\ latest' = 0 /\ tick' = tick
        BY <1>2 DEF ClearAndConfigure
    <2>2. ClockInv'
        BY <2>1 DEF QueriesInv, ClockInv
    <2>3. RowsInv'
        BY <2>1, FS_EmptySet DEF RowsInv
    <2>4. DOMAIN aliases' = {}
        BY <2>1
    <2>5. NamesInv'
        BY <2>1, <2>4 DEF NamesInv, HostOf
    <2> QED
        BY <2>2, <2>3, <2>5 DEF QueriesInv
<1>3. ASSUME UNCHANGED queryVars PROVE QueriesInv'
    BY <1>3 DEF queryVars, QueriesInv, ClockInv, RowsInv, NamesInv, HostOf, Stored, RowOf
<1> QED
    BY <1>1, <1>2, <1>3, LogEventStep, SetAliasStep, RotateLogStep DEF QueriesNext

\* The events whose rows a question finds, and those of a group.
Found(q) == {e \in origin : Conditions(q, RowOf(e))}
InGroup(events, d, c) == {e \in events : e.domain = d /\ Stored(e.address) = c}

\* There are as many rows as events.
LEMMA RowsCounted ==
    ASSUME QueriesInv, NEW F \in SUBSET origin
    PROVE  /\ Cardinality({RowOf(e) : e \in F}) = Cardinality(F)
           /\ IsFiniteSet(F) /\ Cardinality(F) \in Nat
<1>1. IsFiniteSet(F) /\ Cardinality(F) \in Nat
    BY FS_Subset, FS_CardinalityType DEF QueriesInv, RowsInv
<1> DEFINE f == [e \in F |-> RowOf(e)]
           R == {RowOf(e) : e \in F}
<1>2. f \in Bijection(F, R)
    <2>1. f \in [F -> R] /\ \A r \in R : \E e \in F : f[e] = r
        OBVIOUS
    <2>2. \A a, b \in F : f[a] = f[b] => a = b
        BY DEF QueriesInv, RowsInv, RowOf
    <2> HIDE DEF f, R
    <2> QED
        BY <2>1, <2>2 DEF Bijection, Injection, Surjection, IsInjective
<1>3. ExistsBijection(F, R)
    BY <1>2 DEF ExistsBijection
<1> QED
    BY <1>1, <1>3, FS_Bijection

\* The WHERE clause selects a row by the client, whether the question has an
\* address, a token or a name, as the history does by the address.
LEMMA ClientSelected ==
    ASSUME QueriesInv, NEW q \in TopQuestions, ~Refuses(q), NEW e \in origin
    PROVE  (CASE NormalizeTopClientMode(q.client, q.mode) = "" -> TRUE
              [] NormalizeTopClientMode(q.client, q.mode) = "ip" -> RowOf(e).client \in TransformClient(q.client)
              [] NormalizeTopClientMode(q.client, q.mode) = "host" -> HostOf(RowOf(e).client) = q.client)
           <=>
           (CASE q.client = NoTerm -> TRUE
              [] q.client # NoTerm /\ (q.mode = "host" \/ (q.mode = "" /\ q.client.form = "name")) ->
                   named[e.address] = q.client
              [] OTHER -> e.address = q.client.of)
<1> DEFINE mode == NormalizeTopClientMode(q.client, q.mode)
<1>1. q.client \in Terms \cup {NoTerm} /\ q.mode \in {"", "host", "ip"}
    BY DEF TopQuestions
<1>2. RowOf(e).client = Stored(e.address) /\ e.address \in Addresses
    BY DEF RowOf, QueriesInv, RowsInv, Origin
<1>3. HostOf(Stored(e.address)) = named[e.address]
    BY <1>2 DEF QueriesInv, NamesInv
<1>4. CASE q.client = NoTerm
    <2>1. mode = ""
        BY <1>4 DEF NormalizeTopClientMode
    <2> QED
        BY <1>4, <2>1
<1>5. CASE q.client # NoTerm /\ (q.mode = "host" \/ (q.mode = "" /\ q.client.form = "name"))
    <2>1. mode = "host"
        BY <1>5 DEF NormalizeTopClientMode
    <2> QED
        BY <1>5, <2>1, <1>2, <1>3
<1>6. CASE q.client # NoTerm /\ ~(q.mode = "host" \/ (q.mode = "" /\ q.client.form = "name"))
    <2>1. mode = "ip"
        BY <1>1, <1>6 DEF NormalizeTopClientMode
    <2>2. TransformClient(q.client) # {}
        BY <2>1 DEF Refuses
    <2>3. q.client \in Terms /\ q.client.form # "name"
        BY <1>1, <1>6, <2>2 DEF TransformClient
    <2>4. TransformClient(q.client) = {Stored(q.client.of)}
        <3>1. CASE q.client.form = "plain"
            BY <3>1 DEF TransformClient
        <3>2. CASE q.client.form = "token"
            <4>1. tokens /\ TransformClient(q.client) = {q.client}
                BY <3>2, <2>2 DEF TransformClient
            <4>2. q.client = [form |-> "token", of |-> q.client.of]
                BY <2>3, <3>2 DEF Terms
            <4> QED
                BY <4>1, <4>2 DEF Stored
        <3> QED
            BY <2>3, <3>1, <3>2 DEF Terms
    <2>5. RowOf(e).client \in TransformClient(q.client) <=> e.address = q.client.of
        BY <1>2, <2>4, StoredApart
    <2> QED
        BY <1>6, <2>1, <2>5
<1> QED
    BY <1>4, <1>5, <1>6

\* A question finds what it surely is about, and nothing that it is not possibly.
LEMMA FoundBetween ==
    ASSUME QueriesInv, NEW q \in TopQuestions, ~Refuses(q)
    PROVE  Surely(q) \subseteq Found(q) /\ Found(q) \subseteq Possibly(q)
           /\ Possibly(q) \subseteq origin
<1>1. UnixEpoch \in Int /\ (q.since # NoTerm => q.since \in Int)
    <2>1. tick \div Second \in Int /\ Second \in Int
        BY LogQueriesAssumption DEF LogQueriesAssumption, QueriesInv, ClockInv
    <2>2. UnixEpoch \in Int
        BY <2>1 DEF UnixEpoch
    <2>3. q.since # NoTerm => q.since \in Ages
        BY DEF TopQuestions
    <2>4. \A x \in Ages : x \in Int
        BY LogQueriesAssumption DEF LogQueriesAssumption
    <2> QED
        BY <2>2, <2>3, <2>4
<1>2. ASSUME NEW e \in origin
      PROVE  (e \in Surely(q) => Conditions(q, RowOf(e))) /\ (Conditions(q, RowOf(e)) => e \in Possibly(q))
    <2> DEFINE byClient ==
            CASE q.client = NoTerm -> TRUE
              [] q.client # NoTerm /\ (q.mode = "host" \/ (q.mode = "" /\ q.client.form = "name")) ->
                   named[e.address] = q.client
              [] OTHER -> e.address = q.client.of
               byStatus == q.status # "" => e.blocked = (q.status = "blocked")
    <2>1. e \in About(q) <=> byStatus /\ byClient
        BY DEF About
    <2>2. Conditions(q, RowOf(e)) <=>
            /\ q.since # NoTerm => RowOf(e).dt \in UnixEpoch - q.since .. UnixEpoch
            /\ q.status # "" => RowOf(e).blocked = (q.status = "blocked")
            /\ byClient
        BY ClientSelected DEF Conditions
    <2>3. RowOf(e).dt = e.dt /\ RowOf(e).blocked = e.blocked
        BY DEF RowOf
    <2>4. /\ e.dt \in Int /\ e.time \in Int /\ e.late \in Int
          /\ e.time <= e.dt /\ e.dt <= e.time + e.late
        BY DEF QueriesInv, RowsInv, Origin
    <2> HIDE DEF byClient
    <2>5. Conditions(q, RowOf(e)) <=>
            (q.since # NoTerm => e.dt \in UnixEpoch - q.since .. UnixEpoch) /\ byStatus /\ byClient
        BY <2>2, <2>3
    <2> HIDE DEF byStatus
    <2>6. q.since # NoTerm =>
            /\ e.time >= UnixEpoch - q.since /\ e.time + e.late <= UnixEpoch
                 => e.dt \in UnixEpoch - q.since .. UnixEpoch
            /\ e.dt \in UnixEpoch - q.since .. UnixEpoch
                 => e.time + e.late >= UnixEpoch - q.since /\ e.time <= UnixEpoch
        BY <1>1, <2>4
    <2>7. e \in Surely(q) => Conditions(q, RowOf(e))
        BY <2>1, <2>5, <2>6 DEF Surely
    <2>8. Conditions(q, RowOf(e)) => e \in Possibly(q)
        BY <2>1, <2>5, <2>6 DEF Possibly
    <2> QED
        BY <2>7, <2>8
<1>3. Surely(q) \subseteq origin /\ Possibly(q) \subseteq origin
    BY DEF Surely, Possibly, About
<1> QED
    BY <1>2, <1>3 DEF Found

\* GROUP BY, in terms of events.
LEMMA GroupsOfEvents ==
    ASSUME QueriesInv, NEW q
    PROVE  /\ \A g \in Groups(q) :
                /\ \E e \in Found(q) : g.domain = e.domain /\ g.client = Stored(e.address)
                /\ g.host = IF HostOf(g.client) = NoTerm THEN g.client ELSE HostOf(g.client)
                /\ g.counter = Cardinality(InGroup(Found(q), g.domain, g.client))
           /\ \A e \in Found(q) : \E g \in Groups(q) : g.domain = e.domain /\ g.client = Stored(e.address)
<1> DEFINE found == {r \in table : Conditions(q, r)}
           group(k) == [domain |-> k[1], client |-> k[2],
                        host |-> IF HostOf(k[2]) = NoTerm THEN k[2] ELSE HostOf(k[2]),
                        counter |-> Cardinality({r \in found : <<r.domain, r.client>> = k})]
           keys == {<<r.domain, r.client>> : r \in found}
<1>1. Groups(q) = {group(k) : k \in keys}
    BY DEF Groups
<1>2. found = {RowOf(e) : e \in Found(q)}
    BY DEF Found, QueriesInv, RowsInv
<1>3. ASSUME NEW e PROVE RowOf(e).domain = e.domain /\ RowOf(e).client = Stored(e.address)
    BY DEF RowOf
<1> HIDE DEF found
<1>4. keys = {<<e.domain, Stored(e.address)>> : e \in Found(q)}
    BY <1>2, <1>3
<1>5. ASSUME NEW d, NEW c
      PROVE  Cardinality({r \in found : <<r.domain, r.client>> = <<d, c>>})
               = Cardinality(InGroup(Found(q), d, c))
    <2>1. {r \in found : <<r.domain, r.client>> = <<d, c>>} = {RowOf(e) : e \in InGroup(Found(q), d, c)}
        BY <1>2, <1>3 DEF InGroup
    <2>2. InGroup(Found(q), d, c) \in SUBSET origin
        BY DEF InGroup, Found
    <2> QED
        BY <2>1, <2>2, RowsCounted
<1> HIDE DEF keys
<1>6. ASSUME NEW g \in Groups(q)
      PROVE  /\ \E e \in Found(q) : g.domain = e.domain /\ g.client = Stored(e.address)
             /\ g.host = IF HostOf(g.client) = NoTerm THEN g.client ELSE HostOf(g.client)
             /\ g.counter = Cardinality(InGroup(Found(q), g.domain, g.client))
    <2>0. PICK k \in keys : g = group(k)
        BY <1>1
    <2>1. PICK e \in Found(q) : k = <<e.domain, Stored(e.address)>>
        BY <1>4
    <2>2. /\ g.domain = e.domain /\ g.client = Stored(e.address)
          /\ g.host = IF HostOf(g.client) = NoTerm THEN g.client ELSE HostOf(g.client)
          /\ g.counter = Cardinality({r \in found : <<r.domain, r.client>> = <<g.domain, g.client>>})
        BY <2>0, <2>1
    <2> QED
        BY <2>2, <1>5
<1>7. ASSUME NEW e \in Found(q)
      PROVE  \E g \in Groups(q) : g.domain = e.domain /\ g.client = Stored(e.address)
    <2>1. group(<<e.domain, Stored(e.address)>>) \in Groups(q)
        BY <1>1, <1>4
    <2> QED
        BY <2>1
<1> QED
    BY <1>6, <1>7

\* ORDER BY and LIMIT.
LEMMA FirstOfSet ==
    ASSUME NEW set, NEW limit, NEW order, NEW answer \in FirstOf(set, limit, order)
    PROVE  /\ answer \subseteq set
           /\ \/ answer = set
              \/ /\ Cardinality(answer) = limit
                 /\ \A x \in answer, y \in set \ answer : order[x] >= order[y]
<1>1. CASE limit < 0 \/ Cardinality(set) <= limit
    BY <1>1 DEF FirstOf
<1>2. CASE ~(limit < 0 \/ Cardinality(set) <= limit)
    BY <1>2 DEF FirstOf, kSubset
<1> QED
    BY <1>1, <1>2

\* GetTop.
LEMMA TopRight ==
    ASSUME QueriesInv, NEW q \in TopQuestions, ~Refuses(q), NEW answer \in GetTop(q)
    PROVE  LET seen(events, g) ==
                 Cardinality({e \in events : e.domain = g.domain /\ Stored(e.address) = g.client})
           IN  /\ \A g \in answer :
                    /\ g.counter \in seen(Surely(q), g) .. seen(Possibly(q), g)
                    /\ g.host = ShownAs(g.client.of)
               /\ \A e \in Surely(q) :
                    \/ \E g \in answer : g.domain = e.domain /\ g.client = Stored(e.address)
                    \/ /\ Cardinality(answer) = Min({q.top, MaxDNSLogEntries})
                       /\ \A g \in answer :
                            g.counter >= seen(Surely(q), [domain |-> e.domain, client |-> Stored(e.address)])
<1> DEFINE limit == Min({q.top, MaxDNSLogEntries})
           order == MoreOften(Groups(q))
<1>1. /\ answer \subseteq Groups(q)
      /\ \/ answer = Groups(q)
         \/ /\ Cardinality(answer) = limit
            /\ \A x \in answer, y \in Groups(q) \ answer : order[x] >= order[y]
    BY FirstOfSet DEF GetTop
<1>2. \A g \in Groups(q) : order[g] = g.counter
    BY DEF MoreOften
<1> HIDE DEF limit, order
<1>3. /\ \A g \in Groups(q) :
           /\ \E e \in Found(q) : g.domain = e.domain /\ g.client = Stored(e.address)
           /\ g.host = IF HostOf(g.client) = NoTerm THEN g.client ELSE HostOf(g.client)
           /\ g.counter = Cardinality(InGroup(Found(q), g.domain, g.client))
      /\ \A e \in Found(q) : \E g \in Groups(q) : g.domain = e.domain /\ g.client = Stored(e.address)
    BY GroupsOfEvents
<1>4. Surely(q) \subseteq Found(q) /\ Found(q) \subseteq Possibly(q) /\ Possibly(q) \subseteq origin
    BY FoundBetween
<1>5. ASSUME NEW d, NEW c
      PROVE  /\ Cardinality(InGroup(Surely(q), d, c)) \in Nat
             /\ Cardinality(InGroup(Found(q), d, c)) \in Nat
             /\ Cardinality(InGroup(Possibly(q), d, c)) \in Nat
             /\ Cardinality(InGroup(Surely(q), d, c)) <= Cardinality(InGroup(Found(q), d, c))
             /\ Cardinality(InGroup(Found(q), d, c)) <= Cardinality(InGroup(Possibly(q), d, c))
    <2>1. /\ InGroup(Surely(q), d, c) \in SUBSET InGroup(Found(q), d, c)
          /\ InGroup(Found(q), d, c) \in SUBSET InGroup(Possibly(q), d, c)
          /\ InGroup(Possibly(q), d, c) \in SUBSET origin
          /\ InGroup(Surely(q), d, c) \in SUBSET origin
          /\ InGroup(Found(q), d, c) \in SUBSET origin
        BY <1>4 DEF InGroup
    <2>2. IsFiniteSet(origin)
        BY DEF QueriesInv, RowsInv
    <2>3. /\ IsFiniteSet(InGroup(Possibly(q), d, c)) /\ IsFiniteSet(InGroup(Found(q), d, c))
          /\ IsFiniteSet(InGroup(Surely(q), d, c))
        BY <2>1, <2>2, FS_Subset
    <2> QED
        BY <2>1, <2>3, FS_Subset, FS_CardinalityType
<1>6. ASSUME NEW g \in answer
      PROVE  /\ g.counter \in Cardinality(InGroup(Surely(q), g.domain, g.client))
                              .. Cardinality(InGroup(Possibly(q), g.domain, g.client))
             /\ g.host = ShownAs(g.client.of)
    <2>1. g \in Groups(q)
        BY <1>1
    <2>2. g.counter = Cardinality(InGroup(Found(q), g.domain, g.client))
        BY <2>1, <1>3
    <2>3. g.counter \in Cardinality(InGroup(Surely(q), g.domain, g.client))
                        .. Cardinality(InGroup(Possibly(q), g.domain, g.client))
        BY <2>2, <1>5
    <2>4. PICK e \in Found(q) : g.client = Stored(e.address)
        BY <2>1, <1>3
    <2>5. e.address \in Addresses
        BY DEF Found, QueriesInv, RowsInv, Origin
    <2>6. HostOf(g.client) = named[e.address] /\ g.client.of = e.address
        BY <2>4, <2>5, StoredApart DEF QueriesInv, NamesInv
    <2>7. g.host = ShownAs(g.client.of)
        BY <2>1, <2>4, <2>6, <1>3 DEF ShownAs
    <2> QED
        BY <2>3, <2>7
<1>7. ASSUME NEW e \in Surely(q)
      PROVE  \/ \E g \in answer : g.domain = e.domain /\ g.client = Stored(e.address)
             \/ /\ Cardinality(answer) = limit
                /\ \A g \in answer :
                     g.counter >= Cardinality(InGroup(Surely(q), e.domain, Stored(e.address)))
    <2>1. PICK h \in Groups(q) : h.domain = e.domain /\ h.client = Stored(e.address)
        BY <1>3, <1>4
    <2>2. CASE h \in answer
        BY <2>1, <2>2
    <2>3. CASE h \notin answer
        <3>1. /\ Cardinality(answer) = limit
              /\ \A x \in answer : order[x] >= order[h]
            BY <2>1, <2>3, <1>1
        <3>2. ASSUME NEW g \in answer
              PROVE  g.counter >= Cardinality(InGroup(Surely(q), e.domain, Stored(e.address)))
            <4>1. g \in Groups(q) /\ g.counter >= h.counter
                BY <1>1, <1>2, <2>1, <3>1
            <4>2. /\ h.counter = Cardinality(InGroup(Found(q), e.domain, Stored(e.address)))
                  /\ g.counter = Cardinality(InGroup(Found(q), g.domain, g.client))
                BY <4>1, <1>3, <2>1
            <4>3. /\ g.counter \in Nat /\ h.counter \in Nat
                  /\ Cardinality(InGroup(Surely(q), e.domain, Stored(e.address))) \in Nat
                  /\ Cardinality(InGroup(Surely(q), e.domain, Stored(e.address))) <= h.counter
                BY <4>2, <1>5
            <4> QED
                BY <4>1, <4>3
        <3> QED
            BY <3>1, <3>2
    <2> QED
        BY <2>2, <2>3
<1> DEFINE seen(events, g) ==
        Cardinality({e \in events : e.domain = g.domain /\ Stored(e.address) = g.client})
<1>8. ASSUME NEW events, NEW g
      PROVE  seen(events, g) = Cardinality(InGroup(events, g.domain, g.client))
    BY DEF InGroup
<1>9. ASSUME NEW d, NEW c
      PROVE  seen(Surely(q), [domain |-> d, client |-> c]) = Cardinality(InGroup(Surely(q), d, c))
    BY DEF InGroup
<1> HIDE DEF seen
<1>10. \A g \in answer :
          /\ g.counter \in seen(Surely(q), g) .. seen(Possibly(q), g)
          /\ g.host = ShownAs(g.client.of)
    BY <1>6, <1>8
<1>11. \A e \in Surely(q) :
          \/ \E g \in answer : g.domain = e.domain /\ g.client = Stored(e.address)
          \/ /\ Cardinality(answer) = limit
             /\ \A g \in answer :
                  g.counter >= seen(Surely(q), [domain |-> e.domain, client |-> Stored(e.address)])
    BY <1>7, <1>9
<1> QED
    BY <1>10, <1>11 DEF limit, seen

\* SearchClients.
LEMMA SearchRight ==
    ASSUME QueriesInv, NEW e \in origin, NEW limit,
           NEW answer \in SearchClients([form |-> "plain", of |-> e.address], limit)
    PROVE  \/ [address |-> Stored(e.address), host |-> named[e.address]] \in answer
           \/ Cardinality(answer) = ClientLimit(limit)
<1> DEFINE term == [form |-> "plain", of |-> e.address]
           found == [address |-> Stored(e.address), host |-> named[e.address]]
<1>1. e.address \in Addresses /\ HostOf(Stored(e.address)) = named[e.address]
    BY DEF QueriesInv, RowsInv, Origin, NamesInv
<1>2. RowOf(e) \in table /\ RowOf(e).client = Stored(e.address)
    BY DEF QueriesInv, RowsInv, RowOf
<1>3. Stored(e.address) \in {r.client : r \in table}
    BY <1>2
<1>4. IF tokens /\ term.form # "name"
      THEN Stored(e.address) \in TransformClient(term)
      ELSE TextIn(term, Stored(e.address))
    BY DEF TransformClient, TextIn, Stored
<1>5. found \in Candidates(term)
    BY <1>1, <1>3, <1>4 DEF Candidates
<1>6. \/ answer = Candidates(term)
      \/ Cardinality(answer) = ClientLimit(limit)
    BY FirstOfSet DEF SearchClients
<1> QED
    BY <1>5, <1>6

\* The questions of the DNS log are answered as if rows were events and clients
\* addresses, for any addresses, names and domains, any number of events, and any
\* readings of the clock.
THEOREM QueriesAreRight == QueriesSpec => []QueriesRight
<1>1. QueriesInv => QueriesRight
    BY TopRight, SearchRight DEF QueriesRight
<1> QED
    BY <1>1, QueriesInitial, QueriesStep, PTL DEF QueriesSpec
=============================================================================
