------------------------------- MODULE DNSLog -------------------------------
(***************************************************************************)
(* The DNS query log: middleware/dnslog.go, dnslog_lifecycle.go and        *)
(* dnslog_privacy.go, driven by internal/httpapi/handlers_dnslog.go.       *)
(*                                                                         *)
(* Actors: the goroutines that answer DNS queries (Run), the flush worker  *)
(* (runAsync), one administrator request at a time (dnsLogMutationMu       *)
(* serialises toggle, privacy and clear requests), alias requests, which   *)
(* are not serialised with those, and the shutdown of the process (Stop).  *)
(*                                                                         *)
(* Locks: lifecycleMu is held exclusively by StartLogging, StopLogging,    *)
(* SetPseudonymization and Clear and shared by Run and AddAlias; flushMu   *)
(* serialises doInsert, rotate and Clear.  A reader-side critical section  *)
(* is one action enabled while there is no writer; a writer-side section   *)
(* that touches the database is split into the steps between which other   *)
(* actors can run.                                                         *)
(*                                                                         *)
(* A stored domain or client is abstracted to its representation: Plain,   *)
(* or the key its HMAC token was made with.                                *)
(***************************************************************************)
EXTENDS Naturals, Sequences

CONSTANTS
    Keys,        \* possible contents of the pseudonymization key file
    Plain,       \* representation of a value that is not pseudonymized
    NoKey,       \* fingerprint recorded when no pseudonymizer is in use
    Modes,       \* the settings [domains, clients] an operator may select
    MaxEvents,   \* bound: queries accepted by the log
    MaxFaults,   \* bound: failing database writes
    MaxCrashes   \* bound: crashes of the process

ASSUME DNSLogAssumption ==
    /\ Plain \notin Keys /\ NoKey \notin Keys
    /\ Modes \subseteq [domains : BOOLEAN, clients : BOOLEAN]
    /\ MaxEvents \in Nat /\ MaxFaults \in Nat /\ MaxCrashes \in Nat

VARIABLES
    \* the database file
    rows,           \* table tdnslog, in the order of its primary key dt
    hosts,          \* table hosts: the representations of the aliased clients
    state,          \* table dnslog_privacy_state
    ovEnabled,      \* config_overrides: DNS log on or off (initially the YAML value)
    ovMode,         \* config_overrides: privacy settings (initially the YAML values)
    \* the operator's key file
    key,
    \* the process
    up,
    enabled,        \* cs.enabled
    privacy,        \* cs.privacy and cs.pseudonymizer
    requiresClear,  \* cs.privacy.RequiresClear
    queue,          \* cs.queue
    lifecycleMu,    \* its exclusive holder, or "free"
    flushMu,        \* its holder, or "free"
    batch,          \* the events doInsert has taken and not yet written
    pc,             \* position of "admin", "shutdown" and "worker"
    want,           \* the settings the administrator's request asks for
    counted,        \* the row counts configurePrivacy has read
    \* bookkeeping for the properties
    nextId,         \* number of the next accepted event
    gone,           \* events that were discarded on purpose or lost in a crash
    stopOK,         \* the last StopLogging returned nil and nothing started since
    clearedBelow,   \* events numbered lower were accepted before the last Clear
    faults, crashes

disk == <<rows, hosts, state, ovEnabled, ovMode>>
memory == <<enabled, privacy, requiresClear>>
locks == <<lifecycleMu, flushMu>>
request == <<want, counted>>
ghosts == <<nextId, gone, stopOK, clearedBelow>>
bounds == <<faults, crashes>>
vars == <<disk, key, up, memory, queue, locks, batch, pc, request, ghosts, bounds>>

-----------------------------------------------------------------------------
(* Privacy settings.                                                       *)

Privacy == [domains : BOOLEAN, clients : BOOLEAN, fp : Keys \cup {NoKey}]

\* newDNSLogPseudonymizer: there is a key only if some field is pseudonymized.
PrivacyOf(mode, k) ==
    [domains |-> mode.domains, clients |-> mode.clients,
     fp |-> IF mode.domains \/ mode.clients THEN k ELSE NoKey]

DomainRepr(p) == IF p.domains THEN p.fp ELSE Plain
ClientRepr(p) == IF p.clients THEN p.fp ELSE Plain

\* Mutant: a change of the key alone goes unnoticed.
MismatchIgnoresKey(st, p, logData, hostData) ==
    \/ st.domains # p.domains /\ logData
    \/ st.clients # p.clients /\ (logData \/ hostData)

\* The mismatch test of configurePrivacy: stored state st, desired settings p,
\* and whether there are log rows (logData) or aliases (hostData).
Mismatch(st, p, logData, hostData) ==
    \/ st.domains # p.domains /\ logData
    \/ st.clients # p.clients /\ (logData \/ hostData)
    \/ /\ st.fp # p.fp
       /\ \/ p.domains /\ logData
          \/ p.clients /\ (logData \/ hostData)

Event == [id : Nat, dom : Keys \cup {Plain}, cli : Keys \cup {Plain}]

Ids(s) == {s[i].id : i \in DOMAIN s}

\* Every accepted event that still exists, oldest first.
Log == rows \o batch \o queue

TypeOK ==
    /\ rows \in Seq(Event) /\ batch \in Seq(Event) /\ queue \in Seq(Event)
    /\ hosts \subseteq Keys \cup {Plain}
    /\ state \in Privacy /\ privacy \in Privacy /\ want \in Privacy
    /\ ovEnabled \in BOOLEAN
    /\ ovMode \in [domains : BOOLEAN, clients : BOOLEAN]
    /\ key \in Keys
    /\ up \in BOOLEAN /\ enabled \in BOOLEAN /\ requiresClear \in BOOLEAN
    /\ lifecycleMu \in {"free", "admin", "shutdown"}
    /\ flushMu \in {"free", "admin", "shutdown", "worker"}
    /\ pc \in [admin : {"idle", "start", "stop", "stopping", "discard", "set", "setWrite",
                        "persist", "restore", "restoreWrite", "clearing"},
               shutdown : {"run", "stop", "stopping", "discard", "closing"},
               worker : {"idle", "last", "done"}]
    /\ counted \in [rows : BOOLEAN, hosts : BOOLEAN]
    /\ nextId \in Nat /\ clearedBelow \in Nat
    /\ gone \subseteq Nat
    /\ stopOK \in BOOLEAN
    /\ faults \in Nat /\ crashes \in Nat

\* A write to the database fails (and its transaction is rolled back).
WriteFails ==
    /\ faults < MaxFaults
    /\ faults' = faults + 1
    /\ UNCHANGED crashes

-----------------------------------------------------------------------------
(* Start-up: overrides.Apply, then DNSLog.Config and Init.                 *)

\* A first start on an empty database.
Init ==
    /\ rows = <<>> /\ hosts = {}
    /\ key \in Keys
    /\ ovEnabled \in BOOLEAN
    /\ ovMode \in Modes
    /\ privacy = PrivacyOf(ovMode, key)
    /\ state = privacy
    /\ requiresClear = FALSE
    /\ enabled = ovEnabled
    /\ up = TRUE
    /\ queue = <<>> /\ batch = <<>>
    /\ lifecycleMu = "free" /\ flushMu = "free"
    /\ pc = [admin |-> "idle", shutdown |-> "run", worker |-> "idle"]
    /\ want = privacy
    /\ counted = [rows |-> FALSE, hosts |-> FALSE]
    /\ nextId = 1 /\ gone = {} /\ stopOK = FALSE /\ clearedBelow = 1
    /\ faults = 0 /\ crashes = 0

\* A later start.  configurePrivacy cannot race here: neither the worker nor the
\* API runs yet.  Incompatible data keep the recorded state and the log off.
Restart ==
    /\ ~up
    /\ up' = TRUE
    /\ privacy' = PrivacyOf(ovMode, key)
    /\ requiresClear' = Mismatch(state, privacy', rows # <<>>, hosts # {})
    /\ state' = IF requiresClear' THEN state ELSE privacy'
    /\ enabled' = (ovEnabled /\ ~requiresClear')
    /\ UNCHANGED <<rows, hosts, ovEnabled, ovMode, key, queue, locks, batch, pc,
                   request, ghosts, bounds>>

\* The process dies: events that were queued or being written are lost.
Crash ==
    /\ up
    /\ crashes < MaxCrashes
    /\ crashes' = crashes + 1
    /\ up' = FALSE
    /\ gone' = gone \cup Ids(batch \o queue)
    /\ queue' = <<>> /\ batch' = <<>>
    /\ lifecycleMu' = "free" /\ flushMu' = "free"
    /\ pc' = [admin |-> "idle", shutdown |-> "run", worker |-> "idle"]
    /\ enabled' = FALSE
    /\ stopOK' = FALSE
    /\ UNCHANGED <<disk, key, privacy, requiresClear, request, nextId, clearedBelow, faults>>

\* The operator edits the key file (or environment) the process reads.
ChangeKey ==
    /\ key' \in Keys \ {key}
    /\ UNCHANGED <<disk, up, memory, queue, locks, batch, pc, request, ghosts, bounds>>

-----------------------------------------------------------------------------
(* Queries and aliases: shared holders of lifecycleMu.                     *)

\* DNSLog.Run, called after a query has been answered.
Run ==
    /\ up
    /\ lifecycleMu = "free"
    /\ enabled /\ ~requiresClear
    /\ nextId <= MaxEvents
    /\ queue' = Append(queue, [id |-> nextId, dom |-> DomainRepr(privacy), cli |-> ClientRepr(privacy)])
    /\ nextId' = nextId + 1
    /\ UNCHANGED <<disk, key, up, memory, locks, batch, pc, request, gone, stopOK,
                   clearedBelow, bounds>>

\* AddAlias, reached from DNSLogAlias without dnsLogMutationMu.
AddAlias ==
    /\ up
    /\ lifecycleMu = "free"
    /\ hosts' = hosts \cup {ClientRepr(privacy)}
    /\ UNCHANGED <<rows, state, ovEnabled, ovMode, key, up, memory, queue, locks, batch, pc,
                   request, ghosts, bounds>>

-----------------------------------------------------------------------------
(* doInsert, called by the worker when its timer or the full signal fires, *)
(* by the worker when it exits, and by StopLogging.                        *)

\* The actors that are about to call doInsert, or are inside it.
Inserting(p) ==
    \/ p = "worker" /\ pc.worker \in {"idle", "last"}
    \/ p \in {"admin", "shutdown"} /\ pc[p] = "stopping"

\* What the caller does with the result of doInsert.
Returned(p, ok) ==
    /\ pc' = [pc EXCEPT ![p] =
                CASE p = "worker" -> IF pc.worker = "last" THEN "done" ELSE "idle"
                  [] p # "worker" /\ ~ok -> "discard"
                  [] p = "admin" /\ ok -> "idle"
                  [] p = "shutdown" /\ ok -> "closing"]
    /\ lifecycleMu' = IF p # "worker" /\ ok THEN "free" ELSE lifecycleMu
    /\ stopOK' = IF p # "worker" THEN ok ELSE stopOK

\* flushMu is acquired and the queue is taken.
InsertTake(p) ==
    /\ up
    /\ Inserting(p)
    /\ flushMu = "free"
    /\ queue # <<>>
    /\ flushMu' = p
    /\ batch' = queue
    /\ queue' = <<>>
    /\ UNCHANGED <<disk, key, up, memory, lifecycleMu, pc, request, ghosts, bounds>>

\* Mutant: the empty queue is noticed before flushMu is acquired.
InsertNothingUnlocked(p) ==
    /\ up
    /\ Inserting(p)
    /\ pc[p] # "idle"
    /\ flushMu # p
    /\ queue = <<>>
    /\ Returned(p, TRUE)
    /\ UNCHANGED <<disk, key, up, memory, queue, flushMu, batch, request, nextId, gone,
                   clearedBelow, bounds>>

\* With nothing queued doInsert returns at once; nothing changes for the loop of
\* the worker.
InsertNothing(p) ==
    /\ up
    /\ Inserting(p)
    /\ pc[p] # "idle"
    /\ flushMu = "free"
    /\ queue = <<>>
    /\ Returned(p, TRUE)
    /\ UNCHANGED <<disk, key, up, memory, queue, flushMu, batch, request, nextId, gone,
                   clearedBelow, bounds>>

InsertCommit(p) ==
    /\ up
    /\ flushMu = p
    /\ batch # <<>>
    /\ rows' = rows \o batch
    /\ batch' = <<>>
    /\ flushMu' = "free"
    /\ Returned(p, TRUE)
    /\ UNCHANGED <<hosts, state, ovEnabled, ovMode, key, up, memory, queue, request, nextId,
                   gone, clearedBelow, bounds>>

\* Mutants: the events of a failed flush go behind younger ones, or ...
InsertFailBehind(p) ==
    /\ up
    /\ flushMu = p
    /\ batch # <<>>
    /\ WriteFails
    /\ batch' = <<>>
    /\ queue' = queue \o batch
    /\ flushMu' = "free"
    /\ Returned(p, FALSE)
    /\ UNCHANGED <<disk, key, up, memory, request, nextId, gone, clearedBelow>>

\* ... or are put back without releasing flushMu.
InsertFailKeepsLock(p) ==
    /\ up
    /\ flushMu = p
    /\ batch # <<>>
    /\ WriteFails
    /\ batch' = <<>>
    /\ queue' = batch \o queue
    /\ flushMu' = flushMu
    /\ Returned(p, FALSE)
    /\ UNCHANGED <<disk, key, up, memory, request, nextId, gone, clearedBelow>>

\* The transaction fails: the events go back to the front of the queue.
InsertFail(p) ==
    /\ up
    /\ flushMu = p
    /\ batch # <<>>
    /\ WriteFails
    /\ queue' = batch \o queue
    /\ batch' = <<>>
    /\ flushMu' = "free"
    /\ Returned(p, FALSE)
    /\ UNCHANGED <<disk, key, up, memory, request, nextId, gone, clearedBelow>>

\* The worker serves a purge request: rotate deletes the oldest rows.
Rotate ==
    /\ up
    /\ pc.worker = "idle"
    /\ flushMu = "free"
    /\ \E n \in 1..Len(rows) :
          /\ gone' = gone \cup Ids(SubSeq(rows, 1, n))
          /\ rows' = SubSeq(rows, n + 1, Len(rows))
    /\ UNCHANGED <<hosts, state, ovEnabled, ovMode, key, up, memory, queue, locks, batch, pc,
                   request, nextId, stopOK, clearedBelow, bounds>>

-----------------------------------------------------------------------------
(* DNSLogToggle.                                                           *)

\* Mutant: the new state is not persisted.
ToggleStartVolatile ==
    /\ up
    /\ pc.admin = "idle"
    /\ ~requiresClear
    /\ pc' = [pc EXCEPT !.admin = "start"]
    /\ UNCHANGED <<disk, key, up, memory, queue, locks, batch, request, ghosts, bounds>>

\* start: refused while incompatible data are stored, otherwise persisted first.
ToggleStart ==
    /\ up
    /\ pc.admin = "idle"
    /\ ~requiresClear
    /\ ovEnabled' = TRUE
    /\ pc' = [pc EXCEPT !.admin = "start"]
    /\ UNCHANGED <<rows, hosts, state, ovMode, key, up, memory, queue, locks, batch, request,
                   ghosts, bounds>>

StartLogging ==
    /\ up
    /\ pc.admin = "start"
    /\ lifecycleMu = "free"
    /\ ~requiresClear
    /\ enabled' = TRUE
    /\ stopOK' = FALSE
    /\ pc' = [pc EXCEPT !.admin = "idle"]
    /\ UNCHANGED <<disk, key, up, privacy, requiresClear, queue, locks, batch, request, nextId,
                   gone, clearedBelow, bounds>>

ToggleStop ==
    /\ up
    /\ pc.admin = "idle"
    /\ ovEnabled' = FALSE
    /\ pc' = [pc EXCEPT !.admin = "stop"]
    /\ UNCHANGED <<rows, hosts, state, ovMode, key, up, memory, queue, locks, batch, request,
                   ghosts, bounds>>

\* StopLogging, called by DNSLogToggle and by Stop: lifecycleMu is taken and no
\* further event is accepted; doInsert follows.
StopLogging(p) ==
    /\ up
    /\ p \in {"admin", "shutdown"}
    /\ pc[p] = "stop"
    /\ lifecycleMu = "free"
    /\ lifecycleMu' = p
    /\ enabled' = FALSE
    /\ pc' = [pc EXCEPT ![p] = "stopping"]
    /\ UNCHANGED <<disk, key, up, privacy, requiresClear, queue, flushMu, batch, request, ghosts,
                   bounds>>

\* After a failed doInsert StopLogging drops what is queued.  doInsert has put
\* the events back and released flushMu by now.
DiscardQueued(p) ==
    /\ up
    /\ p \in {"admin", "shutdown"}
    /\ pc[p] = "discard"
    /\ gone' = gone \cup Ids(queue)
    /\ queue' = <<>>
    /\ lifecycleMu' = "free"
    /\ pc' = [pc EXCEPT ![p] = IF p = "admin" THEN "idle" ELSE "closing"]
    /\ UNCHANGED <<disk, key, up, memory, flushMu, batch, request, nextId, stopOK, clearedBelow,
                   bounds>>

-----------------------------------------------------------------------------
(* DNSLogPrivacyUpdate.                                                    *)

PrivacyUpdate(mode) ==
    /\ up
    /\ pc.admin = "idle"
    /\ ~enabled
    /\ want' = PrivacyOf(mode, key)
    /\ pc' = [pc EXCEPT !.admin = "set"]
    /\ UNCHANGED <<disk, key, up, memory, queue, locks, batch, counted, ghosts, bounds>>

\* SetPseudonymization takes lifecycleMu, loads the key and counts what is stored.
SetPseudonymization ==
    /\ up
    /\ pc.admin \in {"set", "restore"}
    /\ lifecycleMu = "free"
    /\ ~enabled
    /\ lifecycleMu' = "admin"
    /\ want' = PrivacyOf(want, key)
    /\ counted' = [rows |-> rows # <<>>, hosts |-> hosts # {}]
    /\ pc' = [pc EXCEPT !.admin = IF pc.admin = "set" THEN "setWrite" ELSE "restoreWrite"]
    /\ UNCHANGED <<disk, key, up, memory, queue, flushMu, batch, ghosts, bounds>>

\* The rest of configurePrivacy, deciding on the counts it has read.
ConfigurePrivacy ==
    /\ up
    /\ pc.admin \in {"setWrite", "restoreWrite"}
    /\ privacy' = want
    /\ requiresClear' = Mismatch(state, want, counted.rows, counted.hosts)
    /\ state' = IF requiresClear' THEN state ELSE want
    /\ lifecycleMu' = "free"
    /\ pc' = [pc EXCEPT !.admin = IF pc.admin = "setWrite" THEN "persist" ELSE "idle"]
    /\ UNCHANGED <<rows, hosts, ovEnabled, ovMode, key, up, enabled, queue, flushMu, batch, request,
                   ghosts, bounds>>

\* The state row cannot be written: the settings stay as they were.
ConfigurePrivacyFail ==
    /\ up
    /\ pc.admin \in {"setWrite", "restoreWrite"}
    /\ ~Mismatch(state, want, counted.rows, counted.hosts)
    /\ WriteFails
    /\ lifecycleMu' = "free"
    /\ pc' = [pc EXCEPT !.admin = "idle"]
    /\ UNCHANGED <<disk, key, up, memory, queue, flushMu, batch, request, ghosts>>

\* Mutant: only one of the two settings is persisted.
PersistPrivacyPartly ==
    /\ up
    /\ pc.admin = "persist"
    /\ ovMode' = [ovMode EXCEPT !.domains = want.domains]
    /\ pc' = [pc EXCEPT !.admin = "idle"]
    /\ UNCHANGED <<rows, hosts, state, ovEnabled, key, up, memory, queue, locks, batch, request,
                   ghosts, bounds>>

\* The settings are persisted, and the running configuration follows; ...
PersistPrivacy ==
    /\ up
    /\ pc.admin = "persist"
    /\ ovMode' = [domains |-> want.domains, clients |-> want.clients]
    /\ pc' = [pc EXCEPT !.admin = "idle"]
    /\ UNCHANGED <<rows, hosts, state, ovEnabled, key, up, memory, queue, locks, batch, request,
                   ghosts, bounds>>

\* ... if that fails the previous settings are configured again.
PersistPrivacyFail ==
    /\ up
    /\ pc.admin = "persist"
    /\ WriteFails
    /\ want' = PrivacyOf(ovMode, key)
    /\ pc' = [pc EXCEPT !.admin = "restore"]
    /\ UNCHANGED <<disk, key, up, memory, queue, locks, batch, counted, ghosts>>

-----------------------------------------------------------------------------
(* DNSLogClear.                                                            *)

\* Mutant: Clear does not wait for a flush in progress.
ClearUnlocked ==
    /\ up
    /\ pc.admin = "idle"
    /\ ~enabled
    /\ lifecycleMu = "free"
    /\ lifecycleMu' = "admin"
    /\ gone' = gone \cup Ids(queue)
    /\ queue' = <<>>
    /\ pc' = [pc EXCEPT !.admin = "clearing"]
    /\ UNCHANGED <<disk, key, up, memory, flushMu, batch, request, nextId, stopOK, clearedBelow,
                   bounds>>

\* Clear takes lifecycleMu and flushMu and drops the queue.
Clear ==
    /\ up
    /\ pc.admin = "idle"
    /\ ~enabled
    /\ lifecycleMu = "free" /\ flushMu = "free"
    /\ lifecycleMu' = "admin" /\ flushMu' = "admin"
    /\ gone' = gone \cup Ids(queue)
    /\ queue' = <<>>
    /\ pc' = [pc EXCEPT !.admin = "clearing"]
    /\ UNCHANGED <<disk, key, up, memory, batch, request, nextId, stopOK, clearedBelow, bounds>>

\* One transaction deletes the data and records the configured settings.
ClearCommit ==
    /\ up
    /\ pc.admin = "clearing"
    /\ gone' = gone \cup Ids(rows)
    /\ rows' = <<>>
    /\ hosts' = {}
    /\ state' = privacy
    /\ requiresClear' = FALSE
    /\ clearedBelow' = nextId
    /\ lifecycleMu' = "free" /\ flushMu' = "free"
    /\ pc' = [pc EXCEPT !.admin = "idle"]
    /\ UNCHANGED <<ovEnabled, ovMode, key, up, enabled, privacy, queue, batch, request, nextId,
                   stopOK, bounds>>

ClearFail ==
    /\ up
    /\ pc.admin = "clearing"
    /\ WriteFails
    /\ lifecycleMu' = "free" /\ flushMu' = "free"
    /\ pc' = [pc EXCEPT !.admin = "idle"]
    /\ UNCHANGED <<disk, key, up, memory, queue, batch, request, ghosts>>

-----------------------------------------------------------------------------
(* Stop, the orderly shutdown of the process.                              *)

Stop ==
    /\ up
    /\ pc.shutdown = "run"
    /\ pc' = [pc EXCEPT !.shutdown = "stop"]
    /\ UNCHANGED <<disk, key, up, memory, queue, locks, batch, request, ghosts, bounds>>

\* mustExit is closed: the worker leaves its loop for a last doInsert.
WorkerExit ==
    /\ up
    /\ pc.shutdown = "closing"
    /\ pc.worker = "idle"
    /\ flushMu # "worker"
    /\ pc' = [pc EXCEPT !.worker = "last"]
    /\ UNCHANGED <<disk, key, up, memory, queue, locks, batch, request, ghosts, bounds>>

\* done is closed, Stop closes the database and the process ends.
ProcessExit ==
    /\ up
    /\ pc.shutdown = "closing"
    /\ pc.worker = "done"
    /\ up' = FALSE
    /\ gone' = gone \cup Ids(batch \o queue)
    /\ queue' = <<>> /\ batch' = <<>>
    /\ lifecycleMu' = "free" /\ flushMu' = "free"
    /\ pc' = [admin |-> "idle", shutdown |-> "run", worker |-> "idle"]
    /\ enabled' = FALSE
    /\ stopOK' = FALSE
    /\ UNCHANGED <<disk, key, privacy, requiresClear, request, nextId, clearedBelow, bounds>>

-----------------------------------------------------------------------------
Worker ==
    \/ InsertTake("worker") \/ InsertNothing("worker")
    \/ InsertCommit("worker") \/ InsertFail("worker")

AdminStep ==
    \/ StartLogging
    \/ StopLogging("admin") \/ InsertTake("admin") \/ InsertNothing("admin")
    \/ InsertCommit("admin") \/ InsertFail("admin") \/ DiscardQueued("admin")
    \/ SetPseudonymization \/ ConfigurePrivacy \/ ConfigurePrivacyFail
    \/ PersistPrivacy \/ PersistPrivacyFail
    \/ ClearCommit \/ ClearFail

ShutdownStep ==
    \/ StopLogging("shutdown") \/ InsertTake("shutdown") \/ InsertNothing("shutdown")
    \/ InsertCommit("shutdown") \/ InsertFail("shutdown") \/ DiscardQueued("shutdown")
    \/ ProcessExit

Next ==
    \/ Restart \/ Crash \/ ChangeKey
    \/ Run \/ AddAlias
    \/ Worker \/ WorkerExit \/ Rotate
    \/ ToggleStart \/ ToggleStop \/ Clear
    \/ \E mode \in Modes : PrivacyUpdate(mode)
    \/ AdminStep
    \/ Stop \/ ShutdownStep

Spec == Init /\ [][Next]_vars

\* The worker's timer fires again and again, and goroutines that have started
\* are scheduled.  Go's mutexes are starvation free (a waiter that has waited for
\* 1ms is handed the lock), so steps that acquire a lock get strong fairness.
\* Nobody is obliged to send queries or requests.
Fairness ==
    /\ SF_vars(InsertTake("worker") \/ InsertNothing("worker"))
    /\ WF_vars(Worker)
    /\ WF_vars(WorkerExit)
    /\ WF_vars(AdminStep)
    /\ SF_vars(StopLogging("shutdown"))
    /\ WF_vars(ShutdownStep)

FairSpec == Spec /\ Fairness

-----------------------------------------------------------------------------
(* Properties.                                                             *)

\* Every event is stored at most once and in the order of acceptance, whoever
\* flushes and however often a flush fails and puts its events back in front of
\* younger ones (doInsert, requeue on error).  None disappears except by
\* rotation, Clear, the discard of a failed stop, or the end of the process, and
\* none of those comes back.
Accounted ==
    /\ \A i, j \in DOMAIN Log : i < j => Log[i].id < Log[j].id
    /\ Ids(Log) = (1 .. nextId - 1) \ gone

\* "Stop is a write barrier" (docs/configuration.md): once StopLogging has
\* returned without error nothing is waiting to be written, not even events the
\* worker had taken when the stop began or whose earlier flush had failed.
StopBarrier == stopOK => queue = <<>> /\ batch = <<>>

\* A Clear that succeeded also got the events that were queued or in flight: no
\* event accepted before it is ever stored after it.
ClearBarrier == \A e \in Ids(Log) : e >= clearedBelow

\* Logging never runs while incompatible data are stored, and the conflict check
\* of DNSLogToggle cannot go stale before StartLogging repeats it, so the
\* handler never has to take back the override it has written.
NeverStartsIncompatible ==
    /\ enabled => ~requiresClear
    /\ pc.admin = "start" => ~requiresClear

\* "The selected start/stop state survives restart" (docs/configuration.md): when
\* the log is running, a restart at this point would find it switched on.
ChoiceSurvives ==
    enabled => ovEnabled \/ pc.admin \in {"stop", "stopping"}

\* The privacy settings in use are the persisted ones whenever no privacy request
\* is in progress: a restart changes neither mode.  One failing write on the way,
\* be it that of the overrides, does not change that: DNSLogPrivacyUpdate takes
\* the settings back.
PrivacySurvives ==
    up /\ faults <= 1 /\ pc.admin \notin {"setWrite", "persist", "restore", "restoreWrite"}
        => privacy.domains = ovMode.domains /\ privacy.clients = ovMode.clients

\* The events of s have the representation the settings p produce.
Compatible(s, p) ==
    \A i \in DOMAIN s : s[i].dom = DomainRepr(p) /\ s[i].cli = ClientRepr(p)

\* As long as no write has failed, every stored, queued or in-flight event has
\* the representation of the settings in use, unless the process reports that
\* the data must be cleared.
EventsCompatible ==
    up /\ ~requiresClear /\ faults = 0 =>
        /\ Compatible(rows, privacy)
        /\ Compatible(batch, privacy)
        /\ Compatible(queue, privacy)

\* What is queued is written or discarded eventually, and an orderly shutdown
\* ends, whatever requests it overlaps with: neither waits for the other.
FlushesAndStops ==
    /\ \A i \in 1..MaxEvents : (i \in Ids(queue)) ~> (i \notin Ids(batch \o queue))
    /\ (pc.shutdown = "stop") ~> ~up

=============================================================================
