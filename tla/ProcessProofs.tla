---------------------------- MODULE ProcessProofs ---------------------------
(***************************************************************************)
(* Proofs about Process, with the requests of Overrides: for any number of *)
(* migrations and targets, any configuration, any tasks, requests, kinds   *)
(* of settings and values.                                                 *)
(***************************************************************************)
EXTENDS Process, TLAPS

-----------------------------------------------------------------------------
(* Bootstrap: two processes and one database.                              *)

Modes == {"absent", "public", "private", "odd"}
Migrating == {"open", "check", "apply", "record"}
UsingSchema ==
    {"overrides", "sessions", "servers", "serving", "stopDNS", "drainDNS", "stopHTTP",
     "stopScheduler", "closeSessions", "closeTagger", "stopLog", "exit", "ready"}
Stages == {"idle", "configure", "prepare", "protect", "done"} \cup Migrating \cup UsingSchema

AllMigrations == {Migrations[i] : i \in DOMAIN Migrations}

\* What the variables of Bootstrap are.
BootType ==
    /\ stage \in [Processes -> Stages]
    /\ at \in [Processes -> 1 .. Len(Migrations) + 1]
    /\ files \in [{"db", "wal"} -> Modes]
    /\ recorded \subseteq AllMigrations

\* The write lock: the draft belongs to the one process that has executed a
\* migration and not recorded it yet, and is what that process will commit.
DraftInv ==
    /\ schema = recorded
    /\ draft.by \in Processes => stage[draft.by] = "record"
    /\ \A p \in Processes : stage[p] = "record" =>
         draft = [by |-> p, schema |-> recorded \cup {Migrations[at[p]]}]

\* How far each process has come: the migrations before the one it is at have
\* been recorded, by whomever, and rows of schema_migrations stay.
ProgressInv ==
    /\ \A p \in Processes : stage[p] \in Migrating => at[p] \in 1 .. Len(Migrations)
    /\ \A p \in Processes : stage[p] \in {"configure", "prepare"} => at[p] = 1
    /\ \A p \in Processes : stage[p] \in UsingSchema \cup {"protect"} => at[p] = Len(Migrations) + 1
    /\ \A p \in Processes : \A i \in 1 .. at[p] - 1 : Migrations[i] \in recorded

\* The database file that a process has opened stays; once it is private, what
\* SQLite creates next to it is private too.
FilesInv ==
    /\ \A p \in Processes :
         stage[p] \in {"check", "apply", "record", "protect"} => files["db"] # "absent"
    /\ \A p \in Processes :
         stage[p] \in UsingSchema => files["db"] = "private" /\ files["wal"] \in {"absent", "private"}

BootInv == BootType /\ DraftInv /\ ProgressInv /\ FilesInv

LEMMA MigrationsSeq ==
    /\ Len(Migrations) \in Nat /\ Len(Migrations) > 0
    /\ DOMAIN Migrations = 1 .. Len(Migrations)
    /\ 1 \in TargetStarts
    /\ Serve # Admin /\ NoProcess \notin Processes
BY ProcessAssumption DEF ProcessAssumption

\* Nothing is being migrated at the start, and the tables have what is recorded.
LEMMA BootInit == ProcessInit => BootInv
<1> SUFFICES ASSUME ProcessInit PROVE BootInv
    OBVIOUS
<1> USE MigrationsSeq
<1>1. PICK n \in 0..Len(Migrations) : recorded = {Migrations[i] : i \in 1..n}
    BY DEF ProcessInit
<1>2. recorded \subseteq AllMigrations
    BY <1>1 DEF AllMigrations
<1>3. BootType
    BY <1>2 DEF ProcessInit, BootType, Modes, Stages
<1>4. DraftInv
    BY DEF ProcessInit, DraftInv, NoDraft
<1>5. ProgressInv
    BY DEF ProcessInit, ProgressInv, Migrating, UsingSchema
<1>6. FilesInv
    BY DEF ProcessInit, FilesInv, UsingSchema
<1> QED
    BY <1>3, <1>4, <1>5, <1>6 DEF BootInv

\* A process that is gone, in whatever way, takes its draft with it.
LEMMA GoneBoot ==
    ASSUME BootInv, NEW p \in Processes, NEW how, Gone(p, how)
    PROVE  BootInv'
<1> DEFINE after == IF p = Serve THEN "idle" ELSE "done"
<1>1. /\ stage' = [stage EXCEPT ![p] = after]
      /\ after \in {"idle", "done"}
      /\ draft' = IF draft.by = p THEN NoDraft ELSE draft
      /\ UNCHANGED <<at, files, schema, recorded>>
    BY DEF Gone
<1> HIDE DEF after
<1> USE MigrationsSeq DEF BootInv
<1>2. BootType'
    BY <1>1 DEF BootType, Stages
<1>3. DraftInv'
    <2>1. ASSUME NEW q \in Processes, stage'[q] = "record"
          PROVE  draft' = [by |-> q, schema |-> recorded' \cup {Migrations[at'[q]]}]
        <3>1. q # p /\ stage[q] = "record"
            BY <1>1, <2>1 DEF BootType
        <3>2. draft = [by |-> q, schema |-> recorded \cup {Migrations[at[q]]}]
            BY <3>1 DEF DraftInv
        <3>3. draft.by # p
            BY <3>1, <3>2
        <3> QED
            BY <1>1, <3>2, <3>3
    <2>2. ASSUME draft'.by \in Processes PROVE stage'[draft'.by] = "record"
        <3>1. NoDraft.by \notin Processes
            BY DEF NoDraft
        <3>2. draft' = draft /\ draft.by # p
            BY <1>1, <2>2, <3>1
        <3> QED
            BY <1>1, <2>2, <3>2 DEF DraftInv, BootType
    <2> QED
        BY <1>1, <2>1, <2>2 DEF DraftInv
<1>4. ProgressInv'
    BY <1>1 DEF ProgressInv, BootType, Migrating, UsingSchema
<1>5. FilesInv'
    BY <1>1 DEF FilesInv, BootType, UsingSchema
<1> QED
    BY <1>2, <1>3, <1>4, <1>5

\* A process that has passed Bootstrap goes on, or a step does not concern it.
LEMMA PassedBoot ==
    ASSUME BootInv, UNCHANGED <<at, files, schema, recorded, draft>>,
           \/ UNCHANGED stage
           \/ \E p \in Processes : \E s \in UsingSchema \cup {"done"} :
                stage[p] \in UsingSchema /\ stage' = [stage EXCEPT ![p] = s]
    PROVE  BootInv'
<1> USE MigrationsSeq DEF BootInv
<1>1. BootType'
    BY DEF BootType, Stages
<1>2. DraftInv'
    BY DEF DraftInv, BootType, UsingSchema
<1>3. ProgressInv'
    BY DEF ProgressInv, BootType, Migrating, UsingSchema
<1>4. FilesInv'
    BY DEF FilesInv, BootType, UsingSchema
<1> QED
    BY <1>1, <1>2, <1>3, <1>4

\* The next migration: what has been passed is recorded.
LEMMA OnwardBoot ==
    ASSUME BootInv, NEW p \in Processes, stage[p] \in {"check", "record"}, Onward(p),
           recorded \subseteq recorded', recorded' \subseteq AllMigrations,
           Migrations[at[p]] \in recorded'
    PROVE  /\ BootType' /\ ProgressInv' /\ FilesInv'
           /\ stage' = [stage EXCEPT ![p] = stage'[p]]
           /\ stage'[p] \in {"check", "open", "protect"}
           /\ at' = [at EXCEPT ![p] = at'[p]]
<1> DEFINE i == at[p] + 1
<1> USE MigrationsSeq DEF BootInv
<1>1. i \in 2 .. Len(Migrations) + 1 /\ at' = [at EXCEPT ![p] = i]
    BY DEF Onward, ProgressInv, Migrating, BootType
<1>2. PICK s \in {"check", "open", "protect"} :
        /\ stage' = [stage EXCEPT ![p] = s]
        /\ s \in {"check", "open"} => i \in 1 .. Len(Migrations)
        /\ s = "protect" => i = Len(Migrations) + 1
    BY <1>1 DEF Onward, Proceed
<1>3. files' = files \/ files' = [files EXCEPT !["wal"] = "absent"]
    BY DEF Onward
<1> HIDE DEF i
<1>4. BootType'
    BY <1>1, <1>2, <1>3 DEF BootType, Stages, Migrating, Modes
<1>5. ProgressInv'
    <2>1. \A q \in Processes : stage'[q] \in Migrating => at'[q] \in 1 .. Len(Migrations)
        BY <1>1, <1>2 DEF ProgressInv, BootType, Migrating
    <2>2. \A q \in Processes : stage'[q] \in {"configure", "prepare"} => at'[q] = 1
        BY <1>1, <1>2 DEF ProgressInv, BootType
    <2>3. \A q \in Processes : stage'[q] \in UsingSchema \cup {"protect"} => at'[q] = Len(Migrations) + 1
        BY <1>1, <1>2 DEF ProgressInv, BootType, UsingSchema
    <2>4. \A q \in Processes : \A j \in 1 .. at'[q] - 1 : Migrations[j] \in recorded'
        <3> SUFFICES ASSUME NEW q \in Processes, NEW j \in 1 .. at'[q] - 1
                     PROVE  Migrations[j] \in recorded'
            OBVIOUS
        <3>1. CASE q = p
            <4>1. at'[p] = at[p] + 1 /\ at[p] \in Nat
                BY <1>1 DEF BootType, i
            <4>2. j \in 1 .. at[p] - 1 \/ j = at[p]
                BY <3>1, <4>1
            <4> QED
                BY <4>2 DEF ProgressInv
        <3>2. CASE q # p
            BY <3>2, <1>1 DEF ProgressInv, BootType
        <3> QED
            BY <3>1, <3>2
    <2> QED
        BY <2>1, <2>2, <2>3, <2>4 DEF ProgressInv
<1>6. FilesInv'
    BY <1>2, <1>3 DEF FilesInv, BootType, UsingSchema
<1> QED
    BY <1>1, <1>2, <1>4, <1>5, <1>6 DEF BootType

LEMMA LaunchBoot == ASSUME BootInv, NEW p \in Processes, Launch(p) PROVE BootInv'
<1>1. /\ stage[p] = "idle" /\ stage' = [stage EXCEPT ![p] = "configure"]
      /\ at' = [at EXCEPT ![p] = 1]
      /\ UNCHANGED <<files, schema, recorded, draft>>
    BY DEF Launch, Proceed, database
<1> USE MigrationsSeq, <1>1 DEF BootInv, BootType
<1>2. BootType'
    BY DEF Stages
<1>3. DraftInv'
    BY DEF DraftInv
<1>4. ProgressInv'
    BY DEF ProgressInv, Migrating, UsingSchema
<1>5. FilesInv'
    BY DEF FilesInv, UsingSchema
<1> QED
    BY <1>2, <1>3, <1>4, <1>5

LEMMA ConfigureBoot == ASSUME BootInv, ConfigureServe \/ ConfigureAdmin PROVE BootInv'
<1>1. CASE Fatal(Serve)
    BY <1>1, GoneBoot DEF Fatal, Processes
<1>2. CASE \E p \in Processes : /\ stage[p] = "configure" /\ stage' = [stage EXCEPT ![p] = "prepare"]
                               /\ UNCHANGED <<at, files, schema, recorded, draft>>
    <2> USE MigrationsSeq, <1>2 DEF BootInv, BootType
    <2>1. BootType'
        BY DEF Stages
    <2>2. DraftInv'
        BY DEF DraftInv
    <2>3. ProgressInv'
        BY DEF ProgressInv, Migrating, UsingSchema
    <2>4. FilesInv'
        BY DEF FilesInv, UsingSchema
    <2> QED
        BY <2>1, <2>2, <2>3, <2>4
<1> QED
    BY <1>1, <1>2 DEF ConfigureServe, ConfigureAdmin, Proceed, Processes, database

LEMMA PrepareBoot == ASSUME BootInv, NEW p \in Processes, Prepare(p) PROVE BootInv'
<1>1. CASE Fatal(p)
    BY <1>1, GoneBoot DEF Fatal
<1>2. CASE /\ stage[p] = "prepare" /\ stage' = [stage EXCEPT ![p] = "open"]
           /\ files' = Protected(files)
           /\ UNCHANGED <<at, schema, recorded, draft>>
    <2> USE MigrationsSeq, <1>2 DEF BootInv, BootType
    <2>0. files' \in [{"db", "wal"} -> Modes]
          /\ (files["db"] # "absent" => files'["db"] = "private")
          /\ (files["wal"] \in {"absent", "private"} => files'["wal"] \in {"absent", "private"})
        BY DEF Protected, Modes
    <2>1. BootType'
        BY <2>0 DEF Stages, Migrating
    <2>2. DraftInv'
        BY DEF DraftInv
    <2>3. ProgressInv'
        BY DEF ProgressInv, Migrating, UsingSchema
    <2>4. FilesInv'
        BY <2>0 DEF FilesInv, UsingSchema
    <2> QED
        BY <2>1, <2>2, <2>3, <2>4
<1> QED
    BY <1>1, <1>2 DEF Prepare, Proceed

LEMMA OpenBoot == ASSUME BootInv, NEW p \in Processes, OpenDatabase(p) PROVE BootInv'
<1>1. /\ stage[p] = "open" /\ stage' = [stage EXCEPT ![p] = "check"]
      /\ UNCHANGED <<at, schema, recorded, draft>>
    BY DEF OpenDatabase, Proceed
<1>2. /\ files' \in [{"db", "wal"} -> Modes]
      /\ files'["db"] # "absent"
      /\ files["db"] = "private" /\ files["wal"] \in {"absent", "private"}
            => files'["db"] = "private" /\ files'["wal"] = "private"
    BY DEF OpenDatabase, NewFile, BootInv, BootType, Modes
<1> USE MigrationsSeq, <1>1, <1>2 DEF BootInv, BootType
<1>3. BootType'
    BY DEF Stages, Migrating
<1>4. DraftInv'
    BY DEF DraftInv
<1>5. ProgressInv'
    BY DEF ProgressInv, Migrating, UsingSchema
<1>6. FilesInv'
    BY DEF FilesInv, UsingSchema
<1> QED
    BY <1>3, <1>4, <1>5, <1>6

LEMMA CheckBoot == ASSUME BootInv, NEW p \in Processes, Check(p) PROVE BootInv'
<1>1. stage[p] = "check" /\ UNCHANGED <<schema, recorded, draft>>
    BY DEF Check
<1> USE MigrationsSeq, <1>1 DEF BootInv
<1>2. CASE Migrations[at[p]] \in recorded
    <2>1. Onward(p)
        BY <1>2 DEF Check
    <2>2. /\ BootType' /\ ProgressInv' /\ FilesInv'
          /\ stage' = [stage EXCEPT ![p] = stage'[p]]
          /\ stage'[p] \in {"check", "open", "protect"}
          /\ at' = [at EXCEPT ![p] = at'[p]]
        BY <1>2, <2>1, OnwardBoot DEF BootType
    <2>3. DraftInv'
        BY <2>2 DEF DraftInv, BootType
    <2> QED
        BY <2>2, <2>3
<1>3. CASE Migrations[at[p]] \notin recorded
    <2>1. stage' = [stage EXCEPT ![p] = "apply"] /\ UNCHANGED <<at, files>>
        BY <1>3 DEF Check, Proceed
    <2>2. BootType'
        BY <2>1 DEF BootType, Stages, Migrating
    <2>3. DraftInv'
        BY <2>1 DEF DraftInv, BootType
    <2>4. ProgressInv'
        BY <2>1 DEF ProgressInv, BootType, Migrating, UsingSchema
    <2>5. FilesInv'
        BY <2>1 DEF FilesInv, BootType, UsingSchema
    <2> QED
        BY <2>2, <2>3, <2>4, <2>5
<1> QED
    BY <1>2, <1>3

\* One process at a time has the write lock, and its draft starts from what is
\* committed at that moment.
LEMMA ApplyBoot == ASSUME BootInv, NEW p \in Processes, ApplyMigration(p) PROVE BootInv'
<1>1. CASE Fatal(p)
    BY <1>1, GoneBoot DEF Fatal
<1>2. CASE /\ stage[p] = "apply" /\ draft = NoDraft
           /\ stage' = [stage EXCEPT ![p] = "record"]
           /\ draft' = [by |-> p, schema |-> schema \cup {Migrations[at[p]]}]
           /\ UNCHANGED <<at, files, schema, recorded>>
    <2> USE MigrationsSeq, <1>2 DEF BootInv
    <2>1. BootType'
        BY DEF BootType, Stages, Migrating
    <2>2. DraftInv'
        <3>1. \A q \in Processes : stage[q] # "record"
            BY DEF DraftInv, NoDraft
        <3> QED
            BY <3>1 DEF DraftInv, BootType
    <2>3. ProgressInv'
        BY DEF ProgressInv, BootType, Migrating, UsingSchema
    <2>4. FilesInv'
        BY DEF FilesInv, BootType, UsingSchema
    <2> QED
        BY <2>1, <2>2, <2>3, <2>4
<1> QED
    BY <1>1, <1>2 DEF ApplyMigration, Proceed

\* The commit: tables and schema_migrations get the migration together.
LEMMA RecordBoot == ASSUME BootInv, NEW p \in Processes, Record(p) PROVE BootInv'
<1>1. CASE Fatal(p)
    BY <1>1, GoneBoot DEF Fatal
<1>2. CASE /\ stage[p] = "record"
           /\ recorded' = recorded \cup {Migrations[at[p]]}
           /\ schema' = draft.schema
           /\ draft' = NoDraft
           /\ Onward(p)
    <2> USE MigrationsSeq, <1>2 DEF BootInv
    <2>1. draft = [by |-> p, schema |-> recorded \cup {Migrations[at[p]]}]
        BY DEF DraftInv
    <2>2. at[p] \in DOMAIN Migrations
        BY DEF ProgressInv, Migrating
    <2>3. recorded' \subseteq AllMigrations
        BY <2>2 DEF BootType, AllMigrations
    <2>4. /\ BootType' /\ ProgressInv' /\ FilesInv'
          /\ stage' = [stage EXCEPT ![p] = stage'[p]]
          /\ stage'[p] \in {"check", "open", "protect"}
        BY <2>3, OnwardBoot
    <2>5. \A q \in Processes : stage'[q] # "record"
        <3>1. \A q \in Processes : stage[q] = "record" => q = p
            BY <2>1 DEF DraftInv
        <3> QED
            BY <3>1, <2>4 DEF BootType
    <2>6. DraftInv'
        BY <2>1, <2>5 DEF DraftInv, NoDraft
    <2> QED
        BY <2>4, <2>6
<1> QED
    BY <1>1, <1>2 DEF Record

LEMMA ProtectBoot == ASSUME BootInv, NEW p \in Processes, Protect(p) PROVE BootInv'
<1>1. PICK s \in {"overrides", "ready"} :
        /\ stage[p] = "protect" /\ stage' = [stage EXCEPT ![p] = s]
        /\ files' = Protected(files)
        /\ UNCHANGED <<at, schema, recorded, draft>>
    BY DEF Protect, Proceed
<1> USE MigrationsSeq, <1>1 DEF BootInv, BootType
<1>2. files' \in [{"db", "wal"} -> Modes] /\ files["db"] # "absent"
      /\ files'["db"] = "private" /\ files'["wal"] \in {"absent", "private"}
    BY DEF FilesInv, Protected, Modes
<1>3. BootType'
    BY <1>2 DEF Stages, UsingSchema
<1>4. DraftInv'
    BY DEF DraftInv
<1>5. ProgressInv'
    BY DEF ProgressInv, Migrating, UsingSchema
<1>6. FilesInv'
    BY <1>2 DEF FilesInv, UsingSchema
<1> QED
    BY <1>3, <1>4, <1>5, <1>6

\* What happens after Bootstrap leaves the database as it is.
LEMMA ServiceBoot ==
    ASSUME BootInv,
           \/ AdminDone \/ LoadOverrides \/ OpenSessions \/ StartServers
           \/ Listen \/ Arrive \/ Answered \/ Flush \/ Request
           \/ \E t \in Tasks : Job(t)
           \/ Shutdown
    PROVE  BootInv'
<1>1. CASE \E how : Gone(Serve, how)
    BY <1>1, GoneBoot DEF Processes
<1> DEFINE Passed ==
        /\ UNCHANGED <<at, files, schema, recorded, draft>>
        /\ \/ UNCHANGED stage
           \/ \E p \in Processes : \E s \in UsingSchema \cup {"done"} :
                stage[p] \in UsingSchema /\ stage' = [stage EXCEPT ![p] = s]
<1>2. CASE Passed
    BY <1>2, PassedBoot
<1>3. CASE AdminDone \/ LoadOverrides \/ OpenSessions \/ StartServers
    <2>1. Passed \/ Fatal(Serve)
        BY <1>3 DEF AdminDone, LoadOverrides, OpenSessions, StartServers, Proceed, Processes, UsingSchema,
                    database, servers
    <2> QED
        BY <1>1, <1>2, <2>1 DEF Fatal
<1>4. CASE Listen \/ Arrive \/ Answered \/ Flush \/ Request \/ \E t \in Tasks : Job(t)
    <2>1. Passed \/ Fatal(Serve)
        BY <1>4 DEF Listen, Arrive, Answered, Flush, Request, Job, process, database
    <2> QED
        BY <1>1, <1>2, <2>1 DEF Fatal
<1>5. CASE Shutdown
    <2>1. Passed \/ Fatal(Serve) \/ OsExit
        BY <1>5 DEF Shutdown, Signal, StopDNS, DNSStopped, StopHTTP, StopScheduler, CloseSessions, CloseTagger,
                    StopLog, CloseStore, NextStage, Proceed, Processes, UsingSchema, database
    <2> QED
        BY <1>1, <1>2, <2>1 DEF Fatal, OsExit
<1> QED
    BY <1>3, <1>4, <1>5

LEMMA BootStep == BootInv /\ [ProcessNext]_allVars => BootInv'
<1> SUFFICES ASSUME BootInv, [ProcessNext]_allVars PROVE BootInv'
    OBVIOUS
<1>1. CASE UNCHANGED allVars
    BY <1>1, PassedBoot DEF allVars, process, database
<1>2. ASSUME NEW p \in Processes, Kill(p) PROVE BootInv'
    BY <1>2, GoneBoot DEF Kill
<1> QED
    BY <1>1, <1>2, LaunchBoot, PrepareBoot, OpenBoot, CheckBoot, ApplyBoot, RecordBoot, ProtectBoot,
       ConfigureBoot, ServiceBoot DEF ProcessNext

\* Bootstrap (internal/db): whatever tdns serve and tdns adm password do to one
\* database at the same time, and wherever either ends, tables and
\* schema_migrations agree, and who has passed Bootstrap has the whole schema in
\* files that nobody else reads.
THEOREM SchemaIsReady == ProcessSpec => []SchemaBeforeUse
<1>1. BootInv => SchemaBeforeUse
    <2> SUFFICES ASSUME BootInv, NEW p \in Processes, Booted(p)
                 PROVE  /\ schema = AllMigrations
                        /\ "public" \notin {files[x] : x \in DOMAIN files}
        BY DEF BootInv, DraftInv, SchemaBeforeUse, AllMigrations
    <2> USE MigrationsSeq DEF BootInv
    <2>1. stage[p] \in UsingSchema
        BY DEF Booted, BootType, Stages, Migrating
    <2>2. at[p] = Len(Migrations) + 1
        BY <2>1 DEF ProgressInv
    <2>3. \A i \in DOMAIN Migrations : Migrations[i] \in recorded
        BY <2>2 DEF ProgressInv
    <2>4. schema = AllMigrations
        BY <2>3 DEF DraftInv, BootType, AllMigrations
    <2>5. "public" \notin {files[x] : x \in DOMAIN files}
        BY <2>1 DEF FilesInv, BootType
    <2> QED
        BY <2>4, <2>5
<1> QED
    BY <1>1, BootInit, BootStep, PTL DEF ProcessSpec

-----------------------------------------------------------------------------
(* Shutdown: serve takes its parts down in an order.                       *)

Closing == {"closeSessions", "closeTagger", "stopLog", "exit"}
HttpStopped == Closing \cup {"stopScheduler"}
DNSDrained == HttpStopped \cup {"stopHTTP"}
JobStates == {"idle", "waiting", "running"}

NoRequest == \A r \in Requests : pc[r] = "idle"

\* At each stage, what has come to its end and cannot begin again.
ShutdownInv ==
    /\ stage \in [Processes -> Stages]
    /\ queries \in Nat
    /\ pc \in [Requests -> {"idle", "delete", "upsert", "install"}]
    /\ jobs \in [Tasks -> JobStates]
    /\ stage[Serve] \in DNSDrained => ~listening /\ queries = 0
    /\ stage[Serve] = "drainDNS" => ~listening
    /\ stage[Serve] \in HttpStopped => cut \/ NoRequest
    /\ stage[Serve] \in Closing => JobsDone
    /\ closed # {} => stage[Serve] \in Closing
    /\ stage[Serve] = "exit" => events \in {"saved", "dropped"}
    /\ exit # "lossy"

LEMMA ShutdownInit == ProcessInit => ShutdownInv
BY DEF ProcessInit, Init, ShutdownInv, Stages, JobStates, DNSDrained, HttpStopped, Closing, Processes, JobsDone

\* The process is gone, and with it all that ran in it.
LEMMA GoneShutdown ==
    ASSUME ShutdownInv, NEW p \in Processes, NEW how, how # "lossy", Gone(p, how)
    PROVE  ShutdownInv'
<1> USE MigrationsSeq DEF Processes, Stages
<1>1. CASE p = Serve
    BY <1>1 DEF Gone, End, ShutdownInv, JobStates, DNSDrained, HttpStopped, Closing, JobsDone, NoRequest
<1>2. CASE p # Serve
    BY <1>2 DEF Gone, vars, request, ShutdownInv, JobStates, DNSDrained, HttpStopped, Closing, JobsDone, NoRequest
<1> QED
    BY <1>1, <1>2

\* A start-up stage of either process, or a stage of the other one.
LEMMA StartUpShutdown ==
    ASSUME ShutdownInv,
           UNCHANGED <<pc, listening, queries, events, jobs, closed, cut>>,
           exit' \in {exit, "none"},
           \E p \in Processes : \E s \in Stages :
                /\ stage' = [stage EXCEPT ![p] = s]
                /\ p = Serve => /\ s \notin DNSDrained \cup {"drainDNS"}
                                /\ stage[Serve] \notin Closing
    PROVE  ShutdownInv'
BY MigrationsSeq DEF ShutdownInv, JobStates, DNSDrained, HttpStopped, Closing, JobsDone, NoRequest, Processes

LEMMA BootShutdown ==
    ASSUME ShutdownInv, NEW p \in Processes,
           \/ Launch(p) \/ Prepare(p) \/ OpenDatabase(p) \/ Check(p)
           \/ ApplyMigration(p) \/ Record(p) \/ Protect(p) \/ Kill(p)
           \/ ConfigureServe \/ ConfigureAdmin \/ AdminDone
           \/ LoadOverrides \/ OpenSessions \/ StartServers
    PROVE  ShutdownInv'
<1> DEFINE Step ==
        /\ UNCHANGED <<pc, listening, queries, events, jobs, closed, cut>>
        /\ exit' \in {exit, "none"}
        /\ \E q \in Processes : \E s \in Stages :
                /\ stage' = [stage EXCEPT ![q] = s]
                /\ q = Serve => /\ s \notin DNSDrained \cup {"drainDNS"}
                                /\ stage[Serve] \notin Closing
<1>1. CASE \E q \in Processes : Fatal(q) \/ Kill(q)
    BY <1>1, GoneShutdown DEF Fatal, Kill
<1>2. CASE Step
    BY <1>2, StartUpShutdown
<1> USE DEF Proceed, vars, request, servers, database, Processes, Stages, Migrating, UsingSchema,
            DNSDrained, HttpStopped, Closing
<1>3. CASE Launch(p) \/ Prepare(p) \/ OpenDatabase(p) \/ Protect(p)
    <2>1. Step \/ Fatal(p)
        BY <1>3 DEF Launch, Prepare, OpenDatabase, Protect
    <2> QED
        BY <1>1, <1>2, <2>1
<1>4. CASE Check(p) \/ ApplyMigration(p) \/ Record(p)
    <2>1. Step \/ Fatal(p)
        BY <1>4 DEF Check, ApplyMigration, Record, Onward
    <2> QED
        BY <1>1, <1>2, <2>1
<1>5. CASE ConfigureServe \/ ConfigureAdmin \/ AdminDone
    <2>1. Step \/ Fatal(Serve)
        BY <1>5, MigrationsSeq DEF ConfigureServe, ConfigureAdmin, AdminDone
    <2> QED
        BY <1>1, <1>2, <2>1
<1>6. CASE LoadOverrides \/ OpenSessions \/ StartServers
    <2>1. Step \/ Fatal(Serve)
        BY <1>6 DEF LoadOverrides, Start, OpenSessions, StartServers
    <2> QED
        BY <1>1, <1>2, <2>1
<1> QED
    BY <1>1, <1>3, <1>4, <1>5, <1>6

\* Every handler of persisted values starts with one of two steps.
LEMMA HandlersBegin ==
    ASSUME NEW r, NEW k, NEW set, BeginReplace(r, k, set) \/ CacheToggle(r, k, set)
    PROVE  \E v \in {set, Normal(set)} : \E s \in {"delete", "upsert"} : Begin(r, k, v, s)
<1>1. \E v \in {set, Normal(set)} : Begin(r, k, v, "delete") \/ Begin(r, k, v, "upsert")
    BY DEF BeginReplace, CacheToggle, StaticResponseReplacePersisted, ZenPersistedReplace,
           BlacklistReplacePersisted, CacheReplaceExcludes
<1> QED
    BY <1>1

\* A request begins only while the HTTP server accepts, and a handler's step is
\* one of a request that is under way.
LEMMA RequestShutdown == ASSUME ShutdownInv, Request PROVE ShutdownInv'
<1>1. UNCHANGED <<stage, listening, queries, events, jobs, closed, cut, exit>>
    BY DEF Request, process, servers
<1>2. pc' \in [Requests -> {"idle", "delete", "upsert", "install"}]
      /\ (HttpAccepts \/ (NoRequest => NoRequest'))
    <2>1. CASE HttpAccepts /\ Accept
        <3> USE DEF ShutdownInv
        <3>1. CASE UNCHANGED pc
            BY <3>1, <2>1
        <3>2. CASE \E r \in Requests : \E k \in Kinds : \E set \in Submitted[k] :
                      BeginReplace(r, k, set) \/ CacheToggle(r, k, set)
            BY <3>2, <2>1, HandlersBegin DEF Begin
        <3> QED
            BY <2>1, <3>1, <3>2 DEF Accept, StaticResponseReplace, ZenDomainsReplace, ReplaceRuntime, request
    <2>2. CASE Handle
        BY <2>2 DEF Handle, DeleteByKind, Upsert, Written, WriteFail, InstallHosts, InstallList, Answer,
                    ShutdownInv, NoRequest
    <2> QED
        BY <2>1, <2>2 DEF Request
<1>3. stage[Serve] \in HttpStopped => ~HttpAccepts
    BY DEF HttpStopped, Closing, HttpAccepts
<1> QED
    BY <1>1, <1>2, <1>3 DEF ShutdownInv, JobsDone, NoRequest

LEMMA ServiceShutdown ==
    ASSUME ShutdownInv, Listen \/ Arrive \/ Answered \/ Flush \/ \E t \in Tasks : Job(t)
    PROVE  ShutdownInv'
<1>1. CASE Fatal(Serve)
    BY <1>1, GoneShutdown DEF Fatal, Processes
<1> USE DEF ShutdownInv, vars, request, JobsDone, NoRequest, DNSDrained, HttpStopped, Closing
<1>2. CASE Listen
    BY <1>1, <1>2 DEF Listen
<1>3. CASE Arrive \/ Answered \/ Flush
    BY <1>3 DEF Arrive, Answered, Flush
<1>4. ASSUME NEW t \in Tasks, Job(t) PROVE ShutdownInv'
    <2>1. jobs' \in [Tasks -> JobStates]
        BY <1>4 DEF Job, JobStates
    <2>2. stage[Serve] \in Closing => jobs' = jobs /\ FALSE
        BY <1>4 DEF Job, JobStates, Scheduling, HttpAccepts
    <2> QED
        BY <1>4, <2>1, <2>2 DEF Job
<1> QED
    BY <1>2, <1>3, <1>4

LEMMA StopShutdown == ASSUME ShutdownInv, Shutdown PROVE ShutdownInv'
<1>1. CASE Fatal(Serve)
    BY <1>1, GoneShutdown DEF Fatal, Processes
<1> USE DEF NextStage, Proceed, vars, request, Processes, Stages, UsingSchema
<1>2. CASE Signal
    BY <1>2, MigrationsSeq DEF Signal, ShutdownInv, JobsDone, NoRequest, DNSDrained, HttpStopped, Closing
<1>3. CASE StopDNS
    BY <1>1, <1>3, MigrationsSeq DEF StopDNS, ShutdownInv, JobsDone, NoRequest, DNSDrained, HttpStopped, Closing
<1>4. CASE DNSStopped
    BY <1>4, MigrationsSeq DEF DNSStopped, ShutdownInv, JobsDone, NoRequest, DNSDrained, HttpStopped, Closing
<1>5. CASE StopHTTP
    BY <1>5, MigrationsSeq DEF StopHTTP, ShutdownInv, JobsDone, NoRequest, DNSDrained, HttpStopped, Closing
<1>6. CASE StopScheduler
    BY <1>6, MigrationsSeq DEF StopScheduler, ShutdownInv, JobsDone, NoRequest, DNSDrained, HttpStopped, Closing
<1>7. CASE CloseSessions \/ CloseTagger
    BY <1>7, MigrationsSeq DEF CloseSessions, CloseTagger, CloseStore, ShutdownInv, JobsDone, NoRequest,
                               DNSDrained, HttpStopped, Closing
<1>8. CASE StopLog
    BY <1>8, MigrationsSeq DEF StopLog, CloseStore, ShutdownInv, JobsDone, NoRequest, DNSDrained, HttpStopped, Closing
<1>9. CASE OsExit
    BY <1>9, GoneShutdown DEF OsExit, ShutdownInv
<1> QED
    BY <1>2, <1>3, <1>4, <1>5, <1>6, <1>7, <1>8, <1>9 DEF Shutdown

\* run (cmd/serve.go): no store is closed under a query, a scheduled task or a
\* request that could use it, but for requests that outlast the HTTP server's
\* time, and a regular exit leaves nothing in the queue of the DNS log that was
\* neither written nor reported as dropped by a failing last flush.
THEOREM ShutdownIsOrderly == ProcessSpec => []OrderlyShutdown
<1>1. ShutdownInv => OrderlyShutdown
    BY DEF ShutdownInv, OrderlyShutdown, DNSDrained, HttpStopped, JobsDone, NoRequest
<1>2. ShutdownInv /\ [ProcessNext]_allVars => ShutdownInv'
    <2> SUFFICES ASSUME ShutdownInv, [ProcessNext]_allVars PROVE ShutdownInv'
        OBVIOUS
    <2>1. CASE UNCHANGED allVars
        BY <2>1 DEF allVars, vars, request, process, servers, ShutdownInv, JobsDone, NoRequest
    <2> QED
        BY <2>1, BootShutdown, RequestShutdown, ServiceShutdown, StopShutdown DEF ProcessNext, Processes
<1> QED
    BY <1>1, <1>2, ShutdownInit, PTL DEF ProcessSpec

-----------------------------------------------------------------------------
(* Overrides: what is stored and what is in use.                           *)

\* No request for the kind is under way.
Still(k) == \A r \in Requests : pc[r] = "idle" \/ kind[r] # k

OverridesType ==
    /\ rows \in [Kinds -> SUBSET Values]
    /\ up \in BOOLEAN
    /\ persisted \in [Kinds -> SUBSET Values]
    /\ active \in [Kinds -> SUBSET Values]
    /\ runtime \in [RuntimeKinds -> SUBSET Values]
    /\ pc \in [Requests -> {"idle", "delete", "upsert", "install"}]
    /\ kind \in [Requests -> Kinds]
    /\ values \in [Requests -> SUBSET Values]
    /\ todo \in [Requests -> SUBSET Values]
    /\ alone \in [Requests -> BOOLEAN]
    /\ synced \in [Kinds -> BOOLEAN]
    /\ acked \in [Kinds -> (SUBSET Values) \cup {NoAck}]

\* A request that is alone has its kind for itself, and what it has written is
\* what the table has.
WriterInv(r) ==
    pc[r] # "idle" =>
        /\ up
        /\ pc[r] = "delete" => todo[r] = values[r] /\ kind[r] # "cache-enabled"
        /\ todo[r] \subseteq values[r]
        /\ kind[r] = "cache-enabled" => values[r] \in {{On}, {Off}}
        /\ kind[r] # "static-host" => Normal(values[r]) = values[r]
        /\ alone[r] =>
             /\ \A q \in Requests : q # r => pc[q] = "idle" \/ kind[q] # kind[r]
             /\ pc[r] = "upsert" =>
                  IF kind[r] = "cache-enabled"
                  THEN todo[r] = {} => rows[kind[r]] = values[r]
                  ELSE rows[kind[r]] = values[r] \ todo[r]
             /\ pc[r] = "install" => rows[kind[r]] = values[r]

\* What was acknowledged is there, and nobody is about to change it.
AckInv(k) == acked[k] # NoAck => Still(k) /\ rows[k] = acked[k]

\* The rows of the switch are its values.
SwitchInv == "cache-enabled" \in Kinds => rows["cache-enabled"] \subseteq {On, Off}

StoredInv ==
    /\ OverridesType
    /\ \A r \in Requests : WriterInv(r)
    /\ \A k \in Kinds : AckInv(k)
    /\ SwitchInv

\* The steps of Process as far as they concern the settings.
OverridesNext == Start \/ End \/ Accept \/ Handle

LEMMA OverridesSteps == [ProcessNext]_allVars => [OverridesNext]_vars
<1> SUFFICES ASSUME [ProcessNext]_allVars PROVE OverridesNext \/ UNCHANGED vars
    OBVIOUS
<1> USE DEF OverridesNext
<1>0. \A p, how : Gone(p, how) => End \/ UNCHANGED vars
    BY DEF Gone
<1>1. CASE UNCHANGED allVars
    BY <1>1 DEF allVars
<1>2. ASSUME NEW p \in Processes,
             \/ Launch(p) \/ Prepare(p) \/ OpenDatabase(p) \/ Check(p)
             \/ ApplyMigration(p) \/ Record(p) \/ Protect(p) \/ Kill(p)
      PROVE  OverridesNext \/ UNCHANGED vars
    BY <1>0, <1>2 DEF Launch, Prepare, OpenDatabase, Check, ApplyMigration, Record, Protect, Kill, Fatal
<1>3. CASE ConfigureServe \/ ConfigureAdmin \/ AdminDone \/ LoadOverrides \/ OpenSessions \/ StartServers
    BY <1>0, <1>3 DEF ConfigureServe, ConfigureAdmin, AdminDone, LoadOverrides, OpenSessions, StartServers, Fatal
<1>4. CASE Listen \/ Arrive \/ Answered \/ Flush \/ Request \/ \E t \in Tasks : Job(t)
    BY <1>0, <1>4 DEF Listen, Arrive, Answered, Flush, Request, Job, Fatal
<1>5. CASE Shutdown
    BY <1>0, <1>5 DEF Shutdown, Signal, StopDNS, DNSStopped, StopHTTP, StopScheduler, CloseSessions,
                      CloseTagger, StopLog, CloseStore, NextStage, OsExit, Fatal
<1> QED
    BY <1>1, <1>2, <1>3, <1>4, <1>5 DEF ProcessNext

\* Normalisation of sets.
LEMMA NormalSets ==
    /\ \A set \in SUBSET Values : Normal(set) \in SUBSET Values
    /\ \A set \in SUBSET Values : Normal(Normal(set)) = Normal(set)
    /\ \A set \in SUBSET {On, Off} : Normal(set) = set /\ set \in SUBSET Values
    /\ \A k \in Kinds : Configured[k] \in SUBSET Values /\ Normal(Configured[k]) = Configured[k]
    /\ \A x, y \in SUBSET Values : Normal(x \cup y) = Normal(x) \cup Normal(y)
<1> USE OverridesAssumption DEF OverridesAssumption, Normal
<1>1. \A set \in SUBSET Values : Normal(set) \in SUBSET Values
    OBVIOUS
<1>2. \A set \in SUBSET Values : Normal(Normal(set)) = Normal(set)
    OBVIOUS
<1>3. \A set \in SUBSET {On, Off} : Normal(set) = set /\ set \in SUBSET Values
    OBVIOUS
<1>4. \A k \in Kinds : Configured[k] \in SUBSET Values /\ Normal(Configured[k]) = Configured[k]
    OBVIOUS
<1>5. \A x, y \in SUBSET Values : Normal(x \cup y) = Normal(x) \cup Normal(y)
    OBVIOUS
<1> QED
    BY <1>1, <1>2, <1>3, <1>4, <1>5

LEMMA StoredInit == ProcessInit => StoredInv
<1> SUFFICES ASSUME ProcessInit PROVE StoredInv
    OBVIOUS
<1> USE OverridesAssumption DEF OverridesAssumption, ProcessInit, Init
<1>1. (CHOOSE k \in Kinds : TRUE) \in Kinds
    OBVIOUS
<1>2. OverridesType
    BY <1>1 DEF OverridesType
<1>3. \A r \in Requests : WriterInv(r)
    BY DEF WriterInv
<1>4. \A k \in Kinds : AckInv(k)
    BY DEF AckInv
<1>5. SwitchInv
    BY DEF SwitchInv
<1> QED
    BY <1>2, <1>3, <1>4, <1>5 DEF StoredInv

\* The types, step by step.
LEMMA TypeStep == ASSUME StoredInv, OverridesNext PROVE OverridesType'
<1> USE NormalSets, OverridesAssumption DEF OverridesAssumption, StoredInv, OverridesType
<1>1. CASE Start
    <2>1. ASSUME NEW k \in Kinds PROVE Apply(k) \in SUBSET Values /\ Merged(k, Apply(k)) \in SUBSET Values
        <3>0. rows[k] \in SUBSET Values
            OBVIOUS
        <3>1. rows[k] \in SUBSET Values /\ Configured[k] \in SUBSET Values /\ Normal(rows[k]) \in SUBSET Values
            BY <3>0, NormalSets, Zenon
        <3>2. Apply(k) \in {Configured[k], rows[k], Configured[k] \cup Normal(rows[k]), Normal(rows[k])}
            BY DEF Apply
        <3>3. Merged(k, Apply(k)) \in {Apply(k), Configured[k] \cup Apply(k)}
            BY DEF Merged
        <3> QED
            BY <3>1, <3>2, <3>3
    <2> QED
        BY <1>1, <2>1 DEF Start, request, bounds
<1>2. CASE End
    BY <1>2 DEF End, memory
<1>3. CASE Accept
    <2>1. ASSUME NEW r \in Requests, NEW k \in Kinds, NEW set \in SUBSET Values, NEW s \in {"delete", "upsert"},
                 Begin(r, k, set, s)
          PROVE  OverridesType'
        BY <2>1 DEF Begin, memory
    <2>2. ASSUME NEW k \in RuntimeKinds, NEW set \in Submitted[k], ReplaceRuntime(k, set)
          PROVE  OverridesType'
        BY <2>2 DEF ReplaceRuntime, request, history, RuntimeKinds
    <2>3. \A k \in Kinds : \A set \in Submitted[k] :
            set \in SUBSET Values /\ Normal(set) \in SUBSET Values
        OBVIOUS
    <2>4. ASSUME NEW r \in Requests, NEW k \in Kinds, NEW set \in Submitted[k],
                 BeginReplace(r, k, set) \/ CacheToggle(r, k, set)
          PROVE  OverridesType'
        <3>1. PICK v \in {set, Normal(set)}, s \in {"delete", "upsert"} : Begin(r, k, v, s)
            BY <2>4, HandlersBegin
        <3>2. v \in SUBSET Values
            BY <2>3
        <3> QED
            BY <2>1, <3>1, <3>2
    <2> QED
        BY <1>3, <2>2, <2>4 DEF Accept, StaticResponseReplace, ZenDomainsReplace
<1>4. CASE Handle
    <2> SUFFICES ASSUME NEW r \in Requests,
                        \/ DeleteByKind(r) \/ Upsert(r) \/ Written(r) \/ WriteFail(r)
                        \/ InstallHosts(r) \/ InstallList(r)
                 PROVE  OverridesType'
        BY <1>4 DEF Handle
    <2>1. CASE DeleteByKind(r)
        BY <2>1 DEF DeleteByKind, memory, history
    <2>3. CASE Upsert(r)
        <3>1. PICK v \in todo[r] :
                /\ rows' = [rows EXCEPT ![kind[r]] = IF kind[r] = "cache-enabled" THEN {v} ELSE @ \cup {v}]
                /\ todo' = [todo EXCEPT ![r] = @ \ {v}]
            BY <2>3 DEF Upsert
        <3>2. rows' \in [Kinds -> SUBSET Values] /\ todo' \in [Requests -> SUBSET Values]
            BY <3>1
        <3> QED
            BY <2>3, <3>2 DEF Upsert, memory, history
    <2>4. CASE Written(r)
        BY <2>4 DEF Written, memory, history
    <2>5. CASE WriteFail(r)
        BY <2>5 DEF WriteFail, memory
    <2>2. CASE InstallHosts(r) \/ InstallList(r)
        <3>1. Merged(kind[r], values[r]) \in SUBSET Values
            BY DEF Merged
        <3>2. active' \in [Kinds -> SUBSET Values]
            BY <2>2, <3>1 DEF InstallHosts, InstallList
        <3>3. Answer(r)
            BY <2>2 DEF InstallHosts, InstallList
        <3> QED
            BY <3>2, <3>3 DEF Answer
    <2> QED
        BY <2>1, <2>2, <2>3, <2>4, <2>5
<1> QED
    BY <1>1, <1>2, <1>3, <1>4 DEF OverridesNext

\* A request begins: it is alone, or those it overlaps are not any more.
LEMMA BeginStored ==
    ASSUME StoredInv, NEW r \in Requests, NEW k \in Kinds, NEW set \in SUBSET Values,
           NEW s \in {"delete", "upsert"}, Begin(r, k, set, s),
           s = "upsert" <=> k = "cache-enabled",
           k = "cache-enabled" => set \in {{On}, {Off}},
           k # "static-host" => Normal(set) = set
    PROVE  /\ \A q \in Requests : WriterInv(q)'
           /\ \A j \in Kinds : AckInv(j)'
           /\ SwitchInv'
<1> USE DEF StoredInv, OverridesType
<1>0. /\ up /\ up' /\ pc[r] = "idle" /\ rows' = rows
      /\ pc' = [pc EXCEPT ![r] = s]
      /\ kind' = [kind EXCEPT ![r] = k]
      /\ values' = [values EXCEPT ![r] = set]
      /\ todo' = [todo EXCEPT ![r] = set]
      /\ alone' = [q \in Requests |-> IF q = r THEN InFlight(k) = {} ELSE alone[q] /\ q \notin InFlight(k)]
      /\ acked' = [acked EXCEPT ![k] = NoAck]
    BY DEF Begin
<1>1. ASSUME NEW q \in Requests PROVE WriterInv(q)'
    <2>1. CASE q = r
        <3>1. alone'[r] => \A x \in Requests : pc[x] = "idle" \/ kind[x] # k
            BY <1>0 DEF InFlight
        <3>2. set # {} \/ k # "cache-enabled"
            OBVIOUS
        <3> QED
            BY <1>0, <2>1, <3>1, <3>2 DEF WriterInv, Normal
    <2>2. CASE q # r
        <3>1. alone'[q] /\ pc[q] # "idle" => alone[q] /\ kind[q] # k
            BY <1>0, <2>2 DEF InFlight
        <3> QED
            BY <1>0, <2>2, <3>1 DEF WriterInv, Normal
    <2> QED
        BY <2>1, <2>2
<1>2. ASSUME NEW j \in Kinds PROVE AckInv(j)'
    BY <1>0 DEF AckInv, Still
<1>3. SwitchInv'
    BY <1>0 DEF SwitchInv
<1> QED
    BY <1>1, <1>2, <1>3

LEMMA AcceptStored == ASSUME StoredInv, Accept PROVE StoredInv'
<1> USE NormalSets, OverridesAssumption DEF OverridesAssumption
<1>1. ASSUME NEW r \in Requests, NEW k \in Kinds, NEW set \in Submitted[k],
             BeginReplace(r, k, set)
      PROVE  (\A q \in Requests : WriterInv(q)') /\ (\A j \in Kinds : AckInv(j)') /\ SwitchInv'
    <2>1. set \in SUBSET Values
        OBVIOUS
    <2>2. Normal(set) \in SUBSET Values /\ Normal(Normal(set)) = Normal(set)
        BY <2>1
    <2>3. CASE k = "static-host" /\ Begin(r, k, set, "delete")
        BY <2>1, <2>3, BeginStored
    <2>4. CASE k \notin {"static-host", "cache-enabled"} /\ Begin(r, k, Normal(set), "delete")
        BY <2>2, <2>4, BeginStored
    <2> QED
        BY <1>1, <2>3, <2>4 DEF BeginReplace, StaticResponseReplacePersisted, ZenPersistedReplace,
            BlacklistReplacePersisted, CacheReplaceExcludes
<1>2. ASSUME NEW r \in Requests, NEW k \in Kinds, NEW set \in Submitted[k],
             CacheToggle(r, k, set)
      PROVE  (\A q \in Requests : WriterInv(q)') /\ (\A j \in Kinds : AckInv(j)') /\ SwitchInv'
    <2>1. k = "cache-enabled" /\ set \in {{On}, {Off}}
        BY <1>2 DEF CacheToggle
    <2>2. set \in SUBSET {On, Off}
        BY <2>1
    <2> QED
        BY <1>2, <2>1, <2>2, BeginStored DEF CacheToggle
<1>3. ASSUME NEW k \in RuntimeKinds, NEW set \in Submitted[k], ReplaceRuntime(k, set)
      PROVE  (\A q \in Requests : WriterInv(q)') /\ (\A j \in Kinds : AckInv(j)') /\ SwitchInv'
    BY <1>3 DEF ReplaceRuntime, request, history, StoredInv, WriterInv, AckInv, SwitchInv, Still, Normal
<1>4. OverridesType'
    BY TypeStep DEF OverridesNext
<1> QED
    BY <1>1, <1>2, <1>3, <1>4 DEF Accept, StaticResponseReplace, ZenDomainsReplace, StoredInv

\* A handler's step concerns the rows of its own kind, and no request that is
\* alone has the same kind.
LEMMA HandleStored == ASSUME StoredInv, Handle PROVE StoredInv'
<1> USE DEF StoredInv
<1>0. OverridesType'
    BY TypeStep DEF OverridesNext
<1> SUFFICES ASSUME NEW r \in Requests,
                    \/ DeleteByKind(r) \/ Upsert(r) \/ Written(r) \/ WriteFail(r)
                    \/ InstallHosts(r) \/ InstallList(r)
             PROVE  (\A q \in Requests : WriterInv(q)') /\ (\A k \in Kinds : AckInv(k)') /\ SwitchInv'
    BY <1>0 DEF Handle
<1> USE DEF OverridesType, memory, history
<1>1. CASE DeleteByKind(r)
    <2>0. pc[r] = "delete" /\ WriterInv(r)
        BY <1>1 DEF DeleteByKind
    <2>1. ASSUME NEW q \in Requests PROVE WriterInv(q)'
        <3>1. WriterInv(q)
            OBVIOUS
        <3>2. CASE q = r
            BY <1>1, <2>0, <3>2 DEF DeleteByKind, WriterInv, Normal
        <3>3. CASE q # r
            BY <1>1, <2>0, <3>1, <3>3 DEF DeleteByKind, WriterInv, Normal
        <3> QED
            BY <3>2, <3>3
    <2>2. ASSUME NEW k \in Kinds PROVE AckInv(k)'
        <3>1. AckInv(k)
            OBVIOUS
        <3> QED
            BY <1>1, <2>0, <3>1 DEF DeleteByKind, AckInv, Still
    <2>3. SwitchInv'
        BY <1>1 DEF DeleteByKind, SwitchInv
    <2> QED
        BY <2>1, <2>2, <2>3
<1>2. CASE Upsert(r)
    <2>0. pc[r] = "upsert" /\ WriterInv(r)
        BY <1>2 DEF Upsert
    <2>1. PICK v \in todo[r] :
            /\ rows' = [rows EXCEPT ![kind[r]] = IF kind[r] = "cache-enabled" THEN {v} ELSE @ \cup {v}]
            /\ todo' = [todo EXCEPT ![r] = @ \ {v}]
        BY <1>2 DEF Upsert
    <2>2. UNCHANGED <<up, pc, kind, values, alone, acked>>
        BY <1>2 DEF Upsert
    <2>3. todo'[r] = todo[r] \ {v} /\ v \in values[r]
        BY <2>0, <2>1 DEF WriterInv
    <2>4. ASSUME NEW q \in Requests PROVE WriterInv(q)'
        <3>1. WriterInv(q)
            OBVIOUS
        <3>2. CASE q = r
            <4>1. CASE kind[r] = "cache-enabled"
                <5>1. values[r] = {v}
                    BY <2>0, <2>3, <4>1 DEF WriterInv
                <5>2. rows'[kind[r]] = {v}
                    BY <2>1, <4>1
                <5> QED
                    BY <2>0, <2>1, <2>2, <2>3, <3>2, <4>1, <5>1, <5>2 DEF WriterInv, Normal
            <4>2. CASE kind[r] # "cache-enabled"
                <5>1. rows'[kind[r]] = rows[kind[r]] \cup {v}
                    BY <2>1, <4>2
                <5>2. rows[kind[r]] = values[r] \ todo[r] => rows'[kind[r]] = values[r] \ todo'[r]
                    BY <2>3, <5>1
                <5> QED
                    BY <2>0, <2>1, <2>2, <2>3, <3>2, <4>2, <5>2 DEF WriterInv, Normal
            <4> QED
                BY <4>1, <4>2
        <3>3. CASE q # r
            <4>1. todo'[q] = todo[q]
                BY <2>1, <3>3
            <4>2. pc[q] # "idle" /\ alone[q] => rows'[kind[q]] = rows[kind[q]]
                BY <2>0, <2>1, <3>1, <3>3 DEF WriterInv
            <4> QED
                BY <2>2, <3>1, <4>1, <4>2 DEF WriterInv, Normal
        <3> QED
            BY <3>2, <3>3
    <2>5. ASSUME NEW k \in Kinds PROVE AckInv(k)'
        <3>1. AckInv(k)
            OBVIOUS
        <3> QED
            BY <2>0, <2>1, <2>2, <3>1 DEF AckInv, Still
    <2>6. SwitchInv'
        <3>1. kind[r] = "cache-enabled" => v \in {On, Off}
            BY <2>0, <2>3 DEF WriterInv
        <3> QED
            BY <2>1, <3>1 DEF SwitchInv
    <2> QED
        BY <2>4, <2>5, <2>6
<1>3. CASE Written(r)
    <2>0. pc[r] = "upsert" /\ todo[r] = {} /\ WriterInv(r)
        BY <1>3 DEF Written
    <2>1. ASSUME NEW q \in Requests PROVE WriterInv(q)'
        <3>1. WriterInv(q)
            OBVIOUS
        <3> QED
            BY <1>3, <2>0, <3>1 DEF Written, WriterInv, Normal
    <2>2. ASSUME NEW k \in Kinds PROVE AckInv(k)'
        <3>1. AckInv(k)
            OBVIOUS
        <3> QED
            BY <1>3, <2>0, <3>1 DEF Written, AckInv, Still
    <2>3. SwitchInv'
        BY <1>3 DEF Written, SwitchInv
    <2> QED
        BY <2>1, <2>2, <2>3
<1>4. CASE WriteFail(r)
    <2>1. ASSUME NEW q \in Requests PROVE WriterInv(q)'
        <3>1. WriterInv(q)
            OBVIOUS
        <3> QED
            BY <1>4, <3>1 DEF WriteFail, WriterInv, Normal
    <2>2. ASSUME NEW k \in Kinds PROVE AckInv(k)'
        <3>1. AckInv(k)
            OBVIOUS
        <3> QED
            BY <1>4, <3>1 DEF WriteFail, AckInv, Still
    <2>3. SwitchInv'
        BY <1>4 DEF WriteFail, SwitchInv
    <2> QED
        BY <2>1, <2>2, <2>3
<1>5. CASE InstallHosts(r) \/ InstallList(r)
    <2>0. pc[r] = "install" /\ Answer(r) /\ WriterInv(r)
        BY <1>5 DEF InstallHosts, InstallList
    <2>1. ASSUME NEW q \in Requests PROVE WriterInv(q)'
        <3>1. WriterInv(q)
            OBVIOUS
        <3> QED
            BY <2>0, <3>1 DEF Answer, WriterInv, Normal
    <2>2. ASSUME NEW k \in Kinds PROVE AckInv(k)'
        <3>1. AckInv(k)
            OBVIOUS
        <3>2. CASE k = kind[r]
            BY <2>0, <3>2 DEF Answer, AckInv, Still, WriterInv
        <3>3. CASE k # kind[r]
            BY <2>0, <3>1, <3>3 DEF Answer, AckInv, Still
        <3> QED
            BY <3>2, <3>3
    <2>3. SwitchInv'
        BY <2>0 DEF Answer, SwitchInv
    <2> QED
        BY <2>1, <2>2, <2>3
<1> QED
    BY <1>1, <1>2, <1>3, <1>4, <1>5

\* Start-up and the end of the process leave the rows; the requests are gone.
LEMMA StoredStep == StoredInv /\ [ProcessNext]_allVars => StoredInv'
<1> SUFFICES ASSUME StoredInv, [OverridesNext]_vars PROVE StoredInv'
    BY OverridesSteps
<1> USE DEF StoredInv
<1>1. CASE UNCHANGED vars
    BY <1>1 DEF vars, memory, request, history, bounds, OverridesType, WriterInv, AckInv, SwitchInv, Still, Normal
<1>2. CASE Start
    <2>1. OverridesType'
        BY <1>2, TypeStep DEF OverridesNext
    <2>2. \A r \in Requests : WriterInv(r)'
        BY <1>2 DEF Start, request, WriterInv, Normal
    <2> QED
        BY <1>2, <2>1, <2>2 DEF Start, request, AckInv, SwitchInv, Still
<1>3. CASE End
    <2>1. OverridesType'
        BY <1>3, TypeStep DEF OverridesNext
    <2>2. \A r \in Requests : WriterInv(r)'
        BY <1>3 DEF End, WriterInv
    <2>3. ASSUME NEW k \in Kinds PROVE AckInv(k)'
        BY <1>3 DEF End, AckInv, Still, OverridesType
    <2> QED
        BY <1>3, <2>1, <2>2, <2>3 DEF End, SwitchInv
<1> QED
    BY <1>1, <1>2, <1>3, AcceptStored, HandleStored DEF OverridesNext

\* config_overrides (internal/overrides): what a replacement was acknowledged for
\* is in the table until the next request of its kind, whatever requests of other
\* kinds, failing writes and ends of the process come in between.
THEOREM AcknowledgedStays == ProcessSpec => []AcknowledgedIsStored
<1>1. StoredInv => AcknowledgedIsStored
    BY DEF StoredInv, AckInv, AcknowledgedIsStored
<1> QED
    BY <1>1, StoredInit, StoredStep, PTL DEF ProcessSpec

-----------------------------------------------------------------------------
(* What is in memory.                                                      *)

\* What the middleware has, against what Apply makes of the rows.
Matches(k) ==
    IF k = "cache-exclude"
    THEN Configured[k] \cup persisted[k] = Apply(k)
    ELSE /\ Normal(persisted[k]) = Apply(k)
         /\ ~(k \in RuntimeKinds /\ runtime[k] # {}) => Normal(active[k]) = Merged(k, Apply(k))

MatchInv(k) == up /\ Still(k) /\ synced[k] => Matches(k)

\* Runtime values, once there are any, are what is matched.
RuntimeInv == \A k \in RuntimeKinds : runtime[k] # {} => active[k] = runtime[k]

MemoryInv == StoredInv /\ RuntimeInv /\ \A k \in Kinds : MatchInv(k)

\* Values that the table has as they are installed: Apply reads them back.
LEMMA InstalledMatches ==
    ASSUME NEW k \in Kinds, NEW set \in SUBSET Values, rows[k] = set,
           k = "cache-enabled" => set \in {{On}, {Off}},
           k # "static-host" => Normal(set) = set
    PROVE  /\ k = "cache-exclude" => Configured[k] \cup set = Apply(k)
           /\ k # "cache-exclude" => Normal(set) = Apply(k) /\ Normal(Merged(k, set)) = Merged(k, Apply(k))
<1>1. k # "static-host" \/ k \notin {"cache-exclude", "cache-enabled"}
    OBVIOUS
<1>2. Normal(Configured[k] \cup set) = Configured[k] \cup Normal(set)
    <2>1. Configured[k] \in SUBSET Values /\ Normal(Configured[k]) = Configured[k]
        BY NormalSets
    <2>2. Normal(Configured[k] \cup set) = Normal(Configured[k]) \cup Normal(set)
        BY <2>1, NormalSets, Zenon
    <2> QED
        BY <2>1, <2>2
<1>3. CASE k = "cache-exclude"
    BY <1>3 DEF Apply
<1>4. CASE k = "cache-enabled"
    BY <1>4 DEF Apply, Merged
<1>5. CASE k \notin {"cache-exclude", "cache-enabled"}
    <2>1. Apply(k) = Normal(set)
        BY <1>5 DEF Apply
    <2>2. Merged(k, set) = Configured[k] \cup set /\ Merged(k, Apply(k)) = Configured[k] \cup Normal(set)
        BY <1>5, <2>1 DEF Merged
    <2> QED
        BY <1>2, <1>5, <2>1, <2>2
<1> QED
    BY <1>3, <1>4, <1>5

\* What Apply and Init have made at start-up.
LEMMA StartMatches == ASSUME StoredInv, Start, NEW k \in Kinds PROVE Matches(k)'
<1>1. /\ persisted'[k] = Apply(k) /\ active'[k] = Merged(k, Apply(k))
      /\ k \in RuntimeKinds => runtime'[k] = {}
      /\ rows' = rows
    BY DEF Start
<1>2. Apply(k)' = Apply(k)
    BY <1>1 DEF Apply, Normal
<1>3. rows[k] \in SUBSET Values /\ Configured[k] \in SUBSET Values
    BY OverridesAssumption DEF StoredInv, OverridesType, OverridesAssumption
<1>4. /\ Normal(Configured[k]) = Configured[k]
      /\ Normal(rows[k]) \in SUBSET Values
      /\ Normal(Normal(rows[k])) = Normal(rows[k])
    BY <1>3, NormalSets, Zenon
<1>5. Apply(k) \in SUBSET Values /\ Normal(Apply(k)) = Apply(k)
    <2>1. CASE k = "cache-enabled"
        <3>1. rows[k] \in SUBSET {On, Off}
            BY <2>1 DEF StoredInv, SwitchInv
        <3>2. Normal(rows[k]) = rows[k]
            BY <3>1, NormalSets, Zenon
        <3> QED
            BY <1>3, <1>4, <2>1, <3>2 DEF Apply
    <2>2. CASE k = "cache-exclude"
        <3>1. Normal(Configured[k] \cup Normal(rows[k])) = Normal(Configured[k]) \cup Normal(Normal(rows[k]))
            BY <1>3, <1>4, NormalSets, Zenon
        <3> QED
            BY <1>3, <1>4, <2>2, <3>1 DEF Apply
    <2>3. CASE k \notin {"cache-enabled", "cache-exclude"}
        BY <1>3, <1>4, <2>3 DEF Apply
    <2> QED
        BY <2>1, <2>2, <2>3
<1>6. Normal(Merged(k, Apply(k))) = Merged(k, Apply(k))
    <2>1. Normal(Configured[k] \cup Apply(k)) = Normal(Configured[k]) \cup Normal(Apply(k))
        BY <1>3, <1>5, NormalSets, Zenon
    <2> QED
        BY <1>4, <1>5, <2>1 DEF Merged
<1>7. k = "cache-exclude" => Configured[k] \cup Apply(k) = Apply(k)
    BY DEF Apply
<1>8. /\ Normal(persisted[k])' = Normal(persisted'[k])
      /\ Normal(active[k])' = Normal(active'[k])
      /\ Merged(k, Apply(k))' = Merged(k, Apply(k)')
    BY DEF Normal, Merged
<1> QED
    BY <1>1, <1>2, <1>5, <1>6, <1>7, <1>8 DEF Matches

\* A kind that a step does not touch.
LEMMA UntouchedMatches ==
    ASSUME NEW k \in Kinds, MatchInv(k),
           up' => up, Still(k)' => Still(k), synced'[k] => synced[k],
           rows'[k] = rows[k], persisted'[k] = persisted[k], active'[k] = active[k],
           k \in RuntimeKinds => runtime'[k] = runtime[k]
    PROVE  MatchInv(k)'
<1>1. Apply(k)' = Apply(k)
    BY DEF Apply, Normal
<1>2. /\ Normal(persisted[k])' = Normal(persisted[k])
      /\ Normal(active[k])' = Normal(active[k])
      /\ Merged(k, Apply(k))' = Merged(k, Apply(k))
    BY <1>1 DEF Normal, Merged
<1> QED
    BY <1>1, <1>2 DEF MatchInv, Matches

\* The handlers: the rows of a kind change, or its persisted values do, only by
\* a request for it, which leaves the kind in step when it was alone.
LEMMA HandleMemory == ASSUME MemoryInv, Handle PROVE RuntimeInv' /\ \A k \in Kinds : MatchInv(k)'
<1> SUFFICES ASSUME NEW r \in Requests,
                    \/ DeleteByKind(r) \/ Upsert(r) \/ Written(r) \/ WriteFail(r)
                    \/ InstallHosts(r) \/ InstallList(r)
             PROVE  RuntimeInv' /\ \A k \in Kinds : MatchInv(k)'
    BY DEF Handle
<1>0. /\ OverridesType /\ WriterInv(r) /\ RuntimeInv /\ \A k \in Kinds : MatchInv(k)
      /\ kind[r] \in Kinds /\ values[r] \in SUBSET Values
    BY DEF MemoryInv, StoredInv, OverridesType
<1>1. CASE DeleteByKind(r) \/ Upsert(r) \/ Written(r)
    <2>1. /\ pc[r] # "idle" /\ pc'[r] # "idle" /\ kind'[r] = kind[r]
          /\ UNCHANGED <<up, persisted, runtime, active, synced>>
          /\ \A q \in Requests : q # r => pc'[q] = pc[q] /\ kind'[q] = kind[q]
          /\ \A k \in Kinds : k # kind[r] => rows'[k] = rows[k]
        BY <1>0, <1>1 DEF DeleteByKind, Upsert, Written, memory, history, OverridesType
    <2>3. ASSUME NEW k \in Kinds, k # kind[r] PROVE MatchInv(k)'
        BY <1>0, <2>1, <2>3, UntouchedMatches DEF Still
    <2>4. ASSUME NEW k \in Kinds, k = kind[r] PROVE MatchInv(k)'
        BY <2>1, <2>4 DEF MatchInv, Still
    <2>5. RuntimeInv'
        BY <1>0, <2>1 DEF RuntimeInv
    <2> QED
        BY <2>3, <2>4, <2>5
<1>2. CASE WriteFail(r)
    <2>1. /\ UNCHANGED <<up, rows, persisted, runtime, active, kind>>
          /\ pc' = [pc EXCEPT ![r] = "idle"]
          /\ synced' = [synced EXCEPT ![kind[r]] = FALSE]
        BY <1>2 DEF WriteFail, memory
    <2>2. ASSUME NEW k \in Kinds, k # kind[r] PROVE MatchInv(k)'
        <3>1. Still(k)' => Still(k)
            BY <1>0, <2>1, <2>2 DEF Still, OverridesType
        <3> QED
            BY <1>0, <2>1, <2>2, <3>1, UntouchedMatches DEF OverridesType
    <2>3. ASSUME NEW k \in Kinds, k = kind[r] PROVE MatchInv(k)'
        BY <1>0, <2>1, <2>3 DEF MatchInv, OverridesType
    <2>4. RuntimeInv'
        BY <1>0, <2>1 DEF RuntimeInv
    <2> QED
        BY <2>2, <2>3, <2>4
<1>3. CASE InstallHosts(r) \/ InstallList(r)
    <2> SUFFICES ASSUME NEW k \in Kinds, k = kind[r]
                 PROVE  RuntimeInv' /\ \A j \in Kinds : MatchInv(j)'
        BY <1>0
    <2>1. /\ pc[r] = "install"
          /\ UNCHANGED <<up, rows, runtime, kind>>
          /\ pc' = [pc EXCEPT ![r] = "idle"]
          /\ persisted' = [persisted EXCEPT ![k] = values[r]]
          /\ synced' = [synced EXCEPT ![k] = alone[r]]
        BY <1>3 DEF InstallHosts, InstallList, Answer
    <2>2. active' = IF k \in RuntimeKinds /\ runtime[k] # {}
                    THEN active ELSE [active EXCEPT ![k] = Merged(k, values[r])]
        BY <1>3 DEF InstallHosts, InstallList
    <2>3. ASSUME NEW j \in Kinds, j # k PROVE MatchInv(j)'
        <3>1. Still(j)' => Still(j)
            BY <1>0, <2>1, <2>3 DEF Still, OverridesType
        <3>2. active'[j] = active[j] /\ persisted'[j] = persisted[j] /\ synced'[j] = synced[j]
            BY <1>0, <2>1, <2>2, <2>3 DEF OverridesType
        <3> QED
            BY <1>0, <2>1, <3>1, <3>2, UntouchedMatches
    <2>4. MatchInv(k)'
        <3> SUFFICES ASSUME synced'[k] PROVE Matches(k)'
            BY DEF MatchInv
        <3>1. alone[r]
            BY <1>0, <2>1 DEF OverridesType
        <3>2. /\ rows[k] = values[r]
              /\ k = "cache-enabled" => values[r] \in {{On}, {Off}}
              /\ k # "static-host" => Normal(values[r]) = values[r]
            BY <1>0, <2>1, <3>1 DEF WriterInv
        <3>3. /\ k = "cache-exclude" => Configured[k] \cup values[r] = Apply(k)
              /\ k # "cache-exclude" => /\ Normal(values[r]) = Apply(k)
                                        /\ Normal(Merged(k, values[r])) = Merged(k, Apply(k))
            BY <1>0, <3>2, InstalledMatches
        <3>4. persisted'[k] = values[r] /\ (~(k \in RuntimeKinds /\ runtime[k] # {}) => active'[k] = Merged(k, values[r]))
            BY <1>0, <2>1, <2>2 DEF OverridesType
        <3>5. runtime' = runtime /\ rows' = rows
            BY <2>1
        <3>7. Matches(k)' = (IF k = "cache-exclude"
                             THEN Configured[k] \cup persisted'[k] = Apply(k)
                             ELSE /\ Normal(persisted'[k]) = Apply(k)
                                  /\ ~(k \in RuntimeKinds /\ runtime[k] # {}) =>
                                       Normal(active'[k]) = Merged(k, Apply(k)))
            BY <3>5 DEF Matches, Apply, Merged, Normal
        <3> QED
            BY <3>3, <3>4, <3>7
    <2>5. RuntimeInv'
        BY <1>0, <2>1, <2>2 DEF RuntimeInv, OverridesType, RuntimeKinds
    <2> QED
        BY <2>1, <2>3, <2>4, <2>5
<1> QED
    BY <1>1, <1>2, <1>3

LEMMA AcceptMemory == ASSUME MemoryInv, Accept PROVE RuntimeInv' /\ \A k \in Kinds : MatchInv(k)'
<1>0. OverridesType /\ RuntimeInv /\ \A k \in Kinds : MatchInv(k)
    BY DEF MemoryInv, StoredInv
<1>1. ASSUME NEW r \in Requests, NEW k \in Kinds, NEW set, NEW s \in {"delete", "upsert"}, Begin(r, k, set, s)
      PROVE  RuntimeInv' /\ \A j \in Kinds : MatchInv(j)'
    <2>1. /\ UNCHANGED <<up, rows, persisted, runtime, active, synced>>
          /\ pc[r] = "idle" /\ pc' = [pc EXCEPT ![r] = s] /\ kind' = [kind EXCEPT ![r] = k]
        BY <1>1 DEF Begin, memory
    <2>2. ASSUME NEW j \in Kinds PROVE MatchInv(j)'
        <3>1. Still(j)' => Still(j)
            BY <1>0, <2>1 DEF Still, OverridesType
        <3> QED
            BY <1>0, <2>1, <3>1, UntouchedMatches
    <2> QED
        BY <1>0, <2>1, <2>2 DEF RuntimeInv
<1>2. ASSUME NEW k \in RuntimeKinds, NEW set, ReplaceRuntime(k, set)
      PROVE  RuntimeInv' /\ \A j \in Kinds : MatchInv(j)'
    <2>1. /\ UNCHANGED <<up, rows, persisted, pc, kind, synced>>
          /\ set # {}
          /\ runtime' = [runtime EXCEPT ![k] = set]
          /\ active' = [active EXCEPT ![k] = set]
          /\ k \in Kinds /\ k # "cache-exclude"
        BY <1>2 DEF ReplaceRuntime, request, history, RuntimeKinds
    <2>2. RuntimeInv'
        BY <1>0, <2>1 DEF RuntimeInv, OverridesType, RuntimeKinds
    <2>3. ASSUME NEW j \in Kinds, j # k PROVE MatchInv(j)'
        BY <1>0, <2>1, <2>3, UntouchedMatches DEF Still, OverridesType
    <2>4. MatchInv(k)'
        <3>1. MatchInv(k)
            BY <1>0, <2>1
        <3>2. Apply(k)' = Apply(k) /\ Normal(persisted[k])' = Normal(persisted[k])
            BY <2>1 DEF Apply, Normal
        <3>3. runtime'[k] # {}
            BY <1>0, <2>1 DEF OverridesType
        <3> QED
            BY <2>1, <3>1, <3>2, <3>3 DEF MatchInv, Matches, Still
    <2> QED
        BY <2>2, <2>3, <2>4
<1> QED
    BY <1>1, <1>2, HandlersBegin DEF Accept, StaticResponseReplace, ZenDomainsReplace

LEMMA MemoryStep == MemoryInv /\ [ProcessNext]_allVars => MemoryInv'
<1> SUFFICES ASSUME MemoryInv, [ProcessNext]_allVars PROVE MemoryInv'
    OBVIOUS
<1>0. StoredInv' /\ [OverridesNext]_vars
    BY StoredStep, OverridesSteps DEF MemoryInv
<1> USE DEF MemoryInv
<1>1. CASE UNCHANGED vars
    <2>1. UNCHANGED <<up, rows, persisted, active, runtime, synced, pc, kind>>
        BY <1>1 DEF vars, memory, request, history
    <2>2. RuntimeInv'
        BY <2>1 DEF RuntimeInv
    <2>3. ASSUME NEW k \in Kinds PROVE MatchInv(k)'
        BY <2>1, UntouchedMatches DEF Still
    <2> QED
        BY <1>0, <2>2, <2>3
<1>2. CASE Start
    <2>1. \A k \in Kinds : MatchInv(k)'
        BY <1>2, StartMatches DEF MatchInv
    <2>2. RuntimeInv'
        BY <1>2 DEF Start, RuntimeInv
    <2> QED
        BY <1>0, <2>1, <2>2
<1>3. CASE End
    BY <1>0, <1>3 DEF End, memory, RuntimeInv, MatchInv
<1> QED
    BY <1>0, <1>1, <1>2, <1>3, HandleMemory, AcceptMemory DEF OverridesNext

\* The handlers of the API and Apply (internal/overrides/apply.go): unless a
\* request for a kind is under way, or the last ones overlapped or failed, the
\* middleware has what the table has and what it would have after a restart, and
\* runtime values stay in use.
THEOREM MemoryAgrees == ProcessSpec => []MemoryMatchesTable
<1>1. MemoryInv => MemoryMatchesTable
    <2> SUFFICES ASSUME MemoryInv, NEW k \in Kinds, Quiet(k)
                 PROVE  IF k = "cache-exclude"
                        THEN Configured[k] \cup persisted[k] = Apply(k)
                        ELSE /\ Normal(persisted[k]) = Apply(k)
                             /\ Normal(active[k]) = IF k \in RuntimeKinds /\ runtime[k] # {}
                                                    THEN Normal(runtime[k])
                                                    ELSE Merged(k, Apply(k))
        BY DEF MemoryMatchesTable
    <2>1. up /\ Still(k) /\ synced[k]
        BY DEF Quiet, InFlight, Still
    <2>2. Matches(k)
        BY <2>1 DEF MemoryInv, MatchInv
    <2>3. k \in RuntimeKinds /\ runtime[k] # {} => active[k] = runtime[k]
        BY DEF MemoryInv, RuntimeInv
    <2> QED
        BY <2>2, <2>3 DEF Matches
<1>2. ProcessInit => MemoryInv
    <2> SUFFICES ASSUME ProcessInit PROVE MemoryInv
        OBVIOUS
    <2>1. ~up /\ \A k \in RuntimeKinds : runtime[k] = {}
        BY DEF ProcessInit, Init
    <2> QED
        BY <2>1, StoredInit DEF MemoryInv, RuntimeInv, MatchInv
<1> QED
    BY <1>1, <1>2, MemoryStep, PTL DEF ProcessSpec
=============================================================================
