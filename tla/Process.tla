------------------------------- MODULE Process ------------------------------
(***************************************************************************)
(* The process: `tdns serve` from its configuration to os.Exit, next to    *)
(* `tdns adm password`, which is a process of its own on the same database.*)
(* Both bring the schema up to date before they use it, one migration in   *)
(* one transaction.  `serve` then applies the persisted overrides, opens   *)
(* its stores, starts its servers and the scheduler, and takes them down   *)
(* in the order of run in cmd/serve.go when it is told to stop.            *)
(*                                                                         *)
(* The requests of the API are those of Overrides.  What a query does is   *)
(* in Pipeline and DNSLog: here it ends with an event for the DNS log.     *)
(***************************************************************************)
EXTENDS Overrides, Integers, Sequences

CONSTANTS
    Serve, Admin,   \* the processes
    NoProcess,
    Migrations,     \* the migrations, in the order in which Bootstrap runs them
    TargetStarts,   \* where in that order each of the four targets begins
    Repeatable,     \* migrations that can be executed twice (IF NOT EXISTS)
    Settings,       \* what tdns.yaml may have
    Unset,          \* a setting without a value
    Tasks,          \* scheduled tasks
    MaxQueries      \* bound: DNS queries in a behaviour

Processes == {Serve, Admin}
Stores == {"sessions", "tagger", "dnslog"}

\* What of the configuration is checked, the mode of the database's directory,
\* and the row that an earlier process may have left for dns_log.enabled.
SettingsType ==
    [remember : Int, logging : BOOLEAN, purge : Int \cup {Unset}, pseudonymize : BOOLEAN,
     key : BOOLEAN, diagnostics : BOOLEAN,
     address : [host : {"loopback", "unicast", "wildcard", "name"}, port : Int],
     upstreams : SUBSET {"url", "malformed"}, cors : {"off", "origins", "wildcard", "empty"},
     directory : {"private", "shared"}, row : BOOLEAN \cup {Unset}]

\* The defaults of viper, for an empty tdns.yaml.
Defaults ==
    [remember |-> 10, logging |-> TRUE, purge |-> 30, pseudonymize |-> FALSE, key |-> TRUE,
     diagnostics |-> TRUE, address |-> [host |-> "loopback", port |-> 6060],
     upstreams |-> {"url"}, cors |-> "off", directory |-> "private", row |-> Unset]

\* newConf: what `tdns config` writes, in a directory of its own.  It has CORS
\* turned off with two origins listed.
NewConf ==
    [remember |-> 10, logging |-> TRUE, purge |-> 30, pseudonymize |-> FALSE, key |-> TRUE,
     diagnostics |-> TRUE, address |-> [host |-> "loopback", port |-> 6060],
     upstreams |-> {"url"}, cors |-> "off", directory |-> "private", row |-> Unset]

ASSUME ProcessAssumption ==
    /\ Settings \subseteq SettingsType
    /\ Serve # Admin /\ NoProcess \notin Processes
    /\ Migrations \in Seq({Migrations[i] : i \in DOMAIN Migrations})
    /\ Len(Migrations) > 0
    /\ 1 \in TargetStarts /\ TargetStarts \subseteq DOMAIN Migrations
    /\ Unset \notin Int
    /\ MaxQueries \in Nat

VARIABLES
    settings,   \* tdns.yaml, and the mode of the database's directory
    files,      \* modes of the database file and of its write-ahead log
    schema,     \* on disk: the migrations that the tables have seen
    recorded,   \* on disk: the rows of schema_migrations
    draft,      \* the transaction that has the write lock
    stage,      \* where a process is
    at,         \* the migration it is at
    listening,  \* the DNS socket
    queries,    \* DNS queries being answered
    asked,      \* DNS queries so far
    events,     \* those of answered queries: "saved", "queued" in memory, or "dropped"
    jobs,       \* where each task is
    open,       \* stores that are open
    closed,     \* stores that the shutdown has closed
    cut,        \* whether the HTTP server was left with requests under way
    exit        \* how serve ended

database == <<files, schema, recorded, draft>>
servers == <<listening, queries, asked, events, jobs, open, closed, cut, exit>>
process == <<settings, database, stage, at, servers>>
allVars == <<vars, process>>

NoDraft == [by |-> NoProcess, schema |-> {}]

-----------------------------------------------------------------------------
(* The configuration.                                                      *)

MinDays == 1
MaxDays == 30
MaximumDNSLogRetention == 180

ParseDNSLogRetention(days) == days # Unset /\ days > 0 /\ days <= MaximumDNSLogRetention

ValidateDiagnosticsAddress(a) ==
    a.host \in {"loopback", "unicast"} /\ a.port \in 1..65535

Validate(c) ==
    /\ c.remember \in MinDays..MaxDays
    /\ c.logging \/ c.purge # Unset => ParseDNSLogRetention(c.purge)
    /\ c.pseudonymize => c.key
    /\ c.diagnostics => ValidateDiagnosticsAddress(c.address)

\* Apply has rows for the DNS log too.
WithRows(c) == IF c.row = Unset THEN c ELSE [c EXCEPT !.logging = c.row]

-----------------------------------------------------------------------------
(* Ends.                                                                   *)

\* A process is gone: its transaction is rolled back, and what serve has in
\* memory is lost.
Gone(p, how) ==
    /\ stage' = [stage EXCEPT ![p] = IF p = Serve THEN "idle" ELSE "done"]
    /\ draft' = IF draft.by = p THEN NoDraft ELSE draft
    /\ IF p = Serve
       THEN /\ End
            /\ listening' = FALSE /\ queries' = 0 /\ events' = "saved"
            /\ jobs' = [t \in Tasks |-> "idle"]
            /\ open' = {} /\ closed' = {} /\ cut' = FALSE
            /\ exit' = how
       ELSE UNCHANGED <<vars, listening, queries, events, jobs, open, closed, cut, exit>>
    /\ UNCHANGED <<settings, files, schema, recorded, at, asked>>

\* logger.Fatal, or an error that the command returns.
Fatal(p) == Gone(p, "fatal")

\* The process is killed.
Kill(p) == stage[p] \notin {"idle", "done"} /\ Gone(p, "killed")

-----------------------------------------------------------------------------
(* Start-up: Bootstrap.                                                    *)

Proceed(p, s) == stage' = [stage EXCEPT ![p] = s]

Launch(p) ==
    /\ stage[p] = "idle"
    /\ p = Serve => crashes < MaxCrashes
    /\ Proceed(p, "configure")
    /\ at' = [at EXCEPT ![p] = 1]
    /\ exit' = IF p = Serve THEN "none" ELSE exit
    /\ UNCHANGED <<vars, settings, database, listening, queries, asked, events, jobs,
                   open, closed, cut>>

\* run, before the database: the configuration is checked.
ConfigureServe ==
    /\ stage[Serve] = "configure"
    /\ IF Validate(settings)
       THEN Proceed(Serve, "prepare") /\ UNCHANGED <<vars, settings, database, at, servers>>
       ELSE Fatal(Serve)

\* The command for the password does not check it.
ConfigureAdmin ==
    /\ stage[Admin] = "configure"
    /\ Proceed(Admin, "prepare")
    /\ UNCHANGED <<vars, settings, database, at, servers>>

Protected(f) == [x \in DOMAIN f |-> IF f[x] = "absent" THEN "absent" ELSE "private"]

\* ResolvePath, validateDirectory and the first ProtectFiles.
Prepare(p) ==
    /\ stage[p] = "prepare"
    /\ IF settings.directory = "private" /\ \A x \in DOMAIN files : files[x] # "odd"
       THEN /\ files' = Protected(files)
            /\ Proceed(p, "open")
            /\ UNCHANGED <<vars, settings, schema, recorded, draft, at, servers>>
       ELSE Fatal(p)

\* setServingUmask: what serve creates is private.
NewFile(p) == IF p = Serve THEN "private" ELSE "public"

\* RunMigrations of a target: the connection.  SQLite gives its write-ahead log
\* the mode of the database.
OpenDatabase(p) ==
    LET db == IF files.db # "absent" THEN files.db ELSE NewFile(p)
        wal == IF files.wal # "absent" THEN files.wal ELSE db
    IN /\ stage[p] = "open"
       /\ files' = [db |-> db, wal |-> wal]
       /\ Proceed(p, "check")
       /\ UNCHANGED <<vars, settings, schema, recorded, draft, at, servers>>

HasDatabase(p) ==
    \/ stage[p] \in {"check", "apply", "record"}
    \/ p = Serve /\ up

\* The next migration: of the same target, of the next one with a connection
\* of its own, or none.  The last connection takes the log with it.
Onward(p) ==
    LET i == at[p] + 1
    IN /\ at' = [at EXCEPT ![p] = i]
       /\ IF i \in DOMAIN Migrations \ TargetStarts
          THEN Proceed(p, "check") /\ UNCHANGED files
          ELSE /\ Proceed(p, IF i \in DOMAIN Migrations THEN "open" ELSE "protect")
               /\ files' = IF \E q \in Processes \ {p} : HasDatabase(q)
                           THEN files
                           ELSE [files EXCEPT !.wal = "absent"]

\* migrationApplied.
Check(p) ==
    /\ stage[p] = "check"
    /\ IF Migrations[at[p]] \in recorded
       THEN Onward(p)
       ELSE Proceed(p, "apply") /\ UNCHANGED <<at, files>>
    /\ UNCHANGED <<vars, settings, schema, recorded, draft, servers>>

\* Mutant: the statements of a migration are not part of the transaction.
ApplyAtOnce(p) ==
    /\ stage[p] = "apply"
    /\ draft = NoDraft
    /\ schema' = schema \cup {Migrations[at[p]]}
    /\ draft' = [by |-> p, schema |-> schema']
    /\ Proceed(p, "record")
    /\ UNCHANGED <<vars, settings, files, recorded, at, servers>>

\* The transaction begins, and the statements of the migration are executed.
\* A second execution is an error for most of them.
ApplyMigration(p) ==
    LET m == Migrations[at[p]]
    IN /\ stage[p] = "apply"
       /\ draft = NoDraft
       /\ IF m \in schema /\ m \notin Repeatable
          THEN Fatal(p)
          ELSE /\ draft' = [by |-> p, schema |-> schema \cup {m}]
               /\ Proceed(p, "record")
               /\ UNCHANGED <<vars, settings, files, schema, recorded, at, servers>>

\* The row of the migration, and COMMIT.  The row may be there already.
Record(p) ==
    LET m == Migrations[at[p]]
    IN /\ stage[p] = "record"
       /\ IF m \in recorded
          THEN Fatal(p)
          ELSE /\ recorded' = recorded \cup {m}
               /\ schema' = draft.schema
               /\ draft' = NoDraft
               /\ Onward(p)
               /\ UNCHANGED <<vars, settings, servers>>

\* The second ProtectFiles, and the end of Bootstrap.
Protect(p) ==
    /\ stage[p] = "protect"
    /\ files' = Protected(files)
    /\ Proceed(p, IF p = Serve THEN "overrides" ELSE "ready")
    /\ UNCHANGED <<vars, settings, schema, recorded, draft, at, servers>>

\* The password command has its store; the rest of it is in BrowserAuth.
AdminDone ==
    /\ stage[Admin] = "ready"
    /\ Proceed(Admin, "done")
    /\ UNCHANGED <<vars, settings, database, at, servers>>

-----------------------------------------------------------------------------
(* Start-up: the server.                                                   *)

\* The overrides are applied, and the result is checked again.
LoadOverrides ==
    /\ stage[Serve] = "overrides"
    /\ IF Validate(WithRows(settings))
       THEN /\ Start
            /\ Proceed(Serve, "sessions")
            /\ UNCHANGED <<settings, database, at, servers>>
       ELSE Fatal(Serve)

\* The session store is opened and purged; either may fail.
OpenSessions ==
    /\ stage[Serve] = "sessions"
    /\ \/ /\ open' = {"sessions"}
          /\ Proceed(Serve, "servers")
          /\ UNCHANGED <<vars, settings, database, at, listening, queries, asked,
                         events, jobs, closed, cut, exit>>
       \/ Fatal(Serve)

\* WithDNSLog and WithTagger: a tagger that cannot be opened is only reported.
OpenedStores == {{"dnslog"}, {"dnslog", "tagger"}}

\* withCORS and validateCORSOrigin: with CORS there is a list of exact origins.
WithCORS(c) == c.cors \in {"off", "origins"}

\* NewHandler checks the remembered days again, where 0 stands for the default,
\* and registers the routes.
NewHandler(c) ==
    LET days == IF c.remember = 0 THEN 10 ELSE c.remember
    IN  days \in MinDays..MaxDays /\ WithCORS(c)

\* newHTTPHandler: the API, and the pages that are part of the program.
NewHTTPHandler(c) == NewHandler(c)

\* WithUpstreams: NewClientMux panics when an upstream is not a URL.
NewClientMux(c) == "malformed" \notin c.upstreams

\* The key ring, NewServer with its middlewares, the HTTP servers and the
\* scheduler.
StartServers ==
    /\ stage[Serve] = "servers"
    /\ \/ /\ NewClientMux(settings)
          /\ NewHTTPHandler(settings)
          /\ \E stores \in OpenedStores : open' = open \cup stores
          /\ Proceed(Serve, "serving")
          /\ UNCHANGED <<vars, settings, database, at, listening, queries, asked,
                         events, jobs, closed, cut, exit>>
       \/ Fatal(Serve)

-----------------------------------------------------------------------------
(* Service.                                                                *)

\* The goroutine of the DNS server.  Its failure ends the process.
Listen ==
    /\ stage[Serve] = "serving"
    /\ ~listening
    /\ \/ /\ listening' = TRUE
          /\ UNCHANGED <<vars, settings, database, stage, at, queries, asked, events,
                         jobs, open, closed, cut, exit>>
       \/ Fatal(Serve)

Arrive ==
    /\ listening
    /\ asked < MaxQueries
    /\ asked' = asked + 1
    /\ queries' = queries + 1
    /\ UNCHANGED <<vars, settings, database, stage, at, listening, events, jobs, open,
                   closed, cut, exit>>

\* A query is answered, and logged if the log still takes events.
Answered ==
    /\ queries > 0
    /\ queries' = queries - 1
    /\ events' = "queued"
    /\ UNCHANGED <<vars, settings, database, stage, at, listening, asked, jobs, open,
                   closed, cut, exit>>

\* The DNS log's worker.  What it fails to write stays queued.
Flush ==
    /\ events = "queued" /\ "dnslog" \in open
    /\ events' = "saved"
    /\ UNCHANGED <<vars, settings, database, stage, at, listening, queries, asked, jobs,
                   open, closed, cut, exit>>

\* The HTTP server runs until it is told to stop, and so does the scheduler.
HttpAccepts == stage[Serve] \in {"serving", "stopDNS", "drainDNS"}
Scheduling == HttpAccepts \/ stage[Serve] = "stopHTTP"

\* FuzzyTask: a task waits for a random time, runs, and is over.  It does not
\* start again before that.
Job(t) ==
    /\ jobs' = [jobs EXCEPT ![t] = CASE @ = "idle" -> "waiting"
                                     [] @ = "waiting" -> "running"
                                     [] @ = "running" -> "idle"]
    /\ jobs[t] = "idle" => Scheduling
    /\ stage[Serve] # "idle"
    /\ UNCHANGED <<vars, settings, database, stage, at, listening, queries, asked,
                   events, open, closed, cut, exit>>

Request ==
    /\ (HttpAccepts /\ Accept) \/ (stage[Serve] # "idle" /\ Handle)
    /\ UNCHANGED process

-----------------------------------------------------------------------------
(* Shutdown.                                                               *)

\* The next step of the shutdown, with nothing else changed but these.
NextStage(s) == Proceed(Serve, s) /\ UNCHANGED <<vars, settings, database, at, asked, jobs, exit>>

Signal ==
    /\ stage[Serve] = "serving"
    /\ NextStage("stopDNS")
    /\ UNCHANGED <<listening, queries, events, open, closed, cut>>

\* srv.Shutdown: an error when the DNS server has not begun.  The socket is
\* closed, and the queries that it has read are waited for.
StopDNS ==
    /\ stage[Serve] = "stopDNS"
    /\ IF listening
       THEN /\ NextStage("drainDNS")
            /\ listening' = FALSE
            /\ UNCHANGED <<queries, events, open, closed, cut>>
       ELSE Fatal(Serve)

DNSStopped ==
    /\ stage[Serve] = "drainDNS"
    /\ queries = 0
    /\ NextStage("stopHTTP")
    /\ UNCHANGED <<listening, queries, events, open, closed, cut>>

\* The diagnostics and HTTP servers are given five seconds each for the
\* requests that they have accepted.
StopHTTP ==
    /\ stage[Serve] = "stopHTTP"
    /\ NextStage("stopScheduler")
    /\ cut' = \E r \in Requests : pc[r] # "idle"
    /\ UNCHANGED <<listening, queries, events, open, closed>>

JobsDone == \A t \in Tasks : jobs[t] = "idle"

\* Mutant: the scheduler is stopped without waiting for its jobs.
StopSchedulerNow ==
    /\ stage[Serve] = "stopScheduler"
    /\ NextStage("closeSessions")
    /\ UNCHANGED <<listening, queries, events, open, closed, cut>>

\* scheduler.Stop waits for the tasks that have begun, their random wait too.
StopScheduler ==
    /\ stage[Serve] = "stopScheduler"
    /\ JobsDone
    /\ NextStage("closeSessions")
    /\ UNCHANGED <<listening, queries, events, open, closed, cut>>

CloseStore(from, store, to) ==
    /\ stage[Serve] = from
    /\ open' = open \ {store}
    /\ closed' = closed \cup {store}
    /\ NextStage(to)
    /\ UNCHANGED <<listening, queries, cut>>

CloseSessions == CloseStore("closeSessions", "sessions", "closeTagger") /\ UNCHANGED events

\* Tagger.Close returns no error, so the logger.Fatal after it is never reached.
CloseTagger == CloseStore("closeTagger", "tagger", "stopLog") /\ UNCHANGED events

\* DNSLog.Stop: the last flush.  If it fails, the queue is dropped and an error
\* is logged, and the shutdown goes on.
StopLog ==
    /\ CloseStore("stopLog", "dnslog", "exit")
    /\ \/ events' = "saved"
       \/ events = "queued" /\ events' = "dropped"

\* The status is 0 in all three cases.
OsExit ==
    /\ stage[Serve] = "exit"
    /\ Gone(Serve, CASE events = "saved" -> "clean"
                     [] events = "dropped" -> "reported"
                     [] events = "queued" -> "lossy")

-----------------------------------------------------------------------------
\* The database is new, or of an earlier version, and a password is set while
\* serve starts; or it is up to date, and requests come.
ProcessInit ==
    /\ Init
    /\ settings \in Settings
    /\ files \in [{"db", "wal"} -> {"absent", "public", "private", "odd"}]
    /\ files.db = "absent" => files.wal = "absent"
    /\ \E n \in 0..Len(Migrations) : recorded = {Migrations[i] : i \in 1..n}
    /\ schema = recorded
    /\ files.db = "absent" => recorded = {}
    /\ draft = NoDraft
    /\ stage = [p \in Processes |-> "idle"]
    /\ at = [p \in Processes |-> 1]
    /\ listening = FALSE /\ queries = 0 /\ asked = 0 /\ events = "saved"
    /\ jobs = [t \in Tasks |-> "idle"]
    /\ open = {} /\ closed = {} /\ cut = FALSE
    /\ exit = "none"

Shutdown ==
    \/ Signal \/ StopDNS \/ DNSStopped \/ StopHTTP \/ StopScheduler
    \/ CloseSessions \/ CloseTagger \/ StopLog \/ OsExit

ProcessNext ==
    \/ \E p \in Processes :
         \/ Launch(p) \/ Prepare(p) \/ OpenDatabase(p) \/ Check(p)
         \/ ApplyMigration(p) \/ Record(p) \/ Protect(p) \/ Kill(p)
    \/ ConfigureServe \/ ConfigureAdmin \/ AdminDone
    \/ LoadOverrides \/ OpenSessions \/ StartServers
    \/ Listen \/ Arrive \/ Answered \/ Flush \/ Request
    \/ \E t \in Tasks : Job(t)
    \/ Shutdown

ProcessSpec == ProcessInit /\ [][ProcessNext]_allVars

-----------------------------------------------------------------------------
(* Properties.                                                             *)

Booted(p) ==
    stage[p] \notin {"idle", "configure", "prepare", "open", "check", "apply", "record",
                     "protect", "done"}

\* Bootstrap (internal/db/bootstrap.go): whatever another process does to the
\* same database at the same time, and wherever either ends, a migration is
\* in effect exactly when schema_migrations says so, and a process that has
\* passed Bootstrap has the whole schema in files that only the owner reads.
SchemaBeforeUse ==
    /\ schema = recorded
    /\ \A p \in Processes : Booted(p) =>
         /\ schema = {Migrations[i] : i \in DOMAIN Migrations}
         /\ "public" \notin {files[x] : x \in DOMAIN files}

\* run (cmd/serve.go): a store is closed only when no query, no scheduled task
\* and no request is left that could use it, unless the HTTP server ran out of
\* time; and a regular exit leaves nothing in the queue of the DNS log: it is
\* in the database, or the very last flush failed, which was logged (the exit
\* status is 0 all the same).
OrderlyShutdown ==
    /\ closed # {} => /\ queries = 0
                      /\ \A t \in Tasks : jobs[t] = "idle"
                      /\ cut \/ \A r \in Requests : pc[r] = "idle"
    /\ exit # "lossy"
=============================================================================
