------------------------------ MODULE Dashboard ------------------------------
(***************************************************************************)
(* The dashboard of the DNS log: middleware/dnslog_dashboard.go and the    *)
(* scheduled job of DNSLog.Init.                                           *)
(*                                                                         *)
(* The statistics of the completed hours of the window are kept in a table *)
(* of their own.  A request for the dashboard ("reader") is answered from  *)
(* that table if it has every hour of the window, and fills it otherwise;  *)
(* an hourly job ("job") brings it up to date.  dashboardMu serialises     *)
(* both with rotate and Clear, but not with doInsert: an hour may be       *)
(* counted while some of its events are still queued.                      *)
(*                                                                         *)
(* The log itself, whose locks and failures module DNSLog has in detail,   *)
(* is seen here by the hour: how many of its events are queued, and how    *)
(* many are rows of the table tdnslog.  A statistic is a number of rows.   *)
(***************************************************************************)
EXTENDS Integers, FiniteSetsExt

CONSTANTS
    HistoryHours,   \* dashboardHistoryHours: completed hours in the window
    MaxHours,       \* dashboardMaxHours
    Requested,      \* the windows, in hours, that requests ask for
    LastHour,       \* bound: the hours of a run are HistoryHours..LastHour
    MaxQueries,     \* bound: queries per hour
    MaxTrouble      \* bound: failing writes and crashes

ASSUME DashboardAssumption ==
    /\ HistoryHours \in Nat \ {0} /\ HistoryHours <= LastHour
    /\ MaxHours \in Nat /\ LastHour \in Nat /\ MaxQueries \in Nat /\ MaxTrouble \in Nat
    /\ Requested \subseteq Int

Hours == 0..LastHour

VARIABLES
    hour,           \* the hour bucket of the clock
    logging,        \* cs.enabled
    pending,        \* events in cs.queue, by the hour of their timestamp
    logged,         \* rows of tdnslog, by the hour of dt
    stats,          \* table dashboard_hourly_stats
    dashboardMu,    \* "free", "rotate", "reader" or "job"
    task,           \* where the reader and the job are
    refreshed,      \* the hour of the last refresh that succeeded
    tornAt,         \* the hour in which a rotate last ended between its statements
    trouble

log == <<logging, pending, logged>>
history == <<refreshed, tornAt>>
dashVars == <<hour, log, stats, dashboardMu, task, history, trouble>>

Tasks == {"reader", "job"}
NoTask == [at |-> "idle", now |-> 0, write |-> FALSE, points |-> <<>>]
None == [h \in Hours |-> 0]

\* loadDashboardHistoryAt: the completed hours of a window seen in hour h.
Window(h) == h - HistoryHours .. h - 1

\* queryDashboardBuckets: a point for each of these hours, rows or not.
QueryBuckets(hours) == [h \in hours |-> logged[h]]

\* dashboardCacheComplete, on what readDashboardCache finds in the table.
CacheComplete(h) == Window(h) \subseteq DOMAIN stats

\* GetDashboardStatsAt: the window that is answered, in hours.
WindowHours(hours) ==
    IF hours <= 0 THEN HistoryHours + 1 ELSE Min({hours, MaxHours})

\* dashboardCacheStatements, one transaction: the points are inserted or
\* replaced, and hours outside the window deleted.
CacheStatements(points, h) ==
    [x \in Window(h) \cap (DOMAIN stats \cup DOMAIN points) |->
        IF x \in DOMAIN points THEN points[x] ELSE stats[x]]

DashboardInit ==
    /\ hour = HistoryHours
    /\ logging \in BOOLEAN
    /\ pending = None /\ logged = None
    /\ stats = <<>>
    /\ dashboardMu = "free"
    /\ task = [p \in Tasks |-> NoTask]
    /\ refreshed = 0 /\ tornAt = 0 /\ trouble = 0

Fails ==
    /\ trouble < MaxTrouble
    /\ trouble' = trouble + 1

\* Events wait for seconds, not for an hour: a flush that fails is tried again
\* after five seconds.
Flushed == \A h \in Hours : h < hour => pending[h] = 0

Tick ==
    /\ hour < LastHour
    /\ Flushed
    /\ hour' = hour + 1
    /\ UNCHANGED <<log, stats, dashboardMu, task, history, trouble>>

-----------------------------------------------------------------------------
(* The reader and the job.                                                 *)

Begin(p, write) ==
    /\ task[p].at = "idle"
    /\ task' = [task EXCEPT ![p] = [at |-> "lock", now |-> hour, write |-> write, points |-> <<>>]]
    /\ UNCHANGED <<hour, log, stats, dashboardMu, history, trouble>>

\* GetDashboardStats and GetDashboardHistory: only the default window uses the
\* table.  The clock and IsEnabled are read before dashboardMu is taken.
LoadHistory(hours) ==
    /\ WindowHours(hours) = HistoryHours + 1
    /\ Begin("reader", logging)

\* The job starts a minute or more after the full hour, when what came before
\* has been flushed.
RefreshJob ==
    /\ logging
    /\ refreshed < hour
    /\ Flushed
    /\ Begin("job", TRUE)

\* Mutant: a refresh, like a load, has nothing to do if every hour is there.
HoursToQueryOnce(p, h) == IF CacheComplete(h) THEN {} ELSE Window(h)

\* What has to be counted: nothing for a load that finds every hour, the last
\* hour for a refresh that does, and otherwise the whole window.
HoursToQuery(p, h) ==
    CASE CacheComplete(h) /\ p = "reader" -> {}
      [] CacheComplete(h) /\ p = "job" -> {h - 1}
      [] ~CacheComplete(h) -> Window(h)

\* dashboardMu is taken and the tables are read.  A load that finds every hour,
\* or that began when the log was off, returns at once.
ReadTables(p) ==
    LET hours == HoursToQuery(p, task[p].now) IN
    /\ task[p].at = "lock"
    /\ dashboardMu = "free"
    /\ IF hours # {} /\ task[p].write
       THEN /\ dashboardMu' = p
            /\ task' = [task EXCEPT ![p].at = "store", ![p].points = QueryBuckets(hours)]
            /\ UNCHANGED refreshed
       ELSE /\ task' = [task EXCEPT ![p] = NoTask]
            /\ refreshed' = IF p = "job" THEN task[p].now ELSE refreshed
            /\ UNCHANGED dashboardMu
    /\ UNCHANGED <<hour, log, stats, tornAt, trouble>>

StoreStats(p) ==
    /\ dashboardMu = p
    /\ stats' = CacheStatements(task[p].points, task[p].now)
    /\ refreshed' = IF p = "job" THEN task[p].now ELSE refreshed
    /\ dashboardMu' = "free"
    /\ task' = [task EXCEPT ![p] = NoTask]
    /\ UNCHANGED <<hour, log, tornAt, trouble>>

StoreStatsFail(p) ==
    /\ dashboardMu = p
    /\ Fails
    /\ dashboardMu' = "free"
    /\ task' = [task EXCEPT ![p] = NoTask]
    /\ UNCHANGED <<hour, log, stats, history>>

-----------------------------------------------------------------------------
(* The log, by the hour.                                                   *)

LogQuery ==
    /\ logging
    /\ pending[hour] + logged[hour] < MaxQueries
    /\ pending' = [pending EXCEPT ![hour] = @ + 1]
    /\ UNCHANGED <<hour, logging, logged, stats, dashboardMu, task, history, trouble>>

\* doInsert takes flushMu, which rotate holds, and not dashboardMu.
Flush ==
    /\ dashboardMu # "rotate"
    /\ pending # None
    /\ logged' = [h \in Hours |-> logged[h] + pending[h]]
    /\ pending' = None
    /\ UNCHANGED <<hour, logging, stats, dashboardMu, task, history, trouble>>

\* StartLogging, and StopLogging: what is queued is written, or else discarded.
ToggleLogging ==
    /\ logging => dashboardMu # "rotate"
    /\ logging' = ~logging
    /\ pending' = None
    /\ \/ logged' = [h \in Hours |-> logged[h] + pending[h]] /\ UNCHANGED trouble
       \/ logging /\ Fails /\ UNCHANGED logged
    /\ UNCHANGED <<hour, stats, dashboardMu, task, history>>

\* rotate: its first statement deletes the rows before some time ...
RotateRows ==
    /\ dashboardMu = "free"
    /\ \E h \in Hours : \E n \in 0..logged[h] :
          logged' = [x \in Hours |-> IF x < h THEN 0 ELSE logged[x] - IF x = h THEN n ELSE 0]
    /\ dashboardMu' = "rotate"
    /\ UNCHANGED <<hour, logging, pending, stats, task, history, trouble>>

\* ... and the second, a transaction of its own, clears the table.
RotateStats ==
    /\ dashboardMu = "rotate"
    /\ stats' = <<>>
    /\ dashboardMu' = "free"
    /\ UNCHANGED <<hour, log, task, history, trouble>>

RotateStatsFail ==
    /\ dashboardMu = "rotate"
    /\ Fails
    /\ dashboardMu' = "free"
    /\ tornAt' = hour
    /\ UNCHANGED <<hour, log, stats, task, refreshed>>

\* Clear takes dashboardMu after the other locks; one transaction does it all.
ClearLog ==
    /\ ~logging
    /\ dashboardMu = "free"
    /\ pending' = None /\ logged' = None
    /\ stats' = <<>>
    /\ UNCHANGED <<hour, logging, dashboardMu, task, history, trouble>>

\* The process is killed and started again.
CrashRestart ==
    /\ Fails
    /\ pending' = None
    /\ tornAt' = IF dashboardMu = "rotate" THEN hour ELSE tornAt
    /\ dashboardMu' = "free"
    /\ task' = [p \in Tasks |-> NoTask]
    /\ UNCHANGED <<hour, logging, logged, stats, refreshed>>

-----------------------------------------------------------------------------
DashboardNext ==
    \/ Tick
    \/ \E hours \in Requested : LoadHistory(hours)
    \/ RefreshJob
    \/ \E p \in Tasks : ReadTables(p) \/ StoreStats(p) \/ StoreStatsFail(p)
    \/ LogQuery \/ Flush \/ ToggleLogging
    \/ RotateRows \/ RotateStats \/ RotateStatsFail
    \/ ClearLog \/ CrashRestart

DashboardSpec == DashboardInit /\ [][DashboardNext]_dashVars

-----------------------------------------------------------------------------
(* Properties.                                                             *)

\* A dashboard that is answered from the table is exact, for all that
\* dashboardMu does not cover doInsert: an hour is counted with events still
\* queued only if it is the last one and its refresh is yet to come, and what a
\* rotate left behind when it stopped half-way is not used any more once the
\* next hour has begun.
HistoryExact ==
    dashboardMu = "free" /\ CacheComplete(hour) /\ tornAt < hour =>
        \A h \in Window(hour) :
            stats[h] = logged[h] \/ (h = hour - 1 /\ refreshed < hour)

=============================================================================
