---------------------------- MODULE SyncExecutor ----------------------------
(***************************************************************************)
(* The executor of the SQLite statements of the tag store.  A caller       *)
(* holds mu for a whole transaction and hands its statements one by one,   *)
(* over unbuffered channels, to the goroutine Run, which has the one       *)
(* connection that writes.  BEGIN, COMMIT and ROLLBACK are statements      *)
(* like the others, and each of them may fail.  Closing the executor       *)
(* cancels its context: statements fail from then on, and Run ends at one  *)
(* of its next turns and closes the connection.                            *)
(*                                                                         *)
(* The statements that wait in the bulk queue are left out: nothing in the *)
(* program puts any there.                                                 *)
(***************************************************************************)
EXTENDS TagTables

CONSTANTS
    Callers,
    NoCaller,
    MaxConns,   \* read-only connections, MaxReadonlyConnections
    MaxFaults   \* bound: statements that fail for reasons of their own

ASSUME SyncExecutorAssumption ==
    /\ NoCaller \notin Callers
    /\ MaxConns \in Nat \ {0}
    /\ MaxFaults \in Nat

VARIABLES
    pc,         \* where each caller is
    asked,      \* its request
    step,       \* the statement of the request that is next
    done,       \* whether its request has been committed
    mu,         \* the caller that holds mu
    runner,     \* whether the goroutine Run is there
    cancelled,  \* whether the executor's context is
    tx,         \* whether a transaction is open on the connection
    work,       \* the tables as that transaction sees them
    tables,     \* the committed tables
    pool,       \* read-only connections in roConnPool
    faults      \* faults so far

executor == <<step, done, mu, runner, cancelled, tx, work, tables, faults>>

\* Where the caller is next.  Leave is the end of its transaction, by which it
\* has unlocked mu.
Goto(c, label) == pc' = [pc EXCEPT ![c] = label]
Leave(c, label) ==
    /\ Goto(c, label)
    /\ mu' = NoCaller
    /\ step' = [step EXCEPT ![c] = 1]

\* The connection has a transaction or none; what it sees means nothing then.
InTransaction(open) == tx' = open /\ work' = IF open THEN work ELSE EmptyTables

Fault == faults < MaxFaults /\ faults' = faults + 1
NoFault == UNCHANGED faults

ExecutorInit ==
    /\ step = [c \in Callers |-> 1]
    /\ done = [c \in Callers |-> FALSE]
    /\ mu = NoCaller
    /\ runner = TRUE
    /\ cancelled = FALSE
    /\ tx = FALSE
    /\ work = EmptyTables
    /\ tables = Stored
    /\ pool = MaxConns
    /\ faults = 0

\* SyncExec and SyncExecBulk.
Lock(c) ==
    /\ pc[c] = "lock"
    /\ mu = NoCaller
    /\ mu' = c
    /\ Goto(c, "begin")
    /\ UNCHANGED <<asked, step, done, runner, cancelled, tx, work, tables, pool, faults>>

\* Mutant: an error of BEGIN is not looked at.
BeginAnyway(c) ==
    /\ pc[c] = "begin"
    /\ runner
    /\ Goto(c, "statement")
    /\ tx' = TRUE
    /\ work' = IF tx THEN work ELSE tables
    /\ UNCHANGED <<asked, step, done, mu, runner, cancelled, tables, pool, faults>>

\* BEGIN fails within a transaction that could not be rolled back earlier.
Begin(c) ==
    /\ pc[c] = "begin"
    /\ runner
    /\ \/ /\ tx \/ cancelled
          /\ Leave(c, "error")
          /\ NoFault
          /\ UNCHANGED <<tx, work>>
       \/ /\ Fault
          /\ Leave(c, "error")
          /\ UNCHANGED <<tx, work>>
       \/ /\ ~tx /\ ~cancelled
          /\ Goto(c, "statement")
          /\ tx' = TRUE
          /\ work' = tables
          /\ UNCHANGED <<mu, step>>
          /\ NoFault
    /\ UNCHANGED <<asked, done, runner, cancelled, tables, pool>>

\* A statement or a COMMIT fails.  A fault may make SQLite roll the whole
\* transaction back by itself.
FailInside(c, refused) ==
    /\ \/ refused /\ NoFault /\ InTransaction(tx)
       \/ Fault /\ (InTransaction(tx) \/ InTransaction(FALSE))
    /\ Goto(c, "rollback")
    /\ UNCHANGED <<mu, tables, step, done>>

Statement(c) ==
    LET s == Statements(asked[c])[step[c]]
    IN /\ pc[c] = "statement"
       /\ runner
       /\ \/ FailInside(c, cancelled \/ Rejects(s, work))
          \/ /\ ~cancelled /\ ~Rejects(s, work)
             /\ work' = Effect(s, work)
             /\ step' = [step EXCEPT ![c] = @ + 1]
             /\ Goto(c, IF step[c] < Len(Statements(asked[c])) THEN "statement" ELSE "commit")
             /\ UNCHANGED <<mu, tx, tables, done>>
             /\ NoFault
       /\ UNCHANGED <<asked, runner, cancelled, pool>>

\* Mutant: the deletion of a label does not reload the matcher.
AfterCommitLazy(r) == IF r.kind \in {"create", "deleteLabel"} THEN "respond" ELSE "getconn"

\* Where a request goes on when its statements are committed: everything but
\* the creation of a label reloads the matcher.
AfterCommit(r) == IF r.kind = "create" THEN "respond" ELSE "getconn"

Commit(c) ==
    /\ pc[c] = "commit"
    /\ runner
    /\ \/ FailInside(c, cancelled)
       \/ /\ ~cancelled
          /\ tables' = work
          /\ InTransaction(FALSE)
          /\ done' = [done EXCEPT ![c] = TRUE]
          /\ Leave(c, AfterCommit(asked[c]))
          /\ NoFault
    /\ UNCHANGED <<asked, runner, cancelled, pool>>

\* ROLLBACK fails when there is no transaction any more; when it fails for
\* another reason, the transaction stays open.  The request ends in any case.
Rollback(c) ==
    /\ pc[c] = "rollback"
    /\ runner
    /\ Leave(c, "error")
    /\ \/ InTransaction(tx /\ cancelled) /\ NoFault
       \/ InTransaction(tx) /\ Fault
    /\ UNCHANGED <<asked, done, runner, cancelled, tables, pool>>

\* Close of SyncExecutor and of SQLiteStorage: the read-only connections that
\* are in the pool are closed.
Close ==
    /\ ~cancelled
    /\ cancelled' = TRUE
    /\ pool' = 0
    /\ UNCHANGED <<pc, asked, step, done, mu, runner, tx, work, tables, faults>>

\* Run sees the end of its context.  Closing the connection rolls back.
RunExit ==
    /\ cancelled /\ runner
    /\ runner' = FALSE
    /\ InTransaction(FALSE)
    /\ UNCHANGED <<pc, asked, step, done, mu, cancelled, tables, pool, faults>>

\* GetConn waits for a read-only connection.
GetConn(c) ==
    /\ pc[c] \in {"getconn", "getdetail"}
    /\ pool > 0
    /\ pool' = pool - 1
    /\ Goto(c, IF pc[c] = "getconn" THEN "snapshot" ELSE "detail")
    /\ UNCHANGED <<asked, executor>>

\* A query, and FreeConn.  It fails for a reason of its own, or because the
\* tables are locked by an open transaction.
QueryFails(c) ==
    /\ (tx /\ NoFault) \/ Fault
    /\ Goto(c, "error")
    /\ pool' = pool + 1

Transaction(c) == Begin(c) \/ Statement(c) \/ Commit(c) \/ Rollback(c)
=============================================================================
