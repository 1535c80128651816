----------------------------- MODULE MCLogViews -----------------------------
(* DNSLog, Dashboard and LogQueries look at the log in three ways: event by  *)
(* event, by the hour, and row by row.  One run explores all of them, one in *)
(* each behaviour; the variables of the others keep one initial value.       *)
EXTENDS MCDNSLog, Dashboard, LogQueries

CONSTANTS a1, a2

VARIABLE view

\* The text of one address is a part of the other's: 10.0.0.1 and 10.0.0.12.
MCPrefixes == {<<a1, a2>>}

\* A number for which SQLite knows no limit, and one above the maximum.
MCTops == {-1, 3}

\* Bound: the aliases are of one representation.  Everything but AddAlias asks only
\* whether there are any.
OneKindOfAlias == \A x, y \in hosts : x = y

ViewsInit ==
    /\ Init /\ DashboardInit /\ QueriesInit
    /\ \/ view = "events" /\ ~logging /\ ~tokens
       \/ view = "hours" /\ ~enabled /\ ~privacy.domains /\ ~tokens
       \/ view = "rows" /\ ~enabled /\ ~privacy.domains /\ ~logging

ViewsNext ==
    /\ UNCHANGED view
    /\ \/ view = "events" /\ Next /\ UNCHANGED <<dashVars, queryVars>>
       \/ view = "hours" /\ DashboardNext /\ UNCHANGED <<vars, queryVars>>
       \/ view = "rows" /\ QueriesNext /\ UNCHANGED <<vars, dashVars>>

ViewsSpec == ViewsInit /\ [][ViewsNext]_<<vars, dashVars, queryVars, view>>
=============================================================================
