------------------------------ MODULE TagStore ------------------------------
(***************************************************************************)
(* What the tag store promises: a request changes the tables once and      *)
(* completely, or not at all, whatever fails and whoever else is at work.  *)
(* A request that is answered with success has changed them.  One that is  *)
(* answered with an error may have: the error can come after the change.   *)
(***************************************************************************)
EXTENDS TagTables

CONSTANTS
    Callers,    \* goroutines of the management API
    Requests    \* the requests that they may make

VARIABLES
    tables,     \* what is stored
    call,       \* per caller: none, pending, applied or failed
    asked,      \* per caller: its request
    answer      \* per caller: the answer to it

abstract == <<tables, call, asked, answer>>

AbstractInit ==
    /\ tables = Stored
    /\ call = [c \in Callers |-> "none"]
    /\ asked = [c \in Callers |-> NoRequest]
    /\ answer = [c \in Callers |-> "none"]

Invoke(c, r) ==
    /\ call[c] = "none"
    /\ call' = [call EXCEPT ![c] = "pending"]
    /\ asked' = [asked EXCEPT ![c] = r]
    /\ answer' = [answer EXCEPT ![c] = "none"]
    /\ UNCHANGED tables

Apply(c) ==
    /\ call[c] = "pending"
    /\ tables' = Outcome(asked[c], tables)
    /\ call' = [call EXCEPT ![c] = "applied"]
    /\ UNCHANGED <<asked, answer>>

GiveUp(c) ==
    /\ call[c] = "pending"
    /\ call' = [call EXCEPT ![c] = "failed"]
    /\ UNCHANGED <<tables, asked, answer>>

Reply(c) ==
    /\ call[c] \in {"applied", "failed"}
    /\ call' = [call EXCEPT ![c] = "none"]
    /\ \E a \in {"ok", "error"} :
         /\ a = "ok" => call[c] = "applied"
         /\ answer' = [answer EXCEPT ![c] = a]
    /\ asked' = [asked EXCEPT ![c] = NoRequest]
    /\ UNCHANGED tables

\* The process ends: what was not applied never will be.
Forget ==
    /\ call' = [c \in Callers |-> "none"]
    /\ asked' = [c \in Callers |-> NoRequest]
    /\ answer' = [c \in Callers |-> "none"]
    /\ UNCHANGED tables

AbstractNext ==
    \/ \E c \in Callers : (\E r \in Requests : Invoke(c, r)) \/ Apply(c) \/ GiveUp(c) \/ Reply(c)
    \/ Forget

AbstractSpec == AbstractInit /\ [][AbstractNext]_abstract
=============================================================================
