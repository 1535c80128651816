------------------------------- MODULE Tagger -------------------------------
(***************************************************************************)
(* The tagger: requests of the management API change the tables through    *)
(* the executor and then reload the matcher, which the goroutines of the   *)
(* queries read.  Between the commit, the snapshot for the matcher and its *)
(* installation, other requests go on.                                     *)
(***************************************************************************)
EXTENDS SyncExecutor

CONSTANTS
    Requests,       \* the requests that a caller may make
    MaxRequests     \* bound: requests in a behaviour

ASSUME TaggerAssumption ==
    /\ MaxRequests \in Nat
    /\ \A r \in Requests :
         /\ r = Request(r.kind, r.label, r.address, r.set)
         /\ r.kind \in {"create", "add", "replace", "remove", "deleteMember", "deleteLabel"}
                        \cup Reads
         /\ r.label \in Labels \cup {Blank}
         /\ r.address \in Members \cup {Blank}
         /\ IsFiniteSet(r.set)
         /\ r.set \subseteq (IF r.kind = "replace" THEN Labels ELSE Members) \cup {Blank}

VARIABLES
    answer,     \* per caller: the answer to its latest request
    items,      \* per caller: what the answer lists
    snap,       \* per caller: the pairs it has read for the matcher
    matcher,    \* the matcher in use
    requests,   \* requests so far
    past,       \* history: the committed pairs since the start
    alone       \* history: per caller, no other request has overlapped its own

tagger == <<answer, items, snap, matcher, requests, past, alone>>
vars == <<pc, asked, pool, executor, tagger>>

TypeOK ==
    /\ pc \in [Callers -> {"idle", "check", "lock", "begin", "statement", "commit",
                           "rollback", "getconn", "snapshot", "install", "getdetail",
                           "detail", "respond", "error"}]
    /\ asked \in [Callers -> Requests \cup {NoRequest}]
    /\ step \in [Callers -> Nat \ {0}]
    /\ done \in [Callers -> BOOLEAN]
    /\ mu \in Callers \cup {NoCaller}
    /\ runner \in BOOLEAN /\ cancelled \in BOOLEAN /\ tx \in BOOLEAN
    /\ work \in Tables /\ tables \in Tables
    /\ pool \in 0..MaxConns
    /\ faults \in 0..MaxFaults
    /\ answer \in [Callers -> {"none", "ok", "error"}]
    /\ items \in [Callers -> SUBSET (Labels \cup Members)]
    /\ snap \in [Callers -> SUBSET (Members \X Labels)]
    /\ requests \in 0..MaxRequests
    /\ past \subseteq SUBSET (Members \X Labels)
    /\ alone \in [Callers -> BOOLEAN]

Init ==
    /\ pc = [c \in Callers |-> "idle"]
    /\ asked = [c \in Callers |-> NoRequest]
    /\ ExecutorInit
    /\ answer = [c \in Callers |-> "none"]
    /\ items = [c \in Callers |-> {}]
    /\ snap = [c \in Callers |-> {}]
    /\ matcher = MatcherOf(Stored.pairs)
    /\ requests = 0
    /\ past = {Stored.pairs}
    /\ alone = [c \in Callers |-> TRUE]

\* A request arrives.
Ask(c, r) ==
    /\ pc[c] = "idle"
    /\ requests < MaxRequests
    /\ requests' = requests + 1
    /\ asked' = [asked EXCEPT ![c] = r]
    /\ answer' = [answer EXCEPT ![c] = "none"]
    /\ Goto(c, "check")
    /\ alone' = [x \in Callers |->
                   IF x = c THEN \A y \in Callers \ {c} : pc[y] = "idle"
                            ELSE alone[x] /\ pc[x] = "idle"]
    /\ UNCHANGED <<pool, executor, items, snap, matcher, past>>

\* The handlers, and DeleteMember of the tagger.
AskFor(c, kind) == \E r \in Requests : r.kind = kind /\ Ask(c, r)
TaggerAddTag(c) == AskFor(c, "create")
TaggerGetTags(c) == AskFor(c, "tags")
TaggerAddMember(c) == AskFor(c, "add")
TaggerTagGetMembers(c) == AskFor(c, "members")
TaggerKnownHosts(c) == AskFor(c, "hosts")
TaggerDeleteTagMember(c) == AskFor(c, "remove")
TaggerAddressReplace(c) == AskFor(c, "replace")
TaggerDeleteTag(c) == AskFor(c, "deleteLabel")
TaggerDeleteMember(c) == AskFor(c, "deleteMember")

\* It is refused, reads only, or goes to the executor.  An empty list of
\* members has no statements, and still reloads.
Check(c) ==
    LET r == asked[c]
    IN /\ pc[c] = "check"
       /\ Goto(c, CASE Refused(r) -> "error"
                    [] ~Refused(r) /\ r.kind \in Reads -> "getdetail"
                    [] OTHER -> IF Statements(r) = <<>> THEN "getconn" ELSE "lock")
       /\ done' = [done EXCEPT ![c] =
                     ~Refused(r) /\ r.kind \notin Reads /\ Statements(r) = <<>>]
       /\ UNCHANGED <<asked, pool, step, mu, runner, cancelled, tx, work, tables,
                      faults, tagger>>

\* A transaction, with the history of what it commits.
Execute(c) ==
    /\ Lock(c) \/ Transaction(c)
    /\ past' = past \cup {tables'.pairs}
    /\ UNCHANGED <<answer, items, snap, matcher, requests, alone>>

Connect(c) == GetConn(c) /\ UNCHANGED tagger

\* Mutant: the connection is not given back when the query fails.
SnapshotLeaksConn(c) ==
    /\ pc[c] = "snapshot"
    /\ \/ Fault /\ Goto(c, "error") /\ UNCHANGED <<pool, snap>>
       \/ /\ Goto(c, "install")
          /\ pool' = pool + 1
          /\ snap' = [snap EXCEPT ![c] = tables.pairs]
          /\ NoFault
    /\ UNCHANGED <<asked, step, done, mu, runner, cancelled, tx, work, tables,
                   answer, items, matcher, requests, past, alone>>

\* refreshMatchers: GetAllMemberLabels, and an error if it fails.
Snapshot(c) ==
    /\ pc[c] = "snapshot"
    /\ \/ QueryFails(c) /\ UNCHANGED snap
       \/ /\ Goto(c, "install")
          /\ pool' = pool + 1
          /\ snap' = [snap EXCEPT ![c] = tables.pairs]
          /\ NoFault
    /\ UNCHANGED <<asked, step, done, mu, runner, cancelled, tx, work, tables,
                   answer, items, matcher, requests, past, alone>>

\* Mutant: the map is replaced and the list of networks is left.
InstallExact(c) ==
    /\ pc[c] = "install"
    /\ matcher' = [matcher EXCEPT !.exact = MatcherOf(snap[c]).exact]
    /\ Goto(c, IF asked[c].kind \in {"add", "replace"} THEN "getdetail" ELSE "respond")
    /\ snap' = [snap EXCEPT ![c] = {}]
    /\ UNCHANGED <<asked, pool, executor, answer, items, requests, past, alone>>

\* refreshMatchers: the new matcher is installed under matcherMu.  The handlers
\* of additions and replacements then read back what they answer.
Install(c) ==
    /\ pc[c] = "install"
    /\ matcher' = MatcherOf(snap[c])
    /\ Goto(c, IF asked[c].kind \in {"add", "replace"} THEN "getdetail" ELSE "respond")
    /\ snap' = [snap EXCEPT ![c] = {}]
    /\ UNCHANGED <<asked, pool, executor, answer, items, requests, past, alone>>

\* The reads of the handlers: tags, members, known hosts, labels of a member.
ReadDetail(c) ==
    /\ pc[c] = "detail"
    /\ \/ QueryFails(c) /\ UNCHANGED <<done, items>>
       \/ /\ Goto(c, "respond")
          /\ pool' = pool + 1
          /\ items' = [items EXCEPT ![c] = Listing(asked[c], tables)]
          /\ done' = [done EXCEPT ![c] = TRUE]
          /\ NoFault
    /\ UNCHANGED <<asked, step, mu, runner, cancelled, tx, work, tables,
                   answer, snap, matcher, requests, past, alone>>

Respond(c) ==
    /\ pc[c] \in {"respond", "error"}
    /\ answer' = [answer EXCEPT ![c] = IF pc[c] = "respond" THEN "ok" ELSE "error"]
    /\ Goto(c, "idle")
    /\ done' = [done EXCEPT ![c] = FALSE]
    /\ alone' = [alone EXCEPT ![c] = TRUE]
    /\ asked' = [asked EXCEPT ![c] = NoRequest]
    /\ items' = [items EXCEPT ![c] = {}]
    /\ UNCHANGED <<pool, step, mu, runner, cancelled, tx, work, tables, faults,
                   snap, matcher, requests, past>>

Serve(c) ==
    \/ Check(c) \/ Execute(c) \/ Connect(c) \/ Snapshot(c) \/ Install(c)
    \/ ReadDetail(c) \/ Respond(c)

Next ==
    \/ \E c \in Callers :
         \/ Serve(c)
         \/ TaggerAddTag(c) \/ TaggerGetTags(c) \/ TaggerDeleteTag(c)
         \/ TaggerAddMember(c) \/ TaggerTagGetMembers(c) \/ TaggerDeleteTagMember(c)
         \/ TaggerAddressReplace(c) \/ TaggerKnownHosts(c) \/ TaggerDeleteMember(c)
    \/ (Close \/ RunExit) /\ UNCHANGED tagger

Spec == Init /\ [][Next]_vars

\* Goroutines run.  sync.Mutex hands itself to a waiter that has starved, and
\* a channel serves its readers in order.
Fairness ==
    /\ WF_vars(RunExit /\ UNCHANGED tagger)
    /\ \A c \in Callers :
         /\ WF_vars(Serve(c))
         /\ SF_vars(Lock(c) /\ Execute(c))
         /\ SF_vars(Connect(c))

FairSpec == Spec /\ Fairness

-----------------------------------------------------------------------------
(* Properties.                                                             *)

CallState(c) ==
    CASE pc[c] = "idle" -> "none"
      [] pc[c] # "idle" /\ done[c] -> "applied"
      [] pc[c] = "error" /\ ~done[c] -> "failed"
      [] OTHER -> "pending"

Store == INSTANCE TagStore WITH call <- [c \in Callers |-> CallState(c)]

\* The executor and the store implement the abstract tag store: whichever
\* statement, COMMIT or ROLLBACK fails, and wherever the executor is closed,
\* the stored tables only ever change by a whole request, and a request that
\* is answered with success is one of them.
ImplementsTagStore == Store!AbstractSpec

\* lookupLabels: the labels that a query gets are those of one committed state
\* of the table, for its address and the networks around it.  No query is
\* labelled by half of a replacement.
LabelsWereStored ==
    \E pairs \in past : \A a \in Hosts :
      LookupLabels(matcher, a) = ClientLabels(pairs, a)

\* A request that no other one has overlapped, and that reloads the matcher,
\* is answered with success only when queries are labelled by what is stored.
\* The answer to a replacement lists the labels that were asked for.
AnsweredIsInUse ==
    [][\A c \in Callers :
         /\ answer[c] = "none" /\ answer'[c] = "ok"
         /\ alone[c]
         /\ asked[c].kind \notin Reads \cup {"create"}
         => /\ \A a \in Hosts : LookupLabels(matcher, a) = ClientLabels(tables.pairs, a)
            /\ asked[c].kind = "replace" => items[c] = asked[c].set \ {Blank}]_vars

\* Every request is answered, unless the executor is closed: then a caller may
\* wait for a goroutine or for a connection that is not there any more.
RequestsAnswered == \A c \in Callers : pc[c] # "idle" ~> pc[c] = "idle" \/ cancelled
=============================================================================
