------------------------------ MODULE Blocklist -----------------------------
(***************************************************************************)
(* The block list of middleware/blacklist.go and its refresh from a GitHub *)
(* repository by internal/blocklist: a file, a sidecar with the revision   *)
(* it is from, and the lookup tree ("hole") in memory.                     *)
(*                                                                         *)
(* Actors: Init at start-up, the scheduled refresh, administrators who     *)
(* replace the persisted hosts and exclusions, and queries, which copy     *)
(* what they need under mu.  refreshMu serialises whoever touches the file *)
(* or rebuilds the tree; it is held over the whole download.               *)
(*                                                                         *)
(* The repository's revisions are numbered in the order of its branch.  A  *)
(* list is the set of its lines, and a line the names it has: the first    *)
(* one, and others after it.                                               *)
(***************************************************************************)
EXTENDS Naturals, FiniteSets

CONSTANTS
    Domains,        \* domain names
    MaxRevision,    \* bound: revisions of the branch
    Content,        \* Content[r]: the lines of revision r; Content[0] is the
                    \* file there was before the first refresh
    Valid,          \* the revisions that strict validation accepts
    ExcludeSets,    \* the values of whiteRules (configured and persisted)
    HostSets,       \* the values of extraHosts (persisted)
    NoTree,         \* Hole before it is loaded
    MaxRequests,    \* bound: replacements of hosts or exclusions
    MaxFaults,      \* bound: failing downloads, file operations and rebuilds
    MaxCrashes      \* bound: ends of the process

Revisions == 1..MaxRevision
Files == 0..MaxRevision
Lines == [first : Domains, rest : SUBSET Domains]

ASSUME BlocklistAssumption ==
    /\ MaxRevision \in Nat \ {0}
    /\ Content \in [Files -> SUBSET Lines]
    /\ Content[0] # {}
    /\ Valid \subseteq Revisions
    /\ \A r \in Valid : Content[r] # {}
    /\ ExcludeSets \subseteq SUBSET Domains /\ ExcludeSets # {}
    /\ HostSets \subseteq SUBSET Domains /\ HostSets # {}
    /\ \A tree \in SUBSET Domains : tree # NoTree
    /\ {MaxRequests, MaxFaults, MaxCrashes} \subseteq Nat

VARIABLES
    head,           \* the remote branch
    \* on disk
    file,           \* the revision whose content blacklist.file has
    state,          \* the revision in the sidecar; 0 is none
    \* in memory
    up,
    hole,           \* bp.Hole
    whiteRules,     \* bp.whiteRules
    extraHosts,     \* bp.extraHosts
    runtimeList,    \* bp.runtimeList
    refreshMu,      \* its holder: "init", "task", "admin" or "free"
    step,           \* what the holder does next
    revision,       \* the revision that a refresh has resolved
    prepared,       \* the tree that a refresh has prepared
    \* bookkeeping
    stale,          \* history: the last rebuild failed, so the tree is older
                    \* than the rules
    requests, faults, crashes

disk == <<file, state>>
rules == <<whiteRules, extraHosts>>
refreshing == <<refreshMu, step, revision, prepared>>
bounds == <<requests, faults, crashes>>
vars == <<head, disk, up, hole, rules, runtimeList, refreshing, stale, bounds>>

Trees == SUBSET Domains

\* Every variable has a value of its kind, and refreshMu is held exactly while
\* its holder has something left to do: no return path forgets the unlock.
TypeOK ==
    /\ head \in Revisions /\ file \in Files /\ state \in Files
    /\ up \in BOOLEAN
    /\ hole \in {NoTree} \cup Trees
    /\ whiteRules \in ExcludeSets /\ extraHosts \in HostSets
    /\ runtimeList \subseteq Domains
    /\ refreshMu \in {"free", "init", "task", "admin"}
    /\ step \in {"none", "resolve", "download", "validate", "rename", "install", "record", "reload"}
    /\ revision \in Files
    /\ prepared \in {NoTree} \cup Trees
    /\ stale \in BOOLEAN
    /\ refreshMu = "free" <=> step = "none"
    /\ requests \in 0..MaxRequests /\ faults \in 0..MaxFaults /\ crashes \in 0..MaxCrashes

\* A failure somewhere: of the network, a file, or the rebuild of the tree.
Fails ==
    /\ faults < MaxFaults
    /\ faults' = faults + 1
    /\ UNCHANGED <<requests, crashes>>

-----------------------------------------------------------------------------
(* buildHole.                                                              *)

\* A strict reading takes every name of a line, the other one the first only.
Names(lines, strict) ==
    {l.first : l \in lines} \cup IF strict THEN UNION {l.rest : l \in lines} ELSE {}

\* The tree: the names of the file and the extra hosts, without excluded ones.
BuildHole(r, strict) == (Names(Content[r], strict) \cup extraHosts) \ whiteRules

-----------------------------------------------------------------------------
(* Start and end of the process.                                           *)

\* Config, and Init as far as the lock of its refresh.
Start ==
    /\ ~up
    /\ up' = TRUE
    /\ whiteRules' \in ExcludeSets
    /\ extraHosts' \in HostSets
    /\ refreshMu' = "init"
    /\ step' = "resolve"
    /\ UNCHANGED <<head, disk, hole, runtimeList, revision, prepared, stale, bounds>>

\* The end of the process: a crash, a stop, or an Init that fails.
Down ==
    /\ up' = FALSE
    /\ hole' = NoTree
    /\ runtimeList' = {}
    /\ refreshMu' = "free"
    /\ step' = "none"
    /\ revision' = 0
    /\ prepared' = NoTree
    /\ stale' = FALSE
    /\ UNCHANGED <<head, disk, rules>>

Crash ==
    /\ up
    /\ crashes < MaxCrashes
    /\ crashes' = crashes + 1
    /\ Down
    /\ UNCHANGED <<requests, faults>>

Init ==
    /\ head \in Revisions
    /\ file = 0 /\ state = 0
    /\ up = FALSE
    /\ hole = NoTree
    /\ whiteRules \in ExcludeSets /\ extraHosts \in HostSets
    /\ runtimeList = {}
    /\ refreshMu = "free" /\ step = "none" /\ revision = 0 /\ prepared = NoTree
    /\ stale = FALSE
    /\ requests = 0 /\ faults = 0 /\ crashes = 0

\* Somebody pushes to the repository's branch, which only moves forward.
Push ==
    /\ head + 1 \in Revisions
    /\ head' = head + 1
    /\ UNCHANGED <<disk, up, hole, rules, runtimeList, refreshing, stale, bounds>>

-----------------------------------------------------------------------------
(* refresh, by Init or by the scheduled task.                              *)

\* The holder is done.  Init goes on with reloadHole if there is no tree yet.
Release ==
    IF refreshMu = "init" /\ hole = NoTree
    THEN refreshMu' = "init" /\ step' = "reload"
    ELSE refreshMu' = "free" /\ step' = "none"

\* The scheduled task takes the lock.
RefreshStart ==
    /\ up
    /\ hole # NoTree
    /\ refreshMu = "free"
    /\ refreshMu' = "task"
    /\ step' = "resolve"
    /\ UNCHANGED <<head, disk, up, hole, rules, runtimeList, revision, prepared, stale, bounds>>

\* Mutant: nothing else if there is a recorded revision at all.
ResolveRevisionOnce ==
    /\ step = "resolve"
    /\ IF state # 0
       THEN Release /\ UNCHANGED revision
       ELSE revision' = head /\ step' = "download" /\ UNCHANGED refreshMu
    /\ UNCHANGED <<head, disk, up, hole, rules, runtimeList, prepared, stale, bounds>>

\* resolveRevision, and nothing else if the sidecar has that revision.
ResolveRevision ==
    /\ step = "resolve"
    /\ IF head = state
       THEN Release /\ UNCHANGED revision
       ELSE revision' = head /\ step' = "download" /\ UNCHANGED refreshMu
    /\ UNCHANGED <<head, disk, up, hole, rules, runtimeList, prepared, stale, bounds>>

\* The content of the revision, whatever the branch is now, goes to a
\* temporary file.
Download ==
    /\ step = "download"
    /\ step' = "validate"
    /\ UNCHANGED <<head, disk, up, hole, rules, runtimeList, refreshMu, revision, prepared, stale,
                   bounds>>

\* Mutant: the candidate is read like the active file, not strictly.
ValidateLoosely ==
    /\ step = "validate"
    /\ prepared' = BuildHole(revision, FALSE)
    /\ step' = "rename"
    /\ UNCHANGED <<head, disk, up, hole, rules, runtimeList, refreshMu, revision, stale, bounds>>

\* The validator accepts it, and has built the new tree on the way.
Validate ==
    /\ step = "validate"
    /\ revision \in Valid
    /\ prepared' = BuildHole(revision, TRUE)
    /\ step' = "rename"
    /\ UNCHANGED <<head, disk, up, hole, rules, runtimeList, refreshMu, revision, stale, bounds>>

\* The temporary file becomes the active one.
Rename ==
    /\ step = "rename"
    /\ file' = revision
    /\ step' = "install"
    /\ UNCHANGED <<head, state, up, hole, rules, runtimeList, refreshMu, revision, prepared, stale,
                   bounds>>

\* The prepared tree becomes the active one.
Install ==
    /\ step = "install"
    /\ hole' = prepared
    /\ stale' = FALSE
    /\ prepared' = NoTree
    /\ step' = "record"
    /\ UNCHANGED <<head, disk, up, rules, runtimeList, refreshMu, revision, bounds>>

\* Mutant: the revision of the branch now, not of what was downloaded.
WriteHeadRevision ==
    /\ step = "record"
    /\ state' = head
    /\ revision' = 0
    /\ Release
    /\ UNCHANGED <<head, file, up, hole, rules, runtimeList, prepared, stale, bounds>>

\* WriteRevision.  Its failure is only logged.
WriteRevision ==
    /\ step = "record"
    /\ \/ state' = revision /\ UNCHANGED bounds
       \/ UNCHANGED state /\ Fails
    /\ revision' = 0
    /\ Release
    /\ UNCHANGED <<head, file, up, hole, rules, runtimeList, prepared, stale>>

\* A failed refresh gives up its temporary file and its tree.
Abandon ==
    /\ refreshMu' = "free" /\ step' = "none" /\ revision' = 0 /\ prepared' = NoTree
    /\ UNCHANGED <<head, disk, up, hole, rules, runtimeList, stale>>

\* Any failure before the rename, the refusal of the candidate included.  In
\* Init it ends the process.
RefreshFail ==
    /\ step \in {"resolve", "download", "validate", "rename"}
    /\ IF step = "validate" /\ revision \notin Valid THEN UNCHANGED bounds ELSE Fails
    /\ IF refreshMu = "init" THEN Down ELSE Abandon

-----------------------------------------------------------------------------
(* Administrators.                                                         *)

Request ==
    /\ up
    /\ hole # NoTree
    /\ requests < MaxRequests
    /\ requests' = requests + 1
    /\ UNCHANGED <<faults, crashes>>

\* Mutant: the new hosts are set without refreshMu, and nothing is rebuilt while
\* a refresh is going on.
ReplacePersistedHostsUnlocked(hosts) ==
    /\ Request
    /\ extraHosts' = hosts
    /\ IF refreshMu = "free"
       THEN refreshMu' = "admin" /\ step' = "reload"
       ELSE UNCHANGED <<refreshMu, step>>
    /\ UNCHANGED <<head, disk, up, hole, whiteRules, runtimeList, revision, prepared, stale>>

\* ReplacePersistedHosts and ReplacePersistedExcludes: the rules change under
\* mu, and the tree is rebuilt from the file.
ReplacePersistedHosts(hosts) ==
    /\ Request
    /\ refreshMu = "free"
    /\ extraHosts' = hosts
    /\ refreshMu' = "admin"
    /\ step' = "reload"
    /\ UNCHANGED <<head, disk, up, hole, whiteRules, runtimeList, revision, prepared, stale>>

ReplacePersistedExcludes(domains) ==
    /\ Request
    /\ refreshMu = "free"
    /\ whiteRules' = domains
    /\ refreshMu' = "admin"
    /\ step' = "reload"
    /\ UNCHANGED <<head, disk, up, hole, extraHosts, runtimeList, revision, prepared, stale>>

\* reloadHoleLocked, for them and for Init.
ReloadHole ==
    /\ step = "reload"
    /\ hole' = BuildHole(file, FALSE)
    /\ stale' = FALSE
    /\ refreshMu' = "free" /\ step' = "none"
    /\ UNCHANGED <<head, disk, up, rules, runtimeList, revision, prepared, bounds>>

ReloadHoleFail ==
    /\ step = "reload"
    /\ Fails
    /\ IF refreshMu = "init"
       THEN Down
       ELSE /\ stale' = TRUE
            /\ refreshMu' = "free" /\ step' = "none"
            /\ UNCHANGED <<head, disk, up, hole, rules, runtimeList, revision, prepared>>

\* AddRuntimeWhitelist: values that are already there are refused.
AddRuntimeWhitelist(d) ==
    /\ Request
    /\ d \notin runtimeList
    /\ runtimeList' = runtimeList \cup {d}
    /\ UNCHANGED <<head, disk, up, hole, rules, refreshing, stale>>

RefreshStep ==
    \/ ResolveRevision \/ Download \/ Validate \/ Rename \/ Install \/ WriteRevision
    \/ RefreshFail \/ ReloadHole \/ ReloadHoleFail

Next ==
    \/ Start \/ Crash \/ Push
    \/ RefreshStart \/ RefreshStep
    \/ \E hosts \in HostSets : ReplacePersistedHosts(hosts)
    \/ \E domains \in ExcludeSets : ReplacePersistedExcludes(domains)
    \/ \E d \in Domains : AddRuntimeWhitelist(d)

Spec == Init /\ [][Next]_vars

\* The service manager starts the process again, the scheduler calls the task
\* again and again, and whoever holds the lock goes on.
Fairness ==
    /\ WF_vars(Start)
    /\ WF_vars(RefreshStep)
    /\ SF_vars(RefreshStart)

FairSpec == Spec /\ Fairness

-----------------------------------------------------------------------------
(* Properties.                                                             *)

\* Between rebuilds the tree is the one of the file and of the rules in use,
\* read in one of the two ways: a refresh that holds a tree prepared from older
\* rules, or a replacement that reads the file while a refresh replaces it,
\* never leaves a mix behind (refreshMu over refresh and reloadHoleLocked).
HoleFollowsFile ==
    (hole # NoTree /\ refreshMu = "free" /\ ~stale) =>
        hole \in {BuildHole(file, TRUE), BuildHole(file, FALSE)}

\* The sidecar never names a revision newer than the file, at whatever point
\* the process ends or the branch moves: otherwise the refreshes to come would
\* find nothing to do and the old list would stay.
RevisionNeverAhead == state <= file

\* A candidate that validation refuses is never the active file nor in the
\* sidecar: any failure of a refresh leaves the previous file in place.
OnlyValidActive == {file, state} \subseteq Valid \cup {0}

\* The service ends up with the revision of the branch, and records it, if
\* that revision is valid: neither a crash between rename and record nor a
\* failed write of the sidecar makes refreshes stop.
EventuallyCurrent == <>[](head \in Valid => file = head /\ state = head)

\* Every name of a line is blocked, whenever the tree is built from a valid
\* revision, at a refresh, a restart or a replacement of the rules.
EveryNameBlocked ==
    (hole # NoTree /\ refreshMu = "free" /\ ~stale /\ file \in Valid) =>
        hole = BuildHole(file, TRUE)
=============================================================================
