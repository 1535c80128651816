------------------------------ MODULE Overrides -----------------------------
(***************************************************************************)
(* Settings that the management API persists in the table config_overrides *)
(* (internal/overrides, internal/httpapi/handlers_{blacklist,cache,static, *)
(* zen}.go) and that start-up applies over tdns.yaml.                      *)
(*                                                                         *)
(* A replacement deletes the rows of its kind, writes the new ones in      *)
(* transactions of their own, and then installs them in the middleware.    *)
(* Handlers run concurrently, each with a connection of its own; a write   *)
(* may fail and the process may end anywhere in between.                   *)
(*                                                                         *)
(* A setting is a set of values.  Norm is what normalisation (trim, lower  *)
(* case, final dot) makes of a value.  The switch of the cache is a kind   *)
(* whose one row is written in one statement.  The copy in the running     *)
(* configuration is left out: nobody reads it after start-up.              *)
(***************************************************************************)
EXTENDS Naturals, FiniteSets

CONSTANTS
    Kinds,          \* the kinds of override, a subset of AllKinds
    Requests,       \* handlers that may run at the same time
    Values,         \* what rows can have, On and Off among them
    On, Off,        \* the values of cache.enabled
    Norm,           \* Norm[v]: v after normalisation
    Configured,     \* Configured[k]: the values of tdns.yaml and its files
    Submitted,      \* Submitted[k]: the sets that requests for k have
    NoAck,          \* no acknowledgement
    MaxRequests,    \* bound: requests
    MaxFaults,      \* bound: failing writes
    MaxCrashes      \* bound: ends of the process, by a crash or otherwise

AllKinds ==
    {"static-host", "zen-domain", "zen-exclude", "blacklist-host", "blacklist-exclude",
     "cache-exclude", "cache-enabled"}

ASSUME OverridesAssumption ==
    /\ Kinds \subseteq AllKinds /\ Kinds # {}
    /\ {On, Off} \subseteq Values /\ On # Off
    /\ Norm \in [Values -> Values]
    /\ \A v \in Values : Norm[Norm[v]] = Norm[v]
    /\ Norm[On] = On /\ Norm[Off] = Off
    /\ Configured \in [Kinds -> SUBSET Values]
    /\ \A k \in Kinds : \A v \in Configured[k] : Norm[v] = v
    /\ Submitted \in [Kinds -> SUBSET SUBSET Values]
    /\ "cache-enabled" \in Kinds => Submitted["cache-enabled"] \subseteq {{On}, {Off}}
    /\ \A set \in SUBSET Values : set # NoAck
    /\ {MaxRequests, MaxFaults, MaxCrashes} \subseteq Nat

VARIABLES
    rows,           \* on disk: the rows of config_overrides
    up,
    persisted,      \* in memory: what a middleware has as its persisted values
    runtime,        \* in memory: values for this run only (static and zen)
    active,         \* in memory: what queries are matched against
    pc,             \* where a request is
    kind, values,   \* its kind, and its values after the handler normalised them
    todo,           \* the values it has not written yet
    alone,          \* history: no other request for the kind has overlapped it
    synced,         \* history: the last request for a kind ran alone and well
    acked,          \* history: the values of the last request for a kind, if it
                    \* ran alone and was answered with success
    requests, faults, crashes

request == <<pc, kind, values, todo>>
memory == <<persisted, runtime, active>>
history == <<alone, synced, acked>>
bounds == <<requests, faults, crashes>>
vars == <<rows, up, memory, request, history, bounds>>

Normal(set) == {Norm[v] : v \in set}

RuntimeKinds == Kinds \cap {"static-host", "zen-domain"}

\* Requests for the kind that are under way.
InFlight(k) == {r \in Requests : pc[r] # "idle" /\ kind[r] = k}

\* Every variable has a value of its kind; a request for the cache's switch
\* writes one value.
TypeOK ==
    /\ rows \in [Kinds -> SUBSET Values]
    /\ up \in BOOLEAN
    /\ {persisted, active} \subseteq [Kinds -> SUBSET Values]
    /\ runtime \in [RuntimeKinds -> SUBSET Values]
    /\ pc \in [Requests -> {"idle", "delete", "upsert", "install"}]
    /\ kind \in [Requests -> Kinds]
    /\ {values, todo} \subseteq [Requests -> SUBSET Values]
    /\ alone \in [Requests -> BOOLEAN]
    /\ synced \in [Kinds -> BOOLEAN]
    /\ \A k \in Kinds : acked[k] = NoAck \/ acked[k] \in SUBSET Values
    /\ "cache-enabled" \in Kinds => Cardinality(rows["cache-enabled"]) <= 1
    /\ requests \in 0..MaxRequests /\ faults \in 0..MaxFaults /\ crashes \in 0..MaxCrashes

-----------------------------------------------------------------------------
(* Start and end of the process.                                           *)

\* Apply: the persisted values of a middleware after start-up.  The cache has
\* one list, to which its rows are appended.
Apply(k) ==
    CASE k = "cache-enabled" -> IF rows[k] = {} THEN Configured[k] ELSE rows[k]
      [] k = "cache-exclude" -> Configured[k] \cup Normal(rows[k])
      [] OTHER -> Normal(rows[k])

\* What is matched: the cache has no list but the persisted one.
Merged(k, set) == IF k \in {"cache-enabled", "cache-exclude"} THEN set ELSE Configured[k] \cup set

\* serve: Apply, and Init of the middlewares.
Start ==
    /\ ~up
    /\ up' = TRUE
    /\ persisted' = [k \in Kinds |-> Apply(k)]
    /\ active' = [k \in Kinds |-> Merged(k, Apply(k))]
    /\ runtime' = [k \in RuntimeKinds |-> {}]
    /\ synced' = [k \in Kinds |-> TRUE]
    /\ UNCHANGED <<rows, request, alone, acked, bounds>>

\* The end of the process, wherever requests are.
End ==
    /\ up' = FALSE
    /\ crashes' = crashes + 1
    /\ pc' = [r \in Requests |-> "idle"]
    /\ acked' = [k \in Kinds |-> IF InFlight(k) = {} THEN acked[k] ELSE NoAck]
    /\ UNCHANGED <<rows, memory, kind, values, todo, alone, synced, requests, faults>>

Init ==
    /\ rows = [k \in Kinds |-> {}]
    /\ up = FALSE
    /\ persisted = [k \in Kinds |-> {}] /\ active = [k \in Kinds |-> {}]
    /\ runtime = [k \in RuntimeKinds |-> {}]
    /\ pc = [r \in Requests |-> "idle"]
    /\ kind = [r \in Requests |-> CHOOSE k \in Kinds : TRUE]
    /\ values = [r \in Requests |-> {}] /\ todo = [r \in Requests |-> {}]
    /\ alone = [r \in Requests |-> FALSE]
    /\ synced = [k \in Kinds |-> FALSE] /\ acked = [k \in Kinds |-> NoAck]
    /\ requests = 0 /\ faults = 0 /\ crashes = 0

-----------------------------------------------------------------------------
(* A request that replaces the persisted values of a kind.                 *)

\* A handler has opened the store and starts with the given step.
Begin(r, k, set, step) ==
    /\ up
    /\ pc[r] = "idle"
    /\ requests < MaxRequests
    /\ requests' = requests + 1
    /\ pc' = [pc EXCEPT ![r] = step]
    /\ kind' = [kind EXCEPT ![r] = k]
    /\ values' = [values EXCEPT ![r] = set]
    /\ todo' = [todo EXCEPT ![r] = set]
    /\ alone' = [q \in Requests |->
                    IF q = r THEN InFlight(k) = {} ELSE alone[q] /\ q \notin InFlight(k)]
    /\ acked' = [acked EXCEPT ![k] = NoAck]
    /\ UNCHANGED <<rows, up, memory, synced, faults, crashes>>

\* The handlers of the lists normalise the values; static hosts are taken as
\* they come.
StaticResponseReplacePersisted(r, k, set) ==
    k = "static-host" /\ Begin(r, k, set, "delete")

ZenPersistedReplace(r, k, set) ==
    k \in {"zen-domain", "zen-exclude"} /\ Begin(r, k, Normal(set), "delete")

BlacklistReplacePersisted(r, k, set) ==
    k \in {"blacklist-host", "blacklist-exclude"} /\ Begin(r, k, Normal(set), "delete")

CacheReplaceExcludes(r, k, set) ==
    k = "cache-exclude" /\ Begin(r, k, Normal(set), "delete")

\* The handler of the switch, whose row is not deleted.
CacheToggle(r, k, set) ==
    k = "cache-enabled" /\ Begin(r, k, set, "upsert")

BeginReplace(r, k, set) ==
    \/ StaticResponseReplacePersisted(r, k, set)
    \/ ZenPersistedReplace(r, k, set)
    \/ BlacklistReplacePersisted(r, k, set)
    \/ CacheReplaceExcludes(r, k, set)

DeleteByKind(r) ==
    /\ pc[r] = "delete"
    /\ rows' = [rows EXCEPT ![kind[r]] = {}]
    /\ pc' = [pc EXCEPT ![r] = "upsert"]
    /\ UNCHANGED <<up, memory, kind, values, todo, history, bounds>>

\* Upsert, of values in any order.  The cache's switch has one target, so that
\* a new row replaces the old one.
Upsert(r) ==
    /\ pc[r] = "upsert"
    /\ \E v \in todo[r] :
        /\ rows' = [rows EXCEPT ![kind[r]] =
                        IF kind[r] = "cache-enabled" THEN {v} ELSE @ \cup {v}]
        /\ todo' = [todo EXCEPT ![r] = @ \ {v}]
    /\ UNCHANGED <<up, memory, pc, kind, values, history, bounds>>

\* Everything is written.
Written(r) ==
    /\ pc[r] = "upsert"
    /\ todo[r] = {}
    /\ pc' = [pc EXCEPT ![r] = "install"]
    /\ UNCHANGED <<rows, up, memory, kind, values, todo, history, bounds>>

\* Mutant: a row that cannot be written is skipped.
WriteFailSkips(r) ==
    /\ pc[r] = "upsert"
    /\ todo[r] # {}
    /\ faults < MaxFaults
    /\ faults' = faults + 1
    /\ \E v \in todo[r] : todo' = [todo EXCEPT ![r] = @ \ {v}]
    /\ UNCHANGED <<rows, up, memory, pc, kind, values, history, requests, crashes>>

\* A write fails: the handler answers with an error and leaves everything else
\* as it is, in the table and in memory.
WriteFail(r) ==
    /\ \/ pc[r] = "delete"
       \/ pc[r] = "upsert" /\ todo[r] # {}
    /\ faults < MaxFaults
    /\ faults' = faults + 1
    /\ pc' = [pc EXCEPT ![r] = "idle"]
    /\ synced' = [synced EXCEPT ![kind[r]] = FALSE]
    /\ UNCHANGED <<rows, up, memory, kind, values, todo, alone, acked, requests, crashes>>

\* The middleware has its new values, and the handler answers.
Answer(r) ==
    /\ persisted' = [persisted EXCEPT ![kind[r]] = values[r]]
    /\ pc' = [pc EXCEPT ![r] = "idle"]
    /\ synced' = [synced EXCEPT ![kind[r]] = alone[r]]
    /\ acked' = [acked EXCEPT ![kind[r]] = IF alone[r] THEN values[r] ELSE NoAck]
    /\ UNCHANGED <<rows, up, runtime, kind, values, todo, alone, bounds>>

\* Mutant: runtime values go out of use when the persisted ones change.
InstallHostsOverRuntime(r) ==
    /\ pc[r] = "install"
    /\ kind[r] \in RuntimeKinds
    /\ active' = [active EXCEPT ![kind[r]] = Merged(kind[r], values[r])]
    /\ Answer(r)

\* StaticResponse.ReplacePersistedHosts and ZenMode.ReplacePersistedDomains,
\* under the mutex.  Runtime values, once there are any, stay in use.
InstallHosts(r) ==
    /\ pc[r] = "install"
    /\ kind[r] \in RuntimeKinds
    /\ active' = IF runtime[kind[r]] # {}
                 THEN active
                 ELSE [active EXCEPT ![kind[r]] = Merged(kind[r], values[r])]
    /\ Answer(r)

\* ReplacePersistedExcludes, BlackList.ReplacePersistedHosts, CacheToggle and
\* CacheReplaceExcludes.
InstallList(r) ==
    /\ pc[r] = "install"
    /\ kind[r] \notin RuntimeKinds
    /\ active' = [active EXCEPT ![kind[r]] = Merged(kind[r], values[r])]
    /\ Answer(r)

\* Values for this run of the process: not empty, and never stored.
ReplaceRuntime(k, set) ==
    /\ up
    /\ requests < MaxRequests
    /\ requests' = requests + 1
    /\ set # {}
    /\ runtime' = [runtime EXCEPT ![k] = set]
    /\ active' = [active EXCEPT ![k] = set]
    /\ UNCHANGED <<rows, up, persisted, request, history, faults, crashes>>

\* StaticResponseReplace and ReplaceRuntimeHosts.
StaticResponseReplace(k, set) == k = "static-host" /\ ReplaceRuntime(k, set)

\* ZenDomainsReplace and ReplaceDomains: unlike the persisted ones, the domains
\* are not normalised.
ZenDomainsReplace(k, set) == k = "zen-domain" /\ ReplaceRuntime(k, set)

\* What the handlers of the API do.
Handle ==
    \/ \E r \in Requests :
        \/ DeleteByKind(r) \/ Upsert(r) \/ Written(r) \/ WriteFail(r)
        \/ InstallHosts(r) \/ InstallList(r)

\* Requests that arrive.
Accept ==
    \/ \E r \in Requests : \E k \in Kinds : \E set \in Submitted[k] :
         BeginReplace(r, k, set) \/ CacheToggle(r, k, set)
    \/ \E k \in RuntimeKinds : \E set \in Submitted[k] :
         StaticResponseReplace(k, set) \/ ZenDomainsReplace(k, set)

-----------------------------------------------------------------------------
(* Properties.                                                             *)

Quiet(k) == up /\ InFlight(k) = {} /\ synced[k]

\* A replacement that ran alone and was answered with success is what the table
\* has until the next request for its kind begins: requests for other kinds,
\* failing writes and ends of the process in between do not touch it.
AcknowledgedIsStored == \A k \in Kinds : acked[k] # NoAck => rows[k] = acked[k]

\* In memory and on disk there is the same set, unless a request is under way
\* or the last ones overlapped or failed: what the handlers install is what
\* Apply would read back, up to the normalisation of static hosts and the
\* configured exclusions of the cache, which a replacement takes out of use
\* until the next start.  Runtime values stay in use for the whole run of the
\* process, and without them the middleware uses what is configured and what is
\* persisted, and would use the same after a restart.
MemoryMatchesTable ==
    \A k \in Kinds : Quiet(k) =>
        IF k = "cache-exclude"
        THEN Configured[k] \cup persisted[k] = Apply(k)
        ELSE /\ Normal(persisted[k]) = Apply(k)
             /\ Normal(active[k]) = IF k \in RuntimeKinds /\ runtime[k] # {}
                                    THEN Normal(runtime[k])
                                    ELSE Merged(k, Apply(k))
=============================================================================
