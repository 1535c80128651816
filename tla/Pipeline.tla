------------------------------ MODULE Pipeline ------------------------------
(***************************************************************************)
(* The path of a DNS query through TDNS: Handler.ServeDNS calls            *)
(* Server.process on the query's own goroutine, which runs the             *)
(* pre-routing middlewares, then under one of the upstream slots the stub  *)
(* resolver and the default upstreams, then the post-routing middlewares.  *)
(* Administrators flip the middlewares' switches, replace their entries    *)
(* and clear the cache from other goroutines at any moment.                *)
(*                                                                         *)
(* A question stands for the name, type, class and client labels of a      *)
(* query, which is what the middlewares match on and what makes the cache  *)
(* key.  Resource records are abstracted to who produced them.  What the   *)
(* admission policy drops never gets here, and whether the response        *)
(* budget lets the answer out changes no state of this module.             *)
(***************************************************************************)
EXTENDS Naturals, FiniteSets, Sequences

CONSTANTS
    Queries,        \* goroutines serving queries, each one query at a time
    Questions,
    NoQuery,
    Rules,          \* Rules[m]: the questions that middleware m answers itself
    StubZones,      \* the sets of questions a stub list may cover
    ExcludeSets,    \* the sets of questions cache.excludes may select
    MaxSlots,       \* dns_access.max_concurrent_upstreams
    NumUpstreams,   \* length of an upstream list, default or stub
    MaxAdmin        \* bound: administrative operations in a behaviour

\* The middlewares that answer a query themselves, in the order of
\* middlewareOrder.  The tagger, which runs first, is part of the question.
Policies == {"status", "blacklist", "zen-mode", "static-response"}
PreRouting == <<"status", "blacklist", "zen-mode", "static-response", "cacheget">>

ASSUME PipelineAssumption ==
    /\ IsFiniteSet(Queries)
    /\ NoQuery \notin Queries
    /\ Rules \in [Policies -> SUBSET Questions]
    /\ StubZones \subseteq SUBSET Questions
    /\ ExcludeSets \subseteq SUBSET Questions
    /\ MaxSlots \in Nat \ {0}
    /\ NumUpstreams \in Nat \ {0}
    /\ MaxAdmin \in Nat

VARIABLES
    pc,         \* where each query's goroutine is
    question,   \* what it asks
    by,         \* what decided the answer
    rr,         \* who produced the answer's records
    hop,        \* the upstream that is being asked
    held,       \* the queries whose upstreamSlotHeld is true
    slots,      \* number of elements in the channel upstreamSlots
    enabled,    \* the switch of each policy middleware
    stubOn,     \* EnableStubs
    stubZone,   \* the questions the stub list covers
    stubMu,     \* the query that holds the stub resolver's mutex
    cacheOn,    \* the cache's switch
    excluded,   \* the questions whose client bypasses the cache
    cache,      \* who produced the records cached for each question
    ops,        \* administrative operations so far
    firm,       \* history: the policies that have covered a query all along
    purged      \* history: stubs are off, and the cache was cleared since, with
                \* no query left that the stubs had taken on

query == <<pc, question, by, rr, hop>>
slot == <<held, slots>>
stub == <<stubOn, stubZone, stubMu>>
store == <<cacheOn, excluded, cache>>
history == <<firm, purged>>
admin == <<enabled, ops, history>>
vars == <<query, slot, stub, store, admin>>

Labels == Policies \cup {"idle", "cacheget", "acquire", "stub", "lock", "exchange",
                         "resolve", "release", "cacheset", "return"}
Deciders == Policies \cup {"nobody", "cache", "stub", "upstream", "error", "saturated"}
Records == {"none", "policy", "stub", "upstream", "negative"}

TypeOK ==
    /\ pc \in [Queries -> Labels]
    /\ question \in [Queries -> Questions]
    /\ by \in [Queries -> Deciders]
    /\ rr \in [Queries -> Records]
    /\ hop \in [Queries -> 1..NumUpstreams]
    /\ held \subseteq Queries
    /\ slots \in 0..MaxSlots
    /\ enabled \in [Policies -> BOOLEAN]
    /\ stubOn \in BOOLEAN
    /\ stubZone \in StubZones
    /\ stubMu \in Queries \cup {NoQuery}
    /\ cacheOn \in BOOLEAN
    /\ excluded \in ExcludeSets
    /\ cache \in [Questions -> Records]
    /\ ops \in 0..MaxAdmin
    /\ firm \in [Queries -> SUBSET Policies]
    /\ purged \in BOOLEAN

\* The options of NewServer: the middlewares start as they are configured.
ConfiguredPolicies ==
    /\ enabled \in [Policies -> BOOLEAN]
    /\ ~enabled["zen-mode"]
ConfiguredStubs ==
    /\ stubOn \in BOOLEAN
    /\ stubZone \in StubZones
    /\ stubMu = NoQuery
ConfiguredCache ==
    /\ cacheOn \in BOOLEAN
    /\ excluded \in ExcludeSets
    /\ cache = [k \in Questions |-> "none"]

Init ==
    /\ pc = [q \in Queries |-> "idle"]
    /\ \E k \in Questions : question = [q \in Queries |-> k]
    /\ by = [q \in Queries |-> "nobody"]
    /\ rr = [q \in Queries |-> "none"]
    /\ hop = [q \in Queries |-> 1]
    /\ held = {}
    /\ slots = 0
    /\ ConfiguredPolicies
    /\ ConfiguredStubs
    /\ ConfiguredCache
    /\ ops = 0
    /\ firm = [q \in Queries |-> {}]
    /\ purged = FALSE

\* Where the goroutine of q is next, and what it has for an answer.
Goto(q, label) == pc' = [pc EXCEPT ![q] = label]
Answer(q, who, records) ==
    /\ by' = [by EXCEPT ![q] = who]
    /\ rr' = [rr EXCEPT ![q] = records]
KeepAnswer == UNCHANGED <<by, rr>>

-----------------------------------------------------------------------------
(* Pre-routing.                                                            *)

\* ServeDNS hands an admitted query to Handler, and process starts.
Arrive(q) ==
    /\ pc[q] = "idle"
    /\ \E k \in Questions :
         /\ question' = [question EXCEPT ![q] = k]
         /\ firm' = [firm EXCEPT ![q] = {m \in Policies : enabled[m] /\ k \in Rules[m]}]
    /\ Goto(q, PreRouting[1])
    /\ UNCHANGED <<by, rr, hop, slot, stub, store, enabled, ops, purged>>

\* Mutant: static responses are left to whoever comes after the cache.
RunPolicyUnordered(q, i) ==
    /\ pc[q] = PreRouting[i]
    /\ IF i < 4 /\ enabled[PreRouting[i]] /\ question[q] \in Rules[PreRouting[i]]
       THEN Answer(q, PreRouting[i], "policy") /\ Goto(q, "cacheset")
       ELSE KeepAnswer /\ Goto(q, PreRouting[i + 1])
    /\ UNCHANGED <<question, hop, slot, stub, store, admin>>

\* One turn of the pre-routing loop: the middleware copies its state under its
\* read lock and then answers the query itself, by adding a record to the
\* request, which ends the loop, or leaves it to the next one.
RunPolicy(q, i) ==
    /\ pc[q] = PreRouting[i]
    /\ IF enabled[PreRouting[i]] /\ question[q] \in Rules[PreRouting[i]]
       THEN Answer(q, PreRouting[i], "policy") /\ Goto(q, "cacheset")
       ELSE KeepAnswer /\ Goto(q, PreRouting[i + 1])
    /\ UNCHANGED <<question, hop, slot, stub, store, admin>>

RunStatus(q) == RunPolicy(q, 1)
RunBlacklist(q) == RunPolicy(q, 2)
RunZenMode(q) == RunPolicy(q, 3)
RunStaticResponse(q) == RunPolicy(q, 4)

\* ShouldBypass and IsEnabled.
UsesCache(q) == cacheOn /\ question[q] \notin excluded

\* CacheGet.Run.  A hit carries the records that were stored.
CacheGet(q) ==
    /\ pc[q] = "cacheget"
    /\ IF UsesCache(q) /\ cache[question[q]] # "none"
       THEN Answer(q, "cache", cache[question[q]]) /\ Goto(q, "cacheset")
       ELSE KeepAnswer /\ Goto(q, "acquire")
    /\ UNCHANGED <<question, hop, slot, stub, store, admin>>

-----------------------------------------------------------------------------
(* Resolving, under an upstream slot.                                      *)

\* acquireUpstreamSlot never waits: a full channel fails the query.
Acquire(q) ==
    /\ pc[q] = "acquire"
    /\ IF slots < MaxSlots
       THEN /\ slots' = slots + 1
            /\ held' = held \cup {q}
            /\ KeepAnswer
            /\ Goto(q, "stub")
       ELSE /\ Answer(q, "saturated", "none")
            /\ Goto(q, "return")
            /\ UNCHANGED slot
    /\ UNCHANGED <<question, hop, stub, store, admin>>

\* StubResolver.Run reads EnableStubs without the mutex.
StubRead(q) ==
    /\ pc[q] = "stub"
    /\ Goto(q, IF stubOn THEN "lock" ELSE "resolve")
    /\ UNCHANGED <<question, by, rr, hop, slot, stub, store, admin>>

\* It then takes the mutex, and keeps it for the exchange if a stub matches.
StubLock(q) ==
    /\ pc[q] = "lock"
    /\ stubMu = NoQuery
    /\ IF question[q] \in stubZone
       THEN stubMu' = q /\ Goto(q, "exchange")
       ELSE stubMu' = NoQuery /\ Goto(q, "resolve")
    /\ UNCHANGED <<question, by, rr, hop, stubOn, stubZone, slot, store, admin>>

\* Mux.ResolveContext: what one exchange, or the deadline, makes of a query.
\* Only SERVFAIL moves on to the next upstream.  An error of the exchange
\* itself ends the resolution, like any other response code.
MuxNext(q) ==
    /\ hop[q] < NumUpstreams
    /\ hop' = [hop EXCEPT ![q] = @ + 1]
    /\ KeepAnswer
    /\ UNCHANGED pc

\* Records, an empty or negative response, or an error: a network error, the
\* deadline, or SERVFAIL from the last upstream.
MuxOutcomes == {"records", "negative", "error"}

\* Mutant: a failed stub exchange returns without unlocking.
StubExchangeKeepsMutex(q) ==
    /\ pc[q] = "exchange"
    /\ \/ MuxNext(q) /\ UNCHANGED stubMu
       \/ \E outcome \in MuxOutcomes :
            /\ IF outcome = "records"
               THEN Answer(q, "stub", "stub") /\ stubMu' = NoQuery
               ELSE Answer(q, "error", "none") /\ UNCHANGED stubMu
            /\ Goto(q, "release")
            /\ hop' = [hop EXCEPT ![q] = 1]
    /\ UNCHANGED <<question, stubOn, stubZone, slot, store, admin>>

\* The stub's exchange, under the mutex.  A stub that has no records to give
\* is an error of the query: the default upstreams are not asked.
StubExchange(q) ==
    /\ pc[q] = "exchange"
    /\ \/ MuxNext(q) /\ UNCHANGED stubMu
       \/ \E outcome \in MuxOutcomes :
            /\ IF outcome = "records"
               THEN Answer(q, "stub", "stub")
               ELSE Answer(q, "error", "none")
            /\ stubMu' = NoQuery
            /\ Goto(q, "release")
            /\ hop' = [hop EXCEPT ![q] = 1]
    /\ UNCHANGED <<question, stubOn, stubZone, slot, store, admin>>

\* The default upstreams, for a query that no stub has resolved.
Resolve(q) ==
    /\ pc[q] = "resolve"
    /\ \/ MuxNext(q)
       \/ \E outcome \in MuxOutcomes :
            /\ CASE outcome = "records"  -> Answer(q, "upstream", "upstream")
                 [] outcome = "negative" -> Answer(q, "upstream", "negative")
                 [] outcome = "error"    -> Answer(q, "error", "none")
            /\ Goto(q, "release")
            /\ hop' = [hop EXCEPT ![q] = 1]
    /\ UNCHANGED <<question, slot, stub, store, admin>>

\* Mutant: the flag is not cleared, and the deferred function runs again.
ReleaseAndForget(q) ==
    /\ pc[q] = "release"
    /\ by[q] # "error"
    /\ slots' = slots - 1
    /\ Goto(q, "cacheset")
    /\ UNCHANGED <<question, by, rr, hop, held, stub, store, admin>>

\* An answer gives its slot back before post-routing; upstreamSlotHeld keeps
\* the deferred function from giving it back again.
Release(q) ==
    /\ pc[q] = "release"
    /\ by[q] # "error"
    /\ slots' = slots - 1
    /\ held' = held \ {q}
    /\ Goto(q, "cacheset")
    /\ UNCHANGED <<question, by, rr, hop, stub, store, admin>>

\* An error returns at once, with the slot still held.
Abort(q) ==
    /\ pc[q] = "release"
    /\ by[q] = "error"
    /\ Goto(q, "return")
    /\ UNCHANGED <<question, by, rr, hop, slot, stub, store, admin>>

-----------------------------------------------------------------------------
(* Post-routing and the reply.                                             *)

\* The response bit is only set in what a server sent: a policy's answer is
\* the request with a record added.
IsResponse(q) == rr[q] \in {"stub", "upstream", "negative"}

\* Mutant: a hit is stored again.
CacheSetHits(q) ==
    /\ pc[q] = "cacheset"
    /\ IF UsesCache(q) /\ IsResponse(q) /\ rr[q] # "negative"
       THEN \E kept \in {rr[q], cache[question[q]]} :
              cache' = [cache EXCEPT ![question[q]] = kept]
       ELSE UNCHANGED cache
    /\ Goto(q, "return")
    /\ UNCHANGED <<question, by, rr, hop, slot, stub, cacheOn, excluded, admin>>

\* CacheSet.Run.  Records without a lifetime, or of a type that has no key,
\* are not stored; which they are is not modelled here, so either may happen.
CacheSet(q) ==
    /\ pc[q] = "cacheset"
    /\ IF UsesCache(q) /\ by[q] # "cache" /\ IsResponse(q) /\ rr[q] # "negative"
       THEN \E kept \in {rr[q], cache[question[q]]} :
              cache' = [cache EXCEPT ![question[q]] = kept]
       ELSE UNCHANGED cache
    /\ Goto(q, "return")
    /\ UNCHANGED <<question, by, rr, hop, slot, stub, cacheOn, excluded, admin>>

\* Mutant: there is no deferred function, and an error keeps its slot.
ReturnLeaks(q) ==
    /\ pc[q] = "return"
    /\ held' = held \ {q}
    /\ firm' = [firm EXCEPT ![q] = {}]
    /\ Answer(q, "nobody", "none")
    /\ Goto(q, "idle")
    /\ UNCHANGED <<question, hop, slots, stub, store, enabled, ops, purged>>

\* process returns, its deferred function runs, and ServeDNS replies: with
\* the answer, or with SERVFAIL if there was an error.
Return(q) ==
    /\ pc[q] = "return"
    /\ IF q \in held
       THEN slots' = slots - 1 /\ held' = held \ {q}
       ELSE UNCHANGED slot
    /\ firm' = [firm EXCEPT ![q] = {}]
    /\ Answer(q, "nobody", "none")
    /\ Goto(q, "idle")
    /\ UNCHANGED <<question, hop, stub, store, enabled, ops, purged>>

\* tryResolve runs the resolving middlewares, of which there is one.
TryResolve(q) == StubRead(q) \/ StubLock(q) \/ StubExchange(q)

Serve(q) ==
    \/ Arrive(q)
    \/ RunStatus(q) \/ RunBlacklist(q) \/ RunZenMode(q) \/ RunStaticResponse(q)
    \/ CacheGet(q)
    \/ Acquire(q) \/ TryResolve(q) \/ Resolve(q)
    \/ Release(q) \/ Abort(q)
    \/ CacheSet(q) \/ Return(q)

-----------------------------------------------------------------------------
(* Administration, and the cache's own eviction.                           *)

\* The queries that have stub records from an exchange, or may get some.
StubCarriers == {q \in Queries : by[q] = "stub" \/ pc[q] \in {"lock", "exchange"}}

Operate == ops < MaxAdmin /\ ops' = ops + 1

\* The switch of a middleware changes.
TogglePolicy(m) ==
    /\ Operate
    /\ enabled' = [enabled EXCEPT ![m] = ~@]
    /\ firm' = [q \in Queries |-> IF enabled[m] THEN firm[q] \ {m} ELSE firm[q]]
    /\ UNCHANGED <<query, slot, stub, store, purged>>

\* The handlers of the two switches, and the begin or end of a zen period.
\* Nothing switches the status middleware.
BlacklistToggle == TogglePolicy("blacklist")
StaticResponseToggle == TogglePolicy("static-response")
ZenPeriod == TogglePolicy("zen-mode")

\* SetEnabled and ReplaceRuntimeEntries take the stub resolver's mutex, and so
\* wait for a running exchange.
StubMuFree == stubMu = NoQuery

\* StubToggle calls Server.StubsToggle and SetEnabled.
StubsToggle ==
    /\ Operate
    /\ StubMuFree
    /\ stubOn' = ~stubOn
    /\ purged' = FALSE
    /\ UNCHANGED <<query, slot, stubZone, stubMu, store, enabled, firm>>

\* StubReplace: ReplaceRuntimeEntries installs another stub list.
ReplaceStubs(zone) ==
    /\ Operate
    /\ StubMuFree
    /\ stubZone' = zone
    /\ UNCHANGED <<query, slot, stubOn, stubMu, store, enabled, history>>

CacheToggle ==
    /\ Operate
    /\ cacheOn' = ~cacheOn
    /\ UNCHANGED <<query, slot, stub, excluded, cache, enabled, history>>

CacheReplaceExcludes(ks) ==
    /\ Operate
    /\ excluded' = ks
    /\ UNCHANGED <<query, slot, stub, cacheOn, cache, enabled, history>>

ClearCache ==
    /\ Operate
    /\ cache' = [k \in Questions |-> "none"]
    /\ purged' = (~stubOn /\ StubCarriers = {})
    /\ UNCHANGED <<query, slot, stub, cacheOn, excluded, enabled, firm>>

\* An entry outlives its records, or the cache needs its room.
Evict(k) ==
    /\ cache[k] # "none"
    /\ cache' = [cache EXCEPT ![k] = "none"]
    /\ UNCHANGED <<query, slot, stub, cacheOn, excluded, admin>>

Next ==
    \/ \E q \in Queries : Serve(q)
    \/ BlacklistToggle \/ StaticResponseToggle \/ ZenPeriod
    \/ \E zone \in StubZones : ReplaceStubs(zone)
    \/ \E ks \in ExcludeSets : CacheReplaceExcludes(ks)
    \/ \E k \in Questions : Evict(k)
    \/ StubsToggle \/ CacheToggle \/ ClearCache

Spec == Init /\ [][Next]_vars

\* A goroutine keeps running.  An exchange ends at the latest with its
\* timeout.  sync.Mutex hands itself to a waiter that has starved.
Fairness ==
    \A q \in Queries :
      /\ WF_vars(pc[q] \notin {"idle", "lock"} /\ Serve(q))
      /\ SF_vars(StubLock(q))

FairSpec == Spec /\ Fairness

-----------------------------------------------------------------------------
(* Properties.                                                             *)

\* docs/configuration.md: max_concurrent_upstreams is the "maximum requests
\* concurrently using stub or default upstream resolvers".  The queries that
\* wait for the stub resolver's mutex count as well.
Upstreaming == {q \in Queries : pc[q] \in {"stub", "lock", "exchange", "resolve"}}
UpstreamBounded == Cardinality(Upstreaming) <= MaxSlots

\* The channel holds one element per query that has yet to give its slot
\* back: none leaks on the error paths, and none is given back twice.
SlotAccounting ==
    /\ slots = Cardinality(held)
    /\ \A q \in Queries : pc[q] \in {"idle", "cacheset"} => q \notin held

\* A query is refused as saturated only while as many other queries as there
\* are slots have not given theirs back.
SaturationJustified ==
    [][\A q \in Queries :
         by[q] # "saturated" /\ by'[q] = "saturated" =>
           Cardinality({p \in Queries \ {q} : p \in held}) = MaxSlots]_vars

\* Middleware order: a query that a policy has covered from its arrival on is
\* answered by a policy, by the first such one or an earlier one, and neither
\* from the cache nor by an upstream.
PolicyFirst ==
    \A q \in Queries : \A i \in 1..(Len(PreRouting) - 1) :
      /\ PreRouting[i] \in firm[q]
      /\ by[q] # "nobody"
      => \E j \in 1..i : by[q] = PreRouting[j]

\* What a policy answers is never cached: a period or a block that ends does
\* not live on in the cache.  And once the stubs are off and the last query
\* they had taken on is answered, clearing the cache removes their records for
\* good: a query that was answered from the cache before the clear does not put
\* them back.
CacheIsCurrent ==
    \A k \in Questions : cache[k] # "policy" /\ (purged => cache[k] # "stub")

\* Every query that was let in is answered or refused, whatever the
\* upstreams do and however many queries queue up at the stub resolver.
EveryQueryReturns == \A q \in Queries : pc[q] # "idle" ~> pc[q] = "idle"
=============================================================================
