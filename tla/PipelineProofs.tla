--------------------------- MODULE PipelineProofs ---------------------------
(***************************************************************************)
(* Proofs about Pipeline, for any finite set of concurrent queries, any    *)
(* rules, stubs and excludes, and any number of slots and upstreams.       *)
(***************************************************************************)
EXTENDS Pipeline, FiniteSetTheorems, TLAPS

-----------------------------------------------------------------------------
(* The upstream slots.                                                     *)

Holding == {"stub", "lock", "exchange", "resolve", "release"}

\* The queries that hold a slot are the ones between acquireUpstreamSlot and
\* the release, and those on the error path that have not run the deferred
\* function yet; the channel holds one element for each.
SlotInv ==
    /\ pc \in [Queries -> Labels]
    /\ by \in [Queries -> Deciders]
    /\ held \in SUBSET Queries
    /\ slots = Cardinality(held)
    /\ slots <= MaxSlots
    /\ \A q \in Queries : pc[q] \in Holding => q \in held
    /\ \A q \in held : pc[q] \in Holding \cup {"return"}

\* The pre-routing middlewares are what they are.
LEMMA PreRoutingOrder ==
    /\ Len(PreRouting) = 5
    /\ PreRouting[1] = "status"
    /\ PreRouting[2] = "blacklist"
    /\ PreRouting[3] = "zen-mode"
    /\ PreRouting[4] = "static-response"
    /\ PreRouting[5] = "cacheget"
    /\ \A i \in 1..5 : PreRouting[i] \in Labels /\ PreRouting[i] \notin Holding \cup {"return"}
    /\ \A i \in 1..4 : PreRouting[i] \in Policies
  <1>1. /\ Len(PreRouting) = 5
        /\ PreRouting[1] = "status"
        /\ PreRouting[2] = "blacklist"
        /\ PreRouting[3] = "zen-mode"
        /\ PreRouting[4] = "static-response"
        /\ PreRouting[5] = "cacheget"
    BY DEF PreRouting
  <1>2. ASSUME NEW i \in 1..5
        PROVE  PreRouting[i] \in Labels /\ PreRouting[i] \notin Holding \cup {"return"}
    <2>1. i = 1 \/ i = 2 \/ i = 3 \/ i = 4 \/ i = 5
      OBVIOUS
    <2> QED
      BY <1>1, <2>1 DEF Holding, Labels, Policies
  <1>3. ASSUME NEW i \in 1..4 PROVE PreRouting[i] \in Policies
    <2>1. i = 1 \/ i = 2 \/ i = 3 \/ i = 4
      OBVIOUS
    <2> QED
      BY <1>1, <2>1 DEF Policies
  <1> QED
    BY <1>1, <1>2, <1>3

\* At the start no slot is taken.
LEMMA SlotInit == Init => SlotInv
  <1> SUFFICES ASSUME Init PROVE SlotInv
    OBVIOUS
  <1>1. Cardinality({}) = 0
    BY FS_EmptySet
  <1>2. MaxSlots \in Nat
    BY PipelineAssumption DEF PipelineAssumption
  <1>3. pc = [q \in Queries |-> "idle"] /\ by = [q \in Queries |-> "nobody"]
    BY DEF Init
  <1>4. held = {} /\ slots = 0
    BY DEF Init
  <1> QED
    BY <1>1, <1>2, <1>3, <1>4 DEF SlotInv, Labels, Deciders, Holding

\* Every step keeps the account of the slots.
LEMMA SlotStep == SlotInv /\ [Next]_vars => SlotInv'
  <1> SUFFICES ASSUME SlotInv, [Next]_vars PROVE SlotInv'
    OBVIOUS
  <1>a. MaxSlots \in Nat /\ IsFiniteSet(Queries)
    BY PipelineAssumption DEF PipelineAssumption
  <1>b. IsFiniteSet(held) /\ Cardinality(held) \in Nat
    BY <1>a, FS_Subset, FS_CardinalityType DEF SlotInv
  <1>1. ASSUME NEW q \in Queries, Serve(q) PROVE SlotInv'
    <2>1. CASE Arrive(q)
      BY <2>1, PreRoutingOrder DEF Arrive, SlotInv, Goto, slot, Labels, Deciders, Holding
    <2>2. CASE \E i \in 1..4 : RunPolicy(q, i)
      <3>1. PICK i \in 1..4 :
              /\ pc[q] = PreRouting[i]
              /\ \/ /\ by' = [by EXCEPT ![q] = PreRouting[i]]
                    /\ pc' = [pc EXCEPT ![q] = "cacheset"]
                 \/ /\ by' = by
                    /\ pc' = [pc EXCEPT ![q] = PreRouting[i + 1]]
              /\ UNCHANGED <<held, slots>>
        BY <2>2, PreRoutingOrder DEF RunPolicy, Answer, KeepAnswer, Goto, slot
      <3>2. PreRouting[i] \notin Holding \cup {"return"} /\ PreRouting[i] \in Policies
        BY PreRoutingOrder
      <3>3. PreRouting[i + 1] \notin Holding \cup {"return"} /\ PreRouting[i + 1] \in Labels
        BY PreRoutingOrder
      <3> QED
        BY <3>1, <3>2, <3>3 DEF SlotInv, Labels, Deciders, Holding
    <2>3. CASE CacheGet(q)
      BY <2>3 DEF CacheGet, SlotInv, Answer, KeepAnswer, Goto, slot, Labels, Deciders, Holding
    <2>4. CASE Acquire(q)
      <3>1. CASE slots < MaxSlots
        <4>1. q \notin held
          BY <2>4 DEF Acquire, SlotInv, Labels, Deciders, Holding
        <4>2. Cardinality(held \cup {q}) = Cardinality(held) + 1
          BY <1>b, <4>1, FS_AddElement
        <4> QED
          BY <2>4, <3>1, <4>2, <1>a, <1>b DEF Acquire, SlotInv, KeepAnswer, Goto, Labels, Deciders, Holding
      <3>2. CASE ~(slots < MaxSlots)
        BY <2>4, <3>2 DEF Acquire, SlotInv, Answer, Goto, slot, Labels, Deciders, Holding
      <3> QED
        BY <3>1, <3>2
    <2>5. CASE StubRead(q)
      BY <2>5 DEF StubRead, SlotInv, Goto, slot, Labels, Deciders, Holding
    <2>6. CASE StubLock(q)
      BY <2>6 DEF StubLock, SlotInv, Goto, slot, Labels, Deciders, Holding
    <2>7. CASE StubExchange(q)
      BY <2>7 DEF StubExchange, SlotInv, MuxNext, Answer, KeepAnswer, Goto, slot, Labels, Deciders, Holding
    <2>8. CASE Resolve(q)
      BY <2>8 DEF Resolve, SlotInv, MuxNext, MuxOutcomes, Answer, KeepAnswer, Goto, slot, Labels, Deciders, Holding
    <2>9. CASE Release(q)
      <3>1. q \in held
        BY <2>9 DEF Release, SlotInv, Labels, Deciders, Holding
      <3>2. Cardinality(held \ {q}) = Cardinality(held) - 1
        BY <1>b, <3>1, FS_RemoveElement
      <3> QED
        BY <2>9, <3>2, <1>a, <1>b DEF Release, SlotInv, Goto, Labels, Deciders, Holding
    <2>10. CASE Abort(q)
      BY <2>10 DEF Abort, SlotInv, Goto, slot, Labels, Deciders, Holding
    <2>11. CASE CacheSet(q)
      BY <2>11 DEF CacheSet, SlotInv, Goto, slot, Labels, Deciders, Holding
    <2>12. CASE Return(q)
      <3>1. CASE q \in held
        <4>1. Cardinality(held \ {q}) = Cardinality(held) - 1
          BY <1>b, <3>1, FS_RemoveElement
        <4>2. /\ pc' = [pc EXCEPT ![q] = "idle"]
              /\ by' = [by EXCEPT ![q] = "nobody"]
              /\ held' = held \ {q}
              /\ slots' = slots - 1
          BY <2>12, <3>1 DEF Return, Answer, Goto
        <4> QED
          BY <4>1, <4>2, <1>a, <1>b DEF SlotInv, Labels, Deciders, Holding
      <3>2. CASE q \notin held
        BY <2>12, <3>2 DEF Return, SlotInv, Answer, Goto, slot, Labels, Deciders, Holding
      <3> QED
        BY <3>1, <3>2
    <2> QED
      BY <1>1, <2>1, <2>2, <2>3, <2>4, <2>5, <2>6, <2>7, <2>8, <2>9, <2>10, <2>11, <2>12
         DEF Serve, TryResolve, RunStatus, RunBlacklist, RunZenMode, RunStaticResponse
  <1>2. CASE UNCHANGED <<pc, by, held, slots>>
    BY <1>2 DEF SlotInv
  <1>3. CASE vars' = vars
    BY <1>3, <1>2 DEF vars, query, slot
  <1>4. ASSUME NEW m \in Policies, TogglePolicy(m) PROVE SlotInv'
    BY <1>4, <1>2 DEF TogglePolicy, query, slot
  <1>5. ASSUME NEW zone \in StubZones, ReplaceStubs(zone) PROVE SlotInv'
    BY <1>5, <1>2 DEF ReplaceStubs, query, slot
  <1>6. ASSUME NEW ks \in ExcludeSets, CacheReplaceExcludes(ks) PROVE SlotInv'
    BY <1>6, <1>2 DEF CacheReplaceExcludes, query, slot
  <1>7. ASSUME NEW k \in Questions, Evict(k) PROVE SlotInv'
    BY <1>7, <1>2 DEF Evict, query, slot
  <1>8. CASE StubsToggle \/ CacheToggle \/ ClearCache
    BY <1>8, <1>2 DEF StubsToggle, CacheToggle, ClearCache, query, slot
  <1> QED
    BY <1>1, <1>3, <1>4, <1>5, <1>6, <1>7, <1>8
       DEF Next, BlacklistToggle, StaticResponseToggle, ZenPeriod, Policies

\* The account of the slots holds in every behaviour.
LEMMA SlotInvAlways == Spec => []SlotInv
  BY SlotInit, SlotStep, PTL DEF Spec

\* No slot leaks and none is given back twice.
THEOREM SlotsAccounted == Spec => []SlotAccounting
  <1>1. SlotInv => SlotAccounting
    BY DEF SlotInv, SlotAccounting, Holding
  <1> QED
    BY <1>1, SlotInvAlways, PTL

\* max_concurrent_upstreams bounds the queries in the hands of a resolver.
THEOREM UpstreamIsBounded == Spec => []UpstreamBounded
  <1>1. ASSUME SlotInv PROVE UpstreamBounded
    <2>1. IsFiniteSet(held) /\ Cardinality(held) \in Nat
      BY <1>1, PipelineAssumption, FS_Subset, FS_CardinalityType
         DEF SlotInv, PipelineAssumption
    <2>2. Upstreaming \in SUBSET held
      BY <1>1 DEF SlotInv, Upstreaming, Holding
    <2>3. Cardinality(Upstreaming) <= Cardinality(held) /\ Cardinality(Upstreaming) \in Nat
      BY <2>1, <2>2, FS_Subset, FS_CardinalityType
    <2>4. MaxSlots \in Nat
      BY PipelineAssumption DEF PipelineAssumption
    <2> QED
      BY <1>1, <2>1, <2>3, <2>4 DEF SlotInv, UpstreamBounded
  <1> QED
    BY <1>1, SlotInvAlways, PTL

\* A query is refused as saturated only while every slot is somebody else's.
THEOREM SaturationIsJustified == Spec => SaturationJustified
  <1>1. ASSUME SlotInv, Next, NEW q \in Queries, by[q] # "saturated", by'[q] = "saturated"
        PROVE  Cardinality({p \in Queries \ {q} : p \in held}) = MaxSlots
    <2>1. ASSUME NEW r \in Queries, Serve(r) PROVE r = q /\ Acquire(q)
      <3>1. CASE \E i \in 1..4 : RunPolicy(r, i)
        <4>1. PICK i \in 1..4 : by' = [by EXCEPT ![r] = PreRouting[i]] \/ by' = by
          BY <3>1, PreRoutingOrder DEF RunPolicy, Answer, KeepAnswer
        <4>2. PreRouting[i] # "saturated"
          BY PreRoutingOrder DEF Policies
        <4> QED
          BY <1>1, <4>1, <4>2 DEF SlotInv
      <3>2. CASE CacheGet(r) \/ Return(r)
        BY <1>1, <3>2 DEF CacheGet, Return, Answer, KeepAnswer, SlotInv
      <3>3. CASE Arrive(r) \/ StubRead(r) \/ StubLock(r) \/ Release(r) \/ Abort(r) \/ CacheSet(r)
        BY <1>1, <3>3 DEF Arrive, StubRead, StubLock, Release, Abort, CacheSet
      <3>4. CASE StubExchange(r)
        BY <1>1, <3>4 DEF StubExchange, MuxNext, Answer, KeepAnswer, SlotInv
      <3>5. CASE Resolve(r)
        BY <1>1, <3>5 DEF Resolve, MuxNext, MuxOutcomes, Answer, KeepAnswer, SlotInv
      <3>6. CASE Acquire(r)
        BY <1>1, <3>6 DEF Acquire, Answer, KeepAnswer, SlotInv
      <3> QED
        BY <2>1, <3>1, <3>2, <3>3, <3>4, <3>5, <3>6
           DEF Serve, TryResolve, RunStatus, RunBlacklist, RunZenMode, RunStaticResponse
    <2>2. by' # by
      BY <1>1
    <2>3. Acquire(q)
      BY <1>1, <2>1, <2>2 DEF Next, BlacklistToggle, StaticResponseToggle, ZenPeriod,
                              TogglePolicy, ReplaceStubs, CacheReplaceExcludes, Evict,
                              StubsToggle, CacheToggle, ClearCache, query
    <2>4. ~(slots < MaxSlots) /\ q \notin held
      BY <1>1, <2>2, <2>3 DEF Acquire, KeepAnswer, SlotInv, Holding
    <2>5. {p \in Queries \ {q} : p \in held} = held
      BY <1>1, <2>4 DEF SlotInv
    <2>6. MaxSlots \in Nat /\ Cardinality(held) \in Nat
      BY <1>1, PipelineAssumption, FS_Subset, FS_CardinalityType
         DEF SlotInv, PipelineAssumption
    <2> QED
      BY <1>1, <2>4, <2>5, <2>6 DEF SlotInv
  <1>2. SlotInv /\ [Next]_vars =>
          [\A q \in Queries :
             by[q] # "saturated" /\ by'[q] = "saturated" =>
               Cardinality({p \in Queries \ {q} : p \in held}) = MaxSlots]_vars
    BY <1>1
  <1> QED
    BY <1>2, SlotInvAlways, PTL DEF Spec, SaturationJustified

-----------------------------------------------------------------------------
(* The order of the middlewares.                                           *)

\* A query that policy i has covered from its arrival on is still at one of
\* the first i policies, or one of them has answered it.
Stands(q, i) ==
    \E j \in 1..i :
      \/ pc[q] = PreRouting[j] /\ by[q] = "nobody"
      \/ pc[q] \in {"cacheset", "return"} /\ by[q] = PreRouting[j]

OrderInv ==
    /\ pc \in [Queries -> Labels]
    /\ question \in [Queries -> Questions]
    /\ by \in [Queries -> Deciders]
    /\ firm \in [Queries -> SUBSET Policies]
    /\ enabled \in [Policies -> BOOLEAN]
    /\ \A q \in Queries : pc[q] = "idle" => by[q] = "nobody"
    /\ \A q \in Queries : \A m \in firm[q] : enabled[m] /\ question[q] \in Rules[m]
    /\ \A q \in Queries : \A i \in 1..4 : PreRouting[i] \in firm[q] => Stands(q, i)

\* The positions of the pre-routing order are distinct, and no later label is
\* one of them.
LEMMA PreRoutingDistinct ==
    /\ \A i, j \in 1..5 : PreRouting[i] = PreRouting[j] => i = j
    /\ \A i \in 1..5 : PreRouting[i] \notin {"idle", "acquire", "stub", "lock", "exchange",
                                           "resolve", "release", "cacheset", "return", "nobody"}
    /\ \A i \in 1..4 : PreRouting[i] # "cacheget"
  <1>1. ASSUME NEW i \in 1..5, NEW j \in 1..5, PreRouting[i] = PreRouting[j] PROVE i = j
    <2>1. i = 1 \/ i = 2 \/ i = 3 \/ i = 4 \/ i = 5
      OBVIOUS
    <2>2. j = 1 \/ j = 2 \/ j = 3 \/ j = 4 \/ j = 5
      OBVIOUS
    <2> QED
      BY <1>1, <2>1, <2>2, PreRoutingOrder
  <1>2. ASSUME NEW i \in 1..5
        PROVE  PreRouting[i] \notin {"idle", "acquire", "stub", "lock", "exchange",
                                    "resolve", "release", "cacheset", "return", "nobody"}
    <2>1. i = 1 \/ i = 2 \/ i = 3 \/ i = 4 \/ i = 5
      OBVIOUS
    <2> QED
      BY <2>1, PreRoutingOrder
  <1>3. ASSUME NEW i \in 1..4 PROVE PreRouting[i] # "cacheget"
    <2>1. i = 1 \/ i = 2 \/ i = 3 \/ i = 4
      OBVIOUS
    <2> QED
      BY <2>1, PreRoutingOrder
  <1> QED
    BY <1>1, <1>2, <1>3

\* Initially no query is covered.
LEMMA OrderInit == Init => OrderInv
  BY DEF Init, ConfiguredPolicies, OrderInv, Labels, Deciders, Policies

\* A step of q leaves the standing of every other query alone.
LEMMA OrderOthers ==
    ASSUME OrderInv, NEW q \in Queries, NEW label \in Labels, NEW who \in Deciders,
           pc' = [pc EXCEPT ![q] = label], by' = [by EXCEPT ![q] = who],
           UNCHANGED <<question, enabled>>, firm' = firm,
           label = "idle" => who = "nobody",
           \A i \in 1..4 : PreRouting[i] \in firm[q] => Stands(q, i)'
    PROVE  OrderInv'
  <1>1. ASSUME NEW p \in Queries, p # q, NEW i \in 1..4, PreRouting[i] \in firm[p]
        PROVE  Stands(p, i)'
    <2>1. Stands(p, i)
      BY <1>1 DEF OrderInv
    <2>2. pc'[p] = pc[p] /\ by'[p] = by[p]
      BY <1>1 DEF OrderInv
    <2> QED
      BY <2>1, <2>2 DEF Stands
  <1>2. \A p \in Queries : pc'[p] = "idle" => by'[p] = "nobody"
    BY DEF OrderInv
  <1> QED
    BY <1>1, <1>2 DEF OrderInv

\* Every step keeps it.
LEMMA OrderStep == OrderInv /\ [Next]_vars => OrderInv'
  <1> SUFFICES ASSUME OrderInv, [Next]_vars PROVE OrderInv'
    OBVIOUS
  <1>1. ASSUME NEW q \in Queries, Serve(q) PROVE OrderInv'
    <2>a. ASSUME pc[q] \notin {PreRouting[j] : j \in 1..4}, pc[q] \notin {"cacheset", "return"},
                 NEW i \in 1..4, PreRouting[i] \in firm[q]
          PROVE  FALSE
      BY <2>a DEF OrderInv, Stands
    <2>1. CASE Arrive(q)
      <3>1. PICK k \in Questions :
              /\ question' = [question EXCEPT ![q] = k]
              /\ firm' = [firm EXCEPT ![q] = {m \in Policies : enabled[m] /\ k \in Rules[m]}]
        BY <2>1 DEF Arrive
      <3>2. /\ pc' = [pc EXCEPT ![q] = "status"]
            /\ by' = by
            /\ enabled' = enabled
            /\ by[q] = "nobody"
        BY <2>1, PreRoutingOrder DEF Arrive, Goto, OrderInv
      <3>3. ASSUME NEW p \in Queries, NEW i \in 1..4, PreRouting[i] \in firm'[p]
            PROVE  Stands(p, i)'
        <4>1. CASE p = q
          <5>1. pc'[q] = PreRouting[1] /\ by'[q] = "nobody" /\ 1 \in 1..i
            BY <3>2, PreRoutingOrder DEF OrderInv
          <5> QED
            BY <4>1, <5>1 DEF Stands
        <4>2. CASE p # q
          <5>1. Stands(p, i)
            BY <3>1, <3>3, <4>2 DEF OrderInv
          <5>2. pc'[p] = pc[p] /\ by'[p] = by[p]
            BY <3>2, <4>2 DEF OrderInv
          <5> QED
            BY <5>1, <5>2 DEF Stands
        <4> QED
          BY <4>1, <4>2
      <3>4. ASSUME NEW p \in Queries, NEW m \in firm'[p]
            PROVE  enabled'[m] /\ question'[p] \in Rules[m]
        <4>1. CASE p = q
          BY <3>1, <3>2, <3>4, <4>1 DEF OrderInv
        <4>2. CASE p # q
          BY <3>1, <3>2, <3>4, <4>2 DEF OrderInv
        <4> QED
          BY <4>1, <4>2
      <3> QED
        BY <3>1, <3>2, <3>3, <3>4 DEF OrderInv, Labels, Policies
    <2>2. CASE \E i \in 1..4 : RunPolicy(q, i)
      <3>1. PICK n \in 1..4 :
              /\ pc[q] = PreRouting[n]
              /\ \/ /\ by' = [by EXCEPT ![q] = PreRouting[n]]
                    /\ pc' = [pc EXCEPT ![q] = "cacheset"]
                 \/ /\ ~(enabled[PreRouting[n]] /\ question[q] \in Rules[PreRouting[n]])
                    /\ by' = by
                    /\ pc' = [pc EXCEPT ![q] = PreRouting[n + 1]]
              /\ UNCHANGED <<question, enabled, firm>>
        BY <2>2, PreRoutingOrder DEF RunPolicy, Answer, KeepAnswer, Goto, admin, history
      <3>2. ASSUME NEW i \in 1..4, PreRouting[i] \in firm[q]
            PROVE  n <= i /\ by[q] = "nobody"
        <4>1. PICK j \in 1..i :
                \/ pc[q] = PreRouting[j] /\ by[q] = "nobody"
                \/ pc[q] \in {"cacheset", "return"} /\ by[q] = PreRouting[j]
          BY <3>2 DEF OrderInv, Stands
        <4>2. pc[q] \notin {"cacheset", "return"}
          BY <3>1, PreRoutingDistinct
        <4>3. j = n
          BY <3>1, <4>1, <4>2, PreRoutingDistinct
        <4> QED
          BY <4>1, <4>2, <4>3
      <3>3. CASE by' = [by EXCEPT ![q] = PreRouting[n]] /\ pc' = [pc EXCEPT ![q] = "cacheset"]
        <4>1. ASSUME NEW i \in 1..4, PreRouting[i] \in firm[q] PROVE Stands(q, i)'
          <5>1. n \in 1..i
            BY <3>2, <4>1
          <5>2. pc'[q] = "cacheset" /\ by'[q] = PreRouting[n]
            BY <3>3 DEF OrderInv
          <5> QED
            BY <5>1, <5>2 DEF Stands
        <4>2. PreRouting[n] \in Deciders /\ "cacheset" \in Labels
          BY PreRoutingOrder DEF Deciders, Labels
        <4> QED
          BY <3>1, <3>3, <4>1, <4>2, OrderOthers
      <3>4. CASE /\ ~(enabled[PreRouting[n]] /\ question[q] \in Rules[PreRouting[n]])
                 /\ by' = by
                 /\ pc' = [pc EXCEPT ![q] = PreRouting[n + 1]]
        <4>1. ASSUME NEW i \in 1..4, PreRouting[i] \in firm[q] PROVE Stands(q, i)'
          <5>1. i # n
            BY <3>4, <4>1 DEF OrderInv
          <5>2. n + 1 \in 1..i
            BY <3>2, <4>1, <5>1
          <5>3. pc'[q] = PreRouting[n + 1] /\ by'[q] = "nobody"
            BY <3>2, <3>4, <4>1 DEF OrderInv
          <5> QED
            BY <5>2, <5>3 DEF Stands
        <4>2. by' = [by EXCEPT ![q] = by[q]] /\ by[q] \in Deciders
          BY <3>4 DEF OrderInv
        <4>3. PreRouting[n + 1] \in Labels /\ PreRouting[n + 1] # "idle"
          BY PreRoutingOrder, PreRoutingDistinct
        <4> QED
          BY <3>1, <3>4, <4>1, <4>2, <4>3, OrderOthers
      <3> QED
        BY <3>1, <3>3, <3>4
    <2>3. CASE \/ CacheGet(q) \/ Acquire(q) \/ StubRead(q) \/ StubLock(q)
               \/ StubExchange(q) \/ Resolve(q) \/ Release(q) \/ Abort(q)
      <3>1. pc[q] \in {"cacheget", "acquire", "stub", "lock", "exchange", "resolve", "release"}
        BY <2>3 DEF CacheGet, Acquire, StubRead, StubLock, StubExchange, Resolve, Release, Abort
      <3>2. pc[q] \notin {PreRouting[j] : j \in 1..4} /\ pc[q] \notin {"cacheset", "return"}
        BY <3>1, PreRoutingDistinct
      <3>3. \A i \in 1..4 : PreRouting[i] \notin firm[q]
        BY <2>a, <3>2
      <3>4. UNCHANGED <<question, enabled, firm>>
        BY <2>3 DEF CacheGet, Acquire, StubRead, StubLock, StubExchange, Resolve, Release, Abort,
                    admin, history
      <3>5. \E label \in Labels \ {"idle"}, who \in Deciders :
              pc' = [pc EXCEPT ![q] = label] /\ by' = [by EXCEPT ![q] = who]
        <4>0. by = [by EXCEPT ![q] = by[q]] /\ pc = [pc EXCEPT ![q] = pc[q]]
              /\ by[q] \in Deciders /\ pc[q] \in Labels \ {"idle"}
          BY <3>1 DEF OrderInv
        <4>1. CASE CacheGet(q)
          BY <4>0, <4>1 DEF CacheGet, Answer, KeepAnswer, Goto, Labels, Deciders
        <4>2. CASE Acquire(q)
          BY <4>0, <4>2 DEF Acquire, Answer, KeepAnswer, Goto, Labels, Deciders
        <4>3. CASE StubRead(q) \/ StubLock(q)
          BY <4>0, <4>3 DEF StubRead, StubLock, Goto, Labels, Deciders
        <4>4. CASE StubExchange(q)
          BY <4>0, <4>4 DEF StubExchange, MuxNext, Answer, KeepAnswer, Goto, Labels, Deciders
        <4>5. CASE Resolve(q)
          BY <4>0, <4>5 DEF Resolve, MuxNext, MuxOutcomes, Answer, KeepAnswer, Goto, Labels, Deciders
        <4>6. CASE Release(q) \/ Abort(q)
          BY <4>0, <4>6 DEF Release, Abort, Goto, Labels, Deciders
        <4> QED
          BY <2>3, <4>1, <4>2, <4>3, <4>4, <4>5, <4>6
      <3> QED
        BY <3>3, <3>4, <3>5, OrderOthers
    <2>5. CASE CacheSet(q)
      <3>1. /\ pc[q] = "cacheset"
            /\ pc' = [pc EXCEPT ![q] = "return"]
            /\ by' = [by EXCEPT ![q] = by[q]]
            /\ by[q] \in Deciders
            /\ UNCHANGED <<question, enabled, firm>>
        BY <2>5 DEF CacheSet, Goto, admin, history, OrderInv
      <3>2. ASSUME NEW i \in 1..4, PreRouting[i] \in firm[q] PROVE Stands(q, i)'
        <4>1. PICK j \in 1..i : by[q] = PreRouting[j]
          BY <3>1, <3>2, PreRoutingDistinct DEF OrderInv, Stands
        <4>2. pc'[q] = "return" /\ by'[q] = PreRouting[j]
          BY <3>1, <4>1 DEF OrderInv
        <4> QED
          BY <4>2 DEF Stands
      <3>3. "return" \in Labels /\ "return" # "idle"
        BY DEF Labels
      <3> QED
        BY <3>1, <3>2, <3>3, OrderOthers
    <2>6. CASE Return(q)
      <3>1. /\ pc' = [pc EXCEPT ![q] = "idle"]
            /\ by' = [by EXCEPT ![q] = "nobody"]
            /\ firm' = [firm EXCEPT ![q] = {}]
            /\ UNCHANGED <<question, enabled>>
        BY <2>6 DEF Return, Goto, Answer
      <3>2. ASSUME NEW p \in Queries, NEW i \in 1..4, PreRouting[i] \in firm'[p]
            PROVE  Stands(p, i)'
        <4>1. p # q /\ PreRouting[i] \in firm[p]
          BY <3>1, <3>2 DEF OrderInv
        <4>2. Stands(p, i)
          BY <4>1 DEF OrderInv
        <4>3. pc'[p] = pc[p] /\ by'[p] = by[p]
          BY <3>1, <4>1 DEF OrderInv
        <4> QED
          BY <4>2, <4>3 DEF Stands
      <3>3. ASSUME NEW p \in Queries, NEW m \in firm'[p]
            PROVE  enabled'[m] /\ question'[p] \in Rules[m]
        BY <3>1, <3>3 DEF OrderInv
      <3> QED
        BY <3>1, <3>2, <3>3 DEF OrderInv, Labels, Deciders
    <2> QED
      BY <1>1, <2>1, <2>2, <2>3, <2>5, <2>6
         DEF Serve, TryResolve, RunStatus, RunBlacklist, RunZenMode, RunStaticResponse
  <1>2. CASE UNCHANGED <<pc, question, by, firm, enabled>>
    BY <1>2 DEF OrderInv, Stands
  <1>3. CASE vars' = vars
    BY <1>3, <1>2 DEF vars, query, admin, history
  <1>4. ASSUME NEW m \in Policies, TogglePolicy(m) PROVE OrderInv'
    BY <1>4 DEF TogglePolicy, OrderInv, Stands, query
  <1>5. ASSUME NEW zone \in StubZones, ReplaceStubs(zone) PROVE OrderInv'
    BY <1>5, <1>2 DEF ReplaceStubs, query, history
  <1>6. ASSUME NEW ks \in ExcludeSets, CacheReplaceExcludes(ks) PROVE OrderInv'
    BY <1>6, <1>2 DEF CacheReplaceExcludes, query, history
  <1>7. ASSUME NEW k \in Questions, Evict(k) PROVE OrderInv'
    BY <1>7, <1>2 DEF Evict, query, admin, history
  <1>8. CASE StubsToggle \/ CacheToggle \/ ClearCache
    BY <1>8, <1>2 DEF StubsToggle, CacheToggle, ClearCache, query, history
  <1> QED
    BY <1>1, <1>3, <1>4, <1>5, <1>6, <1>7, <1>8
       DEF Next, BlacklistToggle, StaticResponseToggle, ZenPeriod, Policies

\* A query that a policy has covered from its arrival on is answered by a
\* policy, the first such one or an earlier one.
THEOREM PolicyComesFirst == Spec => []PolicyFirst
  <1>1. ASSUME OrderInv PROVE PolicyFirst
    <2>1. ASSUME NEW q \in Queries, NEW i \in 1..4, PreRouting[i] \in firm[q], by[q] # "nobody"
          PROVE  \E j \in 1..i : by[q] = PreRouting[j]
      BY <1>1, <2>1 DEF OrderInv, Stands
    <2>2. Len(PreRouting) - 1 = 4
      BY PreRoutingOrder
    <2> QED
      BY <2>1, <2>2 DEF PolicyFirst
  <1> QED
    BY <1>1, OrderInit, OrderStep, PTL DEF Spec

-----------------------------------------------------------------------------
(* What the cache may hold.                                                *)

\* Records of a stub are in the hands of queries that the stub has answered, or
\* the cache.  Once the cache is purged of them no query can bring them back:
\* none has them from a stub, and none can reach one.
CacheInv ==
    /\ pc \in [Queries -> Labels]
    /\ question \in [Queries -> Questions]
    /\ by \in [Queries -> Deciders]
    /\ rr \in [Queries -> Records]
    /\ cache \in [Questions -> Records]
    /\ \A q \in Queries : rr[q] = "stub" => by[q] \in {"stub", "cache"}
    /\ purged =>
         /\ ~stubOn
         /\ \A q \in Queries : by[q] # "stub" /\ pc[q] \notin {"lock", "exchange"}
    /\ CacheIsCurrent

\* Nothing is cached at the start.
LEMMA CacheInit == Init => CacheInv
  BY DEF Init, ConfiguredCache, CacheInv, CacheIsCurrent, Labels, Deciders, Records

\* A step of q that leaves the cache alone.
LEMMA CacheOthers ==
    ASSUME CacheInv, NEW q \in Queries, NEW label \in Labels, NEW who \in Deciders,
           NEW records \in Records,
           pc' = [pc EXCEPT ![q] = label], by' = [by EXCEPT ![q] = who],
           rr' = [rr EXCEPT ![q] = records],
           question' \in [Queries -> Questions],
           UNCHANGED <<cache, stubOn, purged>>,
           records = "stub" => who \in {"stub", "cache"},
           purged => who # "stub" /\ label \notin {"lock", "exchange"}
    PROVE  CacheInv'
  <1>1. \A p \in Queries : rr'[p] = "stub" => by'[p] \in {"stub", "cache"}
    BY DEF CacheInv
  <1>2. purged => \A p \in Queries : by'[p] # "stub" /\ pc'[p] \notin {"lock", "exchange"}
    BY DEF CacheInv
  <1> QED
    BY <1>1, <1>2 DEF CacheInv, CacheIsCurrent

\* Every step keeps it.
LEMMA CacheStep == CacheInv /\ [Next]_vars => CacheInv'
  <1> SUFFICES ASSUME CacheInv, [Next]_vars PROVE CacheInv'
    OBVIOUS
  <1>1. ASSUME NEW q \in Queries, Serve(q) PROVE CacheInv'
    <2>0. /\ pc[q] \in Labels /\ by[q] \in Deciders /\ rr[q] \in Records
          /\ pc = [pc EXCEPT ![q] = pc[q]]
          /\ by = [by EXCEPT ![q] = by[q]] /\ rr = [rr EXCEPT ![q] = rr[q]]
          /\ rr[q] = "stub" => by[q] \in {"stub", "cache"}
          /\ purged => by[q] # "stub" /\ pc[q] \notin {"lock", "exchange"} /\ ~stubOn
          /\ question \in [Queries -> Questions]
      BY DEF CacheInv
    <2>1. CASE Arrive(q)
      <3>1. /\ pc' = [pc EXCEPT ![q] = "status"] /\ by' = by /\ rr' = rr
            /\ UNCHANGED <<cache, stubOn, purged>>
            /\ question' \in [Queries -> Questions]
        BY <2>0, <2>1, PreRoutingOrder DEF Arrive, Goto, store, stub
      <3>2. "status" \in Labels /\ "status" \notin {"lock", "exchange"}
        BY DEF Labels, Policies
      <3>3. \E label \in Labels, who \in Deciders, records \in Records :
              /\ pc' = [pc EXCEPT ![q] = label] /\ by' = [by EXCEPT ![q] = who]
              /\ rr' = [rr EXCEPT ![q] = records]
              /\ records = "stub" => who \in {"stub", "cache"}
              /\ purged => who # "stub" /\ label \notin {"lock", "exchange"}
        BY <2>0, <3>1, <3>2
      <3> QED
        BY <3>1, <3>3, CacheOthers
    <2>2. CASE \E i \in 1..4 : RunPolicy(q, i)
      <3>1. PICK i \in 1..4 :
              /\ \/ /\ by' = [by EXCEPT ![q] = PreRouting[i]]
                    /\ rr' = [rr EXCEPT ![q] = "policy"]
                    /\ pc' = [pc EXCEPT ![q] = "cacheset"]
                 \/ /\ by' = by /\ rr' = rr
                    /\ pc' = [pc EXCEPT ![q] = PreRouting[i + 1]]
              /\ UNCHANGED <<question, cache, stubOn, purged>>
        BY <2>2, PreRoutingOrder DEF RunPolicy, Answer, KeepAnswer, Goto, store, stub, admin, history
      <3>2. PreRouting[i] \in Deciders /\ PreRouting[i] # "stub"
        BY PreRoutingOrder DEF Deciders, Policies
      <3>3. PreRouting[i + 1] \in Labels /\ PreRouting[i + 1] \notin {"lock", "exchange"}
        BY PreRoutingOrder, PreRoutingDistinct
      <3>4. "policy" \in Records /\ "cacheset" \in Labels
        BY DEF Records, Labels
      <3>5. CASE /\ by' = [by EXCEPT ![q] = PreRouting[i]]
                 /\ rr' = [rr EXCEPT ![q] = "policy"]
                 /\ pc' = [pc EXCEPT ![q] = "cacheset"]
        BY <2>0, <3>1, <3>2, <3>4, <3>5, CacheOthers
      <3>6. CASE /\ by' = by /\ rr' = rr
                 /\ pc' = [pc EXCEPT ![q] = PreRouting[i + 1]]
        <4>1. \E label \in Labels, who \in Deciders, records \in Records :
                /\ pc' = [pc EXCEPT ![q] = label] /\ by' = [by EXCEPT ![q] = who]
                /\ rr' = [rr EXCEPT ![q] = records]
                /\ records = "stub" => who \in {"stub", "cache"}
                /\ purged => who # "stub" /\ label \notin {"lock", "exchange"}
          BY <2>0, <3>3, <3>6
        <4>2. UNCHANGED <<cache, stubOn, purged>> /\ question' \in [Queries -> Questions]
          BY <2>0, <3>1
        <4> QED
          BY <4>1, <4>2, CacheOthers
      <3> QED
        BY <3>1, <3>5, <3>6
    <2>3. CASE CacheGet(q) \/ Acquire(q) \/ StubRead(q) \/ StubLock(q)
               \/ StubExchange(q) \/ Resolve(q) \/ Release(q) \/ Abort(q) \/ Return(q)
      <3>1. UNCHANGED <<question, cache, stubOn, purged>>
        BY <2>3 DEF CacheGet, Acquire, StubRead, StubLock, StubExchange, Resolve, Release, Abort,
                    Return, store, stub, admin, history
      <3>2. \E label \in Labels, who \in Deciders, records \in Records :
              /\ pc' = [pc EXCEPT ![q] = label] /\ by' = [by EXCEPT ![q] = who]
              /\ rr' = [rr EXCEPT ![q] = records]
              /\ records = "stub" => who \in {"stub", "cache"}
              /\ purged => who # "stub" /\ label \notin {"lock", "exchange"}
        <4>1. CASE CacheGet(q)
          <5>1. cache[question[q]] \in Records
            BY DEF CacheInv
          <5> QED
            BY <2>0, <4>1, <5>1 DEF CacheGet, Answer, KeepAnswer, Goto, Labels, Deciders
        <4>2. CASE Acquire(q)
          BY <2>0, <4>2 DEF Acquire, Answer, KeepAnswer, Goto, Labels, Deciders, Records
        <4>3. CASE StubRead(q) \/ StubLock(q)
          BY <2>0, <4>3 DEF StubRead, StubLock, Goto, Labels
        <4>4. CASE StubExchange(q)
          BY <2>0, <4>4 DEF StubExchange, MuxNext, Answer, KeepAnswer, Goto, Labels, Deciders, Records
        <4>5. CASE Resolve(q)
          BY <2>0, <4>5 DEF Resolve, MuxNext, MuxOutcomes, Answer, KeepAnswer, Goto, Labels,
                           Deciders, Records
        <4>6. CASE Release(q) \/ Abort(q)
          <5>1. /\ by' = [by EXCEPT ![q] = by[q]] /\ rr' = [rr EXCEPT ![q] = rr[q]]
                /\ \E label \in {"cacheset", "return"} : pc' = [pc EXCEPT ![q] = label]
            BY <2>0, <4>6 DEF Release, Abort, Goto
          <5> QED
            BY <2>0, <5>1 DEF Labels
        <4>7. CASE Return(q)
          <5>1. /\ pc' = [pc EXCEPT ![q] = "idle"] /\ by' = [by EXCEPT ![q] = "nobody"]
                /\ rr' = [rr EXCEPT ![q] = "none"]
            BY <4>7 DEF Return, Answer, Goto
          <5>2. "idle" \in Labels /\ "nobody" \in Deciders /\ "none" \in Records
            BY DEF Labels, Deciders, Records
          <5>3. "none" # "stub" /\ "nobody" # "stub" /\ "idle" \notin {"lock", "exchange"}
            OBVIOUS
          <5> QED
            BY <5>1, <5>2, <5>3, Zenon
        <4> QED
          BY <2>3, <4>1, <4>2, <4>3, <4>4, <4>5, <4>6, <4>7
      <3>3. question' \in [Queries -> Questions]
        BY <2>0, <3>1
      <3> QED
        BY <3>1, <3>2, <3>3, CacheOthers
    <2>4. CASE CacheSet(q)
      <3>1. /\ pc' = [pc EXCEPT ![q] = "return"]
            /\ UNCHANGED <<question, by, rr, stubOn, purged>>
        BY <2>4 DEF CacheSet, Goto, stub, admin, history
      <3>2. \/ cache' = cache
            \/ /\ cache' = [cache EXCEPT ![question[q]] = rr[q]]
               /\ by[q] # "cache" /\ rr[q] # "policy"
        <4>1. cache = [cache EXCEPT ![question[q]] = cache[question[q]]]
          BY DEF CacheInv
        <4> QED
          BY <2>4, <4>1 DEF CacheSet, IsResponse
      <3>3. cache' \in [Questions -> Records] /\ CacheIsCurrent'
        <4>1. CASE cache' = cache
          BY <3>1, <4>1 DEF CacheInv, CacheIsCurrent
        <4>2. CASE /\ cache' = [cache EXCEPT ![question[q]] = rr[q]]
                   /\ by[q] # "cache" /\ rr[q] # "policy"
          <5>1. purged => rr[q] # "stub"
            BY <2>0, <4>2
          <5> QED
            BY <2>0, <3>1, <4>2, <5>1 DEF CacheInv, CacheIsCurrent
        <4> QED
          BY <3>2, <4>1, <4>2
      <3>4. \A p \in Queries : pc'[p] \in Labels /\ (pc'[p] = pc[p] \/ pc'[p] = "return")
        BY <3>1 DEF CacheInv, Labels
      <3> QED
        BY <3>1, <3>3, <3>4 DEF CacheInv, Labels
    <2> QED
      BY <1>1, <2>1, <2>2, <2>3, <2>4
         DEF Serve, TryResolve, RunStatus, RunBlacklist, RunZenMode, RunStaticResponse
  <1>2. CASE UNCHANGED <<pc, question, by, rr, cache, stubOn, purged>>
    BY <1>2 DEF CacheInv, CacheIsCurrent
  <1>3. CASE vars' = vars
    BY <1>3, <1>2 DEF vars, query, stub, store, admin, history
  <1>4. ASSUME NEW m \in Policies, TogglePolicy(m) PROVE CacheInv'
    BY <1>4, <1>2 DEF TogglePolicy, query, stub, store
  <1>5. ASSUME NEW zone \in StubZones, ReplaceStubs(zone) PROVE CacheInv'
    BY <1>5, <1>2 DEF ReplaceStubs, query, store, history
  <1>6. ASSUME NEW ks \in ExcludeSets, CacheReplaceExcludes(ks) PROVE CacheInv'
    BY <1>6, <1>2 DEF CacheReplaceExcludes, query, stub, history
  <1>7. ASSUME NEW k \in Questions, Evict(k) PROVE CacheInv'
    BY <1>7 DEF Evict, query, stub, admin, history, CacheInv, CacheIsCurrent, Records
  <1>8. CASE StubsToggle
    BY <1>8 DEF StubsToggle, query, store, CacheInv, CacheIsCurrent
  <1>9. CASE CacheToggle
    BY <1>9, <1>2 DEF CacheToggle, query, stub, history
  <1>10. CASE ClearCache
    <2>1. /\ cache' = [k \in Questions |-> "none"]
          /\ purged' => ~stubOn /\ StubCarriers = {}
          /\ UNCHANGED <<pc, question, by, rr, stubOn>>
      BY <1>10 DEF ClearCache, query, stub
    <2>2. CacheIsCurrent' /\ cache' \in [Questions -> Records]
      BY <2>1 DEF CacheIsCurrent, Records
    <2> QED
      BY <2>1, <2>2 DEF CacheInv, StubCarriers
  <1> QED
    BY <1>1, <1>3, <1>4, <1>5, <1>6, <1>7, <1>8, <1>9, <1>10
       DEF Next, BlacklistToggle, StaticResponseToggle, ZenPeriod, Policies

\* No policy's answer is ever cached, and what the stubs have put into the cache
\* does not come back after they are off, drained and the cache is cleared.
THEOREM CacheStaysCurrent == Spec => []CacheIsCurrent
  <1>1. CacheInv => CacheIsCurrent
    BY DEF CacheInv
  <1> QED
    BY <1>1, CacheInit, CacheStep, PTL DEF Spec
=============================================================================
