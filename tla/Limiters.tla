------------------------------ MODULE Limiters ------------------------------
(***************************************************************************)
(* The limiters of internal/dnsserver/policy.go (queries of each client),  *)
(* of internal/httpapi/exchange_limiter.go (exchanges of browser codes, of *)
(* each client and in all) and of password_limiter.go (password logins, in *)
(* all, of each client and for each user name).                            *)
(*                                                                         *)
(* Each request has a goroutine of its own, which reads the clock and then *)
(* takes the limiter's mutex: time may pass between the two, and           *)
(* goroutines may get the mutex in another order than they read the clock. *)
(*                                                                         *)
(* Addresses that cannot be parsed, or that the allow-list refuses, never  *)
(* get that far.  Time is counted in ticks, and a bucket earns Rate tokens *)
(* in each.  The limiters differ in their numbers; here all have the same. *)
(***************************************************************************)
EXTENDS Integers, Sequences, FiniteSets, FiniteSetsExt

CONSTANTS
    Requests,       \* for each limiter, "dns", "exchange" and "password", who
                    \* may ask it: pairs of a client and a user name or NoKey
    NoKey,
    Clients,        \* client addresses that may ask
    Users,          \* hashes of user names
    AllRequests,    \* stands for the bucket that all requests share
    Goroutines,
    Rate, Burst,    \* of a bucket of one client or name
    AllBurst,       \* of the bucket that all requests share
    MaxEntries,     \* how many clients or names are tracked
    Idle,           \* ticks without a request that end the tracking
    Watched,        \* the clients, names or AllRequests the history may count
    MaxSkew,        \* bound: ticks that may pass between now() and the mutex
    MaxTime         \* bound: no request arrives after this time

\* NewPolicy, validateLimit: the configured numbers are positive.  Their upper
\* limits do not matter here.
NewPolicy == {Rate, Burst, MaxEntries, Idle} \subseteq Nat \ {0}

ASSUME LimiterAssumption ==
    /\ NewPolicy
    /\ AllBurst \in Nat \ {0}
    /\ DOMAIN Requests \subseteq {"dns", "exchange", "password"}
    /\ \A k \in DOMAIN Requests :
         Requests[k] \subseteq Clients \X (IF k = "password" THEN Users ELSE {NoKey})
    /\ NoKey \notin Clients \cup Users
    /\ Clients \cap Users = {} /\ AllRequests \notin Clients \cup Users
    /\ Watched \subseteq Clients \cup Users \cup {AllRequests}
    /\ {MaxSkew, MaxTime} \subseteq Nat

Times == 0..MaxTime
Intervals == {p \in Times \X Times : p[1] <= p[2]}
Zeros == [p \in Intervals |-> 0]

VARIABLES
    kind,       \* which limiter this is
    now,        \* the clock
    at,         \* where each goroutine is
    asked,      \* the client it serves, and the user name it was given
    stamp,      \* the time it has read
    sources,    \* the entries of clients, most recently used first
    usernames,  \* the entries of user names, likewise
    global,     \* the bucket that all requests share
    watched,    \* history: whose requests are counted
    granted,    \* history: how many of them were let through, for each interval
                \* that their stamps may be in
    latest,     \* history: the latest stamp that has passed the mutex
    steady      \* history: the watched bucket was never evicted to make room,
                \* and its stamps came after all earlier ones

history == <<watched, granted, latest, steady>>
limiterVars == <<kind, now, at, asked, stamp, sources, usernames, global, history>>

\* Whose requests can be counted.
Counted(k) ==
    CASE k = "dns" -> Clients
      [] k = "exchange" -> Clients \cup {AllRequests}
      [] k = "password" -> Clients \cup Users \cup {AllRequests}

\* Empty tables, and a full bucket for all requests where there is one.
NewClientLimiters == sources = <<>>
NewExchangeLimiter == global = [tokens |-> AllBurst, last |-> 0]
NewPasswordLimiter == usernames = <<>>

LimiterInit ==
    /\ kind \in DOMAIN Requests
    /\ now = 0
    /\ at = [g \in Goroutines |-> "idle"]
    /\ asked = [g \in Goroutines |-> <<NoKey, NoKey>>]
    /\ stamp = [g \in Goroutines |-> 0]
    /\ NewClientLimiters /\ NewExchangeLimiter /\ NewPasswordLimiter
    /\ watched \in Watched \cap Counted(kind)
    /\ granted = Zeros
    /\ latest = 0
    /\ steady = TRUE

\* The clock moves on, but not too far from a goroutine on its way to the mutex.
LimiterTick ==
    /\ now < MaxTime
    /\ \A g \in Goroutines : at[g] = "stamped" => now - stamp[g] < MaxSkew
    /\ now' = now + 1
    /\ UNCHANGED <<kind, at, asked, stamp, sources, usernames, global, history>>

\* Policy.admit or the head of Allow: a request arrives, and the clock is read.
Admit(g) ==
    /\ at[g] = "idle"
    /\ \E r \in Requests[kind] : asked' = [asked EXCEPT ![g] = r]
    /\ stamp' = [stamp EXCEPT ![g] = now]
    /\ at' = [at EXCEPT ![g] = "stamped"]
    /\ UNCHANGED <<kind, now, sources, usernames, global, history>>

-----------------------------------------------------------------------------
(* A bucket, and a table of them.                                          *)

\* rate.Limiter: the tokens of a bucket at time t.  A time before that of the
\* last update earns nothing.
Advance(b, burst, t) ==
    LET earned == Rate * Max({0, t - b.last}) IN Min({burst, b.tokens + earned})

HasToken(b, burst, t) == Advance(b, burst, t) >= 1

\* Mutant: a success spends nothing.
AllowNFree(b, burst, t) ==
    IF HasToken(b, burst, t)
    THEN [b EXCEPT !.tokens = Advance(b, burst, t), !.last = t]
    ELSE b

\* Limiter.AllowN(t, 1).  A success records t as the time of the update, even
\* if t is before the last one; a refusal changes nothing.
AllowN(b, burst, t) ==
    IF HasToken(b, burst, t)
    THEN [b EXCEPT !.tokens = Advance(b, burst, t) - 1, !.last = t]
    ELSE b

\* Mutant: the scan starts at the front, and stops there if it is in use.
RemoveExpiredFront(list, t) ==
    IF list = <<>> \/ t - Head(list).lastSeen < Idle THEN list ELSE Tail(list)

\* removeExpired, removeIdle, removeIdlePasswordEntries: entries are dropped
\* from the back until one is in use.
RemoveExpired(list, t) ==
    LET live == {i \in 1..Len(list) : t - list[i].lastSeen < Idle} IN
    SubSeq(list, 1, Max(live \cup {0}))

\* removeOldest, removeOldestPasswordEntry, when there is no room for a new entry.
RemoveOldest(list) ==
    IF Len(list) >= MaxEntries THEN SubSeq(list, 1, Len(list) - 1) ELSE list

Keys(list) == {list[i].key : i \in 1..Len(list)}

\* The map from keys to elements of the list.
Position(list, k) == CHOOSE i \in 1..Len(list) : list[i].key = k

MoveToFront(list, i) ==
    [j \in 1..Len(list) |-> IF j = 1 THEN list[i] ELSE IF j <= i THEN list[j - 1] ELSE list[j]]

\* The list once the key's entry is in front.  A key that is not tracked gets a
\* full bucket, and room is made for it.
EntryFor(list, k, t) ==
    IF k \in Keys(list)
    THEN [MoveToFront(list, Position(list, k)) EXCEPT ![1].lastSeen = t]
    ELSE <<[key |-> k, tokens |-> Burst, last |-> t, lastSeen |-> t]>> \o RemoveOldest(list)

Touched(list, k, t) == EntryFor(RemoveExpired(list, t), k, t)

\* The first entry spends a token, if it has one.
Spent(list, t) == [list EXCEPT ![1] = AllowN(@, Burst, t)]

\* The keys that were evicted to make room.
Evicted(list, k, t) == Keys(RemoveExpired(list, t)) \ Keys(Touched(list, k, t))

-----------------------------------------------------------------------------
(* The limiters, under their mutex.  Each is a conjunct that says whether  *)
(* the request is let through and what becomes of the buckets.             *)

\* clientLimiters.allow.
AllowQuery(c, t, ok) ==
    LET list == Touched(sources, c, t) IN
    /\ ok = HasToken(list[1], Burst, t)
    /\ sources' = Spent(list, t)
    /\ UNCHANGED <<usernames, global>>

\* exchangeLimiter.Allow: the entry is there before the bucket of all requests
\* is asked, and the client's own bucket only if that one has a token.
AllowExchange(c, t, ok) ==
    LET list == Touched(sources, c, t)
        first == HasToken(global, AllBurst, t)
    IN  /\ ok = (first /\ HasToken(list[1], Burst, t))
        /\ sources' = IF first THEN Spent(list, t) ELSE list
        /\ global' = AllowN(global, AllBurst, t)
        /\ UNCHANGED usernames

\* passwordLimiter.Allow: the three buckets in turn, until one is empty; the
\* table of a later one is then left alone.
AllowPassword(c, u, t, ok) ==
    LET list == Touched(sources, c, t)
        names == Touched(usernames, u, t)
        first == HasToken(global, AllBurst, t)
        second == first /\ HasToken(list[1], Burst, t)
    IN  /\ ok = (second /\ HasToken(names[1], Burst, t))
        /\ global' = AllowN(global, AllBurst, t)
        /\ sources' = IF first THEN Spent(list, t) ELSE sources
        /\ usernames' = IF second THEN Spent(names, t) ELSE usernames

\* The history of a decision.
Record(c, u, t, ok) ==
    LET concerned == watched \in {c, u, AllRequests}
        evicted == (IF sources' = sources THEN {} ELSE Evicted(sources, c, t))
                   \cup (IF usernames' = usernames THEN {} ELSE Evicted(usernames, u, t))
    IN  /\ latest' = Max({latest, t})
        /\ steady' = (steady /\ watched \notin evicted /\ (concerned => latest <= t))
        /\ granted' = IF ~steady' THEN Zeros
                      ELSE IF ok /\ concerned
                      THEN [p \in Intervals |-> granted[p] + IF p[1] <= t /\ t <= p[2] THEN 1 ELSE 0]
                      ELSE granted
        /\ UNCHANGED watched

Allow(g) ==
    LET c == asked[g][1]
        u == asked[g][2]
        t == stamp[g]
    IN  /\ at[g] = "stamped"
        /\ \E ok \in BOOLEAN :
            /\ \/ kind = "dns" /\ AllowQuery(c, t, ok)
               \/ kind = "exchange" /\ AllowExchange(c, t, ok)
               \/ kind = "password" /\ AllowPassword(c, u, t, ok)
            /\ Record(c, u, t, ok)
        /\ at' = [at EXCEPT ![g] = "idle"]
        /\ asked' = [asked EXCEPT ![g] = <<NoKey, NoKey>>]
        /\ stamp' = [stamp EXCEPT ![g] = 0]
        /\ UNCHANGED <<kind, now>>

LimiterNext ==
    \/ LimiterTick
    \/ \E g \in Goroutines : Admit(g) \/ Allow(g)

LimiterSpec == LimiterInit /\ [][LimiterNext]_limiterVars

-----------------------------------------------------------------------------
(* Properties.                                                             *)

\* docs/security.md: "Per-client token buckets have bounded, idle-expiring
\* state."  A table has at most MaxEntries entries, one for each key, so that
\* the map and the list agree; and when a request has used it, no entry is much
\* older than Idle.  The sweep stops at the first entry in use, and the list is
\* in the order of the mutex, not of lastSeen, so an idle entry may hide behind
\* another one; but only for as long as a goroutine can take from the clock to
\* the mutex.
StateBoundedAndExpiring ==
    [][\A g \in Goroutines : at[g] = "stamped" /\ at'[g] = "idle" =>
         \A list \in {sources', usernames'} \ {sources, usernames} :
            /\ Len(list) <= MaxEntries
            /\ Cardinality(Keys(list)) = Len(list)
            /\ \A i \in 1..Len(list) : stamp[g] - list[i].lastSeen < Idle + MaxSkew]_limiterVars

\* docs/configuration.md: client_queries_per_second is the "sustained
\* token-bucket query rate for each normalized client IP" and client_burst the
\* "maximum per-client query burst"; the other two limiters promise the same of
\* a client, of a user name and of all requests.  Of the requests that arrive
\* in some interval, no more are let through than the burst and what is earned
\* in that time, although an entry may expire and come back with a full bucket,
\* and although the buckets of a request are asked in turn.  This is so for a
\* steady bucket: an eviction makes a new one, and rate.Limiter earns the same
\* time twice when a stamp is older than the last.  And a bucket must be full
\* again after Idle: those of the API are, but NewPolicy takes any
\* client_idle_timeout, and a short one gives a new bucket before it was earned.
RateBound ==
    steady /\ (watched = AllRequests \/ Burst <= Rate * Idle) =>
      \A p \in Intervals :
        granted[p] <= (IF watched = AllRequests THEN AllBurst ELSE Burst) + Rate * (p[2] - p[1])

=============================================================================
