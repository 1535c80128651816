----------------------------- MODULE LogQueries -----------------------------
(***************************************************************************)
(* The questions that the DNS log answers: GetTop and SearchClients of     *)
(* middleware/dnslog.go, with the aliases of clients and with clients that *)
(* are stored as they are or as tokens (middleware/dnslog_privacy.go).     *)
(*                                                                         *)
(* The key of a row is its time, which doInsert moves behind the latest    *)
(* one: goroutines that read the clock at once, or are delayed, or a clock *)
(* that is set back, put rows at other times than those of their events.   *)
(* The clock counts fractions of a second, of which unixepoch() sees the   *)
(* whole ones.  Queue, locks and failures are in module DNSLog.            *)
(***************************************************************************)
EXTENDS Integers, FiniteSets, FiniteSetsExt

CONSTANTS
    Addresses, Domains,
    Names,          \* names that clients get
    Prefixes,       \* pairs of addresses, the text of one in the text of the other
    NoTerm,         \* nothing is asked for
    Second,         \* ticks in a second
    MaxDNSLogEntries,
    Tops, Limits,   \* numbers that requests ask for
    DefaultLimit, MaxLimit,
    Ages,           \* durations of requests, in ticks
    MaxDelay,       \* bound: ticks between a reading of the clock and the queue
    MaxLogged,      \* bound: events
    LastTick        \* bound: clock

ASSUME LogQueriesAssumption ==
    /\ Second \in Nat \ {0}
    /\ {MaxDNSLogEntries, DefaultLimit, MaxLimit, MaxDelay, MaxLogged, LastTick} \subseteq Nat
    /\ Tops \cup Limits \subseteq Int /\ Ages \subseteq Nat
    /\ Prefixes \subseteq Addresses \X Addresses

VARIABLES
    tick,           \* the clock
    clockSetBack,   \* it has been
    tokens,         \* clients are pseudonymized
    table,          \* tdnslog
    sequence,       \* sqlite_sequence of tdnslog
    aliases,        \* hosts
    origin,         \* history: what the rows are about
    named,          \* history: the name that an address was given last
    accepted,       \* history: events since the last Clear
    latest          \* history: the latest time of these

queryVars == <<tick, clockSetBack, tokens, table, sequence, aliases, origin, named, accepted, latest>>

-----------------------------------------------------------------------------
(* Clients, and what stands for them.                                      *)

Stored(address) == [form |-> IF tokens THEN "token" ELSE "plain", of |-> address]
Terms == [form : {"plain", "token"}, of : Addresses] \cup [form : {"name"}, of : Names]

\* transformClient, and client of dnsLogPseudonymizer: tokens stay as they are,
\* if there are any, and an address becomes what is stored for it.
TransformClient(term) ==
    CASE term.form = "name" -> {}
      [] term.form = "plain" -> {Stored(term.of)}
      [] term.form = "token" -> IF tokens THEN {term} ELSE {}

\* Mutant: the address is stored as it was given.
SetAliasPlain(term, name) ==
    /\ \E client \in TransformClient(term) :
         /\ aliases' = [c \in DOMAIN aliases \cup {term} |-> IF c = term THEN name ELSE aliases[c]]
         /\ named' = [named EXCEPT ![client.of] = name]
    /\ UNCHANGED <<tick, clockSetBack, tokens, table, sequence, origin, accepted, latest>>

\* DNSLogAlias and AddAlias: INSERT ... ON CONFLICT DO UPDATE.
SetAlias(term, name) ==
    /\ \E client \in TransformClient(term) :
         /\ aliases' = [c \in DOMAIN aliases \cup {client} |-> IF c = client THEN name ELSE aliases[c]]
         /\ named' = [named EXCEPT ![client.of] = name]
    /\ UNCHANGED <<tick, clockSetBack, tokens, table, sequence, origin, accepted, latest>>

-----------------------------------------------------------------------------
(* Rows.                                                                   *)

\* How much later than its time an event may be stored, at worst: behind all
\* the events before it, if those were not long enough ago.
Late(time) ==
    IF accepted = 0 \/ latest + accepted < time THEN 0 ELSE latest + accepted - time

\* newLogEvent, and the INSERT of doInsert.
LogEvent(address, domain, blocked, delay) ==
    LET time == tick - delay
        dt == Max({time, sequence + 1})
    IN  /\ accepted < MaxLogged
        /\ table' = table \cup
             {[dt |-> dt, client |-> Stored(address), domain |-> domain, blocked |-> blocked]}
        /\ sequence' = dt
        /\ origin' = origin \cup {[dt |-> dt, time |-> time, late |-> Late(time), address |-> address,
                                   domain |-> domain, blocked |-> blocked]}
        /\ accepted' = accepted + 1
        /\ latest' = Max({latest, time})
        /\ UNCHANGED <<tick, clockSetBack, tokens, aliases, named>>

\* DNSLogRotate and rotate; ParseDNSLogRetention refuses what is not positive.
RotateLog(age) ==
    /\ age > 0
    /\ \E r \in table : r.dt < tick - age
    /\ table' = {r \in table : r.dt >= tick - age}
    /\ origin' = {e \in origin : e.dt >= tick - age}
    /\ UNCHANGED <<tick, clockSetBack, tokens, sequence, aliases, named, accepted, latest>>

\* Clear, and the change of the settings, for which there must be no data.
ClearAndConfigure(pseudonymized) ==
    /\ table' = {} /\ aliases' = <<>> /\ sequence' = 0
    /\ tokens' = pseudonymized
    /\ origin' = {} /\ named' = [a \in Addresses |-> NoTerm]
    /\ accepted' = 0 /\ latest' = 0
    /\ UNCHANGED <<tick, clockSetBack>>

AdvanceClock ==
    /\ tick < LastTick
    /\ tick' = tick + 1
    /\ UNCHANGED <<clockSetBack, tokens, table, sequence, aliases, origin, named, accepted, latest>>

SetClockBack ==
    /\ ~clockSetBack /\ tick > MaxDelay + 2
    /\ clockSetBack' = TRUE
    /\ tick' = tick - 2
    /\ UNCHANGED <<tokens, table, sequence, aliases, origin, named, accepted, latest>>

-----------------------------------------------------------------------------
(* Questions.                                                              *)

\* unixepoch(): the beginning of the running second.
UnixEpoch == (tick \div Second) * Second

HostOf(client) == IF client \in DOMAIN aliases THEN aliases[client] ELSE NoTerm

\* normalizeTopClientMode.
NormalizeTopClientMode(term, mode) ==
    CASE term = NoTerm -> ""
      [] term # NoTerm /\ mode # "" -> mode
      [] term # NoTerm /\ mode = "" -> IF term.form = "name" THEN "host" ELSE "ip"

\* The questions that DNSLogTop passes on; NoTerm is a parameter left out.
TopQuestions ==
    [top : Tops, since : Ages \cup {NoTerm}, status : {"", "blocked", "allowed"},
     client : Terms \cup {NoTerm}, mode : {"", "host", "ip"}]

\* transformClient refuses what is no address.
Refuses(q) ==
    NormalizeTopClientMode(q.client, q.mode) = "ip" /\ TransformClient(q.client) = {}

\* The WHERE clause.
Conditions(q, r) ==
    /\ q.since # NoTerm => r.dt \in UnixEpoch - q.since .. UnixEpoch
    /\ q.status # "" => r.blocked = (q.status = "blocked")
    /\ CASE NormalizeTopClientMode(q.client, q.mode) = "" -> TRUE
         [] NormalizeTopClientMode(q.client, q.mode) = "ip" -> r.client \in TransformClient(q.client)
         [] NormalizeTopClientMode(q.client, q.mode) = "host" -> HostOf(r.client) = q.client

\* GROUP BY d.domain, d.client.  The name, if there is one, replaces the client.
Groups(q) ==
    LET found == {r \in table : Conditions(q, r)} IN
    {[domain |-> g[1], client |-> g[2],
      host |-> IF HostOf(g[2]) = NoTerm THEN g[2] ELSE HostOf(g[2]),
      counter |-> Cardinality({r \in found : <<r.domain, r.client>> = g})] :
        g \in {<<r.domain, r.client>> : r \in found}}

\* ORDER BY, the greatest first, and LIMIT: for SQLite a negative number is no
\* limit.  The possible results.
FirstOf(set, limit, order) ==
    IF limit < 0 \/ Cardinality(set) <= limit THEN {set}
    ELSE {cut \in kSubset(limit, set) : \A x \in cut, y \in set \ cut : order[x] >= order[y]}

MoreOften(groups) == [g \in groups |-> g.counter]

\* The possible answers of GetTop.
GetTop(q) == FirstOf(Groups(q), Min({q.top, MaxDNSLogEntries}), MoreOften(Groups(q)))

\* LIKE, with the pattern made of the text.
TextIn(term, text) ==
    \/ term = text
    \/ term.form = "plain" /\ text.form = "plain" /\ <<term.of, text.of>> \in Prefixes

\* The clients that SearchClients finds, with their names.
Candidates(term) ==
    LET matches(client) ==
          \/ HostOf(client) # NoTerm /\ TextIn(term, HostOf(client))
          \/ IF tokens /\ term.form # "name"
             THEN client \in TransformClient(term)
             ELSE TextIn(term, client)
    IN  {[address |-> c, host |-> HostOf(c)] : c \in {x \in {r.client : r \in table} : matches(x)}}

\* DNSLogClients: the limit that is used.
ClientLimit(limit) == IF limit <= 0 THEN DefaultLimit ELSE Min({limit, MaxLimit})

NamedFirst(clients) == [c \in clients |-> IF c.host # NoTerm THEN 1 ELSE 0]

SearchClients(term, limit) ==
    FirstOf(Candidates(term), ClientLimit(limit), NamedFirst(Candidates(term)))

-----------------------------------------------------------------------------
QueriesInit ==
    /\ tick = MaxDelay + 1
    /\ clockSetBack = FALSE
    /\ tokens \in BOOLEAN
    /\ table = {} /\ aliases = <<>> /\ sequence = 0
    /\ origin = {} /\ named = [a \in Addresses |-> NoTerm]
    /\ accepted = 0 /\ latest = 0

QueriesNext ==
    \/ AdvanceClock \/ SetClockBack
    \/ \E a \in Addresses, d \in Domains, b \in BOOLEAN, delay \in 0..MaxDelay : LogEvent(a, d, b, delay)
    \/ \E term \in Terms, n \in Names : SetAlias(term, [form |-> "name", of |-> n])
    \/ \E age \in Ages : RotateLog(age)
    \/ \E pseudonymized \in BOOLEAN : ClearAndConfigure(pseudonymized)

QueriesSpec == QueriesInit /\ [][QueriesNext]_queryVars

-----------------------------------------------------------------------------
(* Properties.                                                             *)

\* The events that a question is about, in terms of addresses and given names.
About(q) ==
    {e \in origin :
        /\ q.status # "" => e.blocked = (q.status = "blocked")
        /\ CASE q.client = NoTerm -> TRUE
             [] q.client # NoTerm /\ (q.mode = "host" \/ (q.mode = "" /\ q.client.form = "name")) ->
                  named[e.address] = q.client
             [] OTHER -> e.address = q.client.of}

\* Those that are surely, and those that are possibly, in the time asked for:
\* events may be stored late, and those of the running second do not count yet.
Surely(q) ==
    {e \in About(q) : q.since = NoTerm \/
        (e.time >= UnixEpoch - q.since /\ e.time + e.late <= UnixEpoch)}
Possibly(q) ==
    {e \in About(q) : q.since = NoTerm \/
        (e.time + e.late >= UnixEpoch - q.since /\ e.time <= UnixEpoch)}

\* How the client of an event is shown.
ShownAs(address) == IF named[address] = NoTerm THEN Stored(address) ELSE named[address]

\* Pseudonymization and the keys of the rows do not change what GetTop and
\* SearchClients say: the events of an address are counted under its domain and
\* the name it was given last, exactly but for those stored late, whether one
\* asks with an address, a token or a name; what LIMIT leaves out is not more
\* frequent; and a client that has rows is found by its address.
QueriesRight == origin # {} =>
    /\ \A q \in {x \in TopQuestions : ~Refuses(x)} : \A answer \in GetTop(q) :
        LET seen(events, g) ==
              Cardinality({e \in events : e.domain = g.domain /\ Stored(e.address) = g.client})
        IN  /\ \A g \in answer :
                 /\ g.counter \in seen(Surely(q), g) .. seen(Possibly(q), g)
                 /\ g.host = ShownAs(g.client.of)
            /\ \A e \in Surely(q) :
                 \/ \E g \in answer : g.domain = e.domain /\ g.client = Stored(e.address)
                 \/ /\ Cardinality(answer) = Min({q.top, MaxDNSLogEntries})
                    /\ \A g \in answer :
                         g.counter >= seen(Surely(q), [domain |-> e.domain, client |-> Stored(e.address)])
    /\ \A e \in origin, limit \in Limits :
        \A answer \in SearchClients([form |-> "plain", of |-> e.address], limit) :
            \/ [address |-> Stored(e.address), host |-> named[e.address]] \in answer
            \/ Cardinality(answer) = ClientLimit(limit)

=============================================================================
