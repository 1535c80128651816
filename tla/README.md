# TDNS in TLA+

TDNS is a filtering, caching and logging DNS forwarder in Go with a management
API. This directory models the parts of it that keep state and run concurrently,
checks them with TLC on small instances, and proves the main safety properties
for every instance with TLAPS. `PROJECT.json` lists components, runs, mutants,
theorems, hazards and findings, and maps each definition to the lines it models.

## 1. Inventory

Every DNS packet is served on a goroutine of its own, every API request too. A
scheduler runs periodic tasks, the DNS log has a worker goroutine, the tag store
a goroutine that owns its connection, and the `tdns adm` commands are processes
that open the same database or call the API. There is one server per
installation; a crash loses what is in memory and keeps the SQLite file and the
block list.

| component | state | operations | interacts with |
|---|---|---|---|
| query pipeline (`server/server.go`, `internal/dnsserver/handler.go`) | upstream slots (a buffered channel), middlewares | process: pre-routing, slot, stubs, upstreams, post-routing | all middlewares, under their own locks |
| admission policy (`internal/dnsserver/policy.go`) | LRU table of token buckets | allow, sweep, evict | called before the pipeline |
| cache (`middleware/cache.go`) | bigcache entries with a time stamp, switch, exclusions | get, set, delete, clear | pipeline, API |
| stub resolver and mux (`middleware/stub.go`, `resolver/client.go`) | stub entries, switch, a mutex | run, replace, toggle | pipeline, API |
| zen mode (`middleware/zen.go`) | period, one-slot channel, host lists | start, end of the period, replacements | pipeline, API, overrides |
| block list (`middleware/blacklist.go`, `internal/blocklist`) | file, revision sidecar, lookup tree, rules | refresh, rebuild, replacements | scheduler, GitHub, pipeline, API, overrides |
| static responses (`middleware/static.go`) | configured, persisted, runtime hosts | run, replacements | pipeline, API, overrides |
| selectors (`middleware/labels.go`, `internal/overrides/apply.go`) | texts of exclusions, in four normal forms | parse, normalise, match | cache, block list, zen mode |
| tagger (`middleware/tagger.go`, `syncsqlite`) | three tables, executor with one open transaction, matcher | create, add, replace, remove, list; reload | pipeline, API |
| DNS log (`middleware/dnslog*.go`) | queue, worker, privacy settings, tables, hourly statistics | run, flush, rotate, start, stop, clear, privacy, alias, shutdown; top lists, search, dashboard | pipeline, API, overrides, scheduler |
| configuration overrides (`internal/overrides`, `internal/httpapi`) | table `config_overrides` | replace a kind, apply at start | all of the above |
| browser sessions (`internal/browserauth`, `internal/httpapi/browser_auth.go`) | sessions, consumed codes, CSRF tokens, administrator, two limiters | exchange, log in, issue, log out, purge, set and disable the password | API, `tdns adm`, scheduler |
| API access (`internal/auth`, `internal/httpapi/auth.go`) | signing keys, cutoff of the previous one | issue, validate, rotate | operator, every request |
| process (`cmd/serve.go`, `internal/db`, `sched`) | schema, files, servers, tasks, stores | migrate, start, serve, shut down | everything |
| deployment (`cmd/config.go`, `config/tls.go`, `apiclient`, `cmd/adm_*.go`) | generated files, token | generate, start, run a command | API access, process |

What is hard in this code: queries that are between two middlewares when an
administrator flips a switch; locks that are held over disk or network
operations; clocks that are read before a lock is taken; events that a failed
flush puts back; multi-step writes that fail or end with the process; two copies
of each setting, in memory and on disk, that are changed one after the other;
transactions sent statement by statement; and two processes that migrate one
database. `PROJECT.json` lists these under "hazards", at the lines where they
bite.

## 2. Modules

Each component has a module with its state and one action per step between
which somebody else can run; `MC*` modules and `.cfg` files make the instances;
`*Proofs` modules hold the theorems. Definitions that begin with the name of
another one and follow a comment "Mutant:" are plausible bugs; no specification
uses them.

* **ZenMode** models `ZenMode.Start` step by step (read of `enabled`, the
  channel `timerMu`, installation of the period, arming, firing and release by
  the goroutine). The clock moves freely, so a goroutine may wake late.
* **DNSLog** models the queue, `doInsert` (take, commit, fail and requeue),
  the worker, the lifecycle operations under `lifecycleMu` and `flushMu`, the
  handlers that write overrides before or after them, aliases, rotation,
  shutdown, crash and restart, with a key file that may change between runs. A
  stored domain or client is its representation: plain, or the key of its token.
* **Dashboard** models the table of hourly statistics: the requests that fill it,
  the hourly job, rotation and clear under `dashboardMu`, which does not cover
  `doInsert`; failing statements and crashes. The log is seen by the hour, as
  numbers of queued events and of rows.
* **LogQueries** models `GetTop` and `SearchClients` with their SQL conditions,
  groups, order and limits, on rows whose key `doInsert` moves behind the latest
  one; aliases; plain clients and tokens; fractions of seconds against
  `unixepoch()`; a clock that is set back.
* **Pipeline** models a query from `ServeDNS` through the middlewares in the
  order of `middlewareOrder`, the slot, the stub resolver with its mutex, the
  failover of `Mux` and the error paths, against administrators who flip
  switches, replace stubs or exclusions, and clear the cache. Answers are
  abstracted to who produced them, a question to what rules match on.
* **Limiters** models the three limiters (queries, exchanges of browser codes,
  password log-ins) with list order, sweep, eviction, the buckets that are asked
  in turn, and `rate.Limiter` in whole tokens. A goroutine reads the clock and
  gets the mutex at most `MaxSkew` ticks later.
* **Cache** models the lifetimes of one key in fractions of seconds, with the
  wall clock set back, and readers that race writers.
* **Selectors** models what becomes of the text of an exclusion: the parsers and
  normalisations of the middlewares, of the handlers and of `Apply`, storage,
  restart, and the decision about a client or a question. The texts themselves,
  as they were submitted, are kept as history, so that the property can say what
  they mean in the words of `docs/configuration.md` and not in those of the code.
* **Blocklist** models refresh (resolve, download, validate, rename, install,
  record) under `refreshMu`, by `Init` or the scheduled task, with failures and
  the end of the process anywhere; replacements of hosts and exclusions; and
  the two readings of a file, strict with every name of a line, and loose with
  the first name only. The branch moves forward while this goes on.
* **TagTables**, **SyncExecutor**, **Tagger**, **TagStore**: the tables with the
  statements and requests that use them; the executor, which gets BEGIN, the
  statements and COMMIT or ROLLBACK one by one, each of which may fail, and may
  be closed; the handlers and the reload of the matcher; and the abstract store,
  in which a request is one atomic change.
* **Overrides** models a replacement of persisted settings: deletion of the
  rows, one transaction per value, installation in the middleware; concurrent
  requests, failing writes; and `Apply` with its own normalisation at start-up.
  It covers static hosts, zen domains and exclusions, block list hosts and
  exclusions, cache exclusions and the cache's switch, and the runtime hosts and
  domains that are never stored.
* **Process** extends Overrides by the life of `tdns serve`: the checks of the
  configuration, Bootstrap with its migrations beside a `tdns adm password`,
  start-up, queries and scheduled tasks, the shutdown in the order of `run`, and
  ends at any point. The log's last flush may fail: the events that were queued
  are dropped then, which is logged, and the process ends with status 0 all the
  same.
* **BrowserAuth** models codes, password log-ins, sessions, CSRF tokens and the
  purge. A handler reads the clock, checks what it can, and waits for the one
  connection; the transaction comes later. Commands are other processes. A
  password is the number of its hash. Where a handler makes two reads in a row
  (`GetSession` and the second clock reading of `BrowserSession`, or
  `ValidateCSRF` of `BrowserLogout`) they are one step: both only decide whether
  the write is tried, and the write checks again or is idempotent. Aborts may
  happen anywhere and subsume the end of the server, since nothing but the
  database outlives a request.
* **ApiAccess** models signing keys, their rotation in the configuration and the
  restarts that load them, bearer tokens, and the checks before a handler:
  bearer or cookie, scope, origin, CSRF token, in separate queries.
* **Deployment** models `tdns config` with its flags `--listenapi` and `--hosts`,
  whose writes may be interrupted and repeated, the server started with what is
  there, and the commands: the connection to the fixed `client.server` with its
  address and the name in the certificate, requests, answers that are lost, that
  say 200 to a refusal or another status after half of the work, and what is
  printed.

Modules share no variables unless one extends the other (Process and Overrides;
Tagger, SyncExecutor and TagTables): components interact by calls under a lock,
each of which is one action of the module that owns the state. Pipeline has the
switches and positions of the middlewares as far as a query can tell, and the
other modules have their insides.

**Refinement.** `Tagger!Store` instantiates TagStore with the stored tables, the
requests and the answers as they are and with the state of a call computed from
its step and from whether its COMMIT was executed. ImplementsTagStore says that
the executor with its failing statements implements the atomic store.

## 3. Runs

| run | checks | bounds, and why they are enough |
|---|---|---|
| `zen` | NoEarlyEnd, PeriodIsFixed, PeriodEnds | three callers (one that owns the period, two that race), two periods' worth of time |
| `dnslog` | Accounted, StopBarrier, ClearBarrier, ChoiceSurvives, EventsCompatible, PrivacySurvives; HistoryExact; QueriesRight | DNSLog: two events (one taken, one queued behind it), two keys, raw and pseudonymized, aliases of one representation at a time (all but `AddAlias` asks only whether there are any), one failing write, one crash. Dashboard: a window of two hours that moves twice, one query per hour, one failure or crash. LogQueries: two addresses, one's text a part of the other's, two events, half seconds, an event that is stored late, limits below and above the number of groups |
| `dnslog_live` | FlushesAndStops | one event, one failing write, one crash, two keys, all requests; pseudonyms in one field |
| `pipeline` | PolicyFirst, CacheIsCurrent, SlotAccounting, SaturationJustified | two queries on one slot, one blocked and one stubbed question, two upstreams, two interventions |
| `pipeline_live` | EveryQueryReturns | two queries at the stub resolver's mutex |
| `access` | DecisionsRight; FreshDeploymentWorks, ReportsTrue | ApiAccess: three keys of which one is the legacy one, two rotations, lifetimes below, at and above the maximum, one token, as tokens do not influence each other. Deployment: two runs of `tdns config`, the first of which may stop anywhere, each with at most one flag that is not the default (another port, an unsuitable list of hosts, or a suitable one), and a command |
| `tables` | HitsWholeAndFresh; RateBound, StateBoundedAndExpiring; SelectorsRight | Cache: half seconds, lifetimes below, at and above the limit, records of different lifetimes, one second set back. Limiters: three clients for two entries, two goroutines, a name that two clients try. Selectors: texts of every form with capitals, blanks and long addresses, lists of one and of three, two whitelist entries |
| `blocklist` | HoleFollowsFile, RevisionNeverAhead, OnlyValidActive, EventuallyCurrent | three revisions of which the second is refused, two requests, faults and crashes |
| `blocklist_names` | EveryNameBlocked, **violated** | see Findings |
| `process` | AcknowledgedIsStored, MemoryMatchesTable, SchemaBeforeUse, OrderlyShutdown | two handlers and three requests (a request before, and two that overlap), a fault, two ends; values in two spellings; three migrations of two targets, on a database that has any number of them; configurations that each check accepts or refuses; a query and two tasks. Requests come without a password command beside them, and several at once without queries and tasks |
| `auth` | SingleUse, NoStalePasswordSession, RecentTokensKept, EventuallyPurged | two handlers, two sessions, three tokens for a limit of two, two passwords, clock readings of which one is old, sessions that have run out and that have not, a purge that takes one row at a time |
| `tagger` | ImplementsTagStore, LabelsWereStored, AnsweredIsInUse, RequestsAnswered | two callers, two of the twelve requests at a time, two failing statements (one and its ROLLBACK), a host in a network, one read-only connection |

`dnslog`, `access` and `tables` explore several modules that share nothing, one
in each behaviour; the variables of the others keep one initial value.

Every module with a long list of variables states its type invariant; TLAPS
proves those of DNSLog, ZenMode and BrowserAuth. The deadlock check is off where the number of
requests, the clock or the runs of a command are bounded and a server without
requests rests. Symmetry is used for requests, queries, readers, keys and
goroutines, and only in runs without liveness.

**Fairness.** Goroutines that have started are scheduled, which is weak fairness
of their steps. Go's mutexes hand themselves to a waiter that has starved for a
millisecond, and its channels serve waiting senders in turn, so a step that takes
a lock or hands over a statement has strong fairness (the worker and the shutdown
of DNSLog, the stub resolver's mutex, the refresh task, the callers of the
executor). The clock advances. An exchange ends with its timeout. The scheduler
calls its tasks again and again; the purge does not fail for ever (strong
fairness of its two statements); the service manager restarts the process.
Nobody is obliged to send a query or a request.

**Finding.** `blocklist_names`: a refresh reads a list strictly, with all names of
a line; any later rebuild, by a replacement of persisted hosts or exclusions or by
a restart with an unchanged revision, reads the same file with `fields[:2]` and
drops the other names. The documentation accepts lines of several names and says
that persisted hosts add entries.

**Limits of the code that the properties state as conditions.**

* When the flush of a stop fails, the worker can take the events that were put
  back before they are discarded (`dnslog_lifecycle.go:58`), keep them over a
  change of the privacy settings, and store them in the old representation.
  EventsCompatible is for runs without a failed write; StopBarrier for stops
  without an error.
* `AddAlias` does not look at `RequiresClear`: after a change of the modes with
  stored data, an alias is written in the new representation next to the old
  ones. EventsCompatible is about events.
* PrivacySurvives allows one failing write. If the write and the one that takes
  it back both fail, the handler reports it and the new settings stay.
* A rotation that stops half-way leaves statistics of deleted rows until the next
  hour; an hour counted with events still queued is corrected by the next job.
* QueriesRight allows for events that are stored late, and leaves the running
  second out, since `unixepoch()` does. A negative `top` is no limit for SQLite.
* RateBound is for clients that were not evicted and whose packets reach the
  mutex in order: `rate.Limiter` earns the same time again after an older stamp.
  It also needs that a bucket is full again when its entry expires (Burst <= Rate
  * Idle). This is so for the limiters of the API, whose numbers are fixed;
  `NewPolicy` accepts any `client_idle_timeout`, and with one that is too short a
  client gets a new, full bucket before it has earned it.
* Replacements of one kind that overlap can leave rows of both, or a table that
  differs from memory, until the next one. Requests to the tagger that overlap
  can install matchers in the other order.
* `CacheReplaceExcludes` replaces the configured exclusions as well, while
  `Apply` appends the persisted ones to them: they come back with a restart.
  Static hosts are stored as they are submitted and normalised by `Apply` only.
* Labels in selectors lose their capitals in the cache and in everything that is
  stored, while tags keep theirs: such a text never matches the tag it names, and
  would match one in lower case. An address after `ip:` is compared as it is
  written, so that another spelling than Go's never matches. SelectorsRight
  excepts these texts, and the configured exclusions of the cache from a
  replacement to the next start, although `docs/configuration.md` has none of
  these exceptions ("Persisted exclusions are merged with this list").
* When the last insert of a shutdown fails, the queue is dropped and the process
  ends with status 0 (`dnslog_lifecycle.go:55-64`, `dnslog.go:651-669`). What
  OrderlyShutdown says of events is that nothing is left queued without such a
  failure having been reported.
* `tdns config` always writes `client.server: https://localhost:8443`: with
  `--listenapi` on another port, or on an address that localhost does not reach,
  or with `--hosts` that leaves localhost out, its commands do not reach its
  server. FreshDeploymentWorks says that they do exactly with the other flags.
* A request that waits for the connection until after its code has run out can
  redeem a code whose record the purge has removed; SingleUse leaves out codes
  with such a late redemption.
* A caller that meets the executor after Close may wait for ever.
* A token made by `tdns config` is not accepted by a server that has another key
  in its environment. A refused top list is printed as an empty one. An answer
  that cannot be written ends the server.
* A failed first refresh ends the process, although there may be a usable file.
  RevisionNeverAhead assumes that the branch is not forced back; after a force
  push the file follows, since the sidecar is compared for equality.
* A signal before the DNS server has begun ends the process without closing its
  stores; the HTTP server leaves requests behind after five seconds.

## 4. Proofs

The theorems hold for all values of the constants that satisfy the named ASSUME
of the module: any number of callers, events, keys, migrations, hours and so on.
Each rests on an inductive invariant, with one lemma for the initial states and
one for steps, which has a case per action; facts that several actions need are
lemmas of their own. TLC checked the longer invariants on the instances of the
runs before they were proved.

* **ZenModeProofs** (from ZenAssumption): OneOwnerAlways, PeriodHasTimerAlways,
  NoEarlyEndAlways, PeriodIsFixedAlways. The invariant relates the token, its
  one owner, and the goroutine's deadline to the end time; without the deadline
  NoEarlyEnd is not inductive.
* **DNSLogProofs** (DNSLogAssumption, DashboardAssumption, LogQueriesAssumption): TypeCorrect;
  StopIsBarrier, StartIsSafe and ChoiceIsDurable from `Control`, which says who
  holds which lock at which step and what a finished flush leaves; EventsNeverMix
  from `CompatInv`, which adds that what `configurePrivacy` has counted is still
  true when it decides; SettingsAreDurable from `SettingsInv`, which says for each
  step of a privacy request what the overrides have and what memory has, as long
  as one write has failed at most. EventsAccounted and ClearIsBarrier from
  `LogInv`: table, batch in flight and queue, one behind the other, are one
  sequence of ascending numbers, and together with what is gone on purpose they
  are all numbers given out. The lemmas on concatenation and on dropping the
  first or last part of such a sequence carry every action of the log.
  HistoryIsExact, about Dashboard, from `DashInv`: only the last completed hour can have queued
  events, and none when the job of this hour has begun; what a task of this hour
  is about to write is exact but for that hour; and so is a table that has it.
  QueriesAreRight, about LogQueries, from `QueriesInv`: rows and events
  correspond one to one by their keys, a row is stored no later than `Late` says
  (the key given out last is bounded by the latest time and the number of
  events), and an alias belongs to what is stored for its address. The lemmas
  show that a question finds all events it is surely about and none that it is
  not possibly about, and that groups count events, by the bijection between
  rows and events.
* **PipelineProofs** (PipelineAssumption): SlotsAccounted, UpstreamIsBounded and
  SaturationIsJustified from `SlotInv` (the channel counts exactly the queries
  that hold a slot, and these are at certain steps); PolicyComesFirst from
  `OrderInv` (a query beyond a policy that has covered it all the time has been
  answered by that policy or an earlier one); CacheStaysCurrent from `CacheInv`,
  which follows the answers of the stubs from the exchange to the cache.
* **BlocklistProofs** (BlocklistAssumption): SidecarNeverAhead,
  RefusedNeverActive and TreeFollowsFile. `Ordered` says that sidecar, file,
  resolved revision and branch are in this order, with equality where a refresh
  is beyond the rename; `Validated` that a candidate beyond validation is valid;
  `TreeOfFile` that the prepared tree is the one of the rules now, since
  `refreshMu` keeps the rules from changing.
* **ProcessProofs** (ProcessAssumption, OverridesAssumption). SchemaIsReady from
  `BootInv`: the draft belongs to the holder of SQLite's write lock and has the
  recorded migrations and the one it executes; what a process has passed in the
  list stays recorded, by whomever. ShutdownIsOrderly from `ShutdownInv`, which says
  at which stage of `run` what is drained, and that the queue of the log is empty,
  saved or dropped, at the exit. AcknowledgedStays from `StoredInv`: a
  request that is alone in its kind has split its values into rows and rest.
  MemoryAgrees from `MemoryInv`, which adds that memory, table and the result of
  `Apply` agree for every kind nobody works on; this needs that normalisation is
  idempotent, which OverridesAssumption says of `Norm`.
* **TaggerProofs** (TagTablesAssumption, SyncExecutorAssumption,
  TaggerAssumption). StoreRefined is the refinement Spec => ImplementsTagStore.
  `StoreInv` says that the open transaction of the executor is the stored tables
  after the statements of the caller so far; a closed form of that (`After`) for
  each kind of request is proved statement by statement, and its last value is
  `Outcome`, the reference. LabelsAreStored from `MatcherInv` (a snapshot and
  the matcher are of committed tables), AnswersAreInUse from `AloneInv` (what a
  request that nobody overlaps has seen is still what is stored).
* **AccessProofs** (BrowserAuthAssumption, DeploymentAssumption,
  ApiAccessAssumption). About BrowserAuth: TypeCorrect, TokensAreKept,
  PasswordSessionsEnd, CodesAreSingleUse. `CountInv` says that sessions and
  tokens are numbered by what was counted, `HandlerInv` that who waits to redeem
  has an issued code; `RedeemInv` that a code that was redeemed in time has its
  mark as long as it has not run out, since the purge's time has been.
  TokensAreKept needs that the youngest N of a finite set exist and that N of the
  others are not older, which two lemmas show by cardinality. DeploymentsWork and
  ReportsAreTrue from `DeployInv` (files that are written and not to be written
  again are of the current run, so that address, certificate and token of a fresh
  server are those of one set of flags; an answer tells what was applied).
  DecisionsAreRight from `AccessInv`: keys are made once and in order;
  the cutoff of an issued token is the one of its key (none for the key in use, the
  configured one for the previous key, a past one for older keys); and a request
  that is between two checks has what the first one found.
* **TablesProofs** (SelectorsAssumption, CacheAssumption, LimiterAssumption).
  SelectorsAreRight from `SelectorsInv`: rows and rules are the images, under the
  chain of normalisations, of the configured texts and of the submitted ones that
  are in force. The lemmas say whom the image of a text matches, that a second
  normalisation changes nothing, and how this relates to whom the text names. HitsAreWholeAndFresh from `CacheLifeInv`: an
  entry was stored in a second that had begun, with no life longer than the
  answer's; the rest is arithmetic of whole seconds and fractions.
  LimiterStateIsBounded from `LimiterInv`: the list is in the order of the mutex,
  so an entry is at most MaxSkew older than those behind it; together with the
  lemmas on the front part that a sweep keeps, and on moving an entry to the
  front, this bounds the age of every entry. RateIsBounded from `RateInv`, which
  RateBound needs to be inductive: what was granted since any time and what the
  bucket has left (a key without an entry has a full bucket) are at most the
  burst and what was earned since. An entry that expires is full already, so that
  its loss changes nothing; a request that is let through takes a token from the
  bucket it is counted for, whichever other bucket refuses afterwards.

A definition is written for the provers in a few places, without a change of
meaning: the statements of a tag request are a function of their number and not a
concatenation, `LoadSigningKey` takes the first key given and not a chain of
conditions, `MoveToFront` is a function of positions and not a filter, requests
are counted for each interval as they are let through and not summed up later,
and alternatives of CASE exclude each other.

Only model-checked: the liveness properties (PeriodEnds, FlushesAndStops,
EveryQueryReturns, EventuallyCurrent, EventuallyPurged, RequestsAnswered), since
TLAPS 1.4.5 does not reason about fairness. EveryNameBlocked is refuted by its
run. All other properties of the runs are proved.

## 5. Not modelled

DNS wire format, TLS, HTTP, JWT and bcrypt are libraries and appear as their
outcomes. Metrics, logging, diagnostics, the web front end, the generated API
client, data types, manual pages and the syntax of configuration files and of
block list sources are left out: they keep no state that anything depends on.
The matching of domains by suffix is a relation (Selectors) or a set of questions
(Pipeline, Blocklist). The response budget is one library token bucket. The bulk
queue of the executor and `TouchSession` are used by nobody. Key files, rotation
of pseudonymization keys within a run and `tdns adm genkey` appear as keys. In
Deployment, certificate and token do not run out (`--validfor`), the address is
free, and a configuration that was written half is one that the server does not
start with. Failures that only refuse a request, and change nothing, are left out
where the module has other refusals of the same request (a key file that cannot
be read, a failing status query, an error of a middleware that the pipeline skips).

## 6. Plan

All components are modelled and all safety properties of the runs are proved. What
could still be proved: type correctness of the remaining modules as theorems of
their own, and the safety steps on which the liveness properties rest (that a
goroutine which waits has somebody to wait for).
