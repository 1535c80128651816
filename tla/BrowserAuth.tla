----------------------------- MODULE BrowserAuth ----------------------------
(***************************************************************************)
(* Browser sessions: the store of internal/browserauth and the handlers of *)
(* internal/httpapi/browser_auth.go that use it.                           *)
(*                                                                         *)
(* Actors: handlers of the server, which share one database connection;    *)
(* the task that purges expired records; and the commands tdns adm         *)
(* password and browser-code, which are processes of their own.            *)
(*                                                                         *)
(* A handler reads the clock, checks what it can, waits for the connection *)
(* and then runs one transaction; the clock and the database move on in    *)
(* between.  A password is the number of its hash: each rotation makes a   *)
(* new one.  Rate limits, origins and scopes are checked before and change *)
(* nothing here.                                                           *)
(***************************************************************************)
EXTENDS Naturals, FiniteSets

CONSTANTS
    Handlers,       \* requests that may run at the same time
    Codes,          \* browser login codes
    CodeTTL,        \* longest lifetime of a code
    Lifetimes,      \* lifetimes of sessions: the default and the remembered one
    MaxCSRFTokens,  \* tokens that a session keeps
    PurgeLimit,     \* records that one purge removes from a table
    None,           \* no code, session or time
    MaxTime,        \* bound: clock
    MaxSessions,    \* bound: sessions
    MaxTokens,      \* bound: CSRF tokens
    MaxRotations    \* bound: passwords

ASSUME BrowserAuthAssumption ==
    /\ {CodeTTL, MaxCSRFTokens, PurgeLimit} \subseteq Nat \ {0}
    /\ Lifetimes \subseteq Nat \ {0}
    /\ {MaxTime, MaxSessions, MaxTokens, MaxRotations} \subseteq Nat
    /\ None \notin Nat /\ None \notin Codes

VARIABLES
    now,
    expiry,         \* expiry[c]: when an issued code runs out
    \* the database
    consumed,       \* consumed_browser_codes: the codes in it
    sessions,       \* browser_sessions
    csrf,           \* browser_session_csrf_tokens
    admin,          \* local_administrator: its hash and whether it is enabled
    \* the server
    pc, stamp,      \* a handler's step, and its reading of the clock
    arg,            \* the code, session or hash that it works with
    purge, purgeNow,\* the task's step, and its reading of the clock
    \* bookkeeping
    redeemed,       \* history: sessions made from a code
    late,           \* history: codes redeemed when they had run out already
    tokens,         \* history: all tokens
    created

handler == <<pc, stamp, arg>>
task == <<purge, purgeNow>>
db == <<consumed, sessions, csrf, admin>>
history == <<redeemed, late, tokens>>
vars == <<now, expiry, db, handler, task, history, created>>

Times == 0..MaxTime
Session == [id : 1..MaxSessions, method : {"browser_code", "password"}, hash : 0..MaxRotations,
            expires : Nat]
Token == [session : 1..MaxSessions, id : 1..MaxTokens, created : Times]

\* Every variable has a value of its kind, and the rows of a table have keys.
TypeOK ==
    /\ now \in Times
    /\ expiry \in [Codes -> Nat \cup {None}]
    /\ consumed \subseteq Codes
    /\ sessions \subseteq Session
    /\ \A s, t \in sessions : s.id = t.id => s = t
    /\ csrf \subseteq tokens /\ tokens \subseteq Token
    /\ admin \in [hash : 0..MaxRotations, enabled : BOOLEAN]
    /\ pc \in [Handlers -> {"idle", "redeem", "login", "issue", "revoke"}]
    /\ stamp \in [Handlers -> Times]
    /\ purge \in {"idle", "sessions", "codes"} /\ purgeNow \in Times
    /\ redeemed \in [Codes -> 0..MaxSessions]
    /\ late \subseteq Codes
    /\ created \in 0..MaxSessions

-----------------------------------------------------------------------------
(* The clock and the commands.                                             *)

Tick ==
    /\ now < MaxTime
    /\ now' = now + 1
    /\ UNCHANGED <<expiry, db, handler, task, history, created>>

\* IssueBrowserCode.  The code itself is signed and not stored.
IssueBrowserCode(c, lifetime) ==
    /\ expiry[c] = None
    /\ lifetime > 0 /\ lifetime <= CodeTTL
    /\ expiry' = [expiry EXCEPT ![c] = now + lifetime]
    /\ UNCHANGED <<now, db, handler, task, history, created>>

\* browserCodeLifetime: the lifetimes that the command accepts.
BrowserCodeLifetime(lifetime) == lifetime > 0 /\ lifetime <= CodeTTL

\* tdns adm browser-code with the lifetime of --ttl.
BrowserCodeCommand(c, lifetime) ==
    /\ BrowserCodeLifetime(lifetime)
    /\ IssueBrowserCode(c, lifetime)

\* Sessions are deleted, and by the foreign key their tokens.
Without(gone) ==
    /\ sessions' = sessions \ gone
    /\ csrf' = {t \in csrf : \A s \in gone : t.session # s.id}

\* The sessions that revokePasswordSessions deletes.
PasswordSessions == {s \in sessions : s.method = "password"}

SetAdministratorPassword ==
    /\ admin.hash < MaxRotations
    /\ admin' = [hash |-> admin.hash + 1, enabled |-> TRUE]
    /\ Without(PasswordSessions)
    /\ UNCHANGED <<now, expiry, consumed, handler, task, history, created>>

DisableAdministrator ==
    /\ admin.hash > 0
    /\ admin' = [admin EXCEPT !.enabled = FALSE]
    /\ Without(PasswordSessions)
    /\ UNCHANGED <<now, expiry, consumed, handler, task, history, created>>

-----------------------------------------------------------------------------
(* Handlers.                                                               *)

Live(s) == now < s.expires

\* A handler has made its checks and waits for the connection.
Wait(h, step, x) ==
    /\ pc[h] = "idle"
    /\ pc' = [pc EXCEPT ![h] = step]
    /\ stamp' = [stamp EXCEPT ![h] = now]
    /\ arg' = [arg EXCEPT ![h] = x]
    /\ UNCHANGED <<now, expiry, db, task, history, created>>

Done(h) ==
    /\ pc' = [pc EXCEPT ![h] = "idle"]
    /\ stamp' = [stamp EXCEPT ![h] = 0]
    /\ arg' = [arg EXCEPT ![h] = None]

\* Refused, or the database failed, or the client went away.  The end of the
\* server is an abort of everybody: it changes nothing in the database.
Abort(h) ==
    /\ pc[h] # "idle"
    /\ Done(h)
    /\ UNCHANGED <<now, expiry, db, task, history, created>>

\* newSessionCredentials and insertSession: a session and its first token.
InsertSession(h, method, hash) ==
    /\ created < MaxSessions
    /\ Cardinality(tokens) < MaxTokens
    /\ created' = created + 1
    /\ \E lifetime \in Lifetimes :
        sessions' = sessions \cup
            {[id |-> created + 1, method |-> method, hash |-> hash, expires |-> stamp[h] + lifetime]}
    /\ LET first == [session |-> created + 1, id |-> Cardinality(tokens) + 1, created |-> stamp[h]]
       IN  csrf' = csrf \cup {first} /\ tokens' = tokens \cup {first}

\* ValidateBrowserCode.
CodeValid(c) == expiry[c] # None /\ now < expiry[c]

\* The handler finds the code valid at its reading of the clock.
BrowserCodeExchange(h, c) ==
    /\ CodeValid(c)
    /\ Wait(h, "redeem", c)

\* Mutant: the code is not marked.
RedeemCodeTwice(h) ==
    /\ pc[h] = "redeem"
    /\ arg[h] \notin consumed
    /\ InsertSession(h, "browser_code", 0)
    /\ redeemed' = [redeemed EXCEPT ![arg[h]] = @ + 1]
    /\ Done(h)
    /\ UNCHANGED <<now, expiry, consumed, admin, task, late>>

\* RedeemCode: one transaction marks the code, if it is not marked yet, and
\* creates the session.
RedeemCode(h) ==
    /\ pc[h] = "redeem"
    /\ arg[h] \notin consumed
    /\ consumed' = consumed \cup {arg[h]}
    /\ InsertSession(h, "browser_code", 0)
    /\ redeemed' = [redeemed EXCEPT ![arg[h]] = @ + 1]
    /\ late' = IF expiry[arg[h]] <= now THEN late \cup {arg[h]} ELSE late
    /\ Done(h)
    /\ UNCHANGED <<now, expiry, admin, task>>

\* administratorCredential: the credential in the table is enabled and has the hash.
Credential(hash) == admin = [hash |-> hash, enabled |-> TRUE]

\* The handler reads clock and credential and compares the password with it,
\* outside of a transaction.
BrowserPasswordLogin(h) ==
    /\ Credential(admin.hash)
    /\ Wait(h, "login", admin.hash)

\* Mutant: the credential is not read again.
CreatePasswordSessionUnchecked(h) ==
    /\ pc[h] = "login"
    /\ InsertSession(h, "password", arg[h])
    /\ Done(h)
    /\ UNCHANGED <<now, expiry, consumed, admin, task, redeemed, late>>

\* CreatePasswordSession: the transaction reads the credential again.
CreatePasswordSession(h) ==
    /\ pc[h] = "login"
    /\ Credential(arg[h])
    /\ InsertSession(h, "password", arg[h])
    /\ Done(h)
    /\ UNCHANGED <<now, expiry, consumed, admin, task, redeemed, late>>

\* BrowserSession: GetSession, and the clock read again for IssueCSRF.
BrowserSession(h, s) ==
    /\ Live(s)
    /\ Wait(h, "issue", s.id)

\* The MaxCSRFTokens youngest ones of a set.
Youngest(set) ==
    {keep \in SUBSET set :
        /\ Cardinality(keep) = IF Cardinality(set) <= MaxCSRFTokens
                               THEN Cardinality(set) ELSE MaxCSRFTokens
        /\ \A t \in keep, u \in set \ keep : t.created >= u.created}

\* Mutant: the wrong end of the list is cut.
YoungestReversed(set) ==
    {keep \in SUBSET set :
        /\ Cardinality(keep) = IF Cardinality(set) <= MaxCSRFTokens
                               THEN Cardinality(set) ELSE MaxCSRFTokens
        /\ \A t \in keep, u \in set \ keep : t.created <= u.created}

Kept(set) == Youngest(set)

\* IssueCSRF: if the session is still there and was live at the reading of the
\* clock, a new token is stored and the oldest ones are dropped.  Equal times
\* are ordered by the random hashes.
IssueCSRF(h) ==
    /\ pc[h] = "issue"
    /\ Cardinality(tokens) < MaxTokens
    /\ \E s \in sessions :
        /\ s.id = arg[h]
        /\ stamp[h] < s.expires
        /\ LET new == [session |-> s.id, id |-> Cardinality(tokens) + 1, created |-> stamp[h]]
               mine == {t \in csrf : t.session = s.id} \cup {new}
           IN  /\ tokens' = tokens \cup {new}
               /\ \E keep \in Kept(mine) :
                    csrf' = {t \in csrf : t.session # s.id} \cup keep
    /\ Done(h)
    /\ UNCHANGED <<now, expiry, consumed, sessions, admin, task, redeemed, late, created>>

\* ValidateCSRF: the request has one of the session's tokens.
HasToken(s) == \E t \in csrf : t.session = s.id

BrowserLogout(h, s) ==
    /\ Live(s)
    /\ HasToken(s)
    /\ Wait(h, "revoke", s.id)

RevokeSession(h) ==
    /\ pc[h] = "revoke"
    /\ Without({s \in sessions : s.id = arg[h]})
    /\ Done(h)
    /\ UNCHANGED <<now, expiry, consumed, admin, task, redeemed, late, tokens, created>>

-----------------------------------------------------------------------------
(* PurgeExpired.                                                           *)

PurgeStart ==
    /\ purge = "idle"
    /\ purge' = "sessions"
    /\ purgeNow' = now
    /\ UNCHANGED <<now, expiry, db, handler, history, created>>

\* deleteExpired: the oldest ones of the records that have run out, at most
\* PurgeLimit.  expires[x] is the time of record x.
Oldest(set, expires) ==
    LET out == {x \in set : expires[x] <= purgeNow}
    IN  {cut \in SUBSET out :
            /\ Cardinality(cut) = IF Cardinality(out) <= PurgeLimit
                                  THEN Cardinality(out) ELSE PurgeLimit
            /\ \A x \in cut, y \in out \ cut : expires[x] <= expires[y]}

\* Mutant: the task ends when there is nothing to do in the first table.
PurgeSessionsOnly ==
    /\ purge = "sessions"
    /\ \E cut \in Oldest(sessions, [s \in sessions |-> s.expires]) :
        /\ Without(cut)
        /\ purge' = IF cut = {} THEN "idle" ELSE "codes"
    /\ UNCHANGED <<now, expiry, consumed, admin, handler, purgeNow, history, created>>

PurgeSessions ==
    /\ purge = "sessions"
    /\ \E cut \in Oldest(sessions, [s \in sessions |-> s.expires]) : Without(cut)
    /\ purge' = "codes"
    /\ UNCHANGED <<now, expiry, consumed, admin, handler, purgeNow, history, created>>

PurgeCodes ==
    /\ purge = "codes"
    /\ \E cut \in Oldest(consumed, expiry) : consumed' = consumed \ cut
    /\ purge' = "idle"
    /\ purgeNow' = 0
    /\ UNCHANGED <<now, expiry, sessions, csrf, admin, handler, history, created>>

\* A purge ends early: a statement fails, or the server ends.
PurgeFail ==
    /\ purge # "idle"
    /\ purge' = "idle"
    /\ purgeNow' = 0
    /\ UNCHANGED <<now, expiry, db, handler, history, created>>

Init ==
    /\ now = 0
    /\ expiry = [c \in Codes |-> None]
    /\ consumed = {} /\ sessions = {} /\ csrf = {}
    /\ admin = [hash |-> 0, enabled |-> FALSE]
    /\ pc = [h \in Handlers |-> "idle"]
    /\ stamp = [h \in Handlers |-> 0]
    /\ arg = [h \in Handlers |-> None]
    /\ purge = "idle" /\ purgeNow = 0
    /\ redeemed = [c \in Codes |-> 0]
    /\ late = {} /\ tokens = {}
    /\ created = 0

Next ==
    \/ Tick \/ SetAdministratorPassword \/ DisableAdministrator
    \/ PurgeStart \/ PurgeSessions \/ PurgeCodes \/ PurgeFail
    \/ \E c \in Codes, lifetime \in 0..CodeTTL + 1 : BrowserCodeCommand(c, lifetime)
    \/ \E h \in Handlers :
        \/ \E c \in Codes : BrowserCodeExchange(h, c)
        \/ RedeemCode(h)
        \/ BrowserPasswordLogin(h) \/ CreatePasswordSession(h)
        \/ \E s \in sessions : BrowserSession(h, s) \/ BrowserLogout(h, s)
        \/ IssueCSRF(h) \/ RevokeSession(h)
        \/ Abort(h)

Spec == Init /\ [][Next]_vars

\* The scheduler starts the purge again and again, and it does not fail for ever.
FairSpec == Spec /\ WF_vars(PurgeStart) /\ SF_vars(PurgeSessions) /\ SF_vars(PurgeCodes)

-----------------------------------------------------------------------------
(* Properties.                                                             *)

\* A code makes one session at most, however many requests redeem it at the
\* same time and whatever the purge removes, as long as no request waits for
\* the connection until after the code has run out.
SingleUse == \A c \in Codes \ late : redeemed[c] <= 1

\* The session of a password is gone when the password is changed or disabled,
\* also if a log-in with it was between comparison and transaction.
NoStalePasswordSession ==
    \A s \in PasswordSessions : Credential(s.hash)

\* A session has at most MaxCSRFTokens tokens, and no token outlives its session.
\* And a token that was handed out is valid as long as its session, until as many
\* tokens that are not older have been handed out as a session keeps, although
\* requests store them in another order than they read the clock.
RecentTokensKept ==
    /\ \A s \in sessions : Cardinality({t \in csrf : t.session = s.id}) <= MaxCSRFTokens
    /\ \A t \in csrf : \E s \in sessions : s.id = t.session
    /\ \A t \in tokens, s \in sessions :
        (t.session = s.id /\ t \notin csrf) =>
            Cardinality({u \in tokens \ {t} : u.session = s.id /\ u.created >= t.created})
                >= MaxCSRFTokens

\* Again and again there is nothing in the tables that has run out: a purge is
\* limited and may fail between the tables, and the next ones take the rest.
EventuallyPurged ==
    []<>(/\ \A s \in sessions : Live(s)
         /\ \A c \in consumed : now < expiry[c])
=============================================================================
