------------------------------ MODULE ApiAccess ------------------------------
(***************************************************************************)
(* Who may use the management API: the signing keys and bearer tokens of   *)
(* internal/auth/manager.go, and the checks of internal/httpapi/auth.go    *)
(* and browser_security.go before a handler runs.                          *)
(*                                                                         *)
(* Actors: the operator, who edits the configuration, restarts the server  *)
(* and issues tokens with tdns adm token, a process of its own that reads  *)
(* the configuration as it is then; and a request, whose checks overlap    *)
(* with that, with the clock and with the end of the browser's session.    *)
(*                                                                         *)
(* A key is its identifier and material in one.  The key that a server     *)
(* without one makes up has signed nothing that anybody presents.          *)
(***************************************************************************)
EXTENDS Integers, Sequences, FiniteSets, FiniteSetsExt

CONSTANTS
    SigningKeys,    \* the keys that tdns adm genkey makes, in this order
    LegacyKey,      \* the key in server.signing_key, where there is one
    NoSigningKey,
    MaximumDays,    \* MaximumTokenDays
    Days,           \* lifetimes the operator asks for
    Overlaps,       \* overlaps the operator chooses for a rotation
    ClockSkew,      \* leeway for the expiry of a token
    MaxIssued,      \* bound: tokens
    EndOfTime       \* bound: clock

ASSUME ApiAccessAssumption ==
    /\ SigningKeys \in Seq({SigningKeys[i] : i \in DOMAIN SigningKeys})
    /\ \A i, j \in DOMAIN SigningKeys : SigningKeys[i] = SigningKeys[j] => i = j
    /\ \A i \in DOMAIN SigningKeys : SigningKeys[i] \notin {NoSigningKey, LegacyKey}
    /\ {MaximumDays, ClockSkew, MaxIssued, EndOfTime} \subseteq Nat
    /\ Days \subseteq Int /\ Overlaps \subseteq Nat

VARIABLES
    clock,
    conf,           \* the configuration file, section auth
    manager,        \* what the running server has loaded of it, or NoServer
    generated,      \* how many keys have been generated
    issued,         \* bearer tokens; cutoff is when the operator wants them dead
    session,        \* the browser's session: its scope and whether it is live
    request         \* the request, or NoRequest

accessVars == <<clock, conf, manager, generated, issued, session, request>>

NoServer == <<>>
NoRequest == [at |-> "none"]
Never == EndOfTime + 1

-----------------------------------------------------------------------------
(* Keys and tokens.                                                        *)

\* loadSigningKey: the first of the configured sources of a slot, which are the
\* environment, a file, the inline value and, for the active key, the legacy one.
LoadSigningKey(sources) ==
    LET given == {i \in DOMAIN sources : sources[i] # NoSigningKey}
    IN  IF given = {} THEN NoSigningKey ELSE sources[Min(given)]

Active == LoadSigningKey(<<conf.active, conf.legacy>>)
Previous == LoadSigningKey(<<conf.previous>>)

Loaded == [active |-> Active, previous |-> Previous, until |-> conf.until]

\* NewManager: a missing active key is made up where that is allowed, and a
\* previous key must be another one, with a cutoff in the future.
NewManager(allowEphemeral) ==
    /\ Active # NoSigningKey \/ allowEphemeral
    /\ Previous # NoSigningKey => Previous # Active /\ clock < conf.until

\* The operator rotates the key, steps 1 to 3 of docs/configuration.md.  Tokens
\* of the active key are to live until the cutoff; there is no room for a
\* previous key that was configured before.
RotateKey(overlap) ==
    /\ generated < Len(SigningKeys)
    /\ generated' = generated + 1
    /\ conf' = [conf EXCEPT !.active = SigningKeys[generated + 1],
                            !.previous = Active, !.until = clock + overlap]
    /\ issued' = {[t EXCEPT !.cutoff =
                    CASE t.key = Active -> clock + overlap
                      [] t.key = Previous -> Min({clock, t.cutoff})
                      [] OTHER -> t.cutoff] : t \in issued}
    /\ UNCHANGED <<clock, manager, session, request>>

\* Step 5: the previous key is removed from the configuration after the cutoff.
RemovePrevious ==
    /\ Previous # NoSigningKey
    /\ clock >= conf.until
    /\ conf' = [conf EXCEPT !.previous = NoSigningKey]
    /\ UNCHANGED <<clock, manager, generated, issued, session, request>>

\* tdns serve is started again; it ends if it does not like the keys.
RestartServer ==
    /\ manager' = IF NewManager(TRUE) THEN Loaded ELSE NoServer
    /\ request' = NoRequest
    /\ UNCHANGED <<clock, conf, generated, issued, session>>

\* tokenLifetime, and the same tests in issueBearer.
LifetimeAllowed(days, allowLongLived) ==
    days > 0 /\ (days <= MaximumDays \/ allowLongLived)

\* issueBearer: a token that is signed with the active key.
IssueBearer(scope, days) ==
    issued' = issued \cup
        {[key |-> Active, scope |-> scope, expires |-> clock + days, cutoff |-> Never]}

\* parseTokenScope: what --scope may be.
ParseTokenScope(value) ==
    CASE value \in {"read-only", "ro"} -> {"ro"}
      [] value \in {"read-write", "rw"} -> {"rw"}
      [] OTHER -> {}

\* tdns adm token.
TokenCommand(value, days, allowLongLived) ==
    /\ Cardinality(issued) < MaxIssued
    /\ LifetimeAllowed(days, allowLongLived)
    /\ NewManager(FALSE)
    /\ \E scope \in ParseTokenScope(value) : IssueBearer(scope, days)
    /\ UNCHANGED <<clock, conf, manager, generated, session, request>>

ScopeAllows(granted, required) == granted = "rw" \/ granted = required

\* ValidateBearer: the key is known, not a previous one after its cutoff, and
\* has signed the token, which has not expired, give or take the leeway.
ValidateBearer(t, required) ==
    /\ t.key \in {manager.active, manager.previous}
    /\ t.key = manager.previous => clock < manager.until
    /\ clock < t.expires + ClockSkew
    /\ ScopeAllows(t.scope, required)

-----------------------------------------------------------------------------
(* Requests.                                                               *)

\* The requirement of a route: GET routes read, all others change something.
Requirement(method) == IF method = "GET" THEN "ro" ELSE "rw"
IsUnsafeMethod(method) == method # "GET"

\* What browsers tell of the page that sends a request, old ones less, in the
\* headers Sec-Fetch-Site, Origin and Referer; programs tell nothing.
Headers(page) ==
    CASE page = "own" ->
            {[site |-> "same-origin", origin |-> "own", referer |-> "own"],
             [site |-> "", origin |-> "own", referer |-> ""],
             [site |-> "", origin |-> "", referer |-> "own"]}
      [] page = "foreign" ->
            {[site |-> "cross-site", origin |-> "other", referer |-> "other"],
             [site |-> "same-site", origin |-> "", referer |-> ""],
             [site |-> "", origin |-> "other", referer |-> "own"],
             [site |-> "", origin |-> "", referer |-> "other"]}
      [] page = "program" -> {[site |-> "", origin |-> "", referer |-> ""]}

\* validateOriginOrReferer: the origin decides if there is one.
OriginOrReferer(h) == IF h.origin # "" THEN h.origin = "own" ELSE h.referer = "own"

\* validateBrowserOrigin.
BrowserOrigin(h) ==
    h.site = "same-origin" \/ (h.site \in {"", "none"} /\ OriginOrReferer(h))

\* A request arrives, with a bearer token, the session's cookie, both or neither;
\* csrf says whether it has a token of the session.  What only browsers send
\* varies where something depends on it.
Arrive(bearers, cookie, method, page, csrf) ==
    /\ manager # NoServer
    /\ request = NoRequest
    /\ Cardinality(bearers) <= 1
    /\ (cookie /\ bearers = {} /\ IsUnsafeMethod(method)) \/ (page = "program" /\ ~csrf)
    /\ \E h \in Headers(page) :
        request' = [at |-> "authenticate", bearers |-> bearers, cookie |-> cookie, method |-> method,
                    page |-> page, headers |-> h, csrf |-> csrf]
    /\ UNCHANGED <<clock, conf, manager, generated, issued, session>>

Decide(ok) == request' = [request EXCEPT !.at = IF ok THEN "handle" ELSE "refused"]

\* authenticateRequest, and the scope.  GetSession finds a session that has
\* not expired.  Several credentials, or none, are refused.
AuthenticateRequest(required) ==
    CASE request.bearers # {} /\ request.cookie -> Decide(FALSE)
      [] request.bearers = {} /\ ~request.cookie -> Decide(FALSE)
      [] request.bearers # {} /\ ~request.cookie ->
            \A t \in request.bearers : Decide(ValidateBearer(t, required))
      [] request.bearers = {} /\ request.cookie ->
            LET allowed == session.life = "live" /\ ScopeAllows(session.scope, required) IN
            IF allowed /\ IsUnsafeMethod(request.method)
            THEN request' = [request EXCEPT !.at = "browser"]
            ELSE Decide(allowed)

Require ==
    /\ request.at = "authenticate"
    /\ AuthenticateRequest(Requirement(request.method))
    /\ UNCHANGED <<clock, conf, manager, generated, issued, session>>

\* The origin, and the first query of ValidateCSRF, for the session.
CheckBrowser ==
    /\ request.at = "browser"
    /\ IF BrowserOrigin(request.headers) /\ session.life = "live"
       THEN request' = [request EXCEPT !.at = "csrf"]
       ELSE Decide(FALSE)
    /\ UNCHANGED <<clock, conf, manager, generated, issued, session>>

\* Mutant: the tokens are the ones of before.
CheckCSRFStale ==
    /\ request.at = "csrf"
    /\ Decide(request.csrf)
    /\ UNCHANGED <<clock, conf, manager, generated, issued, session>>

\* The second query, for the tokens, which go with the session's row.
CheckCSRF ==
    /\ request.at = "csrf"
    /\ Decide(request.csrf /\ session.life # "gone")
    /\ UNCHANGED <<clock, conf, manager, generated, issued, session>>

\* The handler runs, or the error is sent.
Reply ==
    /\ request.at \in {"handle", "refused"}
    /\ request' = NoRequest
    /\ UNCHANGED <<clock, conf, manager, generated, issued, session>>

-----------------------------------------------------------------------------
AccessTick ==
    /\ clock < EndOfTime
    /\ clock' = clock + 1
    /\ UNCHANGED <<conf, manager, generated, issued, session, request>>

\* The session expires, or is revoked or purged: its rows are deleted.
EndSession(how) ==
    /\ session.life # "gone" /\ session.life # how
    /\ session' = [session EXCEPT !.life = how]
    /\ UNCHANGED <<clock, conf, manager, generated, issued, request>>

AccessInit ==
    /\ clock = 0
    /\ \E legacy \in {LegacyKey, NoSigningKey} :
        conf = [active |-> NoSigningKey, legacy |-> legacy, previous |-> NoSigningKey, until |-> 0]
    /\ manager = NoServer
    /\ generated = 0
    /\ issued = {}
    /\ session \in [scope : {"ro", "rw"}, life : {"live"}]
    /\ request = NoRequest

AccessNext ==
    \/ AccessTick \/ \E how \in {"expired", "gone"} : EndSession(how)
    \/ \E overlap \in Overlaps : RotateKey(overlap)
    \/ RemovePrevious \/ RestartServer
    \/ \E value \in {"read-only", "rw", "admin"}, days \in Days, long \in BOOLEAN :
          TokenCommand(value, days, long)
    \/ \E bearers \in SUBSET issued, cookie \in BOOLEAN, method \in {"GET", "POST"},
          page \in {"own", "foreign", "program"}, csrf \in BOOLEAN : Arrive(bearers, cookie, method, page, csrf)
    \/ Require \/ CheckBrowser \/ CheckCSRF \/ Reply

AccessSpec == AccessInit /\ [][AccessNext]_accessVars

-----------------------------------------------------------------------------
(* Properties.                                                             *)

\* Who deserves to be let in at this moment.  A token counts until it expires,
\* with the leeway, and until the operator's cutoff for its key, without; a
\* session counts until it is over and, to change something, for requests of
\* its own pages that have a token of the session.  Between the two queries of
\* ValidateCSRF it may expire, but not be revoked.
Deserves(r) ==
    \/ /\ ~r.cookie
       /\ \E t \in r.bearers :
            /\ ScopeAllows(t.scope, Requirement(r.method))
            /\ clock < t.expires + ClockSkew
            /\ clock < t.cutoff
    \/ /\ r.cookie /\ r.bearers = {}
       /\ ScopeAllows(session.scope, Requirement(r.method))
       /\ session.life \in IF r.at = "csrf" THEN {"live", "expired"} ELSE {"live"}
       /\ IsUnsafeMethod(r.method) => r.page = "own" /\ r.csrf

\* docs/configuration.md: "The previous key is rejected at and after
\* auth.previous_key_accept_until.  It can validate existing tokens before that
\* instant".  Once the server has been restarted with the configuration as it
\* is, requests are let in exactly when they deserve it at the moment of the
\* decision, through any number of rotations and restarts, and although session,
\* scope and CSRF token are read in three queries.
DecisionsRight ==
    [][/\ request.at \in {"authenticate", "browser", "csrf"}
       /\ request'.at \in {"handle", "refused"}
       /\ manager = Loaded
       => (request'.at = "handle" <=> Deserves(request))]_accessVars

=============================================================================
