------------------------------ MODULE MCProcess -----------------------------
\* Two domains, the first one in two spellings, and two handlers; three
\* migrations of two targets.
EXTENDS Process, TLC

CONSTANTS a, A, b, c, m1, m2, m3

MCNorm == (A :> a) @@ [v \in Values |-> v]
MCConfigured ==
    [k \in Kinds |-> CASE k = "cache-enabled" -> {Off} [] OTHER -> {c}]
MCSubmitted ==
    [k \in Kinds |-> CASE k = "cache-enabled" -> {{On}, {Off}}
                       [] k = "zen-domain" -> {{}, {A}}
                       [] k = "blacklist-host" -> {{a}, {A, b}}
                       [] OTHER -> {{}, {A, b}, {a}}]

MCMigrations == <<m1, m2, m3>>

\* Settings that are fine, refused at once, refused with the overrides,
\* refused by Bootstrap, or refused when the servers start.
MCSettings ==
    {NewConf, Defaults,
     [Defaults EXCEPT !.purge = 180, !.diagnostics = FALSE, !.cors = "origins"],
     [NewConf EXCEPT !.remember = 31], [NewConf EXCEPT !.purge = 181],
     [NewConf EXCEPT !.pseudonymize = TRUE, !.key = FALSE],
     [NewConf EXCEPT !.address.host = "wildcard"],
     [NewConf EXCEPT !.logging = FALSE, !.purge = Unset, !.row = TRUE],
     [NewConf EXCEPT !.directory = "shared"], [NewConf EXCEPT !.cors = "wildcard"],
     [NewConf EXCEPT !.upstreams = {"url", "malformed"}]}

Startup ==
    {"idle", "configure", "prepare", "open", "check", "apply", "record", "protect",
     "overrides", "sessions", "servers"}

\* Bounds: requests come when no password is being set, and more than one of
\* them when nothing else is going on.
Bound ==
    /\ requests > 0 => stage[Admin] = "idle" /\ settings = NewConf
    /\ requests > 1 => /\ asked = 0 /\ JobsDone
                       /\ stage[Serve] \in Startup \cup {"serving"}
                       /\ stage[Serve] = "serving" => listening /\ "tagger" \in open

Symmetry == Permutations(Requests)
=============================================================================
