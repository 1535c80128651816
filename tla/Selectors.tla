----------------------------- MODULE Selectors ------------------------------
(***************************************************************************)
(* Whom a feature passes over: the selectors of clients for the cache, and *)
(* those of domains and labels for the blacklist (zen mode has the same),  *)
(* from the text in tdns.yaml or in a request to the decision about a      *)
(* query (middleware/labels.go, internal/overrides/apply.go).              *)
(*                                                                         *)
(* A text goes through several normalisations, not all of which keep the   *)
(* case of a name, and is read back from the table at the next start.      *)
(* Faults and overlapping requests are in module Overrides.                *)
(***************************************************************************)
EXTENDS FiniteSets

CONSTANTS
    Texts,          \* the texts that administrators write
    Lists,          \* the sets of them that are configured or submitted
    Addresses, Networks, Contains,  \* Contains: pairs of network and address
    Hosts, Ends,    \* domain names, and pairs: the first one ends with the second
    Askers          \* clients: an address, and the labels that the tagger gives

\* A text has a prefix, or is bare; what it names; whether that has capital
\* letters, blanks or a final dot around it, and whether an address is written
\* in another way than net.IP.String does.
ASSUME SelectorsAssumption ==
    /\ \A t \in Texts :
         /\ t = [form |-> t.form, of |-> t.of, upper |-> t.upper, rough |-> t.rough, long |-> t.long]
         /\ t.form \in {"label", "ip", "cidr", "bare", "blank"}
         /\ {t.upper, t.rough, t.long} \subseteq BOOLEAN
         /\ t.form \in {"ip", "cidr"} => t.of \in Addresses \cup Networks
    /\ Lists \subseteq SUBSET Texts
    /\ Contains \subseteq Networks \X Addresses
    \* A query is for a name, not for an address.
    /\ \A e \in Ends : e[2] \notin Addresses \cup Networks
    /\ \A c \in Askers : c.address \in Addresses

VARIABLES
    configured,     \* excludes of tdns.yaml, of the cache and of the blacklist
    rows,           \* their rows in the table of overrides
    runtimeList,    \* the runtime whitelist of the blacklist
    rules,          \* what each of them matches queries against
    submitted,      \* history: the texts of requests in force, as they were written
    replaced        \* history: the cache's have been replaced since the last start

selectorVars == <<configured, rows, runtimeList, rules, submitted, replaced>>

NotBlank(set) == {t \in set : t.form # "blank"}

\* NormalizeSelectors and NormalizeCacheSelectors of the overrides: trimmed, in
\* lower case, and without the final dot.
NormalizeSelectors(set) ==
    {[t EXCEPT !.upper = FALSE, !.rough = FALSE] : t \in NotBlank(set)}

-----------------------------------------------------------------------------
(* Domains and labels, of the blacklist.                                   *)

\* parseSelectors: a label keeps its case.
ParseSelectors(set) ==
    LET labels == {t \in NotBlank(set) : t.form = "label"} IN
    [domains |-> {t.of : t \in NotBlank(set) \ labels},
     labels |-> {[of |-> t.of, upper |-> t.upper] : t \in labels}]

\* normalizeSelectorValues: the texts of what parseSelectors finds.
NormalizeSelectorValues(set) ==
    {[t EXCEPT !.rough = FALSE, !.upper = @ /\ t.form = "label"] : t \in NotBlank(set)}

MatchesSuffix(host, domains) == \E d \in domains : <<host, d>> \in Ends

MatchesAnyLabel(have, wanted) == have \cap wanted # {}

\* BlackList.Run: the query is let through.
Whitelisted(client, host) ==
    \E r \in {rules.runtime, rules.blacklist} :
        MatchesSuffix(host, r.domains) \/ MatchesAnyLabel(client.labels, r.labels)

-----------------------------------------------------------------------------
(* Clients, of the cache.                                                  *)

\* parseRequestSelectors: everything in lower case; an address after "ip:" is
\* taken as it is written.
ParseRequestSelectors(set) ==
    LET of(form) == {t \in NotBlank(set) : t.form = form} IN
    [labels |-> {t.of : t \in of("label")},
     ips |-> {[of |-> t.of, long |-> t.long] : t \in of("ip")}
             \cup {[of |-> t.of, long |-> FALSE] : t \in {x \in of("bare") : x.of \in Addresses}},
     networks |-> {t.of : t \in {x \in of("cidr") \cup of("bare") : x.of \in Networks}}]

\* normalizeRequestSelectors: the texts of what parseRequestSelectors finds.
NormalizeRequestSelectors(set) ==
    LET parsed == ParseRequestSelectors(set)
        text(form, what, long) ==
          [form |-> form, of |-> what, upper |-> FALSE, rough |-> FALSE, long |-> long]
    IN  {text("label", l, FALSE) : l \in parsed.labels}
        \cup {text("ip", ip.of, ip.long) : ip \in parsed.ips}
        \cup {text("cidr", n, FALSE) : n \in parsed.networks}

\* Cache.ReplaceExcludes.
ReplaceExcludes(set) == ParseRequestSelectors(NormalizeRequestSelectors(set))

\* ShouldBypass, matchesRequestSelectors.
ShouldBypass(client) ==
    \/ MatchesAnyLabel(client.labels, {[of |-> l, upper |-> FALSE] : l \in rules.cache.labels})
    \/ [of |-> client.address, long |-> FALSE] \in rules.cache.ips
    \/ \E n \in rules.cache.networks : <<n, client.address>> \in Contains

-----------------------------------------------------------------------------
(* Steps.                                                                  *)

\* Init of the blacklist and NewCache, with what Apply has read.
RulesAtStart(table) ==
    /\ rules' = [cache |-> ReplaceExcludes(configured.cache \cup NormalizeSelectors(table.cache)),
                 blacklist |-> ParseSelectors(
                    NormalizeSelectorValues(configured.blacklist)
                    \cup NormalizeSelectorValues(NormalizeSelectors(table.blacklist))),
                 runtime |-> ParseSelectors({})]
    /\ runtimeList' = {}

\* The server ends, and is started again.
RestartServer ==
    /\ RulesAtStart(rows)
    /\ submitted' = [submitted EXCEPT !.runtime = {}]
    /\ replaced' = FALSE
    /\ UNCHANGED <<configured, rows>>

\* CacheReplaceExcludes, handler and middleware; the configured ones are out of
\* use until the next start.
CacheReplaceExcludes(set) ==
    /\ rows' = [rows EXCEPT !.cache = NormalizeSelectors(set)]
    /\ rules' = [rules EXCEPT !.cache = ReplaceExcludes(NormalizeSelectors(set))]
    /\ submitted' = [submitted EXCEPT !.cache = set]
    /\ replaced' = TRUE
    /\ UNCHANGED <<configured, runtimeList>>

\* Mutant: the configured ones are out of use here too.
ReplaceAllExcludes(set) ==
    /\ rows' = [rows EXCEPT !.blacklist = NormalizeSelectors(set)]
    /\ rules' = [rules EXCEPT !.blacklist = ParseSelectors(
                    NormalizeSelectorValues(NormalizeSelectors(set)))]
    /\ submitted' = [submitted EXCEPT !.blacklist = set]
    /\ UNCHANGED <<configured, runtimeList, replaced>>

\* BlacklistReplacePersistedExcludes and ReplacePersistedExcludes.
ReplacePersistedExcludes(set) ==
    /\ rows' = [rows EXCEPT !.blacklist = NormalizeSelectors(set)]
    /\ rules' = [rules EXCEPT !.blacklist = ParseSelectors(
                    NormalizeSelectorValues(configured.blacklist)
                    \cup NormalizeSelectorValues(NormalizeSelectors(set)))]
    /\ submitted' = [submitted EXCEPT !.blacklist = set]
    /\ UNCHANGED <<configured, runtimeList, replaced>>

\* AddRuntimeWhitelist: only if there is something new.
AddRuntimeWhitelist(set) ==
    /\ ~(NormalizeSelectorValues(set) \subseteq runtimeList)
    /\ runtimeList' = runtimeList \cup NormalizeSelectorValues(set)
    /\ rules' = [rules EXCEPT !.runtime = ParseSelectors(runtimeList')]
    /\ submitted' = [submitted EXCEPT !.runtime = @ \cup set]
    /\ UNCHANGED <<configured, rows, replaced>>

SelectorsInit ==
    /\ configured \in [cache : Lists, blacklist : Lists]
    /\ rows = [cache |-> {}, blacklist |-> {}]
    /\ runtimeList = {}
    /\ rules = [cache |-> ReplaceExcludes(configured.cache),
                blacklist |-> ParseSelectors(NormalizeSelectorValues(configured.blacklist)),
                runtime |-> ParseSelectors({})]
    /\ submitted = [cache |-> {}, blacklist |-> {}, runtime |-> {}]
    /\ replaced = FALSE

SelectorsNext ==
    \/ RestartServer
    \/ \E set \in Lists :
         CacheReplaceExcludes(set) \/ ReplacePersistedExcludes(set) \/ AddRuntimeWhitelist(set)

SelectorsSpec == SelectorsInit /\ [][SelectorsNext]_selectorVars

-----------------------------------------------------------------------------
(* Properties.                                                             *)

\* What a text says of a client, and of a question, as the documentation has it:
\* a label is the tagger's, letter by letter, and an address is an address.
NamesLabel(t, client) ==
    t.form = "label" /\ [of |-> t.of, upper |-> t.upper] \in client.labels
NamesClient(t, client) ==
    \/ NamesLabel(t, client)
    \/ t.of = client.address /\ t.form \in {"bare", "ip"}
    \/ <<t.of, client.address>> \in Contains /\ t.form \in {"bare", "cidr"}
NamesQuestion(t, client, host) ==
    \/ NamesLabel(t, client)
    \/ t.form = "bare" /\ <<host, t.of>> \in Ends

\* Where the code does less: a label with capital letters loses them, in the cache
\* and in every request that is stored, and an address after "ip:" is compared
\* with the text that Go writes for the client's.
Capital(t) == t.form = "label" /\ t.upper
OddAddress(t) == t.form = "ip" /\ t.long
Lower(t) == [t EXCEPT !.upper = FALSE]

\* docs/configuration.md: "Cache selectors accept label:<name>, ip:<address>, or
\* cidr:<network>.  Bare IP addresses and CIDRs are also accepted and
\* normalized"; "Persistently extensible through the API"; "Persisted exclusions
\* are merged with this list."  However often a text is normalised, stored and
\* read back, the clients and questions that it names are passed over, unless it
\* is a label with capitals or an oddly written address; or one that tdns.yaml
\* has for the cache, until the next start after a request has replaced the
\* cache's.  Nobody else is passed over but for such a label in lower case.
SelectorsRight ==
    \A client \in Askers :
        /\ \A t \in configured.cache \cup submitted.cache :
             ( /\ NamesClient(t, client)
               /\ ~Capital(t) /\ ~OddAddress(t)
               /\ replaced => t \in submitted.cache ) => ShouldBypass(client)
        /\ ShouldBypass(client) =>
             \E t \in configured.cache \cup submitted.cache : NamesClient(Lower(t), client)
        /\ \A host \in Hosts :
             /\ \A t \in configured.blacklist \cup submitted.runtime :
                  NamesQuestion(t, client, host) => Whitelisted(client, host)
             /\ \A t \in submitted.blacklist :
                  NamesQuestion(t, client, host) /\ ~Capital(t) => Whitelisted(client, host)
             /\ Whitelisted(client, host) =>
                  \/ \E t \in configured.blacklist \cup submitted.runtime : NamesQuestion(t, client, host)
                  \/ \E t \in submitted.blacklist : NamesQuestion(Lower(t), client, host)

=============================================================================
