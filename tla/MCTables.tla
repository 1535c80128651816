------------------------------ MODULE MCTables ------------------------------
(* Instances of Cache, Limiters and Selectors for model checking.  They are  *)
(* what the server keeps in memory about answers and clients, and share      *)
(* nothing: one moves in each behaviour, and the variables of the others     *)
(* keep one initial value.                                                   *)
EXTENDS Cache, Limiters, Selectors, TLC

CONSTANTS c1, c2, c3, u1, kids, lan, d1, d2, d3

VARIABLE table

\* A long and a short record together, one with the limit as its lifetime and a
\* record of no lifetime beside it, one above the limit, and an answer that must
\* not be cached.
MCResponses == {[answer |-> <<1, 2>>, other |-> <<1>>],
                [answer |-> <<2>>, other |-> <<0>>],
                [answer |-> <<3>>, other |-> <<>>],
                [answer |-> <<0, 2>>, other |-> <<>>]}

\* A name that two clients try.
MCRequests ==
    [dns |-> {c1, c2, c3} \X {NoKey},
     exchange |-> {c1, c2} \X {NoKey},
     password |-> {<<c1, u1>>, <<c2, u1>>}]

\* Clients are counted where they are the limiter's only or first key.
MCCounted == kind = "password" => watched # c1

\* Two addresses, the first one in a network; a domain, one below it and one
\* whose text ends with it, the last two in Hosts too.
Text(form, what) == [form |-> form, of |-> what, upper |-> FALSE, rough |-> FALSE, long |-> FALSE]
MCTexts ==
    {Text("label", kids), [Text("label", kids) EXCEPT !.upper = TRUE, !.rough = TRUE],
     Text("ip", c2), [Text("ip", c1) EXCEPT !.long = TRUE],
     [Text("bare", c1) EXCEPT !.long = TRUE, !.rough = TRUE],
     Text("cidr", lan), [Text("bare", lan) EXCEPT !.upper = TRUE],
     [Text("bare", d1) EXCEPT !.upper = TRUE], [Text("bare", d2) EXCEPT !.rough = TRUE],
     Text("blank", "")}
MCLists == {l \in SUBSET MCTexts : Cardinality(l) <= 1} \cup {{Text("label", kids), Text("cidr", lan), Text("ip", c2)}}
MCContains == {<<lan, c1>>}
MCEnds == {<<d1, d1>>, <<d2, d2>>, <<d3, d3>>, <<d2, d1>>, <<d3, d1>>}
MCAskers ==
    {[address |-> c1, labels |-> {}],
     [address |-> c2, labels |-> {[of |-> kids, upper |-> TRUE]}],
     [address |-> c2, labels |-> {[of |-> kids, upper |-> FALSE]}]}

\* The selectors of the cache and those of the blacklist do not meet either.
TablesInit ==
    /\ Init /\ LimiterInit /\ MCCounted /\ SelectorsInit
    /\ table \in {"cache", "limiter", "clients", "questions"}
    /\ table # "limiter" => kind = "dns" /\ watched = c1
    /\ table # "clients" => configured.cache = {}
    /\ table # "questions" => configured.blacklist = {}

TablesNext ==
    /\ UNCHANGED table
    /\ \/ table = "cache" /\ Next /\ UNCHANGED <<limiterVars, selectorVars>>
       \/ table = "limiter" /\ LimiterNext /\ UNCHANGED <<vars, selectorVars>>
       \/ /\ table \in {"clients", "questions"}
          /\ SelectorsNext
          /\ table = "questions" => rows'.cache = {}
          /\ table = "clients" => rows'.blacklist = {} /\ runtimeList' = {}
          /\ UNCHANGED <<vars, limiterVars>>

\* Bound: two entries of the runtime whitelist.
Bound == Cardinality(runtimeList) <= 2

TablesSpec == TablesInit /\ [][TablesNext]_<<table, vars, limiterVars, selectorVars>>

Symmetry == Permutations(Readers) \cup Permutations(Goroutines)
=============================================================================
