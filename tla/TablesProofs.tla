---------------------------- MODULE TablesProofs ----------------------------
(***************************************************************************)
(* Proofs about what the server keeps in memory about clients and answers: *)
(* Selectors, for any texts, clients and domains; Cache, for any answers,  *)
(* readers and settings of the clock; and Limiters, for any clients, user  *)
(* names, rates and bursts, and any number of goroutines.                  *)
(***************************************************************************)
EXTENDS Cache, Selectors, Limiters,
        SequenceTheorems, FiniteSetTheorems, WellFoundedInduction, TLAPS

-----------------------------------------------------------------------------
(* Selectors: for any texts and any lists of them, any clients, networks   *)
(* and domains.                                                            *)

\* What normalisation makes of a text is a text.
AnyText ==
    {t \in [form : {"label", "ip", "cidr", "bare", "blank"}, of : {t.of : t \in Texts},
            upper : BOOLEAN, rough : BOOLEAN, long : BOOLEAN] :
        t.form \in {"ip", "cidr"} => t.of \in Addresses \cup Networks}

\* The decisions, for any rules.
Bypassed(r, client) ==
    \/ MatchesAnyLabel(client.labels, {[of |-> l, upper |-> FALSE] : l \in r.labels})
    \/ [of |-> client.address, long |-> FALSE] \in r.ips
    \/ \E n \in r.networks : <<n, client.address>> \in Contains

LetThrough(r, client, host) ==
    MatchesSuffix(host, r.domains) \/ MatchesAnyLabel(client.labels, r.labels)

\* What the code makes of a text, whose labels it may have folded to lower case.
MatchedLabel(w, client) ==
    w.text.form = "label" /\ [of |-> w.text.of, upper |-> w.text.upper /\ ~w.folded] \in client.labels
MatchedClient(w, client) ==
    \/ MatchedLabel(w, client)
    \/ w.text.of = client.address /\ (w.text.form = "bare" \/ (w.text.form = "ip" /\ ~w.text.long))
    \/ <<w.text.of, client.address>> \in Contains /\ w.text.form \in {"bare", "cidr"}
MatchedQuestion(w, client, host) ==
    \/ MatchedLabel(w, client)
    \/ w.text.form = "bare" /\ <<host, w.text.of>> \in Ends

\* A text with a prefix, as the normalised texts of the cache are written.
Prefixed(form, what, isLong) ==
    [form |-> form, of |-> what, upper |-> FALSE, rough |-> FALSE, long |-> isLong]

LEMMA TextsTyped == Texts \subseteq AnyText /\ (\A list \in Lists : list \subseteq Texts)
BY SelectorsAssumption DEF SelectorsAssumption, AnyText

\* parseRequestSelectors, part by part.
LEMMA Parsed ==
    ASSUME NEW set
    PROVE  /\ ParseRequestSelectors(set).labels = {t.of : t \in {x \in set : x.form = "label"}}
           /\ ParseRequestSelectors(set).ips =
                {[of |-> t.of, long |-> t.long] : t \in {x \in set : x.form = "ip"}}
                \cup {[of |-> t.of, long |-> FALSE] :
                        t \in {x \in set : x.form = "bare" /\ x.of \in Addresses}}
           /\ ParseRequestSelectors(set).networks =
                {t.of : t \in {x \in set : x.form \in {"cidr", "bare"} /\ x.of \in Networks}}
           /\ ParseRequestSelectors(set) =
                [labels |-> ParseRequestSelectors(set).labels, ips |-> ParseRequestSelectors(set).ips,
                 networks |-> ParseRequestSelectors(set).networks]
<1> DEFINE of(form) == {t \in NotBlank(set) : t.form = form}
<1>1. of("label") = {x \in set : x.form = "label"} /\ of("ip") = {x \in set : x.form = "ip"}
    BY DEF NotBlank
<1>2. /\ {x \in of("bare") : x.of \in Addresses} = {x \in set : x.form = "bare" /\ x.of \in Addresses}
      /\ {x \in of("cidr") \cup of("bare") : x.of \in Networks}
           = {x \in set : x.form \in {"cidr", "bare"} /\ x.of \in Networks}
    BY DEF NotBlank
<1>3. ParseRequestSelectors(set) =
        [labels |-> {t.of : t \in of("label")},
         ips |-> {[of |-> t.of, long |-> t.long] : t \in of("ip")}
                 \cup {[of |-> t.of, long |-> FALSE] : t \in {x \in of("bare") : x.of \in Addresses}},
         networks |-> {t.of : t \in {x \in of("cidr") \cup of("bare") : x.of \in Networks}}]
    BY DEF ParseRequestSelectors
<1> HIDE DEF of
<1> QED
    BY <1>1, <1>2, <1>3

\* What is normalised is parsed to the same rules: ReplaceExcludes parses twice.
LEMMA ParsedAgain ==
    ASSUME NEW set
    PROVE  ReplaceExcludes(set) = ParseRequestSelectors(set)
<1> DEFINE p == ParseRequestSelectors(set)
           L == {Prefixed("label", l, FALSE) : l \in p.labels}
           I == {Prefixed("ip", ip.of, ip.long) : ip \in p.ips}
           N == {Prefixed("cidr", n, FALSE) : n \in p.networks}
           q == ParseRequestSelectors(L \cup I \cup N)
<1>1. NormalizeRequestSelectors(set) = L \cup I \cup N
    BY DEF NormalizeRequestSelectors, Prefixed
<1>2. /\ {x \in L \cup I \cup N : x.form = "label"} = L
      /\ {x \in L \cup I \cup N : x.form = "ip"} = I
      /\ {x \in L \cup I \cup N : x.form = "bare" /\ x.of \in Addresses} = {}
      /\ {x \in L \cup I \cup N : x.form \in {"cidr", "bare"} /\ x.of \in Networks} = {x \in N : x.of \in Networks}
    BY DEF Prefixed
<1>3. p.networks \subseteq Networks /\ \A ip \in p.ips : ip = [of |-> ip.of, long |-> ip.long]
    BY Parsed
<1>4. {t.of : t \in L} = p.labels
    <2> HIDE DEF p
    <2>1. \A l \in p.labels : Prefixed("label", l, FALSE) \in L /\ Prefixed("label", l, FALSE).of = l
        BY DEF Prefixed
    <2>2. \A t \in L : t.of \in p.labels
        BY DEF Prefixed
    <2> QED
        BY <2>1, <2>2
<1>5. {[of |-> t.of, long |-> t.long] : t \in I} = p.ips
    <2> HIDE DEF p
    <2>1. \A ip \in p.ips : LET t == Prefixed("ip", ip.of, ip.long)
                           IN  t \in I /\ [of |-> t.of, long |-> t.long] = ip
        BY <1>3 DEF Prefixed
    <2>2. \A t \in I : [of |-> t.of, long |-> t.long] \in p.ips
        BY <1>3 DEF Prefixed
    <2> QED
        BY <2>1, <2>2
<1>6. {t.of : t \in {x \in N : x.of \in Networks}} = p.networks
    <2> HIDE DEF p
    <2>1. \A n \in p.networks : LET t == Prefixed("cidr", n, FALSE)
                               IN  t \in {x \in N : x.of \in Networks} /\ t.of = n
        BY <1>3 DEF Prefixed
    <2>2. \A t \in N : t.of \in p.networks
        BY DEF Prefixed
    <2> QED
        BY <2>1, <2>2
<1>7. q.labels = p.labels /\ q.ips = p.ips /\ q.networks = p.networks
    <2> HIDE DEF p, L, I, N
    <2> QED
        BY <1>2, <1>4, <1>5, <1>6, Parsed
<1>8. p = [labels |-> p.labels, ips |-> p.ips, networks |-> p.networks]
      /\ q = [labels |-> q.labels, ips |-> q.ips, networks |-> q.networks]
    BY Parsed
<1> HIDE DEF p, L, I, N, q
<1>9. p = q
    BY <1>7, <1>8
<1> QED
    BY <1>1, <1>9 DEF ReplaceExcludes, p, q

\* NormalizeSelectors keeps what a text names, but for capital letters.
LEMMA Normalised ==
    ASSUME NEW set \in SUBSET AnyText
    PROVE  /\ NormalizeSelectors(set) \in SUBSET AnyText
           /\ \A t \in NormalizeSelectors(set) : ~t.upper /\ \E x \in set :
                x.form = t.form /\ x.of = t.of /\ x.long = t.long /\ x.form # "blank"
           /\ \A x \in set : x.form # "blank" => \E t \in NormalizeSelectors(set) :
                x.form = t.form /\ x.of = t.of /\ x.long = t.long
<1> DEFINE N(x) == [x EXCEPT !.upper = FALSE, !.rough = FALSE]
<1>1. \A x \in AnyText : /\ N(x) \in AnyText /\ ~N(x).upper
                         /\ N(x).form = x.form /\ N(x).of = x.of /\ N(x).long = x.long
    BY DEF AnyText
<1>2. NormalizeSelectors(set) = {N(x) : x \in {y \in set : y.form # "blank"}}
    BY DEF NormalizeSelectors, NotBlank
<1> HIDE DEF N
<1> QED
    BY <1>1, <1>2

\* So does normalizeSelectorValues, which keeps them for labels.
LEMMA ValuesNormalised ==
    ASSUME NEW set \in SUBSET AnyText
    PROVE  /\ NormalizeSelectorValues(set) \in SUBSET AnyText
           /\ \A t \in NormalizeSelectorValues(set) : \E x \in set :
                /\ x.form = t.form /\ x.of = t.of /\ x.form # "blank"
                /\ x.form = "label" => x.upper = t.upper
           /\ \A x \in set : x.form # "blank" => \E t \in NormalizeSelectorValues(set) :
                /\ x.form = t.form /\ x.of = t.of
                /\ x.form = "label" => x.upper = t.upper
<1> DEFINE N(x) == [x EXCEPT !.rough = FALSE, !.upper = @ /\ x.form = "label"]
<1>1. \A x \in AnyText : /\ N(x) \in AnyText
                         /\ N(x).form = x.form /\ N(x).of = x.of
                         /\ x.form = "label" => x.upper = N(x).upper
    BY DEF AnyText
<1>2. NormalizeSelectorValues(set) = {N(x) : x \in {y \in set : y.form # "blank"}}
    BY DEF NormalizeSelectorValues, NotBlank
<1> HIDE DEF N
<1> QED
    BY <1>1, <1>2

LEMMA NormalisedTwice ==
    ASSUME NEW set \in SUBSET AnyText
    PROVE  NormalizeSelectors(NormalizeSelectors(set)) = NormalizeSelectors(set)
<1> DEFINE N(x) == [x EXCEPT !.upper = FALSE, !.rough = FALSE]
           B == {y \in set : y.form # "blank"}
<1>1. \A x \in AnyText : N(N(x)) = N(x) /\ N(x).form = x.form
    BY DEF AnyText
<1>2. \A S : NormalizeSelectors(S) = {N(x) : x \in {y \in S : y.form # "blank"}}
    BY DEF NormalizeSelectors, NotBlank
<1>3. B \subseteq AnyText /\ \A x \in B : x.form # "blank"
    OBVIOUS
<1> HIDE DEF N, B
<1>4. NormalizeSelectors(set) = {N(x) : x \in B}
    BY <1>2 DEF B
<1>5. {y \in {N(x) : x \in B} : y.form # "blank"} = {N(x) : x \in B}
    BY <1>1, <1>3
<1>6. {N(y) : y \in {N(x) : x \in B}} = {N(x) : x \in B}
    BY <1>1, <1>3
<1> QED
    BY <1>2, <1>4, <1>5, <1>6

\* A client is passed over by what is parsed of texts, if a text names it.
LEMMA BypassedByTexts ==
    ASSUME NEW set \in SUBSET AnyText, NEW client \in Askers
    PROVE  Bypassed(ReplaceExcludes(set), client) <=>
             \E t \in set : MatchedClient([text |-> t, folded |-> TRUE], client)
<1> DEFINE p == ParseRequestSelectors(set)
<1>1. client.address \in Addresses /\ Contains \subseteq Networks \X Addresses
    BY SelectorsAssumption DEF SelectorsAssumption
<1>2. \A t \in set : MatchedClient([text |-> t, folded |-> TRUE], client) <=>
        \/ t.form = "label" /\ [of |-> t.of, upper |-> FALSE] \in client.labels
        \/ t.of = client.address /\ (t.form = "bare" \/ (t.form = "ip" /\ ~t.long))
        \/ <<t.of, client.address>> \in Contains /\ t.form \in {"bare", "cidr"}
    BY DEF MatchedClient, MatchedLabel, AnyText
<1>p. /\ p.labels = {t.of : t \in {x \in set : x.form = "label"}}
      /\ p.ips = {[of |-> t.of, long |-> t.long] : t \in {x \in set : x.form = "ip"}}
                 \cup {[of |-> t.of, long |-> FALSE] :
                         t \in {x \in set : x.form = "bare" /\ x.of \in Addresses}}
      /\ p.networks = {t.of : t \in {x \in set : x.form \in {"cidr", "bare"} /\ x.of \in Networks}}
    BY Parsed
<1>r. p = ReplaceExcludes(set)
    BY ParsedAgain
<1> HIDE DEF p
<1>3. MatchesAnyLabel(client.labels, {[of |-> l, upper |-> FALSE] : l \in p.labels}) <=>
        \E t \in set : t.form = "label" /\ [of |-> t.of, upper |-> FALSE] \in client.labels
    <2>1. \A l : l \in p.labels <=> \E t \in set : t.form = "label" /\ t.of = l
        BY <1>p
    <2>2. MatchesAnyLabel(client.labels, {[of |-> l, upper |-> FALSE] : l \in p.labels}) <=>
            \E l \in p.labels : [of |-> l, upper |-> FALSE] \in client.labels
        BY DEF MatchesAnyLabel
    <2> QED
        BY <2>1, <2>2
<1>4. [of |-> client.address, long |-> FALSE] \in p.ips <=>
        \E t \in set : t.of = client.address /\ (t.form = "bare" \/ (t.form = "ip" /\ ~t.long))
    <2>1. \A t \in set : t.long \in BOOLEAN
        BY DEF AnyText
    <2>2. \A a, v : [of |-> client.address, long |-> FALSE] = [of |-> a, long |-> v]
                     <=> client.address = a /\ v = FALSE
        OBVIOUS
    <2>3. [of |-> client.address, long |-> FALSE] \in p.ips <=>
            \/ \E t \in set : /\ t.form = "ip"
                             /\ [of |-> client.address, long |-> FALSE] = [of |-> t.of, long |-> t.long]
            \/ \E t \in set : /\ t.form = "bare" /\ t.of \in Addresses
                             /\ [of |-> client.address, long |-> FALSE] = [of |-> t.of, long |-> FALSE]
        BY <1>p
    <2>4. [of |-> client.address, long |-> FALSE] \in p.ips <=>
            \/ \E t \in set : t.form = "ip" /\ client.address = t.of /\ t.long = FALSE
            \/ \E t \in set : t.form = "bare" /\ t.of \in Addresses /\ client.address = t.of
        BY <2>2, <2>3
    <2> QED
        BY <1>1, <2>1, <2>4
<1>5. (\E n \in p.networks : <<n, client.address>> \in Contains) <=>
        \E t \in set : <<t.of, client.address>> \in Contains /\ t.form \in {"bare", "cidr"}
    <2>1. \A n : n \in p.networks <=>
            \E t \in set : t.form \in {"cidr", "bare"} /\ n \in Networks /\ t.of = n
        BY <1>p
    <2>2. \A n : <<n, client.address>> \in Contains => n \in Networks
        BY <1>1
    <2> QED
        BY <2>1, <2>2
<1> QED
    BY <1>2, <1>3, <1>4, <1>5, <1>r DEF Bypassed

\* A question is let through by what is parsed of texts, if a text names it.
LEMMA LetThroughByTexts ==
    ASSUME NEW set \in SUBSET AnyText, NEW client \in Askers, NEW host
    PROVE  LetThrough(ParseSelectors(set), client, host) <=>
             \E t \in set : MatchedQuestion([text |-> t, folded |-> FALSE], client, host)
<1> DEFINE p == ParseSelectors(set)
<1>1. \A h, d : <<h, d>> \in Ends => d \notin Addresses \cup Networks
    BY SelectorsAssumption DEF SelectorsAssumption
<1>2. \A t \in set : MatchedQuestion([text |-> t, folded |-> FALSE], client, host) <=>
        \/ t.form = "label" /\ [of |-> t.of, upper |-> t.upper] \in client.labels
        \/ t.form = "bare" /\ <<host, t.of>> \in Ends
    <2> TAKE t \in set
    <2>1. (t.upper /\ ~FALSE) = t.upper
        BY DEF AnyText
    <2> QED
        BY <2>1 DEF MatchedQuestion, MatchedLabel
<1>3. /\ p.domains = {t.of : t \in {x \in set : x.form # "blank" /\ x.form # "label"}}
      /\ p.labels = {[of |-> t.of, upper |-> t.upper] : t \in {x \in set : x.form = "label"}}
    <2> DEFINE L == {t \in NotBlank(set) : t.form = "label"}
    <2>1. p = [domains |-> {t.of : t \in NotBlank(set) \ L},
               labels |-> {[of |-> t.of, upper |-> t.upper] : t \in L}]
        BY DEF ParseSelectors
    <2>2. /\ L = {x \in set : x.form = "label"}
          /\ NotBlank(set) \ L = {x \in set : x.form # "blank" /\ x.form # "label"}
        BY DEF NotBlank
    <2> HIDE DEF L, p
    <2> QED
        BY <2>1, <2>2
<1> HIDE DEF p
<1>4. MatchesAnyLabel(client.labels, p.labels) <=>
        \E t \in set : t.form = "label" /\ [of |-> t.of, upper |-> t.upper] \in client.labels
    BY <1>3 DEF MatchesAnyLabel
<1>5. MatchesSuffix(host, p.domains) <=> \E t \in set : t.form = "bare" /\ <<host, t.of>> \in Ends
    <2>1. \A d : d \in p.domains <=>
            \E t \in set : t.form # "blank" /\ t.form # "label" /\ t.of = d
        BY <1>3
    <2>2. \A t \in set : t.form # "blank" /\ t.form # "label" /\ <<host, t.of>> \in Ends
                         => t.form = "bare"
        BY <1>1 DEF AnyText
    <2> QED
        BY <2>1, <2>2 DEF MatchesSuffix
<1> QED
    BY <1>2, <1>4, <1>5 DEF LetThrough, p

\* Texts of tdns.yaml or the runtime whitelist, and texts that the API has stored.
LEMMA NamedByValues ==
    ASSUME NEW set \in SUBSET AnyText, NEW client \in Askers, NEW host
    PROVE  (\E t \in NormalizeSelectorValues(set) :
               MatchedQuestion([text |-> t, folded |-> FALSE], client, host))
             <=> \E t \in set : MatchedQuestion([text |-> t, folded |-> FALSE], client, host)
<1>1. \A t : MatchedQuestion([text |-> t, folded |-> FALSE], client, host) <=>
        \/ t.form = "label" /\ [of |-> t.of, upper |-> t.upper /\ ~FALSE] \in client.labels
        \/ t.form = "bare" /\ <<host, t.of>> \in Ends
    BY DEF MatchedQuestion, MatchedLabel
<1>a. ASSUME NEW t \in NormalizeSelectorValues(set), MatchedQuestion([text |-> t, folded |-> FALSE], client, host)
      PROVE  \E x \in set : MatchedQuestion([text |-> x, folded |-> FALSE], client, host)
    <2>1. PICK x \in set : x.form = t.form /\ x.of = t.of /\ (x.form = "label" => x.upper = t.upper)
        BY ValuesNormalised
    <2> QED
        BY <1>a, <2>1, <1>1
<1>b. ASSUME NEW x \in set, MatchedQuestion([text |-> x, folded |-> FALSE], client, host)
      PROVE  \E t \in NormalizeSelectorValues(set) : MatchedQuestion([text |-> t, folded |-> FALSE], client, host)
    <2>1. x.form # "blank"
        BY <1>b, <1>1
    <2>2. PICK t \in NormalizeSelectorValues(set) : x.form = t.form /\ x.of = t.of /\ (x.form = "label" => x.upper = t.upper)
        BY <2>1, ValuesNormalised
    <2> QED
        BY <1>b, <2>2, <1>1
<1> QED
    BY <1>a, <1>b

LEMMA NamedByStored ==
    ASSUME NEW set \in SUBSET AnyText, NEW client \in Askers, NEW host
    PROVE  (\E t \in NormalizeSelectors(set) :
               MatchedQuestion([text |-> t, folded |-> FALSE], client, host))
             <=> \E t \in set : MatchedQuestion([text |-> t, folded |-> TRUE], client, host)
<1>1. \A t : MatchedQuestion([text |-> t, folded |-> FALSE], client, host) <=>
        \/ t.form = "label" /\ [of |-> t.of, upper |-> t.upper /\ ~FALSE] \in client.labels
        \/ t.form = "bare" /\ <<host, t.of>> \in Ends
    BY DEF MatchedQuestion, MatchedLabel
<1>2. \A t : MatchedQuestion([text |-> t, folded |-> TRUE], client, host) <=>
        \/ t.form = "label" /\ [of |-> t.of, upper |-> FALSE] \in client.labels
        \/ t.form = "bare" /\ <<host, t.of>> \in Ends
    BY DEF MatchedQuestion, MatchedLabel
<1>3. \A t \in NormalizeSelectors(set) : (t.upper /\ ~FALSE) = FALSE
    BY Normalised
<1>4. \A t \in NormalizeSelectors(set) :
        MatchedQuestion([text |-> t, folded |-> FALSE], client, host) <=>
          \/ t.form = "label" /\ [of |-> t.of, upper |-> FALSE] \in client.labels
          \/ t.form = "bare" /\ <<host, t.of>> \in Ends
    BY <1>1, <1>3
<1>a. ASSUME NEW t \in NormalizeSelectors(set), MatchedQuestion([text |-> t, folded |-> FALSE], client, host)
      PROVE  \E x \in set : MatchedQuestion([text |-> x, folded |-> TRUE], client, host)
    <2>1. PICK x \in set : x.form = t.form /\ x.of = t.of
        BY Normalised
    <2> QED
        BY <1>a, <2>1, <1>2, <1>4
<1>b. ASSUME NEW x \in set, MatchedQuestion([text |-> x, folded |-> TRUE], client, host)
      PROVE  \E t \in NormalizeSelectors(set) : MatchedQuestion([text |-> t, folded |-> FALSE], client, host)
    <2>1. x.form # "blank"
        BY <1>b, <1>2
    <2>2. PICK t \in NormalizeSelectors(set) : x.form = t.form /\ x.of = t.of
        BY <2>1, Normalised
    <2> QED
        BY <1>b, <2>2, <1>2, <1>4
<1> QED
    BY <1>a, <1>b

\* The same of the cache.
LEMMA NamedInCache ==
    ASSUME NEW set \in SUBSET AnyText, NEW client \in Askers
    PROVE  (\E t \in NormalizeSelectors(set) : MatchedClient([text |-> t, folded |-> TRUE], client))
             <=> \E t \in set : MatchedClient([text |-> t, folded |-> TRUE], client)
<1>1. \A t : MatchedClient([text |-> t, folded |-> TRUE], client) <=>
        \/ t.form = "label" /\ [of |-> t.of, upper |-> FALSE] \in client.labels
        \/ t.of = client.address /\ (t.form = "bare" \/ (t.form = "ip" /\ ~t.long))
        \/ <<t.of, client.address>> \in Contains /\ t.form \in {"bare", "cidr"}
    BY DEF MatchedClient, MatchedLabel
<1>a. ASSUME NEW t \in NormalizeSelectors(set), MatchedClient([text |-> t, folded |-> TRUE], client)
      PROVE  \E x \in set : MatchedClient([text |-> x, folded |-> TRUE], client)
    <2>1. PICK x \in set : x.form = t.form /\ x.of = t.of /\ x.long = t.long
        BY Normalised
    <2> QED
        BY <1>a, <2>1, <1>1
<1>b. ASSUME NEW x \in set, MatchedClient([text |-> x, folded |-> TRUE], client)
      PROVE  \E t \in NormalizeSelectors(set) : MatchedClient([text |-> t, folded |-> TRUE], client)
    <2>1. x.form # "blank"
        BY <1>b, <1>1
    <2>2. PICK t \in NormalizeSelectors(set) : x.form = t.form /\ x.of = t.of /\ x.long = t.long
        BY <2>1, Normalised
    <2> QED
        BY <1>b, <2>2, <1>1
<1> QED
    BY <1>a, <1>b

-----------------------------------------------------------------------------
(* The settings in force.                                                  *)

\* What the table and the runtime whitelist have are the texts in force,
\* normalised, and what is matched is made of these and of tdns.yaml.  The
\* configured selectors of the cache are out of use from a replacement until the
\* next start.
SelectorsInv ==
    /\ configured \in [cache : Lists, blacklist : Lists]
    /\ submitted \in [cache : SUBSET Texts, blacklist : SUBSET Texts, runtime : SUBSET Texts]
    /\ replaced \in BOOLEAN
    /\ rows = [cache |-> NormalizeSelectors(submitted.cache),
               blacklist |-> NormalizeSelectors(submitted.blacklist)]
    /\ runtimeList = NormalizeSelectorValues(submitted.runtime)
    /\ rules = [cache |-> ReplaceExcludes((IF replaced THEN {} ELSE configured.cache)
                                          \cup NormalizeSelectors(submitted.cache)),
                blacklist |-> ParseSelectors(NormalizeSelectorValues(configured.blacklist)
                                \cup NormalizeSelectorValues(NormalizeSelectors(submitted.blacklist))),
                runtime |-> ParseSelectors(NormalizeSelectorValues(submitted.runtime))]

LEMMA SelectorsInitial == SelectorsInit => SelectorsInv
<1> SUFFICES ASSUME SelectorsInit PROVE SelectorsInv
    OBVIOUS
<1>1. NormalizeSelectors({}) = {} /\ NormalizeSelectorValues({}) = {}
    BY DEF NormalizeSelectors, NormalizeSelectorValues, NotBlank
<1>2. /\ configured.cache \cup {} = configured.cache
      /\ NormalizeSelectorValues(configured.blacklist) \cup {} = NormalizeSelectorValues(configured.blacklist)
    OBVIOUS
<1> QED
    BY <1>1, <1>2 DEF SelectorsInit, SelectorsInv

LEMMA SelectorsStep == SelectorsInv /\ [SelectorsNext]_selectorVars => SelectorsInv'
<1> SUFFICES ASSUME SelectorsInv, [SelectorsNext]_selectorVars PROVE SelectorsInv'
    OBVIOUS
<1> USE DEF SelectorsInv
<1>1. /\ NormalizeSelectors(NormalizeSelectors(submitted.cache)) = NormalizeSelectors(submitted.cache)
      /\ NormalizeSelectors(NormalizeSelectors(submitted.blacklist)) = NormalizeSelectors(submitted.blacklist)
    BY NormalisedTwice, TextsTyped
<1>2. \A list \in Lists : list \in SUBSET Texts
    BY TextsTyped
<1>3. CASE UNCHANGED selectorVars
    BY <1>3 DEF selectorVars
<1>4. CASE RestartServer
    <2>1. NormalizeSelectorValues({}) = {}
        BY DEF NormalizeSelectorValues, NotBlank
    <2>2. /\ submitted'.cache = submitted.cache /\ submitted'.blacklist = submitted.blacklist
          /\ submitted'.runtime = {} /\ replaced' = FALSE
          /\ submitted' \in [cache : SUBSET Texts, blacklist : SUBSET Texts, runtime : SUBSET Texts]
          /\ UNCHANGED <<configured, rows>>
        BY <1>4 DEF RestartServer
    <2>3. /\ rows.cache = NormalizeSelectors(submitted.cache)
          /\ rows.blacklist = NormalizeSelectors(submitted.blacklist)
        OBVIOUS
    <2>4. /\ runtimeList' = {}
          /\ rules' = [cache |-> ReplaceExcludes(configured.cache \cup NormalizeSelectors(submitted.cache)),
                       blacklist |-> ParseSelectors(NormalizeSelectorValues(configured.blacklist)
                            \cup NormalizeSelectorValues(NormalizeSelectors(submitted.blacklist))),
                       runtime |-> ParseSelectors({})]
        BY <1>1, <1>4, <2>3 DEF RestartServer, RulesAtStart
    <2> QED
        BY <2>1, <2>2, <2>4
<1>5. ASSUME NEW set \in Lists, CacheReplaceExcludes(set) PROVE SelectorsInv'
    <2>1. /\ UNCHANGED <<configured, runtimeList>> /\ replaced' = TRUE
          /\ rows' = [rows EXCEPT !.cache = NormalizeSelectors(set)]
          /\ rules' = [rules EXCEPT !.cache = ReplaceExcludes(NormalizeSelectors(set))]
          /\ submitted' = [submitted EXCEPT !.cache = set]
        BY <1>5 DEF CacheReplaceExcludes
    <2>2. /\ submitted'.cache = set /\ submitted'.blacklist = submitted.blacklist
          /\ submitted'.runtime = submitted.runtime
          /\ submitted' \in [cache : SUBSET Texts, blacklist : SUBSET Texts, runtime : SUBSET Texts]
        BY <1>2, <2>1
    <2>3. {} \cup NormalizeSelectors(set) = NormalizeSelectors(set)
        OBVIOUS
    <2> QED
        BY <2>1, <2>2, <2>3
<1>6. ASSUME NEW set \in Lists, ReplacePersistedExcludes(set) PROVE SelectorsInv'
    <2>1. /\ UNCHANGED <<configured, runtimeList, replaced>>
          /\ rows' = [rows EXCEPT !.blacklist = NormalizeSelectors(set)]
          /\ rules' = [rules EXCEPT !.blacklist = ParseSelectors(
                          NormalizeSelectorValues(configured.blacklist)
                          \cup NormalizeSelectorValues(NormalizeSelectors(set)))]
          /\ submitted' = [submitted EXCEPT !.blacklist = set]
        BY <1>6 DEF ReplacePersistedExcludes
    <2>2. /\ submitted'.cache = submitted.cache /\ submitted'.blacklist = set
          /\ submitted'.runtime = submitted.runtime
          /\ submitted' \in [cache : SUBSET Texts, blacklist : SUBSET Texts, runtime : SUBSET Texts]
        BY <1>2, <2>1
    <2> QED
        BY <2>1, <2>2
<1>7. ASSUME NEW set \in Lists, AddRuntimeWhitelist(set) PROVE SelectorsInv'
    <2>1. /\ UNCHANGED <<configured, rows, replaced>>
          /\ runtimeList' = runtimeList \cup NormalizeSelectorValues(set)
          /\ rules' = [rules EXCEPT !.runtime = ParseSelectors(runtimeList')]
          /\ submitted' = [submitted EXCEPT !.runtime = submitted.runtime \cup set]
        BY <1>7 DEF AddRuntimeWhitelist
    <2>2. /\ submitted'.cache = submitted.cache /\ submitted'.blacklist = submitted.blacklist
          /\ submitted'.runtime = submitted.runtime \cup set
          /\ submitted' \in [cache : SUBSET Texts, blacklist : SUBSET Texts, runtime : SUBSET Texts]
        BY <1>2, <2>1
    <2>3. NormalizeSelectorValues(submitted.runtime \cup set)
            = NormalizeSelectorValues(submitted.runtime) \cup NormalizeSelectorValues(set)
        BY DEF NormalizeSelectorValues, NotBlank
    <2> QED
        BY <2>1, <2>2, <2>3
<1> QED
    BY <1>3, <1>4, <1>5, <1>6, <1>7 DEF SelectorsNext

\* What the documentation says of a text, and what the code makes of it.
LEMMA NamedAndMatched ==
    ASSUME NEW t \in AnyText, NEW client, NEW host
    PROVE  /\ NamesClient(t, client) /\ ~Capital(t) /\ ~OddAddress(t) =>
                MatchedClient([text |-> t, folded |-> TRUE], client)
           /\ MatchedClient([text |-> t, folded |-> TRUE], client) => NamesClient(Lower(t), client)
           /\ NamesQuestion(t, client, host) <=> MatchedQuestion([text |-> t, folded |-> FALSE], client, host)
           /\ NamesQuestion(t, client, host) /\ ~Capital(t) =>
                MatchedQuestion([text |-> t, folded |-> TRUE], client, host)
           /\ MatchedQuestion([text |-> t, folded |-> TRUE], client, host) =>
                NamesQuestion(Lower(t), client, host)
<1>1. /\ t.upper \in BOOLEAN /\ t.long \in BOOLEAN
      /\ Lower(t).form = t.form /\ Lower(t).of = t.of /\ Lower(t).upper = FALSE
    BY DEF AnyText, Lower
<1>2. /\ (t.upper /\ ~FALSE) = t.upper /\ (t.upper /\ ~TRUE) = FALSE
      /\ t.form = "label" /\ ~Capital(t) => t.upper = FALSE
    BY <1>1 DEF Capital
<1>3. /\ MatchedLabel([text |-> t, folded |-> TRUE], client) <=>
            t.form = "label" /\ [of |-> t.of, upper |-> FALSE] \in client.labels
      /\ MatchedLabel([text |-> t, folded |-> FALSE], client) <=> NamesLabel(t, client)
    BY <1>2 DEF MatchedLabel, NamesLabel
<1>4. /\ NamesLabel(Lower(t), client) <=>
            t.form = "label" /\ [of |-> t.of, upper |-> FALSE] \in client.labels
      /\ NamesLabel(t, client) /\ ~Capital(t) => MatchedLabel([text |-> t, folded |-> TRUE], client)
    BY <1>1, <1>2, <1>3 DEF NamesLabel
<1>5. NamesClient(t, client) /\ ~Capital(t) /\ ~OddAddress(t) =>
        MatchedClient([text |-> t, folded |-> TRUE], client)
    BY <1>4 DEF NamesClient, MatchedClient, OddAddress
<1>6. MatchedClient([text |-> t, folded |-> TRUE], client) => NamesClient(Lower(t), client)
    BY <1>1, <1>3, <1>4 DEF NamesClient, MatchedClient
<1>7. NamesQuestion(t, client, host) <=> MatchedQuestion([text |-> t, folded |-> FALSE], client, host)
    BY <1>3 DEF NamesQuestion, MatchedQuestion
<1>8. NamesQuestion(t, client, host) /\ ~Capital(t) =>
        MatchedQuestion([text |-> t, folded |-> TRUE], client, host)
    BY <1>4 DEF NamesQuestion, MatchedQuestion
<1>9. MatchedQuestion([text |-> t, folded |-> TRUE], client, host) => NamesQuestion(Lower(t), client, host)
    BY <1>1, <1>3, <1>4 DEF NamesQuestion, MatchedQuestion
<1> QED
    BY <1>5, <1>6, <1>7, <1>8, <1>9

\* However often a text is normalised, stored and read back at a start, the clients
\* and the questions that it names are passed over by cache and blacklist, and no
\* others, but for labels with capitals, oddly written addresses, and the cache's
\* configured texts between a replacement and the next start.
THEOREM SelectorsAreRight == SelectorsSpec => []SelectorsRight
<1>0. SelectorsInv =>
        /\ configured.cache \in SUBSET AnyText /\ configured.blacklist \in SUBSET AnyText
        /\ submitted.cache \in SUBSET AnyText /\ submitted.blacklist \in SUBSET AnyText
        /\ submitted.runtime \in SUBSET AnyText
    BY TextsTyped DEF SelectorsInv
<1>1. ASSUME SelectorsInv, NEW client \in Askers
      PROVE  /\ \A t \in configured.cache \cup submitted.cache :
                  ( /\ NamesClient(t, client)
                    /\ ~Capital(t) /\ ~OddAddress(t)
                    /\ replaced => t \in submitted.cache ) => ShouldBypass(client)
             /\ ShouldBypass(client) =>
                  \E t \in configured.cache \cup submitted.cache : NamesClient(Lower(t), client)
    <2> DEFINE C == submitted.cache
               K == IF replaced THEN {} ELSE configured.cache
               Matched(t) == MatchedClient([text |-> t, folded |-> TRUE], client)
    <2>1. /\ C \in SUBSET AnyText /\ K \in SUBSET AnyText /\ K \subseteq configured.cache
          /\ NormalizeSelectors(C) \in SUBSET AnyText
          /\ \A t \in configured.cache \cup C : t \in AnyText
          /\ ~replaced => K = configured.cache
        BY <1>0, <1>1, Normalised
    <2>2. rules.cache = ReplaceExcludes(K \cup NormalizeSelectors(C))
        BY <1>1 DEF SelectorsInv
    <2>3. ShouldBypass(client) <=> Bypassed(rules.cache, client)
        BY DEF ShouldBypass, Bypassed
    <2>4. (\E t \in NormalizeSelectors(C) : Matched(t)) <=> \E t \in C : Matched(t)
        BY <2>1, NamedInCache
    <2> HIDE DEF C, K
    <2>5. K \cup NormalizeSelectors(C) \in SUBSET AnyText
        BY <2>1
    <2>6. Bypassed(rules.cache, client) <=> \E t \in K \cup NormalizeSelectors(C) : Matched(t)
        BY <2>2, <2>5, BypassedByTexts
    <2>7. \A t \in configured.cache \cup C :
            /\ NamesClient(t, client) /\ ~Capital(t) /\ ~OddAddress(t) => Matched(t)
            /\ Matched(t) => NamesClient(Lower(t), client)
        BY <2>1, NamedAndMatched
    <2> HIDE DEF Matched
    <2>8. ShouldBypass(client) <=> \E t \in K \cup C : Matched(t)
        BY <2>3, <2>4, <2>6
    <2> QED
        BY <2>1, <2>7, <2>8 DEF C
<1>2. ASSUME SelectorsInv, NEW client \in Askers, NEW host \in Hosts
      PROVE  /\ \A t \in configured.blacklist \cup submitted.runtime :
                  NamesQuestion(t, client, host) => Whitelisted(client, host)
             /\ \A t \in submitted.blacklist :
                  NamesQuestion(t, client, host) /\ ~Capital(t) => Whitelisted(client, host)
             /\ Whitelisted(client, host) =>
                  \/ \E t \in configured.blacklist \cup submitted.runtime : NamesQuestion(t, client, host)
                  \/ \E t \in submitted.blacklist : NamesQuestion(Lower(t), client, host)
    <2> DEFINE B == submitted.blacklist
               R == submitted.runtime
               S == NormalizeSelectors(B)
               V == NormalizeSelectorValues(configured.blacklist)
               W == NormalizeSelectorValues(S)
               X == NormalizeSelectorValues(R)
               Matched(t, folded) == MatchedQuestion([text |-> t, folded |-> folded], client, host)
    <2>1. /\ B \in SUBSET AnyText /\ R \in SUBSET AnyText /\ S \in SUBSET AnyText
          /\ configured.blacklist \in SUBSET AnyText
        BY <1>0, <1>2, Normalised
    <2>2. V \cup W \in SUBSET AnyText /\ X \in SUBSET AnyText
        BY <2>1, ValuesNormalised
    <2>3. rules.blacklist = ParseSelectors(V \cup W) /\ rules.runtime = ParseSelectors(X)
        BY <1>2 DEF SelectorsInv
    <2>4. Whitelisted(client, host) <=>
            LetThrough(rules.blacklist, client, host) \/ LetThrough(rules.runtime, client, host)
        BY DEF Whitelisted, LetThrough
    <2>5. /\ (\E t \in V : Matched(t, FALSE)) <=> \E t \in configured.blacklist : Matched(t, FALSE)
          /\ (\E t \in W : Matched(t, FALSE)) <=> \E t \in S : Matched(t, FALSE)
          /\ (\E t \in X : Matched(t, FALSE)) <=> \E t \in R : Matched(t, FALSE)
        BY <2>1, NamedByValues
    <2>6. (\E t \in S : Matched(t, FALSE)) <=> \E t \in B : Matched(t, TRUE)
        BY <2>1, NamedByStored
    <2> HIDE DEF B, R, S, V, W, X
    <2>7. /\ LetThrough(rules.blacklist, client, host) <=> \E t \in V \cup W : Matched(t, FALSE)
          /\ LetThrough(rules.runtime, client, host) <=> \E t \in X : Matched(t, FALSE)
        BY <2>2, <2>3, LetThroughByTexts
    <2>8. /\ \A t \in configured.blacklist \cup R : NamesQuestion(t, client, host) <=> Matched(t, FALSE)
          /\ \A t \in B : NamesQuestion(t, client, host) /\ ~Capital(t) => Matched(t, TRUE)
          /\ \A t \in B : Matched(t, TRUE) => NamesQuestion(Lower(t), client, host)
        BY <2>1, NamedAndMatched
    <2> HIDE DEF Matched
    <2>9. Whitelisted(client, host) <=>
            \/ \E t \in configured.blacklist \cup R : Matched(t, FALSE)
            \/ \E t \in B : Matched(t, TRUE)
        BY <2>4, <2>5, <2>6, <2>7
    <2> QED
        BY <2>8, <2>9 DEF B, R
<1>3. SelectorsInv => SelectorsRight
    BY <1>1, <1>2 DEF SelectorsRight
<1> QED
    BY <1>3, SelectorsInitial, SelectorsStep, PTL DEF SelectorsSpec

-----------------------------------------------------------------------------
(* Cache: for any responses and lifetimes, any number of readers, any      *)
(* fraction of a second and any setting back of the clock.                 *)

\* An entry was made of a response that may be cached, with the second that the
\* clock showed then; it has been set back since by some seconds at most.
Sound(e) ==
    /\ e.from \in Responses /\ Cacheable(e.from.answer)
    /\ e.answer = CapTTLs(e.from.answer)
    /\ e.born \in Nat /\ e.cachedAt \in Int
    /\ Fraction * e.cachedAt <= e.born

\* A list of lifetimes.
Lives(ttls) == Len(ttls) \in Nat /\ \A i \in 1..Len(ttls) : ttls[i] \in Nat

\* The property, of one hit, for clocks that were set back by b seconds.
HitRight(h, b) ==
    /\ Len(h.answer) = Len(h.entry.from.answer)
    /\ \A i \in 1..Len(h.answer) :
         /\ h.answer[i] > 0
         /\ Ttl > 0 => h.answer[i] <= Ttl
         /\ h.at + Fraction * h.answer[i] <
              h.entry.born + Fraction * (h.entry.from.answer[i] + 1 + b)

CacheEntryInv ==
    /\ real \in Nat /\ back \in Nat
    /\ pc \in [Readers -> {"idle", "got", "delete"}]
    /\ raw = [r \in Readers |-> raw[r]]
    /\ entry # NoEntry => Sound(entry)
    /\ \A r \in Readers : pc[r] = "got" => Sound(raw[r])

\* What is served was right when it was, and a clock that is set back again gives
\* the client more time only.
ServedInv ==
    served # NoEntry =>
        /\ served.at \in Nat /\ served.entry.born \in Nat
        /\ Lives(served.entry.from.answer) /\ Lives(served.answer)
        /\ HitRight(served, back)

CacheLifeInv == CacheEntryInv /\ ServedInv

LEMMA CacheNumbers ==
    /\ Fraction \in Nat /\ Fraction > 0 /\ Ttl \in Nat /\ MaxSec \in Nat /\ MaxBack \in Nat
    /\ \A m \in Responses : Lives(m.answer)
<1>1. Lifetimes \subseteq Nat
    BY CacheAssumption DEF CacheAssumption, Lifetimes
<1>2. \A m \in Responses : m.answer \in Seq(Lifetimes)
    BY CacheAssumption DEF CacheAssumption, Sections
<1>3. \A s \in Seq(Lifetimes) : Len(s) \in Nat /\ \A i \in 1..Len(s) : s[i] \in Lifetimes
    OBVIOUS
<1>4. ASSUME NEW m \in Responses PROVE Lives(m.answer)
    <2>1. m.answer \in Seq(Lifetimes)
        BY <1>2
    <2>2. Len(m.answer) \in Nat /\ \A i \in 1..Len(m.answer) : m.answer[i] \in Lifetimes
        BY <1>3, <2>1
    <2> QED
        BY <1>1, <2>2 DEF Lives
<1> QED
    BY <1>4, CacheAssumption DEF CacheAssumption

\* The running second, for any number of ticks in it.
LEMMA WholeSeconds ==
    ASSUME NEW t \in Nat, NEW f \in Nat, f > 0
    PROVE  t \div f \in Nat /\ f * (t \div f) <= t /\ t < f * (t \div f) + f
OBVIOUS

LEMMA Linear ==
    ASSUME NEW f \in Int, NEW a \in Int, NEW b \in Int
    PROVE  /\ f * (a + b) = f * a + f * b
           /\ f * (a - b) = f * a - f * b
           /\ f * 1 = f /\ f * a \in Int
OBVIOUS

LEMMA Monotone ==
    ASSUME NEW f \in Nat, NEW a \in Int, NEW b \in Int, a <= b
    PROVE  f * a <= f * b
OBVIOUS

\* capSectionTTLs.
LEMMA Capped ==
    ASSUME NEW ttls, Lives(ttls)
    PROVE  /\ Lives(CapTTLs(ttls)) /\ Len(CapTTLs(ttls)) = Len(ttls)
           /\ \A i \in 1..Len(ttls) :
                /\ CapTTLs(ttls)[i] <= ttls[i]
                /\ Ttl > 0 => CapTTLs(ttls)[i] <= Ttl
                /\ ttls[i] > 0 => CapTTLs(ttls)[i] > 0
<1>1. \A i \in 1..Len(ttls) :
        CapTTLs(ttls)[i] = IF Ttl > 0 /\ ttls[i] > Ttl THEN Ttl ELSE ttls[i]
    BY DEF CapTTLs
<1>2. Len(CapTTLs(ttls)) = Len(ttls)
    BY DEF CapTTLs, Lives
<1> QED
    BY <1>1, <1>2, CacheNumbers DEF Lives

\* An entry that is stored now.
LEMMA StoredSound ==
    ASSUME CacheEntryInv, NEW m \in Responses, Cacheable(m.answer),
           entry' = [cachedAt |-> Second, answer |-> CapTTLs(m.answer),
                     other |-> CapTTLs(m.other), born |-> real, from |-> m]
    PROVE  Sound(entry')
<1>1. Second \in Int /\ Fraction * Second <= real
    <2>1. real \div Fraction \in Nat /\ Fraction * (real \div Fraction) <= real
        BY WholeSeconds, CacheNumbers DEF CacheEntryInv
    <2>2. Second \in Int /\ Second <= real \div Fraction
        BY <2>1 DEF Second, CacheEntryInv
    <2>3. Fraction * Second <= Fraction * (real \div Fraction)
        BY <2>1, <2>2, Monotone, CacheNumbers
    <2>4. Fraction * Second \in Int /\ Fraction * (real \div Fraction) \in Int
        BY <2>1, <2>2, Linear, CacheNumbers
    <2> QED
        BY <2>1, <2>2, <2>3, <2>4 DEF CacheEntryInv
<1> QED
    BY <1>1 DEF Sound, CacheEntryInv

\* The life that is left of a record when the clock has moved since it was stored:
\* x is the time off, k the cached life, n the upstream's.
LEMMA LifeLeft ==
    ASSUME NEW f \in Nat, f > 0, NEW t \in Nat, NEW b \in Nat, NEW c \in Int, NEW born \in Nat,
           f * c <= born, NEW k \in Nat, NEW n \in Nat, k <= n,
           NEW x \in Int, x = (t \div f) - b - c
    PROVE  t + f * (k - x) < born + f * (n + 1 + b)
<1> DEFINE s == t \div f
<1>1. s \in Nat /\ f * s <= t /\ t < f * s + f
    BY WholeSeconds
<1> HIDE DEF s
<1>2. x = s - b - c
    BY DEF s
<1>3. f * (k - x) = f * k - f * s + f * b + f * c
    <2>1. k - x = (k - s) + (b + c)
        BY <1>1, <1>2
    <2> QED
        BY <1>1, <2>1, Linear
<1>4. f * (n + 1 + b) = f * n + f + f * b
    BY Linear
<1>5. f * k <= f * n
    BY Monotone
<1>6. f * k \in Int /\ f * n \in Int /\ f * s \in Int /\ f * b \in Int /\ f * c \in Int
    BY <1>1, Linear
<1> QED
    BY <1>1, <1>3, <1>4, <1>5, <1>6

\* A clock that shows the time of the entry or an earlier one.
LEMMA LifeWhole ==
    ASSUME NEW f \in Nat, f > 0, NEW t \in Nat, NEW b \in Nat, NEW c \in Int, NEW born \in Nat,
           f * c <= born, NEW k \in Nat, NEW n \in Nat, k <= n, ~(t - f * b > f * c)
    PROVE  t + f * k < born + f * (n + 1 + b)
<1>1. f * (n + 1 + b) = f * n + f + f * b
    BY Linear
<1>2. f * k <= f * n
    BY Monotone
<1>3. f * k \in Int /\ f * n \in Int /\ f * b \in Int /\ f * c \in Int
    BY Linear
<1> QED
    BY <1>1, <1>2, <1>3

\* The age of an entry is not negative once the clock is behind it.
LEMMA AgeNatural ==
    ASSUME NEW f \in Nat, f > 0, NEW t \in Nat, NEW b \in Nat, NEW c \in Int, t - f * b > f * c
    PROVE  (t \div f) - b - c >= 0
<1> DEFINE s == t \div f
<1>1. s \in Nat /\ t < f * s + f
    BY WholeSeconds
<1> HIDE DEF s
<1>2. SUFFICES ASSUME s - b - c < 0 PROVE FALSE
    BY <1>1 DEF s
<1>3. s + 1 <= b + c
    BY <1>1, <1>2
<1>4. f * (s + 1) <= f * (b + c)
    BY <1>1, <1>3, Monotone
<1>5. f * (s + 1) = f * s + f /\ f * (b + c) = f * b + f * c
    BY <1>1, Linear
<1>6. f * s \in Int /\ f * b \in Int /\ f * c \in Int
    BY <1>1, Linear
<1> QED
    BY <1>1, <1>4, <1>5, <1>6

LEMMA CacheLifeInitial == Init => CacheLifeInv
BY DEF Init, CacheLifeInv, CacheEntryInv, ServedInv

\* A hit.
LEMMA ServeRight ==
    ASSUME CacheEntryInv, NEW r \in Readers, Serve(r)
    PROVE  ServedInv'
<1> DEFINE e == raw[r]
           off == IF Started(e) THEN Elapsed(e) ELSE 0
<1>1. /\ Sound(e)
      /\ Started(e) => AllAlive(e)
      /\ back' = back /\ real \in Nat /\ back \in Nat
      /\ served' = [at |-> real,
                    answer |-> IF Started(e) THEN Reduced(e.answer, off) ELSE e.answer,
                    other |-> IF Started(e) THEN Adjusted(e.other, off) ELSE e.other,
                    entry |-> e]
    BY DEF Serve, CacheEntryInv
<1> HIDE DEF e, off
<1>2. Lives(e.from.answer) /\ \A i \in 1..Len(e.from.answer) : e.from.answer[i] > 0
    BY <1>1, CacheNumbers DEF Sound, Cacheable
<1>3. /\ Lives(e.answer) /\ Len(e.answer) = Len(e.from.answer)
      /\ \A i \in 1..Len(e.answer) :
           /\ e.answer[i] <= e.from.answer[i] /\ e.answer[i] > 0
           /\ Ttl > 0 => e.answer[i] <= Ttl
    BY <1>1, <1>2, Capped DEF Sound
<1>4. e.born \in Nat /\ e.cachedAt \in Int /\ Fraction * e.cachedAt <= e.born
    BY <1>1 DEF Sound
<1>5. CASE ~Started(e)
    <2>1. served'.at = real /\ served'.answer = e.answer /\ served'.entry = e
        BY <1>1, <1>5
    <2>2. ~(real - Fraction * back > Fraction * e.cachedAt)
        BY <1>5 DEF Started
    <2>3. \A i \in 1..Len(e.answer) :
            real + Fraction * e.answer[i] < e.born + Fraction * (e.from.answer[i] + 1 + back)
        BY <1>1, <1>2, <1>3, <1>4, <2>2, LifeWhole, CacheNumbers DEF Lives
    <2>4. HitRight(served', back)
        BY <1>3, <2>1, <2>3 DEF HitRight
    <2> QED
        BY <1>1, <1>2, <1>3, <1>4, <2>1, <2>4 DEF ServedInv, HitRight
<1>6. CASE Started(e)
    <2>1. off = real \div Fraction - back - e.cachedAt
        BY <1>6 DEF off, Elapsed, Second
    <2>2. real \div Fraction \in Nat /\ off \in Int /\ off >= 0
        BY <1>1, <1>4, <1>6, <2>1, WholeSeconds, AgeNatural, CacheNumbers DEF Started
    <2>3. \A i \in 1..Len(e.answer) : e.answer[i] > off
        BY <1>1, <1>6 DEF off, AllAlive
    <2>4. served'.at = real /\ served'.answer = Reduced(e.answer, off) /\ served'.entry = e
        BY <1>1, <1>6
    <2>5. /\ Len(Reduced(e.answer, off)) = Len(e.answer)
          /\ \A i \in 1..Len(e.answer) : Reduced(e.answer, off)[i] = e.answer[i] - off
        BY <1>3 DEF Reduced, Lives
    <2>6. \A i \in 1..Len(e.answer) :
            /\ e.answer[i] - off \in Nat /\ e.answer[i] - off > 0
            /\ Ttl > 0 => e.answer[i] - off <= Ttl
        BY <1>3, <2>2, <2>3, CacheNumbers DEF Lives
    <2>7. \A i \in 1..Len(e.answer) :
            real + Fraction * (e.answer[i] - off) < e.born + Fraction * (e.from.answer[i] + 1 + back)
        BY <1>1, <1>2, <1>3, <1>4, <2>1, <2>2, LifeLeft, CacheNumbers DEF Lives
    <2>8. HitRight(served', back)
        BY <1>3, <2>4, <2>5, <2>6, <2>7 DEF HitRight
    <2>9. Lives(served'.answer)
        BY <1>3, <2>4, <2>5, <2>6 DEF Lives
    <2> QED
        BY <1>1, <1>2, <1>4, <2>4, <2>8, <2>9 DEF ServedInv, HitRight
<1> QED
    BY <1>5, <1>6

\* The clock is set back: what was served before stays right.
LEMMA SetBackRight ==
    ASSUME CacheEntryInv, ServedInv, SetBack
    PROVE  ServedInv'
<1>1. back' = back + 1 /\ served' = served /\ back \in Nat
    BY DEF SetBack, CacheEntryInv
<1> SUFFICES ASSUME served # NoEntry PROVE HitRight(served, back + 1)
    BY <1>1 DEF ServedInv, HitRight
<1>2. /\ HitRight(served, back) /\ Lives(served.answer) /\ Lives(served.entry.from.answer)
      /\ served.at \in Nat /\ served.entry.born \in Nat
    BY DEF ServedInv
<1>3. ASSUME NEW i \in 1..Len(served.answer)
      PROVE  served.at + Fraction * served.answer[i] <
               served.entry.born + Fraction * (served.entry.from.answer[i] + 1 + (back + 1))
    <2> DEFINE n == served.entry.from.answer[i]
               k == served.answer[i]
    <2>1. n \in Nat /\ k \in Nat
          /\ served.at + Fraction * k < served.entry.born + Fraction * (n + 1 + back)
        BY <1>2, <1>3 DEF HitRight, Lives
    <2> HIDE DEF n, k
    <2>2. Fraction * (n + 1 + (back + 1)) = Fraction * (n + 1 + back) + Fraction
        BY <1>1, <2>1, Linear, CacheNumbers
    <2>3. Fraction * k \in Int /\ Fraction * (n + 1 + back) \in Int
        BY <1>1, <2>1, Linear, CacheNumbers
    <2>4. served.at + Fraction * k < served.entry.born + Fraction * (n + 1 + (back + 1))
        BY <1>2, <2>1, <2>2, <2>3, CacheNumbers
    <2> QED
        BY <2>4 DEF n, k
<1> QED
    BY <1>2, <1>3 DEF HitRight

LEMMA CacheLifeStep == CacheLifeInv /\ [Next]_vars => CacheLifeInv'
<1> SUFFICES ASSUME CacheEntryInv, ServedInv, [Next]_vars PROVE CacheEntryInv' /\ ServedInv'
    BY DEF CacheLifeInv
<1>0. served' = served /\ back' = back => ServedInv'
    BY DEF ServedInv, HitRight
<1>1. CASE UNCHANGED vars
    BY <1>0, <1>1 DEF vars, CacheEntryInv
<1>2. CASE Tick
    BY <1>0, <1>2 DEF Tick, CacheEntryInv
<1>3. CASE SetBack
    BY <1>3, SetBackRight DEF SetBack, CacheEntryInv
<1>4. CASE Set
    <2>1. Sound(entry')
        BY <1>4, StoredSound DEF Set
    <2> QED
        BY <1>0, <1>4, <2>1 DEF Set, CacheEntryInv
<1>5. CASE Clear
    BY <1>0, <1>5 DEF Clear, CacheEntryInv
<1>6. ASSUME NEW r \in Readers, Get(r) PROVE CacheEntryInv' /\ ServedInv'
    <2>1. \A x \in Readers : pc'[x] = "got" => Sound(raw'[x])
        BY <1>6 DEF Get, CacheEntryInv
    <2> QED
        BY <1>0, <1>6, <2>1 DEF Get, CacheEntryInv
<1>7. ASSUME NEW r \in Readers, Serve(r) PROVE CacheEntryInv' /\ ServedInv'
    <2>1. \A x \in Readers : pc'[x] = "got" => Sound(raw'[x])
        BY <1>7 DEF Serve, CacheEntryInv
    <2> QED
        BY <1>7, <2>1, ServeRight DEF Serve, CacheEntryInv
<1>8. ASSUME NEW r \in Readers, Expired(r) PROVE CacheEntryInv' /\ ServedInv'
    <2>1. \A x \in Readers : pc'[x] = "got" => Sound(raw'[x])
        BY <1>8 DEF Expired, CacheEntryInv
    <2> QED
        BY <1>0, <1>8, <2>1 DEF Expired, CacheEntryInv
<1>9. ASSUME NEW r \in Readers, Delete(r) PROVE CacheEntryInv' /\ ServedInv'
    <2>1. \A x \in Readers : pc'[x] = "got" => Sound(raw'[x])
        BY <1>9 DEF Delete, CacheEntryInv
    <2> QED
        BY <1>0, <1>9, <2>1 DEF Delete, CacheEntryInv
<1> QED
    BY <1>1, <1>2, <1>3, <1>4, <1>5, <1>6, <1>7, <1>8, <1>9 DEF Next

\* A hit of the cache has every record of the upstream's answer with some life left,
\* none above cache.ttl, and a client that keeps it lets go of it less than a second
\* after the upstream's lifetime is over, or later by what the clock was set back:
\* however readers, writers, evictions and corrections of the clock interleave.
THEOREM HitsAreWholeAndFresh == Spec => []HitsWholeAndFresh
<1>1. CacheLifeInv => HitsWholeAndFresh
    BY DEF CacheLifeInv, ServedInv, HitRight, HitsWholeAndFresh, Hits
<1> QED
    BY <1>1, CacheLifeInitial, CacheLifeStep, PTL DEF Spec

-----------------------------------------------------------------------------
(* Limiters: for any clients and names, any rates, bursts and limits.      *)

LEMMA LimiterNumbers ==
    /\ Rate \in Nat /\ Burst \in Nat /\ MaxEntries \in Nat /\ Idle \in Nat /\ AllBurst \in Nat
    /\ Rate > 0 /\ Burst > 0 /\ MaxEntries > 0 /\ Idle > 0 /\ AllBurst > 0
    /\ MaxSkew \in Nat /\ MaxTime \in Nat /\ Times \subseteq Nat
    /\ \A x \in Times : x \in Int /\ x \in Nat
BY LimiterAssumption DEF LimiterAssumption, NewPolicy, Times

LEMMA LargerOfTwo ==
    ASSUME NEW a \in Int, NEW b \in Int
    PROVE  Max({a, b}) = IF a >= b THEN a ELSE b
BY DEF Max

LEMMA SmallerOfTwo ==
    ASSUME NEW a \in Int, NEW b \in Int
    PROVE  Min({a, b}) = IF a <= b THEN a ELSE b
BY DEF Min

\* A bounded set of numbers has a greatest one.
LEMMA Greatest ==
    ASSUME NEW n \in Nat, NEW S \in SUBSET (0..n), S # {}
    PROVE  Max(S) \in S /\ \A y \in S : Max(S) >= y
<1> DEFINE T == {n - i : i \in S}
<1>1. T \subseteq Nat /\ T # {}
    <2>1. \A i \in S : i \in Int /\ n - i \in Nat
        OBVIOUS
    <2> QED
        BY <2>1
<1>2. PICK x \in T : \A y \in T : ~(<<y, x>> \in OpToRel(<, Nat))
    BY <1>1, WFMin, NatLessThanWellFounded
<1>3. ASSUME NEW y \in T PROVE x <= y
    <2>1. x \in Nat /\ y \in Nat
        BY <1>1, <1>2
    <2>2. ~(<<y, x>> \in {p \in Nat \X Nat : p[1] < p[2]})
        BY <1>2 DEF OpToRel
    <2> HIDE DEF T
    <2> QED
        BY <2>1, <2>2
<1>4. PICK m \in S : x = n - m
    BY <1>2
<1>5. \A y \in S : m >= y
    <2>1. SUFFICES ASSUME NEW y \in S PROVE m >= y
        OBVIOUS
    <2>2. x <= n - y
        BY <1>3
    <2> QED
        BY <2>2, <1>4
<1> QED
    BY <1>5 DEF Max

-----------------------------------------------------------------------------
(* A table of buckets.                                                     *)

TableEntry(K) == [key : K, tokens : 0..Burst, last : Times, lastSeen : Times]

\* A table of the limiters, when the clock shows n.  Entries are in the order of
\* the mutex, so that one is not much older than those behind it.
Table(K, list, n) ==
    /\ list \in Seq(TableEntry(K))
    /\ Len(list) <= MaxEntries
    /\ \A i, j \in 1..Len(list) : i # j => list[i].key # list[j].key
    /\ \A i \in 1..Len(list) : list[i].lastSeen <= n
    /\ \A i, j \in 1..Len(list) : i < j => list[i].lastSeen >= list[j].lastSeen - MaxSkew

LEMMA EntryNumbers ==
    ASSUME NEW K, NEW e \in TableEntry(K)
    PROVE  /\ e.key \in K /\ e.tokens \in 0..Burst /\ e.last \in Times /\ e.lastSeen \in Times
           /\ e.tokens \in Int /\ e.last \in Int /\ e.lastSeen \in Int
<1>1. e.key \in K /\ e.tokens \in 0..Burst /\ e.last \in Times /\ e.lastSeen \in Times
    BY DEF TableEntry
<1>2. e.tokens \in Int
    BY <1>1
<1>3. \A x \in Times : x \in Int
    BY LimiterNumbers
<1> QED
    BY <1>1, <1>2, <1>3

\* removeExpired keeps a front part of the table, to the last entry in use.
LEMMA ExpiredRemoved ==
    ASSUME NEW K, NEW list \in Seq(TableEntry(K)), NEW t \in Times
    PROVE  \E m \in 0..Len(list) :
             /\ RemoveExpired(list, t) = SubSeq(list, 1, m)
             /\ m > 0 => t - list[m].lastSeen < Idle
             /\ \A i \in (m + 1)..Len(list) : t - list[i].lastSeen >= Idle
<1> DEFINE live == {i \in 1..Len(list) : t - list[i].lastSeen < Idle}
           m == Max(live \cup {0})
<1>1. Len(list) \in Nat /\ \A i \in 1..Len(list) : list[i] \in TableEntry(K)
    BY LenProperties, ElementOfSeq
<1>2. live \cup {0} \in SUBSET (0..Len(list)) /\ live \cup {0} # {}
    BY <1>1
<1> HIDE DEF live
<1>3. m \in live \cup {0} /\ \A y \in live \cup {0} : m >= y
    BY <1>1, <1>2, Greatest
<1>4. RemoveExpired(list, t) = SubSeq(list, 1, m)
    BY DEF RemoveExpired, live
<1> HIDE DEF m
<1>5. m \in 0..Len(list)
    BY <1>2, <1>3
<1>6. m > 0 => t - list[m].lastSeen < Idle
    BY <1>3, <1>5 DEF live
<1>7. ASSUME NEW i \in (m + 1)..Len(list) PROVE t - list[i].lastSeen >= Idle
    <2>1. i \in 1..Len(list) /\ ~(m >= i)
        BY <1>1, <1>5
    <2>2. i \notin live
        BY <1>3, <2>1
    <2>3. ~(t - list[i].lastSeen < Idle)
        BY <2>1, <2>2 DEF live
    <2>4. list[i].lastSeen \in Int /\ t \in Int
        BY <2>1, <1>1, EntryNumbers, LimiterNumbers
    <2> QED
        BY <2>3, <2>4, LimiterNumbers
<1> QED
    BY <1>4, <1>5, <1>6, <1>7

\* A front part of a table.
LEMMA FrontOf ==
    ASSUME NEW K, NEW list \in Seq(TableEntry(K)), NEW m \in 0..Len(list)
    PROVE  /\ SubSeq(list, 1, m) \in Seq(TableEntry(K)) /\ Len(SubSeq(list, 1, m)) = m
           /\ \A i \in 1..m : SubSeq(list, 1, m)[i] = list[i]
<1>1. Len(list) \in Nat
    BY LenProperties
<1> QED
    BY <1>1, SubSeqProperties

LEMMA PositionOf ==
    ASSUME NEW list, NEW k \in Keys(list)
    PROVE  Position(list, k) \in 1..Len(list) /\ list[Position(list, k)].key = k
BY DEF Keys, Position

\* EntryFor, for a key that is in the table: its entry comes first, the others
\* keep their order.
LEMMA EntryMoved ==
    ASSUME NEW K, NEW list \in Seq(TableEntry(K)), NEW k \in Keys(list), NEW t \in Times
    PROVE  LET i == Position(list, k)
               new == EntryFor(list, k, t)
           IN  /\ new \in Seq(TableEntry(K)) /\ Len(new) = Len(list) /\ i \in 1..Len(list)
               /\ new[1] = [list[i] EXCEPT !.lastSeen = t]
               /\ \A j \in 2..Len(list) : new[j] = list[IF j <= i THEN j - 1 ELSE j]
<1> DEFINE i == Position(list, k)
           moved == MoveToFront(list, i)
           new == EntryFor(list, k, t)
<1>1. Len(list) \in Nat /\ \A j \in 1..Len(list) : list[j] \in TableEntry(K)
    BY LenProperties, ElementOfSeq
<1>2. i \in 1..Len(list)
    BY PositionOf
<1> HIDE DEF i
<1>3. moved \in [1..Len(list) -> TableEntry(K)]
    BY <1>1, <1>2 DEF MoveToFront
<1>4. moved \in Seq(TableEntry(K))
    BY <1>1, <1>3, SeqDef
<1>5. Len(moved) = Len(list)
    BY <1>1, <1>3, <1>4, LenProperties
<1>6. /\ moved[1] = list[i]
      /\ \A j \in 2..Len(list) : moved[j] = list[IF j <= i THEN j - 1 ELSE j]
    BY <1>1, <1>2 DEF MoveToFront
<1>7. new = [moved EXCEPT ![1] = [list[i] EXCEPT !.lastSeen = t]]
    BY <1>6 DEF EntryFor, i
<1>8. [list[i] EXCEPT !.lastSeen = t] \in TableEntry(K)
    BY <1>1, <1>2 DEF TableEntry
<1> HIDE DEF moved, new
<1>9. 1 \in 1..Len(moved)
    BY <1>1, <1>2, <1>5
<1>10. /\ new \in Seq(TableEntry(K)) /\ Len(new) = Len(list)
       /\ \A j \in 1..Len(list) :
            new[j] = IF j = 1 THEN [list[i] EXCEPT !.lastSeen = t] ELSE moved[j]
    BY <1>4, <1>5, <1>7, <1>8, <1>9, ExceptSeq
<1> QED
    BY <1>1, <1>2, <1>6, <1>9, <1>5, <1>10 DEF i, new

\* EntryFor, for a new key: a full bucket comes first, and the last entry goes
\* if there is no room.
LEMMA EntryMade ==
    ASSUME NEW K, NEW list \in Seq(TableEntry(K)), NEW k \in K, k \notin Keys(list), NEW t \in Times
    PROVE  LET kept == IF Len(list) >= MaxEntries THEN Len(list) - 1 ELSE Len(list)
               new == EntryFor(list, k, t)
           IN  /\ new \in Seq(TableEntry(K)) /\ kept \in 0..Len(list) /\ Len(new) = kept + 1
               /\ new[1] = [key |-> k, tokens |-> Burst, last |-> t, lastSeen |-> t]
               /\ \A j \in 2..Len(new) : new[j] = list[j - 1]
<1> DEFINE kept == IF Len(list) >= MaxEntries THEN Len(list) - 1 ELSE Len(list)
           e == [key |-> k, tokens |-> Burst, last |-> t, lastSeen |-> t]
           rest == RemoveOldest(list)
<1>1. Len(list) \in Nat /\ kept \in 0..Len(list)
    BY LenProperties, LimiterNumbers
<1>2. rest \in Seq(TableEntry(K)) /\ Len(rest) = kept /\ \A i \in 1..kept : rest[i] = list[i]
    <2>1. CASE Len(list) >= MaxEntries
        <3>1. rest = SubSeq(list, 1, kept)
            BY <2>1 DEF RemoveOldest
        <3> HIDE DEF kept, rest
        <3> QED
            BY <3>1, <1>1, FrontOf
    <2>2. CASE ~(Len(list) >= MaxEntries)
        BY <2>2 DEF RemoveOldest
    <2> QED
        BY <2>1, <2>2
<1>3. e \in TableEntry(K)
    BY LimiterNumbers DEF TableEntry
<1>4. EntryFor(list, k, t) = <<e>> \o rest
    BY DEF EntryFor
<1> HIDE DEF kept, e, rest
<1>5. <<e>> \in Seq(TableEntry(K)) /\ Len(<<e>>) = 1 /\ <<e>>[1] = e
    BY <1>3
<1>6. /\ <<e>> \o rest \in Seq(TableEntry(K)) /\ Len(<<e>> \o rest) = 1 + kept
      /\ \A i \in 1..(1 + kept) : (<<e>> \o rest)[i] = IF i <= 1 THEN <<e>>[i] ELSE rest[i - 1]
    BY <1>1, <1>2, <1>5, ConcatProperties
<1>7. /\ (<<e>> \o rest)[1] = e
      /\ \A j \in 2..(1 + kept) : (<<e>> \o rest)[j] = list[j - 1]
    BY <1>1, <1>2, <1>5, <1>6
<1> QED
    BY <1>1, <1>4, <1>6, <1>7 DEF kept, e

\* What a table becomes when the entry of k is touched, entry by entry.  The
\* first m entries are in use, and the i-th is that of k, if there is one.  It
\* comes first, with its bucket or a new one; the others are in the same order.
TouchedAs(K, list, k, t, new, m, i) ==
    /\ new \in Seq(TableEntry(K)) /\ Len(new) \in 1..MaxEntries
    /\ RemoveExpired(list, t) = SubSeq(list, 1, m)
    /\ m > 0 => t - list[m].lastSeen < Idle
    /\ \A j \in (m + 1)..Len(list) : t - list[j].lastSeen >= Idle
    /\ i > 0 => /\ list[i].key = k /\ Len(new) = m
                /\ new[1] = [list[i] EXCEPT !.lastSeen = t]
                /\ \A j \in 2..m : new[j] = list[IF j <= i THEN j - 1 ELSE j]
    /\ i = 0 => /\ \A j \in 1..m : list[j].key # k
                /\ Len(new) <= m + 1
                /\ new[1] = [key |-> k, tokens |-> Burst, last |-> t, lastSeen |-> t]
                /\ \A j \in 2..Len(new) : new[j] = list[j - 1]

LEMMA Touching ==
    ASSUME NEW K, NEW list \in Seq(TableEntry(K)), NEW k \in K, NEW t \in Times,
           Len(list) <= MaxEntries
    PROVE  \E m \in 0..Len(list) : \E i \in 0..m : TouchedAs(K, list, k, t, Touched(list, k, t), m, i)
<1>1. PICK m \in 0..Len(list) :
             /\ RemoveExpired(list, t) = SubSeq(list, 1, m)
             /\ m > 0 => t - list[m].lastSeen < Idle
             /\ \A i \in (m + 1)..Len(list) : t - list[i].lastSeen >= Idle
    BY ExpiredRemoved
<1> DEFINE front == SubSeq(list, 1, m)
           new == Touched(list, k, t)
<1>2. /\ front \in Seq(TableEntry(K)) /\ Len(front) = m
      /\ \A i \in 1..m : front[i] = list[i]
    BY FrontOf
<1>3. new = EntryFor(front, k, t)
    BY <1>1 DEF Touched
<1>4. Len(list) \in Nat /\ m \in Nat /\ m <= MaxEntries
    BY LenProperties, LimiterNumbers
<1> HIDE DEF front, new
<1>5. CASE k \in Keys(front)
    <2> DEFINE i == Position(front, k)
    <2>1. /\ new \in Seq(TableEntry(K)) /\ Len(new) = m /\ i \in 1..m
          /\ new[1] = [front[i] EXCEPT !.lastSeen = t]
          /\ \A j \in 2..m : new[j] = front[IF j <= i THEN j - 1 ELSE j]
        BY <1>2, <1>3, <1>5, EntryMoved
    <2>2. front[i].key = k
        BY <1>5, PositionOf
    <2> HIDE DEF i
    <2>3. list[i].key = k /\ new[1] = [list[i] EXCEPT !.lastSeen = t]
        BY <1>2, <2>1, <2>2
    <2>4. \A j \in 2..m : new[j] = list[IF j <= i THEN j - 1 ELSE j]
        <3> TAKE j \in 2..m
        <3>1. (IF j <= i THEN j - 1 ELSE j) \in 1..m
            BY <1>4, <2>1
        <3> QED
            BY <3>1, <1>2, <2>1
    <2>5. Len(new) \in 1..MaxEntries /\ i > 0 /\ i # 0 /\ i \in 0..m
        BY <1>4, <2>1, LimiterNumbers
    <2>6. /\ i > 0 => /\ list[i].key = k /\ Len(new) = m
                      /\ new[1] = [list[i] EXCEPT !.lastSeen = t]
                      /\ \A j \in 2..m : new[j] = list[IF j <= i THEN j - 1 ELSE j]
          /\ i = 0 => FALSE
        BY <2>1, <2>3, <2>4, <2>5
    <2>7. TouchedAs(K, list, k, t, new, m, i)
        BY ONLY <1>1, <2>1, <2>5, <2>6 DEF TouchedAs
    <2> QED
        BY <2>5, <2>7 DEF new
<1>6. CASE k \notin Keys(front)
    <2> DEFINE kept == IF m >= MaxEntries THEN m - 1 ELSE m
    <2>1. /\ new \in Seq(TableEntry(K)) /\ Len(new) = kept + 1
          /\ new[1] = [key |-> k, tokens |-> Burst, last |-> t, lastSeen |-> t]
          /\ \A j \in 2..Len(new) : new[j] = front[j - 1]
        BY <1>2, <1>3, <1>6, EntryMade
    <2>2. Len(new) \in 1..MaxEntries /\ Len(new) <= m + 1
        BY <1>4, <2>1, LimiterNumbers
    <2>3. \A j \in 1..m : list[j].key # k
        BY <1>2, <1>6 DEF Keys
    <2>4. \A j \in 2..Len(new) : new[j] = list[j - 1]
        <3> TAKE j \in 2..Len(new)
        <3>1. j - 1 \in 1..m
            BY <1>4, <2>2
        <3> QED
            BY <3>1, <1>2, <2>1
    <2>5. 0 \in 0..m
        BY <1>4
    <2>6. TouchedAs(K, list, k, t, new, m, 0)
        BY <1>1, <2>1, <2>2, <2>3, <2>4 DEF TouchedAs
    <2> QED
        BY <2>5, <2>6 DEF new
<1> QED
    BY <1>5, <1>6

LEMMA TableNumbers ==
    ASSUME NEW K, NEW list \in Seq(TableEntry(K))
    PROVE  /\ Len(list) \in Nat
           /\ \A i \in 1..Len(list) :
                /\ list[i] \in TableEntry(K) /\ list[i].key \in K /\ list[i].tokens \in 0..Burst
                /\ list[i].last \in Times /\ list[i].lastSeen \in Times
                /\ list[i].tokens \in Int /\ list[i].last \in Int /\ list[i].lastSeen \in Int
<1>1. Len(list) \in Nat /\ \A i \in 1..Len(list) : list[i] \in TableEntry(K)
    BY LenProperties, ElementOfSeq
<1> QED
    BY <1>1, EntryNumbers

\* Where the entries behind the first one were.
From(i, j) == IF i > 0 /\ j > i THEN j ELSE j - 1

LEMMA OthersStay ==
    ASSUME NEW K, NEW list \in Seq(TableEntry(K)), NEW k \in K, NEW t \in Times, NEW new,
           \A i, j \in 1..Len(list) : i # j => list[i].key # list[j].key,
           NEW m \in 0..Len(list), NEW i \in 0..m, TouchedAs(K, list, k, t, new, m, i)
    PROVE  /\ \A j \in 2..Len(new) :
                /\ From(i, j) \in 1..m /\ new[j] = list[From(i, j)] /\ list[From(i, j)].key # k
           /\ \A j1, j2 \in 2..Len(new) : j1 < j2 => From(i, j1) < From(i, j2)
           /\ new[1].key = k /\ new[1].lastSeen = t
<1>1. Len(list) \in Nat /\ m \in Nat /\ i \in Nat /\ Len(new) \in Nat
    BY TableNumbers, LimiterNumbers DEF TouchedAs
<1>2. \A j \in 1..Len(list) : list[j] \in TableEntry(K)
    BY TableNumbers
<1>3. ASSUME NEW j \in 2..Len(new)
      PROVE  From(i, j) \in 1..m /\ new[j] = list[From(i, j)] /\ From(i, j) # i
    <2>1. CASE i = 0
        BY <1>1, <2>1 DEF TouchedAs, From
    <2>2. CASE i > 0
        <3>1. Len(new) = m /\ new[j] = list[IF j <= i THEN j - 1 ELSE j]
            BY <2>2 DEF TouchedAs
        <3>2. From(i, j) = IF j <= i THEN j - 1 ELSE j
            BY <2>2, <1>1 DEF From
        <3> QED
            BY <1>1, <3>1, <3>2
    <2> QED
        BY <1>1, <2>1, <2>2
<1>4. ASSUME NEW o \in 1..m, o # i PROVE list[o].key # k
    <2>1. CASE i = 0
        BY <2>1 DEF TouchedAs
    <2>2. CASE i > 0
        <3>1. list[i].key = k /\ i \in 1..Len(list) /\ o \in 1..Len(list)
            BY <2>2, <1>1 DEF TouchedAs
        <3> QED
            BY <3>1, <1>4
    <2> QED
        BY <1>1, <2>1, <2>2
<1>5. \A j1, j2 \in 2..Len(new) : j1 < j2 => From(i, j1) < From(i, j2)
    BY <1>1 DEF From
<1>6. new[1].key = k /\ new[1].lastSeen = t
    <2>1. CASE i = 0
        BY <2>1 DEF TouchedAs
    <2>2. CASE i > 0
        <3>1. list[i].key = k /\ i \in 1..Len(list) /\ new[1] = [list[i] EXCEPT !.lastSeen = t]
            BY <2>2, <1>1 DEF TouchedAs
        <3> QED
            BY <3>1, <1>2 DEF TableEntry
    <2> QED
        BY <1>1, <2>1, <2>2
<1> QED
    BY <1>3, <1>4, <1>5, <1>6

\* A request touches a table: it stays one, and its entries are not much older
\* than Idle.
LEMMA TouchedTable ==
    ASSUME NEW K, NEW list, NEW n \in Times, Table(K, list, n), NEW k \in K, NEW t \in Times,
           t <= n, n - t <= MaxSkew
    PROVE  LET new == Touched(list, k, t) IN
           /\ Table(K, new, n) /\ Len(new) > 0
           /\ \A j \in 1..Len(new) : t - new[j].lastSeen < Idle + MaxSkew
<1> DEFINE new == Touched(list, k, t)
<1>1. /\ list \in Seq(TableEntry(K)) /\ Len(list) <= MaxEntries
      /\ \A i, j \in 1..Len(list) : i # j => list[i].key # list[j].key
      /\ \A i \in 1..Len(list) : list[i].lastSeen <= n
      /\ \A i, j \in 1..Len(list) : i < j => list[i].lastSeen >= list[j].lastSeen - MaxSkew
    BY DEF Table
<1>0. PICK m \in 0..Len(list) : \E i \in 0..m : TouchedAs(K, list, k, t, new, m, i)
    BY <1>1, Touching
<1> HIDE DEF new
<1>2. PICK i \in 0..m : TouchedAs(K, list, k, t, new, m, i)
    BY <1>0
<1>3. Len(list) \in Nat /\ \A j \in 1..Len(list) : list[j].lastSeen \in Int
    BY <1>1, TableNumbers
<1>4. new \in Seq(TableEntry(K)) /\ Len(new) \in 1..MaxEntries /\ Len(new) \in Nat
    BY <1>2, LimiterNumbers DEF TouchedAs
<1>5. /\ \A j \in 2..Len(new) :
           /\ From(i, j) \in 1..m /\ new[j] = list[From(i, j)] /\ list[From(i, j)].key # k
      /\ \A j1, j2 \in 2..Len(new) : j1 < j2 => From(i, j1) < From(i, j2)
      /\ new[1].key = k /\ new[1].lastSeen = t
    BY <1>1, <1>2, OthersStay
<1>6. t \in Int /\ n \in Int /\ MaxSkew \in Nat /\ Idle \in Nat /\ Idle > 0
    BY LimiterNumbers
<1>7. ASSUME NEW q \in 1..m PROVE t - list[q].lastSeen < Idle + MaxSkew
    <2>1. m \in 1..Len(list) /\ q \in 1..Len(list) /\ m > 0
        BY <1>3
    <2>2. t - list[m].lastSeen < Idle
        BY <1>2, <2>1 DEF TouchedAs
    <2>3. list[q].lastSeen >= list[m].lastSeen - MaxSkew
        BY <2>1, <1>1, <1>3, <1>6
    <2>4. list[q].lastSeen \in Int /\ list[m].lastSeen \in Int
        BY <2>1, <1>3
    <2> QED
        BY ONLY <2>2, <2>3, <2>4, <1>6
<1>8. ASSUME NEW j \in 1..Len(new) PROVE t - new[j].lastSeen < Idle + MaxSkew /\ new[j].lastSeen <= n
    <2>1. CASE j = 1
        BY <2>1, <1>5, <1>6
    <2>2. CASE j # 1
        <3>1. j \in 2..Len(new)
            BY <2>2, <1>4
        <3>2. From(i, j) \in 1..m /\ From(i, j) \in 1..Len(list) /\ new[j] = list[From(i, j)]
            BY <3>1, <1>5, <1>3
        <3> QED
            BY <3>2, <1>7, <1>1
    <2> QED
        BY <2>1, <2>2
<1>9. ASSUME NEW j1 \in 1..Len(new), NEW j2 \in 1..Len(new), j1 < j2
      PROVE  new[j1].key # new[j2].key /\ new[j1].lastSeen >= new[j2].lastSeen - MaxSkew
    <2>1. /\ j2 \in 2..Len(new) /\ From(i, j2) \in 1..Len(list)
          /\ new[j2] = list[From(i, j2)] /\ list[From(i, j2)].key # k
        BY <1>9, <1>4, <1>5, <1>3
    <2>2. CASE j1 = 1
        <3>1. list[From(i, j2)].lastSeen <= n /\ list[From(i, j2)].lastSeen \in Int
            BY <2>1, <1>1, <1>3
        <3> QED
            BY <3>1, <2>1, <2>2, <1>5, <1>6
    <2>3. CASE j1 # 1
        <3>1. j1 \in 2..Len(new) /\ From(i, j1) \in 1..Len(list) /\ new[j1] = list[From(i, j1)]
            BY <2>3, <1>4, <1>5, <1>3
        <3>2. From(i, j1) < From(i, j2)
            BY <3>1, <2>1, <1>9, <1>5
        <3> QED
            BY <3>1, <3>2, <2>1, <1>1
    <2> QED
        BY <2>2, <2>3
<1>10. \A j1, j2 \in 1..Len(new) : j1 # j2 => new[j1].key # new[j2].key
    BY <1>9, <1>4
<1> QED
    BY <1>4, <1>8, <1>9, <1>10 DEF Table, new

-----------------------------------------------------------------------------
(* A bucket.                                                               *)

\* The tokens of a bucket at a later time: no more than it is for, and no more
\* than are earned in between.
LEMMA Advancing ==
    ASSUME NEW b, NEW burst \in Nat, b.tokens \in 0..burst, b.last \in Int,
           NEW t \in Int, NEW later \in Int, t <= later
    PROVE  /\ Advance(b, burst, t) \in 0..burst
           /\ Advance(b, burst, later) <= Advance(b, burst, t) + Rate * (later - t)
           /\ b.last >= t => Advance(b, burst, t) = b.tokens
           /\ b.tokens = burst => Advance(b, burst, t) = burst
           /\ b.last <= t /\ burst <= Rate * (t - b.last) => Advance(b, burst, t) = burst
<1>1. Rate \in Nat
    BY LimiterNumbers
<1> DEFINE e(x) == Rate * (IF 0 >= x - b.last THEN 0 ELSE x - b.last)
<1>2. ASSUME NEW x \in Int
      PROVE  /\ e(x) \in Nat
             /\ Advance(b, burst, x) = IF burst <= b.tokens + e(x) THEN burst ELSE b.tokens + e(x)
    <2>1. Max({0, x - b.last}) = IF 0 >= x - b.last THEN 0 ELSE x - b.last
        BY LargerOfTwo
    <2>2. (IF 0 >= x - b.last THEN 0 ELSE x - b.last) \in Nat
        OBVIOUS
    <2>3. e(x) \in Nat
        BY <2>2, <1>1, Linear, Monotone
    <2>4. Advance(b, burst, x) = Min({burst, b.tokens + e(x)})
        BY <2>1 DEF Advance
    <2> HIDE DEF e
    <2> QED
        BY <2>3, <2>4, SmallerOfTwo
<1>3. e(later) <= e(t) + Rate * (later - t)
    <2>1. CASE t >= b.last
        <3>1. e(later) = Rate * (later - b.last) /\ e(t) = Rate * (t - b.last)
            BY <2>1
        <3>2. Rate * (later - b.last) = Rate * (t - b.last) + Rate * (later - t)
            BY <1>1
        <3> QED
            BY <3>1, <3>2, <1>1
    <2>2. CASE t < b.last
        <3>1. (IF 0 >= later - b.last THEN 0 ELSE later - b.last) <= later - t
            BY <2>2
        <3>2. e(later) <= Rate * (later - t)
            BY <3>1, <1>1, Monotone
        <3>3. e(t) = 0
            BY <2>2, <1>1
        <3> HIDE DEF e
        <3> QED
            BY <3>2, <3>3, <1>1
    <2> QED
        BY <2>1, <2>2
<1>4. /\ b.last >= t => e(t) = 0
      /\ b.last <= t => e(t) = Rate * (t - b.last)
    BY <1>1
<1>5. Rate * (later - t) \in Nat
    BY <1>1, Linear, Monotone
<1> HIDE DEF e
<1> QED
    BY <1>2, <1>3, <1>4, <1>5

\* Limiter.AllowN takes a token, if there is one.
LEMMA AllowingEntry ==
    ASSUME NEW K, NEW b \in TableEntry(K), NEW t \in Times
    PROVE  LET new == AllowN(b, Burst, t) IN
           /\ new \in TableEntry(K) /\ new.key = b.key /\ new.lastSeen = b.lastSeen
           /\ IF HasToken(b, Burst, t)
              THEN new.last = t /\ Advance(new, Burst, t) = Advance(b, Burst, t) - 1
              ELSE new = b
<1> DEFINE new == AllowN(b, Burst, t)
<1>1. b.tokens \in 0..Burst /\ b.last \in Int /\ t \in Int /\ Burst \in Nat
    BY EntryNumbers, LimiterNumbers
<1>2. Advance(b, Burst, t) \in 0..Burst
    BY <1>1, Advancing
<1>3. CASE HasToken(b, Burst, t)
    <2>1. new = [b EXCEPT !.tokens = Advance(b, Burst, t) - 1, !.last = t]
        BY <1>3 DEF AllowN
    <2>2. Advance(b, Burst, t) - 1 \in 0..Burst
        BY <1>3, <1>2, <1>1 DEF HasToken
    <2>3. /\ new \in TableEntry(K) /\ new.key = b.key /\ new.lastSeen = b.lastSeen
          /\ new.tokens = Advance(b, Burst, t) - 1 /\ new.last = t
        BY <2>1, <2>2 DEF TableEntry
    <2> HIDE DEF new
    <2>4. new.tokens \in 0..Burst /\ new.last \in Int /\ new.last >= t /\ t <= t
        BY <2>2, <2>3, <1>1
    <2>5. Advance(new, Burst, t) = new.tokens
        BY ONLY <2>4, <1>1, Advancing
    <2> QED
        BY <1>3, <2>3, <2>5 DEF new
<1>4. CASE ~HasToken(b, Burst, t)
    BY <1>4 DEF AllowN
<1> QED
    BY <1>3, <1>4

AllBucket == [tokens : 0..AllBurst, last : Times]

LEMMA AllowingAll ==
    ASSUME NEW b \in AllBucket, NEW t \in Times
    PROVE  LET new == AllowN(b, AllBurst, t) IN
           /\ new \in AllBucket
           /\ IF HasToken(b, AllBurst, t)
              THEN new.last = t /\ Advance(new, AllBurst, t) = Advance(b, AllBurst, t) - 1
              ELSE new = b
<1> DEFINE new == AllowN(b, AllBurst, t)
<1>1. b.tokens \in 0..AllBurst /\ b.last \in Times
    BY DEF AllBucket
<1>2. b.last \in Int /\ t \in Int /\ AllBurst \in Nat
    BY <1>1, LimiterNumbers
<1>3. Advance(b, AllBurst, t) \in 0..AllBurst
    BY <1>1, <1>2, Advancing
<1>4. CASE HasToken(b, AllBurst, t)
    <2>1. new = [b EXCEPT !.tokens = Advance(b, AllBurst, t) - 1, !.last = t]
        BY <1>4 DEF AllowN
    <2>2. Advance(b, AllBurst, t) - 1 \in 0..AllBurst
        BY <1>4, <1>3, <1>2 DEF HasToken
    <2>3. new \in AllBucket /\ new.tokens = Advance(b, AllBurst, t) - 1 /\ new.last = t
        BY <2>1, <2>2 DEF AllBucket
    <2> HIDE DEF new
    <2>4. new.tokens \in 0..AllBurst /\ new.last \in Int /\ new.last >= t /\ t <= t
        BY <2>2, <2>3, <1>2
    <2>5. Advance(new, AllBurst, t) = new.tokens
        BY ONLY <2>4, <1>2, Advancing
    <2> QED
        BY <1>4, <2>3, <2>5 DEF new
<1>5. CASE ~HasToken(b, AllBurst, t)
    BY <1>5 DEF AllowN
<1> QED
    BY <1>4, <1>5

\* The first entry of a table spends a token: nothing else changes.
LEMMA Spending ==
    ASSUME NEW K, NEW list \in Seq(TableEntry(K)), Len(list) > 0, NEW t \in Times
    PROVE  LET new == Spent(list, t) IN
           /\ new \in Seq(TableEntry(K)) /\ Len(new) = Len(list)
           /\ new[1] = AllowN(list[1], Burst, t)
           /\ \A i \in 2..Len(list) : new[i] = list[i]
           /\ \A i \in 1..Len(list) :
                new[i].key = list[i].key /\ new[i].lastSeen = list[i].lastSeen
<1>1. Len(list) \in Nat /\ 1 \in 1..Len(list) /\ list[1] \in TableEntry(K)
    BY TableNumbers
<1> DEFINE e == AllowN(list[1], Burst, t)
<1>2. e \in TableEntry(K) /\ e.key = list[1].key /\ e.lastSeen = list[1].lastSeen
    BY <1>1, AllowingEntry
<1>3. Spent(list, t) = [list EXCEPT ![1] = e]
    BY DEF Spent
<1> HIDE DEF e
<1>4. /\ Spent(list, t) \in Seq(TableEntry(K)) /\ Len(Spent(list, t)) = Len(list)
      /\ \A i \in 1..Len(list) : Spent(list, t)[i] = IF i = 1 THEN e ELSE list[i]
    BY <1>1, <1>2, <1>3, ExceptSeq
<1>5. \A i \in 2..Len(list) : Spent(list, t)[i] = list[i]
    BY <1>1, <1>4
<1>6. \A i \in 1..Len(list) :
        Spent(list, t)[i].key = list[i].key /\ Spent(list, t)[i].lastSeen = list[i].lastSeen
    BY <1>1, <1>2, <1>4
<1> QED
    BY <1>1, <1>4, <1>5, <1>6 DEF e

LEMMA SpentTable ==
    ASSUME NEW K, NEW list, NEW n \in Times, Table(K, list, n), Len(list) > 0, NEW t \in Times
    PROVE  Table(K, Spent(list, t), n)
<1> DEFINE new == Spent(list, t)
<1>1. list \in Seq(TableEntry(K))
    BY DEF Table
<1>2. /\ new \in Seq(TableEntry(K)) /\ Len(new) = Len(list)
      /\ \A i \in 1..Len(list) :
           new[i].key = list[i].key /\ new[i].lastSeen = list[i].lastSeen
    BY <1>1, Spending
<1> HIDE DEF new
<1>3. Table(K, new, n)
    BY <1>2 DEF Table
<1> QED
    BY <1>3 DEF new

\* One entry for each key.
LEMMA KeysCounted ==
    ASSUME NEW K, NEW list, NEW n \in Times, Table(K, list, n)
    PROVE  Cardinality(Keys(list)) = Len(list)
<1>1. Len(list) \in Nat
    BY TableNumbers DEF Table
<1> DEFINE f == [i \in 1..Len(list) |-> list[i].key]
<1>2. f \in Bijection(1..Len(list), Keys(list))
    <2>1. f \in [1..Len(list) -> Keys(list)]
        BY DEF Keys
    <2>2. \A i, j \in 1..Len(list) : f[i] = f[j] => i = j
        BY DEF Table
    <2>3. \A k \in Keys(list) : \E i \in 1..Len(list) : f[i] = k
        BY DEF Keys
    <2> HIDE DEF f
    <2> QED
        BY <2>1, <2>2, <2>3 DEF Bijection, Injection, Surjection, IsInjective
<1>3. ExistsBijection(1..Len(list), Keys(list))
    BY <1>2 DEF ExistsBijection
<1> QED
    BY <1>1, <1>3, FS_CountingElements

-----------------------------------------------------------------------------
(* The tables are bounded, and expire.                                     *)

\* A goroutine reaches the mutex soon after it has read the clock.
Underway(g) ==
    at[g] = "stamped" => stamp[g] <= now /\ now - stamp[g] <= MaxSkew /\ asked[g] \in Requests[kind]

LimiterInv ==
    /\ kind \in DOMAIN Requests
    /\ now \in Times
    /\ at \in [Goroutines -> {"idle", "stamped"}]
    /\ asked \in [Goroutines -> Requests[kind] \cup {<<NoKey, NoKey>>}]
    /\ stamp \in [Goroutines -> Times]
    /\ \A g \in Goroutines : Underway(g)
    /\ Table(Clients, sources, now)
    /\ Table(Users, usernames, now)
    /\ global \in AllBucket

\* What a request may do to the table it finds its key k in.
Outcome(list, new, k, t) == new \in {list, Touched(list, k, t), Spent(Touched(list, k, t), t)}

LEMMA EmptyTable ==
    ASSUME NEW K, NEW n
    PROVE  Table(K, <<>>, n)
BY LimiterNumbers DEF Table

LEMMA LimiterInitial == LimiterInit => LimiterInv
<1> SUFFICES ASSUME LimiterInit PROVE LimiterInv
    OBVIOUS
<1>1. 0 \in Times /\ AllBurst \in 0..AllBurst
    BY LimiterNumbers DEF Times
<1>2. Table(Clients, sources, now) /\ Table(Users, usernames, now)
    BY EmptyTable DEF LimiterInit, NewClientLimiters, NewPasswordLimiter
<1>3. global \in AllBucket
    BY <1>1 DEF LimiterInit, NewExchangeLimiter, AllBucket
<1>4. \A g \in Goroutines : Underway(g)
    BY DEF LimiterInit, Underway
<1> QED
    BY <1>1, <1>2, <1>3, <1>4 DEF LimiterInit, LimiterInv

\* Allow, seen from the tables.
LEMMA AllowSteps ==
    ASSUME LimiterInv, NEW g \in Goroutines, Allow(g)
    PROVE  LET c == asked[g][1]
               u == asked[g][2]
               t == stamp[g]
           IN  /\ t \in Times /\ t <= now /\ now - t <= MaxSkew /\ c \in Clients
               /\ u = NoKey \/ u \in Users
               /\ Outcome(sources, sources', c, t)
               /\ \/ usernames' = usernames
                  \/ u \in Users /\ usernames' = Spent(Touched(usernames, u, t), t)
               /\ global' = global \/ global' = AllowN(global, AllBurst, t)
               /\ UNCHANGED <<kind, now>>
<1> DEFINE c == asked[g][1]
           u == asked[g][2]
           t == stamp[g]
<1>1. at[g] = "stamped" /\ UNCHANGED <<kind, now>>
    BY DEF Allow
<1>2. t \in Times /\ t <= now /\ now - t <= MaxSkew /\ asked[g] \in Requests[kind] /\ kind \in DOMAIN Requests
    BY <1>1 DEF LimiterInv, Underway
<1>3. asked[g] \in Clients \X (IF kind = "password" THEN Users ELSE {NoKey})
    BY <1>2, LimiterAssumption DEF LimiterAssumption
<1>4. c \in Clients /\ (u = NoKey \/ u \in Users) /\ (kind = "password" => u \in Users)
    <2>1. CASE kind = "password"
        BY <1>3, <2>1
    <2>2. CASE kind # "password"
        BY <1>3, <2>2
    <2> QED
        BY <2>1, <2>2
<1>5. \E ok \in BOOLEAN :
         \/ kind = "dns" /\ AllowQuery(c, t, ok)
         \/ kind = "exchange" /\ AllowExchange(c, t, ok)
         \/ kind = "password" /\ AllowPassword(c, u, t, ok)
    BY DEF Allow
<1> HIDE DEF c, u, t
<1>6. /\ Outcome(sources, sources', c, t)
      /\ \/ usernames' = usernames
         \/ u \in Users /\ usernames' = Spent(Touched(usernames, u, t), t)
      /\ global' = global \/ global' = AllowN(global, AllBurst, t)
    BY <1>4, <1>5 DEF AllowQuery, AllowExchange, AllowPassword, Outcome
<1> QED
    BY <1>1, <1>2, <1>4, <1>6 DEF c, u, t

LEMMA OutcomeTable ==
    ASSUME NEW K, NEW list, NEW n \in Times, Table(K, list, n), NEW k \in K, NEW t \in Times,
           t <= n, n - t <= MaxSkew, NEW new, Outcome(list, new, k, t)
    PROVE  /\ Table(K, new, n)
           /\ new # list => \A i \in 1..Len(new) : t - new[i].lastSeen < Idle + MaxSkew
<1> DEFINE mid == Touched(list, k, t)
<1>1. /\ Table(K, mid, n) /\ Len(mid) > 0
      /\ \A j \in 1..Len(mid) : t - mid[j].lastSeen < Idle + MaxSkew
    BY TouchedTable
<1>2. mid \in Seq(TableEntry(K))
    BY <1>1 DEF Table
<1> HIDE DEF mid
<1>3. /\ Table(K, Spent(mid, t), n)
      /\ \A j \in 1..Len(Spent(mid, t)) : t - Spent(mid, t)[j].lastSeen < Idle + MaxSkew
    BY <1>1, <1>2, SpentTable, Spending
<1> QED
    BY <1>1, <1>3 DEF Outcome, mid

LEMMA LimiterStep == LimiterInv /\ [LimiterNext]_limiterVars => LimiterInv'
<1> SUFFICES ASSUME LimiterInv, [LimiterNext]_limiterVars PROVE LimiterInv'
    OBVIOUS
<1>1. ASSUME LimiterTick PROVE LimiterInv'
    <2>1. now \in Times /\ now \in Int /\ now' = now + 1 /\ now < MaxTime
        BY <1>1, LimiterNumbers DEF LimiterTick, LimiterInv
    <2>2. now' \in Times
        BY <2>1, LimiterNumbers DEF Times
    <2>3. Table(Clients, sources, now')
        <3>1. \A i \in 1..Len(sources) : sources[i].lastSeen \in Int /\ sources[i].lastSeen <= now
            BY TableNumbers DEF LimiterInv, Table
        <3>2. \A i \in 1..Len(sources) : sources[i].lastSeen <= now'
            BY <3>1, <2>1
        <3> QED
            BY <3>2 DEF LimiterInv, Table
    <2>4. Table(Users, usernames, now')
        <3>1. \A i \in 1..Len(usernames) : usernames[i].lastSeen \in Int /\ usernames[i].lastSeen <= now
            BY TableNumbers DEF LimiterInv, Table
        <3>2. \A i \in 1..Len(usernames) : usernames[i].lastSeen <= now'
            BY <3>1, <2>1
        <3> QED
            BY <3>2 DEF LimiterInv, Table
    <2>5. ASSUME NEW g \in Goroutines PROVE Underway(g)'
        <3>1. stamp[g] \in Int /\ (at[g] = "stamped" => now - stamp[g] < MaxSkew)
            BY <1>1, LimiterNumbers DEF LimiterTick, LimiterInv
        <3>2. Underway(g)
            BY DEF LimiterInv
        <3> QED
            BY <3>1, <3>2, <2>1, <1>1, LimiterNumbers DEF Underway, LimiterTick
    <2> QED
        BY <1>1, <2>2, <2>3, <2>4, <2>5 DEF LimiterTick, LimiterInv
<1>2. ASSUME NEW g \in Goroutines, Admit(g) PROVE LimiterInv'
    <2>1. now \in Int /\ now \in Times /\ MaxSkew \in Nat
        BY LimiterNumbers DEF LimiterInv
    <2>2. \A h \in Goroutines : Underway(h)'
        BY <1>2, <2>1 DEF Admit, LimiterInv, Underway
    <2> QED
        BY <1>2, <2>1, <2>2 DEF Admit, LimiterInv
<1>3. ASSUME NEW g \in Goroutines, Allow(g) PROVE LimiterInv'
    <2> DEFINE c == asked[g][1]
               u == asked[g][2]
               t == stamp[g]
    <2>1. /\ t \in Times /\ t <= now /\ now - t <= MaxSkew /\ c \in Clients
          /\ Outcome(sources, sources', c, t)
          /\ \/ usernames' = usernames
             \/ u \in Users /\ usernames' = Spent(Touched(usernames, u, t), t)
          /\ global' = global \/ global' = AllowN(global, AllBurst, t)
          /\ UNCHANGED <<kind, now>>
        BY <1>3, AllowSteps
    <2> HIDE DEF c, u, t
    <2>2. Table(Clients, sources', now')
        BY <2>1, OutcomeTable DEF LimiterInv
    <2>3. Table(Users, usernames', now')
        BY <2>1, OutcomeTable DEF LimiterInv, Outcome
    <2>4. global' \in AllBucket
        BY <2>1, AllowingAll DEF LimiterInv
    <2>5. \A h \in Goroutines : Underway(h)'
        BY <1>3, <2>1 DEF Allow, LimiterInv, Underway
    <2>6. 0 \in Times
        BY LimiterNumbers DEF Times
    <2>7. /\ at' \in [Goroutines -> {"idle", "stamped"}]
          /\ asked' \in [Goroutines -> Requests[kind] \cup {<<NoKey, NoKey>>}]
          /\ stamp' \in [Goroutines -> Times]
        BY <1>3, <2>6 DEF Allow, LimiterInv
    <2> QED
        BY <2>1, <2>2, <2>3, <2>4, <2>5, <2>7 DEF LimiterInv
<1>4. ASSUME UNCHANGED limiterVars PROVE LimiterInv'
    BY <1>4 DEF limiterVars, history, LimiterInv, Underway
<1> QED
    BY <1>1, <1>2, <1>3, <1>4 DEF LimiterNext

\* The state of the limiters of DNS queries, of exchanges and of password logins
\* is bounded, with one entry for each key, and none much older than Idle once a
\* request has used the table.
THEOREM LimiterStateIsBounded == LimiterSpec => StateBoundedAndExpiring
<1>1. ASSUME LimiterInv, LimiterInv', [LimiterNext]_limiterVars,
             NEW g \in Goroutines, at[g] = "stamped", at'[g] = "idle",
             NEW list \in {sources', usernames'} \ {sources, usernames}
      PROVE  /\ Len(list) <= MaxEntries
             /\ Cardinality(Keys(list)) = Len(list)
             /\ \A i \in 1..Len(list) : stamp[g] - list[i].lastSeen < Idle + MaxSkew
    <2>1. Allow(g)
        <3>1. g \in DOMAIN at /\ "idle" # "stamped"
            BY <1>1 DEF LimiterInv
        <3>2. at' # at
            BY <1>1
        <3>3. PICK h \in Goroutines : Admit(h) \/ Allow(h)
            BY <1>1, <3>2 DEF LimiterNext, LimiterTick, limiterVars
        <3>4. h = g
            BY <1>1, <3>1, <3>3 DEF Admit, Allow
        <3>5. ~Admit(g)
            BY <1>1 DEF Admit
        <3> QED
            BY <3>3, <3>4, <3>5
    <2> DEFINE c == asked[g][1]
               u == asked[g][2]
               t == stamp[g]
    <2>2. /\ t \in Times /\ t <= now /\ now - t <= MaxSkew /\ c \in Clients
          /\ Outcome(sources, sources', c, t)
          /\ \/ usernames' = usernames
             \/ u \in Users /\ usernames' = Spent(Touched(usernames, u, t), t)
        BY <1>1, <2>1, AllowSteps
    <2> HIDE DEF c, u
    <2>3. /\ now \in Times /\ now' \in Times
          /\ Table(Clients, sources, now) /\ Table(Clients, sources', now')
          /\ Table(Users, usernames, now) /\ Table(Users, usernames', now')
        BY <1>1 DEF LimiterInv
    <2>4. CASE list = sources'
        <3>1. sources' # sources
            BY <1>1, <2>4
        <3>2. \A i \in 1..Len(sources') : t - sources'[i].lastSeen < Idle + MaxSkew
            BY <3>1, <2>2, <2>3, OutcomeTable
        <3> QED
            BY <2>4, <3>2, <2>3, KeysCounted DEF Table
    <2>5. CASE list = usernames'
        <3>1. u \in Users /\ Outcome(usernames, usernames', u, t) /\ usernames' # usernames
            BY <1>1, <2>2, <2>5 DEF Outcome
        <3>2. \A i \in 1..Len(usernames') : t - usernames'[i].lastSeen < Idle + MaxSkew
            BY <3>1, <2>2, <2>3, OutcomeTable
        <3> QED
            BY <2>5, <3>2, <2>3, KeysCounted DEF Table
    <2> QED
        BY <1>1, <2>4, <2>5
<1> DEFINE Bounded ==
        \A g \in Goroutines : at[g] = "stamped" /\ at'[g] = "idle" =>
           \A list \in {sources', usernames'} \ {sources, usernames} :
              /\ Len(list) <= MaxEntries
              /\ Cardinality(Keys(list)) = Len(list)
              /\ \A i \in 1..Len(list) : stamp[g] - list[i].lastSeen < Idle + MaxSkew
<1>2. LimiterInv /\ LimiterInv' /\ [LimiterNext]_limiterVars => [Bounded]_limiterVars
    BY <1>1
<1>3. LimiterSpec => [][Bounded]_limiterVars
    <2> HIDE DEF Bounded
    <2> QED
        BY <1>2, LimiterInitial, LimiterStep, PTL DEF LimiterSpec
<1> QED
    BY <1>3 DEF StateBoundedAndExpiring

-----------------------------------------------------------------------------
(* No more requests are let through than the bucket is for.                *)

\* The tokens that k has at time t: a key without an entry has a full bucket.
Credit(list, k, t) ==
    IF k \in Keys(list) THEN Advance(list[Position(list, k)], Burst, t) ELSE Burst

\* The bucket of k was last updated when k was last seen, or before.
Known(list, k, t) ==
    \A i \in 1..Len(list) :
       list[i].key = k => list[i].last <= list[i].lastSeen /\ list[i].lastSeen <= t

LEMMA CreditAt ==
    ASSUME NEW K, NEW list, NEW n, Table(K, list, n), NEW i \in 1..Len(list), NEW t
    PROVE  Credit(list, list[i].key, t) = Advance(list[i], Burst, t)
<1>1. list[i].key \in Keys(list)
    BY DEF Keys
<1>2. Position(list, list[i].key) = i
    BY <1>1, PositionOf DEF Table
<1> QED
    BY <1>1, <1>2 DEF Credit

LEMMA CreditRange ==
    ASSUME NEW K, NEW list, NEW n, Table(K, list, n), NEW k,
           NEW t \in Times, NEW later \in Times, t <= later
    PROVE  /\ Credit(list, k, t) \in 0..Burst
           /\ Credit(list, k, later) <= Credit(list, k, t) + Rate * (later - t)
<1>1. CASE k \in Keys(list)
    <2>1. list \in Seq(TableEntry(K))
        BY DEF Table
    <2> DEFINE e == list[Position(list, k)]
    <2>2. e \in TableEntry(K)
        BY <1>1, <2>1, PositionOf, TableNumbers
    <2> HIDE DEF e
    <2>3. e.tokens \in 0..Burst /\ e.last \in Int /\ t \in Int /\ later \in Int /\ Burst \in Nat
        BY <2>2, EntryNumbers, LimiterNumbers
    <2>4. /\ Advance(e, Burst, t) \in 0..Burst
          /\ Advance(e, Burst, later) <= Advance(e, Burst, t) + Rate * (later - t)
        BY <2>3, Advancing
    <2> QED
        BY <1>1, <2>4 DEF Credit, e
<1>2. CASE k \notin Keys(list)
    <2>1. Burst \in Nat /\ Rate \in Nat /\ later - t \in Nat
        BY LimiterNumbers
    <2>2. Rate * (later - t) \in Nat
        BY <2>1, Linear, Monotone
    <2> QED
        BY <1>2, <2>1, <2>2 DEF Credit
<1> QED
    BY <1>1, <1>2

\* An entry that may expire has a full bucket.
LEMMA ExpiredIsFull ==
    ASSUME NEW K, NEW e \in TableEntry(K), NEW t \in Times, NEW later \in Times, t <= later,
           Burst <= Rate * Idle, e.last <= e.lastSeen, t - e.lastSeen >= Idle
    PROVE  Advance(e, Burst, later) = Burst
<1>1. /\ e.tokens \in 0..Burst /\ e.last \in Int /\ e.lastSeen \in Int /\ t \in Int /\ later \in Int
      /\ Burst \in Nat /\ Rate \in Nat /\ Idle \in Nat
    BY EntryNumbers, LimiterNumbers
<1>2. Idle <= later - e.last /\ later - e.last \in Int /\ e.last <= later
    BY <1>1
<1>3. Rate * Idle <= Rate * (later - e.last)
    BY <1>1, <1>2, Monotone
<1>4. Rate * (later - e.last) \in Int /\ Rate * Idle \in Int
    BY <1>1, <1>2
<1>5. Burst <= Rate * (later - e.last)
    BY <1>1, <1>3, <1>4
<1> QED
    BY <1>1, <1>2, <1>5, Advancing

\* When a request touches a table, a bucket that is not evicted keeps its credit.
LEMMA TouchedCredit ==
    ASSUME NEW K, NEW list, NEW n \in Times, Table(K, list, n), NEW k \in K, NEW t \in Times,
           t <= n, n - t <= MaxSkew,
           NEW w \in K, NEW from \in Times, NEW later \in Times, t <= later, from <= later,
           Known(list, w, from), w = k => from <= t,
           Burst <= Rate * Idle, w \notin Evicted(list, k, t)
    PROVE  LET new == Touched(list, k, t) IN
           /\ Credit(new, w, later) = Credit(list, w, later)
           /\ Known(new, w, later)
           /\ new[1].key = k /\ new[1].lastSeen = t
<1> DEFINE new == Touched(list, k, t)
<1>1. /\ list \in Seq(TableEntry(K)) /\ Len(list) <= MaxEntries
      /\ \A i, j \in 1..Len(list) : i # j => list[i].key # list[j].key
    BY DEF Table
<1>2. Table(K, new, n) /\ Len(new) > 0
    BY TouchedTable
<1>3. PICK m \in 0..Len(list) : \E i \in 0..m : TouchedAs(K, list, k, t, new, m, i)
    BY <1>1, Touching
<1>4. w \in Keys(RemoveExpired(list, t)) => w \in Keys(new)
    BY DEF Evicted
<1> HIDE DEF new
<1>5. PICK i \in 0..m : TouchedAs(K, list, k, t, new, m, i)
    BY <1>3
<1>6. /\ \A j \in 2..Len(new) :
           /\ From(i, j) \in 1..m /\ new[j] = list[From(i, j)] /\ list[From(i, j)].key # k
      /\ new[1].key = k /\ new[1].lastSeen = t
    BY <1>1, <1>5, OthersStay
<1>7. Len(list) \in Nat /\ Len(new) \in Nat /\ 1 \in 1..Len(new) /\ m \in Nat /\ i \in Nat
    BY <1>1, <1>2, TableNumbers DEF Table
<1>8. ASSUME NEW q \in 1..Len(list), list[q].key = w, q > m
      PROVE  Credit(list, w, later) = Burst
    <2>1. q \in (m + 1)..Len(list)
        BY <1>8, <1>7
    <2>2. t - list[q].lastSeen >= Idle
        BY <2>1, <1>5 DEF TouchedAs
    <2>3. list[q].last <= list[q].lastSeen /\ list[q] \in TableEntry(K)
        BY <1>8, <1>1, TableNumbers DEF Known
    <2>4. Advance(list[q], Burst, later) = Burst
        BY <2>2, <2>3, ExpiredIsFull
    <2> QED
        BY <2>4, <1>8, CreditAt
<1>9. CASE w = k
    <2>1. Credit(new, w, later) = Advance(new[1], Burst, later)
        BY <1>2, <1>6, <1>7, <1>9, CreditAt
    <2>2. \A j \in 2..Len(new) : new[j].key # w
        BY <1>6, <1>9
    <2>3. CASE i > 0
        <3>1. i \in 1..Len(list) /\ list[i].key = k /\ new[1] = [list[i] EXCEPT !.lastSeen = t]
            BY <2>3, <1>5, <1>7 DEF TouchedAs
        <3>2. list[i] \in TableEntry(K)
            BY <3>1, <1>1, TableNumbers
        <3>3. new[1].tokens = list[i].tokens /\ new[1].last = list[i].last
            BY <3>1, <3>2 DEF TableEntry
        <3>4. Credit(list, w, later) = Advance(list[i], Burst, later)
            BY <3>1, <1>9, CreditAt
        <3>5. Credit(new, w, later) = Credit(list, w, later)
            BY <3>3, <3>4, <2>1 DEF Advance
        <3>6. list[i].last <= list[i].lastSeen /\ list[i].lastSeen <= from /\ from <= t
            BY <3>1, <1>9 DEF Known
        <3>7. list[i].last \in Int /\ list[i].lastSeen \in Int /\ from \in Int /\ t \in Int
            BY <3>2, EntryNumbers, LimiterNumbers
        <3>8. new[1].last <= new[1].lastSeen /\ new[1].lastSeen <= later
            BY <3>3, <3>6, <3>7, <1>6
        <3>9. Known(new, w, later)
            BY <3>8, <2>2, <1>7 DEF Known
        <3> QED
            BY <3>5, <3>9, <1>6 DEF new
    <2>4. CASE i = 0
        <3>1. /\ \A j \in 1..m : list[j].key # k
              /\ new[1] = [key |-> k, tokens |-> Burst, last |-> t, lastSeen |-> t]
            BY <2>4, <1>5 DEF TouchedAs
        <3>2. t \in Int /\ later \in Int /\ Burst \in Nat /\ Burst \in 0..Burst
            BY LimiterNumbers
        <3>3. Advance(new[1], Burst, later) = Burst
            BY <3>1, <3>2, Advancing
        <3>4. Credit(list, w, later) = Burst
            <4>1. CASE w \in Keys(list)
                <5>1. PICK q \in 1..Len(list) : list[q].key = w
                    BY <4>1 DEF Keys
                <5>2. q > m
                    BY <5>1, <3>1, <1>9, <1>7
                <5> QED
                    BY <5>1, <5>2, <1>8
            <4> QED
                BY <4>1 DEF Credit
        <3>5. new[1].last <= new[1].lastSeen /\ new[1].lastSeen <= later
            BY <3>1, <3>2
        <3>6. Known(new, w, later)
            BY <3>5, <2>2, <1>7 DEF Known
        <3> QED
            BY <2>1, <3>3, <3>4, <3>6, <1>6 DEF new
    <2> QED
        BY <2>3, <2>4, <1>7
<1>10. CASE w # k
    <2>1. ASSUME NEW j \in 1..Len(new), new[j].key = w
          PROVE  /\ j \in 2..Len(new) /\ From(i, j) \in 1..Len(list)
                 /\ new[j] = list[From(i, j)] /\ list[From(i, j)].key = w
        <3>1. j \in 2..Len(new)
            BY <2>1, <1>6, <1>10, <1>7
        <3> QED
            BY <3>1, <2>1, <1>6, <1>7
    <2>2. Known(new, w, later)
        <3> SUFFICES ASSUME NEW j \in 1..Len(new), new[j].key = w
                     PROVE  new[j].last <= new[j].lastSeen /\ new[j].lastSeen <= later
            BY DEF Known
        <3> DEFINE q == From(i, j)
        <3>1. q \in 1..Len(list) /\ new[j] = list[q] /\ list[q].key = w
            BY <2>1
        <3> HIDE DEF q
        <3>2. list[q].last <= list[q].lastSeen /\ list[q].lastSeen <= from
            BY <3>1 DEF Known
        <3>3. list[q].lastSeen \in Int /\ from \in Int /\ later \in Int
            BY <3>1, <1>1, TableNumbers, LimiterNumbers
        <3> QED
            BY <3>1, <3>2, <3>3
    <2>3. CASE w \in Keys(new)
        <3>1. PICK j \in 1..Len(new) : new[j].key = w
            BY <2>3 DEF Keys
        <3> DEFINE q == From(i, j)
        <3>2. q \in 1..Len(list) /\ new[j] = list[q] /\ list[q].key = w
            BY <2>1, <3>1
        <3> HIDE DEF q
        <3>3. Credit(new, w, later) = Advance(new[j], Burst, later)
            BY <3>1, <1>2, CreditAt
        <3>4. Credit(list, w, later) = Advance(list[q], Burst, later)
            BY <3>2, CreditAt
        <3> QED
            BY <3>2, <3>3, <3>4, <2>2, <1>6 DEF new
    <2>4. CASE w \notin Keys(new)
        <3>1. Credit(list, w, later) = Burst
            <4>1. CASE w \in Keys(list)
                <5>1. PICK q \in 1..Len(list) : list[q].key = w
                    BY <4>1 DEF Keys
                <5>2. q > m
                    <6>1. SUFFICES ASSUME q \in 1..m PROVE FALSE
                        BY <1>7
                    <6>2. /\ Len(SubSeq(list, 1, m)) = m /\ SubSeq(list, 1, m)[q] = list[q]
                          /\ RemoveExpired(list, t) = SubSeq(list, 1, m)
                        BY <6>1, <1>1, <1>5, FrontOf DEF TouchedAs
                    <6>3. w \in Keys(RemoveExpired(list, t))
                        BY <6>1, <6>2, <5>1 DEF Keys
                    <6> QED
                        BY <6>3, <1>4, <2>4
                <5> QED
                    BY <5>1, <5>2, <1>8
            <4> QED
                BY <4>1 DEF Credit
        <3> QED
            BY <3>1, <2>2, <2>4, <1>6 DEF Credit, new
    <2> QED
        BY <2>3, <2>4
<1> QED
    BY <1>9, <1>10

\* The first entry spends a token, which only its own key notices.
LEMMA SpentCredit ==
    ASSUME NEW K, NEW list, NEW n \in Times, Table(K, list, n), Len(list) > 0,
           NEW t \in Times, NEW w, NEW later \in Times, t <= later,
           Known(list, w, later), list[1].lastSeen = t, w = list[1].key => later = t
    PROVE  /\ Known(Spent(list, t), w, later)
           /\ IF w = list[1].key /\ HasToken(list[1], Burst, t)
              THEN Credit(Spent(list, t), w, later) = Credit(list, w, later) - 1
              ELSE Credit(Spent(list, t), w, later) = Credit(list, w, later)
<1> DEFINE new == Spent(list, t)
<1>1. list \in Seq(TableEntry(K)) /\ Len(list) \in Nat /\ 1 \in 1..Len(list) /\ list[1] \in TableEntry(K)
    BY TableNumbers DEF Table
<1>2. /\ Len(new) = Len(list) /\ new[1] = AllowN(list[1], Burst, t)
      /\ \A i \in 2..Len(list) : new[i] = list[i]
      /\ \A i \in 1..Len(list) :
           new[i].key = list[i].key /\ new[i].lastSeen = list[i].lastSeen
    BY <1>1, Spending
<1>3. Table(K, new, n)
    BY SpentTable
<1> HIDE DEF new
<1>4. IF HasToken(list[1], Burst, t)
      THEN new[1].last = t /\ Advance(new[1], Burst, t) = Advance(list[1], Burst, t) - 1
      ELSE new[1] = list[1]
    BY <1>1, <1>2, AllowingEntry
<1>5. Known(new, w, later)
    <2> SUFFICES ASSUME NEW i \in 1..Len(new), new[i].key = w
                 PROVE  new[i].last <= new[i].lastSeen /\ new[i].lastSeen <= later
        BY DEF Known
    <2>1. i \in 1..Len(list) /\ list[i].key = w
        BY <1>2
    <2>2. list[i].last <= list[i].lastSeen /\ list[i].lastSeen <= later
        BY <2>1 DEF Known
    <2>3. CASE i = 1
        <3>1. t \in Int
            BY LimiterNumbers
        <3> QED
            BY <3>1, <2>2, <2>3, <1>2, <1>4, <1>1
    <2>4. CASE i # 1
        BY <2>1, <2>2, <2>4, <1>1, <1>2
    <2> QED
        BY <2>3, <2>4
<1>6. CASE w = list[1].key
    <2>1. /\ Credit(list, w, later) = Advance(list[1], Burst, t)
          /\ Credit(new, w, later) = Advance(new[1], Burst, t)
        BY <1>6, <1>1, <1>2, <1>3, CreditAt
    <2> QED
        BY <2>1, <1>4, <1>5, <1>6 DEF new
<1>7. CASE w # list[1].key
    <2>1. CASE w \in Keys(list)
        <3>1. PICK i \in 1..Len(list) : list[i].key = w
            BY <2>1 DEF Keys
        <3>2. i \in 2..Len(list) /\ i \in 1..Len(new) /\ new[i] = list[i]
            BY <3>1, <1>7, <1>1, <1>2
        <3>3. Credit(list, w, later) = Advance(list[i], Burst, later)
            BY <3>1, CreditAt
        <3>4. Credit(new, w, later) = Advance(new[i], Burst, later)
            BY <3>1, <3>2, <1>3, CreditAt
        <3> QED
            BY <3>2, <3>3, <3>4, <1>5, <1>7 DEF new
    <2>2. CASE w \notin Keys(list)
        <3>1. w \notin Keys(new)
            BY <2>2, <1>2 DEF Keys
        <3> QED
            BY <3>1, <2>2, <1>5, <1>7 DEF Credit, new
    <2> QED
        BY <2>1, <2>2
<1> QED
    BY <1>6, <1>7

\* What a request may do to the credit of w.
LEMMA OutcomeCredit ==
    ASSUME NEW K, NEW list, NEW n \in Times, Table(K, list, n), NEW k \in K, NEW t \in Times,
           t <= n, n - t <= MaxSkew, NEW new, Outcome(list, new, k, t),
           NEW w \in K, NEW from \in Times, NEW later \in Times, t <= later, from <= later,
           Known(list, w, from), w = k => from <= t /\ later = t,
           Burst <= Rate * Idle, new # list => w \notin Evicted(list, k, t)
    PROVE  /\ Known(new, w, later)
           /\ Credit(new, w, later) \in 0..Burst
           /\ Credit(new, w, later) <= Credit(list, w, later)
           /\ w = k /\ new = Spent(Touched(list, k, t), t) /\ HasToken(Touched(list, k, t)[1], Burst, t)
                => Credit(new, w, later) <= Credit(list, w, later) - 1
<1> DEFINE mid == Touched(list, k, t)
<1>1. Table(K, mid, n) /\ Len(mid) > 0 /\ Table(K, new, n)
    BY TouchedTable, OutcomeTable
<1>2. /\ Credit(new, w, later) \in 0..Burst /\ Credit(list, w, later) \in 0..Burst
      /\ Credit(new, w, later) \in Int /\ Credit(list, w, later) \in Int
    <2>1. later <= later
        BY LimiterNumbers
    <2>2. Credit(new, w, later) \in 0..Burst /\ Credit(list, w, later) \in 0..Burst
        BY <1>1, <2>1, CreditRange
    <2> QED
        BY <2>2
<1>3. ASSUME w \notin Evicted(list, k, t)
      PROVE  /\ Credit(mid, w, later) = Credit(list, w, later)
             /\ Known(mid, w, later) /\ mid[1].key = k /\ mid[1].lastSeen = t
    BY <1>3, TouchedCredit
<1>4. ASSUME w \notin Evicted(list, k, t)
      PROVE  /\ Known(Spent(mid, t), w, later)
             /\ Credit(Spent(mid, t), w, later) =
                  IF w = k /\ HasToken(mid[1], Burst, t)
                  THEN Credit(list, w, later) - 1 ELSE Credit(list, w, later)
    <2> HIDE DEF mid
    <2> QED
        BY <1>1, <1>3, <1>4, SpentCredit
<1>5. w = k => w \notin Evicted(list, k, t)
    <2>1. PICK m \in 0..Len(list) : \E i \in 0..m : TouchedAs(K, list, k, t, mid, m, i)
        BY Touching DEF Table
    <2>2. mid[1].key = k
        BY <2>1, OthersStay DEF Table
    <2>3. 1 \in 1..Len(mid)
        BY <1>1, TableNumbers DEF Table
    <2>4. k \in Keys(mid)
        BY <2>2, <2>3 DEF Keys
    <2> QED
        BY <2>4 DEF Evicted
<1> HIDE DEF mid
<1>6. CASE new = list
    <2>1. Known(new, w, later)
        <3>1. list \in Seq(TableEntry(K))
            BY DEF Table
        <3>2. \A i \in 1..Len(list) : list[i].lastSeen \in Int
            BY <3>1, TableNumbers
        <3>3. from \in Int /\ later \in Int
            BY LimiterNumbers
        <3> QED
            BY <1>6, <3>2, <3>3 DEF Known
    <2>2. w = k /\ new = Spent(mid, t) /\ HasToken(mid[1], Burst, t)
            => Credit(new, w, later) <= Credit(list, w, later) - 1
        BY <1>2, <1>4, <1>5
    <2> QED
        BY <1>6, <2>1, <2>2, <1>2 DEF mid
<1>7. CASE new # list
    <2>1. new = mid \/ new = Spent(mid, t)
        BY <1>7 DEF Outcome, mid
    <2>2. w \notin Evicted(list, k, t)
        BY <1>7
    <2>3. CASE new = Spent(mid, t)
        BY <2>3, <2>2, <1>4, <1>2 DEF mid
    <2>4. CASE new = mid
        <3>1. w = k /\ new = Spent(mid, t) /\ HasToken(mid[1], Burst, t)
                => Credit(new, w, later) <= Credit(list, w, later) - 1
            BY <1>2, <1>4, <2>2
        <3> QED
            BY <2>4, <2>2, <1>3, <1>2, <3>1 DEF mid
    <2> QED
        BY <2>1, <2>3, <2>4
<1> QED
    BY <1>6, <1>7

-----------------------------------------------------------------------------
(* The requests that were let through, against the credit that is left.    *)

\* Up to time l, a bucket for b was granted G and has c left: what was granted
\* since some time, and what is left, were there or were earned since.
Counting(G, l, b, c) ==
    /\ G \in [Intervals -> Nat]
    /\ \A p \in Intervals : p[1] > l => G[p] = 0
    /\ \A p \in Intervals : p[1] <= l /\ l <= p[2] => G[p] = G[<<p[1], l>>]
    /\ \A p \in Intervals : G[p] <= b + Rate * (p[2] - p[1])
    /\ \A f \in 0..l : G[<<f, l>>] + c <= b + Rate * (l - f)

LEMMA IntervalNumbers ==
    /\ \A p \in Intervals : p[1] \in Times /\ p[2] \in Times /\ p[1] \in Nat /\ p[2] \in Nat /\ p[1] <= p[2]
    /\ \A f, l \in Times : f <= l => <<f, l>> \in Intervals /\ <<f, l>>[1] = f /\ <<f, l>>[2] = l
    /\ \A l \in Times : \A f \in 0..l : f \in Times /\ f <= l /\ <<f, l>> \in Intervals
<1>1. \A p \in Intervals : p[1] \in Times /\ p[2] \in Times /\ p[1] <= p[2]
    BY DEF Intervals
<1>2. \A f, l \in Times : f <= l => <<f, l>> \in Intervals
    BY DEF Intervals
<1>3. \A l \in Times : \A f \in 0..l : f \in Times /\ f <= l
    BY LimiterNumbers DEF Times
<1> QED
    BY <1>1, <1>2, <1>3, LimiterNumbers

\* Time passes.
LEMMA CountingLater ==
    ASSUME NEW G, NEW l \in Times, NEW b \in Nat, NEW c \in Int, Counting(G, l, b, c),
           NEW later \in Times, l <= later,
           NEW d \in 0..b, d <= c + Rate * (later - l)
    PROVE  Counting(G, later, b, d)
<1>1. l \in Nat /\ later \in Nat /\ Rate \in Nat /\ d \in Int
    BY LimiterNumbers
<1>2. /\ G \in [Intervals -> Nat]
      /\ \A p \in Intervals : p[1] > l => G[p] = 0
      /\ \A p \in Intervals : p[1] <= l /\ l <= p[2] => G[p] = G[<<p[1], l>>]
      /\ \A p \in Intervals : G[p] <= b + Rate * (p[2] - p[1])
      /\ \A f \in 0..l : G[<<f, l>>] + c <= b + Rate * (l - f)
    BY DEF Counting
<1>3. ASSUME NEW p \in Intervals, p[1] > later PROVE G[p] = 0
    BY <1>1, <1>2, <1>3, IntervalNumbers
<1>4. ASSUME NEW f \in Times, f <= later
      PROVE  /\ <<f, later>> \in Intervals
             /\ f <= l => G[<<f, later>>] = G[<<f, l>>]
             /\ f > l => G[<<f, later>>] = 0
    <2>1. <<f, later>> \in Intervals /\ <<f, later>>[1] = f /\ <<f, later>>[2] = later
        BY <1>4, IntervalNumbers
    <2> QED
        BY <2>1, <1>2
<1>5. ASSUME NEW p \in Intervals, p[1] <= later, later <= p[2] PROVE G[p] = G[<<p[1], later>>]
    <2>1. p[1] \in Times /\ p[2] \in Times /\ p[1] \in Nat /\ p[2] \in Nat
        BY IntervalNumbers
    <2>2. CASE p[1] <= l
        <3>1. l <= p[2]
            BY <2>1, <1>1, <1>5
        <3> QED
            BY <3>1, <2>1, <2>2, <1>2, <1>4, <1>5
    <2>3. CASE p[1] > l
        BY <2>1, <2>3, <1>2, <1>4, <1>5
    <2> QED
        BY <2>1, <2>2, <2>3, <1>1
<1>6. ASSUME NEW f \in 0..later PROVE G[<<f, later>>] + d <= b + Rate * (later - f)
    <2>0. f \in Int /\ f <= later
        BY <1>1
    <2>1. f \in Times /\ f <= later /\ f \in Int
        BY <2>0, IntervalNumbers
    <2>2. CASE f <= l
        <3>1. f \in 0..l /\ G[<<f, later>>] = G[<<f, l>>] /\ <<f, l>> \in Intervals
            BY <2>1, <2>2, <1>1, <1>4, IntervalNumbers
        <3>2. G[<<f, l>>] + c <= b + Rate * (l - f) /\ G[<<f, l>>] \in Nat
            BY <3>1, <1>2
        <3>3. /\ Rate * (later - f) = Rate * (later - l) + Rate * (l - f)
              /\ Rate * (later - l) \in Int /\ Rate * (l - f) \in Int
            BY <2>1, <1>1
        <3> QED
            BY <3>1, <3>2, <3>3, <1>1
    <2>3. CASE f > l
        <3>1. G[<<f, later>>] = 0
            BY <2>1, <2>3, <1>4
        <3>2. Rate * (later - f) \in Nat
            BY <2>1, <1>1, Linear, Monotone
        <3> QED
            BY <3>1, <3>2, <1>1
    <2> QED
        BY <2>1, <2>2, <2>3, <1>1
<1> QED
    BY <1>2, <1>3, <1>5, <1>6 DEF Counting

\* A request is let through.
LEMMA CountingOne ==
    ASSUME NEW G, NEW l \in Times, NEW b \in Nat, NEW c \in Int, Counting(G, l, b, c),
           NEW d \in Nat, d <= c - 1
    PROVE  Counting([p \in Intervals |-> G[p] + IF p[1] <= l /\ l <= p[2] THEN 1 ELSE 0], l, b, d)
<1> DEFINE N == [p \in Intervals |-> G[p] + IF p[1] <= l /\ l <= p[2] THEN 1 ELSE 0]
<1>1. l \in Nat /\ Rate \in Nat
    BY LimiterNumbers
<1>2. /\ G \in [Intervals -> Nat]
      /\ \A p \in Intervals : p[1] > l => G[p] = 0
      /\ \A p \in Intervals : p[1] <= l /\ l <= p[2] => G[p] = G[<<p[1], l>>]
      /\ \A p \in Intervals : G[p] <= b + Rate * (p[2] - p[1])
      /\ \A f \in 0..l : G[<<f, l>>] + c <= b + Rate * (l - f)
    BY DEF Counting
<1>3. /\ N \in [Intervals -> Nat]
      /\ \A p \in Intervals : p[1] <= l /\ l <= p[2] => N[p] = G[p] + 1
      /\ \A p \in Intervals : ~(p[1] <= l /\ l <= p[2]) => N[p] = G[p]
    BY <1>2
<1> HIDE DEF N
<1>4. ASSUME NEW p \in Intervals, p[1] > l PROVE N[p] = 0
    BY <1>1, <1>2, <1>3, <1>4, IntervalNumbers
<1>5. ASSUME NEW f \in 0..l
      PROVE  /\ <<f, l>> \in Intervals /\ N[<<f, l>>] = G[<<f, l>>] + 1
             /\ N[<<f, l>>] + d <= b + Rate * (l - f)
    <2>0. f \in Int /\ f <= l /\ l <= l
        BY <1>1
    <2>1. f \in Times /\ f <= l /\ l <= l /\ f \in Int
        BY <2>0, IntervalNumbers
    <2>2. <<f, l>> \in Intervals /\ <<f, l>>[1] = f /\ <<f, l>>[2] = l
        BY <2>1, IntervalNumbers
    <2>3. N[<<f, l>>] = G[<<f, l>>] + 1 /\ G[<<f, l>>] \in Nat
        BY <2>1, <2>2, <1>2, <1>3
    <2>4. G[<<f, l>>] + c <= b + Rate * (l - f)
        BY <1>2
    <2>5. Rate * (l - f) \in Int
        BY <2>1, <1>1
    <2> QED
        BY <2>2, <2>3, <2>4, <2>5
<1>6. ASSUME NEW p \in Intervals, p[1] <= l, l <= p[2]
      PROVE  N[p] = N[<<p[1], l>>] /\ N[p] <= b + Rate * (p[2] - p[1])
    <2>1. p[1] \in 0..l /\ p[1] \in Int /\ p[2] \in Int
        BY <1>1, <1>6, IntervalNumbers
    <2>2. N[p] = G[p] + 1 /\ G[p] = G[<<p[1], l>>]
        BY <1>2, <1>3, <1>6
    <2>3. N[<<p[1], l>>] = G[<<p[1], l>>] + 1 /\ N[<<p[1], l>>] + d <= b + Rate * (l - p[1])
        BY <2>1, <1>5
    <2>4. N[<<p[1], l>>] \in Int
        BY <2>1, <1>5, <1>3
    <2>5. Rate * (l - p[1]) <= Rate * (p[2] - p[1])
        BY <2>1, <1>1, <1>6, Monotone
    <2>6. Rate * (l - p[1]) \in Int /\ Rate * (p[2] - p[1]) \in Int
        BY <2>1, <1>1
    <2> QED
        BY <2>2, <2>3, <2>4, <2>5, <2>6
<1>7. ASSUME NEW p \in Intervals PROVE N[p] <= b + Rate * (p[2] - p[1])
    BY <1>2, <1>3, <1>6
<1>8. Counting(N, l, b, d)
    BY <1>3, <1>4, <1>5, <1>6, <1>7 DEF Counting
<1> QED
    BY <1>8 DEF N

\* The bucket whose requests are counted.
WatchedBurst == IF watched = AllRequests THEN AllBurst ELSE Burst

WatchedCredit(t) ==
    IF watched = AllRequests THEN Advance(global, AllBurst, t)
    ELSE IF watched \in Clients THEN Credit(sources, watched, t)
    ELSE Credit(usernames, watched, t)

Watchable == steady /\ (watched = AllRequests \/ Burst <= Rate * Idle)

RateInv ==
    /\ watched \in Counted(kind)
    /\ latest \in Times
    /\ steady \in BOOLEAN
    /\ Watchable =>
         /\ Counting(granted, latest, WatchedBurst, WatchedCredit(latest))
         /\ watched \in Clients => Known(sources, watched, latest)
         /\ watched \in Users => Known(usernames, watched, latest)

LEMMA RateInitial == LimiterInit => RateInv
<1> SUFFICES ASSUME LimiterInit PROVE RateInv
    OBVIOUS
<1>1. 0 \in Times /\ latest = 0
    BY LimiterNumbers DEF LimiterInit, Times
<1>2. watched \in Counted(kind) /\ steady = TRUE
    BY DEF LimiterInit
<1>3. sources = <<>> /\ usernames = <<>> /\ global = [tokens |-> AllBurst, last |-> 0] /\ granted = Zeros
    BY DEF LimiterInit, NewClientLimiters, NewPasswordLimiter, NewExchangeLimiter
<1>4. Known(sources, watched, latest) /\ Known(usernames, watched, latest)
    BY <1>3 DEF Known
<1>5. WatchedCredit(latest) = WatchedBurst /\ WatchedBurst \in Nat
    <2>1. CASE watched = AllRequests
        <3>1. AllBurst \in Nat /\ AllBurst \in 0..AllBurst /\ 0 \in Int /\ 0 <= 0
            BY LimiterNumbers
        <3>2. global.tokens = AllBurst /\ global.last = 0
            BY <1>3
        <3>3. Advance(global, AllBurst, 0) = AllBurst
            BY <3>1, <3>2, Advancing
        <3> QED
            BY <2>1, <3>1, <3>3, <1>1 DEF WatchedCredit, WatchedBurst
    <2>2. CASE watched # AllRequests
        <3>1. Keys(sources) = {} /\ Keys(usernames) = {}
            BY <1>3 DEF Keys
        <3> QED
            BY <2>2, <3>1, LimiterNumbers DEF WatchedCredit, WatchedBurst, Credit
    <2> QED
        BY <2>1, <2>2
<1>6. Counting(granted, latest, WatchedBurst, WatchedCredit(latest))
    <2>1. granted \in [Intervals -> Nat] /\ \A p \in Intervals : granted[p] = 0
        BY <1>3 DEF Zeros
    <2>2. \A p \in Intervals : p[1] <= latest /\ latest <= p[2] => <<p[1], latest>> \in Intervals
        BY <1>1, IntervalNumbers
    <2>3. ASSUME NEW p \in Intervals PROVE granted[p] <= WatchedBurst + Rate * (p[2] - p[1])
        <3>1. p[2] - p[1] \in Nat /\ Rate \in Nat
            BY IntervalNumbers, LimiterNumbers
        <3>2. Rate * (p[2] - p[1]) \in Nat
            BY <3>1, Linear, Monotone
        <3> QED
            BY <3>2, <2>1, <1>5
    <2>4. ASSUME NEW f \in 0..latest
          PROVE  granted[<<f, latest>>] + WatchedCredit(latest) <= WatchedBurst + Rate * (latest - f)
        <3>1. f = 0 /\ <<0, 0>> \in Intervals
            BY <1>1, IntervalNumbers
        <3>2. granted[<<f, latest>>] = 0 /\ Rate * (latest - f) = 0
            BY <3>1, <2>1, <1>1, LimiterNumbers
        <3> QED
            BY <3>2, <1>5
    <2> QED
        BY <2>1, <2>2, <2>3, <2>4 DEF Counting
<1> QED
    BY <1>1, <1>2, <1>4, <1>6 DEF RateInv

\* The history of a decision, for the bucket that is counted.
LEMMA Recorded ==
    ASSUME NEW c, NEW u, NEW t \in Times, NEW ok \in BOOLEAN, Record(c, u, t, ok), steady',
           latest \in Times, NEW b \in Nat, NEW before \in Int,
           Counting(granted, latest, b, before),
           NEW d \in 0..b, d <= before + Rate * (latest' - latest),
           NEW left \in Nat, left <= d,
           ok /\ watched \in {c, u, AllRequests} => left <= d - 1
    PROVE  Counting(granted', latest', b, left)
<1>1. t \in Int /\ latest \in Int /\ Rate \in Nat
    BY LimiterNumbers
<1>2. latest' = IF latest >= t THEN latest ELSE t
    BY <1>1, LargerOfTwo DEF Record
<1>3. latest' \in Times /\ latest <= latest' /\ latest' \in Int
    BY <1>1, <1>2
<1>4. watched \in {c, u, AllRequests} => latest <= t /\ latest' = t
    <2>1. watched \in {c, u, AllRequests} => latest <= t
        BY DEF Record
    <2> QED
        BY <2>1, <1>1, <1>2
<1>5. Counting(granted, latest', b, d)
    BY <1>3, CountingLater
<1>6. CASE ok /\ watched \in {c, u, AllRequests}
    <2>1. granted' = [p \in Intervals |-> granted[p] + IF p[1] <= t /\ t <= p[2] THEN 1 ELSE 0]
        BY <1>6 DEF Record
    <2>2. left <= d - 1 /\ d \in Int
        BY <1>6
    <2> QED
        BY <2>1, <2>2, <1>3, <1>4, <1>5, <1>6, CountingOne
<1>7. CASE ~(ok /\ watched \in {c, u, AllRequests})
    <2>1. granted' = granted
        BY <1>7 DEF Record
    <2>2. latest' <= latest' /\ latest' - latest' = 0
        <3>1. ASSUME NEW x \in Int PROVE x <= x /\ x - x = 0
            OBVIOUS
        <3> QED
            BY <3>1, <1>3
    <2>3. d \in Int /\ left \in 0..b
        OBVIOUS
    <2>4. left <= d + Rate * (latest' - latest')
        BY <2>2, <2>3, <1>1
    <2>5. Counting(granted, latest', b, left)
        BY <1>3, <1>5, <2>2, <2>3, <2>4, CountingLater
    <2> QED
        BY <2>1, <2>5
<1> QED
    BY <1>6, <1>7

\* A decision, for the bucket that all requests share.
LEMMA AllowAll ==
    ASSUME LimiterInv, RateInv, NEW g \in Goroutines, Allow(g), watched = AllRequests, steady'
    PROVE  Counting(granted', latest', AllBurst, Advance(global', AllBurst, latest'))
<1> DEFINE c == asked[g][1]
           u == asked[g][2]
           t == stamp[g]
<1>1. PICK ok \in BOOLEAN :
        /\ \/ kind = "dns" /\ AllowQuery(c, t, ok)
           \/ kind = "exchange" /\ AllowExchange(c, t, ok)
           \/ kind = "password" /\ AllowPassword(c, u, t, ok)
        /\ Record(c, u, t, ok)
    BY DEF Allow
<1>2. t \in Times
    BY DEF LimiterInv
<1>3. kind # "dns"
    BY LimiterAssumption DEF LimiterAssumption, RateInv, Counted
<1> HIDE DEF c, u, t
<1>4. global' = AllowN(global, AllBurst, t) /\ (ok => HasToken(global, AllBurst, t))
    BY <1>1, <1>3 DEF AllowExchange, AllowPassword
<1>5. latest \in Times /\ latest \in Int /\ t \in Int /\ AllBurst \in Nat
    BY <1>2, LimiterNumbers DEF RateInv
<1>6. latest <= t /\ latest' = t /\ steady
    <2>1. latest <= t /\ latest' = Max({latest, t}) /\ steady
        BY <1>1 DEF Record
    <2> QED
        BY <2>1, <1>5, LargerOfTwo
<1>7. global \in AllBucket /\ global' \in AllBucket
    BY <1>2, <1>4, AllowingAll DEF LimiterInv
<1>8. /\ global.tokens \in 0..AllBurst /\ global.last \in Int
      /\ global'.tokens \in 0..AllBurst /\ global'.last \in Int
    BY <1>7, LimiterNumbers DEF AllBucket
<1> DEFINE before == Advance(global, AllBurst, latest)
           d == Advance(global, AllBurst, t)
           left == Advance(global', AllBurst, t)
<1>9. /\ before \in 0..AllBurst /\ d \in 0..AllBurst /\ d <= before + Rate * (t - latest)
    <2>1. before \in 0..AllBurst /\ d <= before + Rate * (t - latest)
        BY ONLY <1>5, <1>6, <1>8, Advancing
    <2>2. t <= t
        BY <1>5
    <2>3. d \in 0..AllBurst
        BY ONLY <2>2, <1>5, <1>8, Advancing
    <2> QED
        BY <2>1, <2>3
<1>10. left \in 0..AllBurst
    <2>1. t <= t
        BY <1>5
    <2> QED
        BY ONLY <2>1, <1>5, <1>8, Advancing
<1>11. IF HasToken(global, AllBurst, t) THEN left = d - 1 ELSE left = d
    BY <1>2, <1>4, <1>7, AllowingAll
<1>12. Counting(granted, latest, AllBurst, before)
    BY <1>6 DEF RateInv, Watchable, WatchedBurst, WatchedCredit
<1> HIDE DEF before, d, left
<1>13. left \in Nat /\ left <= d /\ (ok => left <= d - 1) /\ before \in Int
    BY <1>4, <1>9, <1>10, <1>11
<1>14. Counting(granted', latest', AllBurst, left)
    BY <1>1, <1>2, <1>5, <1>6, <1>9, <1>12, <1>13, Recorded
<1> QED
    BY <1>14, <1>6 DEF left

\* A decision, for the bucket of a client.
LEMMA AllowClient ==
    ASSUME LimiterInv, RateInv, NEW g \in Goroutines, Allow(g), watched \in Clients, steady',
           Burst <= Rate * Idle
    PROVE  /\ Counting(granted', latest', Burst, Credit(sources', watched, latest'))
           /\ Known(sources', watched, latest')
<1> DEFINE c == asked[g][1]
           u == asked[g][2]
           t == stamp[g]
<1>1. PICK ok \in BOOLEAN :
        /\ \/ kind = "dns" /\ AllowQuery(c, t, ok)
           \/ kind = "exchange" /\ AllowExchange(c, t, ok)
           \/ kind = "password" /\ AllowPassword(c, u, t, ok)
        /\ Record(c, u, t, ok)
    BY DEF Allow
<1>2. /\ t \in Times /\ t <= now /\ now - t <= MaxSkew /\ c \in Clients
      /\ u = NoKey \/ u \in Users
      /\ Outcome(sources, sources', c, t)
    BY AllowSteps
<1> HIDE DEF c, u, t
<1>3. ok => sources' = Spent(Touched(sources, c, t), t) /\ HasToken(Touched(sources, c, t)[1], Burst, t)
    BY <1>1 DEF AllowQuery, AllowExchange, AllowPassword
<1>4. watched # AllRequests /\ watched # u /\ watched \notin Users
    BY <1>2, LimiterAssumption DEF LimiterAssumption
<1>5. /\ steady /\ latest' = Max({latest, t})
      /\ watched = c => latest <= t
      /\ sources' # sources => watched \notin Evicted(sources, c, t)
    BY <1>1 DEF Record
<1>6. latest \in Times /\ latest \in Int /\ t \in Int /\ Burst \in Nat
    BY <1>2, LimiterNumbers DEF RateInv
<1>7. latest' = IF latest >= t THEN latest ELSE t
    BY <1>5, <1>6, LargerOfTwo
<1>8. latest' \in Times /\ t <= latest' /\ latest <= latest' /\ (watched = c => latest <= t /\ latest' = t)
    BY <1>2, <1>5, <1>6, <1>7
<1>9. now \in Times /\ Table(Clients, sources, now)
    BY DEF LimiterInv
<1>10. /\ Known(sources, watched, latest)
       /\ Counting(granted, latest, Burst, Credit(sources, watched, latest))
    BY <1>4, <1>5 DEF RateInv, Watchable, WatchedBurst, WatchedCredit
<1> DEFINE before == Credit(sources, watched, latest)
           d == Credit(sources, watched, latest')
           left == Credit(sources', watched, latest')
<1>11. /\ Known(sources', watched, latest') /\ left \in 0..Burst /\ left <= d
       /\ watched = c /\ ok => left <= d - 1
    BY <1>2, <1>3, <1>6, <1>8, <1>9, <1>10, <1>5, OutcomeCredit
<1>12. before \in 0..Burst /\ d <= before + Rate * (latest' - latest)
    BY <1>6, <1>8, <1>9, CreditRange
<1>13. d \in 0..Burst
    <2>1. latest' <= latest'
        BY <1>6, <1>7
    <2> QED
        BY <2>1, <1>8, <1>9, CreditRange
<1> HIDE DEF before, d, left
<1>14. left \in Nat /\ before \in Int
    BY <1>11, <1>12
<1>15. Counting(granted, latest, Burst, before)
    BY <1>10 DEF before
<1>16. ok /\ watched \in {c, u, AllRequests} => left <= d - 1
    BY <1>4, <1>11
<1>17. Counting(granted', latest', Burst, left)
    BY <1>1, <1>2, <1>6, <1>11, <1>12, <1>13, <1>14, <1>15, <1>16, Recorded
<1> QED
    BY <1>11, <1>17 DEF left

\* A decision, for the bucket of a user name.
LEMMA AllowUser ==
    ASSUME LimiterInv, RateInv, NEW g \in Goroutines, Allow(g), watched \in Users, steady',
           Burst <= Rate * Idle
    PROVE  /\ Counting(granted', latest', Burst, Credit(usernames', watched, latest'))
           /\ Known(usernames', watched, latest')
<1> DEFINE c == asked[g][1]
           u == asked[g][2]
           t == stamp[g]
<1>1. PICK ok \in BOOLEAN :
        /\ \/ kind = "dns" /\ AllowQuery(c, t, ok)
           \/ kind = "exchange" /\ AllowExchange(c, t, ok)
           \/ kind = "password" /\ AllowPassword(c, u, t, ok)
        /\ Record(c, u, t, ok)
    BY DEF Allow
<1>2. /\ t \in Times /\ t <= now /\ now - t <= MaxSkew /\ c \in Clients
      /\ u = NoKey \/ u \in Users
    BY AllowSteps
<1>3. asked[g] \in Requests[kind] /\ kind \in DOMAIN Requests
    BY DEF LimiterInv, Underway, Allow
<1>4. watched # AllRequests /\ watched # c /\ watched \notin Clients
    BY <1>2, LimiterAssumption DEF LimiterAssumption
<1>5. kind = "password"
    BY <1>3, <1>4, LimiterAssumption DEF LimiterAssumption, RateInv, Counted
<1>6. u \in Users
    <2>1. asked[g] \in Clients \X Users
        BY <1>3, <1>5, LimiterAssumption DEF LimiterAssumption
    <2> QED
        BY <2>1
<1> HIDE DEF c, u, t
<1>7. /\ Outcome(usernames, usernames', u, t)
      /\ ok => /\ usernames' = Spent(Touched(usernames, u, t), t)
               /\ HasToken(Touched(usernames, u, t)[1], Burst, t)
    BY <1>1, <1>5 DEF AllowPassword, Outcome
<1>8. /\ steady /\ latest' = Max({latest, t})
      /\ watched = u => latest <= t
      /\ usernames' # usernames => watched \notin Evicted(usernames, u, t)
    BY <1>1 DEF Record
<1>9. latest \in Times /\ latest \in Int /\ t \in Int /\ Burst \in Nat
    BY <1>2, LimiterNumbers DEF RateInv
<1>10. latest' = IF latest >= t THEN latest ELSE t
    BY <1>8, <1>9, LargerOfTwo
<1>11. latest' \in Times /\ t <= latest' /\ latest <= latest' /\ (watched = u => latest <= t /\ latest' = t)
    BY <1>2, <1>8, <1>9, <1>10
<1>12. now \in Times /\ Table(Users, usernames, now)
    BY DEF LimiterInv
<1>13. /\ Known(usernames, watched, latest)
       /\ Counting(granted, latest, Burst, Credit(usernames, watched, latest))
    BY <1>4, <1>8 DEF RateInv, Watchable, WatchedBurst, WatchedCredit
<1> DEFINE before == Credit(usernames, watched, latest)
           d == Credit(usernames, watched, latest')
           left == Credit(usernames', watched, latest')
<1>14. /\ Known(usernames', watched, latest') /\ left \in 0..Burst /\ left <= d
       /\ watched = u /\ ok => left <= d - 1
    BY <1>2, <1>6, <1>7, <1>8, <1>9, <1>11, <1>12, <1>13, OutcomeCredit
<1>15. before \in 0..Burst /\ d <= before + Rate * (latest' - latest)
    BY <1>9, <1>11, <1>12, CreditRange
<1>16. d \in 0..Burst
    <2>1. latest' <= latest'
        BY <1>9, <1>10
    <2> QED
        BY <2>1, <1>11, <1>12, CreditRange
<1> HIDE DEF before, d, left
<1>17. left \in Nat /\ before \in Int
    BY <1>14, <1>15
<1>18. Counting(granted, latest, Burst, before)
    BY <1>13 DEF before
<1>19. ok /\ watched \in {c, u, AllRequests} => left <= d - 1
    BY <1>4, <1>14
<1>20. Counting(granted', latest', Burst, left)
    BY <1>1, <1>2, <1>9, <1>14, <1>15, <1>16, <1>17, <1>18, <1>19, Recorded
<1> QED
    BY <1>14, <1>20 DEF left

LEMMA RateStep == LimiterInv /\ RateInv /\ [LimiterNext]_limiterVars => RateInv'
<1> SUFFICES ASSUME LimiterInv, RateInv, [LimiterNext]_limiterVars PROVE RateInv'
    OBVIOUS
<1>1. ASSUME UNCHANGED <<kind, sources, usernames, global, history>> PROVE RateInv'
    BY <1>1 DEF history, RateInv, Watchable, WatchedBurst, WatchedCredit
<1>2. ASSUME NEW g \in Goroutines, Allow(g) PROVE RateInv'
    <2>1. UNCHANGED <<kind, watched>>
        BY <1>2 DEF Allow, Record
    <2>2. latest' \in Times /\ steady' \in BOOLEAN
        <3>1. \E t \in Times : latest' = Max({latest, t})
            BY <1>2 DEF Allow, Record, LimiterInv
        <3>2. latest' \in Times
            BY <3>1, LargerOfTwo, LimiterNumbers DEF RateInv
        <3>3. steady' \in BOOLEAN
            BY <1>2 DEF Allow, Record
        <3> QED
            BY <3>2, <3>3
    <2>3. watched \in Clients \cup Users \cup {AllRequests}
        BY LimiterAssumption DEF LimiterAssumption, RateInv, LimiterInv, Counted
    <2>4. AllRequests \notin Clients \cup Users /\ Clients \cap Users = {}
        BY LimiterAssumption DEF LimiterAssumption
    <2>5. ASSUME Watchable'
          PROVE  /\ Counting(granted', latest', WatchedBurst', WatchedCredit(latest)')
                 /\ watched' \in Clients => Known(sources', watched', latest')
                 /\ watched' \in Users => Known(usernames', watched', latest')
        <3>1. steady' /\ (watched = AllRequests \/ Burst <= Rate * Idle)
            BY <2>1, <2>5 DEF Watchable
        <3>2. CASE watched = AllRequests
            BY <3>1, <3>2, <1>2, <2>1, <2>4, AllowAll DEF WatchedBurst, WatchedCredit
        <3>3. CASE watched \in Clients
            BY <3>1, <3>3, <1>2, <2>1, <2>4, AllowClient DEF WatchedBurst, WatchedCredit
        <3>4. CASE watched \in Users
            BY <3>1, <3>4, <1>2, <2>1, <2>4, AllowUser DEF WatchedBurst, WatchedCredit
        <3> QED
            BY <2>3, <3>2, <3>3, <3>4
    <2> QED
        BY <2>1, <2>2, <2>5 DEF RateInv
<1> QED
    BY <1>1, <1>2 DEF LimiterNext, LimiterTick, Admit, limiterVars

\* The limiters keep their promise: of the requests of one bucket that arrive in
\* some interval, no more are let through than its burst and what it earns in
\* that time, whatever the interleaving of the goroutines.
THEOREM RateIsBounded == LimiterSpec => []RateBound
<1>1. LimiterInv /\ RateInv => RateBound
    <2> SUFFICES ASSUME RateInv, Watchable, NEW p \in Intervals
                 PROVE  granted[p] <= WatchedBurst + Rate * (p[2] - p[1])
        BY DEF RateBound, Watchable, WatchedBurst
    <2> QED
        BY DEF RateInv, Counting
<1> QED
    BY <1>1, LimiterInitial, LimiterStep, RateInitial, RateStep, PTL DEF LimiterSpec
=============================================================================
