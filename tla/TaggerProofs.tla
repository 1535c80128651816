---------------------------- MODULE TaggerProofs ----------------------------
(***************************************************************************)
(* Proofs about Tagger, SyncExecutor and TagTables: for any number of      *)
(* callers, any hosts, networks and labels, any tables from before, and    *)
(* requests with lists of any length.                                      *)
(***************************************************************************)
EXTENDS Tagger, FiniteSetTheorems, TLAPS

-----------------------------------------------------------------------------
(* Lists.                                                                  *)

\* SetToSeq lists a finite set completely.
LEMMA Listed ==
    ASSUME NEW S, IsFiniteSet(S)
    PROVE  /\ SetToSeq(S) \in Seq(S)
           /\ Len(SetToSeq(S)) \in Nat
           /\ DOMAIN SetToSeq(S) = 1 .. Len(SetToSeq(S))
           /\ \A i \in 1 .. Len(SetToSeq(S)) : SetToSeq(S)[i] \in S
           /\ \A x \in S : \E i \in 1 .. Len(SetToSeq(S)) : SetToSeq(S)[i] = x
           /\ Len(SetToSeq(S)) = 0 <=> S = {}
<1> DEFINE n == Cardinality(S)
           f == SetToSeq(S)
<1>1. n \in Nat /\ ExistsBijection(1..n, S)
    BY FS_CardinalityType
<1>2. PICK g : g \in Bijection(1..n, S)
    BY <1>1 DEF ExistsBijection
<1>3. g \in [1..n -> S] /\ IsInjective(g)
    BY <1>2 DEF Bijection, Injection, IsInjective
<1>4. f \in [1..n -> S] /\ IsInjective(f)
    BY <1>3 DEF SetToSeq
<1>5. f \in Injection(1..n, S)
    BY <1>4 DEF Injection
<1>6. IsFiniteSet(1..n) /\ Cardinality(1..n) = n
    BY <1>1, FS_Interval
<1>7. f \in Surjection(1..n, S)
    BY <1>5, <1>6, FS_Injection
<1>8. \A x \in S : \E i \in 1..n : f[i] = x
    BY <1>7 DEF Surjection
<1> HIDE DEF f, n
<1>9. f \in Seq(S) /\ Len(f) = n /\ DOMAIN f = 1..n
    BY <1>1, <1>4
<1>10. n = 0 <=> S = {}
    BY <1>1, <1>4, <1>8
<1> QED
    BY <1>1, <1>4, <1>8, <1>9, <1>10 DEF f

\* The numbers of a pair of statements.
LEMMA Halves ==
    ASSUME NEW i \in Nat
    PROVE  /\ i % 2 = 0 \/ i % 2 = 1
           /\ i \div 2 \in Nat
           /\ i % 2 = 0 => i = 2 * (i \div 2)
           /\ i % 2 = 1 => i = 2 * (i \div 2) + 1
BY SMT

-----------------------------------------------------------------------------
(* What the statements do.                                                 *)

LEMMA TableFields ==
    ASSUME NEW ls, NEW ms, NEW ps
    PROVE  /\ Table(ls, ms, ps).labels = ls
           /\ Table(ls, ms, ps).members = ms
           /\ Table(ls, ms, ps).pairs = ps
           /\ Table(ls, ms, ps) \in Tables <=>
                /\ ls \subseteq Labels /\ ms \subseteq Members
                /\ ps \subseteq Members \X Labels
BY DEF Table, Tables

LEMMA TableShape ==
    ASSUME NEW t \in Tables
    PROVE  t = Table(t.labels, t.members, t.pairs)
BY DEF Table, Tables

\* Inserts.
LEMMA InsertLabel ==
    ASSUME NEW ls, NEW ms, NEW ps, NEW x
    PROVE  Effect(Insert("labels", x), Table(ls, ms, ps)) = Table(ls \cup {x}, ms, ps)
<1> DEFINE t == Table(ls, ms, ps)
           q == ls \cup {x}
<1>0. q = t.labels \cup {x}
    BY TableFields
<1> HIDE DEF q, t
<1>1. Effect(Insert("labels", x), t) = [t EXCEPT !.labels = q]
    BY <1>0 DEF Effect, Insert
<1>2. [t EXCEPT !.labels = q] = Table(q, ms, ps)
    BY DEF Table, t
<1> QED
    BY <1>1, <1>2 DEF q, t

LEMMA InsertMember ==
    ASSUME NEW ls, NEW ms, NEW ps, NEW x
    PROVE  Effect(Insert("members", x), Table(ls, ms, ps)) = Table(ls, ms \cup {x}, ps)
<1> DEFINE t == Table(ls, ms, ps)
           q == ms \cup {x}
<1>0. q = t.members \cup {x}
    BY TableFields
<1> HIDE DEF q, t
<1>1. Effect(Insert("members", x), t) = [t EXCEPT !.members = q]
    BY <1>0 DEF Effect, Insert
<1>2. [t EXCEPT !.members = q] = Table(ls, q, ps)
    BY DEF Table, t
<1> QED
    BY <1>1, <1>2 DEF q, t

LEMMA InsertNewMember ==
    ASSUME NEW ls, NEW ms, NEW ps, NEW x
    PROVE  Effect(InsertNew("members", x), Table(ls, ms, ps)) = Table(ls, ms \cup {x}, ps)
<1> DEFINE t == Table(ls, ms, ps)
           q == ms \cup {x}
<1>0. q = t.members \cup {x}
    BY TableFields
<1> HIDE DEF q, t
<1>1. Effect(InsertNew("members", x), t) = [t EXCEPT !.members = q]
    BY <1>0 DEF Effect, InsertNew
<1>2. [t EXCEPT !.members = q] = Table(ls, q, ps)
    BY DEF Table, t
<1> QED
    BY <1>1, <1>2 DEF q, t

LEMMA InsertPair ==
    ASSUME NEW ls, NEW ms, NEW ps, NEW x
    PROVE  Effect(Insert("pairs", x), Table(ls, ms, ps)) = Table(ls, ms, ps \cup {x})
<1> DEFINE t == Table(ls, ms, ps)
           q == ps \cup {x}
<1>0. q = t.pairs \cup {x}
    BY TableFields
<1> HIDE DEF q, t
<1>1. Effect(Insert("pairs", x), t) = [t EXCEPT !.pairs = q]
    BY <1>0 DEF Effect, Insert
<1>2. [t EXCEPT !.pairs = q] = Table(ls, ms, q)
    BY DEF Table, t
<1> QED
    BY <1>1, <1>2 DEF q, t

LEMMA InsertNewPair ==
    ASSUME NEW ls, NEW ms, NEW ps, NEW x
    PROVE  Effect(InsertNew("pairs", x), Table(ls, ms, ps)) = Table(ls, ms, ps \cup {x})
<1> DEFINE t == Table(ls, ms, ps)
           q == ps \cup {x}
<1>0. q = t.pairs \cup {x}
    BY TableFields
<1> HIDE DEF q, t
<1>1. Effect(InsertNew("pairs", x), t) = [t EXCEPT !.pairs = q]
    BY <1>0 DEF Effect, InsertNew
<1>2. [t EXCEPT !.pairs = q] = Table(ls, ms, q)
    BY DEF Table, t
<1> QED
    BY <1>1, <1>2 DEF q, t

LEMMA CascadeTable ==
    ASSUME NEW ls, NEW ms, NEW ps, NEW q, q = {p \in ps : p[1] \in ms /\ p[2] \in ls}
    PROVE  Cascade(Table(ls, ms, ps)) = Table(ls, ms, q)
<1> DEFINE t == Table(ls, ms, ps)
<1>1. t.labels = ls /\ t.members = ms /\ t.pairs = ps
    BY TableFields
<1>2. Cascade(t) = [t EXCEPT !.pairs = q]
    BY <1>1 DEF Cascade
<1>3. [t EXCEPT !.pairs = q] = Table(ls, ms, q)
    BY DEF Table
<1> QED
    BY <1>2, <1>3

\* The rows of member_labels have their member and their label.
Whole(t) == t.pairs \subseteq t.members \X t.labels

\* Deletes, with what the foreign keys take along.
LEMMA DeleteOfLabel ==
    ASSUME NEW ls, NEW ms, NEW ps, ps \subseteq ms \X ls, NEW x
    PROVE  Effect(Delete("labels", x), Table(ls, ms, ps))
             = Table(ls \ {x}, ms, {p \in ps : p[2] # x})
<1> DEFINE t == Table(ls, ms, ps)
           y == ls \ {x}
           z == {p \in ps : p[2] # x}
<1>0. y = t.labels \ {x}
    BY TableFields
<1>1. Effect(Delete("labels", x), t) = Cascade([t EXCEPT !.labels = y])
    <2> HIDE DEF t, y
    <2> QED
        BY <1>0 DEF Effect, Delete
<1>2. z = {p \in ps : p[1] \in ms /\ p[2] \in y}
    OBVIOUS
<1> HIDE DEF y, z
<1>3. [t EXCEPT !.labels = y] = Table(y, ms, ps)
    BY DEF Table
<1> QED
    BY <1>1, <1>2, <1>3, CascadeTable DEF y, z

LEMMA DeleteOfMember ==
    ASSUME NEW ls, NEW ms, NEW ps, ps \subseteq ms \X ls, NEW x
    PROVE  Effect(Delete("members", x), Table(ls, ms, ps))
             = Table(ls, ms \ {x}, {p \in ps : p[1] # x})
<1> DEFINE t == Table(ls, ms, ps)
           y == ms \ {x}
           z == {p \in ps : p[1] # x}
<1>0. y = t.members \ {x}
    BY TableFields
<1>1. Effect(Delete("members", x), t) = Cascade([t EXCEPT !.members = y])
    <2> HIDE DEF t, y
    <2> QED
        BY <1>0 DEF Effect, Delete
<1>2. z = {p \in ps : p[1] \in y /\ p[2] \in ls}
    OBVIOUS
<1> HIDE DEF y, z
<1>3. [t EXCEPT !.members = y] = Table(ls, y, ps)
    BY DEF Table
<1> QED
    BY <1>1, <1>2, <1>3, CascadeTable DEF y, z

LEMMA DeleteOfPair ==
    ASSUME NEW ls, NEW ms, NEW ps, ps \subseteq ms \X ls, NEW x
    PROVE  Effect(Delete("pairs", x), Table(ls, ms, ps)) = Table(ls, ms, ps \ {x})
<1> DEFINE t == Table(ls, ms, ps)
           y == ps \ {x}
<1>0. y = t.pairs \ {x}
    BY TableFields
<1>1. Effect(Delete("pairs", x), t) = Cascade([t EXCEPT !.pairs = y])
    <2> HIDE DEF t, y
    <2> QED
        BY <1>0 DEF Effect, Delete
<1>2. y = {p \in y : p[1] \in ms /\ p[2] \in ls}
    OBVIOUS
<1> HIDE DEF y
<1>3. [t EXCEPT !.pairs = y] = Table(ls, ms, y)
    BY DEF Table
<1> QED
    BY <1>1, <1>2, <1>3, CascadeTable DEF y

LEMMA DeleteOfBare ==
    ASSUME NEW ls, NEW ms, NEW ps, ps \subseteq ms \X ls, NEW x,
           NEW y, y = IF \E p \in ps : p[1] = x THEN ms ELSE ms \ {x}
    PROVE  Effect(DeleteBare(x), Table(ls, ms, ps)) = Table(ls, y, ps)
<1> DEFINE t == Table(ls, ms, ps)
<1>0. t.members = ms /\ t.pairs = ps
    BY TableFields
<1>1. CASE \E p \in ps : p[1] = x
    BY <1>1 DEF Effect, DeleteBare, Table
<1>2. CASE ~ \E p \in ps : p[1] = x
    <2>1. Effect(DeleteBare(x), t) = Cascade([t EXCEPT !.members = y])
        <3> HIDE DEF t
        <3> QED
            BY <1>0, <1>2 DEF Effect, DeleteBare
    <2>2. ps = {p \in ps : p[1] \in y /\ p[2] \in ls}
        BY <1>2
    <2>3. [t EXCEPT !.members = y] = Table(ls, y, ps)
        BY DEF Table
    <2> QED
        BY <2>1, <2>2, <2>3, CascadeTable
<1> QED
    BY <1>1, <1>2

-----------------------------------------------------------------------------
(* What a request has done after n of its statements, in closed form.      *)

\* The list that the statements of a request go through.
List(r) == SetToSeq(r.set \ {Blank})

\* Its elements that have been handled when statement n has been executed, and
\* 2 * i + k is the statement for element i.
Handled(r, n, k) == {List(r)[i] : i \in {j \in 1 .. Len(List(r)) : 2 * j + k <= n}}

AfterAdd(r, n, t) ==
    Table(t.labels \cup {r.label},
          t.members \cup Handled(r, n, 0),
          t.pairs \cup (Handled(r, n, 1) \X {r.label}))

AfterReplace(r, n, t) ==
    Table(t.labels \cup Handled(r, n, 1),
          IF n = 1 THEN t.members \ {r.address} ELSE t.members \cup {r.address},
          {p \in t.pairs : p[1] # r.address} \cup ({r.address} \X Handled(r, n, 2)))

AfterRemove(r, n, t) ==
    IF n = 1 THEN Table(t.labels, t.members, t.pairs \ {<<r.address, r.label>>})
             ELSE Outcome(r, t)

After(r, n, t) ==
    IF n = 0 THEN t
    ELSE CASE r.kind = "add" -> AfterAdd(r, n, t)
           [] r.kind = "replace" -> AfterReplace(r, n, t)
           [] r.kind = "remove" -> AfterRemove(r, n, t)
           [] OTHER -> Outcome(r, t)

\* The requests that reach the executor.
Changes == {"create", "add", "replace", "remove", "deleteMember", "deleteLabel"}

LEMMA RequestTyped ==
    ASSUME NEW r \in Requests
    PROVE  /\ r.kind \in Changes \cup Reads
           /\ r.label \in Labels \cup {Blank}
           /\ r.address \in Members \cup {Blank}
           /\ IsFiniteSet(r.set \ {Blank})
           /\ r.kind = "replace" => r.set \ {Blank} \subseteq Labels
           /\ r.kind = "add" => r.set \ {Blank} \subseteq Members
<1>1. IsFiniteSet(r.set \ {Blank})
    BY TaggerAssumption, FS_Subset DEF TaggerAssumption
<1> QED
    BY <1>1, TaggerAssumption DEF TaggerAssumption, Changes, Reads

\* The list has the names of the request, without the blank ones.
LEMMA ListTyped ==
    ASSUME NEW r \in Requests
    PROVE  /\ Len(List(r)) \in Nat
           /\ \A i \in 1 .. Len(List(r)) : List(r)[i] \in r.set \ {Blank}
           /\ \A x \in r.set \ {Blank} : \E i \in 1 .. Len(List(r)) : List(r)[i] = x
           /\ Len(List(r)) = 0 <=> r.set \ {Blank} = {}
<1> DEFINE S == r.set \ {Blank}
<1>1. IsFiniteSet(S)
    BY RequestTyped
<1> HIDE DEF S
<1>2. /\ Len(SetToSeq(S)) \in Nat
      /\ \A i \in 1 .. Len(SetToSeq(S)) : SetToSeq(S)[i] \in S
      /\ \A x \in S : \E i \in 1 .. Len(SetToSeq(S)) : SetToSeq(S)[i] = x
      /\ Len(SetToSeq(S)) = 0 <=> S = {}
    BY <1>1, Listed
<1>3. List(r) = SetToSeq(S)
    BY DEF List, S
<1> QED
    BY <1>2, <1>3 DEF S

\* One more statement handles one more element,
LEMMA HandledMore ==
    ASSUME NEW r \in Requests, NEW n \in Nat, NEW k \in Nat,
           NEW i \in 1 .. Len(List(r)), n + 1 = 2 * i + k
    PROVE  Handled(r, n + 1, k) = Handled(r, n, k) \cup {List(r)[i]}
<1>1. \A j \in 1 .. Len(List(r)) : 2 * j + k <= n + 1 <=> 2 * j + k <= n \/ j = i
    BY ListTyped
<1> QED
    BY <1>1 DEF Handled

\* or none.
LEMMA HandledSame ==
    ASSUME NEW r \in Requests, NEW n \in Nat, NEW k \in Nat,
           \A i \in 1 .. Len(List(r)) : n + 1 # 2 * i + k
    PROVE  Handled(r, n + 1, k) = Handled(r, n, k)
<1>1. \A j \in 1 .. Len(List(r)) : 2 * j + k <= n + 1 <=> 2 * j + k <= n
    BY ListTyped
<1> QED
    BY <1>1 DEF Handled

\* In the end all have been.
LEMMA HandledAll ==
    ASSUME NEW r \in Requests, NEW n \in Nat, NEW k \in Nat
    PROVE  /\ Handled(r, n, k) \subseteq r.set \ {Blank}
           /\ n >= 2 * Len(List(r)) + k => Handled(r, n, k) = r.set \ {Blank}
           /\ n < 2 + k => Handled(r, n, k) = {}
<1> USE ListTyped
<1>1. Handled(r, n, k) \subseteq r.set \ {Blank}
    BY DEF Handled
<1>2. ASSUME n >= 2 * Len(List(r)) + k
      PROVE  Handled(r, n, k) = r.set \ {Blank}
    <2>1. \A j \in 1 .. Len(List(r)) : 2 * j + k <= n
        BY <1>2
    <2> QED
        BY <1>1, <2>1 DEF Handled
<1>3. ASSUME n < 2 + k
      PROVE  Handled(r, n, k) = {}
    <2>1. \A j \in 1 .. Len(List(r)) : ~ (2 * j + k <= n)
        BY <1>3
    <2> QED
        BY <2>1 DEF Handled
<1> QED
    BY <1>1, <1>2, <1>3

\* The statements of an addition, one by one.
LEMMA AddStatements ==
    ASSUME NEW r \in Requests, r.kind = "add", r.set # {}
    PROVE  /\ Len(Statements(r)) = 2 * Len(List(r)) + 1
           /\ Statements(r)[1] = Insert("labels", r.label)
           /\ \A i \in 2 .. 2 * Len(List(r)) + 1 :
                /\ i % 2 = 0 => Statements(r)[i] = Insert("members", List(r)[i \div 2])
                /\ i % 2 = 1 => Statements(r)[i] = Insert("pairs", <<List(r)[i \div 2], r.label>>)
<1> DEFINE list == List(r)
           body == [i \in 1 .. 2 * Len(list) + 1 |->
                CASE i = 1 -> Insert("labels", r.label)
                  [] i # 1 /\ i % 2 = 0 -> Insert("members", list[i \div 2])
                  [] i # 1 /\ i % 2 = 1 -> Insert("pairs", <<list[i \div 2], r.label>>)]
<1>0. Statements(r) = AddMembersToLabel(r.label, r.set)
    BY DEF Statements, Reads
<1>1. Statements(r) = body
    BY <1>0, Zenon DEF AddMembersToLabel, List
<1>2. Len(list) \in Nat
    BY ListTyped
<1> HIDE DEF list
<1>3. Len(body) = 2 * Len(list) + 1
    BY <1>2
<1>4. body[1] = Insert("labels", r.label)
    BY <1>2
<1>5. ASSUME NEW i \in 2 .. 2 * Len(list) + 1
      PROVE  /\ i % 2 = 0 => body[i] = Insert("members", list[i \div 2])
             /\ i % 2 = 1 => body[i] = Insert("pairs", <<list[i \div 2], r.label>>)
    BY <1>2
<1> QED
    BY <1>1, <1>3, <1>4, <1>5 DEF list

LEMMA ReplaceStatements ==
    ASSUME NEW r \in Requests, r.kind = "replace"
    PROVE  /\ Len(Statements(r)) = IF Len(List(r)) = 0 THEN 1 ELSE 2 * Len(List(r)) + 2
           /\ Statements(r)[1] = Delete("members", r.address)
           /\ Len(List(r)) # 0 => Statements(r)[2] = InsertNew("members", r.address)
           /\ Len(List(r)) # 0 => \A i \in 3 .. 2 * Len(List(r)) + 2 :
                /\ i % 2 = 1 => Statements(r)[i] = Insert("labels", List(r)[(i - 1) \div 2])
                /\ i % 2 = 0 =>
                     Statements(r)[i] = InsertNew("pairs", <<r.address, List(r)[(i - 1) \div 2]>>)
<1> DEFINE list == List(r)
           body == [i \in 1 .. 2 * Len(list) + 2 |->
                CASE i = 1 -> Delete("members", r.address)
                  [] i = 2 -> InsertNew("members", r.address)
                  [] i > 2 /\ i % 2 = 1 -> Insert("labels", list[(i - 1) \div 2])
                  [] i > 2 /\ i % 2 = 0 -> InsertNew("pairs", <<r.address, list[(i - 1) \div 2]>>)]
<1>0. Statements(r) = ReplaceMemberLabels(r.address, r.set)
    BY DEF Statements, Reads
<1>1. Statements(r) = IF Len(list) = 0 THEN <<Delete("members", r.address)>> ELSE body
    BY <1>0, Zenon DEF ReplaceMemberLabels, List
<1>2. Len(list) \in Nat
    BY ListTyped
<1> HIDE DEF list
<1>3. CASE Len(list) = 0
    BY <1>1, <1>3 DEF list
<1>4. CASE Len(list) # 0
    <2>1. Len(body) = 2 * Len(list) + 2
        BY <1>2
    <2>2. body[1] = Delete("members", r.address)
        BY <1>2
    <2>3. body[2] = InsertNew("members", r.address)
        BY <1>2
    <2>4. ASSUME NEW i \in 3 .. 2 * Len(list) + 2
          PROVE  /\ i % 2 = 1 => body[i] = Insert("labels", list[(i - 1) \div 2])
                 /\ i % 2 = 0 =>
                      body[i] = InsertNew("pairs", <<r.address, list[(i - 1) \div 2]>>)
        BY <1>2
    <2> QED
        BY <1>1, <1>4, <2>1, <2>2, <2>3, <2>4 DEF list
<1> QED
    BY <1>3, <1>4

LEMMA AddStep ==
    ASSUME NEW r \in Requests, r.kind = "add", r.set # {}, NEW t \in Tables,
           NEW n \in 0 .. 2 * Len(List(r))
    PROVE  After(r, n + 1, t) = Effect(Statements(r)[n + 1], After(r, n, t))
<1> DEFINE L == t.labels \cup {r.label}
           M(i) == t.members \cup Handled(r, i, 0)
           P(i) == t.pairs \cup (Handled(r, i, 1) \X {r.label})
<1>0. Len(List(r)) \in Nat /\ n \in Nat /\ n + 1 \in Nat /\ n + 1 # 0
    BY ListTyped
<1>1. After(r, n + 1, t) = Table(L, M(n + 1), P(n + 1))
    BY <1>0 DEF After, AfterAdd
<1>2. CASE n = 0
    <2>1. Handled(r, n + 1, 0) = {} /\ Handled(r, n + 1, 1) = {}
        BY <1>0, <1>2, HandledAll
    <2>2. M(n + 1) = t.members /\ P(n + 1) = t.pairs
        BY <2>1
    <2>3. t = Table(t.labels, t.members, t.pairs)
        BY TableShape
    <2>4. Statements(r)[n + 1] = Insert("labels", r.label)
        BY <1>2, AddStatements
    <2>5. After(r, n, t) = t
        BY <1>2 DEF After
    <2>6. L = t.labels \cup {r.label}
        OBVIOUS
    <2> HIDE DEF L, M, P
    <2>7. Effect(Insert("labels", r.label), Table(t.labels, t.members, t.pairs))
            = Table(L, t.members, t.pairs)
        BY <2>6, InsertLabel
    <2> QED
        BY <1>1, <2>2, <2>3, <2>4, <2>5, <2>7
<1>3. CASE n > 0
    <2>0. After(r, n, t) = Table(L, M(n), P(n))
        BY <1>0, <1>3 DEF After, AfterAdd
    <2>1. n + 1 \in 2 .. 2 * Len(List(r)) + 1
        BY <1>0, <1>3
    <2>2. PICK j \in Nat : j = (n + 1) \div 2
        BY <1>0, Halves
    <2>3. CASE (n + 1) % 2 = 0
        <3>1. n + 1 = 2 * j + 0 /\ j \in 1 .. Len(List(r))
            BY <1>0, <2>1, <2>2, <2>3, Halves
        <3>2. Handled(r, n + 1, 0) = Handled(r, n, 0) \cup {List(r)[j]}
            BY <1>0, <3>1, HandledMore
        <3>3. \A i \in 1 .. Len(List(r)) : n + 1 # 2 * i + 1
            BY <1>0, <3>1
        <3>4. Handled(r, n + 1, 1) = Handled(r, n, 1)
            BY <1>0, <3>3, HandledSame
        <3>5. M(n + 1) = M(n) \cup {List(r)[j]} /\ P(n + 1) = P(n)
            BY <3>2, <3>4
        <3>6. Statements(r)[n + 1] = Insert("members", List(r)[j])
            BY <2>1, <2>2, <2>3, AddStatements
        <3> HIDE DEF M, P, L
        <3>7. Effect(Insert("members", List(r)[j]), Table(L, M(n), P(n)))
                = Table(L, M(n + 1), P(n))
            BY <3>5, InsertMember
        <3> QED
            BY <1>1, <2>0, <3>5, <3>6, <3>7
    <2>4. CASE (n + 1) % 2 = 1
        <3>1. n + 1 = 2 * j + 1 /\ j \in 1 .. Len(List(r))
            BY <1>0, <2>1, <2>2, <2>4, Halves
        <3>2. Handled(r, n + 1, 1) = Handled(r, n, 1) \cup {List(r)[j]}
            BY <1>0, <3>1, HandledMore
        <3>3. \A i \in 1 .. Len(List(r)) : n + 1 # 2 * i + 0
            BY <1>0, <3>1
        <3>4. Handled(r, n + 1, 0) = Handled(r, n, 0)
            BY <1>0, <3>3, HandledSame
        <3>5. M(n + 1) = M(n) /\ P(n + 1) = P(n) \cup {<<List(r)[j], r.label>>}
            BY <3>2, <3>4
        <3>6. Statements(r)[n + 1] = Insert("pairs", <<List(r)[j], r.label>>)
            BY <2>1, <2>2, <2>4, AddStatements
        <3> HIDE DEF M, P, L
        <3>7. Effect(Insert("pairs", <<List(r)[j], r.label>>), Table(L, M(n), P(n)))
                = Table(L, M(n), P(n + 1))
            BY <3>5, InsertPair
        <3> QED
            BY <1>1, <2>0, <3>5, <3>6, <3>7
    <2> QED
        BY <1>0, <2>3, <2>4, Halves
<1> QED
    BY <1>0, <1>2, <1>3

LEMMA ReplaceStep ==
    ASSUME NEW r \in Requests, r.kind = "replace", NEW t \in Tables, Whole(t),
           NEW n \in 0 .. (IF Len(List(r)) = 0 THEN 0 ELSE 2 * Len(List(r)) + 1)
    PROVE  After(r, n + 1, t) = Effect(Statements(r)[n + 1], After(r, n, t))
<1> DEFINE L(i) == t.labels \cup Handled(r, i, 1)
           M(i) == IF i = 1 THEN t.members \ {r.address} ELSE t.members \cup {r.address}
           stay == {p \in t.pairs : p[1] # r.address}
           P(i) == stay \cup ({r.address} \X Handled(r, i, 2))
<1>0. Len(List(r)) \in Nat /\ n \in Nat /\ n + 1 \in Nat /\ n + 1 # 0
    BY ListTyped
<1>1. After(r, n + 1, t) = Table(L(n + 1), M(n + 1), P(n + 1))
    BY <1>0 DEF After, AfterReplace
<1>2. CASE n = 0
    <2>1. Handled(r, n + 1, 1) = {} /\ Handled(r, n + 1, 2) = {}
        BY <1>0, <1>2, HandledAll
    <2>2. L(n + 1) = t.labels /\ M(n + 1) = t.members \ {r.address} /\ P(n + 1) = stay
        BY <1>2, <2>1
    <2>3. t = Table(t.labels, t.members, t.pairs) /\ t.pairs \subseteq t.members \X t.labels
        BY TableShape DEF Whole
    <2>4. Statements(r)[n + 1] = Delete("members", r.address)
        BY <1>2, ReplaceStatements
    <2>5. After(r, n, t) = t
        BY <1>2 DEF After
    <2>6. stay = {p \in t.pairs : p[1] # r.address}
        OBVIOUS
    <2> HIDE DEF L, M, P, stay
    <2>7. Effect(Delete("members", r.address), Table(t.labels, t.members, t.pairs))
            = Table(t.labels, t.members \ {r.address}, stay)
        BY <2>3, <2>6, DeleteOfMember
    <2> QED
        BY <1>1, <2>2, <2>3, <2>4, <2>5, <2>7
<1>3. CASE n > 0
    <2>0. After(r, n, t) = Table(L(n), M(n), P(n))
        BY <1>0, <1>3 DEF After, AfterReplace
    <2>1. Len(List(r)) # 0
        BY <1>3
    <2>2. CASE n = 1
        <3>1. /\ Handled(r, n, 1) = {} /\ Handled(r, n, 2) = {}
              /\ Handled(r, n + 1, 1) = {} /\ Handled(r, n + 1, 2) = {}
            <4>1. \A i, k \in Nat : i < 2 + k => Handled(r, i, k) = {}
                BY HandledAll
            <4>2. Handled(r, 1, 1) = {} /\ Handled(r, 1, 2) = {}
                BY <4>1
            <4>3. Handled(r, 2, 1) = {} /\ Handled(r, 2, 2) = {}
                BY <4>1
            <4>4. n + 1 = 2
                BY <2>2
            <4> QED
                BY <2>2, <4>2, <4>3, <4>4
        <3>2. /\ L(n + 1) = L(n) /\ M(n + 1) = M(n) \cup {r.address} /\ P(n + 1) = P(n)
            BY <2>2, <3>1
        <3>3. Statements(r)[n + 1] = InsertNew("members", r.address)
            BY <2>1, <2>2, ReplaceStatements
        <3> HIDE DEF L, M, P
        <3>4. Effect(InsertNew("members", r.address), Table(L(n), M(n), P(n)))
                = Table(L(n), M(n + 1), P(n))
            BY <3>2, InsertNewMember
        <3> QED
            BY <1>1, <2>0, <3>2, <3>3, <3>4
    <2>3. CASE n > 1
        <3>1. n + 1 \in 3 .. 2 * Len(List(r)) + 2 /\ M(n + 1) = M(n)
            BY <1>0, <2>1, <2>3
        <3>2. PICK j \in Nat : j = n \div 2 /\ j = ((n + 1) - 1) \div 2
            BY <1>0, Halves
        <3>3. CASE n % 2 = 0
            <4>0. (n + 1) % 2 = 1
                BY <1>0, <3>3
            <4>1. n + 1 = 2 * j + 1 /\ j \in 1 .. Len(List(r))
                BY <1>0, <3>1, <3>2, <3>3, Halves
            <4>2. Handled(r, n + 1, 1) = Handled(r, n, 1) \cup {List(r)[j]}
                BY <1>0, <4>1, HandledMore
            <4>3. \A i \in 1 .. Len(List(r)) : n + 1 # 2 * i + 2
                BY <1>0, <4>1
            <4>4. Handled(r, n + 1, 2) = Handled(r, n, 2)
                BY <1>0, <4>3, HandledSame
            <4>5. L(n + 1) = L(n) \cup {List(r)[j]} /\ P(n + 1) = P(n)
                BY <4>2, <4>4
            <4>6. Statements(r)[n + 1] = Insert("labels", List(r)[j])
                BY <2>1, <3>1, <3>2, <4>0, ReplaceStatements
            <4> HIDE DEF M, P, L
            <4>7. Effect(Insert("labels", List(r)[j]), Table(L(n), M(n), P(n)))
                    = Table(L(n + 1), M(n), P(n))
                BY <4>5, InsertLabel
            <4> QED
                BY <1>1, <2>0, <3>1, <4>5, <4>6, <4>7
        <3>4. CASE n % 2 = 1
            <4>0. (n + 1) % 2 = 0
                BY <1>0, <3>4
            <4>1. n + 1 = 2 * j + 2 /\ j \in 1 .. Len(List(r))
                BY <1>0, <3>1, <3>2, <3>4, Halves
            <4>2. Handled(r, n + 1, 2) = Handled(r, n, 2) \cup {List(r)[j]}
                BY <1>0, <4>1, HandledMore
            <4>3. \A i \in 1 .. Len(List(r)) : n + 1 # 2 * i + 1
                BY <1>0, <4>1
            <4>4. Handled(r, n + 1, 1) = Handled(r, n, 1)
                BY <1>0, <4>3, HandledSame
            <4>5. L(n + 1) = L(n) /\ P(n + 1) = P(n) \cup {<<r.address, List(r)[j]>>}
                BY <4>2, <4>4
            <4>6. Statements(r)[n + 1] = InsertNew("pairs", <<r.address, List(r)[j]>>)
                BY <2>1, <3>1, <3>2, <4>0, ReplaceStatements
            <4> HIDE DEF M, P, L
            <4>7. Effect(InsertNew("pairs", <<r.address, List(r)[j]>>), Table(L(n), M(n), P(n)))
                    = Table(L(n), M(n), P(n + 1))
                BY <4>5, InsertNewPair
            <4> QED
                BY <1>1, <2>0, <3>1, <4>5, <4>6, <4>7
        <3> QED
            BY <1>0, <3>3, <3>4, Halves
    <2> QED
        BY <1>0, <1>3, <2>2, <2>3
<1> QED
    BY <1>0, <1>2, <1>3

-----------------------------------------------------------------------------
(* The statements of a request, all of them, are what it asks for.         *)

LEMMA OutcomeCases ==
    ASSUME NEW r, NEW t
    PROVE  /\ r.kind = "create" => Outcome(r, t) = Created(r, t)
           /\ r.kind = "add" => Outcome(r, t) = Added(r, t)
           /\ r.kind = "replace" => Outcome(r, t) = Replaced(r, t)
           /\ r.kind = "remove" => Outcome(r, t) = Removed(r, t)
           /\ r.kind = "deleteMember" => Outcome(r, t) = MemberDeleted(r, t)
           /\ r.kind = "deleteLabel" => Outcome(r, t) = LabelDeleted(r, t)
           /\ r.kind \in Reads => Outcome(r, t) = t
BY DEF Outcome, Reads

LEMMA CreateStatements ==
    ASSUME NEW r, r.kind = "create"
    PROVE  Statements(r) # <<>> /\ Len(Statements(r)) = 1 /\ Statements(r)[1] = Insert("labels", r.label)
<1> DEFINE x == Insert("labels", r.label)
<1>1. Statements(r) = <<x>>
    BY DEF Statements, Reads, CreateLabel
<1> HIDE DEF x
<1> QED
    BY <1>1 DEF x

LEMMA DeleteMemberStatements ==
    ASSUME NEW r, r.kind = "deleteMember"
    PROVE  Statements(r) # <<>> /\ Len(Statements(r)) = 1 /\ Statements(r)[1] = Delete("members", r.address)
<1> DEFINE x == Delete("members", r.address)
<1>1. Statements(r) = <<x>>
    BY DEF Statements, Reads, DeleteMember
<1> HIDE DEF x
<1> QED
    BY <1>1 DEF x

LEMMA DeleteLabelStatements ==
    ASSUME NEW r, r.kind = "deleteLabel"
    PROVE  Statements(r) # <<>> /\ Len(Statements(r)) = 1 /\ Statements(r)[1] = Delete("labels", r.label)
<1> DEFINE x == Delete("labels", r.label)
<1>1. Statements(r) = <<x>>
    BY DEF Statements, Reads, DeleteLabel
<1> HIDE DEF x
<1> QED
    BY <1>1 DEF x

LEMMA RemoveStatements ==
    ASSUME NEW r, r.kind = "remove"
    PROVE  /\ Statements(r) # <<>> /\ Len(Statements(r)) = 2
           /\ Statements(r)[1] = Delete("pairs", <<r.address, r.label>>)
           /\ Statements(r)[2] = DeleteBare(r.address)
<1> DEFINE x == Delete("pairs", <<r.address, r.label>>)
           y == DeleteBare(r.address)
<1>1. Statements(r) = <<x, y>>
    BY DEF Statements, Reads, RemoveMemberFromLabel
<1> HIDE DEF x, y
<1> QED
    BY <1>1 DEF x, y

LEMMA AddNobody ==
    ASSUME NEW r, r.kind = "add", r.set = {}
    PROVE  Statements(r) = <<>>
<1>1. Statements(r) = AddMembersToLabel(r.label, r.set)
    BY DEF Statements, Reads
<1> QED
    BY <1>1 DEF AddMembersToLabel

\* A change has a list of statements; only the addition of nobody has an empty one.
LEMMA StatementsTyped ==
    ASSUME NEW r \in Requests, r.kind \in Changes
    PROVE  /\ Len(Statements(r)) \in Nat
           /\ Statements(r) = <<>> <=> r.kind = "add" /\ r.set = {}
           /\ Statements(r) # <<>> <=> Len(Statements(r)) > 0
<1>0. Len(List(r)) \in Nat
    BY ListTyped
<1>1. CASE r.kind \in {"create", "remove", "deleteMember", "deleteLabel"}
    <2>1. Statements(r) # <<>> /\ Len(Statements(r)) \in {1, 2}
        BY <1>1, CreateStatements, RemoveStatements, DeleteMemberStatements, DeleteLabelStatements
    <2> QED
        BY <1>1, <2>1
<1>2. CASE r.kind = "add"
    <2>1. CASE r.set = {}
        <3>1. Statements(r) = <<>>
            BY <1>2, <2>1, AddNobody
        <3> QED
            BY <1>2, <2>1, <3>1
    <2>2. CASE r.set # {}
        <3>1. Len(Statements(r)) = 2 * Len(List(r)) + 1
            BY <1>2, <2>2, AddStatements
        <3>2. Len(Statements(r)) \in Nat /\ Len(Statements(r)) > 0
            BY <1>0, <3>1
        <3>3. Statements(r) # <<>>
            BY <3>2
        <3> QED
            BY <1>2, <2>2, <3>2, <3>3
    <2> QED
        BY <2>1, <2>2
<1>3. CASE r.kind = "replace"
    <2>1. Len(Statements(r)) = IF Len(List(r)) = 0 THEN 1 ELSE 2 * Len(List(r)) + 2
        BY <1>3, ReplaceStatements
    <2>2. Len(Statements(r)) \in Nat /\ Len(Statements(r)) > 0
        BY <1>0, <2>1
    <2>3. Statements(r) # <<>>
        BY <2>2
    <2> QED
        BY <1>3, <2>2, <2>3
<1> QED
    BY <1>1, <1>2, <1>3 DEF Changes

\* Each statement takes the tables from one closed form to the next.
LEMMA StatementStep ==
    ASSUME NEW r \in Requests, r.kind \in Changes, NEW t \in Tables, Whole(t),
           NEW n \in Nat, n < Len(Statements(r))
    PROVE  After(r, n + 1, t) = Effect(Statements(r)[n + 1], After(r, n, t))
<1>0. Len(List(r)) \in Nat
    BY ListTyped
<1>t. t = Table(t.labels, t.members, t.pairs) /\ t.pairs \subseteq t.members \X t.labels
    BY TableShape DEF Whole
<1>1. CASE r.kind = "create"
    <2>1. n = 0 /\ Statements(r)[n + 1] = Insert("labels", r.label)
        <3>1. Len(Statements(r)) = 1
            BY <1>1, CreateStatements
        <3>2. n = 0 /\ n + 1 = 1
            BY <3>1
        <3> QED
            BY <1>1, <3>2, CreateStatements
    <2>2. After(r, n, t) = t /\ After(r, n + 1, t) = Created(r, t)
        BY <1>1, <2>1, OutcomeCases DEF After
    <2>3. Effect(Insert("labels", r.label), Table(t.labels, t.members, t.pairs)) = Created(r, t)
        BY InsertLabel DEF Created
    <2> QED
        BY <1>t, <2>1, <2>2, <2>3
<1>2. CASE r.kind = "deleteMember"
    <2>1. n = 0 /\ Statements(r)[n + 1] = Delete("members", r.address)
        <3>1. Len(Statements(r)) = 1
            BY <1>2, DeleteMemberStatements
        <3>2. n = 0 /\ n + 1 = 1
            BY <3>1
        <3> QED
            BY <1>2, <3>2, DeleteMemberStatements
    <2>2. After(r, n, t) = t /\ After(r, n + 1, t) = MemberDeleted(r, t)
        BY <1>2, <2>1, OutcomeCases DEF After
    <2>3. Effect(Delete("members", r.address), Table(t.labels, t.members, t.pairs))
            = MemberDeleted(r, t)
        BY <1>t, DeleteOfMember DEF MemberDeleted, Others
    <2> QED
        BY <1>t, <2>1, <2>2, <2>3
<1>3. CASE r.kind = "deleteLabel"
    <2>1. n = 0 /\ Statements(r)[n + 1] = Delete("labels", r.label)
        <3>1. Len(Statements(r)) = 1
            BY <1>3, DeleteLabelStatements
        <3>2. n = 0 /\ n + 1 = 1
            BY <3>1
        <3> QED
            BY <1>3, <3>2, DeleteLabelStatements
    <2>2. After(r, n, t) = t /\ After(r, n + 1, t) = LabelDeleted(r, t)
        BY <1>3, <2>1, OutcomeCases DEF After
    <2>3. Effect(Delete("labels", r.label), Table(t.labels, t.members, t.pairs))
            = LabelDeleted(r, t)
        BY <1>t, DeleteOfLabel DEF LabelDeleted
    <2> QED
        BY <1>t, <2>1, <2>2, <2>3
<1>4. CASE r.kind = "remove"
    <2> DEFINE x == <<r.address, r.label>>
               left == t.pairs \ {x}
    <2>0. /\ Len(Statements(r)) = 2
          /\ Statements(r)[1] = Delete("pairs", x) /\ Statements(r)[2] = DeleteBare(r.address)
        BY <1>4, RemoveStatements
    <2>1. n = 0 \/ n = 1
        BY <2>0
    <2>2. After(r, 1, t) = Table(t.labels, t.members, left)
        BY <1>4 DEF After, AfterRemove
    <2>3. CASE n = 0
        <3>1. Statements(r)[n + 1] = Delete("pairs", x) /\ After(r, n, t) = t
            BY <2>0, <2>3 DEF After
        <3> HIDE DEF x
        <3>2. Effect(Delete("pairs", x), Table(t.labels, t.members, t.pairs))
                = Table(t.labels, t.members, left)
            BY <1>t, DeleteOfPair
        <3> QED
            BY <1>t, <2>2, <2>3, <3>1, <3>2
    <2>4. CASE n = 1
        <3>1. Statements(r)[n + 1] = DeleteBare(r.address)
            BY <2>0, <2>4
        <3>2. After(r, 2, t) = Removed(r, t)
            BY <1>4, OutcomeCases DEF After, AfterRemove
        <3>3. left \subseteq t.members \X t.labels
            BY <1>t
        <3> DEFINE y == IF \E p \in left : p[1] = r.address
                        THEN t.members ELSE t.members \ {r.address}
        <3>4. Removed(r, t) = Table(t.labels, y, left)
            BY DEF Removed
        <3>5. y = IF \E p \in left : p[1] = r.address THEN t.members ELSE t.members \ {r.address}
            OBVIOUS
        <3> HIDE DEF left, y
        <3>6. Effect(DeleteBare(r.address), Table(t.labels, t.members, left))
                = Table(t.labels, y, left)
            BY <3>3, <3>5, DeleteOfBare
        <3> QED
            BY <2>2, <2>4, <3>1, <3>2, <3>4, <3>6
    <2> QED
        BY <2>1, <2>3, <2>4
<1>5. CASE r.kind = "add"
    <2>1. r.set # {}
        BY <1>5, StatementsTyped
    <2>2. Len(Statements(r)) = 2 * Len(List(r)) + 1
        BY <1>5, <2>1, AddStatements
    <2>3. n \in 0 .. 2 * Len(List(r))
        BY <1>0, <2>2
    <2> QED
        BY <1>5, <2>1, <2>3, AddStep
<1>6. CASE r.kind = "replace"
    <2>0. Len(Statements(r)) = IF Len(List(r)) = 0 THEN 1 ELSE 2 * Len(List(r)) + 2
        BY <1>6, ReplaceStatements
    <2>1. n \in 0 .. (IF Len(List(r)) = 0 THEN 0 ELSE 2 * Len(List(r)) + 1)
        BY <1>0, <2>0
    <2> QED
        BY <1>6, <2>1, ReplaceStep
<1> QED
    BY <1>1, <1>2, <1>3, <1>4, <1>5, <1>6 DEF Changes

\* And the last one leaves what the request asks for.
LEMMA StatementsAll ==
    ASSUME NEW r \in Requests, r.kind \in Changes, Statements(r) # <<>>, NEW t \in Tables
    PROVE  After(r, Len(Statements(r)), t) = Outcome(r, t)
<1>0. Len(List(r)) \in Nat /\ Len(Statements(r)) \in Nat /\ Len(Statements(r)) > 0
    BY ListTyped, StatementsTyped
<1>1. CASE r.kind \in {"create", "deleteMember", "deleteLabel"}
    BY <1>0, <1>1 DEF After
<1>2. CASE r.kind = "remove"
    <2>1. Len(Statements(r)) = 2
        BY <1>2, RemoveStatements
    <2> QED
        BY <1>2, <2>1 DEF After, AfterRemove
<1>3. CASE r.kind = "add"
    <2>0. r.set # {}
        BY <1>3, StatementsTyped
    <2>1. Len(Statements(r)) = 2 * Len(List(r)) + 1
        BY <1>3, <2>0, AddStatements
    <2> DEFINE n == Len(Statements(r))
    <2>2. Handled(r, n, 0) = Named(r) /\ Handled(r, n, 1) = Named(r)
        BY <1>0, <2>1, HandledAll DEF Named
    <2>3. After(r, n, t) = AfterAdd(r, n, t)
        BY <1>0, <1>3 DEF After
    <2>4. AfterAdd(r, n, t) = Added(r, t)
        BY <2>0, <2>2 DEF AfterAdd, Added
    <2> QED
        BY <1>3, <2>3, <2>4, OutcomeCases
<1>4. CASE r.kind = "replace"
    <2> DEFINE n == Len(Statements(r))
    <2>1. n = IF Len(List(r)) = 0 THEN 1 ELSE 2 * Len(List(r)) + 2
        BY <1>4, ReplaceStatements
    <2>2. Handled(r, n, 1) = Named(r) /\ Handled(r, n, 2) = Named(r)
        <3>1. CASE Len(List(r)) = 0
            <4>1. n = 1 /\ Named(r) = {}
                BY <2>1, <3>1, ListTyped DEF Named
            <4> QED
                BY <4>1, HandledAll
        <3>2. CASE Len(List(r)) # 0
            <4>1. n = 2 * Len(List(r)) + 2
                BY <2>1, <3>2
            <4> QED
                BY <1>0, <4>1, HandledAll DEF Named
        <3> QED
            BY <3>1, <3>2
    <2>3. Named(r) = {} <=> n = 1
        BY <1>0, <2>1, ListTyped DEF Named
    <2>4. After(r, n, t) = AfterReplace(r, n, t)
        BY <1>0, <1>4 DEF After
    <2> HIDE DEF n
    <2>5. AfterReplace(r, n, t) = Replaced(r, t)
        BY <2>2, <2>3 DEF AfterReplace, Replaced, Others
    <2> QED
        BY <1>4, <2>4, <2>5, OutcomeCases DEF n
<1> QED
    BY <1>1, <1>2, <1>3, <1>4 DEF Changes

\* A request that is not refused leaves tables of the right kind, and no pair
\* without its member or its label.
LEMMA OutcomeTyped ==
    ASSUME NEW r \in Requests, ~Refused(r), NEW t \in Tables, Whole(t)
    PROVE  Outcome(r, t) \in Tables /\ Whole(Outcome(r, t))
<1> USE OutcomeCases
<1>0. /\ t.labels \subseteq Labels /\ t.members \subseteq Members
      /\ t.pairs \subseteq Members \X Labels /\ t.pairs \subseteq t.members \X t.labels
    BY DEF Tables, Whole
<1>1. CASE r.kind = "create"
    <2>1. r.label \in Labels
        BY <1>1, RequestTyped DEF Refused
    <2>2. Outcome(r, t) = Table(t.labels \cup {r.label}, t.members, t.pairs)
        BY <1>1 DEF Created
    <2> QED
        BY <1>0, <2>1, <2>2, TableFields DEF Whole
<1>2. CASE r.kind = "add"
    <2>1. r.label \in Labels /\ Named(r) \subseteq Members
        BY <1>2, RequestTyped DEF Refused, Named
    <2>2. CASE r.set = {}
        BY <1>2, <2>2 DEF Added
    <2>3. CASE r.set # {}
        <3> DEFINE ls == t.labels \cup {r.label}
                   ms == t.members \cup Named(r)
                   ps == t.pairs \cup (Named(r) \X {r.label})
        <3>1. Outcome(r, t) = Table(ls, ms, ps)
            BY <1>2, <2>3 DEF Added
        <3>2. /\ ls \subseteq Labels /\ ms \subseteq Members
              /\ ps \subseteq Members \X Labels /\ ps \subseteq ms \X ls
            BY <1>0, <2>1
        <3> HIDE DEF ls, ms, ps
        <3> QED
            BY <3>1, <3>2, TableFields DEF Whole
    <2> QED
        BY <2>2, <2>3
<1>3. CASE r.kind = "replace"
    <2>1. r.address \in Members /\ Named(r) \subseteq Labels
        BY <1>3, RequestTyped DEF Refused, Named
    <2> DEFINE ls == t.labels \cup Named(r)
               ms == IF Named(r) = {} THEN t.members \ {r.address} ELSE t.members \cup {r.address}
               ps == Others(r, t) \cup ({r.address} \X Named(r))
    <2>2. Outcome(r, t) = Table(ls, ms, ps)
        BY <1>3 DEF Replaced
    <2>3. /\ ls \subseteq Labels /\ ms \subseteq Members
          /\ ps \subseteq Members \X Labels /\ ps \subseteq ms \X ls
        BY <1>0, <2>1 DEF Others
    <2> HIDE DEF ls, ms, ps
    <2> QED
        BY <2>2, <2>3, TableFields DEF Whole
<1>4. CASE r.kind = "remove"
    <2> DEFINE ps == t.pairs \ {<<r.address, r.label>>}
               ms == IF \E p \in ps : p[1] = r.address THEN t.members ELSE t.members \ {r.address}
    <2>2. Outcome(r, t) = Table(t.labels, ms, ps)
        BY <1>4 DEF Removed
    <2>3. /\ ms \subseteq Members
          /\ ps \subseteq Members \X Labels /\ ps \subseteq ms \X t.labels
        BY <1>0
    <2> HIDE DEF ms, ps
    <2> QED
        BY <1>0, <2>2, <2>3, TableFields DEF Whole
<1>5. CASE r.kind = "deleteMember"
    <2> DEFINE ms == t.members \ {r.address}
               ps == Others(r, t)
    <2>2. Outcome(r, t) = Table(t.labels, ms, ps)
        BY <1>5 DEF MemberDeleted
    <2>3. /\ ms \subseteq Members
          /\ ps \subseteq Members \X Labels /\ ps \subseteq ms \X t.labels
        BY <1>0 DEF Others
    <2> HIDE DEF ms, ps
    <2> QED
        BY <1>0, <2>2, <2>3, TableFields DEF Whole
<1>6. CASE r.kind = "deleteLabel"
    <2> DEFINE ls == t.labels \ {r.label}
               ps == {p \in t.pairs : p[2] # r.label}
    <2>2. Outcome(r, t) = Table(ls, t.members, ps)
        BY <1>6 DEF LabelDeleted
    <2>3. /\ ls \subseteq Labels
          /\ ps \subseteq Members \X Labels /\ ps \subseteq t.members \X ls
        BY <1>0
    <2> HIDE DEF ls, ps
    <2> QED
        BY <1>0, <2>2, <2>3, TableFields DEF Whole
<1>7. CASE r.kind \in Reads
    BY <1>7
<1> QED
    BY <1>1, <1>2, <1>3, <1>4, <1>5, <1>6, <1>7, RequestTyped DEF Changes

-----------------------------------------------------------------------------
(* Callers and the executor.                                               *)

Places == {"idle", "check", "lock", "begin", "statement", "commit", "rollback", "getconn",
           "snapshot", "install", "getdetail", "detail", "respond", "error"}
Locked == {"begin", "statement", "commit", "rollback"}

CallerType ==
    /\ pc \in [Callers -> Places]
    /\ asked \in [Callers -> Requests \cup {NoRequest}]
    /\ step \in [Callers -> Nat]
    /\ done \in [Callers -> BOOLEAN]
    /\ answer \in [Callers -> {"none", "ok", "error"}]
    /\ runner \in BOOLEAN
    /\ tables \in Tables /\ Whole(tables)

\* What a caller has done where it is: its request is committed from there on,
\* or is not.
PlaceInv ==
    \A c \in Callers :
        /\ pc[c] # "idle" => asked[c] \in Requests
        /\ pc[c] \in {"idle", "check", "lock"} \cup Locked => ~done[c]
        /\ pc[c] \in {"getconn", "snapshot", "install", "respond"} => done[c]
        /\ pc[c] \in {"getdetail", "detail"} /\ ~done[c] => asked[c].kind \in Reads
        /\ pc[c] \in {"lock"} \cup Locked =>
             ~Refused(asked[c]) /\ asked[c].kind \in Changes /\ Statements(asked[c]) # <<>>

\* The mutex, and the transaction of the caller that holds it: it has executed
\* the statements before the one that is next, on the tables as they are stored.
\* Closing the connection loses the transaction, and ends Run.
TransactionInv ==
    /\ \A c \in Callers : pc[c] \in Locked => mu = c
    /\ \A c \in Callers : pc[c] \notin {"statement", "commit", "rollback"} => step[c] = 1
    /\ \A c \in Callers : runner /\ pc[c] = "statement" =>
         /\ step[c] \in 1 .. Len(Statements(asked[c]))
         /\ work = After(asked[c], step[c] - 1, tables)
    /\ \A c \in Callers : runner /\ pc[c] = "commit" => work = Outcome(asked[c], tables)

StoreInv == CallerType /\ PlaceInv /\ TransactionInv

LEMMA StoreInit == Init => StoreInv
<1> SUFFICES ASSUME Init PROVE StoreInv
    OBVIOUS
<1>1. tables \in Tables /\ Whole(tables)
    BY TagTablesAssumption DEF TagTablesAssumption, Init, ExecutorInit, Whole
<1>2. CallerType
    BY <1>1 DEF Init, ExecutorInit, CallerType, Places
<1>3. PlaceInv
    BY DEF Init, ExecutorInit, PlaceInv, Locked
<1>4. TransactionInv
    BY DEF Init, ExecutorInit, TransactionInv, Locked
<1> QED
    BY <1>2, <1>3, <1>4 DEF StoreInv

\* A step of a caller outside of the transaction.
LEMMA StoreMove ==
    ASSUME StoreInv, NEW c \in Callers, NEW q \in Places \ (Locked \cup {"lock"}),
           pc[c] \notin Locked, Goto(c, q),
           UNCHANGED <<step, mu, runner, work, tables>>,
           \A x \in Callers \ {c} : asked'[x] = asked[x] /\ done'[x] = done[x],
           asked' \in [Callers -> Requests \cup {NoRequest}],
           done' \in [Callers -> BOOLEAN],
           answer' \in [Callers -> {"none", "ok", "error"}],
           q # "idle" => asked'[c] \in Requests,
           q \in {"idle", "check"} => ~done'[c],
           q \in {"getconn", "snapshot", "install", "respond"} => done'[c],
           q \in {"getdetail", "detail"} /\ ~done'[c] => asked'[c].kind \in Reads
    PROVE  StoreInv'
<1>0. /\ pc \in [Callers -> Places] /\ pc' = [pc EXCEPT ![c] = q]
      /\ pc'[c] = q /\ \A x \in Callers \ {c} : pc'[x] = pc[x]
    BY DEF StoreInv, CallerType, Goto
<1>1. CallerType'
    BY <1>0 DEF StoreInv, CallerType
<1>2. PlaceInv'
    <2> SUFFICES ASSUME NEW x \in Callers
                 PROVE  /\ pc'[x] # "idle" => asked'[x] \in Requests
                        /\ pc'[x] \in {"idle", "check", "lock"} \cup Locked => ~done'[x]
                        /\ pc'[x] \in {"getconn", "snapshot", "install", "respond"} => done'[x]
                        /\ pc'[x] \in {"getdetail", "detail"} /\ ~done'[x]
                             => asked'[x].kind \in Reads
                        /\ pc'[x] \in {"lock"} \cup Locked =>
                             /\ ~Refused(asked'[x]) /\ asked'[x].kind \in Changes
                             /\ Statements(asked'[x]) # <<>>
        BY DEF PlaceInv
    <2>1. CASE x = c
        BY <1>0, <2>1
    <2>2. CASE x # c
        BY <1>0, <2>2 DEF StoreInv, PlaceInv
    <2> QED
        BY <2>1, <2>2
<1>3. TransactionInv'
    BY <1>0 DEF StoreInv, TransactionInv, Locked
<1> QED
    BY <1>1, <1>2, <1>3 DEF StoreInv

LEMMA StoreAsk ==
    ASSUME StoreInv, NEW c \in Callers, NEW r \in Requests, Ask(c, r)
    PROVE  StoreInv'
<1>1. /\ pc[c] = "idle" /\ Goto(c, "check") /\ asked' = [asked EXCEPT ![c] = r]
      /\ answer' = [answer EXCEPT ![c] = "none"]
      /\ UNCHANGED <<step, mu, runner, work, tables, done>>
    BY DEF Ask, executor
<1>2. ~done[c]
    BY <1>1 DEF StoreInv, PlaceInv
<1>3. /\ asked' \in [Callers -> Requests \cup {NoRequest}]
      /\ done' \in [Callers -> BOOLEAN]
      /\ answer' \in [Callers -> {"none", "ok", "error"}]
      /\ asked'[c] = r /\ \A x \in Callers \ {c} : asked'[x] = asked[x]
    BY <1>1 DEF StoreInv, CallerType
<1>4. "check" \in Places \ (Locked \cup {"lock"}) /\ pc[c] \notin Locked
    BY <1>1 DEF Places, Locked
<1> QED
    BY <1>1, <1>2, <1>3, <1>4, StoreMove

LEMMA StoreRespond ==
    ASSUME StoreInv, NEW c \in Callers, Respond(c)
    PROVE  StoreInv'
<1>1. /\ pc[c] \in {"respond", "error"} /\ Goto(c, "idle")
      /\ asked' = [asked EXCEPT ![c] = NoRequest]
      /\ done' = [done EXCEPT ![c] = FALSE]
      /\ \E a \in {"ok", "error"} : answer' = [answer EXCEPT ![c] = a]
      /\ UNCHANGED <<step, mu, runner, work, tables>>
    BY DEF Respond
<1>2. /\ asked' \in [Callers -> Requests \cup {NoRequest}]
      /\ \A x \in Callers \ {c} : asked'[x] = asked[x]
      /\ answer' \in [Callers -> {"none", "ok", "error"}]
    BY <1>1 DEF StoreInv, CallerType
<1>3. /\ done' \in [Callers -> BOOLEAN]
      /\ ~done'[c] /\ \A x \in Callers \ {c} : done'[x] = done[x]
    BY <1>1 DEF StoreInv, CallerType
<1>4. "idle" \in Places \ (Locked \cup {"lock"}) /\ pc[c] \notin Locked
    BY <1>1 DEF Places, Locked
<1> QED
    BY <1>1, <1>2, <1>3, <1>4, StoreMove

\* The other steps outside of the transaction leave the request.
LEMMA StoreRead ==
    ASSUME StoreInv, NEW c \in Callers, Connect(c) \/ Snapshot(c) \/ Install(c) \/ ReadDetail(c)
    PROVE  StoreInv'
<1> DEFINE same == UNCHANGED <<asked, answer, step, mu, runner, work, tables>>
<1>0. /\ asked \in [Callers -> Requests \cup {NoRequest}] /\ done \in [Callers -> BOOLEAN]
      /\ answer \in [Callers -> {"none", "ok", "error"}]
    BY DEF StoreInv, CallerType
<1>p. /\ pc[c] # "idle" => asked[c] \in Requests
      /\ pc[c] \in {"getconn", "snapshot", "install", "respond"} => done[c]
      /\ pc[c] \in {"getdetail", "detail"} /\ ~done[c] => asked[c].kind \in Reads
    BY DEF StoreInv, PlaceInv
<1>q. {"snapshot", "detail", "install", "error", "getdetail", "respond"}
        \subseteq Places \ (Locked \cup {"lock"})
    BY DEF Places, Locked
<1>1. CASE Connect(c)
    <2>1. /\ pc[c] \in {"getconn", "getdetail"} /\ same /\ done' = done
          /\ Goto(c, IF pc[c] = "getconn" THEN "snapshot" ELSE "detail")
        BY <1>1 DEF Connect, GetConn, executor, tagger
    <2>2. CASE pc[c] = "getconn"
        BY <1>0, <1>p, <1>q, <2>1, <2>2, StoreMove DEF Locked
    <2>3. CASE pc[c] = "getdetail"
        BY <1>0, <1>p, <1>q, <2>1, <2>3, StoreMove DEF Locked
    <2> QED
        BY <2>1, <2>2, <2>3
<1>2. CASE Snapshot(c)
    <2>1. /\ pc[c] = "snapshot" /\ same /\ done' = done
          /\ Goto(c, "error") \/ Goto(c, "install")
        BY <1>2 DEF Snapshot, QueryFails
    <2> QED
        BY <1>0, <1>p, <1>q, <2>1, StoreMove DEF Locked
<1>3. CASE Install(c)
    <2>1. /\ pc[c] = "install" /\ same /\ done' = done
          /\ Goto(c, "getdetail") \/ Goto(c, "respond")
        BY <1>3 DEF Install, executor
    <2> QED
        BY <1>0, <1>p, <1>q, <2>1, StoreMove DEF Locked
<1>4. CASE ReadDetail(c)
    <2>1. pc[c] = "detail" /\ same
        BY <1>4 DEF ReadDetail
    <2>2. \/ Goto(c, "error") /\ done' = done
          \/ Goto(c, "respond") /\ done' = [done EXCEPT ![c] = TRUE]
        BY <1>4 DEF ReadDetail, QueryFails
    <2>3. CASE Goto(c, "error") /\ done' = done
        BY <1>0, <1>p, <1>q, <2>1, <2>3, StoreMove DEF Locked
    <2>4. CASE Goto(c, "respond") /\ done' = [done EXCEPT ![c] = TRUE]
        <3>1. /\ done' \in [Callers -> BOOLEAN] /\ done'[c]
              /\ \A x \in Callers \ {c} : done'[x] = done[x]
            BY <1>0, <2>4
        <3> QED
            BY <1>0, <1>p, <1>q, <2>1, <2>4, <3>1, StoreMove DEF Locked
    <2> QED
        BY <2>2, <2>3, <2>4
<1> QED
    BY <1>1, <1>2, <1>3, <1>4

\* Where Check sends a request, and whether there is anything to commit.
LEMMA CheckCases ==
    ASSUME StoreInv, NEW c \in Callers, Check(c)
    PROVE  /\ pc[c] = "check" /\ asked[c] \in Requests /\ ~done[c]
           /\ UNCHANGED <<asked, answer, step, mu, runner, work, tables>>
           /\ done' \in [Callers -> BOOLEAN] /\ \A x \in Callers \ {c} : done'[x] = done[x]
           /\ \/ Goto(c, "error") /\ ~done'[c]
              \/ Goto(c, "getdetail") /\ ~done'[c] /\ asked[c].kind \in Reads
              \/ Goto(c, "getconn") /\ done'[c] /\ asked[c].kind = "add" /\ asked[c].set = {}
              \/ /\ Goto(c, "lock") /\ ~done'[c] /\ ~Refused(asked[c])
                 /\ asked[c].kind \in Changes /\ Statements(asked[c]) # <<>>
<1> DEFINE r == asked[c]
           y == ~Refused(r) /\ r.kind \notin Reads /\ Statements(r) = <<>>
<1>1. pc[c] = "check" /\ UNCHANGED <<asked, answer, step, mu, runner, work, tables>>
    BY DEF Check, tagger
<1>2. r \in Requests /\ ~done[c]
    BY <1>1 DEF StoreInv, PlaceInv
<1>3. done \in [Callers -> BOOLEAN]
    BY DEF StoreInv, CallerType
<1>4. done' = [done EXCEPT ![c] = y]
    BY DEF Check
<1>5. done' \in [Callers -> BOOLEAN] /\ done'[c] = y /\ \A x \in Callers \ {c} : done'[x] = done[x]
    <2> DEFINE z == y
    <2>1. z \in BOOLEAN /\ done' = [done EXCEPT ![c] = z]
        BY <1>4
    <2> HIDE DEF z
    <2>2. done' \in [Callers -> BOOLEAN] /\ done'[c] = z /\ \A x \in Callers \ {c} : done'[x] = done[x]
        BY <1>3, <2>1
    <2> QED
        BY <2>2 DEF z
<1>6. r.kind \in Changes \cup Reads
    BY <1>2, RequestTyped
<1>7. CASE Refused(r)
    <2>1. Goto(c, "error")
        BY <1>7 DEF Check
    <2> QED
        BY <1>1, <1>2, <1>5, <1>7, <2>1
<1>8. CASE ~Refused(r) /\ r.kind \in Reads
    <2>1. Goto(c, "getdetail")
        BY <1>8 DEF Check
    <2> QED
        BY <1>1, <1>2, <1>5, <1>8, <2>1
<1>9. CASE ~Refused(r) /\ r.kind \notin Reads
    <2>0. r.kind \in Changes
        BY <1>6, <1>9
    <2>1. Goto(c, IF Statements(r) = <<>> THEN "getconn" ELSE "lock")
        BY <1>9 DEF Check
    <2>2. Statements(r) = <<>> => r.kind = "add" /\ r.set = {}
        BY <1>2, <2>0, StatementsTyped
    <2>3. CASE Statements(r) = <<>>
        BY <1>1, <1>2, <1>5, <1>9, <2>1, <2>2, <2>3
    <2>4. CASE Statements(r) # <<>>
        BY <1>1, <1>2, <1>5, <1>9, <2>0, <2>1, <2>4
    <2> QED
        BY <2>3, <2>4
<1> QED
    BY <1>7, <1>8, <1>9

LEMMA StoreCheck ==
    ASSUME StoreInv, NEW c \in Callers, Check(c)
    PROVE  StoreInv'
<1>0. /\ pc[c] = "check" /\ asked[c] \in Requests /\ ~done[c]
      /\ UNCHANGED <<asked, answer, step, mu, runner, work, tables>>
      /\ done' \in [Callers -> BOOLEAN] /\ \A x \in Callers \ {c} : done'[x] = done[x]
    BY CheckCases
<1>t. /\ asked \in [Callers -> Requests \cup {NoRequest}]
      /\ answer \in [Callers -> {"none", "ok", "error"}] /\ pc \in [Callers -> Places]
    BY DEF StoreInv, CallerType
<1>q. {"error", "getdetail", "getconn"} \subseteq Places \ (Locked \cup {"lock"})
    BY DEF Places, Locked
<1>1. CASE Goto(c, "error") /\ ~done'[c]
    BY <1>0, <1>t, <1>q, <1>1, StoreMove DEF Locked
<1>2. CASE Goto(c, "getdetail") /\ ~done'[c] /\ asked[c].kind \in Reads
    BY <1>0, <1>t, <1>q, <1>2, StoreMove DEF Locked
<1>3. CASE Goto(c, "getconn") /\ done'[c]
    BY <1>0, <1>t, <1>q, <1>3, StoreMove DEF Locked
<1>4. CASE /\ Goto(c, "lock") /\ ~done'[c] /\ ~Refused(asked[c])
           /\ asked[c].kind \in Changes /\ Statements(asked[c]) # <<>>
    <2>0. pc'[c] = "lock" /\ \A x \in Callers \ {c} : pc'[x] = pc[x]
        BY <1>4, <1>t DEF Goto
    <2>1. CallerType'
        BY <1>0, <1>t, <1>4 DEF StoreInv, CallerType, Goto, Places
    <2>2. PlaceInv'
        BY <1>0, <1>4, <2>0 DEF StoreInv, PlaceInv, Locked
    <2>3. TransactionInv'
        BY <1>0, <2>0 DEF StoreInv, TransactionInv, Locked
    <2> QED
        BY <2>1, <2>2, <2>3 DEF StoreInv
<1> QED
    BY <1>1, <1>2, <1>3, <1>4, CheckCases

\* What the steps of a transaction need to know.
LEMMA InLock ==
    ASSUME StoreInv, NEW c \in Callers, pc[c] \in {"lock"} \cup Locked
    PROVE  /\ asked[c] \in Requests /\ ~Refused(asked[c]) /\ asked[c].kind \in Changes
           /\ Statements(asked[c]) # <<>> /\ ~done[c]
           /\ Len(Statements(asked[c])) \in Nat /\ Len(Statements(asked[c])) > 0
           /\ tables \in Tables /\ Whole(tables)
<1>1. /\ asked[c] \in Requests /\ ~Refused(asked[c]) /\ asked[c].kind \in Changes
      /\ Statements(asked[c]) # <<>> /\ ~done[c]
    BY DEF StoreInv, PlaceInv, Locked
<1>2. Len(Statements(asked[c])) \in Nat /\ Len(Statements(asked[c])) > 0
    BY <1>1, StatementsTyped
<1> QED
    BY <1>1, <1>2 DEF StoreInv, CallerType

\* The caller that takes mu is the only one in a transaction.
LEMMA StoreLock ==
    ASSUME StoreInv, NEW c \in Callers, Lock(c), answer' = answer
    PROVE  StoreInv'
<1>0. pc[c] = "lock" /\ mu = NoCaller /\ mu' = c /\ Goto(c, "begin")
    BY DEF Lock
<1>1. UNCHANGED <<asked, step, done, runner, work, tables>>
    BY DEF Lock
<1>2. pc'[c] = "begin" /\ (\A x \in Callers \ {c} : pc'[x] = pc[x]) /\ pc' \in [Callers -> Places]
    BY <1>0 DEF StoreInv, CallerType, Goto, Places
<1>3. \A x \in Callers : pc[x] \notin Locked
    BY <1>0, SyncExecutorAssumption DEF SyncExecutorAssumption, StoreInv, TransactionInv
<1>4. CallerType'
    BY <1>1, <1>2 DEF StoreInv, CallerType
<1>5. PlaceInv'
    BY <1>0, <1>1, <1>2 DEF StoreInv, PlaceInv, Locked
<1>6. TransactionInv'
    BY <1>0, <1>1, <1>2, <1>3 DEF StoreInv, TransactionInv, Locked
<1> QED
    BY <1>4, <1>5, <1>6 DEF StoreInv

\* A step of the transaction: the others are outside, and the tables stay.
LEMMA StoreInside ==
    ASSUME StoreInv, NEW c \in Callers, pc[c] \in Locked, NEW q \in {"statement", "commit", "rollback"},
           Goto(c, q), UNCHANGED <<asked, answer, done, mu, runner, tables>>,
           step' \in [Callers -> Nat], \A x \in Callers \ {c} : step'[x] = step[x],
           runner /\ q = "statement" =>
             /\ step'[c] \in 1 .. Len(Statements(asked[c]))
             /\ work' = After(asked[c], step'[c] - 1, tables),
           runner /\ q = "commit" => work' = Outcome(asked[c], tables)
    PROVE  StoreInv'
<1>1. pc'[c] = q /\ (\A x \in Callers \ {c} : pc'[x] = pc[x]) /\ pc' \in [Callers -> Places]
    BY DEF StoreInv, CallerType, Goto, Places
<1>2. mu = c /\ \A x \in Callers \ {c} : pc[x] \notin Locked
    BY DEF StoreInv, TransactionInv
<1>3. CallerType'
    BY <1>1 DEF StoreInv, CallerType
<1>4. PlaceInv'
    BY <1>1 DEF StoreInv, PlaceInv, Locked
<1>5. TransactionInv'
    BY <1>1, <1>2 DEF StoreInv, TransactionInv, Locked
<1> QED
    BY <1>3, <1>4, <1>5 DEF StoreInv

\* The end of the transaction.
LEMMA StoreLeave ==
    ASSUME StoreInv, NEW c \in Callers, pc[c] \in Locked, NEW q \in {"error", "respond", "getconn"},
           Leave(c, q), UNCHANGED <<asked, answer, runner>>,
           tables' \in Tables, Whole(tables'),
           done' \in [Callers -> BOOLEAN], \A x \in Callers \ {c} : done'[x] = done[x],
           q # "error" => done'[c]
    PROVE  StoreInv'
<1>0. /\ pc'[c] = q /\ (\A x \in Callers \ {c} : pc'[x] = pc[x]) /\ pc' \in [Callers -> Places]
      /\ mu' = NoCaller
    BY DEF StoreInv, CallerType, Leave, Goto, Places
<1>1. /\ step' \in [Callers -> Nat] /\ step'[c] = 1
      /\ \A x \in Callers \ {c} : step'[x] = step[x]
    BY DEF StoreInv, CallerType, Leave
<1>2. mu = c /\ \A x \in Callers \ {c} : pc[x] \notin Locked
    BY DEF StoreInv, TransactionInv
<1>3. CallerType'
    BY <1>0, <1>1 DEF StoreInv, CallerType
<1>4. PlaceInv'
    BY <1>0 DEF StoreInv, PlaceInv, Locked
<1>5. TransactionInv'
    BY <1>0, <1>1, <1>2 DEF StoreInv, TransactionInv, Locked
<1> QED
    BY <1>3, <1>4, <1>5 DEF StoreInv

\* The cases of a transaction's steps: it starts on the tables as they are, goes
\* on, commits what was asked, or ends with an error and the tables as they were.
LEMMA TransactionCases ==
    ASSUME StoreInv, NEW c \in Callers, Transaction(c)
    PROVE  /\ pc[c] \in Locked /\ UNCHANGED <<asked, runner>>
           /\ \/ Leave(c, "error") /\ UNCHANGED <<tables, done>>
              \/ /\ pc[c] = "begin" /\ Goto(c, "statement") /\ work' = tables
                 /\ UNCHANGED <<step, mu, tables, done>>
              \/ Goto(c, "rollback") /\ UNCHANGED <<step, mu, tables, done>>
              \/ /\ pc[c] = "statement" /\ runner
                 /\ work' = Effect(Statements(asked[c])[step[c]], work)
                 /\ step' = [step EXCEPT ![c] = @ + 1]
                 /\ Goto(c, IF step[c] < Len(Statements(asked[c])) THEN "statement" ELSE "commit")
                 /\ UNCHANGED <<mu, tables, done>>
              \/ /\ pc[c] = "commit" /\ runner /\ tables' = work
                 /\ done' = [done EXCEPT ![c] = TRUE]
                 /\ Leave(c, AfterCommit(asked[c]))
<1>1. CASE Begin(c)
    BY <1>1 DEF Begin, Locked
<1>2. CASE Statement(c)
    BY <1>2 DEF Statement, FailInside, Locked
<1>3. CASE Commit(c)
    BY <1>3 DEF Commit, FailInside, Locked
<1>4. CASE Rollback(c)
    BY <1>4 DEF Rollback, Locked
<1> QED
    BY <1>1, <1>2, <1>3, <1>4 DEF Transaction

\* What is committed is what was asked.
LEMMA CommitOutcome ==
    ASSUME StoreInv, NEW c \in Callers, pc[c] = "commit", runner, tables' = work
    PROVE  /\ tables' = Outcome(asked[c], tables)
           /\ tables' \in Tables /\ Whole(tables')
<1>1. work = Outcome(asked[c], tables)
    BY DEF StoreInv, TransactionInv
<1>2. /\ asked[c] \in Requests /\ ~Refused(asked[c])
      /\ tables \in Tables /\ Whole(tables)
    BY InLock DEF Locked
<1>3. Outcome(asked[c], tables) \in Tables /\ Whole(Outcome(asked[c], tables))
    BY <1>2, OutcomeTyped
<1> QED
    BY <1>1, <1>3

LEMMA StoreTransaction ==
    ASSUME StoreInv, NEW c \in Callers, Transaction(c), answer' = answer
    PROVE  StoreInv'
<1> DEFINE r == asked[c]
           n == step[c]
<1>0. pc[c] \in Locked /\ UNCHANGED <<asked, runner>>
    BY TransactionCases
<1>1. /\ r \in Requests /\ ~Refused(r) /\ r.kind \in Changes
      /\ Statements(r) # <<>> /\ ~done[c]
      /\ Len(Statements(r)) \in Nat /\ Len(Statements(r)) > 0
      /\ tables \in Tables /\ Whole(tables)
    BY <1>0, InLock
<1>2. step \in [Callers -> Nat] /\ done \in [Callers -> BOOLEAN]
    BY DEF StoreInv, CallerType
<1>3. CASE Leave(c, "error") /\ UNCHANGED <<tables, done>>
    BY <1>0, <1>1, <1>2, <1>3, StoreLeave
<1>4. CASE /\ pc[c] = "begin" /\ Goto(c, "statement") /\ work' = tables
           /\ UNCHANGED <<step, mu, tables, done>>
    <2>1. n = 1
        BY <1>4 DEF StoreInv, TransactionInv
    <2>2. work' = After(r, step'[c] - 1, tables) /\ step'[c] \in 1 .. Len(Statements(r))
        <3>1. step'[c] = 1 /\ step'[c] - 1 = 0
            BY <1>4, <2>1
        <3>2. After(r, 0, tables) = tables
            BY DEF After
        <3> QED
            BY <1>1, <1>4, <3>1, <3>2
    <2> QED
        BY <1>0, <1>2, <1>4, <2>2, StoreInside
<1>5. CASE Goto(c, "rollback") /\ UNCHANGED <<step, mu, tables, done>>
    BY <1>0, <1>2, <1>5, StoreInside
<1>6. CASE /\ pc[c] = "statement" /\ runner
           /\ work' = Effect(Statements(r)[n], work)
           /\ step' = [step EXCEPT ![c] = @ + 1]
           /\ Goto(c, IF n < Len(Statements(r)) THEN "statement" ELSE "commit")
           /\ UNCHANGED <<mu, tables, done>>
    <2>1. n \in 1 .. Len(Statements(r)) /\ work = After(r, n - 1, tables)
        BY <1>6 DEF StoreInv, TransactionInv
    <2>2. n - 1 \in Nat /\ n - 1 < Len(Statements(r)) /\ (n - 1) + 1 = n
        BY <1>1, <2>1
    <2>3. After(r, n, tables) = Effect(Statements(r)[n], After(r, n - 1, tables))
        BY <1>1, <2>2, StatementStep
    <2>4. work' = After(r, n, tables)
        BY <1>6, <2>1, <2>3
    <2>5. /\ step' \in [Callers -> Nat] /\ step'[c] = n + 1 /\ step'[c] - 1 = n
          /\ \A x \in Callers \ {c} : step'[x] = step[x]
        BY <1>2, <1>6
    <2>6. CASE n < Len(Statements(r))
        <3>1. step'[c] \in 1 .. Len(Statements(r)) /\ Goto(c, "statement")
            BY <1>1, <1>2, <1>6, <2>5, <2>6
        <3>2. work' = After(r, step'[c] - 1, tables)
            BY <2>4, <2>5
        <3> QED
            BY <1>0, <1>6, <2>5, <3>1, <3>2, StoreInside
    <2>7. CASE ~(n < Len(Statements(r)))
        <3>1. n = Len(Statements(r)) /\ Goto(c, "commit")
            BY <1>1, <1>6, <2>1, <2>7
        <3>2. work' = Outcome(r, tables)
            BY <1>1, <2>4, <3>1, StatementsAll
        <3> QED
            BY <1>0, <1>6, <2>5, <3>1, <3>2, StoreInside
    <2> QED
        BY <2>6, <2>7
<1>7. CASE /\ pc[c] = "commit" /\ runner /\ tables' = work
           /\ done' = [done EXCEPT ![c] = TRUE]
           /\ Leave(c, AfterCommit(r))
    <2>1. tables' \in Tables /\ Whole(tables')
        BY <1>7, CommitOutcome
    <2>2. /\ done' \in [Callers -> BOOLEAN] /\ done'[c]
          /\ \A x \in Callers \ {c} : done'[x] = done[x]
        BY <1>2, <1>7
    <2>3. AfterCommit(r) \in {"error", "respond", "getconn"}
        BY DEF AfterCommit
    <2> QED
        BY <1>0, <1>7, <2>1, <2>2, <2>3, StoreLeave
<1> QED
    BY <1>3, <1>4, <1>5, <1>6, <1>7, TransactionCases

\* The end of the executor loses what was not committed.
LEMMA StoreClose ==
    ASSUME StoreInv, (Close \/ RunExit) /\ UNCHANGED tagger
    PROVE  StoreInv'
<1>1. CASE Close
    <2>1. UNCHANGED <<pc, asked, step, done, mu, runner, work, tables, answer>>
        BY <1>1 DEF Close, tagger
    <2> QED
        BY <2>1 DEF StoreInv, CallerType, PlaceInv, TransactionInv
<1>2. CASE RunExit
    <2>1. UNCHANGED <<pc, asked, step, done, mu, tables, answer>> /\ runner' = FALSE
        BY <1>2 DEF RunExit, tagger
    <2> QED
        BY <2>1 DEF StoreInv, CallerType, PlaceInv, TransactionInv
<1> QED
    BY <1>1, <1>2

\* The actions of Next.
LEMMA NextCases ==
    ASSUME Next
    PROVE  \/ \E c \in Callers :
                \/ \E r \in Requests : Ask(c, r)
                \/ Check(c)
                \/ Lock(c) /\ Execute(c)
                \/ Transaction(c) /\ Execute(c)
                \/ Connect(c) \/ Snapshot(c) \/ Install(c) \/ ReadDetail(c)
                \/ Respond(c)
           \/ (Close \/ RunExit) /\ UNCHANGED tagger
<1>1. ASSUME NEW c \in Callers,
             \/ TaggerAddTag(c) \/ TaggerGetTags(c) \/ TaggerDeleteTag(c)
             \/ TaggerAddMember(c) \/ TaggerTagGetMembers(c) \/ TaggerDeleteTagMember(c)
             \/ TaggerAddressReplace(c) \/ TaggerKnownHosts(c) \/ TaggerDeleteMember(c)
      PROVE  \E r \in Requests : Ask(c, r)
    BY <1>1 DEF TaggerAddTag, TaggerGetTags, TaggerDeleteTag, TaggerAddMember,
                TaggerTagGetMembers, TaggerDeleteTagMember, TaggerAddressReplace,
                TaggerKnownHosts, TaggerDeleteMember, AskFor
<1>2. ASSUME NEW c \in Callers, Serve(c)
      PROVE  \/ Check(c) \/ (Lock(c) /\ Execute(c)) \/ (Transaction(c) /\ Execute(c))
             \/ Connect(c) \/ Snapshot(c) \/ Install(c) \/ ReadDetail(c) \/ Respond(c)
    BY <1>2 DEF Serve, Execute
<1> QED
    BY <1>1, <1>2 DEF Next

LEMMA StoreNext == StoreInv /\ [Next]_vars => StoreInv'
<1> SUFFICES ASSUME StoreInv, [Next]_vars PROVE StoreInv'
    OBVIOUS
<1>1. CASE UNCHANGED vars
    BY <1>1 DEF vars, executor, tagger, StoreInv, CallerType, PlaceInv, TransactionInv
<1>2. CASE Next
    <2>1. ASSUME NEW c \in Callers, Lock(c) /\ Execute(c) PROVE StoreInv'
        BY <2>1, StoreLock DEF Execute
    <2>2. ASSUME NEW c \in Callers, Transaction(c) /\ Execute(c) PROVE StoreInv'
        BY <2>2, StoreTransaction DEF Execute
    <2> QED
        BY <1>2, <2>1, <2>2, NextCases, StoreAsk, StoreCheck, StoreRead, StoreRespond, StoreClose
<1> QED
    BY <1>1, <1>2

-----------------------------------------------------------------------------
(* The refinement.                                                         *)

Call == [c \in Callers |-> CallState(c)]

LEMMA CallCases ==
    ASSUME NEW c \in Callers
    PROVE  /\ pc[c] = "idle" => CallState(c) = "none"
           /\ pc[c] # "idle" /\ done[c] => CallState(c) = "applied"
           /\ pc[c] = "error" /\ ~done[c] => CallState(c) = "failed"
           /\ pc[c] \notin {"idle", "error"} /\ ~done[c] => CallState(c) = "pending"
           /\ pc'[c] = "idle" => CallState(c)' = "none"
           /\ pc'[c] # "idle" /\ done'[c] => CallState(c)' = "applied"
           /\ pc'[c] = "error" /\ ~done'[c] => CallState(c)' = "failed"
           /\ pc'[c] \notin {"idle", "error"} /\ ~done'[c] => CallState(c)' = "pending"
           /\ pc'[c] = pc[c] /\ done'[c] = done[c] => CallState(c)' = CallState(c)
BY DEF CallState

\* A step of one caller changes what it has called for, and nothing else of that.
LEMMA CallMove ==
    ASSUME NEW c \in Callers, NEW q, pc \in [Callers -> Places], Goto(c, q),
           \A x \in Callers \ {c} : done'[x] = done[x]
    PROVE  /\ pc'[c] = q
           /\ Call' = [Call EXCEPT ![c] = CallState(c)']
           /\ CallState(c)' = CallState(c) => Call' = Call
           /\ Call[c] = CallState(c)
<1>1. pc'[c] = q /\ \A x \in Callers \ {c} : pc'[x] = pc[x]
    BY DEF Goto
<1>2. \A x \in Callers \ {c} : CallState(x)' = CallState(x)
    BY <1>1, CallCases
<1>3. Call' = [x \in Callers |-> CallState(x)']
    BY DEF Call
<1> QED
    BY <1>1, <1>2, <1>3 DEF Call

\* The tables of the abstract store are the same ones.
LEMMA SameRequest == Store!NoRequest = NoRequest
BY DEF Store!NoRequest, NoRequest, Store!Request, Request

LEMMA SameOutcome == \A r, t : Store!Outcome(r, t) = Outcome(r, t)
<1> TAKE r, t
<1>1. Store!Created(r, t) = Created(r, t)
    BY DEF Store!Created, Created, Store!Table, Table
<1>2. Store!Added(r, t) = Added(r, t)
    BY DEF Store!Added, Added, Store!Table, Table, Store!Named, Named
<1>3. Store!Replaced(r, t) = Replaced(r, t)
    BY DEF Store!Replaced, Replaced, Store!Table, Table, Store!Named, Named, Store!Others, Others
<1>4. Store!Removed(r, t) = Removed(r, t)
    BY DEF Store!Removed, Removed, Store!Table, Table
<1>5. Store!MemberDeleted(r, t) = MemberDeleted(r, t)
    BY DEF Store!MemberDeleted, MemberDeleted, Store!Table, Table, Store!Others, Others
<1>6. Store!LabelDeleted(r, t) = LabelDeleted(r, t)
    BY DEF Store!LabelDeleted, LabelDeleted, Store!Table, Table
<1> QED
    BY <1>1, <1>2, <1>3, <1>4, <1>5, <1>6, Zenon
       DEF Store!Outcome, Outcome, Store!Reads, Reads

LEMMA RefineAsk ==
    ASSUME StoreInv, NEW c \in Callers, NEW r \in Requests, Ask(c, r)
    PROVE  Store!Invoke(c, r)
<1>1. /\ pc[c] = "idle" /\ Goto(c, "check") /\ done' = done
      /\ asked' = [asked EXCEPT ![c] = r] /\ answer' = [answer EXCEPT ![c] = "none"]
      /\ tables' = tables
    BY DEF Ask, executor
<1>2. ~done'[c] /\ pc \in [Callers -> Places]
    BY <1>1 DEF StoreInv, PlaceInv, CallerType
<1>3. Call[c] = "none" /\ Call' = [Call EXCEPT ![c] = "pending"]
    BY <1>1, <1>2, CallMove, CallCases
<1> QED
    BY <1>1, <1>3 DEF Store!Invoke, Call

\* A step that only moves: what is called for stays, or is given up.
LEMMA RefineMove ==
    ASSUME StoreInv, NEW c \in Callers, NEW q, Goto(c, q), UNCHANGED <<tables, asked, answer>>,
           \A x \in Callers \ {c} : done'[x] = done[x],
           \/ CallState(c)' = CallState(c)
           \/ CallState(c) = "pending" /\ CallState(c)' = "failed"
           \/ /\ CallState(c) = "pending" /\ CallState(c)' = "applied"
              /\ Outcome(asked[c], tables) = tables
    PROVE  Store!Apply(c) \/ Store!GiveUp(c) \/ UNCHANGED <<tables, Call, asked, answer>>
<1>1. /\ Call' = [Call EXCEPT ![c] = CallState(c)']
      /\ CallState(c)' = CallState(c) => Call' = Call
      /\ Call[c] = CallState(c)
    BY CallMove DEF StoreInv, CallerType
<1>2. CASE CallState(c)' = CallState(c)
    BY <1>1, <1>2
<1>3. CASE CallState(c) = "pending" /\ CallState(c)' = "failed"
    BY <1>1, <1>3 DEF Store!GiveUp, Call
<1>4. CASE /\ CallState(c) = "pending" /\ CallState(c)' = "applied"
           /\ Outcome(asked[c], tables) = tables
    BY <1>1, <1>4, SameOutcome DEF Store!Apply, Call
<1> QED
    BY <1>2, <1>3, <1>4

LEMMA RefineCheck ==
    ASSUME StoreInv, NEW c \in Callers, Check(c)
    PROVE  Store!Apply(c) \/ Store!GiveUp(c) \/ UNCHANGED <<tables, Call, asked, answer>>
<1>0. /\ pc[c] = "check" /\ asked[c] \in Requests /\ ~done[c]
      /\ UNCHANGED <<asked, answer, tables>>
      /\ \A x \in Callers \ {c} : done'[x] = done[x]
    BY CheckCases
<1>1. pc \in [Callers -> Places] /\ CallState(c) = "pending"
    BY <1>0, CallCases DEF StoreInv, CallerType
<1>2. CASE Goto(c, "error") /\ ~done'[c]
    <2>1. pc'[c] = "error"
        BY <1>0, <1>1, <1>2, CallMove
    <2> QED
        BY <1>0, <1>1, <1>2, <2>1, CallCases, RefineMove
<1>3. CASE (Goto(c, "getdetail") \/ Goto(c, "lock")) /\ ~done'[c]
    <2>1. pc'[c] \in {"getdetail", "lock"}
        BY <1>0, <1>1, <1>3, CallMove
    <2> QED
        BY <1>0, <1>1, <1>3, <2>1, CallCases, RefineMove
<1>4. CASE Goto(c, "getconn") /\ done'[c] /\ asked[c].kind = "add" /\ asked[c].set = {}
    <2>1. pc'[c] = "getconn"
        BY <1>0, <1>1, <1>4, CallMove
    <2>2. Outcome(asked[c], tables) = tables
        BY <1>4, OutcomeCases DEF Added
    <2> QED
        BY <1>0, <1>1, <1>4, <2>1, <2>2, CallCases, RefineMove
<1> QED
    BY <1>2, <1>3, <1>4, CheckCases

LEMMA RefineRead ==
    ASSUME StoreInv, NEW c \in Callers, Connect(c) \/ Snapshot(c) \/ Install(c) \/ ReadDetail(c)
    PROVE  Store!Apply(c) \/ Store!GiveUp(c) \/ UNCHANGED <<tables, Call, asked, answer>>
<1>0. UNCHANGED <<tables, asked, answer>>
    BY DEF Connect, GetConn, Snapshot, QueryFails, Install, ReadDetail, executor, tagger
<1>1. pc \in [Callers -> Places] /\ done \in [Callers -> BOOLEAN]
    BY DEF StoreInv, CallerType
<1>2. /\ pc[c] \in {"getconn", "snapshot", "install", "respond"} => done[c]
      /\ pc[c] \in {"getdetail", "detail"} /\ ~done[c] => asked[c].kind \in Reads
    BY DEF StoreInv, PlaceInv
<1>3. CASE Connect(c)
    <2>1. /\ pc[c] \in {"getconn", "getdetail"} /\ done' = done
          /\ Goto(c, IF pc[c] = "getconn" THEN "snapshot" ELSE "detail")
        BY <1>3 DEF Connect, GetConn, executor
    <2>2. pc'[c] \in {"snapshot", "detail"}
        BY <1>1, <2>1, CallMove
    <2>3. CallState(c)' = CallState(c)
        BY <1>1, <2>1, <2>2, CallCases
    <2> QED
        BY <1>0, <2>1, <2>3, RefineMove
<1>4. CASE Snapshot(c)
    <2>1. pc[c] = "snapshot" /\ done' = done /\ (Goto(c, "error") \/ Goto(c, "install"))
        BY <1>4 DEF Snapshot, QueryFails
    <2>2. pc'[c] \in {"error", "install"} /\ done[c]
        BY <1>1, <1>2, <2>1, CallMove
    <2>3. CallState(c)' = CallState(c)
        BY <2>1, <2>2, CallCases
    <2> QED
        BY <1>0, <2>1, <2>3, RefineMove
<1>5. CASE Install(c)
    <2>1. pc[c] = "install" /\ done' = done /\ (Goto(c, "getdetail") \/ Goto(c, "respond"))
        BY <1>5 DEF Install, executor
    <2>2. pc'[c] \in {"getdetail", "respond"} /\ done[c]
        BY <1>1, <1>2, <2>1, CallMove
    <2>3. CallState(c)' = CallState(c)
        BY <2>1, <2>2, CallCases
    <2> QED
        BY <1>0, <2>1, <2>3, RefineMove
<1>6. CASE ReadDetail(c)
    <2>0. pc[c] = "detail"
        BY <1>6 DEF ReadDetail
    <2>1. \/ Goto(c, "error") /\ done' = done
          \/ Goto(c, "respond") /\ done' = [done EXCEPT ![c] = TRUE]
        BY <1>6 DEF ReadDetail, QueryFails
    <2>2. CASE Goto(c, "error") /\ done' = done
        <3>1. pc'[c] = "error"
            BY <1>1, <2>2, CallMove
        <3>2. \/ CallState(c)' = CallState(c)
              \/ CallState(c) = "pending" /\ CallState(c)' = "failed"
            BY <2>0, <2>2, <3>1, CallCases
        <3> QED
            BY <1>0, <2>2, <3>2, RefineMove
    <2>3. CASE Goto(c, "respond") /\ done' = [done EXCEPT ![c] = TRUE]
        <3>0. done'[c] /\ \A x \in Callers \ {c} : done'[x] = done[x]
            BY <1>1, <2>3
        <3>4. pc'[c] = "respond"
            BY <1>1, <2>3, <3>0, CallMove
        <3>1. CallState(c)' = "applied"
            BY <3>0, <3>4, CallCases
        <3>2. CASE done[c]
            <4>1. CallState(c) = "applied"
                BY <2>0, <3>2, CallCases
            <4> QED
                BY <1>0, <2>3, <3>0, <3>1, <4>1, RefineMove
        <3>3. CASE ~done[c]
            <4>1. CallState(c) = "pending"
                BY <2>0, <3>3, CallCases
            <4>2. Outcome(asked[c], tables) = tables
                BY <1>2, <2>0, <3>3, OutcomeCases
            <4> QED
                BY <1>0, <2>3, <3>0, <3>1, <4>1, <4>2, RefineMove
        <3> QED
            BY <3>2, <3>3
    <2> QED
        BY <2>1, <2>2, <2>3
<1> QED
    BY <1>3, <1>4, <1>5, <1>6

LEMMA RefineRespond ==
    ASSUME StoreInv, NEW c \in Callers, Respond(c)
    PROVE  Store!Reply(c)
<1>1. /\ pc[c] \in {"respond", "error"} /\ Goto(c, "idle")
      /\ asked' = [asked EXCEPT ![c] = NoRequest]
      /\ done' = [done EXCEPT ![c] = FALSE]
      /\ answer' = [answer EXCEPT ![c] = IF pc[c] = "respond" THEN "ok" ELSE "error"]
      /\ tables' = tables
    BY DEF Respond
<1>2. /\ pc \in [Callers -> Places] /\ done \in [Callers -> BOOLEAN]
      /\ pc[c] = "respond" => done[c]
    BY DEF StoreInv, CallerType, PlaceInv
<1>3. \A x \in Callers \ {c} : done'[x] = done[x]
    BY <1>1, <1>2
<1>4. Call' = [Call EXCEPT ![c] = "none"] /\ Call[c] = CallState(c)
    BY <1>1, <1>2, <1>3, CallMove, CallCases
<1>5. /\ pc[c] = "respond" => CallState(c) = "applied"
      /\ CallState(c) \in {"applied", "failed"}
    BY <1>1, <1>2, CallCases
<1>6. PICK a \in {"ok", "error"} : /\ answer' = [answer EXCEPT ![c] = a]
                                   /\ a = "ok" => pc[c] = "respond"
    BY <1>1
<1> QED
    BY <1>1, <1>4, <1>5, <1>6, SameRequest DEF Store!Reply, Call

LEMMA RefineLock ==
    ASSUME StoreInv, NEW c \in Callers, Lock(c) /\ Execute(c)
    PROVE  UNCHANGED <<tables, Call, asked, answer>>
<1>1. pc[c] = "lock" /\ Goto(c, "begin") /\ UNCHANGED <<asked, done, tables, answer>>
    BY DEF Lock, Execute
<1>2. pc \in [Callers -> Places] /\ ~done[c]
    BY <1>1 DEF StoreInv, CallerType, PlaceInv
<1>3. CallState(c)' = CallState(c)
    BY <1>1, <1>2, CallMove, CallCases
<1> QED
    BY <1>1, <1>2, <1>3, CallMove

LEMMA RefineTransaction ==
    ASSUME StoreInv, NEW c \in Callers, Transaction(c) /\ Execute(c)
    PROVE  Store!Apply(c) \/ Store!GiveUp(c) \/ UNCHANGED <<tables, Call, asked, answer>>
<1>0. pc[c] \in Locked /\ UNCHANGED <<asked, runner, answer>>
    BY TransactionCases DEF Execute
<1>1. pc \in [Callers -> Places] /\ done \in [Callers -> BOOLEAN] /\ ~done[c]
    BY <1>0, InLock DEF StoreInv, CallerType
<1>2. CallState(c) = "pending"
    BY <1>0, <1>1, CallCases DEF Locked
<1>3. CASE Leave(c, "error") /\ UNCHANGED <<tables, done>>
    <2>1. Goto(c, "error") /\ pc'[c] = "error"
        BY <1>1, <1>3, CallMove DEF Leave
    <2> QED
        BY <1>0, <1>1, <1>2, <1>3, <2>1, CallCases, RefineMove
<1>4. CASE /\ UNCHANGED <<tables, done>>
           /\ Goto(c, "statement") \/ Goto(c, "rollback") \/ Goto(c, "commit")
    <2>1. pc'[c] \in {"statement", "rollback", "commit"}
        BY <1>1, <1>4, CallMove
    <2>2. CallState(c)' = CallState(c)
        BY <1>1, <1>2, <1>4, <2>1, CallCases
    <2> QED
        BY <1>0, <1>4, <2>2, RefineMove
<1>5. CASE /\ pc[c] = "commit" /\ runner /\ tables' = work
           /\ done' = [done EXCEPT ![c] = TRUE]
           /\ Leave(c, AfterCommit(asked[c]))
    <2>1. tables' = Outcome(asked[c], tables)
        BY <1>5, CommitOutcome
    <2>2. done'[c] /\ \A x \in Callers \ {c} : done'[x] = done[x]
        BY <1>1, <1>5
    <2>3. pc'[c] = AfterCommit(asked[c]) /\ Goto(c, AfterCommit(asked[c]))
        BY <1>1, <1>5, <2>2, CallMove DEF Leave
    <2>4. CallState(c)' = "applied"
        BY <2>2, <2>3, CallCases DEF AfterCommit
    <2>5. Call[c] = "pending" /\ Call' = [Call EXCEPT ![c] = "applied"]
        BY <1>1, <1>2, <2>2, <2>3, <2>4, CallMove
    <2> QED
        BY <1>0, <2>1, <2>5, SameOutcome DEF Store!Apply, Call
<1> QED
    BY <1>3, <1>4, <1>5, TransactionCases

LEMMA RefineStep == StoreInv /\ [Next]_vars => [Store!AbstractNext]_(Store!abstract)
<1> SUFFICES ASSUME StoreInv, [Next]_vars PROVE [Store!AbstractNext]_(Store!abstract)
    OBVIOUS
<1>0. Store!abstract = <<tables, Call, asked, answer>>
    BY DEF Store!abstract, Call
<1>1. CASE UNCHANGED vars
    <2>1. UNCHANGED <<tables, asked, answer, pc, done>>
        BY <1>1 DEF vars, executor, tagger
    <2>2. Call' = Call
        BY <2>1 DEF Call, CallState
    <2> QED
        BY <2>1, <2>2 DEF Store!abstract, Call
<1>2. CASE (Close \/ RunExit) /\ UNCHANGED tagger
    <2>1. UNCHANGED <<tables, asked, answer, pc, done>>
        BY <1>2 DEF Close, RunExit, tagger
    <2>2. Call' = Call
        BY <2>1 DEF Call, CallState
    <2> QED
        BY <2>1, <2>2 DEF Store!abstract, Call
<1>3. ASSUME NEW c \in Callers,
             Store!Apply(c) \/ Store!GiveUp(c) \/ UNCHANGED <<tables, Call, asked, answer>>
      PROVE  [Store!AbstractNext]_(Store!abstract)
    BY <1>3 DEF Store!AbstractNext, Store!abstract, Call
<1>4. ASSUME NEW c \in Callers, Respond(c)
      PROVE  [Store!AbstractNext]_(Store!abstract)
    BY <1>4, RefineRespond DEF Store!AbstractNext
<1>5. ASSUME NEW c \in Callers, NEW r \in Requests, Ask(c, r)
      PROVE  [Store!AbstractNext]_(Store!abstract)
    BY <1>5, RefineAsk DEF Store!AbstractNext
<1> QED
    BY <1>1, <1>2, <1>3, <1>4, <1>5, NextCases, RefineCheck, RefineRead, RefineLock,
       RefineTransaction

LEMMA RefineInit == Init => Store!AbstractInit
<1> SUFFICES ASSUME Init PROVE Store!AbstractInit
    OBVIOUS
<1>1. Call = [c \in Callers |-> "none"]
    BY CallCases DEF Init, Call
<1> QED
    BY <1>1, SameRequest DEF Init, ExecutorInit, Store!AbstractInit, Call

\* The executor and the store implement the abstract tag store: whichever
\* statement, COMMIT or ROLLBACK fails, wherever SyncExecutor is closed and whoever
\* else calls, a request is applied as a whole or not at all, and one that is
\* answered with success has been.
THEOREM StoreRefined == Spec => ImplementsTagStore
<1>1. Init => StoreInv /\ Store!AbstractInit
    BY StoreInit, RefineInit
<1>2. StoreInv /\ [Next]_vars => StoreInv' /\ [Store!AbstractNext]_(Store!abstract)
    BY StoreNext, RefineStep
<1> QED
    BY <1>1, <1>2, PTL DEF Spec, ImplementsTagStore, Store!AbstractSpec

-----------------------------------------------------------------------------
(* The labels of the queries.                                              *)

\* A matcher gives a client the labels of the pairs that it is made of: those
\* of its address and those of the networks around it.
LEMMA MatcherRight ==
    ASSUME NEW pairs, NEW a \in Hosts
    PROVE  LookupLabels(MatcherOf(pairs), a) = ClientLabels(pairs, a)
<1> DEFINE m == MatcherOf(pairs)
           around == {c.labels : c \in {d \in m.cidr : a \in Within[d.network]}}
<1>1. m.exact[a] = {l \in Labels : <<a, l>> \in pairs}
    BY DEF MatcherOf, LabelsOfMember
<1>2. ASSUME NEW l \in UNION around
      PROVE  l \in Labels /\ \E n \in Networks : a \in Within[n] /\ <<n, l>> \in pairs
    <2>1. PICK c \in m.cidr : a \in Within[c.network] /\ l \in c.labels
        BY <1>2
    <2>2. PICK n \in Networks : c = [network |-> n, labels |-> LabelsOfMember(pairs, n)]
        BY <2>1 DEF MatcherOf
    <2> QED
        BY <2>1, <2>2 DEF LabelsOfMember
<1>3. ASSUME NEW l \in Labels, NEW n \in Networks, a \in Within[n], <<n, l>> \in pairs
      PROVE  l \in UNION around
    <2> DEFINE c == [network |-> n, labels |-> LabelsOfMember(pairs, n)]
    <2>1. l \in LabelsOfMember(pairs, n)
        BY <1>3 DEF LabelsOfMember
    <2>2. c \in m.cidr
        BY <2>1 DEF MatcherOf
    <2>3. c.labels \in around
        BY <1>3, <2>2
    <2> QED
        BY <2>1, <2>3
<1>4. LookupLabels(m, a) = m.exact[a] \cup UNION around
    BY DEF LookupLabels
<1> HIDE DEF m, around
<1> QED
    BY <1>1, <1>2, <1>3, <1>4 DEF ClientLabels, m

\* The matcher in use, and the pairs that a caller is about to make one of, have
\* been committed at some time.
MatcherInv ==
    /\ tables.pairs \in past
    /\ DOMAIN snap = Callers
    /\ \A c \in Callers : pc[c] = "install" => snap[c] \in past
    /\ \E pairs \in past : matcher = MatcherOf(pairs)

LabelInv == StoreInv /\ MatcherInv

LEMMA LabelInit == Init => LabelInv
BY StoreInit DEF Init, ExecutorInit, LabelInv, MatcherInv

\* A step that installs nothing and is not on its way to do so.
LEMMA MatcherKept ==
    ASSUME LabelInv, NEW c \in Callers, NEW q, Goto(c, q), q # "install",
           UNCHANGED <<snap, matcher>>, past \subseteq past', tables'.pairs \in past'
    PROVE  MatcherInv'
BY DEF LabelInv, MatcherInv, StoreInv, CallerType, Goto

LEMMA LabelNext == LabelInv /\ [Next]_vars => LabelInv'
<1> SUFFICES ASSUME LabelInv, [Next]_vars PROVE LabelInv'
    OBVIOUS
<1>0. StoreInv /\ StoreInv' /\ tables.pairs \in past /\ pc \in [Callers -> Places]
    BY StoreNext DEF LabelInv, MatcherInv, StoreInv, CallerType
<1>1. CASE UNCHANGED vars
    BY <1>0, <1>1 DEF vars, executor, tagger, LabelInv, MatcherInv
<1>2. ASSUME NEW c \in Callers, NEW r \in Requests, Ask(c, r) PROVE MatcherInv'
    BY <1>0, <1>2, MatcherKept DEF Ask, executor
<1>3. ASSUME NEW c \in Callers, Check(c) PROVE MatcherInv'
    <2>1. UNCHANGED <<tables, past, snap, matcher>>
        BY <1>3 DEF Check, tagger
    <2> QED
        BY <1>0, <1>3, <2>1, CheckCases, MatcherKept
<1>4. ASSUME NEW c \in Callers, Lock(c) \/ Transaction(c), Execute(c) PROVE MatcherInv'
    <2>1. past' = past \cup {tables'.pairs} /\ UNCHANGED <<snap, matcher>>
        BY <1>4 DEF Execute
    <2>2. \E q : q # "install" /\ Goto(c, q)
        <3>1. CASE Lock(c)
            BY <3>1 DEF Lock
        <3>2. CASE Transaction(c)
            BY <1>0, <3>2, TransactionCases DEF Leave, AfterCommit
        <3> QED
            BY <1>4, <3>1, <3>2
    <2> QED
        BY <2>1, <2>2, MatcherKept
<1>5. ASSUME NEW c \in Callers, Connect(c) PROVE MatcherInv'
    <2>1. /\ UNCHANGED <<tables, past, snap, matcher>>
          /\ Goto(c, IF pc[c] = "getconn" THEN "snapshot" ELSE "detail")
        BY <1>5 DEF Connect, GetConn, executor, tagger
    <2>2. \E q : q # "install" /\ Goto(c, q)
        BY <2>1
    <2> QED
        BY <1>0, <2>1, <2>2, MatcherKept
<1>6. ASSUME NEW c \in Callers, Snapshot(c) PROVE MatcherInv'
    <2>0. UNCHANGED <<tables, past, matcher>>
        BY <1>6 DEF Snapshot
    <2>1. CASE Goto(c, "error") /\ snap' = snap
        BY <1>0, <2>0, <2>1, MatcherKept
    <2>2. CASE Goto(c, "install") /\ snap' = [snap EXCEPT ![c] = tables.pairs]
        BY <1>0, <2>0, <2>2 DEF LabelInv, MatcherInv, Goto
    <2> QED
        BY <1>6, <2>1, <2>2 DEF Snapshot, QueryFails
<1>7. ASSUME NEW c \in Callers, Install(c) PROVE MatcherInv'
    <2>1. /\ UNCHANGED <<tables, past>> /\ snap' = [snap EXCEPT ![c] = {}]
          /\ matcher' = MatcherOf(snap[c]) /\ pc[c] = "install"
          /\ Goto(c, IF asked[c].kind \in {"add", "replace"} THEN "getdetail" ELSE "respond")
        BY <1>7 DEF Install, executor
    <2>2. snap[c] \in past
        BY <2>1 DEF LabelInv, MatcherInv
    <2>3. pc'[c] # "install" /\ \A x \in Callers \ {c} : pc'[x] = pc[x] /\ snap'[x] = snap[x]
        BY <1>0, <2>1 DEF Goto, LabelInv, MatcherInv
    <2> QED
        BY <2>1, <2>2, <2>3 DEF LabelInv, MatcherInv
<1>8. ASSUME NEW c \in Callers, ReadDetail(c) PROVE MatcherInv'
    <2>1. UNCHANGED <<tables, past, snap, matcher>> /\ (Goto(c, "error") \/ Goto(c, "respond"))
        BY <1>8 DEF ReadDetail, QueryFails
    <2> QED
        BY <1>0, <2>1, MatcherKept
<1>9. ASSUME NEW c \in Callers, Respond(c) PROVE MatcherInv'
    <2>1. UNCHANGED <<tables, past, snap, matcher>> /\ Goto(c, "idle")
        BY <1>9 DEF Respond
    <2> QED
        BY <1>0, <2>1, MatcherKept
<1>10. CASE (Close \/ RunExit) /\ UNCHANGED tagger
    BY <1>0, <1>10 DEF Close, RunExit, tagger, LabelInv, MatcherInv
<1> QED
    BY <1>0, <1>1, <1>2, <1>3, <1>4, <1>5, <1>6, <1>7, <1>8, <1>9, <1>10, NextCases
       DEF LabelInv

\* The labels that a query gets from lookupLabels are those of one committed state
\* of the table: however the requests interleave between their COMMIT, their
\* snapshot and the installation of a matcher, none is labelled by half of one.
THEOREM LabelsAreStored == Spec => []LabelsWereStored
<1>1. LabelInv => LabelsWereStored
    BY MatcherRight DEF LabelInv, MatcherInv, LabelsWereStored
<1> QED
    BY <1>1, LabelInit, LabelNext, PTL DEF Spec

-----------------------------------------------------------------------------
(* The answer to a request that nothing has overlapped.                    *)

Reloads(c) == asked[c].kind \notin Reads \cup {"create"}

\* Where a caller is that has been alone since its request: the others are idle,
\* so that what it has read of the tables still holds.
AloneType == /\ alone \in [Callers -> BOOLEAN]
             /\ DOMAIN snap = Callers /\ DOMAIN items = Callers
OthersIdle(c) == \A x \in Callers \ {c} : pc[x] = "idle"
SnapCurrent(c) == pc[c] = "install" => snap[c] = tables.pairs
MatcherCurrent(c) ==
    Reloads(c) /\ pc[c] \in {"getdetail", "detail", "respond"}
      => matcher = MatcherOf(tables.pairs)
LabelsReplaced(c) ==
    /\ asked[c].kind = "replace" /\ done[c] /\ pc[c] # "error"
         => GetMemberLabels(tables, asked[c].address) = Named(asked[c])
    /\ asked[c].kind = "replace" /\ pc[c] = "respond" => items[c] = Named(asked[c])
AloneCaller(c) == OthersIdle(c) /\ SnapCurrent(c) /\ MatcherCurrent(c) /\ LabelsReplaced(c)

AloneInv ==
    /\ StoreInv /\ AloneType
    /\ \A c \in Callers : alone[c] /\ pc[c] # "idle" => AloneCaller(c)

LEMMA AloneInit == Init => AloneInv
BY StoreInit DEF Init, ExecutorInit, AloneInv, AloneType

\* What a replacement leaves is what it lists.
LEMMA ReplacedLabels ==
    ASSUME NEW r \in Requests, r.kind = "replace", NEW t \in Tables
    PROVE  GetMemberLabels(Outcome(r, t), r.address) = Named(r)
<1>1. Outcome(r, t) = Replaced(r, t)
    BY OutcomeCases
<1>2. Replaced(r, t).pairs = Others(r, t) \cup ({r.address} \X Named(r))
    BY TableFields DEF Replaced
<1>3. Named(r) \subseteq Labels
    BY RequestTyped DEF Named
<1> HIDE DEF Named
<1>4. \A l : <<r.address, l>> \notin Others(r, t)
    BY DEF Others
<1> QED
    BY <1>1, <1>2, <1>3, <1>4 DEF GetMemberLabels

\* A step of a caller that is under way: if it is alone, no other one is, and if
\* it is not, none of the others is alone.
LEMMA AloneStep ==
    ASSUME AloneInv, StoreInv', AloneType', NEW c \in Callers, NEW q, Goto(c, q), pc[c] # "idle",
           \A x \in Callers \ {c} : alone'[x] = alone[x],
           q # "idle" /\ alone'[c] => alone[c],
           q # "idle" /\ alone[c] =>
             SnapCurrent(c)' /\ MatcherCurrent(c)' /\ LabelsReplaced(c)'
    PROVE  AloneInv'
<1>1. pc'[c] = q /\ \A x \in Callers \ {c} : pc'[x] = pc[x]
    BY DEF AloneInv, StoreInv, CallerType, Goto
<1> SUFFICES ASSUME NEW x \in Callers, alone'[x], pc'[x] # "idle"
             PROVE  AloneCaller(x)'
    BY DEF AloneInv
<1>2. CASE x = c
    <2>1. OthersIdle(c)
        BY <1>1, <1>2 DEF AloneInv, AloneCaller
    <2>2. OthersIdle(c)'
        BY <1>1, <2>1 DEF OthersIdle
    <2> QED
        BY <1>1, <1>2, <2>2 DEF AloneCaller
<1>3. CASE x # c
    <2>1. OthersIdle(x)
        BY <1>1, <1>3 DEF AloneInv, AloneCaller
    <2> QED
        BY <1>3, <2>1 DEF OthersIdle
<1> QED
    BY <1>2, <1>3

LEMMA AloneNext == AloneInv /\ [Next]_vars => AloneInv'
<1> SUFFICES ASSUME AloneInv, [Next]_vars PROVE AloneInv'
    OBVIOUS
<1>0. StoreInv /\ StoreInv' /\ AloneType /\ pc \in [Callers -> Places]
      /\ done \in [Callers -> BOOLEAN] /\ asked \in [Callers -> Requests \cup {NoRequest}]
    BY StoreNext DEF AloneInv, StoreInv, CallerType
<1>p. ASSUME NEW c \in Callers
      PROVE  /\ pc[c] # "idle" => asked[c] \in Requests
             /\ pc[c] \in {"idle", "check", "lock"} \cup Locked => ~done[c]
             /\ pc[c] \in {"getconn", "snapshot", "install", "respond"} => done[c]
             /\ pc[c] \in {"getdetail", "detail"} /\ ~done[c] => asked[c].kind \in Reads
             /\ alone[c] /\ pc[c] # "idle" => AloneCaller(c)
    BY <1>0 DEF StoreInv, PlaceInv, AloneInv
<1>1. CASE UNCHANGED vars
    BY <1>0, <1>1 DEF vars, executor, tagger, AloneInv, AloneType, AloneCaller, OthersIdle,
                      SnapCurrent, MatcherCurrent, LabelsReplaced, Reloads
<1>2. ASSUME NEW c \in Callers, NEW r \in Requests, Ask(c, r) PROVE AloneInv'
    <2>1. /\ pc[c] = "idle" /\ Goto(c, "check") /\ UNCHANGED <<items, snap, done>>
          /\ alone' = [x \in Callers |->
                         IF x = c THEN \A y \in Callers \ {c} : pc[y] = "idle"
                                  ELSE alone[x] /\ pc[x] = "idle"]
        BY <1>2 DEF Ask, executor
    <2>2. /\ pc'[c] = "check" /\ \A x \in Callers \ {c} : pc'[x] = pc[x]
          /\ ~done'[c]
        BY <1>0, <1>p, <2>1 DEF Goto
    <2>3. AloneType'
        BY <1>0, <2>1 DEF AloneType
    <2>4. ASSUME NEW x \in Callers, alone'[x], pc'[x] # "idle" PROVE AloneCaller(x)'
        <3>1. x = c /\ \A y \in Callers \ {c} : pc[y] = "idle"
            BY <2>1, <2>2, <2>4
        <3> QED
            BY <2>2, <3>1 DEF AloneCaller, OthersIdle, SnapCurrent, MatcherCurrent, LabelsReplaced
    <2> QED
        BY <1>0, <2>3, <2>4 DEF AloneInv
<1>3. ASSUME NEW c \in Callers, Check(c) PROVE AloneInv'
    <2>1. UNCHANGED <<items, snap, alone>>
        BY <1>3 DEF Check, tagger
    <2>2. /\ pc[c] = "check" /\ asked' = asked
          /\ \/ Goto(c, "error")
             \/ Goto(c, "getdetail") /\ asked[c].kind \in Reads
             \/ Goto(c, "getconn") /\ asked[c].kind = "add"
             \/ Goto(c, "lock") /\ ~done'[c]
        BY <1>0, <1>3, CheckCases
    <2>3. AloneType'
        BY <1>0, <2>1 DEF AloneType
    <2>4. SnapCurrent(c)' /\ MatcherCurrent(c)' /\ LabelsReplaced(c)'
        BY <1>0, <2>2 DEF SnapCurrent, MatcherCurrent, LabelsReplaced, Reloads, Goto, Reads
    <2>5. \E q : Goto(c, q)
        BY <2>2
    <2> QED
        BY <1>0, <2>1, <2>2, <2>3, <2>4, <2>5, AloneStep
<1>4. ASSUME NEW c \in Callers, Lock(c), Execute(c) PROVE AloneInv'
    <2>1. /\ pc[c] = "lock" /\ Goto(c, "begin")
          /\ UNCHANGED <<items, snap, alone, asked, done>>
        BY <1>4 DEF Lock, Execute
    <2>2. AloneType'
        BY <1>0, <2>1 DEF AloneType
    <2>3. SnapCurrent(c)' /\ MatcherCurrent(c)' /\ LabelsReplaced(c)'
        BY <1>0, <1>p, <2>1 DEF SnapCurrent, MatcherCurrent, LabelsReplaced, Goto
    <2> QED
        BY <1>0, <2>1, <2>2, <2>3, AloneStep
<1>5. ASSUME NEW c \in Callers, Transaction(c), Execute(c) PROVE AloneInv'
    <2>1. /\ UNCHANGED <<items, snap, alone, asked>> /\ pc[c] \in Locked
          /\ ~done[c] /\ asked[c] \in Requests /\ tables \in Tables
        BY <1>0, <1>5, <1>p, TransactionCases DEF Execute, Locked, StoreInv, CallerType
    <2>2. AloneType'
        BY <1>0, <2>1 DEF AloneType
    <2>3. CASE /\ done' = done
               /\ \E q \in {"error", "statement", "rollback", "commit"} : Goto(c, q)
        <3>1. SnapCurrent(c)' /\ MatcherCurrent(c)' /\ LabelsReplaced(c)'
            BY <1>0, <2>1, <2>3 DEF SnapCurrent, MatcherCurrent, LabelsReplaced, Goto
        <3> QED
            BY <1>0, <2>1, <2>2, <2>3, <3>1, AloneStep DEF Locked
    <2>4. CASE /\ pc[c] = "commit" /\ runner /\ tables' = work
               /\ Leave(c, AfterCommit(asked[c]))
        <3>1. tables' = Outcome(asked[c], tables)
            BY <1>0, <2>4, CommitOutcome
        <3>2. pc'[c] = AfterCommit(asked[c]) /\ Goto(c, AfterCommit(asked[c]))
            BY <1>0, <2>4 DEF Leave, Goto
        <3>3. asked[c].kind = "replace" =>
                GetMemberLabels(tables', asked[c].address) = Named(asked[c])
            BY <2>1, <3>1, ReplacedLabels
        <3>4. SnapCurrent(c)' /\ MatcherCurrent(c)' /\ LabelsReplaced(c)'
            BY <2>1, <3>2, <3>3
               DEF SnapCurrent, MatcherCurrent, LabelsReplaced, AfterCommit, Reloads
        <3> QED
            BY <1>0, <2>1, <2>2, <2>4, <3>2, <3>4, AloneStep
    <2>5. \/ /\ done' = done
             /\ \E q \in {"error", "statement", "rollback", "commit"} : Goto(c, q)
          \/ /\ pc[c] = "commit" /\ runner /\ tables' = work
             /\ Leave(c, AfterCommit(asked[c]))
        BY <1>0, <1>5, TransactionCases DEF Leave
    <2> QED
        BY <2>3, <2>4, <2>5
<1>6. ASSUME NEW c \in Callers, Connect(c) PROVE AloneInv'
    <2>1. /\ pc[c] \in {"getconn", "getdetail"}
          /\ UNCHANGED <<items, snap, alone, asked, done, tables, matcher>>
          /\ Goto(c, IF pc[c] = "getconn" THEN "snapshot" ELSE "detail")
        BY <1>6 DEF Connect, GetConn, executor, tagger
    <2>2. AloneType'
        BY <1>0, <2>1 DEF AloneType
    <2>3. pc'[c] = IF pc[c] = "getconn" THEN "snapshot" ELSE "detail"
        BY <1>0, <2>1 DEF Goto
    <2>4. alone[c] => SnapCurrent(c)' /\ MatcherCurrent(c)' /\ LabelsReplaced(c)'
        BY <1>p, <2>1, <2>3 DEF AloneCaller, SnapCurrent, MatcherCurrent, LabelsReplaced, Reloads
    <2> QED
        BY <1>0, <2>1, <2>2, <2>4, AloneStep
<1>7. ASSUME NEW c \in Callers, Snapshot(c) PROVE AloneInv'
    <2>1. /\ pc[c] = "snapshot" /\ UNCHANGED <<items, alone, asked, done, tables, matcher>>
          /\ \/ Goto(c, "error") /\ snap' = snap
             \/ Goto(c, "install") /\ snap' = [snap EXCEPT ![c] = tables.pairs]
        BY <1>7 DEF Snapshot, QueryFails
    <2>2. AloneType'
        BY <1>0, <2>1 DEF AloneType
    <2>3. /\ pc'[c] \in {"error", "install"}
          /\ pc'[c] = "install" => snap'[c] = tables.pairs
        BY <1>0, <2>1 DEF Goto, AloneType
    <2>4. alone[c] => SnapCurrent(c)' /\ MatcherCurrent(c)' /\ LabelsReplaced(c)'
        BY <1>p, <2>1, <2>3 DEF AloneCaller, SnapCurrent, MatcherCurrent, LabelsReplaced, Reloads
    <2>5. \E q : Goto(c, q)
        BY <2>1
    <2> QED
        BY <1>0, <2>1, <2>2, <2>4, <2>5, AloneStep
<1>8. ASSUME NEW c \in Callers, Install(c) PROVE AloneInv'
    <2>1. /\ pc[c] = "install" /\ UNCHANGED <<items, alone, asked, done, tables>>
          /\ snap' = [snap EXCEPT ![c] = {}] /\ matcher' = MatcherOf(snap[c])
          /\ Goto(c, IF asked[c].kind \in {"add", "replace"} THEN "getdetail" ELSE "respond")
        BY <1>8 DEF Install, executor
    <2>2. AloneType'
        BY <1>0, <2>1 DEF AloneType
    <2>3. pc'[c] = IF asked[c].kind \in {"add", "replace"} THEN "getdetail" ELSE "respond"
        BY <1>0, <2>1 DEF Goto
    <2>4. alone[c] => SnapCurrent(c)' /\ MatcherCurrent(c)' /\ LabelsReplaced(c)'
        BY <1>p, <2>1, <2>3 DEF AloneCaller, SnapCurrent, MatcherCurrent, LabelsReplaced, Reloads
    <2> QED
        BY <1>0, <2>1, <2>2, <2>4, AloneStep
<1>9. ASSUME NEW c \in Callers, ReadDetail(c) PROVE AloneInv'
    <2>1. /\ pc[c] = "detail" /\ UNCHANGED <<snap, alone, asked, tables, matcher>>
          /\ \/ Goto(c, "error") /\ UNCHANGED <<done, items>>
             \/ /\ Goto(c, "respond") /\ done' = [done EXCEPT ![c] = TRUE]
                /\ items' = [items EXCEPT ![c] = Listing(asked[c], tables)]
        BY <1>9 DEF ReadDetail, QueryFails
    <2>2. AloneType'
        BY <1>0, <2>1 DEF AloneType
    <2>3. /\ pc'[c] \in {"error", "respond"}
          /\ pc'[c] = "respond" => items'[c] = Listing(asked[c], tables)
        BY <1>0, <2>1 DEF Goto, AloneType
    <2>4. asked[c].kind = "replace" =>
            done[c] /\ Listing(asked[c], tables) = GetMemberLabels(tables, asked[c].address)
        BY <1>p, <2>1 DEF Listing, Reads
    <2>5. alone[c] => SnapCurrent(c)' /\ MatcherCurrent(c)' /\ LabelsReplaced(c)'
        BY <1>p, <2>1, <2>3, <2>4
           DEF AloneCaller, SnapCurrent, MatcherCurrent, LabelsReplaced, Reloads
    <2>6. \E q : Goto(c, q)
        BY <2>1
    <2> QED
        BY <1>0, <2>1, <2>2, <2>5, <2>6, AloneStep
<1>10. ASSUME NEW c \in Callers, Respond(c) PROVE AloneInv'
    <2>1. /\ pc[c] \in {"respond", "error"} /\ Goto(c, "idle") /\ snap' = snap
          /\ alone' = [alone EXCEPT ![c] = TRUE] /\ items' = [items EXCEPT ![c] = {}]
        BY <1>10 DEF Respond
    <2>2. AloneType' /\ \A x \in Callers \ {c} : alone'[x] = alone[x]
        BY <1>0, <2>1 DEF AloneType
    <2> QED
        BY <1>0, <2>1, <2>2, AloneStep
<1>11. CASE (Close \/ RunExit) /\ UNCHANGED tagger
    <2>1. UNCHANGED <<pc, asked, done, tables, tagger>>
        BY <1>11 DEF Close, RunExit
    <2> QED
        BY <1>0, <2>1 DEF tagger, AloneInv, AloneType, AloneCaller, OthersIdle,
                          SnapCurrent, MatcherCurrent, LabelsReplaced, Reloads
<1> QED
    BY <1>1, <1>2, <1>3, <1>4, <1>5, <1>6, <1>7, <1>8, <1>9, <1>10, <1>11, NextCases

\* A success is only ever answered by Respond, from where the request has been served.
LEMMA AnsweredWhere ==
    ASSUME StoreInv, [Next]_vars, NEW c \in Callers, answer[c] = "none", answer'[c] = "ok"
    PROVE  pc[c] = "respond"
<1>1. CASE UNCHANGED vars
    BY <1>1 DEF vars, tagger
<1>2. ASSUME NEW x \in Callers, NEW r \in Requests, Ask(x, r) PROVE FALSE
    BY <1>2 DEF Ask, StoreInv, CallerType
<1>3. ASSUME NEW x \in Callers, Respond(x) PROVE pc[c] = "respond"
    BY <1>3 DEF Respond, StoreInv, CallerType
<1>4. ASSUME NEW x \in Callers,
             Check(x) \/ Execute(x) \/ Connect(x) \/ Snapshot(x) \/ Install(x) \/ ReadDetail(x)
      PROVE  FALSE
    BY <1>4 DEF Check, Execute, Connect, Snapshot, Install, ReadDetail, tagger
<1>5. CASE UNCHANGED tagger
    BY <1>5 DEF tagger
<1> QED
    BY <1>1, <1>2, <1>3, <1>4, <1>5, NextCases

\* A request that nothing has overlapped is answered with success only when the
\* queries are labelled by what is stored; the answer to a replacement lists the
\* labels that were asked for.
THEOREM AnswersAreInUse == Spec => AnsweredIsInUse
<1>1. ASSUME AloneInv, [Next]_vars, NEW c \in Callers,
             answer[c] = "none", answer'[c] = "ok", alone[c],
             asked[c].kind \notin Reads \cup {"create"}
      PROVE  /\ \A a \in Hosts : LookupLabels(matcher, a) = ClientLabels(tables.pairs, a)
             /\ asked[c].kind = "replace" => items[c] = asked[c].set \ {Blank}
    <2>1. pc[c] = "respond"
        BY <1>1, AnsweredWhere DEF AloneInv
    <2>2. matcher = MatcherOf(tables.pairs)
          /\ (asked[c].kind = "replace" => items[c] = Named(asked[c]))
        BY <1>1, <2>1 DEF AloneInv, AloneCaller, MatcherCurrent, LabelsReplaced, Reloads
    <2> QED
        BY <2>2, MatcherRight DEF Named
<1>2. AloneInv /\ [Next]_vars
      => [\A c \in Callers :
            /\ answer[c] = "none" /\ answer'[c] = "ok"
            /\ alone[c]
            /\ asked[c].kind \notin Reads \cup {"create"}
            => /\ \A a \in Hosts : LookupLabels(matcher, a) = ClientLabels(tables.pairs, a)
               /\ asked[c].kind = "replace" => items[c] = asked[c].set \ {Blank}]_vars
    BY <1>1
<1> QED
    BY <1>2, AloneInit, AloneNext, PTL DEF Spec, AnsweredIsInUse
=============================================================================
