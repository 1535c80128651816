----------------------------- MODULE TagTables ------------------------------
(***************************************************************************)
(* The three tables of the tagger, the statements that change them, the    *)
(* requests that are made of such statements, and the matcher that answers *)
(* which labels a client carries.                                          *)
(***************************************************************************)
EXTENDS Naturals, Sequences, FiniteSets, SequencesExt

CONSTANTS
    Hosts,      \* client addresses
    Networks,   \* members written as a network
    Within,     \* Within[n]: the hosts of network n
    Labels,
    Blank,      \* a label or an address of blanks only
    Stored      \* the tables that the database has from before

Members == Hosts \cup Networks

Tables == [labels : SUBSET Labels, members : SUBSET Members,
           pairs : SUBSET (Members \X Labels)]
EmptyTables == [labels |-> {}, members |-> {}, pairs |-> {}]

ASSUME TagTablesAssumption ==
    /\ Stored \in Tables
    /\ Stored.pairs \subseteq Stored.members \X Stored.labels
    /\ Hosts \cap Networks = {}
    /\ Within \in [Networks -> SUBSET Hosts]
    /\ Blank \notin Members \cup Labels

-----------------------------------------------------------------------------
(* Statements.                                                             *)

Insert(table, x) == [do |-> "insert", into |-> table, row |-> x]
InsertNew(table, x) == [do |-> "insertNew", into |-> table, row |-> x]
Delete(table, x) == [do |-> "delete", into |-> table, row |-> x]
DeleteBare(a) == [do |-> "deleteBare", into |-> "members", row |-> a]

\* The foreign keys of member_labels are ON DELETE CASCADE.
Cascade(t) ==
    [t EXCEPT !.pairs = {p \in @ : p[1] \in t.members /\ p[2] \in t.labels}]

\* What a statement makes of the tables.  Insert has ON CONFLICT DO NOTHING.
Effect(s, t) ==
    CASE s.do \in {"insert", "insertNew"} -> [t EXCEPT ![s.into] = @ \cup {s.row}]
      [] s.do = "delete" -> Cascade([t EXCEPT ![s.into] = @ \ {s.row}])
      [] s.do = "deleteBare" ->
           IF \E p \in t.pairs : p[1] = s.row
           THEN t
           ELSE Cascade([t EXCEPT !.members = @ \ {s.row}])

\* SQLite refuses a second row with the same key, and a pair without its member
\* or its label.
Rejects(s, t) ==
    \/ s.do = "insertNew" /\ s.row \in t[s.into]
    \/ /\ s.do \in {"insert", "insertNew"}
       /\ s.into = "pairs"
       /\ s.row[1] \notin t.members \/ s.row[2] \notin t.labels

-----------------------------------------------------------------------------
(* Requests.                                                               *)

\* label, address and set have blanks in them as they come; a set of members
\* or labels is what is left of a list after trimming and removal of doubles.
Request(kind, label, address, set) ==
    [kind |-> kind, label |-> label, address |-> address, set |-> set]
NoRequest == Request("none", Blank, Blank, {})

\* A request that is refused before any statement: a blank name, or a limit for
\* the known hosts that is not a number, which is a Blank label here.
Refused(r) ==
    \/ r.kind \in {"create", "add", "remove", "deleteLabel", "hosts"} /\ r.label = Blank
    \/ r.kind \in {"replace", "remove", "deleteMember"} /\ r.address = Blank

CreateLabel(l) == <<Insert("labels", l)>>

\* A list of members that is empty has no statements; one of blanks has one.
\* Each member has two: statements 2 and 3 are those of the first one.
AddMembersToLabel(l, addresses) ==
    LET list == SetToSeq(addresses \ {Blank})
    IN  IF addresses = {}
        THEN <<>>
        ELSE [i \in 1 .. 2 * Len(list) + 1 |->
                CASE i = 1 -> Insert("labels", l)
                  [] i # 1 /\ i % 2 = 0 -> Insert("members", list[i \div 2])
                  [] i # 1 /\ i % 2 = 1 -> Insert("pairs", <<list[i \div 2], l>>)]

\* Here statements 3 and 4 are those of the first label.
ReplaceMemberLabels(a, labels) ==
    LET list == SetToSeq(labels \ {Blank})
    IN  IF Len(list) = 0
        THEN <<Delete("members", a)>>
        ELSE [i \in 1 .. 2 * Len(list) + 2 |->
                CASE i = 1 -> Delete("members", a)
                  [] i = 2 -> InsertNew("members", a)
                  [] i > 2 /\ i % 2 = 1 -> Insert("labels", list[(i - 1) \div 2])
                  [] i > 2 /\ i % 2 = 0 -> InsertNew("pairs", <<a, list[(i - 1) \div 2]>>)]

RemoveMemberFromLabel(l, a) == <<Delete("pairs", <<a, l>>), DeleteBare(a)>>
DeleteMember(a) == <<Delete("members", a)>>
DeleteLabel(l) == <<Delete("labels", l)>>

Reads == {"tags", "members", "hosts"}

\* The statements of a request, in the order in which they are executed.
Statements(r) ==
    CASE r.kind = "create" -> CreateLabel(r.label)
      [] r.kind = "add" -> AddMembersToLabel(r.label, r.set)
      [] r.kind = "replace" -> ReplaceMemberLabels(r.address, r.set)
      [] r.kind = "remove" -> RemoveMemberFromLabel(r.label, r.address)
      [] r.kind = "deleteMember" -> DeleteMember(r.address)
      [] r.kind = "deleteLabel" -> DeleteLabel(r.label)
      [] r.kind \in Reads -> <<>>

\* The reference: what a request asks of the tables, in one piece.
Table(ls, ms, ps) == [labels |-> ls, members |-> ms, pairs |-> ps]
Named(r) == r.set \ {Blank}
Others(r, t) == {p \in t.pairs : p[1] # r.address}

Created(r, t) == Table(t.labels \cup {r.label}, t.members, t.pairs)
Added(r, t) ==
    IF r.set = {} THEN t
    ELSE Table(t.labels \cup {r.label}, t.members \cup Named(r),
               t.pairs \cup (Named(r) \X {r.label}))
Replaced(r, t) ==
    Table(t.labels \cup Named(r),
          IF Named(r) = {} THEN t.members \ {r.address} ELSE t.members \cup {r.address},
          Others(r, t) \cup ({r.address} \X Named(r)))
Removed(r, t) ==
    LET left == t.pairs \ {<<r.address, r.label>>}
    IN  Table(t.labels,
              IF \E p \in left : p[1] = r.address THEN t.members ELSE t.members \ {r.address},
              left)
MemberDeleted(r, t) == Table(t.labels, t.members \ {r.address}, Others(r, t))
LabelDeleted(r, t) == Table(t.labels \ {r.label}, t.members, {p \in t.pairs : p[2] # r.label})

Outcome(r, t) ==
    CASE r.kind = "create" -> Created(r, t)
      [] r.kind = "add" -> Added(r, t)
      [] r.kind = "replace" -> Replaced(r, t)
      [] r.kind = "remove" -> Removed(r, t)
      [] r.kind = "deleteMember" -> MemberDeleted(r, t)
      [] r.kind = "deleteLabel" -> LabelDeleted(r, t)
      [] r.kind \in Reads -> t

-----------------------------------------------------------------------------
(* What is read.                                                           *)

GetLabels(t) == t.labels
GetMemberLabels(t, a) == {l \in Labels : <<a, l>> \in t.pairs}
GetLabelMemberDetails(t, l) == {a \in Members : <<a, l>> \in t.pairs}

\* What the answer to a request lists.  The known hosts are aliases of the DNS
\* log's table; deletions and creations list nothing.
Listing(r, t) ==
    CASE r.kind = "tags" -> GetLabels(t)
      [] r.kind \in {"add", "members"} -> GetLabelMemberDetails(t, r.label)
      [] r.kind = "replace" -> GetMemberLabels(t, r.address)
      [] OTHER -> {}

-----------------------------------------------------------------------------
(* The matcher.                                                            *)

\* GetAllMemberLabels groups the pairs by member.
LabelsOfMember(pairs, a) == {l \in Labels : <<a, l>> \in pairs}

\* refreshMatchers: the members that are networks go into a list that is
\* searched, the others into a map.
MatcherOf(pairs) ==
    [exact |-> [a \in Hosts |-> LabelsOfMember(pairs, a)],
     cidr |-> {[network |-> n, labels |-> LabelsOfMember(pairs, n)] :
                 n \in {m \in Networks : LabelsOfMember(pairs, m) # {}}}]

\* lookupLabels: the labels of the address and of every network around it.
LookupLabels(matcher, a) ==
    matcher.exact[a]
      \cup UNION {c.labels : c \in {d \in matcher.cidr : a \in Within[d.network]}}

\* The reference: the labels that the table gives a client.
ClientLabels(pairs, a) ==
    {l \in Labels : \/ <<a, l>> \in pairs
                    \/ \E n \in Networks : a \in Within[n] /\ <<n, l>> \in pairs}
=============================================================================
