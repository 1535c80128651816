------------------------------ MODULE MCTagger ------------------------------
(* An instance of Tagger for model checking.                               *)
EXTENDS Tagger, TLC

CONSTANTS h1, h2, n1, l1, l2

\* The host h1 is in the network n1; both carry l1 from before.
MCWithin == [n \in Networks |-> {h1}]
MCStored == [labels |-> {l1}, members |-> {h1, n1}, pairs |-> {h1, n1} \X {l1}]

MCRequests ==
    {Request("create", l, Blank, {}) : l \in {l2, Blank}}
      \cup {Request("add", l2, Blank, s) : s \in {{}, {h2, Blank, n1}}}
      \cup {Request("replace", Blank, h1, s) : s \in {{}, {l2, Blank}}}
      \cup {Request("remove", l1, h1, {}), Request("deleteLabel", l1, Blank, {}),
            Request("deleteMember", Blank, n1, {}), Request("tags", Blank, Blank, {}),
            Request("members", l1, Blank, {})}
      \cup {Request("hosts", l, Blank, {}) : l \in {l1, Blank}}
=============================================================================
