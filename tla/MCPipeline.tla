----------------------------- MODULE MCPipeline -----------------------------
(* Instances of Pipeline for model checking.                               *)
EXTENDS Pipeline, TLC

CONSTANTS k1, k2

\* k1 is blocked by one policy or another, and k2 has a stub.
MCRules == [m \in Policies |-> IF m = "status" THEN {} ELSE {k1}]
MCStubZones == {{k2}, {}}
MCExcludeSets == {{}, {k2}}

\* Everything is stubbed.
OneZone == {Questions}
NoExcludes == {{}}
NoRules == [m \in Policies |-> {}]

Symmetry == Permutations(Queries)
=============================================================================
