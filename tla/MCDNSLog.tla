----------------------------- MODULE MCDNSLog ------------------------------
(* Instances of DNSLog for model checking.                                 *)
EXTENDS DNSLog, TLC

\* Raw data, or both fields pseudonymized.
TwoModes == {[domains |-> FALSE, clients |-> FALSE], [domains |-> TRUE, clients |-> TRUE]}

\* Raw data, or pseudonyms in one field: what is enough to have data that must
\* be cleared.
DomainModes == {[domains |-> FALSE, clients |-> FALSE], [domains |-> TRUE, clients |-> FALSE]}

Symmetry == Permutations(Keys)
=============================================================================
