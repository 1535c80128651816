---------------------------- MODULE MCBlocklist ----------------------------
\* Three names.  The branch has a revision with a line of two names, one that
\* validation refuses, and one of single names.
EXTENDS Blocklist

CONSTANTS a, b, c

MCContent ==
    <<{[first |-> a, rest |-> {b}]}, {}, {[first |-> b, rest |-> {}], [first |-> c, rest |-> {}]}>>
MCAllContent == [r \in 0..3 |-> IF r = 0 THEN {[first |-> a, rest |-> {}]} ELSE MCContent[r]]
=============================================================================
