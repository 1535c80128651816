----------------------------- MODULE MCZenMode -----------------------------
(* Model checking of ZenMode.                 *)
EXTENDS ZenMode, TLC

=============================================================================
