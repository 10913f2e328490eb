----------------------------- MODULE MCFailSafe -----------------------------
(* The fail-safe for TLC: every age below, at and above a period, outages   *)
(* shorter and longer than both, and every number of failed boot resets.    *)
EXTENDS FailSafe

=============================================================================
