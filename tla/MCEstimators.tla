---------------------------- MODULE MCEstimators ----------------------------
(* Five estimators, one after the other: a small battery, so that a few     *)
(* cycles make a sample; gaps that continue a measurement and one that ends *)
(* it; readings a week and more apart; hours at both ends of the profile.   *)
EXTENDS Estimators

=============================================================================
