--------------------------- MODULE MCRouteUpdater ---------------------------
(* Instances of RouteUpdater for TLC.                                      *)
EXTENDS RouteUpdater, TLC

RouteSymmetry == Permutations(Callers) \cup Permutations(CIDRs)
=============================================================================
