----------------------------- MODULE MCTimedCache -----------------------------
(* Instances of TimedCache for TLC.                                          *)
EXTENDS TimedCache, TLC

CacheSymmetry == Permutations(Clients) \cup Permutations(Entries)
===============================================================================
