------------------------- MODULE MCCacheGenerations -------------------------
(***************************************************************************)
(* Instances of CacheGenerations for TLC.                                  *)
(***************************************************************************)
EXTENDS CacheGenerations, TLC

CONSTANTS r1, r2, w1, w2

Symmetric == Permutations(Readers) \cup Permutations(Writers)
=============================================================================
