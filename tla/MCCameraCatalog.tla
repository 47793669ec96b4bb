-------------------------- MODULE MCCameraCatalog --------------------------
(***************************************************************************)
(* Instances of CameraCatalog for TLC. live has a stream_url, dark none.   *)
(***************************************************************************)
EXTENDS CameraCatalog, TLC

CONSTANTS c1, c2, c3, u1, u2, u3, k1, k2, live, dark

Symmetric == Permutations(Rows) \cup Permutations(Scrapers) \cup Permutations(Tasks)
=============================================================================
