---------------------------- MODULE MCGo2RTCSync ----------------------------
(***************************************************************************)
(* Instances of Go2RTCSync for TLC.                                        *)
(***************************************************************************)
EXTENDS Go2RTCSync, TLC

CONSTANTS p1, p2, p3, s1, s2, cfgA, cfgB

Symmetric == Permutations(Processes) \cup Permutations(Streams)
=============================================================================
