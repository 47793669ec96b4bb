---------------------------- MODULE MCScrapeTask ----------------------------
(***************************************************************************)
(* A scrape task seen from four sides: the schedule that starts it, what   *)
(* it collects, the places it looks up for the cameras, and the marker     *)
(* that shows it.  The four share no variable, so that no step of one can  *)
(* enable or disable a step of another; one moves while the others are     *)
(* idle.                                                                   *)
(***************************************************************************)
EXTENDS BeatSchedule, Collectors, GeoCache, TaskActivity

CONSTANTS c1, c2, c3, c4, c5, c6, i1, i2, v1, w1, w2, q1, q2

MCSites == {SubSeq(<<c1, c2, c3, c4, c5>>, 1, n) : n \in 0..5}

\* Two cameras of one place; one has an address to try before it.
MCCandidates == [c \in Cameras |-> IF c = c1 THEN <<q2, q1>> ELSE <<q1>>]

\* Ten countries with a blank and a repeated entry, and three hours' worth.
MCConfigured == {<<>>, <<1, 0, 2, 2, 3, 4, 5, 6, 7, 8, 9, 10>>, [i \in 1..27 |-> i]}

MCOverridden == {<<>>, <<<<2, 75>>>>, <<Malformed, <<26, 15>>>>}

Init == BeatInit /\ CollectInit /\ GeoInit /\ ActInit

Unused == run.phase = "none" /\ site = <<>>

ScheduleAlone ==
    Unused /\ begun + kills = 0 /\ starts = 0 /\ BeatNext /\ UNCHANGED <<collectVars, geoVars, actVars>>

CollectAlone ==
    beat = NoBeat /\ begun + kills = 0 /\ starts = 0 /\ CollectNext /\ UNCHANGED <<beat, geoVars, actVars>>

LookUpAlone ==
    beat = NoBeat /\ Unused /\ starts = 0 /\ GeoNext /\ UNCHANGED <<beat, collectVars, actVars>>

MarkAlone ==
    beat = NoBeat /\ Unused /\ begun + kills = 0 /\ ActNext /\ UNCHANGED <<beat, collectVars, geoVars>>

Next == ScheduleAlone \/ CollectAlone \/ LookUpAlone \/ MarkAlone

Spec == Init /\ [][Next]_<<beat, collectVars, geoVars, actVars>>

FairSpec == Spec /\ GeoFairness

\* Every component is well typed.
TypeOK ==
    /\ beat.state \in {"none", "loaded", "refused"}
    /\ CollectTypeOK /\ GeoTypeOK /\ ActTypeOK
=============================================================================
