---------------------------- MODULE MCScrapeJobs ----------------------------
(***************************************************************************)
(* Instances of ScrapeJobs for TLC. Targets are named by their source.     *)
(***************************************************************************)
EXTENDS ScrapeJobs, TLC

CONSTANTS j1, j2, w1, w2, r1, r2, c1, t1, insecam, wuc, windy

MCSource ==
    [t \in Targets |-> CASE t = insecam -> "INSECAM"
                         [] t = wuc -> "WHATSUPCAMS"
                         [] t = windy -> "WINDY"]

\* The create-and-run task of the tick: Windy where the instance has it.
MCTickTarget == [t \in Ticks |-> IF windy \in Targets THEN windy ELSE wuc]

\* Rows, workers and web threads are interchangeable.
Symmetric ==
    Permutations(Jobs) \cup Permutations(Workers) \cup Permutations(Requests)

\* A bound of the run of the counters: a behaviour is not followed beyond the
\* first exception that nothing answers for.
Answered == abandoned = {}
=============================================================================
