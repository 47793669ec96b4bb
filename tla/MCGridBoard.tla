---------------------------- MODULE MCGridBoard ----------------------------
(***************************************************************************)
(* The manager of go2rtc instances: the rows and items its requests write, *)
(* the sidebar of its instances and its comparison of configurations.  The *)
(* three share no variable, so that no step of one can enable or disable a *)
(* step of another; one moves while the others are idle.                   *)
(***************************************************************************)
EXTENDS GridBoard, InstanceGroups, ConfigDiff

CONSTANTS s1, s2, r1, r2, Wall, Grid

MCSelections == {<<s1>>, <<s2, s1>>}

Line(name, host, wrong) == [name |-> name, host |-> host, wrong |-> wrong]

\* A file with a row of a wrong value, a blank line and a name listed twice, and one without a header.
MCFiles ==
    {[header |-> TRUE, lines |-> <<Line(2, 8, FALSE), Line(0, 0, FALSE), Line(1, 7, TRUE), Line(2, 7, FALSE)>>],
     [header |-> FALSE, lines |-> <<>>]}

Row(name, host, label, ips, number) ==
    [name |-> name, host |-> host, label |-> label, ips |-> ips,
     created |-> number, streams |-> <<2, 0, 2, 1>>[number], status |-> <<3, 0, 3, 1>>[number],
     listed |-> <<2, 4, 1, 3>>[number]]

Few == {S \in SUBSET {1, 2, 3} : Cardinality(S) <= 2}

Addresses == {f \in [1..4 -> Few] : f[1] \in {{}, {1}, {1, 2}} /\ f[4] \in {{1}, {3}, {1, 3}}}

\* Labels and hosts may be the same text, and so may the hosts of two instances.
MCFleets ==
    {[k \in 1..4 |-> Row(<<3, 1, 4, 2>>[k], <<4, 5, 4, 5>>[k], 0, f[k], k)] : f \in Addresses}
    \cup {[k \in 1..4 |-> Row(<<3, 1, 4, 2>>[k], 4, IF k \in {2, 4} THEN l ELSE 0, f[k], k)] :
             l \in {4, 5}, f \in {g \in Addresses : g[4] = {1} /\ g[3] \subseteq {1}}}
    \cup {[k \in 1..3 |-> Row(<<1, 2, 3>>[k], <<4, 5, 4>>[k], 0, {}, k)], <<>>}

MCOrders == {<<1, 2, 3>>, <<3, 1, 2>>}

MCValues == {Value("number", 1), Value("number", 2), Value("text", 1)}

Objects(values) == {Object(f) : f \in UNION {[D -> values] : D \in SUBSET {1, 2}}}

Lists(values) == {List(s) : s \in UNION {[1..n -> values] : n \in 0..2}}

MCTrees == MCValues \cup Objects(MCValues) \cup Lists(MCValues)

\* Configurations of one field that is any tree, and pairs of values.
MCConfigs == {Object([k \in {1} |-> t]) : t \in MCTrees} \cup Objects({Value("number", 1), Value("number", 2)})

MCAllTrees == MCTrees \cup MCConfigs \cup {Object(<<>>)}

\* Values are of depth 0, objects and lists of values of 1, others of 2.
MCDepth == [t \in MCAllTrees |-> IF t \in MCValues THEN 0 ELSE IF t \in MCTrees THEN 1 ELSE 2]

MCHistories == [1..2 -> MCConfigs] \cup {<<c, Object(<<>>), c>> : c \in MCConfigs}

Init == BoardInit /\ ViewInit /\ DiffInit

RequestsAlone == view = NoView /\ diff = NoDiff /\ BoardNext /\ UNCHANGED <<view, diff>>

Idle == begun = 0 /\ edits = 0

SidebarAlone == Idle /\ diff = NoDiff /\ ViewNext /\ UNCHANGED <<boardVars, diff>>

CompareAlone == Idle /\ view = NoView /\ DiffNext /\ UNCHANGED <<boardVars, view>>

Next == CompareAlone \/ RequestsAlone \/ SidebarAlone

Spec == Init /\ [][Next]_<<boardVars, view, diff>>
=============================================================================
