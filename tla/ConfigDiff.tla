----------------------------- MODULE ConfigDiff -----------------------------
(***************************************************************************)
(* What the manager tells of two stored configurations of an instance: the *)
(* summary that a sync stores with a snapshot, and the rows of a           *)
(* comparison.  A configuration is a tree of objects, lists and values.    *)
(***************************************************************************)
EXTENDS Integers, Sequences, SequencesExt, FiniteSetsExt, Excerpts

CONSTANTS
    Trees,      \* configurations and the parts of which they are made
    Depth,      \* how deep each of them is nested
    Histories,  \* stored configurations of an instance, the newest first
    Picks,      \* snapshots a request asks to compare, 0 for none
    MaxRows     \* rows a comparison may have

Value(type, value) == [type |-> type, value |-> value]

Object(fields) == [type |-> "object", fields |-> fields]

List(items) == [type |-> "list", items |-> items]

\* The parts of a tree by their keys, which are numbers.
Parts(tree) ==
    CASE tree.type = "object" -> tree.fields
      [] tree.type = "list" -> tree.items
      [] OTHER -> <<>>

IsTree(tree) ==
    CASE tree.type = "object" ->
              /\ tree = Object([k \in DOMAIN tree.fields |-> tree.fields[k]])
              /\ DOMAIN tree.fields \subseteq Nat /\ IsFiniteSet(DOMAIN tree.fields)
      [] tree.type = "list" -> tree = List(tree.items) /\ tree.items \in Seq(Trees)
      [] OTHER -> tree = Value(tree.type, tree.value)

ASSUME DiffAssumption ==
    /\ Depth \in [Trees -> Nat]
    /\ \A tree \in Trees :
          /\ IsTree(tree)
          /\ \A k \in DOMAIN Parts(tree) :
                Parts(tree)[k] \in Trees /\ Depth[Parts(tree)[k]] < Depth[tree]
    /\ Histories \subseteq Seq(Trees)
    /\ MaxRows \in Nat \ {0} /\ Picks \subseteq Nat

VARIABLE diff   \* the comparison a request was shown

NoDiff == [shown |-> FALSE]

DiffInit == diff = NoDiff

-----------------------------------------------------------------------------
\* What is told

\* Keys in order.
InOrder(keys) == Excerpt([k \in keys |-> k], keys)

Both(old, new) == DOMAIN Parts(old) \cap DOMAIN Parts(new)

\* Mutant: new keys only.
RemovedNone(old, new) == {}

Removed(old, new) == DOMAIN Parts(old) \ DOMAIN Parts(new)

Added(old, new) == DOMAIN Parts(new) \ DOMAIN Parts(old)

\* One path of the summary or one row of a comparison.
Told(change, path) == <<[change |-> change, path |-> path]>>

Each(keys, change) ==
    LET order == InOrder(keys) IN [i \in DOMAIN order |-> Told(change, <<order[i]>>)[1]]

\* What was told of the part at key, told of the whole.
Under(key, told) == [i \in DOMAIN told |-> [told[i] EXCEPT !.path = <<key>> \o @]]

\* What is told of two trees of one type below their roots, given what is told
\* of two parts.
Below(told, old, new) ==
    LET keys == InOrder(Both(old, new))
    IN FlattenSeq([i \in DOMAIN keys |->
                      Under(keys[i], told[<<Parts(old)[keys[i]], Parts(new)[keys[i]]>>])])

SameShape(old, new) ==
    /\ old.type = new.type
    /\ old.type = "list" => Len(old.items) = Len(new.items)
    /\ old.type \in {"object", "list"} \/ old = new

\* _config_diff_summary: one step of the walk
TellSummary(told, old, new) ==
    IF ~SameShape(old, new) THEN Told("changed", <<>>)
    ELSE Each(Added(old, new), "added") \o Each(Removed(old, new), "removed") \o Below(told, old, new)

Summary[trees \in Trees \X Trees] == TellSummary(Summary, trees[1], trees[2])

\* build_config_diff_rows: one step of the walk, without the bound
TellRows(told, old, new) ==
    IF old.type = "list" /\ new.type = "list"
    THEN (IF Len(old.items) = Len(new.items) THEN <<>> ELSE Told("changed", <<>>))
         \o Below(told, old, new)
         \o Each(Added(old, new), "added") \o Each(Removed(old, new), "removed")
    ELSE TellSummary(told, old, new)

AllRows[trees \in Trees \X Trees] == TellRows(AllRows, trees[1], trees[2])

Rows(old, new) ==
    LET all == AllRows[<<old, new>>] IN SubSeq(all, 1, Min({MaxRows, Len(all)}))

\* Go2RTCManagerView compares the two newest snapshots, or those that were
\* asked for; a snapshot that is not there, or the same twice, is not compared.
Pick(history, asked, default) == IF asked = 0 THEN default ELSE asked

Compare(history, from, to) ==
    LET a == Pick(history, from, 2)
        b == Pick(history, to, 1)
    IN /\ Len(history) >= 2 /\ {a, b} \subseteq DOMAIN history /\ a # b
       /\ diff' = [shown |-> TRUE, old |-> history[a], new |-> history[b],
                   rows |-> Rows(history[a], history[b]),
                   summary |-> Summary[<<history[a], history[b]>>]]

DiffNext ==
    /\ diff = NoDiff
    /\ \E history \in Histories, from, to \in Picks : Compare(history, from, to)

DiffSpec == DiffInit /\ [][DiffNext]_diff
-----------------------------------------------------------------------------
\* Properties

\* A summary or a list of rows is empty exactly when the configurations are the
\* same; every path of the summary has its row; and the bound cuts rows off
\* without losing that there are any (services.py:949-991, 1001-1064).
DiffTellsChanges ==
    diff.shown =>
        LET all == AllRows[<<diff.old, diff.new>>]
        IN /\ (diff.summary = <<>>) <=> (diff.old = diff.new)
           /\ (diff.rows = <<>>) <=> (diff.old = diff.new)
           /\ ToSet(diff.summary) \subseteq ToSet(all)
           /\ IsInjective(diff.summary)
           /\ Len(diff.rows) <= MaxRows /\ IsPrefix(diff.rows, all)
           /\ Len(all) <= MaxRows => diff.rows = all
=============================================================================
