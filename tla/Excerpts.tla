------------------------------ MODULE Excerpts ------------------------------
(***************************************************************************)
(* Lists that are built by walking a sequence and keeping some of its      *)
(* members.                                                                *)
(***************************************************************************)
EXTENDS Integers, FiniteSets

\* The members of s at some of its places, in the order of s.
Excerpt(s, places) ==
    [j \in 1..Cardinality(places) |->
        s[CHOOSE i \in places : Cardinality({k \in places : k <= i}) = j]]

\* The members of a sequence that are among some.
Keep(s, members) == Excerpt(s, {i \in DOMAIN s : s[i] \in members})

\* The members of a set, in the order of the pairs in before.
Ranked(S, before) ==
    [j \in 1..Cardinality(S) |->
        CHOOSE x \in S : Cardinality({y \in S : <<y, x>> \in before}) = j - 1]

\* Where a member is none of the members before it.
FirstPlaces(s) == {i \in DOMAIN s : \A k \in 1..(i - 1) : s[k] # s[i]}
=============================================================================
