----------------------------- MODULE FreshReads -----------------------------
(***************************************************************************)
(* What the cache of ReconEye promises to the callers of a cached view,    *)
(* with no cache in it.  A write of a table becomes visible (Commit) and   *)
(* later the write is over (Announce).  A call of a view answers, for      *)
(* every table the view reads, with a version that was visible and is not  *)
(* older than the writes that were over when the call began.               *)
(*                                                                         *)
(* The promise is made as long as a view is trusted: Lapse ends the trust  *)
(* in some views, after which only "the version was visible" is promised.  *)
(***************************************************************************)
EXTENDS Naturals, Sequences

CONSTANTS
    Callers,     \* threads that ask for a view
    Tables,      \* tables of the database
    ViewReads,   \* view -> the sequence of the tables it reads
    Promised     \* the pairs of a view and a table the promise is made for

View == DOMAIN ViewReads

VARIABLES
    committed,   \* table -> version a read sees now
    announced,   \* table -> newest version whose write is over
    trusted,     \* the views for which the promise is made
    calls        \* caller -> the call it makes, or its answer

freshVars == <<committed, announced, trusted, calls>>

NoCall == [at |-> "none"]
Asked(v, floor)  == [at |-> "asked", view |-> v, floor |-> floor]
Answered(v, ans) == [at |-> "answered", view |-> v, answer |-> ans]

Init ==
    /\ committed = [t \in Tables |-> 0]
    /\ announced = [t \in Tables |-> 0]
    /\ trusted = View
    /\ calls = [c \in Callers |-> NoCall]

Commit(t) ==
    /\ committed' = [committed EXCEPT ![t] = @ + 1]
    /\ UNCHANGED <<announced, trusted, calls>>

\* The write of version n is over; the writes of a table may end in any order,
\* and the step that ends one may be the one that ends the trust in some views.
Announce(t) ==
    /\ \E n \in (announced[t] + 1)..committed[t] :
          announced' = [announced EXCEPT ![t] = n]
    /\ trusted' \in SUBSET trusted
    /\ UNCHANGED <<committed, calls>>

FloorOf(v) ==
    [i \in DOMAIN ViewReads[v] |->
       IF <<v, ViewReads[v][i]>> \in Promised THEN announced[ViewReads[v][i]] ELSE 0]

Ask(c, v) ==
    /\ calls[c].at # "asked"
    /\ calls' = [calls EXCEPT ![c] = Asked(v, FloorOf(v))]
    /\ UNCHANGED <<committed, announced, trusted>>

\* Every part of the answer lies between the floor of the call and what is
\* visible now; without trust only the upper bound is left.
Answer(c) ==
    /\ calls[c].at = "asked"
    /\ LET v == calls[c].view
       IN \E ans \in [DOMAIN ViewReads[v] -> UNION {0..committed[t] : t \in Tables}] :
             /\ \A i \in DOMAIN ans : ans[i] <= committed[ViewReads[v][i]]
             /\ v \in trusted => \A i \in DOMAIN ans : calls[c].floor[i] <= ans[i]
             /\ calls' = [calls EXCEPT ![c] = Answered(v, ans)]
    /\ UNCHANGED <<committed, announced, trusted>>

\* A call that fails, and the end of a call, leave the caller with none.
Leave(c) ==
    /\ calls[c].at # "none"
    /\ calls' = [calls EXCEPT ![c] = NoCall]
    /\ UNCHANGED <<committed, announced, trusted>>

Lapse ==
    /\ \E views \in (SUBSET trusted) \ {{}} : trusted' = trusted \ views
    /\ UNCHANGED <<committed, announced, calls>>

Next ==
    \/ \E t \in Tables : Commit(t) \/ Announce(t)
    \/ \E c \in Callers : (\E v \in View : Ask(c, v)) \/ Answer(c) \/ Leave(c)
    \/ Lapse

Spec == Init /\ [][Next]_freshVars
=============================================================================
