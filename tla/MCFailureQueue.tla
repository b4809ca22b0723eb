--------------------------- MODULE MCFailureQueue ---------------------------
(****************************************************************************)
(* The failure queue on small instances: two skill failures, so that one    *)
(* waits behind the other, and an infrastructure failure; each may recur.   *)
(****************************************************************************)
EXTENDS FailureQueue

CONSTANTS bad_plan, bad_sql, db_error, r1, r2, l1, l2, terms

\* Bounds what TLC explores: either a second request thread and a second learner are
\* about, or a second skill failure is (entered after the first), never both.
TwoLearnersOrTwoFailures ==
  \A j \in 1..created : print[j] = bad_sql =>
    /\ \E k \in 1..(j - 1) : print[k] = bad_plan
    /\ \A r \in Requests \ {r1} : reqPc[r] = "idle"
    /\ \A l \in Loops \ {l1} : ~Alive(l)
=============================================================================
