--------------------------- MODULE PromotionProofs ---------------------------
(****************************************************************************)
(* Proofs about Promotion: its type invariant, with the mutual exclusion    *)
(* that is part of it, and the four safety invariants of the run, for any   *)
(* number of promoters, candidates, commits and promotions.                 *)
(****************************************************************************)
EXTENDS Promotion, TLAPS

LEMMA InitTypeOK == Init => TypeOK
  <1> USE PromotionAssumption
  <1> SUFFICES ASSUME Init PROVE TypeOK
    OBVIOUS
  <1>1. cand \in [Promoters -> Candidates]
    <2>1. (CHOOSE c \in Candidates : TRUE) \in Candidates
      OBVIOUS
    <2> QED
      BY <2>1 DEF Init
  <1>2. report \in [Promoters -> Reports]
    BY DEF Init, NoReport, Reports
  <1>3. \A p \in Promoters : Inside(p) <=> holder = p
    BY DEF Init, Inside
  <1> QED
    BY <1>1, <1>2, <1>3 DEF Init, TypeOK, Labels

\* An evaluation leaves a report and a gate behind and nothing else.
LEMMA EvaluateTypes ==
  ASSUME TypeOK, NEW p \in Promoters, Evaluate(p)
  PROVE  report' \in [Promoters -> Reports] /\ gate' \in [Promoters -> BOOLEAN]
  <1>1. PICK resc \in BOOLEAN, clean \in BOOLEAN :
          report' = [report EXCEPT ![p] = [baseline |-> baseline[p], candidate |-> candidate[p],
                                           rescued |-> resc, clean |-> clean]]
    BY DEF Evaluate
  <1>2. baseline[p] \in SUBSET Changes /\ candidate[p] \in SUBSET Changes
    BY DEF TypeOK
  <1>3. [baseline |-> baseline[p], candidate |-> candidate[p],
         rescued |-> resc, clean |-> clean] \in Reports
    BY <1>2, Zenon DEF Reports
  <1>4. report' \in [Promoters -> Reports]
    BY <1>1, <1>3, Zenon DEF TypeOK
  <1>5. Passes(p, report'[p]) \in BOOLEAN
    BY DEF Passes
  <1> QED
    BY <1>4, <1>5, Zenon DEF Evaluate, TypeOK

LEMMA NextTypeOK == TypeOK /\ [Next]_vars => TypeOK'
  <1> SUFFICES ASSUME TypeOK, [Next]_vars
               PROVE  TypeOK'
    OBVIOUS
  <1> USE PromotionAssumption DEF TypeOK, Labels, Changes, Inside
  <1>1. CASE UNCHANGED vars
    BY <1>1 DEF vars, shared, locals
  <1>2. ASSUME NEW e \in Edits, Commit(e)
        PROVE  TypeOK'
    BY <1>2 DEF Commit, locals
  <1>3. ASSUME NEW c \in Candidates, Evolve(c)
        PROVE  TypeOK'
    BY <1>3 DEF Evolve, CreateBranch, locals
  <1>4. ASSUME NEW c \in Candidates, NEW p \in Promoters, Learn(p, c)
        PROVE  TypeOK'
    BY <1>4 DEF Learn, Begin, Goto, CreateBranch, locals
  <1>5. ASSUME NEW c \in Candidates, NEW p \in Promoters, Pick(p, c)
        PROVE  TypeOK'
    BY <1>5 DEF Pick, Begin, Goto, shared, locals
  <1>6. ASSUME NEW p \in Promoters, Start(p)
        PROVE  TypeOK'
    BY <1>6 DEF Start, Goto, shared
  <1>7. ASSUME NEW p \in Promoters, FirstEvaluation(p)
        PROVE  TypeOK'
    BY <1>7, EvaluateTypes DEF FirstEvaluation, Evaluate, Goto, shared
  <1>8. ASSUME NEW p \in Promoters, Lock(p)
        PROVE  TypeOK'
    BY <1>8 DEF Lock, Goto, shared, locals
  <1>9. ASSUME NEW p \in Promoters, CheckMain(p)
        PROVE  TypeOK'
    BY <1>9 DEF CheckMain, Goto, shared
  <1>10. ASSUME NEW p \in Promoters, Rebase(p)
         PROVE  TypeOK'
    BY <1>10 DEF Rebase, Goto
  <1>11. ASSUME NEW p \in Promoters, Reevaluate(p)
         PROVE  TypeOK'
    BY <1>11, EvaluateTypes DEF Reevaluate, Evaluate, Goto, shared
  <1>12. ASSUME NEW p \in Promoters, Merge(p)
         PROVE  TypeOK'
    <2>1. [by |-> p, branch |-> cand[p], report |-> report[p]] \in Promotions
      BY Zenon DEF Promotions
    <2>2. promoted' \subseteq Promotions
      BY <1>12, <2>1 DEF Merge
    <2> QED
      BY <1>12, <2>2 DEF Merge, Goto, locals
  <1>13. ASSUME NEW p \in Promoters, Tag(p)
         PROVE  TypeOK'
    BY <1>13 DEF Tag, Released, Goto, shared, locals
  <1>14. ASSUME NEW p \in Promoters, Reject(p)
         PROVE  TypeOK'
    BY <1>14 DEF Reject, Released, Goto, shared, locals
  <1>15. ASSUME NEW p \in Promoters, Raise(p)
         PROVE  TypeOK'
    BY <1>15 DEF Raise, Released, Goto, shared, locals
  <1> HIDE DEF TypeOK
  <1> QED
    BY <1>1, <1>2, <1>3, <1>4, <1>5, <1>6, <1>7, <1>8, <1>9, <1>10, <1>11, <1>12,
       <1>13, <1>14, <1>15 DEF Next, Step

\* The type invariant of the promotions, mutual exclusion included.
THEOREM TypeCorrect == Spec => []TypeOK
  <1> QED
    BY InitTypeOK, NextTypeOK, PTL DEF Spec

----------------------------------------------------------------------------

\* The inductive invariant. Until a promoter decides, the main it knows is part
\* of main, and as long as they are equal no promotion was merged in between;
\* under the lock nobody else can merge one.
Tracks(p) ==
  /\ pc[p] \in {"evaluating", "locking", "checking", "rebasing"} => baseline[p] \subseteq main
  /\ pc[p] \in {"evaluating", "locking", "checking"} /\ baseline[p] = main => seen[p] = promoted
  /\ pc[p] \in {"rebasing", "reevaluating", "deciding"} => seen[p] = promoted

\* After a rebase the promoter speaks of the tip of its branch, which holds the
\* baseline; nobody else moves that tip while it has the lock.
Follows(p) ==
  /\ pc[p] # "idle" => tip[cand[p]] # {}
  /\ pc[p] \in {"evaluating", "locking", "checking", "rebasing", "reevaluating"} => ~again[p]
  /\ pc[p] = "reevaluating" => candidate[p] = tip[cand[p]] /\ baseline[p] \subseteq candidate[p]
  /\ pc[p] = "deciding" /\ again[p] =>
       report[p].candidate = tip[cand[p]] /\ baseline[p] \subseteq report[p].candidate

\* A gate always speaks of the last report.
Gated(p) == gate[p] = Passes(p, report[p])

Inv ==
  /\ \A p \in Promoters : Tracks(p)
  /\ \A p \in Promoters : Follows(p)
  /\ \A p \in Promoters : Gated(p)
  /\ PromotedPassedItsLastGate

LEMMA InitInv == Init => Inv
  <1> SUFFICES ASSUME Init PROVE Inv
    OBVIOUS
  <1> QED
    BY DEF Init, Inv, Tracks, Follows, Gated, Passes, NoReport, PromotedPassedItsLastGate

\* Two promoters are never inside the lock together.
LEMMA Exclusive ==
  ASSUME TypeOK, NEW p \in Promoters, NEW q \in Promoters, Inside(p), Inside(q)
  PROVE  p = q
  <1> QED
    BY DEF TypeOK

\* An evaluation leaves a gate that speaks of the new report.
LEMMA EvaluateGated ==
  ASSUME TypeOK, Inv, NEW p \in Promoters, Evaluate(p)
  PROVE  /\ \A q \in Promoters : Gated(q)'
         /\ report'[p].candidate = candidate[p]
  <1>1. PICK resc \in BOOLEAN, clean \in BOOLEAN :
          report' = [report EXCEPT ![p] = [baseline |-> baseline[p], candidate |-> candidate[p],
                                           rescued |-> resc, clean |-> clean]]
    BY DEF Evaluate
  <1>2. report'[p] = [baseline |-> baseline[p], candidate |-> candidate[p],
                      rescued |-> resc, clean |-> clean]
    BY <1>1, Zenon DEF TypeOK
  <1>3. report'[p].candidate = candidate[p]
    BY <1>2
  <1>4. ASSUME NEW q \in Promoters
        PROVE  Gated(q)'
    <2>1. CASE q = p
      BY <2>1, Zenon DEF Evaluate, Gated, TypeOK
    <2>2. CASE q # p
      <3>1. report'[q] = report[q] /\ gate'[q] = gate[q]
        BY <1>1, <2>2, Zenon DEF Evaluate, TypeOK
      <3> QED
        BY <3>1, Zenon DEF Gated, Passes, Inv
    <2> QED
      BY <2>1, <2>2
  <1> QED
    BY <1>3, <1>4

LEMMA NextTracks ==
  ASSUME TypeOK, TypeOK', Inv, [Next]_vars, NEW q \in Promoters
  PROVE  Tracks(q)'
  <1>0. Tracks(q)
    BY DEF Inv
  <1> USE DEF Tracks
  <1>1. CASE UNCHANGED vars
    BY <1>0, <1>1 DEF vars, shared, locals
  <1>2. ASSUME NEW e \in Edits, Commit(e)
        PROVE  Tracks(q)'
    BY <1>0, <1>2 DEF Commit, locals
  <1>3. ASSUME NEW c \in Candidates, Evolve(c)
        PROVE  Tracks(q)'
    BY <1>0, <1>3 DEF Evolve, CreateBranch, locals
  <1>4. ASSUME NEW c \in Candidates, NEW p \in Promoters, Learn(p, c) \/ Pick(p, c)
        PROVE  Tracks(q)'
    BY <1>0, <1>4 DEF Learn, Pick, Begin, Goto, CreateBranch, shared, locals, TypeOK
  <1>5. ASSUME NEW p \in Promoters, Start(p)
        PROVE  Tracks(q)'
    BY <1>0, <1>5 DEF Start, Goto, shared, TypeOK
  <1>6. ASSUME NEW p \in Promoters, FirstEvaluation(p) \/ Reevaluate(p)
        PROVE  Tracks(q)'
    BY <1>0, <1>6 DEF FirstEvaluation, Reevaluate, Evaluate, Goto, shared, TypeOK
  <1>7. ASSUME NEW p \in Promoters, Lock(p)
        PROVE  Tracks(q)'
    BY <1>0, <1>7 DEF Lock, Goto, shared, locals, TypeOK
  <1>8. ASSUME NEW p \in Promoters, CheckMain(p)
        PROVE  Tracks(q)'
    BY <1>0, <1>8 DEF CheckMain, Goto, shared, TypeOK
  <1>9. ASSUME NEW p \in Promoters, Rebase(p)
        PROVE  Tracks(q)'
    BY <1>0, <1>9 DEF Rebase, Goto, TypeOK
  \* The one step that merges: everyone else who is past the check of main
  \* would have to hold the lock.
  <1>10. ASSUME NEW p \in Promoters, Merge(p)
         PROVE  Tracks(q)'
    <2>1. CASE q = p
      BY <1>10, <2>1 DEF Merge, Goto, TypeOK
    <2>2. CASE q # p
      <3>1. pc'[q] = pc[q] /\ baseline'[q] = baseline[q] /\ seen'[q] = seen[q]
        BY <1>10, <2>2 DEF Merge, Goto, locals, TypeOK
      <3>2. ~Inside(q)
        BY <1>10, <2>2, Exclusive DEF Merge, Inside
      <3>3. main \subseteq main' /\ (main' = main => promoted' = promoted)
        BY <1>10 DEF Merge
      <3> QED
        BY <1>0, <3>1, <3>2, <3>3 DEF Inside
    <2> QED
      BY <2>1, <2>2
  <1>11. ASSUME NEW p \in Promoters, Tag(p) \/ Reject(p) \/ Raise(p)
         PROVE  Tracks(q)'
    BY <1>0, <1>11 DEF Tag, Reject, Raise, Goto, shared, locals, TypeOK
  <1> HIDE DEF Tracks
  <1> QED
    BY <1>1, <1>2, <1>3, <1>4, <1>5, <1>6, <1>7, <1>8, <1>9, <1>10, <1>11 DEF Next, Step

LEMMA NextFollows ==
  ASSUME TypeOK, TypeOK', Inv, [Next]_vars, NEW q \in Promoters
  PROVE  Follows(q)'
  <1>0. Follows(q) /\ Tracks(q)
    BY DEF Inv
  <1> USE DEF Follows
  <1>1. CASE UNCHANGED vars
    BY <1>0, <1>1 DEF vars, shared, locals
  <1>2. ASSUME NEW e \in Edits, Commit(e)
        PROVE  Follows(q)'
    BY <1>0, <1>2 DEF Commit, locals
  <1>3. ASSUME NEW c \in Candidates, Evolve(c)
        PROVE  Follows(q)'
    BY <1>0, <1>3 DEF Evolve, CreateBranch, locals, TypeOK
  <1>4. ASSUME NEW c \in Candidates, NEW p \in Promoters, Learn(p, c) \/ Pick(p, c)
        PROVE  Follows(q)'
    <2>1. CASE q = p
      <3>1. pc'[q] = "starting" /\ cand'[q] = c
        BY <1>4, <2>1 DEF Learn, Pick, Begin, Goto, TypeOK
      <3>2. tip'[c] # {}
        <4> HIDE DEF Follows
        <4>1. CASE tip' = [tip EXCEPT ![c] = main \cup {c}]
          <5>1. tip'[c] = main \cup {c}
            BY <4>1, Zenon DEF TypeOK
          <5> QED
            BY <5>1
        <4>2. CASE tip' = tip /\ tip[c] # {}
          BY <4>2
        <4> QED
          BY <1>4, <4>1, <4>2, Zenon DEF Learn, Pick, CreateBranch, shared
      <3> QED
        BY <3>1, <3>2
    <2>2. CASE q # p
      BY <1>0, <1>4, <2>2 DEF Learn, Pick, Begin, Goto, CreateBranch, shared, locals, TypeOK
    <2> QED
      BY <2>1, <2>2
  <1>5. ASSUME NEW p \in Promoters, Start(p)
        PROVE  Follows(q)'
    BY <1>0, <1>5 DEF Start, Goto, shared, TypeOK
  <1>6. ASSUME NEW p \in Promoters, FirstEvaluation(p)
        PROVE  Follows(q)'
    BY <1>0, <1>6 DEF FirstEvaluation, Evaluate, Goto, shared, TypeOK
  <1>7. ASSUME NEW p \in Promoters, Reevaluate(p)
        PROVE  Follows(q)'
    <2>1. CASE q = p
      <3>1. report'[p].candidate = candidate[p]
        BY <1>7, EvaluateGated DEF Reevaluate
      <3> QED
        BY <1>0, <1>7, <2>1, <3>1 DEF Reevaluate, Evaluate, Goto, shared, TypeOK
    <2>2. CASE q # p
      BY <1>0, <1>7, <2>2 DEF Reevaluate, Evaluate, Goto, shared, TypeOK
    <2> QED
      BY <2>1, <2>2
  <1>8. ASSUME NEW p \in Promoters, Lock(p) \/ CheckMain(p)
        PROVE  Follows(q)'
    BY <1>0, <1>8 DEF Lock, CheckMain, Goto, shared, locals, TypeOK
  \* The one step that moves a tip that exists: nobody else is at a step that
  \* relies on it.
  <1>9. ASSUME NEW p \in Promoters, Rebase(p)
        PROVE  Follows(q)'
    <2>1. Inside(p)
      BY <1>9 DEF Rebase, Inside
    <2>2. CASE q = p
      BY <1>0, <1>9, <2>2 DEF Tracks, Rebase, Goto, TypeOK
    <2>3. CASE q # p
      <3>1. ~Inside(q)
        BY <2>1, <2>3, Exclusive
      <3>2. pc'[q] = pc[q] /\ cand'[q] = cand[q] /\ again'[q] = again[q]
        BY <1>9, <2>3 DEF Rebase, Goto, TypeOK
      <3>3. tip[cand[q]] \subseteq tip'[cand[q]]
        BY <1>9, <3>2 DEF Rebase, TypeOK
      <3> QED
        BY <1>0, <3>1, <3>2, <3>3 DEF Inside
    <2> QED
      BY <2>2, <2>3
  <1>10. ASSUME NEW p \in Promoters, Merge(p) \/ Tag(p) \/ Reject(p) \/ Raise(p)
         PROVE  Follows(q)'
    BY <1>0, <1>10 DEF Merge, Tag, Reject, Raise, Goto, shared, locals, TypeOK
  <1> HIDE DEF Follows
  <1> QED
    BY <1>1, <1>2, <1>3, <1>4, <1>5, <1>6, <1>7, <1>8, <1>9, <1>10 DEF Next, Step

\* Only an evaluation writes a report or a gate.
LEMMA NextGated ==
  ASSUME TypeOK, Inv, [Next]_vars
  PROVE  \A q \in Promoters : Gated(q)'
  <1>1. ASSUME NEW p \in Promoters, FirstEvaluation(p) \/ Reevaluate(p)
        PROVE  \A q \in Promoters : Gated(q)'
    BY <1>1, EvaluateGated DEF FirstEvaluation, Reevaluate
  <1>2. ASSUME UNCHANGED <<report, gate>>
        PROVE  \A q \in Promoters : Gated(q)'
    BY <1>2 DEF Inv, Gated, Passes
  <1>3. \/ UNCHANGED <<report, gate>>
        \/ \E p \in Promoters : FirstEvaluation(p) \/ Reevaluate(p)
    BY DEF Next, Step, vars, locals, Commit, Evolve, Learn, Pick, Begin, Start, Lock,
           CheckMain, Rebase, Merge, Tag, Reject, Raise
  <1> QED
    BY <1>1, <1>2, <1>3

LEMMA NextPromoted ==
  ASSUME TypeOK, Inv, [Next]_vars
  PROVE  PromotedPassedItsLastGate'
  <1> USE DEF PromotedPassedItsLastGate
  <1>1. ASSUME NEW p \in Promoters, Merge(p)
        PROVE  PromotedPassedItsLastGate'
    <2>1. Passes(p, report[p])
      BY <1>1 DEF Merge, Inv, Gated
    <2> DEFINE e == [by |-> p, branch |-> cand[p], report |-> report[p]]
    <2>2. promoted' \subseteq promoted \cup {e}
      BY <1>1 DEF Merge
    <2>3. e.report.clean /\ (e.by \in Learners => e.report.rescued)
      BY <2>1 DEF Passes
    <2> QED
      BY <2>2, <2>3 DEF Inv
  <1>2. ASSUME UNCHANGED promoted
        PROVE  PromotedPassedItsLastGate'
    BY <1>2 DEF Inv
  <1>3. UNCHANGED promoted \/ \E p \in Promoters : Merge(p)
    BY DEF Next, Step, vars, Commit, Evolve, Learn, Pick, Begin, Start, Lock,
           FirstEvaluation, Reevaluate, Evaluate, CheckMain, Rebase, Tag, Reject, Raise
  <1> QED
    BY <1>1, <1>2, <1>3

LEMMA NextInv == TypeOK /\ Inv /\ [Next]_vars => Inv'
  <1> SUFFICES ASSUME TypeOK, Inv, [Next]_vars PROVE Inv'
    OBVIOUS
  <1> QED
    BY NextTypeOK, NextTracks, NextFollows, NextGated, NextPromoted DEF Inv

LEMMA Invariance == Spec => [](TypeOK /\ Inv)
  <1> QED
    BY InitTypeOK, NextTypeOK, InitInv, NextInv, PTL DEF Spec

\* Whoever decides about a candidate has seen every promotion so far.
THEOREM PromotionsAreSerialized == Spec => []NoPromotionMissed
  <1>1. Inv => NoPromotionMissed
    BY DEF Inv, Tracks, NoPromotionMissed
  <1> QED
    BY <1>1, Invariance, PTL

\* After a rebase the gate is about the tree that the merge makes.
THEOREM GateIsAboutTheMerge == Spec => []RebasedIsWhatIsMerged
  <1>1. Inv => RebasedIsWhatIsMerged
    BY DEF Inv, Follows, RebasedIsWhatIsMerged
  <1> QED
    BY <1>1, Invariance, PTL

\* Nothing is merged whose last evaluation did not pass the gate.
THEOREM PromotionsPassed == Spec => []PromotedPassedItsLastGate
  <1> QED
    BY Invariance, PTL DEF Inv

----------------------------------------------------------------------------

\* The inductive invariant behind the line of promotions: a candidate branch
\* has its own change, so a merge brings it to main; who has read main has in
\* its baseline the candidate of each promotion it has seen; and who is about to
\* decide has evaluated against that very baseline.
Ordered(p) ==
  /\ pc[p] # "idle" => cand[p] \in tip[cand[p]]
  /\ pc[p] \notin {"idle", "starting"} => \A e \in seen[p] : e.branch \in baseline[p]
  /\ pc[p] \in {"locking", "checking", "deciding"} => report[p].baseline = baseline[p]

Line ==
  /\ \A c \in Candidates : tip[c] # {} => c \in tip[c]
  /\ \A e \in promoted : e.branch \in main
  /\ \A p \in Promoters : Ordered(p)
  /\ PromotionsAreOrdered

LEMMA InitLine == Init => Line
  <1> QED
    BY DEF Init, Line, Ordered, PromotionsAreOrdered

\* Branches are created with their own change and only grow.
LEMMA NextOwnChange ==
  ASSUME TypeOK, Line, [Next]_vars, NEW d \in Candidates, tip'[d] # {}
  PROVE  d \in tip'[d]
  <1>0. tip[d] # {} => d \in tip[d]
    BY DEF Line
  <1>1. ASSUME NEW c \in Candidates, CreateBranch(c)
        PROVE  d \in tip'[d]
    <2>1. tip' = [tip EXCEPT ![c] = main \cup {c}]
      BY <1>1 DEF CreateBranch
    <2> QED
      BY <1>0, <2>1 DEF TypeOK
  <1>2. ASSUME NEW p \in Promoters, Rebase(p)
        PROVE  d \in tip'[d]
    <2>1. tip' = [tip EXCEPT ![cand[p]] = @ \cup main]
      BY <1>2 DEF Rebase
    <2>2. cand[p] \in tip[cand[p]]
      BY <1>2 DEF Line, Ordered, Rebase
    <2> QED
      BY <1>0, <2>1, <2>2 DEF TypeOK
  <1>3. CASE UNCHANGED tip
    BY <1>0, <1>3
  <1>4. \/ UNCHANGED tip
        \/ \E c \in Candidates : CreateBranch(c)
        \/ \E p \in Promoters : Rebase(p)
    BY DEF Next, Step, vars, shared, Commit, Evolve, Learn, Pick, Start, Lock, FirstEvaluation,
           Reevaluate, Evaluate, CheckMain, Merge, Tag, Reject, Raise
  <1> QED
    BY <1>1, <1>2, <1>3, <1>4

\* A tip of a candidate never loses a change.
LEMMA TipsGrow ==
  ASSUME TypeOK, [Next]_vars, NEW d \in Candidates
  PROVE  tip[d] \subseteq tip'[d]
  <1>1. ASSUME NEW c \in Candidates, CreateBranch(c)
        PROVE  tip[d] \subseteq tip'[d]
    BY <1>1 DEF CreateBranch, TypeOK
  <1>2. ASSUME NEW p \in Promoters, Rebase(p)
        PROVE  tip[d] \subseteq tip'[d]
    BY <1>2 DEF Rebase, TypeOK
  <1>3. \/ UNCHANGED tip
        \/ \E c \in Candidates : CreateBranch(c)
        \/ \E p \in Promoters : Rebase(p)
    BY DEF Next, Step, vars, shared, Commit, Evolve, Learn, Pick, Start, Lock, FirstEvaluation,
           Reevaluate, Evaluate, CheckMain, Merge, Tag, Reject, Raise
  <1> QED
    BY <1>1, <1>2, <1>3

\* An evaluation is made against the baseline of whoever makes it.
LEMMA EvaluateBaseline ==
  ASSUME TypeOK, NEW p \in Promoters, Evaluate(p)
  PROVE  /\ report'[p].baseline = baseline[p]
         /\ \A q \in Promoters : q # p => report'[q] = report[q]
  <1>1. PICK resc \in BOOLEAN, clean \in BOOLEAN :
          report' = [report EXCEPT ![p] = [baseline |-> baseline[p], candidate |-> candidate[p],
                                           rescued |-> resc, clean |-> clean]]
    BY DEF Evaluate
  <1>2. report'[p] = [baseline |-> baseline[p], candidate |-> candidate[p],
                      rescued |-> resc, clean |-> clean]
    BY <1>1, Zenon DEF TypeOK
  <1>3. ASSUME NEW q \in Promoters, q # p
        PROVE  report'[q] = report[q]
    BY <1>1, <1>3, Zenon DEF TypeOK
  <1> QED
    BY <1>2, <1>3

LEMMA NextOrdered ==
  ASSUME TypeOK, Line, [Next]_vars, NEW q \in Promoters
  PROVE  Ordered(q)'
  <1>0. Ordered(q) /\ \A e \in promoted : e.branch \in main
    BY DEF Line
  <1> USE DEF Ordered
  \* What holds of whoever goes on with the candidate it has.
  <1>1. ASSUME cand'[q] = cand[q], pc'[q] # "idle" => pc[q] # "idle"
        PROVE  pc'[q] # "idle" => cand'[q] \in tip'[cand'[q]]
    BY <1>0, <1>1, TipsGrow DEF TypeOK
  <1>2. CASE UNCHANGED vars
    BY <1>0, <1>2 DEF vars, shared, locals
  <1>3. ASSUME NEW e \in Edits, Commit(e)
        PROVE  Ordered(q)'
    BY <1>0, <1>3 DEF Commit, locals
  <1>4. ASSUME NEW c \in Candidates, Evolve(c)
        PROVE  Ordered(q)'
    BY <1>0, <1>1, <1>4 DEF Evolve, locals
  <1>5. ASSUME NEW c \in Candidates, NEW p \in Promoters, Learn(p, c) \/ Pick(p, c)
        PROVE  Ordered(q)'
    <2>1. Begin(p, c) /\ UNCHANGED <<baseline, seen, report>>
      BY <1>5 DEF Learn, Pick, Begin, locals
    <2>2. CASE q = p
      <3>1. pc'[q] = "starting" /\ cand'[q] = c
        BY <2>1, <2>2 DEF Begin, Goto, TypeOK
      <3>2. tip'[c] # {}
        <4>1. CASE CreateBranch(c)
          <5>1. tip'[c] = main \cup {c}
            BY <4>1, Zenon DEF CreateBranch, TypeOK
          <5> QED
            BY <5>1
        <4>2. CASE tip' = tip /\ tip[c] # {}
          BY <4>2
        <4> QED
          BY <1>5, <4>1, <4>2, Zenon DEF Learn, Pick, shared
      <3> QED
        BY <3>1, <3>2, NextOwnChange
    <2>3. CASE q # p
      <3>1. pc'[q] = pc[q] /\ cand'[q] = cand[q]
        BY <2>1, <2>3 DEF Begin, Goto, TypeOK
      <3> QED
        BY <1>0, <1>1, <2>1, <3>1
    <2> QED
      BY <2>2, <2>3
  <1>6. ASSUME NEW p \in Promoters, Start(p)
        PROVE  Ordered(q)'
    BY <1>0, <1>6 DEF Start, Goto, shared, TypeOK
  <1>7. ASSUME NEW p \in Promoters, FirstEvaluation(p) \/ Reevaluate(p)
        PROVE  Ordered(q)'
    <2>1. Evaluate(p) /\ UNCHANGED <<shared, cand, baseline, seen>>
      BY <1>7 DEF FirstEvaluation, Reevaluate, Evaluate
    <2>2. CASE q = p
      BY <1>0, <1>7, <2>1, <2>2, EvaluateBaseline
      DEF FirstEvaluation, Reevaluate, Goto, shared, TypeOK
    <2>3. CASE q # p
      <3>1. pc'[q] = pc[q] /\ report'[q] = report[q]
        BY <1>7, <2>1, <2>3, EvaluateBaseline DEF FirstEvaluation, Reevaluate, Goto, TypeOK
      <3> QED
        BY <1>0, <2>1, <3>1 DEF shared
    <2> QED
      BY <2>2, <2>3
  <1>8. ASSUME NEW p \in Promoters, Lock(p)
        PROVE  Ordered(q)'
    BY <1>0, <1>8 DEF Lock, Goto, shared, locals, TypeOK
  <1>9. ASSUME NEW p \in Promoters, CheckMain(p)
        PROVE  Ordered(q)'
    BY <1>0, <1>9 DEF CheckMain, Goto, shared, TypeOK
  <1>10. ASSUME NEW p \in Promoters, Rebase(p)
         PROVE  Ordered(q)'
    <2>1. cand' = cand /\ pc' = [pc EXCEPT ![p] = "reevaluating"]
          /\ UNCHANGED <<baseline, seen, report>> /\ pc[p] = "rebasing"
      BY <1>10 DEF Rebase, Goto
    <2> QED
      BY <1>0, <1>1, <2>1 DEF TypeOK
  <1>11. ASSUME NEW p \in Promoters, Merge(p)
         PROVE  Ordered(q)'
    BY <1>0, <1>11 DEF Merge, Goto, locals, TypeOK
  <1>12. ASSUME NEW p \in Promoters, Tag(p) \/ Reject(p) \/ Raise(p)
         PROVE  Ordered(q)'
    BY <1>0, <1>12 DEF Tag, Reject, Raise, Goto, shared, locals, TypeOK
  <1> HIDE DEF Ordered
  <1> QED
    BY <1>2, <1>3, <1>4, <1>5, <1>6, <1>7, <1>8, <1>9, <1>10, <1>11, <1>12 DEF Next, Step

\* The one step that adds a promotion: whoever decides has seen all the others,
\* so the candidate of each is in the baseline of its report.
LEMMA NextLine ==
  ASSUME TypeOK, Inv, Line, [Next]_vars
  PROVE  (\A e \in promoted' : e.branch \in main') /\ PromotionsAreOrdered'
  <1>1. ASSUME NEW p \in Promoters, Merge(p)
        PROVE  (\A e \in promoted' : e.branch \in main') /\ PromotionsAreOrdered'
    <2> DEFINE n == [by |-> p, branch |-> cand[p], report |-> report[p]]
    <2>1. promoted' \subseteq promoted \cup {n} /\ main' = main \cup tip[cand[p]]
      BY <1>1 DEF Merge
    <2>2. pc[p] = "deciding"
      BY <1>1 DEF Merge
    <2>3. n.branch \in main'
      BY <2>1, <2>2 DEF Line, Ordered
    <2>4. seen[p] = promoted
      BY <2>2 DEF Inv, Tracks
    <2>5. \A e \in promoted : e.branch \in n.report.baseline
      BY <2>2, <2>4 DEF Line, Ordered
    <2>6. \A e \in promoted' : e.branch \in main'
      BY <2>1, <2>3 DEF Line
    <2>7. PromotionsAreOrdered'
      <3> SUFFICES ASSUME NEW e \in promoted', NEW f \in promoted', e # f
                   PROVE  e.branch \in f.report.baseline \/ f.branch \in e.report.baseline
        BY DEF PromotionsAreOrdered
      <3>1. CASE e \in promoted /\ f \in promoted
        BY <3>1 DEF Line, PromotionsAreOrdered
      <3>2. CASE e = n \/ f = n
        <4> HIDE DEF n
        <4> QED
          BY <2>1, <2>5, <3>2
      <3> QED
        BY <2>1, <3>1, <3>2
    <2> QED
      BY <2>6, <2>7
  <1>2. ASSUME UNCHANGED promoted, main \subseteq main'
        PROVE  (\A e \in promoted' : e.branch \in main') /\ PromotionsAreOrdered'
    BY <1>2 DEF Line, PromotionsAreOrdered
  <1>3. (UNCHANGED promoted /\ main \subseteq main') \/ \E p \in Promoters : Merge(p)
    BY DEF Next, Step, vars, shared, Commit, Evolve, CreateBranch, Learn, Pick, Begin, Start,
           Lock, FirstEvaluation, Reevaluate, Evaluate, CheckMain, Rebase, Tag, Reject, Raise
  <1> QED
    BY <1>1, <1>2, <1>3

\* Of any two promotions one was evaluated against a main that has the other.
THEOREM PromotionOrder == Spec => []PromotionsAreOrdered
  <1>1. TypeOK /\ Inv /\ Line /\ [Next]_vars => Line'
    <2> SUFFICES ASSUME TypeOK, Inv, Line, [Next]_vars PROVE Line'
      OBVIOUS
    <2>1. \A c \in Candidates : tip'[c] # {} => c \in tip'[c]
      BY NextOwnChange
    <2>2. \A p \in Promoters : Ordered(p)'
      BY NextOrdered
    <2> QED
      BY <2>1, <2>2, NextLine DEF Line
  <1>2. Line => PromotionsAreOrdered
    BY DEF Line
  <1> QED
    BY InitLine, Invariance, <1>1, <1>2, PTL DEF Spec
=============================================================================
