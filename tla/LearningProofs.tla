---------------------------- MODULE LearningProofs ----------------------------
(****************************************************************************)
(* What holds of learning for any number of failed questions, any skill and *)
(* any limit on the files of a hypothesis: types, that the limit and the    *)
(* surface hold for what is committed, that a completed job's artifacts     *)
(* have their records, what makes an incident of a failure of the skill,    *)
(* and that the steps of a question run out.                                *)
(****************************************************************************)
EXTENDS Learning, FiniteSetTheorems, TLAPS

AskLabels == {"new", "answered", "incident", "pending"} \cup Running

Ended == {"rejected", "completed", "failed"}

\* What a step of asking leaves alone, and where it may take the question.
LEMMA AskSteps ==
  ASSUME TypeOK, NEW j \in Jobs, AskStep(j)
  PROVE  /\ pc[j] \in {"new", "answered"} \cup Running
         /\ \E label \in AskLabels : Goto(j, label)
         /\ blame' \in [Jobs -> SUBSET {"infra", "skill"}]
         /\ quoted' \in [Jobs -> SUBSET Quotable]
         /\ attempts' \in 0..REACT_MAX_ATTEMPTS
         /\ UNCHANGED <<main, branch, proposal, recorded>>
  <1> USE LearningAssumption
  <1>1. ASSUME NEW trouble, Blamed(j, trouble)
        PROVE  blame' \in [Jobs -> SUBSET {"infra", "skill"}]
    <2>1. Fault(trouble) \in {"infra", "skill"}
      BY DEF Fault
    <2> QED
      BY <1>1, <2>1 DEF Blamed, TypeOK
  <1>12. ASSUME NEW trouble, NEW quote \in Quotes(trouble)
         PROVE  quote \in SUBSET Quotable
    BY <1>12 DEF Quotes
  <1>13. ASSUME NEW quote \in SUBSET Quotable, quoted' = [quoted EXCEPT ![j] = quote]
         PROVE  quoted' \in [Jobs -> SUBSET Quotable]
    BY <1>13 DEF TypeOK
  <1>14. ASSUME NEW head, NEW says, NEW quote \in SUBSET Quotable, Wrap(j, head, says, quote)
         PROVE  quoted' \in [Jobs -> SUBSET Quotable]
    <2>1. quoted[j] \cup quote \in SUBSET Quotable
      BY DEF TypeOK
    <2> QED
      BY <1>14, <2>1, <1>13 DEF Wrap, Say
  <1>2. ASSUME CountAttempt
        PROVE  attempts' \in 0..REACT_MAX_ATTEMPTS
    BY <1>2 DEF CountAttempt, TypeOK
  <1>3. 0 \in 0..REACT_MAX_ATTEMPTS
    OBVIOUS
  <1>4. ASSUME NEW errors, Fail(j, errors)
        PROVE  /\ blame' \in [Jobs -> SUBSET {"infra", "skill"}]
               /\ quoted' \in [Jobs -> SUBSET Quotable]
               /\ \E label \in AskLabels : Goto(j, label)
    <2>1. PICK e \in errors : \E quote \in Quotes(e.trouble) :
            /\ Say(j, e.head, e.says, quote)
            /\ Blamed(j, e.trouble)
            /\ Goto(j, "repairing")
      BY <1>4 DEF Fail
    <2>2. PICK quote \in Quotes(e.trouble) :
            /\ Say(j, e.head, e.says, quote)
            /\ Blamed(j, e.trouble)
            /\ Goto(j, "repairing")
      BY <2>1
    <2>3. quoted' \in [Jobs -> SUBSET Quotable]
      <3>1. quote \in SUBSET Quotable
        BY <1>12
      <3>2. quoted' = [quoted EXCEPT ![j] = quote]
        BY <2>2 DEF Say
      <3> QED
        BY <1>13, <3>1, <3>2
    <2> QED
      BY <2>2, <2>3, <1>1 DEF AskLabels, Running
  <1>5. ASSUME NEW type, Enqueue(j, type)
        PROVE  /\ \E label \in AskLabels : Goto(j, label)
               /\ attempts' \in 0..REACT_MAX_ATTEMPTS
               /\ UNCHANGED <<main, branch, proposal, recorded>>
    BY <1>5, <1>3 DEF Enqueue, AskLabels
  <1>6. CASE Generate(j)
    BY <1>6, <1>3, <1>4 DEF Generate, TypeOK, AskLabels, Running
  <1>7. CASE Query(j)
    BY <1>7, <1>4 DEF Query, TypeOK, AskLabels, Running
  <1>8. CASE ReactRepair(j)
    <2>1. CASE GiveUp(j)
      <3>1. blame' \in [Jobs -> SUBSET {"infra", "skill"}]
        BY <2>1, <1>1 DEF GiveUp, TypeOK
      <3>2. quoted' \in [Jobs -> SUBSET Quotable]
        <4>1. {} \in SUBSET Quotable
          OBVIOUS
        <4>2. \E head, says : \E quote \in SUBSET Quotable : Wrap(j, head, says, quote)
          BY <2>1, <4>1, <1>12 DEF GiveUp
        <4> QED
          BY <4>2, <1>14
      <3> QED
        BY <2>1, <3>1, <3>2, <1>2, <1>8 DEF GiveUp, ReactRepair, AskLabels, Running
    <2>2. CASE Retry(j)
      <3>1. pc' = [pc EXCEPT ![j] = pc[j]]
        BY <2>2 DEF Retry, TypeOK
      <3>2. blame' \in [Jobs -> SUBSET {"infra", "skill"}]
        BY <2>2, <1>1 DEF Retry, TypeOK
      <3>3. quoted' \in [Jobs -> SUBSET Quotable]
        <4>1. {} \in SUBSET Quotable
          OBVIOUS
        <4> QED
          <5>1. CASE Wrap(j, "previous", {}, {})
            BY <5>1, <4>1, <1>14
          <5>2. CASE \E quote \in Quotes("bad_plan") : quoted' = [quoted EXCEPT ![j] = quote]
            <6>1. PICK quote \in Quotes("bad_plan") : quoted' = [quoted EXCEPT ![j] = quote]
              BY <5>2
            <6>2. quote \in SUBSET Quotable
              BY <1>12
            <6> QED
              BY <6>1, <6>2, <1>13
          <5> QED
            BY <2>2, <5>1, <5>2 DEF Retry, Say
      <3> QED
        BY <2>2, <3>1, <3>2, <3>3, <1>2, <1>8 DEF Goto, ReactRepair, AskLabels, Running
    <2>3. CASE Repaired(j)
      BY <2>3, <1>2, <1>8, <1>13 DEF Repaired, ReactRepair, TypeOK, AskLabels, Running
    <2> QED
      BY <1>8, <2>1, <2>2, <2>3 DEF ReactRepair
  <1>9. CASE Report(j)
    BY <1>9, <1>5 DEF Report, TypeOK, Running
  <1>10. CASE Raise(j)
    BY <1>10, <1>1, <1>5, <1>13 DEF Raise, Thrown, Running
  <1>11. CASE Unserializable(j)
    <2>1. /\ blame' \in [Jobs -> SUBSET {"infra", "skill"}]
          /\ \E stage : Thrown(j, "other", stage)
          /\ pc[j] = "answered"
      <3>1. CASE Thrown(j, "other", "stage serialization") /\ blame' = [blame EXCEPT ![j] = {"infra"}]
        <4>1. blame' \in [Jobs -> SUBSET {"infra", "skill"}]
          BY <3>1 DEF TypeOK
        <4>2. \E stage : Thrown(j, "other", stage)
          BY <3>1
        <4> QED
          BY <1>11, <4>1, <4>2 DEF Unserializable
      <3>2. CASE Thrown(j, "other", "stage internal") /\ blame' = [blame EXCEPT ![j] = {"skill"}]
        <4>1. blame' \in [Jobs -> SUBSET {"infra", "skill"}]
          BY <3>2 DEF TypeOK
        <4>2. \E stage : Thrown(j, "other", stage)
          BY <3>2
        <4> QED
          BY <1>11, <4>1, <4>2 DEF Unserializable
      <3> QED
        BY <1>11, <3>1, <3>2 DEF Unserializable
    <2>2. PICK stage : Thrown(j, "other", stage)
      BY <2>1
    <2> QED
      BY <2>1, <2>2, <1>5, <1>13 DEF Thrown
  <1> QED
    BY <1>6, <1>7, <1>8, <1>9, <1>10, <1>11 DEF AskStep, RunStep

----------------------------------------------------------------------------
\* Where a job is, from where it was.
LEMMA GotoTypes ==
  ASSUME pc \in [Jobs -> Labels], NEW j \in Jobs, NEW label \in Labels, Goto(j, label)
  PROVE  /\ pc' \in [Jobs -> Labels]
         /\ pc'[j] = label
         /\ \A k \in Jobs \ {j} : pc'[k] = pc[k]
  BY DEF Goto

LEMMA LabelFacts ==
  /\ AskLabels \subseteq Labels /\ Evolving \subseteq Labels /\ Ended \subseteq Labels
  /\ Evolving \cap AskLabels = {} /\ Ended \cap AskLabels = {} /\ Ended \cap Evolving = {}
  BY DEF AskLabels, Ended, Evolving, Running, Labels

\* A merge is a tree.
LEMMA MergedType ==
  ASSUME TypeOK
  PROVE  Merged \in Trees
  BY DEF TypeOK, Merged, Trees

LEMMA InitTypeOK == Init => TypeOK
  <1> SUFFICES ASSUME Init
               PROVE  TypeOK
    OBVIOUS
  <1> USE LearningAssumption
  <1>1. main \in Trees /\ NoTree \in Trees
    BY DEF Init, LearnedTrees, Trees, NoTree
  <1>2. surface \in Surfaces
    BY DEF Init
  <1> QED
    BY <1>1, <1>2 DEF Init, TypeOK, Labels

LEMMA NextTypeOK == TypeOK /\ [Next]_vars => TypeOK'
  <1> SUFFICES ASSUME TypeOK, [Next]_vars
               PROVE  TypeOK'
    OBVIOUS
  <1> USE LearningAssumption
  <1>1. CASE UNCHANGED vars
    BY <1>1 DEF vars, asking, branch, proposal, TypeOK
  <1>2. CASE OtherCommit
    <2>1. main' \in Trees
      BY <1>2 DEF OtherCommit, TypeOK, Trees
    <2> QED
      BY <1>2, <2>1 DEF OtherCommit, asking, branch, proposal, TypeOK
  <1>3. ASSUME NEW j \in Jobs, AskStep(j)
        PROVE  TypeOK'
    <2>1. PICK label \in AskLabels : Goto(j, label)
      BY <1>3, AskSteps
    <2>2. pc' \in [Jobs -> Labels]
      BY <2>1, GotoTypes, LabelFacts DEF TypeOK
    <2> QED
      BY <1>3, <2>2, AskSteps DEF TypeOK, branch, proposal
  <1>4. ASSUME NEW j \in Jobs, HandlerStep(j)
        PROVE  TypeOK'
    <2>1. CASE Evolve(j)
      <3>1. pc' \in [Jobs -> Labels]
        BY <2>1, GotoTypes, LabelFacts DEF Evolve, TypeOK, Evolving
      <3> QED
        BY <2>1, <3>1 DEF Evolve, asking, TypeOK
    <2>2. CASE Propose(j)
      <3>1. pc' \in [Jobs -> Labels]
        BY <2>2, GotoTypes, LabelFacts DEF Propose, TypeOK, Evolving
      <3> QED
        BY <2>2, <3>1 DEF Propose, asking, branch, TypeOK
    <2>3. CASE ProposeNothing(j)
      <3>1. pc' \in [Jobs -> Labels]
        BY <2>3, GotoTypes, LabelFacts DEF ProposeNothing, TypeOK, Evolving
      <3> QED
        BY <2>3, <3>1 DEF ProposeNothing, asking, branch, proposal, TypeOK
    <2>4. CASE WriteFile(j)
      <3>1. tree' \in Trees /\ changed' \subseteq Paths /\ left' \in 0..MAX_MUTATION_FILES
        BY <2>4 DEF WriteFile, TypeOK, Trees
      <3> QED
        BY <2>4, <3>1 DEF WriteFile, asking, branch, TypeOK
    <2>5. CASE Refuse(j)
      <3>1. pc' \in [Jobs -> Labels]
        BY <2>5, GotoTypes, LabelFacts DEF Refuse, TypeOK, Evolving
      <3>2. left' \in 0..MAX_MUTATION_FILES
        <4>1. left' = 0
          BY <2>5 DEF Refuse
        <4>2. 0 \in 0..MAX_MUTATION_FILES
          OBVIOUS
        <4> QED
          BY <4>1, <4>2
      <3> QED
        BY <2>5, <3>1, <3>2 DEF Refuse, asking, branch, TypeOK
    <2>6. CASE EndProposal(j)
      <3>1. pc' \in [Jobs -> Labels]
        BY <2>6, GotoTypes, LabelFacts DEF EndProposal, TypeOK, Evolving
      <3> QED
        BY <2>6, <3>1 DEF EndProposal, asking, branch, proposal, TypeOK
    <2>7. CASE Fallback(j)
      <3>1. pc' \in [Jobs -> Labels]
        BY <2>7, GotoTypes, LabelFacts DEF Fallback, TypeOK, Evolving
      <3> DEFINE f == FallbackFile[surface]
                 kept == IF surface \in Appending THEN tree[f] ELSE {}
      <3>2. f \in Files
        BY DEF TypeOK
      <3>3. kept \cup {Rule} \in SUBSET (Jobs \cup {Rule, Edit})
        BY <3>2 DEF TypeOK, Trees
      <3>4. tree' = [tree EXCEPT ![f] = kept \cup {Rule}]
        BY <2>7 DEF Fallback
      <3>5. tree' \in Trees
        BY <3>2, <3>3, <3>4 DEF TypeOK, Trees
      <3>6. changed' \subseteq Files
        BY <2>7, <3>2 DEF Fallback
      <3> QED
        BY <2>7, <3>1, <3>5, <3>6 DEF Fallback, asking, branch, TypeOK
    <2>8. CASE Commit(j)
      <3>1. pc' \in [Jobs -> Labels]
        BY <2>8, GotoTypes, LabelFacts DEF Commit, TypeOK, Evolving
      <3> QED
        BY <2>8, <3>1 DEF Commit, asking, branch, proposal, TypeOK
    <2>9. CASE Promote(j)
      <3>1. pc' \in [Jobs -> Labels]
        BY <2>9, GotoTypes, LabelFacts DEF Promote, TypeOK, Evolving, Ended
      <3>2. main' \in Trees
        BY <2>9, MergedType DEF Promote, TypeOK
      <3> QED
        BY <2>9, <3>1, <3>2 DEF Promote, asking, branch, proposal, TypeOK
    <2>10. CASE Record(j)
      BY <2>10 DEF Record, asking, branch, proposal, TypeOK
    <2>11. CASE Complete(j) \/ HandlerRaises(j)
      <3>1. pc' \in [Jobs -> Labels]
        BY <2>11, GotoTypes, LabelFacts DEF Complete, HandlerRaises, TypeOK, Ended
      <3> QED
        BY <2>11, <3>1 DEF Complete, HandlerRaises, asking, branch, proposal, TypeOK
    <2> QED
      BY <1>4, <2>1, <2>2, <2>3, <2>4, <2>5, <2>6, <2>7, <2>8, <2>9, <2>10, <2>11
         DEF HandlerStep
  <1> QED
    BY <1>1, <1>2, <1>3, <1>4 DEF Next

\* Jobs, trees and proposals stay well formed, whatever the model proposes.
THEOREM TypeCorrect == Spec => []TypeOK
  BY InitTypeOK, NextTypeOK, PTL DEF Spec

----------------------------------------------------------------------------
\* The invariant behind OneHypothesis: to whatever differs from the base leads a path
\* in the list of changed files or in that of a refused proposal, each of them of the
\* surface by what it begins with, and what is still to be written fits in the limit.

JobAt(label) == job # NoJob /\ pc[job] = label

JobInHand == job # NoJob => pc[job] \in Evolving \cup Ended

Traced == Touched \subseteq {FileOf[p] : p \in changed \cup abandoned}

OnSurface == \A p \in changed \cup abandoned : SurfaceOf[p] = surface

Bounded ==
  /\ Cardinality(changed \cup abandoned) <= MAX_MUTATION_FILES
  /\ job = NoJob \/ JobAt("evolving") => changed = {} /\ abandoned = {}
  /\ JobAt("writing") => abandoned = {} /\ Cardinality(changed) + left <= MAX_MUTATION_FILES
  /\ JobAt("falling_back") =>
       changed = {} /\ Cardinality(abandoned) + 1 <= MAX_MUTATION_FILES

HypothesisInv == JobInHand /\ Traced /\ OnSurface /\ Bounded

LEMMA PathsAreFinite ==
  ASSUME NEW S \in SUBSET Paths
  PROVE  /\ IsFiniteSet(S) /\ Cardinality(S) \in Nat
         /\ \A f \in Paths : Cardinality(S \cup {f}) <= Cardinality(S) + 1
  <1>1. IsFiniteSet(S)
    BY FS_Subset, LearningAssumption
  <1>2. Cardinality(S) \in Nat
    BY <1>1, FS_CardinalityType
  <1>3. ASSUME NEW f \in Paths
        PROVE  Cardinality(S \cup {f}) <= Cardinality(S) + 1
    BY <1>1, <1>2, FS_AddElement
  <1> QED
    BY <1>1, <1>2, <1>3

\* Paths lead to no more files than there are of them.
LEMMA FewerFiles ==
  ASSUME NEW S \in SUBSET Paths
  PROVE  LET T == {FileOf[p] : p \in S}
         IN  IsFiniteSet(T) /\ Cardinality(T) \in Nat /\ Cardinality(T) <= Cardinality(S)
  <1> DEFINE T == {FileOf[p] : p \in S}
             f == [p \in S |-> FileOf[p]]
  <1>1. f \in Surjection(S, T)
    BY DEF Surjection
  <1>2. IsFiniteSet(S)
    BY PathsAreFinite
  <1>3. IsFiniteSet(T) /\ Cardinality(T) <= Cardinality(S)
    BY <1>1, <1>2, FS_Surjection
  <1> QED
    BY <1>3, FS_CardinalityType

LEMMA NoFiles == Cardinality({}) = 0
  BY FS_EmptySet

LEMMA InitHypothesis == Init => HypothesisInv
  <1> SUFFICES ASSUME Init
               PROVE  HypothesisInv
    OBVIOUS
  <1>1. Touched = {}
    BY DEF Init, Touched
  <1> QED
    BY <1>1, NoFiles, LearningAssumption
       DEF Init, HypothesisInv, JobInHand, Traced, OnSurface, Bounded, JobAt

\* A step that only moves the job on keeps the invariant, unless it moves to
\* where more is asked of the files.
LEMMA MoveKeepsHypothesis ==
  ASSUME TypeOK, HypothesisInv, NEW j \in Jobs, j = job,
         NEW label \in (Evolving \cup Ended) \ {"evolving", "writing", "falling_back"},
         Goto(j, label), UNCHANGED <<branch, tree, changed, abandoned>>
  PROVE  HypothesisInv'
  <1>1. pc'[job'] = label /\ job' = job
    BY LabelFacts, GotoTypes DEF TypeOK, branch
  <1>2. JobInHand' /\ Traced' /\ OnSurface'
    BY <1>1 DEF HypothesisInv, JobInHand, Traced, Touched, OnSurface, branch
  <1>3. job # NoJob
    BY LearningAssumption
  <1>4. Bounded'
    BY <1>1, <1>3 DEF HypothesisInv, Bounded, JobAt, branch
  <1> QED
    BY <1>2, <1>4 DEF HypothesisInv

LEMMA NextHypothesis == TypeOK /\ HypothesisInv /\ [Next]_vars => HypothesisInv'
  <1> SUFFICES ASSUME TypeOK, HypothesisInv, [Next]_vars
               PROVE  HypothesisInv'
    OBVIOUS
  <1> USE LearningAssumption
  <1>1. CASE UNCHANGED vars
    BY <1>1 DEF vars, branch, proposal, HypothesisInv, JobInHand, Traced, Touched, OnSurface,
                Bounded, JobAt
  <1>2. CASE OtherCommit
    BY <1>2 DEF OtherCommit, branch, proposal, HypothesisInv, JobInHand, Traced, Touched,
                OnSurface, Bounded, JobAt
  <1>3. ASSUME NEW j \in Jobs, AskStep(j)
        PROVE  HypothesisInv'
    <2>1. UNCHANGED <<branch, proposal>> /\ pc[j] \in AskLabels
      BY <1>3, AskSteps DEF AskLabels
    <2>2. job # NoJob => pc[job] \notin AskLabels
      BY LabelFacts DEF HypothesisInv, JobInHand
    <2>3. PICK label \in AskLabels : Goto(j, label)
      BY <1>3, AskSteps
    <2>4. job # NoJob => pc'[job] = pc[job]
      BY <2>1, <2>2, <2>3 DEF Goto, TypeOK
    <2> QED
      BY <2>1, <2>4 DEF branch, proposal, HypothesisInv, JobInHand, Traced, Touched, OnSurface,
                        Bounded, JobAt
  <1>4. ASSUME NEW j \in Jobs, HandlerStep(j)
        PROVE  HypothesisInv'
    <2>1. CASE Evolve(j)
      <3>1. pc'[job'] = "evolving" /\ changed' = {} /\ abandoned' = {} /\ tree' = base'
        BY <2>1 DEF Evolve, Goto, TypeOK
      <3>2. Touched' = {}
        BY <3>1 DEF Touched
      <3>3. Bounded'
        BY <3>1, NoFiles DEF Bounded, JobAt
      <3> QED
        BY <3>1, <3>2, <3>3 DEF HypothesisInv, JobInHand, Traced, OnSurface, Evolving
    <2>2. CASE Propose(j)
      <3>1. /\ JobAt("evolving") /\ job' = job /\ pc'[job'] = "writing"
            /\ UNCHANGED <<surface, base, tree, changed, abandoned>>
            /\ left' \in 1..MAX_MUTATION_FILES
        BY <2>2 DEF Propose, At, Goto, TypeOK, branch, JobAt
      <3>2. Bounded'
        BY <3>1, NoFiles DEF HypothesisInv, Bounded, JobAt
      <3> QED
        BY <3>1, <3>2 DEF HypothesisInv, JobInHand, Traced, Touched, OnSurface, Evolving
    <2>3. CASE ProposeNothing(j)
      <3>1. /\ JobAt("evolving") /\ job' = job /\ pc'[job'] = "falling_back"
            /\ UNCHANGED <<surface, base, tree, changed, abandoned>>
        BY <2>3 DEF ProposeNothing, At, Goto, TypeOK, branch, proposal, JobAt
      <3>2. Bounded'
        <4>1. changed = {} /\ abandoned = {}
          BY <3>1 DEF HypothesisInv, Bounded
        <4>2. changed' = {} /\ abandoned' = {} /\ changed' \cup abandoned' = {}
          BY <3>1, <4>1
        <4>3. 0 <= MAX_MUTATION_FILES /\ 0 + 1 <= MAX_MUTATION_FILES
          OBVIOUS
        <4> QED
          BY <3>1, <4>2, <4>3, NoFiles DEF Bounded, JobAt
      <3> QED
        BY <3>1, <3>2 DEF HypothesisInv, JobInHand, Traced, Touched, OnSurface, Evolving
    <2>4. CASE WriteFile(j)
      <3>1. PICK f \in Paths : /\ SurfaceOf[f] = surface
                               /\ tree' = [tree EXCEPT ![FileOf[f]] = {j}]
                               /\ changed' = changed \cup {f}
        BY <2>4 DEF WriteFile
      <3>2. /\ JobAt("writing") /\ UNCHANGED <<pc, job, surface, base, abandoned>>
            /\ left \in Nat /\ left > 0 /\ left' = left - 1
        BY <2>4 DEF WriteFile, At, branch, JobAt, TypeOK
      <3>3. Traced'
        BY <3>1, <3>2 DEF HypothesisInv, Traced, Touched, TypeOK, Trees
      <3>4. Bounded'
        <4>1. abandoned = {} /\ Cardinality(changed) + left <= MAX_MUTATION_FILES
          BY <3>2 DEF HypothesisInv, Bounded
        <4>2. /\ Cardinality(changed) \in Nat /\ Cardinality(changed') \in Nat
              /\ Cardinality(changed') <= Cardinality(changed) + 1
          <5>1. changed \in SUBSET Paths /\ changed' \in SUBSET Paths
            BY <3>1 DEF TypeOK
          <5> QED
            BY <3>1, <5>1, PathsAreFinite
        <4>3. Cardinality(changed') + left' <= MAX_MUTATION_FILES
          BY <3>2, <4>1, <4>2
        <4>4. changed' \cup abandoned' = changed'
          BY <3>2, <4>1
        <4>5. left' \in Nat
          BY <3>2
        <4> QED
          <5>1. Cardinality(changed') <= MAX_MUTATION_FILES
            BY <4>2, <4>3, <4>5
          <5>2. JobAt("writing")'
            BY <3>2 DEF JobAt
          <5> QED
            BY <3>2, <4>1, <4>3, <4>4, <5>1, <5>2 DEF Bounded, JobAt
      <3> QED
        BY <3>1, <3>2, <3>3, <3>4 DEF HypothesisInv, JobInHand, OnSurface
    <2>5. CASE Refuse(j)
      <3>1. /\ JobAt("writing") /\ job' = job /\ pc'[job'] = "falling_back"
            /\ UNCHANGED <<surface, base, tree>>
            /\ left \in Nat /\ left > 0 /\ changed' = {} /\ abandoned' = changed
        <4>1. JobAt("writing") /\ job' = job /\ pc'[job'] = "falling_back"
          BY <2>5 DEF Refuse, At, Goto, TypeOK, branch, JobAt
        <4>2. left \in Nat /\ left > 0
          <5>1. left \in 0..MAX_MUTATION_FILES
            BY DEF TypeOK
          <5>2. left > 0
            BY <2>5 DEF Refuse
          <5> QED
            BY <5>1, <5>2
        <4> QED
          BY <2>5, <4>1, <4>2 DEF Refuse, branch
      <3>2. Bounded'
        <4>1. abandoned = {} /\ Cardinality(changed) + left <= MAX_MUTATION_FILES
          BY <3>1 DEF HypothesisInv, Bounded
        <4>2. Cardinality(changed) \in Nat
          BY PathsAreFinite DEF TypeOK
        <4>3. changed' \cup abandoned' = changed
          BY <3>1
        <4> QED
          <5>1. Cardinality(changed) <= MAX_MUTATION_FILES
                /\ Cardinality(changed) + 1 <= MAX_MUTATION_FILES
            <6>1. left \in Nat /\ left > 0
              BY <3>1
            <6> QED
              BY <4>1, <4>2, <6>1
          <5> QED
            BY <3>1, <4>3, <5>1 DEF Bounded, JobAt
      <3> QED
        BY <3>1, <3>2 DEF HypothesisInv, JobInHand, Traced, Touched, OnSurface, Evolving, Bounded
    <2>6. CASE Fallback(j)
      <3> DEFINE f == FallbackFile[surface]
      <3>1. /\ JobAt("falling_back") /\ job' = job /\ pc'[job'] = "committing"
            /\ UNCHANGED <<surface, base, abandoned>>
            /\ \/ changed' = {f} /\ \A g \in Files \ {f} : tree'[g] = tree[g]
               \/ changed' = {} /\ tree' = tree
        <4>1. f \in Files /\ tree \in Trees
          BY DEF TypeOK
        <4>2. CASE surface \in Appending /\ Rule \in tree[f]
          <5>1. tree' = [tree EXCEPT ![f] = tree[f] \cup {Rule}] /\ changed' = {}
            BY <2>6, <4>2 DEF Fallback
          <5>2. tree[f] \cup {Rule} = tree[f]
            BY <4>2
          <5>3. tree' = tree
            BY <4>1, <5>1, <5>2 DEF Trees
          <5> QED
            BY <2>6, <5>1, <5>3 DEF Fallback, At, Goto, TypeOK, branch, JobAt
        <4>3. CASE ~(surface \in Appending /\ Rule \in tree[f])
          <5>1. changed' = {f} /\ \A g \in Files \ {f} : tree'[g] = tree[g]
            BY <2>6, <4>1, <4>3 DEF Fallback, Trees
          <5> QED
            BY <2>6, <5>1 DEF Fallback, At, Goto, TypeOK, branch, JobAt
        <4> QED
          BY <4>2, <4>3
      <3>2. changed = {} /\ Cardinality(abandoned) + 1 <= MAX_MUTATION_FILES
        BY <3>1 DEF HypothesisInv, Bounded
      <3>3. Traced'
        BY <3>1, <3>2 DEF HypothesisInv, Traced, Touched
      <3>4. OnSurface'
        BY <3>1, <3>2 DEF HypothesisInv, OnSurface, TypeOK
      <3>5. Bounded'
        <4>1. abandoned \in SUBSET Paths /\ f \in Paths
          BY DEF TypeOK
        <4>2. /\ Cardinality(abandoned) \in Nat
              /\ Cardinality(abandoned \cup {f}) <= Cardinality(abandoned) + 1
          BY <4>1, PathsAreFinite
        <4>3. abandoned \cup {f} \in SUBSET Paths
          BY <4>1
        <4>4. Cardinality(abandoned \cup {f}) \in Nat
          BY <4>3, PathsAreFinite
        <4>5. changed' \cup abandoned' = abandoned \/ changed' \cup abandoned' = abandoned \cup {f}
          BY <3>1
        <4>6. Cardinality(abandoned) <= MAX_MUTATION_FILES
              /\ Cardinality(abandoned \cup {f}) <= MAX_MUTATION_FILES
          BY <3>2, <4>2, <4>4
        <4>7. Cardinality(changed' \cup abandoned') <= MAX_MUTATION_FILES
          BY <4>5, <4>6
        <4> QED
          BY <3>1, <4>7 DEF Bounded, JobAt
      <3> QED
        BY <3>1, <3>3, <3>4, <3>5 DEF HypothesisInv, JobInHand, Evolving
    <2>7. CASE EndProposal(j) \/ Commit(j) \/ Promote(j)
      <3>1. PICK label \in {"committing", "evaluating", "recording", "rejected"} : Goto(j, label)
        BY <2>7 DEF EndProposal, Commit, Promote
      <3> QED
        BY <2>7, <3>1, MoveKeepsHypothesis
           DEF EndProposal, Commit, Promote, At, proposal, Evolving, Ended
    <2>8. CASE Record(j)
      BY <2>8 DEF Record, branch, proposal, HypothesisInv, JobInHand, Traced, Touched, OnSurface,
                  Bounded, JobAt
    <2>9. CASE Complete(j) \/ HandlerRaises(j)
      <3>1. PICK label \in {"completed", "failed"} : Goto(j, label)
        BY <2>9 DEF Complete, HandlerRaises
      <3> QED
        BY <2>9, <3>1, MoveKeepsHypothesis DEF Complete, HandlerRaises, At, proposal, Evolving, Ended
    <2> QED
      BY <1>4, <2>1, <2>2, <2>3, <2>4, <2>5, <2>6, <2>7, <2>8, <2>9 DEF HandlerStep
  <1> QED
    BY <1>1, <1>2, <1>3, <1>4 DEF Next

\* For any skill, any paths and any limit: what a candidate changes, the files of a
\* refused proposal included, is within the limit, and on the surface of the failure
\* unless a path of that surface left its directory.
THEOREM HypothesisIsBounded == Spec => []OneHypothesis
  <1>1. TypeOK /\ HypothesisInv => OneHypothesis
    <2> SUFFICES ASSUME TypeOK, HypothesisInv
                 PROVE  OneHypothesis
      OBVIOUS
    <2> DEFINE S == changed \cup abandoned
               T == {FileOf[p] : p \in S}
    <2>1. S \in SUBSET Paths /\ Touched \in SUBSET T
      BY DEF TypeOK, HypothesisInv, Traced
    <2>2. IsFiniteSet(T) /\ Cardinality(T) \in Nat /\ Cardinality(T) <= Cardinality(S)
      BY <2>1, FewerFiles
    <2>3. Cardinality(Touched) <= Cardinality(T) /\ Cardinality(Touched) \in Nat
      BY <2>1, <2>2, FS_Subset, FS_CardinalityType
    <2>4. Cardinality(S) \in Nat /\ Cardinality(S) <= MAX_MUTATION_FILES
      BY <2>1, PathsAreFinite DEF HypothesisInv, Bounded
    <2>5. Cardinality(Touched) <= MAX_MUTATION_FILES
      BY <2>2, <2>3, <2>4, LearningAssumption
    <2>6. ASSUME NEW f \in Touched
          PROVE  SurfaceOf[f] = surface \/ \E p \in S \ Files : FileOf[p] = f
      <3>1. PICK p \in S : FileOf[p] = f
        BY <2>1, <2>6
      <3>2. SurfaceOf[p] = surface
        BY DEF HypothesisInv, OnSurface
      <3>3. p \in Files => p = f
        BY <3>1, LearningAssumption
      <3> QED
        BY <3>1, <3>2, <3>3
    <2> QED
      BY <2>5, <2>6 DEF OneHypothesis
  <1> QED
    BY <1>1, InitTypeOK, NextTypeOK, InitHypothesis, NextHypothesis, PTL DEF Spec

----------------------------------------------------------------------------
\* The invariant behind RecordsCoverThePromotion: a file that the handler wrote is
\* there in the worktree, and once merged what the candidate touched is there in
\* main, so no file that should have a record can be skipped as missing.

Written == \A p \in changed \cup abandoned : tree[FileOf[p]] # {}

Landed == JobAt("recording") => \A f \in Touched : main[f] # {}

RecordInv == Written /\ Landed /\ RecordsCoverThePromotion

LEMMA InitRecord == Init => RecordInv
  BY LearningAssumption DEF Init, RecordInv, Written, Landed, RecordsCoverThePromotion, JobAt

\* A step that leaves the branch alone, and takes the job neither to its records
\* nor to its end.
LEMMA MoveKeepsRecord ==
  ASSUME RecordInv, UNCHANGED <<branch, tree, changed, abandoned, recorded>>,
         job # NoJob => pc'[job] # "recording" /\ pc'[job] # "completed"
  PROVE  RecordInv'
  BY DEF RecordInv, Written, Landed, RecordsCoverThePromotion, JobAt, branch

LEMMA NextRecord == TypeOK /\ HypothesisInv /\ RecordInv /\ [Next]_vars => RecordInv'
  <1> SUFFICES ASSUME TypeOK, HypothesisInv, RecordInv, [Next]_vars
               PROVE  RecordInv'
    OBVIOUS
  <1> USE LearningAssumption
  <1>1. CASE UNCHANGED vars
    BY <1>1 DEF vars, branch, proposal, RecordInv, Written, Landed, RecordsCoverThePromotion,
                Touched, JobAt
  <1>2. CASE OtherCommit
    <2>1. \A f \in Files : main[f] # {} => main'[f] # {}
      BY <1>2 DEF OtherCommit, TypeOK, Trees
    <2>2. \A f \in Touched : f \in Files
      BY DEF Touched
    <2> QED
      BY <1>2, <2>1, <2>2 DEF OtherCommit, branch, proposal, RecordInv, Written, Landed,
                              RecordsCoverThePromotion, Touched, JobAt
  <1>3. ASSUME NEW j \in Jobs, AskStep(j)
        PROVE  RecordInv'
    <2>1. UNCHANGED <<main, branch, proposal, recorded>> /\ pc[j] \in AskLabels
      BY <1>3, AskSteps DEF AskLabels
    <2>2. job # NoJob => pc[job] \notin AskLabels
      BY LabelFacts DEF HypothesisInv, JobInHand
    <2>3. PICK label \in AskLabels : Goto(j, label)
      BY <1>3, AskSteps
    <2>4. job # NoJob => pc'[job] = pc[job]
      BY <2>1, <2>2, <2>3 DEF Goto, TypeOK
    <2> QED
      BY <2>1, <2>4 DEF branch, proposal, RecordInv, Written, Landed, RecordsCoverThePromotion,
                        Touched, JobAt
  <1>4. ASSUME NEW j \in Jobs, HandlerStep(j)
        PROVE  RecordInv'
    <2>1. CASE Evolve(j)
      <3>1. pc'[job'] = "evolving" /\ changed' = {} /\ abandoned' = {}
        BY <2>1 DEF Evolve, Goto, TypeOK
      <3> QED
        BY <3>1 DEF RecordInv, Written, Landed, RecordsCoverThePromotion, JobAt
    <2>2. CASE Propose(j) \/ ProposeNothing(j) \/ EndProposal(j) \/ Commit(j)
      <3>1. pc'[job] \in {"writing", "falling_back", "committing", "evaluating"}
        BY <2>2 DEF Propose, ProposeNothing, EndProposal, Commit, At, Goto, TypeOK
      <3>2. UNCHANGED <<branch, tree, changed, abandoned, recorded>>
        BY <2>2 DEF Propose, ProposeNothing, EndProposal, Commit, proposal
      <3> QED
        BY <3>1, <3>2, MoveKeepsRecord
    <2>3. CASE WriteFile(j)
      <3>1. PICK f \in Paths : tree' = [tree EXCEPT ![FileOf[f]] = {j}] /\ changed' = changed \cup {f}
        BY <2>3 DEF WriteFile
      <3>2. pc'[job'] = "writing" /\ abandoned' = abandoned
        BY <2>3 DEF WriteFile, At, branch
      <3>3. Written'
        BY <3>1, <3>2 DEF RecordInv, Written, TypeOK, Trees
      <3> QED
        BY <3>2, <3>3 DEF RecordInv, Landed, RecordsCoverThePromotion, JobAt
    <2>4. CASE Refuse(j)
      <3>1. pc'[job'] = "falling_back"
        BY <2>4 DEF Refuse, At, Goto, TypeOK, branch
      <3>2. changed' \cup abandoned' \subseteq changed \cup abandoned /\ tree' = tree
        BY <2>4 DEF Refuse
      <3> QED
        BY <3>1, <3>2 DEF RecordInv, Written, Landed, RecordsCoverThePromotion, JobAt
    <2>5. CASE Fallback(j)
      <3> DEFINE f == FallbackFile[surface]
                 kept == IF surface \in Appending THEN tree[f] ELSE {}
      <3>1. pc'[job'] = "committing"
        BY <2>5 DEF Fallback, At, Goto, TypeOK, branch
      <3>2. f \in Files /\ tree \in Trees
        BY DEF TypeOK
      <3>3. tree' = [tree EXCEPT ![f] = kept \cup {Rule}]
        BY <2>5 DEF Fallback
      <3>4. tree'[f] # {} /\ \A g \in Files \ {f} : tree'[g] = tree[g]
        BY <3>2, <3>3 DEF Trees
      <3>5. changed' \subseteq {f} /\ abandoned' = abandoned /\ abandoned \subseteq Paths
        BY <2>5 DEF Fallback, TypeOK
      <3>6. Written'
        <4>1. SUFFICES ASSUME NEW p \in changed' \cup abandoned'
                       PROVE  tree'[FileOf[p]] # {}
          BY DEF Written
        <4>2. FileOf[f] = f
          BY <3>2
        <4>3. CASE p \in changed'
          BY <3>4, <3>5, <4>2, <4>3
        <4>4. CASE p \in abandoned
          <5>1. FileOf[p] \in Files /\ tree[FileOf[p]] # {}
            BY <3>5, <4>4 DEF RecordInv, Written
          <5> QED
            BY <3>4, <5>1
        <4> QED
          BY <3>5, <4>1, <4>3, <4>4
      <3> QED
        BY <3>1, <3>6 DEF RecordInv, Landed, RecordsCoverThePromotion, JobAt
    <2>6. CASE Promote(j)
      <3>1. UNCHANGED <<branch, tree, changed, abandoned, recorded>> /\ j = job
        BY <2>6 DEF Promote, At, proposal
      <3>2. CASE main' = Merged /\ Goto(j, "recording")
        <4>1. pc'[job] = "recording"
          BY <3>1, <3>2 DEF Goto, TypeOK
        <4>2. \A g \in Touched : tree[g] # {}
          BY DEF HypothesisInv, Traced, RecordInv, Written
        <4>3. \A g \in Touched : main'[g] # {}
          <5>1. SUFFICES ASSUME NEW g \in Touched
                         PROVE  main'[g] # {}
            OBVIOUS
          <5>2. g \in Files
            BY DEF Touched
          <5> QED
            BY <3>2, <4>2, <5>1, <5>2 DEF Merged
        <4> QED
          BY <3>1, <4>1, <4>3 DEF RecordInv, Written, Landed, RecordsCoverThePromotion, Touched,
                                  JobAt, branch
      <3>3. CASE Goto(j, "rejected")
        <4>1. pc'[job] = "rejected"
          BY <3>1, <3>3 DEF Goto, TypeOK
        <4> QED
          BY <3>1, <4>1, MoveKeepsRecord
      <3> QED
        BY <2>6, <3>2, <3>3 DEF Promote
    <2>7. CASE Record(j)
      <3>1. UNCHANGED <<pc, main, branch, tree, changed, abandoned>> /\ pc[job] = "recording"
        BY <2>7 DEF Record, At, proposal
      <3> QED
        BY <3>1 DEF RecordInv, Written, Landed, RecordsCoverThePromotion, Touched, JobAt, branch
    <2>8. CASE Complete(j)
      <3>1. /\ UNCHANGED <<branch, tree, changed, abandoned, recorded>>
            /\ j = job /\ job # NoJob /\ pc[job] = "recording" /\ pc'[job] = "completed"
        BY <2>8 DEF Complete, At, Goto, TypeOK, proposal
      <3>2. \A p \in changed : p \in recorded \/ main[FileOf[p]] = {} \/ p \notin Files
        BY <2>8 DEF Complete
      <3>3. \A f \in Touched : main[f] # {}
        BY <3>1 DEF RecordInv, Landed, JobAt
      <3>4. Touched \subseteq {FileOf[p] : p \in recorded \cup abandoned \cup (changed \ Files)}
        BY <3>2, <3>3 DEF HypothesisInv, Traced
      <3> QED
        BY <3>1, <3>4 DEF RecordInv, Written, Landed, RecordsCoverThePromotion, Touched, JobAt,
                          branch
    <2>9. CASE HandlerRaises(j)
      <3>1. pc'[job] = "failed" /\ UNCHANGED <<branch, tree, changed, abandoned, recorded>>
        BY <2>9 DEF HandlerRaises, Goto, TypeOK, proposal
      <3> QED
        BY <3>1, MoveKeepsRecord
    <2> QED
      BY <1>4, <2>1, <2>2, <2>3, <2>4, <2>5, <2>6, <2>7, <2>8, <2>9 DEF HandlerStep
  <1> QED
    BY <1>1, <1>2, <1>3, <1>4 DEF Next

\* For any skill, whatever is committed to main between the merge and the records:
\* no file a completed job changed is without its provenance record, but for those
\* of a proposal refused half-way and those that a path led to by "..".
THEOREM PromotionIsRecorded == Spec => []RecordsCoverThePromotion
  <1>1. Init => TypeOK /\ HypothesisInv /\ RecordInv
    BY InitTypeOK, InitHypothesis, InitRecord
  <1>2. TypeOK /\ HypothesisInv /\ RecordInv /\ [Next]_vars => (TypeOK /\ HypothesisInv /\ RecordInv)'
    BY NextTypeOK, NextHypothesis, NextRecord
  <1>3. RecordInv => RecordsCoverThePromotion
    BY DEF RecordInv
  <1> QED
    BY <1>1, <1>2, <1>3, PTL DEF Spec

----------------------------------------------------------------------------
\* What the classification makes of the text that a failed run ends with.

\* A text that names no stage that is looked at, that has what speaks of a failure of
\* the infrastructure only from a quote or from such a failure, and that blames the
\* model, unless a quote does, only for not returning JSON.
Explained(text, quote, who) ==
  /\ text \cap Stages = {}
  /\ "serialization" \in text => "serialization" \in quote
  /\ "model" \in text => "model" \in quote \/ {"json", "did not return"} \subseteq text
  /\ "timeout" \in text => "timeout" \in quote \/ "infra" \in who

\* What SkillFailureIsLearned asks of an incident.
Excused(quote, who) == "infra" \in who \/ \E phrases \in Incidental : phrases \subseteq quote

Hits(text, i) == \E phrases \in Rules[i].on : phrases \subseteq text

LEMMA RulesFacts ==
  /\ DOMAIN Rules = 1..18
  /\ Rules[18].on = {{}}
  /\ {"json", "did not return"} \in Rules[11].on
  /\ \A i \in 1..18 : Rules[i].type \in INFRA_ERROR_TYPES => i \in {4, 13, 14, 15, 16, 17}
  /\ Rules[4].on = {{"serialization"}, {"stage serialization"}}
  /\ Rules[13].on = {{"timeout", "stage llm"}, {"timeout", "model"}}
  /\ Rules[14].on = {{"timeout", "stage explain"}}
  /\ Rules[15].on = {{"timeout", "stage execution"}}
  /\ Rules[16].on = {{"stage llm"}}
  /\ Rules[17].on = {{"stage execution"}, {"stage explain"}}
  <1>1. DOMAIN Rules = 1..18
    BY DEF Rules
  <1>2. Rules[18].on = {{}}
    BY DEF Rules
  <1>3. {"json", "did not return"} \in Rules[11].on
    BY DEF Rules
  <1>4. \A i \in 1..18 : Rules[i].type \in INFRA_ERROR_TYPES => i \in {4, 13, 14, 15, 16, 17}
    <2>1. \A i \in 1..18 : i \in {4, 13, 14, 15, 16, 17} \/ i \in {1, 2, 3, 5, 6, 7} \/ i \in {8, 9, 10, 11, 12, 18}
      OBVIOUS
    <2>2. \A i \in {1, 2, 3, 5, 6, 7} : Rules[i].type \notin INFRA_ERROR_TYPES
      <3>1. Rules[1].type \notin INFRA_ERROR_TYPES
        BY DEF Rules, INFRA_ERROR_TYPES
      <3>2. Rules[2].type \notin INFRA_ERROR_TYPES
        BY DEF Rules, INFRA_ERROR_TYPES
      <3>3. Rules[3].type \notin INFRA_ERROR_TYPES
        BY DEF Rules, INFRA_ERROR_TYPES
      <3>4. Rules[5].type \notin INFRA_ERROR_TYPES
        BY DEF Rules, INFRA_ERROR_TYPES
      <3>5. Rules[6].type \notin INFRA_ERROR_TYPES
        BY DEF Rules, INFRA_ERROR_TYPES
      <3>6. Rules[7].type \notin INFRA_ERROR_TYPES
        BY DEF Rules, INFRA_ERROR_TYPES
      <3> QED
        BY <3>1, <3>2, <3>3, <3>4, <3>5, <3>6
    <2>3. \A i \in {8, 9, 10, 11, 12, 18} : Rules[i].type \notin INFRA_ERROR_TYPES
      <3>1. Rules[8].type \notin INFRA_ERROR_TYPES
        BY DEF Rules, INFRA_ERROR_TYPES
      <3>2. Rules[9].type \notin INFRA_ERROR_TYPES
        BY DEF Rules, INFRA_ERROR_TYPES
      <3>3. Rules[10].type \notin INFRA_ERROR_TYPES
        BY DEF Rules, INFRA_ERROR_TYPES
      <3>4. Rules[11].type \notin INFRA_ERROR_TYPES
        BY DEF Rules, INFRA_ERROR_TYPES
      <3>5. Rules[12].type \notin INFRA_ERROR_TYPES
        BY DEF Rules, INFRA_ERROR_TYPES
      <3>6. Rules[18].type \notin INFRA_ERROR_TYPES
        BY DEF Rules, INFRA_ERROR_TYPES
      <3> QED
        BY <3>1, <3>2, <3>3, <3>4, <3>5, <3>6
    <2> QED
      BY <2>1, <2>2, <2>3
  <1>5. Rules[4].on = {{"serialization"}, {"stage serialization"}}
    BY DEF Rules
  <1>6. Rules[13].on = {{"timeout", "stage llm"}, {"timeout", "model"}}
    BY DEF Rules
  <1>7. Rules[14].on = {{"timeout", "stage explain"}}
    BY DEF Rules
  <1>8. Rules[15].on = {{"timeout", "stage execution"}}
    BY DEF Rules
  <1>9. Rules[16].on = {{"stage llm"}}
    BY DEF Rules
  <1>10. Rules[17].on = {{"stage execution"}, {"stage explain"}}
    BY DEF Rules
  <1> QED
    BY <1>1, <1>2, <1>3, <1>4, <1>5, <1>6, <1>7, <1>8, <1>9, <1>10

\* It is the line i of the table that gives the text its type.
First(text, i) == Hits(text, i) /\ \A k \in 1..(i - 1) : ~Hits(text, k)

\* Some line of the table is the first that the text hits.
LEMMA FirstHit ==
  ASSUME NEW text
  PROVE  \E i \in DOMAIN Rules : First(text, i)
  <1>1. Hits(text, 18)
    <2>1. {} \in Rules[18].on /\ {} \subseteq text
      BY RulesFacts
    <2> QED
      BY <2>1 DEF Hits
  <1>2. \E i \in 1..18 : Hits(text, i) /\ \A k \in 1..(i - 1) : ~Hits(text, k)
    BY <1>1
  <1> QED
    BY <1>2, RulesFacts DEF First

\* Such a text is classified as a failure of the infrastructure only if there was one
\* or if it quotes what speaks of one.
LEMMA ExplainedIncidents ==
  ASSUME NEW text, NEW quote, NEW who, Explained(text, quote, who),
         error_type_for_message(text) \in INFRA_ERROR_TYPES
  PROVE  Excused(quote, who)
  <1> DEFINE first == CHOOSE i \in DOMAIN Rules : First(text, i)
  <1>1. error_type_for_message(text) = Rules[first].type
    BY DEF error_type_for_message, First, Hits
  <1>2. first \in 1..18 /\ Hits(text, first) /\ \A k \in 1..(first - 1) : ~Hits(text, k)
    <2>1. first \in DOMAIN Rules /\ First(text, first)
      BY FirstHit
    <2> QED
      BY <2>1, RulesFacts DEF First
  <1> HIDE DEF first
  <1>3. first # 14 /\ first # 15 /\ first # 16 /\ first # 17
    <2>1. ~Hits(text, 14)
      BY RulesFacts DEF Hits, Explained, Stages
    <2>2. ~Hits(text, 15)
      BY RulesFacts DEF Hits, Explained, Stages
    <2>3. ~Hits(text, 16)
      BY RulesFacts DEF Hits, Explained, Stages
    <2>4. ~Hits(text, 17)
      BY RulesFacts DEF Hits, Explained, Stages
    <2> QED
      BY <1>2, <2>1, <2>2, <2>3, <2>4
  <1>4. first \in {4, 13}
    BY <1>1, <1>2, <1>3, RulesFacts
  <1>5. CASE first = 4
    <2>1. "serialization" \in text
      BY <1>2, <1>5, RulesFacts DEF Hits, Explained, Stages
    <2>2. {"serialization"} \subseteq quote
      BY <2>1 DEF Explained
    <2> QED
      BY <2>2 DEF Excused, Incidental
  <1>6. CASE first = 13
    <2>1. "timeout" \in text /\ "model" \in text
      BY <1>2, <1>6, RulesFacts DEF Hits, Explained, Stages
    <2>2. ~ {"json", "did not return"} \subseteq text
      <3>1. ~Hits(text, 11)
        BY <1>2, <1>6
      <3> QED
        BY <3>1, RulesFacts DEF Hits
    <2>3. "infra" \in who \/ {"timeout", "model"} \subseteq quote
      BY <2>1, <2>2 DEF Explained
    <2> QED
      BY <2>3 DEF Excused, Incidental
  <1> QED
    BY <1>4, <1>5, <1>6

\* A text that goes into another: what explained each explains both.
LEMMA ExplainedTogether ==
  ASSUME NEW t1, NEW q1, NEW w1, Explained(t1, q1, w1),
         NEW t2, NEW q2, NEW w2, Explained(t2, q2, w2)
  PROVE  Explained(t1 \cup t2, q1 \cup q2, w1 \cup w2)
  <1>1. (t1 \cup t2) \cap Stages = {}
    BY DEF Explained
  <1>2. "serialization" \in t1 \cup t2 => "serialization" \in q1 \cup q2
    BY DEF Explained
  <1>3. "model" \in t1 \cup t2 =>
          "model" \in q1 \cup q2 \/ {"json", "did not return"} \subseteq t1 \cup t2
    BY DEF Explained
  <1>4. "timeout" \in t1 \cup t2 => "timeout" \in q1 \cup q2 \/ "infra" \in w1 \cup w2
    BY DEF Explained
  <1> QED
    BY <1>1, <1>2, <1>3, <1>4 DEF Explained

LEMMA QuotesAreExplained ==
  ASSUME NEW quote \in SUBSET Quotable
  PROVE  Explained(quote, quote, {})
  BY LearningAssumption DEF Explained

\* The invariant behind SkillFailureIsLearned: one question is asked at a time, so
\* the message is that of the run; a run fails with react's own error; what its text
\* says is never taken for the infrastructure.

OneRun == \A j, k \in Jobs : pc[j] \in Running /\ pc[k] \in Running => j = k

ReactsError ==
  \A j \in Jobs :
    /\ pc[j] \in {"repairing", "failed_run"} => Explained(message.says, quoted[j], blame[j])
    /\ pc[j] = "failed_run" => message.head = "react"

FailureInv == OneRun /\ ReactsError /\ SkillFailureIsLearned

LEMMA InitFailure == Init => FailureInv
  BY DEF Init, FailureInv, OneRun, ReactsError, SkillFailureIsLearned, Running

LEMMA ErrorFields ==
  ASSUME NEW h, NEW text, NEW t
  PROVE  Error(h, text, t).says = text /\ Error(h, text, t).trouble = t
  BY DEF Error

\* The model's failures, a plan's and a database's are explained by whose fault they are.
LEMMA TroublesAreExplained ==
  /\ \A t \in DOMAIN LlmTroubles : Explained(chat_json(t), {}, {Fault(t)})
  /\ \A t \in DOMAIN DbTroubles : Explained(DbTroubles[t], {}, {Fault(t)})
  /\ \A who : Explained({}, {}, who) /\ Explained({"budget exhausted"}, {}, who)
  <1>1. DOMAIN LlmTroubles = {"llm_timeout", "llm_refused", "llm_prose", "llm_misfit", "llm_unkeyed"}
    BY DEF LlmTroubles
  <1>2. Explained(chat_json("llm_timeout"), {}, {Fault("llm_timeout")})
    <2>1. chat_json("llm_timeout") = {"model", "json", "did not return"} \cup {"timeout"}
      BY DEF chat_json, LlmTroubles
    <2>2. Fault("llm_timeout") = "infra"
      BY DEF Fault, InfraTroubles
    <2> QED
      BY <2>1, <2>2 DEF Explained, Stages
  <1>3. Explained(chat_json("llm_refused"), {}, {Fault("llm_refused")})
    <2>1. chat_json("llm_refused") = {"model", "json", "did not return"} \cup {}
      BY DEF chat_json, LlmTroubles
    <2> QED
      BY <2>1 DEF Explained, Stages
  <1>4. Explained(chat_json("llm_prose"), {}, {Fault("llm_prose")})
    <2>1. chat_json("llm_prose") = {"model", "json", "did not return"} \cup {"json"}
      BY DEF chat_json, LlmTroubles
    <2> QED
      BY <2>1 DEF Explained, Stages
  <1>5. Explained(chat_json("llm_misfit"), {}, {Fault("llm_misfit")})
    <2>1. chat_json("llm_misfit") = {"model", "json", "did not return"} \cup {"schema violation"}
      BY DEF chat_json, LlmTroubles
    <2> QED
      BY <2>1 DEF Explained, Stages
  <1>6. Explained(chat_json("llm_unkeyed"), {}, {Fault("llm_unkeyed")})
    <2>1. chat_json("llm_unkeyed") = {}
      BY DEF chat_json
    <2> QED
      BY <2>1 DEF Explained
  <1>7. \A t \in DOMAIN DbTroubles : Explained(DbTroubles[t], {}, {Fault(t)})
    <2>1. DOMAIN DbTroubles = {"db_timeout", "db_lost", "bad_query"}
      BY DEF DbTroubles
    <2>2. /\ DbTroubles["db_timeout"] = {"timeout"} /\ DbTroubles["db_lost"] = {}
          /\ DbTroubles["bad_query"] = {}
      BY DEF DbTroubles
    <2>3. Fault("db_timeout") = "infra"
      BY DEF Fault, InfraTroubles
    <2>4. Explained({"timeout"}, {}, {"infra"}) /\ \A who : Explained({}, {}, who)
      BY DEF Explained, Stages
    <2> QED
      BY <2>1, <2>2, <2>3, <2>4
  <1>8. \A who : Explained({}, {}, who) /\ Explained({"budget exhausted"}, {}, who)
    BY DEF Explained, Stages
  <1> QED
    BY <1>1, <1>2, <1>3, <1>4, <1>5, <1>6, <1>7, <1>8

\* And so are the errors of the agent's nodes.
LEMMA ErrorsAreExplained ==
  \A e \in GenerationErrors \cup QueryErrors : Explained(e.says, {}, {Fault(e.trouble)})
  <1>0. ASSUME NEW e, NEW head, NEW text, NEW t,
               e = Error(head, text, t), Explained(text, {}, {Fault(t)})
        PROVE  Explained(e.says, {}, {Fault(e.trouble)})
    <2>1. e.says = text /\ e.trouble = t
      BY <1>0, ErrorFields
    <2> QED
      BY <1>0, <2>1
  <1>1. ASSUME NEW e \in GenerationErrors
        PROVE  Explained(e.says, {}, {Fault(e.trouble)})
    <2>1. CASE \E t \in DOMAIN LlmTroubles : e = Error("sql generation", chat_json(t), t)
      <3>1. PICK t \in DOMAIN LlmTroubles : e = Error("sql generation", chat_json(t), t)
        BY <2>1
      <3>2. Explained(chat_json(t), {}, {Fault(t)})
        BY TroublesAreExplained
      <3> QED
        BY <1>0, <3>1, <3>2
    <2>2. CASE e = Error("sql generation", {}, "bad_plan")
      <3>1. Explained({}, {}, {Fault("bad_plan")})
        BY TroublesAreExplained
      <3> QED
        BY <1>0, <2>2, <3>1
    <2>3. CASE e = Error("query plan assembly", {"plan assembly", "assembly failed"}, "bad_plan")
      <3>1. Explained({"plan assembly", "assembly failed"}, {}, {Fault("bad_plan")})
        BY DEF Explained, Stages
      <3> QED
        BY <1>0, <2>3, <3>1
    <2> QED
      BY <1>1, <2>1, <2>2, <2>3 DEF GenerationErrors
  <1>2. ASSUME NEW e \in QueryErrors
        PROVE  Explained(e.says, {}, {Fault(e.trouble)})
    <2>1. \A who : /\ Explained({"lint failed"}, {}, who) /\ Explained({"read-only"}, {}, who)
                   /\ Explained({"critic rejected"}, {}, who)
      BY DEF Explained, Stages
    <2>2. CASE e = Error("lint", {"lint failed"}, "bad_query")
      BY <1>0, <2>1, <2>2
    <2>3. CASE e = Error("only", {"read-only"}, "bad_query")
      BY <1>0, <2>1, <2>3
    <2>4. CASE e = Error("critic", {"critic rejected"}, "wrong_answer")
      BY <1>0, <2>1, <2>4
    <2>5. ASSUME NEW node, e \in DbErrors(node)
          PROVE  Explained(e.says, {}, {Fault(e.trouble)})
      <3>1. PICK t \in DOMAIN DbTroubles : e = Error(node, DbTroubles[t], t)
        BY <2>5 DEF DbErrors
      <3>2. e.says = DbTroubles[t] /\ e.trouble = t
        BY <3>1, ErrorFields
      <3> QED
        BY <3>2, TroublesAreExplained
    <2> QED
      BY <1>2, <2>2, <2>3, <2>4, <2>5 DEF QueryErrors
  <1> QED
    BY <1>1, <1>2

\* No other question's run is going on while this one's is.
LEMMA RunMoves ==
  ASSUME TypeOK, OneRun, NEW j \in Jobs, NEW label \in Labels, Goto(j, label),
         label \in Running => pc[j] \in Running \/ \A k \in Jobs : pc[k] \notin Running
  PROVE  OneRun'
  BY DEF OneRun, TypeOK, Goto

\* A job that is not an incident does not become one; whose failures are known
\* to be the skill's stays so.
LEMMA MoveKeepsLearned ==
  ASSUME TypeOK, SkillFailureIsLearned, NEW j \in Jobs, NEW label \in Labels \ {"incident"},
         Goto(j, label), pc[j] # "incident",
         \A k \in Jobs \ {j} : blame'[k] = blame[k] /\ quoted'[k] = quoted[k]
  PROVE  SkillFailureIsLearned'
  BY DEF SkillFailureIsLearned, TypeOK, Goto

\* More quotes and more failures explain no less, and a quote explains itself.
LEMMA ExplainedMore ==
  ASSUME NEW text, NEW quote, NEW more, quote \subseteq more,
         NEW who, NEW others, who \subseteq others, Explained(text, quote, who)
  PROVE  Explained(text, more, others)
  BY DEF Explained

LEMMA QuotedIsExplained ==
  ASSUME NEW text, NEW quote \in SUBSET Quotable, NEW who, NEW q, q \subseteq quote,
         Explained(text, q, who)
  PROVE  Explained(text \cup quote, quote, who)
  <1>1. Explained(text \cup quote, q \cup quote, who \cup {})
    BY QuotesAreExplained, ExplainedTogether
  <1>2. q \cup quote \subseteq quote /\ who \cup {} \subseteq who
    OBVIOUS
  <1> QED
    BY <1>1, <1>2, ExplainedMore

LEMMA SaySays ==
  ASSUME TypeOK, NEW j \in Jobs, NEW head, NEW says, NEW quote, Say(j, head, says, quote)
  PROVE  /\ message'.head = head /\ message'.says = says \cup quote /\ quoted'[j] = quote
         /\ \A k \in Jobs \ {j} : quoted'[k] = quoted[k]
  BY DEF Say, TypeOK

LEMMA BlamedBlames ==
  ASSUME TypeOK, NEW j \in Jobs, NEW trouble, Blamed(j, trouble)
  PROVE  /\ blame[j] \subseteq blame'[j] /\ {Fault(trouble)} \subseteq blame'[j]
         /\ \A k \in Jobs \ {j} : blame'[k] = blame[k]
  BY DEF Blamed, TypeOK

\* A new error, and one that goes into another.
LEMMA SayExplained ==
  ASSUME TypeOK, NEW j \in Jobs, NEW head, NEW says, NEW quote \in SUBSET Quotable,
         Say(j, head, says, quote), NEW who, who \subseteq blame'[j], Explained(says, {}, who)
  PROVE  Explained(message'.says, quoted'[j], blame'[j])
  <1>1. Explained(says \cup quote, quote, who)
    BY QuotedIsExplained
  <1>2. Explained(says \cup quote, quote, blame'[j])
    BY <1>1, ExplainedMore
  <1> QED
    BY <1>2, SaySays

LEMMA WrapExplained ==
  ASSUME TypeOK, NEW j \in Jobs, NEW head, NEW says, NEW quote \in SUBSET Quotable,
         Wrap(j, head, says, quote), Explained(message.says, quoted[j], blame[j]),
         NEW who, who \subseteq blame'[j], Explained(says, {}, who), blame[j] \subseteq blame'[j]
  PROVE  message'.head = head /\ Explained(message'.says, quoted'[j], blame'[j])
  <1> DEFINE text == message.says \cup says
             all == quoted[j] \cup quote
  <1>1. Say(j, head, text, all)
    BY DEF Wrap
  <1>2. all \in SUBSET Quotable
    BY DEF TypeOK
  <1>3. Explained(text, quoted[j] \cup {}, blame[j] \cup who)
    BY ExplainedTogether
  <1>4. quoted[j] \cup {} \subseteq all
    OBVIOUS
  <1> HIDE DEF text, all
  <1>5. Explained(text \cup all, all, blame[j] \cup who)
    BY <1>2, <1>3, <1>4, QuotedIsExplained
  <1>6. blame[j] \cup who \subseteq blame'[j]
    OBVIOUS
  <1>7. Explained(text \cup all, all, blame'[j])
    BY <1>5, <1>6, ExplainedMore
  <1>8. /\ message'.head = head /\ message'.says = text \cup all
        /\ quoted'[j] = all
    BY <1>1, SaySays
  <1> QED
    BY <1>7, <1>8

\* What a step of asking makes of the error, and of whose fault it was.
LEMMA AskMessages ==
  ASSUME TypeOK, ReactsError, NEW j \in Jobs, AskStep(j)
  PROVE  /\ pc'[j] \in {"repairing", "failed_run"} =>
              Explained(message'.says, quoted'[j], blame'[j])
         /\ pc'[j] = "failed_run" => message'.head = "react"
         /\ pc'[j] = "incident" => Excused(quoted'[j], blame'[j])
         /\ \A k \in Jobs \ {j} : blame'[k] = blame[k] /\ quoted'[k] = quoted[k]
  <1>1. ASSUME NEW label, Goto(j, label)
        PROVE  pc'[j] = label
    BY <1>1 DEF Goto, TypeOK
  <1>2. \A trouble : \A quote \in Quotes(trouble) : quote \in SUBSET Quotable
    BY DEF Quotes
  <1>3. {} \in SUBSET Quotable
    OBVIOUS
  <1>4. ASSUME NEW errors, Fail(j, errors), errors \subseteq GenerationErrors \cup QueryErrors
        PROVE  /\ Explained(message'.says, quoted'[j], blame'[j]) /\ pc'[j] = "repairing"
               /\ \A k \in Jobs \ {j} : blame'[k] = blame[k] /\ quoted'[k] = quoted[k]
    <2>1. PICK e \in errors : \E quote \in Quotes(e.trouble) :
            /\ Say(j, e.head, e.says, quote)
            /\ Blamed(j, e.trouble)
            /\ Goto(j, "repairing")
      BY <1>4 DEF Fail
    <2>2. PICK quote \in Quotes(e.trouble) :
            /\ Say(j, e.head, e.says, quote)
            /\ Blamed(j, e.trouble)
            /\ Goto(j, "repairing")
      BY <2>1
    <2>3. Explained(e.says, {}, {Fault(e.trouble)})
      BY <1>4, ErrorsAreExplained
    <2>4. {Fault(e.trouble)} \subseteq blame'[j] /\ \A k \in Jobs \ {j} : blame'[k] = blame[k]
      BY <2>2, BlamedBlames
    <2>5. Explained(message'.says, quoted'[j], blame'[j])
      BY <1>2, <2>2, <2>3, <2>4, SayExplained
    <2>6. \A k \in Jobs \ {j} : quoted'[k] = quoted[k]
      BY <2>2, SaySays
    <2> QED
      BY <1>1, <2>2, <2>4, <2>5, <2>6
  <1>5. ASSUME NEW type, Enqueue(j, type)
        PROVE  /\ pc'[j] \notin {"repairing", "failed_run"}
               /\ pc'[j] = "incident" => type \in INFRA_ERROR_TYPES
    BY <1>1, <1>5 DEF Enqueue
  <1>6. CASE Generate(j)
    <2>1. CASE Fail(j, GenerationErrors)
      BY <1>4, <2>1
    <2>2. CASE Goto(j, "generated") /\ UNCHANGED <<blame, quoted, message>>
      BY <1>1, <2>2
    <2> QED
      BY <1>6, <2>1, <2>2 DEF Generate
  <1>7. CASE Query(j)
    <2>1. CASE Fail(j, QueryErrors)
      BY <1>4, <2>1
    <2>2. CASE Goto(j, "answered") /\ UNCHANGED <<blame, quoted, message>>
      BY <1>1, <2>2
    <2> QED
      BY <1>7, <2>1, <2>2 DEF Query
  <1>8. CASE ReactRepair(j)
    <2>1. pc[j] = "repairing" /\ Explained(message.says, quoted[j], blame[j])
      BY <1>8 DEF ReactRepair, ReactsError
    <2>2. ASSUME NEW head, NEW says, NEW quote \in SUBSET Quotable, Wrap(j, head, says, quote)
          PROVE  \A k \in Jobs \ {j} : quoted'[k] = quoted[k]
      BY <2>2, SaySays DEF Wrap
    <2>3. CASE GiveUp(j)
      <3>1. pc'[j] = "failed_run"
        BY <1>1, <2>3 DEF GiveUp
      <3>2. /\ message'.head = "react" /\ Explained(message'.says, quoted'[j], blame'[j])
            /\ \A k \in Jobs \ {j} : blame'[k] = blame[k] /\ quoted'[k] = quoted[k]
        <4>1. CASE Wrap(j, "react", {"budget exhausted"}, {}) /\ UNCHANGED blame
          <5>1. Explained({"budget exhausted"}, {}, {})
            BY TroublesAreExplained
          <5>2. blame[j] \subseteq blame'[j] /\ {} \subseteq blame'[j]
            BY <4>1
          <5>3. message'.head = "react" /\ Explained(message'.says, quoted'[j], blame'[j])
            <6>1. ASSUME NEW says, Wrap(j, "react", says, {}), Explained(says, {}, {})
                  PROVE  message'.head = "react" /\ Explained(message'.says, quoted'[j], blame'[j])
              BY <1>3, <2>1, <5>2, <6>1, WrapExplained
            <6> QED
              BY <4>1, <5>1, <6>1
          <5> QED
            BY <1>3, <2>2, <4>1, <5>3
        <4>2. CASE \E t \in DOMAIN LlmTroubles : \E quote \in Quotes(t) :
                     Wrap(j, "react", chat_json(t), quote) /\ Blamed(j, t)
          <5>1. PICK t \in DOMAIN LlmTroubles : \E quote \in Quotes(t) :
                       Wrap(j, "react", chat_json(t), quote) /\ Blamed(j, t)
            BY <4>2
          <5>2. PICK quote \in Quotes(t) : Wrap(j, "react", chat_json(t), quote) /\ Blamed(j, t)
            BY <5>1
          <5>3. Explained(chat_json(t), {}, {Fault(t)})
            BY TroublesAreExplained
          <5>4. /\ blame[j] \subseteq blame'[j] /\ {Fault(t)} \subseteq blame'[j]
                /\ \A k \in Jobs \ {j} : blame'[k] = blame[k]
            BY <5>2, BlamedBlames
          <5> QED
            BY <1>2, <2>1, <2>2, <5>2, <5>3, <5>4, WrapExplained
        <4>3. CASE \E quote \in Quotes("bad_plan") :
                     Wrap(j, "react", {}, quote) /\ Blamed(j, "bad_plan")
          <5>1. PICK quote \in Quotes("bad_plan") :
                       Wrap(j, "react", {}, quote) /\ Blamed(j, "bad_plan")
            BY <4>3
          <5>2. Explained({}, {}, {})
            BY TroublesAreExplained
          <5>3. /\ blame[j] \subseteq blame'[j] /\ {} \subseteq blame'[j]
                /\ \A k \in Jobs \ {j} : blame'[k] = blame[k]
            BY <5>1, BlamedBlames
          <5> QED
            BY <1>2, <2>1, <2>2, <5>1, <5>2, <5>3, WrapExplained
        <4> QED
          BY <2>3, <4>1, <4>2, <4>3 DEF GiveUp
      <3> QED
        BY <3>1, <3>2
    <2>4. CASE Retry(j)
      <3>1. pc'[j] = "repairing"
        BY <2>1, <2>4 DEF Retry
      <3>2. /\ Explained(message'.says, quoted'[j], blame'[j])
            /\ \A k \in Jobs \ {j} : blame'[k] = blame[k] /\ quoted'[k] = quoted[k]
        <4>1. Explained({}, {}, {})
          BY TroublesAreExplained
        <4>2. CASE Wrap(j, "previous", {}, {}) /\ UNCHANGED blame
          <5>1. blame[j] \subseteq blame'[j] /\ {} \subseteq blame'[j]
            BY <4>2
          <5> QED
            BY <1>3, <2>1, <2>2, <4>1, <4>2, <5>1, WrapExplained
        <4>3. CASE \E quote \in Quotes("bad_plan") :
                     Say(j, "repaired", {}, quote) /\ Blamed(j, "bad_plan")
          <5>1. PICK quote \in Quotes("bad_plan") :
                       Say(j, "repaired", {}, quote) /\ Blamed(j, "bad_plan")
            BY <4>3
          <5>2. {} \subseteq blame'[j] /\ \A k \in Jobs \ {j} : blame'[k] = blame[k]
            BY <5>1, BlamedBlames
          <5>3. quote \in SUBSET Quotable
            BY <1>2, <5>1
          <5>4. Explained(message'.says, quoted'[j], blame'[j])
            BY <4>1, <5>1, <5>2, <5>3, SayExplained
          <5>5. \A k \in Jobs \ {j} : quoted'[k] = quoted[k]
            BY <5>1, SaySays
          <5> QED
            BY <5>2, <5>4, <5>5
        <4> QED
          BY <2>4, <4>2, <4>3 DEF Retry
      <3> QED
        BY <3>1, <3>2
    <2>5. CASE Repaired(j)
      BY <1>1, <2>5 DEF Repaired, TypeOK
    <2> QED
      BY <1>8, <2>3, <2>4, <2>5 DEF ReactRepair
  <1>9. CASE Report(j)
    <2>1. /\ message.head = "react" /\ UNCHANGED <<blame, quoted>>
          /\ Explained(message.says, quoted[j], blame[j])
      BY <1>9 DEF Report, ReactsError
    <2>2. Stage("react") = "stage other"
      BY DEF Stage
    <2>3. Enqueue(j, error_type_for_message(message.says \cup {"stage other"}))
      BY <1>9, <2>1, <2>2 DEF Report
    <2>4. Explained(message.says \cup {"stage other"}, quoted[j], blame[j])
      BY <2>1 DEF Explained, Stages
    <2>5. pc'[j] = "incident" => Excused(quoted[j], blame[j])
      BY <1>5, <2>3, <2>4, ExplainedIncidents
    <2> QED
      BY <1>5, <2>1, <2>3, <2>5
  <1>10. ASSUME NEW class, Thrown(j, class, "stage internal"), class = "timeout" \/ class = "other"
         PROVE  /\ pc'[j] \notin {"repairing", "failed_run"}
                /\ pc'[j] = "incident" => Excused(quoted'[j], blame'[j])
                /\ \A k \in Jobs \ {j} : quoted'[k] = quoted[k]
    <2>1. PICK quote \in SUBSET Quotable :
            /\ Enqueue(j, classify_error(class, quote, "stage internal"))
            /\ quoted' = [quoted EXCEPT ![j] = quote]
      BY <1>10 DEF Thrown
    <2>2. quoted'[j] = quote /\ \A k \in Jobs \ {j} : quoted'[k] = quoted[k]
      BY <2>1 DEF TypeOK
    <2>3. ASSUME classify_error(class, quote, "stage internal") \in INFRA_ERROR_TYPES
          PROVE  Excused(quote, blame'[j])
      <3>1. CASE class = "timeout"
        <4> DEFINE text == {"timeout"} \cup {"stage internal"}
        <4>1. Explained(text, {"timeout"}, {})
          BY DEF Explained, Stages
        <4>2. error_type_for_message(text) \in INFRA_ERROR_TYPES
          BY <2>3, <3>1 DEF classify_error
        <4>3. Excused({"timeout"}, {})
          BY <4>1, <4>2, ExplainedIncidents
        <4> QED
          BY <4>3 DEF Excused, Incidental
      <3>2. CASE class = "other"
        <4> DEFINE text == quote \cup {"stage internal"}
        <4>1. Explained(text, quote, {})
          BY QuotesAreExplained DEF Explained, Stages
        <4>2. error_type_for_message(text) \in INFRA_ERROR_TYPES
          BY <2>3, <3>2 DEF classify_error
        <4>3. Excused(quote, {})
          BY <4>1, <4>2, ExplainedIncidents
        <4> QED
          BY <4>3 DEF Excused
      <3> QED
        BY <1>10, <3>1, <3>2
    <2> QED
      BY <1>5, <2>1, <2>2, <2>3
  <1>11. CASE Raise(j)
    <2>1. PICK class \in {"timeout", "other"} : Thrown(j, class, "stage internal")
      BY <1>11 DEF Raise
    <2>2. \A k \in Jobs \ {j} : blame'[k] = blame[k]
      BY <1>11, BlamedBlames DEF Raise
    <2> QED
      BY <1>10, <2>1, <2>2
  <1>12. CASE Unserializable(j)
    <2>1. CASE Thrown(j, "other", "stage serialization") /\ blame' = [blame EXCEPT ![j] = {"infra"}]
      <3>1. "infra" \in blame'[j] /\ \A k \in Jobs \ {j} : blame'[k] = blame[k]
        BY <2>1 DEF TypeOK
      <3>2. PICK quote \in SUBSET Quotable :
              /\ Enqueue(j, classify_error("other", quote, "stage serialization"))
              /\ quoted' = [quoted EXCEPT ![j] = quote]
        BY <2>1 DEF Thrown
      <3>3. \A k \in Jobs \ {j} : quoted'[k] = quoted[k]
        BY <3>2 DEF TypeOK
      <3> QED
        BY <1>5, <3>1, <3>2, <3>3 DEF Excused
    <2>2. CASE Thrown(j, "other", "stage internal") /\ blame' = [blame EXCEPT ![j] = {"skill"}]
      <3>1. \A k \in Jobs \ {j} : blame'[k] = blame[k]
        BY <2>2 DEF TypeOK
      <3> QED
        BY <1>10, <2>2, <3>1
    <2> QED
      BY <1>12, <2>1, <2>2 DEF Unserializable
  <1> QED
    BY <1>6, <1>7, <1>8, <1>9, <1>11, <1>12 DEF AskStep, RunStep

LEMMA NextFailure == TypeOK /\ FailureInv /\ [Next]_vars => FailureInv'
  <1> SUFFICES ASSUME TypeOK, FailureInv, [Next]_vars
               PROVE  FailureInv'
    OBVIOUS
  <1>1. CASE UNCHANGED vars \/ OtherCommit
    <2>1. UNCHANGED <<pc, blame, quoted, message>>
      BY <1>1 DEF vars, OtherCommit, asking
    <2> QED
      BY <2>1 DEF FailureInv, OneRun, ReactsError, SkillFailureIsLearned
  <1>2. ASSUME NEW j \in Jobs, HandlerStep(j)
        PROVE  FailureInv'
    <2>1. UNCHANGED <<blame, quoted, message>>
      BY <1>2 DEF HandlerStep, Evolve, Propose, ProposeNothing, WriteFile, Refuse, EndProposal,
                  Fallback, Commit, Promote, Record, Complete, HandlerRaises, asking
    <2>2. pc' = pc \/ (pc[j] \in Evolving \cup {"pending"} /\ \E label \in Evolving \cup Ended : Goto(j, label))
      BY <1>2 DEF HandlerStep, Evolve, Propose, ProposeNothing, WriteFile, Refuse, EndProposal,
                  Fallback, Commit, Promote, Record, Complete, HandlerRaises, At, Evolving, Ended
    <2>3. CASE pc' = pc
      BY <2>1, <2>3 DEF FailureInv, OneRun, ReactsError, SkillFailureIsLearned
    <2>4. ASSUME NEW label \in Evolving \cup Ended, Goto(j, label), pc[j] \in Evolving \cup {"pending"}
          PROVE  FailureInv'
      <3>1. label \in Labels \ {"incident"} /\ label \notin Running /\ pc[j] # "incident"
        BY <2>4, LabelFacts DEF Labels, Evolving, Ended, Running
      <3>2. OneRun'
        BY <2>4, <3>1, RunMoves DEF FailureInv
      <3>3. SkillFailureIsLearned'
        BY <2>1, <2>4, <3>1, MoveKeepsLearned DEF FailureInv
      <3>4. ReactsError'
        BY <2>1, <2>4, <3>1 DEF FailureInv, ReactsError, Goto, TypeOK, Running
      <3> QED
        BY <3>2, <3>3, <3>4 DEF FailureInv
    <2> QED
      BY <2>2, <2>3, <2>4
  <1>3. ASSUME NEW j \in Jobs, AskStep(j)
        PROVE  FailureInv'
    <2>1. PICK label \in AskLabels : Goto(j, label)
      BY <1>3, AskSteps
    <2>2. pc[j] \in {"new", "answered"} \cup Running /\ pc[j] # "incident"
      BY <1>3, AskSteps DEF Running
    <2>3. OneRun'
      <3>1. label \in Running => pc[j] \in Running \/ \A k \in Jobs : pc[k] \notin Running
        <4>1. CASE Generate(j)
          BY <4>1 DEF Generate
        <4>2. CASE Unserializable(j)
          <5>1. pc'[j] \in {"incident", "pending"} /\ pc'[j] = label
            BY <4>2, <2>1 DEF Unserializable, Thrown, Enqueue, Goto, TypeOK
          <5> QED
            BY <5>1 DEF Running
        <4>3. CASE RunStep(j) \/ Raise(j)
          BY <4>3 DEF RunStep, Query, ReactRepair, Report, Raise, Running
        <4> QED
          BY <1>3, <4>1, <4>2, <4>3 DEF AskStep
      <3> QED
        BY <2>1, <3>1, RunMoves, LabelFacts DEF FailureInv
    <2>4. ReactsError'
      <3>1. /\ pc'[j] \in {"repairing", "failed_run"} =>
                  Explained(message'.says, quoted'[j], blame'[j])
            /\ pc'[j] = "failed_run" => message'.head = "react"
        BY <1>3, AskMessages DEF FailureInv
      <3>2. \A k \in Jobs \ {j} : pc'[k] \notin {"repairing", "failed_run"}
        <4>1. \A k \in Jobs \ {j} : pc[k] \notin Running
          <5>1. CASE Generate(j) \/ Unserializable(j)
            BY <5>1 DEF Generate, Unserializable
          <5>2. CASE RunStep(j) \/ Raise(j)
            <6>1. pc[j] \in Running
              BY <5>2 DEF RunStep, Query, ReactRepair, Report, Raise, Running
            <6> QED
              BY <6>1 DEF FailureInv, OneRun
          <5> QED
            BY <1>3, <5>1, <5>2 DEF AskStep
        <4> QED
          BY <2>1, <4>1 DEF Goto, TypeOK, Running
      <3> QED
        BY <3>1, <3>2 DEF ReactsError
    <2>5. SkillFailureIsLearned'
      <3>1. \A k \in Jobs \ {j} : blame'[k] = blame[k] /\ quoted'[k] = quoted[k] /\ pc'[k] = pc[k]
        <4>1. \A k \in Jobs \ {j} : blame'[k] = blame[k] /\ quoted'[k] = quoted[k]
          BY <1>3, AskMessages DEF FailureInv
        <4> QED
          BY <2>1, <4>1 DEF Goto, TypeOK
      <3>2. pc'[j] = "incident" => Excused(quoted'[j], blame'[j])
        BY <1>3, AskMessages DEF FailureInv
      <3> QED
        BY <3>1, <3>2 DEF FailureInv, SkillFailureIsLearned, Excused
    <2> QED
      BY <2>3, <2>4, <2>5 DEF FailureInv
  <1> QED
    BY <1>1, <1>2, <1>3 DEF Next

\* Whatever goes wrong in whatever order and however often it is repaired: a failure
\* that the skill alone is to blame for is filed as an incident only if its text quotes
\* "serialization", or a time-out and "model". What else a text quotes makes no
\* difference, nor does what react_repair says of its own.
THEOREM SkillFailuresAreLearned == Spec => []SkillFailureIsLearned
  <1>1. Init => TypeOK /\ FailureInv
    BY InitTypeOK, InitFailure
  <1>2. TypeOK /\ FailureInv /\ [Next]_vars => (TypeOK /\ FailureInv)'
    BY NextTypeOK, NextFailure
  <1>3. FailureInv => SkillFailureIsLearned
    BY DEF FailureInv
  <1> QED
    BY <1>1, <1>2, <1>3, PTL DEF Spec

----------------------------------------------------------------------------
\* How many more steps a question takes, at most: two for each attempt at a repair,
\* one for each file that is proposed and one for each that is recorded.

HandlerSteps == Cardinality(Paths) + MAX_MUTATION_FILES + 7

AttemptSteps == 2 * (REACT_MAX_ATTEMPTS - attempts)

Unrecorded == Cardinality(changed \ recorded)

StepsLeft(j) ==
  CASE pc[j] = "new"          -> HandlerSteps + 2 * REACT_MAX_ATTEMPTS + 5
    [] pc[j] = "generated"    -> HandlerSteps + AttemptSteps + 4
    [] pc[j] = "repairing"    -> HandlerSteps + AttemptSteps + 3
    [] pc[j] = "failed_run"   -> HandlerSteps + 1
    [] pc[j] = "answered"     -> HandlerSteps + 1
    [] pc[j] = "pending"      -> HandlerSteps
    [] pc[j] = "evolving"     -> Cardinality(Paths) + MAX_MUTATION_FILES + 6
    [] pc[j] = "writing"      -> Cardinality(Paths) + left + 5
    [] pc[j] = "falling_back" -> Cardinality(Paths) + 4
    [] pc[j] = "committing"   -> Cardinality(Paths) + 3
    [] pc[j] = "evaluating"   -> Cardinality(Paths) + 2
    [] pc[j] = "recording"    -> Unrecorded + 1
    [] pc[j] \in {"incident", "rejected", "completed", "failed"} -> 0

\* Whoever is with the learner is the job it claimed last.
OneJob == \A j \in Jobs : pc[j] \in Evolving => j = job

LEMMA NextOneJob == TypeOK /\ OneJob /\ [Next]_vars => OneJob'
  <1> SUFFICES ASSUME TypeOK, OneJob, [Next]_vars
               PROVE  OneJob'
    OBVIOUS
  <1>1. CASE UNCHANGED vars
    BY <1>1 DEF vars, branch, OneJob
  <1>2. CASE OtherCommit
    BY <1>2 DEF OtherCommit, branch, OneJob
  <1>3. ASSUME NEW j \in Jobs, AskStep(j)
        PROVE  OneJob'
    <2>1. UNCHANGED job
      BY <1>3, AskSteps DEF branch
    <2>2. PICK label \in AskLabels : Goto(j, label)
      BY <1>3, AskSteps
    <2>3. pc'[j] \notin Evolving /\ \A k \in Jobs \ {j} : pc'[k] = pc[k]
      BY <2>2, LabelFacts, GotoTypes DEF TypeOK
    <2> QED
      BY <2>1, <2>3 DEF OneJob
  <1>4. ASSUME NEW j \in Jobs, HandlerStep(j)
        PROVE  OneJob'
    <2>1. CASE Evolve(j)
      BY <2>1 DEF Evolve, Goto, TypeOK, OneJob
    <2>2. CASE ~Evolve(j)
      <3>1. j = job /\ UNCHANGED job
        BY <1>4, <2>2 DEF HandlerStep, At, branch, Propose, ProposeNothing, WriteFile, Refuse,
           EndProposal, Fallback, Commit, Promote, Record, Complete, HandlerRaises
      <3>2. \A k \in Jobs \ {j} : pc'[k] = pc[k]
        BY <1>4, <2>2 DEF HandlerStep, Goto, TypeOK, Propose, ProposeNothing, WriteFile, Refuse,
           EndProposal, Fallback, Commit, Promote, Record, Complete, HandlerRaises
      <3> QED
        BY <3>1, <3>2 DEF OneJob
    <2> QED
      BY <2>1, <2>2
  <1> QED
    BY <1>1, <1>2, <1>3, <1>4 DEF Next

\* The counts are numbers.
LEMMA CountTypes ==
  ASSUME TypeOK
  PROVE  /\ Cardinality(Paths) \in Nat /\ MAX_MUTATION_FILES \in Nat /\ HandlerSteps \in Nat
         /\ HandlerSteps = Cardinality(Paths) + MAX_MUTATION_FILES + 7
         /\ Unrecorded \in Nat /\ Unrecorded <= Cardinality(Paths)
         /\ REACT_MAX_ATTEMPTS \in Nat /\ attempts \in Nat /\ attempts <= REACT_MAX_ATTEMPTS
         /\ left \in Nat /\ left <= MAX_MUTATION_FILES
  <1>1. IsFiniteSet(Paths) /\ changed \ recorded \in SUBSET Paths
    BY LearningAssumption DEF TypeOK
  <1>2. Cardinality(Paths) \in Nat
    BY <1>1, FS_CardinalityType
  <1>3. Unrecorded \in Nat /\ Unrecorded <= Cardinality(Paths)
    BY <1>1, FS_Subset, FS_CardinalityType DEF Unrecorded
  <1> QED
    BY <1>2, <1>3, LearningAssumption DEF TypeOK, HandlerSteps

\* The steps that are left are a number, and no more than there are for a question
\* that is new.
LEMMA StepsType ==
  ASSUME TypeOK, NEW j \in Jobs
  PROVE  StepsLeft(j) \in 0..(HandlerSteps + 2 * REACT_MAX_ATTEMPTS + 5)
  <1>1. pc[j] \in Labels
    BY DEF TypeOK
  <1>2. AttemptSteps \in Nat /\ AttemptSteps <= 2 * REACT_MAX_ATTEMPTS
    BY CountTypes DEF AttemptSteps
  <1>3. StepsLeft(j) \in Nat /\ StepsLeft(j) <= HandlerSteps + 2 * REACT_MAX_ATTEMPTS + 5
    <2>1. CASE pc[j] \in {"new", "pending", "answered"} \cup Running
      BY <1>2, <2>1, CountTypes DEF StepsLeft, Running
    <2>2. CASE pc[j] \in Evolving
      BY <2>2, CountTypes DEF StepsLeft, Evolving
    <2>3. CASE pc[j] \in {"incident", "rejected", "completed", "failed"}
      BY <2>3, CountTypes DEF StepsLeft
    <2> QED
      BY <1>1, <2>1, <2>2, <2>3 DEF Labels
  <1> QED
    BY <1>3, CountTypes

\* Where a step of asking takes the question, and what it makes of the attempts.
LEMMA AskMoves ==
  ASSUME TypeOK, OneRun, NEW j \in Jobs, AskStep(j)
  PROVE  /\ \/ pc[j] = "new" /\ pc'[j] \in {"repairing", "generated"} /\ attempts' = 0
            \/ pc[j] = "generated" /\ pc'[j] \in {"repairing", "answered"} /\ attempts' = attempts
            \/ /\ pc[j] = "repairing" /\ pc'[j] \in {"repairing", "generated"}
               /\ attempts < REACT_MAX_ATTEMPTS /\ attempts' = attempts + 1
            \/ pc[j] = "repairing" /\ pc'[j] = "failed_run"
            \/ pc[j] \in Running \cup {"answered"} /\ pc'[j] \in {"incident", "pending"}
         /\ \A k \in Jobs \ {j} : pc[k] \in Running => attempts' = attempts
  <1> USE DEF TypeOK
  <1>1. ASSUME NEW type, Enqueue(j, type)
        PROVE  pc'[j] \in {"incident", "pending"}
    BY <1>1 DEF Enqueue, Goto
  <1>2. ASSUME pc[j] \in Running
        PROVE  \A k \in Jobs \ {j} : pc[k] \notin Running
    BY <1>2 DEF OneRun
  <1>3. CASE Generate(j)
    BY <1>3 DEF Generate, Fail, Goto
  <1>4. CASE Query(j)
    BY <1>4 DEF Query, Fail, Goto
  <1>5. CASE ReactRepair(j)
    <2>1. pc[j] = "repairing" /\ CountAttempt
      BY <1>5 DEF ReactRepair
    <2>2. \A k \in Jobs \ {j} : pc[k] \notin Running
      BY <2>1, <1>2 DEF Running
    <2>3. CASE GiveUp(j)
      BY <2>1, <2>2, <2>3 DEF GiveUp, Goto
    <2>4. CASE Retry(j) \/ Repaired(j)
      BY <2>1, <2>2, <2>4 DEF Retry, Repaired, CountAttempt, Goto
    <2> QED
      BY <1>5, <2>3, <2>4 DEF ReactRepair
  <1>6. CASE Report(j) \/ Raise(j)
    <2>1. pc[j] \in Running
      BY <1>6 DEF Report, Raise, Running
    <2>2. pc'[j] \in {"incident", "pending"}
      BY <1>6, <1>1 DEF Report, Raise, Thrown
    <2> QED
      BY <2>1, <2>2, <1>2
  <1>7. CASE Unserializable(j)
    BY <1>7, <1>1 DEF Unserializable, Thrown
  <1> QED
    BY <1>3, <1>4, <1>5, <1>6, <1>7 DEF AskStep, RunStep

\* A question that stays where it is has as many steps left as before, if what is
\* counted for it stays.
LEMMA SameSteps ==
  ASSUME NEW j \in Jobs, pc'[j] = pc[j],
         pc[j] \in Running => attempts' = attempts,
         pc[j] \in Evolving => UNCHANGED <<left, changed, recorded>>
  PROVE  StepsLeft(j)' = StepsLeft(j)
  <1>1. pc[j] \in {"generated", "repairing"} => AttemptSteps' = AttemptSteps
    BY DEF Running, AttemptSteps
  <1>2. pc[j] = "writing" => left' = left
    BY DEF Evolving
  <1>3. pc[j] = "recording" => Unrecorded' = Unrecorded
    BY DEF Evolving, Unrecorded
  <1> QED
    BY <1>1, <1>2, <1>3 DEF StepsLeft, HandlerSteps

LEMMA AskingRunsOut ==
  ASSUME TypeOK, TypeOK', OneRun, NEW j \in Jobs, AskStep(j)
  PROVE  /\ StepsLeft(j)' < StepsLeft(j)
         /\ \A k \in Jobs \ {j} : StepsLeft(k)' = StepsLeft(k)
  <1>1. StepsLeft(j)' < StepsLeft(j)
    <2>1. AttemptSteps = 2 * (REACT_MAX_ATTEMPTS - attempts)
      BY DEF AttemptSteps
    <2>2. AttemptSteps' = 2 * (REACT_MAX_ATTEMPTS - attempts')
      BY DEF AttemptSteps
    <2>3. attempts' \in Nat /\ HandlerSteps' = HandlerSteps
      BY DEF TypeOK, HandlerSteps
    <2> QED
      BY <2>1, <2>2, <2>3, AskMoves, CountTypes DEF StepsLeft, Running
  <1>2. ASSUME NEW k \in Jobs \ {j}
        PROVE  StepsLeft(k)' = StepsLeft(k)
    <2>1. pc'[k] = pc[k]
      <3>1. PICK label \in AskLabels : Goto(j, label)
        BY AskSteps
      <3> QED
        BY <3>1 DEF Goto, TypeOK
    <2>2. UNCHANGED <<left, changed, recorded>>
      BY AskSteps DEF proposal
    <2> QED
      BY <2>1, <2>2, AskMoves, SameSteps
  <1> QED
    BY <1>1, <1>2

\* A file that is recorded is one less to record.
LEMMA RecordCounts ==
  ASSUME TypeOK, NEW f \in changed \ recorded, recorded' = recorded \cup {f}, changed' = changed
  PROVE  Unrecorded' < Unrecorded
  <1>1. IsFiniteSet(changed \ recorded)
    <2>1. changed \ recorded \in SUBSET Paths
      BY DEF TypeOK
    <2> QED
      BY <2>1, LearningAssumption, FS_Subset
  <1>2. changed' \ recorded' = (changed \ recorded) \ {f}
    OBVIOUS
  <1>3. Cardinality((changed \ recorded) \ {f}) = Cardinality(changed \ recorded) - 1
    BY <1>1, FS_RemoveElement
  <1>4. Unrecorded \in Nat
    BY CountTypes
  <1> QED
    BY <1>2, <1>3, <1>4 DEF Unrecorded

LEMMA HandlerRunsOut ==
  ASSUME TypeOK, TypeOK', OneJob, NEW j \in Jobs, HandlerStep(j)
  PROVE  /\ StepsLeft(j)' < StepsLeft(j)
         /\ \A k \in Jobs \ {j} : StepsLeft(k)' = StepsLeft(k)
  <1>1. Unrecorded' \in Nat /\ Unrecorded' <= Cardinality(Paths) /\ HandlerSteps' = HandlerSteps
    <2>1. changed' \ recorded' \in SUBSET Paths
      BY DEF TypeOK
    <2>2. IsFiniteSet(changed' \ recorded') /\ Cardinality(changed' \ recorded') <= Cardinality(Paths)
      BY <2>1, FS_Subset, LearningAssumption
    <2> QED
      BY <2>2, FS_CardinalityType DEF Unrecorded, HandlerSteps
  <1>2. /\ \A k \in Jobs \ {j} : pc'[k] = pc[k] /\ pc[k] \notin Evolving
        /\ UNCHANGED attempts
    <2>1. CASE Evolve(j)
      BY <2>1 DEF Evolve, Goto, TypeOK, asking
    <2>2. CASE ~Evolve(j)
      <3>1. j = job /\ UNCHANGED attempts
        BY <2>2 DEF HandlerStep, At, asking, Propose, ProposeNothing, WriteFile, Refuse,
           EndProposal, Fallback, Commit, Promote, Record, Complete, HandlerRaises
      <3>2. \A k \in Jobs \ {j} : pc'[k] = pc[k]
        BY <2>2 DEF HandlerStep, Goto, TypeOK, Propose, ProposeNothing, WriteFile, Refuse,
           EndProposal, Fallback, Commit, Promote, Record, Complete, HandlerRaises
      <3> QED
        BY <3>1, <3>2 DEF OneJob
    <2> QED
      BY <2>1, <2>2
  <1>3. \A k \in Jobs \ {j} : StepsLeft(k)' = StepsLeft(k)
    BY <1>2, SameSteps
  <1>4. StepsLeft(j)' < StepsLeft(j)
    <2> USE <1>1, CountTypes DEF StepsLeft
    <2>1. CASE Evolve(j)
      BY <2>1 DEF Evolve, Goto, TypeOK
    <2>2. CASE Propose(j)
      BY <2>2 DEF Propose, At, Goto, TypeOK
    <2>3. CASE ProposeNothing(j)
      BY <2>3 DEF ProposeNothing, At, Goto, TypeOK
    <2>4. CASE WriteFile(j)
      BY <2>4 DEF WriteFile, At, TypeOK
    <2>5. CASE Refuse(j)
      BY <2>5 DEF Refuse, At, Goto, TypeOK
    <2>6. CASE EndProposal(j)
      BY <2>6 DEF EndProposal, At, Goto, TypeOK
    <2>7. CASE Fallback(j)
      BY <2>7 DEF Fallback, At, Goto, TypeOK
    <2>8. CASE Commit(j)
      BY <2>8 DEF Commit, At, Goto, TypeOK
    <2>9. CASE Promote(j)
      BY <2>9 DEF Promote, At, Goto, TypeOK
    <2>10. CASE Record(j)
      <3>1. Unrecorded' < Unrecorded
        BY <2>10, RecordCounts DEF Record, proposal
      <3> QED
        BY <2>10, <3>1 DEF Record, At
    <2>11. CASE Complete(j)
      BY <2>11 DEF Complete, At, Goto, TypeOK
    <2>12. CASE HandlerRaises(j)
      BY <2>12 DEF HandlerRaises, Goto, TypeOK, Evolving
    <2> QED
      BY <2>1, <2>2, <2>3, <2>4, <2>5, <2>6, <2>7, <2>8, <2>9, <2>10, <2>11, <2>12
         DEF HandlerStep
  <1> QED
    BY <1>3, <1>4

\* Every step of a question, of its repairs or of the learner's handler, brings it
\* nearer to its end, and no step of another question takes it away from it: whatever
\* the model proposes and whatever fails, it takes no more steps than StepsLeft says.
THEOREM StepsRunOut ==
  Spec => /\ [](\A j \in Jobs : StepsLeft(j) \in 0..(HandlerSteps + 2 * REACT_MAX_ATTEMPTS + 5))
          /\ [][\A j \in Jobs : /\ StepsLeft(j)' <= StepsLeft(j)
                                /\ AskStep(j) \/ HandlerStep(j) => StepsLeft(j)' < StepsLeft(j)]_vars
  <1> DEFINE InBounds ==
               \A j \in Jobs : StepsLeft(j) \in 0..(HandlerSteps + 2 * REACT_MAX_ATTEMPTS + 5)
             RunOut ==
               \A j \in Jobs : /\ StepsLeft(j)' <= StepsLeft(j)
                               /\ AskStep(j) \/ HandlerStep(j) => StepsLeft(j)' < StepsLeft(j)
  <1>1. Init => TypeOK /\ FailureInv /\ OneJob
    <2>1. Init => OneJob
      BY DEF Init, OneJob, Evolving
    <2> QED
      BY <2>1, InitTypeOK, InitFailure
  <1>2. TypeOK /\ FailureInv /\ OneJob /\ [Next]_vars => (TypeOK /\ FailureInv /\ OneJob)'
    BY NextTypeOK, NextFailure, NextOneJob
  <1>3. TypeOK => InBounds
    BY StepsType
  <1>4. TypeOK' => InBounds'
    BY <1>3, PTL
  <1>5. TypeOK /\ TypeOK' /\ FailureInv /\ OneJob /\ Next => RunOut
    <2> SUFFICES ASSUME TypeOK, TypeOK', FailureInv, OneJob, Next
                 PROVE  RunOut
      OBVIOUS
    <2>1. OneRun /\ \A k \in Jobs : StepsLeft(k) \in Int
      BY StepsType, CountTypes DEF FailureInv
    <2>2. ASSUME NEW k \in Jobs, AskStep(k) \/ HandlerStep(k)
          PROVE  /\ StepsLeft(k)' < StepsLeft(k)
                 /\ \A i \in Jobs \ {k} : StepsLeft(i)' = StepsLeft(i)
      BY <2>1, <2>2, AskingRunsOut, HandlerRunsOut
    <2>3. CASE OtherCommit
      <3>1. \A k \in Jobs : StepsLeft(k)' = StepsLeft(k)
        BY <2>3, SameSteps DEF OtherCommit, asking, proposal
      <3>2. \A k \in Jobs : ~(AskStep(k) \/ HandlerStep(k))
        BY <2>1, <2>2, <3>1
      <3> QED
        BY <2>1, <3>1, <3>2
    <2>4. CASE \E k \in Jobs : AskStep(k) \/ HandlerStep(k)
      <3>1. PICK k \in Jobs : AskStep(k) \/ HandlerStep(k)
        BY <2>4
      <3>2. \A i \in Jobs : StepsLeft(i)' \in Int
        BY <1>4, CountTypes DEF InBounds, HandlerSteps
      <3> QED
        BY <2>1, <2>2, <3>1, <3>2
    <2> QED
      BY <2>3, <2>4 DEF Next
  <1> HIDE DEF InBounds, RunOut
  <1>6. Spec => []InBounds /\ [][RunOut]_vars
    BY <1>1, <1>2, <1>3, <1>5, PTL DEF Spec
  <1> QED
    BY <1>6 DEF InBounds, RunOut
=============================================================================
