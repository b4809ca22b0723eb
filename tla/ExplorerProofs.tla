---------------------------- MODULE ExplorerProofs ----------------------------
(****************************************************************************)
(* Proofs about Explorer: its type invariant and the safety invariants of   *)
(* the run, for any number of probes, artifacts, explorations and rounds,   *)
(* rounds that do not fit in the recursion limit included.                  *)
(****************************************************************************)
EXTENDS Explorer, TLAPS

\* Where the graph is in its round: how many nodes of it have run.
Node5(node) == CASE node = "plan" -> 0
                 [] node = "act" -> 1
                 [] node = "reflect" -> 2
                 [] node = "self_reflect" -> 3
                 [] node = "commit" -> 4

Running == {"plan", "act", "reflect", "self_reflect", "commit"}

\* The inductive invariant. Every round takes five supersteps and the graph is
\* in one of its rounds.
Counted == /\ pc \in Running => nodes = 5 * round_index + Node5(pc) /\ round_index < rounds
           /\ RoundsThatFitAreRun

\* A plan starts from a clean workspace, the first one perhaps from what failed
\* explorations left, but then nothing has been written yet.
Clean == /\ pc = "plan" => IF round_index = 0 THEN written = {} ELSE dirty = {}
         /\ RoundsAreCommitted

\* Each act node but the first of a plan has a reason to be the last one.
Acted == /\ pc = "plan" => stop_reason = None /\ acted <= 1
         /\ pc = "act" => acted <= 1 /\ (stop_reason = None => acted = 0)
         /\ pc \in {"reflect", "self_reflect", "commit"} => (stop_reason = None => acted <= 1)
         /\ acted <= 2

Inv == /\ TypeOK
       /\ Counted
       /\ Clean
       /\ Acted
       /\ ShortRunHasReason
       /\ OnlyReadOnlySent

LEMMA InitInv == Init => Inv
  <1> USE ExplorerAssumption
  <1> SUFFICES ASSUME Init PROVE Inv
    OBVIOUS
  <1> QED
    BY DEF Init, Inv, TypeOK, Counted, Clean, Acted, ShortRunHasReason, OnlyReadOnlySent,
           RoundsAreCommitted, RoundsThatFitAreRun, Ended, SQL, None, Results, Notes, Logs, Running

\* Only rounds that do not fit can take the graph to the limit: otherwise the
\* node after the n-th of a round is reached.
LEMMA GotoReaches ==
  ASSUME TypeOK, Counted, pc \in Running, NEW node, Goto(node)
  PROVE  /\ nodes' = nodes + 1
         /\ pc' = node \/ (pc' = "raised" /\ ~ 5 * rounds < RecursionLimit)
  <1>1. CASE nodes + 1 < RecursionLimit
    BY <1>1 DEF Goto
  <1>2. CASE ~ nodes + 1 < RecursionLimit
    <2>1. nodes' = nodes + 1 /\ (pc' = "raised" \/ (pc' = "raised" /\ ~ 5 * rounds < RecursionLimit))
      BY <1>2 DEF Goto
    <2>2. nodes <= 5 * round_index + 4 /\ round_index + 1 <= rounds
      BY DEF TypeOK, Counted, Running, Node5
    <2>3. 5 * round_index + 5 <= 5 * rounds
      BY <2>2 DEF TypeOK
    <2>4. ~ 5 * rounds < RecursionLimit
      BY <1>2, <2>2, <2>3, ExplorerAssumption DEF TypeOK
    <2> QED
      BY <2>1, <2>4
  <1> QED
    BY <1>1, <1>2

LEMMA NextInv == Inv /\ [Next]_vars => Inv'
  <1> SUFFICES ASSUME Inv, [Next]_vars
               PROVE  Inv'
    OBVIOUS
  <1> USE ExplorerAssumption DEF Inv, Ended, SQL, None, Results, Notes, Logs, Running
  <1>1. CASE UNCHANGED vars
    BY <1>1 DEF vars, graph, pool, workspace,
       TypeOK, Counted, Clean, Acted, ShortRunHasReason, OnlyReadOnlySent,
       RoundsAreCommitted, RoundsThatFitAreRun, Node5
  <1>2. CASE Begin
    BY <1>2 DEF Begin, pool, workspace,
       TypeOK, Counted, Clean, Acted, ShortRunHasReason, OnlyReadOnlySent,
       RoundsAreCommitted, RoundsThatFitAreRun, Node5
  <1>3. CASE PlanUnavailable
    <2>1. nodes' = nodes + 1 /\ (pc' = "end" \/ (pc' = "raised" /\ ~ 5 * rounds < RecursionLimit))
      BY <1>3, GotoReaches DEF PlanUnavailable
    <2>2. TypeOK'
      BY <1>3, <2>1 DEF PlanUnavailable, pool, workspace, TypeOK
    <2>3. Counted'
      BY <1>3, <2>1 DEF PlanUnavailable, pool, workspace, TypeOK, Counted, RoundsThatFitAreRun, Node5
    <2>4. Clean'
      BY <1>3, <2>1 DEF PlanUnavailable, pool, workspace, TypeOK, Clean, RoundsAreCommitted
    <2>5. Acted'
      BY <1>3, <2>1 DEF PlanUnavailable, pool, workspace, TypeOK, Acted
    <2>6. ShortRunHasReason' /\ OnlyReadOnlySent'
      BY <1>3, <2>1 DEF PlanUnavailable, pool, workspace, TypeOK, Counted, Acted, ShortRunHasReason, OnlyReadOnlySent
    <2> QED
      BY <2>2, <2>3, <2>4, <2>5, <2>6
  <1>4. CASE PlanNothing
    <2>1. CASE \A i \in Slots : probes[i] = None
      <3>1. nodes' = nodes + 1 /\ (pc' = "end" \/ (pc' = "raised" /\ ~ 5 * rounds < RecursionLimit))
        BY <1>4, <2>1, GotoReaches DEF PlanNothing
      <3>2. TypeOK'
        BY <1>4, <2>1, <3>1 DEF PlanNothing, pool, workspace, TypeOK
      <3>3. Counted'
        BY <1>4, <2>1, <3>1 DEF PlanNothing, pool, workspace, TypeOK, Counted, RoundsThatFitAreRun, Node5
      <3>4. Clean'
        BY <1>4, <2>1, <3>1 DEF PlanNothing, pool, workspace, TypeOK, Clean, RoundsAreCommitted
      <3>5. Acted'
        BY <1>4, <2>1, <3>1 DEF PlanNothing, pool, workspace, TypeOK, Acted
      <3>6. ShortRunHasReason' /\ OnlyReadOnlySent'
        BY <1>4, <2>1, <3>1 DEF PlanNothing, pool, workspace, TypeOK, Counted, Acted, ShortRunHasReason, OnlyReadOnlySent
      <3> QED
        BY <3>2, <3>3, <3>4, <3>5, <3>6
    <2>2. CASE ~ \A i \in Slots : probes[i] = None
      <3>1. nodes' = nodes + 1 /\ (pc' = "act" \/ (pc' = "raised" /\ ~ 5 * rounds < RecursionLimit))
        BY <1>4, <2>2, GotoReaches DEF PlanNothing, ToAct
      <3>2. TypeOK'
        BY <1>4, <2>2, <3>1 DEF PlanNothing, ToAct, workspace, TypeOK
      <3>3. Counted'
        BY <1>4, <2>2, <3>1 DEF PlanNothing, ToAct, workspace, TypeOK, Counted, RoundsThatFitAreRun, Node5
      <3>4. Clean'
        BY <1>4, <2>2, <3>1 DEF PlanNothing, ToAct, workspace, TypeOK, Clean, RoundsAreCommitted
      <3>5. Acted'
        BY <1>4, <2>2, <3>1 DEF PlanNothing, ToAct, workspace, TypeOK, Acted
      <3>6. ShortRunHasReason' /\ OnlyReadOnlySent'
        BY <1>4, <2>2, <3>1 DEF PlanNothing, ToAct, workspace, TypeOK, Counted, Acted, ShortRunHasReason, OnlyReadOnlySent
      <3> QED
        BY <3>2, <3>3, <3>4, <3>5, <3>6
    <2> QED
      BY <2>1, <2>2
  <1>5. CASE PlanProbes
    <2>1. nodes' = nodes + 1 /\ (pc' = "act" \/ (pc' = "raised" /\ ~ 5 * rounds < RecursionLimit))
      BY <1>5, GotoReaches DEF PlanProbes, ToAct
    <2>2. TypeOK'
      BY <1>5, <2>1 DEF PlanProbes, ToAct, workspace, TypeOK
    <2>3. Counted'
      BY <1>5, <2>1 DEF PlanProbes, ToAct, workspace, TypeOK, Counted, RoundsThatFitAreRun, Node5
    <2>4. Clean'
      BY <1>5, <2>1 DEF PlanProbes, ToAct, workspace, TypeOK, Clean, RoundsAreCommitted
    <2>5. Acted'
      BY <1>5, <2>1 DEF PlanProbes, ToAct, workspace, TypeOK, Acted
    <2>6. ShortRunHasReason' /\ OnlyReadOnlySent'
      BY <1>5, <2>1 DEF PlanProbes, ToAct, workspace, TypeOK, Counted, Acted, ShortRunHasReason, OnlyReadOnlySent
    <2> QED
      BY <2>2, <2>3, <2>4, <2>5, <2>6
  <1>6. ASSUME NEW i \in Slots, Probe(i)
        PROVE  Inv'
    BY <1>6 DEF Probe, Lint, RunProbe, RepairProbe, RunRepair, Thread, Move, graph, workspace,
       TypeOK, Counted, Clean, Acted, ShortRunHasReason, OnlyReadOnlySent,
       RoundsAreCommitted, RoundsThatFitAreRun, Node5
  <1>7. CASE Act
    <2>1. nodes' = nodes + 1 /\ (pc' = "reflect" \/ (pc' = "raised" /\ ~ 5 * rounds < RecursionLimit))
      BY <1>7, GotoReaches DEF Act
    <2> QED
      BY <1>7, <2>1 DEF Act, graph, pool,
         TypeOK, Counted, Clean, Acted, ShortRunHasReason, OnlyReadOnlySent,
         RoundsAreCommitted, RoundsThatFitAreRun, Node5
  <1>8. CASE Reflect
    <2>1. nodes' = nodes + 1 /\ (pc' = "self_reflect" \/ (pc' = "raised" /\ ~ 5 * rounds < RecursionLimit))
      BY <1>8, GotoReaches DEF Reflect
    <2> QED
      BY <1>8, <2>1 DEF Reflect, graph, pool, workspace,
         TypeOK, Counted, Clean, Acted, ShortRunHasReason, OnlyReadOnlySent,
         RoundsAreCommitted, RoundsThatFitAreRun, Node5
  <1>9. CASE SelfReflect
    <2>1. nodes' = nodes + 1 /\ (pc' = "commit" \/ (pc' = "raised" /\ ~ 5 * rounds < RecursionLimit))
      BY <1>9, GotoReaches DEF SelfReflect
    <2> QED
      BY <1>9, <2>1 DEF SelfReflect, graph, pool,
         TypeOK, Counted, Clean, Acted, ShortRunHasReason, OnlyReadOnlySent,
         RoundsAreCommitted, RoundsThatFitAreRun, Node5
  <1>10. CASE Commit
    <2>1. nodes' = nodes + 1 /\ (pc' = RouteAfterCommit(round_index + 1) \/ (pc' = "raised" /\ ~ 5 * rounds < RecursionLimit))
      BY <1>10, GotoReaches DEF Commit
    <2> QED
      BY <1>10, <2>1 DEF Commit, RouteAfterCommit, pool,
         TypeOK, Counted, Clean, Acted, ShortRunHasReason, OnlyReadOnlySent,
         RoundsAreCommitted, RoundsThatFitAreRun, Node5
  <1>11. ASSUME NEW a \in Artifacts, Apply(a)
         PROVE  Inv'
    BY <1>11 DEF Apply, pool,
       TypeOK, Counted, Clean, Acted, ShortRunHasReason, OnlyReadOnlySent,
       RoundsAreCommitted, RoundsThatFitAreRun, Node5
  <1>12. CASE Fail
    BY <1>12 DEF Fail, graph, pool, workspace,
       TypeOK, Counted, Clean, Acted, ShortRunHasReason, OnlyReadOnlySent,
       RoundsAreCommitted, RoundsThatFitAreRun, Node5
  <1> HIDE DEF Inv
  <1> QED
    BY <1>1, <1>2, <1>3, <1>4, <1>5, <1>6, <1>7, <1>8, <1>9, <1>10, <1>11, <1>12
       DEF Next, Node

LEMMA Invariance == Spec => []Inv
  <1> QED
    BY InitInv, NextInv, PTL DEF Spec

\* The state of an exploration and of its workspace stays well formed.
THEOREM TypeCorrect == Spec => []TypeOK
  <1> QED
    BY Invariance, PTL DEF Inv

\* Rounds that fit five to a superstep in the recursion limit never meet it,
\* probes run twice included; only an exploration asked for more is raised.
THEOREM RecursionLimitSuffices == Spec => []RoundsThatFitAreRun
  <1> QED
    BY Invariance, PTL DEF Inv, Counted

\* An exploration that ends without an error has committed what it wrote.
THEOREM RoundsEndWithCommit == Spec => []RoundsAreCommitted
  <1> QED
    BY Invariance, PTL DEF Inv, Clean

\* Nothing that validate_read_only would refuse is sent to the database.
THEOREM ProbesAreReadOnly == Spec => []OnlyReadOnlySent
  <1> QED
    BY Invariance, PTL DEF Inv

\* Fewer rounds than asked for always come with a reason.
THEOREM ShortRunsAreExplained == Spec => []ShortRunHasReason
  <1> QED
    BY Invariance, PTL DEF Inv

\* The probes left over by an empty plan are run once more, never again.
THEOREM StalePlansAreBounded == Spec => []PlanActedAtMostTwice
  <1>1. Inv => PlanActedAtMostTwice
    BY DEF Inv, Acted, PlanActedAtMostTwice
  <1> QED
    BY <1>1, Invariance, PTL
=============================================================================
