--------------------------- MODULE QueryAgentProofs ---------------------------
(****************************************************************************)
(* What holds of the pipeline for every repair budget and every number of   *)
(* optimizer passes: its types, that no run is cut short by langgraph's     *)
(* recursion limit, and what is known of a query that is executed, answered *)
(* or learned. Then what holds of the plans its sql_generator node compiles *)
(* and its execution node materializes, for any tables of any rows, any     *)
(* scans and names, and plans of any length.                                *)
(****************************************************************************)
EXTENDS QueryAgent, AnalyticalPlan, SequenceTheorems, TLAPS

LEMMA InitTypeOK == Init => TypeOK
  BY DEF Init, TypeOK, QueryState, Nodes, Errors

LEMMA NextTypeOK == TypeOK /\ [Next]_vars => TypeOK'
  <1> SUFFICES ASSUME TypeOK, [Next]_vars
               PROVE  TypeOK'
    OBVIOUS
  <1> USE DEF TypeOK, QueryState, Nodes, Errors
  <1>1. CASE UNCHANGED vars
    BY <1>1 DEF vars
  <1>2. CASE Router
    BY <1>2 DEF Router, Run
  <1>3. CASE Loader
    BY <1>3 DEF Loader, Run
  <1>4. CASE Telemetry
    BY <1>4 DEF Telemetry, Run
  <1>5. CASE Planner
    BY <1>5 DEF Planner, Run
  <1>6. CASE SqlGenerator
    <2>1. New \in Nat /\ \A m \in BOOLEAN : Scratch(m) \in Nat
      BY DEF New, Scratch
    <2>2. "plan" \in Errors /\ (IF st.llm THEN "generation" ELSE "no_llm") \in Errors
      OBVIOUS
    <2> DEFINE failure == IF st.llm THEN "generation" ELSE "no_llm"
    <2> HIDE DEF Errors, Nodes
    <2>3. st' \in QueryState
      <3>1. [st EXCEPT !.drafts = New, !.sql = New, !.llm_used = FALSE] \in QueryState
        BY <2>1, ZenonT(30)
      <3>2. ASSUME NEW m \in BOOLEAN
            PROVE  [st EXCEPT !.drafts = New, !.sql = New, !.spec = TRUE,
                              !.llm_used = TRUE, !.scratch = Scratch(m)] \in QueryState
        BY <2>1, ZenonT(30)
      <3>3. [st EXCEPT !.spec = TRUE, !.error = "plan", !.llm_used = TRUE] \in QueryState
        BY <2>2, ZenonT(30)
      <3>4. [st EXCEPT !.drafts = New, !.sql = New, !.llm_used = TRUE] \in QueryState
        BY <2>1, ZenonT(30)
      <3>5. [st EXCEPT !.error = failure, !.llm_used = FALSE] \in QueryState
        BY <2>2, ZenonT(30)
      <3> HIDE DEF QueryState
      <3> QED
        BY <1>6, <3>1, <3>2, <3>3, <3>4, <3>5, Zenon DEF SqlGenerator
    <2>4. steps' \in Nat /\ node' = "validator"
      <3>1. Run("sql_generator") /\ node' = "validator"
        BY <1>6, Zenon DEF SqlGenerator
      <3> QED
        BY <3>1 DEF Run
    <2> QED
      BY <2>3, <2>4 DEF Nodes
  <1>7. CASE Validator
    BY <1>7 DEF Validator, OrRepair, Run
  <1>8. CASE Explainer
    BY <1>8 DEF Explainer, OrRepair, Run
  <1>9. CASE Executor
    BY <1>9 DEF Executor, Executed, OrRepair, Run
  <1>10. CASE Invariants
    BY <1>10 DEF Invariants, Run
  <1>11. CASE Critic
    <2>1. st' \in QueryState
      <3>1. "critic" \in Errors
        OBVIOUS
      <3> QED
        BY <1>11, <3>1, ZenonT(30) DEF Critic
    <2>2. steps' \in Nat /\ node' \in {"react_repair", "optimizer"}
      BY <1>11 DEF Critic, Run
    <2> QED
      BY <2>1, <2>2
  <1>12. CASE Optimizer
    <2>1. st' \in QueryState
      BY <1>12, ZenonT(30) DEF Optimizer
    <2> QED
      BY <1>12, <2>1 DEF Optimizer, Run
  <1>13. CASE ReactRepair
    <2>1. New \in Nat /\ \A m \in BOOLEAN : Scratch(m) \in Nat
      BY DEF New, Scratch
    <2>2. ASSUME NEW e \in Errors, Stop(e) \/ Again(e)
          PROVE  st' \in QueryState /\ node' \in {"persist", "react_repair"}
      <3>1. st.react_attempts + 1 \in Nat
        OBVIOUS
      <3>2. st' \in QueryState
        BY <2>2, <3>1, ZenonT(30) DEF Stop, Again
      <3> QED
        BY <2>2, <3>2 DEF Stop, Again
    <2>3. ASSUME NEW s \in Nat, Repaired(s)
          PROVE  st' \in QueryState /\ node' = "validator"
      <3>1. st.react_attempts + 1 \in Nat /\ "none" \in Errors
        OBVIOUS
      <3>2. st' \in QueryState
        BY <2>1, <2>3, <3>1, ZenonT(30) DEF Repaired
      <3> QED
        BY <2>3, <3>2 DEF Repaired
    <2>4. {"exhausted", "no_llm", "repair_failed", "unchanged", "unassembled"} \subseteq Errors
      OBVIOUS
    <2> HIDE DEF TypeOK, QueryState, Errors
    <2>5. st.scratch \in Nat
      BY DEF TypeOK, QueryState
    <2>6. st' \in QueryState /\ node' \in {"persist", "react_repair", "validator"}
      BY <1>13, <2>1, <2>2, <2>3, <2>4, <2>5 DEF ReactRepair
    <2> USE DEF TypeOK
    <2> QED
      BY <1>13, <2>6 DEF ReactRepair, Run, Nodes
  <1>14. CASE Persist
    BY <1>14 DEF Persist, Run
  <1>15. CASE Raise
    BY <1>15 DEF Raise
  <1> QED
    BY <1>1, <1>2, <1>3, <1>4, <1>5, <1>6, <1>7, <1>8, <1>9, <1>10, <1>11, <1>12,
       <1>13, <1>14, <1>15 DEF Next

\* The node names, the counters and the graph's state keep their types.
THEOREM TypeCorrect == Spec => []TypeOK
  <1> QED
    BY InitTypeOK, NextTypeOK, PTL DEF Spec
----------------------------------------------------------------------------

\* Where a question can be after how many supersteps: the way down to each node,
\* and six supersteps for each repair, which are the ones recursion_limit gives it.
Depth(n) ==
  CASE n = "router" -> 1 [] n = "loader" -> 2 [] n = "telemetry" -> 3
    [] n = "planner" -> 4 [] n = "sql_generator" -> 5 [] n = "validator" -> 6
    [] n = "explain_gate" -> 7 [] n = "execute" -> 8 [] n = "invariant_check" -> 9
    [] n = "critic" -> 10 [] n = "optimizer" -> 11 [] n = "react_repair" -> 11
    [] OTHER -> 12

StepsUsed ==
  /\ node \notin {"persist", "end"} =>
       /\ st.react_attempts <= REACT_MAX_ATTEMPTS
       /\ steps <= Depth(node) + 6 * st.react_attempts
  /\ node = "persist" => steps <= 12 + 6 * REACT_MAX_ATTEMPTS

LEMMA InitStepsUsed == Init => StepsUsed
  BY AgentAssumption DEF Init, StepsUsed, Depth

LEMMA NextStepsUsed == TypeOK /\ StepsUsed /\ [Next]_vars => StepsUsed'
  <1> SUFFICES ASSUME TypeOK, StepsUsed, [Next]_vars
               PROVE  StepsUsed'
    OBVIOUS
  <1>t. /\ st.react_attempts \in Nat /\ steps \in Nat
        /\ REACT_MAX_ATTEMPTS \in Nat
        /\ "react_attempts" \in DOMAIN st
    BY AgentAssumption DEF TypeOK, QueryState
  \* A node that changes neither the attempts nor goes back: one superstep
  \* deeper, as is the node it leads to.
  <1>a. ASSUME NEW n \in Nodes \ {"persist", "end"}, NEW m \in Nodes \ {"end"},
               Run(n), node' = m, Depth(n) < Depth(m),
               st'.react_attempts = st.react_attempts
        PROVE  StepsUsed'
    <2>1. /\ steps <= Depth(n) + 6 * st.react_attempts
          /\ st.react_attempts <= REACT_MAX_ATTEMPTS
          /\ steps' = steps + 1
      BY <1>a DEF StepsUsed, Run
    <2>2. Depth(n) \in Nat /\ Depth(m) \in Nat /\ (m = "persist" => Depth(m) = 12)
      BY DEF Depth
    <2>3. steps' <= Depth(m) + 6 * st'.react_attempts
      BY <1>t, <1>a, <2>1, <2>2
    <2> QED
      BY <1>t, <1>a, <2>1, <2>2, <2>3 DEF StepsUsed
  <1>1. CASE UNCHANGED vars
    BY <1>1 DEF vars, StepsUsed
  <1>2. CASE Router
    BY <1>2, <1>a DEF Router, Run, Nodes, Depth
  <1>3. CASE Loader
    BY <1>3, <1>a DEF Loader, Run, Nodes, Depth
  <1>4. CASE Telemetry
    BY <1>4, <1>a DEF Telemetry, Run, Nodes, Depth
  <1>5. CASE Planner
    BY <1>5, <1>a DEF Planner, Run, Nodes, Depth
  <1>6. CASE SqlGenerator
    <2>1. st'.react_attempts = st.react_attempts
      BY <1>6, <1>t, Zenon DEF SqlGenerator
    <2>2. Run("sql_generator") /\ node' = "validator"
      BY <1>6, Zenon DEF SqlGenerator
    <2> QED
      BY <2>1, <2>2, <1>a DEF Nodes, Depth
  <1>7. CASE Validator
    <2>1. st'.react_attempts = st.react_attempts
      BY <1>7, <1>t, Zenon DEF Validator
    <2>2. Run("validator")
      BY <1>7, Zenon DEF Validator
    <2>3. node' \in {"react_repair", "explain_gate"}
      BY <1>7, Zenon DEF Validator, OrRepair
    <2> QED
      BY <2>1, <2>2, <2>3, <1>a DEF Nodes, Depth
  <1>8. CASE Explainer
    <2>1. st'.react_attempts = st.react_attempts
      BY <1>8, <1>t, Zenon DEF Explainer
    <2>2. Run("explain_gate")
      BY <1>8, Zenon DEF Explainer
    <2>3. node' \in {"react_repair", "execute"}
      BY <1>8, Zenon DEF Explainer, OrRepair
    <2> QED
      BY <2>1, <2>2, <2>3, <1>a DEF Nodes, Depth
  <1>9. CASE Executor
    <2>1. st'.react_attempts = st.react_attempts
      BY <1>9, <1>t, Zenon DEF Executor
    <2>2. Run("execute")
      BY <1>9, Zenon DEF Executor
    <2>3. node' \in {"react_repair", "invariant_check"}
      BY <1>9, Zenon DEF Executor, OrRepair
    <2> QED
      BY <2>1, <2>2, <2>3, <1>a DEF Nodes, Depth
  <1>10. CASE Invariants
    BY <1>10, <1>a DEF Invariants, Run, Nodes, Depth
  <1>11. CASE Critic
    <2>1. st'.react_attempts = st.react_attempts
      BY <1>11, <1>t, Zenon DEF Critic
    <2>2. Run("critic")
      BY <1>11, Zenon DEF Critic
    <2>3. node' \in {"react_repair", "optimizer"}
      BY <1>11, Zenon DEF Critic
    <2> QED
      BY <2>1, <2>2, <2>3, <1>a DEF Nodes, Depth
  <1>12. CASE Optimizer
    <2>1. st'.react_attempts = st.react_attempts
      BY <1>12, <1>t, Zenon DEF Optimizer
    <2> QED
      BY <1>12, <2>1, <1>a DEF Optimizer, Nodes, Depth
  \* The way back: the superstep of the repair itself is paid by the attempt.
  <1>13. CASE ReactRepair
    <2>1. /\ steps <= 11 + 6 * st.react_attempts
          /\ st.react_attempts <= REACT_MAX_ATTEMPTS
          /\ steps' = steps + 1
      BY <1>13 DEF StepsUsed, Depth, ReactRepair, Run
    <2>2. \/ node' = "persist"
          \/ /\ st.react_attempts + 1 <= REACT_MAX_ATTEMPTS
             /\ node' \in {"react_repair", "validator"}
             /\ st'.react_attempts = st.react_attempts + 1
      <3>1. \A e : Stop(e) => node' = "persist"
        BY DEF Stop
      <3>2. \A e : Again(e) => /\ node' = "react_repair"
                              /\ st'.react_attempts = st.react_attempts + 1
        BY <1>t DEF Again
      <3>3. \A s : Repaired(s) => /\ node' = "validator"
                                 /\ st'.react_attempts = st.react_attempts + 1
        BY <1>t DEF Repaired
      <3> QED
        BY <1>13, <3>1, <3>2, <3>3, Zenon DEF ReactRepair
    <2> QED
      BY <1>t, <2>1, <2>2 DEF StepsUsed, Depth
  <1>14. CASE Persist
    BY <1>14 DEF Persist, Run, StepsUsed
  <1>15. CASE Raise
    BY <1>15 DEF Raise, StepsUsed
  <1> QED
    BY <1>1, <1>2, <1>3, <1>4, <1>5, <1>6, <1>7, <1>8, <1>9, <1>10, <1>11, <1>12,
       <1>13, <1>14, <1>15 DEF Next

\* No run of the pipeline, whatever its budget, is cut short by the recursion
\* limit that recursion_limit_for_attempts computes for that budget.
THEOREM RecursionLimitSuffices == Spec => []WithinRecursionLimit
  <1>1. TypeOK /\ StepsUsed => WithinRecursionLimit
    BY AgentAssumption
    DEF TypeOK, QueryState, Nodes, StepsUsed, Depth, WithinRecursionLimit, recursion_limit
  <1> QED
    BY <1>1, InitTypeOK, NextTypeOK, InitStepsUsed, NextStepsUsed, PTL DEF Spec

----------------------------------------------------------------------------

\* What is known of the query at each node: the inductive form of the
\* properties about what is executed, answered and learned.
Fresh == st.error = "none" /\ ~st.critic_rejected /\ st.sql = 0

Sound == st.error = "none" /\ ~st.critic_rejected /\ st.sql # 0 /\ st.sql = st.validated

Answered == st.explain = st.sql /\ (st.scratch \in {0, st.sql} => st.result = st.sql)

Verified == Sound /\ Answered /\ st.critic = "answered" /\ st.judged = st.sql

Tracked ==
  /\ node # "end" => st.learned = 0
  /\ node \in {"router", "loader", "telemetry", "planner", "sql_generator"} => Fresh
  /\ node \notin {"router", "loader", "telemetry", "planner", "persist", "end"} =>
       ~st.clarification
  /\ node = "validator" => ~st.critic_rejected /\ (st.error = "none" => st.sql # 0)
  /\ node \in {"explain_gate", "execute", "invariant_check", "critic", "optimizer"} => Sound
  /\ node = "execute" => st.explain = st.sql
  /\ node \in {"invariant_check", "critic", "optimizer"} => Answered
  /\ node = "optimizer" => Verified
  /\ node \in {"persist", "end"} =>
       \/ st.clarification /\ st.learned = 0 /\ (node = "persist" => st.sql = 0)
       \/ st.error # "none" /\ st.learned = 0
       \/ ~st.clarification /\ Verified
  /\ st.learned # 0 => ~st.read_only /\ st.learned = st.sql

LEMMA InitTracked == Init => Tracked
  BY DEF Init, Tracked, Fresh

LEMMA NextTracked == TypeOK /\ Tracked /\ [Next]_vars => Tracked'
  <1> SUFFICES ASSUME TypeOK, Tracked, [Next]_vars
               PROVE  Tracked'
    OBVIOUS
  <1> USE DEF TypeOK, QueryState, Tracked, Fresh, Sound, Answered, Verified
  <1>1. CASE UNCHANGED vars
    BY <1>1 DEF vars
  <1>2. CASE Router
    BY <1>2 DEF Router, Run
  <1>3. CASE Loader
    BY <1>3 DEF Loader, Run
  <1>4. CASE Telemetry
    BY <1>4 DEF Telemetry, Run
  <1>5. CASE Planner
    BY <1>5 DEF Planner, Run
  <1>6. CASE SqlGenerator
    <2> DEFINE same == /\ st'.learned = st.learned
                       /\ st'.clarification = st.clarification
                       /\ st'.critic_rejected = st.critic_rejected
                       /\ (st'.error = "none" => st'.sql # 0)
    <2>1. New # 0 /\ "plan" # "none" /\ (IF st.llm THEN "generation" ELSE "no_llm") # "none"
      BY DEF New
    <2>2. ASSUME st' = [st EXCEPT !.drafts = New, !.sql = New, !.llm_used = FALSE]
          PROVE  same
      BY <2>1, <2>2
    <2>3. ASSUME NEW m \in BOOLEAN,
                 st' = [st EXCEPT !.drafts = New, !.sql = New, !.spec = TRUE,
                                  !.llm_used = TRUE, !.scratch = Scratch(m)]
          PROVE  same
      BY <2>1, <2>3
    <2>4. ASSUME st' = [st EXCEPT !.spec = TRUE, !.error = "plan", !.llm_used = TRUE]
          PROVE  same
      BY <2>1, <2>4
    <2>5. ASSUME st' = [st EXCEPT !.drafts = New, !.sql = New, !.llm_used = TRUE]
          PROVE  same
      BY <2>1, <2>5
    <2>6. ASSUME st' = [st EXCEPT !.error = IF st.llm THEN "generation" ELSE "no_llm",
                                  !.llm_used = FALSE]
          PROVE  same
      BY <2>1, <2>6
    <2>7. same /\ node = "sql_generator" /\ node' = "validator"
      <3> HIDE DEF same, TypeOK, Tracked
      <3> QED
        BY <1>6, <2>2, <2>3, <2>4, <2>5, <2>6, Zenon DEF SqlGenerator, Run
    <2> QED
      BY <2>7
  <1>7. CASE Validator
    BY <1>7 DEF Validator, OrRepair, Run
  <1>8. CASE Explainer
    BY <1>8 DEF Explainer, OrRepair, Run
  <1>9. CASE Executor
    BY <1>9 DEF Executor, Executed, OrRepair, Run
  <1>10. CASE Invariants
    BY <1>10 DEF Invariants, Run
  <1>11. CASE Critic
    BY <1>11 DEF Critic, Run
  <1>12. CASE Optimizer
    <2>1. CASE UNCHANGED st
      BY <1>12, <2>1 DEF Optimizer, Run
    <2>2. CASE st' = [st EXCEPT !.explain = st.sql, !.validated = st.sql,
                                !.result = st.sql, !.llm_used = TRUE]
      <3>1. node = "optimizer" /\ node' = "persist"
        BY <1>12 DEF Optimizer, Run
      <3> QED
        BY <2>2, <3>1
    <2> QED
      BY <1>12, <2>1, <2>2, Zenon DEF Optimizer
  <1>13. CASE ReactRepair
    <2> DEFINE kept == /\ st'.learned = st.learned
                       /\ st'.clarification = st.clarification
    <2>1. node = "react_repair"
      BY <1>13, Zenon DEF ReactRepair, Run
    <2>2. ASSUME NEW e \in Errors \ {"none"}, Stop(e) \/ Again(e)
          PROVE  kept /\ node' \in {"persist", "react_repair"} /\ st'.error # "none"
      <3>1. CASE Stop(e)
        BY <3>1 DEF Stop
      <3>2. CASE Again(e)
        BY <3>2 DEF Again
      <3> QED
        BY <2>2, <3>1, <3>2
    <2>3. ASSUME NEW s \in Nat, Repaired(s)
          PROVE  kept /\ node' = "validator" /\ ~st'.critic_rejected /\ st'.sql # 0
      <3>1. kept /\ node' = "validator" /\ st'.sql = New
        BY <2>3, Zenon DEF Repaired
      <3>2. ~st'.critic_rejected
        BY <2>3, Zenon DEF Repaired
      <3> QED
        BY <3>1, <3>2 DEF New
    <2>4. {"exhausted", "no_llm", "repair_failed", "unchanged", "unassembled"}
            \subseteq Errors \ {"none"}
      BY DEF Errors
    <2>5. st.scratch \in Nat /\ New \in Nat /\ \A m \in BOOLEAN : Scratch(m) \in Nat
      BY DEF New, Scratch
    <2>6. /\ kept
          /\ \/ node' \in {"persist", "react_repair"} /\ st'.error # "none"
             \/ node' = "validator" /\ ~st'.critic_rejected /\ st'.sql # 0
      <3> HIDE DEF kept, TypeOK, Tracked, QueryState
      <3>1. \A e \in {"exhausted", "no_llm", "repair_failed", "unchanged", "unassembled"} :
              Stop(e) \/ Again(e) =>
                kept /\ node' \in {"persist", "react_repair"} /\ st'.error # "none"
        BY <2>2, <2>4
      <3> QED
        BY <1>13, <2>3, <2>5, <3>1, ZenonT(30) DEF ReactRepair
    <2> QED
      BY <2>1, <2>6
  <1>14. CASE Persist
    BY <1>14 DEF Persist, Learnable, Run
  <1>15. CASE Raise
    BY <1>15 DEF Raise
  <1> QED
    BY <1>1, <1>2, <1>3, <1>4, <1>5, <1>6, <1>7, <1>8, <1>9, <1>10, <1>11, <1>12,
       <1>13, <1>14, <1>15 DEF Next

LEMMA TrackedAlways == Spec => [](TypeOK /\ Tracked)
  <1> QED
    BY InitTypeOK, NextTypeOK, InitTracked, NextTracked, PTL DEF Spec

\* Materialized stages are those of the query, or of an earlier one that a repair
\* replaced.
LeftBehind ==
  /\ st.scratch <= st.sql /\ st.sql <= st.drafts
  /\ st.scratch \in {0, st.sql} \/ st.react_attempts > 0

LEMMA NextLeftBehind == TypeOK /\ Tracked /\ LeftBehind /\ [Next]_vars => LeftBehind'
  <1> SUFFICES ASSUME TypeOK, Tracked, LeftBehind, [Next]_vars
               PROVE  LeftBehind'
    OBVIOUS
  <1> DEFINE same == /\ st'.scratch = st.scratch /\ st'.sql = st.sql
                     /\ st'.drafts = st.drafts /\ st'.react_attempts >= st.react_attempts
             new == /\ st'.scratch \in {st.scratch, st'.sql} /\ st'.sql = New /\ st'.drafts = New
                    /\ st'.scratch \in {0, st'.sql} \/ st'.react_attempts > 0
  <1>t. /\ st \in QueryState /\ st.scratch \in Nat /\ st.sql \in Nat /\ st.drafts \in Nat
        /\ st.react_attempts \in Nat /\ New \in Nat /\ New = st.drafts + 1
    BY DEF TypeOK, QueryState, New
  <1>p. st'.react_attempts \in Nat
    BY NextTypeOK DEF TypeOK, QueryState
  <1> HIDE DEF same, new
  <1>1. CASE UNCHANGED vars
    BY <1>1 DEF vars, LeftBehind
  <1>2. CASE Router \/ Loader \/ Telemetry \/ Planner
    <2>1. same
      BY <1>2, <1>t DEF same, new, Router, Loader, Telemetry, Planner, QueryState
    <2> QED
      BY <2>1, <1>t, <1>p DEF LeftBehind, same, new
  <1>3. CASE SqlGenerator
    <2>1. st.scratch = 0
      <3>1. node = "sql_generator"
        BY <1>3 DEF SqlGenerator, Run
      <3>2. st.sql = 0
        BY <3>1 DEF Tracked, Fresh
      <3> QED
        BY <3>2, <1>t DEF LeftBehind
    <2>2. same \/ new
      <3>1. ASSUME st' = [st EXCEPT !.drafts = New, !.sql = New, !.llm_used = FALSE]
            PROVE  new
        BY <3>1, <2>1, <1>t DEF new, QueryState
      <3>2. ASSUME NEW m \in BOOLEAN,
                   st' = [st EXCEPT !.drafts = New, !.sql = New, !.spec = TRUE,
                                    !.llm_used = TRUE, !.scratch = Scratch(m)]
            PROVE  new
        BY <3>2, <2>1, <1>t DEF new, Scratch, QueryState
      <3>3. ASSUME st' = [st EXCEPT !.spec = TRUE, !.error = "plan", !.llm_used = TRUE]
            PROVE  same
        BY <3>3, <1>t DEF same, QueryState
      <3>4. ASSUME st' = [st EXCEPT !.drafts = New, !.sql = New, !.llm_used = TRUE]
            PROVE  new
        BY <3>4, <2>1, <1>t DEF new, QueryState
      <3>5. ASSUME st' = [st EXCEPT !.error = IF st.llm THEN "generation" ELSE "no_llm",
                                    !.llm_used = FALSE]
            PROVE  same
        BY <3>5, <1>t DEF same, QueryState
      <3> QED
        BY <1>3, <3>1, <3>2, <3>3, <3>4, <3>5, Zenon DEF SqlGenerator
    <2> QED
      BY <2>2, <1>t, <1>p DEF LeftBehind, same, new
  <1>4. CASE Validator \/ Explainer \/ Executor \/ Invariants \/ Critic
    <2>1. same
      <3>1. CASE Validator
        BY <3>1, <1>t DEF same, Validator, QueryState
      <3>2. CASE Explainer
        BY <3>2, <1>t DEF same, Explainer, QueryState
      <3>3. CASE Executor
        BY <3>3, <1>t DEF same, Executor, QueryState
      <3>4. CASE Invariants
        BY <3>4, <1>t DEF same, Invariants, QueryState
      <3>5. CASE Critic
        <4>1. \/ UNCHANGED st
              \/ st' = [st EXCEPT !.critic = "answered", !.judged = st.sql]
              \/ st' = [st EXCEPT !.critic = "rejected", !.judged = st.sql,
                                  !.critic_rejected = TRUE, !.error = "critic"]
          BY <3>5, Zenon DEF Critic
        <4>2. CASE UNCHANGED st
          BY <4>2, <1>t DEF same
        <4>3. CASE st' = [st EXCEPT !.critic = "answered", !.judged = st.sql]
          BY <4>3, <1>t DEF same, QueryState
        <4>4. CASE st' = [st EXCEPT !.critic = "rejected", !.judged = st.sql,
                                    !.critic_rejected = TRUE, !.error = "critic"]
          BY <4>4, <1>t DEF same, QueryState
        <4> QED
          BY <4>1, <4>2, <4>3, <4>4, Zenon
      <3> QED
        BY <1>4, <3>1, <3>2, <3>3, <3>4, <3>5
    <2> QED
      BY <2>1, <1>t, <1>p DEF LeftBehind, same, new
  <1>5. CASE Optimizer \/ Persist \/ Raise
    <2>1. same
      <3>1. CASE Optimizer
        <4>1. \/ UNCHANGED st
              \/ st' = [st EXCEPT !.explain = st.sql, !.validated = st.sql,
                                  !.result = st.sql, !.llm_used = TRUE]
          BY <3>1, Zenon DEF Optimizer
        <4>2. CASE UNCHANGED st
          BY <4>2, <1>t DEF same
        <4>3. CASE st' = [st EXCEPT !.explain = st.sql, !.validated = st.sql,
                                    !.result = st.sql, !.llm_used = TRUE]
          BY <4>3, <1>t DEF same, QueryState
        <4> QED
          BY <4>1, <4>2, <4>3, Zenon
      <3>2. CASE Persist
        BY <3>2, <1>t DEF same, Persist, QueryState
      <3>3. CASE Raise
        BY <3>3, <1>t DEF same, Raise, QueryState
      <3> QED
        BY <1>5, <3>1, <3>2, <3>3
    <2> QED
      BY <2>1, <1>t, <1>p DEF LeftBehind, same, new
  <1>6. CASE ReactRepair
    <2>1. ASSUME NEW e, Stop(e) \/ Again(e)
          PROVE  same
      <3>1. CASE Stop(e)
        BY <3>1, <1>t DEF same, Stop, QueryState
      <3>2. CASE Again(e)
        BY <3>2, <1>t DEF same, Again, QueryState
      <3> QED
        BY <2>1, <3>1, <3>2
    <2>2. ASSUME NEW s \in {st.scratch, New}, Repaired(s)
          PROVE  new
      BY <2>2, <1>t DEF same, new, Repaired, QueryState
    <2>3. \A m \in BOOLEAN : Scratch(m) \in {st.scratch, New}
      BY DEF Scratch
    <2>4. same \/ new
      BY <1>6, <2>1, <2>2, <2>3, Zenon DEF ReactRepair
    <2> QED
      BY <2>4, <1>t, <1>p DEF LeftBehind, same, new
  <1> QED
    BY <1>1, <1>2, <1>3, <1>4, <1>5, <1>6 DEF Next

LEMMA LeftBehindAlways == Spec => []LeftBehind
  <1>1. Init => LeftBehind
    BY DEF Init, LeftBehind
  <1> QED
    BY <1>1, NextLeftBehind, TrackedAlways, PTL DEF Spec

\* However many repairs came before, what is executed passed the read-only check,
\* the lint and EXPLAIN in its current form, or it is the stages that an earlier
\* plan left behind when a repair replaced it.
THEOREM ExecutionIsGated == Spec => []ExecutesOnlyValidated
  <1>1. TypeOK /\ Tracked /\ LeftBehind => ExecutesOnlyValidated
    BY DEF TypeOK, QueryState, Tracked, Sound, LeftBehind, Executed, ExecutesOnlyValidated
  <1> QED
    BY <1>1, TrackedAlways, LeftBehindAlways, PTL

\* No error and no rejection of an earlier attempt gets past the gates.
THEOREM GatesHold == Spec => []NothingFailedPastTheGates
  <1>1. TypeOK /\ Tracked => NothingFailedPastTheGates
    BY DEF Tracked, Sound, NothingFailedPastTheGates
  <1> QED
    BY <1>1, TrackedAlways, PTL

\* What is shown as an answer was validated, explained and accepted, and is the
\* result of the query it shows unless an older scratch plan was left behind.
THEOREM AnswersAreVerified == Spec => []AnsweredIsVerified
  <1>1. TypeOK /\ Tracked => AnsweredIsVerified
    BY DEF Tracked, Verified, Sound, Answered, AnsweredIsVerified, Status
  <1> QED
    BY <1>1, TrackedAlways, PTL

\* The skill learns only from answers, and only what the critic accepted.
THEOREM LearningIsGated == Spec => []LearnedIsAccepted
  <1>1. TypeOK /\ Tracked => LearnedIsAccepted
    BY DEF Tracked, Verified, Sound, LearnedIsAccepted, Status
  <1> QED
    BY <1>1, TrackedAlways, PTL
----------------------------------------------------------------------------
\* The plans: AnalyticalPlan.

Inputs(n) == [i \in DOMAIN stages[n].sql.from |-> ReadCte(n, stages[n].sql.from[i])]

PlanShape ==
  /\ stages \in Seq(Range(stages))
  /\ temp \in Seq(Range(temp))
  /\ phase \in {"planning", "running", "failed", "answered"}

DistinctIds == \A i, j \in DOMAIN stages : stages[i].id = stages[j].id => i = j

\* What is kept with a stage is what its CTE computes from the CTEs before it.
Compiled == \A n \in DOMAIN stages : stages[n].rows = Evaluate(stages[n].sql, Inputs(n))

\* The inductive form of ScratchMeansTheSame: a temporary table has what the CTE
\* has, and there is one for every stage that has been run.
Materialized ==
  /\ phase = "planning" => temp = <<>>
  /\ phase = "running" =>
       /\ output \in DOMAIN stages /\ Len(temp) < output
       /\ OneCase => \A k \in DOMAIN temp : temp[k] = stages[k].rows

PlanInv ==
  /\ PlanShape /\ DistinctIds /\ Compiled /\ Materialized
  /\ GrainIsAKey /\ TrueJoinsKeepMeasures /\ ScratchMeansTheSame

----------------------------------------------------------------------------
\* What the queries do to a key.

\* Columns that are selected with the key do not change it.
LEMMA ProjectKeepsKey ==
  ASSUME NEW rows, NEW columns, NEW key, IsKey(key, rows), key \subseteq columns
  PROVE  IsKey(key, Project(rows, columns))
  <1>1. DOMAIN Project(rows, columns) = DOMAIN rows
    BY DEF Project
  <1>2. \A i \in DOMAIN rows : \A c \in key : Project(rows, columns)[i][c] = rows[i][c]
    BY DEF Project
  <1> QED
    BY <1>1, <1>2 DEF IsKey

\* Fewer rows have every key of the rows they are taken from.
LEMMA RestrictKeepsKey ==
  ASSUME NEW rows, NEW ids, ids \subseteq DOMAIN rows, NEW key, IsKey(key, rows)
  PROVE  IsKey(key, Restrict(rows, ids))
  <1> QED
    BY DEF IsKey, Restrict

\* The groups of an aggregate are told apart by what it groups by, if no measure
\* takes the name of one of these columns.
LEMMA GroupsAreKeyed ==
  ASSUME NEW rows, NEW q, q.group_by # {}, q.group_by \cap Selected(q.measures) = {}
  PROVE  IsKey(q.group_by, Grouped(rows, q))
  <1> DEFINE Key(i) == [c \in q.group_by |-> rows[i][c]]
  <1>1. DOMAIN Grouped(rows, q) = {Key(i) : i \in DOMAIN rows}
    BY DEF Grouped
  <1>a. \A c \in q.group_by : Called(c, q.measures) = {}
    BY DEF Called, Selected
  <1>2. \A k \in DOMAIN Grouped(rows, q) : \A c \in q.group_by : Grouped(rows, q)[k][c] = k[c]
    BY <1>a DEF Grouped
  <1> QED
    BY <1>1, <1>2 DEF IsKey

\* A column more leaves the key what it is, if the others are kept and it has not
\* the name of one of the key.
LEMMA DeriveKeepsKey ==
  ASSUME NEW rows, NEW q, q.keep, NEW key, key \subseteq q.columns, IsKey(key, rows), q.alias \notin key
  PROVE  IsKey(key, Derived(rows, q))
  <1>1. DOMAIN Derived(rows, q) = DOMAIN rows
    BY DEF Derived
  <1>2. \A i \in DOMAIN rows : \A c \in key : Derived(rows, q)[i][c] = rows[i][c]
    BY DEF Derived
  <1> QED
    BY <1>1, <1>2 DEF IsKey

\* A joined row has the columns of a row of the left input, and if the right
\* input has each key once, that row is in the join no more than once.
LEMMA JoinedRows ==
  ASSUME NEW left, NEW right, NEW q
  PROVE  /\ \A p \in DOMAIN Joined(left, right, q) :
              /\ p[1] \in DOMAIN left
              /\ \A c \in q.left_columns : Joined(left, right, q)[p][c] = left[p[1]][c]
         /\ Once(right, q.right_key) =>
              \A p1, p2 \in DOMAIN Joined(left, right, q) : p1[1] = p2[1] => p1 = p2
  <1> DEFINE matches == Matches(left, right, q)
             unmatched == {i \in DOMAIN left : q.how = "left" /\ \A p \in matches : p[1] # i}
             ids == matches \cup (unmatched \X {Null})
  <1>1. DOMAIN Joined(left, right, q) = ids
    BY DEF Joined
  <1>2. \A p \in ids : p[1] \in DOMAIN left
    BY DEF Matches
  <1>3. \A p \in ids, c \in q.left_columns : Joined(left, right, q)[p][c] = left[p[1]][c]
    BY DEF Joined
  <1>4. ASSUME Once(right, q.right_key), NEW p1 \in ids, NEW p2 \in ids, p1[1] = p2[1]
        PROVE  p1 = p2
    <2>1. CASE p1 \in matches /\ p2 \in matches
      <3>1. p1[2] = p2[2]
        BY <1>4, <2>1 DEF Matches, Once
      <3> QED
        BY <1>4, <2>1, <3>1 DEF Matches
    <2>2. CASE p1 \notin matches /\ p2 \notin matches
      BY <1>4, <2>2
    <2>3. p1 \in matches <=> p2 \in matches
      BY <1>4
    <2> QED
      BY <2>1, <2>2, <2>3
  <1> QED
    BY <1>1, <1>2, <1>3, <1>4

\* A join that matches a row of the left input at most once keeps its key.
LEMMA JoinKeepsKey ==
  ASSUME NEW left, NEW right, NEW q, Once(right, q.right_key),
         NEW key, key \subseteq q.left_columns, IsKey(key, left)
  PROVE  IsKey(key, Joined(left, right, q))
  <1> SUFFICES ASSUME NEW p1 \in DOMAIN Joined(left, right, q),
                      NEW p2 \in DOMAIN Joined(left, right, q),
                      \A c \in key : Joined(left, right, q)[p1][c] = Joined(left, right, q)[p2][c]
               PROVE  p1 = p2
    BY DEF IsKey
  <1>1. \A c \in key : left[p1[1]][c] = left[p2[1]][c]
    BY JoinedRows
  <1>2. p1[1] = p2[1]
    BY <1>1, JoinedRows DEF IsKey
  <1> QED
    BY <1>2, JoinedRows

----------------------------------------------------------------------------
\* What a stage more leaves as it was.

LEMMA Appended ==
  ASSUME NEW s, s \in Seq(Range(s)), NEW e
  PROVE  /\ Append(s, e) \in Seq(Range(Append(s, e)))
         /\ DOMAIN s = 1..Len(s) /\ DOMAIN Append(s, e) = 1..(Len(s) + 1)
         /\ Len(s) \in Nat /\ Len(Append(s, e)) = Len(s) + 1
         /\ \A k \in DOMAIN s : Append(s, e)[k] = s[k]
         /\ Append(s, e)[Len(s) + 1] = e
  <1>1. s \in Seq(Range(s) \cup {e})
    BY SeqMonotonic, Range(s) \subseteq Range(s) \cup {e}
  <1>2. /\ DOMAIN s = 1..Len(s) /\ DOMAIN Append(s, e) = 1..(Len(s) + 1)
        /\ Len(s) \in Nat /\ Len(Append(s, e)) = Len(s) + 1
        /\ \A k \in DOMAIN s : Append(s, e)[k] = s[k]
        /\ Append(s, e)[Len(s) + 1] = e
    BY <1>1
  <1>3. Append(s, e) \in Seq(Range(s) \cup {e})
    BY <1>1
  <1>4. \A k \in 1..(Len(s) + 1) : Append(s, e)[k] \in Range(Append(s, e))
    BY <1>2 DEF Range
  <1>5. Append(s, e) \in Seq(Range(Append(s, e)))
    BY <1>2, <1>3, <1>4, SeqDef, ElementOfSeq
  <1> QED
    BY <1>2, <1>5

\* A name that a stage reads is that of the one stage it was built from.
LEMMA ReadStage ==
  ASSUME PlanShape, DistinctIds, NEW i \in DOMAIN stages
  PROVE  ReadCte(Here, stages[i].id) = stages[i].rows
  <1>1. i \in Named(Here, stages[i].id)
    BY DEF Named, Here, PlanShape
  <1>2. \A k \in Named(Here, stages[i].id) : k = i
    BY DEF Named, Here, PlanShape, DistinctIds
  <1> QED
    BY <1>1, <1>2 DEF ReadCte

\* A stage is added to the plan. What it computes has the key that the compiler
\* claims, and a join that is not to fan out declares each key of its right input
\* to be there once.
LEMMA StageStep ==
  ASSUME PlanInv, NEW id, NEW q, NEW columns, NEW twice, NEW grain, NEW sound,
         Stage(id, q, columns, twice, grain, sound),
         NEW in, in = [i \in DOMAIN q.from |-> ReadCte(Here, q.from[i])],
         sound /\ grain # {} => grain \subseteq columns /\ IsKey(grain, Evaluate(q, in)),
         q.op = "join" => {1, 2} \subseteq DOMAIN q.from,
         q.op = "join" /\ ~q.allow_fanout => q.cardinality \in {"one_to_one", "many_to_one"}
  PROVE  PlanInv'
  <1> DEFINE new == [id |-> id, sql |-> q, columns |-> columns, twice |-> twice, grain |-> grain,
                     sound |-> sound, rows |-> Evaluate(q, in)]
  <1>1. /\ phase = "planning" /\ UNCHANGED <<phase, output, temp, result>>
        /\ stages' = Append(stages, new)
        /\ Named(Here, id) = {}
    BY DEF Stage
  <1> HIDE DEF new
  <1>2. stages \in Seq(Range(stages))
    BY DEF PlanInv, PlanShape
  <1>3. /\ stages' \in Seq(Range(stages'))
        /\ DOMAIN stages = 1..Len(stages) /\ DOMAIN stages' = DOMAIN stages \cup {Here}
        /\ Len(stages) \in Nat /\ Here \notin DOMAIN stages
        /\ \A k \in DOMAIN stages : stages'[k] = stages[k]
        /\ stages'[Here] = new
    BY <1>1, <1>2, Appended DEF Here
  <1>4. PlanShape'
    BY <1>1, <1>3 DEF PlanInv, PlanShape, Range
  <1>5. DistinctIds'
    <2>1. \A k \in DOMAIN stages : stages[k].id # new.id
      BY <1>1, <1>3 DEF Named, Here, new
    <2> QED
      BY <1>3, <2>1 DEF PlanInv, DistinctIds
  <1>6. \A n \in DOMAIN stages' : \A name : ReadCte(n, name)' = ReadCte(n, name)
    <2>1. ASSUME NEW n \in DOMAIN stages', NEW name
          PROVE  /\ Named(n, name)' = Named(n, name)
                 /\ \A k \in Named(n, name) : stages'[k] = stages[k]
      <3>1. 1..(n - 1) \subseteq DOMAIN stages
        BY <1>3 DEF Here
      <3> QED
        BY <1>3, <3>1 DEF Named
    <2>2. ASSUME NEW n \in DOMAIN stages', NEW name
          PROVE  ReadCte(n, name)' = ReadCte(n, name)
      <3>1. CASE Named(n, name) = {}
        BY <2>1, <3>1 DEF ReadCte
      <3>2. CASE Named(n, name) # {}
        <4> DEFINE S == Named(n, name)
        <4>1. Named(n, name)' = S
          BY <2>1
        <4>2. \A k \in S : stages'[k] = stages[k]
          BY <2>1
        <4>3. ReadCte(n, name)' = stages'[CHOOSE k \in S : TRUE].rows
          BY <3>2, <4>1 DEF ReadCte
        <4>4. ReadCte(n, name) = stages[CHOOSE k \in S : TRUE].rows
          BY <3>2 DEF ReadCte
        <4>5. (CHOOSE k \in S : TRUE) \in S
          BY <3>2
        <4> QED
          BY <4>2, <4>3, <4>4, <4>5
      <3> QED
        BY <3>1, <3>2
    <2> QED
      BY <2>2
  <1>7. Compiled'
    <2>1. ASSUME NEW n \in DOMAIN stages
          PROVE  (stages[n].rows = Evaluate(stages[n].sql, Inputs(n)))'
      <3>1. Inputs(n)' = Inputs(n)
        BY <1>3, <1>6 DEF Inputs
      <3>2. stages[n].rows = Evaluate(stages[n].sql, Inputs(n))
        BY DEF PlanInv, Compiled
      <3> QED
        BY <1>3, <3>1, <3>2
    <2>2. ASSUME NEW n, n = Here
          PROVE  (stages[n].rows = Evaluate(stages[n].sql, Inputs(n)))'
      <3>1. stages'[n].sql = q /\ stages'[n].rows = Evaluate(q, in)
        BY <1>3, <2>2 DEF new
      <3>2. Inputs(n)' = in
        BY <1>3, <1>6, <2>2, <3>1 DEF Inputs
      <3> QED
        BY <3>1, <3>2
    <2> QED
      BY <1>3, <2>1, <2>2 DEF Compiled
  <1>8. Materialized' /\ ScratchMeansTheSame'
    BY <1>1 DEF PlanInv, Materialized, ScratchMeansTheSame
  <1>9. GrainIsAKey'
    BY <1>3 DEF PlanInv, GrainIsAKey, new
  <1>10. TrueJoinsKeepMeasures'
    <2> DEFINE Kept(rows, left, lc) ==
          \A i \in DOMAIN rows :
            /\ i[1] \in DOMAIN left
            /\ \A c \in lc : rows[i][c] = left[i[1]][c]
            /\ \A j \in DOMAIN rows : i[1] = j[1] => i = j
          Holds(n, s) ==
            /\ s.sql.op = "join" /\ ~s.sql.allow_fanout
            /\ TrueOf(s.sql.cardinality, ReadCte(n, s.sql.from[1]), s.sql.left_key,
                      ReadCte(n, s.sql.from[2]), s.sql.right_key)
            => Kept(s.rows, ReadCte(n, s.sql.from[1]), s.sql.left_columns)
    <2>1. ASSUME NEW n \in DOMAIN stages
          PROVE  Holds(n, stages[n])
      BY DEF PlanInv, TrueJoinsKeepMeasures, KeepsMeasures
    <2>2. Holds(Here, new)
      <3> SUFFICES ASSUME q.op = "join", ~q.allow_fanout,
                          TrueOf(q.cardinality, ReadCte(Here, q.from[1]), q.left_key,
                                 ReadCte(Here, q.from[2]), q.right_key)
                   PROVE  Kept(new.rows, ReadCte(Here, q.from[1]), q.left_columns)
        BY DEF new
      <3>1. new.rows = Joined(in[1], in[2], q)
        BY DEF Evaluate, new
      <3>2. in[1] = ReadCte(Here, q.from[1]) /\ in[2] = ReadCte(Here, q.from[2])
        OBVIOUS
      <3>3. Once(in[2], q.right_key)
        BY <3>2 DEF TrueOf
      <3> QED
        BY <3>1, <3>2, <3>3, JoinedRows
    <2> HIDE DEF Holds
    <2>3. ASSUME NEW n \in DOMAIN stages'
          PROVE  Holds(n, stages'[n])
      BY <1>3, <2>1, <2>2
    <2> USE DEF Holds
    <2> HIDE DEF Kept
    <2>4. ASSUME NEW n \in DOMAIN stages'
          PROVE  /\ stages'[n].sql.op = "join" /\ ~stages'[n].sql.allow_fanout
                 /\ TrueOf(stages'[n].sql.cardinality, ReadCte(n, stages[n].sql.from[1])',
                           stages'[n].sql.left_key, ReadCte(n, stages[n].sql.from[2])',
                           stages'[n].sql.right_key)
                 => Kept(stages'[n].rows, ReadCte(n, stages[n].sql.from[1])', stages'[n].sql.left_columns)
      <3>1. /\ ReadCte(n, stages[n].sql.from[1])' = ReadCte(n, stages'[n].sql.from[1])
            /\ ReadCte(n, stages[n].sql.from[2])' = ReadCte(n, stages'[n].sql.from[2])
        BY <1>6
      <3> QED
        BY <2>3, <3>1
    <2> QED
      BY <2>4 DEF TrueJoinsKeepMeasures, KeepsMeasures, Kept, TrueOf, Once
  <1> QED
    BY <1>4, <1>5, <1>7, <1>8, <1>9, <1>10 DEF PlanInv

----------------------------------------------------------------------------
\* Each stage type satisfies StageStep.

LEMMA ScanInv == ASSUME PlanInv, NEW id, Scan(id) PROVE PlanInv'
  <1> DEFINE True(s, grain) ==
        Named(Here, s.table) = {} /\ (grain = {} \/ IsKey(grain, Tables[s.table].rows))
  <1>0. PICK s \in Scans : \E grain \in SUBSET s.columns :
          Stage(id, [op |-> "scan", from |-> <<s.table>>, columns |-> s.columns],
                s.columns, {}, grain, True(s, grain))
    BY DEF Scan
  <1>1. PICK grain \in SUBSET s.columns :
          Stage(id, [op |-> "scan", from |-> <<s.table>>, columns |-> s.columns],
                s.columns, {}, grain, True(s, grain))
    BY <1>0
  <1> DEFINE q == [op |-> "scan", from |-> <<s.table>>, columns |-> s.columns]
             in == [m \in DOMAIN q.from |-> ReadCte(Here, q.from[m])]
  <1>2. in[1] = ReadCte(Here, s.table) /\ Evaluate(q, in) = Project(in[1], s.columns)
    BY DEF Evaluate
  <1>3. True(s, grain) => in[1] = Tables[s.table].rows
    BY <1>2 DEF ReadCte
  <1>4. True(s, grain) /\ grain # {} => grain \subseteq s.columns /\ IsKey(grain, Evaluate(q, in))
    BY <1>2, <1>3, ProjectKeepsKey
  <1>5. q.op # "join"
    OBVIOUS
  <1> HIDE DEF q, in, True
  <1>6. Stage(id, q, s.columns, {}, grain, True(s, grain))
    BY <1>1 DEF q
  <1>7. in = [m \in DOMAIN q.from |-> ReadCte(Here, q.from[m])]
    BY DEF in
  <1> QED
    BY <1>4, <1>5, <1>6, <1>7, StageStep

LEMMA FilterInv == ASSUME PlanInv, NEW id, Filter(id) PROVE PlanInv'
  <1>1. PICK i \in DOMAIN stages : \E c, v :
          Stage(id, [op |-> "filter", from |-> <<stages[i].id>>, column |-> c, value |-> v],
                stages[i].columns, stages[i].twice, stages[i].grain, stages[i].sound)
    BY DEF Filter
  <1>2. PICK c, v :
          Stage(id, [op |-> "filter", from |-> <<stages[i].id>>, column |-> c, value |-> v],
                stages[i].columns, stages[i].twice, stages[i].grain, stages[i].sound)
    BY <1>1
  <1> DEFINE q == [op |-> "filter", from |-> <<stages[i].id>>, column |-> c, value |-> v]
             in == [m \in DOMAIN q.from |-> ReadCte(Here, q.from[m])]
             kept == {k \in DOMAIN in[1] : in[1][k][c] = v}
  <1>3. in[1] = stages[i].rows
    BY ReadStage DEF PlanInv
  <1>4. Evaluate(q, in) = Restrict(in[1], kept)
    BY DEF Evaluate
  <1>5. stages[i].sound /\ stages[i].grain # {} =>
          stages[i].grain \subseteq stages[i].columns /\ IsKey(stages[i].grain, in[1])
    BY <1>3 DEF PlanInv, GrainIsAKey
  <1>6. stages[i].sound /\ stages[i].grain # {} =>
          stages[i].grain \subseteq stages[i].columns /\ IsKey(stages[i].grain, Evaluate(q, in))
    <2>1. kept \subseteq DOMAIN in[1]
      OBVIOUS
    <2> HIDE DEF q, in, kept
    <2> QED
      BY <1>4, <1>5, <2>1, RestrictKeepsKey
  <1>7. q.op # "join"
    OBVIOUS
  <1> HIDE DEF q, in, kept
  <1>8. Stage(id, q, stages[i].columns, stages[i].twice, stages[i].grain, stages[i].sound)
    BY <1>2 DEF q
  <1>9. in = [m \in DOMAIN q.from |-> ReadCte(Here, q.from[m])]
    BY DEF in
  <1> QED
    BY <1>6, <1>7, <1>8, <1>9, StageStep

LEMMA JoinInv == ASSUME PlanInv, NEW id, Join(id) PROVE PlanInv'
  <1>1. PICK i \in DOMAIN stages, k \in DOMAIN stages : LET l == stages[i]  r == stages[k] IN
          \E lk \in l.columns \ l.twice, rk \in r.columns \ r.twice, how \in {"inner", "left"},
             cardinality \in {"one_to_one", "many_to_one", "one_to_many"}, allow \in BOOLEAN :
            /\ MayFanOut(cardinality, allow)
            /\ l.columns \cap r.columns = {}
            /\ Stage(id, [op |-> "join", from |-> <<l.id, r.id>>, left_key |-> lk, right_key |-> rk,
                          how |-> how, left_columns |-> l.columns, right_columns |-> r.columns,
                          cardinality |-> cardinality, allow_fanout |-> allow],
                     l.columns \cup r.columns, l.twice \cup r.twice, JoinGrain(cardinality, l.grain),
                     l.sound /\ TrueOf(cardinality, l.rows, lk, r.rows, rk))
    BY DEF Join
  <1> DEFINE l == stages[i]  r == stages[k]
  <1>2. PICK lk \in l.columns \ l.twice, rk \in r.columns \ r.twice, how \in {"inner", "left"},
             cardinality \in {"one_to_one", "many_to_one", "one_to_many"}, allow \in BOOLEAN :
            /\ MayFanOut(cardinality, allow)
            /\ l.columns \cap r.columns = {}
            /\ Stage(id, [op |-> "join", from |-> <<l.id, r.id>>, left_key |-> lk, right_key |-> rk,
                          how |-> how, left_columns |-> l.columns, right_columns |-> r.columns,
                          cardinality |-> cardinality, allow_fanout |-> allow],
                     l.columns \cup r.columns, l.twice \cup r.twice, JoinGrain(cardinality, l.grain),
                     l.sound /\ TrueOf(cardinality, l.rows, lk, r.rows, rk))
    BY <1>1
  <1> DEFINE q == [op |-> "join", from |-> <<l.id, r.id>>, left_key |-> lk, right_key |-> rk,
                   how |-> how, left_columns |-> l.columns, right_columns |-> r.columns,
                   cardinality |-> cardinality, allow_fanout |-> allow]
             in == [m \in DOMAIN q.from |-> ReadCte(Here, q.from[m])]
             grain == JoinGrain(cardinality, l.grain)
             sound == l.sound /\ TrueOf(cardinality, l.rows, lk, r.rows, rk)
  <1>3. in[1] = l.rows /\ in[2] = r.rows
    BY ReadStage DEF PlanInv
  <1>4. /\ Evaluate(q, in) = Joined(in[1], in[2], q)
        /\ q.right_key = rk /\ q.left_columns = l.columns
        /\ q.cardinality = cardinality /\ q.allow_fanout = allow
    BY DEF Evaluate
  <1>5. q.op = "join" /\ ~q.allow_fanout => q.cardinality \in {"one_to_one", "many_to_one"}
    BY <1>2, <1>4 DEF MayFanOut
  <1>6. ASSUME sound, grain # {}
        PROVE  grain \subseteq l.columns \cup r.columns /\ IsKey(grain, Evaluate(q, in))
    <2>1. grain = l.grain /\ cardinality \in {"one_to_one", "many_to_one"}
      BY <1>6 DEF JoinGrain
    <2>2. Once(in[2], q.right_key)
      BY <1>3, <1>4, <1>6, <2>1 DEF TrueOf
    <2>3. grain \subseteq l.columns /\ IsKey(grain, in[1])
      BY <1>3, <1>6, <2>1 DEF PlanInv, GrainIsAKey
    <2> QED
      BY <1>4, <2>2, <2>3, JoinKeepsKey
  <1>7. {1, 2} \subseteq DOMAIN q.from
    OBVIOUS
  <1>8. Stage(id, q, l.columns \cup r.columns, l.twice \cup r.twice, grain, sound)
    BY <1>2
  <1>9. in = [m \in DOMAIN q.from |-> ReadCte(Here, q.from[m])]
    OBVIOUS
  <1> HIDE DEF q, in, grain, sound
  <1> QED
    BY <1>5, <1>6, <1>7, <1>8, <1>9, StageStep

LEMMA AggregateInv == ASSUME PlanInv, NEW id, Aggregate(id) PROVE PlanInv'
  <1>1. PICK i \in DOMAIN stages : \E group_by, measures, twice :
          Stage(id, [op |-> "aggregate", from |-> <<stages[i].id>>, group_by |-> group_by,
                     measures |-> measures],
                group_by \cup Selected(measures), twice, group_by,
                group_by \cap Selected(measures) = {})
    BY DEF Aggregate
  <1>2. PICK group_by, measures, twice :
          Stage(id, [op |-> "aggregate", from |-> <<stages[i].id>>, group_by |-> group_by,
                     measures |-> measures],
                group_by \cup Selected(measures), twice, group_by,
                group_by \cap Selected(measures) = {})
    BY <1>1
  <1> DEFINE q == [op |-> "aggregate", from |-> <<stages[i].id>>, group_by |-> group_by,
                   measures |-> measures]
             in == [m \in DOMAIN q.from |-> ReadCte(Here, q.from[m])]
  <1>3. /\ Evaluate(q, in) = Grouped(in[1], q)
        /\ q.group_by = group_by /\ q.measures = measures /\ q.op # "join"
    BY DEF Evaluate
  <1> HIDE DEF q, in
  <1> DEFINE sound == group_by \cap Selected(measures) = {}
             columns == group_by \cup Selected(measures)
  <1>4. sound /\ group_by # {} => group_by \subseteq columns /\ IsKey(group_by, Evaluate(q, in))
    BY <1>3, GroupsAreKeyed
  <1>5. Stage(id, q, columns, twice, group_by, sound)
    BY <1>2 DEF q
  <1>6. in = [m \in DOMAIN q.from |-> ReadCte(Here, q.from[m])]
    BY DEF in
  <1> HIDE DEF sound, columns
  <1> QED
    BY <1>3, <1>4, <1>5, <1>6, StageStep

LEMMA UnionAllInv == ASSUME PlanInv, NEW id, UnionAll(id) PROVE PlanInv'
  <1>1. PICK i \in DOMAIN stages, k \in DOMAIN stages :
          Stage(id, [op |-> "union_all", from |-> <<stages[i].id, stages[k].id>>],
                stages[i].columns, {},
                IF stages[i].grain = stages[k].grain THEN stages[i].grain ELSE {}, FALSE)
    BY DEF UnionAll
  <1> DEFINE q == [op |-> "union_all", from |-> <<stages[i].id, stages[k].id>>]
             in == [m \in DOMAIN q.from |-> ReadCte(Here, q.from[m])]
             grain == IF stages[i].grain = stages[k].grain THEN stages[i].grain ELSE {}
  <1>2. q.op # "join"
    OBVIOUS
  <1> HIDE DEF q, in, grain
  <1>3. Stage(id, q, stages[i].columns, {}, grain, FALSE)
    BY <1>1 DEF q, grain
  <1>4. in = [m \in DOMAIN q.from |-> ReadCte(Here, q.from[m])]
    BY DEF in
  <1> QED
    BY <1>2, <1>3, <1>4, StageStep

LEMMA DeriveInv == ASSUME PlanInv, NEW id, Derive(id) PROVE PlanInv'
  <1> DEFINE Query(s, c, keep, window, alias) ==
               [op |-> "derive", from |-> <<s.id>>, column |-> c, columns |-> s.columns,
                keep |-> keep, window |-> window, alias |-> alias]
             Columns(s, keep, alias) == (IF keep THEN s.columns ELSE {}) \cup {alias}
             Twice(s, keep, alias) == IF keep THEN s.twice \cup (s.columns \cap {alias}) ELSE {}
  <1>1. PICK i \in DOMAIN stages :
          \E c \in stages[i].columns \ stages[i].twice, keep \in BOOLEAN, window \in BOOLEAN, alias \in Aliases :
          Stage(id, Query(stages[i], c, keep, window, alias), Columns(stages[i], keep, alias),
                Twice(stages[i], keep, alias), stages[i].grain,
                stages[i].sound /\ keep /\ alias \notin stages[i].grain)
    BY Zenon DEF Derive
  <1> DEFINE s == stages[i]
  <1>2. PICK c \in s.columns \ s.twice, keep \in BOOLEAN, window \in BOOLEAN, alias \in Aliases :
          Stage(id, Query(s, c, keep, window, alias), Columns(s, keep, alias),
                Twice(s, keep, alias), s.grain, s.sound /\ keep /\ alias \notin s.grain)
    BY <1>1
  <1> DEFINE q == Query(s, c, keep, window, alias)
             in == [m \in DOMAIN q.from |-> ReadCte(Here, q.from[m])]
             sound == s.sound /\ keep /\ alias \notin s.grain
  <1>3. in[1] = s.rows
    BY ReadStage DEF PlanInv
  <1>4. /\ Evaluate(q, in) = Derived(in[1], q)
        /\ q.keep = keep /\ q.columns = s.columns /\ q.alias = alias /\ q.op # "join"
    BY DEF Evaluate
  <1>5. ASSUME sound, s.grain # {}
        PROVE  s.grain \subseteq Columns(s, keep, alias) /\ IsKey(s.grain, Evaluate(q, in))
    <2>1. s.grain \subseteq s.columns /\ IsKey(s.grain, in[1])
      BY <1>3, <1>5 DEF PlanInv, GrainIsAKey
    <2>2. keep /\ alias \notin s.grain
      BY <1>5
    <2>3. s.grain \subseteq Columns(s, keep, alias)
      BY <2>1, <2>2
    <2>4. q.keep /\ s.grain \subseteq q.columns /\ q.alias \notin s.grain
      BY <1>4, <2>1, <2>2
    <2> HIDE DEF q, in, s, Columns
    <2>5. IsKey(s.grain, Derived(in[1], q))
      BY <2>1, <2>4, DeriveKeepsKey
    <2> QED
      BY <1>4, <2>3, <2>5
  <1>6. Stage(id, q, Columns(s, keep, alias), Twice(s, keep, alias), s.grain, sound)
    BY <1>2
  <1>7. in = [m \in DOMAIN q.from |-> ReadCte(Here, q.from[m])]
    OBVIOUS
  <1> HIDE DEF q, in, sound, Columns, Twice
  <1> QED
    BY <1>4, <1>5, <1>6, <1>7, StageStep

----------------------------------------------------------------------------
\* The plan is run.

\* When no two names differ in their case only, a query over temporary tables
\* finds each name where the query of CTEs finds it, and computes the same.
LEMMA SameQuery ==
  ASSUME PlanInv, phase = "running", OneCase, NextStage <= output
  PROVE  Computed(NextStage) = stages[NextStage].rows
  <1> DEFINE n == NextStage  from == stages[n].sql.from
  <1>1. /\ temp \in Seq(Range(temp)) /\ Len(temp) \in Nat /\ DOMAIN temp = 1..Len(temp)
        /\ stages \in Seq(Range(stages)) /\ Len(stages) \in Nat /\ DOMAIN stages = 1..Len(stages)
    BY DEF PlanInv, PlanShape
  <1>2. n = Len(temp) + 1 /\ n \in DOMAIN stages /\ 1..(n - 1) = DOMAIN temp
        /\ 1..(n - 1) \subseteq DOMAIN stages
    BY <1>1 DEF PlanInv, Materialized, NextStage
  <1>3. \A k \in DOMAIN temp : temp[k] = stages[k].rows
    BY DEF PlanInv, Materialized
  <1> HIDE DEF n
  <1>4. ASSUME NEW i \in DOMAIN from
        PROVE  ReadScratch(n, from[i]) = ReadCte(n, from[i])
    <2>1. Rewritten(n, from[i]) = Named(n, from[i])
      <3> DEFINE names == UNION {{stages[k].id} \cup {stages[k].sql.from[j] :
                                    j \in DOMAIN stages[k].sql.from} : k \in DOMAIN stages}
      <3>1. from[i] \in names
        BY <1>2
      <3>2. \A k \in 1..(n - 1) : stages[k].id \in names
        BY <1>2
      <3>3. \A k \in 1..(n - 1) : LowerCase[stages[k].id] = LowerCase[from[i]] => stages[k].id = from[i]
        BY <3>1, <3>2 DEF OneCase
      <3> QED
        BY <3>3 DEF Rewritten, Named
    <2>2. CASE Named(n, from[i]) = {}
      BY <2>1, <2>2 DEF ReadScratch, ReadCte
    <2>3. CASE Named(n, from[i]) # {}
      <3>1. PICK k \in 1..(n - 1) : stages[k].id = from[i]
        BY <2>3 DEF Named
      <3>2. Named(n, from[i]) = {k}
        BY <1>2, <3>1 DEF Named, PlanInv, DistinctIds
      <3>3. ReadCte(n, from[i]) = stages[k].rows
        BY <3>2 DEF ReadCte
      <3>4. Min({k}) = k
        BY <1>1, <1>2, <3>1 DEF Min
      <3>5. ReadScratch(n, from[i]) = temp[k]
        BY <2>1, <3>2, <3>4 DEF ReadScratch
      <3> QED
        BY <1>2, <1>3, <3>1, <3>3, <3>5
    <2> QED
      BY <2>2, <2>3
  <1>5. Computed(n) = Evaluate(stages[n].sql, Inputs(n))
    BY <1>4 DEF Computed, Inputs
  <1> QED
    BY <1>2, <1>5 DEF PlanInv, Compiled, n

\* What LIMIT leaves is the whole relation or one row more than may be kept.
LEMMA LimitedIsWhole ==
  ASSUME NEW rows, NEW kept \in Limited(rows), ~(Size(kept) > max_rows)
  PROVE  kept = rows
  <1>1. CASE Size(rows) <= Limit
    BY <1>1 DEF Limited
  <1>2. CASE ~(Size(rows) <= Limit)
    <2>1. PICK ids \in kSubset(Limit, DOMAIN rows) : kept = Restrict(rows, ids)
      BY <1>2 DEF Limited
    <2>2. Cardinality(ids) = Limit
      BY <2>1 DEF kSubset
    <2>3. Size(kept) = max_rows + 1
      BY <2>1, <2>2 DEF Size, Restrict, Limit
    <2> QED
      BY <2>3, PlanAssumption
  <1> QED
    BY <1>1, <1>2

LEMMA SamePlan ==
  ASSUME PlanInv, UNCHANGED stages
  PROVE  /\ DistinctIds' /\ Compiled' /\ GrainIsAKey' /\ TrueJoinsKeepMeasures'
         /\ OneCase' <=> OneCase
  <1>1. DistinctIds' /\ GrainIsAKey'
    BY DEF PlanInv, DistinctIds, GrainIsAKey
  <1>2. \A n, name : ReadCte(n, name)' = ReadCte(n, name)
    BY DEF ReadCte, Named
  <1>3. Compiled'
    BY <1>2 DEF PlanInv, Compiled, Inputs
  <1>4. TrueJoinsKeepMeasures'
    BY <1>2 DEF PlanInv, TrueJoinsKeepMeasures, KeepsMeasures
  <1>5. OneCase' <=> OneCase
    BY DEF OneCase
  <1> QED
    BY <1>1, <1>3, <1>4, <1>5

LEMMA CompileScratchInv == ASSUME PlanInv, CompileScratch PROVE PlanInv'
  <1>1. /\ temp = <<>> /\ temp' = temp /\ stages' = stages
        /\ phase' = "running" /\ output' \in DOMAIN stages /\ output' > 0
    BY DEF PlanInv, PlanShape, Materialized, CompileScratch
  <1>2. PlanShape' /\ Materialized' /\ ScratchMeansTheSame'
    BY <1>1 DEF PlanInv, PlanShape, Materialized, ScratchMeansTheSame
  <1> QED
    BY <1>1, <1>2, SamePlan DEF PlanInv

LEMMA MaterializeInv == ASSUME PlanInv, Materialize PROVE PlanInv'
  <1>1. /\ phase = "running" /\ NextStage < output
        /\ stages' = stages /\ output' = output
    BY DEF Materialize
  <1>2. PICK rows \in Limited(Computed(NextStage)) :
          IF Size(rows) > max_rows
          THEN phase' = "failed" /\ temp' = <<>>
          ELSE temp' = Append(temp, rows) /\ UNCHANGED phase
    BY DEF Materialize
  <1>3. CASE Size(rows) > max_rows
    <2>1. phase' = "failed" /\ temp' = <<>>
      BY <1>2, <1>3
    <2>2. PlanShape' /\ Materialized' /\ ScratchMeansTheSame'
      BY <1>1, <2>1 DEF PlanInv, PlanShape, Materialized, ScratchMeansTheSame
    <2> QED
      BY <1>1, <2>2, SamePlan DEF PlanInv
  <1>4. CASE ~(Size(rows) > max_rows)
    <2>1. temp' = Append(temp, rows) /\ phase' = "running" /\ rows = Computed(NextStage)
      BY <1>1, <1>2, <1>4, LimitedIsWhole
    <2>2. temp \in Seq(Range(temp))
      BY DEF PlanInv, PlanShape
    <2>3. /\ temp' \in Seq(Range(temp')) /\ Len(temp') = Len(temp) + 1
          /\ DOMAIN temp = 1..Len(temp) /\ DOMAIN temp' = 1..(Len(temp) + 1)
          /\ Len(temp) \in Nat
          /\ \A k \in DOMAIN temp : temp'[k] = temp[k]
          /\ temp'[Len(temp) + 1] = rows
      BY <2>1, <2>2, Appended
    <2>4. PlanShape'
      BY <1>1, <2>1, <2>3 DEF PlanInv, PlanShape
    <2>5. output \in DOMAIN stages /\ DOMAIN stages \subseteq Nat
      BY <1>1 DEF PlanInv, PlanShape, Materialized
    <2>6. ASSUME OneCase
          PROVE  \A k \in DOMAIN temp' : temp'[k] = stages[k].rows
      <3>1. \A k \in DOMAIN temp : temp[k] = stages[k].rows
        BY <1>1, <2>6 DEF PlanInv, Materialized
      <3>2. rows = stages[Len(temp) + 1].rows
        BY <1>1, <2>1, <2>3, <2>5, <2>6, SameQuery DEF NextStage
      <3> QED
        BY <2>3, <3>1, <3>2
    <2>7. Materialized'
      BY <1>1, <2>1, <2>3, <2>5, <2>6, SamePlan DEF Materialized, NextStage
    <2>8. ScratchMeansTheSame'
      BY <2>1 DEF ScratchMeansTheSame
    <2> QED
      BY <1>1, <2>4, <2>7, <2>8, SamePlan DEF PlanInv
  <1> QED
    BY <1>3, <1>4

LEMMA AnswerInv == ASSUME PlanInv, Answer PROVE PlanInv'
  <1>1. /\ phase = "running" /\ NextStage = output /\ result' = Computed(NextStage)
        /\ phase' = "answered" /\ temp' = <<>> /\ stages' = stages /\ output' = output
    BY DEF Answer
  <1>2. output \in Nat
    BY <1>1 DEF PlanInv, PlanShape, Materialized
  <1>3. OneCase => result' = stages[output].rows
    BY <1>1, <1>2, SameQuery
  <1>4. PlanShape' /\ Materialized'
    BY <1>1 DEF PlanInv, PlanShape, Materialized
  <1>5. ScratchMeansTheSame'
    BY <1>1, <1>3, SamePlan DEF ScratchMeansTheSame
  <1> QED
    BY <1>1, <1>4, <1>5, SamePlan DEF PlanInv

LEMMA FailInv == ASSUME PlanInv, Fail PROVE PlanInv'
  <1>1. phase' = "failed" /\ temp' = <<>> /\ stages' = stages /\ output' = output
    BY DEF Fail
  <1>2. PlanShape' /\ Materialized' /\ ScratchMeansTheSame'
    BY <1>1 DEF PlanInv, PlanShape, Materialized, ScratchMeansTheSame
  <1> QED
    BY <1>1, <1>2, SamePlan DEF PlanInv

LEMMA StutterInv == ASSUME PlanInv, UNCHANGED planVars PROVE PlanInv'
  <1>1. PlanShape' /\ Materialized' /\ ScratchMeansTheSame'
    BY SamePlan DEF planVars, PlanInv, PlanShape, Materialized, ScratchMeansTheSame
  <1> QED
    BY <1>1, SamePlan DEF planVars, PlanInv

LEMMA PlanInitInv == PlanInit => PlanInv
  <1> SUFFICES ASSUME PlanInit PROVE PlanInv
    OBVIOUS
  <1>1. stages = <<>> /\ temp = <<>> /\ phase = "planning" /\ DOMAIN stages = {}
    BY DEF PlanInit
  <1>2. PlanShape
    BY <1>1 DEF PlanShape
  <1>3. DistinctIds /\ Compiled
    BY <1>1 DEF DistinctIds, Compiled
  <1>4. Materialized /\ ScratchMeansTheSame
    BY <1>1 DEF Materialized, ScratchMeansTheSame
  <1>5. GrainIsAKey /\ TrueJoinsKeepMeasures
    BY <1>1 DEF GrainIsAKey, TrueJoinsKeepMeasures
  <1> QED
    BY <1>2, <1>3, <1>4, <1>5 DEF PlanInv

LEMMA PlanInvariance == PlanSpec => []PlanInv
  <1>1. ASSUME PlanInv, NEW id, Extend(id)
        PROVE  PlanInv'
    BY <1>1, ScanInv, FilterInv, JoinInv, AggregateInv, UnionAllInv, DeriveInv DEF Extend
  <1>2. PlanInv /\ [PlanNext]_planVars => PlanInv'
    BY <1>1, CompileScratchInv, MaterializeInv, AnswerInv, FailInv, StutterInv DEF PlanNext
  <1> QED
    BY <1>2, PlanInitInv, PTL DEF PlanSpec

\* Whatever is joined, filtered, summed up or derived along the way, and whatever
\* rows the tables have, the grain that the compiler gives a stage is a key of it, if
\* what the plan declares up to there is true of the data: the exceptions, which the
\* compiler does not look at, are those of GrainIsAKey.
THEOREM GrainsAreKeys == PlanSpec => []GrainIsAKey
  <1> QED
    BY PlanInvariance, PTL DEF PlanInv

\* No join repeats a row of its left input unless the plan allows it to or declares
\* of the two stages it reads what is not true of them.
THEOREM TrueJoinsDoNotRepeat == PlanSpec => []TrueJoinsKeepMeasures
  <1> QED
    BY PlanInvariance, PTL DEF PlanInv

\* The plan that was explained and the plan that was run give the same answer,
\* with any limit on the rows of a stage.
THEOREM CompilationsAgree == PlanSpec => []ScratchMeansTheSame
  <1> QED
    BY PlanInvariance, PTL DEF PlanInv
=============================================================================
