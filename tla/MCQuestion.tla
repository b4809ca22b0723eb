------------------------------ MODULE MCQuestion ------------------------------
(****************************************************************************)
(* The pipeline that answers a question (QueryAgent, with a small repair    *)
(* budget) and the analytical plans it compiles and runs (AnalyticalPlan).  *)
(* Which plan it is does not matter to the pipeline, and the plan is        *)
(* compiled and run within one node of it, so the two are explored one      *)
(* beside the other: each while the other has not begun.                    *)
(****************************************************************************)
EXTENDS MCAnalyticalPlan, QueryAgent

QuestionInit == Init /\ PlanInit

NoPlan == PlanInit /\ UNCHANGED planVars

NoQuestion == Init /\ st.llm /\ ~st.read_only /\ UNCHANGED vars

MCNames == {MCDefault[i] : i \in {Len(stages) + 1} \cap DOMAIN MCDefault} \cup MCIds

QuestionNext ==
  \/ Router /\ NoPlan
  \/ Loader /\ NoPlan
  \/ Telemetry /\ NoPlan
  \/ Planner /\ NoPlan
  \/ SqlGenerator /\ NoPlan
  \/ Validator /\ NoPlan
  \/ Explainer /\ NoPlan
  \/ Executor /\ NoPlan
  \/ Invariants /\ NoPlan
  \/ Critic /\ NoPlan
  \/ Optimizer /\ NoPlan
  \/ ReactRepair /\ NoPlan
  \/ Persist /\ NoPlan
  \/ Raise /\ NoPlan
  \/ \E id \in MCNames : Length(id) <= MaxStages /\ Scan(id) /\ NoQuestion
  \/ \E id \in MCNames : Length(id) <= MaxStages /\ Filter(id) /\ NoQuestion
  \/ \E id \in MCNames : Length(id) <= MaxStages /\ Join(id) /\ NoQuestion
  \/ \E id \in MCNames : Length(id) <= MaxStages /\ Aggregate(id) /\ NoQuestion
  \/ \E id \in MCNames : Length(id) <= MaxStages /\ UnionAll(id) /\ NoQuestion
  \/ \E id \in MCNames : Length(id) <= MaxStages /\ Derive(id) /\ NoQuestion
  \/ CompileScratch /\ NoQuestion
  \/ Materialize /\ NoQuestion
  \/ Answer /\ NoQuestion
  \/ Fail /\ NoQuestion

QuestionSpec == QuestionInit /\ [][QuestionNext]_<<vars, planVars>>
=============================================================================
