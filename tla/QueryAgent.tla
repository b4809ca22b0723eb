------------------------------ MODULE QueryAgent ------------------------------
(****************************************************************************)
(* The LangGraph pipeline that answers one question                         *)
(* (QueryAgent.run of sqlagent/query_agent/graph.py). One action is one     *)
(* superstep: a node runs and its partial update is merged into the graph's *)
(* state `st`, keys it does not return keeping their old value; then the    *)
(* conditional edge picks the next node.                                    *)
(*                                                                          *)
(* A query is abstracted to the number of its draft: every SQL the model    *)
(* writes or repairs is a new draft. The optimizer only adopts a rewrite    *)
(* that EXCEPT ALL finds equal, so a draft stands for all its rewrites.     *)
(****************************************************************************)
EXTENDS Integers

CONSTANTS
  REACT_MAX_ATTEMPTS,      \* repair budget
  REACT_OPTIMIZE_PASSES    \* passes of the optimizer

ASSUME AgentAssumption ==
  REACT_MAX_ATTEMPTS \in Nat /\ REACT_OPTIMIZE_PASSES \in Nat

VARIABLES
  node,    \* the node about to run, "end" when the graph is left
  steps,   \* supersteps taken, that of __start__ included
  st       \* QueryState

vars == <<node, steps, st>>

Nodes == {"router", "loader", "telemetry", "planner", "sql_generator", "validator",
          "explain_gate", "react_repair", "execute", "invariant_check", "critic",
          "optimizer", "persist", "end"}

Errors == {"none", "generation", "plan", "lint", "explain", "execution", "critic",
           "unchanged", "unassembled", "exhausted", "no_llm", "repair_failed", "raised"}

QueryState ==
  [llm : BOOLEAN, read_only : BOOLEAN,   \* how the agent was built
   template : BOOLEAN,          \* the router picked a template
   clarification : BOOLEAN,     \* the question is ambiguous
   drafts : Nat,                \* queries written so far
   sql : Nat,                   \* the draft in `sql`; 0 is absent, as below
   spec : BOOLEAN,              \* a JSON plan stands behind it
   scratch : Nat,               \* the draft of scratch_stages and scratch_final
   llm_used : BOOLEAN,
   validated : Nat,             \* the draft the validator last let through
   explain : Nat,               \* the draft `explain` is the estimate of
   result : Nat,                \* the draft `result` was computed by
   critic : {"none", "answered", "rejected"}, judged : Nat,
   critic_rejected : BOOLEAN,
   react_attempts : Nat, react_repair_ready : BOOLEAN, react_retry : BOOLEAN,
   error : Errors,
   learned : Nat]               \* the draft _learn_template wrote to the skill

recursion_limit == 16 + REACT_MAX_ATTEMPTS * 6 + REACT_OPTIMIZE_PASSES * 2

Init ==
  /\ node = "router"
  /\ steps = 1
  /\ \E l, r \in BOOLEAN :
       st = [llm |-> l, read_only |-> r, template |-> FALSE, clarification |-> FALSE,
             drafts |-> 0, sql |-> 0, spec |-> FALSE, scratch |-> 0, llm_used |-> FALSE,
             validated |-> 0, explain |-> 0, result |-> 0,
             critic |-> "none", judged |-> 0, critic_rejected |-> FALSE,
             react_attempts |-> 0, react_repair_ready |-> FALSE, react_retry |-> FALSE,
             error |-> "none", learned |-> 0]

Run(n) == node = n /\ steps' = steps + 1

\* The model picks a template, or there is none (or no model to ask).
Router ==
  /\ Run("router")
  /\ \E t \in BOOLEAN : (t => st.llm) /\ st' = [st EXCEPT !.template = t]
  /\ node' = "loader"

Loader == Run("loader") /\ node' = "telemetry" /\ UNCHANGED st

\* detect_ambiguity.
Telemetry ==
  /\ Run("telemetry")
  /\ \E c \in BOOLEAN : st' = [st EXCEPT !.clarification = c]
  /\ node' = "planner"

Planner ==
  /\ Run("planner")
  /\ node' = IF st.clarification THEN "persist" ELSE "sql_generator"
  /\ UNCHANGED st

New == st.drafts + 1

\* _scratch_model_plan merged into the state: a plan that materializes sets both
\* keys, any other returns {} and leaves what an earlier plan put there.
Scratch(materialize) == IF materialize THEN New ELSE st.scratch

\* sql_generator, one disjunct per return: the template's text, an assembled
\* plan, a plan that does not assemble, free-form SQL, a model error, no model.
SqlGenerator ==
  /\ Run("sql_generator")
  /\ \/ /\ st.template
        /\ st' = [st EXCEPT !.drafts = New, !.sql = New, !.llm_used = FALSE]
     \/ /\ st.llm
        /\ \E m \in BOOLEAN :
             st' = [st EXCEPT !.drafts = New, !.sql = New, !.spec = TRUE,
                              !.llm_used = TRUE, !.scratch = Scratch(m)]
     \/ /\ st.llm
        /\ st' = [st EXCEPT !.spec = TRUE, !.error = "plan", !.llm_used = TRUE]
     \/ /\ st.llm
        /\ st' = [st EXCEPT !.drafts = New, !.sql = New, !.llm_used = TRUE]
     \/ st' = [st EXCEPT !.error = IF st.llm THEN "generation" ELSE "no_llm",
                         !.llm_used = FALSE]
  /\ node' = "validator"

OrRepair(n) == node' = IF st'.error # "none" THEN "react_repair" ELSE n

\* validate_read_only and lint_sql, of `sql` only.
Validator ==
  /\ Run("validator")
  /\ \/ st.error # "none" /\ UNCHANGED st
     \/ /\ st.error = "none"
        /\ \/ st' = [st EXCEPT !.validated = st.sql]
           \/ st' = [st EXCEPT !.error = "lint"]
  /\ OrRepair("explain_gate")

\* EXPLAIN, again of `sql` only.
Explainer ==
  /\ Run("explain_gate")
  /\ \/ st.error # "none" /\ UNCHANGED st
     \/ /\ st.error = "none"
        /\ \/ st' = [st EXCEPT !.explain = st.sql]
           \/ st' = [st EXCEPT !.error = "explain"]
  /\ OrRepair("execute")

\* What the executor runs: the scratch plan when there is one.
Executed == IF st.scratch # 0 THEN st.scratch ELSE st.sql

Executor ==
  /\ Run("execute")
  /\ \/ st.error # "none" /\ UNCHANGED st
     \/ /\ st.error = "none"
        /\ \/ st' = [st EXCEPT !.result = Executed]
           \/ st' = [st EXCEPT !.error = "execution"]
  /\ OrRepair("invariant_check")

\* A failed invariant is reported and changes nothing else.
Invariants == Run("invariant_check") /\ node' = "critic" /\ UNCHANGED st

\* The critic accepts (also when its model is unavailable) or rejects.
Critic ==
  /\ Run("critic")
  /\ \/ st.error # "none" /\ UNCHANGED st
     \/ /\ st.error = "none"
        /\ \/ st' = [st EXCEPT !.critic = "answered", !.judged = st.sql]
           \/ st' = [st EXCEPT !.critic = "rejected", !.judged = st.sql,
                               !.critic_rejected = TRUE, !.error = "critic"]
  /\ node' = IF st'.critic_rejected THEN "react_repair" ELSE "optimizer"

\* Mutated form of Optimizer: the rewrite is adopted without the comparison.
OptimizerUnchecked ==
  /\ Run("optimizer")
  /\ \/ UNCHANGED st
     \/ /\ st.error = "none" /\ st.llm /\ REACT_OPTIMIZE_PASSES > 0
        /\ st' = [st EXCEPT !.drafts = New, !.sql = New, !.result = New, !.llm_used = TRUE]
  /\ node' = "persist"

\* A slow answer may be replaced by that of a rewrite, equal to `sql` by
\* EXCEPT ALL, that was validated, explained and executed; whatever fails keeps
\* the old answer.
Optimizer ==
  /\ Run("optimizer")
  /\ \/ UNCHANGED st
     \/ /\ st.error = "none" /\ ~st.critic_rejected /\ st.llm
        /\ REACT_OPTIMIZE_PASSES > 0
        /\ st' = [st EXCEPT !.explain = st.sql, !.validated = st.sql,
                            !.result = st.sql, !.llm_used = TRUE]
  /\ node' = "persist"

\* The repair ends the loop with an error.
Stop(e) ==
  /\ st' = [st EXCEPT !.react_attempts = @ + 1, !.react_repair_ready = FALSE,
                      !.react_retry = FALSE, !.error = e]
  /\ node' = "persist"

\* The repair observes another error and is tried again.
Again(e) ==
  /\ st' = [st EXCEPT !.react_attempts = @ + 1, !.react_repair_ready = FALSE,
                      !.react_retry = TRUE, !.error = e]
  /\ node' = "react_repair"

\* The repair is a new query, whose scratch plan is s.
Repaired(s) ==
  /\ st' = [st EXCEPT !.react_attempts = @ + 1, !.react_repair_ready = TRUE,
                      !.react_retry = FALSE, !.error = "none", !.critic_rejected = FALSE,
                      !.drafts = New, !.sql = New, !.scratch = s, !.llm_used = TRUE]
  /\ node' = "validator"

\* Mutated form of ReactRepair: the budget is compared after the increment.
ReactRepairOneMore ==
  /\ Run("react_repair")
  /\ \/ st.react_attempts > REACT_MAX_ATTEMPTS /\ Stop("exhausted")
     \/ /\ st.react_attempts <= REACT_MAX_ATTEMPTS
        /\ \E m \in BOOLEAN : Repaired(Scratch(m))

\* Mutated form of ReactRepair: the repaired query skips the validation.
ReactRepairUnvalidated ==
  /\ Run("react_repair")
  /\ \/ st.react_attempts + 1 > REACT_MAX_ATTEMPTS /\ Stop("exhausted")
     \/ /\ st.react_attempts + 1 <= REACT_MAX_ATTEMPTS
        /\ st' = [st EXCEPT !.react_attempts = @ + 1, !.error = "none",
                            !.critic_rejected = FALSE, !.drafts = New, !.sql = New]
        /\ node' = "explain_gate"

\* Mutated form of ReactRepair: the repair does not clear the error.
ReactRepairKeepsRejection ==
  /\ Run("react_repair")
  /\ \/ st.react_attempts + 1 > REACT_MAX_ATTEMPTS /\ Stop("exhausted")
     \/ /\ st.react_attempts + 1 <= REACT_MAX_ATTEMPTS
        /\ st' = [st EXCEPT !.react_attempts = @ + 1, !.error = "none",
                            !.drafts = New, !.sql = New]
        /\ node' = "validator"

\* react_repair: budget, model, then the JSON plan if there is one, else the SQL.
ReactRepair ==
  /\ Run("react_repair")
  /\ \/ st.react_attempts + 1 > REACT_MAX_ATTEMPTS /\ Stop("exhausted")
     \/ st.react_attempts + 1 <= REACT_MAX_ATTEMPTS /\ ~st.llm /\ Stop("no_llm")
     \/ /\ st.react_attempts + 1 <= REACT_MAX_ATTEMPTS /\ st.llm
        /\ \/ Stop("repair_failed")
           \/ Again("unchanged")
           \/ st.spec /\ Again("unassembled")
           \/ st.spec /\ \E m \in BOOLEAN : Repaired(Scratch(m))
           \/ ~st.spec /\ Repaired(st.scratch)

\* Mutated form of Learnable: an error does not matter once the critic agreed.
LearnableDespiteError == ~st.template /\ st.llm_used /\ st.sql # 0

\* The conditions of _learn_template.
Learnable ==
  /\ st.error = "none" /\ ~st.template /\ st.llm_used
  /\ st.critic # "rejected" /\ st.sql # 0

\* The trajectory is appended, then the query may become a template (it does
\* not if the skill has it already, or if writing it fails).
Persist ==
  /\ Run("persist")
  /\ \/ UNCHANGED st
     \/ ~st.read_only /\ Learnable /\ st' = [st EXCEPT !.learned = st.sql]
  /\ node' = "end"

\* An exception no node catches leaves the graph and QueryAgent.run.
Raise ==
  /\ node # "end"
  /\ node' = "end"
  /\ st' = [st EXCEPT !.error = "raised"]
  /\ UNCHANGED steps

Next ==
  \/ Router \/ Loader \/ Telemetry \/ Planner \/ SqlGenerator
  \/ Validator \/ Explainer \/ Executor \/ Invariants \/ Critic \/ Optimizer
  \/ ReactRepair \/ Persist \/ Raise

Spec == Init /\ [][Next]_vars

\* The status of the response.
Status ==
  IF st.clarification THEN "clarified"
  ELSE IF st.error # "none" THEN "pipeline_failed" ELSE "answered"

----------------------------------------------------------------------------

\* The type invariant.
TypeOK == node \in Nodes /\ steps \in Nat /\ st \in QueryState

\* langgraph raises GraphRecursionError when a node is due and `recursion_limit`
\* supersteps are used up: the except branch of run() is never taken, no repair
\* the budget allows is cut short, and, every node taking a superstep, no
\* question is worked on for ever.
WithinRecursionLimit == node # "end" => steps < recursion_limit

\* What is sent to the database is the query that passed the read-only check, the
\* lint and EXPLAIN in its current form (a plan with materialized stages as its other
\* compilation), however many repairs came before; only after a repair can it be
\* the stages that an earlier plan left behind, which the gates are not asked about.
ExecutesOnlyValidated ==
  node = "execute" =>
    \/ Executed # 0 /\ Executed = st.validated /\ Executed = st.explain
    \/ Executed = st.scratch /\ st.scratch < st.sql /\ st.react_attempts > 0

\* An error or a rejection never passes the gates behind the repair loop.
NothingFailedPastTheGates ==
  node \in {"explain_gate", "execute", "invariant_check", "critic", "optimizer"} =>
    st.error = "none" /\ ~st.critic_rejected

\* An answer is the result of the query it shows, which was validated, explained
\* and accepted by the critic - unless an older scratch plan was left behind.
AnsweredIsVerified ==
  node = "end" /\ Status = "answered" =>
    /\ st.sql = st.validated /\ st.sql = st.explain
    /\ st.critic = "answered" /\ st.judged = st.sql
    /\ st.scratch \in {0, st.sql} => st.result = st.sql

\* The skill learns only from answers, and only a query the critic accepted.
LearnedIsAccepted ==
  st.learned # 0 =>
    /\ node = "end" /\ ~st.read_only /\ Status = "answered"
    /\ st.learned = st.judged /\ st.critic = "answered"

\* The docstring of _learn_template: "only queries that executed cleanly and
\* passed the critic are kept".
LearnedWasExecuted == st.learned # 0 => st.learned = st.result
=============================================================================
