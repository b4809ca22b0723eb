---------------------------- MODULE ErrorTaxonomy ----------------------------
(****************************************************************************)
(* sqlagent/errors.py: what kind of error a message and a stage make.       *)
(*                                                                          *)
(* A message is the set of the phrases that error_type_for_message looks    *)
(* for; its stage is one more of them. "timeout" stands for "timed out",    *)
(* too, "stage execution" for the stages execute and db.                    *)
(****************************************************************************)
EXTENDS Integers, Sequences

INFRA_ERROR_TYPES ==
  {"llm_timeout", "llm_transport_error", "explain_timeout", "execution_timeout",
   "db_error", "serialization_failed"}

\* The stages that the ifs look at; no text says one.
Stages == {"stage serialization", "stage workspace", "stage llm", "stage explain", "stage execution"}

\* The ifs of error_type_for_message, in their order: an error has the type of
\* the first line one of whose sets of phrases it contains.
Rules == <<
  [type |-> "schema_selection_failed", on |-> {{"schema selection"}}],
  [type |-> "llm_schema_violation",    on |-> {{"schema violation"}}],
  [type |-> "llm_invalid_json",        on |-> {{"invalid json"}}],
  [type |-> "serialization_failed",    on |-> {{"serialization"}, {"stage serialization"}}],
  [type |-> "workspace_error",         on |-> {{"workspace"}, {"stage workspace"}}],
  [type |-> "langgraph_recursion",     on |-> {{"recursion"}}],
  [type |-> "react_exhausted",         on |-> {{"budget exhausted"}}],
  [type |-> "critic_rejected",         on |-> {{"critic rejected"}}],
  [type |-> "plan_assembly_failed",    on |-> {{"assembly failed"}, {"plan assembly"}}],
  [type |-> "sql_validation_failed",   on |-> {{"lint failed"}, {"read-only"}}],
  [type |-> "llm_invalid_json",        on |-> {{"json", "did not return"}, {"json", "invalid"}, {"json", "decode"}}],
  [type |-> "llm_schema_violation",    on |-> {{"schema", "validation"}}],
  [type |-> "llm_timeout",             on |-> {{"timeout", "stage llm"}, {"timeout", "model"}}],
  [type |-> "explain_timeout",         on |-> {{"timeout", "stage explain"}}],
  [type |-> "execution_timeout",       on |-> {{"timeout", "stage execution"}}],
  [type |-> "llm_transport_error",     on |-> {{"stage llm"}}],
  [type |-> "db_error",                on |-> {{"stage execution"}, {"stage explain"}}],
  [type |-> "internal_error",          on |-> {{}}] >>

error_type_for_message(text) ==
  LET Hit(i) == \E phrases \in Rules[i].on : phrases \subseteq text
  IN  Rules[CHOOSE i \in DOMAIN Rules : Hit(i) /\ \A k \in 1..(i - 1) : ~Hit(k)].type

\* An exception that is a timeout by its class is classified without its text.
\* None of those that are classified comes with an LLM stage.
classify_error(class, text, stage) ==
  error_type_for_message((IF class = "timeout" THEN {"timeout"} ELSE text) \cup {stage})
=============================================================================
