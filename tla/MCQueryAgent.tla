----------------------------- MODULE MCQueryAgent -----------------------------
(****************************************************************************)
(* The pipeline with a small repair budget.                                 *)
(****************************************************************************)
EXTENDS QueryAgent
=============================================================================
