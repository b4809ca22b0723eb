------------------------------ MODULE MCExplorer ------------------------------
(****************************************************************************)
(* One exploration with one probe a round, asked for more rounds than fit   *)
(* in langgraph's limit.                                                    *)
(****************************************************************************)
EXTENDS Explorer
=============================================================================
