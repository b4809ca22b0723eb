------------------------------ MODULE MCLearning ------------------------------
(****************************************************************************)
(* One failed question; a surface whose fallback writes over its file and   *)
(* the router, whose fallback adds to the manifest; texts may have each of  *)
(* the phrases that make an incident of an error.                           *)
(****************************************************************************)
EXTENDS Learning

CONSTANTS terms, glossary, units, learned, manifest, detour

MCFiles == {terms, glossary, units, learned, manifest}

\* The detour is semantics/../manifest.yaml.
MCPaths == MCFiles \cup {detour}

MCFileOf == [p \in MCPaths |-> IF p = detour THEN manifest ELSE p]

MCSurfaceOf == [p \in MCPaths |-> IF p = manifest THEN "router" ELSE "semantics"]

\* Bound: what a text quotes matters to its classification and to nothing after it,
\* so the learner is followed for failures that quote nothing.
QuotesAreClassified ==
  \A j \in Jobs : pc[j] \in Evolving \cup {"rejected", "completed", "failed"} => quoted[j] = {}

MCFallbackFile == [semantics |-> learned, router |-> manifest]
=============================================================================
