--------------------------- MODULE MCSkillManifest ---------------------------
(****************************************************************************)
(* Questions, an exploration, a survey and the periodic verification around *)
(* one manifest with one template, and a promotion into it.                 *)
(****************************************************************************)
EXTENDS SkillManifest

CONSTANTS q1, q2, x1, s1

\* A bound: with a promotion, there are two other operations and nobody dies.
PromotionsAreQuiet ==
  merges > 0 => kills = 0 /\ calls[q2] = 0 /\ calls[q1] + calls[x1] + calls[s1] <= 2
=============================================================================
