---------------------------- MODULE MCPromotion ----------------------------
(****************************************************************************)
(* The learner and a web or command-line promotion, two candidates and one  *)
(* commit that takes no lock.                                               *)
(****************************************************************************)
EXTENDS Promotion
=============================================================================
