-------------------------- MODULE MCAdaptiveLimiter --------------------------
(****************************************************************************)
(* Two interactive callers and two learner calls, one of them with a        *)
(* deadline.                                                                *)
(****************************************************************************)
EXTENDS AdaptiveLimiter

CONSTANTS web1, web2, bg1, bg2

MCInteractive == {web1, web2}

MCThreads == MCInteractive \cup {bg1, bg2}

MCImpatient == {bg2}
=============================================================================
