---------------------------- MODULE FailureLedger ----------------------------
(****************************************************************************)
(* What the failure queue promises of each failure, with no threads, no     *)
(* requeues, no timeouts and no crashes. A failure is entered unless it is  *)
(* open already, an outage as an incident that nothing is done about. For   *)
(* an entry the learner makes one candidate at most; it promotes it and     *)
(* then records it, or leaves it and never promotes it again. A candidate   *)
(* that was left stays in git: it may be in main anyhow, as an operator can *)
(* adopt it. The verdict can be given more than once and may change, but    *)
(* what it says of the candidate is true.                                   *)
(****************************************************************************)
CONSTANTS Failures, Outages, Entries

VARIABLES failure, fate, candidate

ledgerVars == <<failure, fate, candidate>>

Verdicts == {"completed", "rejected", "failed"}

\* The learner has left the candidate: it is in main without it, or is not.
Left == {"dropped", "adopted"}

LedgerInit ==
  /\ failure \in [Entries -> Failures]
  /\ fate = [e \in Entries |-> "unused"]
  /\ candidate = [e \in Entries |-> "none"]

Enter(e, f) ==
  /\ fate[e] = "unused"
  /\ \A d \in Entries : fate[d] = "open" => failure[d] # f
  /\ failure' = [failure EXCEPT ![e] = f]
  /\ fate' = [fate EXCEPT ![e] = IF f \in Outages THEN "incident" ELSE "open"]
  /\ UNCHANGED candidate

\* An entry that is worked on, or was.
Learnable(e) == fate[e] \in {"open"} \cup Verdicts

\* The candidate of an entry takes a step of its own.
Advance(e, from, to) ==
  /\ Learnable(e) /\ candidate[e] = from
  /\ candidate' = [candidate EXCEPT ![e] = to]
  /\ UNCHANGED <<failure, fate>>

Try(e)    == Advance(e, "none", "trying")
Botch(e)  == \E end \in Left : Advance(e, "none", end)
Merge(e)  == \E next \in {"merged", "recorded"} : Advance(e, "trying", next)
Record(e) == Advance(e, "merged", "recorded")
Adopt(e)  == Advance(e, "dropped", "adopted")

\* The learner leaves candidates, all of them at once when it is killed.
Leave ==
  /\ candidate' \in [Entries -> {"none", "trying", "merged", "recorded"} \cup Left]
  /\ \A e \in Entries :
       candidate'[e] # candidate[e] => candidate[e] = "trying" /\ candidate'[e] \in Left
  /\ UNCHANGED <<failure, fate>>

\* The verdict is about what became of the candidate.
Judge(e, v) ==
  /\ Learnable(e)
  /\ v = "completed" => candidate[e] = "recorded"
  /\ v = "rejected" => candidate[e] \in Left
  /\ fate' = [fate EXCEPT ![e] = v]
  /\ UNCHANGED <<failure, candidate>>

LedgerNext ==
  \/ \E e \in Entries : \/ \E f \in Failures : Enter(e, f)
                        \/ Try(e) \/ Botch(e) \/ Merge(e) \/ Record(e) \/ Adopt(e)
                        \/ \E v \in Verdicts : Judge(e, v)
  \/ Leave

LedgerSpec == LedgerInit /\ [][LedgerNext]_ledgerVars
=============================================================================
