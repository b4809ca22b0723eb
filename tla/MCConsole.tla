------------------------------ MODULE MCConsole ------------------------------
(****************************************************************************)
(* What the console shows of its jobs (ConsoleSignals), and the graph that  *)
(* some of the jobs run (Explorer). A job is one step to its signals and    *)
(* the graph reads none of them, so the two are explored one beside the     *)
(* other: each while the other has not begun.                               *)
(****************************************************************************)
EXTENDS Explorer, ConsoleSignals

Quiet == ConsoleInit /\ UNCHANGED consoleVars

Idle == Init /\ UNCHANGED vars

\* Bound: an exploration after the first has at most two rounds.
LaterRunsAreShort == runs > 1 => rounds <= 2

MCInit == Init /\ ConsoleInit

MCNext ==
  \/ Begin /\ Quiet
  \/ PlanUnavailable /\ Quiet
  \/ PlanNothing /\ Quiet
  \/ PlanProbes /\ Quiet
  \/ \E i \in Slots : Lint(i) /\ Quiet
  \/ \E i \in Slots : RunProbe(i) /\ Quiet
  \/ \E i \in Slots : RepairProbe(i) /\ Quiet
  \/ \E i \in Slots : RunRepair(i) /\ Quiet
  \/ Act /\ Quiet
  \/ \E a \in Artifacts : Apply(a) /\ Quiet
  \/ Reflect /\ Quiet
  \/ SelfReflect /\ Quiet
  \/ Commit /\ Quiet
  \/ Fail /\ Quiet
  \/ \E j \in Jobs : \E op \in Operations : StartJob(j, op) /\ Idle
  \/ \E j \in Jobs : ShowRunning(j) /\ Idle
  \/ \E j \in Jobs : Work(j) /\ Idle
  \/ \E j \in Jobs : ShowSuccess(j) /\ Idle
  \/ \E j \in Jobs : ShowCandidate(j) /\ Idle
  \/ \E j \in Jobs : ShowError(j) /\ Idle
  \/ \E j \in Jobs : Report(j) /\ Idle
  \/ \E j \in Jobs : Finish(j) /\ Idle
  \/ \E q \in Questions : Count(q) /\ Idle
  \/ \E q \in Questions : ShowQuestion(q) /\ Idle
  \/ \E q \in Questions : Uncount(q) /\ Idle
  \/ \E q \in Questions : ShowAnswer(q) /\ Idle

\* The fairness of the two specifications. Once an exploration has begun the
\* console has no job, and once a job has begun there is no exploration.
MCSpec ==
  /\ MCInit /\ [][MCNext]_<<vars, consoleVars>>
  /\ WF_<<vars, consoleVars>>(Node /\ UNCHANGED consoleVars)
  /\ \A j \in Jobs : WF_<<vars, consoleVars>>(JobStep(j) /\ UNCHANGED vars)
=============================================================================
