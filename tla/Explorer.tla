------------------------------- MODULE Explorer -------------------------------
(****************************************************************************)
(* run_exploration (sqlagent/explorer/graph.py): bounded rounds of plan ->  *)
(* act -> reflect -> self_reflect -> commit over one skill workspace, run   *)
(* once (`sqlagent explore`, /api/explore) or once per domain               *)
(* (optimize_skill), one exploration after the other, any of which may      *)
(* fail half-way and leave its files behind.                                *)
(*                                                                          *)
(* A probe's SQL is abstracted to what the gates and the database make of   *)
(* it: "unsafe" is refused by validate_read_only, "unknown" names something *)
(* that does not exist, "good" may run or fail. Lint catches an unknown     *)
(* name or, without a schema in the skill, lets it through to the database. *)
(* What an artifact, a note or a lesson says is left out.                   *)
(****************************************************************************)
EXTENDS Integers

CONSTANTS
  Slots,           \* the probes of a round: probes_per_round of them
  Artifacts,       \* what reflect can write: templates, joins, rules
  MaxRounds,       \* bound: the rounds an exploration is asked for; --rounds
                   \* and EXPLORER_ROUNDS have none
  RecursionLimit,  \* langgraph's default recursion_limit, which is not overridden
  MaxRuns          \* bound: explorations, one after the other

ASSUME ExplorerAssumption ==
  MaxRounds \in Nat \ {0} /\ MaxRuns \in Nat /\ RecursionLimit \in Nat

VARIABLES
  pc,           \* the node about to run, or how the last exploration ended
  nodes,        \* supersteps of the graph so far
  rounds, round_index, stop_reason, probes, written,   \* ExplorerState
  phase,        \* each probe of the act node: where it is, then its result
  draft,        \* the SQL each probe has in flight
  skill,        \* the artifacts in the workspace
  dirty,        \* files explorations wrote since the last commit
  acted,        \* history: act nodes run for the probes planned last
  runs

graph == <<rounds, round_index, stop_reason, probes, written>>
pool == <<phase, draft>>
workspace == <<skill, dirty>>
vars == <<pc, nodes, graph, pool, workspace, acted, runs>>

SQL == {"good", "unknown", "unsafe"}
None == "none"
Ended == {"ready", "end", "failed", "raised"}
Results == {"ok", "repaired", "error"}
Notes == {"error_corrections.jsonl", "identifier_notes.yaml"}
Logs == Notes \cup {"exploration.jsonl", "reflections.jsonl", "SKILL.md"}

Init ==
  /\ pc = "ready" /\ nodes = 0
  /\ rounds = 1 /\ round_index = 0 /\ stop_reason = None
  /\ probes = [i \in Slots |-> None] /\ written = {}
  /\ phase = [i \in Slots |-> None] /\ draft = [i \in Slots |-> None]
  /\ skill = {} /\ dirty = {}
  /\ acted = 0 /\ runs = 0

\* One superstep more; at the limit langgraph raises GraphRecursionError.
Goto(node) ==
  /\ nodes' = nodes + 1
  /\ pc' = IF nodes' < RecursionLimit THEN node ELSE "raised"

\* The graph is invoked with rounds = max(1, rounds) and a fresh state.
Begin ==
  /\ pc \in Ended /\ runs < MaxRuns
  /\ runs' = runs + 1
  /\ rounds' \in 1..MaxRounds
  /\ pc' = "plan" /\ nodes' = 0 /\ round_index' = 0 /\ stop_reason' = None
  /\ probes' = [i \in Slots |-> None] /\ written' = {} /\ acted' = 0
  /\ UNCHANGED <<pool, workspace>>

\* route_after_plan and the start of the act node: a thread for each probe.
ToAct ==
  /\ Goto("act")
  /\ phase' = [i \in Slots |-> IF probes'[i] = None THEN None ELSE "planned"]
  /\ draft' = probes'

\* Without a model the exploration stops, and the state has no probes.
PlanUnavailable ==
  /\ pc = "plan"
  /\ stop_reason' = "llm_unavailable"
  /\ probes' = [i \in Slots |-> None]
  /\ Goto("end")
  /\ UNCHANGED <<rounds, round_index, written, pool, workspace, acted, runs>>

\* An empty plan gives a reason but no "probes": those of the round before stay
\* in the state and are run once more before the reason is looked at.
PlanNothing ==
  /\ pc = "plan"
  /\ stop_reason' = "no_probes_planned"
  /\ UNCHANGED probes
  /\ IF \A i \in Slots : probes[i] = None
     THEN Goto("end") /\ UNCHANGED pool
     ELSE ToAct
  /\ UNCHANGED <<rounds, round_index, written, workspace, acted, runs>>

\* The model proposes probes, at most probes_per_round of which are kept.
PlanProbes ==
  /\ pc = "plan"
  /\ probes' \in [Slots -> SQL \cup {None}]
  /\ \E i \in Slots : probes'[i] # None
  /\ acted' = 0
  /\ ToAct
  /\ UNCHANGED <<rounds, round_index, stop_reason, written, workspace, runs>>

\* A probe's thread goes on to `to`, with the SQL s.
Move(i, to, s) ==
  /\ phase' = [phase EXCEPT ![i] = to]
  /\ draft' = [draft EXCEPT ![i] = s]
  /\ UNCHANGED <<pc, nodes, graph, workspace, acted, runs>>

Thread(i, from) == pc = "act" /\ phase[i] = from

\* validate_read_only and lint_sql.
Lint(i) ==
  /\ Thread(i, "planned")
  /\ \/ draft[i] # "unsafe" /\ Move(i, "sent", draft[i])
     \/ draft[i] # "good" /\ Move(i, "rejected", draft[i])

\* EXPLAIN and the query itself.
RunProbe(i) ==
  /\ Thread(i, "sent")
  /\ \/ draft[i] = "good" /\ Move(i, "ok", draft[i])
     \/ Move(i, "rejected", draft[i])

\* The one repair: no model, no SQL or an unsafe one leave the error; it is not
\* linted.
RepairProbe(i) ==
  /\ Thread(i, "rejected")
  /\ \/ Move(i, "error", draft[i])
     \/ \E s \in SQL \ {"unsafe"} : Move(i, "resent", s)

\* Mutated form of RunRepair: a repair that fails is repaired in its turn.
RunRepairAgain(i) ==
  /\ Thread(i, "resent")
  /\ \/ draft[i] = "good" /\ Move(i, "repaired", draft[i])
     \/ Move(i, "rejected", draft[i])

RunRepair(i) ==
  /\ Thread(i, "resent")
  /\ \/ draft[i] = "good" /\ Move(i, "repaired", draft[i])
     \/ Move(i, "error", draft[i])

\* pool.map has every result: the log, and the corrections that repairs taught.
Act ==
  /\ pc = "act"
  /\ \A i \in Slots : phase[i] \in Results \cup {None}
  /\ \/ dirty' = dirty \cup {"exploration.jsonl"}
     \/ /\ \E i \in Slots : phase[i] = "repaired"
        /\ dirty' = dirty \cup {"exploration.jsonl"} \cup Notes
  /\ acted' = acted + 1
  /\ Goto("reflect")
  /\ UNCHANGED <<graph, pool, skill, runs>>

\* An applier of reflect_node writes an artifact that the skill does not have;
\* a template or a verified join has first been run against the database.
Apply(a) ==
  /\ pc = "reflect"
  /\ \E i \in Slots : phase[i] \in {"ok", "repaired"}
  /\ a \notin skill
  /\ skill' = skill \cup {a}
  /\ dirty' = dirty \cup {a}
  /\ written' = written \cup {a}
  /\ UNCHANGED <<pc, nodes, rounds, round_index, stop_reason, probes, pool, acted, runs>>

Reflect ==
  /\ pc = "reflect"
  /\ Goto("self_reflect")
  /\ UNCHANGED <<graph, pool, workspace, acted, runs>>

\* Lessons, if the model has any: the reflection log and a section of SKILL.md.
SelfReflect ==
  /\ pc = "self_reflect"
  /\ dirty' \in {dirty, dirty \cup {"reflections.jsonl", "SKILL.md"}}
  /\ Goto("commit")
  /\ UNCHANGED <<graph, pool, skill, acted, runs>>

\* Mutated form of RouteAfterCommit: one round too many.
RouteOneMore(n) == IF stop_reason = None /\ n <= rounds THEN "plan" ELSE "end"

\* Mutated form of RouteAfterCommit: the reason to stop is not looked at.
RouteOn(n) == IF n < rounds THEN "plan" ELSE "end"

\* route_after_commit, when n rounds have been committed.
RouteAfterCommit(n) == IF stop_reason = None /\ n < rounds THEN "plan" ELSE "end"

\* Mutated form of Commit: only the artifacts of this exploration are added.
CommitWritten ==
  /\ pc = "commit"
  /\ dirty' = dirty \ written
  /\ round_index' = round_index + 1
  /\ Goto(RouteAfterCommit(round_index'))
  /\ UNCHANGED <<rounds, stop_reason, probes, written, pool, skill, acted, runs>>

\* `git add .` and a commit.
Commit ==
  /\ pc = "commit"
  /\ dirty' = {}
  /\ round_index' = round_index + 1
  /\ Goto(RouteAfterCommit(round_index'))
  /\ UNCHANGED <<rounds, stop_reason, probes, written, pool, skill, acted, runs>>

\* git, a file or an answer of an unexpected shape raises, or the process dies:
\* what was written stays in the workspace.
Fail ==
  /\ pc \notin Ended
  /\ pc' = "failed"
  /\ UNCHANGED <<nodes, graph, pool, workspace, acted, runs>>

Probe(i) == Lint(i) \/ RunProbe(i) \/ RepairProbe(i) \/ RunRepair(i)

Node ==
  \/ PlanUnavailable \/ PlanNothing \/ PlanProbes
  \/ \E i \in Slots : Probe(i)
  \/ Act \/ Reflect \/ SelfReflect \/ Commit

Next == Begin \/ Node \/ (\E a \in Artifacts : Apply(a)) \/ Fail

Spec == Init /\ [][Next]_vars

\* The graph goes on: calls to the model and to the database have timeouts.
FairSpec == Spec /\ WF_vars(Node)

----------------------------------------------------------------------------

TypeOK ==
  /\ pc \in Ended \cup {"plan", "act", "reflect", "self_reflect", "commit"}
  /\ nodes \in Nat
  /\ rounds \in 1..MaxRounds /\ round_index \in 0..rounds
  /\ stop_reason \in {None, "llm_unavailable", "no_probes_planned"}
  /\ probes \in [Slots -> SQL \cup {None}]
  /\ phase \in [Slots -> Results \cup {None, "planned", "sent", "rejected", "resent"}]
  /\ draft \in [Slots -> SQL \cup {None}]
  /\ written \subseteq skill /\ skill \subseteq Artifacts
  /\ dirty \subseteq skill \cup Logs
  /\ acted \in Nat
  /\ runs \in 0..MaxRuns

\* Five nodes a round, and rounds that fit in langgraph's limit never meet it,
\* whatever they do: with the default of 25 that is four rounds.
RoundsThatFitAreRun == 5 * rounds < RecursionLimit => pc # "raised"

\* "Run bounded plan -> act -> reflect -> self-reflect rounds": an exploration
\* that neither a failure nor a reason of its own stops runs the rounds that it
\* was asked for and returns.
AskedRoundsAreRun ==
  pc \in {"end", "raised"} /\ stop_reason = None => pc = "end" /\ round_index = rounds

\* "Each round ends with a git commit": an exploration that ends without an
\* error leaves nothing uncommitted of what it wrote, and if it had a round,
\* nothing of what failed explorations before it wrote.
RoundsAreCommitted ==
  pc = "end" => /\ written \cap dirty = {}
                /\ round_index > 0 => dirty = {}

\* Every query that reaches the database, repairs included, is a read-only one.
OnlyReadOnlySent ==
  \A i \in Slots : phase[i] \in {"sent", "resent"} => draft[i] # "unsafe"

\* An exploration that ends with fewer rounds than it was asked for says why.
ShortRunHasReason == pc = "end" /\ stop_reason = None => round_index = rounds

\* The probes of one plan are run at most twice: once planned, and once more
\* when the next plan is empty.
PlanActedAtMostTwice == acted <= 2

\* Every exploration ends.
ExplorationEnds == pc \notin Ended ~> pc \in Ended
=============================================================================
