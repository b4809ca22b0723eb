------------------------------- MODULE Learning -------------------------------
(****************************************************************************)
(* From a failed question to a promoted skill: what the agent's error says  *)
(* once the repair loop has had it (sqlagent/query_agent/graph.py), how it  *)
(* is classified and queued (errors.py, web.py), and what the learner's     *)
(* handler does with it (web.py, evolution/graph.py, provenance.py): a      *)
(* worktree, the model's proposal written file by file or the built-in      *)
(* mutation, a commit, the gate, a merge and the provenance records.        *)
(*                                                                          *)
(* One question is asked at a time, all of them before the learner begins,  *)
(* and one job is learned from at a time: a run and the handler share       *)
(* nothing but the queue (FailureQueue and ConsoleSignals have the races    *)
(* over it). Other commits to main come at any time. The decision to merge  *)
(* is one step with a free outcome, since Promotion has its steps. A file   *)
(* is the set of those who wrote what it holds, {} when it is not there.    *)
(****************************************************************************)
EXTENDS ErrorTaxonomy, FiniteSets

CONSTANTS
  Jobs,                \* failed questions, each with its request_id
  NoJob,
  Rule,                \* writes the built-in text of _fallback_mutation
  Edit,                \* writes commits that are no promotion
  Quotable,            \* phrases that the classification looks for and a free text
                       \* may have: a database's, a critic's, an exception's
  Files,               \* files of the skill
  Shared,              \* those that commits other than promotions change
  Paths,               \* what the model may name: files, and ways to them by ".."
  FileOf,              \* the file of a path, as _safe_path resolves it
  Surfaces,            \* what a mutation is attributed to
  SurfaceOf,           \* _surface_for_path, or anything else if not allowed
  FallbackFile,        \* the file of each surface that the fallback writes
  Appending,           \* surfaces whose fallback keeps what the file holds
  REACT_MAX_ATTEMPTS,
  MAX_MUTATION_FILES

ASSUME LearningAssumption ==
  /\ Rule # Edit /\ {Rule, Edit} \cap Jobs = {} /\ NoJob \notin Jobs
  /\ Quotable \cap Stages = {}
  /\ Shared \subseteq Files /\ Files \subseteq Paths /\ IsFiniteSet(Paths)
  /\ FileOf \in [Paths -> Files] /\ \A f \in Files : FileOf[f] = f
  /\ DOMAIN SurfaceOf = Paths
  /\ Surfaces # {} /\ Appending \subseteq Surfaces
  /\ FallbackFile \in [Surfaces -> Files]
  /\ \A s \in Surfaces : SurfaceOf[FallbackFile[s]] = s
  /\ REACT_MAX_ATTEMPTS \in Nat
  /\ MAX_MUTATION_FILES \in Nat \ {0}

VARIABLES
  pc,                  \* where each job is
  blame,               \* history: who was at fault, "infra" or "skill"
  quoted,              \* history: the phrases its last error has from free texts
  message, attempts,   \* the QueryState of the question that is being asked
  main,                \* the tree of main
  job,                 \* the last job that was claimed, and of that one:
  surface,             \* what its failure is attributed to
  base, tree,          \* what its branch starts from, and its worktree
  left,                \* the files of the proposal still to be written
  changed, recorded,   \* changed_files, and those with a provenance record: paths
  abandoned            \* history: paths of a proposal refused half-way

asking   == <<blame, quoted, message, attempts>>
branch   == <<job, surface, base>>
proposal == <<tree, left, changed, abandoned>>
vars     == <<pc, asking, main, branch, proposal, recorded>>

Trees == [Files -> SUBSET (Jobs \cup {Rule, Edit})]

NoTree == [f \in Files |-> {}]

\* What an earlier life of the service may have left: fallbacks that were promoted.
LearnedTrees ==
  {t \in [Files -> {{}, {Rule}}] : \A f \in Files : t[f] # {} => f \in {FallbackFile[s] : s \in Surfaces}}

NoMessage == [head |-> "none", says |-> {}]

Init ==
  /\ pc = [j \in Jobs |-> "new"]
  /\ blame = [j \in Jobs |-> {}] /\ quoted = [j \in Jobs |-> {}]
  /\ message = NoMessage
  /\ attempts = 0
  /\ main \in LearnedTrees
  /\ job = NoJob
  /\ surface = CHOOSE s \in Surfaces : TRUE
  /\ base = NoTree /\ tree = NoTree
  /\ left = 0
  /\ changed = {} /\ recorded = {} /\ abandoned = {}

Goto(j, label) == pc' = [pc EXCEPT ![j] = label]

----------------------------------------------------------------------------
\* What goes wrong, and what the text of the error says of it.

LlmTroubles ==
  [llm_timeout |-> {"timeout"}, llm_refused |-> {}, llm_prose |-> {"json"},
   llm_misfit |-> {"schema violation"}, llm_unkeyed |-> {}]

DbTroubles == [db_timeout |-> {"timeout"}, db_lost |-> {}, bad_query |-> {}]

InfraTroubles == {"llm_timeout", "llm_refused", "llm_unkeyed", "db_timeout", "db_lost"}

Fault(trouble) == IF trouble \in InfraTroubles THEN "infra" ELSE "skill"

Blamed(j, trouble) == blame' = [blame EXCEPT ![j] = @ \cup {Fault(trouble)}]

\* LLMUnavailable: a key is not configured or, after the last of the attempts of
\* chat_json, whatever it was, the model "did not return JSON: ...".
chat_json(trouble) ==
  IF trouble = "llm_unkeyed" THEN {}
  ELSE {"model", "json", "did not return"} \cup LlmTroubles[trouble]

\* Errors quote what they come from - psycopg, the provider, the critic, names of
\* the query or the plan, a bug's exception - and that may have any phrase in it.
Quotes(trouble) == IF trouble = "llm_unkeyed" THEN {{}} ELSE SUBSET Quotable

Error(head, says, trouble) == [head |-> head, says |-> says, trouble |-> trouble]

\* sql_generator: the model failed, it answered without a query, or its plan
\* does not assemble.
GenerationErrors ==
  {Error("sql generation", chat_json(t), t) : t \in DOMAIN LlmTroubles}
    \cup {Error("sql generation", {}, "bad_plan"),
          Error("query plan assembly", {"plan assembly", "assembly failed"}, "bad_plan")}

\* explainer and executor: psycopg's exceptions by their text.
DbErrors(node) == {Error(node, DbTroubles[t], t) : t \in DOMAIN DbTroubles}

\* validator, explainer, executor and critic.
QueryErrors ==
  {Error("lint", {"lint failed"}, "bad_query"), Error("only", {"read-only"}, "bad_query"),
   Error("critic", {"critic rejected"}, "wrong_answer")}
    \cup DbErrors("explain") \cup DbErrors("execution")

Running == {"generated", "repairing", "failed_run"}

\* The error of j is a new one, which quotes these phrases.
Say(j, head, says, quote) ==
  /\ message' = [head |-> head, says |-> says \cup quote]
  /\ quoted' = [quoted EXCEPT ![j] = quote]

Fail(j, errors) ==
  \E e \in errors : \E quote \in Quotes(e.trouble) :
    /\ Say(j, e.head, e.says, quote)
    /\ Blamed(j, e.trouble)
    /\ Goto(j, "repairing")

\* ask: the agent is run and generates a query, or does not.
Generate(j) ==
  /\ pc[j] = "new" /\ job = NoJob /\ \A k \in Jobs : pc[k] \notin Running
  /\ \/ Fail(j, GenerationErrors)
     \/ Goto(j, "generated") /\ UNCHANGED <<blame, quoted, message>>
  /\ attempts' = 0
  /\ UNCHANGED <<main, branch, proposal, recorded>>

\* From the validator to the critic.
Query(j) ==
  /\ pc[j] = "generated"
  /\ \/ Fail(j, QueryErrors)
     \/ Goto(j, "answered") /\ UNCHANGED <<blame, quoted, message>>
  /\ UNCHANGED <<attempts, main, branch, proposal, recorded>>

\* The error of j goes into the text of another, which quotes these phrases, too.
Wrap(j, head, says, quote) == Say(j, head, message.says \cup says, quoted[j] \cup quote)

\* react_repair gives up, with the error it was given in the text of its own.
GiveUp(j) ==
  /\ \/ /\ attempts = REACT_MAX_ATTEMPTS
        /\ Wrap(j, "react", {"budget exhausted"}, {})
        /\ UNCHANGED blame
     \/ /\ attempts < REACT_MAX_ATTEMPTS
        /\ \/ \E t \in DOMAIN LlmTroubles : \E quote \in Quotes(t) :
                Wrap(j, "react", chat_json(t), quote) /\ Blamed(j, t)
           \/ \E quote \in Quotes("bad_plan") :
                Wrap(j, "react", {}, quote) /\ Blamed(j, "bad_plan")
  /\ Goto(j, "failed_run")

\* The repair repeats the query, or its plan does not assemble: once more.
Retry(j) ==
  /\ attempts < REACT_MAX_ATTEMPTS
  /\ \/ Wrap(j, "previous", {}, {}) /\ UNCHANGED blame
     \/ \E quote \in Quotes("bad_plan") :
          Say(j, "repaired", {}, quote) /\ Blamed(j, "bad_plan")
  /\ UNCHANGED pc

Repaired(j) ==
  /\ attempts < REACT_MAX_ATTEMPTS
  /\ message' = NoMessage
  /\ quoted' = [quoted EXCEPT ![j] = {}]
  /\ Goto(j, "generated")
  /\ UNCHANGED blame

CountAttempt == attempts' = IF attempts < REACT_MAX_ATTEMPTS THEN attempts + 1 ELSE attempts

\* Mutated form of ReactRepair: without a repair the error stays what it was.
ReactRepairKeepsError(j) ==
  /\ pc[j] = "repairing"
  /\ \/ Retry(j) \/ Repaired(j)
     \/ Goto(j, "failed_run") /\ UNCHANGED <<blame, quoted, message>>
  /\ CountAttempt
  /\ UNCHANGED <<main, branch, proposal, recorded>>

\* Mutated form of ReactRepair: only a repair that is tried is an attempt.
ReactRepairCountsTried(j) ==
  /\ pc[j] = "repairing"
  /\ \/ GiveUp(j) /\ CountAttempt
     \/ Retry(j) /\ UNCHANGED attempts
     \/ Repaired(j) /\ CountAttempt
  /\ UNCHANGED <<main, branch, proposal, recorded>>

ReactRepair(j) ==
  /\ pc[j] = "repairing"
  /\ GiveUp(j) \/ Retry(j) \/ Repaired(j)
  /\ CountAttempt
  /\ UNCHANGED <<main, branch, proposal, recorded>>

\* enqueue: a pending job or an incident; the state of the run is gone.
Enqueue(j, type) ==
  /\ Goto(j, IF type \in INFRA_ERROR_TYPES THEN "incident" ELSE "pending")
  /\ message' = NoMessage /\ attempts' = 0
  /\ UNCHANGED <<main, branch, proposal, recorded>>

\* The end of QueryAgent.run: the stage is told by the head of the text.
Stage(head) ==
  CASE head = "sql generation" -> "stage llm"
    [] head = "explain" -> "stage explain"
    [] head = "execution" -> "stage execution"
    [] OTHER -> "stage other"

Report(j) ==
  /\ pc[j] = "failed_run"
  /\ Enqueue(j, error_type_for_message(message.says \cup {Stage(message.head)}))
  /\ UNCHANGED <<blame, quoted>>

\* An exception becomes the error of j, at this stage.
Thrown(j, class, stage) ==
  \E quote \in SUBSET Quotable :
    /\ Enqueue(j, classify_error(class, quote, stage))
    /\ quoted' = [quoted EXCEPT ![j] = quote]

\* ask raises instead of returning an error.
Raise(j) ==
  /\ pc[j] \in {"generated", "repairing"}
  /\ \E class \in {"timeout", "other"} : Thrown(j, class, "stage internal")
  /\ Blamed(j, "bug")

\* The answer cannot be serialized, and the handler of unhandled exceptions tells
\* that only if it is in the name of the exception's class: of a ValueError, for
\* a number that JSON has no form for, it does not know.
Unserializable(j) ==
  /\ pc[j] = "answered" /\ \A k \in Jobs : pc[k] \notin Running
  /\ \/ Thrown(j, "other", "stage serialization") /\ blame' = [blame EXCEPT ![j] = {"infra"}]
     \/ Thrown(j, "other", "stage internal") /\ blame' = [blame EXCEPT ![j] = {"skill"}]

----------------------------------------------------------------------------
\* The learner's handler.

Evolving == {"evolving", "writing", "falling_back", "committing", "evaluating", "recording"}

\* The one job that is learned from is at this label.
At(j, label) == j = job /\ pc[j] = label

\* claim and evolve_failure: the failure is attributed to a surface - by words
\* of its message, left open here - and a worktree of a new branch starts from main.
Evolve(j) ==
  /\ pc[j] = "pending" /\ \A k \in Jobs : pc[k] \notin Running \cup Evolving
  /\ job' = j
  /\ surface' \in Surfaces
  /\ base' = main /\ tree' = main
  /\ left' = 0
  /\ changed' = {} /\ recorded' = {} /\ abandoned' = {}
  /\ Goto(j, "evolving")
  /\ UNCHANGED <<asking, main>>

\* _llm_mutation: the model proposes some files ...
Propose(j) ==
  /\ At(j, "evolving")
  /\ left' \in 1..MAX_MUTATION_FILES
  /\ Goto(j, "writing")
  /\ UNCHANGED <<asking, main, branch, tree, changed, abandoned, recorded>>

\* ... or none, or too many, or the model does not answer.
ProposeNothing(j) ==
  /\ At(j, "evolving")
  /\ Goto(j, "falling_back")
  /\ UNCHANGED <<asking, main, branch, proposal, recorded>>

\* The path is of the surface by what it begins with, and the file is written over
\* that it leads to; a proposal may name one twice.
WriteFile(j) ==
  /\ At(j, "writing") /\ left > 0
  /\ \E p \in Paths :
       /\ SurfaceOf[p] = surface
       /\ tree' = [tree EXCEPT ![FileOf[p]] = {j}]
       /\ changed' = changed \cup {p}
  /\ left' = left - 1
  /\ UNCHANGED <<pc, asking, main, branch, abandoned, recorded>>

\* Mutated form of Refuse: what is wrong with a file is seen once it is written.
RefuseWritten(j) ==
  /\ At(j, "writing") /\ left > 0
  /\ \E p \in Paths : tree' = [tree EXCEPT ![FileOf[p]] = {j}]
  /\ abandoned' = changed
  /\ changed' = {} /\ left' = 0
  /\ Goto(j, "falling_back")
  /\ UNCHANGED <<asking, main, branch, recorded>>

\* A path that is not allowed or of another surface, no content, SQL that is not
\* read-only: what has been written stays, and _mutate forgets it.
Refuse(j) ==
  /\ At(j, "writing") /\ left > 0
  /\ abandoned' = changed
  /\ changed' = {} /\ left' = 0
  /\ Goto(j, "falling_back")
  /\ UNCHANGED <<asking, main, branch, tree, recorded>>

EndProposal(j) ==
  /\ At(j, "writing") /\ left = 0
  /\ Goto(j, "committing")
  /\ UNCHANGED <<asking, main, branch, proposal, recorded>>

\* _fallback_mutation: the text is written over the file of the surface or, where
\* files are read first, added to it unless it is there already.
Fallback(j) ==
  LET f == FallbackFile[surface]
      kept == IF surface \in Appending THEN tree[f] ELSE {}
  IN
  /\ At(j, "falling_back")
  /\ tree' = [tree EXCEPT ![f] = kept \cup {Rule}]
  /\ changed' = IF Rule \in kept THEN {} ELSE {f}
  /\ Goto(j, "committing")
  /\ UNCHANGED <<asking, main, branch, left, abandoned, recorded>>

\* Everything in the worktree is committed, `git add .`; with nothing to commit
\* the branch stays where it started.
Commit(j) ==
  /\ At(j, "committing")
  /\ Cardinality(changed) <= MAX_MUTATION_FILES
  /\ Goto(j, "evaluating")
  /\ UNCHANGED <<asking, main, branch, proposal, recorded>>

Touched == {f \in Files : tree[f] # base[f]}

\* git merge: the other side's version of a file that one side left alone; of a
\* file that both changed, both changes, if git can tell them apart.
Merged ==
  [f \in Files |-> IF f \notin Touched THEN main[f]
                   ELSE IF main[f] = base[f] THEN tree[f]
                   ELSE tree[f] \cup main[f]]

\* promote_candidate.
Promote(j) ==
  /\ At(j, "evaluating")
  /\ \/ main' = Merged /\ Goto(j, "recording")
     \/ Goto(j, "rejected") /\ UNCHANGED main
  /\ UNCHANGED <<asking, branch, proposal, recorded>>

\* A provenance record for a path at which there is an artifact.
Record(j) ==
  /\ At(j, "recording")
  /\ \E p \in changed \ recorded : main[FileOf[p]] # {} /\ recorded' = recorded \cup {p}
  /\ UNCHANGED <<pc, asking, main, branch, proposal>>

\* Mutated form of Complete: one record will do.
CompleteOne(j) ==
  /\ At(j, "recording")
  /\ recorded # {} \/ changed = {}
  /\ Goto(j, "completed")
  /\ UNCHANGED <<asking, main, branch, proposal, recorded>>

\* There may be no artifact at a path that goes by "..": write_text resolves it
\* without looking whether the directory exists that it leaves.
Complete(j) ==
  /\ At(j, "recording")
  /\ \A p \in changed : p \in recorded \/ main[FileOf[p]] = {} \/ p \notin Files
  /\ Goto(j, "completed")
  /\ UNCHANGED <<asking, main, branch, proposal, recorded>>

\* Anything in the handler raises: a path outside of the worktree, YAML that
\* cannot be read, git, a conflict, the evaluator, an incomplete record.
HandlerRaises(j) ==
  /\ j = job /\ pc[j] \in Evolving
  /\ Goto(j, "failed")
  /\ UNCHANGED <<asking, main, branch, proposal, recorded>>

\* A survey, an exploration or a learned template commits to main.
OtherCommit ==
  /\ \E f \in Shared : Edit \notin main[f] /\ main' = [main EXCEPT ![f] = @ \cup {Edit}]
  /\ UNCHANGED <<pc, asking, branch, proposal, recorded>>

RunStep(j) == Query(j) \/ ReactRepair(j) \/ Report(j)

AskStep(j) == Generate(j) \/ RunStep(j) \/ Raise(j) \/ Unserializable(j)

HandlerStep(j) ==
  \/ Evolve(j) \/ Propose(j) \/ ProposeNothing(j) \/ WriteFile(j) \/ Refuse(j)
  \/ EndProposal(j) \/ Fallback(j) \/ Commit(j) \/ Promote(j) \/ Record(j) \/ Complete(j)
  \/ HandlerRaises(j)

Next == OtherCommit \/ \E j \in Jobs : AskStep(j) \/ HandlerStep(j)

Spec == Init /\ [][Next]_vars

\* Runs and the handler go on: the calls they make of the model and of the database
\* have timeouts, and git, which has none, is assumed to end.
FairSpec == Spec /\ \A j \in Jobs : WF_vars(RunStep(j)) /\ WF_vars(HandlerStep(j))

----------------------------------------------------------------------------

Labels == {"new", "answered", "incident", "pending", "rejected", "completed", "failed"}
            \cup Running \cup Evolving

\* The type invariant.
TypeOK ==
  /\ pc \in [Jobs -> Labels]
  /\ blame \in [Jobs -> SUBSET {"infra", "skill"}]
  /\ quoted \in [Jobs -> SUBSET Quotable]
  /\ attempts \in 0..REACT_MAX_ATTEMPTS
  /\ main \in Trees
  /\ job \in Jobs \cup {NoJob}
  /\ surface \in Surfaces
  /\ base \in Trees /\ tree \in Trees
  /\ left \in 0..MAX_MUTATION_FILES
  /\ changed \subseteq Paths /\ recorded \subseteq Paths /\ abandoned \subseteq Paths

\* What makes an incident of any error whose text has all of it.
Incidental == {{"serialization"}, {"timeout", "model"}}

\* A failure that only the skill is to blame for is learned from: though the
\* database reports its bad SQL by the same exceptions as an outage, it is put
\* aside as an incident only if its text quotes what speaks of one.
SkillFailureIsLearned ==
  \A j \in Jobs : pc[j] = "incident" =>
    "infra" \in blame[j] \/ \E phrases \in Incidental : phrases \subseteq quoted[j]

\* README: "Infra failures are kept as incidents and do not mutate the skill."
InfrastructureDoesNotMutate ==
  \A j \in Jobs : pc[j] \in Evolving => "skill" \in blame[j]

\* "One hypothesis may change no more than three skill files", all of them on the
\* surface the failure was attributed to, and that goes for what is committed:
\* the fallback after a proposal that was refused half-way included. The check of
\* the surface can be got round only by a path that leaves its directory.
OneHypothesis ==
  /\ Cardinality(Touched) <= MAX_MUTATION_FILES
  /\ \A f \in Touched :
       SurfaceOf[f] = surface \/ \E p \in (changed \cup abandoned) \ Files : FileOf[p] = f

\* "Every artifact of a promotion gets a provenance record": true of a completed
\* job, but for the files of a proposal that was refused half-way and those that
\* a path leads to by "..".
RecordsCoverThePromotion ==
  (job # NoJob /\ pc[job] = "completed") =>
    Touched \subseteq {FileOf[p] : p \in recorded \cup abandoned \cup (changed \ Files)}

\* Whatever goes wrong, a question that is asked is answered, kept as an incident
\* or learned from, and a job that waits for the learner gets its verdict: the
\* repairs of one run end, and so does every proposal.
LearningEnds ==
  \A j \in Jobs : pc[j] \in Running \cup {"pending"} ~>
    pc[j] \in {"answered", "incident", "rejected", "completed", "failed"}
=============================================================================
