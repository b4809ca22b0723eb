# Specifications of the SQL agent

TLA+ modules for the parts of `sqlagent` where concurrency, failure and order decide whether the
program is right, the TLC configurations that check them on small instances, and TLAPS proofs of
their safety invariants for every value of the constants. `PROJECT.json` maps each definition to
the lines it stands for and lists the runs, the hazards, the findings and the theorems.

    tlc -workers 2 -config MCFailureQueue.cfg MCFailureQueue      # one run
    tlapm FailureQueueProofs.tla                                  # one module of proofs

## The system

A natural-language question becomes SQL in a **Query Agent** (a LangGraph pipeline with a repair
loop). What it needs to know about the database is a *skill*: a git workspace of YAML and SQL files
that a **Surveyor** creates, an **Explorer** extends and a **verification** re-checks. A failed
question becomes a row of a **durable failure queue** in SQLite. A background **learner** takes the
row, lets **Evolution** build a candidate branch of the skill, and has the **Evaluator** compare it
with main and **promote** it. A FastAPI **web console** starts all of these as threads of one
process; the command line and campaign scripts start them in others. Every LLM call and every
query of the service goes through an **adaptive limiter**.

| Component | State it keeps | Operations | Meets | Hard because |
|---|---|---|---|---|
| Limiter (`concurrency.py`) | limit, slots in flight, deque of waiters, AIMD counters | acquire, release, success, pressure | all threads | condition variable, priorities, timeouts, a limit that shrinks under its holders |
| Failure queue (`failure_queue.py`) | rows of `failure_jobs`, the learner's thread | enqueue, claim, finish, start | requests, learner, other processes | duplicates, stale requeues, crashes, late verdicts |
| Learner (`web.py`, `provenance.py`) | a claimed job | evolve, promote, record | queue, git, evaluator | partial failure after a merge, second runs of one job |
| Query Agent (`query_agent/graph.py`) | the graph's state of one question | 13 nodes | database, LLM, skill | keys left over from earlier drafts, budgets, the recursion limit |
| Evaluator, promotion (`evaluator/engine.py`, `workspace.py`) | branches, main, a file lock | evaluate, gate, rebase, merge | learner, web, command line | main moves between the evaluation and the merge |
| Skill manifest (`workspace.py`, `verification.py` and every writer) | `manifest.yaml`, template files | learn, count, mark, survey | all of them | whole-file read-modify-write without a lock, truncate-then-fill |
| Explorer (`explorer/graph.py`) | the graph's state, the skill | plan, act, reflect, self_reflect, commit | LLM, database, skill | parallel probes, a stale plan, failures between writes and commits |
| Web console (`web.py`) | job store, stage signals, question counter | start a job, ask, show the status | everything | several critical sections for one event, stages shared by operations |
| Evolution (`evolution/graph.py`) | a candidate worktree | cluster, attribute, mutate, commit | learner, web | a mutation refused half-way |
| Error taxonomy (`errors.py`) | none | classify a text, a stage, a class | agent, console, queue | ordered rules over a text that the repairs wrap |
| Analytical plans (`analytical.py`, `scratch.py`) | temporary tables of one connection | compile to CTEs, compile to stages, materialize | agent, PostgreSQL | two texts for one plan, grains and cardinalities that nobody looks up, limits |
| Surveyor | the skill's first files | survey | database | sequential; only its write of the manifest races |
| LLM client, database gateway, composer, lint, telemetry, scripts | little or none | | | by their outcomes only, see below |

What makes each of them correct, in a sentence: a slot is never lost and nobody sleeps beside an
empty pool; a failure is active once, promoted once by the learner, and reported completed only with
a record of each artifact; an outage is an incident and a failure of the skill is learned from; a
candidate is one hypothesis on one surface, with a record of each file; what is executed passed the
gates and only accepted answers are learned; a promotion is about the main it is merged into; a
template that the service lists has its SQL and a failing one ends up marked; a plan's grain is a key
and its two compilations mean the same; an exploration runs the rounds it is asked for and commits
what it writes; the console shows as running what runs. Not all of this holds of the program: where
it does not, a property says what does, and the section on findings says what does not.

## The modules

| Module | Models | Properties checked or proved in |
|---|---|---|
| `AdaptiveLimiter` | the condition variable, one action for each critical section | `MCAdaptiveLimiter`, `AdaptiveLimiterProofs` |
| `PriorityPool` | what the limiter promises: who waits in front of whom, and who is next | refined by `AdaptiveLimiter`; `MCAdaptiveLimiter`, `AdaptiveLimiterProofs` |
| `FailureQueue` | rows, request threads, learner threads, crashes, the handler's effects on git | `MCFailureQueue`, `FailureQueueProofs` |
| `FailureLedger` | what the queue promises: entries, their one candidate, their verdict | refined by `FailureQueue`; `MCFailureQueue`, `FailureQueueProofs` |
| `QueryAgent` | the whole pipeline of one question | `MCQuestion`, `MCQueryAgent`, `QueryAgentProofs` |
| `Promotion` | several `promote_candidate` at once while main moves | `MCPromotion`, `PromotionProofs` |
| `SkillManifest` | the writers of `manifest.yaml` and of the SQL files it lists, promotions and `lint --fix` among them | `MCSkillManifest`, `SkillManifestProofs` |
| `Explorer` | explorations one after the other, their probes in parallel | `MCConsole`, `MCExplorer`, `ExplorerProofs` |
| `ConsoleSignals` | jobs, questions and what the console shows of them | `MCConsole`, `ConsoleSignalsProofs` |
| `ErrorTaxonomy` | what kind of error a text, a stage and a class make | extended by `Learning` |
| `Learning` | one failure from the agent's error to the provenance records: repairs, classification, queue, candidate, promotion | `MCLearning`, `LearningProofs` |
| `AnalyticalPlan` | plans of stages, compiled to one query and to several, and what these compute | `MCQuestion`, `MCAnalyticalPlan`, `QueryAgentProofs` |

Constants are the threads, names and budgets of an instance; each module names the assumptions it
makes of them, and the `MC` modules give the assumptions to TLC. Definitions called "Mutated form
of ..." are plausible bugs; the specifications never use them, and each checked property is violated
when one takes the place of the original.

`MCQuestion` and `MCConsole` each check two specifications in one run, one beside the other: a plan is
compiled and run within a node of the agent's graph, and a job within one step of its signals, so that
either part is explored while the other has not begun, with the fairness of each. Neither part reads
the other's variables.

### AdaptiveLimiter and PriorityPool

A thread of the model is a caller of `slot()`; `phase` says whether it is outside, asleep in
`wait()`, awake but without the lock, in the body, or in the feedback that follows it. `ticket` is
the `sequence` of its pair in `_waiters`. `Enter`, `Admit`, `BackToSleep`, `Expire` and `GiveUp` are
the paths through `acquire`; `RecordSuccess`, `RecordPressure` and `OtherError` those through
`slot`; `Release` gives the slot back and notifies. The condition variable itself is external.
`PriorityPool` has a capacity, the owners of slots and, for each client that waits, the set `ahead` of
those in front of it. A client joins behind all others of its kind, a fast one in front of the slow
ones; it takes a slot when nobody is in front, leaves or gives back; the capacity changes freely. The
refinement (`Ahead`, at the end of `AdaptiveLimiter`) puts in front of a waiter whoever `_waiters`
would sort before it.

### FailureQueue and FailureLedger

Row *j* is the *j*-th insertion. `Enqueue` (an insert or a refresh of the active row), `Claim` (with
its requeue of stale rows) and `Finish` are write transactions and one action each. `CheckAlive` and
`StartThread` are the two unlocked halves of `LearnerWorker.start`. A learner thread goes through
`Evolve`, `Gate`, `Record` and `Decide`, each of which can raise; `ThreadDies` is an SQLite error
outside the loop's `try`; `Crash` ends all threads and keeps the table and git. A promotion has the
artifacts that its handler has to record (those of `changed_files` that exist, maybe none), and
`Record` writes one record after the other. `PromoteByHand` is `/api/promote` or `sqlagent promote`:
it merges any branch that main does not hold, of a rejected row too, and leaves the rows alone. A
candidate without a change is in main at once (`landed`), and its merge does nothing. `age` counts clock
ticks since `updated_at`, which is the heartbeat and the time of the last recurrence at once.

An entry of `FailureLedger` is unused, open, an incident or has a verdict, and its candidate goes from
none to trying to merged to recorded, or is dropped, and maybe adopted by hand. `Fate` and `Candidate` read these from a row and
from git: pending, running and requeued are all open; a branch that is there, unmerged and with no
thread about to gate it is dropped, since no later run can make it again.

### QueryAgent

`node` is the node about to run, `st` the keys of `QueryState` that control reads, and `steps` the
supersteps. A query is abstracted to the number of its draft, so that "validated", "explained",
"judged" and "executed" are numbers that can be compared with the current one. Each node is an
action with all of its outcomes: LLM errors, empty drafts, rejections, clarification, read-only
evaluation, and the optimizer's replacement of the query behind the critic. `Executed` is what is sent
to the database: the stages of a scratch plan when the state has some, the query otherwise. A plan's
two compilations have the same number, as they are validated and explained together. So
`ExecutesOnlyValidated` is about what is executed, and has one exception: the stages that an earlier
plan left behind, which were compiled from a draft that need not have passed the gates.

### Promotion

A commit is the set of the changes in it, so equal sets are equal trees. A promoter passes through
`Start`, `FirstEvaluation`, `Lock`, `CheckMain`, then maybe `Rebase` and `Reevaluate`, then `Merge`
and `Tag` or `Reject`; `Raise` can happen anywhere and drops the lock. The learner builds the
candidate it promotes, the others pick an unmerged one. Commits to main by queries, surveys and
explorations take no lock and happen at any time.

### SkillManifest

The file is a record (what is listed, what is marked failing, how often each template was used), or
`Blank` after a truncation, or `Garbled` after two writers. A question, an exploration, a survey and
a verification each read a `copy`, work, truncate and fill; any of them can be killed in between.
`Lint` is the command line's `lint --fix`. `Promote` is git's merge of a candidate: of its manifest
(`MergeManifest`, any change of any entries, or a conflict whose markers stay in the file) or of its
templates (`MergeSql`). `given` remembers which entries a candidate has changed. Such an entry need not
have a file, and need not be one: at what is no mapping, or names a directory, `VerifyRaises`.

### Explorer

`phase` and `draft` are the threads of the act node, one for each probe, `probes` is the state key
that outlives them, and `dirty` the files that explorations wrote since the last commit. A probe's
SQL is what the gates make of it: unsafe, unknown to the schema, or good (which may still fail).
`Goto` counts a superstep and raises at langgraph's limit, whatever number of rounds was asked for. `Fail` is any exception of a node, or the
death of the process; another exploration then finds what the first one left.

### ConsoleSignals

Every critical section of `_signal_lock` and of `JobStore._lock` is an action. `Shown` and
`SignalState` are what `_signal_snapshot` and `/api/status` derive from the signals. `Stage` and
`Successes` collect what the endpoints pass to `_tracked_operation`.

### ErrorTaxonomy and Learning

A text is the set of the phrases that `error_type_for_message` looks for, and `Rules` are its `if`s
in their order. `Learning` composes the components a failure goes through. `Generate`, `Query` and
`ReactRepair` are the nodes of the agent as far as they write `error`: each trouble comes with the
text the code gives it (`chat_json` ends every failed call in "did not return JSON"), and each repair
that fails wraps or replaces it. `Report`, `Raise` and `Unserializable` are the three ways into the
queue. The handler is `Evolve` (a worktree of a new branch), `Propose` or `ProposeNothing`,
`WriteFile` for each file, `Refuse` at a file that is not allowed, `EndProposal`, `Fallback`,
`Commit`, `Promote`, `Record` for each artifact and `Complete`; `HandlerRaises` can come anywhere.
`OtherCommit` is what surveys, explorations and questions commit to main meanwhile. `blame` (who was
at fault), `quoted` (what the last error took from free texts) and `abandoned` (the paths of a
refused proposal) are history variables.

Every error that quotes something - the database's text, the provider's, the critic's, a name of the
query, a bug's exception - may have any of the phrases in `Quotable` in it, which are all that
`Rules` looks for but the stages. A proposal names paths; `SurfaceOf` is what a path begins with and
`FileOf` the file that it leads to, which is another one when it goes by `..`.

Assumed: questions are asked before the learner begins, as a run and the handler share only the
queue, whose races are those of `FailureQueue`. The surface a failure is attributed to is any. The skill starts as an earlier life
of the service may leave it, with fallbacks promoted before.

### AnalyticalPlan

A plan grows stage by stage; with each stage the module keeps what its query is, the columns and the
grain the compiler computes, and the rows that the CTE yields. `CompileScratch` ends the plan;
then `Materialize` runs a stage into a temporary table, with the limit, of which any rows may be left,
and `Answer` runs the last query. What a plan declares, the grain of a scan and the cardinality of a
join, is any of what the compiler accepts, true or false; `sound` is a history of whether everything
declared up to a stage is true of the data. A relation is a function from ids to rows, so that rows which look
alike stay apart, and an answer is compared as a relation. A query may give two columns one name
(`twice`): nothing can read that name and no table can be made of it. `ReadCte` finds a name as a
`WITH` does; `Rewritten` finds it as the regular expression of `compile_scratch` does, which ignores
case. The preview that cuts an answer at `preview_rows` is left out, as it is the same for both
compilations.

## The runs

| Run | Instance | What it shows |
|---|---|---|
| `limiter` | 2 interactive callers, 2 learner calls (one with a deadline), limit 1..3, window 2, 6 acquisitions | no slot is lost, nobody sleeps beside an empty pool, AIMD keeps its rules, the pool is implemented with its fairness, an interactive caller is served |
| `queue_racing` | 2 requests and 2 learner threads, or 2 skill failures; 1 infrastructure failure, 2 rows, 1 file, 1 crash, promotions by hand | one active row for each failure, incidents never get a candidate, one promotion for each job, "completed" has its records, the ledger is implemented, a waiting row is claimed |
| `queue_blocked` | 1 row, stale after 2 ticks | **violation**: an orphaned row whose failure recurs is never requeued |
| `question` | the agent with 3 repairs and 1 optimizer pass; all plans of up to 4 stages over 2 tables, limit 3 rows | the recursion limit suffices; what is executed was validated, stale stages apart; nothing rejected is answered or learned; true declarations give true grains and no unasked fan-out; both compilations answer the same |
| `agent_scratch` | the agent alone | **violation**: a query that was never executed is learned, when a repair goes from a materialized plan to a plain one |
| `plan_fanout` | plans of up to 3 stages | **violation**: a join that is not allowed to fan out does, as what it declares is false |
| `learning` | 1 failure, 2 repairs, 5 files and a path by `..` on 2 surfaces, proposals of up to 3 files, commits by others | a failure of the skill is put aside only if its text speaks of an outage, a candidate is one hypothesis but for paths by `..`, a completed job has its records, everything ends |
| `infra_mutates` | the same | **violation**: an outage is classified as the skill's failure, and the skill is mutated for it |
| `promotion` | learner and web, 2 candidates, 1 commit to main | promotions are serialized and form a line, the gate is about the merged tree, every promotion ends |
| `manifest` | 2 questions, an exploration, a survey or `lint --fix`, a periodic verification, 1 template, 1 death or 1 promotion | what the service lists has SQL, no use is counted twice, a failing template ends up marked |
| `console` | 2 jobs, 2 questions, 5 of the 7 operations; 2 explorations, of up to 5 and 2 rounds, 2 probes, 1 artifact | one operation for each name, an exact counter, no stage left running; rounds that fit are run, explorations commit what they write and run stale probes once more at most; all end |
| `explorer_rounds` | 1 exploration of up to 5 rounds | **violation**: an exploration of five rounds ends in GraphRecursionError |

The properties each run checks, each commented where its module defines it:

| Run | Properties |
|---|---|
| `limiter` | `SlotAccounting`, `NoSleepingHead`, `OverLimitOnlyAfterPressure`, `GrowthEarned`, `ImplementsPriorityPool`, `InteractiveServed` |
| `queue_racing` | `OneActiveRowPerFingerprint`, `IncidentsDoNotMutate`, `MergedAtMostOnce`, `CompletedIsMergedAndRecorded`, `ImplementsFailureLedger`, `PendingIsClaimed` |
| `queue_blocked` | `OrphanIsRequeued` |
| `question` | `WithinRecursionLimit`, `ExecutesOnlyValidated`, `NothingFailedPastTheGates`, `AnsweredIsVerified`, `LearnedIsAccepted`, `GrainIsAKey`, `TrueJoinsKeepMeasures`, `ScratchMeansTheSame` |
| `agent_scratch` | `LearnedWasExecuted` |
| `learning` | `SkillFailureIsLearned`, `OneHypothesis`, `RecordsCoverThePromotion`, `LearningEnds` |
| `infra_mutates` | `InfrastructureDoesNotMutate` |
| `plan_fanout` | `JoinsKeepMeasures` |
| `promotion` | `PromotionsAreOrdered`, `NoPromotionMissed`, `RebasedIsWhatIsMerged`, `PromotedPassedItsLastGate`, `PromotionEnds` |
| `manifest` | `ListedHasSql`, `UsesNotOvercounted`, `EventuallyMarked` |
| `console` | `OneOperationPerName`, `QuestionsAreCounted`, `RunningIsBusy`, `JobsEnd`, `RoundsThatFitAreRun`, `RoundsAreCommitted`, `PlanActedAtMostTwice`, `ExplorationEnds` |
| `explorer_rounds` | `AskedRoundsAreRun` |

Where no run checks a module's `TypeOK`, it is proved.

**Bounds.** They are named in each module and given in the `.cfg`. The races of these components are
between two actors, so each instance has two of each kind that can race (with two priorities in the
limiter). Two rows let a fingerprint fail, be decided and fail again, or one failure wait behind
another; one crash leaves every intermediate state behind once. Six acquisitions fill the pool, halve the limit
and grow it again. Four rounds are the most that fit in langgraph's limit, so the fifth exceeds
it; two explorations are one that fails and one that finds its remains. Two repairs wrap one error in
another and exhaust the budget; three files besides the fallback's let a proposal be refused with two
written, and one more would go over the bound. Four stages are two scans, a join and a stage that
depends on its grain, a stage that is given a name counting as two; two rows of a table have one key
in the other, one has none. The two operations the
console run leaves out, `evaluate` and `optimize`, have the stages of `promote` and `evolve`. The
proofs do not depend on these bounds.

Five runs have a CONSTRAINT that keeps them small, each a definition of its MC module with its reason:
`TwoLearnersOrTwoFailures` (a second learner races, or a second skill failure waits, not both),
`LongPlansDeclareLittle` (plans beyond two stages declare the usual grains, one of them false, and
measure something), `QuotesAreClassified` (what a text quotes is followed to its classification),
`PromotionsAreQuiet` (with a promotion, two other operations and no death) and `LaterRunsAreShort`
(the second exploration has two rounds at most). Behaviours that leave a constraint are not
explored, by the liveness properties either; each property is violated by a mutated definition under
the constraint of its run.

The larger runs have 240,000 (`queue_racing`), 360,000 (`learning`), 430,000 (`console`), 820,000
(`manifest`) and 1,280,000 (`question`) distinct states.

**Deadlock** is not checked where the system may really stop: questions, failures, candidates and
explorations simply run out.

## Fairness

Weak fairness is given to steps that the code or its environment bounds, and to nothing else:

- limiter: waking up, finishing the body and releasing (HTTP and statement timeouts bound the body).
  Nothing is assumed of the arrival of callers; a learner call may starve behind interactive ones.
- queue: the two steps of `start`, claiming and handling (a 250 ms poll, and calls that end) and the
  clock. Not of crashes, of deaths of threads, of new failures or of promotions by hand.
- promotion: a promoter goes on; it is *strongly* fair to `Lock`, since the kernel gives the `flock`
  again and again and a waiter is not passed over for ever.
- manifest: a thread that has begun goes on unless it is killed, and the periodic verification
  begins again (`_periodic_verification`). The bound on calls makes the other writers stop:
  `EventuallyMarked` says what happens then, not under a stream of questions that never ends.
- learning: the run of a question and the learner's handler go on, as the calls they make
  of the model and the database have timeouts. Not of questions, of other commits or of
  exceptions.
- console: the graph of an exploration, and the thread of a job, go on.

Git commands and `flock` have no timeout, and that they end is an assumption: a git that hangs ends the
promises of `PendingIsClaimed`, `LearningEnds` and `PromotionEnds`. A `VERIFY_INTERVAL_HOURS` of zero or less turns the periodic
verification off, and with it `EventuallyMarked`.

## Proofs

Every proof is an inductive invariant preserved by each action, then PTL; for any number of threads,
rows, candidates, templates, probes and jobs, under the assumptions named in the modules.

- **Limiter.** `SlotAccounting` is inductive with the type invariant: each of the actions moves one
  thread in or out of `Holders` and the counter with it. `NoSleepingHead` needs that whoever leaves
  the head position notifies, or leaves a call in flight.
- **Limiter's growth.** `GrowthEarned` counts acquisitions that have been finished; `Earned` says the
  same with the calls that are waiting or under way (`Unfinished`) left out of the count, so that each
  growth is paid for by a whole window of successes, and that is inductive.
- **Limiter as a pool.** `LimiterIsPriorityPool` has a step for each action. Joining, being admitted and
  giving up are steps of the pool: no ticket is beyond the last one given out (`TicketsIssued`), so a
  newcomer is the last of its kind, and `Selected` picks the one with nobody in front. Wakeups, going
  back to sleep and other errors are stutters; feedback is `Resize`, within the bounds of the type
  invariant. The pool's fairness is not in it.
- **Queue.** `OneActiveRowPerFingerprint` rests on the index and on claim and finish never making a
  decided row active. Merges and records need `HistoryOK`: a thread past the creation of a branch
  owns it (`OneGatePerJob`), as a branch is created once; a thread that finishes with "completed"
  has merged and has no artifact left without a record (`StageOfThread`). `IncidentsDoNotMutate`
  needs that no thread ever works on an incident.
- **Queue's verdicts.** A rejected row is `Sealed`: its branch exists, the learner has not promoted it, and
  no thread is about to gate it. That is stable, for a branch that exists keeps every later run from the gate, and it
  holds of each verdict "rejected" on its way to `finish` (`RejectionsAreSealed`), since the gate it
  comes from was its thread's alone. So `RejectionBindsTheLearner` holds though `finish` never looks
  at the row. It speaks of the learner: whoever promotes by hand is not asked.
- **Queue as a ledger.** `QueueIsLedger` rests on all of these invariants (`LedgerInv`),
  the rows that are incidents being those of the infrastructure. `Claim`, requeues, ticks and deaths
  of threads are stutters; `Evolve`, `Gate`, the last `Record` and a promotion by hand move one
  candidate; `Finish` is a true verdict; a crash drops every candidate that is on trial.
- **Agent.** `StepsUsed` bounds the supersteps by the depth of the node and six for each repair,
  which is why the formula of `recursion_limit_for_attempts` suffices for every budget. `Tracked`
  says for each node what is known of the current query there, and `LeftBehind` that a scratch plan which
  is not that of the current query is older, and a repair was made since; answers, learning and
  `ExecutionIsGated` follow.
- **Plans.** `PlanInv`: the names are distinct (`DistinctIds`), what is kept with a stage is what its CTE
  computes from the CTEs before it (`Compiled`), and a temporary table has what the CTE has
  (`Materialized`), as both compilations find the same relation under a name (`SameQuery`) and a result
  that passes the limit was not cut by it (`LimitedIsWhole`). For grains there is a lemma for each
  operator that says what it does to a key (`ProjectKeepsKey`, `JoinKeepsKey`, ...); they are cited for
  the stages that are `sound` only. `TrueJoinsDoNotRepeat` needs the truth of the one join it is about.
- **Promotion.** The type invariant has mutual exclusion in it. `Tracks` says that the main a promoter
  knows is part of main, and that no promotion was merged since if they are equal; `Follows` that
  after a rebase it speaks of its branch's tip; `Gated` that the gate speaks of the last report.
  `Line`, for the order of the promotions: a branch has its own change, a baseline the candidate of
  each promotion seen when it was read (`Ordered`), and who decides has seen them all.
- **Manifest.** `UsesInv` extends the property to the copies in memory, `SqlInv` says that what a copy
  lists has its SQL or its holder is about to write it, since the file comes before the manifest. Both
  leave out what is in `given`, also in the copies that were read before a merge.
- **Explorer.** `Counted` ties the supersteps to the round and the node, and the limit is met only with
  more rounds than fit in it; a plan starts from a committed workspace, or has written nothing yet
  (`Clean`); a second run of the same probes has a reason to be the last (`Acted`).
- **Learning.** `HypothesisInv`: what differs from the base is where a path in `changed` or
  `abandoned` leads to (`Traced`), all of these paths begin with the surface (`OnSurface`),
  and a proposal that can still be refused leaves room for the fallback's file (`Bounded`). `RecordInv`: what was written is there (`Written`), and
  what was merged is in main until the job ends (`Landed`), since nobody deletes a file, so that each
  artifact gets its record. `FailureInv`: one run at a time (`OneRun`), whose error is `Explained`: what
  it says of a serialization, a time-out or a model is quoted, or comes with the "did not return JSON"
  of `chat_json`, or has an outage to blame; and a run that ends does so in "react" (`ReactsError`).
  From the order of the `Rules` such an error is of an infrastructure type only if an outage is to blame
  or its quotes are `Incidental`.
- **Learning's end.** `StepsLeft` counts the repairs, the files of the proposal and the records that are
  still possible; each step of a question lowers it, and no step of another raises it, as only one job
  is with the learner (`OneJob`). This is `LearningEnds` without the fairness: a question cannot go on
  for ever, whatever the model proposes and whatever fails.
- **Console.** `Owed`: whoever wrote "running" to a stage is still to write something else there. The
  counter is the cardinality of a set that grows and shrinks by one.

The theorems, and in parentheses the property of a run that each states of `Spec` (`TypeCorrect`
states the module's `TypeOK`):

| Module | Theorems |
|---|---|
| `AdaptiveLimiterProofs` | `TypeCorrect`, `AccountingCorrect` (SlotAccounting), `OverLimitCorrect` (OverLimitOnlyAfterPressure), `NoLostWakeup` (NoSleepingHead), `GrowthIsEarned` (GrowthEarned), `LimiterIsPriorityPool` (ImplementsPriorityPool, but for its fairness) |
| `FailureQueueProofs` | `TypeCorrect`, `OneActiveRow` (OneActiveRowPerFingerprint), `AtMostOneMerge` (MergedAtMostOnce), `CompletedIsTrue` (CompletedIsMergedAndRecorded), `IncidentsNeverMutate` (IncidentsDoNotMutate), `RejectionBindsTheLearner`, `EndedRowsStayEnded`, `QueueIsLedger` (ImplementsFailureLedger) |
| `QueryAgentProofs` | `TypeCorrect`, `RecursionLimitSuffices` (WithinRecursionLimit), `ExecutionIsGated` (ExecutesOnlyValidated), `GatesHold` (NothingFailedPastTheGates), `AnswersAreVerified` (AnsweredIsVerified), `LearningIsGated` (LearnedIsAccepted); of the plans `GrainsAreKeys` (GrainIsAKey), `TrueJoinsDoNotRepeat` (TrueJoinsKeepMeasures), `CompilationsAgree` (ScratchMeansTheSame) |
| `PromotionProofs` | `TypeCorrect`, `PromotionsAreSerialized` (NoPromotionMissed), `GateIsAboutTheMerge` (RebasedIsWhatIsMerged), `PromotionsPassed` (PromotedPassedItsLastGate), `PromotionOrder` (PromotionsAreOrdered) |
| `SkillManifestProofs` | `TypeCorrect`, `UsesAreCounted` (UsesNotOvercounted), `ListedTemplatesHaveSql` (ListedHasSql) |
| `ExplorerProofs` | `TypeCorrect`, `RecursionLimitSuffices` (RoundsThatFitAreRun), `RoundsEndWithCommit` (RoundsAreCommitted), `ProbesAreReadOnly`, `ShortRunsAreExplained`, `StalePlansAreBounded` (PlanActedAtMostTwice) |
| `LearningProofs` | `TypeCorrect`, `HypothesisIsBounded` (OneHypothesis), `PromotionIsRecorded` (RecordsCoverThePromotion), `SkillFailuresAreLearned` (SkillFailureIsLearned), `StepsRunOut` |
| `ConsoleSignalsProofs` | `TypeCorrect`, `OperationsExclude` (OneOperationPerName), `CounterIsExact` (QuestionsAreCounted), `RunningIsTrue` (RunningIsBusy), `QuietIsShown` |

Every invariant that a passing run checks is a theorem. Only model-checked: the liveness properties
(`InteractiveServed`, `PendingIsClaimed`, `LearningEnds`, `PromotionEnds`, `EventuallyMarked`,
`ExplorationEnds`, `JobsEnd`) and the fairness in `ImplementsPriorityPool`: liveness under fairness and
ENABLED are outside what the prover handles. So is induction over data: no theorem says what a sum
is, and those about plans need only that equal relations have equal sums. No module has a RECURSIVE
operator. The violations in the five runs that expect one are TLC's alone.

## Findings

1. A row orphaned in `running` is never requeued while its failure recurs, for `enqueue` renews the
   `updated_at` that `claim` takes for a heartbeat (`failure_queue.py:116`, run `queue_blocked`).
2. `_scratch_model_plan` returns no keys for a plan without stages, so the old stages are executed
   and the new query is learned without having run (`query_agent/graph.py:821`, run `agent_scratch`).
3. An outage that the agent reports is not kept as an incident (`errors.py:80`, run `infra_mutates`). A model
   that times out "did not return JSON", which is found before the timeout is; and a failed run always
   ends in a text that begins with "ReAct", so its stage is none of those where the database's errors
   are infrastructure. The job is pending, and the learner mutates the skill for it, against
   `README.md:73`. What does put a failure aside is a text that quotes "serialization", or a time-out and
   "model", whoever is to blame, and an answer that cannot be serialized if the exception's class says so.
4. Of what a plan declares only that it is declared is tested: a join declared many_to_one over a key
   that repeats compiles and repeats rows (`analytical.py:213`, run `plan_fanout`), where `README.md:46`
   says that cardinality and grain are validated deterministically. The same goes for a scan's grain
   (`analytical.py:195`); and a UNION ALL (266), a projection that drops columns and a derived or measured
   column with the name of one of the grain (298, 253) carry on a grain that is no key.
   `CompiledPlan.grain` is read nowhere at run time.
5. Five rounds or more of one exploration meet langgraph's default recursion limit, which nothing
   overrides, and end in an error after their work (`explorer/graph.py:536`, run `explorer_rounds`);
   `--rounds` and `EXPLORER_ROUNDS` have no bound.

Read in the code while modelling, without a run of their own:

- Two requests that fail together start two learners: `start` tests `is_alive` and creates the thread
  with no lock (`failure_queue.py:195`), where its class promises "Exactly one background learner loop
  per process". Every property of `queue_racing` holds with two.
- `_record_template_metrics` writes back the manifest it read and loses a verification's mark
  (`query_agent/graph.py:310`); `manifest` shows that the next verification repairs it.
- A proposal refused half-way leaves its files in the worktree; the fallback's commit has them, but
  `changed_files` does not name them and they get no provenance record, where `README.md:76` promises
  one to each promoted artifact (`evolution/graph.py:174`).
- A candidate whose fallback text is in main already changes nothing and can be "promoted": the merge
  does nothing, and the job is completed without a record.
- The fallbacks of all surfaces but relationships and the router write over what was learned in their
  file before.
- `base_sha` is read when the candidate has been committed, main may have moved; the hash of a record
  is of the live workspace after the promotion lock was given back.
- `evolve_failure` builds a trajectory without `sql`, so no failure is ever attributed to
  relationships by its query.
- The trajectory of a failed run gives every error the stage "query_agent"
  (`query_agent/graph.py:1039`), so the database's outages and the time-outs are internal errors
  there, and `run_evolution`, which reads trajectories, mutates the skill for them.
- A path is tested for its surface by what it begins with, and written to where it leads
  (`evolution/graph.py:82`, `workspace.py:106`): "semantics/../manifest.yaml" changes the router's file
  under another surface. `OneHypothesis` says which files this exempts.
- `/api/promote` and `sqlagent promote` merge whatever branch is not in main, one that the learner
  rejected or that failed included, and write no provenance record, where `README.md:76` promises one.
- A promoted candidate may list templates without a file, and entries that are no mapping or whose path
  is a directory: at the latter every later verification raises (`verification.py:37-39` is outside the
  `try`), and no template is marked any more. `lint --fix` repairs neither.
- A merge with a conflict raises and is not aborted (`evaluator/engine.py:333`): the markers stay in
  the live `manifest.yaml`, which nothing can read until somebody repairs it.
- A waiter of the limiter can sleep beside a free slot: the head takes its slot without notifying, so
  when two slots are free the next one waits for the next release (`concurrency.py:61`).
- `compile_scratch` rewrites names regardless of case (`analytical.py:157`): a stage "CUSTOMERS" takes
  a later scan of the table "customers", which the explained query does not do. `ScratchMeansTheSame`
  holds for plans without such names (`OneCase`) and is violated without that condition.
- A gate without targets passes with nothing rescued, as `all()` of nothing is true
  (`evaluator/engine.py:211`), where `README.md:91` says that it requires a rescued target; only the
  learner names a target, and its corpus has no other case.
- `/api/evaluate` evaluates the live workspace, where a question's writes count as the evaluator's.
- An empty plan leaves the probes of the round before in the state, and they are run again.
- Two probes that teach the same correction in one round add it to the notes twice.
- The console shows "promoted" for a promotion that the gate rejected, and "ready" for a stage on
  which another operation still runs.

## Not modelled, and why

- **Concurrent writers of the shared checkout's git index** (`Workspace.commit` from several threads):
  a commit is one step in every module; what git does with a half-staged index is external to the code.
- **Attribution**: words of a message, whose wording is the model's; any surface is possible.
- **Two explorations at once** (`/api/explore` beside `/api/optimize` or the command line): `Explorer`
  has them one after the other; their race for the manifest is in `SkillManifest`.
- **An evaluation** is one step with a free outcome: the comparison of cases, the read-only role and
  the budget of the evaluator are not modelled.
- **LLM client**: the cache, the validation of cached answers and the read-only mode of the cache. A
  call is an outcome in all the modules, and its error's text is in `Learning`.
- **Plans**: the compiler of expressions, the choice between two candidate plans by their cost, and the
  composer of single queries; they are text from text, with no state.
- **Database gateway, lint, golden cases**: the behaviour of PostgreSQL or text processing; outcomes of
  actions where they matter.
- **Surveyor**: a sequential pipeline of introspection queries, but for its write of the manifest.
- **Telemetry, trajectories, configuration, command line, static page**: logging, I/O and display,
  except `ask` as a reporter of failures.
- **Campaign scripts**: drivers of experiments with no state that the service shares.

## Plan

Done, in this order, most important first: limiter and its abstract pool; queue and learner; agent;
promotion; manifest; explorer; console; the taxonomy and the whole way of a failure; plans; the queue's
ledger. Open:

1. Evaluation as more than one step: detached worktrees at fixed commits, the check that nothing was
   written, the parts of the gate that compare cases, and with them the statement about targets.
2. `LlmClient`: retries and their end at a client error, cache validation, `cache_writes_disabled`
   under threads, and the limiter around a call (INSTANCE of `AdaptiveLimiter`).
3. The git index of the shared checkout: concurrent `git add .` and commits, a merge among them.
4. An abstract specification of promotion, one atomic comparison and merge at a time, which
   `Promotion` implements; its refinement proved.
5. Bounds on the steps of explorations, promotions and jobs, as `StepsRunOut` gives them for learning.
