----------------------------- MODULE FailureQueue -----------------------------
(****************************************************************************)
(* The durable failure queue (sqlagent/failure_queue.py), the request       *)
(* threads that report into it and start the learner (sqlagent/web.py), and *)
(* the learner's handler, _learning_handler, seen by its effects on git: a  *)
(* candidate branch is created, merged or not, and each file the merge      *)
(* changed is recorded. An operator merges candidate branches too, with     *)
(* /api/promote or `sqlagent promote`, and records nothing.                 *)
(*                                                                          *)
(* enqueue, claim and finish are SQLite write transactions: one action      *)
(* each. LearnerWorker.start is two steps, the test of is_alive and the     *)
(* creation of the thread, and nothing locks them together. The table and   *)
(* the branches survive a crash of the process; threads do not.             *)
(****************************************************************************)
EXTENDS Integers

CONSTANTS
  Prints,          \* failure fingerprints; a fingerprint fixes the error type
  Infra,           \* those whose type is in INFRA_ERROR_TYPES
  Requests,        \* threads that serve requests (the pool of FastAPI)
  Loops,           \* identities for learner threads
  NoLoop,          \* LearnerWorker._thread before the first start
  Files,           \* skill files that a candidate may change
  StaleAfter,      \* stale_after_s, in clock ticks
  MaxJobs,         \* bound: rows of failure_jobs
  MaxOccurrences,  \* bound: occurrence_count is not followed above it
  MaxCrashes       \* bound: crashes of the process

ASSUME QueueAssumption ==
  /\ Prints # {} /\ Infra \subseteq Prints
  /\ NoLoop \notin Loops
  /\ StaleAfter \in Nat \ {0}
  /\ {MaxJobs, MaxOccurrences, MaxCrashes} \subseteq Nat

VARIABLES
  created,      \* rows inserted so far; row j is the j-th, in created_at order
  print, status, occurrences,   \* columns of row j
  age,          \* ticks since updated_at of row j, StaleAfter meaning stale
  branch,       \* git: the handler has made the candidate branch of row j
  landed,       \* git: main holds all of that branch, whoever merged it
  merges,       \* how often the handler promoted it
  artifacts,    \* its changed_files, those that exist in main's checkout
  records,      \* the files with a provenance record of that promotion
  thread,       \* LearnerWorker._thread
  loopPc, loopJob, verdict,     \* each learner thread, in _run and the handler
  reqPc,        \* each request thread, after a failed request
  crashes

rows  == <<created, print, status, occurrences, age>>
git   == <<branch, landed, merges, artifacts, records>>
loops == <<loopPc, loopJob, verdict>>
vars  == <<rows, git, thread, loops, reqPc, crashes>>

Jobs == 1..MaxJobs
Active == {"pending", "running"}
Terminal == {"completed", "rejected", "failed"}
Statuses == {"none", "incident"} \cup Active \cup Terminal

Alive(l) == loopPc[l] # "dead"

Init ==
  /\ created = 0
  /\ print = [j \in Jobs |-> CHOOSE f \in Prints : TRUE]
  /\ status = [j \in Jobs |-> "none"]
  /\ occurrences = [j \in Jobs |-> 0]
  /\ age = [j \in Jobs |-> 0]
  /\ branch = [j \in Jobs |-> FALSE]
  /\ landed = [j \in Jobs |-> FALSE]
  /\ merges = [j \in Jobs |-> 0]
  /\ artifacts = [j \in Jobs |-> {}]
  /\ records = [j \in Jobs |-> {}]
  /\ thread = NoLoop
  /\ loopPc = [l \in Loops |-> "dead"]
  /\ loopJob = [l \in Loops |-> 0]
  /\ verdict = [l \in Loops |-> "none"]
  /\ reqPc = [r \in Requests |-> "idle"]
  /\ crashes = 0

\* Mutated form of ActiveRows: a row that is already running is not looked at.
PendingRowsOnly(f) == {j \in Jobs : print[j] = f /\ status[j] = "pending"}

\* The rows that uq_active_failure allows one of.
ActiveRows(f) == {j \in Jobs : print[j] = f /\ status[j] \in Active}

\* enqueue, the failure being active already: count it and set updated_at.
Refresh(j) ==
  /\ occurrences' = [occurrences EXCEPT ![j] = IF @ < MaxOccurrences THEN @ + 1 ELSE @]
  /\ age' = [age EXCEPT ![j] = 0]
  /\ UNCHANGED <<created, print, status>>

\* Mutated form of Insert: the infrastructure types are not told apart.
InsertPending(f) ==
  /\ created < MaxJobs
  /\ created' = created + 1
  /\ print' = [print EXCEPT ![created'] = f]
  /\ status' = [status EXCEPT ![created'] = "pending"]
  /\ occurrences' = [occurrences EXCEPT ![created'] = 1]
  /\ age' = [age EXCEPT ![created'] = 0]

\* enqueue, the failure being new: insert a pending row, which an
\* infrastructure error turns into an incident in the same transaction.
Insert(f) ==
  /\ created < MaxJobs
  /\ created' = created + 1
  /\ print' = [print EXCEPT ![created'] = f]
  /\ status' = [status EXCEPT ![created'] = IF f \in Infra THEN "incident" ELSE "pending"]
  /\ occurrences' = [occurrences EXCEPT ![created'] = 1]
  /\ age' = [age EXCEPT ![created'] = 0]

\* FailureQueue.enqueue.
Enqueue(f) ==
  \/ \E j \in ActiveRows(f) : Refresh(j)
  \/ ActiveRows(f) = {} /\ Insert(f)

\* A request fails: ask_endpoint or an exception handler enqueues the error.
Report(r, f) ==
  /\ reqPc[r] = "idle"
  /\ Enqueue(f)
  /\ reqPc' = [reqPc EXCEPT ![r] = "reported"]
  /\ UNCHANGED <<git, thread, loops, crashes>>

\* `python -m sqlagent ask` fails: same queue, but no learner to start.
ReportFromCli(f) ==
  /\ Enqueue(f)
  /\ UNCHANGED <<git, thread, loops, reqPc, crashes>>

\* Mutated form of CheckAlive: a learner that was started once is not looked at.
CheckStarted(r) ==
  /\ reqPc[r] = "reported"
  /\ reqPc' = [reqPc EXCEPT ![r] = IF thread # NoLoop THEN "idle" ELSE "starting"]
  /\ UNCHANGED <<rows, git, thread, loops, crashes>>

\* LearnerWorker.start: the test of is_alive ...
CheckAlive(r) ==
  /\ reqPc[r] = "reported"
  /\ reqPc' = [reqPc EXCEPT ![r] =
                 IF thread # NoLoop /\ Alive(thread) THEN "idle" ELSE "starting"]
  /\ UNCHANGED <<rows, git, thread, loops, crashes>>

\* ... and the creation of the thread.
StartThread(r) ==
  /\ reqPc[r] = "starting"
  /\ \E l \in Loops :
       /\ ~Alive(l)
       /\ thread' = l
       /\ loopPc' = [loopPc EXCEPT ![l] = "polling"]
  /\ reqPc' = [reqPc EXCEPT ![r] = "idle"]
  /\ UNCHANGED <<rows, git, loopJob, verdict, crashes>>

Stale == {j \in Jobs : status[j] = "running" /\ age[j] = StaleAfter}

\* What claim() chooses from once it has requeued the stale rows.
Claimable == {j \in Jobs : status[j] = "pending"} \cup Stale

\* FailureQueue.claim: requeue every stale row, run the oldest pending one.
Claim(l) ==
  /\ loopPc[l] = "polling"
  /\ \E j \in Claimable :
       /\ \A k \in Claimable : j <= k
       /\ status' = [k \in Jobs |-> IF k = j THEN "running"
                                    ELSE IF k \in Stale THEN "pending" ELSE status[k]]
       /\ age' = [k \in Jobs |-> IF k = j \/ k \in Stale THEN 0 ELSE age[k]]
       /\ loopJob' = [loopJob EXCEPT ![l] = j]
  /\ loopPc' = [loopPc EXCEPT ![l] = "evolving"]
  /\ UNCHANGED <<created, print, occurrences, git, thread, verdict, reqPc, crashes>>

\* The handler leaves with a verdict for finish().
Decide(l, v) ==
  /\ loopPc' = [loopPc EXCEPT ![l] = "finishing"]
  /\ verdict' = [verdict EXCEPT ![l] = v]

\* Mutated form of Evolve: an existing branch of the request is reused.
EvolveReuse(l) ==
  /\ loopPc[l] = "evolving"
  /\ branch' = [branch EXCEPT ![loopJob[l]] = TRUE]
  /\ loopPc' = [loopPc EXCEPT ![l] = "gating"]
  /\ UNCHANGED <<rows, landed, merges, artifacts, records, thread, loopJob, verdict, reqPc, crashes>>

\* evolve_failure: create_candidate_worktree makes the branch named after the
\* request, or raises because it exists; any other step may raise before that
\* (the branch is not there) or after it (the branch stays). A mutation that
\* changes nothing makes no commit, and then main holds the branch already.
Evolve(l) ==
  /\ loopPc[l] = "evolving"
  /\ \/ /\ ~branch[loopJob[l]]
        /\ branch' = [branch EXCEPT ![loopJob[l]] = TRUE]
        /\ landed' \in {landed, [landed EXCEPT ![loopJob[l]] = TRUE]}
        /\ \/ loopPc' = [loopPc EXCEPT ![l] = "gating"] /\ UNCHANGED verdict
           \/ Decide(l, "failed")
     \/ Decide(l, "failed") /\ UNCHANGED <<branch, landed>>
  /\ UNCHANGED <<rows, merges, artifacts, records, thread, loopJob, reqPc, crashes>>

\* promote_candidate: the candidate is merged, rejected, or an error is raised.
\* A merge of what main holds already succeeds too. The files to record are
\* those of changed_files that the checkout has; there may be none.
Gate(l) ==
  /\ loopPc[l] = "gating"
  /\ \/ /\ merges' = [merges EXCEPT ![loopJob[l]] = @ + 1]
        /\ landed' = [landed EXCEPT ![loopJob[l]] = TRUE]
        /\ \E changed \in SUBSET Files :
             artifacts' = [artifacts EXCEPT ![loopJob[l]] = changed]
        /\ loopPc' = [loopPc EXCEPT ![l] = "recording"]
        /\ UNCHANGED verdict
     \/ /\ \E v \in {"rejected", "failed"} : Decide(l, v)
        /\ UNCHANGED <<landed, merges, artifacts>>
  /\ UNCHANGED <<rows, branch, records, thread, loopJob, reqPc, crashes>>

\* The files of the promotion that still have no record.
Unrecorded(l) == artifacts[loopJob[l]] \ records[loopJob[l]]

\* Mutated form of Record: a record that cannot be written is left out.
RecordBestEffort(l) ==
  /\ loopPc[l] = "recording"
  /\ \/ /\ \E f \in Unrecorded(l) : records' = [records EXCEPT ![loopJob[l]] = @ \cup {f}]
        /\ UNCHANGED <<loopPc, verdict>>
     \/ Decide(l, "completed") /\ UNCHANGED records
  /\ UNCHANGED <<rows, branch, landed, merges, artifacts, thread, loopJob, reqPc, crashes>>

\* The provenance record of one more file is written; or all are and the
\* handler returns; or gate.json or a record cannot be written
\* (validate_complete, O_EXCL, the disk) and the job fails.
Record(l) ==
  /\ loopPc[l] = "recording"
  /\ \/ /\ \E f \in Unrecorded(l) : records' = [records EXCEPT ![loopJob[l]] = @ \cup {f}]
        /\ UNCHANGED <<loopPc, verdict>>
     \/ /\ Unrecorded(l) = {}
        /\ Decide(l, "completed") /\ UNCHANGED records
     \/ Decide(l, "failed") /\ UNCHANGED records
  /\ UNCHANGED <<rows, branch, landed, merges, artifacts, thread, loopJob, reqPc, crashes>>

\* /api/promote or `sqlagent promote` merges a candidate branch that main does
\* not hold, the latest one or one that is named: the branch of any row, also of
\* one that was rejected or failed. No row changes and nothing is recorded.
PromoteByHand(j) ==
  /\ branch[j] /\ ~landed[j]
  /\ landed' = [landed EXCEPT ![j] = TRUE]
  /\ UNCHANGED <<rows, branch, merges, artifacts, records, thread, loops, reqPc, crashes>>

\* The locals of _run are gone.
ForgetJob(l) ==
  /\ loopJob' = [loopJob EXCEPT ![l] = 0]
  /\ verdict' = [verdict EXCEPT ![l] = "none"]

\* Mutated form of Finish: the branch of a job that ends is deleted.
FinishCleansUp(l) ==
  /\ loopPc[l] = "finishing"
  /\ status' = [status EXCEPT ![loopJob[l]] = verdict[l]]
  /\ age' = [age EXCEPT ![loopJob[l]] = 0]
  /\ branch' = [branch EXCEPT ![loopJob[l]] = FALSE]
  /\ loopPc' = [loopPc EXCEPT ![l] = "polling"]
  /\ ForgetJob(l)
  /\ UNCHANGED <<created, print, occurrences, landed, merges, artifacts, records, thread, reqPc, crashes>>

\* FailureQueue.finish: the UPDATE does not look at the row's current status.
Finish(l) ==
  /\ loopPc[l] = "finishing"
  /\ status' = [status EXCEPT ![loopJob[l]] = verdict[l]]
  /\ age' = [age EXCEPT ![loopJob[l]] = 0]
  /\ loopPc' = [loopPc EXCEPT ![l] = "polling"]
  /\ ForgetJob(l)
  /\ UNCHANGED <<created, print, occurrences, git, thread, reqPc, crashes>>

\* claim() and finish() are outside _run's try: a locked database or a full
\* disk ends the thread, and the row it was working on stays running.
ThreadDies(l) ==
  /\ crashes < MaxCrashes
  /\ crashes' = crashes + 1
  /\ loopPc[l] \in {"polling", "finishing"}
  /\ loopPc' = [loopPc EXCEPT ![l] = "dead"]
  /\ ForgetJob(l)
  /\ UNCHANGED <<rows, git, thread, reqPc>>

\* The process is killed and started again; no request has failed in it yet.
Crash ==
  /\ crashes < MaxCrashes
  /\ crashes' = crashes + 1
  /\ thread' = NoLoop
  /\ loopPc' = [l \in Loops |-> "dead"]
  /\ loopJob' = [l \in Loops |-> 0]
  /\ verdict' = [l \in Loops |-> "none"]
  /\ reqPc' = [r \in Requests |-> "idle"]
  /\ UNCHANGED <<rows, git>>

Tick ==
  /\ \E j \in Jobs : status[j] = "running" /\ age[j] < StaleAfter
  /\ age' = [j \in Jobs |-> IF status[j] = "running" /\ age[j] < StaleAfter
                            THEN age[j] + 1 ELSE age[j]]
  /\ UNCHANGED <<created, print, status, occurrences, git, thread, loops, reqPc, crashes>>

Handle(l) == Evolve(l) \/ Gate(l) \/ Record(l) \/ Finish(l)

Next ==
  \/ \E f \in Prints : ReportFromCli(f) \/ \E r \in Requests : Report(r, f)
  \/ \E r \in Requests : CheckAlive(r) \/ StartThread(r)
  \/ \E l \in Loops : Claim(l) \/ Handle(l) \/ ThreadDies(l)
  \/ \E j \in Jobs : PromoteByHand(j)
  \/ Crash
  \/ Tick

Spec == Init /\ [][Next]_vars

\* Threads run (the loop polls every 250 ms, a handler ends: its calls have
\* timeouts or, of git, are assumed to end) and the clock ticks. Failures need
\* not recur, and nobody need promote anything by hand.
FairSpec ==
  /\ Spec
  /\ \A r \in Requests : WF_vars(CheckAlive(r)) /\ WF_vars(StartThread(r))
  /\ \A l \in Loops : WF_vars(Claim(l)) /\ WF_vars(Handle(l))
  /\ WF_vars(Tick)

----------------------------------------------------------------------------

\* The type invariant; rows exist up to `created`, and a learner thread that
\* runs works on one of them.
TypeOK ==
  /\ created \in 0..MaxJobs
  /\ print \in [Jobs -> Prints]
  /\ status \in [Jobs -> Statuses]
  /\ occurrences \in [Jobs -> Nat]
  /\ age \in [Jobs -> 0..StaleAfter]
  /\ branch \in [Jobs -> BOOLEAN] /\ landed \in [Jobs -> BOOLEAN]
  /\ merges \in [Jobs -> Nat]
  /\ artifacts \in [Jobs -> SUBSET Files] /\ records \in [Jobs -> SUBSET Files]
  /\ thread \in Loops \cup {NoLoop}
  /\ loopPc \in [Loops -> {"dead", "polling", "evolving", "gating", "recording", "finishing"}]
  /\ loopJob \in [Loops -> 0..MaxJobs]
  /\ verdict \in [Loops -> {"none"} \cup Terminal]
  /\ reqPc \in [Requests -> {"idle", "reported", "starting"}]
  /\ crashes \in 0..MaxCrashes
  /\ \A j \in Jobs : j > created <=> status[j] = "none"
  /\ \A l \in Loops : loopPc[l] \notin {"dead", "polling"} => loopJob[l] \in 1..created
  /\ \A l \in Loops : loopPc[l] = "finishing" => verdict[l] \in Terminal

\* A failure that is waiting or being worked on is never queued twice, through
\* any interleaving of reports, claims, requeues and finishes.
OneActiveRowPerFingerprint ==
  \A j, k \in Jobs :
    /\ status[j] \in Active /\ status[k] \in Active /\ print[j] = print[k]
    => j = k

\* "Infra failures are kept as incidents and do not mutate the skill": no
\* candidate is ever built for one, however often it recurs.
IncidentsDoNotMutate ==
  \A j \in 1..created :
    print[j] \in Infra => status[j] = "incident" /\ ~branch[j] /\ merges[j] = 0

\* A job is promoted at most once, though a crash, a dead thread or a second
\* learner makes its handler run again: the branch name makes it so.
MergedAtMostOnce == \A j \in Jobs : merges[j] <= 1

\* A job that claims success was promoted, main holds its candidate, and every
\* artifact of the promotion has its provenance record (README: "each artifact of
\* a promotion gets an immutable provenance record"), even when another run of
\* the handler ended otherwise. A promotion may have no artifact to record.
CompletedIsMergedAndRecorded ==
  \A j \in Jobs : status[j] = "completed" =>
    merges[j] = 1 /\ landed[j] /\ artifacts[j] \subseteq records[j]

SomeLoop == \E l \in Loops : Alive(l)
SomeReport == \E r \in Requests : reqPc[r] = "reported"

\* A waiting job is taken, behind the older ones and whatever else arrives, if the
\* learner runs on or requests go on failing: each failed request starts a learner
\* again when a crash or a locked database has ended the last one.
PendingIsClaimed ==
  \A j \in Jobs :
    <>[]SomeLoop \/ []<>SomeReport => (status[j] = "pending" ~> status[j] # "pending")

\* A row in running that no learner thread works on: its thread died.
Orphan(j) ==
  /\ status[j] = "running"
  /\ \A l \in Loops : loopPc[l] \in {"dead", "polling"} \/ loopJob[l] # j

\* The comment in claim(): a job stuck in running is requeued "so its
\* fingerprint does not stay blocked forever" - while a learner runs.
OrphanIsRequeued ==
  \A j \in Jobs : Orphan(j) /\ SomeLoop ~> ~Orphan(j) \/ ~SomeLoop

----------------------------------------------------------------------------

\* What a reader of the table sees of row j: whether it waits, runs or was requeued
\* does not matter.
Fate(j) ==
  CASE status[j] = "none"        -> "unused"
    [] status[j] \in Active      -> "open"
    [] OTHER                     -> status[j]

\* A learner thread has made the candidate of row j and is about to gate it.
OnTrial(j) == \E l \in Loops : loopPc[l] = "gating" /\ loopJob[l] = j

\* What became of the candidate of row j: `adopted` is in main, but not by the learner.
Candidate(j) ==
  CASE ~branch[j]                                                      -> "none"
    [] branch[j] /\ merges[j] > 0 /\ artifacts[j] \subseteq records[j]    -> "recorded"
    [] branch[j] /\ merges[j] > 0 /\ ~(artifacts[j] \subseteq records[j]) -> "merged"
    [] branch[j] /\ merges[j] = 0 /\ OnTrial(j)                          -> "trying"
    [] branch[j] /\ merges[j] = 0 /\ ~OnTrial(j) /\ landed[j]            -> "adopted"
    [] OTHER                                                           -> "dropped"

Ledger == INSTANCE FailureLedger WITH
  Failures <- Prints, Outages <- Infra, Entries <- Jobs,
  failure <- print, fate <- [j \in Jobs |-> Fate(j)], candidate <- [j \in Jobs |-> Candidate(j)]

\* Requests, learner threads, requeues, late verdicts, crashes and promotions by hand
\* together keep the promise of FailureLedger: one open entry for each failure, one
\* candidate for each entry, which the learner promotes once or never takes up again,
\* and verdicts that are true of it.
ImplementsFailureLedger == Ledger!LedgerSpec
=============================================================================
