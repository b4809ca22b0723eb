---------------------------- MODULE ConsoleSignals ----------------------------
(****************************************************************************)
(* What the web console shows of the work under way (sqlagent/web.py): the  *)
(* job store, the four stage signals and the counter of questions, each     *)
(* behind a lock of its own and each written in several critical sections   *)
(* by the threads of jobs and of questions.                                 *)
(*                                                                          *)
(* A signal's detail, the ids and the times of jobs and the state of the    *)
(* services are left out; the result of an operation is abstracted to       *)
(* whether it raised and whether it names a branch.                         *)
(****************************************************************************)
EXTENDS Integers, FiniteSets

CONSTANTS
  Operations,   \* the endpoints that start a job
  Jobs,         \* job ids, given out one by one
  Questions     \* threads that serve /api/ask

Endpoints == {"survey", "explore", "evaluate", "verify", "optimize", "evolve", "promote"}

ASSUME ConsoleAssumption ==
  Operations \subseteq Endpoints /\ Operations # {} /\ IsFiniteSet(Questions)

VARIABLES
  signal,    \* _signal: the status of each stage
  active,    \* _active_queries
  name, status, finished,   \* JobStore._jobs
  thread,    \* each job's thread
  asking     \* each question's thread

store == <<name, status, finished>>
consoleVars == <<signal, active, store, thread, asking>>

Stages == {"ingest", "reason", "learn", "promote"}
Untracked == "untracked"

\* The stage each endpoint gives to _tracked_operation; a verification has none.
Stage(op) ==
  CASE op \in {"survey", "explore"} -> "ingest"
    [] op \in {"optimize", "evolve"} -> "learn"
    [] op \in {"evaluate", "promote"} -> "promote"
    [] op = "verify" -> Untracked

\* success_status; a promotion without a candidate is skipped and keeps the
\* default, one that the gate rejected is shown as "promoted" too.
Successes(op) ==
  CASE op = "evaluate" -> {"evaluated"}
    [] op = "evolve" -> {"candidate"}
    [] op = "promote" -> {"promoted", "ready"}
    [] OTHER -> {"ready"}

ConsoleInit ==
  /\ signal = [s \in Stages |-> "pending"]
  /\ active = 0
  /\ name \in [Jobs -> {CHOOSE op \in Operations : TRUE}]
  /\ status = [j \in Jobs |-> "none"]
  /\ finished = [j \in Jobs |-> FALSE]
  /\ thread = [j \in Jobs |-> "none"]
  /\ asking = [q \in Questions |-> "idle"]

\* _set_signal: one critical section.
SetSignal(stage, value) == signal' = [signal EXCEPT ![stage] = value]

JobGoto(j, label) == thread' = [thread EXCEPT ![j] = label]

\* Mutated form of StartJob: the running jobs are not looked at.
StartJobUnchecked(j, op) ==
  /\ thread[j] = "none"
  /\ name' = [name EXCEPT ![j] = op]
  /\ status' = [status EXCEPT ![j] = "running"]
  /\ JobGoto(j, IF Stage(op) = Untracked THEN "working" ELSE "entered")
  /\ UNCHANGED <<signal, active, finished, asking>>

\* JobStore.start: the check and the new record are one critical section, and a
\* name that is running is refused with a 409.
StartJob(j, op) ==
  /\ thread[j] = "none"
  /\ ~ \E k \in Jobs : name[k] = op /\ status[k] = "running"
  /\ name' = [name EXCEPT ![j] = op]
  /\ status' = [status EXCEPT ![j] = "running"]
  /\ JobGoto(j, IF Stage(op) = Untracked THEN "working" ELSE "entered")
  /\ UNCHANGED <<signal, active, finished, asking>>

\* _tracked_operation shows its stage as running ...
ShowRunning(j) ==
  /\ thread[j] = "entered"
  /\ SetSignal(Stage(name[j]), "running")
  /\ JobGoto(j, "working")
  /\ UNCHANGED <<active, store, asking>>

\* ... runs the survey, exploration, evaluation, evolution or promotion ...
Work(j) ==
  /\ thread[j] = "working"
  /\ \E result \in {"returned", "raised"} :
       JobGoto(j, IF Stage(name[j]) # Untracked THEN result
               ELSE IF result = "returned" THEN "completing" ELSE "failing")
  /\ UNCHANGED <<signal, active, store, asking>>

\* ... shows the end of it ...
ShowSuccess(j) ==
  /\ thread[j] = "returned"
  /\ \E value \in Successes(name[j]) : SetSignal(Stage(name[j]), value)
  /\ \/ JobGoto(j, "completing")
     \/ name[j] = "evolve" /\ JobGoto(j, "announcing")
  /\ UNCHANGED <<active, store, asking>>

\* ... and the branch of an evolution that made one as a candidate.
ShowCandidate(j) ==
  /\ thread[j] = "announcing"
  /\ SetSignal("promote", "candidate")
  /\ JobGoto(j, "completing")
  /\ UNCHANGED <<active, store, asking>>

\* Mutated form of ShowError: an exception goes by without a signal.
ShowNoError(j) ==
  /\ thread[j] = "raised"
  /\ JobGoto(j, "failing")
  /\ UNCHANGED <<signal, active, store, asking>>

ShowError(j) ==
  /\ thread[j] = "raised"
  /\ SetSignal(Stage(name[j]), "error")
  /\ JobGoto(j, "failing")
  /\ UNCHANGED <<active, store, asking>>

\* Mutated form of Report: an error is not recorded.
ReportSuccessOnly(j) ==
  /\ thread[j] \in {"completing", "failing"}
  /\ status' = [status EXCEPT ![j] = IF thread[j] = "completing" THEN "completed" ELSE @]
  /\ JobGoto(j, "finishing")
  /\ UNCHANGED <<signal, active, name, finished, asking>>

\* JobStore's worker records the result or the error ...
Report(j) ==
  /\ thread[j] \in {"completing", "failing"}
  /\ status' = [status EXCEPT ![j] = IF thread[j] = "completing" THEN "completed" ELSE "failed"]
  /\ JobGoto(j, "finishing")
  /\ UNCHANGED <<signal, active, name, finished, asking>>

\* ... and then, in another critical section, that it has finished.
Finish(j) ==
  /\ thread[j] = "finishing"
  /\ finished' = [finished EXCEPT ![j] = TRUE]
  /\ JobGoto(j, "done")
  /\ UNCHANGED <<signal, active, name, status, asking>>

JobStep(j) ==
  \/ ShowRunning(j) \/ Work(j) \/ ShowSuccess(j) \/ ShowCandidate(j) \/ ShowError(j)
  \/ Report(j) \/ Finish(j)

\* ask_endpoint counts the question, then shows it ...
Count(q) ==
  /\ asking[q] = "idle"
  /\ active' = active + 1
  /\ asking' = [asking EXCEPT ![q] = "counted"]
  /\ UNCHANGED <<signal, store, thread>>

ShowQuestion(q) ==
  /\ asking[q] = "counted"
  /\ SetSignal("reason", "running")
  /\ asking' = [asking EXCEPT ![q] = "asking"]
  /\ UNCHANGED <<active, store, thread>>

\* Mutated form of Uncount: only an answer is taken off the counter.
UncountAnswers(q) ==
  /\ asking[q] = "asking"
  /\ \E outcome \in {"ready", "error"} :
       /\ asking' = [asking EXCEPT ![q] = outcome]
       /\ active' = IF outcome = "ready" THEN active - 1 ELSE active
  /\ UNCHANGED <<signal, store, thread>>

\* ... and, answered or not, takes it off the counter in the finally clause ...
Uncount(q) ==
  /\ asking[q] = "asking"
  /\ \E outcome \in {"ready", "error"} : asking' = [asking EXCEPT ![q] = outcome]
  /\ active' = active - 1
  /\ UNCHANGED <<signal, store, thread>>

\* ... and shows how it ended, when others may have been counted since.
ShowAnswer(q) ==
  /\ asking[q] \in {"ready", "error"}
  /\ SetSignal("reason", asking[q])
  /\ asking' = [asking EXCEPT ![q] = "idle"]
  /\ UNCHANGED <<active, store, thread>>

AskStep(q) == ShowQuestion(q) \/ Uncount(q) \/ ShowAnswer(q)

ConsoleNext ==
  \/ \E j \in Jobs : JobStep(j) \/ \E op \in Operations : StartJob(j, op)
  \/ \E q \in Questions : Count(q) \/ AskStep(q)

ConsoleSpec == ConsoleInit /\ [][ConsoleNext]_consoleVars

\* Threads go on; the operations have timeouts and promotions end.
ConsoleFairSpec == ConsoleSpec /\ \A j \in Jobs : WF_consoleVars(JobStep(j))

----------------------------------------------------------------------------

\* _signal_snapshot: a pending or ready stage shows what the services say, never
\* "running", and a counted question shows as running whatever the signal says.
Shown(stage) ==
  IF stage = "reason" /\ active > 0 THEN "running"
  ELSE IF signal[stage] = "ready" THEN "pending" ELSE signal[stage]

\* /api/status, in the order of its tests.
SignalState ==
  IF \E s \in Stages : Shown(s) = "error" THEN "attention"
  ELSE IF Shown("promote") \in {"candidate", "evaluated"} THEN "candidate"
  ELSE IF Shown("promote") = "promoted" THEN "promoted"
  ELSE IF \E s \in Stages : Shown(s) = "running" THEN "processing"
  ELSE "ready"

----------------------------------------------------------------------------

Statuses == {"pending", "running", "ready", "error", "evaluated", "candidate", "promoted"}

\* The threads of a job that JobStore still has to report.
Labels == {"entered", "working", "returned", "raised", "announcing", "completing", "failing"}

SignalsTypeOK ==
  /\ signal \in [Stages -> Statuses]
  /\ active \in Int
  /\ name \in [Jobs -> Operations]
  /\ status \in [Jobs -> {"none", "running", "completed", "failed"}]
  /\ finished \in [Jobs -> BOOLEAN]
  /\ thread \in [Jobs -> Labels \cup {"none", "finishing", "done"}]
  /\ asking \in [Questions -> {"idle", "counted", "asking", "ready", "error"}]
  /\ \A j \in Jobs : thread[j] \in Labels <=> status[j] = "running"

\* Two operations of one name never run at once, from the request to the report.
OneOperationPerName ==
  \A j, k \in Jobs : thread[j] \in Labels /\ thread[k] \in Labels /\ name[j] = name[k] => j = k

\* _active_queries is the number of questions in the pipeline, also when they
\* fail: counted up in one critical section and down in another.
QuestionsAreCounted == active = Cardinality({q \in Questions : asking[q] \in {"counted", "asking"}})

\* The console does not go on showing work that has ended: a stage shown as
\* running has a job or a question that will still show its end there.
RunningIsBusy ==
  \A s \in Stages :
    Shown(s) = "running" =>
      \/ \E j \in Jobs : thread[j] \in {"working", "returned", "raised"} /\ Stage(name[j]) = s
      \/ s = "reason" /\ \E q \in Questions : asking[q] # "idle"

\* A quiet console is never "processing".
QuietIsNotProcessing ==
  /\ \A j \in Jobs : thread[j] \in {"none", "done"}
  /\ \A q \in Questions : asking[q] = "idle"
  => SignalState # "processing"

\* A job that runs is reported completed or failed at last, and frees its name.
JobsEnd == \A j \in Jobs : status[j] = "running" ~> status[j] # "running"
=============================================================================
