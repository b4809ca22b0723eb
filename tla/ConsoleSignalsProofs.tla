------------------------- MODULE ConsoleSignalsProofs -------------------------
(****************************************************************************)
(* Proofs about ConsoleSignals: its type invariant and the three safety     *)
(* invariants, for any jobs and any finite set of questions.                *)
(****************************************************************************)
EXTENDS ConsoleSignals, FiniteSetTheorems, TLAPS

Counted == {q \in Questions : asking[q] \in {"counted", "asking"}}

\* The inductive form of RunningIsBusy: whoever wrote "running" to a stage is
\* still to write something else there.
Owed ==
  \A s \in Stages :
    signal[s] = "running" =>
      \/ \E j \in Jobs : thread[j] \in {"working", "returned", "raised"} /\ Stage(name[j]) = s
      \/ s = "reason" /\ \E q \in Questions : asking[q] # "idle"

Inv == SignalsTypeOK /\ OneOperationPerName /\ QuestionsAreCounted /\ Owed

LEMMA StageIsStage ==
  ASSUME NEW op \in Endpoints
  PROVE  /\ Stage(op) \in Stages \cup {Untracked}
         /\ Stage(op) = Untracked <=> op = "verify"
         /\ Successes(op) \subseteq Statuses \ {"running"}
  <1> QED
    BY DEF Endpoints, Stage, Stages, Untracked, Successes, Statuses

LEMMA InitInv == ConsoleInit => Inv
  <1> SUFFICES ASSUME ConsoleInit PROVE Inv
    OBVIOUS
  <1>1. (CHOOSE op \in Operations : TRUE) \in Operations
    BY ConsoleAssumption
  <1>2. SignalsTypeOK
    BY <1>1 DEF ConsoleInit, SignalsTypeOK, Stages, Statuses, Labels
  <1>3. Counted = {}
    BY DEF ConsoleInit, Counted
  <1>4. QuestionsAreCounted
    BY <1>3, FS_EmptySet DEF ConsoleInit, QuestionsAreCounted, Counted
  <1>5. OneOperationPerName /\ Owed
    BY DEF ConsoleInit, OneOperationPerName, Owed, Labels, Stages
  <1> QED
    BY <1>2, <1>4, <1>5 DEF Inv

\* Counting a question up and down changes the number of counted ones by one.
LEMMA CountUp ==
  ASSUME QuestionsAreCounted, NEW q \in Questions, q \notin Counted,
         active' = active + 1, Counted' = Counted \cup {q}
  PROVE  QuestionsAreCounted'
  <1>1. IsFiniteSet(Counted)
    BY ConsoleAssumption, FS_Subset DEF Counted
  <1>2. Cardinality(Counted \cup {q}) = Cardinality(Counted) + 1
    BY <1>1, FS_AddElement
  <1> QED
    BY <1>2 DEF QuestionsAreCounted, Counted

LEMMA CountDown ==
  ASSUME QuestionsAreCounted, NEW q \in Questions, q \in Counted,
         active' = active - 1, Counted' = Counted \ {q}
  PROVE  QuestionsAreCounted'
  <1>1. IsFiniteSet(Counted)
    BY ConsoleAssumption, FS_Subset DEF Counted
  <1>2. Cardinality(Counted \ {q}) = Cardinality(Counted) - 1
    BY <1>1, FS_RemoveElement
  <1> QED
    BY <1>2 DEF QuestionsAreCounted, Counted

LEMMA NextTypeOK ==
  ASSUME Inv, [ConsoleNext]_consoleVars
  PROVE  SignalsTypeOK'
  <1> USE ConsoleAssumption DEF Inv, SignalsTypeOK, Labels
  <1>1. CASE UNCHANGED consoleVars
    BY <1>1 DEF consoleVars, store
  <1>2. ASSUME NEW j \in Jobs, NEW op \in Operations, StartJob(j, op)
        PROVE  SignalsTypeOK'
    BY <1>2 DEF StartJob, JobGoto
  <1>3. ASSUME NEW j \in Jobs, ShowRunning(j)
        PROVE  SignalsTypeOK'
    BY <1>3 DEF ShowRunning, SetSignal, JobGoto, store, Statuses
  <1>4. ASSUME NEW j \in Jobs, Work(j)
        PROVE  SignalsTypeOK'
    BY <1>4 DEF Work, JobGoto, store
  <1>5. ASSUME NEW j \in Jobs, ShowSuccess(j)
        PROVE  SignalsTypeOK'
    <2>1. Successes(name[j]) \subseteq Statuses
      BY StageIsStage
    <2> QED
      BY <1>5, <2>1 DEF ShowSuccess, SetSignal, JobGoto, store
  <1>6. ASSUME NEW j \in Jobs, ShowCandidate(j) \/ ShowError(j)
        PROVE  SignalsTypeOK'
    BY <1>6 DEF ShowCandidate, ShowError, SetSignal, JobGoto, store, Statuses
  <1>7. ASSUME NEW j \in Jobs, Report(j)
        PROVE  SignalsTypeOK'
    BY <1>7 DEF Report, JobGoto
  <1>8. ASSUME NEW j \in Jobs, Finish(j)
        PROVE  SignalsTypeOK'
    BY <1>8 DEF Finish, JobGoto
  <1>9. ASSUME NEW q \in Questions, Count(q) \/ AskStep(q)
        PROVE  SignalsTypeOK'
    BY <1>9 DEF Count, AskStep, ShowQuestion, Uncount, ShowAnswer, SetSignal, store, Statuses
  <1> HIDE DEF SignalsTypeOK
  <1> QED
    BY <1>1, <1>2, <1>3, <1>4, <1>5, <1>6, <1>7, <1>8, <1>9 DEF ConsoleNext, JobStep

\* Only a start brings a job under way, and it has seen that no other is.
LEMMA NextExclusive ==
  ASSUME Inv, SignalsTypeOK', [ConsoleNext]_consoleVars
  PROVE  OneOperationPerName'
  <1> USE DEF Inv, OneOperationPerName
  <1>1. ASSUME NEW j \in Jobs, NEW op \in Operations, StartJob(j, op)
        PROVE  OneOperationPerName'
    BY <1>1 DEF StartJob, JobGoto, SignalsTypeOK
  <1>2. ASSUME NEW j \in Jobs, JobStep(j)
        PROVE  OneOperationPerName'
    <2>1. name' = name /\ thread' = [thread EXCEPT ![j] = thread'[j]] /\ thread[j] \in Labels \cup {"finishing"}
      BY <1>2 DEF JobStep, ShowRunning, Work, ShowSuccess, ShowCandidate, ShowError, Report,
                  Finish, JobGoto, store, SignalsTypeOK, Labels
    <2>2. thread[j] = "finishing" => thread'[j] = "done"
      BY <1>2 DEF JobStep, ShowRunning, Work, ShowSuccess, ShowCandidate, ShowError, Report,
                  Finish, JobGoto, SignalsTypeOK
    <2>3. \A k \in Jobs : thread'[k] \in Labels => thread[k] \in Labels
      BY <2>1, <2>2 DEF SignalsTypeOK, Labels
    <2> QED
      BY <2>1, <2>3
  <1>3. ASSUME UNCHANGED <<name, thread>>
        PROVE  OneOperationPerName'
    BY <1>3
  <1> HIDE DEF OneOperationPerName
  <1> QED
    BY <1>1, <1>2, <1>3 DEF ConsoleNext, AskStep, Count, ShowQuestion, Uncount, ShowAnswer, store, consoleVars

LEMMA NextCounted ==
  ASSUME Inv, [ConsoleNext]_consoleVars
  PROVE  QuestionsAreCounted'
  <1>1. ASSUME NEW q \in Questions, Count(q)
        PROVE  QuestionsAreCounted'
    <2>1. q \notin Counted /\ Counted' = Counted \cup {q} /\ active' = active + 1
      BY <1>1 DEF Inv, SignalsTypeOK, Count, Counted
    <2> QED
      BY <2>1, CountUp DEF Inv
  <1>2. ASSUME NEW q \in Questions, Uncount(q)
        PROVE  QuestionsAreCounted'
    <2>1. q \in Counted /\ Counted' = Counted \ {q} /\ active' = active - 1
      BY <1>2 DEF Inv, SignalsTypeOK, Uncount, Counted
    <2> QED
      BY <2>1, CountDown DEF Inv
  <1>3. ASSUME NEW q \in Questions, ShowQuestion(q) \/ ShowAnswer(q)
        PROVE  QuestionsAreCounted'
    <2>1. Counted' = Counted /\ active' = active
      BY <1>3 DEF Inv, SignalsTypeOK, ShowQuestion, ShowAnswer, Counted
    <2> QED
      BY <2>1 DEF Inv, QuestionsAreCounted, Counted
  <1>4. ASSUME UNCHANGED <<asking, active>>
        PROVE  QuestionsAreCounted'
    BY <1>4 DEF Inv, QuestionsAreCounted
  <1> QED
    BY <1>1, <1>2, <1>3, <1>4 DEF ConsoleNext, JobStep, StartJob, ShowRunning, Work, ShowSuccess,
       ShowCandidate, ShowError, Report, Finish, AskStep, consoleVars

LEMMA NextOwed ==
  ASSUME Inv, SignalsTypeOK', [ConsoleNext]_consoleVars
  PROVE  Owed'
  <1> USE DEF Inv, SignalsTypeOK, Owed
  <1>1. CASE UNCHANGED consoleVars
    BY <1>1 DEF consoleVars, store
  <1>2. ASSUME NEW j \in Jobs, NEW op \in Operations, StartJob(j, op)
        PROVE  Owed'
    BY <1>2 DEF StartJob, JobGoto
  <1>3. ASSUME NEW j \in Jobs, ShowRunning(j)
        PROVE  Owed'
    BY <1>3 DEF ShowRunning, SetSignal, JobGoto, store
  <1>4. ASSUME NEW j \in Jobs, Work(j)
        PROVE  Owed'
    BY <1>4 DEF Work, JobGoto, store, Stages, Untracked
  <1>5. ASSUME NEW j \in Jobs, ShowSuccess(j)
        PROVE  Owed'
    <2>1. Successes(name[j]) \subseteq Statuses \ {"running"}
      BY StageIsStage, ConsoleAssumption
    <2> QED
      BY <1>5, <2>1 DEF ShowSuccess, SetSignal, JobGoto, store
  <1>6. ASSUME NEW j \in Jobs, ShowCandidate(j) \/ ShowError(j)
        PROVE  Owed'
    BY <1>6 DEF ShowCandidate, ShowError, SetSignal, JobGoto, store
  <1>7. ASSUME NEW j \in Jobs, Report(j) \/ Finish(j)
        PROVE  Owed'
    BY <1>7 DEF Report, Finish, JobGoto
  <1>8. ASSUME NEW q \in Questions, Count(q) \/ AskStep(q)
        PROVE  Owed'
    BY <1>8 DEF Count, AskStep, ShowQuestion, Uncount, ShowAnswer, SetSignal, store
  <1> HIDE DEF SignalsTypeOK, Owed
  <1> QED
    BY <1>1, <1>2, <1>3, <1>4, <1>5, <1>6, <1>7, <1>8 DEF ConsoleNext, JobStep

LEMMA Invariance == ConsoleSpec => []Inv
  <1>1. Inv /\ [ConsoleNext]_consoleVars => Inv'
    BY NextTypeOK, NextExclusive, NextCounted, NextOwed DEF Inv
  <1> QED
    BY <1>1, InitInv, PTL DEF ConsoleSpec

\* The store, the signals and the counter stay well formed.
THEOREM TypeCorrect == ConsoleSpec => []SignalsTypeOK
  <1> QED
    BY Invariance, PTL DEF Inv

\* Two operations of one name never run at once.
THEOREM OperationsExclude == ConsoleSpec => []OneOperationPerName
  <1> QED
    BY Invariance, PTL DEF Inv

\* The counter is the number of questions in the pipeline.
THEOREM CounterIsExact == ConsoleSpec => []QuestionsAreCounted
  <1> QED
    BY Invariance, PTL DEF Inv

\* A counted question is one that is not idle.
LEMMA InvBusy == Inv => RunningIsBusy
  <1> SUFFICES ASSUME Inv, NEW s \in Stages, Shown(s) = "running"
               PROVE  \/ \E j \in Jobs : /\ thread[j] \in {"working", "returned", "raised"}
                                         /\ Stage(name[j]) = s
                      \/ s = "reason" /\ \E q \in Questions : asking[q] # "idle"
    BY DEF RunningIsBusy
  <1>1. CASE s = "reason" /\ active > 0
    <2>1. Cardinality(Counted) > 0
      BY <1>1 DEF Inv, QuestionsAreCounted, Counted
    <2>2. Counted # {}
      BY <2>1, FS_EmptySet
    <2> QED
      BY <1>1, <2>2 DEF Counted
  <1>2. CASE ~(s = "reason" /\ active > 0)
    BY <1>2 DEF Shown, Inv, Owed
  <1> QED
    BY <1>1, <1>2

\* Whatever the console shows as running is under way.
THEOREM RunningIsTrue == ConsoleSpec => []RunningIsBusy
  <1> QED
    BY InvBusy, Invariance, PTL

\* A console with nothing under way never says "processing".
THEOREM QuietIsShown == ConsoleSpec => []QuietIsNotProcessing
  <1>1. Inv => QuietIsNotProcessing
    BY InvBusy DEF RunningIsBusy, QuietIsNotProcessing, SignalState
  <1> QED
    BY <1>1, Invariance, PTL
=============================================================================
