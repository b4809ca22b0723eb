-------------------------- MODULE FailureQueueProofs --------------------------
(****************************************************************************)
(* What holds of the failure queue for every number of request threads,     *)
(* learner threads, fingerprints and crashes: its types, one active row per *)
(* fingerprint, incidents that change nothing, one promotion per job,       *)
(* completed jobs that are merged and on record, rejections that bind the   *)
(* learner, and with all of these the promise of FailureLedger. Operators   *)
(* promote branches by hand at any moment.                                  *)
(****************************************************************************)
EXTENDS FailureQueue, TLAPS

\* The steps of the model: the case split of the proofs below.
LEMMA NextCases ==
  ASSUME Next
  PROVE  \/ \E f \in Prints : ReportFromCli(f)
         \/ \E f \in Prints, r \in Requests : Report(r, f)
         \/ \E r \in Requests : CheckAlive(r) \/ StartThread(r)
         \/ \E l \in Loops : \/ Claim(l) \/ Evolve(l) \/ Gate(l) \/ Record(l)
                             \/ Finish(l) \/ ThreadDies(l)
         \/ \E j \in Jobs : PromoteByHand(j)
         \/ Crash
         \/ Tick
  BY DEF Next, Handle

----------------------------------------------------------------------------

LEMMA InitTypeOK == Init => TypeOK
  <1> SUFFICES ASSUME Init PROVE TypeOK
    OBVIOUS
  <1>1. (CHOOSE f \in Prints : TRUE) \in Prints
    BY QueueAssumption
  <1>2. /\ print \in [Jobs -> Prints]
        /\ status \in [Jobs -> Statuses]
    BY <1>1 DEF Init, Statuses
  <1>3. /\ created \in 0..MaxJobs
        /\ crashes \in 0..MaxCrashes
    BY QueueAssumption DEF Init
  <1>4. ASSUME NEW j \in Jobs
        PROVE  j > created <=> status[j] = "none"
    <2>1. j > 0
      BY QueueAssumption DEF Jobs
    <2> QED
      BY <2>1 DEF Init
  <1>5. /\ occurrences \in [Jobs -> Nat] /\ age \in [Jobs -> 0..StaleAfter]
        /\ branch \in [Jobs -> BOOLEAN] /\ landed \in [Jobs -> BOOLEAN]
        /\ merges \in [Jobs -> Nat]
        /\ artifacts \in [Jobs -> SUBSET Files] /\ records \in [Jobs -> SUBSET Files]
    BY QueueAssumption DEF Init
  <1>6. /\ thread \in Loops \cup {NoLoop}
        /\ loopPc \in [Loops -> {"dead", "polling", "evolving", "gating", "recording", "finishing"}]
        /\ reqPc \in [Requests -> {"idle", "reported", "starting"}]
    BY DEF Init
  <1>7. /\ loopJob \in [Loops -> 0..MaxJobs]
        /\ verdict \in [Loops -> {"none"} \cup Terminal]
    BY QueueAssumption DEF Init
  <1>8. \A l \in Loops : loopPc[l] = "dead"
    BY DEF Init
  <1> QED
    BY <1>2, <1>3, <1>4, <1>5, <1>6, <1>7, <1>8 DEF TypeOK

\* The part of TypeOK about the table.
RowTypes ==
  /\ created \in 0..MaxJobs
  /\ print \in [Jobs -> Prints]
  /\ status \in [Jobs -> Statuses]
  /\ occurrences \in [Jobs -> Nat]
  /\ age \in [Jobs -> 0..StaleAfter]
  /\ \A j \in Jobs : j > created <=> status[j] = "none"

\* enqueue keeps the columns in their types and only ever adds one row.
LEMMA EnqueueTypes ==
  ASSUME RowTypes, NEW f \in Prints, Enqueue(f)
  PROVE  RowTypes' /\ created' \in {created, created + 1}
  <1> USE QueueAssumption DEF RowTypes, Statuses, Active, Terminal, Jobs
  <1>1. ASSUME NEW j \in ActiveRows(f), Refresh(j)
        PROVE  RowTypes' /\ created' \in {created, created + 1}
    <2>1. j \in Jobs /\ occurrences[j] + 1 \in Nat
      BY <1>1 DEF ActiveRows
    <2>2. occurrences' \in [Jobs -> Nat] /\ age' \in [Jobs -> 0..StaleAfter]
      BY <1>1, <2>1 DEF Refresh
    <2> QED
      BY <1>1, <2>2 DEF Refresh
  <1>2. ASSUME Insert(f)
        PROVE  RowTypes' /\ created' \in {created, created + 1}
    BY <1>2 DEF Insert
  <1> QED
    BY <1>1, <1>2 DEF Enqueue

LEMMA NextTypeOK == TypeOK /\ [Next]_vars => TypeOK'
  <1> SUFFICES ASSUME TypeOK, [Next]_vars
               PROVE  TypeOK'
    OBVIOUS
  <1> USE QueueAssumption DEF TypeOK, Jobs, Statuses, Active, Terminal
  <1>e. ASSUME NEW f \in Prints, Enqueue(f)
        PROVE  RowTypes' /\ created' \in {created, created + 1}
    BY <1>e, EnqueueTypes DEF RowTypes
  <1>1. CASE UNCHANGED vars
    BY <1>1 DEF vars, rows, git, loops
  <1>2. ASSUME NEW f \in Prints, ReportFromCli(f)
        PROVE  TypeOK'
    <2>1. RowTypes' /\ created' \in {created, created + 1}
      BY <1>2, <1>e DEF ReportFromCli
    <2> QED
      BY <1>2, <2>1 DEF ReportFromCli, RowTypes, git, loops
  <1>3. ASSUME NEW f \in Prints, NEW r \in Requests, Report(r, f)
        PROVE  TypeOK'
    <2>1. RowTypes' /\ created' \in {created, created + 1}
      BY <1>3, <1>e DEF Report
    <2> QED
      BY <1>3, <2>1 DEF Report, RowTypes, git, loops
  <1>4. ASSUME NEW r \in Requests, CheckAlive(r)
        PROVE  TypeOK'
    BY <1>4 DEF CheckAlive, rows, git, loops
  <1>5. ASSUME NEW r \in Requests, StartThread(r)
        PROVE  TypeOK'
    BY <1>5 DEF StartThread, Alive, rows, git
  <1>6. ASSUME NEW l \in Loops, Claim(l)
        PROVE  TypeOK'
    BY <1>6 DEF Claim, Claimable, Stale, git
  <1>7. ASSUME NEW l \in Loops, Evolve(l)
        PROVE  TypeOK'
    <2>1. branch' \in [Jobs -> BOOLEAN] /\ landed' \in [Jobs -> BOOLEAN]
      BY <1>7 DEF Evolve
    <2>2. UNCHANGED <<rows, merges, artifacts, records, thread, loopJob, reqPc, crashes>>
      BY <1>7, Zenon DEF Evolve
    <2>3. /\ loopPc[l] = "evolving"
          /\ \/ loopPc' = [loopPc EXCEPT ![l] = "gating"] /\ UNCHANGED verdict
             \/ Decide(l, "failed")
      BY <1>7, Zenon DEF Evolve
    <2> QED
      BY <2>1, <2>2, <2>3 DEF Decide, rows
  <1>8. ASSUME NEW l \in Loops, Gate(l)
        PROVE  TypeOK'
    <2>0. loopPc[l] = "gating"
      BY <1>8, Zenon DEF Gate
    <2>1. loopJob[l] \in Jobs /\ merges[loopJob[l]] + 1 \in Nat
      <3>1. loopJob[l] \in 1..created /\ created \in 0..MaxJobs /\ MaxJobs \in Nat
        BY <2>0
      <3>2. loopJob[l] \in 1..MaxJobs
        <4> HIDE DEF TypeOK
        <4> QED
          BY <3>1
      <3>3. merges \in [Jobs -> Nat]
        BY Zenon
      <3>4. merges[loopJob[l]] \in Nat
        BY <3>2, <3>3, Zenon
      <3> QED
        <4> HIDE DEF TypeOK
        <4> QED
          BY <3>2, <3>4
    <2>2. merges' \in [Jobs -> Nat]
      <3>1. CASE merges' = [merges EXCEPT ![loopJob[l]] = @ + 1]
        BY <2>1, <3>1
      <3>2. CASE merges' = merges
        BY <3>2
      <3> QED
        BY <1>8, <3>1, <3>2, Zenon DEF Gate
    <2>a. landed' \in [Jobs -> BOOLEAN] /\ artifacts' \in [Jobs -> SUBSET Files]
      <3>1. ASSUME landed' = [landed EXCEPT ![loopJob[l]] = TRUE], NEW changed \in SUBSET Files,
                   artifacts' = [artifacts EXCEPT ![loopJob[l]] = changed]
            PROVE  landed' \in [Jobs -> BOOLEAN] /\ artifacts' \in [Jobs -> SUBSET Files]
        BY <3>1
      <3>2. CASE UNCHANGED <<landed, merges, artifacts>>
        BY <3>2
      <3> QED
        BY <1>8, <3>1, <3>2, Zenon DEF Gate
    <2> DEFINE threadTypes ==
          /\ loopPc \in [Loops -> {"dead", "polling", "evolving", "gating", "recording", "finishing"}]
          /\ verdict \in [Loops -> {"none"} \cup Terminal]
          /\ \A m \in Loops : loopPc[m] = "finishing" => verdict[m] \in Terminal
          /\ \A m \in Loops : loopPc[m] \notin {"dead", "polling"} => loopJob[m] \in 1..created
    <2>3. ASSUME loopPc' = [loopPc EXCEPT ![l] = "recording"], UNCHANGED verdict,
                 UNCHANGED <<loopJob, created>>
          PROVE  threadTypes'
      BY <2>0, <2>3
    <2>4. ASSUME NEW v \in {"rejected", "failed"}, Decide(l, v),
                 UNCHANGED <<loopJob, created>>
          PROVE  threadTypes'
      BY <2>0, <2>4 DEF Decide
    <2>5. threadTypes'
      <3> HIDE DEF threadTypes, TypeOK
      <3> QED
        BY <1>8, <2>3, <2>4, Zenon DEF Gate, rows
    <2>6. UNCHANGED <<rows, branch, records, thread, loopJob, reqPc, crashes>>
      BY <1>8, Zenon DEF Gate
    <2> QED
      BY <2>2, <2>a, <2>5, <2>6 DEF rows
  <1>9. ASSUME NEW l \in Loops, Record(l)
        PROVE  TypeOK'
    <2>1. records' \in [Jobs -> SUBSET Files]
      <3>1. ASSUME NEW f \in Unrecorded(l), records' = [records EXCEPT ![loopJob[l]] = @ \cup {f}]
            PROVE  records' \in [Jobs -> SUBSET Files]
        <4>1. loopPc[l] = "recording"
          BY <1>9, Zenon DEF Record
        <4>2. \A m \in Loops : loopPc[m] \notin {"dead", "polling"} => loopJob[m] \in Jobs
          OBVIOUS
        <4>3. loopJob[l] \in Jobs
          BY <4>1, <4>2
        <4>4. f \in Files
          BY <4>3, <3>1 DEF Unrecorded
        <4> QED
          BY <3>1, <4>3, <4>4
      <3>2. CASE UNCHANGED records
        BY <3>2
      <3> QED
        BY <1>9, <3>1, <3>2, Zenon DEF Record
    <2>2. UNCHANGED <<rows, branch, landed, merges, artifacts, thread, loopJob, reqPc, crashes>>
      BY <1>9, Zenon DEF Record
    <2>3. /\ loopPc[l] = "recording"
          /\ \/ UNCHANGED <<loopPc, verdict>>
             \/ Decide(l, "completed") \/ Decide(l, "failed")
      BY <1>9, Zenon DEF Record
    <2> QED
      BY <2>1, <2>2, <2>3 DEF Decide, rows
  <1>10. ASSUME NEW l \in Loops, Finish(l)
         PROVE  TypeOK'
    <2>1. loopJob[l] \in 1..created /\ verdict[l] \in Terminal
      BY <1>10 DEF Finish
    <2>2. /\ status' \in [Jobs -> Statuses]
          /\ \A j \in Jobs : j > created <=> status'[j] = "none"
      BY <1>10, <2>1 DEF Finish
    <2>3. age' \in [Jobs -> 0..StaleAfter]
      BY <1>10, <2>1 DEF Finish
    <2> QED
      BY <1>10, <2>2, <2>3 DEF Finish, ForgetJob, git
  <1>11. ASSUME NEW l \in Loops, ThreadDies(l)
         PROVE  TypeOK'
    BY <1>11 DEF ThreadDies, ForgetJob, rows, git
  <1>12. CASE Crash
    BY <1>12 DEF Crash, rows, git
  <1>13. CASE Tick
    <2>1. age' \in [Jobs -> 0..StaleAfter]
      BY <1>13 DEF Tick
    <2> QED
      BY <1>13, <2>1 DEF Tick, git, loops
  <1>14. ASSUME NEW j \in Jobs, PromoteByHand(j)
         PROVE  TypeOK'
    BY <1>14 DEF PromoteByHand, rows, loops
  <1> QED
    BY <1>1, <1>2, <1>3, <1>4, <1>5, <1>6, <1>7, <1>8, <1>9, <1>10, <1>11, <1>12,
       <1>13, <1>14, NextCases

\* The columns keep their types, rows exist exactly up to `created`, and a
\* learner thread that runs works on an existing row.
THEOREM TypeCorrect == Spec => []TypeOK
  <1> QED
    BY InitTypeOK, NextTypeOK, PTL DEF Spec

----------------------------------------------------------------------------

\* An update of the table that turns no row active, whatever it does to the
\* columns the property does not read.
LEMMA NoNewActiveRow ==
  ASSUME TypeOK, OneActiveRowPerFingerprint, UNCHANGED print,
         \A j \in Jobs : status'[j] \in Active => status[j] \in Active
  PROVE  OneActiveRowPerFingerprint'
  BY DEF OneActiveRowPerFingerprint

LEMMA EnqueueOneActive ==
  ASSUME TypeOK, OneActiveRowPerFingerprint, NEW f \in Prints, Enqueue(f)
  PROVE  OneActiveRowPerFingerprint'
  <1>1. ASSUME NEW j \in ActiveRows(f), Refresh(j)
        PROVE  OneActiveRowPerFingerprint'
    BY <1>1 DEF Refresh, OneActiveRowPerFingerprint
  <1>2. CASE ActiveRows(f) = {} /\ Insert(f)
    <2>1. created + 1 \in Jobs /\ created' = created + 1
      BY <1>2, QueueAssumption DEF Insert, TypeOK, Jobs
    <2>2. /\ print'[created + 1] = f
          /\ \A j \in Jobs \ {created + 1} : print'[j] = print[j] /\ status'[j] = status[j]
      BY <1>2, <2>1 DEF Insert, TypeOK
    <2>3. \A j \in Jobs : print[j] = f => status[j] \notin Active
      BY <1>2 DEF ActiveRows
    <2> QED
      BY <2>2, <2>3 DEF OneActiveRowPerFingerprint
  <1> QED
    BY <1>1, <1>2 DEF Enqueue

LEMMA NextOneActive ==
  TypeOK /\ OneActiveRowPerFingerprint /\ [Next]_vars => OneActiveRowPerFingerprint'
  <1> SUFFICES ASSUME TypeOK, OneActiveRowPerFingerprint, [Next]_vars
               PROVE  OneActiveRowPerFingerprint'
    OBVIOUS
  <1>1. CASE UNCHANGED rows
    BY <1>1, NoNewActiveRow DEF rows
  <1>2. CASE UNCHANGED vars
    BY <1>1, <1>2 DEF vars
  <1>3. ASSUME NEW f \in Prints, ReportFromCli(f)
        PROVE  OneActiveRowPerFingerprint'
    BY <1>3, EnqueueOneActive DEF ReportFromCli
  <1>4. ASSUME NEW f \in Prints, NEW r \in Requests, Report(r, f)
        PROVE  OneActiveRowPerFingerprint'
    BY <1>4, EnqueueOneActive DEF Report
  <1>5. ASSUME NEW r \in Requests, CheckAlive(r) \/ StartThread(r)
        PROVE  OneActiveRowPerFingerprint'
    BY <1>1, <1>5 DEF CheckAlive, StartThread
  \* What claim() requeues or runs was active before.
  <1>6. ASSUME NEW l \in Loops, Claim(l)
        PROVE  OneActiveRowPerFingerprint'
    <2>1. UNCHANGED print
      BY <1>6 DEF Claim
    <2>2. \A j \in Jobs : status'[j] \in Active => status[j] \in Active
      BY <1>6 DEF Claim, Claimable, Stale, Active
    <2> QED
      BY <2>1, <2>2, NoNewActiveRow
  <1>7. ASSUME NEW l \in Loops, Evolve(l) \/ Gate(l) \/ Record(l) \/ ThreadDies(l)
        PROVE  OneActiveRowPerFingerprint'
    BY <1>1, <1>7 DEF Evolve, Gate, Record, ThreadDies
  <1>8. ASSUME NEW l \in Loops, Finish(l)
        PROVE  OneActiveRowPerFingerprint'
    <2>1. UNCHANGED print /\ verdict[l] \in Terminal /\ loopJob[l] \in Jobs
      <3>1. UNCHANGED print /\ loopPc[l] = "finishing"
        BY <1>8 DEF Finish
      <3>2. verdict[l] \in Terminal /\ loopJob[l] \in 1..created
        BY <3>1 DEF TypeOK
      <3>3. created \in 0..MaxJobs /\ MaxJobs \in Nat
        BY QueueAssumption DEF TypeOK
      <3> QED
        BY <3>1, <3>2, <3>3 DEF Jobs
    <2>2. \A j \in Jobs : status'[j] \in Active => status[j] \in Active
      <3>1. /\ status \in [Jobs -> Statuses]
            /\ status' = [status EXCEPT ![loopJob[l]] = verdict[l]]
        BY <1>8 DEF Finish, TypeOK
      <3> QED
        BY <2>1, <3>1 DEF Active, Terminal
    <2> QED
      BY <2>1, <2>2, NoNewActiveRow
  <1>9. CASE Crash
    BY <1>1, <1>9 DEF Crash
  <1>10. CASE Tick
    BY <1>10, NoNewActiveRow DEF Tick
  <1>11. CASE \E j \in Jobs : PromoteByHand(j)
    BY <1>1, <1>11 DEF PromoteByHand
  <1> QED
    BY <1>2, <1>3, <1>4, <1>5, <1>6, <1>7, <1>8, <1>9, <1>10, <1>11, NextCases

\* No fingerprint is ever pending or running in two rows: the partial unique
\* index is never violated, whoever reports, claims, requeues or finishes.
THEOREM OneActiveRow == Spec => []OneActiveRowPerFingerprint
  <1>1. Init => OneActiveRowPerFingerprint
    BY DEF Init, OneActiveRowPerFingerprint, Active
  <1> QED
    BY <1>1, InitTypeOK, NextTypeOK, NextOneActive, PTL DEF Spec

----------------------------------------------------------------------------

Working(l) == loopPc[l] \notin {"dead", "polling"}

\* The inductive form of the properties about incidents, merges and records.
\* A thread past the creation of its candidate owns the candidate's branch.
BranchOfRow ==
  \A j \in Jobs : (~branch[j] => merges[j] = 0) /\ (branch[j] => j <= created)

StageOfThread ==
  \A l \in Loops :
    /\ loopPc[l] = "gating" => branch[loopJob[l]] /\ merges[loopJob[l]] = 0
    /\ loopPc[l] = "recording" => merges[loopJob[l]] = 1 /\ landed[loopJob[l]]
    /\ loopPc[l] = "finishing" /\ verdict[l] = "completed" =>
         /\ merges[loopJob[l]] = 1 /\ landed[loopJob[l]]
         /\ artifacts[loopJob[l]] \subseteq records[loopJob[l]]

OneGatePerJob ==
  \A l, m \in Loops :
    l # m /\ loopPc[l] = "gating" /\ loopPc[m] = "gating" => loopJob[l] # loopJob[m]

HistoryOK ==
  /\ BranchOfRow /\ StageOfThread /\ OneGatePerJob
  /\ MergedAtMostOnce
  /\ CompletedIsMergedAndRecorded

LEMMA InitHistory == Init => HistoryOK
  BY DEF Init, HistoryOK, BranchOfRow, StageOfThread, OneGatePerJob, MergedAtMostOnce,
         CompletedIsMergedAndRecorded

LEMMA NextHistory == TypeOK /\ HistoryOK /\ [Next]_vars => HistoryOK'
  <1> SUFFICES ASSUME TypeOK, HistoryOK, [Next]_vars
               PROVE  HistoryOK'
    OBVIOUS
  <1> USE QueueAssumption
      DEF TypeOK, Jobs, HistoryOK, BranchOfRow, StageOfThread, OneGatePerJob, MergedAtMostOnce,
          CompletedIsMergedAndRecorded
  \* Reports and claims complete no job and leave git alone.
  <1>a. ASSUME UNCHANGED <<git, loops>>, created' \in Nat, created' >= created,
               \A j \in Jobs : status'[j] = "completed" => status[j] = "completed"
        PROVE  HistoryOK'
    BY <1>a DEF git, loops
  <1>e. ASSUME NEW f \in Prints, Enqueue(f)
        PROVE  /\ created' \in Nat /\ created' >= created
               /\ \A j \in Jobs : status'[j] = "completed" => status[j] = "completed"
    BY <1>e DEF Enqueue, Refresh, Insert
  <1>1. CASE UNCHANGED vars
    BY <1>1, <1>a DEF vars, rows
  <1>2. ASSUME NEW f \in Prints, ReportFromCli(f)
        PROVE  HistoryOK'
    BY <1>2, <1>a, <1>e DEF ReportFromCli
  <1>3. ASSUME NEW f \in Prints, NEW r \in Requests, Report(r, f)
        PROVE  HistoryOK'
    BY <1>3, <1>a, <1>e DEF Report
  <1>4. ASSUME NEW r \in Requests, CheckAlive(r)
        PROVE  HistoryOK'
    BY <1>4, <1>a DEF CheckAlive, rows
  <1>5. ASSUME NEW r \in Requests, StartThread(r)
        PROVE  HistoryOK'
    BY <1>5 DEF StartThread, rows, git
  <1>6. ASSUME NEW l \in Loops, Claim(l)
        PROVE  HistoryOK'
    BY <1>6 DEF Claim, Claimable, Stale, git
  <1>7. ASSUME NEW l \in Loops, Evolve(l)
        PROVE  HistoryOK'
    <2>1. loopPc[l] = "evolving" /\ loopJob[l] \in 1..created
      BY <1>7 DEF Evolve
    <2>2. UNCHANGED <<created, status, merges, artifacts, records, loopJob>>
      BY <1>7, Zenon DEF Evolve, rows
    <2>l. \A j \in Jobs : landed[j] => landed'[j]
      <3>1. CASE landed' = [landed EXCEPT ![loopJob[l]] = TRUE]
        BY <3>1
      <3>2. CASE UNCHANGED landed
        BY <3>2
      <3> QED
        BY <1>7, <3>1, <3>2, Zenon DEF Evolve
    <2>j. \A m \in Loops : loopPc[m] \notin {"dead", "polling"} => loopJob[m] \in Jobs
      OBVIOUS
    <2>3. CASE UNCHANGED <<branch, landed>> /\ Decide(l, "failed")
      BY <2>1, <2>2, <2>3 DEF Decide
    <2>4. CASE /\ ~branch[loopJob[l]]
               /\ branch' = [branch EXCEPT ![loopJob[l]] = TRUE]
               /\ \/ loopPc' = [loopPc EXCEPT ![l] = "gating"] /\ UNCHANGED verdict
                  \/ Decide(l, "failed")
      <3>1. /\ \A j \in Jobs : branch'[j] <=> branch[j] \/ j = loopJob[l]
            /\ merges[loopJob[l]] = 0
        BY <2>1, <2>4
      <3>2. CASE Decide(l, "failed")
        <4>1. \A m \in Loops : m # l => loopPc'[m] = loopPc[m] /\ verdict'[m] = verdict[m]
          BY <3>2 DEF Decide
        <4>2. loopPc'[l] = "finishing" /\ verdict'[l] = "failed"
          BY <3>2 DEF Decide
        <4>3. BranchOfRow'
          BY <2>1, <2>2, <3>1
        <4>4. MergedAtMostOnce' /\ CompletedIsMergedAndRecorded'
          BY <2>2, <2>l
        <4>5. StageOfThread'
          <5>1. StageOfThread
            OBVIOUS
          <5> HIDE DEF TypeOK, HistoryOK, BranchOfRow, MergedAtMostOnce, CompletedIsMergedAndRecorded
          <5> QED
            BY <5>1, <2>1, <2>2, <2>l, <2>j, <3>1, <4>1, <4>2 DEF StageOfThread
        <4>6. OneGatePerJob'
          <5>1. OneGatePerJob
            OBVIOUS
          <5> HIDE DEF TypeOK, HistoryOK, BranchOfRow, MergedAtMostOnce, CompletedIsMergedAndRecorded
          <5> QED
            BY <5>1, <2>2, <4>1, <4>2 DEF OneGatePerJob
        <4> QED
          BY <4>3, <4>4, <4>5, <4>6
      <3>3. CASE loopPc' = [loopPc EXCEPT ![l] = "gating"] /\ UNCHANGED verdict
        <4>1. \A m \in Loops \ {l} : loopPc[m] = "gating" => loopJob[m] # loopJob[l]
          BY <2>4
        <4>2. \A m \in Loops : loopPc'[m] = IF m = l THEN "gating" ELSE loopPc[m]
          BY <3>3
        <4>3. BranchOfRow'
          BY <2>1, <2>2, <3>1
        <4>4. MergedAtMostOnce' /\ CompletedIsMergedAndRecorded'
          BY <2>2, <2>l
        <4>5. StageOfThread'
          <5>1. StageOfThread
            OBVIOUS
          <5> HIDE DEF TypeOK, HistoryOK, BranchOfRow, MergedAtMostOnce, CompletedIsMergedAndRecorded
          <5> QED
            BY <5>1, <2>1, <2>2, <2>l, <2>j, <3>1, <3>3, <4>2 DEF StageOfThread
        <4>6. OneGatePerJob'
          <5>1. OneGatePerJob
            OBVIOUS
          <5> HIDE DEF TypeOK, HistoryOK, BranchOfRow, MergedAtMostOnce, CompletedIsMergedAndRecorded
          <5> QED
            BY <5>1, <2>2, <4>1, <4>2 DEF OneGatePerJob
        <4> QED
          BY <4>3, <4>4, <4>5, <4>6
      <3> QED
        BY <2>4, <3>2, <3>3
    <2> QED
      BY <1>7, <2>3, <2>4, Zenon DEF Evolve
  <1>8. ASSUME NEW l \in Loops, Gate(l)
        PROVE  HistoryOK'
    <2>1. loopPc[l] = "gating" /\ loopJob[l] \in 1..created
      BY <1>8 DEF Gate
    <2>2. UNCHANGED <<created, status, branch, records, loopJob>>
      BY <1>8, Zenon DEF Gate, rows
    <2>3. ASSUME merges' = [merges EXCEPT ![loopJob[l]] = @ + 1],
                 landed' = [landed EXCEPT ![loopJob[l]] = TRUE],
                 NEW changed \in SUBSET Files,
                 artifacts' = [artifacts EXCEPT ![loopJob[l]] = changed],
                 loopPc' = [loopPc EXCEPT ![l] = "recording"], UNCHANGED verdict
          PROVE  HistoryOK'
      <3>1. /\ merges[loopJob[l]] = 0 /\ branch[loopJob[l]]
            /\ \A j \in Jobs : merges'[j] = IF j = loopJob[l] THEN 1 ELSE merges[j]
            /\ \A j \in Jobs : landed'[j] <=> landed[j] \/ j = loopJob[l]
            /\ \A j \in Jobs : j # loopJob[l] => artifacts'[j] = artifacts[j]
        BY <2>1, <2>3
      <3>2. \A m \in Loops : loopPc'[m] = IF m = l THEN "recording" ELSE loopPc[m]
        BY <2>3
      <3>3. \A m \in Loops : loopPc[m] = "gating" /\ m # l => loopJob[m] # loopJob[l]
        BY <2>1
      <3>j. \A m \in Loops : loopPc[m] \notin {"dead", "polling"} => loopJob[m] \in Jobs
        OBVIOUS
      <3>4. BranchOfRow' /\ MergedAtMostOnce'
        <4>1. \A j \in Jobs : merges'[j] = 1 \/ merges'[j] = merges[j]
          BY <3>1
        <4>a. \A j \in Jobs : merges[j] <= 1
          OBVIOUS
        <4>b. ASSUME NEW j \in Jobs
              PROVE  merges'[j] <= 1
          <5> HIDE DEF TypeOK, HistoryOK, BranchOfRow, MergedAtMostOnce, CompletedIsMergedAndRecorded, StageOfThread, OneGatePerJob
          <5> QED
            BY <4>1, <4>a
        <4>2. MergedAtMostOnce'
          BY <4>b
        <4>3. ASSUME NEW j \in Jobs
              PROVE  (~branch[j] => merges'[j] = 0) /\ (branch[j] => j <= created)
          <5>1. CASE j = loopJob[l]
            BY <5>1, <3>1
          <5>2. CASE j # loopJob[l]
            BY <5>2, <3>1
          <5> QED
            BY <5>1, <5>2
        <4>4. branch' = branch /\ created' = created
          BY <2>2
        <4>5. BranchOfRow'
          BY <4>3, <4>4
        <4> QED
          BY <4>2, <4>5
      <3>5. CompletedIsMergedAndRecorded'
        BY <2>1, <2>2, <3>1
      <3>6. StageOfThread'
        <4>1. StageOfThread
          OBVIOUS
        <4> HIDE DEF TypeOK, HistoryOK, BranchOfRow, MergedAtMostOnce, CompletedIsMergedAndRecorded
        <4> QED
          BY <4>1, <2>1, <2>2, <2>3, <3>1, <3>2, <3>3, <3>j DEF StageOfThread
      <3>7. OneGatePerJob'
        BY <2>2, <3>2
      <3> QED
        BY <3>4, <3>5, <3>6, <3>7
    <2>4. ASSUME NEW v \in {"rejected", "failed"}, Decide(l, v),
                 UNCHANGED <<landed, merges, artifacts>>
          PROVE  HistoryOK'
      BY <2>1, <2>2, <2>4 DEF Decide
    <2> QED
      <3> HIDE DEF HistoryOK, TypeOK
      <3> QED
        BY <1>8, <2>3, <2>4, Zenon DEF Gate
  <1>9. ASSUME NEW l \in Loops, Record(l)
        PROVE  HistoryOK'
    <2>1. loopPc[l] = "recording" /\ loopJob[l] \in 1..created
      BY <1>9 DEF Record
    <2>2. UNCHANGED <<created, status, branch, landed, merges, artifacts, loopJob>>
      BY <1>9, Zenon DEF Record, rows
    <2>3. ASSUME NEW f \in Unrecorded(l), records' = [records EXCEPT ![loopJob[l]] = @ \cup {f}],
                 UNCHANGED <<loopPc, verdict>>
          PROVE  HistoryOK'
      <3>1. \A j \in Jobs : records[j] \subseteq records'[j]
        BY <2>3
      <3> QED
        BY <2>1, <2>2, <2>3, <3>1
    <2>4. CASE Unrecorded(l) = {} /\ Decide(l, "completed") /\ UNCHANGED records
      <3>1. merges[loopJob[l]] = 1 /\ landed[loopJob[l]]
        BY <2>1
      <3>2. artifacts[loopJob[l]] \subseteq records[loopJob[l]]
        BY <2>4 DEF Unrecorded
      <3> QED
        BY <2>1, <2>2, <2>4, <3>1, <3>2 DEF Decide
    <2>5. CASE Decide(l, "failed") /\ UNCHANGED records
      BY <2>1, <2>2, <2>5 DEF Decide
    <2> QED
      <3> HIDE DEF HistoryOK, TypeOK
      <3> QED
        BY <1>9, <2>3, <2>4, <2>5, Zenon DEF Record
  <1>10. ASSUME NEW l \in Loops, Finish(l)
         PROVE  HistoryOK'
    BY <1>10 DEF Finish, ForgetJob, git
  <1>11. ASSUME NEW l \in Loops, ThreadDies(l)
         PROVE  HistoryOK'
    BY <1>11 DEF ThreadDies, ForgetJob, rows, git
  <1>12. CASE Crash
    BY <1>12 DEF Crash, rows, git
  <1>13. CASE Tick
    BY <1>13, <1>a DEF Tick
  <1>14. ASSUME NEW j \in Jobs, PromoteByHand(j)
         PROVE  HistoryOK'
    BY <1>14 DEF PromoteByHand, rows, loops
  <1> QED
    BY <1>1, <1>2, <1>3, <1>4, <1>5, <1>6, <1>7, <1>8, <1>9, <1>10, <1>11, <1>12,
       <1>13, <1>14, NextCases

LEMMA HistoryAlways == Spec => []HistoryOK
  <1> QED
    BY InitTypeOK, NextTypeOK, InitHistory, NextHistory, PTL DEF Spec

\* The learner promotes a job at most once, though crashes, dead threads and second
\* learners make its handler run again.
THEOREM AtMostOneMerge == Spec => []MergedAtMostOnce
  <1>1. HistoryOK => MergedAtMostOnce
    BY DEF HistoryOK
  <1> QED
    BY <1>1, HistoryAlways, PTL

\* A job that claims success was promoted, main holds its candidate, and each artifact
\* of the promotion has its provenance record.
THEOREM CompletedIsTrue == Spec => []CompletedIsMergedAndRecorded
  <1>1. HistoryOK => CompletedIsMergedAndRecorded
    BY DEF HistoryOK
  <1> QED
    BY <1>1, HistoryAlways, PTL

----------------------------------------------------------------------------

\* IncidentsDoNotMutate is inductive once the threads are known to stay away
\* from the rows of infrastructure failures.
ThreadsAvoidIncidents ==
  \A l \in Loops : Working(l) => print[loopJob[l]] \notin Infra

IncidentsOK == BranchOfRow /\ IncidentsDoNotMutate /\ ThreadsAvoidIncidents

LEMMA NextIncidents == TypeOK /\ HistoryOK /\ IncidentsOK /\ [Next]_vars => IncidentsOK'
  <1> SUFFICES ASSUME TypeOK, HistoryOK, IncidentsOK, [Next]_vars
               PROVE  IncidentsOK'
    OBVIOUS
  <1>b. BranchOfRow'
    BY NextHistory DEF HistoryOK
  <1> USE QueueAssumption
      DEF TypeOK, Jobs, IncidentsOK, BranchOfRow, IncidentsDoNotMutate, ThreadsAvoidIncidents, Working
  <1>e. ASSUME NEW f \in Prints, Enqueue(f), UNCHANGED <<git, loops>>
        PROVE  IncidentsOK'
    <2>1. ASSUME NEW j \in ActiveRows(f), Refresh(j)
          PROVE  IncidentsOK'
      BY <1>b, <1>e, <2>1 DEF Refresh, git, loops
    <2>2. CASE Insert(f)
      <3>1. created + 1 \in Jobs /\ created' = created + 1
        BY <2>2 DEF Insert
      <3>2. /\ print'[created + 1] = f
            /\ status'[created + 1] = IF f \in Infra THEN "incident" ELSE "pending"
            /\ \A j \in Jobs \ {created + 1} : print'[j] = print[j] /\ status'[j] = status[j]
        BY <2>2, <3>1 DEF Insert
      <3>3. ~branch[created + 1] /\ merges[created + 1] = 0
        BY <3>1
      <3>4. IncidentsDoNotMutate'
        BY <1>e, <3>1, <3>2, <3>3 DEF git
      <3>5. ThreadsAvoidIncidents'
        BY <1>e, <3>1, <3>2 DEF loops
      <3> QED
        BY <1>b, <3>4, <3>5
    <2> QED
      BY <1>e, <2>1, <2>2 DEF Enqueue
  <1>1. CASE UNCHANGED vars
    BY <1>1, <1>b DEF vars, rows, git, loops
  <1>2. ASSUME NEW f \in Prints, ReportFromCli(f)
        PROVE  IncidentsOK'
    BY <1>2, <1>e DEF ReportFromCli
  <1>3. ASSUME NEW f \in Prints, NEW r \in Requests, Report(r, f)
        PROVE  IncidentsOK'
    BY <1>3, <1>e DEF Report
  <1>4. ASSUME NEW r \in Requests, CheckAlive(r)
        PROVE  IncidentsOK'
    BY <1>4, <1>b DEF CheckAlive, rows, git, loops
  <1>5. ASSUME NEW r \in Requests, StartThread(r)
        PROVE  IncidentsOK'
    BY <1>5, <1>b DEF StartThread, rows, git
  \* A claimed row was active, and an infrastructure failure never is.
  <1>6. ASSUME NEW l \in Loops, Claim(l)
        PROVE  IncidentsOK'
    BY <1>6, <1>b DEF Claim, Claimable, Stale, git
  <1>7. ASSUME NEW l \in Loops, Evolve(l)
        PROVE  IncidentsOK'
    <2>1. loopPc[l] = "evolving" /\ loopJob[l] \in 1..created /\ print[loopJob[l]] \notin Infra
      BY <1>7 DEF Evolve
    <2>2. UNCHANGED <<created, print, status, merges, loopJob>>
      BY <1>7, Zenon DEF Evolve, rows
    <2>3. \A j \in Jobs : branch'[j] => branch[j] \/ j = loopJob[l]
      <3>1. CASE branch' = [branch EXCEPT ![loopJob[l]] = TRUE]
        BY <3>1
      <3>2. CASE UNCHANGED branch
        BY <3>2
      <3> QED
        BY <1>7, <3>1, <3>2, Zenon DEF Evolve
    <2>4. \A m \in Loops : m # l => loopPc'[m] = loopPc[m]
      BY <1>7 DEF Evolve, Decide
    <2>5. IncidentsDoNotMutate'
      BY <2>1, <2>2, <2>3
    <2>6. ThreadsAvoidIncidents'
      BY <2>1, <2>2, <2>4
    <2> QED
      BY <1>b, <2>5, <2>6
  <1>8. ASSUME NEW l \in Loops, Gate(l)
        PROVE  IncidentsOK'
    <2>1. loopPc[l] = "gating" /\ loopJob[l] \in 1..created /\ print[loopJob[l]] \notin Infra
      BY <1>8 DEF Gate
    <2>2. UNCHANGED <<created, print, status, branch, loopJob>>
      BY <1>8, Zenon DEF Gate, rows
    <2>3. \A j \in Jobs : merges'[j] = merges[j] \/ j = loopJob[l]
      <3>1. CASE merges' = [merges EXCEPT ![loopJob[l]] = @ + 1]
        BY <3>1
      <3>2. CASE UNCHANGED merges
        BY <3>2
      <3> QED
        BY <1>8, <3>1, <3>2, Zenon DEF Gate
    <2>4. \A m \in Loops : m # l => loopPc'[m] = loopPc[m]
      BY <1>8 DEF Gate, Decide
    <2>5. IncidentsDoNotMutate'
      BY <2>1, <2>2, <2>3
    <2>6. ThreadsAvoidIncidents'
      BY <2>1, <2>2, <2>4
    <2> QED
      BY <1>b, <2>5, <2>6
  <1>9. ASSUME NEW l \in Loops, Record(l)
        PROVE  IncidentsOK'
    BY <1>9, <1>b DEF Record, Decide, rows
  <1>10. ASSUME NEW l \in Loops, Finish(l)
         PROVE  IncidentsOK'
    <2>1. loopPc[l] = "finishing" /\ loopJob[l] \in 1..created /\ print[loopJob[l]] \notin Infra
      BY <1>10 DEF Finish
    <2>2. UNCHANGED <<created, print, branch, merges>>
      BY <1>10, Zenon DEF Finish, git
    <2>3. \A j \in Jobs : status'[j] = status[j] \/ j = loopJob[l]
      BY <1>10 DEF Finish
    <2>4. \A m \in Loops : m # l => loopPc'[m] = loopPc[m] /\ loopJob'[m] = loopJob[m]
      BY <1>10 DEF Finish, ForgetJob
    <2>5. loopPc'[l] = "polling"
      BY <1>10 DEF Finish
    <2>6. IncidentsDoNotMutate'
      BY <2>1, <2>2, <2>3
    <2>7. ThreadsAvoidIncidents'
      BY <2>2, <2>4, <2>5
    <2> QED
      BY <1>b, <2>6, <2>7
  <1>11. ASSUME NEW l \in Loops, ThreadDies(l)
         PROVE  IncidentsOK'
    BY <1>11, <1>b DEF ThreadDies, ForgetJob, rows, git
  <1>12. CASE Crash
    BY <1>12, <1>b DEF Crash, rows, git
  <1>13. CASE Tick
    BY <1>13, <1>b DEF Tick, git, loops
  <1>14. ASSUME NEW j \in Jobs, PromoteByHand(j)
         PROVE  IncidentsOK'
    BY <1>14, <1>b DEF PromoteByHand, rows, loops
  <1> QED
    BY <1>1, <1>2, <1>3, <1>4, <1>5, <1>6, <1>7, <1>8, <1>9, <1>10, <1>11, <1>12,
       <1>13, <1>14, NextCases

LEMMA IncidentsAlways == Spec => []IncidentsOK
  <1>1. Init => IncidentsOK
    BY DEF Init, IncidentsOK, BranchOfRow, IncidentsDoNotMutate, ThreadsAvoidIncidents, Working
  <1> QED
    BY <1>1, TypeCorrect, HistoryAlways, NextIncidents, PTL DEF Spec

\* No candidate is ever built, and nothing merged, for an infrastructure error.
THEOREM IncidentsNeverMutate == Spec => []IncidentsDoNotMutate
  <1>1. IncidentsOK => IncidentsDoNotMutate
    BY DEF IncidentsOK
  <1> QED
    BY <1>1, IncidentsAlways, PTL

----------------------------------------------------------------------------
\* A verdict is not taken back.

\* The candidate of row j exists, the learner has not promoted it, and no learner thread
\* is about to gate it.
Sealed(j) ==
  branch[j] /\ merges[j] = 0 /\ \A l \in Loops : loopPc[l] = "gating" => loopJob[l] # j

RejectionsAreSealed ==
  /\ \A j \in Jobs : status[j] = "rejected" => Sealed(j)
  /\ \A l \in Loops : loopPc[l] = "finishing" /\ verdict[l] = "rejected" => Sealed(loopJob[l])

\* A thread that works has a row to work on.
LEMMA JobOfThread ==
  ASSUME TypeOK, NEW l \in Loops, Working(l)
  PROVE  loopJob[l] \in Jobs
  BY QueueAssumption DEF TypeOK, Working, Jobs

\* The branch of a rejected candidate keeps every later run of its handler from the
\* gate: create_candidate_worktree fails.
LEMMA SealedStays ==
  ASSUME TypeOK, NEW j \in Jobs, Sealed(j), [Next]_vars
  PROVE  Sealed(j)'
  <1> USE DEF TypeOK, Sealed
  <1>1. CASE UNCHANGED <<git, loopPc, loopJob>>
    BY <1>1 DEF git
  <1>2. CASE \/ UNCHANGED vars
             \/ \E f \in Prints : ReportFromCli(f) \/ \E r \in Requests : Report(r, f)
             \/ \E r \in Requests : CheckAlive(r)
             \/ Tick
    BY <1>1, <1>2 DEF vars, loops, ReportFromCli, Report, CheckAlive, Tick
  <1>8. ASSUME NEW k \in Jobs, PromoteByHand(k)
        PROVE  Sealed(j)'
    BY <1>8 DEF PromoteByHand, loops
  <1>3. CASE Crash
    BY <1>3 DEF Crash, git
  <1>4. ASSUME NEW r \in Requests, StartThread(r)
        PROVE  Sealed(j)'
    BY <1>4 DEF StartThread, git
  <1>5. ASSUME NEW l \in Loops, Claim(l) \/ Record(l) \/ Finish(l) \/ ThreadDies(l)
        PROVE  Sealed(j)'
    <2>1. UNCHANGED <<branch, merges>>
      BY <1>5 DEF Claim, Record, Finish, ThreadDies, git
    <2>2. \A m \in Loops : loopPc'[m] = "gating" => loopPc[m] = "gating" /\ loopJob'[m] = loopJob[m]
      BY <1>5 DEF Claim, Record, Decide, Finish, ForgetJob, ThreadDies
    <2> QED
      BY <2>1, <2>2
  <1>6. ASSUME NEW l \in Loops, Evolve(l)
        PROVE  Sealed(j)'
    <2>1. UNCHANGED <<merges, loopJob>> /\ branch'[j]
      BY <1>6 DEF Evolve
    <2>2. \A m \in Loops : loopPc'[m] = "gating" => loopPc[m] = "gating" \/ (m = l /\ loopJob[l] # j)
      BY <1>6 DEF Evolve, Decide
    <2> QED
      BY <2>1, <2>2
  <1>7. ASSUME NEW l \in Loops, Gate(l)
        PROVE  Sealed(j)'
    <2>1. UNCHANGED <<branch, loopJob>> /\ loopJob[l] # j
      BY <1>7 DEF Gate
    <2>2. merges'[j] = merges[j]
      BY <1>7, <2>1 DEF Gate
    <2>3. \A m \in Loops : loopPc'[m] = "gating" => loopPc[m] = "gating"
      BY <1>7 DEF Gate, Decide
    <2> QED
      BY <2>1, <2>2, <2>3
  <1> QED
    BY <1>2, <1>3, <1>4, <1>5, <1>6, <1>7, <1>8, NextCases

\* A rejection comes from the gate of a candidate that is its thread's alone.
LEMMA NextRejections ==
  TypeOK /\ HistoryOK /\ RejectionsAreSealed /\ [Next]_vars => RejectionsAreSealed'
  <1> SUFFICES ASSUME TypeOK, HistoryOK, RejectionsAreSealed, [Next]_vars
               PROVE  RejectionsAreSealed'
    OBVIOUS
  <1>1. \A j \in Jobs : Sealed(j) => Sealed(j)'
    BY SealedStays
  <1>2. \A l \in Loops : Working(l) => loopJob[l] \in Jobs
    BY JobOfThread
  <1>3. ASSUME /\ \A j \in Jobs : status'[j] = "rejected" => status[j] = "rejected"
               /\ \A l \in Loops : loopPc'[l] = "finishing" /\ verdict'[l] = "rejected"
                    => /\ loopPc[l] = "finishing" /\ verdict[l] = "rejected"
                       /\ loopJob'[l] = loopJob[l]
        PROVE  RejectionsAreSealed'
    BY <1>1, <1>2, <1>3 DEF RejectionsAreSealed, Working
  <1>4. CASE \/ UNCHANGED vars
             \/ \E r \in Requests : CheckAlive(r)
             \/ \E j \in Jobs : PromoteByHand(j)
             \/ Tick
    BY <1>3, <1>4 DEF vars, rows, loops, CheckAlive, PromoteByHand, Tick
  <1>5. ASSUME NEW f \in Prints, Enqueue(f), UNCHANGED loops
        PROVE  RejectionsAreSealed'
    <2>1. \A j \in Jobs : status'[j] = "rejected" => status[j] = "rejected"
      BY <1>5 DEF Enqueue, Refresh, Insert, TypeOK
    <2> QED
      BY <2>1, <1>3, <1>5 DEF loops
  <1>6. ASSUME NEW f \in Prints, ReportFromCli(f) \/ \E r \in Requests : Report(r, f)
        PROVE  RejectionsAreSealed'
    BY <1>5, <1>6 DEF ReportFromCli, Report
  <1>7. CASE Crash \/ \E r \in Requests : StartThread(r)
    BY <1>3, <1>7 DEF Crash, StartThread, rows, TypeOK
  <1>8. ASSUME NEW l \in Loops, Claim(l) \/ Evolve(l) \/ Record(l) \/ ThreadDies(l)
        PROVE  RejectionsAreSealed'
    <2>1. \A j \in Jobs : status'[j] = "rejected" => status[j] = "rejected"
      <3>1. CASE Claim(l)
        BY <3>1 DEF Claim
      <3>2. CASE Evolve(l) \/ Record(l) \/ ThreadDies(l)
        BY <3>2 DEF Evolve, Record, ThreadDies, rows
      <3> QED
        BY <1>8, <3>1, <3>2
    <2>2. \A m \in Loops : loopPc'[m] = "finishing" /\ verdict'[m] = "rejected"
            => /\ loopPc[m] = "finishing" /\ verdict[m] = "rejected"
               /\ loopJob'[m] = loopJob[m]
      <3>1. CASE Claim(l)
        BY <3>1 DEF Claim, TypeOK
      <3>2. CASE Evolve(l) \/ Record(l)
        BY <3>2 DEF Evolve, Record, Decide, TypeOK
      <3>3. CASE ThreadDies(l)
        BY <3>3 DEF ThreadDies, ForgetJob, TypeOK
      <3> QED
        BY <1>8, <3>1, <3>2, <3>3
    <2> QED
      BY <2>1, <2>2, <1>3
  <1>9. ASSUME NEW l \in Loops, Gate(l)
        PROVE  RejectionsAreSealed'
    <2>1. CASE loopPc' = [loopPc EXCEPT ![l] = "recording"] /\ UNCHANGED verdict
      <3>1. UNCHANGED <<status, loopJob>>
        BY <1>9 DEF Gate, rows
      <3>2. \A m \in Loops : loopPc'[m] = "finishing" => loopPc[m] = "finishing"
        BY <2>1 DEF TypeOK
      <3> QED
        BY <1>3, <2>1, <3>1, <3>2
    <2>2. CASE /\ \E v \in {"rejected", "failed"} : Decide(l, v)
               /\ UNCHANGED <<landed, merges, artifacts>>
      <3>1. loopPc[l] = "gating" /\ loopJob[l] \in Jobs
        BY <1>2, <1>9 DEF Gate, Working
      <3>2. branch[loopJob[l]] /\ merges[loopJob[l]] = 0
        BY <3>1 DEF HistoryOK, StageOfThread
      <3>3. \A m \in Loops : m # l /\ loopPc[m] = "gating" => loopJob[m] # loopJob[l]
        BY <3>1 DEF HistoryOK, OneGatePerJob
      <3>4. UNCHANGED <<status, branch, merges, loopJob>>
        BY <1>9, <2>2 DEF Gate, rows
      <3>5. loopPc'[l] # "gating" /\ \A m \in Loops \ {l} : loopPc'[m] = loopPc[m] /\ verdict'[m] = verdict[m]
        BY <2>2 DEF Decide, TypeOK
      <3>6. Sealed(loopJob[l])'
        BY <3>1, <3>2, <3>3, <3>4, <3>5 DEF Sealed
      <3>7. \A m \in Loops \ {l} :
              loopPc'[m] = "finishing" /\ verdict'[m] = "rejected" => Sealed(loopJob[m])'
        BY <1>1, <1>2, <3>4, <3>5 DEF RejectionsAreSealed, Working, Sealed
      <3>8. \A j \in Jobs : status'[j] = "rejected" => Sealed(j)'
        BY <1>1, <3>4 DEF RejectionsAreSealed
      <3> QED
        BY <3>4, <3>6, <3>7, <3>8 DEF RejectionsAreSealed, Sealed
    <2> QED
      BY <1>9, <2>1, <2>2 DEF Gate
  <1>10. ASSUME NEW l \in Loops, Finish(l)
         PROVE  RejectionsAreSealed'
    <2>1. /\ loopPc[l] = "finishing" /\ loopJob[l] \in Jobs
          /\ status' = [status EXCEPT ![loopJob[l]] = verdict[l]]
      BY <1>2, <1>10 DEF Finish, Working
    <2>2. \A j \in Jobs : status'[j] = "rejected" => Sealed(j)
      BY <2>1 DEF RejectionsAreSealed, TypeOK
    <2>3. \A m \in Loops : loopPc'[m] = "finishing" /\ verdict'[m] = "rejected"
            => /\ loopPc[m] = "finishing" /\ verdict[m] = "rejected"
               /\ loopJob'[m] = loopJob[m]
      BY <1>10 DEF Finish, ForgetJob, TypeOK
    <2> QED
      BY <1>1, <1>2, <2>2, <2>3 DEF RejectionsAreSealed, Working, Sealed
  <1> QED
    BY <1>4, <1>6, <1>7, <1>8, <1>9, <1>10, NextCases

LEMMA RejectionsAlways == Spec => [](TypeOK /\ RejectionsAreSealed)
  <1>1. Init => RejectionsAreSealed
    BY DEF Init, RejectionsAreSealed
  <1> QED
    BY <1>1, TypeCorrect, HistoryAlways, NextRejections, PTL DEF Spec

\* Once the gate has rejected the candidate of a row, the learner never promotes it:
\* not a second learner thread that was working on the same job, and not when a requeue,
\* a restart or a failure that recurs makes the handler run again. The branch stays, and
\* an operator may still promote it by hand: this is about `merges`, not about `landed`.
THEOREM RejectionBindsTheLearner ==
  Spec => \A j \in Jobs : [](status[j] = "rejected" => [](merges[j] = 0))
  <1> SUFFICES ASSUME NEW CONSTANT j \in Jobs
               PROVE  Spec => [](status[j] = "rejected" => [](merges[j] = 0))
    OBVIOUS
  <1>1. RejectionsAreSealed => (status[j] = "rejected" => Sealed(j))
    BY DEF RejectionsAreSealed
  <1>2. TypeOK /\ Sealed(j) /\ [Next]_vars => Sealed(j)'
    BY SealedStays
  <1>3. Sealed(j) => merges[j] = 0
    BY DEF Sealed
  <1> QED
    BY <1>1, <1>2, <1>3, RejectionsAlways, PTL DEF Spec

IncidentsAreInfra == \A j \in Jobs : status[j] = "incident" => print[j] \in Infra

LEMMA NextIncidentsAreInfra == TypeOK /\ IncidentsAreInfra /\ [Next]_vars => IncidentsAreInfra'
  <1> SUFFICES ASSUME TypeOK, IncidentsAreInfra, [Next]_vars
               PROVE  IncidentsAreInfra'
    OBVIOUS
  <1> USE DEF IncidentsAreInfra
  <1>1. CASE UNCHANGED <<print, status>>
    BY <1>1
  <1>2. ASSUME NEW f \in Prints, Enqueue(f)
        PROVE  IncidentsAreInfra'
    BY <1>2, QueueAssumption DEF Enqueue, Refresh, Insert, TypeOK
  <1>3. CASE \E f \in Prints : ReportFromCli(f) \/ \E r \in Requests : Report(r, f)
    BY <1>2, <1>3 DEF ReportFromCli, Report
  <1>4. ASSUME NEW l \in Loops, Claim(l)
        PROVE  IncidentsAreInfra'
    BY <1>4 DEF Claim
  <1>5. ASSUME NEW l \in Loops, Finish(l)
        PROVE  IncidentsAreInfra'
    <2>1. /\ loopPc[l] = "finishing" /\ UNCHANGED print
          /\ status' = [status EXCEPT ![loopJob[l]] = verdict[l]]
      BY <1>5 DEF Finish
    <2>2. verdict[l] # "incident"
      BY <2>1 DEF TypeOK, Terminal
    <2> QED
      BY <2>1, <2>2 DEF TypeOK
  <1>6. CASE \/ UNCHANGED vars
             \/ Crash \/ Tick
             \/ \E r \in Requests : CheckAlive(r) \/ StartThread(r)
             \/ \E l \in Loops : Evolve(l) \/ Gate(l) \/ Record(l) \/ ThreadDies(l)
             \/ \E j \in Jobs : PromoteByHand(j)
    BY <1>1, <1>6 DEF vars, Crash, Tick, CheckAlive, StartThread, Evolve, Gate, Record,
                      ThreadDies, PromoteByHand, rows
  <1> QED
    BY <1>3, <1>4, <1>5, <1>6, NextCases

\* A row that got its verdict is never pending or running again, and an incident stays
\* one: whatever threads, requeues and late verdicts do to it, a failure that recurs
\* is a new row.
THEOREM EndedRowsStayEnded ==
  Spec => [][\A j \in Jobs : /\ status[j] \in Terminal => status'[j] \in Terminal
                             /\ status[j] = "incident" => status'[j] = "incident"]_vars
  <1> DEFINE StayEnded ==
               \A j \in Jobs : /\ status[j] \in Terminal => status'[j] \in Terminal
                               /\ status[j] = "incident" => status'[j] = "incident"
  <1>1. TypeOK /\ ThreadsAvoidIncidents /\ IncidentsAreInfra /\ Next => StayEnded
    <2> SUFFICES ASSUME TypeOK, ThreadsAvoidIncidents, IncidentsAreInfra, Next
                 PROVE  StayEnded
      OBVIOUS
    <2>1. CASE UNCHANGED status
      BY <2>1
    <2>2. ASSUME NEW f \in Prints, Enqueue(f)
          PROVE  StayEnded
      BY <2>2, QueueAssumption DEF Enqueue, Refresh, Insert, TypeOK, Terminal
    <2>3. CASE \E f \in Prints : ReportFromCli(f) \/ \E r \in Requests : Report(r, f)
      BY <2>2, <2>3 DEF ReportFromCli, Report
    <2>4. ASSUME NEW l \in Loops, Claim(l)
          PROVE  StayEnded
      BY <2>4 DEF Claim, Claimable, Stale, Terminal
    <2>5. ASSUME NEW l \in Loops, Finish(l)
          PROVE  StayEnded
      <3>1. loopPc[l] = "finishing" /\ status' = [status EXCEPT ![loopJob[l]] = verdict[l]]
        BY <2>5 DEF Finish
      <3>2. verdict[l] \in Terminal /\ loopJob[l] \in Jobs
        BY <3>1, JobOfThread DEF TypeOK, Working
      <3>3. status[loopJob[l]] # "incident"
        BY <3>1, <3>2 DEF ThreadsAvoidIncidents, IncidentsAreInfra, Working
      <3> QED
        BY <3>1, <3>2, <3>3 DEF TypeOK
    <2>6. CASE \/ Crash \/ Tick
               \/ \E r \in Requests : CheckAlive(r) \/ StartThread(r)
               \/ \E l \in Loops : Evolve(l) \/ Gate(l) \/ Record(l) \/ ThreadDies(l)
               \/ \E j \in Jobs : PromoteByHand(j)
      BY <2>1, <2>6 DEF Crash, Tick, CheckAlive, StartThread, Evolve, Gate, Record, ThreadDies,
                        PromoteByHand, rows
    <2> QED
      BY <2>3, <2>4, <2>5, <2>6, NextCases
  <1>2. Init => ThreadsAvoidIncidents /\ IncidentsAreInfra
    BY DEF Init, ThreadsAvoidIncidents, IncidentsAreInfra, Working
  <1>3. IncidentsOK => ThreadsAvoidIncidents
    BY DEF IncidentsOK
  <1> HIDE DEF StayEnded
  <1>5. Spec => [][StayEnded]_vars
    BY <1>1, <1>2, <1>3, TypeCorrect, NextIncidentsAreInfra, IncidentsAlways, PTL DEF Spec
  <1> QED
    BY <1>5 DEF StayEnded

----------------------------------------------------------------------------
\* The queue implements the ledger.

\* What the steps of the refinement rest on.
LedgerInv ==
  /\ TypeOK /\ HistoryOK
  /\ IncidentsOK /\ IncidentsAreInfra
  /\ RejectionsAreSealed

LEMMA LedgerInvAlways == Spec => []LedgerInv
  <1>1. Init => IncidentsAreInfra
    BY DEF Init, IncidentsAreInfra
  <1>2. TypeOK /\ HistoryOK /\ IncidentsOK /\ IncidentsAreInfra /\ RejectionsAreSealed
        => LedgerInv
    BY DEF LedgerInv
  <1> QED
    BY <1>1, <1>2, TypeCorrect, HistoryAlways, IncidentsAlways, RejectionsAlways,
       NextIncidentsAreInfra, PTL DEF Spec

\* A candidate that git and the threads leave alone is seen as it was.
LEMMA SameCandidate ==
  ASSUME NEW j \in Jobs, branch'[j] = branch[j], landed'[j] = landed[j],
         merges'[j] = merges[j], artifacts'[j] = artifacts[j], records'[j] = records[j],
         OnTrial(j)' <=> OnTrial(j)
  PROVE  Candidate(j)' = Candidate(j)
  BY DEF Candidate

\* Who gates nothing neither before nor after a step puts no candidate on trial.
LEMMA SameTrial ==
  ASSUME NEW j \in Jobs,
         \A l \in Loops : loopPc'[l] = "gating" /\ loopJob'[l] = j <=> loopPc[l] = "gating" /\ loopJob[l] = j
  PROVE  OnTrial(j)' <=> OnTrial(j)
  BY DEF OnTrial

\* The ledger stutters when it looks the same.
LEMMA LedgerStutters ==
  ASSUME UNCHANGED print,
         \A j \in Jobs : Fate(j)' = Fate(j) /\ Candidate(j)' = Candidate(j)
  PROVE  UNCHANGED Ledger!ledgerVars
  BY DEF Ledger!ledgerVars

\* A step of one candidate is a step of the ledger.
LEMMA LedgerAdvances ==
  ASSUME NEW j \in Jobs, NEW to,
         UNCHANGED <<print, status>>, status[j] \notin {"none", "incident"}, TypeOK,
         Candidate(j)' = to,
         \A k \in Jobs \ {j} : Candidate(k)' = Candidate(k)
  PROVE  Ledger!Advance(j, Candidate(j), to)
  <1>1. \A k \in Jobs : Fate(k)' = Fate(k)
    BY DEF Fate
  <1>2. Ledger!Learnable(j)
    BY DEF Ledger!Learnable, Ledger!Verdicts, Fate, TypeOK, Statuses, Active, Terminal
  <1>3. [k \in Jobs |-> Candidate(k)]' = [[k \in Jobs |-> Candidate(k)] EXCEPT ![j] = to]
    OBVIOUS
  <1> QED
    BY <1>1, <1>2, <1>3 DEF Ledger!Advance

\* A row that a thread works on is open or has had a verdict.
LEMMA WorkedOn ==
  ASSUME LedgerInv, NEW l \in Loops, Working(l)
  PROVE  /\ loopJob[l] \in Jobs
         /\ status[loopJob[l]] \notin {"none", "incident"}
  <1>1. loopJob[l] \in 1..created /\ loopJob[l] \in Jobs
    BY JobOfThread DEF LedgerInv, TypeOK, Working
  <1>2. status[loopJob[l]] # "none"
    BY <1>1 DEF LedgerInv, TypeOK
  <1>3. status[loopJob[l]] # "incident"
    BY <1>1 DEF LedgerInv, IncidentsOK, ThreadsAvoidIncidents, IncidentsAreInfra
  <1> QED
    BY <1>1, <1>2, <1>3

LEMMA InitImplements == Init => Ledger!LedgerInit
  <1> SUFFICES ASSUME Init PROVE Ledger!LedgerInit
    OBVIOUS
  <1>1. print \in [Jobs -> Prints]
    BY InitTypeOK DEF TypeOK
  <1>2. ASSUME NEW j \in Jobs
        PROVE  Fate(j) = "unused" /\ Candidate(j) = "none"
    <2>1. status[j] = "none" /\ ~branch[j]
      BY DEF Init
    <2>2. Fate(j) = "unused"
      BY <2>1 DEF Fate, Active
    <2>3. Candidate(j) = "none"
      BY <2>1 DEF Candidate
    <2> QED
      BY <2>2, <2>3
  <1> QED
    BY <1>1, <1>2 DEF Ledger!LedgerInit

\* A step that changes neither the verdicts nor git nor who gates which row is no step
\* of the ledger.
LEMMA QuietStep ==
  ASSUME UNCHANGED <<print, git>>, \A j \in Jobs : Fate(j)' = Fate(j),
         \A j \in Jobs, l \in Loops :
           loopPc'[l] = "gating" /\ loopJob'[l] = j <=> loopPc[l] = "gating" /\ loopJob[l] = j
  PROVE  UNCHANGED Ledger!ledgerVars
  <1>1. \A j \in Jobs : Candidate(j)' = Candidate(j)
    BY SameTrial, SameCandidate DEF git
  <1> QED
    BY <1>1, LedgerStutters

LEMMA EnqueueImplements ==
  ASSUME LedgerInv, NEW f \in Prints, Enqueue(f), UNCHANGED <<git, loops>>
  PROVE  Ledger!LedgerNext \/ UNCHANGED Ledger!ledgerVars
  <1>1. \A j \in Jobs : Candidate(j)' = Candidate(j)
    BY SameTrial, SameCandidate DEF git, loops
  <1>2. CASE \E j \in ActiveRows(f) : Refresh(j)
    <2>1. UNCHANGED <<print, status>>
      BY <1>2 DEF Refresh
    <2>2. \A j \in Jobs : Fate(j)' = Fate(j)
      BY <2>1 DEF Fate, Active
    <2> QED
      BY <1>1, <2>1, <2>2, LedgerStutters
  <1>3. CASE ActiveRows(f) = {} /\ Insert(f)
    <2>0. PICK j : j = created + 1
      OBVIOUS
    <2>1. j \in Jobs /\ status[j] = "none"
      BY <1>3, <2>0, QueueAssumption DEF Insert, LedgerInv, TypeOK, Jobs
    <2>2. /\ print' = [print EXCEPT ![j] = f]
          /\ status' = [status EXCEPT ![j] = IF f \in Infra THEN "incident" ELSE "pending"]
      BY <1>3, <2>0 DEF Insert
    <2>3. status \in [Jobs -> Statuses]
      BY DEF LedgerInv, TypeOK
    <2>4. \A k \in Jobs \ {j} : Fate(k)' = Fate(k)
      BY <2>1, <2>2, <2>3 DEF Fate
    <2>5. Fate(j) = "unused" /\ Fate(j)' = IF f \in Infra THEN "incident" ELSE "open"
      <3>1. status'[j] = IF f \in Infra THEN "incident" ELSE "pending"
        BY <2>1, <2>2, <2>3
      <3>2. Fate(j) = "unused"
        BY <2>1 DEF Fate, Active
      <3>3. CASE f \in Infra
        BY <3>1, <3>2, <3>3 DEF Fate, Active
      <3>4. CASE f \notin Infra
        BY <3>1, <3>2, <3>4 DEF Fate, Active
      <3> QED
        BY <3>2, <3>3, <3>4
    <2>6. \A k \in Jobs : Fate(k) = "open" => print[k] # f
      BY <1>3, <2>3 DEF ActiveRows, Fate, Statuses, Active, Terminal
    <2>7. Ledger!Enter(j, f)
      <3>1. [k \in Jobs |-> Fate(k)]'
            = [[k \in Jobs |-> Fate(k)] EXCEPT ![j] = IF f \in Infra THEN "incident" ELSE "open"]
        BY <2>4, <2>5
      <3>2. [k \in Jobs |-> Candidate(k)]' = [k \in Jobs |-> Candidate(k)]
        BY <1>1
      <3>3. [k \in Jobs |-> Fate(k)][j] = "unused"
        BY <2>1, <2>5
      <3> QED
        BY <2>2, <2>6, <3>1, <3>2, <3>3 DEF Ledger!Enter
    <2> QED
      BY <2>1, <2>7 DEF Ledger!LedgerNext
  <1> QED
    BY <1>2, <1>3 DEF Enqueue

\* Making a branch is the try of a candidate, or its end if the mutation fails.
LEMMA EvolveImplements ==
  ASSUME LedgerInv, NEW l \in Loops, Evolve(l)
  PROVE  Ledger!LedgerNext \/ UNCHANGED Ledger!ledgerVars
  <1>j. PICK j : j = loopJob[l]
    OBVIOUS
  <1>0. loopPc \in [Loops -> {"dead", "polling", "evolving", "gating", "recording", "finishing"}]
    BY DEF LedgerInv, TypeOK
  <1>1. /\ loopPc[l] = "evolving" /\ j = loopJob[l] /\ j \in Jobs
        /\ status[j] \notin {"none", "incident"}
        /\ UNCHANGED <<print, status, merges, artifacts, records, loopJob>>
    BY <1>j, WorkedOn DEF Evolve, Working, rows
  <1>2. \A m \in Loops \ {l} : loopPc'[m] = loopPc[m]
    BY <1>0 DEF Evolve, Decide
  <1>3. \A k \in Jobs : Fate(k)' = Fate(k)
    BY <1>1 DEF Fate
  <1>4. CASE Decide(l, "failed") /\ UNCHANGED <<branch, landed>>
    <2>1. loopPc'[l] = "finishing"
      BY <1>0, <1>4 DEF Decide
    <2> QED
      BY <1>1, <1>2, <1>3, <1>4, <2>1, QuietStep DEF git
  <1>5. CASE /\ ~branch[j] /\ branch' = [branch EXCEPT ![j] = TRUE]
             /\ landed' \in {landed, [landed EXCEPT ![j] = TRUE]}
             /\ loopPc' = [loopPc EXCEPT ![l] = "gating"] \/ Decide(l, "failed")
    <2>1. /\ branch'[j]
          /\ \A k \in Jobs \ {j} : branch'[k] = branch[k] /\ landed'[k] = landed[k]
      BY <1>1, <1>5 DEF LedgerInv, TypeOK
    <2>2. Candidate(j) = "none" /\ merges[j] = 0
      BY <1>1, <1>5 DEF Candidate, LedgerInv, HistoryOK, BranchOfRow
    <2>3. \A k \in Jobs \ {j} : Candidate(k)' = Candidate(k)
      <3>1. ASSUME NEW k \in Jobs \ {j}
            PROVE  OnTrial(k)' <=> OnTrial(k)
        <4>1. \A m \in Loops : loopPc'[m] = "gating" /\ loopJob'[m] = k
                               <=> loopPc[m] = "gating" /\ loopJob[m] = k
          BY <1>1, <1>2
        <4> QED
          BY <4>1, SameTrial
      <3> QED
        BY <1>1, <2>1, <3>1, SameCandidate
    <2>4. CASE loopPc' = [loopPc EXCEPT ![l] = "gating"]
      <3>1. OnTrial(j)'
        BY <1>0, <1>1, <2>4 DEF OnTrial
      <3>2. Candidate(j)' = "trying"
        BY <1>1, <2>1, <2>2, <3>1 DEF Candidate
      <3>3. Ledger!Try(j)
        BY <1>1, <2>2, <2>3, <3>2, LedgerAdvances DEF Ledger!Try, LedgerInv
      <3> QED
        BY <1>1, <3>3 DEF Ledger!LedgerNext
    <2>5. CASE Decide(l, "failed")
      <3>1. ~OnTrial(j)'
        <4>1. \A m \in Loops : loopPc[m] = "gating" => loopJob[m] # j
          BY <1>1, <1>5 DEF LedgerInv, HistoryOK, StageOfThread
        <4>2. loopPc'[l] = "finishing"
          BY <1>0, <2>5 DEF Decide
        <4> QED
          BY <1>1, <1>2, <4>1, <4>2 DEF OnTrial
      <3>2. PICK end \in Ledger!Left : Candidate(j)' = end
        BY <1>1, <2>1, <2>2, <3>1 DEF Candidate, Ledger!Left
      <3>3. Ledger!Botch(j)
        BY <1>1, <2>2, <2>3, <3>2, LedgerAdvances DEF Ledger!Botch, LedgerInv
      <3> QED
        BY <1>1, <3>3 DEF Ledger!LedgerNext
    <2> QED
      BY <1>5, <2>4, <2>5
  <1> QED
    BY <1>1, <1>4, <1>5 DEF Evolve

CandidateStates == {"none", "trying", "merged", "recorded", "dropped", "adopted"}

\* Leaving candidates that were on trial is a step of the ledger.
LEMMA LedgerLeaves ==
  ASSUME UNCHANGED <<print, status>>,
         \A k \in Jobs : \/ Candidate(k)' = Candidate(k)
                         \/ Candidate(k) = "trying" /\ Candidate(k)' \in {"dropped", "adopted"}
  PROVE  Ledger!Leave
  <1>1. \A k \in Jobs : Fate(k)' = Fate(k)
    BY DEF Fate
  <1>2. \A k \in Jobs : Candidate(k)' \in CandidateStates
    BY DEF Candidate, CandidateStates
  <1> QED
    BY <1>1, <1>2 DEF Ledger!Leave, Ledger!Left, CandidateStates

\* The gate merges the candidate or leaves it.
LEMMA GateImplements ==
  ASSUME LedgerInv, NEW l \in Loops, Gate(l)
  PROVE  Ledger!LedgerNext
  <1>j. PICK j : j = loopJob[l]
    OBVIOUS
  <1>0. loopPc \in [Loops -> {"dead", "polling", "evolving", "gating", "recording", "finishing"}]
    BY DEF LedgerInv, TypeOK
  <1>1. /\ loopPc[l] = "gating" /\ j = loopJob[l] /\ j \in Jobs
        /\ status[j] \notin {"none", "incident"}
        /\ UNCHANGED <<print, status, branch, records, loopJob>>
    BY <1>j, WorkedOn DEF Gate, Working, rows
  <1>2. \A m \in Loops \ {l} : loopPc'[m] = loopPc[m]
    BY <1>0 DEF Gate, Decide
  <1>3. /\ branch[j] /\ merges[j] = 0
        /\ \A m \in Loops \ {l} : loopPc[m] = "gating" => loopJob[m] # j
    BY <1>1 DEF LedgerInv, HistoryOK, StageOfThread, OneGatePerJob
  <1>4. Candidate(j) = "trying"
    <2>1. OnTrial(j)
      BY <1>1 DEF OnTrial
    <2> QED
      BY <1>3, <2>1 DEF Candidate
  <1>5. \A k \in Jobs \ {j} : Candidate(k)' = Candidate(k)
    <2>1. ASSUME NEW k \in Jobs \ {j}
          PROVE  OnTrial(k)' <=> OnTrial(k)
      <3>1. \A m \in Loops : loopPc'[m] = "gating" /\ loopJob'[m] = k
                             <=> loopPc[m] = "gating" /\ loopJob[m] = k
        BY <1>1, <1>2
      <3> QED
        BY <3>1, SameTrial
    <2>2. \A k \in Jobs \ {j} :
            landed'[k] = landed[k] /\ merges'[k] = merges[k] /\ artifacts'[k] = artifacts[k]
      BY <1>1 DEF Gate, LedgerInv, TypeOK
    <2> QED
      BY <1>1, <2>1, <2>2, SameCandidate
  <1>6. CASE merges' = [merges EXCEPT ![j] = @ + 1]
    <2>1. merges'[j] = 1
      BY <1>1, <1>3, <1>6 DEF LedgerInv, TypeOK
    <2>2. PICK next \in {"merged", "recorded"} : Candidate(j)' = next
      BY <1>1, <1>3, <2>1 DEF Candidate
    <2>3. Ledger!Merge(j)
      BY <1>1, <1>4, <1>5, <2>2, LedgerAdvances DEF Ledger!Merge, LedgerInv
    <2> QED
      BY <1>1, <2>3 DEF Ledger!LedgerNext
  <1>7. ASSUME NEW v \in {"rejected", "failed"}, Decide(l, v), UNCHANGED <<landed, merges, artifacts>>
        PROVE  Ledger!LedgerNext
    <2>1. ~OnTrial(j)'
      <3>1. loopPc'[l] = "finishing"
        BY <1>0, <1>7 DEF Decide
      <3> QED
        BY <1>1, <1>2, <1>3, <3>1 DEF OnTrial
    <2>2. Candidate(j)' \in {"dropped", "adopted"}
      BY <1>1, <1>3, <1>7, <2>1 DEF Candidate
    <2>3. Ledger!Leave
      BY <1>1, <1>4, <1>5, <2>2, LedgerLeaves
    <2> QED
      BY <2>3 DEF Ledger!LedgerNext
  <1> QED
    BY <1>1, <1>6, <1>7 DEF Gate

\* The last record of a merged candidate.
LEMMA RecordImplements ==
  ASSUME LedgerInv, NEW l \in Loops, Record(l)
  PROVE  Ledger!LedgerNext \/ UNCHANGED Ledger!ledgerVars
  <1>j. PICK j : j = loopJob[l]
    OBVIOUS
  <1>0. loopPc \in [Loops -> {"dead", "polling", "evolving", "gating", "recording", "finishing"}]
    BY DEF LedgerInv, TypeOK
  <1>1. /\ loopPc[l] = "recording" /\ j = loopJob[l] /\ j \in Jobs
        /\ status[j] \notin {"none", "incident"}
        /\ UNCHANGED <<print, status, branch, landed, merges, artifacts, loopJob>>
    BY <1>j, WorkedOn DEF Record, Working, rows
  <1>2. loopPc'[l] # "gating" /\ \A m \in Loops \ {l} : loopPc'[m] = loopPc[m]
    BY <1>0, <1>1 DEF Record, Decide
  <1>3. merges[j] = 1 /\ branch[j]
    <2>1. merges[j] = 1
      BY <1>1 DEF LedgerInv, HistoryOK, StageOfThread
    <2> QED
      BY <1>1, <2>1 DEF LedgerInv, HistoryOK, BranchOfRow
  <1>4. \A k \in Jobs : Fate(k)' = Fate(k)
    BY <1>1 DEF Fate
  <1>5. \A k \in Jobs, m \in Loops :
          loopPc'[m] = "gating" /\ loopJob'[m] = k <=> loopPc[m] = "gating" /\ loopJob[m] = k
    BY <1>1, <1>2
  <1>6. CASE UNCHANGED records
    BY <1>1, <1>4, <1>5, <1>6, QuietStep DEF git
  <1>7. ASSUME NEW f \in Unrecorded(l), records' = [records EXCEPT ![j] = @ \cup {f}]
        PROVE  Ledger!LedgerNext \/ UNCHANGED Ledger!ledgerVars
    <2>1. ~(artifacts[j] \subseteq records[j])
      BY <1>1, <1>7 DEF Unrecorded
    <2>2. Candidate(j) = "merged" /\ Candidate(j)' \in {"merged", "recorded"}
      BY <1>1, <1>3, <2>1 DEF Candidate
    <2>3. \A k \in Jobs \ {j} : Candidate(k)' = Candidate(k)
      <3>1. \A k \in Jobs \ {j} : records'[k] = records[k]
        BY <1>7 DEF LedgerInv, TypeOK
      <3> QED
        BY <1>1, <1>5, <3>1, SameTrial, SameCandidate
    <2>4. CASE Candidate(j)' = "merged"
      BY <1>1, <1>4, <2>2, <2>3, <2>4, LedgerStutters
    <2>5. CASE Candidate(j)' = "recorded"
      <3>1. Ledger!Record(j)
        BY <1>1, <2>2, <2>3, <2>5, LedgerAdvances DEF Ledger!Record, LedgerInv
      <3> QED
        BY <1>1, <3>1 DEF Ledger!LedgerNext
    <2> QED
      BY <2>2, <2>4, <2>5
  <1> QED
    BY <1>1, <1>6, <1>7 DEF Record

\* An operator adopts what the learner has left; a candidate it has promoted, or still
\* tries, looks the same.
LEMMA PromoteByHandImplements ==
  ASSUME LedgerInv, NEW j \in Jobs, PromoteByHand(j)
  PROVE  Ledger!LedgerNext \/ UNCHANGED Ledger!ledgerVars
  <1>1. /\ branch[j] /\ ~landed[j] /\ landed' = [landed EXCEPT ![j] = TRUE]
        /\ UNCHANGED <<print, status, branch, merges, artifacts, records, loopPc, loopJob>>
    BY DEF PromoteByHand, rows, loops
  <1>2. landed'[j] /\ \A k \in Jobs \ {j} : landed'[k] = landed[k]
    BY <1>1 DEF LedgerInv, TypeOK
  <1>3. \A k \in Jobs : OnTrial(k)' <=> OnTrial(k)
    BY <1>1, SameTrial
  <1>4. \A k \in Jobs \ {j} : Candidate(k)' = Candidate(k)
    BY <1>1, <1>2, <1>3, SameCandidate
  <1>5. CASE merges[j] = 0 /\ ~OnTrial(j)
    <2>1. Candidate(j) = "dropped" /\ Candidate(j)' = "adopted"
      BY <1>1, <1>2, <1>3, <1>5 DEF Candidate
    <2>2. status[j] \notin {"none", "incident"}
      <3>1. j \in 1..created
        BY <1>1 DEF LedgerInv, HistoryOK, BranchOfRow, TypeOK, Jobs
      <3>2. print[j] \notin Infra
        BY <1>1, <3>1 DEF LedgerInv, IncidentsOK, IncidentsDoNotMutate
      <3> QED
        BY <3>1, <3>2 DEF LedgerInv, IncidentsAreInfra, TypeOK
    <2>3. Ledger!Adopt(j)
      BY <1>1, <1>4, <2>1, <2>2, LedgerAdvances DEF Ledger!Adopt, LedgerInv
    <2> QED
      BY <2>3 DEF Ledger!LedgerNext
  <1>6. CASE merges[j] # 0 \/ OnTrial(j)
    <2>1. merges[j] \in Nat
      BY DEF LedgerInv, TypeOK
    <2>2. Candidate(j)' = Candidate(j)
      BY <1>1, <1>3, <1>6, <2>1 DEF Candidate
    <2>3. \A k \in Jobs : Fate(k)' = Fate(k)
      BY <1>1 DEF Fate
    <2> QED
      BY <1>1, <1>4, <2>2, <2>3, LedgerStutters
  <1> QED
    BY <1>5, <1>6

\* The verdict of a thread, on time or late, is true of the candidate.
LEMMA FinishImplements ==
  ASSUME LedgerInv, NEW l \in Loops, Finish(l)
  PROVE  Ledger!LedgerNext
  <1>j. PICK j : j = loopJob[l]
    OBVIOUS
  <1>v. PICK v : v = verdict[l]
    OBVIOUS
  <1>1. /\ loopPc[l] = "finishing" /\ j = loopJob[l] /\ j \in Jobs
        /\ status[j] \notin {"none", "incident"}
        /\ UNCHANGED <<print, branch, landed, merges, artifacts, records>>
    BY <1>j, WorkedOn DEF Finish, Working, git
  <1>2. v \in Terminal /\ status' = [status EXCEPT ![j] = v] /\ status \in [Jobs -> Statuses]
    BY <1>v, <1>1 DEF Finish, LedgerInv, TypeOK
  <1>3. \A k \in Jobs : Candidate(k)' = Candidate(k)
    <2>1. \A k \in Jobs, m \in Loops :
            loopPc'[m] = "gating" /\ loopJob'[m] = k <=> loopPc[m] = "gating" /\ loopJob[m] = k
      BY <1>1 DEF Finish, ForgetJob, LedgerInv, TypeOK
    <2> QED
      BY <1>1, <2>1, SameTrial, SameCandidate
  <1>4. Fate(j)' = v
    <2>1. status'[j] = v
      BY <1>1, <1>2
    <2> QED
      BY <1>2, <2>1 DEF Fate, Active, Terminal
  <1>5. \A k \in Jobs \ {j} : Fate(k)' = Fate(k)
    BY <1>1, <1>2 DEF Fate
  <1>6. Ledger!Learnable(j)
    BY <1>1, <1>2 DEF Ledger!Learnable, Ledger!Verdicts, Fate, Statuses, Active, Terminal
  <1>7. v = "completed" => Candidate(j) = "recorded"
    <2> SUFFICES ASSUME v = "completed"
                 PROVE  Candidate(j) = "recorded"
      OBVIOUS
    <2>1. merges[j] = 1 /\ artifacts[j] \subseteq records[j]
      BY <1>v, <1>1 DEF LedgerInv, HistoryOK, StageOfThread
    <2>2. branch[j]
      BY <1>1, <2>1 DEF LedgerInv, HistoryOK, BranchOfRow
    <2> QED
      BY <2>1, <2>2 DEF Candidate
  <1>8. v = "rejected" => Candidate(j) \in {"dropped", "adopted"}
    <2> SUFFICES ASSUME v = "rejected"
                 PROVE  Candidate(j) \in {"dropped", "adopted"}
      OBVIOUS
    <2>1. branch[j] /\ merges[j] = 0 /\ ~OnTrial(j)
      BY <1>v, <1>1 DEF LedgerInv, RejectionsAreSealed, Sealed, OnTrial
    <2> QED
      BY <2>1 DEF Candidate
  <1>9. Ledger!Judge(j, v)
    <2>1. [k \in Jobs |-> Fate(k)]' = [[k \in Jobs |-> Fate(k)] EXCEPT ![j] = v]
      BY <1>4, <1>5
    <2>2. [k \in Jobs |-> Candidate(k)]' = [k \in Jobs |-> Candidate(k)]
      BY <1>3
    <2> QED
      BY <1>1, <1>6, <1>7, <1>8, <2>1, <2>2 DEF Ledger!Judge, Ledger!Left
  <1> QED
    BY <1>1, <1>2, <1>9 DEF Ledger!LedgerNext, Ledger!Verdicts, Terminal

\* A crash leaves whatever candidate was on trial.
LEMMA CrashImplements ==
  ASSUME LedgerInv, Crash
  PROVE  Ledger!LedgerNext
  <1>1. UNCHANGED <<print, status, branch, landed, merges, artifacts, records>>
    BY DEF Crash, rows, git
  <1>2. ASSUME NEW j \in Jobs
        PROVE  \/ Candidate(j)' = Candidate(j)
               \/ Candidate(j) = "trying" /\ Candidate(j)' \in {"dropped", "adopted"}
    <2>1. ~OnTrial(j)'
      BY DEF Crash, OnTrial
    <2>2. CASE OnTrial(j)
      BY <1>1, <2>1, <2>2 DEF Candidate, LedgerInv, TypeOK
    <2>3. CASE ~OnTrial(j)
      BY <1>1, <2>1, <2>3 DEF Candidate, LedgerInv, TypeOK
    <2> QED
      BY <2>2, <2>3
  <1>3. Ledger!Leave
    BY <1>1, <1>2, LedgerLeaves
  <1> QED
    BY <1>3 DEF Ledger!LedgerNext

LEMMA StepImplements ==
  ASSUME LedgerInv, [Next]_vars
  PROVE  Ledger!LedgerNext \/ UNCHANGED Ledger!ledgerVars
  <1>0. loopPc \in [Loops -> {"dead", "polling", "evolving", "gating", "recording", "finishing"}]
    BY DEF LedgerInv, TypeOK
  <1>1. ASSUME UNCHANGED <<print, status, git>>,
               \A l \in Loops : loopPc'[l] = "gating" <=> loopPc[l] = "gating",
               \A l \in Loops : loopPc[l] = "gating" => loopJob'[l] = loopJob[l]
        PROVE  UNCHANGED Ledger!ledgerVars
    <2>1. \A j \in Jobs : Fate(j)' = Fate(j)
      BY <1>1 DEF Fate
    <2> QED
      BY <1>1, <2>1, QuietStep
  <1>2. CASE \E f \in Prints : ReportFromCli(f) \/ \E r \in Requests : Report(r, f)
    BY <1>2, EnqueueImplements DEF ReportFromCli, Report
  <1>3. CASE UNCHANGED vars \/ Tick \/ \E r \in Requests : CheckAlive(r)
    BY <1>1, <1>3 DEF vars, rows, loops, Tick, CheckAlive
  <1>4. ASSUME NEW r \in Requests, StartThread(r)
        PROVE  UNCHANGED Ledger!ledgerVars
    BY <1>0, <1>1, <1>4 DEF StartThread, Alive, rows
  \* What claim() requeues or runs was open and stays open.
  <1>5. ASSUME NEW l \in Loops, Claim(l)
        PROVE  UNCHANGED Ledger!ledgerVars
    <2>1. \A j \in Jobs : status'[j] = status[j] \/ {status[j], status'[j]} \subseteq Active
      BY <1>5 DEF Claim, Claimable, Stale, Active
    <2>2. \A j \in Jobs : Fate(j)' = Fate(j)
      BY <2>1 DEF Fate, Active
    <2>3. UNCHANGED <<print, git>> /\ loopPc[l] = "polling" /\ loopPc' = [loopPc EXCEPT ![l] = "evolving"]
      BY <1>5 DEF Claim
    <2>4. \A m \in Loops \ {l} : loopPc'[m] = loopPc[m] /\ loopJob'[m] = loopJob[m]
      BY <1>0, <1>5, <2>3 DEF Claim, LedgerInv, TypeOK
    <2> QED
      BY <1>0, <2>2, <2>3, <2>4, QuietStep
  <1>6. ASSUME NEW l \in Loops, ThreadDies(l)
        PROVE  UNCHANGED Ledger!ledgerVars
    BY <1>0, <1>1, <1>6 DEF ThreadDies, ForgetJob, LedgerInv, TypeOK, rows
  <1> QED
    BY <1>2, <1>3, <1>4, <1>5, <1>6, EvolveImplements, GateImplements, RecordImplements,
       FinishImplements, PromoteByHandImplements, CrashImplements, NextCases

\* The queue, its threads, git and the operators keep the promise of FailureLedger, for
\* any number of requests, learner threads, failures, rows, files and crashes: one open
\* entry for each failure, at most one candidate for each entry, which the learner
\* promotes once or leaves for good, and verdicts that are true of it, however late.
THEOREM QueueIsLedger == Spec => ImplementsFailureLedger
  <1>1. LedgerInv /\ [Next]_vars => [Ledger!LedgerNext]_(Ledger!ledgerVars)
    BY StepImplements
  <1> QED
    BY <1>1, InitImplements, LedgerInvAlways, PTL DEF Spec, Ledger!LedgerSpec, ImplementsFailureLedger
=============================================================================
