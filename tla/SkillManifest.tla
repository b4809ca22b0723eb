---------------------------- MODULE SkillManifest ----------------------------
(****************************************************************************)
(* manifest.yaml of the live skill workspace and the templates it lists.    *)
(* Questions (sqlagent/query_agent/graph.py), explorations                  *)
(* (explorer/graph.py), surveys (surveyor/graph.py) and verifications       *)
(* (verification.py) read the whole file, change their copy and write the   *)
(* whole file, without a lock; workspace.py truncates a file before it      *)
(* fills it. The promotion of a candidate (evaluator/engine.py) merges into *)
(* them what the learner wrote in the candidate's worktree                  *)
(* (evolution/graph.py), and `lint --fix` writes the manifest back.         *)
(*                                                                          *)
(* Of a manifest only the templates are kept: which are listed, which are   *)
(* marked failing, and how often each was used. A template stands for one   *)
(* SQL text, the fingerprint or the slug that names it.                     *)
(****************************************************************************)
EXTENDS Integers

CONSTANTS
  Questions,    \* threads that answer questions
  Explorers,    \* explorations and optimizations
  Surveyors,    \* surveys and the command line's lint --fix
  Verifiers,    \* callers of verify_skill
  Periodic,     \* those that repeat it on a timer
  Templates,
  Blank,        \* a manifest of zero bytes
  Garbled,      \* one that yaml.safe_load refuses
  Claims,       \* counts of uses that a candidate's manifest may give
  MaxMerges,    \* bound: candidates promoted
  MaxCalls,     \* bound: operations begun by each thread, verifications apart
  MaxKills      \* bound: threads killed in the middle of an operation

Threads == Questions \cup Explorers \cup Surveyors \cup Verifiers

ASSUME ManifestAssumption ==
  /\ Verifiers \cap (Questions \cup Explorers \cup Surveyors) = {}
  /\ Periodic \subseteq Verifiers
  /\ Templates # {}
  /\ Blank # Garbled
  /\ Claims \subseteq Nat
  /\ MaxCalls \in Nat /\ MaxKills \in Nat /\ MaxMerges \in Nat

Manifests == [listed : SUBSET Templates, failing : SUBSET Templates,
              uses : [Templates -> Nat]]

ASSUME NotAManifest == Blank \notin Manifests /\ Garbled \notin Manifests

Empty == [listed |-> {}, failing |-> {}, uses |-> [t \in Templates |-> 0]]

VARIABLES
  file,       \* manifest.yaml
  sql,        \* each template's SQL file: "absent", "empty" or "full"
  broken,     \* templates the database no longer runs
  pc, target, \* each thread: where it is, and the template it is about
  copy,       \* the manifest it holds in memory
  todo,       \* templates a verification has still to run
  reported,   \* what the last verification reported, /api/verify's answer
  used,       \* history: counted uses of each template
  cut,        \* history: templates whose SQL file lost its writer
  given,      \* history: templates whose entry a candidate has changed
  merges, calls, kills

disk == <<file, sql>>
memory == <<target, copy, todo>>
history == <<used, cut, given, merges>>
vars == <<disk, broken, pc, memory, reported, history, calls, kills>>

\* A workspace that was surveyed and has no templates yet.
Init ==
  /\ file = Empty
  /\ sql = [t \in Templates |-> "absent"]
  /\ broken = {}
  /\ pc = [w \in Threads |-> "idle"]
  /\ target \in [Threads -> {CHOOSE t \in Templates : TRUE}]
  /\ copy = [w \in Threads |-> Empty]
  /\ todo = [w \in Threads |-> {}]
  /\ reported = {}
  /\ used = [t \in Templates |-> 0]
  /\ cut = {} /\ given = {}
  /\ merges = 0
  /\ calls = [w \in Threads |-> 0] /\ kills = 0

Goto(w, label) == pc' = [pc EXCEPT ![w] = label]

Hold(w, manifest) == copy' = [copy EXCEPT ![w] = manifest]

\* The operation is over, and what it held in memory is gone.
Done(w) ==
  /\ Goto(w, "idle")
  /\ Hold(w, Empty)
  /\ todo' = [todo EXCEPT ![w] = {}]

Call(w, t) ==
  /\ pc[w] = "idle" /\ calls[w] < MaxCalls
  /\ calls' = [calls EXCEPT ![w] = @ + 1]
  /\ target' = [target EXCEPT ![w] = t]

\* read_manifest: an empty file reads as {}; what does not parse raises, and
\* then no caller changes anything, so it is a guard of every reader.
Readable == file # Garbled

Read == IF file = Blank THEN Empty ELSE file

\* The manifest with a new entry for t.
Listing(manifest, t) ==
  [listed |-> manifest.listed \cup {t}, failing |-> manifest.failing \ {t},
   uses |-> [manifest.uses EXCEPT ![t] = 0]]

\* One more use of t.
Counting(manifest, t) ==
  [listed |-> manifest.listed, failing |-> manifest.failing,
   uses |-> [manifest.uses EXCEPT ![t] = @ + 1]]

\* The manifest with other health.
Marking(manifest, failing) ==
  [listed |-> manifest.listed, failing |-> failing, uses |-> manifest.uses]

\* The database changes under a template.
Break(t) ==
  /\ t \notin broken
  /\ broken' = broken \cup {t}
  /\ UNCHANGED <<disk, pc, memory, reported, history, calls, kills>>

\* route_question: a question may get any template that is not failing.
Route(q, t) ==
  /\ Readable
  /\ t \in Read.listed \ Read.failing
  /\ Call(q, t)
  /\ Goto(q, "routed")
  /\ UNCHANGED <<disk, broken, copy, todo, reported, history, kills>>

\* _record_template_metrics, at the end of the run: the manifest is read again.
RecordMetrics(q) ==
  LET t == target[q] IN
  /\ pc[q] = "routed"
  /\ Readable /\ t \in Read.listed
  /\ Hold(q, Counting(Read, t))
  /\ used' = [used EXCEPT ![t] = @ + 1]
  /\ Goto(q, "writing")
  /\ UNCHANGED <<disk, broken, target, todo, reported, cut, given, merges, calls, kills>>

\* The run failed, its template left the manifest or the manifest is unreadable.
NoMetrics(q) ==
  /\ pc[q] = "routed"
  /\ Goto(q, "idle")
  /\ UNCHANGED <<disk, broken, memory, reported, history, calls, kills>>

\* Mutated form of Learn: the manifest lists a template that has no file.
LearnNoFile(w, t) ==
  /\ t \notin broken
  /\ Readable /\ t \notin Read.listed
  /\ Call(w, t)
  /\ Hold(w, Listing(Read, t))
  /\ Goto(w, "writing")
  /\ UNCHANGED <<disk, broken, todo, reported, history, kills>>

\* _learn_template: the SQL ran cleanly; a template that is not listed is
\* added to the copy, and its SQL file is written before the manifest.
Learn(w, t) ==
  /\ t \notin broken
  /\ Readable /\ t \notin Read.listed
  /\ Call(w, t)
  /\ Hold(w, Listing(Read, t))
  /\ Goto(w, "filing")
  /\ UNCHANGED <<disk, broken, todo, reported, history, kills>>

\* _apply_template of the explorer does the same with the SQL of an artifact.
ApplyTemplate(x, t) == Learn(x, t)

\* write_text of the SQL file opens the file, which empties it, and fills it.
OpenSql(w) ==
  /\ pc[w] = "filing"
  /\ sql' = [sql EXCEPT ![target[w]] = "empty"]
  /\ Goto(w, "filling")
  /\ UNCHANGED <<file, broken, memory, reported, history, calls, kills>>

FillSql(w) ==
  /\ pc[w] = "filling"
  /\ sql' = [sql EXCEPT ![target[w]] = "full"]
  /\ Goto(w, "writing")
  /\ UNCHANGED <<file, broken, memory, reported, history, calls, kills>>

\* save_node of the surveyor: a new manifest, with no templates.
Survey(s) ==
  /\ Call(s, target[s])
  /\ Hold(s, Empty)
  /\ Goto(s, "writing")
  /\ UNCHANGED <<disk, broken, todo, reported, history, kills>>

\* lint --fix writes back what it read.
Lint(s) ==
  /\ file \in Manifests
  /\ Call(s, target[s])
  /\ Hold(s, file)
  /\ Goto(s, "writing")
  /\ UNCHANGED <<disk, broken, todo, reported, history, kills>>

\* verify_skill reads the manifest ...
BeginVerify(v) ==
  /\ pc[v] = "idle"
  /\ Readable
  /\ Hold(v, Read)
  /\ todo' = [todo EXCEPT ![v] = Read.listed]
  /\ Goto(v, "checking")
  /\ UNCHANGED <<disk, broken, target, reported, history, calls, kills>>

Runs(t) == t \notin broken /\ sql[t] = "full"

\* Mutated form of Check: only the run that succeeds updates the entry.
CheckSuccessOnly(v, t) ==
  /\ pc[v] = "checking" /\ t \in todo[v]
  /\ todo' = [todo EXCEPT ![v] = @ \ {t}]
  /\ Hold(v, IF Runs(t) THEN Marking(copy[v], copy[v].failing \ {t}) ELSE copy[v])
  /\ UNCHANGED <<disk, broken, pc, target, reported, history, calls, kills>>

\* Mutated form of Check: the run counts as a use.
CheckCounts(v, t) ==
  /\ pc[v] = "checking" /\ t \in todo[v]
  /\ todo' = [todo EXCEPT ![v] = @ \ {t}]
  /\ \/ Runs(t) /\ Hold(v, Counting(Marking(copy[v], copy[v].failing \ {t}), t))
     \/ Hold(v, Counting(Marking(copy[v], copy[v].failing \cup {t}), t))
  /\ UNCHANGED <<disk, broken, pc, target, reported, history, calls, kills>>

\* ... runs each template it lists, any of which may fail for a passing reason ...
Check(v, t) ==
  /\ pc[v] = "checking" /\ t \in todo[v]
  /\ todo' = [todo EXCEPT ![v] = @ \ {t}]
  /\ \/ Runs(t) /\ Hold(v, Marking(copy[v], copy[v].failing \ {t}))
     \/ Hold(v, Marking(copy[v], copy[v].failing \cup {t}))
  /\ UNCHANGED <<disk, broken, pc, target, reported, history, calls, kills>>

\* ... or it raises: of an entry that the learner's model wrote nobody has seen
\* to it that it is a mapping, or that its path is a file.
VerifyRaises(v) ==
  /\ pc[v] = "checking" /\ todo[v] \cap given # {}
  /\ Done(v)
  /\ UNCHANGED <<disk, broken, target, reported, history, calls, kills>>

\* ... writes the manifest back if it lists any, and reports.
EndVerify(v) ==
  /\ pc[v] = "checking" /\ todo[v] = {}
  /\ Goto(v, IF copy[v].listed = {} THEN "reporting" ELSE "writing")
  /\ UNCHANGED <<disk, broken, memory, reported, history, calls, kills>>

Report(v) ==
  /\ pc[v] = "reporting"
  /\ reported' = copy[v].failing
  /\ Done(v)
  /\ UNCHANGED <<disk, broken, target, history, calls, kills>>

\* write_text of the manifest opens the file, which empties it, ...
Truncate(w) ==
  /\ pc[w] = "writing"
  /\ file' = Blank
  /\ Goto(w, "open")
  /\ UNCHANGED <<sql, broken, memory, reported, history, calls, kills>>

\* ... and writes from its beginning: over a text that another writer put
\* there meanwhile, whose tail stays when it is the longer.
Fill(w) ==
  /\ pc[w] = "open"
  /\ \/ file' = copy[w]
     \/ file # Blank /\ file' = Garbled
  /\ \/ w \in Verifiers /\ Goto(w, "reporting") /\ UNCHANGED <<copy, todo>>
     \/ w \notin Verifiers /\ Done(w)
  /\ UNCHANGED <<sql, broken, target, reported, history, calls, kills>>

\* The manifest with the entries for these templates that a candidate has.
Promoting(manifest, touched, listed, failing, counts) ==
  [listed |-> (manifest.listed \ touched) \cup listed,
   failing |-> (manifest.failing \ touched) \cup failing,
   uses |-> [t \in Templates |-> IF t \in touched THEN counts[t] ELSE manifest.uses[t]]]

\* git merges a candidate's manifest, entry by entry here, with the live one, which
\* nobody has opened: git refuses if it is not what was committed. The learner's
\* model may write any entry, with or without a file; and of a conflict the
\* markers stay in the file.
MergeManifest ==
  /\ \A w \in Threads : pc[w] # "open"
  /\ \E touched \in SUBSET Templates :
       /\ given' = given \cup touched
       /\ \/ \E listed \in SUBSET touched : \E failing \in SUBSET listed :
               \E counts \in [touched -> Claims] :
                 /\ Readable
                 /\ file' = Promoting(Read, touched, listed, failing, counts)
          \/ file' = Garbled

\* And the SQL files of the candidate, of which the database may refuse some.
MergeSql ==
  \E filed \in SUBSET Templates : \E wrong \in SUBSET filed :
    /\ sql' = [t \in Templates |-> IF t \in filed THEN "full" ELSE sql[t]]
    /\ broken' = (broken \ filed) \cup wrong

\* promote_candidate merges a candidate, whose one surface is the router's, with
\* manifest.yaml, or the templates'.
Promote ==
  /\ merges < MaxMerges
  /\ merges' = merges + 1
  /\ \/ MergeManifest /\ UNCHANGED <<sql, broken>>
     \/ MergeSql /\ UNCHANGED <<file, given>>
  /\ UNCHANGED <<pc, memory, reported, used, cut, calls, kills>>

\* The thread's process dies, or the thread does.
Kill(w) ==
  /\ pc[w] # "idle" /\ kills < MaxKills
  /\ kills' = kills + 1
  /\ cut' = IF pc[w] = "filling" THEN cut \cup {target[w]} ELSE cut
  /\ Done(w)
  /\ UNCHANGED <<disk, broken, target, reported, used, given, merges, calls>>

Begin(t) ==
  \/ \E q \in Questions : Route(q, t) \/ Learn(q, t)
  \/ \E x \in Explorers : ApplyTemplate(x, t)

Continue(w) ==
  \/ w \in Questions /\ (RecordMetrics(w) \/ NoMetrics(w))
  \/ w \in Questions \cup Explorers /\ (OpenSql(w) \/ FillSql(w))
  \/ w \in Verifiers /\ ((\E t \in Templates : Check(w, t)) \/ VerifyRaises(w) \/ EndVerify(w) \/ Report(w))
  \/ Truncate(w) \/ Fill(w)

Next ==
  \/ \E t \in Templates : Begin(t) \/ Break(t)
  \/ Promote
  \/ \E s \in Surveyors : Survey(s) \/ Lint(s)
  \/ \E v \in Verifiers : BeginVerify(v)
  \/ \E w \in Threads : Continue(w) \/ Kill(w)

Spec == Init /\ [][Next]_vars

\* Every thread goes on (its calls have timeouts), and the timer of the
\* periodic verification fires again and again.
FairSpec ==
  /\ Spec
  /\ \A w \in Threads : WF_vars(Continue(w))
  /\ \A v \in Periodic : WF_vars(BeginVerify(v))

----------------------------------------------------------------------------

Labels == {"idle", "routed", "filing", "filling", "checking", "writing", "open",
           "reporting"}

Healthy(m) == m.failing \subseteq m.listed

\* The type invariant; only a listed template has a health, in the file and
\* in every copy.
TypeOK ==
  /\ file \in Manifests \cup {Blank, Garbled}
  /\ file \in Manifests => Healthy(file)
  /\ sql \in [Templates -> {"absent", "empty", "full"}]
  /\ broken \subseteq Templates
  /\ pc \in [Threads -> Labels]
  /\ target \in [Threads -> Templates]
  /\ copy \in [Threads -> Manifests]
  /\ todo \in [Threads -> SUBSET Templates]
  /\ \A w \in Threads : Healthy(copy[w])
  /\ \A w \in Threads : pc[w] = "checking" => todo[w] \subseteq copy[w].listed
  /\ reported \subseteq Templates
  /\ used \in [Templates -> Nat]
  /\ cut \subseteq Templates /\ given \subseteq Templates
  /\ merges \in 0..MaxMerges
  /\ calls \in [Threads -> 0..MaxCalls] /\ kills \in 0..MaxKills

Filling(t) == \E w \in Threads : pc[w] = "filling" /\ target[w] = t

HasSql(t) == sql[t] = "full" \/ Filling(t) \/ t \in cut

\* Whatever updates are lost, a template that the service itself lists has its
\* SQL: only a writer of the same file, at work on it or killed at it, can have
\* left it empty. What a promoted candidate lists need not have a file.
ListedHasSql ==
  file \in Manifests => \A t \in file.listed \ given : HasSql(t)

\* "Efficiency metrics accumulate on reuse": updates may be lost, but no
\* interleaving of writers counts a use twice or one that was not made, unless a
\* promoted candidate said so.
UsesNotOvercounted ==
  file \in Manifests => \A t \in Templates \ given : file.uses[t] <= used[t]

\* "Re-validate skill templates on a timer so stale knowledge is marked
\* failing": once no other writer begins, a template the database refuses is
\* not offered to questions any more, whatever updates were lost on the way -
\* unless the manifest lists what a candidate brought, over which every
\* verification may raise.
EventuallyMarked ==
  <>[](file \in Manifests /\ file.listed \cap given = {} =>
         file.listed \cap broken \subseteq file.failing)
=============================================================================
