------------------------- MODULE SkillManifestProofs -------------------------
(****************************************************************************)
(* Proofs about SkillManifest: its type invariant, that the service never   *)
(* overcounts uses and that what it lists has its SQL, for any number of    *)
(* threads of each kind, templates, operations, promotions and deaths.      *)
(****************************************************************************)
EXTENDS SkillManifest, TLAPS

----------------------------------------------------------------------------
(* Manifests.                                                               *)

LEMMA MadeIsManifest ==
  ASSUME NEW l \in SUBSET Templates, NEW f \in SUBSET Templates,
         NEW u \in [Templates -> Nat], f \subseteq l,
         NEW m, m = [listed |-> l, failing |-> f, uses |-> u]
  PROVE  m \in Manifests /\ Healthy(m)
  <1>1. m \in Manifests
    BY Zenon DEF Manifests
  <1> QED
    BY <1>1 DEF Healthy

LEMMA PartsOfManifest ==
  ASSUME NEW m \in Manifests
  PROVE  m.listed \in SUBSET Templates /\ m.failing \in SUBSET Templates
         /\ m.uses \in [Templates -> Nat]
  BY DEF Manifests

LEMMA EmptyIsManifest ==
  Empty \in Manifests /\ Healthy(Empty)
  <1>1. [t \in Templates |-> 0] \in [Templates -> Nat]
    OBVIOUS
  <1> QED
    BY <1>1, MadeIsManifest DEF Empty

\* What a reader gets is a manifest.
LEMMA ReadIsManifest ==
  ASSUME TypeOK, Readable
  PROVE  Read \in Manifests /\ Healthy(Read)
  BY EmptyIsManifest, NotAManifest, Zenon DEF TypeOK, Readable, Read

LEMMA ListingIsManifest ==
  ASSUME NEW m \in Manifests, Healthy(m), NEW t \in Templates
  PROVE  Listing(m, t) \in Manifests /\ Healthy(Listing(m, t))
  <1>1. [m.uses EXCEPT ![t] = 0] \in [Templates -> Nat]
    BY PartsOfManifest
  <1>2. /\ m.listed \cup {t} \in SUBSET Templates /\ m.failing \ {t} \in SUBSET Templates
        /\ m.failing \ {t} \subseteq m.listed \cup {t}
    BY PartsOfManifest DEF Healthy
  <1> QED
    BY <1>1, <1>2, MadeIsManifest DEF Listing

LEMMA CountingIsManifest ==
  ASSUME NEW m \in Manifests, Healthy(m), NEW t \in Templates
  PROVE  Counting(m, t) \in Manifests /\ Healthy(Counting(m, t))
  <1>1. [m.uses EXCEPT ![t] = @ + 1] \in [Templates -> Nat]
    BY PartsOfManifest
  <1> QED
    BY <1>1, PartsOfManifest, MadeIsManifest DEF Counting, Healthy

LEMMA MarkingIsManifest ==
  ASSUME NEW m \in Manifests, NEW f, f \subseteq m.listed
  PROVE  Marking(m, f) \in Manifests /\ Healthy(Marking(m, f))
  <1>1. f \in SUBSET Templates
    BY PartsOfManifest
  <1> QED
    BY <1>1, PartsOfManifest, MadeIsManifest DEF Marking

LEMMA PromotingIsManifest ==
  ASSUME NEW m \in Manifests, Healthy(m), NEW touched \in SUBSET Templates,
         NEW l \in SUBSET touched, NEW f \in SUBSET l, NEW counts \in [touched -> Claims],
         NEW p, p = Promoting(m, touched, l, f, counts)
  PROVE  p \in Manifests /\ Healthy(p)
  <1> DEFINE ll == (m.listed \ touched) \cup l
             ff == (m.failing \ touched) \cup f
             uu == [t \in Templates |-> IF t \in touched THEN counts[t] ELSE m.uses[t]]
  <1>1. ll \in SUBSET Templates /\ ff \in SUBSET Templates /\ ff \subseteq ll
    BY PartsOfManifest DEF Healthy
  <1>2. uu \in [Templates -> Nat]
    BY PartsOfManifest, ManifestAssumption
  <1>3. p = [listed |-> ll, failing |-> ff, uses |-> uu]
    BY DEF Promoting
  <1> HIDE DEF ll, ff, uu
  <1> QED
    BY <1>1, <1>2, <1>3, MadeIsManifest

----------------------------------------------------------------------------
(* Types.                                                                   *)

LEMMA InitTypeOK == Init => TypeOK
  <1> SUFFICES ASSUME Init PROVE TypeOK
    OBVIOUS
  <1>1. target \in [Threads -> Templates]
    <2>1. (CHOOSE t \in Templates : TRUE) \in Templates
      BY ManifestAssumption
    <2> QED
      BY <2>1 DEF Init
  <1>2. copy \in [Threads -> Manifests] /\ \A w \in Threads : Healthy(copy[w])
    BY EmptyIsManifest, Zenon DEF Init
  <1>3. file \in Manifests /\ Healthy(file)
    BY EmptyIsManifest DEF Init
  <1>4. /\ sql \in [Templates -> {"absent", "empty", "full"}]
        /\ pc \in [Threads -> Labels]
        /\ todo \in [Threads -> SUBSET Templates]
        /\ used \in [Templates -> Nat]
        /\ calls \in [Threads -> 0..MaxCalls]
        /\ kills \in 0..MaxKills /\ merges \in 0..MaxMerges
    BY ManifestAssumption DEF Init, Labels
  <1>5. \A w \in Threads : pc[w] # "checking"
    BY DEF Init
  <1> QED
    BY <1>1, <1>2, <1>3, <1>4, <1>5 DEF Init, TypeOK

\* A step in which thread w changes what it holds in memory keeps the copies
\* and the lists well formed.
LEMMA HoldTypes ==
  ASSUME TypeOK, NEW w \in Threads, NEW m \in Manifests, Healthy(m), Hold(w, m)
  PROVE  copy' \in [Threads -> Manifests] /\ \A u \in Threads : Healthy(copy'[u])
  <1>1. copy' = [copy EXCEPT ![w] = m] /\ copy \in [Threads -> Manifests]
    BY DEF Hold, TypeOK
  <1>2. copy' \in [Threads -> Manifests]
    BY <1>1
  <1>3. \A u \in Threads : copy'[u] = IF u = w THEN m ELSE copy[u]
    BY <1>1
  <1>4. \A u \in Threads : Healthy(copy[u])
    BY DEF TypeOK
  <1> QED
    BY <1>2, <1>3, <1>4, Zenon

LEMMA DoneTypes ==
  ASSUME TypeOK, NEW w \in Threads, Done(w)
  PROVE  /\ copy' \in [Threads -> Manifests] /\ \A u \in Threads : Healthy(copy'[u])
         /\ pc' \in [Threads -> Labels]
         /\ todo' \in [Threads -> SUBSET Templates]
         /\ \A u \in Threads : pc'[u] = "checking" => todo'[u] \subseteq copy'[u].listed
  <1>1. copy' \in [Threads -> Manifests] /\ \A u \in Threads : Healthy(copy'[u])
    BY EmptyIsManifest, HoldTypes DEF Done
  <1>2. pc' \in [Threads -> Labels] /\ todo' \in [Threads -> SUBSET Templates]
    BY DEF Done, Goto, TypeOK, Labels
  <1>3. \A u \in Threads : u # w => /\ copy'[u] = copy[u] /\ pc'[u] = pc[u]
                                    /\ todo'[u] = todo[u]
    BY DEF Done, Goto, Hold, TypeOK
  <1>4. pc'[w] = "idle"
    BY DEF Done, Goto, TypeOK
  <1>5. \A u \in Threads : pc[u] = "checking" => todo[u] \subseteq copy[u].listed
    BY DEF TypeOK
  <1> QED
    BY <1>1, <1>2, <1>3, <1>4, <1>5

\* A step that gives thread w a new copy and takes it to a place other than
\* the middle of a verification.
LEMMA TakeTypes ==
  ASSUME TypeOK, NEW w \in Threads, NEW m \in Manifests, Healthy(m), Hold(w, m),
         NEW label \in Labels \ {"checking"}, Goto(w, label), UNCHANGED todo
  PROVE  /\ copy' \in [Threads -> Manifests] /\ \A u \in Threads : Healthy(copy'[u])
         /\ pc' \in [Threads -> Labels]
         /\ \A u \in Threads : pc'[u] = "checking" => todo'[u] \subseteq copy'[u].listed
  <1>1. copy' \in [Threads -> Manifests] /\ \A u \in Threads : Healthy(copy'[u])
    BY HoldTypes
  <1>2. pc' \in [Threads -> Labels]
    BY DEF Goto, TypeOK
  <1>3. \A u \in Threads : u # w => copy'[u] = copy[u] /\ pc'[u] = pc[u]
    BY DEF Goto, Hold, TypeOK
  <1>4. pc'[w] = label
    BY DEF Goto, TypeOK
  <1>5. \A u \in Threads : pc[u] = "checking" => todo[u] \subseteq copy[u].listed
    BY DEF TypeOK
  <1> QED
    BY <1>1, <1>2, <1>3, <1>4, <1>5

\* A step of w that leaves every copy alone and takes w to such a place.
LEMMA MoveTypes ==
  ASSUME TypeOK, NEW w \in Threads, UNCHANGED memory,
         NEW label \in Labels \ {"checking"}, Goto(w, label)
  PROVE  /\ pc' \in [Threads -> Labels]
         /\ \A u \in Threads : pc'[u] = "checking" => todo'[u] \subseteq copy'[u].listed
  <1>1. pc' \in [Threads -> Labels]
    BY DEF Goto, TypeOK
  <1>2. \A u \in Threads : pc'[u] = "checking" => pc[u] = "checking"
    BY DEF Goto, TypeOK
  <1>3. \A u \in Threads : pc[u] = "checking" => todo[u] \subseteq copy[u].listed
    BY DEF TypeOK
  <1> QED
    BY <1>1, <1>2, <1>3 DEF memory

LEMMA CallTypes ==
  ASSUME TypeOK, NEW w \in Threads, NEW t \in Templates, Call(w, t)
  PROVE  calls' \in [Threads -> 0..MaxCalls] /\ target' \in [Threads -> Templates]
  BY ManifestAssumption DEF Call, TypeOK

LEMMA NextTypeOK == TypeOK /\ [Next]_vars => TypeOK'
  <1> SUFFICES ASSUME TypeOK, [Next]_vars
               PROVE  TypeOK'
    OBVIOUS
  <1> USE DEF disk, history
  <1>1. CASE UNCHANGED vars
    BY <1>1 DEF vars, memory, TypeOK
  <1>2. ASSUME NEW t \in Templates, Break(t)
        PROVE  TypeOK'
    BY <1>2 DEF Break, memory, TypeOK
  <1>3. ASSUME NEW t \in Templates, NEW q \in Questions, Route(q, t)
        PROVE  TypeOK'
    <2>1. calls' \in [Threads -> 0..MaxCalls] /\ target' \in [Threads -> Templates]
      BY <1>3, CallTypes DEF Route, Threads
    <2>2. /\ pc' \in [Threads -> Labels]
          /\ \A u \in Threads : pc'[u] = "checking" => pc[u] = "checking"
      BY <1>3 DEF Route, Goto, TypeOK, Labels
    <2> QED
      BY <1>3, <2>1, <2>2 DEF Route, TypeOK
  <1>4. ASSUME NEW t \in Templates, NEW w \in Questions \cup Explorers, Learn(w, t)
        PROVE  TypeOK'
    <2>1. w \in Threads
      BY DEF Threads
    <2>2. calls' \in [Threads -> 0..MaxCalls] /\ target' \in [Threads -> Templates]
      BY <1>4, <2>1, CallTypes DEF Learn
    <2>3. Listing(Read, t) \in Manifests /\ Healthy(Listing(Read, t))
      BY <1>4, ReadIsManifest, ListingIsManifest DEF Learn
    <2>4. "filing" \in Labels \ {"checking"}
      BY DEF Labels
    <2>5. /\ copy' \in [Threads -> Manifests] /\ \A u \in Threads : Healthy(copy'[u])
          /\ pc' \in [Threads -> Labels]
          /\ \A u \in Threads : pc'[u] = "checking" => todo'[u] \subseteq copy'[u].listed
      BY <1>4, <2>1, <2>3, <2>4, TakeTypes DEF Learn
    <2> QED
      BY <1>4, <2>2, <2>5 DEF Learn, TypeOK
  <1>5. ASSUME NEW s \in Surveyors, Survey(s)
        PROVE  TypeOK'
    <2>1. s \in Threads /\ target[s] \in Templates
      BY DEF Threads, TypeOK
    <2>2. calls' \in [Threads -> 0..MaxCalls] /\ target' \in [Threads -> Templates]
      BY <1>5, <2>1, CallTypes DEF Survey
    <2>3. "writing" \in Labels \ {"checking"}
      BY DEF Labels
    <2>4. /\ copy' \in [Threads -> Manifests] /\ \A u \in Threads : Healthy(copy'[u])
          /\ pc' \in [Threads -> Labels]
          /\ \A u \in Threads : pc'[u] = "checking" => todo'[u] \subseteq copy'[u].listed
      BY <1>5, <2>1, <2>3, EmptyIsManifest, TakeTypes DEF Survey
    <2> QED
      BY <1>5, <2>2, <2>4 DEF Survey, TypeOK
  <1>6. ASSUME NEW v \in Verifiers, BeginVerify(v)
        PROVE  TypeOK'
    <2>1. v \in Threads
      BY DEF Threads
    <2>2. Read \in Manifests /\ Healthy(Read)
      BY <1>6, ReadIsManifest DEF BeginVerify
    <2>3. copy' \in [Threads -> Manifests] /\ \A u \in Threads : Healthy(copy'[u])
      BY <1>6, <2>1, <2>2, HoldTypes DEF BeginVerify
    <2>4. pc' \in [Threads -> Labels] /\ todo' \in [Threads -> SUBSET Templates]
      BY <1>6, <2>1, <2>2, PartsOfManifest DEF BeginVerify, Goto, TypeOK, Labels
    <2>5. todo'[v] = copy'[v].listed
      BY <1>6, <2>1 DEF BeginVerify, Hold, TypeOK
    <2>6. \A u \in Threads : u # v => /\ copy'[u] = copy[u] /\ pc'[u] = pc[u]
                                      /\ todo'[u] = todo[u]
      BY <1>6, <2>1 DEF BeginVerify, Goto, Hold, TypeOK
    <2>7. \A u \in Threads : pc'[u] = "checking" => todo'[u] \subseteq copy'[u].listed
      BY <2>5, <2>6 DEF TypeOK
    <2> QED
      BY <1>6, <2>3, <2>4, <2>7 DEF BeginVerify, TypeOK
  <1>7. ASSUME NEW q \in Questions, RecordMetrics(q)
        PROVE  TypeOK'
    <2>1. q \in Threads /\ target[q] \in Templates
      BY DEF Threads, TypeOK
    <2>2. Counting(Read, target[q]) \in Manifests /\ Healthy(Counting(Read, target[q]))
      BY <1>7, <2>1, ReadIsManifest, CountingIsManifest DEF RecordMetrics
    <2>3. "writing" \in Labels \ {"checking"}
      BY DEF Labels
    <2>4. /\ copy' \in [Threads -> Manifests] /\ \A u \in Threads : Healthy(copy'[u])
          /\ pc' \in [Threads -> Labels]
          /\ \A u \in Threads : pc'[u] = "checking" => todo'[u] \subseteq copy'[u].listed
      BY <1>7, <2>1, <2>2, <2>3, TakeTypes DEF RecordMetrics
    <2>5. used' \in [Templates -> Nat]
      BY <1>7, <2>1 DEF RecordMetrics, TypeOK
    <2> QED
      BY <1>7, <2>4, <2>5 DEF RecordMetrics, TypeOK
  <1>8. ASSUME NEW q \in Questions, NoMetrics(q)
        PROVE  TypeOK'
    <2>1. q \in Threads /\ "idle" \in Labels \ {"checking"}
      BY DEF Threads, Labels
    <2> QED
      BY <1>8, <2>1, MoveTypes DEF NoMetrics, memory, TypeOK
  <1>9. ASSUME NEW w \in Questions \cup Explorers, OpenSql(w)
        PROVE  TypeOK'
    <2>1. w \in Threads /\ "filling" \in Labels \ {"checking"}
      BY DEF Threads, Labels
    <2> QED
      BY <1>9, <2>1, MoveTypes DEF OpenSql, memory, TypeOK
  <1>10. ASSUME NEW w \in Questions \cup Explorers, FillSql(w)
         PROVE  TypeOK'
    <2>1. w \in Threads /\ "writing" \in Labels \ {"checking"}
      BY DEF Threads, Labels
    <2> QED
      BY <1>10, <2>1, MoveTypes DEF FillSql, memory, TypeOK
  <1>11. ASSUME NEW v \in Verifiers, NEW t \in Templates, Check(v, t)
         PROVE  TypeOK'
    <2>1. v \in Threads
      BY DEF Threads
    <2>2. copy[v] \in Manifests /\ Healthy(copy[v]) /\ t \in copy[v].listed
      BY <1>11, <2>1 DEF Check, TypeOK
    <2>3. PICK f : f \subseteq copy[v].listed /\ Hold(v, Marking(copy[v], f))
      <3>1. /\ copy[v].failing \ {t} \subseteq copy[v].listed
            /\ copy[v].failing \cup {t} \subseteq copy[v].listed
        BY <2>2 DEF Healthy
      <3> QED
        BY <1>11, <3>1 DEF Check
    <2>4. copy' \in [Threads -> Manifests] /\ \A u \in Threads : Healthy(copy'[u])
      BY <2>1, <2>2, <2>3, MarkingIsManifest, HoldTypes
    <2>5. todo' \in [Threads -> SUBSET Templates] /\ pc' = pc
      BY <1>11, <2>1 DEF Check, TypeOK
    <2>6. copy'[v].listed = copy[v].listed
      BY <2>1, <2>3 DEF Hold, Marking, TypeOK
    <2>7. \A u \in Threads : u # v => copy'[u] = copy[u]
      BY <2>1, <2>3 DEF Hold, TypeOK
    <2>8. \A u \in Threads : todo'[u] \subseteq todo[u]
      BY <1>11, <2>1 DEF Check, TypeOK
    <2>9. \A u \in Threads : pc'[u] = "checking" => todo'[u] \subseteq copy'[u].listed
      BY <2>5, <2>6, <2>7, <2>8 DEF TypeOK
    <2> QED
      BY <1>11, <2>4, <2>5, <2>9 DEF Check, TypeOK
  <1>12. ASSUME NEW v \in Verifiers, EndVerify(v)
         PROVE  TypeOK'
    <2>1. v \in Threads
      BY DEF Threads
    <2>2. PICK label \in Labels \ {"checking"} : Goto(v, label)
      BY <1>12 DEF EndVerify, Labels
    <2> QED
      BY <1>12, <2>1, <2>2, MoveTypes DEF EndVerify, memory, TypeOK
  <1>13. ASSUME NEW v \in Verifiers, Report(v)
         PROVE  TypeOK'
    <2>1. v \in Threads
      BY DEF Threads
    <2>2. reported' \subseteq Templates
      BY <1>13, <2>1, PartsOfManifest DEF Report, TypeOK
    <2> QED
      BY <1>13, <2>1, <2>2, DoneTypes DEF Report, TypeOK
  <1>14. ASSUME NEW w \in Threads, Truncate(w)
         PROVE  TypeOK'
    <2>1. "open" \in Labels \ {"checking"}
      BY DEF Labels
    <2>2. file' \in Manifests \cup {Blank, Garbled} /\ file' \notin Manifests
      BY <1>14, NotAManifest DEF Truncate
    <2> QED
      BY <1>14, <2>1, <2>2, MoveTypes DEF Truncate, memory, TypeOK
  <1>15. ASSUME NEW w \in Threads, Fill(w)
         PROVE  TypeOK'
    <2>1. /\ file' \in Manifests \cup {Blank, Garbled}
          /\ file' \in Manifests => Healthy(file')
      BY <1>15, NotAManifest DEF Fill, TypeOK
    <2>2. CASE w \in Verifiers
      <3>1. w \in Verifiers /\ Goto(w, "reporting") /\ UNCHANGED memory
        BY <1>15, <2>2 DEF Fill, memory
      <3>2. "reporting" \in Labels \ {"checking"}
        BY DEF Labels
      <3> QED
        BY <1>15, <2>1, <3>1, <3>2, MoveTypes DEF Fill, memory, TypeOK
    <2>3. CASE w \notin Verifiers
      <3>1. Done(w)
        BY <1>15, <2>3 DEF Fill
      <3> QED
        BY <1>15, <2>1, <3>1, DoneTypes DEF Fill, TypeOK
    <2> QED
      BY <2>2, <2>3
  <1>16. ASSUME NEW w \in Threads, Kill(w)
         PROVE  TypeOK'
    <2>1. cut' \subseteq Templates /\ kills' \in 0..MaxKills
      BY <1>16, ManifestAssumption DEF Kill, TypeOK
    <2> QED
      BY <1>16, <2>1, DoneTypes DEF Kill, TypeOK
  <1>17. ASSUME NEW s \in Surveyors, Lint(s)
         PROVE  TypeOK'
    <2>1. s \in Threads /\ target[s] \in Templates
      BY DEF Threads, TypeOK
    <2>2. calls' \in [Threads -> 0..MaxCalls] /\ target' \in [Threads -> Templates]
      BY <1>17, <2>1, CallTypes DEF Lint
    <2>3. "writing" \in Labels \ {"checking"}
      BY DEF Labels
    <2>4. file \in Manifests /\ Healthy(file)
      BY <1>17 DEF Lint, TypeOK
    <2>5. /\ copy' \in [Threads -> Manifests] /\ \A u \in Threads : Healthy(copy'[u])
          /\ pc' \in [Threads -> Labels]
          /\ \A u \in Threads : pc'[u] = "checking" => todo'[u] \subseteq copy'[u].listed
      BY <1>17, <2>1, <2>3, <2>4, TakeTypes DEF Lint
    <2> QED
      BY <1>17, <2>2, <2>5 DEF Lint, TypeOK
  <1>18. ASSUME NEW v \in Verifiers, VerifyRaises(v)
         PROVE  TypeOK'
    <2>1. v \in Threads
      BY DEF Threads
    <2> QED
      BY <1>18, <2>1, DoneTypes DEF VerifyRaises, TypeOK
  <1>19. CASE Promote
    <2>1. merges' \in 0..MaxMerges
      BY <1>19, ManifestAssumption DEF Promote, TypeOK
    <2>2. CASE MergeManifest /\ UNCHANGED <<sql, broken>>
      <3>1. given' \subseteq Templates
        BY <2>2 DEF MergeManifest, TypeOK
      <3>2. /\ file' \in Manifests \cup {Blank, Garbled}
            /\ file' \in Manifests => Healthy(file')
        <4>1. CASE file' = Garbled
          BY <4>1, NotAManifest
        <4>2. CASE file' # Garbled
          <5>1. PICK touched \in SUBSET Templates :
                  \E listed \in SUBSET touched : \E failing \in SUBSET listed :
                    \E counts \in [touched -> Claims] :
                      /\ Readable
                      /\ file' = Promoting(Read, touched, listed, failing, counts)
            BY <2>2, <4>2 DEF MergeManifest
          <5>2. PICK listed \in SUBSET touched : \E failing \in SUBSET listed :
                  \E counts \in [touched -> Claims] :
                    /\ Readable
                    /\ file' = Promoting(Read, touched, listed, failing, counts)
            BY <5>1
          <5>3. PICK failing \in SUBSET listed : \E counts \in [touched -> Claims] :
                  /\ Readable
                  /\ file' = Promoting(Read, touched, listed, failing, counts)
            BY <5>2
          <5>4. PICK counts \in [touched -> Claims] :
                  /\ Readable
                  /\ file' = Promoting(Read, touched, listed, failing, counts)
            BY <5>3
          <5>5. Read \in Manifests /\ Healthy(Read)
            BY <5>4, ReadIsManifest
          <5> QED
            BY <5>4, <5>5, PromotingIsManifest
        <4> QED
          BY <4>1, <4>2
      <3> QED
        BY <1>19, <2>1, <2>2, <3>1, <3>2 DEF Promote, memory, TypeOK
    <2>3. CASE MergeSql /\ UNCHANGED <<file, given>>
      <3>1. sql' \in [Templates -> {"absent", "empty", "full"}] /\ broken' \subseteq Templates
        BY <2>3 DEF MergeSql, TypeOK
      <3> QED
        BY <1>19, <2>1, <2>3, <3>1 DEF Promote, memory, TypeOK
    <2> QED
      BY <1>19, <2>2, <2>3 DEF Promote
  <1> QED
    BY <1>1, <1>2, <1>3, <1>4, <1>5, <1>6, <1>7, <1>8, <1>9, <1>10, <1>11, <1>12,
       <1>13, <1>14, <1>15, <1>16, <1>17, <1>18, <1>19
    DEF Next, Begin, ApplyTemplate, Continue

\* The files, the copies and the history stay well formed under every
\* interleaving of readers and writers: the code of workspace.py.
THEOREM TypeCorrect == Spec => []TypeOK
  BY InitTypeOK, NextTypeOK, PTL DEF Spec

----------------------------------------------------------------------------
(* Uses.                                                                    *)

Counts(m) == \A t \in Templates \ given : m.uses[t] <= used[t]

\* Strengthening: no copy in memory is ahead of the uses made either.
UsesInv == UsesNotOvercounted /\ \A w \in Threads : Counts(copy[w])

LEMMA EmptyCounts == TypeOK => Counts(Empty)
  BY DEF Counts, Empty, TypeOK

LEMMA ReadCounts == TypeOK /\ Readable /\ UsesInv => Counts(Read)
  BY EmptyCounts, NotAManifest, Zenon DEF TypeOK, Readable, Read, UsesInv, UsesNotOvercounted, Counts

\* A step of w that counts no use and leaves the file alone.
LEMMA HoldCounts ==
  ASSUME TypeOK, UsesInv, NEW w \in Threads, NEW m, Hold(w, m), Counts(m),
         UNCHANGED <<file, used, given>>
  PROVE  UsesInv'
  <1>1. \A u \in Threads : copy'[u] = IF u = w THEN m ELSE copy[u]
    BY DEF Hold, TypeOK
  <1>2. \A u \in Threads : Counts(copy'[u])
    BY <1>1, Zenon DEF UsesInv
  <1> QED
    BY <1>2 DEF UsesInv, UsesNotOvercounted, Counts

LEMMA NextUses == TypeOK /\ UsesInv /\ [Next]_vars => UsesInv'
  <1> SUFFICES ASSUME TypeOK, UsesInv, [Next]_vars
               PROVE  UsesInv'
    OBVIOUS
  <1> USE DEF disk, history, memory
  <1>1. CASE UNCHANGED <<file, copy, used, given>>
    BY <1>1 DEF UsesInv, UsesNotOvercounted, Counts
  <1>2. ASSUME NEW t \in Templates, NEW w \in Questions \cup Explorers, Learn(w, t)
        PROVE  UsesInv'
    <2>1. Read \in Manifests /\ Counts(Read)
      BY <1>2, ReadIsManifest, ReadCounts DEF Learn
    <2>2. Read.uses \in [Templates -> Nat] /\ used \in [Templates -> Nat]
      BY <2>1, PartsOfManifest DEF TypeOK
    <2>3. Listing(Read, t).uses = [Read.uses EXCEPT ![t] = 0]
      BY DEF Listing
    <2>4. Counts(Listing(Read, t))
      BY <2>1, <2>2, <2>3 DEF Counts
    <2> QED
      BY <1>2, <2>4, HoldCounts DEF Learn, Threads
  <1>3. ASSUME NEW s \in Surveyors, Survey(s)
        PROVE  UsesInv'
    BY <1>3, EmptyCounts, HoldCounts DEF Survey, Threads
  <1>4. ASSUME NEW v \in Verifiers, BeginVerify(v)
        PROVE  UsesInv'
    BY <1>4, ReadCounts, HoldCounts DEF BeginVerify, Threads
  <1>5. ASSUME NEW q \in Questions, RecordMetrics(q)
        PROVE  UsesInv'
    <2> DEFINE t == target[q]
    <2>1. q \in Threads /\ t \in Templates
      BY DEF Threads, TypeOK
    <2>2. Read \in Manifests /\ Counts(Read)
      BY <1>5, ReadIsManifest, ReadCounts DEF RecordMetrics
    <2>3. Read.uses \in [Templates -> Nat] /\ used \in [Templates -> Nat]
      BY <2>2, PartsOfManifest DEF TypeOK
    <2>4. used' = [used EXCEPT ![t] = @ + 1] /\ file' = file /\ given' = given
      BY <1>5 DEF RecordMetrics
    <2>5. \A k \in Templates : used[k] <= used'[k]
      BY <2>1, <2>3, <2>4
    <2>6. \A k \in Templates \ given : Counting(Read, t).uses[k] <= used'[k]
      BY <2>1, <2>2, <2>3, <2>4 DEF Counting, Counts
    <2>7. \A u \in Threads : copy'[u] = IF u = q THEN Counting(Read, t) ELSE copy[u]
      BY <1>5, <2>1 DEF RecordMetrics, Hold, TypeOK
    <2>8. \A u \in Threads, k \in Templates : copy[u].uses[k] \in Nat
      BY PartsOfManifest DEF TypeOK
    <2>9. \A u \in Threads, k \in Templates \ given : copy[u].uses[k] <= used'[k]
      <3> SUFFICES ASSUME NEW u \in Threads, NEW k \in Templates \ given
                   PROVE  copy[u].uses[k] <= used'[k]
        OBVIOUS
      <3>1. copy[u].uses[k] <= used[k] /\ copy[u].uses[k] \in Nat /\ used[k] \in Nat
        BY <2>3, <2>8 DEF UsesInv, Counts
      <3> QED
        BY <2>1, <2>3, <2>4, <3>1
    <2>10. \A u \in Threads, k \in Templates \ given : copy'[u].uses[k] <= used'[k]
      BY <2>6, <2>7, <2>9, Zenon
    <2>11. ASSUME file' \in Manifests, NEW k \in Templates \ given
           PROVE  file'.uses[k] <= used'[k]
      <3>1. file.uses[k] <= used[k] /\ file.uses[k] \in Nat /\ used[k] \in Nat
        BY <2>3, <2>4, <2>11, PartsOfManifest DEF UsesInv, UsesNotOvercounted
      <3> QED
        BY <2>1, <2>3, <2>4, <3>1
    <2> QED
      BY <2>4, <2>10, <2>11 DEF UsesInv, UsesNotOvercounted, Counts
  <1>6. ASSUME NEW v \in Verifiers, NEW t \in Templates, Check(v, t)
        PROVE  UsesInv'
    <2>1. v \in Threads
      BY DEF Threads
    <2>2. PICK f : Hold(v, Marking(copy[v], f))
      BY <1>6 DEF Check
    <2>3. Counts(Marking(copy[v], f))
      BY <2>1 DEF Marking, Counts, UsesInv
    <2> QED
      BY <1>6, <2>1, <2>2, <2>3, HoldCounts DEF Check
  <1>7. ASSUME NEW w \in Threads, Done(w), UNCHANGED <<file, used, given>>
        PROVE  UsesInv'
    BY <1>7, EmptyCounts, HoldCounts DEF Done
  <1>8. ASSUME NEW w \in Threads, Truncate(w)
        PROVE  UsesInv'
    BY <1>8, NotAManifest DEF Truncate, UsesInv, UsesNotOvercounted, Counts
  <1>9. ASSUME NEW w \in Threads, Fill(w)
        PROVE  UsesInv'
    <2>1. file' = copy[w] \/ file' = Garbled
      BY <1>9 DEF Fill
    <2>2. used' = used /\ given' = given /\ Counts(copy[w])
      BY <1>9 DEF Fill, UsesInv
    <2>3. UsesNotOvercounted'
      BY <2>1, <2>2, NotAManifest DEF UsesNotOvercounted, Counts
    <2>4. \A u \in Threads : copy'[u] = copy[u] \/ copy'[u] = Empty
      BY <1>9 DEF Fill, Done, Hold, TypeOK
    <2>5. \A u \in Threads : Counts(copy'[u])
      BY <2>4, EmptyCounts, Zenon DEF UsesInv
    <2> QED
      BY <2>2, <2>3, <2>5 DEF UsesInv, Counts
  <1>10. ASSUME NEW v \in Verifiers, Report(v) \/ VerifyRaises(v)
         PROVE  UsesInv'
    BY <1>7, <1>10 DEF Report, VerifyRaises, Threads
  <1>11. ASSUME NEW w \in Threads, Kill(w)
         PROVE  UsesInv'
    BY <1>7, <1>11 DEF Kill
  <1>12. CASE UNCHANGED vars
    BY <1>1, <1>12 DEF vars
  <1>13. ASSUME NEW t \in Templates, Break(t) \/ \E q \in Questions : Route(q, t)
         PROVE  UsesInv'
    BY <1>1, <1>13 DEF Break, Route
  <1>14. ASSUME NEW w \in Threads, NoMetrics(w) \/ OpenSql(w) \/ FillSql(w) \/ EndVerify(w)
         PROVE  UsesInv'
    BY <1>1, <1>14 DEF NoMetrics, OpenSql, FillSql, EndVerify
  <1>15. ASSUME NEW s \in Surveyors, Lint(s)
         PROVE  UsesInv'
    <2>1. Counts(file) /\ UNCHANGED <<file, used, given>>
      BY <1>15 DEF Lint, UsesInv, UsesNotOvercounted, Counts
    <2> QED
      BY <1>15, <2>1, HoldCounts DEF Lint, Threads
  <1>16. CASE Promote
    <2>1. UNCHANGED <<copy, used>> /\ given \subseteq given'
      BY <1>16 DEF Promote, MergeManifest
    <2>2. \A u \in Threads : Counts(copy[u])'
      BY <2>1 DEF UsesInv, Counts
    <2>3. ASSUME file' \in Manifests, NEW k \in Templates \ given'
          PROVE  file'.uses[k] <= used'[k]
      <3>1. CASE file' = file
        BY <2>1, <2>3, <3>1 DEF UsesInv, UsesNotOvercounted
      <3>2. CASE MergeManifest
        <4>1. PICK touched \in SUBSET Templates :
                /\ given' = given \cup touched
                /\ \/ \E listed \in SUBSET touched : \E failing \in SUBSET listed :
                        \E counts \in [touched -> Claims] :
                          /\ Readable
                          /\ file' = Promoting(Read, touched, listed, failing, counts)
                   \/ file' = Garbled
          BY <3>2 DEF MergeManifest
        <4>2. \E listed, failing, counts :
                Readable /\ file' = Promoting(Read, touched, listed, failing, counts)
          BY <2>3, <4>1, NotAManifest
        <4>3. Readable /\ file'.uses[k] = Read.uses[k]
          BY <2>3, <4>1, <4>2 DEF Promoting
        <4>4. Read.uses[k] <= used[k]
          BY <2>3, <4>1, <4>3, ReadCounts DEF Counts
        <4> QED
          BY <2>1, <4>3, <4>4
      <3> QED
        BY <1>16, <3>1, <3>2 DEF Promote
    <2> QED
      BY <2>2, <2>3 DEF UsesInv, UsesNotOvercounted
  <1> QED
    BY <1>2, <1>3, <1>4, <1>5, <1>6, <1>8, <1>9, <1>10, <1>11, <1>12, <1>13, <1>14, <1>15, <1>16
    DEF Next, Begin, ApplyTemplate, Continue

\* A use is counted at most once, whatever updates of the manifest are lost -
\* _record_template_metrics and every other writer - but for the counts that a
\* promoted candidate brought.
THEOREM UsesAreCounted == Spec => []UsesNotOvercounted
  <1>1. Init => UsesInv
    <2> SUFFICES ASSUME Init PROVE UsesInv
      OBVIOUS
    <2>1. TypeOK /\ file = Empty /\ \A w \in Threads : copy[w] = Empty
      BY InitTypeOK DEF Init
    <2> QED
      BY <2>1, EmptyCounts, Zenon DEF UsesInv, UsesNotOvercounted, Counts
  <1>2. UsesInv => UsesNotOvercounted
    BY DEF UsesInv
  <1> QED
    BY <1>1, <1>2, NextUses, TypeCorrect, PTL DEF Spec

----------------------------------------------------------------------------
(* SQL files.                                                               *)

\* What thread w is still about to put in its place.
Pending(w, t) == pc[w] = "filing" /\ target[w] = t

\* Strengthening: what a copy lists has its SQL, or its holder is about to
\* write it, before the manifest, or a candidate brought it.
SqlInv ==
  /\ ListedHasSql
  /\ \A w \in Threads : \A t \in copy[w].listed \ given : HasSql(t) \/ Pending(w, t)

LEMMA ReadHasSql ==
  ASSUME TypeOK, Readable, SqlInv, NEW t \in Read.listed \ given
  PROVE  HasSql(t)
  <1>1. CASE file = Blank
    BY <1>1 DEF Read, Empty
  <1>2. CASE file # Blank
    BY <1>2 DEF TypeOK, Readable, Read, SqlInv, ListedHasSql
  <1> QED
    BY <1>1, <1>2

\* A step that leaves the SQL files and their writers alone.
LEMMA QuietKeepsSql ==
  ASSUME NEW t, HasSql(t), UNCHANGED <<sql, cut>>,
         \A u \in Threads : pc[u] = "filling" => pc'[u] = "filling" /\ target'[u] = target[u]
  PROVE  HasSql(t)'
  BY DEF HasSql, Filling

\* The same for a step that moves only thread w, which does not write SQL now.
LEMMA MoveKeepsSql ==
  ASSUME TypeOK, NEW w \in Threads, pc[w] # "filling", UNCHANGED <<sql, cut>>,
         NEW label, Goto(w, label),
         \A u \in Threads : u # w => target'[u] = target[u],
         NEW t, HasSql(t)
  PROVE  HasSql(t)'
  <1>1. \A u \in Threads : u # w => pc'[u] = pc[u]
    BY DEF Goto, TypeOK
  <1> QED
    BY <1>1, QuietKeepsSql

\* No step takes the SQL of a template away.
LEMMA SqlIsKept ==
  ASSUME TypeOK, [Next]_vars, NEW t \in Templates, HasSql(t)
  PROVE  HasSql(t)'
  <1> USE DEF disk, history, memory
  <1>1. CASE UNCHANGED <<sql, cut, pc, target>>
    BY <1>1 DEF HasSql, Filling
  <1>2. ASSUME NEW w \in Threads, NEW label, pc[w] # "filling", Goto(w, label),
               UNCHANGED <<sql, cut, target>>
        PROVE  HasSql(t)'
    BY <1>2, MoveKeepsSql
  <1>3. ASSUME NEW w \in Threads, NEW label, NEW k, Call(w, k), Goto(w, label),
               UNCHANGED <<sql, cut>>
        PROVE  HasSql(t)'
    <2>1. pc[w] # "filling" /\ \A u \in Threads : u # w => target'[u] = target[u]
      BY <1>3 DEF Call, TypeOK
    <2> QED
      BY <1>3, <2>1, MoveKeepsSql
  <1>4. ASSUME NEW w \in Threads, OpenSql(w)
        PROVE  HasSql(t)'
    <2>1. /\ sql' = [sql EXCEPT ![target[w]] = "empty"]
          /\ cut' = cut /\ target' = target /\ pc[w] = "filing"
      BY <1>4 DEF OpenSql
    <2>2. /\ pc'[w] = "filling"
          /\ \A u \in Threads : u # w => pc'[u] = pc[u]
      BY <1>4 DEF OpenSql, Goto, TypeOK
    <2>3. CASE target[w] = t
      BY <2>1, <2>2, <2>3 DEF HasSql, Filling
    <2>4. CASE target[w] # t
      <3>1. sql'[t] = sql[t]
        BY <2>1, <2>4 DEF TypeOK
      <3> QED
        BY <2>1, <2>2, <3>1 DEF HasSql, Filling
    <2> QED
      BY <2>3, <2>4
  <1>5. ASSUME NEW w \in Threads, FillSql(w)
        PROVE  HasSql(t)'
    <2>1. /\ sql' = [sql EXCEPT ![target[w]] = "full"]
          /\ cut' = cut /\ target' = target
      BY <1>5 DEF FillSql
    <2>2. \A u \in Threads : u # w => pc'[u] = pc[u]
      BY <1>5 DEF FillSql, Goto, TypeOK
    <2>3. CASE target[w] = t
      BY <2>1, <2>3 DEF HasSql, TypeOK
    <2>4. CASE target[w] # t
      <3>1. sql'[t] = sql[t]
        BY <2>1, <2>4 DEF TypeOK
      <3> QED
        BY <2>1, <2>2, <2>4, <3>1 DEF HasSql, Filling
    <2> QED
      BY <2>3, <2>4
  <1>6. ASSUME NEW w \in Threads, Kill(w)
        PROVE  HasSql(t)'
    <2>1. /\ sql' = sql /\ target' = target /\ cut \subseteq cut'
          /\ pc[w] = "filling" => target[w] \in cut'
      BY <1>6 DEF Kill
    <2>2. \A u \in Threads : u # w => pc'[u] = pc[u]
      BY <1>6 DEF Kill, Done, Goto, TypeOK
    <2> QED
      BY <2>1, <2>2 DEF HasSql, Filling
  <1>7. ASSUME NEW k \in Templates, Break(k) \/ Begin(k)
        PROVE  HasSql(t)'
    BY <1>1, <1>3, <1>7 DEF Begin, Break, Route, Learn, ApplyTemplate, Threads
  <1>8. ASSUME NEW s \in Surveyors, Survey(s) \/ Lint(s)
        PROVE  HasSql(t)'
    BY <1>3, <1>8 DEF Survey, Lint, Threads
  <1>9. ASSUME NEW v \in Verifiers, BeginVerify(v) \/ EndVerify(v) \/ Report(v) \/ VerifyRaises(v)
        PROVE  HasSql(t)'
    BY <1>2, <1>9 DEF BeginVerify, EndVerify, Report, VerifyRaises, Done, Threads
  <1>10. ASSUME NEW v \in Verifiers, NEW k \in Templates, Check(v, k)
         PROVE  HasSql(t)'
    BY <1>1, <1>10 DEF Check
  <1>11. ASSUME NEW q \in Questions, RecordMetrics(q) \/ NoMetrics(q)
         PROVE  HasSql(t)'
    BY <1>2, <1>11 DEF RecordMetrics, NoMetrics, Threads
  <1>12. ASSUME NEW w \in Threads, Truncate(w) \/ Fill(w)
         PROVE  HasSql(t)'
    BY <1>2, <1>12 DEF Truncate, Fill, Done
  <1>13. CASE UNCHANGED vars
    BY <1>1, <1>13 DEF vars
  <1>14. CASE Promote
    <2>1. UNCHANGED <<cut, pc, target>> /\ (sql'[t] = "full" \/ sql'[t] = sql[t])
      BY <1>14 DEF Promote, MergeManifest, MergeSql
    <2> QED
      BY <2>1 DEF HasSql, Filling
  <1> QED
    BY <1>4, <1>5, <1>6, <1>7, <1>8, <1>9, <1>10, <1>11, <1>12, <1>13, <1>14
    DEF Next, Begin, ApplyTemplate, Continue, Threads

\* What a candidate brought stays so.
LEMMA GivenGrows ==
  ASSUME [Next]_vars
  PROVE  given \subseteq given'
  BY DEF Next, Begin, Continue, vars, history, Break, Route, Learn, ApplyTemplate, Survey, Lint,
         BeginVerify, RecordMetrics, NoMetrics, OpenSql, FillSql, Check, VerifyRaises, EndVerify,
         Report, Truncate, Fill, Kill, Promote, MergeManifest

\* A step of thread w that leaves the other threads and the file alone: what
\* is left to prove is that w's own copy is right.
LEMMA OthersHaveSql ==
  ASSUME TypeOK, SqlInv, [Next]_vars, NEW w \in Threads, UNCHANGED file,
         \A u \in Threads : u # w => /\ copy'[u] = copy[u] /\ pc'[u] = pc[u]
                                     /\ target'[u] = target[u],
         \A t \in copy'[w].listed \ given' : HasSql(t)' \/ Pending(w, t)'
  PROVE  SqlInv'
  <1>0. given \subseteq given'
    BY GivenGrows
  <1> USE <1>0
  <1>1. ListedHasSql'
    <2> SUFFICES ASSUME file \in Manifests, NEW t \in file.listed \ given'
                 PROVE  HasSql(t)'
      BY DEF ListedHasSql
    <2>1. t \in Templates
      BY PartsOfManifest
    <2> QED
      BY <2>1, SqlIsKept DEF SqlInv, ListedHasSql
  <1>2. ASSUME NEW u \in Threads, u # w, NEW t \in copy'[u].listed \ given'
        PROVE  HasSql(t)' \/ Pending(u, t)'
    <2>1. t \in Templates /\ t \in copy[u].listed
      BY <1>2, PartsOfManifest DEF TypeOK
    <2>2. CASE HasSql(t)
      BY <2>1, <2>2, SqlIsKept
    <2>3. CASE Pending(u, t)
      BY <1>2, <2>3 DEF Pending
    <2> QED
      BY <2>1, <2>2, <2>3 DEF SqlInv
  <1> QED
    BY <1>1, <1>2 DEF SqlInv

LEMMA NextSql == TypeOK /\ SqlInv /\ [Next]_vars => SqlInv'
  <1> SUFFICES ASSUME TypeOK, SqlInv, [Next]_vars
               PROVE  SqlInv'
    OBVIOUS
  <1>0. given \subseteq given'
    BY GivenGrows
  <1> USE <1>0 DEF disk, history, memory
  \* What a step reads from the file has its SQL.
  <1>1. ASSUME NEW w \in Threads, NEW m, NEW label, Readable, m.listed = Read.listed,
               Hold(w, m), Goto(w, label), UNCHANGED <<file, target>>
        PROVE  SqlInv'
    <2>1. copy'[w] = m /\ \A u \in Threads : u # w => copy'[u] = copy[u] /\ pc'[u] = pc[u]
      BY <1>1 DEF Hold, Goto, TypeOK
    <2>2. ASSUME NEW t \in m.listed \ given' PROVE HasSql(t)'
      <3>1. t \in Templates
        BY <1>1, <2>2, ReadIsManifest, PartsOfManifest
      <3> QED
        BY <1>1, <2>2, <3>1, ReadHasSql, SqlIsKept
    <2> QED
      BY <1>1, <2>1, <2>2, OthersHaveSql
  \* A thread that holds nothing any more.
  <1>2. ASSUME NEW w \in Threads, NEW label, Hold(w, Empty), Goto(w, label), UNCHANGED file,
               \A u \in Threads : u # w => target'[u] = target[u]
        PROVE  SqlInv'
    <2>1. copy'[w] = Empty /\ \A u \in Threads : u # w => copy'[u] = copy[u] /\ pc'[u] = pc[u]
      BY <1>2 DEF Hold, Goto, TypeOK
    <2>2. copy'[w].listed = {}
      BY <2>1 DEF Empty
    <2> QED
      BY <1>2, <2>1, <2>2, OthersHaveSql
  \* A thread that goes on with the copy it has.
  <1>3. ASSUME NEW w \in Threads, NEW label, pc[w] # "filing", Goto(w, label),
               copy'[w].listed = copy[w].listed, UNCHANGED file,
               \A u \in Threads : u # w => copy'[u] = copy[u],
               \A u \in Threads : u # w => target'[u] = target[u]
        PROVE  SqlInv'
    <2>1. \A u \in Threads : u # w => pc'[u] = pc[u]
      BY <1>3 DEF Goto, TypeOK
    <2>2. ASSUME NEW t \in copy'[w].listed \ given' PROVE HasSql(t)'
      <3>1. t \in Templates /\ HasSql(t)
        BY <1>3, <2>2, PartsOfManifest DEF TypeOK, SqlInv, Pending
      <3> QED
        BY <3>1, SqlIsKept
    <2> QED
      BY <1>3, <2>1, <2>2, OthersHaveSql
  <1>4. ASSUME NEW t \in Templates, NEW w \in Questions \cup Explorers, Learn(w, t)
        PROVE  SqlInv'
    <2>1. w \in Threads
      BY DEF Threads
    <2>2. copy'[w].listed = Read.listed \cup {t} /\ pc'[w] = "filing" /\ target'[w] = t
      BY <1>4, <2>1 DEF Learn, Call, Goto, Hold, Listing, TypeOK
    <2>3. \A u \in Threads : u # w => /\ copy'[u] = copy[u] /\ pc'[u] = pc[u]
                                      /\ target'[u] = target[u]
      BY <1>4, <2>1 DEF Learn, Call, Goto, Hold, TypeOK
    <2>4. ASSUME NEW k \in Read.listed \ given' PROVE HasSql(k)'
      <3>1. Readable
        BY <1>4 DEF Learn
      <3>2. k \in Templates /\ HasSql(k)
        BY <2>4, <3>1, ReadIsManifest, PartsOfManifest, ReadHasSql
      <3> QED
        BY <3>2, SqlIsKept
    <2>5. \A k \in copy'[w].listed \ given' : HasSql(k)' \/ Pending(w, k)'
      BY <2>2, <2>4 DEF Pending
    <2>6. file' = file
      BY <1>4 DEF Learn
    <2> QED
      BY <2>1, <2>3, <2>5, <2>6, OthersHaveSql
  <1>5. ASSUME NEW w \in Threads, OpenSql(w)
        PROVE  SqlInv'
    <2>1. /\ pc'[w] = "filling" /\ copy' = copy /\ target' = target /\ file' = file
          /\ \A u \in Threads : u # w => pc'[u] = pc[u]
      BY <1>5 DEF OpenSql, Goto, TypeOK
    <2>2. HasSql(target[w])'
      BY <2>1 DEF HasSql, Filling
    <2>3. ASSUME NEW k \in copy[w].listed \ given' PROVE HasSql(k)'
      <3>1. k \in Templates /\ (HasSql(k) \/ k = target[w])
        BY <2>3, PartsOfManifest DEF TypeOK, SqlInv, Pending
      <3> QED
        BY <2>1, <2>2, <3>1, SqlIsKept
    <2> QED
      BY <2>1, <2>3, OthersHaveSql
  <1>6. ASSUME NEW w \in Threads, Truncate(w)
        PROVE  SqlInv'
    <2>1. /\ file' = Blank /\ copy' = copy /\ target' = target
          /\ pc'[w] = "open" /\ \A u \in Threads : u # w => pc'[u] = pc[u]
          /\ pc[w] = "writing"
      BY <1>6 DEF Truncate, Goto, TypeOK
    <2>2. ListedHasSql'
      BY <2>1, NotAManifest DEF ListedHasSql
    <2>3. ASSUME NEW u \in Threads, NEW t \in copy[u].listed \ given'
          PROVE  HasSql(t)' \/ Pending(u, t)'
      <3>1. t \in Templates /\ (HasSql(t) \/ Pending(u, t))
        BY <2>3, PartsOfManifest DEF TypeOK, SqlInv
      <3>2. CASE HasSql(t)
        BY <3>1, <3>2, SqlIsKept
      <3>3. CASE Pending(u, t)
        BY <2>1, <3>3 DEF Pending
      <3> QED
        BY <3>1, <3>2, <3>3
    <2> QED
      BY <2>1, <2>2, <2>3 DEF SqlInv
  <1>7. ASSUME NEW w \in Threads, Fill(w)
        PROVE  SqlInv'
    <2>1. /\ file' = copy[w] \/ file' = Garbled
          /\ target' = target /\ pc[w] = "open"
          /\ \A u \in Threads : copy'[u] = copy[u] \/ copy'[u] = Empty
          /\ \A u \in Threads : u # w => pc'[u] = pc[u]
      BY <1>7 DEF Fill, Done, Goto, Hold, TypeOK
    <2>2. ListedHasSql'
      <3> SUFFICES ASSUME file' \in Manifests, NEW t \in file'.listed \ given'
                   PROVE  HasSql(t)'
        BY DEF ListedHasSql
      <3>1. file' = copy[w]
        BY <2>1, NotAManifest
      <3>2. t \in Templates /\ HasSql(t)
        BY <2>1, <3>1, PartsOfManifest DEF TypeOK, SqlInv, Pending
      <3> QED
        BY <3>2, SqlIsKept
    <2>3. ASSUME NEW u \in Threads, NEW t \in copy'[u].listed \ given'
          PROVE  HasSql(t)' \/ Pending(u, t)'
      <3>1. t \in copy[u].listed
        BY <2>1, <2>3 DEF Empty
      <3>2. t \in Templates /\ (HasSql(t) \/ Pending(u, t))
        BY <3>1, PartsOfManifest DEF TypeOK, SqlInv
      <3>3. CASE HasSql(t)
        BY <3>2, <3>3, SqlIsKept
      <3>4. CASE Pending(u, t)
        BY <2>1, <3>4 DEF Pending
      <3> QED
        BY <3>2, <3>3, <3>4
    <2> QED
      BY <2>2, <2>3 DEF SqlInv
  <1>8. CASE UNCHANGED <<file, copy, pc, target>>
    <2>1. ListedHasSql'
      <3> SUFFICES ASSUME file \in Manifests, NEW t \in file.listed \ given'
                   PROVE  HasSql(t)'
        BY <1>8 DEF ListedHasSql
      <3>1. t \in Templates
        BY PartsOfManifest
      <3> QED
        BY <3>1, SqlIsKept DEF SqlInv, ListedHasSql
    <2>2. ASSUME NEW u \in Threads, NEW t \in copy[u].listed \ given'
          PROVE  HasSql(t)' \/ Pending(u, t)'
      <3>1. t \in Templates /\ (HasSql(t) \/ Pending(u, t))
        BY <2>2, PartsOfManifest DEF TypeOK, SqlInv
      <3> QED
        BY <1>8, <3>1, SqlIsKept DEF Pending
    <2> QED
      BY <1>8, <2>1, <2>2 DEF SqlInv
  <1>9. ASSUME NEW t \in Templates, NEW q \in Questions, Route(q, t)
        PROVE  SqlInv'
    <2>1. q \in Threads /\ pc[q] = "idle" /\ Goto(q, "routed") /\ copy' = copy /\ file' = file
      BY <1>9 DEF Route, Call, Threads
    <2>2. \A u \in Threads : u # q => target'[u] = target[u]
      BY <1>9 DEF Route, Call, TypeOK
    <2> QED
      BY <1>3, <2>1, <2>2
  <1>10. ASSUME NEW s \in Surveyors, Survey(s)
         PROVE  SqlInv'
    <2>1. \A u \in Threads : u # s => target'[u] = target[u]
      BY <1>10 DEF Survey, Call, TypeOK
    <2> QED
      BY <1>2, <1>10, <2>1 DEF Survey, Threads
  <1>11. ASSUME NEW v \in Verifiers, BeginVerify(v)
         PROVE  SqlInv'
    BY <1>1, <1>11 DEF BeginVerify, Threads
  <1>12. ASSUME NEW q \in Questions, RecordMetrics(q)
         PROVE  SqlInv'
    <2>1. Counting(Read, target[q]).listed = Read.listed
      BY DEF Counting
    <2> QED
      BY <1>1, <1>12, <2>1 DEF RecordMetrics, Threads
  <1>13. ASSUME NEW v \in Verifiers, NEW t \in Templates, Check(v, t)
         PROVE  SqlInv'
    <2>1. v \in Threads /\ pc[v] = "checking" /\ pc' = pc /\ target' = target /\ file' = file
      BY <1>13 DEF Check, Threads
    <2>2. PICK f : Hold(v, Marking(copy[v], f))
      BY <1>13 DEF Check
    <2>3. copy'[v].listed = copy[v].listed /\ \A u \in Threads : u # v => copy'[u] = copy[u]
      BY <2>1, <2>2 DEF Hold, Marking, TypeOK
    <2>4. Goto(v, "checking")
      BY <2>1 DEF Goto, TypeOK
    <2> QED
      BY <1>3, <2>1, <2>3, <2>4
  <1>14. ASSUME NEW w \in Threads, NoMetrics(w) \/ FillSql(w) \/ EndVerify(w)
         PROVE  SqlInv'
    BY <1>3, <1>14 DEF NoMetrics, FillSql, EndVerify
  <1>15. ASSUME NEW w \in Threads, Report(w) \/ VerifyRaises(w) \/ Kill(w)
         PROVE  SqlInv'
    BY <1>2, <1>15 DEF Report, VerifyRaises, Kill, Done
  <1>16. ASSUME NEW t \in Templates, Break(t)
         PROVE  SqlInv'
    BY <1>8, <1>16 DEF Break
  <1>17. CASE UNCHANGED vars
    BY <1>8, <1>17 DEF vars
  <1>18. ASSUME NEW s \in Surveyors, Lint(s)
         PROVE  SqlInv'
    <2>1. Readable /\ file.listed = Read.listed
      BY <1>18, NotAManifest DEF Lint, Readable, Read
    <2>2. s \in Threads /\ pc[s] = "idle" /\ target' = target
      BY <1>18 DEF Lint, Call, Threads, TypeOK
    <2> QED
      BY <1>1, <1>18, <2>1, <2>2 DEF Lint
  <1>19. CASE Promote
    <2>1. UNCHANGED <<copy, pc, target>>
      BY <1>19 DEF Promote
    <2>2. ASSUME NEW u \in Threads, NEW t \in copy[u].listed \ given'
          PROVE  HasSql(t)' \/ Pending(u, t)'
      <3>1. t \in Templates /\ (HasSql(t) \/ Pending(u, t))
        BY <2>2, PartsOfManifest DEF TypeOK, SqlInv
      <3> QED
        BY <2>1, <3>1, SqlIsKept DEF Pending
    <2>3. ASSUME file' \in Manifests, NEW t \in file'.listed \ given'
          PROVE  HasSql(t)'
      <3>1. CASE file' = file
        <4>1. t \in Templates
          BY <2>3, PartsOfManifest
        <4> QED
          BY <2>3, <3>1, <4>1, SqlIsKept DEF SqlInv, ListedHasSql
      <3>2. CASE MergeManifest
        <4>1. PICK touched \in SUBSET Templates :
                /\ given' = given \cup touched
                /\ \/ \E listed \in SUBSET touched : \E failing \in SUBSET listed :
                        \E counts \in [touched -> Claims] :
                          /\ Readable
                          /\ file' = Promoting(Read, touched, listed, failing, counts)
                   \/ file' = Garbled
          BY <3>2 DEF MergeManifest
        <4>2. PICK listed \in SUBSET touched : \E failing, counts :
                Readable /\ file' = Promoting(Read, touched, listed, failing, counts)
          BY <2>3, <4>1, NotAManifest
        <4>3. Readable /\ t \in Read.listed \ given
          BY <2>3, <4>1, <4>2 DEF Promoting
        <4>4. t \in Templates
          BY <2>3, PartsOfManifest
        <4> QED
          BY <4>3, <4>4, ReadHasSql, SqlIsKept
      <3> QED
        BY <1>19, <3>1, <3>2 DEF Promote
    <2> QED
      BY <2>1, <2>2, <2>3 DEF SqlInv, ListedHasSql
  <1> QED
    BY <1>4, <1>5, <1>6, <1>7, <1>9, <1>10, <1>11, <1>12, <1>13, <1>14, <1>15, <1>16, <1>17,
       <1>18, <1>19
    DEF Next, Begin, ApplyTemplate, Continue

\* The SQL file is written before the manifest that lists it, and stays: the
\* order of the writes in _learn_template and _apply_template. No promotion takes
\* it away; a promotion is also the only way to list what has none.
THEOREM ListedTemplatesHaveSql == Spec => []ListedHasSql
  <1>1. Init => SqlInv
    <2> SUFFICES ASSUME Init PROVE SqlInv
      OBVIOUS
    <2>1. file = Empty /\ \A w \in Threads : copy[w] = Empty
      BY DEF Init
    <2> QED
      BY <2>1 DEF SqlInv, ListedHasSql, Empty
  <1>2. SqlInv => ListedHasSql
    BY DEF SqlInv
  <1> QED
    BY <1>1, <1>2, NextSql, TypeCorrect, PTL DEF Spec
=============================================================================
