------------------------ MODULE AdaptiveLimiterProofs ------------------------
(****************************************************************************)
(* What holds of the limiter for every set of threads and every legal       *)
(* constructor call: its types, the accounting of its slots, the absence of *)
(* lost wakeups, that only a reduction leaves it over its limit, that growth *)
(* is earned, and that it implements PriorityPool.                          *)
(****************************************************************************)
EXTENDS AdaptiveLimiter, FiniteSetTheorems, TLAPS

\* Every step of a thread, spelled out: the case split of the proofs below.
LEMMA NextCases ==
  ASSUME Next
  PROVE  \E t \in Threads :
           \/ Enter(t) \/ Expire(t)
           \/ Admit(t) \/ BackToSleep(t) \/ GiveUp(t)
           \/ RecordSuccess(t) \/ RecordPressure(t) \/ OtherError(t) \/ Release(t)
  BY DEF Next, Wakeup, Finish

----------------------------------------------------------------------------

\* The limit stays in the constructor's range and every variable in its type.
LEMMA InitTypeOK == Init => TypeOK
  BY LimiterAssumption DEF Init, TypeOK, Phases

LEMMA HalvedInRange ==
  ASSUME limit \in Minimum..Maximum
  PROVE  Halved \in Minimum..Maximum /\ Halved <= limit
  BY LimiterAssumption DEF Halved

LEMMA NextTypeOK == TypeOK /\ [Next]_vars => TypeOK'
  <1> SUFFICES ASSUME TypeOK, [Next]_vars
               PROVE  TypeOK'
    OBVIOUS
  <1> USE LimiterAssumption DEF TypeOK
  <1>1. CASE UNCHANGED vars
    BY <1>1 DEF vars
  <1>2. CASE Next
    <2>1. PICK t \in Threads :
            \/ Enter(t) \/ Expire(t)
            \/ Admit(t) \/ BackToSleep(t) \/ GiveUp(t)
            \/ RecordSuccess(t) \/ RecordPressure(t) \/ OtherError(t) \/ Release(t)
      BY <1>2, NextCases
    <2>2. CASE Enter(t)
      BY <2>2 DEF NotifyAll, Enter, TakeSlot, Phases
    <2>3. CASE Expire(t)
      BY <2>3 DEF NotifyAll, Expire, Phases
    <2>4. CASE Admit(t)
      BY <2>4 DEF NotifyAll, Admit, TakeSlot, Phases
    <2>5. CASE BackToSleep(t)
      BY <2>5 DEF NotifyAll, BackToSleep, Phases
    <2>6. CASE GiveUp(t)
      BY <2>6 DEF NotifyAll, GiveUp, Phases
    <2>7. CASE RecordSuccess(t)
      BY <2>7 DEF NotifyAll, RecordSuccess, Phases
    <2>8. CASE RecordPressure(t)
      BY <2>8, HalvedInRange DEF NotifyAll, RecordPressure, Phases
    <2>9. CASE OtherError(t)
      BY <2>9 DEF NotifyAll, OtherError, Phases
    <2>10. CASE Release(t)
      BY <2>10 DEF NotifyAll, Release, Phases
    <2> QED
      BY <2>1, <2>2, <2>3, <2>4, <2>5, <2>6, <2>7, <2>8, <2>9, <2>10
  <1> QED
    BY <1>1, <1>2

\* The limiter's counters stay in their types; the limit stays in Minimum..Maximum.
THEOREM TypeCorrect == Spec => []TypeOK
  <1> QED
    BY InitTypeOK, NextTypeOK, PTL DEF Spec

----------------------------------------------------------------------------

\* What a step does to the set of threads between acquire() and release().
LEMMA HoldersStep ==
  ASSUME TypeOK, NEW t \in Threads
  PROVE  /\ Enter(t) => (Holders' = Holders /\ inFlight' = inFlight)
                        \/ (Holders' = Holders \cup {t} /\ t \notin Holders /\ inFlight' = inFlight + 1)
         /\ Admit(t) => Holders' = Holders \cup {t} /\ t \notin Holders /\ inFlight' = inFlight + 1
         /\ Release(t) => Holders' = Holders \ {t} /\ t \in Holders /\ inFlight' = inFlight - 1
         /\ Expire(t) \/ BackToSleep(t) \/ GiveUp(t)
              => Holders' = Holders /\ inFlight' = inFlight
         /\ RecordSuccess(t) \/ RecordPressure(t) \/ OtherError(t)
              => Holders' = Holders /\ inFlight' = inFlight
  <1> USE DEF TypeOK, Phases, Holders, NotifyAll
  <1>1. Enter(t) => (Holders' = Holders /\ inFlight' = inFlight)
                    \/ (Holders' = Holders \cup {t} /\ t \notin Holders /\ inFlight' = inFlight + 1)
    BY DEF Enter, TakeSlot
  <1>2. Admit(t) => Holders' = Holders \cup {t} /\ t \notin Holders /\ inFlight' = inFlight + 1
    BY DEF Admit, TakeSlot
  <1>3. Release(t) => Holders' = Holders \ {t} /\ t \in Holders /\ inFlight' = inFlight - 1
    BY DEF Release
  <1>4. Expire(t) \/ BackToSleep(t) \/ GiveUp(t) => Holders' = Holders /\ inFlight' = inFlight
    BY DEF Expire, BackToSleep, GiveUp
  <1>5. RecordSuccess(t) \/ RecordPressure(t) \/ OtherError(t)
          => Holders' = Holders /\ inFlight' = inFlight
    BY DEF RecordSuccess, RecordPressure, OtherError
  <1> QED
    BY <1>1, <1>2, <1>3, <1>4, <1>5

LEMMA InitAccounting == Init => SlotAccounting
  <1> SUFFICES ASSUME Init PROVE SlotAccounting
    OBVIOUS
  <1>1. Holders = {}
    BY DEF Init, Holders
  <1> QED
    BY <1>1, FS_EmptySet DEF Init, SlotAccounting

LEMMA NextAccounting == TypeOK /\ SlotAccounting /\ [Next]_vars => SlotAccounting'
  <1> SUFFICES ASSUME TypeOK, SlotAccounting, [Next]_vars
               PROVE  SlotAccounting'
    OBVIOUS
  <1> USE DEF SlotAccounting
  <1>1. IsFiniteSet(Holders) /\ Cardinality(Holders) \in Nat
    <2>1. Holders \in SUBSET Threads
      BY DEF Holders
    <2> QED
      BY <2>1, LimiterAssumption, FS_Subset, FS_CardinalityType
  <1>2. CASE UNCHANGED vars
    BY <1>2 DEF vars, Holders
  <1>3. CASE Next
    <2>1. PICK t \in Threads :
            \/ Enter(t) \/ Expire(t)
            \/ Admit(t) \/ BackToSleep(t) \/ GiveUp(t)
            \/ RecordSuccess(t) \/ RecordPressure(t) \/ OtherError(t) \/ Release(t)
      BY <1>3, NextCases
    <2>2. \/ Holders' = Holders /\ inFlight' = inFlight
          \/ Holders' = Holders \cup {t} /\ t \notin Holders /\ inFlight' = inFlight + 1
          \/ Holders' = Holders \ {t} /\ t \in Holders /\ inFlight' = inFlight - 1
      BY <2>1, HoldersStep
    <2>3. Cardinality(Holders \cup {t}) = IF t \in Holders THEN Cardinality(Holders)
                                                           ELSE Cardinality(Holders) + 1
      BY <1>1, FS_AddElement
    <2>4. Cardinality(Holders \ {t}) = IF t \in Holders THEN Cardinality(Holders) - 1
                                                        ELSE Cardinality(Holders)
      BY <1>1, FS_RemoveElement
    <2> QED
      BY <2>2, <2>3, <2>4
  <1> QED
    BY <1>2, <1>3

\* The in-flight counter is always the number of threads that own a slot.
THEOREM AccountingCorrect == Spec => []SlotAccounting
  <1> QED
    BY TypeCorrect, InitAccounting, NextAccounting, PTL DEF Spec

----------------------------------------------------------------------------

\* Slots are taken only below the limit, which only a reduction lowers.
THEOREM OverLimitCorrect == Spec => []OverLimitOnlyAfterPressure
  <1> USE LimiterAssumption DEF OverLimitOnlyAfterPressure
  <1>1. Init => OverLimitOnlyAfterPressure
    BY DEF Init
  <1>2. TypeOK /\ OverLimitOnlyAfterPressure /\ [Next]_vars => OverLimitOnlyAfterPressure'
    <2> SUFFICES ASSUME TypeOK, OverLimitOnlyAfterPressure, [Next]_vars
                 PROVE  OverLimitOnlyAfterPressure'
      OBVIOUS
    <2> USE DEF TypeOK
    <2>1. CASE UNCHANGED vars
      BY <2>1 DEF vars
    <2>2. CASE \E t \in Threads : Enter(t) \/ Admit(t)
      BY <2>2 DEF Enter, Admit, TakeSlot, Admissible
    <2>3. CASE \E t \in Threads : Expire(t) \/ BackToSleep(t) \/ GiveUp(t) \/ OtherError(t)
      BY <2>3 DEF Expire, BackToSleep, GiveUp, OtherError
    <2>4. CASE \E t \in Threads : RecordSuccess(t) \/ RecordPressure(t) \/ Release(t)
      BY <2>4 DEF RecordSuccess, RecordPressure, Release
    <2> QED
      BY <2>1, <2>2, <2>3, <2>4, NextCases
  <1> QED
    BY TypeCorrect, <1>1, <1>2, PTL DEF Spec

----------------------------------------------------------------------------

\* A step that leaves the waiters and their tickets alone leaves the order of
\* the queue alone.
LEMMA SelectedUnchanged ==
  ASSUME Waiting' = Waiting, ticket' = ticket, NEW t
  PROVE  Selected(t, ticket[t])' <=> Selected(t, ticket[t])
  BY DEF Selected, Before, Priority

\* A waiter that goes to sleep is not the head, or calls are in flight.
LEMMA NotAdmissible ==
  ASSUME TypeOK, NEW t, NEW n, ~Admissible(t, n), Selected(t, n)
  PROVE  inFlight > 0
  BY LimiterAssumption DEF Admissible, TypeOK

\* acquire() keeps the head awake: the newcomer is last in its priority, so it
\* can only take away the first place of a sleeper, never give it one.
LEMMA EnterKeepsHeadAwake ==
  ASSUME TypeOK, NoSleepingHead, NEW u \in Threads, Enter(u)
  PROVE  NoSleepingHead'
  <1> USE DEF TypeOK, NoSleepingHead
  <1>1. CASE TakeSlot(u)
    BY <1>1 DEF TakeSlot
  <1>2. CASE /\ ~Admissible(u, sequence + 1)
             /\ phase' = [phase EXCEPT ![u] = "asleep"]
             /\ ticket' = [ticket EXCEPT ![u] = sequence + 1]
             /\ UNCHANGED inFlight
    <2> SUFFICES ASSUME NEW t \in Threads, phase'[t] = "asleep", Selected(t, ticket[t])'
                 PROVE  inFlight' > 0
      OBVIOUS
    <2>1. Waiting' = Waiting \cup {u} /\ u \notin Waiting
      BY <1>2 DEF Enter, Waiting
    <2>2. \A w \in Threads : w # u => ticket'[w] = ticket[w] /\ phase'[w] = phase[w]
      BY <1>2
    <2>3. CASE t = u
      <3>1. Selected(u, sequence + 1)
        BY <2>1, <2>2, <2>3, <1>2 DEF Selected, Before, Priority, Waiting
      <3> QED
        BY <3>1, <1>2, NotAdmissible
    <2>4. CASE t # u
      <3>1. Selected(t, ticket[t])
        BY <2>1, <2>2, <2>4 DEF Selected, Before, Priority, Waiting
      <3> QED
        BY <3>1, <2>2, <2>4, <1>2
    <2> QED
      BY <2>3, <2>4
  <1> QED
    BY <1>1, <1>2 DEF Enter

LEMMA NextNoSleepingHead == TypeOK /\ NoSleepingHead /\ [Next]_vars => NoSleepingHead'
  <1> SUFFICES ASSUME TypeOK, NoSleepingHead, [Next]_vars
               PROVE  NoSleepingHead'
    OBVIOUS
  <1> USE DEF TypeOK, NoSleepingHead
  <1>1. CASE UNCHANGED vars
    BY <1>1, SelectedUnchanged DEF vars, Waiting
  <1>2. CASE Next
    <2>1. PICK u \in Threads :
            \/ Enter(u) \/ Expire(u)
            \/ Admit(u) \/ BackToSleep(u) \/ GiveUp(u)
            \/ RecordSuccess(u) \/ RecordPressure(u) \/ OtherError(u) \/ Release(u)
      BY <1>2, NextCases
    <2>2. CASE Enter(u)
      BY <2>2, EnterKeepsHeadAwake
    <2>3. CASE Expire(u) \/ OtherError(u)
      <3>1. Waiting' = Waiting /\ ticket' = ticket /\ inFlight' = inFlight
        BY <2>3 DEF Expire, OtherError, Waiting
      <3>2. \A t \in Threads : phase'[t] = "asleep" => phase[t] = "asleep"
        BY <2>3 DEF Expire, OtherError
      <3> QED
        BY <3>1, <3>2, SelectedUnchanged
    <2>4. CASE Admit(u)
      BY <2>4 DEF Admit, TakeSlot
    <2>5. CASE BackToSleep(u)
      <3>1. Waiting' = Waiting /\ ticket' = ticket /\ inFlight' = inFlight
        BY <2>5 DEF BackToSleep, Waiting
      <3>2. Selected(u, ticket[u]) => inFlight > 0
        BY <2>5, NotAdmissible DEF BackToSleep
      <3>3. \A t \in Threads : phase'[t] = "asleep" => phase[t] = "asleep" \/ t = u
        BY <2>5 DEF BackToSleep
      <3> QED
        BY <3>1, <3>2, <3>3, SelectedUnchanged
    <2>6. CASE GiveUp(u) \/ RecordPressure(u) \/ Release(u)
      <3>1. \A t \in Threads : phase'[t] # "asleep"
        BY <2>6 DEF GiveUp, RecordPressure, Release, NotifyAll, Phases
      <3> QED
        BY <3>1
    <2>7. CASE RecordSuccess(u)
      <3>1. CASE phase' = NotifyAll([phase EXCEPT ![u] = "releasing"])
        BY <3>1 DEF NotifyAll
      <3>2. CASE phase' = [phase EXCEPT ![u] = "releasing"]
        <4>1. Waiting' = Waiting /\ ticket' = ticket /\ inFlight' = inFlight
          BY <2>7, <3>2 DEF RecordSuccess, Waiting
        <4>2. \A t \in Threads : phase'[t] = "asleep" => phase[t] = "asleep"
          BY <3>2
        <4> QED
          BY <4>1, <4>2, SelectedUnchanged
      <3> QED
        BY <2>7, <3>1, <3>2 DEF RecordSuccess
    <2> QED
      BY <2>1, <2>2, <2>3, <2>4, <2>5, <2>6, <2>7
  <1> QED
    BY <1>1, <1>2

\* No lost wakeup, for any number of threads: the head of the queue never
\* sleeps while the pool is idle.
THEOREM NoLostWakeup == Spec => []NoSleepingHead
  <1>1. Init => NoSleepingHead
    BY DEF Init, NoSleepingHead
  <1> QED
    BY TypeCorrect, <1>1, NextNoSleepingHead, PTL DEF Spec

----------------------------------------------------------------------------

\* The calls that have a sequence number and have not finished.
Unfinished == {t \in Threads : phase[t] \in {"asleep", "awake", "holding"}}

\* GrowthEarned in one cardinality.
Earned == StableWindow * (limit - Initial) + successes <= sequence - Cardinality(Unfinished)

LEMMA UnfinishedCount ==
  ASSUME TypeOK
  PROVE  /\ IsFiniteSet(Unfinished) /\ Cardinality(Unfinished) \in Nat
         /\ Cardinality(Unfinished)
              = Cardinality(Waiting) + Cardinality({t \in Threads : phase[t] = "holding"})
         /\ Cardinality(Waiting) \in Nat
         /\ Cardinality({t \in Threads : phase[t] = "holding"}) \in Nat
  <1> DEFINE Calling == {t \in Threads : phase[t] = "holding"}
  <1>1. IsFiniteSet(Unfinished) /\ IsFiniteSet(Waiting) /\ IsFiniteSet(Calling)
    <2>1. Unfinished \in SUBSET Threads /\ Waiting \in SUBSET Threads /\ Calling \in SUBSET Threads
      BY DEF Unfinished, Waiting
    <2> QED
      BY <2>1, FS_Subset, LimiterAssumption
  <1>2. Waiting \cap Calling = {} /\ Waiting \cup Calling = Unfinished
    BY DEF Waiting, Unfinished
  <1>3. Cardinality(Waiting \cup Calling)
          = Cardinality(Waiting) + Cardinality(Calling) - Cardinality(Waiting \cap Calling)
    BY <1>1, FS_Union
  <1>4. Cardinality(Waiting) \in Nat /\ Cardinality(Calling) \in Nat /\ Cardinality(Unfinished) \in Nat
    BY <1>1, FS_CardinalityType
  <1>5. Cardinality(Waiting \cap Calling) = 0
    BY <1>2, FS_EmptySet
  <1>6. Cardinality(Unfinished) = Cardinality(Waiting) + Cardinality(Calling)
    <2>1. Cardinality(Waiting \cup Calling) = Cardinality(Unfinished)
      BY <1>2
    <2> HIDE DEF Calling
    <2> QED
      BY <1>3, <1>4, <1>5, <2>1
  <1> QED
    BY <1>1, <1>4, <1>6

\* What a step does to the unfinished calls.
LEMMA UnfinishedStep ==
  ASSUME TypeOK, NEW t \in Threads
  PROVE  /\ Enter(t) => Unfinished' = Unfinished \cup {t} /\ t \notin Unfinished
         /\ Expire(t) \/ Admit(t) \/ BackToSleep(t) \/ Release(t) => Unfinished' = Unfinished
         /\ GiveUp(t) \/ RecordSuccess(t) \/ RecordPressure(t) \/ OtherError(t)
              => Unfinished' = Unfinished \ {t} /\ t \in Unfinished
  <1> USE DEF TypeOK, Phases, Unfinished, NotifyAll
  <1>1. Enter(t) => Unfinished' = Unfinished \cup {t} /\ t \notin Unfinished
    BY DEF Enter, TakeSlot
  <1>2. Expire(t) \/ Admit(t) \/ BackToSleep(t) => Unfinished' = Unfinished
    BY DEF Expire, Admit, TakeSlot, BackToSleep
  <1>3. Release(t) => Unfinished' = Unfinished
    BY DEF Release
  <1>4. GiveUp(t) => Unfinished' = Unfinished \ {t} /\ t \in Unfinished
    BY DEF GiveUp
  <1>5. RecordSuccess(t) => Unfinished' = Unfinished \ {t} /\ t \in Unfinished
    BY DEF RecordSuccess
  <1>6. RecordPressure(t) \/ OtherError(t) => Unfinished' = Unfinished \ {t} /\ t \in Unfinished
    BY DEF RecordPressure, OtherError
  <1> QED
    BY <1>1, <1>2, <1>3, <1>4, <1>5, <1>6

\* A step of the limit is worth a stable window, and a lower limit less.
LEMMA WindowArithmetic ==
  /\ \A l \in Int : StableWindow * (l + 1 - Initial) = StableWindow * (l - Initial) + StableWindow
  /\ \A l, m \in Int : m <= l => StableWindow * (m - Initial) <= StableWindow * (l - Initial)
  /\ \A l \in Int : StableWindow * (l - Initial) \in Int
  BY LimiterAssumption

LEMMA NextEarned == TypeOK /\ Earned /\ [Next]_vars => Earned'
  <1> SUFFICES ASSUME TypeOK, Earned, [Next]_vars
               PROVE  Earned'
    OBVIOUS
  <1> DEFINE worth == StableWindow * (limit - Initial)
             calls == Cardinality(Unfinished)
  <1>1. /\ limit \in Int /\ limit' \in Int /\ worth \in Int /\ worth' \in Int
        /\ successes \in Nat /\ sequence \in Int /\ StableWindow \in Nat
    <2>1. TypeOK'
      BY NextTypeOK
    <2>2. limit \in Int /\ limit' \in Int /\ successes \in Nat /\ sequence \in Int
      BY <2>1, LimiterAssumption DEF TypeOK
    <2> QED
      BY <2>2, WindowArithmetic, LimiterAssumption
  <1>2. calls \in Nat /\ IsFiniteSet(Unfinished)
    BY UnfinishedCount
  <1>3. worth + successes <= sequence - calls
    BY DEF Earned
  <1>4. SUFFICES worth' + successes' <= sequence' - calls'
    BY DEF Earned
  <1>5. CASE UNCHANGED vars
    BY <1>3, <1>5 DEF vars, Unfinished
  <1>6. CASE Next
    <2>1. PICK t \in Threads :
            \/ Enter(t) \/ Expire(t)
            \/ Admit(t) \/ BackToSleep(t) \/ GiveUp(t)
            \/ RecordSuccess(t) \/ RecordPressure(t) \/ OtherError(t) \/ Release(t)
      BY <1>6, NextCases
    <2>2. CASE Enter(t)
      <3>1. sequence' = sequence + 1 /\ successes' = successes /\ limit' = limit
        BY <2>2 DEF Enter
      <3>2. calls' = calls + 1
        BY <2>2, <1>2, UnfinishedStep, FS_AddElement
      <3> QED
        BY <1>1, <1>2, <1>3, <3>1, <3>2
    <2>3. CASE Expire(t) \/ Admit(t) \/ BackToSleep(t) \/ Release(t)
      <3>1. sequence' = sequence /\ successes' = successes /\ limit' = limit
        BY <2>3 DEF Expire, Admit, BackToSleep, Release
      <3>2. calls' = calls
        BY <2>3, UnfinishedStep
      <3> QED
        BY <1>3, <3>1, <3>2
    <2>4. ASSUME GiveUp(t) \/ RecordSuccess(t) \/ RecordPressure(t) \/ OtherError(t)
          PROVE  sequence' = sequence /\ calls' = calls - 1
      <3>1. sequence' = sequence
        BY <2>4 DEF GiveUp, RecordSuccess, RecordPressure, OtherError
      <3>2. calls' = calls - 1
        BY <2>4, <1>2, UnfinishedStep, FS_RemoveElement
      <3> QED
        BY <3>1, <3>2
    <2>5. CASE GiveUp(t) \/ OtherError(t)
      <3>1. successes' = successes /\ worth' = worth
        BY <2>5 DEF GiveUp, OtherError
      <3> QED
        BY <1>1, <1>2, <1>3, <2>4, <2>5, <3>1
    <2>6. CASE RecordSuccess(t)
      <3>1. CASE successes + 1 >= StableWindow /\ limit' = limit + 1 /\ successes' = 0
        <4>1. worth' = worth + StableWindow
          <5>1. StableWindow * (limit + 1 - Initial) = StableWindow * (limit - Initial) + StableWindow
            BY <1>1, WindowArithmetic
          <5>2. limit' - Initial = limit + 1 - Initial
            BY <1>1, <3>1, LimiterAssumption
          <5>3. StableWindow * (limit' - Initial) = StableWindow * (limit - Initial) + StableWindow
            BY <5>1, <5>2
          <5> QED
            BY <5>3
        <4> QED
          BY <1>1, <1>2, <1>3, <2>4, <2>6, <3>1, <4>1
      <3>2. CASE successes' = successes + 1 /\ limit' = limit
        <4>1. worth' = worth
          BY <3>2
        <4> QED
          BY <1>1, <1>2, <1>3, <2>4, <2>6, <3>2, <4>1
      <3> QED
        BY <2>6, <3>1, <3>2 DEF RecordSuccess
    <2>7. CASE RecordPressure(t)
      <3>1. limit' <= limit /\ successes' = 0
        BY <2>7, HalvedInRange DEF RecordPressure, TypeOK
      <3>2. worth' <= worth
        BY <1>1, <3>1, WindowArithmetic
      <3> QED
        BY <1>1, <1>2, <1>3, <2>4, <2>7, <3>1, <3>2
    <2> QED
      BY <2>1, <2>2, <2>3, <2>5, <2>6, <2>7
  <1> QED
    BY <1>5, <1>6

\* The limit rises only by a stable window of finished calls for each step, for any
\* number of threads and whatever reductions interleave.
THEOREM GrowthIsEarned == Spec => []GrowthEarned
  <1>1. Init => Earned
    <2> SUFFICES ASSUME Init PROVE Earned
      OBVIOUS
    <2>1. Unfinished = {}
      BY DEF Init, Unfinished
    <2>2. limit = Initial /\ successes = 0 /\ sequence = 0
      BY DEF Init
    <2>3. StableWindow * (limit - Initial) = 0
      BY <2>2, LimiterAssumption
    <2> QED
      BY <2>1, <2>2, <2>3, FS_EmptySet DEF Earned
  <1>2. TypeOK /\ Earned => GrowthEarned
    <2> SUFFICES ASSUME TypeOK, Earned PROVE GrowthEarned
      OBVIOUS
    <2>1. sequence \in Int
      BY LimiterAssumption DEF TypeOK
    <2> QED
      BY <2>1, UnfinishedCount DEF Earned, GrowthEarned
  <1> QED
    BY <1>1, <1>2, TypeCorrect, NextEarned, PTL DEF Spec

----------------------------------------------------------------------------
\* The refinement of PriorityPool.

\* Nobody waits with a number that has not been given out.
TicketsIssued == \A t \in Threads : ticket[t] <= sequence

LEMMA NextTicketsIssued == TypeOK /\ TicketsIssued /\ [Next]_vars => TicketsIssued'
  <1> SUFFICES ASSUME TypeOK, TicketsIssued, [Next]_vars
               PROVE  TicketsIssued'
    OBVIOUS
  <1> USE LimiterAssumption DEF TypeOK, TicketsIssued
  <1>1. CASE UNCHANGED vars
    BY <1>1 DEF vars
  <1>2. CASE \E t \in Threads : Enter(t) \/ Admit(t) \/ GiveUp(t)
    BY <1>2 DEF Enter, Admit, GiveUp, TakeSlot
  <1>3. CASE \E t \in Threads : \/ Expire(t) \/ BackToSleep(t) \/ OtherError(t)
                                \/ RecordSuccess(t) \/ RecordPressure(t) \/ Release(t)
    BY <1>3 DEF Expire, BackToSleep, OtherError, RecordSuccess, RecordPressure, Release
  <1> QED
    BY <1>1, <1>2, <1>3, NextCases

\* A step that leaves the waiters and their tickets alone leaves the order of
\* the pool alone.
LEMMA AheadUnchanged ==
  ASSUME Waiting' = Waiting, ticket' = ticket
  PROVE  Ahead' = Ahead
  BY DEF Ahead, Before, Priority

\* Nobody comes before the thread whose turn it is.
LEMMA SelectedIsNext ==
  ASSUME TypeOK, NEW t \in Waiting, Selected(t, ticket[t])
  PROVE  Ahead[t] = {}
  <1>1. Ahead[t] = {u \in Waiting \ {t} : Before(u, ticket[u], t)}
    BY DEF Ahead
  <1>2. ASSUME NEW u \in Waiting \ {t} PROVE ~Before(u, ticket[u], t)
    <2>1. ticket[t] \in Int /\ ticket[u] \in Int
      BY <1>2, LimiterAssumption DEF TypeOK, Waiting
    <2>2. Before(t, ticket[t], u)
      BY <1>2 DEF Selected
    <2> QED
      BY <2>1, <2>2 DEF Before, Priority
  <1> QED
    BY <1>1, <1>2

\* A newcomer comes before a waiter exactly when it alone is interactive.
LEMMA NewcomerOrder ==
  ASSUME TypeOK, TicketsIssued, NEW t \in Threads, NEW u \in Waiting
  PROVE  /\ Before(t, sequence + 1, u) <=> t \in Interactive /\ u \notin Interactive
         /\ Priority(u) < Priority(t) \/ Priority(u) = Priority(t)
              <=> u \in Interactive \/ t \notin Interactive
  <1>1. ticket[u] <= sequence /\ ticket[u] \in Int /\ sequence \in Int
    BY LimiterAssumption DEF TypeOK, Waiting, TicketsIssued
  <1> QED
    BY <1>1 DEF Before, Priority

\* Who stops waiting is taken out of the order and changes nothing else in it.
LEMMA LeavesOrder ==
  ASSUME NEW t, Waiting' = Waiting \ {t}, ticket' = [ticket EXCEPT ![t] = 0],
         TypeOK
  PROVE  Pool!Remove(t)
  <1>1. \A u \in Waiting : u # t => ticket'[u] = ticket[u]
    BY DEF TypeOK, Waiting
  <1>2. DOMAIN Ahead = Waiting
    BY DEF Ahead
  <1>3. DOMAIN Ahead' = Waiting \ {t} /\ Ahead' = [d \in DOMAIN Ahead' |-> Ahead'[d]]
    BY DEF Ahead
  <1>4. ASSUME NEW d \in Waiting \ {t}
        PROVE  Ahead'[d] = Ahead[d] \ {t}
    <2>1. \A u \in Waiting \ {t} : Before(u, ticket[u], d)' <=> Before(u, ticket[u], d)
      BY <1>1, <1>4 DEF Before, Priority
    <2>2. Ahead'[d] = {u \in (Waiting \ {t}) \ {d} : Before(u, ticket[u], d)'}
      BY <1>4 DEF Ahead
    <2>3. Ahead[d] = {u \in Waiting \ {d} : Before(u, ticket[u], d)}
      BY <1>4 DEF Ahead
    <2> QED
      BY <2>1, <2>2, <2>3
  <1>5. Ahead' = [d \in DOMAIN Ahead \ {t} |-> Ahead[d] \ {t}]
    BY <1>2, <1>3, <1>4
  <1> QED
    BY <1>5 DEF Pool!Remove

LEMMA PoolCardinality ==
  ASSUME NEW S
  PROVE  Pool!Cardinality(S) = Cardinality(S)
  BY DEF Pool!Cardinality, Cardinality

\* acquire() that is granted at once: a newcomer with nobody in front.
LEMMA EnterTakes ==
  ASSUME TypeOK, TicketsIssued, SlotAccounting, NEW t \in Threads, Enter(t), TakeSlot(t),
         Admissible(t, sequence + 1)
  PROVE  Pool!Take(t)
  <1>1. phase[t] = "idle" /\ limit' = limit
    BY DEF Enter
  <1>2. t \notin Waiting /\ t \notin Holders /\ Waiting' = Waiting /\ Holders' = Holders \cup {t}
    BY <1>1 DEF TypeOK, Waiting, Holders, TakeSlot
  <1>3. DOMAIN Ahead = Waiting
    BY DEF Ahead
  <1>4. ASSUME NEW u \in Waiting PROVE ~(u \in Interactive \/ t \notin Interactive)
    <2>1. Before(t, sequence + 1, u)
      BY <1>2, <1>4 DEF Admissible, Selected
    <2> QED
      BY <2>1, NewcomerOrder
  <1>5. Pool!IsNext(t)
    BY <1>2, <1>3, <1>4 DEF Pool!IsNext, Pool!InLine, Pool!InFrontOf
  <1>6. Pool!Remove(t)
    BY <1>2, LeavesOrder DEF TakeSlot
  <1>7. Pool!Cardinality(Holders) < limit
    BY PoolCardinality DEF SlotAccounting, Admissible
  <1> QED
    BY <1>1, <1>2, <1>5, <1>6, <1>7 DEF Pool!Take

\* acquire() that has to wait: the newcomer joins the pool's order.
LEMMA EnterJoins ==
  ASSUME TypeOK, TicketsIssued, NEW t \in Threads, Enter(t),
         phase' = [phase EXCEPT ![t] = "asleep"],
         ticket' = [ticket EXCEPT ![t] = sequence + 1]
  PROVE  Pool!Join(t)
  <1>1. phase[t] = "idle" /\ limit' = limit
    BY DEF Enter
  <1>2. t \notin Waiting /\ t \notin Holders /\ Waiting' = Waiting \cup {t} /\ Holders' = Holders
    BY <1>1 DEF TypeOK, Waiting, Holders
  <1>3. /\ DOMAIN Ahead = Waiting
        /\ \A d \in Waiting : Ahead[d] = {u \in Waiting \ {d} : Before(u, ticket[u], d)}
    BY DEF Ahead
  <1>4. \A u \in Waiting : ticket'[u] = ticket[u]
    BY <1>2 DEF TypeOK, Waiting
  <1>5. ticket'[t] = sequence + 1
    BY DEF TypeOK
  <1> DEFINE New(d) == {u \in (Waiting \cup {t}) \ {d} : Before(u, ticket[u], d)'}
  <1>6. Ahead' = [d \in Waiting \cup {t} |-> New(d)]
    BY <1>2 DEF Ahead
  <1>7. New(t) = Pool!InFrontOf(t)
    <2>1. ASSUME NEW u \in Waiting
          PROVE  Before(u, ticket[u], t)' <=> u \in Interactive \/ t \notin Interactive
      <3>1. Before(u, ticket[u], t)' <=> \/ Priority(u) < Priority(t)
                                         \/ Priority(u) = Priority(t) /\ ticket[u] < sequence + 1
        BY <1>4, <1>5 DEF Before, Priority
      <3>2. ticket[u] < sequence + 1
        BY LimiterAssumption DEF TypeOK, Waiting, TicketsIssued
      <3> QED
        BY <3>1, <3>2, NewcomerOrder
    <2> QED
      BY <1>2, <1>3, <2>1 DEF Pool!InFrontOf
  <1>8. ASSUME NEW d \in Waiting
        PROVE  New(d) = IF d \in Pool!InFrontOf(t) THEN Ahead[d] ELSE Ahead[d] \cup {t}
    <2>1. ASSUME NEW u \in Waiting
          PROVE  Before(u, ticket[u], d)' <=> Before(u, ticket[u], d)
      BY <1>4 DEF Before, Priority
    <2>2. Before(t, ticket[t], d)' <=> t \in Interactive /\ d \notin Interactive
      <3>1. Before(t, ticket[t], d)' <=> Before(t, sequence + 1, d)
        BY <1>4, <1>5 DEF Before, Priority
      <3> QED
        BY <3>1, NewcomerOrder
    <2>3. d \in Pool!InFrontOf(t) <=> d \in Interactive \/ t \notin Interactive
      BY <1>3 DEF Pool!InFrontOf
    <2>4. Ahead[d] = {u \in Waiting \ {d} : Before(u, ticket[u], d)}
      BY <1>3
    <2>5. New(d) = Ahead[d] \cup {u \in {t} : Before(u, ticket[u], d)'}
      BY <1>2, <2>1, <2>4
    <2> QED
      BY <2>2, <2>3, <2>5
  <1>9. Ahead' = [d \in DOMAIN Ahead \cup {t} |->
                    CASE d = t                               -> Pool!InFrontOf(t)
                      [] d # t /\ d \in Pool!InFrontOf(t)    -> Ahead[d]
                      [] d # t /\ d \notin Pool!InFrontOf(t) -> Ahead[d] \cup {t}]
    <2> HIDE DEF New
    <2> QED
      BY <1>2, <1>3, <1>6, <1>7, <1>8
  <1> QED
    BY <1>1, <1>2, <1>3, <1>9 DEF Pool!Join, Pool!InLine

\* A woken thread whose turn it is takes a slot with nobody in front.
LEMMA AdmitTakes ==
  ASSUME TypeOK, SlotAccounting, NEW t \in Threads, Admit(t)
  PROVE  Pool!Take(t)
  <1>1. phase[t] = "awake" /\ TakeSlot(t) /\ limit' = limit
    BY DEF Admit
  <1>2. t \in Waiting /\ t \notin Holders /\ Waiting' = Waiting \ {t} /\ Holders' = Holders \cup {t}
    BY <1>1 DEF TypeOK, Waiting, Holders, TakeSlot
  <1>3. Ahead[t] = {}
    BY <1>2, SelectedIsNext DEF Admit, Admissible
  <1>4. Pool!IsNext(t)
    BY <1>2, <1>3 DEF Pool!IsNext, Pool!InLine, Ahead
  <1>5. Pool!Remove(t)
    BY <1>1, <1>2, LeavesOrder DEF TakeSlot
  <1>6. Pool!Cardinality(Holders) < limit
    BY PoolCardinality DEF SlotAccounting, Admit, Admissible
  <1> QED
    BY <1>1, <1>2, <1>4, <1>5, <1>6 DEF Pool!Take

\* A step of the limiter is a step of the pool, or none.
LEMMA StepImplements ==
  ASSUME TypeOK, TypeOK', TicketsIssued, SlotAccounting, [Next]_vars
  PROVE  [Pool!PoolNext]_(Pool!poolVars)
  <1> USE DEF Pool!poolVars
  <1>1. CASE UNCHANGED vars
    <2>1. Waiting' = Waiting /\ ticket' = ticket /\ Holders' = Holders /\ limit' = limit
      BY <1>1 DEF vars, Waiting, Holders
    <2> QED
      BY <2>1, AheadUnchanged
  <1>2. CASE Next
    <2>1. PICK t \in Threads :
            \/ Enter(t) \/ Expire(t)
            \/ Admit(t) \/ BackToSleep(t) \/ GiveUp(t)
            \/ RecordSuccess(t) \/ RecordPressure(t) \/ OtherError(t) \/ Release(t)
      BY <1>2, NextCases
    <2>2. CASE Enter(t)
      <3>1. CASE Admissible(t, sequence + 1) /\ TakeSlot(t)
        BY <2>2, <3>1, EnterTakes DEF Pool!PoolNext
      <3>2. CASE /\ phase' = [phase EXCEPT ![t] = "asleep"]
                 /\ ticket' = [ticket EXCEPT ![t] = sequence + 1]
        BY <2>2, <3>2, EnterJoins DEF Pool!PoolNext
      <3> QED
        BY <2>2, <3>1, <3>2 DEF Enter
    <2>3. CASE Admit(t)
      BY <2>3, AdmitTakes DEF Pool!PoolNext
    <2>4. CASE Expire(t) \/ BackToSleep(t) \/ OtherError(t)
      <3>1. Waiting' = Waiting /\ ticket' = ticket /\ Holders' = Holders /\ limit' = limit
        BY <2>4 DEF TypeOK, Expire, BackToSleep, OtherError, Waiting, Holders
      <3> QED
        BY <3>1, AheadUnchanged
    <2>5. CASE GiveUp(t)
      <3>1. /\ t \in Waiting /\ Waiting' = Waiting \ {t}
            /\ Holders' = Holders /\ limit' = limit
        BY <2>5 DEF TypeOK, GiveUp, NotifyAll, Waiting, Holders
      <3>2. Pool!Remove(t)
        BY <2>5, <3>1, LeavesOrder DEF GiveUp
      <3>3. Pool!Leave(t)
        BY <3>1, <3>2 DEF Pool!Leave, Pool!InLine, Ahead
      <3> QED
        BY <3>3 DEF Pool!PoolNext
    <2>6. CASE RecordSuccess(t) \/ RecordPressure(t)
      <3>1. Waiting' = Waiting /\ ticket' = ticket /\ Holders' = Holders
        BY <2>6 DEF TypeOK, RecordSuccess, RecordPressure, NotifyAll, Waiting, Holders
      <3>2. Ahead' = Ahead
        BY <3>1, AheadUnchanged
      <3>3. limit' \in Minimum..Maximum
        BY DEF TypeOK
      <3> QED
        BY <3>1, <3>2, <3>3 DEF Pool!PoolNext, Pool!Resize
    <2>7. CASE Release(t)
      <3>1. /\ Waiting' = Waiting /\ ticket' = ticket /\ limit' = limit
            /\ t \in Holders /\ Holders' = Holders \ {t}
        BY <2>7 DEF TypeOK, Release, NotifyAll, Waiting, Holders
      <3>2. Ahead' = Ahead
        BY <3>1, AheadUnchanged
      <3> QED
        BY <3>1, <3>2 DEF Pool!PoolNext, Pool!GiveBack
    <2> QED
      BY <2>1, <2>2, <2>3, <2>4, <2>5, <2>6, <2>7
  <1> QED
    BY <1>1, <1>2

LEMMA InitImplements ==
  ASSUME Init
  PROVE  Pool!PoolInit
  <1>1. Waiting = {} /\ Holders = {} /\ limit = Initial
    BY DEF Init, Waiting, Holders
  <1>2. Ahead = [c \in {} |-> {}]
    BY <1>1 DEF Ahead
  <1> QED
    BY <1>1, <1>2, LimiterAssumption DEF Pool!PoolInit

\* The limiter implements the pool, for any callers: without its fairness,
\* ImplementsPriorityPool. Nobody is overtaken by a caller of its own priority
\* or a lower one, and slots are taken one by one below the limit of the moment.
THEOREM LimiterIsPriorityPool == Spec => Pool!PoolSafety
  <1>1. Init => TicketsIssued
    BY DEF Init, TicketsIssued
  <1>2. Init => Pool!PoolInit
    BY InitImplements
  <1>3. /\ TypeOK /\ TypeOK' /\ TicketsIssued /\ SlotAccounting /\ [Next]_vars
        => [Pool!PoolNext]_(Pool!poolVars)
    BY StepImplements
  <1> QED
    BY <1>1, <1>2, <1>3, TypeCorrect, AccountingCorrect, NextTicketsIssued, PTL
       DEF Spec, Pool!PoolSafety
=============================================================================
