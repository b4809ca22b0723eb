--------------------------- MODULE AdaptiveLimiter ---------------------------
(****************************************************************************)
(* AdaptiveLimiter of sqlagent/concurrency.py: the condition variable that  *)
(* every LLM call and every PostgreSQL query of the service passes through. *)
(* A thread waits in a deque of (priority, sequence) pairs until it is the  *)
(* smallest pair and fewer than `limit` calls are in flight; the limit is   *)
(* halved by a pressure error and grows by one after a stable window.       *)
(*                                                                          *)
(* One action is one critical section of `_condition`. A thread that is     *)
(* blocked in wait() is "asleep"; notify_all makes it "awake": it will take *)
(* the lock again, in no particular order, and test the loop condition.     *)
(****************************************************************************)
EXTENDS Integers, FiniteSets

CONSTANTS
  Threads,       \* callers of slot()
  Interactive,   \* those that call with priority 0; the learner's use 10
  Impatient,     \* those that pass a timeout to acquire()
  Minimum, Initial, Maximum, StableWindow,   \* the constructor's arguments
  MaxCalls       \* bound: acquisitions explored, i.e. the value of _sequence

ASSUME LimiterAssumption ==
  /\ Interactive \subseteq Threads /\ Impatient \subseteq Threads
  /\ IsFiniteSet(Threads)
  /\ {Minimum, Initial, Maximum, StableWindow} \subseteq Nat \ {0}
  /\ Minimum <= Initial /\ Initial <= Maximum /\ Maximum <= 12
  /\ MaxCalls \in Nat

VARIABLES
  limit, inFlight, successes, reductions, sequence,   \* the object's counters
  ticket,   \* the sequence number of each thread in _waiters, 0 outside
  phase     \* where each thread is inside slot()

vars == <<limit, inFlight, successes, reductions, sequence, ticket, phase>>

Phases == {"idle", "asleep", "awake", "holding", "releasing"}

Waiting == {t \in Threads : phase[t] \in {"asleep", "awake"}}

Holders == {t \in Threads : phase[t] \in {"holding", "releasing"}}

Priority(t) == IF t \in Interactive THEN 0 ELSE 10

\* The tuple order of (priority, sequence), thread t having sequence number n.
Before(t, n, u) ==
  \/ Priority(t) < Priority(u)
  \/ Priority(t) = Priority(u) /\ n < ticket[u]

\* Mutated form of Selected: newest first among equal priorities.
SelectedLIFO(t, n) ==
  \A u \in Waiting \ {t} : Priority(t) < Priority(u) \/ n > ticket[u]

\* `selected == waiter` for a waiter t with sequence number n.
Selected(t, n) == \A u \in Waiting \ {t} : Before(t, n, u)

\* Mutated form of Admissible: an off-by-one in the comparison with the limit.
AdmissibleOneMore(t, n) == Selected(t, n) /\ inFlight <= limit

Admissible(t, n) == Selected(t, n) /\ inFlight < limit

\* Mutated form of NotifyAll: notify(), which wakes the longest waiter.
NotifyOne(ph) ==
  LET asleep == {t \in Threads : ph[t] = "asleep"}
  IN  [t \in Threads |-> IF t \in asleep /\ \A u \in asleep : ticket[t] <= ticket[u]
                         THEN "awake" ELSE ph[t]]

\* notify_all.
NotifyAll(ph) == [t \in Threads |-> IF ph[t] = "asleep" THEN "awake" ELSE ph[t]]

Init ==
  /\ limit = Initial
  /\ inFlight = 0
  /\ successes = 0
  /\ reductions = 0
  /\ sequence = 0
  /\ ticket = [t \in Threads |-> 0]
  /\ phase = [t \in Threads |-> "idle"]

\* The waiter is removed and the slot taken; nobody is notified.
TakeSlot(t) ==
  /\ inFlight' = inFlight + 1
  /\ phase' = [phase EXCEPT ![t] = "holding"]
  /\ ticket' = [ticket EXCEPT ![t] = 0]

\* acquire() up to its first wait: append the waiter, test, take or sleep.
Enter(t) ==
  /\ phase[t] = "idle"
  /\ sequence < MaxCalls
  /\ sequence' = sequence + 1
  /\ \/ /\ Admissible(t, sequence + 1)
        /\ TakeSlot(t)
     \/ /\ ~Admissible(t, sequence + 1)
        /\ phase' = [phase EXCEPT ![t] = "asleep"]
        /\ ticket' = [ticket EXCEPT ![t] = sequence + 1]
        /\ UNCHANGED inFlight
  /\ UNCHANGED <<limit, successes, reductions>>

\* wait(remaining) returns because the deadline passed.
Expire(t) ==
  /\ t \in Impatient
  /\ phase[t] = "asleep"
  /\ phase' = [phase EXCEPT ![t] = "awake"]
  /\ UNCHANGED <<limit, inFlight, successes, reductions, sequence, ticket>>

\* One more turn of the loop in acquire(): the woken thread takes the slot ...
Admit(t) ==
  /\ phase[t] = "awake"
  /\ Admissible(t, ticket[t])
  /\ TakeSlot(t)
  /\ UNCHANGED <<limit, successes, reductions, sequence>>

\* ... or goes back to sleep ...
BackToSleep(t) ==
  /\ phase[t] = "awake"
  /\ ~Admissible(t, ticket[t])
  /\ phase' = [phase EXCEPT ![t] = "asleep"]
  /\ UNCHANGED <<limit, inFlight, successes, reductions, sequence, ticket>>

\* ... or raises TimeoutError: the except clause removes it and notifies.
GiveUp(t) ==
  /\ t \in Impatient
  /\ phase[t] = "awake"
  /\ ~Admissible(t, ticket[t])
  /\ phase' = NotifyAll([phase EXCEPT ![t] = "idle"])
  /\ ticket' = [ticket EXCEPT ![t] = 0]
  /\ UNCHANGED <<limit, inFlight, successes, reductions, sequence>>

\* Mutated form of RecordSuccess: the stable window is not reset by a growth.
RecordSuccessNoReset(t) ==
  /\ phase[t] = "holding"
  /\ successes' = successes + 1
  /\ limit' = IF successes' >= StableWindow /\ limit < Maximum THEN limit + 1 ELSE limit
  /\ phase' = NotifyAll([phase EXCEPT ![t] = "releasing"])
  /\ UNCHANGED <<inFlight, reductions, sequence, ticket>>

\* The body of slot() returned: record_success().
RecordSuccess(t) ==
  /\ phase[t] = "holding"
  /\ \/ /\ successes + 1 >= StableWindow /\ limit < Maximum
        /\ limit' = limit + 1
        /\ successes' = 0
        /\ phase' = NotifyAll([phase EXCEPT ![t] = "releasing"])
     \/ /\ successes + 1 < StableWindow \/ limit >= Maximum
        /\ successes' = successes + 1
        /\ UNCHANGED limit
        /\ phase' = [phase EXCEPT ![t] = "releasing"]
  /\ UNCHANGED <<inFlight, reductions, sequence, ticket>>

Halved == IF limit \div 2 < Minimum THEN Minimum ELSE limit \div 2

\* The body raised an error that names 429, a timeout or the pool.
RecordPressure(t) ==
  /\ phase[t] = "holding"
  /\ limit' = Halved
  /\ successes' = 0
  /\ reductions' = reductions + 1
  /\ phase' = NotifyAll([phase EXCEPT ![t] = "releasing"])
  /\ UNCHANGED <<inFlight, sequence, ticket>>

\* Mutated form of OtherError: the finally clause does not run.
OtherErrorNoFinally(t) ==
  /\ phase[t] = "holding"
  /\ phase' = [phase EXCEPT ![t] = "idle"]
  /\ UNCHANGED <<limit, inFlight, successes, reductions, sequence, ticket>>

\* The body raised any other error: neither feedback is recorded.
OtherError(t) ==
  /\ phase[t] = "holding"
  /\ phase' = [phase EXCEPT ![t] = "releasing"]
  /\ UNCHANGED <<limit, inFlight, successes, reductions, sequence, ticket>>

\* Mutated form of Release: no notify_all.
ReleaseSilently(t) ==
  /\ phase[t] = "releasing"
  /\ inFlight' = inFlight - 1
  /\ phase' = [phase EXCEPT ![t] = "idle"]
  /\ UNCHANGED <<limit, successes, reductions, sequence, ticket>>

\* The finally clause of slot(), after the feedback: release().
Release(t) ==
  /\ phase[t] = "releasing"
  /\ inFlight > 0
  /\ inFlight' = inFlight - 1
  /\ phase' = NotifyAll([phase EXCEPT ![t] = "idle"])
  /\ UNCHANGED <<limit, successes, reductions, sequence, ticket>>

Wakeup(t) == Admit(t) \/ BackToSleep(t) \/ GiveUp(t)

Finish(t) == RecordSuccess(t) \/ RecordPressure(t) \/ OtherError(t)

Next ==
  \E t \in Threads : Enter(t) \/ Expire(t) \/ Wakeup(t) \/ Finish(t) \/ Release(t)

Spec == Init /\ [][Next]_vars

\* A woken thread gets the lock again, a call ends (every HTTP call and every
\* statement has its own timeout) and the finally clause runs. Nothing makes a
\* caller come back or a deadline pass.
Fairness ==
  \A t \in Threads : WF_vars(Wakeup(t)) /\ WF_vars(Finish(t)) /\ WF_vars(Release(t))

FairSpec == Spec /\ Fairness

----------------------------------------------------------------------------

\* The type invariant: the limit never leaves the constructor's range
\* (record_pressure floors it, record_success stops at the maximum).
TypeOK ==
  /\ limit \in Minimum..Maximum
  /\ inFlight \in Nat /\ successes \in Nat /\ reductions \in Nat
  /\ sequence \in 0..MaxCalls
  /\ ticket \in [Threads -> 0..MaxCalls]
  /\ phase \in [Threads -> Phases]

\* Every path through slot() gives back exactly the slot it took: the counter
\* always equals the number of threads between acquire() and release(), so
\* release() never raises "released without acquire" and no slot leaks.
SlotAccounting == inFlight = Cardinality(Holders)

\* No lost wakeup: while nothing is in flight the waiter whose turn it is never
\* sleeps. acquire() itself notifies nobody when it takes a slot, so this rests
\* on release(), the growth of the limit and the except clause of acquire().
NoSleepingHead ==
  \A t \in Threads :
    phase[t] = "asleep" /\ Selected(t, ticket[t]) => inFlight > 0

\* More calls than the limit are in flight only in the wake of a reduction
\* (the calls already admitted are never cancelled).
OverLimitOnlyAfterPressure == inFlight > limit => reductions > 0

\* Growth is earned: the limit rises above its initial value only by
\* StableWindow finished calls for each step, whatever reductions interleave.
GrowthEarned ==
  StableWindow * (limit - Initial) + successes
    <= sequence - Cardinality(Waiting) - Cardinality({t \in Threads : phase[t] = "holding"})

\* An interactive caller that waits is served, or gives up.
InteractiveServed ==
  \A t \in Interactive : phase[t] \in {"asleep", "awake"} ~> phase[t] \notin {"asleep", "awake"}

----------------------------------------------------------------------------

\* The limiter as a PriorityPool: who waits in front of a thread is who comes
\* before it in the order of the deque's minimum.
Ahead == [t \in Waiting |-> {u \in Waiting \ {t} : Before(u, ticket[u], t)}]

Pool == INSTANCE PriorityPool WITH
  Clients <- Threads, Fast <- Interactive,
  MinCapacity <- Minimum, MaxCapacity <- Maximum,
  capacity <- limit, owners <- Holders, ahead <- Ahead

\* The condition variable, the tickets and the wakeups implement PriorityPool,
\* its fairness included: a free slot is never withheld for good, and nobody
\* overtakes inside a priority or across priorities.
ImplementsPriorityPool == Pool!PoolSpec
=============================================================================
