------------------------------ MODULE Promotion ------------------------------
(****************************************************************************)
(* promote_candidate (sqlagent/evaluator/engine.py) run by several callers  *)
(* at once: the learner's handler and /api/promote (sqlagent/web.py) and    *)
(* `sqlagent promote`, while surveys, explorations and learned templates    *)
(* commit to main without taking the promotion lock.                        *)
(*                                                                          *)
(* A commit is abstracted to the set of the changes it contains, so equal   *)
(* sets stand for equal trees; a branch that does not exist is the empty    *)
(* set. An evaluation is one step with a free outcome, as the model under   *)
(* evaluation is not deterministic.                                         *)
(****************************************************************************)
EXTENDS Integers

CONSTANTS
  Promoters,    \* threads and processes that promote
  Learners,     \* those that build a candidate and promote it for its target
  Candidates,   \* evolution/* branches, each named for the change it adds
  Edits,        \* commits made to main by anything else
  Nobody,
  MaxRuns       \* bound: promotions started by each promoter

ASSUME PromotionAssumption ==
  /\ Learners \subseteq Promoters /\ Nobody \notin Promoters
  /\ Candidates \cap Edits = {}
  /\ Candidates # {}
  /\ MaxRuns \in Nat

VARIABLES
  main,       \* the changes in main
  tip,        \* the changes in each candidate branch, {} before it exists
  holder,     \* who holds sqlagent-promotion.lock
  pc, cand,   \* each promoter: where it is, and the candidate it promotes
  baseline, candidate,   \* baseline_sha and candidate_sha
  report,     \* the last evaluation: what was compared and how it came out
  gate,       \* gate["passed"]
  again,      \* gate["reevaluated_after_rebase"]
  promoted,   \* history: promotions merged, in terms of the last evaluation
  seen,       \* history: `promoted` when baseline_sha was read
  runs

shared == <<main, tip>>
locals == <<baseline, candidate, report, gate, again, seen>>
vars == <<shared, holder, pc, cand, locals, promoted, runs>>

Changes == Candidates \cup Edits

Reports == [baseline : SUBSET Changes, candidate : SUBSET Changes,
            rescued : BOOLEAN, clean : BOOLEAN]

Promotions == [by : Promoters, branch : Candidates, report : Reports]

NoReport == [baseline |-> {}, candidate |-> {}, rescued |-> FALSE, clean |-> FALSE]

Init ==
  /\ main = {}
  /\ tip = [c \in Candidates |-> {}]
  /\ holder = Nobody
  /\ pc = [p \in Promoters |-> "idle"]
  /\ cand \in [Promoters -> {CHOOSE c \in Candidates : TRUE}]
  /\ baseline = [p \in Promoters |-> {}]
  /\ candidate = [p \in Promoters |-> {}]
  /\ report = [p \in Promoters |-> NoReport]
  /\ gate = [p \in Promoters |-> FALSE]
  /\ again = [p \in Promoters |-> FALSE]
  /\ promoted = {}
  /\ seen = [p \in Promoters |-> {}]
  /\ runs = [p \in Promoters |-> 0]

Goto(p, label) == pc' = [pc EXCEPT ![p] = label]

\* workspace.commit on the live checkout: no lock is taken.
Commit(e) ==
  /\ e \notin main
  /\ main' = main \cup {e}
  /\ UNCHANGED <<tip, holder, pc, cand, locals, promoted, runs>>

\* create_candidate_worktree from main, and the commit of the mutation.
CreateBranch(c) ==
  /\ tip[c] = {}
  /\ tip' = [tip EXCEPT ![c] = main \cup {c}]
  /\ UNCHANGED main

\* /api/evolve, /api/optimize or `sqlagent evolve`.
Evolve(c) ==
  /\ CreateBranch(c)
  /\ UNCHANGED <<holder, pc, cand, locals, promoted, runs>>

Begin(p, c) ==
  /\ pc[p] = "idle" /\ runs[p] < MaxRuns
  /\ runs' = [runs EXCEPT ![p] = @ + 1]
  /\ cand' = [cand EXCEPT ![p] = c]
  /\ Goto(p, "starting")
  /\ UNCHANGED <<holder, locals, promoted>>

\* The learner's handler promotes the candidate it has just built.
Learn(p, c) == p \in Learners /\ Begin(p, c) /\ CreateBranch(c)

\* latest_candidate_branch (a branch not merged into main), or `--branch`.
Pick(p, c) ==
  /\ p \notin Learners
  /\ tip[c] # {} /\ ~(tip[c] \subseteq main)
  /\ Begin(p, c)
  /\ UNCHANGED shared

\* baseline_sha and candidate_sha.
Start(p) ==
  /\ pc[p] = "starting"
  /\ baseline' = [baseline EXCEPT ![p] = main]
  /\ candidate' = [candidate EXCEPT ![p] = tip[cand[p]]]
  /\ seen' = [seen EXCEPT ![p] = promoted]
  /\ again' = [again EXCEPT ![p] = FALSE]
  /\ Goto(p, "evaluating")
  /\ UNCHANGED <<shared, holder, cand, report, gate, promoted, runs>>

\* Mutated form of Passes: a target that does not rescue the failure passes.
PassesAnyTarget(p, r) == r.clean

\* promotion_gate: no regression, no unsafe or slower answer, and the targets
\* rescued; only the learner names targets.
Passes(p, r) == r.clean /\ (p \in Learners => r.rescued)

\* _evaluate_refs on detached worktrees of the two commits, and the gate.
Evaluate(p) ==
  /\ \E resc, clean \in BOOLEAN :
       report' = [report EXCEPT ![p] =
                    [baseline |-> baseline[p], candidate |-> candidate[p],
                     rescued |-> resc, clean |-> clean]]
  /\ gate' = [gate EXCEPT ![p] = Passes(p, report'[p])]
  /\ UNCHANGED <<shared, holder, cand, baseline, candidate, seen, promoted, runs>>

FirstEvaluation(p) ==
  pc[p] = "evaluating" /\ Evaluate(p) /\ Goto(p, "locking") /\ UNCHANGED again

\* Mutated form of Lock: the lock is shared.
LockShared(p) ==
  /\ pc[p] = "locking"
  /\ holder' = p
  /\ Goto(p, "checking")
  /\ UNCHANGED <<shared, cand, locals, promoted, runs>>

\* flock(LOCK_EX): returns when nobody else holds it.
Lock(p) ==
  /\ pc[p] = "locking"
  /\ holder = Nobody
  /\ holder' = p
  /\ Goto(p, "checking")
  /\ UNCHANGED <<shared, cand, locals, promoted, runs>>

\* Mutated form of CheckMain: the first evaluation is always taken.
CheckNothing(p) ==
  /\ pc[p] = "checking"
  /\ Goto(p, "deciding")
  /\ UNCHANGED <<shared, holder, cand, locals, promoted, runs>>

\* Has main moved since baseline_sha was read? The new value becomes the baseline.
CheckMain(p) ==
  /\ pc[p] = "checking"
  /\ \/ /\ main = baseline[p]
        /\ Goto(p, "deciding")
        /\ UNCHANGED <<baseline, seen>>
     \/ /\ main # baseline[p]
        /\ baseline' = [baseline EXCEPT ![p] = main]
        /\ seen' = [seen EXCEPT ![p] = promoted]
        /\ Goto(p, "rebasing")
  /\ UNCHANGED <<shared, holder, cand, candidate, report, gate, again, promoted, runs>>

\* Mutated form of Rebase: candidate_sha stays what it was.
RebaseOldSha(p) ==
  /\ pc[p] = "rebasing"
  /\ tip' = [tip EXCEPT ![cand[p]] = @ \cup main]
  /\ Goto(p, "reevaluating")
  /\ UNCHANGED <<main, holder, cand, locals, promoted, runs>>

\* `git rebase main` in a worktree of the branch; candidate_sha is read again.
Rebase(p) ==
  /\ pc[p] = "rebasing"
  /\ tip' = [tip EXCEPT ![cand[p]] = @ \cup main]
  /\ candidate' = [candidate EXCEPT ![p] = tip'[cand[p]]]
  /\ Goto(p, "reevaluating")
  /\ UNCHANGED <<main, holder, cand, baseline, report, gate, again, seen, promoted, runs>>

\* Mutated form of Reevaluate: the gate of the first evaluation is kept.
ReevaluateOldGate(p) ==
  /\ pc[p] = "reevaluating"
  /\ \E resc, clean \in BOOLEAN :
       report' = [report EXCEPT ![p] =
                    [baseline |-> baseline[p], candidate |-> candidate[p],
                     rescued |-> resc, clean |-> clean]]
  /\ again' = [again EXCEPT ![p] = TRUE]
  /\ Goto(p, "deciding")
  /\ UNCHANGED <<shared, holder, cand, baseline, candidate, gate, seen, promoted, runs>>

\* "Repeat the entire immutable gate", still under the lock.
Reevaluate(p) ==
  /\ pc[p] = "reevaluating"
  /\ Evaluate(p)
  /\ again' = [again EXCEPT ![p] = TRUE]
  /\ Goto(p, "deciding")

Released(p) == IF holder = p THEN Nobody ELSE holder

\* The gate passed: merge the branch, by its name ...
Merge(p) ==
  /\ pc[p] = "deciding" /\ gate[p]
  /\ main' = main \cup tip[cand[p]]
  /\ promoted' = IF main' = main THEN promoted
                 ELSE promoted \cup {[by |-> p, branch |-> cand[p], report |-> report[p]]}
  /\ Goto(p, "tagging")
  /\ UNCHANGED <<tip, holder, cand, locals, runs>>

\* ... tag it and leave the lock. The learner goes on to write provenance
\* records, for the others this is the end; nothing here reads a record.
Tag(p) ==
  /\ pc[p] = "tagging"
  /\ holder' = Released(p)
  /\ Goto(p, "idle")
  /\ UNCHANGED <<shared, cand, locals, promoted, runs>>

\* The gate did not pass.
Reject(p) ==
  /\ pc[p] = "deciding" /\ ~gate[p]
  /\ holder' = Released(p)
  /\ Goto(p, "idle")
  /\ UNCHANGED <<shared, cand, locals, promoted, runs>>

\* Mutated form of Raise: the lock is not released on the way out.
RaiseHolding(p) ==
  /\ pc[p] # "idle"
  /\ Goto(p, "idle")
  /\ UNCHANGED <<shared, holder, cand, locals, promoted, runs>>

\* git, the database, the evaluator or a write raises: a rebase or a merge in
\* conflict, a mutating evaluation, a worktree that exists. The finally clause
\* of promotion_lock runs; if the process is killed, the kernel drops its flock.
Raise(p) ==
  /\ pc[p] # "idle"
  /\ holder' = Released(p)
  /\ Goto(p, "idle")
  /\ UNCHANGED <<shared, cand, locals, promoted, runs>>

Step(p) ==
  \/ Start(p) \/ FirstEvaluation(p) \/ CheckMain(p) \/ Rebase(p) \/ Reevaluate(p)
  \/ Merge(p) \/ Tag(p) \/ Reject(p)

Next ==
  \/ \E e \in Edits : Commit(e)
  \/ \E c \in Candidates : Evolve(c) \/ \E p \in Promoters : Learn(p, c) \/ Pick(p, c)
  \/ \E p \in Promoters : Step(p) \/ Lock(p) \/ Raise(p)

Spec == Init /\ [][Next]_vars

\* A promoter goes on (git commands are assumed to end) and gets a lock that is
\* released again and again.
FairSpec ==
  /\ Spec
  /\ \A p \in Promoters : WF_vars(Step(p)) /\ SF_vars(Lock(p))

----------------------------------------------------------------------------

Labels == {"idle", "starting", "evaluating", "locking", "checking", "rebasing",
           "reevaluating", "deciding", "tagging"}

Inside(p) == pc[p] \in {"checking", "rebasing", "reevaluating", "deciding", "tagging"}

\* The type invariant; whoever is inside the lock holds it.
TypeOK ==
  /\ main \in SUBSET Changes
  /\ tip \in [Candidates -> SUBSET Changes]
  /\ holder \in Promoters \cup {Nobody}
  /\ pc \in [Promoters -> Labels]
  /\ cand \in [Promoters -> Candidates]
  /\ baseline \in [Promoters -> SUBSET Changes]
  /\ candidate \in [Promoters -> SUBSET Changes]
  /\ report \in [Promoters -> Reports]
  /\ gate \in [Promoters -> BOOLEAN] /\ again \in [Promoters -> BOOLEAN]
  /\ promoted \subseteq Promotions /\ seen \in [Promoters -> SUBSET Promotions]
  /\ runs \in [Promoters -> 0..MaxRuns]
  /\ \A p \in Promoters : Inside(p) <=> holder = p

\* Promotions are serialized: whoever decides has compared with a main that
\* contains every promotion so far, also when it evaluated outside the lock.
NoPromotionMissed ==
  \A p \in Promoters : pc[p] = "deciding" => seen[p] = promoted

\* After the rebase the gate is about the very tree that the merge will make,
\* unless main moved once more while the lock was held.
RebasedIsWhatIsMerged ==
  \A p \in Promoters :
    pc[p] = "deciding" /\ again[p] =>
      /\ baseline[p] \subseteq report[p].candidate
      /\ main = baseline[p] => main \cup tip[cand[p]] = report[p].candidate

\* Whatever was merged passed the last evaluation made of it, a failure of the
\* learner's target included, not an earlier one.
PromotedPassedItsLastGate ==
  \A e \in promoted : e.report.clean /\ (e.by \in Learners => e.report.rescued)

\* Promotions form a line, though their evaluations overlap: of any two one was
\* evaluated against a main that has the candidate of the other.
PromotionsAreOrdered ==
  \A e, f \in promoted :
    e # f => e.branch \in f.report.baseline \/ f.branch \in e.report.baseline

\* Every promotion ends, also for whoever waits behind one that raises.
PromotionEnds == \A p \in Promoters : pc[p] # "idle" ~> pc[p] = "idle"
=============================================================================
