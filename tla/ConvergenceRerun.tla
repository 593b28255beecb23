-------------------------- MODULE ConvergenceRerun --------------------------
(***************************************************************************)
(* Which runs of the required check idd-advisory-convergence are worth     *)
(* running again: the plans of rerun-advisory-convergence.mjs (computed by *)
(* --apply and by --refresh-latest) and the budget of ci-wait-policy.mjs.  *)
(*                                                                         *)
(* An instance is one check run: [id, run, found, event, typedBot, actors, *)
(* attempt, status, conclusion, started, reasons, runStatus].  attempt and *)
(* reasons are those of the latest attempt of its workflow run; found is   *)
(* whether that run could be looked up, NoRun the run of a check run whose *)
(* address names none, Nothing a conclusion that is missing.               *)
(***************************************************************************)
EXTENDS Integers, Sequences, FiniteSets

CONSTANTS
  Bots              \* the primary reviewer and the advisory bots, by their logins

NoRun == 0
Nothing == "nothing"
UnknownAttempt == 0

PassConclusions == {"success", "neutral", "skipped"}
PendingStatuses == {"queued", "in_progress", "pending", "waiting", "requested"}
FamilyEvents == {"pull_request", "pull_request_target", "pull_request_review", "pull_request_review_comment"}

\* The reasons of a verdict that only a review of the head can remove.
AwaitingReasons == {"uncovered head", "never reviewed"}

-----------------------------------------------------------------------------
(* The budget of a run.                                                    *)

\* evaluateSiblingWorkflowSweep: the other runs that were created in the window and have
\* ended.
SiblingSweep(runs, current, window) ==
  LET others == {r \in runs : r.id # current /\ r.status = "completed" /\ r.created \in window}
  IN  [allSucceeded |-> others # {} /\ \A r \in others : r.conclusion = "success",
       others       |-> Cardinality(others)]

\* evaluateEvidenceGatedHatch: one more rerun for a failure that was not the code's.
HatchApplies(count, class, sweep) ==
  /\ count = 1
  /\ class \in {"timed_out", "timeout", "cancelled", "canceled"}
  /\ sweep.allSucceeded /\ sweep.others > 0

\* resolveCiRerunDecision
RerunDecision(policy, count, class, sweep) ==
  CASE policy = "hold"                                               -> "policy-hold"
    [] policy # "hold" /\ (count = 0 \/ HatchApplies(count, class, sweep)) -> "rerun"
    [] OTHER                                                         -> "rerun-budget-exhausted"

NoSweep == [allSucceeded |-> FALSE, others |-> 0]

\* resolveInstanceRerunDecision: the attempts that were made are the reruns that were
\* spent.
InstanceDecision(i, policy) ==
  IF i.attempt = UnknownAttempt /\ policy # "hold" THEN "run-attempt-unknown"
  ELSE RerunDecision(policy, i.attempt - 1, Nothing, NoSweep)

-----------------------------------------------------------------------------
(* What an instance is.                                                    *)

IsBotTriggered(i) == i.typedBot \/ i.actors \intersect Bots # {}

IsPending(i) == i.conclusion = Nothing /\ i.status \in PendingStatuses

Resolved(i) == i.run # NoRun /\ i.found

Awaiting(i) == i.reasons \intersect AwaitingReasons # {}

\* covered is whether the primary reviewer's latest review is of the head; a failure for
\* want of one is not worth a rerun before that.
ClassifyInstance(i, covered) ==
  CASE i.conclusion \in PassConclusions      -> "pass"
    [] IsPending(i)                          -> "pending"
    [] i.conclusion = "action_required"      -> "bot-gated-skip"
    [] \/ i.conclusion \notin PassConclusions \union {"action_required"} /\ ~ IsPending(i)
          /\ (~ Resolved(i) \/ i.conclusion = Nothing \/ i.event \notin FamilyEvents)
                                             -> "unresolved"
    [] OTHER -> IF Awaiting(i) /\ ~ covered THEN "awaiting-fresh-review" ELSE "rerun-eligible"

-----------------------------------------------------------------------------
(* The plans.                                                              *)

\* The time at which the first of a run's instances began.
FirstStart(instances, r) ==
  CHOOSE t \in {i.started : i \in {j \in instances : j.run = r}} : \A i \in instances : i.run = r => t <= i.started

Sooner(instances, r, s) ==
  \/ FirstStart(instances, r) < FirstStart(instances, s)
  \/ FirstStart(instances, r) = FirstStart(instances, s) /\ r < s

\* The runs of some instances, by that time, or by the latest time first.
RunsInOrder(instances, oldestFirst) ==
  LET runs   == {i.run : i \in instances}
      places == 1..Cardinality(runs)
      Before(r, s) == IF oldestFirst THEN Sooner(instances, r, s) ELSE Sooner(instances, s, r)
  IN  CHOOSE order \in [places -> runs] : \A j, k \in places : j < k => Before(order[j], order[k])

\* selectRecoveryRefreshCandidates: where runs of bots are stuck, a run that passed may
\* be run again in their place.
RefreshCandidates(instances, covered) ==
  {i \in instances :
     /\ \E j \in instances : ClassifyInstance(j, covered) = "bot-gated-skip"
     /\ ClassifyInstance(i, covered) = "pass" /\ Resolved(i)
     /\ i.event \in FamilyEvents /\ ~ IsBotTriggered(i)}

\* computeRerunPlan: what is worth a rerun, and what is left in its budget.
Eligible(instances, covered) == {i \in instances : ClassifyInstance(i, covered) = "rerun-eligible"}

Rerunning(instances, covered, policy) ==
  {i \in Eligible(instances, covered) : InstanceDecision(i, policy) = "rerun"}

\* Those that failed for want of a review that has come since, where another instance
\* passes: one more rerun beyond the budget.
Recovering(instances, covered, policy) ==
  {i \in Eligible(instances, covered) :
     /\ policy = "rerun-once" /\ Awaiting(i)
     /\ InstanceDecision(i, policy) = "rerun-budget-exhausted"
     /\ \E j \in instances : j.id # i.id /\ j.conclusion \in PassConclusions}

\* What passed is refreshed only while nothing that failed is left to a person and all that
\* is rerun besides was started by bots.
Refreshable(instances, covered, policy) ==
  LET rerunning == Rerunning(instances, covered, policy)
      mayRefresh == /\ Eligible(instances, covered) = rerunning \union Recovering(instances, covered, policy)
                    /\ \A i \in rerunning : IsBotTriggered(i)
  IN  {i \in RefreshCandidates(instances, covered) : mayRefresh}

RerunPlan(instances, covered, policy) ==
  LET rerunning  == Rerunning(instances, covered, policy)
      recovering == Recovering(instances, covered, policy)
      refreshed(wanted) == {i \in Refreshable(instances, covered, policy) : (InstanceDecision(i, policy) = "rerun") = wanted}
  IN  [refresh |-> RunsInOrder(refreshed(TRUE), TRUE),
       plan    |-> RunsInOrder(rerunning, TRUE),
       recover |-> RunsInOrder(recovering, TRUE),
       held    |-> (Eligible(instances, covered) \ (rerunning \union recovering)) \union refreshed(FALSE)]

\* The next rerun of a plan (applyRerunPlan).
NextRerun(plan) == plan.refresh \o plan.plan \o plan.recover

\* computeRefreshLatestPlan: the instances that it may touch.
Usable(instances, policy) ==
  {i \in instances : policy # "hold" /\ Resolved(i) /\ i.event \in FamilyEvents /\ i.conclusion # "action_required"}

\* Under way by the check run's own word or by the workflow run's.
UnderWay(i) == IsPending(i) \/ i.runStatus \in PendingStatuses

\* MUTANT of RefreshPlan: a run that is under way will see to itself.
RefreshPlanWithoutPending(instances, policy) ==
  [pending |-> <<>>, runs |-> RunsInOrder({i \in Usable(instances, policy) : ~ UnderWay(i)}, FALSE)]

\* MUTANT of RefreshPlan: only a verdict can be out of date, and a failure is none.
RefreshPlanOfPassed(instances, policy) ==
  [pending |-> <<>>,
   runs |-> RunsInOrder({i \in Usable(instances, policy) : i.conclusion \in PassConclusions}, FALSE)]

\* Every run there is, those that are under way apart.
RefreshPlan(instances, policy) ==
  LET usable  == Usable(instances, policy)
      pending == {i.run : i \in {j \in usable : UnderWay(j)}}
  IN  [pending |-> RunsInOrder({i \in usable : i.run \in pending}, FALSE),
       runs    |-> RunsInOrder({i \in usable : i.run \notin pending}, FALSE)]
=============================================================================
