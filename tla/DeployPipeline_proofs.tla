----------------------- MODULE DeployPipeline_proofs -----------------------
(***************************************************************************)
(* Proofs about the deployment for any number of calendars, any text the   *)
(* calendars may hold and any bounds.  The inductive invariant adds to the *)
(* typing the order of the commits, the order of what was fetched and the  *)
(* progress of the fetch: the site does not go back because nothing that   *)
(* waits, runs or was fetched is older than the site.                      *)
(***************************************************************************)
EXTENDS DeployPipeline, TLAPS

IInv ==
    /\ TypeOK
    /\ CommitOrder
    /\ FetchOrder
    /\ FetchComplete
    /\ VerdictIsCurrent

(* The first run of a queue is removed: the others keep their order. *)
LEMMA TailFacts ==
    ASSUME NEW S, NEW q \in Seq(S), q # <<>>
    PROVE  /\ Head(q) = q[1] /\ Head(q) \in S
           /\ Tail(q) \in Seq(S)
           /\ Len(Tail(q)) = Len(q) - 1
           /\ \A i \in 1 .. Len(Tail(q)) : Tail(q)[i] = q[i + 1]
           /\ 1 \in 1 .. Len(q)
  OBVIOUS

(* A run is added at the end. *)
LEMMA AppendFacts ==
    ASSUME NEW S, NEW q \in Seq(S), NEW x \in S
    PROVE  /\ Append(q, x) \in Seq(S)
           /\ Len(Append(q, x)) = Len(q) + 1
           /\ \A i \in 1 .. Len(q) : Append(q, x)[i] = q[i]
           /\ Append(q, x)[Len(q) + 1] = x
  OBVIOUS

(* The first state satisfies the inductive invariant. *)
LEMMA InitIInv == Init => IInv
<1> SUFFICES ASSUME Init PROVE IInv
  OBVIOUS
<1> USE NumTypesAssumption DEF Init
<1>1. TypeOK
  BY DEF TypeOK, NothingSeen, NewFetch, Versions, Types, RunType, Events,
         Phases, DetectPhases, DeployPhases, FetchType, Verdicts, SiteType
<1>2. CommitOrder
  BY DEF CommitOrder
<1>3. FetchOrder
  BY DEF FetchOrder, NothingSeen, NewFetch, Types
<1>4. FetchComplete /\ VerdictIsCurrent
  BY DEF FetchComplete, VerdictIsCurrent
<1> QED
  BY <1>1, <1>2, <1>3, <1>4 DEF IInv

(* A step that moves only the run's phase and verdict keeps what is said   *)
(* about the order of the commits and of what was fetched.                 *)
LEMMA PhaseStep ==
    ASSUME IInv,
           UNCHANGED <<envVars, queue, run, fetch, live>>,
           phase' \in Phases, verdict' \in Verdicts
    PROVE  TypeOK' /\ CommitOrder' /\ FetchOrder'
<1>1. TypeOK'
  BY DEF IInv, TypeOK, envVars
<1>2. CommitOrder'
  BY DEF IInv, CommitOrder, envVars
<1>3. FetchOrder'
  BY DEF IInv, FetchOrder, envVars
<1> QED
  BY <1>1, <1>2, <1>3

(* The world moves on: calendars are edited and midnight passes. *)
LEMMA WorldIInv == IInv /\ World => IInv'
<1> SUFFICES ASSUME IInv, World PROVE IInv'
  OBVIOUS
<1>1. CASE Midnight
  <2> USE <1>1 DEF Midnight, IInv
  <2>1. TypeOK'
    BY DEF TypeOK
  <2>2. CommitOrder'
    BY DEF CommitOrder
  <2>3. FetchOrder'
    BY DEF FetchOrder, TypeOK, FetchType
  <2>4. FetchComplete' /\ VerdictIsCurrent'
    BY DEF FetchComplete, VerdictIsCurrent, DataText
  <2> QED
    BY <2>1, <2>2, <2>3, <2>4
<1>2. ASSUME NEW t \in Types, EditCalendar(t) PROVE IInv'
  <2> USE <1>2 DEF EditCalendar, IInv
  <2>1. TypeOK'
    BY DEF TypeOK, Versions
  <2>2. CommitOrder'
    BY DEF CommitOrder
  <2>3. \A u \in Types : edits[u] \in Nat /\ edits[u] <= edits'[u]
    BY DEF TypeOK, Versions
  <2>4. \A u \in Types : live.seen[u] \in Nat /\ fetch.seen[u] \in Nat
    BY DEF TypeOK, SiteType, FetchType, Versions
  <2>5. 1 .. fetch.done \subseteq Types
    BY NumTypesAssumption DEF TypeOK, FetchType, Types
  <2>6. \A u \in Types : edits'[u] \in Nat
    BY <2>1 DEF TypeOK, Versions
  <2>7. FetchOrder'
    <3>1. \A u \in Types : live.seen[u] <= edits'[u]
      BY <2>3, <2>4, <2>6 DEF FetchOrder
    <3>2. \A u \in 1 .. fetch.done : fetch.seen[u] <= edits'[u]
      BY <2>3, <2>4, <2>5, <2>6 DEF FetchOrder
    <3> QED
      BY <3>1, <3>2 DEF FetchOrder
  <2>8. FetchComplete' /\ VerdictIsCurrent'
    BY DEF FetchComplete, VerdictIsCurrent, DataText
  <2> QED
    BY <2>1, <2>2, <2>7, <2>8
<1> QED
  BY <1>1, <1>2 DEF World

(* The runs in the queue carry commits. *)
LEMMA QueuedCommits ==
    ASSUME TypeOK
    PROVE  /\ Len(queue) \in Nat
           /\ \A i \in 1 .. Len(queue) : queue[i].sha \in Nat
<1>1. queue \in Seq(RunType)
  BY DEF TypeOK
<1>2. Len(queue) \in Nat /\ \A i \in 1 .. Len(queue) : queue[i] \in RunType
  BY <1>1
<1>3. \A r \in RunType : r.sha \in Nat
  BY DEF RunType
<1> QED
  BY <1>2, <1>3

(* A run that joins the queue carries the newest commit of main. *)
LEMMA EnqueueOrder ==
    ASSUME IInv, NEW event \in Events, head' \in Nat, head <= head',
           Enqueue(event, head'), UNCHANGED <<run, live>>
    PROVE  queue' \in Seq(RunType) /\ CommitOrder'
<1> DEFINE new == [event |-> event, sha |-> head']
<1>1. new \in RunType /\ queue \in Seq(RunType) /\ queue' = Append(queue, new)
  BY DEF Enqueue, RunType, IInv, TypeOK
<1> HIDE DEF new
<1>2. /\ queue' \in Seq(RunType)
      /\ Len(queue') = Len(queue) + 1
      /\ \A i \in 1 .. Len(queue) : queue'[i] = queue[i]
      /\ queue'[Len(queue) + 1] = new
  BY <1>1, AppendFacts
<1>3. /\ \A i \in 1 .. Len(queue) : queue[i].sha \in Nat
      /\ run.sha \in Nat /\ head \in Nat /\ Len(queue) \in Nat
  BY QueuedCommits DEF IInv, TypeOK, RunType
<1>4. new.sha = head'
  BY DEF new
<1>5. \A i \in 1 .. Len(queue') : i \in 1 .. Len(queue) \/ i = Len(queue) + 1
  BY <1>2, <1>3
<1>6. \A i \in 1 .. Len(queue') : run.sha <= queue'[i].sha /\ queue'[i].sha <= head'
  BY <1>2, <1>3, <1>4, <1>5 DEF IInv, CommitOrder
<1>7. \A i, j \in 1 .. Len(queue') : i <= j => queue'[i].sha <= queue'[j].sha
  BY <1>2, <1>3, <1>4, <1>5, <1>6 DEF IInv, CommitOrder
<1>8. run.sha <= head'
  BY <1>3 DEF IInv, CommitOrder
<1> QED
  BY <1>2, <1>6, <1>7, <1>8 DEF IInv, CommitOrder

(* An event of GitHub adds a run to the queue and touches nothing else. *)
LEMMA TriggerIInv == IInv /\ Trigger => IInv'
<1> SUFFICES ASSUME IInv, Trigger PROVE IInv'
  OBVIOUS
<1>1. PICK event \in Events : Enqueue(event, head')
  BY DEF Trigger, Push, CronFires, Dispatch, Events, envVars
<1>2. /\ UNCHANGED <<today, edits, run, phase, fetch, verdict, live>>
      /\ head' \in Nat /\ head <= head'
  BY DEF Trigger, Push, CronFires, Dispatch, IInv, TypeOK, envVars
<1>3. queue' \in Seq(RunType) /\ CommitOrder'
  BY <1>1, <1>2, EnqueueOrder
<1>4. TypeOK'
  BY <1>2, <1>3 DEF IInv, TypeOK
<1>5. FetchOrder' /\ FetchComplete' /\ VerdictIsCurrent'
  BY <1>2 DEF IInv, FetchOrder, FetchComplete, VerdictIsCurrent, DataText
<1> QED
  BY <1>3, <1>4, <1>5 DEF IInv

(* The next run is the one that waited longest. *)
LEMMA StartRunIInv == IInv /\ StartRun => IInv'
<1> SUFFICES ASSUME IInv, StartRun PROVE IInv'
  OBVIOUS
<1> USE DEF StartRun, envVars
<1>1. queue \in Seq(RunType) /\ queue # <<>>
  BY DEF IInv, TypeOK
<1>2. /\ run' = queue[1] /\ run' \in RunType
      /\ queue' \in Seq(RunType)
      /\ Len(queue') = Len(queue) - 1
      /\ \A i \in 1 .. Len(queue') : queue'[i] = queue[i + 1]
      /\ 1 \in 1 .. Len(queue)
  BY <1>1, TailFacts
<1>3. TypeOK'
  BY <1>2 DEF IInv, TypeOK, Phases, DetectPhases, Verdicts
<1>4. CommitOrder'
  <2>1. Len(queue) \in Nat /\ \A i \in 1 .. Len(queue) : queue[i].sha \in Nat
    BY QueuedCommits DEF IInv
  <2>2. \A i \in 1 .. Len(queue') : i \in Nat /\ i + 1 \in 1 .. Len(queue) /\ 1 <= i + 1
    BY <1>2, <2>1
  <2>3. live.sha <= run'.sha /\ run'.sha <= head
    <3>1. live.sha \in Nat /\ run.sha \in Nat
      BY DEF IInv, TypeOK, SiteType, RunType
    <3> QED
      BY <1>2, <2>1, <3>1 DEF IInv, CommitOrder
  <2>4. \A i \in 1 .. Len(queue') : run'.sha <= queue'[i].sha /\ queue'[i].sha <= head
    BY <1>2, <2>2 DEF IInv, CommitOrder
  <2>5. \A i, j \in 1 .. Len(queue') : i <= j => queue'[i].sha <= queue'[j].sha
    BY <1>2, <2>2 DEF IInv, CommitOrder
  <2> QED
    BY <2>3, <2>4, <2>5 DEF CommitOrder
<1>5. FetchOrder'
  BY DEF IInv, FetchOrder
<1>6. FetchComplete' /\ VerdictIsCurrent'
  BY DEF FetchComplete, VerdictIsCurrent
<1> QED
  BY <1>3, <1>4, <1>5, <1>6 DEF IInv

(* A fetch begins with the week of the current day and nothing read. *)
LEMMA NewFetchFacts ==
    ASSUME IInv, fetch' = NewFetch,
           UNCHANGED <<envVars, queue, run, verdict, live>>,
           phase' \in {"detectFetch", "prebuildFetch"}
    PROVE  IInv'
<1> USE NumTypesAssumption DEF IInv, envVars
<1>1. TypeOK'
  BY DEF TypeOK, FetchType, NewFetch, NothingSeen, Versions, Types, Phases,
         DetectPhases, DeployPhases
<1>2. CommitOrder'
  BY DEF CommitOrder
<1>3. FetchOrder'
  <2>1. live.day \in Nat /\ fetch.day \in Nat /\ today \in Nat
    BY DEF TypeOK, SiteType, FetchType
  <2>2. fetch'.day = today /\ fetch'.done = 0
    BY DEF NewFetch
  <2> QED
    BY <2>1, <2>2 DEF FetchOrder
<1>4. FetchComplete' /\ VerdictIsCurrent'
  BY DEF FetchComplete, VerdictIsCurrent, NewFetch
<1> QED
  BY <1>1, <1>2, <1>3, <1>4

(* One calendar request: what it reads is the newest edit, so it cannot be *)
(* older than what the site shows of that calendar.                        *)
LEMMA FetchCalendarIInv == IInv /\ FetchCalendar => IInv'
<1> SUFFICES ASSUME IInv, FetchCalendar PROVE IInv'
  OBVIOUS
<1> DEFINE t == fetch.done + 1
<1>1. /\ fetch' = [fetch EXCEPT !.seen[t] = edits[t], !.done = t]
      /\ phase' \in {phase, "detectLive", "build"}
      /\ t < NumTypes => phase' = phase
      /\ ~(t < NumTypes) => phase' \in {"detectLive", "build"}
      /\ phase \in {"detectFetch", "prebuildFetch"}
      /\ UNCHANGED <<head, today, edits, queue, run, verdict, live>>
  BY DEF FetchCalendar, AfterRequest, envVars
<1>2. fetch.done \in 0 .. NumTypes /\ fetch.done < NumTypes /\ NumTypes \in Nat
  BY <1>1, NumTypesAssumption DEF IInv, TypeOK, FetchType, FetchComplete
<1>3. t \in Types /\ t \in 0 .. NumTypes
  BY <1>2 DEF Types
<1>4. /\ fetch.day \in Nat /\ fetch.seen \in Versions /\ edits \in Versions
      /\ fetch = [day |-> fetch.day, seen |-> fetch.seen, done |-> fetch.done]
  BY DEF IInv, TypeOK, FetchType
<1>5. /\ fetch'.day = fetch.day /\ fetch'.done = t
      /\ fetch'.seen = [fetch.seen EXCEPT ![t] = edits[t]]
      /\ fetch' = [day |-> fetch'.day, seen |-> fetch'.seen, done |-> fetch'.done]
  BY <1>1, <1>4
<1>6. fetch'.seen \in Versions
  BY <1>3, <1>4, <1>5 DEF Versions
<1>7. TypeOK'
  <2>1. fetch' \in FetchType
    BY <1>3, <1>4, <1>5, <1>6 DEF FetchType
  <2>2. phase' \in Phases
    BY <1>1 DEF Phases, DetectPhases, DeployPhases
  <2> QED
    BY <1>1, <2>1, <2>2 DEF IInv, TypeOK
<1>8. CommitOrder'
  BY <1>1 DEF IInv, CommitOrder
<1>9. FetchOrder'
  <2>1. \A u \in 1 .. t : u \in Types /\ (u = t \/ u \in 1 .. fetch.done)
    BY <1>2 DEF Types
  <2>2. \A u \in 1 .. t : fetch'.seen[u] = IF u = t THEN edits[u] ELSE fetch.seen[u]
    BY <1>4, <1>5, <2>1 DEF Versions
  <2>3. \A u \in 1 .. t : edits[u] \in Nat
    BY <1>4, <2>1 DEF Versions
  <2>4. \A u \in 1 .. t : live.seen[u] <= fetch'.seen[u] /\ fetch'.seen[u] <= edits[u]
    BY <1>3, <2>1, <2>2, <2>3 DEF IInv, FetchOrder
  <2> QED
    BY <1>1, <1>5, <2>4 DEF IInv, FetchOrder
<1>10. FetchComplete'
  BY <1>1, <1>2, <1>5 DEF FetchComplete
<1>11. VerdictIsCurrent'
  BY <1>1 DEF VerdictIsCurrent
<1> QED
  BY <1>7, <1>8, <1>9, <1>10, <1>11 DEF IInv

(* The detect-changes job. *)
LEMMA DetectJobIInv == IInv /\ DetectJob => IInv'
<1> SUFFICES ASSUME IInv, DetectJob PROVE IInv'
  OBVIOUS
<1>1. CASE DetectSetup
  BY <1>1, NewFetchFacts DEF DetectSetup
<1>2. CASE DetectJobFails
  <2> USE <1>2 DEF DetectJobFails
  <2>1. TypeOK' /\ CommitOrder' /\ FetchOrder'
    BY PhaseStep DEF Phases, Verdicts
  <2>2. FetchComplete' /\ VerdictIsCurrent'
    BY DEF FetchComplete, VerdictIsCurrent
  <2> QED
    BY <2>1, <2>2 DEF IInv
<1>3. CASE FetchCalendar
  BY <1>3, FetchCalendarIInv
<1>4. CASE DetectFetchFails
  <2> USE <1>4 DEF DetectFetchFails
  <2>1. TypeOK' /\ CommitOrder' /\ FetchOrder'
    BY PhaseStep DEF Phases, Verdicts
  <2>2. FetchComplete' /\ VerdictIsCurrent'
    BY DEF FetchComplete, VerdictIsCurrent
  <2> QED
    BY <2>1, <2>2 DEF IInv
<1>5. CASE CompareLive
  <2> USE <1>5 DEF CompareLive
  <2>1. TypeOK' /\ CommitOrder' /\ FetchOrder'
    BY PhaseStep DEF Phases, Verdicts
  <2>2. FetchComplete'
    BY DEF FetchComplete
  <2>3. VerdictIsCurrent'
    <3> SUFFICES ASSUME verdict' = "false"
                 PROVE  fetch.done = NumTypes /\ DataText(fetch)' = DataText(live)'
      BY DEF VerdictIsCurrent
    <3>1. ~IsChanged(fetch, live)
      OBVIOUS
    <3>2. DataText(fetch) = DataText(live)
      BY <3>1 DEF IsChanged
    <3> QED
      BY <3>2 DEF IInv, FetchComplete, DataText
  <2> QED
    BY <2>1, <2>2, <2>3 DEF IInv
<1>6. CASE LiveUnreadable
  <2> USE <1>6 DEF LiveUnreadable
  <2>1. TypeOK' /\ CommitOrder' /\ FetchOrder'
    BY PhaseStep DEF Phases, Verdicts
  <2>2. FetchComplete' /\ VerdictIsCurrent'
    BY DEF FetchComplete, VerdictIsCurrent
  <2> QED
    BY <2>1, <2>2 DEF IInv
<1> QED
  BY <1>1, <1>2, <1>3, <1>4, <1>5, <1>6 DEF DetectJob

(* A publication: the site becomes what the run in progress built. *)
LEMMA PublishIInv == IInv /\ Publish => IInv'
<1> SUFFICES ASSUME IInv, Publish PROVE IInv'
  OBVIOUS
<1> USE DEF Publish, envVars
<1>1. fetch.done = NumTypes /\ NumTypes \in Nat
  BY NumTypesAssumption DEF IInv, FetchComplete
<1>2. live'.sha = run.sha /\ live'.day = fetch.day /\ live'.seen = fetch.seen
  OBVIOUS
<1>3. TypeOK'
  BY DEF IInv, TypeOK, SiteType, RunType, FetchType, Phases
<1>4. CommitOrder'
  <2>1. run.sha \in Nat
    BY DEF IInv, TypeOK, RunType
  <2> QED
    BY <1>2, <2>1 DEF IInv, CommitOrder
<1>5. FetchOrder'
  <2>1. fetch.day \in Nat /\ \A t \in Types : fetch.seen[t] \in Nat
    BY DEF IInv, TypeOK, FetchType, Versions
  <2>2. \A t \in Types : fetch.seen[t] <= edits[t]
    BY <1>1 DEF IInv, FetchOrder, Types
  <2> QED
    BY <1>1, <1>2, <2>1, <2>2 DEF IInv, FetchOrder, Types
<1>6. FetchComplete' /\ VerdictIsCurrent'
  BY DEF FetchComplete, VerdictIsCurrent
<1> QED
  BY <1>3, <1>4, <1>5, <1>6 DEF IInv

(* The deploy job, and the run that is cancelled. *)
LEMMA DeployJobIInv == IInv /\ (DeployJob \/ CancelRun) => IInv'
<1> SUFFICES ASSUME IInv, DeployJob \/ CancelRun PROVE IInv'
  OBVIOUS
<1>1. CASE DeploySetup
  BY <1>1, NewFetchFacts DEF DeploySetup
<1>2. CASE Publish
  BY <1>2, PublishIInv
<1>3. CASE BuildSite
  <2> USE <1>3 DEF BuildSite
  <2>1. TypeOK' /\ CommitOrder' /\ FetchOrder'
    BY PhaseStep DEF Phases, DeployPhases, IInv, TypeOK
  <2>2. FetchComplete' /\ VerdictIsCurrent'
    BY DEF FetchComplete, VerdictIsCurrent, IInv
  <2> QED
    BY <2>1, <2>2 DEF IInv
<1>4. CASE StartDeploy \/ SkipDeploy \/ DeployJobFails \/ CancelRun
  <2> USE <1>4 DEF StartDeploy, SkipDeploy, DeployJobFails, CancelRun
  <2>1. TypeOK' /\ CommitOrder' /\ FetchOrder'
    BY PhaseStep DEF Phases, DeployPhases, IInv, TypeOK
  <2>2. FetchComplete' /\ VerdictIsCurrent'
    BY DEF FetchComplete, VerdictIsCurrent
  <2> QED
    BY <2>1, <2>2 DEF IInv
<1> QED
  BY <1>1, <1>2, <1>3, <1>4 DEF DeployJob

LEMMA NextIInv == IInv /\ [Next]_vars => IInv'
<1>1. IInv /\ Next => IInv'
  BY WorldIInv, TriggerIInv, StartRunIInv, DetectJobIInv, DeployJobIInv DEF Next
<1>2. IInv /\ UNCHANGED vars => IInv'
  BY DEF vars, IInv, TypeOK, CommitOrder, FetchOrder, FetchComplete,
         VerdictIsCurrent, DataText
<1> QED
  BY <1>1, <1>2

-----------------------------------------------------------------------------
(***************************************************************************)
(* The deployment keeps its inductive invariant: the typing, the order of  *)
(* the commits, the order of what was fetched, no partial fetch in use and *)
(* no stale verdict.                                                       *)
(***************************************************************************)
THEOREM Invariant == Spec => []IInv
<1> QED
  BY InitIInv, NextIInv, PTL DEF Spec

(***************************************************************************)
(* Type correctness of the deployment.                                     *)
(***************************************************************************)
THEOREM TypeCorrect == Spec => []TypeOK
<1>1. IInv => TypeOK
  BY DEF IInv
<1> QED
  BY <1>1, Invariant, PTL

(***************************************************************************)
(* Runs deploy commits in the order of the pushes.                         *)
(***************************************************************************)
THEOREM CommitsInOrder == Spec => []CommitOrder
<1>1. IInv => CommitOrder
  BY DEF IInv
<1> QED
  BY <1>1, Invariant, PTL

(***************************************************************************)
(* What a run fetched is never older than what the site shows.             *)
(***************************************************************************)
THEOREM FetchesInOrder == Spec => []FetchOrder
<1>1. IInv => FetchOrder
  BY DEF IInv
<1> QED
  BY <1>1, Invariant, PTL

(***************************************************************************)
(* Nothing is compared, built or published from a fetch that missed a      *)
(* calendar, and a verdict "unchanged" is still true when it is used.      *)
(***************************************************************************)
THEOREM NoPartialFetchInUse == Spec => [](FetchComplete /\ VerdictIsCurrent)
<1>1. IInv => FetchComplete /\ VerdictIsCurrent
  BY DEF IInv
<1> QED
  BY <1>1, Invariant, PTL

(***************************************************************************)
(* A scheduled run skips the deployment only when the site shows exactly   *)
(* what the run has read of every calendar.                                *)
(***************************************************************************)
THEOREM SkipIsJustified == Spec => SkippedOnlyWhenCurrent
<1>1. IInv /\ SkipDeploy => fetch.done = NumTypes /\ DataText(live) = DataText(fetch)
  BY DEF IInv, TypeOK, SkipDeploy, DeployWanted, Verdicts, VerdictIsCurrent
<1>2. IInv /\ [Next]_vars =>
        [SkipDeploy => fetch.done = NumTypes /\ DataText(live) = DataText(fetch)]_vars
  BY <1>1
<1> QED
  BY <1>2, Invariant, PTL DEF Spec, SkippedOnlyWhenCurrent

-----------------------------------------------------------------------------
(* A step of the workflow moves the world on, publishes or is not seen. *)
LEMMA StepImplementsSite == IInv /\ [Next]_vars => [Site!Next]_Site!vars
<1> SUFFICES ASSUME IInv, [Next]_vars PROVE [Site!Next]_Site!vars
  OBVIOUS
<1> USE DEF Site!vars, Site!Next, Site!WorldMoves, Site!Publish, Site!Types, Types
<1>1. head \in Nat /\ today \in Nat /\ \A t \in Types : edits[t] \in Nat
  BY DEF IInv, TypeOK, Versions
<1>2. CASE Midnight
  BY <1>1, <1>2 DEF Midnight
<1>3. ASSUME NEW t \in Types, EditCalendar(t) PROVE Site!WorldMoves
  <2>1. \A u \in Types : edits'[u] >= edits[u]
    BY <1>1, <1>3 DEF EditCalendar, IInv, TypeOK, Versions
  <2> QED
    BY <1>1, <1>3, <2>1 DEF EditCalendar
<1>4. CASE Trigger
  BY <1>1, <1>4 DEF Trigger, Push, CronFires, Dispatch, envVars
<1>5. CASE StartRun
  BY <1>5 DEF StartRun, envVars
<1>6. CASE DetectJob
  BY <1>6 DEF DetectJob, DetectSetup, DetectJobFails, FetchCalendar,
              DetectFetchFails, CompareLive, LiveUnreadable, envVars
<1>7. CASE Publish
  <2>1. fetch.done = NumTypes /\ NumTypes \in Nat
    BY <1>7, NumTypesAssumption DEF Publish, IInv, FetchComplete
  <2>2. live'.sha = run.sha /\ live'.day = fetch.day /\ live'.seen = fetch.seen
    BY <1>7 DEF Publish
  <2>3. \A t \in Types : live.seen[t] <= live'.seen[t] /\ live'.seen[t] <= edits[t]
    BY <2>1, <2>2 DEF IInv, FetchOrder
  <2>4. live.sha <= live'.sha /\ live'.sha <= head
    BY <2>2 DEF IInv, CommitOrder
  <2>5. live.day <= live'.day /\ live'.day <= today
    BY <2>2 DEF IInv, FetchOrder
  <2> QED
    BY <1>7, <2>3, <2>4, <2>5 DEF Publish, envVars
<1>8. CASE DeployJob /\ ~Publish
  BY <1>8 DEF DeployJob, StartDeploy, SkipDeploy, DeploySetup, BuildSite,
              DeployJobFails, envVars
<1>9. CASE CancelRun
  BY <1>9 DEF CancelRun, envVars
<1>10. CASE UNCHANGED vars
  BY <1>10 DEF vars
<1> QED
  BY <1>2, <1>3, <1>4, <1>5, <1>6, <1>7, <1>8, <1>9, <1>10 DEF Next, World

(***************************************************************************)
(* The workflow implements PublishedSite: whatever fails, is cancelled or  *)
(* is edited meanwhile, the published site never goes back to an older     *)
(* commit, an older week or an older reading of any calendar.              *)
(***************************************************************************)
THEOREM ImplementsSite == Spec => NeverGoesBack
<1>1. Init => Site!Init
  BY DEF Init, Site!Init, NothingSeen, Types, Site!Types
<1> QED
  BY <1>1, StepImplementsSite, Invariant, PTL DEF Spec, Site!Spec, NeverGoesBack
=============================================================================
