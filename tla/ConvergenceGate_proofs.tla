------------------------ MODULE ConvergenceGate_proofs ------------------------
(***************************************************************************)
(* That a refresh leaves no run stale in silence, whatever runs, fails, is *)
(* cancelled or is run again by somebody else meanwhile: for any number of *)
(* heads and of changes, in every scene.  The invariant follows a call of  *)
(* the helper from the list of the check runs through the plan to its last *)
(* command, and says at each point what it still owes to the runs of the   *)
(* head.                                                                   *)
(***************************************************************************)
EXTENDS ConvergenceGate, FiniteSetTheorems, SequenceTheorems, WellFoundedInduction, TLAPS

-----------------------------------------------------------------------------
(* The invariant.  Its parts are operators of values, so that a lemma      *)
(* speaks of the state before a step and the one after it alike.           *)

RunFields == {"state", "attempt", "conclusion", "reasons", "began", "past", "polls", "doomed", "view"}
JobFields == {"phase", "refresh", "since", "at", "head", "found", "lost", "failed", "pending", "todo", "run"}
PrFields == {"head", "committed", "asked", "reviews", "threads", "comments", "markers", "waivers", "words",
             "ticks", "said", "candidates"}
Callers == {"companion", "agent"}
Phases == {"idle", "debounce", "list", "look", "plan", "next", "rerun", "await"}

\* RunsOf, of a scene that is given.
RunsAt(head, sc) == {r \in RunIds : HeadOf(r) = head /\ (sc = "twins" \/ EventOf(r) = "pull_request")}

\* Only what is under way is cancelled; what a bot started is never under way.
RunSound(run) ==
  /\ DOMAIN run = RunFields
  /\ run.state \in {"none", "queued", "done"} \union Reading
  /\ run.began \in Nat /\ run.doomed \in BOOLEAN
  /\ run.doomed => run.state \in UnderWay
  /\ run.state \in UnderWay => run.conclusion # "action_required"

RunsSound(all, sc, head) ==
  /\ all = [r \in RunIds |-> all[r]]
  /\ \A r \in RunIds : RunSound(all[r])
  /\ \A r \in RunsAt(head, sc) : all[r].state # "none"

QueueSound(q) == q = None \/ q \in [kind : {"idd", "other", "review"}, at : Nat]

\* The head moves on in the scene of pushes only.
PrSound(p, sc) ==
  /\ DOMAIN p = PrFields /\ p.head \in Nat /\ p.head > 0
  /\ sc # "push" => p.head = 1

\* What a call knows is of a head that there was, and of its runs.
JobSound(job, sc, head, t) ==
  /\ DOMAIN job = JobFields
  /\ job.phase \in Phases /\ job.refresh \in BOOLEAN /\ job.since \in Nat /\ job.since <= t
  /\ job.head \in Nat /\ job.head <= head
  /\ job.pending \in Seq(RunsAt(job.head, sc)) /\ job.todo \in Seq(RunsAt(job.head, sc))
  /\ job.phase \notin {"next", "rerun", "await"} => job.pending = <<>> /\ job.todo = <<>>
  /\ job.phase \in {"look", "plan", "next", "rerun", "await"} => job.head > 0
  /\ job.phase \in {"rerun", "await"} => job.run \in RunsAt(job.head, sc)
  /\ job.phase \in {"look", "plan"} => \A i \in job.found : i.run \in RunsAt(job.head, sc) /\ i.started \in Nat
  /\ job.phase = "next" => job.refresh

\* In the scene of pushes the agent never calls.
HelpersSound(jobs, sc, head, t) ==
  /\ jobs = [who \in Callers |-> jobs[who]]
  /\ \A who \in Callers : JobSound(jobs[who], sc, head, t)
  /\ sc = "push" => jobs["agent"].phase = "idle"

\* A run that needs no attention any more: what it has or will have for a verdict began
\* after the call.
Settled(run, since) ==
  /\ ~ (run.state = "queued" /\ run.doomed)
  /\ run.state \in Reading \union {"done"} /\ run.conclusion # "action_required" => run.began >= since

EndedOrSettled(run, since) == run.state = "done" \/ Settled(run, since)

\* The runs that a call is still going to take.
Ahead(job) == {job.pending[i] : i \in DOMAIN job.pending} \union {job.todo[i] : i \in DOMAIN job.todo}

\* What a refresh owes to the runs of the present head, phase by phase: each is found and
\* then planned for, unless it needs no attention; what is not waited for has ended, or was
\* run again by somebody else in the meantime.
Found(job, all, mine) ==
  \A r \in mine : \/ Settled(all[r], job.since)
                  \/ \E i \in job.found : i.run = r /\ i.conclusion # "action_required"

Looked(job, all, mine) ==
  /\ \A r \in mine : \/ Settled(all[r], job.since)
                     \/ \E i \in job.found : /\ i.run = r /\ i.conclusion # "action_required"
                                             /\ i.event \in Plans!FamilyEvents
  /\ \A i \in job.found : i.runStatus = "completed" => EndedOrSettled(all[i.run], job.since)
  /\ \A i \in job.found : i.runStatus \in {"completed", "in_progress"}

Planned(job, all, mine) ==
  /\ \A r \in mine \ Reported(job) :
       Settled(all[r], job.since) \/ r \in Ahead(job) \/ (job.phase = "rerun" /\ r = job.run)
  /\ \A k \in DOMAIN job.todo : EndedOrSettled(all[job.todo[k]], job.since)
  /\ job.phase = "rerun" => EndedOrSettled(all[job.run], job.since)

Covers(job, all, mine) ==
  /\ job.phase = "look" => Found(job, all, mine)
  /\ job.phase = "plan" => Looked(job, all, mine)
  /\ job.refresh /\ job.phase \in {"next", "rerun", "await"} => Planned(job, all, mine)

CoversHead(job, all, sc, head) == job.head = head => Covers(job, all, RunsAt(head, sc))

CInv ==
  /\ now \in Nat /\ QueueSound(queue) /\ PrSound(pr, scene)
  /\ RunsSound(runs, scene, pr.head)
  /\ HelpersSound(helper, scene, pr.head, now)
  /\ \A who \in Callers : CoversHead(helper[who], runs, scene, pr.head)

-----------------------------------------------------------------------------
(* Runs of a head.                                                         *)

LEMMA RunsOfAt == ASSUME NEW h PROVE RunsOf(h) = RunsAt(h, scene)
BY DEF RunsOf, RunsAt

\* A head has one run for an event, and at most two in all.
LEMMA RunsOfHead ==
  ASSUME NEW h \in Nat, NEW sc
  PROVE  /\ RunsAt(h, sc) \subseteq RunIds /\ RunsAt(h, sc) \subseteq {2 * h, 2 * h + 1}
         /\ \A r, s \in RunsAt(h, sc) : EventOf(r) = EventOf(s) => r = s
         /\ \A r \in RunsAt(h, sc) : r \in Nat /\ r >= 2
<1>1. RunIds \subseteq Nat /\ \A r \in RunIds : r >= 2
  BY BoundsAssumption DEF RunIds
<1>2. ASSUME NEW r \in RunsAt(h, sc) PROVE r \in RunIds /\ r \in Nat /\ r >= 2 /\ (r = 2 * h \/ r = 2 * h + 1)
  <2>1. r \in RunIds /\ r \div 2 = h BY DEF RunsAt, HeadOf
  <2>2. r \in Nat /\ r >= 2 BY <1>1, <2>1
  <2>3. r = 2 * h \/ r = 2 * h + 1 BY <2>1, <2>2
  <2> QED BY <2>1, <2>2, <2>3
<1>3. ASSUME NEW r \in RunsAt(h, sc), NEW s \in RunsAt(h, sc), EventOf(r) = EventOf(s) PROVE r = s
  <2>1. (r = 2 * h \/ r = 2 * h + 1) /\ (s = 2 * h \/ s = 2 * h + 1) BY <1>2
  <2>2. (2 * h) % 2 = 0 /\ (2 * h + 1) % 2 = 1 OBVIOUS
  <2>3. EventOf(2 * h) = "pull_request" /\ EventOf(2 * h + 1) = "pull_request_target" BY <2>2 DEF EventOf
  <2> QED BY <1>3, <2>1, <2>3
<1> QED BY <1>2, <1>3

\* The states in which a run may be are different.
LEMMA States ==
  /\ "queued" \notin Reading /\ "done" \notin Reading /\ "none" \notin Reading
  /\ UnderWay = {"queued"} \union Reading
BY DEF Reading, UnderWay

-----------------------------------------------------------------------------
(* The order in which a plan takes the runs.                               *)

\* A set of numbers that is not empty has a least element.
LEMMA LeastNatural ==
  ASSUME NEW T, T \subseteq Nat, T # {}
  PROVE  \E x \in T : \A y \in T : x <= y
<1> DEFINE C == {0..x : x \in T}
<1>1. C \subseteq FiniteSubsetsOf(Nat) /\ C # {}
  <2>1. ASSUME NEW x \in T PROVE 0..x \in FiniteSubsetsOf(Nat)
    <3>1. x \in Nat /\ 0..x \subseteq Nat OBVIOUS
    <3>2. IsFiniteSet(0..x) BY <3>1, FS_Interval
    <3> QED BY <3>1, <3>2 DEF FiniteSubsetsOf
  <2> QED BY <2>1
<1>2. PICK c \in C : \A d \in C : ~ (<<d, c>> \in StrictSubsetOrdering(Nat))
  BY <1>1, FS_StrictSubsetOrderingWellFounded, WFMin
<1>3. PICK x \in T : c = 0..x OBVIOUS
<1>4. ASSUME NEW y \in T, ~ (x <= y) PROVE FALSE
  <2>1. x \in Nat /\ y \in Nat /\ y < x BY <1>4
  <2>2. 0..y \in C OBVIOUS
  <2>3. 0..y \subseteq 0..x /\ x \in 0..x /\ x \notin 0..y BY <2>1
  <2>4. 0..y # 0..x BY <2>3
  <2>5. 0..y \in SUBSET Nat /\ 0..x \in SUBSET Nat BY <2>1
  <2>6. <<0..y, 0..x>> \in StrictSubsetOrdering(Nat) BY <2>3, <2>4, <2>5 DEF StrictSubsetOrdering
  <2> QED BY <1>2, <1>3, <2>2, <2>6
<1> QED BY <1>4

Orders(R, before) ==
  {f \in [1..Cardinality(R) -> R] : \A j, k \in 1..Cardinality(R) : j < k => before[<<f[j], f[k]>>]}

\* A set of at most two things has a sequence of them, in any order that tells them apart.
LEMMA OrderOfTwo ==
  ASSUME NEW a, NEW b, NEW R, R \subseteq {a, b}, NEW before \in [R \X R -> BOOLEAN],
         \A x \in R : ~ before[<<x, x>>],
         \A x, y \in R : x # y => before[<<x, y>>] \/ before[<<y, x>>]
  PROVE  /\ Orders(R, before) # {}
         /\ \A f \in Orders(R, before) : f \in Seq(R) /\ {f[i] : i \in DOMAIN f} = R
<1> DEFINE n == Cardinality(R)
           orders == {f \in [1..n -> R] : \A j, k \in 1..n : j < k => before[<<f[j], f[k]>>]}
<1>0. \A k \in Nat : \A f \in [1..k -> R] : f \in Seq(R) BY SeqDef
<1>1. ASSUME R = {} PROVE orders # {} /\ \A f \in orders : f \in Seq(R) /\ {f[i] : i \in DOMAIN f} = R
  <2>1. n = 0 BY <1>1, FS_EmptySet
  <2>2. n \in Nat /\ 1..n = {} /\ <<>> \in [1..n -> R] BY <2>1
  <2> HIDE DEF n
  <2>4. <<>> \in orders BY <2>2
  <2>5. ASSUME NEW f \in orders PROVE f \in Seq(R) /\ {f[i] : i \in DOMAIN f} = R
    <3>1. f \in [1..n -> R] /\ DOMAIN f = {} BY <2>2
    <3> QED BY <3>1, <2>2, <1>0, <1>1
  <2> QED BY <2>4, <2>5
<1>2. ASSUME NEW x, R = {x} PROVE orders # {} /\ \A f \in orders : f \in Seq(R) /\ {f[i] : i \in DOMAIN f} = R
  <2>1. n = 1 BY <1>2, FS_Singleton
  <2>2. n \in Nat /\ 1..n = {1} /\ \A j, k \in 1..n : ~ (j < k) BY <2>1
  <2> HIDE DEF n
  <2>3. [i \in 1..n |-> x] \in [1..n -> R] BY <1>2
  <2>4. [i \in 1..n |-> x] \in orders BY <2>2, <2>3
  <2>5. ASSUME NEW f \in orders PROVE f \in Seq(R) /\ {f[i] : i \in DOMAIN f} = R
    <3>1. f \in [1..n -> R] /\ DOMAIN f = {1} BY <2>2
    <3>2. f \in Seq(R) BY <3>1, <2>2, <1>0
    <3>3. f[1] = x BY <3>1, <1>2, <2>2
    <3> HIDE DEF orders
    <3> QED BY <3>1, <3>2, <3>3, <1>2
  <2> QED BY <2>4, <2>5
<1>3. ASSUME NEW x, NEW y, x # y, R = {x, y} PROVE orders # {} /\ \A f \in orders : f \in Seq(R) /\ {f[i] : i \in DOMAIN f} = R
  <2>1. n = 2
    <3>1. IsFiniteSet({x}) /\ Cardinality({x}) = 1 BY FS_Singleton
    <3>2. R = {x} \union {y} /\ y \notin {x} BY <1>3
    <3>3. Cardinality({x} \union {y}) = Cardinality({x}) + 1 BY <3>1, <3>2, FS_AddElement
    <3> QED BY <3>1, <3>2, <3>3
  <2>2. n \in Nat /\ 1..n = {1, 2} /\ \A j, k \in 1..n : j < k <=> j = 1 /\ k = 2 BY <2>1
  <2> HIDE DEF n
  <2>3. ASSUME NEW u \in R, NEW v \in R, before[<<u, v>>] PROVE [i \in 1..n |-> IF i = 1 THEN u ELSE v] \in orders
    <3> DEFINE f == [i \in 1..n |-> IF i = 1 THEN u ELSE v]
    <3>1. f \in [1..n -> R] /\ f[1] = u /\ f[2] = v BY <2>2
    <3> HIDE DEF f
    <3>3. f \in orders BY <3>1, <2>2, <2>3
    <3> QED BY <3>3 DEF f
  <2>4. orders # {} BY <2>3, <1>3
  <2>5. ASSUME NEW f \in orders PROVE f \in Seq(R) /\ {f[i] : i \in DOMAIN f} = R
    <3>1. f \in [1..n -> R] /\ DOMAIN f = {1, 2} BY <2>2
    <3>2. f \in Seq(R) BY <3>1, <2>2, <1>0
    <3>3. f[1] \in R /\ f[2] \in R BY <3>1, <2>2
    <3>5. before[<<f[1], f[2]>>] BY <2>2
    <3>6. f[1] # f[2] BY <3>3, <3>5
    <3>7. {f[i] : i \in DOMAIN f} = {f[1], f[2]} BY <3>1
    <3> HIDE DEF orders
    <3>8. {f[1], f[2]} = R BY <3>3, <3>6, <1>3
    <3> QED BY <3>2, <3>7, <3>8
  <2> QED BY <2>4, <2>5
<1> HIDE DEF orders
<1>4. R = {} \/ R = {a} \/ R = {b} \/ (a # b /\ R = {a, b}) OBVIOUS
<1>5. orders # {} /\ \A f \in orders : f \in Seq(R) /\ {f[i] : i \in DOMAIN f} = R
  BY <1>1, <1>2, <1>3, <1>4
<1> QED BY <1>5 DEF orders, Orders

\* A plan takes each run of the check runs that it is made of, and no other.
LEMMA InOrder ==
  ASSUME NEW instances, NEW oldestFirst, NEW a \in Nat, NEW b \in Nat,
         \A i \in instances : i.run \in {a, b} /\ i.started \in Nat
  PROVE  LET order == Plans!RunsInOrder(instances, oldestFirst)
             taken == {i.run : i \in instances}
         IN  order \in Seq(taken) /\ {order[k] : k \in DOMAIN order} = taken
<1> DEFINE R == {i.run : i \in instances}
           times(r) == {i.started : i \in {j \in instances : j.run = r}}
           began(r) == Plans!FirstStart(instances, r)
           Before(r, s) == IF oldestFirst THEN Plans!Sooner(instances, r, s) ELSE Plans!Sooner(instances, s, r)
           before == [p \in R \X R |-> Before(p[1], p[2])]
           places == 1..Cardinality(R)
           orders == Orders(R, before)
<1>1. \A r \in R : began(r) \in Nat
  <2> SUFFICES ASSUME NEW r \in R PROVE began(r) \in Nat OBVIOUS
  <2>1. times(r) \subseteq Nat /\ times(r) # {} OBVIOUS
  <2>2. PICK t \in times(r) : \A u \in times(r) : t <= u BY <2>1, LeastNatural
  <2>3. \A i \in instances : i.run = r => t <= i.started BY <2>2
  <2>4. began(r) \in times(r) BY <2>3 DEF Plans!FirstStart
  <2> QED BY <2>1, <2>4
<1>2. R \subseteq {a, b} /\ R \subseteq Nat OBVIOUS
<1> HIDE DEF R
<1>3. before \in [R \X R -> BOOLEAN] /\ \A r, s \in R : before[<<r, s>>] = Before(r, s) BY DEF Plans!Sooner
<1>4. (\A r \in R : ~ Before(r, r)) /\ \A r, s \in R : r # s => Before(r, s) \/ Before(s, r)
  BY <1>1, <1>2 DEF Plans!Sooner, began
<1> HIDE DEF before
<1>5. (\A r \in R : ~ before[<<r, r>>]) /\ \A r, s \in R : r # s => before[<<r, s>>] \/ before[<<s, r>>]
  BY <1>3, <1>4
<1>6. orders # {} /\ \A f \in orders : f \in Seq(R) /\ {f[i] : i \in DOMAIN f} = R
  BY <1>2, <1>3, <1>5, OrderOfTwo
<1> HIDE DEF Before
<1>7. \A f \in [places -> R] : f \in orders <=> \A j, k \in places : j < k => Before(f[j], f[k])
  <2> HIDE DEF places
  <2> SUFFICES ASSUME NEW f \in [places -> R]
               PROVE  f \in orders <=> \A j, k \in places : j < k => Before(f[j], f[k]) OBVIOUS
  <2>1. \A j \in places : f[j] \in R OBVIOUS
  <2>2. \A j, k \in places : before[<<f[j], f[k]>>] = Before(f[j], f[k]) BY <1>3, <2>1
  <2>3. f \in orders <=> \A j, k \in places : j < k => before[<<f[j], f[k]>>]
    BY DEF Orders, places
  <2> HIDE DEF orders
  <2>4. ASSUME f \in orders, NEW j \in places, NEW k \in places, j < k PROVE Before(f[j], f[k])
    BY <2>2, <2>3, <2>4
  <2>5. ASSUME \A j, k \in places : j < k => Before(f[j], f[k]) PROVE f \in orders
    BY <2>2, <2>3, <2>5
  <2> QED BY <2>4, <2>5
<1> DEFINE order == CHOOSE f \in [places -> R] : \A j, k \in places : j < k => Before(f[j], f[k])
<1>8. order \in orders
  <2> HIDE DEF orders
  <2>1. PICK f \in orders : TRUE BY <1>6
  <2>2. f \in [places -> R] BY <2>1 DEF orders, Orders
  <2>3. \E g \in [places -> R] : \A j, k \in places : j < k => Before(g[j], g[k]) BY <1>7, <2>1, <2>2
  <2>4. order \in [places -> R] /\ \A j, k \in places : j < k => Before(order[j], order[k]) BY <2>3
  <2> QED BY <1>7, <2>4
<1>9. order = Plans!RunsInOrder(instances, oldestFirst) BY Zenon DEF Plans!RunsInOrder, R, Before, Cardinality, Plans!Cardinality
<1> HIDE DEF order, orders
<1>10. order \in Seq(R) /\ {order[k] : k \in DOMAIN order} = R BY <1>6, <1>8
<1> QED BY <1>9, <1>10 DEF R

-----------------------------------------------------------------------------
(* What needs no attention needs none later, unless the run is made again. *)

\* What a run does by itself to itself: it begins, goes on, or ends; it ends before it
\* has begun only when it is cancelled.
Goes(old, new, t) ==
  /\ old.state \in UnderWay /\ new.state \in Reading \union {"done"}
  /\ new.began = IF old.state = "queued" /\ new.state # "done" THEN t ELSE old.began
  /\ old.state = "queued" /\ new.state = "done" => old.doomed

Keeps(old, new, since) ==
  /\ Settled(old, since) => Settled(new, since)
  /\ EndedOrSettled(old, since) => EndedOrSettled(new, since)

LEMMA GoesKeeps ==
  ASSUME NEW old, NEW new, NEW t \in Nat, NEW since \in Nat, since <= t,
         RunSound(old), RunSound(new), Goes(old, new, t)
  PROVE  Keeps(old, new, since)
<1>1. old.state # "done" /\ new.state # "queued" BY States DEF Goes
<1>2. ASSUME Settled(old, since) PROVE Settled(new, since)
  <2>1. CASE old.state = "queued"
    <3>1. new.state # "done" BY <1>2, <2>1 DEF Goes, Settled
    <3>2. new.began = t BY <2>1, <3>1 DEF Goes
    <3> QED BY <1>1, <3>2 DEF Settled
  <2>2. CASE old.state # "queued"
    <3>1. old.state \in Reading /\ old.conclusion # "action_required" BY <2>2, States DEF Goes, RunSound
    <3>2. new.began = old.began /\ old.began >= since BY <1>2, <2>2, <3>1 DEF Goes, Settled
    <3> QED BY <1>1, <3>2 DEF Settled
  <2> QED BY <2>1, <2>2
<1> QED BY <1>1, <1>2 DEF Keeps, EndedOrSettled

\* What a call owes to the runs of its head it owes no more of when each keeps what it has.
LEMMA CoversKept ==
  ASSUME NEW job, NEW sc, NEW head \in Nat, NEW t, NEW all, NEW new,
         JobSound(job, sc, head, t), job.head = head, Covers(job, all, RunsAt(head, sc)),
         \A r \in RunsAt(head, sc) : Keeps(all[r], new[r], job.since)
  PROVE  Covers(job, new, RunsAt(head, sc))
<1> DEFINE mine == RunsAt(head, sc)
<1>1. job.phase \in {"look", "plan"} => \A i \in job.found : i.run \in mine BY DEF JobSound
<1>2. job.phase \in {"rerun", "await"} => job.run \in mine BY DEF JobSound
<1>3. \A k \in DOMAIN job.todo : job.todo[k] \in mine
  <2>1. job.todo \in Seq(mine) BY DEF JobSound
  <2> HIDE DEF mine
  <2>2. DOMAIN job.todo = 1..Len(job.todo) BY <2>1
  <2> QED BY <2>1, <2>2, ElementOfSeq
<1> HIDE DEF mine
<1>4. \A r \in mine : Keeps(all[r], new[r], job.since) BY DEF mine
<1>5. Covers(job, all, mine) BY DEF mine
<1>6. Covers(job, new, mine)
  <2>1. CASE job.phase = "look"
    <3>1. Found(job, all, mine) BY <1>5, <2>1 DEF Covers
    <3>2. Found(job, new, mine) BY <1>4, <3>1 DEF Found, Keeps
    <3> QED BY <2>1, <3>2 DEF Covers
  <2>2. CASE job.phase = "plan"
    <3>1. Looked(job, all, mine) BY <1>5, <2>2 DEF Covers
    <3>2. \A i \in job.found : i.run \in mine BY <1>1, <2>2
    <3>3. Looked(job, new, mine) BY <1>4, <3>1, <3>2 DEF Looked, Keeps
    <3> QED BY <2>2, <3>3 DEF Covers
  <2>3. CASE job.refresh /\ job.phase \in {"next", "rerun", "await"}
    <3>1. Planned(job, all, mine) BY <1>5, <2>3 DEF Covers
    <3>2. Planned(job, new, mine) BY <1>2, <1>3, <1>4, <3>1 DEF Planned, Keeps
    <3> QED BY <2>3, <3>2 DEF Covers
  <2> QED BY <2>1, <2>2, <2>3 DEF Covers
<1> QED BY <1>6 DEF mine

\* What a call knows stays true when the head moves and the clock goes on.
LEMMA JobLater ==
  ASSUME NEW job, NEW sc, NEW head \in Nat, NEW later \in Nat, head <= later,
         NEW t \in Nat, NEW u \in Nat, t <= u, JobSound(job, sc, head, t)
  PROVE  JobSound(job, sc, later, u)
BY DEF JobSound

-----------------------------------------------------------------------------
(* The beginning, and the steps of the world.                              *)

LEMMA FirstRuns ==
  \A run \in {NoRunYet, FirstAttempt, Gated} :
    /\ RunSound(run) /\ ~ run.doomed /\ run.began = 0
    /\ run.state = IF run = NoRunYet THEN "none" ELSE IF run = Gated THEN "done" ELSE "queued"
<1>1. NoRunYet = [state |-> "none", attempt |-> 0, conclusion |-> Plans!Nothing, reasons |-> {}, began |-> 0,
                  past |-> {}, polls |-> 0, doomed |-> FALSE, view |-> None]
  BY DEF NoRunYet
<1>2. /\ DOMAIN NoRunYet = RunFields /\ NoRunYet.state = "none" /\ NoRunYet.began = 0 /\ NoRunYet.doomed = FALSE
      /\ NoRunYet.conclusion = "nothing"
  BY <1>1 DEF RunFields, Plans!Nothing
<1> HIDE DEF NoRunYet
<1>3. /\ DOMAIN FirstAttempt = RunFields /\ FirstAttempt.state = "queued" /\ FirstAttempt.began = 0
      /\ FirstAttempt.doomed = FALSE /\ FirstAttempt.conclusion = "nothing"
  BY <1>2 DEF FirstAttempt, RunFields
<1>4. /\ DOMAIN Gated = RunFields /\ Gated.state = "done" /\ Gated.began = 0 /\ Gated.doomed = FALSE
  BY <1>2 DEF Gated, RunFields
<1>5. NoRunYet # FirstAttempt /\ NoRunYet # Gated /\ FirstAttempt # Gated BY <1>2, <1>3, <1>4
<1> HIDE DEF FirstAttempt, Gated
<1>6. ASSUME NEW run, DOMAIN run = RunFields, run.began = 0, run.doomed = FALSE,
             run.state \in {"none", "queued", "done"}, run.state = "queued" => run.conclusion = "nothing"
      PROVE  RunSound(run)
  <2>1. run.state \in {"none", "queued", "done"} \union Reading BY <1>6
  <2>4. run.began \in Nat BY <1>6
  <2>5. run.doomed \in BOOLEAN BY <1>6
  <2>2. run.state \in UnderWay => run.conclusion # "action_required" BY <1>6 DEF UnderWay, Reading
  <2>3. ~ run.doomed BY <1>6
  <2> QED BY <1>6, <2>1, <2>2, <2>3, <2>4, <2>5 DEF RunSound
<1> QED BY <1>2, <1>3, <1>4, <1>5, <1>6

LEMMA IdleSound ==
  ASSUME NEW sc, NEW head \in Nat, NEW t \in Nat PROVE JobSound(Idle, sc, head, t)
<1>1. /\ DOMAIN Idle = JobFields /\ Idle.phase = "idle" /\ Idle.refresh = FALSE /\ Idle.since = 0 /\ Idle.head = 0
      /\ Idle.pending = <<>> /\ Idle.todo = <<>>
  BY DEF Idle, JobFields
<1>2. <<>> \in Seq(RunsAt(0, sc)) BY EmptySeq
<1> HIDE DEF Idle
<1>3. Idle.pending \in Seq(RunsAt(Idle.head, sc)) /\ Idle.todo \in Seq(RunsAt(Idle.head, sc)) BY <1>1, <1>2
<1>4. Idle.phase \in Phases /\ Idle.since \in Nat /\ Idle.since <= t /\ Idle.head \in Nat /\ Idle.head <= head
  BY <1>1 DEF Phases
<1>6. Idle.refresh \in BOOLEAN BY <1>1
<1>5. Idle.phase = "idle" BY <1>1
<1> QED BY <1>1, <1>3, <1>4, <1>5, <1>6 DEF JobSound

LEMMA InitCInv == Init => CInv
<1> SUFFICES ASSUME Init PROVE CInv OBVIOUS
<1>1. now = 1 /\ queue = None /\ helper = [who \in Callers |-> Idle] BY DEF Init, Callers
<1>2. PrSound(pr, scene) /\ pr.head = 1 BY DEF Init, PrSound, PrFields
<1>3. RunsSound(runs, scene, 1)
  <2>1. PICK gated : runs = [r \in RunIds |-> IF r \in gated THEN Gated ELSE IF r \in RunsOf(1) THEN FirstAttempt ELSE NoRunYet]
    BY DEF Init
  <2>2. \A r \in RunIds : runs[r] \in {NoRunYet, FirstAttempt, Gated} /\ (r \in RunsOf(1) => runs[r] \in {FirstAttempt, Gated})
    BY <2>1
  <2>3. NoRunYet.state # FirstAttempt.state /\ NoRunYet.state # Gated.state BY DEF NoRunYet, FirstAttempt, Gated
  <2>4. NoRunYet.state = "none" BY FirstRuns
  <2>5. runs = [r \in RunIds |-> runs[r]] BY <2>1
  <2>6. RunsAt(1, scene) \subseteq RunIds /\ RunsOf(1) = RunsAt(1, scene) BY RunsOfAt DEF RunsAt
  <2> QED BY <2>2, <2>3, <2>4, <2>5, <2>6, FirstRuns DEF RunsSound
<1>4. HelpersSound(helper, scene, 1, 1)
  <2>1. \A who \in Callers : helper[who] = Idle BY <1>1
  <2>2. helper = [who \in Callers |-> helper[who]] BY <1>1
  <2>3. Idle.phase = "idle" /\ "agent" \in Callers BY DEF Idle, Callers
  <2> QED BY <2>1, <2>2, <2>3, IdleSound DEF HelpersSound
<1>5. \A who \in Callers : helper[who].head # 1
  <2>1. Idle.head = 0 BY DEF Idle
  <2> QED BY <1>1, <2>1
<1> QED BY <1>1, <1>2, <1>3, <1>4, <1>5 DEF CInv, QueueSound, CoversHead

\* All but a push: the head stays, and the runs and the calls are not touched.
Quiet ==
  /\ now' = now + 1 /\ pr'.head = pr.head /\ DOMAIN pr' = PrFields /\ QueueSound(queue')
  /\ UNCHANGED <<scene, runs, helper>>

LEMMA HappensQuietly ==
  ASSUME CInv, NEW p, NEW event, Happens(p, event), p.head = pr.head, DOMAIN p = PrFields,
         event = None \/ event \in [kind : {"idd", "other", "review"}, at : Nat]
  PROVE  Quiet
<1>1. now' = now + 1 /\ pr' = p /\ UNCHANGED <<scene, runs, helper>> BY DEF Happens
<1>2. queue' = queue \/ queue' = event BY DEF Happens
<1>3. QueueSound(queue') BY <1>2 DEF CInv, QueueSound
<1> QED BY <1>1, <1>3 DEF Quiet

LEMMA WorldQuiet ==
  ASSUME CInv, World, ~ Push PROVE Quiet
<1>1. now + 1 \in Nat BY DEF CInv
<1>2. \A who : Speaks(who) \in [kind : {"idd", "other", "review"}, at : Nat] BY <1>1 DEF Speaks
<1>3. [kind |-> "review", at |-> now + 1] \in [kind : {"idd", "other", "review"}, at : Nat] BY <1>1
<1>4. DOMAIN pr = PrFields BY DEF CInv, PrSound
<1> HIDE DEF CInv
<1>5. ASSUME NEW p, Says(p), p.head = pr.head, DOMAIN p = PrFields PROVE Quiet
  <2> DEFINE q == [p EXCEPT !.said = now + 1]
  <2>1. q.head = pr.head /\ DOMAIN q = PrFields BY <1>5, Zenon DEF PrFields
  <2>2. Happens(q, Speaks(agent)) BY <1>5 DEF Says
  <2> HIDE DEF q
  <2> QED BY <1>2, <2>1, <2>2, HappensQuietly
<1>6. CASE PrimaryReviews
  <2>1. PICK items \in 0..1, suppressed \in 0..1 :
          Happens([pr EXCEPT !.asked = FALSE,
            !.reviews = Append(@, [id |-> Len(@) + 1, author |-> primary, commit |-> pr.head, items |-> items,
                                   suppressed |-> suppressed, at |-> now + 1]),
            !.threads = @ \union (IF items = 1 THEN {Item(now + 1, Len(pr.reviews) + 1)} ELSE {})], None)
    BY <1>6 DEF PrimaryReviews
  <2> DEFINE p == [pr EXCEPT !.asked = FALSE,
            !.reviews = Append(@, [id |-> Len(@) + 1, author |-> primary, commit |-> pr.head, items |-> items,
                                   suppressed |-> suppressed, at |-> now + 1]),
            !.threads = @ \union (IF items = 1 THEN {Item(now + 1, Len(pr.reviews) + 1)} ELSE {})]
  <2>2. p.head = pr.head /\ DOMAIN p = PrFields BY <1>4 DEF PrFields
  <2>3. Happens(p, None) BY <2>1
  <2> HIDE DEF p
  <2> QED BY <2>2, <2>3, HappensQuietly
<1>7. CASE Speak
  <2> DEFINE p == [pr EXCEPT !.words = @ + 1]
  <2>1. p.head = pr.head /\ DOMAIN p = PrFields BY <1>4 DEF PrFields
  <2>2. Happens(p, Speaks(person)) \/ Happens(p, [kind |-> "review", at |-> now + 1]) \/ Says(p)
    BY <1>7 DEF Speak
  <2> HIDE DEF p
  <2> QED BY <1>2, <1>3, <1>5, <2>1, <2>2, HappensQuietly
<1>8. CASE Tick
  <2> DEFINE p == [pr EXCEPT !.ticks = @ + 1]
  <2>1. p.head = pr.head /\ DOMAIN p = PrFields BY <1>4 DEF PrFields
  <2>2. Happens(p, None) BY <1>8 DEF Tick
  <2> HIDE DEF p
  <2> QED BY <2>1, <2>2, HappensQuietly
<1>9. CASE ClaimMoves
  <2> DEFINE p == [pr EXCEPT !.ticks = @ + 1, !.candidates = IF @ = Claimed THEN Released ELSE Claimed]
  <2>1. p.head = pr.head /\ DOMAIN p = PrFields BY <1>4 DEF PrFields
  <2>2. Happens(p, None) BY <1>9 DEF ClaimMoves
  <2> HIDE DEF p
  <2> QED BY <2>1, <2>2, HappensQuietly
<1>10. CASE Answer
  <2>1. PICK threads : Says([pr EXCEPT !.threads = threads]) BY <1>10 DEF Answer
  <2> DEFINE p == [pr EXCEPT !.threads = threads]
  <2>2. p.head = pr.head /\ DOMAIN p = PrFields BY <1>4 DEF PrFields
  <2> HIDE DEF p
  <2> QED BY <1>5, <2>1, <2>2 DEF p
<1>11. CASE Acknowledge
  <2> DEFINE p == [pr EXCEPT !.markers = @ \union {Marker("ack")}]
  <2>1. Says(p) BY <1>11 DEF Acknowledge
  <2>2. p.head = pr.head /\ DOMAIN p = PrFields BY <1>4 DEF PrFields
  <2> HIDE DEF p
  <2> QED BY <1>5, <2>1, <2>2
<1>12. CASE AskAgain
  <2> DEFINE p == [pr EXCEPT !.markers = @ \union {Marker("reroll")}, !.asked = TRUE]
  <2>1. Says(p) BY <1>12 DEF AskAgain
  <2>2. p.head = pr.head /\ DOMAIN p = PrFields BY <1>4 DEF PrFields
  <2> HIDE DEF p
  <2> QED BY <1>5, <2>1, <2>2
<1>13. CASE GiveUp
  <2>1. \/ Says([pr EXCEPT !.words = @ + 1, !.markers = @ \union {Marker("recovery")}])
        \/ \E waivers : Says([pr EXCEPT !.words = @ + 1, !.waivers = waivers])
    BY <1>13 DEF GiveUp
  <2>2. ASSUME NEW w PROVE [pr EXCEPT !.words = @ + 1, !.waivers = w].head = pr.head
                           /\ DOMAIN [pr EXCEPT !.words = @ + 1, !.waivers = w] = PrFields
    BY <1>4 DEF PrFields
  <2>3. /\ [pr EXCEPT !.words = @ + 1, !.markers = @ \union {Marker("recovery")}].head = pr.head
        /\ DOMAIN [pr EXCEPT !.words = @ + 1, !.markers = @ \union {Marker("recovery")}] = PrFields
    BY <1>4 DEF PrFields
  <2> QED BY <1>5, <2>1, <2>2, <2>3, Zenon
<1> QED BY <1>6, <1>7, <1>8, <1>9, <1>10, <1>11, <1>12, <1>13 DEF World

LEMMA QuietCInv ==
  ASSUME CInv, Quiet PROVE CInv'
<1>1. now \in Nat /\ now' \in Nat /\ now <= now' /\ pr.head \in Nat /\ pr'.head = pr.head
  BY DEF CInv, Quiet, PrSound
<1>2. PrSound(pr', scene') /\ QueueSound(queue') BY DEF CInv, Quiet, PrSound
<1>3. RunsSound(runs', scene', pr'.head) /\ \A who \in Callers : CoversHead(helper'[who], runs', scene', pr'.head)
  BY DEF CInv, Quiet
<1>4. HelpersSound(helper', scene', pr'.head, now')
  <2>1. HelpersSound(helper, scene, pr.head, now) /\ helper' = helper /\ scene' = scene BY DEF CInv, Quiet
  <2>2. \A who \in Callers : JobSound(helper[who], scene, pr.head, now') BY <1>1, <2>1, JobLater DEF HelpersSound
  <2> QED BY <1>1, <2>1, <2>2 DEF HelpersSound
<1> QED BY <1>1, <1>2, <1>3, <1>4 DEF CInv

\* A push leaves no call owing anything: what it knows is of the head before.
LEMMA PushCInv ==
  ASSUME CInv, Push PROVE CInv'
<1> DEFINE later == pr.head + 1
<1>1. now \in Nat /\ now' = now + 1 /\ pr.head \in Nat /\ DOMAIN pr = PrFields /\ scene = "push" /\ scene' = scene
      /\ helper' = helper /\ queue' = queue
  BY DEF CInv, Push, PrSound
<1>2. pr' = [pr EXCEPT !.head = @ + 1, !.committed = now + 1, !.asked = TRUE] BY DEF Push
<1>3. pr'.head = later /\ DOMAIN pr' = PrFields BY <1>1, <1>2 DEF PrFields
<1>4. PrSound(pr', scene') /\ QueueSound(queue') BY <1>1, <1>3 DEF CInv, PrSound
<1>5. RunsSound(runs', scene, later)
  <2>1. runs' = [r \in RunIds |-> IF r \in RunsOf(later) THEN FirstAttempt
                                  ELSE [runs[r] EXCEPT !.doomed = runs[r].state \in UnderWay]]
    BY DEF Push
  <2>2. runs' = [r \in RunIds |-> runs'[r]] BY <2>1
  <2>3. \A r \in RunIds : RunSound(runs'[r])
    <3> SUFFICES ASSUME NEW r \in RunIds PROVE RunSound(runs'[r]) OBVIOUS
    <3>1. CASE r \in RunsOf(later) BY <2>1, <3>1, FirstRuns
    <3>2. CASE r \notin RunsOf(later)
      <4>1. RunSound(runs[r]) BY DEF CInv, RunsSound
      <4>2. runs'[r] = [runs[r] EXCEPT !.doomed = runs[r].state \in UnderWay] BY <2>1, <3>2
      <4>3. /\ DOMAIN runs'[r] = RunFields /\ runs'[r].state = runs[r].state /\ runs'[r].began = runs[r].began
            /\ runs'[r].conclusion = runs[r].conclusion /\ runs'[r].doomed = (runs[r].state \in UnderWay)
        BY <4>1, <4>2 DEF RunSound, RunFields
      <4>4. runs'[r].doomed \in BOOLEAN BY <4>3
      <4>5. runs'[r].doomed => runs'[r].state \in UnderWay BY <4>3, Zenon
      <4> QED BY <4>1, <4>3, <4>4, <4>5 DEF RunSound
    <3> QED BY <3>1, <3>2
  <2>4. \A r \in RunsAt(later, scene) : runs'[r].state # "none"
    <3> SUFFICES ASSUME NEW r \in RunsAt(later, scene) PROVE runs'[r].state # "none" OBVIOUS
    <3>1. r \in RunIds /\ r \in RunsOf(later) BY RunsOfAt DEF RunsAt
    <3>2. runs'[r] = FirstAttempt BY <2>1, <3>1
    <3>3. FirstAttempt.state = "queued" BY DEF FirstAttempt, NoRunYet
    <3> QED BY <3>2, <3>3
  <2> QED BY <2>2, <2>3, <2>4 DEF RunsSound
<1>6. HelpersSound(helper', scene', later, now')
  <2>1. HelpersSound(helper, scene, pr.head, now) BY DEF CInv
  <2>2. \A who \in Callers : JobSound(helper[who], scene, later, now') BY <1>1, <2>1, JobLater DEF HelpersSound
  <2> QED BY <1>1, <2>1, <2>2 DEF HelpersSound
<1>7. \A who \in Callers : helper'[who].head # later
  <2>1. \A who \in Callers : helper[who].head \in Nat /\ helper[who].head <= pr.head
    BY DEF CInv, HelpersSound, JobSound
  <2> QED BY <1>1, <2>1
<1> QED BY <1>1, <1>3, <1>4, <1>5, <1>6, <1>7 DEF CInv, CoversHead

-----------------------------------------------------------------------------
(* The steps of a run.                                                     *)

LEMMA RunGoes ==
  ASSUME CInv, NEW r \in RunIds, Run(r)
  PROVE  \E new : /\ runs' = [runs EXCEPT ![r] = new]
                  /\ RunSound(new) /\ Goes(runs[r], new, now)
                  /\ UNCHANGED <<now, scene, pr, queue, helper>>
<1> DEFINE old == runs[r]
<1>1. RunSound(old) /\ now \in Nat BY DEF CInv, RunsSound
<1>2. ASSUME NEW new, Proceeds(r, new), RunSound(new), Goes(old, new, now)
      PROVE  \E c : /\ runs' = [runs EXCEPT ![r] = c] /\ RunSound(c) /\ Goes(old, c, now)
                    /\ UNCHANGED <<now, scene, pr, queue, helper>>
  BY <1>2 DEF Proceeds
<1> HIDE DEF CInv, old
<1>3. ASSUME NEW change, NEW state \in Reading, NEW view, old.state \in UnderWay,
             DOMAIN change = RunFields, change.doomed = old.doomed, change.conclusion = old.conclusion,
             change.began = IF old.state = "queued" THEN now ELSE old.began,
             Proceeds(r, [change EXCEPT !.state = state, !.view = view])
      PROVE  \E c : /\ runs' = [runs EXCEPT ![r] = c] /\ RunSound(c) /\ Goes(old, c, now)
                    /\ UNCHANGED <<now, scene, pr, queue, helper>>
  <2> DEFINE new == [change EXCEPT !.state = state, !.view = view]
  <2>1. /\ DOMAIN new = RunFields /\ new.state = state /\ new.doomed = change.doomed
        /\ new.conclusion = change.conclusion /\ new.began = change.began
    BY <1>3 DEF RunFields
  <2>2. Proceeds(r, new) BY <1>3
  <2> HIDE DEF new
  <2>3. state # "done" /\ state \in UnderWay /\ state \in {"none", "queued", "done"} \union Reading BY States
  <2>4. RunSound(new) BY <1>1, <1>3, <2>1, <2>3 DEF RunSound
  <2>5. Goes(old, new, now) BY <1>3, <2>1, <2>3 DEF Goes
  <2> QED BY <1>2, <2>2, <2>4, <2>5
<1>4. ASSUME NEW conclusion, NEW reasons, Ends(r, conclusion, reasons), old.state \in UnderWay,
             old.state = "queued" => old.doomed
      PROVE  \E c : /\ runs' = [runs EXCEPT ![r] = c] /\ RunSound(c) /\ Goes(old, c, now)
                    /\ UNCHANGED <<now, scene, pr, queue, helper>>
  <2> DEFINE new == [old EXCEPT !.state = "done", !.doomed = FALSE, !.conclusion = conclusion,
                                !.reasons = reasons, !.polls = 0, !.view = None]
  <2>1. DOMAIN new = RunFields /\ new.state = "done" /\ new.doomed = FALSE /\ new.began = old.began
    BY <1>1 DEF RunSound, RunFields
  <2>2. Proceeds(r, new) BY <1>4 DEF Ends, old
  <2> HIDE DEF new
  <2>3. new.doomed \in BOOLEAN /\ ~ new.doomed BY <2>1
  <2>4. "done" \notin UnderWay BY States
  <2>5. RunSound(new) BY <1>1, <2>1, <2>3, <2>4 DEF RunSound
  <2>6. Goes(old, new, now) BY <1>4, <2>1 DEF Goes
  <2> QED BY <1>2, <2>2, <2>5, <2>6
<1>5. DOMAIN old = RunFields BY <1>1 DEF RunSound
<1>6. {"comments", "reviews", "threads", "claim", "judge"} = Reading /\ Reading \subseteq UnderWay /\ "queued" \in UnderWay
      /\ "queued" \notin Reading
  BY DEF Reading, UnderWay
<1>7. CASE Begin(r)
  <2> DEFINE change == [old EXCEPT !.began = now]
  <2>1. old.state = "queued" BY <1>7 DEF Begin, old
  <2>2. /\ DOMAIN change = RunFields /\ change.doomed = old.doomed /\ change.conclusion = old.conclusion
        /\ change.began = now
    BY <1>5 DEF RunFields
  <2>3. ReadsHead(r, change) BY <1>7 DEF Begin, old
  <2> HIDE DEF change
  <2>4. PICK view : Proceeds(r, [change EXCEPT !.state = "comments", !.view = view]) BY <2>3 DEF ReadsHead
  <2> QED BY <1>3, <1>6, <2>1, <2>2, <2>4 DEF old
<1>8. CASE ReadComments(r)
  <2>1. old.state = "comments" BY <1>8 DEF ReadComments, old
  <2>2. PICK view : Proceeds(r, [old EXCEPT !.state = "reviews", !.view = view]) BY <1>8 DEF ReadComments, old
  <2> QED BY <1>3, <1>5, <1>6, <2>1, <2>2 DEF old
<1>9. CASE ReadReviews(r)
  <2>1. old.state = "reviews" BY <1>9 DEF ReadReviews, old
  <2>2. PICK view : Proceeds(r, [old EXCEPT !.state = "threads", !.view = view]) BY <1>9 DEF ReadReviews, old
  <2> QED BY <1>3, <1>5, <1>6, <2>1, <2>2 DEF old
<1>10. CASE ReadThreads(r)
  <2>1. old.state = "threads" BY <1>10 DEF ReadThreads, old
  <2>2. PICK view : Proceeds(r, [old EXCEPT !.state = "claim", !.view = view]) BY <1>10 DEF ReadThreads, old
  <2> QED BY <1>3, <1>5, <1>6, <2>1, <2>2 DEF old
<1>11. CASE ReadClaim(r)
  <2>1. old.state = "claim" BY <1>11 DEF ReadClaim, old
  <2>2. PICK view : Proceeds(r, [old EXCEPT !.state = "judge", !.view = view]) BY <1>11 DEF ReadClaim, old
  <2> QED BY <1>3, <1>5, <1>6, <2>1, <2>2 DEF old
<1>12. CASE ReadingFails(r)
  <2>1. old.state = "reviews" /\ Ends(r, "failure", {}) BY <1>12 DEF ReadingFails, old
  <2> QED BY <1>4, <1>6, <2>1 DEF old
<1>13. CASE Judge(r)
  <2>1. old.state = "judge" BY <1>13 DEF Judge, old
  <2>2. \/ \E conclusion, reasons : Ends(r, conclusion, reasons)
        \/ ReadsHead(r, [old EXCEPT !.polls = @ + 1])
    BY <1>13 DEF Judge, old
  <2>3. ASSUME NEW conclusion, NEW reasons, Ends(r, conclusion, reasons)
        PROVE  \E c : /\ runs' = [runs EXCEPT ![r] = c] /\ RunSound(c) /\ Goes(old, c, now)
                      /\ UNCHANGED <<now, scene, pr, queue, helper>>
    BY <1>4, <1>6, <2>1, <2>3
  <2>4. ASSUME ReadsHead(r, [old EXCEPT !.polls = @ + 1])
        PROVE  \E c : /\ runs' = [runs EXCEPT ![r] = c] /\ RunSound(c) /\ Goes(old, c, now)
                      /\ UNCHANGED <<now, scene, pr, queue, helper>>
    <3> DEFINE change == [old EXCEPT !.polls = @ + 1]
    <3>1. /\ DOMAIN change = RunFields /\ change.doomed = old.doomed /\ change.conclusion = old.conclusion
          /\ change.began = old.began
      BY <1>5 DEF RunFields
    <3>2. ReadsHead(r, change) BY <2>4
    <3> HIDE DEF change
    <3>3. PICK view : Proceeds(r, [change EXCEPT !.state = "comments", !.view = view]) BY <3>2 DEF ReadsHead
    <3> QED BY <1>3, <1>6, <2>1, <3>1, <3>3
  <2> QED BY <2>2, <2>3, <2>4 DEF old
<1>14. CASE Cancelled(r)
  <2>1. old.doomed /\ Ends(r, "cancelled", {}) BY <1>14 DEF Cancelled, old
  <2>2. old.state \in UnderWay BY <1>1, <2>1 DEF RunSound
  <2> QED BY <1>4, <2>1, <2>2 DEF old
<1> QED BY <1>7, <1>8, <1>9, <1>10, <1>11, <1>12, <1>13, <1>14 DEF Run, old

LEMMA RunCInv ==
  ASSUME CInv, NEW r \in RunIds, Run(r) PROVE CInv'
<1>1. PICK new : /\ runs' = [runs EXCEPT ![r] = new]
                 /\ RunSound(new) /\ Goes(runs[r], new, now)
                 /\ UNCHANGED <<now, scene, pr, queue, helper>>
  BY RunGoes
<1>2. RunsSound(runs, scene, pr.head) /\ now \in Nat /\ pr.head \in Nat BY DEF CInv, PrSound
<1>3. DOMAIN runs = RunIds BY <1>2 DEF RunsSound
<1>4. runs'[r] = new /\ \A s \in RunIds \ {r} : runs'[s] = runs[s] BY <1>1, <1>3
<1>5. new.state # "none" BY <1>1, States DEF Goes
<1>6. RunsSound(runs', scene, pr.head)
  <2>1. runs' = [s \in RunIds |-> runs'[s]] BY <1>1, <1>3
  <2>2. \A s \in RunIds : RunSound(runs'[s]) BY <1>1, <1>2, <1>4 DEF RunsSound
  <2>3. \A s \in RunsAt(pr.head, scene) : s \in RunIds BY DEF RunsAt
  <2>4. \A s \in RunsAt(pr.head, scene) : runs'[s].state # "none" BY <1>2, <1>4, <1>5, <2>3 DEF RunsSound
  <2> QED BY <2>1, <2>2, <2>4 DEF RunsSound
<1>7. ASSUME NEW who \in Callers PROVE CoversHead(helper[who], runs', scene, pr.head)
  <2> DEFINE job == helper[who]
  <2>1. JobSound(job, scene, pr.head, now) /\ CoversHead(job, runs, scene, pr.head)
    BY DEF CInv, HelpersSound
  <2> HIDE DEF job
  <2>2. job.since \in Nat /\ job.since <= now BY <2>1 DEF JobSound
  <2>3. RunSound(runs[r]) BY <1>2 DEF RunsSound
  <2>4. Keeps(runs[r], new, job.since) BY <1>1, <1>2, <2>2, <2>3, GoesKeeps
  <2>5. \A s \in RunIds : Keeps(runs[s], runs'[s], job.since) BY <1>4, <2>4 DEF Keeps
  <2>6. RunsAt(pr.head, scene) \subseteq RunIds BY DEF RunsAt
  <2>7. CoversHead(job, runs', scene, pr.head)
    BY <1>2, <2>1, <2>5, <2>6, CoversKept DEF CoversHead
  <2> QED BY <2>7 DEF job
<1> QED BY <1>1, <1>6, <1>7 DEF CInv

-----------------------------------------------------------------------------
(* The steps of a call.                                                    *)

\* A call that may not be: the agent's in the scene of pushes.
LEMMA WhoWorks ==
  ASSUME CInv, NEW who \in Callers, helper[who].phase # "idle" PROVE ~ (scene = "push" /\ who = "agent")
BY DEF CInv, HelpersSound

LEMMA HelpCInv ==
  ASSUME CInv, NEW who \in Callers, NEW job, Helps(who, job), QueueSound(queue'),
         JobSound(job, scene, pr.head, now), CoversHead(job, runs, scene, pr.head),
         scene = "push" /\ who = "agent" => job.phase = "idle"
  PROVE  CInv'
<1>1. helper' = [helper EXCEPT ![who] = job] /\ UNCHANGED <<now, scene, pr, runs>> BY DEF Helps
<1>2. HelpersSound(helper, scene, pr.head, now) BY DEF CInv
<1>3. DOMAIN helper = Callers BY <1>2 DEF HelpersSound
<1>4. helper'[who] = job /\ \A other \in Callers \ {who} : helper'[other] = helper[other] BY <1>1, <1>3
<1>5. HelpersSound(helper', scene, pr.head, now)
  <2>1. helper' = [other \in Callers |-> helper'[other]] BY <1>1, <1>3
  <2>2. "agent" \in Callers BY DEF Callers
  <2> QED BY <1>2, <1>4, <2>1, <2>2 DEF HelpersSound
<1>6. \A other \in Callers : CoversHead(helper'[other], runs, scene, pr.head) BY <1>4 DEF CInv
<1> QED BY <1>1, <1>5, <1>6 DEF CInv

\* What has not begun to look owes nothing yet.
LEMMA OwesNothing ==
  ASSUME NEW job, NEW all, NEW sc, NEW head, job.phase \in {"idle", "debounce", "list"}
  PROVE  CoversHead(job, all, sc, head)
BY DEF CoversHead, Covers

LEMMA IdleFields ==
  /\ DOMAIN Idle = JobFields /\ Idle.phase = "idle" /\ Idle.since = 0 /\ Idle.head = 0
  /\ Idle.pending = <<>> /\ Idle.todo = <<>> /\ Idle.refresh \in BOOLEAN
<1>1. Idle.refresh = FALSE BY DEF Idle
<1>2. Idle.refresh \in BOOLEAN BY <1>1
<1> QED BY <1>2 DEF Idle, JobFields

LEMMA CallSound ==
  ASSUME NEW sc, NEW head \in Nat, NEW t \in Nat, NEW job, DOMAIN job = JobFields,
         job.phase \in {"debounce", "list"}, job.since \in Nat, job.since <= t, job.head = 0,
         job.pending = <<>>, job.todo = <<>>, job.refresh \in BOOLEAN
  PROVE  JobSound(job, sc, head, t)
<1>1. <<>> \in Seq(RunsAt(0, sc)) BY EmptySeq
<1>2. job.pending \in Seq(RunsAt(job.head, sc)) /\ job.todo \in Seq(RunsAt(job.head, sc)) BY <1>1
<1>3. job.phase \in Phases BY DEF Phases
<1>4. job.phase \notin {"look", "plan", "next", "rerun", "await"} OBVIOUS
<1>5. job.head \in Nat /\ job.head <= head OBVIOUS
<1> QED BY <1>2, <1>3, <1>4, <1>5 DEF JobSound

LEMMA IdleCInv ==
  ASSUME CInv, NEW who \in Callers, Helps(who, Idle), QueueSound(queue') PROVE CInv'
<1>1. now \in Nat /\ pr.head \in Nat BY DEF CInv, PrSound
<1>2. JobSound(Idle, scene, pr.head, now) BY <1>1, IdleSound
<1>3. Idle.phase = "idle" BY IdleFields
<1>4. CoversHead(Idle, runs, scene, pr.head) BY <1>3, OwesNothing
<1> QED BY <1>2, <1>3, <1>4, HelpCInv

LEMMA CallCInv ==
  ASSUME CInv, NEW who \in Callers, NEW refresh \in BOOLEAN, Helps(who, Call(refresh)), QueueSound(queue'),
         ~ (scene = "push" /\ who = "agent")
  PROVE  CInv'
<1> DEFINE job == Call(refresh)
<1>1. now \in Nat /\ pr.head \in Nat BY DEF CInv, PrSound
<1>2. /\ DOMAIN job = JobFields /\ job.phase = "list" /\ job.since = now /\ job.head = 0
      /\ job.pending = <<>> /\ job.todo = <<>>
  BY IdleFields DEF JobFields, Call
<1>3. job.refresh = refresh BY IdleFields DEF JobFields, Call
<1> HIDE DEF job
<1>4. job.refresh \in BOOLEAN BY <1>3
<1>5. JobSound(job, scene, pr.head, now) BY <1>1, <1>2, <1>4, CallSound
<1>6. CoversHead(job, runs, scene, pr.head) BY <1>2, OwesNothing
<1>7. Helps(who, job) BY DEF job
<1> QED BY <1>5, <1>6, <1>7, HelpCInv

LEMMA StartsCInv ==
  ASSUME CInv, CompanionStarts PROVE CInv'
<1>1. "companion" \in Callers /\ "companion" # "agent" /\ now \in Nat /\ pr.head \in Nat /\ 0 <= now /\ QueueSound(queue')
  BY DEF CompanionStarts, CInv, PrSound, Callers, QueueSound
<1>2. queue \in [kind : {"idd", "other", "review"}, at : Nat] BY DEF CompanionStarts, CInv, QueueSound
<1> DEFINE quiet == [Idle EXCEPT !.phase = "debounce", !.at = queue.at]
<1>3. Helps("companion", Idle) \/ Helps("companion", Call(TRUE)) \/ Helps("companion", quiet)
  BY <1>2 DEF CompanionStarts
<1>4. /\ DOMAIN quiet = JobFields /\ quiet.phase = "debounce" /\ quiet.since = 0 /\ quiet.head = 0
      /\ quiet.pending = <<>> /\ quiet.todo = <<>>
  BY IdleFields DEF JobFields
<1>5. quiet.refresh \in BOOLEAN BY IdleFields DEF JobFields
<1> HIDE DEF quiet
<1>6. JobSound(quiet, scene, pr.head, now) BY <1>1, <1>4, <1>5, CallSound
<1>7. CASE Helps("companion", Idle) BY <1>1, <1>7, IdleCInv
<1>8. CASE Helps("companion", Call(TRUE)) BY <1>1, <1>8, CallCInv, Zenon
<1>9. CASE Helps("companion", quiet) BY <1>1, <1>4, <1>6, <1>9, HelpCInv, OwesNothing
<1> QED BY <1>3, <1>7, <1>8, <1>9

LEMMA DebounceCInv ==
  ASSUME CInv, Debounce PROVE CInv'
<1>1. "companion" \in Callers /\ "companion" # "agent" /\ QueueSound(queue') BY DEF Debounce, CInv, Callers
<1>2. Helps("companion", Idle) \/ Helps("companion", Call(FALSE)) BY DEF Debounce
<1>3. CASE Helps("companion", Idle) BY <1>1, <1>3, IdleCInv
<1>4. CASE Helps("companion", Call(FALSE)) BY <1>1, <1>4, CallCInv, Zenon
<1> QED BY <1>2, <1>3, <1>4

LEMMA AgentCInv ==
  ASSUME CInv, NEW refresh \in BOOLEAN, AgentCalls(refresh) PROVE CInv'
<1>1. "agent" \in Callers /\ QueueSound(queue') /\ scene # "push" /\ Helps("agent", Call(refresh))
  BY DEF AgentCalls, Tended, CInv, Callers
<1> QED BY <1>1, CallCInv

\* The check runs are listed as they are.
LEMMA ListCInv ==
  ASSUME CInv, NEW who \in Callers, ListCheckRuns(who) PROVE CInv'
<1> DEFINE old == helper[who]
           Status(r)  == CASE r.state = "queued" -> "queued" [] r.state = "done" -> "completed" [] OTHER -> "in_progress"
           Current(r) == [id |-> <<r, Plans!Nothing>>, run |-> r, status |-> Status(runs[r]),
                          conclusion |-> IF runs[r].state = "done" THEN runs[r].conclusion ELSE Plans!Nothing,
                          started |-> runs[r].began]
           Past(r)    == {[id |-> <<r, c>>, run |-> r, status |-> "completed", conclusion |-> c, started |-> 0] :
                             c \in runs[r].past}
           there      == {r \in RunsOf(pr.head) : runs[r].state # "none"}
           F          == UNION {Past(r) \union {Current(r)} : r \in there}
           job        == [old EXCEPT !.phase = "look", !.head = pr.head, !.found = F]
           mine       == RunsAt(pr.head, scene)
<1>1. old.phase = "list" /\ Helps(who, job) /\ QueueSound(queue') BY DEF ListCheckRuns, CInv
<1>2. JobSound(old, scene, pr.head, now) /\ now \in Nat /\ pr.head \in Nat /\ pr.head > 0
      /\ RunsSound(runs, scene, pr.head)
  BY DEF CInv, HelpersSound, PrSound
<1>3. ~ (scene = "push" /\ who = "agent") BY <1>1, WhoWorks
<1>4. \A i \in F : i.run \in mine /\ i.started \in Nat
  <2> SUFFICES ASSUME NEW r \in there, NEW i \in Past(r) \union {Current(r)} PROVE i.run \in mine /\ i.started \in Nat
    OBVIOUS
  <2>1. r \in mine BY RunsOfAt
  <2>2. r \in RunIds BY <2>1 DEF RunsAt
  <2>3. runs[r].began \in Nat BY <1>2, <2>2 DEF RunsSound, RunSound
  <2>4. i.run = r /\ (i.started = 0 \/ i.started = runs[r].began) OBVIOUS
  <2> QED BY <2>1, <2>3, <2>4
<1>5. ASSUME NEW r \in mine
      PROVE  Settled(runs[r], old.since) \/ \E i \in F : i.run = r /\ i.conclusion # "action_required"
  <2>1. runs[r].state # "none" BY <1>2 DEF RunsSound
  <2>2. r \in there BY <2>1, RunsOfAt
  <2>3. Current(r) \in F BY <2>2
  <2>4. CASE runs[r].state = "done" /\ runs[r].conclusion = "action_required"
    BY <2>4 DEF Settled
  <2>5. CASE ~ (runs[r].state = "done" /\ runs[r].conclusion = "action_required")
    <3>1. Current(r).conclusion # "action_required" BY <2>5 DEF Plans!Nothing
    <3>2. Current(r).run = r OBVIOUS
    <3> HIDE DEF F, Current
    <3> QED BY <2>3, <3>1, <3>2
  <2> QED BY <2>4, <2>5
<1> HIDE DEF F, mine, old
<1>6. /\ DOMAIN job = JobFields /\ job.phase = "look" /\ job.head = pr.head /\ job.found = F
      /\ job.since = old.since /\ job.pending = old.pending /\ job.todo = old.todo
  BY <1>2 DEF JobSound, JobFields
<1>7. job.refresh = old.refresh BY <1>2 DEF JobSound, JobFields
<1> HIDE DEF job
<1>8. job.pending = <<>> /\ job.todo = <<>> BY <1>1, <1>2, <1>6 DEF JobSound
<1>9. job.pending \in Seq(RunsAt(job.head, scene)) /\ job.todo \in Seq(RunsAt(job.head, scene))
  BY <1>8, EmptySeq
<1>10. job.refresh \in BOOLEAN /\ job.since \in Nat /\ job.since <= now BY <1>2, <1>6, <1>7 DEF JobSound
<1>11. \A i \in job.found : i.run \in RunsAt(job.head, scene) /\ i.started \in Nat BY <1>4, <1>6 DEF mine
<1>12. job.phase \in Phases /\ job.phase \notin {"next", "rerun", "await"} BY <1>6 DEF Phases
<1>13. job.head \in Nat /\ job.head <= pr.head /\ job.head > 0 BY <1>2, <1>6
<1>14. JobSound(job, scene, pr.head, now) BY <1>6, <1>8, <1>9, <1>10, <1>11, <1>12, <1>13 DEF JobSound
<1>15. Found(job, runs, mine) BY <1>5, <1>6 DEF Found
<1>16. CoversHead(job, runs, scene, pr.head) BY <1>6, <1>15 DEF CoversHead, Covers, mine
<1> QED BY <1>1, <1>3, <1>14, <1>16, HelpCInv

\* Their workflow runs are looked up, some in vain.
LEMMA LookCInv ==
  ASSUME CInv, NEW who \in Callers, LookUpRuns(who) PROVE CInv'
<1> DEFINE old == helper[who]
           mine == RunsAt(pr.head, scene)
           Seen(i, lost) ==
             [id |-> i.id, run |-> i.run, status |-> i.status, conclusion |-> i.conclusion, started |-> i.started,
              typedBot |-> FALSE, actors |-> IF i.conclusion = "action_required" THEN {primary} ELSE {agent},
              found |-> i.run \notin lost, event |-> EventOf(i.run), attempt |-> runs[i.run].attempt,
              reasons |-> IF i.status = "completed" /\ i.conclusion \notin Plans!PassConclusions
                          THEN runs[i.run].reasons ELSE {},
              runStatus |-> IF runs[i.run].state = "done" THEN "completed" ELSE "in_progress"]
<1>1. old.phase = "look" /\ QueueSound(queue') BY DEF LookUpRuns, CInv
<1>2. PICK lost : Helps(who, [old EXCEPT !.phase = "plan", !.found = {Seen(i, lost) : i \in @}])
  BY DEF LookUpRuns
<1> DEFINE F == {Seen(i, lost) : i \in old.found}
           job == [old EXCEPT !.phase = "plan", !.found = F]
<1>3. JobSound(old, scene, pr.head, now) /\ CoversHead(old, runs, scene, pr.head) BY DEF CInv, HelpersSound
<1> HIDE DEF CInv
<1>4. Helps(who, job)
  <2>1. DOMAIN old = JobFields BY <1>3 DEF JobSound
  <2> HIDE DEF old
  <2>2. [old EXCEPT !.phase = "plan", !.found = {Seen(i, lost) : i \in @}] = job OBVIOUS
  <2> QED BY <1>2, <2>2 DEF old
<1>5. ~ (scene = "push" /\ who = "agent") BY <1>1, WhoWorks
<1>6. \A i \in old.found : i.run \in RunsAt(old.head, scene) /\ i.started \in Nat BY <1>1, <1>3 DEF JobSound
<1>7. \A k \in F : \E i \in old.found :
        /\ k.run = i.run /\ k.started = i.started /\ k.conclusion = i.conclusion /\ k.event = EventOf(i.run)
        /\ k.runStatus = IF runs[i.run].state = "done" THEN "completed" ELSE "in_progress"
  OBVIOUS
<1>8. \A i \in old.found : \E k \in F : k.run = i.run /\ k.conclusion = i.conclusion /\ k.event = EventOf(i.run)
  <2> SUFFICES ASSUME NEW i \in old.found
               PROVE  \E k \in F : k.run = i.run /\ k.conclusion = i.conclusion /\ k.event = EventOf(i.run)
    OBVIOUS
  <2>1. Seen(i, lost) \in F OBVIOUS
  <2>2. Seen(i, lost).run = i.run /\ Seen(i, lost).conclusion = i.conclusion /\ Seen(i, lost).event = EventOf(i.run)
    OBVIOUS
  <2> HIDE DEF F, Seen
  <2> QED BY <2>1, <2>2
<1>9. ASSUME NEW r PROVE EventOf(r) \in Plans!FamilyEvents BY DEF EventOf, Plans!FamilyEvents
<1> HIDE DEF F, old
<1>10. /\ DOMAIN job = JobFields /\ job.phase = "plan" /\ job.head = old.head /\ job.found = F
       /\ job.since = old.since /\ job.pending = old.pending /\ job.todo = old.todo
  BY <1>3 DEF JobSound, JobFields
<1>11. job.refresh = old.refresh BY <1>3 DEF JobSound, JobFields
<1> HIDE DEF job, mine
<1>12. \A i \in job.found : i.run \in RunsAt(job.head, scene) /\ i.started \in Nat
  <2> SUFFICES ASSUME NEW k \in F PROVE k.run \in RunsAt(old.head, scene) /\ k.started \in Nat BY <1>10
  <2>1. PICK i \in old.found : k.run = i.run /\ k.started = i.started BY <1>7
  <2> QED BY <1>6, <2>1
<1>13. JobSound(job, scene, pr.head, now)
  <2>1. job.phase \in Phases /\ job.phase \notin {"next", "rerun", "await"} BY <1>10 DEF Phases
  <2>2. job.pending = <<>> /\ job.todo = <<>> BY <1>1, <1>3, <1>10 DEF JobSound
  <2>3. job.refresh \in BOOLEAN /\ job.since \in Nat /\ job.since <= now /\ job.head \in Nat
        /\ job.head <= pr.head /\ job.head > 0
    BY <1>1, <1>3, <1>10, <1>11 DEF JobSound
  <2>4. job.pending \in Seq(RunsAt(job.head, scene)) /\ job.todo \in Seq(RunsAt(job.head, scene))
    BY <2>2, EmptySeq
  <2> QED BY <1>10, <1>12, <2>1, <2>2, <2>3, <2>4 DEF JobSound
<1>14. ASSUME job.head = pr.head PROVE Looked(job, runs, mine)
  <2>1. Found(old, runs, mine) BY <1>1, <1>3, <1>10, <1>14 DEF CoversHead, Covers, mine
  <2>2. ASSUME NEW r \in mine
        PROVE  \/ Settled(runs[r], job.since)
               \/ \E k \in F : k.run = r /\ k.conclusion # "action_required" /\ k.event \in Plans!FamilyEvents
    <3>1. CASE Settled(runs[r], old.since) BY <1>10, <3>1
    <3>2. ASSUME NEW i \in old.found, i.run = r, i.conclusion # "action_required"
          PROVE  \E k \in F : k.run = r /\ k.conclusion # "action_required" /\ k.event \in Plans!FamilyEvents
      BY <1>8, <1>9, <3>2
    <3> QED BY <2>1, <3>1, <3>2 DEF Found
  <2>3. ASSUME NEW k \in F
        PROVE  /\ k.runStatus = "completed" => EndedOrSettled(runs[k.run], job.since)
               /\ k.runStatus \in {"completed", "in_progress"}
    <3>1. PICK i \in old.found : k.run = i.run /\ k.runStatus = IF runs[i.run].state = "done" THEN "completed" ELSE "in_progress"
      BY <1>7
    <3> QED BY <3>1 DEF EndedOrSettled
  <2> QED BY <1>10, <2>2, <2>3 DEF Looked
<1>15. CoversHead(job, runs, scene, pr.head) BY <1>10, <1>14 DEF CoversHead, Covers, mine
<1> QED BY <1>1, <1>4, <1>5, <1>13, <1>15, HelpCInv

\* The runs of some of the check runs that a call has found, in order.
LEMMA FoundInOrder ==
  ASSUME NEW job, NEW sc, NEW head, NEW t, JobSound(job, sc, head, t), job.phase = "plan",
         NEW some, some \subseteq job.found, NEW oldestFirst
  PROVE  LET order == Plans!RunsInOrder(some, oldestFirst)
         IN  order \in Seq(RunsAt(job.head, sc)) /\ {order[k] : k \in DOMAIN order} = {i.run : i \in some}
<1> DEFINE h == job.head
           order == Plans!RunsInOrder(some, oldestFirst)
<1>1. h \in Nat /\ \A i \in some : i.run \in RunsAt(h, sc) /\ i.started \in Nat BY DEF JobSound
<1> HIDE DEF h
<1>2. RunsAt(h, sc) \subseteq {2 * h, 2 * h + 1} BY <1>1, RunsOfHead
<1>3. 2 * h \in Nat /\ 2 * h + 1 \in Nat BY <1>1
<1>4. \A i \in some : i.run \in {2 * h, 2 * h + 1} /\ i.started \in Nat BY <1>1, <1>2
<1>5. order \in Seq({i.run : i \in some}) /\ {order[k] : k \in DOMAIN order} = {i.run : i \in some}
  BY <1>3, <1>4, InOrder
<1>6. {i.run : i \in some} \subseteq RunsAt(h, sc) BY <1>1
<1> HIDE DEF order
<1>7. order \in Seq(RunsAt(h, sc)) BY <1>5, <1>6, SeqMonotonic
<1> QED BY <1>5, <1>7 DEF order, h

\* A plan for a refresh takes all that it may; a plain one takes the first of what it would.
LEMMA PlanCInv ==
  ASSUME CInv, NEW who \in Callers, Plan(who) PROVE CInv'
<1> DEFINE old     == helper[who]
           mine    == RunsAt(pr.head, scene)
           covered == Verdict!LatestReview(pr.reviews, old.head).matches
           next    == Plans!NextRerun(Plans!RerunPlan(old.found, covered, "rerun-once"))
           all     == Plans!RefreshPlan(old.found, "rerun-once")
           lost    == {i.run : i \in {j \in old.found : ~ j.found}}
           planned == [old EXCEPT !.found = {}, !.lost = lost]
           refreshing == [planned EXCEPT !.phase = "next", !.pending = all.pending, !.todo = all.runs]
           plain   == [planned EXCEPT !.phase = "rerun", !.run = Head(next)]
<1>1. old.phase = "plan" /\ QueueSound(queue') BY DEF Plan, CInv
<1>2. \/ old.refresh /\ Helps(who, refreshing)
      \/ ~ old.refresh /\ next = <<>> /\ Helps(who, Idle)
      \/ ~ old.refresh /\ next # <<>> /\ Helps(who, plain)
  BY DEF Plan
<1>3. JobSound(old, scene, pr.head, now) /\ CoversHead(old, runs, scene, pr.head) BY DEF CInv, HelpersSound
<1> HIDE DEF CInv, old, next, all, lost
<1>4. ~ (scene = "push" /\ who = "agent") BY <1>1, WhoWorks DEF old
<1>5. /\ DOMAIN planned = JobFields /\ planned.head = old.head /\ planned.since = old.since
      /\ planned.pending = old.pending /\ planned.todo = old.todo /\ planned.lost = lost
  BY <1>3 DEF JobSound, JobFields
<1>6. planned.refresh = old.refresh BY <1>3 DEF JobSound, JobFields
<1>7. /\ old.head \in Nat /\ old.head <= pr.head /\ old.head > 0 /\ old.since \in Nat /\ old.since <= now
      /\ old.pending = <<>> /\ old.todo = <<>> /\ old.refresh \in BOOLEAN
  BY <1>1, <1>3 DEF JobSound
<1> HIDE DEF planned
<1>8. CASE old.refresh /\ Helps(who, refreshing)
  <2> DEFINE usable  == Plans!Usable(old.found, "rerun-once")
             waiting == {i.run : i \in {j \in usable : Plans!UnderWay(j)}}
             first   == {i \in usable : i.run \in waiting}
             rest    == {i \in usable : i.run \notin waiting}
  <2>1. all.pending = Plans!RunsInOrder(first, FALSE) /\ all.runs = Plans!RunsInOrder(rest, FALSE)
    BY DEF all, Plans!RefreshPlan
  <2>2. usable \subseteq old.found BY DEF Plans!Usable
  <2> HIDE DEF usable
  <2>3. first \subseteq old.found /\ rest \subseteq old.found BY <2>2
  <2> HIDE DEF first, rest
  <2>4. /\ all.pending \in Seq(RunsAt(old.head, scene)) /\ {all.pending[k] : k \in DOMAIN all.pending} = {i.run : i \in first}
        /\ all.runs \in Seq(RunsAt(old.head, scene)) /\ {all.runs[k] : k \in DOMAIN all.runs} = {i.run : i \in rest}
    <3> DEFINE one == Plans!RunsInOrder(first, FALSE)
               two == Plans!RunsInOrder(rest, FALSE)
    <3>1. one \in Seq(RunsAt(old.head, scene)) /\ {one[k] : k \in DOMAIN one} = {i.run : i \in first}
      BY <1>1, <1>3, <2>3, FoundInOrder
    <3>2. two \in Seq(RunsAt(old.head, scene)) /\ {two[k] : k \in DOMAIN two} = {i.run : i \in rest}
      BY <1>1, <1>3, <2>3, FoundInOrder
    <3>3. all.pending = one /\ all.runs = two BY <2>1
    <3> HIDE DEF one, two
    <3> QED BY <3>1, <3>2, <3>3
  <2>5. /\ DOMAIN refreshing = JobFields /\ refreshing.phase = "next" /\ refreshing.head = old.head
        /\ refreshing.since = old.since /\ refreshing.pending = all.pending /\ refreshing.todo = all.runs
        /\ refreshing.lost = lost
    BY <1>5 DEF JobFields
  <2>6. refreshing.refresh = old.refresh BY <1>5, <1>6 DEF JobFields
  <2> DEFINE job == refreshing
  <2> HIDE DEF job, mine
  <2>7. JobSound(job, scene, pr.head, now)
    <3>1. job.pending \in Seq(RunsAt(job.head, scene)) /\ job.todo \in Seq(RunsAt(job.head, scene))
      BY <2>4, <2>5 DEF job
    <3>2. job.phase = "next" /\ job.phase \in Phases BY <2>5 DEF job, Phases
    <3>3. job.head \in Nat /\ job.head <= pr.head /\ job.head > 0 /\ job.since \in Nat /\ job.since <= now
          /\ DOMAIN job = JobFields
      BY <1>7, <2>5 DEF job
    <3>4. job.refresh \in BOOLEAN /\ job.refresh BY <1>7, <1>8, <2>6, Zenon DEF job
    <3> QED BY <3>1, <3>2, <3>3, <3>4 DEF JobSound
  <2>8. ASSUME old.head = pr.head PROVE Planned(job, runs, mine)
    <3>1. Looked(old, runs, mine) BY <1>1, <1>3, <2>8 DEF CoversHead, Covers, mine
    <3>2. Ahead(job) = {i.run : i \in first} \union {i.run : i \in rest} BY <2>4, <2>5 DEF Ahead, job
    <3>3. ASSUME NEW r \in mine \ lost, NEW i \in old.found, i.run = r, i.conclusion # "action_required",
                 i.event \in Plans!FamilyEvents
          PROVE  r \in Ahead(job)
      <4>1. i.found BY <3>3 DEF lost
      <4>2. i.run # 0
        <5>1. \A s \in RunsAt(old.head, scene) : s \in Nat /\ s >= 2 BY <1>7, RunsOfHead
        <5>2. i.run \in RunsAt(old.head, scene) BY <3>3, <2>8 DEF mine
        <5> QED BY <5>1, <5>2
      <4>3. i \in usable BY <3>3, <4>1, <4>2 DEF usable, Plans!Usable, Plans!Resolved, Plans!NoRun
      <4>4. i \in first \/ i \in rest BY <4>3 DEF first, rest
      <4> QED BY <3>2, <3>3, <4>4
    <3>4. \A r \in mine \ Reported(job) : Settled(runs[r], old.since) \/ r \in Ahead(job)
      BY <2>5, <3>1, <3>3 DEF Looked, Reported, job
    <3>5. ASSUME NEW i \in rest PROVE EndedOrSettled(runs[i.run], old.since)
      <4>1. i \in old.found /\ i \in usable /\ i.run \notin waiting BY <2>3 DEF rest
      <4>2. ~ Plans!UnderWay(i) BY <4>1
      <4>3. i.runStatus = "completed" BY <3>1, <4>1, <4>2 DEF Looked, Plans!UnderWay, Plans!PendingStatuses
      <4> QED BY <3>1, <4>1, <4>3 DEF Looked
    <3>6. \A k \in DOMAIN all.runs : EndedOrSettled(runs[all.runs[k]], old.since)
      <4> SUFFICES ASSUME NEW k \in DOMAIN all.runs PROVE EndedOrSettled(runs[all.runs[k]], old.since) OBVIOUS
      <4>1. all.runs[k] \in {i.run : i \in rest} BY <2>4
      <4> QED BY <3>5, <4>1
    <3> QED BY <2>5, <3>4, <3>6 DEF Planned, job
  <2>9. CoversHead(job, runs, scene, pr.head) BY <2>5, <2>8 DEF CoversHead, Covers, mine, job
  <2>10. Helps(who, job) BY <1>8 DEF job
  <2> QED BY <1>1, <1>4, <2>7, <2>9, <2>10, HelpCInv
<1>9. CASE Helps(who, Idle) BY <1>1, <1>9, IdleCInv
<1>10. CASE ~ old.refresh /\ next # <<>> /\ Helps(who, plain)
  <2>1. next \in Seq(RunsAt(old.head, scene))
    <3> DEFINE S == RunsAt(old.head, scene)
    <3>1. ASSUME NEW some, some \subseteq old.found PROVE Plans!RunsInOrder(some, TRUE) \in Seq(S)
      BY <1>1, <1>3, <3>1, FoundInOrder
    <3>2. Plans!Eligible(old.found, covered) \subseteq old.found BY DEF Plans!Eligible
    <3>3. /\ Plans!Rerunning(old.found, covered, "rerun-once") \subseteq old.found
          /\ Plans!Recovering(old.found, covered, "rerun-once") \subseteq old.found
      BY <3>2 DEF Plans!Rerunning, Plans!Recovering
    <3>4. Plans!Refreshable(old.found, covered, "rerun-once") \subseteq old.found
      BY DEF Plans!Refreshable, Plans!RefreshCandidates
    <3> DEFINE plan == Plans!RerunPlan(old.found, covered, "rerun-once")
    <3>5. /\ \E some : some \subseteq old.found /\ plan.refresh = Plans!RunsInOrder(some, TRUE)
          /\ plan.plan = Plans!RunsInOrder(Plans!Rerunning(old.found, covered, "rerun-once"), TRUE)
          /\ plan.recover = Plans!RunsInOrder(Plans!Recovering(old.found, covered, "rerun-once"), TRUE)
      <4>1. /\ plan.refresh = Plans!RunsInOrder({i \in Plans!Refreshable(old.found, covered, "rerun-once") :
                                                   (Plans!InstanceDecision(i, "rerun-once") = "rerun") = TRUE}, TRUE)
            /\ plan.plan = Plans!RunsInOrder(Plans!Rerunning(old.found, covered, "rerun-once"), TRUE)
            /\ plan.recover = Plans!RunsInOrder(Plans!Recovering(old.found, covered, "rerun-once"), TRUE)
        BY DEF Plans!RerunPlan
      <4>2. {i \in Plans!Refreshable(old.found, covered, "rerun-once") :
               (Plans!InstanceDecision(i, "rerun-once") = "rerun") = TRUE} \subseteq old.found
        BY <3>4
      <4> QED BY <4>1, <4>2
    <3> HIDE DEF plan, S, covered
    <3>6. plan.refresh \in Seq(S) /\ plan.plan \in Seq(S) /\ plan.recover \in Seq(S) BY <3>1, <3>3, <3>5
    <3>7. next = plan.refresh \o plan.plan \o plan.recover BY DEF next, plan, covered, Plans!NextRerun
    <3>8. next \in Seq(S) BY <3>6, <3>7
    <3> QED BY <3>8 DEF S
  <2>2. Head(next) \in RunsAt(old.head, scene) BY <1>10, <2>1, HeadTailProperties
  <2>3. /\ DOMAIN plain = JobFields /\ plain.phase = "rerun" /\ plain.head = old.head
        /\ plain.since = old.since /\ plain.pending = old.pending /\ plain.todo = old.todo
        /\ plain.run = Head(next)
    BY <1>5 DEF JobFields
  <2>4. plain.refresh = old.refresh BY <1>5, <1>6 DEF JobFields
  <2> DEFINE job == plain
  <2> HIDE DEF job, mine
  <2>5. JobSound(job, scene, pr.head, now)
    <3>1. job.pending \in Seq(RunsAt(job.head, scene)) /\ job.todo \in Seq(RunsAt(job.head, scene))
      BY <1>7, <2>3, EmptySeq DEF job
    <3>2. job.phase = "rerun" /\ job.phase \in Phases BY <2>3 DEF job, Phases
    <3>3. job.head \in Nat /\ job.head <= pr.head /\ job.head > 0 /\ job.since \in Nat /\ job.since <= now
          /\ DOMAIN job = JobFields /\ job.run \in RunsAt(job.head, scene)
      BY <1>7, <2>2, <2>3 DEF job
    <3>4. job.refresh \in BOOLEAN BY <1>7, <2>4 DEF job
    <3> QED BY <3>1, <3>2, <3>3, <3>4 DEF JobSound
  <2>6. CoversHead(job, runs, scene, pr.head)
    <3>1. ~ job.refresh BY <1>10, <2>4, Zenon DEF job
    <3> QED BY <2>3, <3>1 DEF CoversHead, Covers, job
  <2>7. Helps(who, job) BY <1>10 DEF job
  <2> QED BY <1>1, <1>4, <2>5, <2>6, <2>7, HelpCInv
<1> QED BY <1>2, <1>8, <1>9, <1>10

\* The runs of a queue are its first and those behind it.
LEMMA HeadAndRest ==
  ASSUME NEW S, NEW q \in Seq(S), q # <<>>
  PROVE  /\ Head(q) \in S /\ Tail(q) \in Seq(S)
         /\ {q[k] : k \in DOMAIN q} = {Head(q)} \union {Tail(q)[k] : k \in DOMAIN Tail(q)}
         /\ \A k \in DOMAIN Tail(q) : \E l \in DOMAIN q : q[l] = Tail(q)[k]
         /\ \E l \in DOMAIN q : q[l] = Head(q)
<1> DEFINE rest == Tail(q)
<1>1. Head(q) \in S /\ rest \in Seq(S) /\ Len(rest) = Len(q) - 1 /\ \A k \in 1..Len(rest) : rest[k] = q[k + 1]
  BY HeadTailProperties
<1>2. DOMAIN q = 1..Len(q) /\ Len(q) \in Nat /\ Len(q) > 0 /\ Head(q) = q[1] OBVIOUS
<1>3. DOMAIN rest = 1..Len(rest) BY <1>1
<1> HIDE DEF rest
<1>4. \A k \in DOMAIN rest : k + 1 \in DOMAIN q /\ rest[k] = q[k + 1] BY <1>1, <1>2, <1>3
<1>5. 1 \in DOMAIN q BY <1>2
<1>6. \A l \in DOMAIN q : l = 1 \/ (l - 1 \in DOMAIN rest /\ rest[l - 1] = q[l])
  <2> SUFFICES ASSUME NEW l \in DOMAIN q, l # 1 PROVE l - 1 \in DOMAIN rest /\ rest[l - 1] = q[l] OBVIOUS
  <2>1. l - 1 \in 1..Len(rest) /\ (l - 1) + 1 = l BY <1>1, <1>2
  <2> QED BY <1>1, <1>3, <2>1
<1>7. {q[k] : k \in DOMAIN q} \subseteq {Head(q)} \union {rest[k] : k \in DOMAIN rest}
  <2> SUFFICES ASSUME NEW l \in DOMAIN q PROVE q[l] \in {Head(q)} \union {rest[k] : k \in DOMAIN rest} OBVIOUS
  <2> QED BY <1>2, <1>6
<1>8. {Head(q)} \union {rest[k] : k \in DOMAIN rest} \subseteq {q[k] : k \in DOMAIN q} BY <1>2, <1>4, <1>5
<1> QED BY <1>1, <1>2, <1>4, <1>5, <1>7, <1>8 DEF rest

\* The next command of a refresh is for the first of the runs that it waits for or, when
\* there is none left, for the first of the others.
Takes(old, r, rest) ==
  \/ /\ old.pending # <<>> /\ r = Head(old.pending)
     /\ rest = [old EXCEPT !.pending = Tail(@)]
  \/ /\ old.pending = <<>> /\ old.todo # <<>> /\ r = Head(old.todo)
     /\ rest = [old EXCEPT !.todo = Tail(@)]

\* What a call owes apart from one run.
OwesBut(job, r) ==
  job.refresh /\ job.head = pr.head =>
    /\ \A s \in RunsAt(pr.head, scene) \ Reported(job) : Settled(runs[s], job.since) \/ s \in Ahead(job) \/ s = r
    /\ \A k \in DOMAIN job.todo : EndedOrSettled(runs[job.todo[k]], job.since)

\* What remains when a run is taken.
LEMMA TakenRest ==
  ASSUME NEW old, NEW r, NEW rest, Takes(old, r, rest), old.phase = "next",
         JobSound(old, scene, pr.head, now), CoversHead(old, runs, scene, pr.head)
  PROVE  /\ JobSound(rest, scene, pr.head, now) /\ rest.phase = "next" /\ rest.refresh
         /\ rest.head = old.head /\ rest.since = old.since /\ r \in RunsAt(rest.head, scene)
         /\ OwesBut(rest, r)
         /\ rest.head = pr.head /\ old.pending = <<>> => EndedOrSettled(runs[r], rest.since)
<1> DEFINE S == RunsAt(old.head, scene)
<1>1. old.pending \in Seq(S) /\ old.todo \in Seq(S) /\ DOMAIN old = JobFields /\ old.refresh BY DEF JobSound
<1> HIDE DEF S
<1>2. /\ DOMAIN rest = JobFields /\ rest.phase = "next" /\ rest.head = old.head /\ rest.since = old.since
      /\ rest.lost = old.lost /\ rest.failed = old.failed
  BY <1>1 DEF JobFields, Takes
<1>3. rest.refresh = old.refresh BY <1>1 DEF JobFields, Takes
<1>4. /\ r \in S /\ rest.pending \in Seq(S) /\ rest.todo \in Seq(S) /\ Ahead(old) \subseteq {r} \union Ahead(rest)
      /\ \A k \in DOMAIN rest.todo : \E l \in DOMAIN old.todo : old.todo[l] = rest.todo[k]
      /\ old.pending # <<>> \/ \E l \in DOMAIN old.todo : old.todo[l] = r
  <2>1. CASE old.pending # <<>> /\ r = Head(old.pending) /\ rest = [old EXCEPT !.pending = Tail(@)]
    <3>1. rest.pending = Tail(old.pending) /\ rest.todo = old.todo BY <1>1, <2>1 DEF JobFields
    <3>2. /\ r \in S /\ Tail(old.pending) \in Seq(S)
          /\ {old.pending[k] : k \in DOMAIN old.pending} = {r} \union {Tail(old.pending)[k] : k \in DOMAIN Tail(old.pending)}
      BY <1>1, <2>1, HeadAndRest
    <3>3. Ahead(old) \subseteq {r} \union Ahead(rest) BY <3>1, <3>2 DEF Ahead
    <3> QED BY <1>1, <2>1, <3>1, <3>2, <3>3
  <2>2. CASE old.pending = <<>> /\ old.todo # <<>> /\ r = Head(old.todo) /\ rest = [old EXCEPT !.todo = Tail(@)]
    <3>1. rest.pending = old.pending /\ rest.todo = Tail(old.todo) BY <1>1, <2>2 DEF JobFields
    <3>2. /\ r \in S /\ Tail(old.todo) \in Seq(S)
          /\ {old.todo[k] : k \in DOMAIN old.todo} = {r} \union {Tail(old.todo)[k] : k \in DOMAIN Tail(old.todo)}
          /\ \A k \in DOMAIN Tail(old.todo) : \E l \in DOMAIN old.todo : old.todo[l] = Tail(old.todo)[k]
          /\ \E l \in DOMAIN old.todo : old.todo[l] = r
      BY <1>1, <2>2, HeadAndRest
    <3>3. Ahead(old) \subseteq {r} \union Ahead(rest) BY <3>1, <3>2 DEF Ahead
    <3> QED BY <1>1, <3>1, <3>2, <3>3
  <2> QED BY <2>1, <2>2 DEF Takes
<1>5. /\ rest.head \in Nat /\ rest.head <= pr.head /\ rest.head > 0 /\ rest.since \in Nat /\ rest.since <= now
      /\ rest.refresh /\ rest.refresh \in BOOLEAN
  <2>1. old.head \in Nat /\ old.head <= pr.head /\ old.head > 0 /\ old.since \in Nat /\ old.since <= now
    BY DEF JobSound
  <2>2. rest.refresh /\ rest.refresh \in BOOLEAN BY <1>1, <1>3, Zenon DEF JobSound
  <2> QED BY <1>2, <2>1, <2>2
<1>6. rest.phase \in Phases BY <1>2 DEF Phases
<1>7. JobSound(rest, scene, pr.head, now) BY <1>2, <1>4, <1>5, <1>6 DEF JobSound, S
<1>8. ASSUME rest.head = pr.head
      PROVE  /\ \A s \in RunsAt(pr.head, scene) \ Reported(rest) :
                  Settled(runs[s], rest.since) \/ s \in Ahead(rest) \/ s = r
             /\ \A k \in DOMAIN rest.todo : EndedOrSettled(runs[rest.todo[k]], rest.since)
             /\ old.pending = <<>> => EndedOrSettled(runs[r], rest.since)
  <2>1. Planned(old, runs, RunsAt(pr.head, scene)) BY <1>1, <1>2, <1>8 DEF CoversHead, Covers
  <2>2. Reported(rest) = Reported(old) BY <1>2 DEF Reported
  <2>3. \A s \in RunsAt(pr.head, scene) \ Reported(rest) : Settled(runs[s], rest.since) \/ s \in Ahead(rest) \/ s = r
    BY <1>2, <1>4, <2>1, <2>2 DEF Planned
  <2>4. \A k \in DOMAIN rest.todo : EndedOrSettled(runs[rest.todo[k]], rest.since) BY <1>2, <1>4, <2>1 DEF Planned
  <2>5. old.pending = <<>> => EndedOrSettled(runs[r], rest.since) BY <1>2, <1>4, <2>1 DEF Planned
  <2> QED BY <2>3, <2>4, <2>5
<1>9. OwesBut(rest, r) BY <1>8 DEF OwesBut
<1>10. r \in RunsAt(rest.head, scene) BY <1>2, <1>4 DEF S
<1> QED BY <1>2, <1>5, <1>7, <1>8, <1>9, <1>10

\* A command fails: its run is among those that are reported.
LEMMA FailsCInv ==
  ASSUME CInv, NEW who \in Callers, NEW r, NEW rest, Fails(who, r, rest), QueueSound(queue'),
         ~ (scene = "push" /\ who = "agent"), JobSound(rest, scene, pr.head, now),
         rest.phase \in {"next", "rerun", "await"}, OwesBut(rest, r)
  PROVE  CInv'
<1> DEFINE job == [rest EXCEPT !.phase = "next", !.failed = @ \union {r}]
<1>1. \/ rest.refresh /\ Helps(who, job)
      \/ Helps(who, Idle)
  BY DEF Fails
<1> HIDE DEF CInv
<1>2. CASE rest.refresh /\ Helps(who, job)
  <2>1. /\ DOMAIN job = JobFields /\ job.phase = "next" /\ job.head = rest.head /\ job.since = rest.since
        /\ job.lost = rest.lost /\ job.failed = rest.failed \union {r}
        /\ job.pending = rest.pending /\ job.todo = rest.todo
    BY DEF JobSound, JobFields
  <2>2. job.refresh = rest.refresh BY DEF JobSound, JobFields
  <2>3. Helps(who, job) BY <1>2
  <2> HIDE DEF job
  <2>4. job.refresh \in BOOLEAN /\ job.refresh BY <1>2, <2>2, Zenon DEF JobSound
  <2>5. job.phase \in Phases BY <2>1 DEF Phases
  <2>6. /\ job.since \in Nat /\ job.since <= now /\ job.head \in Nat /\ job.head <= pr.head /\ job.head > 0
        /\ job.pending \in Seq(RunsAt(job.head, scene)) /\ job.todo \in Seq(RunsAt(job.head, scene))
    BY <2>1 DEF JobSound
  <2>7. JobSound(job, scene, pr.head, now) BY <2>1, <2>4, <2>5, <2>6 DEF JobSound
  <2>8. ASSUME job.head = pr.head PROVE Planned(job, runs, RunsAt(pr.head, scene))
    <3>1. Reported(job) = Reported(rest) \union {r} /\ Ahead(job) = Ahead(rest) BY <2>1 DEF Reported, Ahead
    <3>2. rest.refresh /\ rest.head = pr.head BY <1>2, <2>1, <2>8, Zenon
    <3> QED BY <2>1, <3>1, <3>2 DEF OwesBut, Planned
  <2>9. CoversHead(job, runs, scene, pr.head) BY <2>1, <2>8 DEF CoversHead, Covers
  <2> QED BY <2>3, <2>7, <2>9, HelpCInv, <2>1
<1>3. CASE Helps(who, Idle) BY <1>3, IdleCInv
<1> QED BY <1>1, <1>2, <1>3

\* A refresh takes up the next run, unless the head has moved.
LEMMA NextCInv ==
  ASSUME CInv, NEW who \in Callers, NextCommand(who) PROVE CInv'
<1> DEFINE old == helper[who]
<1>1. old.phase = "next" /\ QueueSound(queue') BY DEF NextCommand, CInv
<1>2. JobSound(old, scene, pr.head, now) /\ CoversHead(old, runs, scene, pr.head) BY DEF CInv, HelpersSound
<1>3. PICK r, rest :
        /\ \/ Helps(who, rest) /\ pr.head # old.head
           \/ Helps(who, [rest EXCEPT !.phase = "rerun", !.run = r]) /\ pr.head = old.head
        /\ \/ /\ old.pending # <<>> /\ runs[r].state = "done" /\ r = Head(old.pending)
              /\ rest = [old EXCEPT !.pending = Tail(@)]
           \/ /\ old.pending = <<>> /\ old.todo # <<>> /\ r = Head(old.todo)
              /\ rest = [old EXCEPT !.todo = Tail(@)]
  BY Zenon DEF NextCommand
<1> HIDE DEF CInv, old
<1>4. ~ (scene = "push" /\ who = "agent") BY <1>1, WhoWorks DEF old
<1>5. Takes(old, r, rest) /\ (old.pending = <<>> \/ runs[r].state = "done") BY <1>3 DEF Takes
<1>6. /\ JobSound(rest, scene, pr.head, now) /\ rest.phase = "next" /\ rest.refresh
      /\ rest.head = old.head /\ rest.since = old.since /\ r \in RunsAt(rest.head, scene) /\ OwesBut(rest, r)
      /\ rest.head = pr.head /\ old.pending = <<>> => EndedOrSettled(runs[r], rest.since)
  BY <1>1, <1>2, <1>5, TakenRest
<1>7. CASE Helps(who, rest) /\ pr.head # old.head
  <2>1. CoversHead(rest, runs, scene, pr.head) BY <1>6, <1>7 DEF CoversHead
  <2> QED BY <1>1, <1>4, <1>6, <1>7, <2>1, HelpCInv
<1>8. CASE Helps(who, [rest EXCEPT !.phase = "rerun", !.run = r]) /\ pr.head = old.head
  <2> DEFINE job == [rest EXCEPT !.phase = "rerun", !.run = r]
  <2>1. /\ DOMAIN job = JobFields /\ job.phase = "rerun" /\ job.head = rest.head /\ job.since = rest.since
        /\ job.lost = rest.lost /\ job.failed = rest.failed
        /\ job.pending = rest.pending /\ job.todo = rest.todo /\ job.run = r
    BY <1>6 DEF JobSound, JobFields
  <2>2. job.refresh = rest.refresh BY <1>6 DEF JobSound, JobFields
  <2>3. Helps(who, job) BY <1>8
  <2> HIDE DEF job
  <2>4. job.refresh /\ job.refresh \in BOOLEAN BY <1>6, <2>2, Zenon DEF JobSound
  <2>5. job.phase \in Phases BY <2>1 DEF Phases
  <2>6. /\ job.since \in Nat /\ job.since <= now /\ job.head \in Nat /\ job.head <= pr.head /\ job.head > 0
        /\ job.pending \in Seq(RunsAt(job.head, scene)) /\ job.todo \in Seq(RunsAt(job.head, scene))
        /\ job.run \in RunsAt(job.head, scene)
    BY <1>6, <2>1 DEF JobSound
  <2>7. JobSound(job, scene, pr.head, now) BY <2>1, <2>4, <2>5, <2>6 DEF JobSound
  <2>8. Reported(job) = Reported(rest) /\ Ahead(job) = Ahead(rest) BY <2>1 DEF Reported, Ahead
  <2>9. EndedOrSettled(runs[job.run], job.since) BY <1>5, <1>6, <1>8, <2>1 DEF EndedOrSettled
  <2>10. Planned(job, runs, RunsAt(pr.head, scene)) BY <1>6, <1>8, <2>1, <2>8, <2>9 DEF OwesBut, Planned
  <2>11. CoversHead(job, runs, scene, pr.head) BY <2>1, <2>10 DEF CoversHead, Covers
  <2> QED BY <1>1, <1>4, <2>3, <2>7, <2>11, HelpCInv
<1> QED BY <1>3, <1>7, <1>8

LEMMA EndsCInv ==
  ASSUME CInv, NEW who \in Callers, RefreshEnds(who) PROVE CInv'
BY IdleCInv DEF RefreshEnds, CInv

\* A rerun or the wait for its attempt is over without success, a rerun that is refused
\* among them.
LEMMA RunFailsCInv ==
  ASSUME CInv, NEW who \in Callers, helper[who].phase \in {"rerun", "await"}, QueueSound(queue'),
         Fails(who, helper[who].run, helper[who])
  PROVE  CInv'
<1> DEFINE old == helper[who]
<1>1. JobSound(old, scene, pr.head, now) /\ CoversHead(old, runs, scene, pr.head) BY DEF CInv, HelpersSound
<1>2. ~ (scene = "push" /\ who = "agent") BY WhoWorks
<1>3. Fails(who, old.run, old) /\ old.phase \in {"rerun", "await"} OBVIOUS
<1> HIDE DEF CInv, old
<1>4. ASSUME old.refresh, old.head = pr.head PROVE Planned(old, runs, RunsAt(pr.head, scene))
  BY <1>1, <1>3, <1>4 DEF CoversHead, Covers
<1>5. OwesBut(old, old.run) BY <1>4 DEF OwesBut, Planned
<1> QED BY <1>1, <1>2, <1>3, <1>5, FailsCInv

\* Something throws.
LEMMA CallFailsCInv ==
  ASSUME CInv, NEW who \in Callers, CallFails(who) PROVE CInv'
<1> DEFINE old == helper[who]
<1>1. QueueSound(queue') /\ JobSound(old, scene, pr.head, now) /\ CoversHead(old, runs, scene, pr.head)
  BY DEF CallFails, CInv, HelpersSound
<1>2. \/ Helps(who, Idle)
      \/ /\ old.phase = "next"
         /\ \E r, rest : Takes(old, r, rest) /\ Fails(who, r, rest)
      \/ old.phase \in {"rerun", "await"} /\ Fails(who, old.run, old)
  BY Zenon DEF CallFails, Takes
<1>3. CASE Helps(who, Idle) BY <1>1, <1>3, IdleCInv
<1>4. ASSUME old.phase = "next", NEW r, NEW rest, Takes(old, r, rest), Fails(who, r, rest) PROVE CInv'
  <2>1. JobSound(rest, scene, pr.head, now) /\ rest.phase = "next" /\ OwesBut(rest, r) BY <1>1, <1>4, TakenRest
  <2>2. ~ (scene = "push" /\ who = "agent") BY <1>4, WhoWorks
  <2> QED BY <1>1, <1>4, <2>1, <2>2, FailsCInv
<1>5. CASE old.phase \in {"rerun", "await"} /\ Fails(who, old.run, old) BY <1>1, <1>5, RunFailsCInv
<1> QED BY <1>2, <1>3, <1>4, <1>5

\* What is known of a job goes for the job in another phase.
LEMMA OtherPhase ==
  ASSUME NEW old, NEW sc, NEW head, NEW t, JobSound(old, sc, head, t), old.phase \in {"rerun", "await"},
         NEW phase \in {"next", "await"}, NEW job, job = [old EXCEPT !.phase = phase], phase = "next" => old.refresh
  PROVE  /\ JobSound(job, sc, head, t) /\ job.phase = phase /\ job.head = old.head /\ job.since = old.since
         /\ Reported(job) = Reported(old) /\ Ahead(job) = Ahead(old) /\ job.todo = old.todo /\ job.run = old.run
         /\ job.refresh = old.refresh
<1>1. /\ DOMAIN job = JobFields /\ job.phase = phase /\ job.head = old.head /\ job.since = old.since
      /\ job.lost = old.lost /\ job.failed = old.failed
      /\ job.pending = old.pending /\ job.todo = old.todo /\ job.run = old.run
  BY DEF JobSound, JobFields
<1>2. job.refresh = old.refresh BY DEF JobSound, JobFields
<1>3. job.refresh \in BOOLEAN /\ (job.phase = "next" => job.refresh) BY <1>1, <1>2, Zenon DEF JobSound
<1>4. job.phase \in Phases /\ job.phase \notin {"look", "plan"} BY <1>1 DEF Phases
<1>5. /\ job.since \in Nat /\ job.since <= t /\ job.head \in Nat /\ job.head <= head /\ job.head > 0
      /\ job.pending \in Seq(RunsAt(job.head, sc)) /\ job.todo \in Seq(RunsAt(job.head, sc))
      /\ job.run \in RunsAt(job.head, sc)
  BY <1>1 DEF JobSound
<1>6. JobSound(job, sc, head, t) BY <1>1, <1>3, <1>4, <1>5 DEF JobSound
<1>7. Reported(job) = Reported(old) /\ Ahead(job) = Ahead(old) BY <1>1 DEF Reported, Ahead
<1> QED BY <1>1, <1>2, <1>6, <1>7

\* The rerun is refused.
LEMMA RefusedCInv ==
  ASSUME CInv, NEW who \in Callers, Rerun(who), runs[helper[who].run].state # "done" PROVE CInv'
<1>1. helper[who].phase = "rerun" /\ QueueSound(queue') /\ Fails(who, helper[who].run, helper[who])
  BY DEF Rerun, CInv
<1> QED BY <1>1, RunFailsCInv

\* The run is made again: it takes the place of what was under way, for its event, on other
\* heads only.
LEMMA RerunCInv ==
  ASSUME CInv, NEW who \in Callers, Rerun(who), runs[helper[who].run].state = "done" PROVE CInv'
<1> DEFINE old   == helper[who]
           r     == old.run
           job   == [old EXCEPT !.phase = "await"]
           again == [FirstAttempt EXCEPT !.attempt = 2, !.past = runs[r].past \union {runs[r].conclusion}]
           mine  == RunsAt(pr.head, scene)
<1>1. /\ old.phase = "rerun" /\ queue' = queue /\ UNCHANGED <<now, scene, pr>> /\ helper' = [helper EXCEPT ![who] = job]
      /\ runs' = [s \in RunIds |->
                   IF s = r THEN again
                   ELSE IF EventOf(s) = EventOf(r) /\ runs[s].state \in UnderWay
                   THEN [runs[s] EXCEPT !.doomed = TRUE] ELSE runs[s]]
  BY DEF Rerun
<1>2. /\ JobSound(old, scene, pr.head, now) /\ CoversHead(old, runs, scene, pr.head) /\ RunsSound(runs, scene, pr.head)
      /\ HelpersSound(helper, scene, pr.head, now) /\ PrSound(pr, scene) /\ now \in Nat /\ QueueSound(queue)
      /\ pr.head \in Nat
  BY DEF CInv, HelpersSound, PrSound
<1>3. ~ (scene = "push" /\ who = "agent") BY <1>1, WhoWorks
<1>4. \A other \in Callers : CoversHead(helper[other], runs, scene, pr.head) BY DEF CInv
<1>5. helper = [other \in Callers |-> helper[other]] /\ \A other \in Callers : JobSound(helper[other], scene, pr.head, now)
  BY <1>2 DEF HelpersSound
<1> HIDE DEF CInv
<1>6. /\ helper' = [other \in Callers |-> helper'[other]] /\ helper'[who] = job
      /\ \A other \in Callers \ {who} : helper'[other] = helper[other]
  BY <1>1, <1>5
<1>7. r \in RunsAt(old.head, scene) /\ old.head \in Nat /\ old.head > 0 /\ old.head <= pr.head /\ r \in RunIds
  BY <1>1, <1>2 DEF JobSound, RunsAt
<1>8. old.head = pr.head \/ scene = "push" BY <1>2, <1>7 DEF PrSound
<1>9. /\ JobSound(job, scene, pr.head, now) /\ job.phase = "await" /\ job.head = old.head /\ job.since = old.since
      /\ Reported(job) = Reported(old) /\ Ahead(job) = Ahead(old) /\ job.todo = old.todo /\ job.run = r
      /\ job.refresh = old.refresh
  BY <1>1, <1>2, OtherPhase
<1>10. DOMAIN again = RunFields /\ again.state = "queued" /\ again.began = 0 /\ again.doomed = FALSE
       /\ again.conclusion = "nothing"
  <2>1. /\ DOMAIN FirstAttempt = RunFields /\ FirstAttempt.state = "queued" /\ FirstAttempt.began = 0
        /\ FirstAttempt.doomed = FALSE /\ FirstAttempt.conclusion = "nothing"
    BY DEF FirstAttempt, NoRunYet, RunFields, Plans!Nothing
  <2> HIDE DEF FirstAttempt
  <2> QED BY <2>1 DEF RunFields
<1> HIDE DEF old, r, job, again
<1>11. RunSound(again)
  <2>1. again.state \in {"none", "queued", "done"} \union Reading BY <1>10
  <2>2. again.doomed \in BOOLEAN BY <1>10
  <2>3. ~ again.doomed BY <1>10
  <2>4. again.began \in Nat BY <1>10
  <2>5. again.conclusion # "action_required" BY <1>10
  <2> QED BY <1>10, <2>1, <2>2, <2>3, <2>4, <2>5 DEF RunSound
<1>12. \A since : Settled(again, since)
  <2>1. ~ again.doomed BY <1>10
  <2>2. again.state \notin Reading \union {"done"} BY <1>10, States
  <2> QED BY <2>1, <2>2 DEF Settled
<1>13. RunsSound(runs', scene, pr.head)
  <2>1. runs' = [s \in RunIds |-> runs'[s]] BY <1>1
  <2>2. ASSUME NEW s \in RunIds PROVE RunSound(runs'[s]) /\ (runs'[s].state = runs[s].state \/ runs'[s].state = "queued")
    <3>1. RunSound(runs[s]) BY <1>2 DEF RunsSound
    <3>2. CASE s = r BY <1>1, <1>10, <1>11, <3>2
    <3>3. CASE s # r /\ EventOf(s) = EventOf(r) /\ runs[s].state \in UnderWay
      <4> DEFINE doomed == [runs[s] EXCEPT !.doomed = TRUE]
      <4>1. runs'[s] = doomed BY <1>1, <3>3
      <4>2. /\ DOMAIN doomed = RunFields /\ doomed.state = runs[s].state /\ doomed.began = runs[s].began
            /\ doomed.conclusion = runs[s].conclusion
        BY <3>1 DEF RunSound, RunFields
      <4>3. doomed.doomed = TRUE BY <3>1 DEF RunSound, RunFields
      <4> HIDE DEF doomed
      <4>4. doomed.doomed \in BOOLEAN BY <4>3
      <4>5. RunSound(doomed) BY <3>1, <3>3, <4>2, <4>4 DEF RunSound
      <4> QED BY <4>1, <4>2, <4>5
    <3>4. CASE s # r /\ ~ (EventOf(s) = EventOf(r) /\ runs[s].state \in UnderWay)
      <4>1. runs'[s] = runs[s] BY <1>1, <3>4
      <4> QED BY <3>1, <4>1
    <3> QED BY <3>2, <3>3, <3>4
  <2>3. ASSUME NEW s \in RunsAt(pr.head, scene) PROVE runs'[s].state # "none"
    <3>1. s \in RunIds BY DEF RunsAt
    <3>2. runs[s].state # "none" BY <1>2 DEF RunsSound
    <3> QED BY <2>2, <3>1, <3>2
  <2> QED BY <2>1, <2>2, <2>3 DEF RunsSound
<1>14. HelpersSound(helper', scene, pr.head, now)
  <2>1. \A other \in Callers : JobSound(helper'[other], scene, pr.head, now) BY <1>5, <1>6, <1>9
  <2>2. "agent" \in Callers BY DEF Callers
  <2>3. scene = "push" => helper'["agent"].phase = "idle" BY <1>2, <1>3, <1>6, <2>2 DEF HelpersSound
  <2> QED BY <1>6, <2>1, <2>3 DEF HelpersSound
<1>15. ASSUME old.head = pr.head, NEW s \in mine, NEW since PROVE Keeps(runs[s], runs'[s], since)
  <2>1. s \in RunIds BY DEF RunsAt
  <2>2. CASE s = r
    <3>1. runs'[s] = again BY <1>1, <2>1, <2>2
    <3> QED BY <1>12, <3>1 DEF Keeps, EndedOrSettled
  <2>3. CASE s # r
    <3>1. EventOf(s) # EventOf(r) BY <1>2, <1>7, <1>15, <2>3, RunsOfHead
    <3>2. runs'[s] = runs[s] BY <1>1, <2>1, <2>3, <3>1
    <3> QED BY <3>2 DEF Keeps
  <2> QED BY <2>2, <2>3
<1> HIDE DEF mine
<1>16. ASSUME NEW other \in Callers PROVE CoversHead(helper'[other], runs', scene, pr.head)
  <2>1. CASE other # who
    <3>1. helper'[other] = helper[other] BY <1>6, <2>1
    <3>2. CASE old.head = pr.head
      <4>1. ASSUME helper[other].head = pr.head PROVE Covers(helper[other], runs', RunsAt(pr.head, scene))
        <5>1. Covers(helper[other], runs, RunsAt(pr.head, scene)) BY <1>4, <4>1 DEF CoversHead
        <5>2. \A s \in RunsAt(pr.head, scene) : Keeps(runs[s], runs'[s], helper[other].since)
          BY <1>15, <3>2 DEF mine
        <5> QED BY <1>2, <1>5, <4>1, <5>1, <5>2, CoversKept
      <4> QED BY <3>1, <4>1 DEF CoversHead
    <3>3. CASE scene = "push"
      <4>1. other = "agent" BY <1>3, <2>1, <3>3 DEF Callers
      <4>2. helper[other].phase = "idle" BY <1>2, <3>3, <4>1 DEF HelpersSound
      <4> QED BY <3>1, <4>2, OwesNothing
    <3> QED BY <1>8, <3>2, <3>3
  <2>2. CASE other = who
    <3>1. helper'[other] = job BY <1>6, <2>2
    <3>2. ASSUME job.head = pr.head, job.refresh PROVE Planned(job, runs', mine)
      <4>1. old.head = pr.head /\ old.refresh BY <1>9, <3>2, Zenon
      <4>2. Covers(old, runs, mine) BY <1>2, <4>1 DEF CoversHead, mine
      <4>3. Covers(old, runs', mine)
        <5>1. \A s \in RunsAt(pr.head, scene) : Keeps(runs[s], runs'[s], old.since) BY <1>15, <4>1 DEF mine
        <5> QED BY <1>2, <4>1, <4>2, <5>1, CoversKept DEF mine
      <4>4. Planned(old, runs', mine) BY <1>1, <4>1, <4>3 DEF Covers
      <4>5. runs'[r] = again BY <1>1, <1>7
      <4>6. Settled(runs'[r], old.since) BY <1>12, <4>5
      <4>7. \A s \in mine \ Reported(job) : Settled(runs'[s], job.since) \/ s \in Ahead(job)
        BY <1>9, <4>4, <4>6 DEF Planned, r
      <4> QED BY <1>9, <4>4, <4>7 DEF Planned
    <3> QED BY <1>9, <3>1, <3>2 DEF CoversHead, Covers, mine
  <2> QED BY <2>1, <2>2
<1> QED BY <1>1, <1>2, <1>13, <1>14, <1>16 DEF CInv

LEMMA AwaitCInv ==
  ASSUME CInv, NEW who \in Callers, Await(who) PROVE CInv'
<1> DEFINE old  == helper[who]
           job  == [old EXCEPT !.phase = "next"]
           list == [Idle EXCEPT !.phase = "list", !.since = old.since]
<1>1. old.phase = "await" /\ QueueSound(queue') BY DEF Await, CInv
<1>2. JobSound(old, scene, pr.head, now) /\ CoversHead(old, runs, scene, pr.head) /\ now \in Nat /\ pr.head \in Nat
  BY DEF CInv, HelpersSound, PrSound
<1>3. \/ old.refresh /\ Helps(who, job)
      \/ Helps(who, list)
  BY DEF Await
<1> HIDE DEF CInv, old
<1>4. ~ (scene = "push" /\ who = "agent") BY <1>1, WhoWorks DEF old
<1>5. CASE old.refresh /\ Helps(who, job)
  <2>1. /\ JobSound(job, scene, pr.head, now) /\ job.phase = "next" /\ job.head = old.head /\ job.since = old.since
        /\ Reported(job) = Reported(old) /\ Ahead(job) = Ahead(old) /\ job.todo = old.todo /\ job.run = old.run
    BY <1>1, <1>2, <1>5, OtherPhase
  <2>2. Helps(who, job) BY <1>5
  <2> HIDE DEF job
  <2>3. ASSUME job.head = pr.head PROVE Planned(job, runs, RunsAt(pr.head, scene))
    <3>1. Planned(old, runs, RunsAt(pr.head, scene)) BY <1>1, <1>2, <1>5, <2>1, <2>3 DEF CoversHead, Covers
    <3> QED BY <1>1, <2>1, <3>1 DEF Planned
  <2>4. CoversHead(job, runs, scene, pr.head) BY <2>1, <2>3 DEF CoversHead, Covers
  <2> QED BY <1>1, <1>4, <2>1, <2>2, <2>4, HelpCInv
<1>6. CASE Helps(who, list)
  <2>1. /\ DOMAIN list = JobFields /\ list.phase = "list" /\ list.since = old.since /\ list.head = 0
        /\ list.pending = <<>> /\ list.todo = <<>>
    BY IdleFields DEF JobFields
  <2>2. list.refresh \in BOOLEAN BY IdleFields DEF JobFields
  <2>3. Helps(who, list) BY <1>6
  <2> HIDE DEF list
  <2>4. old.since \in Nat /\ old.since <= now BY <1>2 DEF JobSound
  <2>5. JobSound(list, scene, pr.head, now) BY <1>2, <2>1, <2>2, <2>4, CallSound
  <2>6. CoversHead(list, runs, scene, pr.head) BY <2>1, OwesNothing
  <2> QED BY <1>1, <1>4, <2>3, <2>5, <2>6, HelpCInv
<1> QED BY <1>3, <1>5, <1>6

-----------------------------------------------------------------------------
(* The theorem.                                                            *)

LEMMA StepCInv == CInv /\ [Next]_vars => CInv'
<1> SUFFICES ASSUME CInv, [Next]_vars PROVE CInv' OBVIOUS
<1>1. CASE World BY <1>1, WorldQuiet, QuietCInv, PushCInv
<1>2. ASSUME NEW r \in RunIds, Run(r) PROVE CInv' BY <1>2, RunCInv
<1>3. ASSUME NEW who \in Callers, Apply(who) PROVE CInv'
  BY <1>3, ListCInv, LookCInv, PlanCInv, NextCInv, EndsCInv, RefusedCInv, RerunCInv, AwaitCInv, CallFailsCInv
     DEF Apply
<1>4. ASSUME NEW refresh \in BOOLEAN, AgentCalls(refresh) PROVE CInv' BY <1>4, AgentCInv
<1>5. CASE Companion BY <1>3, <1>5, StartsCInv, DebounceCInv DEF Companion, Callers
<1>6. CASE Apply("agent") BY <1>3, <1>6 DEF Callers
<1>7. CASE UNCHANGED vars BY <1>7 DEF vars, CInv
<1> QED BY <1>1, <1>2, <1>4, <1>5, <1>6, <1>7 DEF Next

\* The invariant says of a refresh that is over what was to be shown of it.
LEMMA CInvFresh == CInv => StaleRunsAreReported
<1> SUFFICES ASSUME CInv, NEW who \in DOMAIN helper,
                    helper[who].phase = "next", helper[who].pending = <<>>, helper[who].todo = <<>>,
                    helper[who].head = pr.head, NEW r \in RunsOf(pr.head) \ Reported(helper[who]),
                    runs[r].state \in Reading \union {"done"}, runs[r].conclusion # "action_required"
             PROVE  runs[r].began >= helper[who].since
  BY DEF StaleRunsAreReported
<1> DEFINE job == helper[who]
<1>1. who \in Callers BY DEF CInv, HelpersSound
<1>2. JobSound(job, scene, pr.head, now) /\ CoversHead(job, runs, scene, pr.head) BY <1>1 DEF CInv, HelpersSound
<1>3. job.phase = "next" /\ job.pending = <<>> /\ job.todo = <<>> /\ job.head = pr.head OBVIOUS
<1>4. r \in RunsAt(pr.head, scene) \ Reported(job) BY RunsOfAt
<1> HIDE DEF job
<1>5. job.refresh BY <1>2, <1>3 DEF JobSound
<1>6. Planned(job, runs, RunsAt(pr.head, scene)) BY <1>2, <1>3, <1>5 DEF CoversHead, Covers
<1>7. Ahead(job) = {} BY <1>3 DEF Ahead
<1>8. Settled(runs[r], job.since) BY <1>3, <1>4, <1>6, <1>7 DEF Planned
<1> QED BY <1>8 DEF Settled, job

\* Whatever is said, pushed, run and rerun, each helper job stays sound and what it has found,
\* looked up and planned covers the runs of its head (runRerunAdvisoryConvergence).
THEOREM Invariant == Spec => []CInv
<1> QED BY InitCInv, StepCInv, PTL DEF Spec

\* When a refresh is over, every run of the head has a verdict of its own time, whatever was
\* run, cancelled or refused meanwhile, or is one that the refresh could not look up or whose
\* command failed and for which it exits with an error (applyRefreshLatestPlan).
THEOREM RefreshReportsTheStale == Spec => []StaleRunsAreReported
<1> QED BY Invariant, CInvFresh, PTL
=============================================================================
