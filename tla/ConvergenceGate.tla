--------------------------- MODULE ConvergenceGate ---------------------------
(***************************************************************************)
(* The required check idd-advisory-convergence of a pull request and what  *)
(* runs it again.  The workflow idd-advisory-convergence.yml runs the      *)
(* check once per event; a run reads the pull request piece by piece and   *)
(* judges what it has read (advisory-convergence.mjs --assert), so that    *)
(* its verdict may be out of date when it comes.  The companion workflow   *)
(* and the agent refresh it (rerun-advisory-convergence.mjs --apply).      *)
(*                                                                         *)
(* The clock counts what happens to the pull request, so that two things   *)
(* never happen at one time.  Runs are numbered: head h has run 2h for the *)
(* event pull_request and 2h + 1 for pull_request_target.                  *)
(***************************************************************************)
EXTENDS Integers, Sequences, FiniteSets, TLC

CONSTANTS
  agent,            \* the account of the agent, author of the pull request
  person,           \* a human reviewer
  primary, nobody,  \* the primary reviewer, a bot, and the empty login
  actions,          \* github-actions[bot]
  check,            \* the name of the check
  Scenes,           \* which part of the world moves in a behaviour
  MaxHeads, MaxWords, MaxReviews, MaxTicks, MaxChanges

ASSUME BoundsAssumption ==
  MaxHeads \in Nat \ {0} /\ MaxWords \in Nat /\ MaxReviews \in Nat /\ MaxTicks \in Nat /\ MaxChanges \in Nat

Verdict == INSTANCE AdvisoryConvergence WITH
             Agents <- {agent}, Trusted <- {agent}, KnownBots <- {primary}, ConfiguredBots <- {},
             Rabbit <- nobody, PrAuthor <- agent, Primary <- primary, Secondary <- nobody,
             NoLogin <- nobody, Convergence <- check, Actions <- actions
Plans == INSTANCE ConvergenceRerun WITH Bots <- {primary}

VARIABLES
  now,              \* the clock
  scene,            \* what may happen in this behaviour
  pr,               \* the pull request
  runs,             \* the runs of the check
  proved,           \* pairs of a run and a claim under which the pull request was ready while it read
  queue,            \* the event that the companion has pending, or None
  helper            \* the calls of rerun-advisory-convergence under way

vars == <<now, scene, pr, runs, proved, queue, helper>>

RunIds == 2 .. 2 * MaxHeads + 1
HeadOf(r) == r \div 2
EventOf(r) == IF r % 2 = 0 THEN "pull_request" ELSE "pull_request_target"

\* Where one event tells all, the other run of a head is left out.
RunsOf(head) == {r \in RunIds : HeadOf(r) = head /\ (scene = "twins" \/ EventOf(r) = "pull_request")}

None == [none |-> TRUE]

-----------------------------------------------------------------------------
(* The world at the start.                                                 *)

Claim == [id |-> "mine", supersedes |-> "none", agent |-> agent, branch |-> "branch"]
Claimed == <<[claim |-> Claim, resolves |-> TRUE, history |-> TRUE]>>
Released == <<[claim |-> Verdict!NoClaimant, resolves |-> FALSE, history |-> TRUE]>>
Unclaimed == <<[claim |-> Verdict!NoClaimant, resolves |-> FALSE, history |-> FALSE]>>

Selector == [text |-> check, hits |-> {check}]

\* The policy of the repository; the clock of the scene "waiver" reaches the deadlines.
Policy ==
  [review |-> "copilot-advisory", scope |-> "idd-claimed", exemptBots |-> FALSE,
   requestCap |-> 2, pendingWindow |-> 2, settledWindow |-> 1, rerollCap |-> 1, recoveryCycleCap |-> 1,
   deadline |-> IF scene = "waiver" THEN 3 ELSE 99, terminalWindow |-> IF scene = "waiver" THEN 2 ELSE 99,
   outageWindow |-> 0, maxValidity |-> 99, waivable |-> {Selector}, waiverMode |-> "maintainer-authorized",
   lookups |-> 20, origin |-> FALSE, profile |-> "vendored-node"]

\* past are the conclusions of its earlier attempts. An attempt beyond the second is as
\* good as the second.
NoRunYet == [state |-> "none", attempt |-> 0, conclusion |-> Plans!Nothing, reasons |-> {}, began |-> 0,
             past |-> {}, polls |-> 0, doomed |-> FALSE, view |-> None]

FirstAttempt == [NoRunYet EXCEPT !.attempt = 1, !.state = "queued"]

\* A run that a bot triggered never starts.
Gated == [NoRunYet EXCEPT !.attempt = 1, !.state = "done", !.conclusion = "action_required"]

\* A call: what it was asked to do and since when, the head and the check runs it found,
\* the runs it could not look up and those whose command failed, those it will take, and the
\* one it is running again.
Idle == [phase |-> "idle", refresh |-> FALSE, since |-> 0, at |-> 0, head |-> 0, found |-> {}, lost |-> {},
         failed |-> {}, pending |-> <<>>, todo |-> <<>>, run |-> Plans!NoRun]

\* A review of an earlier head, with the thread that it left.
Leftover == [id |-> 1, author |-> primary, commit |-> 0, items |-> 1, suppressed |-> 0, at |-> 1]

Item(n, review) ==
  [id |-> review, resolved |-> FALSE,
   comments |-> <<[id |-> 0, author |-> primary, kind |-> "plain", names |-> nobody, stamped |-> FALSE,
                   at |-> n, edited |-> n, review |-> review]>>]

Init ==
  /\ now = 1
  /\ scene \in Scenes
  /\ \E earlier \in {<<>>} \union (IF scene = "mixed" THEN {<<Leftover>>} ELSE {}) :
       pr = [head |-> 1, committed |-> 1, asked |-> TRUE, reviews |-> earlier,
             threads |-> {Item(earlier[i].at, i) : i \in DOMAIN earlier}, comments |-> {},
             markers |-> {}, waivers |-> {}, words |-> 0, ticks |-> 0, said |-> 0,
             candidates |-> IF scene = "claim" THEN Unclaimed ELSE Claimed]
  /\ \E gated \in {{}} \union (IF scene = "twins" THEN {{2}} ELSE {}) :
       runs = [r \in RunIds |-> IF r \in gated THEN Gated
                                ELSE IF r \in RunsOf(1) THEN FirstAttempt ELSE NoRunYet]
  /\ proved = {} /\ queue = None
  /\ helper = [who \in {"companion", "agent"} |-> Idle]

-----------------------------------------------------------------------------
(* Ready or not, at one moment.                                            *)

Moment(p, t) ==
  [head |-> p.head, committed |-> p.committed, branch |-> "branch", authorIsBot |-> FALSE,
   reviews |-> p.reviews, threads |-> p.threads, comments |-> p.comments, markers |-> p.markers,
   waivers |-> p.waivers, candidates |-> p.candidates, explicit |-> FALSE,
   changed |-> {"pages"}, runs |-> <<>>, jobs |-> <<>>, artifacts |-> <<>>, outage |-> FALSE, now |-> t]

Reading == {"comments", "reviews", "threads", "claim", "judge"}
UnderWay == {"queued"} \union Reading

\* The scenes in which the agent looks after the check.
Tended == scene \notin {"push", "mixed"}

\* Under which claims a run may come to judge.
Claims == IF scene \in {"claim", "mixed"} THEN {Unclaimed, Claimed, Released} ELSE {Claimed}

\* Those of a run: once it has read the claim, this one.
ClaimsOf(r) == IF runs[r].state = "judge" THEN {runs[r].view.candidates} ELSE Claims

\* Ready for a head and under a claim.
ReadyFor(p, t, head, claim) == Verdict!Ready([Moment(p, t) EXCEPT !.head = head, !.candidates = claim], Policy)

\* The pairs proved when the pull request changes to p.
Proof(p, t) ==
  proved \union {m \in (RunIds \X Claims) \ proved :
                    /\ runs[m[1]].state \in Reading /\ m[2] \in ClaimsOf(m[1])
                    /\ ReadyFor(p, t, runs[m[1]].view.head, m[2])}

\* What was proved of the other runs.
ProvedBut(r) == {m \in proved : m[1] # r}

\* The pull request changes; event is what the companion is told, or None.
Happens(p, event) ==
  /\ pr' = p /\ now' = now + 1
  /\ proved' = Proof(p, now + 1)
  /\ queue' = IF event = None \/ scene \notin {"companion", "push"} THEN queue ELSE event
  /\ UNCHANGED <<scene, runs, helper>>

\* A run goes on.
Proceeds(r, change) ==
  /\ runs' = [runs EXCEPT ![r] = change]
  /\ UNCHANGED <<now, scene, pr, queue, helper>>

-----------------------------------------------------------------------------
(* What people, the reviewer and the agent do.                             *)

\* Somebody says something; what the agent says carries its signature.
Speaks(who) == [kind |-> IF who = agent THEN "idd" ELSE "other", at |-> now + 1]

Says(p) == Happens([p EXCEPT !.said = now + 1], Speaks(agent))

\* The primary reviewer reviews the head when asked: what it finds it posts as threads,
\* or mentions only in the text of the review.
PrimaryReviews ==
  /\ scene = "push" => pr.head = 1
  /\ pr.asked
  /\ Len(pr.reviews) < (CASE scene = "review" -> MaxReviews [] scene = "mixed" -> MaxReviews + 1 [] OTHER -> 1)
  /\ \E items \in 0..1, suppressed \in 0..1 :
       /\ scene \in {"push", "waiver", "claim"} => items + suppressed = 0
       /\ scene \in {"twins", "companion"} => suppressed = 0
       /\ Happens([pr EXCEPT !.asked = FALSE,
            !.reviews = Append(@, [id |-> Len(@) + 1, author |-> primary, commit |-> pr.head, items |-> items,
                                   suppressed |-> suppressed, at |-> now + 1]),
            !.threads = @ \union (IF items = 1 THEN {Item(now + 1, Len(pr.reviews) + 1)} ELSE {})], None)

\* A person comments or reviews, or the agent posts one of its markers.
Speak ==
  /\ scene \in {"companion", "push"} /\ pr.words < MaxWords
  /\ \/ scene = "companion" /\ Happens([pr EXCEPT !.words = @ + 1], Speaks(person))
     \/ Happens([pr EXCEPT !.words = @ + 1], [kind |-> "review", at |-> now + 1])
     \/ scene = "push" /\ Says([pr EXCEPT !.words = @ + 1])

\* A commit is pushed: the runs of the head before are cancelled in favour of those of
\* the new one.
Push ==
  /\ scene = "push" /\ pr.head < MaxHeads
  /\ pr' = [pr EXCEPT !.head = @ + 1, !.committed = now + 1, !.asked = TRUE]
  /\ now' = now + 1
  /\ runs' = [r \in RunIds |-> IF r \in RunsOf(pr.head + 1) THEN FirstAttempt
                               ELSE [runs[r] EXCEPT !.doomed = runs[r].state \in UnderWay]]
  /\ proved' = Proof(pr', now + 1)
  /\ UNCHANGED <<scene, queue, helper>>

\* Time passes without anything being said.
Tick ==
  /\ scene = "waiver" /\ pr.ticks < MaxTicks
  /\ Happens([pr EXCEPT !.ticks = @ + 1], None)

\* The issue is claimed, or the claim released.
ClaimMoves ==
  /\ scene \in {"claim", "mixed"} /\ pr.ticks < MaxTicks
  /\ Happens([pr EXCEPT !.ticks = @ + 1, !.candidates = IF @ = Claimed THEN Released ELSE Claimed], None)

\* What the agent is told by a check of its own.
Told == Verdict!NextActions(Moment(pr, now), Policy)

Marker(kind) == [author |-> agent, kind |-> kind, head |-> pr.head, agent |-> agent, claim |-> "mine", at |-> now + 1]

\* It answers a thread,
Answer ==
  /\ \E t \in pr.threads :
       /\ Verdict!MissingThread(t, Verdict!AtNone)
       /\ "disposition-threads" \in Told
       /\ Says([pr EXCEPT !.threads = (@ \ {t}) \union
            {[t EXCEPT !.comments = Append(@, [id |-> 1, author |-> agent, kind |-> "accepted", names |-> nobody,
                                               stamped |-> FALSE, at |-> now + 1, edited |-> now + 1, review |-> 0])]}])

\* acknowledges what was only mentioned, as its instructions leave it to do after the
\* threads or before,
Acknowledge ==
  /\ LET review == Verdict!LatestReview(pr.reviews, pr.head)
     IN  review.found /\ ~ Verdict!ReviewAcked(pr.markers, review, pr.head)
  /\ "ack-suppressed" \in Told
  /\ Says([pr EXCEPT !.markers = @ \union {Marker("ack")}])

\* asks for one more review of the head,
AskAgain ==
  /\ "same-head-reroll" \in Told
  /\ Says([pr EXCEPT !.markers = @ \union {Marker("reroll")}, !.asked = TRUE])

\* counts a recovery of the reviewer that will not answer, or waives the check.
GiveUp ==
  /\ scene = "waiver" /\ pr.words < MaxWords
  /\ \/ Says([pr EXCEPT !.words = @ + 1, !.markers = @ \union {Marker("recovery")}])
     \/ \E until \in {now + 3, now + 99} :
          Says([pr EXCEPT !.words = @ + 1, !.waivers = @ \union
            {[id |-> now + 1, body |-> "waiver", wellFormed |-> TRUE, reason |-> "maintainer", author |-> agent,
              head |-> pr.head, claim |-> "mine", at |-> now + 1, expires |-> until, selector |-> Selector,
              run |-> "none", runHead |-> 0]}])

World ==
  /\ scene = "mixed" => now <= MaxChanges
  /\ \/ PrimaryReviews \/ Speak \/ Push \/ Tick \/ ClaimMoves
     \/ Answer \/ Acknowledge \/ AskAgain \/ GiveUp

-----------------------------------------------------------------------------
(* A run of the check: advisory-convergence.mjs --assert.                  *)

\* It reads the head,
ReadsHead(r, change) ==
  /\ Proceeds(r, [change EXCEPT !.state = "comments", !.view = [head |-> pr.head]])
  /\ proved' = ProvedBut(r) \union {m \in {r} \X Claims : ReadyFor(pr, now, pr.head, m[2])}

Begin(r) ==
  /\ runs[r].state = "queued"
  /\ ReadsHead(r, [runs[r] EXCEPT !.began = now])

\* the comments with what is marked in them,
ReadComments(r) ==
  /\ runs[r].state = "comments"
  /\ Proceeds(r, [runs[r] EXCEPT !.state = "reviews",
       !.view = [comments |-> pr.comments, markers |-> pr.markers, waivers |-> pr.waivers] @@ @])
  /\ UNCHANGED proved

\* the reviews, with the time of the head commit,
ReadReviews(r) ==
  /\ runs[r].state = "reviews"
  /\ Proceeds(r, [runs[r] EXCEPT !.state = "threads",
       !.view = [reviews |-> pr.reviews, committed |-> pr.committed] @@ @])
  /\ UNCHANGED proved

\* the threads,
ReadThreads(r) ==
  /\ runs[r].state = "threads"
  /\ Proceeds(r, [runs[r] EXCEPT !.state = "claim", !.view = [threads |-> pr.threads] @@ @])
  /\ UNCHANGED proved

\* the claim and the clock.
ReadClaim(r) ==
  /\ runs[r].state = "claim"
  /\ Proceeds(r, [runs[r] EXCEPT !.state = "judge",
       !.view = @ @@ [candidates |-> pr.candidates, now |-> now] @@ Moment(pr, now)])
  /\ proved' = {m \in proved : m[1] = r => m[2] = pr.candidates}

Ends(r, conclusion, reasons) ==
  /\ Proceeds(r, [runs[r] EXCEPT !.state = "done", !.doomed = FALSE, !.conclusion = conclusion,
                                 !.reasons = reasons, !.polls = 0, !.view = None])
  /\ proved' = IF conclusion = "success" THEN proved ELSE ProvedBut(r)

\* A reading may fail, and the run with it: it leaves no verdict.
ReadingFails(r) ==
  /\ scene \in {"companion", "twins"} /\ runs[r].state = "reviews" /\ runs[r].attempt = 1
  /\ Ends(r, "failure", {})

\* What of the verdict only a review of the head can remove.
Awaited(v) ==
  LET review == Verdict!LatestReview(v.reviews, v.head)
  IN  IF Verdict!Applicability(v, Policy) # "applicable" THEN {}
      ELSE IF ~ review.found THEN {"never reviewed"}
      ELSE IF ~ review.matches THEN {"uncovered head"} ELSE {}

\* The verdict; while all that is missing is a first review the run reads all again, for
\* some time (runAdvisoryConvergenceWithPoll).
MaxPolls == IF scene \in {"twins", "push", "companion"} THEN 0 ELSE 1

Judge(r) ==
  /\ runs[r].state = "judge"
  /\ LET v == runs[r].view
     IN  IF Verdict!Ready(v, Policy) THEN Ends(r, "success", {})
         ELSE \/ /\ Verdict!NeverReviewed(v, Policy) /\ runs[r].polls < MaxPolls
                 /\ ReadsHead(r, [runs[r] EXCEPT !.polls = @ + 1])
              \/ /\ ~ Verdict!NeverReviewed(v, Policy) \/ runs[r].polls = MaxPolls
                 /\ Ends(r, "failure", Awaited(v))

\* A run that a newer one of its group has taken the place of.
Cancelled(r) ==
  /\ runs[r].doomed
  /\ Ends(r, "cancelled", {})

Run(r) ==
  \/ Begin(r) \/ ReadComments(r) \/ ReadReviews(r) \/ ReadThreads(r) \/ ReadClaim(r)
  \/ ReadingFails(r) \/ Judge(r) \/ Cancelled(r)

-----------------------------------------------------------------------------
(* rerun-advisory-convergence.mjs --apply, with or without                 *)
(* --refresh-latest, called by the companion or by the agent.              *)

Helps(who, job) ==
  /\ helper' = [helper EXCEPT ![who] = job]
  /\ UNCHANGED <<now, scene, pr, runs, proved>>

Call(refresh) == [Idle EXCEPT !.phase = "list", !.refresh = refresh, !.since = now]

\* The companion takes the event that is pending. Only for a word of the agent's, or for
\* a review, it goes on.
CompanionStarts ==
  /\ queue # None /\ helper["companion"].phase = "idle"
  /\ queue' = None
  /\ CASE queue.kind = "other"  -> Helps("companion", Idle)
       [] queue.kind = "review" -> Helps("companion", Call(TRUE))
       [] queue.kind = "idd"    -> Helps("companion", [Idle EXCEPT !.phase = "debounce", !.at = queue.at])

\* After a quiet moment it leaves the refresh to the run for a later word, if there is one.
Debounce ==
  /\ helper["companion"].phase = "debounce"
  /\ Helps("companion", IF pr.said > helper["companion"].at THEN Idle ELSE Call(FALSE))
  /\ UNCHANGED queue

\* The agent calls the helper when a run has failed; by itself first, and to refresh all
\* when its own check says that the pull request is ready.
AgentCalls(refresh) ==
  /\ Tended /\ helper["agent"].phase = "idle" /\ (scene = "companion" => refresh)
  /\ \E r \in RunsOf(pr.head) : runs[r].state = "done" /\ runs[r].conclusion \notin {"success", "action_required"}
  /\ \A r \in RunsOf(pr.head) : runs[r].state = "done"
  /\ refresh => Told = {}
  /\ Helps("agent", Call(refresh))
  /\ UNCHANGED queue

\* collectFromGitHub lists the check runs of the head, those of earlier attempts too,
ListCheckRuns(who) ==
  LET Status(r)  == CASE r.state = "queued" -> "queued" [] r.state = "done" -> "completed" [] OTHER -> "in_progress"
      Current(r) == [id |-> <<r, Plans!Nothing>>, run |-> r, status |-> Status(runs[r]),
                     conclusion |-> IF runs[r].state = "done" THEN runs[r].conclusion ELSE Plans!Nothing,
                     started |-> runs[r].began]
      Past(r)    == {[id |-> <<r, c>>, run |-> r, status |-> "completed", conclusion |-> c, started |-> 0] :
                        c \in runs[r].past}
      there      == {r \in RunsOf(pr.head) : runs[r].state # "none"}
  IN  /\ helper[who].phase = "list"
      /\ Helps(who, [helper[who] EXCEPT !.phase = "look", !.head = pr.head,
                                        !.found = UNION {Past(r) \union {Current(r)} : r \in there}])
      /\ UNCHANGED queue

\* looks up their workflow runs with the logs, which may fail (the agent would call again),
LookUpRuns(who) ==
  LET job == helper[who]
  IN  /\ job.phase = "look"
      /\ \E lost \in SUBSET (IF scene = "companion" /\ who = "companion" THEN {i.run : i \in job.found} ELSE {}) :
           Helps(who, [job EXCEPT !.phase = "plan", !.found =
             {[id |-> i.id, run |-> i.run, status |-> i.status, conclusion |-> i.conclusion, started |-> i.started,
               typedBot |-> FALSE, actors |-> IF i.conclusion = "action_required" THEN {primary} ELSE {agent},
               found |-> i.run \notin lost, event |-> EventOf(i.run), attempt |-> runs[i.run].attempt,
               reasons |-> IF i.status = "completed" /\ i.conclusion \notin Plans!PassConclusions
                           THEN runs[i.run].reasons ELSE {},
               runStatus |-> IF runs[i.run].state = "done" THEN "completed" ELSE "in_progress"] : i \in @}])
      /\ UNCHANGED queue

\* whether the head has been reviewed, if a log asks for it, and makes its plan: the
\* plain call takes the first of its runs and will plan anew, a refresh takes them all.
Plan(who) ==
  LET job     == helper[who]
      covered == Verdict!LatestReview(pr.reviews, job.head).matches
      next    == Plans!NextRerun(Plans!RerunPlan(job.found, covered, "rerun-once"))
      all     == Plans!RefreshPlan(job.found, "rerun-once")
      lost    == {i.run : i \in {j \in job.found : ~ j.found}}
      planned == [job EXCEPT !.found = {}, !.lost = lost]
  IN  /\ job.phase = "plan"
      /\ Helps(who, IF job.refresh THEN [planned EXCEPT !.phase = "next", !.pending = all.pending, !.todo = all.runs]
                    ELSE IF next = <<>> THEN Idle
                    ELSE [planned EXCEPT !.phase = "rerun", !.run = Head(next)])
      /\ UNCHANGED queue

\* A refresh takes the runs that were under way first, each when it has ended
\* (waitForRunCompletion), and none once the head has moved.
NextCommand(who) ==
  LET job == helper[who]
      Go(r, rest) == IF pr.head # job.head THEN Helps(who, rest)
                     ELSE Helps(who, [rest EXCEPT !.phase = "rerun", !.run = r])
  IN  /\ job.phase = "next"
      /\ \/ /\ job.pending # <<>> /\ runs[Head(job.pending)].state = "done"
            /\ Go(Head(job.pending), [job EXCEPT !.pending = Tail(@)])
         \/ /\ job.pending = <<>> /\ job.todo # <<>>
            /\ Go(Head(job.todo), [job EXCEPT !.todo = Tail(@)])
      /\ UNCHANGED queue

RefreshEnds(who) ==
  /\ helper[who].phase = "next" /\ helper[who].pending = <<>> /\ helper[who].todo = <<>>
  /\ Helps(who, Idle)
  /\ UNCHANGED queue

\* A command fails: a refresh counts it as failed and goes on with the next, a plain call
\* ends.
Fails(who, r, rest) ==
  Helps(who, IF rest.refresh THEN [rest EXCEPT !.phase = "next", !.failed = @ \union {r}] ELSE Idle)

\* gh run rerun: the run is made again and takes the place of what is under way in its
\* concurrency group. GitHub refuses it for a run that has not ended.
Rerun(who) ==
  LET job == helper[who]
      r   == job.run
  IN  /\ job.phase = "rerun"
      /\ \/ runs[r].state # "done" /\ Fails(who, r, job)
         \/ /\ runs[r].state = "done"
            /\ helper' = [helper EXCEPT ![who] = [job EXCEPT !.phase = "await"]]
            /\ runs' = [s \in RunIds |->
                 IF s = r THEN [FirstAttempt EXCEPT !.attempt = 2, !.past = runs[r].past \union {runs[r].conclusion}]
                 ELSE IF EventOf(s) = EventOf(r) /\ runs[s].state \in UnderWay
                 THEN [runs[s] EXCEPT !.doomed = TRUE] ELSE runs[s]]
            /\ proved' = ProvedBut(r)
            /\ UNCHANGED <<now, scene, pr>>
      /\ UNCHANGED queue

\* waitForNewAttempt; the new attempt is there as soon as the rerun is.
Await(who) ==
  LET job == helper[who]
  IN  /\ job.phase = "await" /\ runs[job.run].state = "done"
      /\ Helps(who, IF job.refresh THEN [job EXCEPT !.phase = "next"]
                    ELSE [Idle EXCEPT !.phase = "list", !.since = job.since])
      /\ UNCHANGED queue

\* Something throws. While the call still collects, that is its end; later the command has
\* failed, be it the wait for a run under way, the reading of the head, the rerun itself or
\* the wait for the new attempt, which goes on nevertheless.
CallFails(who) ==
  LET job == helper[who]
  IN  /\ \/ job.phase \in {"list", "look"} /\ Helps(who, Idle)
         \/ /\ job.phase = "next" /\ job.pending # <<>>
            /\ Fails(who, Head(job.pending), [job EXCEPT !.pending = Tail(@)])
         \/ /\ job.phase = "next" /\ job.pending = <<>> /\ job.todo # <<>>
            /\ Fails(who, Head(job.todo), [job EXCEPT !.todo = Tail(@)])
         \/ job.phase = "rerun" /\ runs[job.run].state = "done" /\ Fails(who, job.run, job)
         \/ job.phase = "await" /\ Fails(who, job.run, job)
      /\ UNCHANGED queue

\* The runs for which a refresh exits with an error in the end.
Reported(job) == job.lost \union job.failed

Apply(who) ==
  \/ ListCheckRuns(who) \/ LookUpRuns(who) \/ Plan(who) \/ NextCommand(who) \/ RefreshEnds(who)
  \/ Rerun(who) \/ Await(who) \/ CallFails(who)

Companion == CompanionStarts \/ Debounce \/ Apply("companion")

Next ==
  \/ World
  \/ \E r \in RunIds : Run(r)
  \/ Companion
  \/ \E refresh \in BOOLEAN : AgentCalls(refresh)
  \/ Apply("agent")

Spec == Init /\ [][Next]_vars

\* GitHub runs what is queued, the companion does its work and the agent its own: it does
\* what a check tells it and refreshes what has failed. Nobody has to say anything.
Fairness ==
  /\ \A r \in RunIds : WF_vars(Tended /\ Run(r))
  /\ WF_vars(Tended /\ Companion) /\ WF_vars(Tended /\ Apply("agent")) /\ SF_vars(Tended /\ AgentCalls(TRUE))

FairSpec == Spec /\ Fairness

-----------------------------------------------------------------------------
(* Properties.                                                             *)

(* A run that passes does not pass on a mixture of the review: though      *)
(* reviews, threads, their answers, acknowledgements and the claim all     *)
(* change between its readings, there was one moment, after it took the    *)
(* head and before its verdict, at which the whole pull request was ready  *)
(* under the claim that the run judges by.  The claim alone may be of a    *)
(* later moment than the rest.  (A verdict on a head that has been pushed  *)
(* over meanwhile is not meant: nothing is decided by it.)                 *)
VerdictWasTrueOnce ==
  \A r \in RunsOf(pr.head) : runs[r].state = "done" /\ runs[r].conclusion = "success" => \E m \in proved : m[1] = r

(* When a refresh is over, every run of the head has a verdict of its own  *)
(* time, none of what had been said before the call is missing in it,      *)
(* whatever else was run, cancelled or refused and whichever commands      *)
(* failed - or it is one of those for which the refresh exits with an      *)
(* error.  No run is left stale in silence.                                *)
StaleRunsAreReported ==
  \A who \in DOMAIN helper :
    LET job == helper[who]
    IN  job.phase = "next" /\ job.pending = <<>> /\ job.todo = <<>> /\ job.head = pr.head =>
          \A r \in RunsOf(pr.head) \ Reported(job) :
            runs[r].state \in Reading \union {"done"} /\ runs[r].conclusion # "action_required" =>
              runs[r].began >= job.since

Green == \A r \in RunsOf(pr.head) : runs[r].state = "done" /\ runs[r].conclusion \in {"success", "action_required"}

(* Once the agent has nothing left to do, nobody says anything more and    *)
(* the calls of the helper no longer fail, the check turns green for every *)
(* event and stays so.                                                     *)
SettledTurnsGreen ==
  Tended =>
    (<>[](Told = {}) /\ <>[][~ \E who \in DOMAIN helper : CallFails(who)]_vars => <>[]Green)

(* A run of the check for the present head is only cancelled when another  *)
(* commit is pushed, not by the companion.                                 *)
InFlightRunSurvives ==
  [][\A r \in RunsOf(pr.head) : runs'[r].doomed => runs[r].doomed \/ pr'.head # pr.head]_vars
=============================================================================
