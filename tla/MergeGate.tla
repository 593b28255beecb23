------------------------------ MODULE MergeGate ------------------------------
(***************************************************************************)
(* A pull request and the command that merges it.  People and bots         *)
(* comment, edit, review and reply, runs of the required check start and   *)
(* end, commits are pushed and another session may take the claim over,    *)
(* while an agent answers, records a watermark of the activity it has seen *)
(* and calls idd-merge-execute.mjs --apply.  The command reads the pull    *)
(* request piece by piece (collectPreMergeReadiness), twice, and merges if *)
(* none of the gates of computePreMergeReadinessBlockers is shut.          *)
(*                                                                         *)
(* The required check is the advisory convergence check, which a waiver    *)
(* covers only after a deadline.  Times are seconds, so that several       *)
(* things can happen at one time.                                          *)
(***************************************************************************)
EXTENDS Integers, Sequences, FiniteSets, TLC

CONSTANTS
  agent,            \* the account of the agent, author of the pull request
  person, bot,      \* a reviewer and an advisory bot
  primary, nobody,  \* the primary reviewer, a bot, and the empty login
  check,            \* the name of the required check
  Scenes,           \* which part of the world moves in a behaviour
  MaxHeads, MaxTime, MaxWords, MaxRuns

ASSUME NamesAssumption ==
  agent # person /\ agent # bot /\ person # bot /\ check # "none"
ASSUME BoundsAssumption ==
  /\ MaxHeads \in Nat \ {0} /\ MaxTime \in Nat \ {0} /\ MaxWords \in Nat /\ MaxRuns \in Nat

Talk == INSTANCE DispositionEvidence WITH
          Agents <- {agent}, Trusted <- {agent}, KnownBots <- {bot},
          ConfiguredBots <- {bot}, Rabbit <- bot, PrAuthor <- agent
Rollup == INSTANCE CheckRollup WITH Convergence <- check, Actions <- bot
Owners == INSTANCE CodeownerApproval
Wait == INSTANCE AdvisoryWait WITH Primary <- primary, Secondary <- nobody, NoLogin <- nobody

VARIABLES
  now,              \* the clock
  scene,            \* what may happen in this behaviour
  pr,               \* the pull request on GitHub
  seen,             \* the snapshot that the agent is about to record, or NoView
  phase,            \* where the command is
  round,            \* 1: the gates, 2: revalidation, 3: revalidation of the fallback
  view,             \* what the command has read in this round
  expected,         \* the head that the first round passed
  merged            \* how the pull request was merged, or NoView

vars == <<now, scene, pr, seen, phase, round, view, expected, merged>>

NoView == [none |-> TRUE]

\* The deadline after the head commit at which a waiver of the check counts.
Deadline == 1

Selector == [text |-> check, hits |-> {check}]

\* The CODEOWNERS rule of the changed file and the rules of the base branch.
Ruled(s) == s \in {"sole-owner", "two-owners"}
Owned(s) == [users |-> CASE s = "sole-owner" -> {agent} [] s = "two-owners" -> {agent, person} [] OTHER -> {},
             teams |-> {}, emails |-> {}]
Rules(s) ==
  {[type |-> "pull_request", approvals |-> 0, codeOwner |-> Ruled(s), conversation |-> FALSE],
   [type |-> "required_status_checks", strict |-> TRUE, checks |-> {[name |-> check, pinned |-> FALSE]}]}
Classic == [approvals |-> 0, codeOwner |-> FALSE, conversation |-> FALSE, checks |-> {}, strict |-> FALSE]

\* The windows of the wait for the primary reviewer.
WaitPolicy == [requestCap |-> 1, pendingWindow |-> 2, settledWindow |-> 1, recoveryCycleCap |-> 1]
QuietMinutes == IF scene = "wait" THEN 1 ELSE 0

\* A run of the check that begins now.
Run(state, done) ==
  [name |-> check, producer |-> "check-run", state |-> state, began |-> now, done |-> done]

Init ==
  /\ now = 1
  /\ scene \in Scenes
  /\ pr = [head |-> 1, committed |-> 1, comments |-> {}, threads |-> {}, reviews |-> <<>>,
           checks |-> IF scene = "checks" THEN {} ELSE {Run("SUCCESS", 1)},
           waivers |-> {}, marks |-> <<>>, claim |-> "mine", runs |-> 0, words |-> 0, behind |-> FALSE,
           listed |-> IF scene = "wait" THEN {primary} ELSE {},
           timeline |-> <<[event |-> "committed", what |-> 1]>> \o
                        IF scene = "wait" THEN <<[event |-> "requested", what |-> primary]>> ELSE <<>>,
           markers |-> IF scene # "wait" THEN {}
                       ELSE {[author |-> agent, kind |-> "wait", head |-> 1, agent |-> agent,
                              claim |-> "mine", at |-> 1]}]
  /\ seen = NoView /\ view = NoView /\ expected = 0 /\ merged = NoView
  /\ phase = "idle" /\ round = 0

-----------------------------------------------------------------------------
(* What happens to the pull request.                                       *)

Open == merged = NoView

Tick ==
  /\ Open /\ now < MaxTime
  /\ now' = now + 1
  /\ UNCHANGED <<scene, pr, seen, phase, round, view, expected, merged>>

Happens(change) ==
  /\ Open
  /\ pr' = change
  /\ UNCHANGED <<now, scene, seen, phase, round, view, expected, merged>>

\* The last time at which somebody may say something that wants an answer.
Talking(s) == scene = s /\ pr.words < MaxWords /\ now < MaxTime

Word(who, kind, names) ==
  [id |-> pr.words + 1, author |-> who, kind |-> kind, names |-> names, stamped |-> FALSE,
   at |-> now, edited |-> now]

\* A person comments, or a bot posts a notice.
Comment ==
  /\ Talking("comments")
  /\ \E w \in {Word(person, "plain", bot), Word(bot, "notice", bot)} :
       Happens([pr EXCEPT !.comments = @ \union {w}, !.words = @ + 1])

\* A person edits a comment.
Edit ==
  /\ Talking("comments")
  /\ \E c \in pr.comments :
       /\ c.author = person /\ c.edited < now
       /\ Happens([pr EXCEPT !.comments = (@ \ {c}) \union {[c EXCEPT !.edited = now]}, !.words = @ + 1])

\* A person opens a thread, or somebody replies in one.
Reply ==
  /\ Talking("thread")
  /\ \/ /\ pr.threads = {}
        /\ Happens([pr EXCEPT !.threads = {[id |-> 1, comments |-> <<Word(person, "plain", bot)>>, resolved |-> FALSE]},
                              !.words = @ + 1])
     \/ \E t \in pr.threads, w \in {Word(person, "plain", bot), Word(bot, "ack", bot)} :
          Happens([pr EXCEPT !.threads = {[t EXCEPT !.comments = Append(@, w)]}, !.words = @ + 1])

Opinion(who, s) == [author |-> who, state |-> s, commit |-> pr.head, at |-> now, id |-> Len(pr.reviews) + 1]

\* A person approves, or asks for changes.
Review ==
  /\ scene = "two-owners" /\ Len(pr.reviews) < 2
  /\ \E s \in {"APPROVED", "CHANGES_REQUESTED", "COMMENTED"} :
       Happens([pr EXCEPT !.reviews = Append(@, Opinion(person, s))])

\* The primary reviewer answers the request, late or never.
PrimaryAnswers ==
  /\ scene = "wait" /\ primary \in pr.listed /\ now < MaxTime
  /\ Happens([pr EXCEPT !.listed = {}, !.reviews = Append(@, Opinion(primary, "COMMENTED"))])

\* A commit is pushed, on top of the base branch; the checks of the head are those of
\* the new one.
Push ==
  /\ scene = "claim" /\ pr.head < MaxHeads
  /\ Happens([pr EXCEPT !.head = @ + 1, !.committed = now, !.behind = FALSE,
                        !.timeline = Append(@, [event |-> "committed", what |-> pr.head + 1]),
                        !.checks = {Run("IN_PROGRESS", Rollup!NoTime)}])

\* Somebody else's pull request is merged.
BaseMoves ==
  /\ scene = "claim" /\ ~ pr.behind
  /\ Happens([pr EXCEPT !.behind = TRUE])

StartCheck ==
  /\ \/ scene = "checks" /\ pr.runs < MaxRuns
     \/ scene = "sole-owner" /\ pr.runs < MaxRuns - 1
  /\ Happens([pr EXCEPT !.runs = @ + 1,
                           !.checks = @ \union {Run("IN_PROGRESS", Rollup!NoTime)}])

\* A run passes or fails, or is cancelled in favour of another.
EndCheck ==
  \E c \in pr.checks, s \in {"SUCCESS", "FAILURE", "CANCELLED"} :
    /\ c.state = "IN_PROGRESS"
    /\ s = "CANCELLED" => \E d \in pr.checks : d.began > c.began
    /\ Happens([pr EXCEPT !.checks = (@ \ {c}) \union {[c EXCEPT !.state = s, !.done = now]}])

\* Somebody waives the check for the head.
Waive ==
  /\ scene \in {"checks", "sole-owner"} /\ pr.waivers = {}
  /\ \E who \in {agent, person} :
       Happens([pr EXCEPT !.waivers =
         {[wellFormed |-> TRUE, reason |-> "maintainer", author |-> who, head |-> pr.head, claim |-> "mine",
           at |-> now, expires |-> MaxTime + 1, selector |-> Selector, run |-> "none", runHead |-> 0]}])

-----------------------------------------------------------------------------
(* The agent between two calls of the command.                             *)

Missing(p) == Talk!MissingComments(p.comments, p.threads)

Owes(c) == c.edited < now
Owed(t) == (~ t.resolved \/ Talk!MissingThread(t, Talk!AtNone)) /\ \A i \in DOMAIN t.comments : Owes(t.comments[i])

\* It answers a comment; one answer, or one disposition of a notice.
Answer ==
  /\ phase = "idle" /\ seen = NoView
  /\ \E c \in Missing(pr) :
       /\ Owes(c)
       /\ Happens([pr EXCEPT !.comments = @ \union
            {Word(agent, IF c.kind = "notice" THEN "noticeDisposition" ELSE "accepted", bot)}, !.words = @ + 1])

\* It answers in a thread and resolves it.
Settle ==
  /\ phase = "idle" /\ seen = NoView
  /\ \E t \in pr.threads :
       /\ Owed(t)
       /\ Happens([pr EXCEPT
            !.threads = {[t EXCEPT !.comments = Append(@, Word(agent, "accepted", bot)), !.resolved = TRUE]},
            !.words = @ + 1])

PassingAt(p) ==
  LET done == {c.done : c \in {d \in Rollup!SelectLatestCheckPerName(p.checks) : d.state \in Rollup!PassingStates}}
  IN  Talk!Latest(done)

Activity(comments, reviews, threads, p) ==
  Talk!BuildActivitySnapshot(comments, reviews, threads, PassingAt(p))

\* What anybody but the agent has said.
Words(p) ==
  {c \in p.comments \union UNION {Talk!InThread(t) : t \in p.threads} : c.author # agent}
  \union {p.reviews[i] : i \in DOMAIN p.reviews}

\* It reads the activity once it has answered what there is,
ReadActivity ==
  /\ Open /\ phase = "idle" /\ seen = NoView /\ pr.claim = "mine"
  /\ ~ \E c \in Missing(pr) : Owes(c)
  /\ ~ \E t \in pr.threads : Owed(t)
  /\ seen' = [head |-> pr.head, live |-> Activity(pr.comments, pr.reviews, pr.threads, pr), words |-> Words(pr)]
  /\ UNCHANGED <<now, scene, pr, phase, round, view, expected, merged>>

Mark(claim, s) ==
  [author |-> agent, claim |-> claim, head |-> s.head, max |-> s.live.max, count |-> s.live.count,
   passing |-> s.live.passing, at |-> Len(pr.marks) + 1, words |-> s.words]

\* and records it, unless nothing has changed since the last watermark; when the head
\* has moved in between it starts over. Then it calls the command.
RecordWatermark ==
  LET own  == Talk!ResolveLatestReviewWatermark(pr.marks, "mine")
      mark == Mark("mine", seen)
  IN  /\ Open /\ phase = "idle" /\ seen # NoView
      /\ seen' = NoView
      /\ phase' = IF pr.head = seen.head THEN "called" ELSE phase
      /\ pr' = IF pr.head # seen.head \/ \E w \in own : [w EXCEPT !.at = mark.at] = mark
               THEN pr ELSE [pr EXCEPT !.marks = Append(@, mark)]
      /\ UNCHANGED <<now, scene, round, view, expected, merged>>

\* Another session takes the claim over and records what it sees under its own.
Takeover ==
  /\ scene = "claim" /\ pr.claim = "mine"
  /\ Happens([pr EXCEPT !.claim = "theirs",
       !.marks = Append(@, Mark("theirs", [head |-> pr.head, words |-> Words(pr),
                                           live |-> Activity(pr.comments, pr.reviews, pr.threads, pr)]))])

-----------------------------------------------------------------------------
(* What the gates make of a round's readings.                              *)

\* Policy of the repository: mode and selectors of waivers, no pinned checks.
WaiverContext(v) ==
  [claim |-> "mine", supersedes |-> "none", head |-> v.head, now |-> v.now, maxValidity |-> MaxTime + 1,
   waivable |-> {Selector}, mode |-> "maintainer-authorized", trusted |-> {agent}, allowAuto |-> FALSE]

CiOptions == [trustPinned |-> FALSE, unresolvedNames |-> {}, unreadable |-> FALSE]

Live(v) == Talk!BuildActivitySnapshot(v.comments, v.reviews, v.threads, PassingAt([checks |-> v.checks]))

Waivers(v) == Rollup!SummarizeExternalCheckWaivers(v.waivers, WaiverContext(v), "valid")

\* The primary reviewer is unavailable for good.
Recovery(v) ==
  Wait!RecoverySummary(v.markers, v.head, Wait!LastReviewCommit(v.reviews), {agent},
                       [id |-> "mine", agent |-> agent], WaitPolicy, MaxTime, v.now)

Ci(v) ==
  LET pre == Rollup!ConvergencePrecondition(v.committed, Deadline, Recovery(v).unavailable, v.now)
  IN  Rollup!SummarizeRequiredChecks(v.checks, Waivers(v), {Selector}, pre, [relieved |-> FALSE, since |-> 0],
        Rollup!SummarizeBranchReviewRequirements(Rules(scene), Classic), CiOptions)

ReviewerStates(v) ==
  LET req   == Rollup!SummarizeBranchReviewRequirements(Rules(scene), Classic)
      owned == Owned(scene)
      said  == Owners!WhoSaid(v.reviews, "APPROVED")
      mays  == Owners!RulesetBypass(IF Ruled(scene) THEN {1} ELSE {}, {[id |-> 1, bypass |-> "always"]}, FALSE)
      self  == Owners!SelfApproval(req.codeOwner, said \intersect owned.users # {}, owned, owned.users, FALSE,
                                   agent, mays, IF Ruled(scene) THEN {1} ELSE {},
                                   [codeOwner |-> FALSE, bypass |-> FALSE])
  IN  Owners!ReviewerStates(v.reviews, v.decision, {person, agent}, req, owned, owned.users, self)

ReviewCurrency(v) ==
  LET marks == Talk!ResolveLatestReviewWatermark(v.marks, "mine")
  IN  IF marks = {} THEN "missing-watermark"
      ELSE Talk!DiffReviewSnapshot(CHOOSE w \in marks : TRUE, v.head, Live(v))

Boundary(v) == Talk!Latest({w.max : w \in Talk!ResolveLatestReviewWatermark(v.marks, "mine")})

Shut(gate, condition) == IF condition THEN {gate} ELSE {}

\* What was said: seen, settled and quiet.
ActivityGates(v) ==
  Shut("review-currency", ReviewCurrency(v) \notin {"snapshot-current", "ack-only-post-disposition"})
  \union Shut("unresolved-threads", Talk!ActionableThreads(v.threads, FALSE) # {})
  \union Shut("secondary-quiet-window",
              ~ Wait!QuietWindowElapsed(QuietMinutes, Live(v).effectiveMax,
                                        [settledAt |-> 0, declined |-> FALSE], 5, v.now))

\* The primary reviewer: has answered, or has had the time to.
WaitGates(v) ==
  LET summary == Wait!BuildWaitSummary([head |-> v.head, reviews |-> v.reviews, listed |-> v.listed,
                                        listedToo |-> {}, timeline |-> v.timeline, markers |-> v.markers],
                                       {agent}, v.now)
  IN  Shut("advisory-wait", Wait!FinalOutcome(summary, WaitPolicy) # "SATISFIED")
      \union Shut("copilot-terminal-unavailable",
                  Recovery(v).unavailable /\ ~ \E w \in Waivers(v) : w.selector.text = check)

CiGates(v) == Shut("ci", ~ Rollup!IsPreMergeCiAllPassing(Ci(v)))

\* The right to merge.
OwnerGates(v) ==
  LET answered == Talk!SummarizeDispositionEvidence(v.comments, v.threads, Boundary(v))
  IN  Shut("required-reviews", ~ Owners!ReviewSatisfied(ReviewerStates(v)))
      \union Shut("claim-ownership", v.claim # "mine")
      \union Shut("disposition-evidence", ~ answered.complete /\ ~ answered.ackOnly)

\* What GitHub says of the branch.
BranchGates(v) ==
  Shut("branch-currency", v.behind /\ Rollup!RequiresUpToDateHead(Rules(scene), Classic, FALSE))
  \union Shut("discarded-required-check-siblings", v.blocked /\ Ci(v).discarded # {})

\* computePreMergeReadinessBlockers: the gates that are shut.
Blockers(v) == ActivityGates(v) \union WaitGates(v) \union CiGates(v) \union OwnerGates(v) \union BranchGates(v)

\* MUTANT of SoloOwner: an owner that may bypass the rule is enough.
SoloOwnerBypassing(v) == ReviewerStates(v).self.status = "clear"

\* isEligibleForSoloCodeownerAdminFallback
SoloOwner(v) == LET self == ReviewerStates(v).self IN self.status = "clear" /\ self.sole

-----------------------------------------------------------------------------
(* idd-merge-execute --apply.                                              *)

\* GitHub refuses while the required check has not passed or an owner has not approved;
\* a bypass of the rule works for --admin only.
CheckPasses(p) == \E c \in Rollup!SelectLatestCheckPerName(p.checks) : c.state \in Rollup!PassingStates
Protected(p) ==
  \/ p.behind
  \/ Ruled(scene) /\ Owners!WhoSaid(p.reviews, "APPROVED") \intersect (Owned(scene).users \ {agent}) = {}
  \/ "CHANGES_REQUESTED" \in {p.reviews[i].state : i \in Owners!Verdicts(p.reviews)}

Decision(p) == IF \E i \in Owners!Verdicts(p.reviews) : p.reviews[i].state = "CHANGES_REQUESTED"
               THEN "CHANGES_REQUESTED" ELSE "none"

Goto(p) == phase' = p /\ UNCHANGED <<now, scene, pr, seen>>

Abort == Goto("idle") /\ round' = 0 /\ view' = NoView /\ expected' = 0 /\ UNCHANGED merged

\* A round reads the head with its checks first,
ReadSnapshot ==
  /\ Open
  /\ \/ phase = "called" /\ round' = 1 /\ expected' = pr.head
     \/ phase = "revalidate" /\ pr.head = expected /\ round' = round + 1 /\ UNCHANGED expected
  /\ view' = [head |-> pr.head, committed |-> pr.committed, checks |-> pr.checks,
              behind |-> pr.behind, blocked |-> Protected(pr), decision |-> Decision(pr)]
  /\ Goto("reviews") /\ UNCHANGED merged

\* revalidateImmediatelyBeforeMerge gives up when the head has moved.
HeadDrift == Open /\ phase = "revalidate" /\ pr.head # expected /\ Abort

\* What is read later in a round is added to what has been read.
Reading(more) ==
  [f \in DOMAIN view \union DOMAIN more |-> IF f \in DOMAIN more THEN more[f] ELSE view[f]]

\* then the reviews, who was asked for one, and when,
ReadReviews ==
  /\ Open /\ phase = "reviews"
  /\ view' = Reading([reviews |-> pr.reviews, listed |-> pr.listed, timeline |-> pr.timeline])
  /\ Goto("comments") /\ UNCHANGED <<round, expected, merged>>

\* then the comments of the pull request and, right after, those of the issue with its
\* claim,
ReadComments ==
  /\ Open /\ phase = "comments"
  /\ view' = Reading([comments |-> pr.comments, waivers |-> pr.waivers, marks |-> pr.marks,
                      markers |-> pr.markers, claim |-> pr.claim])
  /\ Goto("threads") /\ UNCHANGED <<round, expected, merged>>

\* and at last the threads and the clock.
ReadThreads ==
  /\ Open /\ phase = "threads"
  /\ view' = Reading([threads |-> pr.threads, now |-> now])
  /\ Goto("judge") /\ UNCHANGED <<round, expected, merged>>

\* The first round leads to the second and that to the merge, the third to --admin.
Judge ==
  /\ Open /\ phase = "judge"
  /\ IF Blockers(view) # {} \/ view.head # expected \/ (round = 3 /\ ~ SoloOwner(view))
     THEN Abort
     ELSE /\ Goto(CASE round = 1 -> "revalidate" [] round = 2 -> "merge" [] OTHER -> "admin")
          /\ UNCHANGED <<round, view, expected, merged>>

\* gh pr merge --match-head-commit
Matches == pr.head = expected

Done(admin) == [head |-> pr.head, admin |-> admin, view |-> view]

MergePr ==
  /\ Open /\ phase = "merge" /\ Matches /\ CheckPasses(pr) /\ ~ Protected(pr)
  /\ merged' = Done(FALSE)
  /\ Goto("done") /\ UNCHANGED <<round, view, expected>>

\* GitHub refuses; only the policy of the base branch leads to the fallback, which the
\* configuration may switch off.
Refused ==
  /\ Open /\ phase = "merge" /\ ~ (Matches /\ CheckPasses(pr) /\ ~ Protected(pr))
  /\ \/ Abort
     \/ /\ Matches /\ SoloOwner(view)
        /\ Goto("revalidate") /\ UNCHANGED <<round, view, expected, merged>>

\* isSafeSoloCodeownerAdminMergeState, where the branch has to be up to date.
SafeMergeState(mergeState) == mergeState = "CLEAN"

\* The fallback asks for the live state of the merge once more; GitHub may still be
\* working it out.
ReadMergeState ==
  /\ Open /\ phase = "admin"
  /\ \E s \in {IF CheckPasses(pr) THEN "CLEAN" ELSE "BLOCKED", "UNKNOWN"} :
       IF SafeMergeState(s)
       THEN /\ view' = Reading([passing |-> CheckPasses(pr)])
            /\ Goto("merge-admin") /\ UNCHANGED <<round, expected, merged>>
       ELSE Abort

\* gh pr merge --match-head-commit --admin
MergePrAdmin ==
  /\ Open /\ phase = "merge-admin" /\ Matches
  /\ merged' = Done(TRUE)
  /\ Goto("done") /\ UNCHANGED <<round, view, expected>>

AdminRefused == Open /\ phase = "merge-admin" /\ Abort

Command ==
  \/ ReadSnapshot \/ HeadDrift \/ ReadReviews \/ ReadComments \/ ReadThreads
  \/ Judge \/ MergePr \/ Refused \/ ReadMergeState \/ MergePrAdmin \/ AdminRefused

World ==
  \/ Comment \/ Edit \/ Reply \/ Review \/ PrimaryAnswers \/ Push \/ BaseMoves \/ StartCheck \/ EndCheck \/ Waive \/ Takeover

Next == Tick \/ World \/ Answer \/ Settle \/ ReadActivity \/ RecordWatermark \/ Command

Spec == Init /\ [][Next]_vars

\* The clock goes on, a check that began ends, the agent does its work and a call of
\* the command ends; nobody has to say, push or review anything.
Fairness ==
  /\ WF_vars(Tick) /\ WF_vars(EndCheck)
  /\ WF_vars(Answer) /\ WF_vars(Settle) /\ WF_vars(ReadActivity) /\ WF_vars(RecordWatermark)
  /\ WF_vars(Command)

FairSpec == Spec /\ Fairness

-----------------------------------------------------------------------------
(* Properties.                                                             *)

\* The command has made up its mind to merge what it has in view.
Decided == phase \in {"merge", "admin", "merge-admin", "done"}

(* The record of a pull request: types of the parts that move. *)
TypeOK ==
  /\ now \in 1..MaxTime /\ scene \in Scenes
  /\ pr.head \in 1..MaxHeads /\ pr.committed \in 1..MaxTime
  /\ Cardinality(pr.checks) <= MaxRuns + 1 /\ pr.claim \in {"mine", "theirs"}
  /\ phase \in {"idle", "called", "reviews", "comments", "threads", "judge", "revalidate",
                "merge", "admin", "merge-admin", "done"}
  /\ round \in 0..3 /\ expected \in 0..MaxHeads
  /\ (phase = "idle" => round = 0 /\ view = NoView)
  /\ (phase = "done" <=> merged # NoView)

(* Nothing that a person said goes unseen: every review, comment and reply *)
(* that the command had in view when it decided to merge had been in front *)
(* of the agent, in its present wording, when it took its watermark.  Only *)
(* an edit or a reply of the very second of the last activity that the     *)
(* watermark names can be missed.                                          *)
NothingUnseen ==
  Decided =>
    \A w \in Talk!ResolveLatestReviewWatermark(view.marks, "mine") :
      LET replies == UNION {Talk!InThread(t) : t \in view.threads}
      IN  \A c \in Words(view) :
            \/ c \in w.words \/ c.author # person
            \/ c \in replies /\ c.edited = w.max
            \/ c \in view.comments /\ c.at < c.edited /\ c.edited = w.max

(* Every comment has an answer of its own: one can give each comment of    *)
(* the pull request an answer that came after it (a notice also one that   *)
(* disposes of notices), and no answer twice.                              *)
AnsweredOneByOne ==
  Decided =>
    LET asked   == {c \in view.comments : c.author # agent}
        answers == {c \in view.comments : c.author = agent}
        Fits(a, c) == \/ a.edited > c.edited
                      \/ c.kind = "notice" /\ a.kind = "noticeDisposition"
    IN  \E f \in [asked -> answers] :
          /\ \A c \in asked : Fits(f[c], c)
          /\ \A c, d \in asked : f[c] = f[d] => c = d

(* The commit that is merged is the one whose checks and activity were     *)
(* looked at: no run of the required check was under way, and the last one *)
(* to end passed, or failed after the deadline and after a trusted login   *)
(* had waived it for this very commit.                                     *)
MergedOnItsChecks ==
  /\ Decided =>
       LET ended == {c \in view.checks : c.done # Rollup!NoTime}
           last  == {c \in ended : \A d \in ended : d.done <= c.done}
       IN  /\ view.checks = ended /\ ended # {}
           /\ \/ \A c \in last : c.state \in {"SUCCESS", "CANCELLED"}
              \/ \E w \in view.waivers : \A c \in last :
                   /\ w.author = agent /\ w.head = view.head
                   /\ c.done >= w.at /\ c.done >= view.committed + Deadline
           /\ \A w \in Talk!ResolveLatestReviewWatermark(view.marks, "mine") : w.head = view.head
  /\ merged # NoView => merged.head = merged.view.head

(* Rules are only overridden for an owner who has nobody else to ask, and  *)
(* never over a check that is not passing.                                 *)
AdminOnlyForSoleOwner ==
  phase \in {"merge-admin", "done"} /\ (phase = "done" => merged.admin) =>
    scene = "sole-owner" /\ view.passing

(* A pull request whose check has passed, that nobody objects to and whose *)
(* claim is kept is merged in the end, once people and bots fall silent.   *)
Mergeable ==
  /\ pr.claim = "mine"
  /\ CheckPasses(pr) /\ \A c \in pr.checks : c.state # "IN_PROGRESS"
  /\ Rollup!FindDiscardedNonPassingSiblings(pr.checks) = {}
  /\ ~ Protected(pr)

MergeableIsMerged == <>[](Mergeable \/ merged # NoView) => <>(merged # NoView)
=============================================================================
