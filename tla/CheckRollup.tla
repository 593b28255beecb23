---------------------------- MODULE CheckRollup ----------------------------
(***************************************************************************)
(* What the merge gate makes of the check runs of a head commit:           *)
(* protocol-helpers.mjs reduces the rollup to the latest instance per      *)
(* producer, covers failing checks by waivers and compares the result with *)
(* the checks that branch rules and classic protection require.            *)
(*                                                                         *)
(* A check is [name, producer, state, began, done], times are natural      *)
(* numbers and NoTime stands for a time that is missing or the sentinel.   *)
(***************************************************************************)
EXTENDS Naturals, FiniteSets, FiniteSetsExt

CONSTANTS
  Convergence,      \* the name of the advisory-convergence check
  Actions           \* the login of github-actions[bot]

NoTime == 0

\* CHECK_PASS_EQUIVALENT_STATES.
PassingStates == {"SUCCESS", "SKIPPED", "NEUTRAL", "NOT_APPLICABLE"}

\* CI_FAILURE_CONCLUSION_STATES.
FailureStates == {"FAILURE", "TIMED_OUT", "ACTION_REQUIRED", "STARTUP_FAILURE", "STALE", "ERROR"}

\* The states classifyCiChecks waits for.
PendingStates == {"QUEUED", "IN_PROGRESS", "WAITING"}

\* A rollup entry is a check run or a commit status; a status has one timestamp,
\* and its PENDING and EXPECTED are IN_PROGRESS.
NormalizeRollupEntry(e) ==
  IF e.status
  THEN [name |-> e.name, producer |-> "status-context", began |-> e.done, done |-> e.done,
        state |-> IF e.state \in {"PENDING", "EXPECTED"} THEN "IN_PROGRESS" ELSE e.state]
  ELSE [name |-> e.name, producer |-> e.producer, began |-> e.began, done |-> e.done, state |-> e.state]

-----------------------------------------------------------------------------
(* The latest instance of a check.                                         *)

\* Of two instances that end together a failure counts before anything else and a
\* cancellation last.
CiStateTieRank(s) == IF s = "CANCELLED" THEN 2 ELSE IF s \in FailureStates THEN 0 ELSE 1

\* The place of a state in the alphabet, the last resort of the comparison.
Alphabetical(s) ==
  LET order == <<"ACTION_REQUIRED", "CANCELLED", "ERROR", "FAILURE", "IN_PROGRESS", "NEUTRAL",
                 "NOT_APPLICABLE", "QUEUED", "SKIPPED", "STALE", "STARTUP_FAILURE", "SUCCESS",
                 "TIMED_OUT", "UNKNOWN", "WAITING">>
  IN  CHOOSE i \in DOMAIN order : order[i] = s

\* An instance that has not ended is newer than any that has.
IsNewerCheckInstance(c, d) ==
  \/ c.done # NoTime /\ d.done # NoTime /\ c.done > d.done
  \/ c.done = NoTime /\ d.done # NoTime
  \/ /\ c.done = d.done
     /\ \/ CiStateTieRank(c.state) < CiStateTieRank(d.state)
        \/ CiStateTieRank(c.state) = CiStateTieRank(d.state) /\ Alphabetical(c.state) < Alphabetical(d.state)

\* The instance the reduction over a group ends with, in whatever order it runs.
SelectLatestCheckInstance(group) ==
  CHOOSE c \in group : \A d \in group : ~ IsNewerCheckInstance(d, c)

\* The instances that are one check: a name from two workflows is two checks.
GroupChecksByProducer(checks) ==
  {{d \in checks : d.name = c.name /\ d.producer = c.producer} : c \in checks}

SelectLatestCheckPerName(checks) ==
  {SelectLatestCheckInstance(g) : g \in GroupChecksByProducer(checks)}

\* Failed or cancelled instances that a passing one of the same producer hides.
FindDiscardedNonPassingSiblings(checks) ==
  UNION {{c \in g : c.state \in FailureStates \union {"CANCELLED"}} :
           g \in {h \in GroupChecksByProducer(checks) :
                    SelectLatestCheckInstance(h).state \in PassingStates}}

\* One failure fails the rollup, then one pending check keeps it pending.
ClassifyCiChecks(checks) ==
  LET latest == SelectLatestCheckPerName(checks)
  IN  IF \E c \in latest : c.state \in FailureStates THEN "failed"
      ELSE IF \E c \in latest : c.state \in PendingStates THEN "pending"
      ELSE IF \A c \in latest : c.state \in PassingStates THEN "success"
      ELSE "unknown"

-----------------------------------------------------------------------------
(* Waivers. A selector is [text, hits]: what is written and the names it   *)
(* matches, which for a glob are several.                                  *)

MatchCheckSelector(name, selector) == name \in selector.hits

IsCheckNameConfiguredWaivable(name, waivable) == \E s \in waivable : MatchCheckSelector(name, s)

WaiverSelectorOverlapsConfiguredWaivable(selector, waivable) ==
  \E s \in waivable : MatchCheckSelector(selector.text, s) \/ MatchCheckSelector(s.text, selector)

\* Which of its lists a waiver comment w lands in; ctx is what the summary was asked
\* for. The tests run in this order, and the first that fails names the list.
WaiverVerdict(w, ctx) ==
  LET bound == IF ctx.claim = "none" THEN w.claim = "none"
               ELSE \/ w.claim = ctx.claim
                    \/ ctx.supersedes # "none" /\ w.claim = ctx.supersedes
  IN  CASE ~ w.wellFormed -> "malformed"
        [] w.wellFormed /\ w.reason = "auto" /\ ~ ctx.allowAuto -> "ignored"
        [] OTHER ->
             IF w.author \notin ctx.trusted THEN "unauthorized"
             ELSE IF w.head # ctx.head THEN "wrongHead"
             ELSE IF ~ bound THEN "wrongClaim"
             ELSE IF w.expires <= ctx.now \/ w.expires - w.at > ctx.maxValidity THEN "expired"
             ELSE IF ~ WaiverSelectorOverlapsConfiguredWaivable(w.selector, ctx.waivable) THEN "notConfigured"
             ELSE IF ctx.mode # "maintainer-authorized" THEN "modeDisabled"
             ELSE "valid"

\* The waivers of one list.
SummarizeExternalCheckWaivers(waivers, ctx, verdict) == {w \in waivers : WaiverVerdict(w, ctx) = verdict}

\* The waiver for the convergence check only counts once the deadline after the head
\* commit has passed or the primary reviewer is terminally unavailable.
ConvergencePrecondition(committed, deadline, unavailable, now) ==
  LET passed == committed # NoTime /\ now >= committed + deadline
  IN  [deadlinePassed |-> passed, open |-> passed \/ unavailable,
       opensAt |-> IF passed THEN committed + deadline ELSE NoTime]

\* MUTANT of HasFreshWaiverCoverage: a waiver also covers the run that failed before it.
HasFreshWaiverCoverageEver(c, valid, activeSince) ==
  c.done # NoTime /\ \E w \in valid : MatchCheckSelector(c.name, w.selector)

\* A run that ended before the waiver was written, or before the waiver could open the
\* gate, is not covered by it: the check has to run again.
HasFreshWaiverCoverage(c, valid, activeSince) ==
  /\ c.done # NoTime
  /\ \E w \in valid : /\ MatchCheckSelector(c.name, w.selector)
                      /\ c.done >= w.at
                      /\ c.done >= activeSince

\* Whether a check that does not pass counts as skipped. pre is the precondition and
\* relief the outage relief of the convergence check, [relieved, since].
CoveredByWaiver(c, valid, waivable, pre, relief) ==
  LET exact     == \E w \in valid : w.selector.text = Convergence
      relieved  == /\ c.name = Convergence /\ pre.open /\ relief.relieved
                   /\ c.done # NoTime /\ c.began # NoTime /\ c.began >= relief.since
      excluded  == c.name = Convergence /\ ~ (pre.open /\ exact)
      since     == IF c.name = Convergence THEN pre.opensAt ELSE NoTime
  IN  /\ c.state \notin PassingStates
      /\ \/ relieved
         \/ /\ ~ excluded
            /\ HasFreshWaiverCoverage(c, valid, since)
            /\ IsCheckNameConfiguredWaivable(c.name, waivable)

-----------------------------------------------------------------------------
(* What the base branch requires. A rule is a record of its type; classic  *)
(* is the classic protection, an empty one when there is none.             *)

\* A governance read that answers 404 is empty; only a repository that says it trusts
\* empty reads may take that for the absence of rules.
FetchGovernance(read, trustEmpty) ==
  [value |-> IF read.found THEN read.value ELSE {}, unreadable |-> ~ read.found /\ ~ trustEmpty]

\* The names that a list of required checks resolves to. A pinned entry without a name
\* cannot be compared with any run.
SummarizeRequiredCheckMetadata(entries) ==
  [names      |-> {e.name : e \in entries} \ {"none"},
   pinned     |-> \E e \in entries : e.pinned,
   unresolved |-> \E e \in entries : e.pinned /\ e.name = "none"]

\* Rules and classic protection together: the stricter of the two everywhere.
SummarizeBranchReviewRequirements(rules, classic) ==
  LET pulls    == {r \in rules : r.type = "pull_request"}
      checks   == UNION {r.checks : r \in {q \in rules : q.type = "required_status_checks"}} \union classic.checks
      meta     == SummarizeRequiredCheckMetadata(checks)
      workflow == \E r \in rules : r.type = "workflows"
  IN  [approvals    |-> Max({r.approvals : r \in pulls} \union {classic.approvals}),
       codeOwner    |-> classic.codeOwner \/ \E r \in pulls : r.codeOwner,
       conversation |-> classic.conversation \/ \E r \in pulls : r.conversation,
       names        |-> meta.names,
       pinned       |-> meta.pinned \/ workflow,
       unresolved   |-> meta.unresolved \/ workflow]

\* Whether a branch that is behind its base may merge; what cannot be read is taken
\* for a rule that forbids it.
RequiresUpToDateHead(rules, classic, unreadable) ==
  \/ \E r \in rules : /\ r.type = "required_status_checks"
                      /\ r.strict
                      /\ SummarizeRequiredCheckMetadata(r.checks).names # {}
  \/ classic.strict
  \/ unreadable

\* The checks with those a waiver covers turned into skipped ones.
Effective(checks, valid, waivable, pre, relief) ==
  {IF CoveredByWaiver(c, valid, waivable, pre, relief) THEN [c EXCEPT !.state = "SKIPPED"] ELSE c :
     c \in checks}

\* The status of the required checks; opt holds the policy flags and unresolved the
\* names whose producer could not be established.
RequiredChecksStatus(effective, req, opt) ==
  LET required == {c \in effective : c.name \in req.names}
      status   == IF req.names = {} THEN "unknown"
                  ELSE IF req.names \ {c.name : c \in required} # {} THEN "missing"
                  ELSE ClassifyCiChecks(required)
  IN  IF /\ status = "success"
         /\ \/ req.pinned /\ (~ opt.trustPinned \/ req.unresolved)
            \/ req.names \intersect opt.unresolvedNames # {}
      THEN "unknown"
      ELSE status

\* What the runs that are there say, for a branch that requires none. Checks that are
\* only cancelled are waiting for their successor.
ResolvePresentRunConclusion(effective, unresolvedNames) ==
  LET status == ClassifyCiChecks(effective)
      odd    == {c \in SelectLatestCheckPerName(effective) : c.state \notin PassingStates}
  IN  IF effective = {} THEN "none"
      ELSE IF \E c \in effective : c.name \in unresolvedNames THEN "some-failing"
      ELSE IF status = "success" THEN "all-passing"
      ELSE IF status = "pending" THEN "pending"
      ELSE IF status = "unknown" /\ \A c \in odd : c.state = "CANCELLED" THEN "pending"
      ELSE "some-failing"

\* The summary of the checks that the gate reads.
SummarizeRequiredChecks(checks, valid, waivable, pre, relief, req, opt) ==
  LET effective == Effective(checks, valid, waivable, pre, relief)
  IN  [status     |-> RequiredChecksStatus(effective, req, opt),
       unreadable |-> opt.unreadable,
       none       |-> ~ opt.unreadable /\ req.names = {} /\ ~ req.pinned,
       present    |-> ResolvePresentRunConclusion(effective, opt.unresolvedNames),
       discarded  |-> FindDiscardedNonPassingSiblings({c \in checks : c.name \in req.names})]

\* Whether the merge gate takes the checks for passing.
IsPreMergeCiAllPassing(ci) ==
  /\ ~ ci.unreadable
  /\ \/ ci.status = "success"
     \/ ci.none /\ ci.present = "all-passing"

-----------------------------------------------------------------------------
(* A convergence run that passed only because of a bootstrap waiver of the *)
(* workflow itself stops counting when that waiver does.                   *)

\* Whether the run behind an automatic waiver is the convergence workflow at this head.
VerifySelfReferentialRun(w, head) == w.run # "none" /\ w.runHead = head

\* The passing convergence runs that the gate looks behind.
SelfConvergenceCandidates(checks, req) ==
  {c \in SelectLatestCheckPerName({d \in checks : d.name = Convergence /\ d.name \in req.names}) :
     c.state \in PassingStates /\ c.producer = "check-run"}

\* The waiver could have been read by the run: it was there before the run ended and
\* had not expired when it began.
ObservableBy(w, c) ==
  c.done = NoTime \/ (w.expires >= (IF c.began # NoTime THEN c.began ELSE c.done) /\ w.at <= c.done)

\* installed is the time the active claim became the active one.
StaleSelfWaiver(checks, req, waivers, ctx, touches, installed) ==
  LET auto  == [ctx EXCEPT !.allowAuto = TRUE, !.trusted = @ \union {Actions}]
      runs  == {w \in waivers : /\ w.author = Actions /\ w.reason = "auto"
                                /\ w.selector.text = Convergence
                                /\ VerifySelfReferentialRun(w, ctx.head)}
      In(v) == SummarizeExternalCheckWaivers(runs, auto, v)
      Covered(c) == \E w \in In("valid") : c.done # NoTime /\ w.at <= c.done /\ c.done <= w.expires
      Bound(c)   == IF c.began # NoTime THEN c.began ELSE c.done
  IN  /\ touches
      /\ ctx.mode = "maintainer-authorized"
      /\ IsCheckNameConfiguredWaivable(Convergence, ctx.waivable)
      /\ \E c \in SelfConvergenceCandidates(checks, req) :
           /\ ~ Covered(c)
           /\ \/ \E w \in In("expired") : ObservableBy(w, c)
              \/ \E w \in In("wrongClaim") :
                    ObservableBy(w, c) /\ (c.done = NoTime \/ installed = NoTime \/ Bound(c) <= installed)

=============================================================================
