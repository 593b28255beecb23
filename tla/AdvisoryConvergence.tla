------------------------- MODULE AdvisoryConvergence -------------------------
(***************************************************************************)
(* Has the primary reviewer had its say on the head of a pull request, and *)
(* has what it said been dealt with?  The verdict of the required check    *)
(* idd-advisory-convergence, which advisory-convergence.mjs computes from  *)
(* the reviews, the threads, the comments and the claim it has read.       *)
(*                                                                         *)
(* v is what was read: head, committed (the time of the head commit),      *)
(* branch, authorIsBot, reviews (a sequence, in the order of the listing), *)
(* threads, comments, markers, waivers, candidates (a sequence of what the *)
(* linked issues tell about their claims), explicit, changed (the paths of *)
(* the pull request), runs, jobs and artifacts (what lookups by run id     *)
(* gave), outage (whether an outage of the reviewer is declared) and now.  *)
(* p is the policy.  A review is [id, author, commit, items, suppressed,   *)
(* at], its items Unknown when they could not be counted; the comments of  *)
(* a thread name the review they belong to.                                *)
(***************************************************************************)
EXTENDS DispositionEvidence, AdvisoryWait, CheckRollup

Unknown == -1
NoTimeYet == 0

Within(S, n) == Cardinality(S) <= n

-----------------------------------------------------------------------------
(* Whose pull request is it?  A candidate is what one linked issue tells:  *)
(* [claim, resolves, history]: its active claim or NoClaim, whether it has *)
(* one without the options of the gate, whether a trusted login ever       *)
(* claimed it.                                                             *)

NoClaimant == [id |-> "none", supersedes |-> "none", agent |-> "none", branch |-> "none"]

Resolving(candidates) == {i \in DOMAIN candidates : candidates[i].resolves}

\* pickResolvingClaimEvents: of several linked issues the one with a claim; an issue
\* that was named is the only one.
PickedClaim(candidates, explicit) ==
  IF explicit /\ candidates # <<>> THEN candidates[1].claim
  ELSE IF Within(Resolving(candidates), 1) /\ Resolving(candidates) # {}
  THEN candidates[CHOOSE i \in Resolving(candidates) : TRUE].claim
  ELSE NoClaimant

\* classifyClaimCandidateAmbiguity
ClaimAmbiguous(candidates, explicit) == ~ explicit /\ ~ Within(Resolving(candidates), 1)

\* hasTrustedClaimMarkerHistory
ClaimHistory(candidates) == \E i \in DOMAIN candidates : candidates[i].history

\* Whether the check has anything to say: a policy without advisory reviews and a pull
\* request without any trace of a claim are left alone; traces that do not add up keep
\* the check from passing.
Applicability(v, p) ==
  LET claim   == PickedClaim(v.candidates, v.explicit)
      history == ClaimHistory(v.candidates)
  IN  IF p.review \in {"human-required", "no-advisory"} THEN "not_applicable"
      ELSE IF p.scope = "all-prs"
      THEN IF p.exemptBots /\ v.authorIsBot /\ ~ history THEN "not_applicable" ELSE "applicable"
      ELSE IF claim = NoClaimant
      THEN IF ClaimAmbiguous(v.candidates, v.explicit) \/ history THEN "indeterminate" ELSE "not_applicable"
      ELSE IF "none" \notin {v.branch, claim.branch} /\ claim.branch # v.branch THEN "indeterminate"
      ELSE "applicable"

-----------------------------------------------------------------------------
(* The review and its threads.                                             *)

\* resolveLatestCopilotReviewClause: the bot's last review in the listing; what it found
\* counts if it is of the head.
LatestReview(reviews, head) ==
  LET own     == SelectSeq(reviews, LAMBDA r : r.author = Primary)
      r       == own[Len(own)]
      matches == own # <<>> /\ r.commit = head
  IN  [found      |-> own # <<>>,
       matches    |-> matches,
       id         |-> IF matches THEN r.id ELSE 0,
       items      |-> IF matches THEN r.items ELSE Unknown,
       suppressed |-> IF matches THEN r.suppressed ELSE 0,
       at         |-> IF own = <<>> THEN NoTimeYet ELSE r.at]

\* classifyCopilotAuthoredThreadIds
PrimaryThreads(threads) == {t \in threads : t.comments # <<>> /\ t.comments[1].author = Primary}

\* classifyThreadIdsForReview: a review without an id has none.
ThreadsOfReview(threads, id) == {t \in PrimaryThreads(threads) : id # 0 /\ t.comments[1].review = id}

\* resolveHasValidReviewAck: somebody trusted has read the body of this review, as a
\* marker says that is younger.
ReviewAcked(markers, review, head) ==
  /\ review.at # NoTimeYet
  /\ \E m \in markers : m.kind = "ack" /\ m.author \in Trusted /\ m.head = head /\ m.at > review.at

\* The threads of the bot that are open and lack a disposition.
Blocking(v) == {t \in PrimaryThreads(v.threads) : ~ t.resolved /\ MissingThread(t, AtNone)}

\* Every item of the review is seen as a thread, and none of them is open.
ItemsSettled(v, review) ==
  LET own == ThreadsOfReview(v.threads, review.id)
  IN  \/ review.items = 0
      \/ review.items > 0 /\ ~ Within(own, review.items - 1) /\ own \intersect Blocking(v) = {}

ReviewSettled(v, review) ==
  /\ review.matches
  /\ ItemsSettled(v, review)
  /\ review.suppressed = 0 \/ ReviewAcked(v.markers, review, v.head)

-----------------------------------------------------------------------------
(* Asking for another review of the same head.                             *)

\* summarizeSameHeadRerollMarkers
Rerolls(markers, head) == {m \in markers : m.kind = "reroll" /\ m.head = head /\ m.author \in Trusted}

\* MUTANT of Reroll: open threads do not matter.
RerollWhileOpen(v, p, review) ==
  LET asked == Rerolls(v.markers, v.head)
      last  == Latest({m.at : m \in asked})
  IN  [eligible  |-> review.matches /\ review.items # Unknown /\ review.items + review.suppressed > 0,
       inFlight  |-> asked # {} /\ review.at < last /\ MinutesBetween(last, v.now) < p.pendingWindow,
       exhausted |-> ~ Within(asked, p.rerollCap - 1)]

\* Not while the last one is still awaited and not more often than the cap; a review
\* that left nothing to find is not worth another.
Reroll(v, p, review) ==
  LET asked  == Rerolls(v.markers, v.head)
      last   == Latest({m.at : m \in asked})
  IN  [eligible  |-> /\ review.matches
                     /\ Blocking(v) = {}
                     /\ MissingComments(v.comments, v.threads) = {}
                     /\ review.items # Unknown
                     /\ review.items > 0 \/ review.suppressed > 0
                     /\ ~ (ReviewSettled(v, review) /\ ReviewAcked(v.markers, review, v.head)),
       inFlight  |-> /\ asked # {}
                     /\ review.at = NoTimeYet \/ review.at < last
                     /\ MinutesBetween(last, v.now) < p.pendingWindow,
       exhausted |-> ~ Within(asked, p.rerollCap - 1)]

Requestable(reroll) == reroll.eligible /\ ~ reroll.exhausted /\ ~ reroll.inFlight

-----------------------------------------------------------------------------
(* Waivers.                                                                *)

DeadlinePassed(v, p) == v.committed # NoTimeYet /\ MinutesBetween(v.committed, v.now) >= p.deadline

\* The reviewer is unavailable for good.
Unavailable(v, p) ==
  LET claim == PickedClaim(v.candidates, v.explicit)
      own   == SelectSeq(v.reviews, LAMBDA r : r.author = Primary)
      last  == IF own = <<>> THEN 0 ELSE own[Len(own)].commit
  IN  RecoverySummary(v.markers, v.head, last, Trusted, claim,
                      p, TerminalWindow(p, v.outage), v.now).unavailable

WaiverContext(v, p) ==
  LET claim == PickedClaim(v.candidates, v.explicit)
  IN  [claim |-> claim.id, supersedes |-> claim.supersedes, head |-> v.head, now |-> v.now,
       maxValidity |-> p.maxValidity, waivable |-> p.waivable, mode |-> p.waiverMode,
       trusted |-> Trusted, allowAuto |-> FALSE]

\* evaluateProviderOutageRelief: a declared outage relieves a pull request whose own
\* reviewer is proven unavailable.
OutageRelief(v, p) == v.outage /\ Unavailable(v, p) /\ IsCheckNameConfiguredWaivable(Convergence, p.waivable)

\* A maintainer's waiver counts once the deadline has passed or nothing more is to be
\* expected of the reviewer.
Waived(v, p) ==
  /\ DeadlinePassed(v, p) \/ Unavailable(v, p)
  /\ p.waiverMode = "maintainer-authorized"
  /\ \/ \E w \in SummarizeExternalCheckWaivers(v.waivers, WaiverContext(v, p), "valid") :
             w.selector.text = Convergence
     \/ OutageRelief(v, p)

\* The waivers that the workflow wrote itself for this head.
OwnWaivers(v) ==
  {w \in v.waivers : /\ w.wellFormed /\ w.author = Actions /\ w.reason = "auto"
                     /\ w.selector.text = Convergence /\ w.run # "none" /\ w.head = v.head}

\* Only the oldest runs are looked up, MaxLookups (20) of them.
LookedUp(v, MaxLookups) ==
  LET first(r) == Min({w.id : w \in {u \in OwnWaivers(v) : u.run = r}})
      all      == {w.run : w \in OwnWaivers(v)}
  IN  {r \in all : Within({q \in all : first(q) < first(r)}, MaxLookups - 1)}

\* verifySelfReferentialBootstrapWaiverRun: the run that the waiver names is the
\* workflow's own for this head.
RunVerified(v, w) ==
  LET run == v.runs[w.run]
  IN  run.found /\ run.workflow /\ run.ours /\ run.head = v.head /\ run.event = "pull_request_target"

\* verifySelfReferentialBootstrapWaiverProvenance: the step of its job wrote something at
\* the time of the waiver.
JobVerified(v, w) ==
  LET job == v.jobs[w.run]
  IN  job.found /\ job.state = "SUCCESS" /\ job.began <= w.at /\ w.at <= job.done

\* verifySelfReferentialBootstrapWaiverArtifactBinding: no other comment is of that run
\* and time, and the run's artifact names this comment and its body.
ArtifactBound(v, w) ==
  /\ {u \in OwnWaivers(v) : u.run = w.run /\ u.at = w.at} = {w}
  /\ [id |-> w.id, body |-> w.body] \in v.artifacts[w.run]

VerifiedWaiver(v, w) == RunVerified(v, w) /\ JobVerified(v, w) /\ ArtifactBound(v, w)

\* SELF_REFERENTIAL_TRIGGER_FILE_ORIGIN_SET: the files of the check where it is developed,
\* the helpers and all that they import among them.
OriginTriggers == {"config", "workflows", "sources"}

\* Where it is imported, a profile has its copies of the helpers or the package's files.
ProfileTriggers(profile) ==
  {"config", "workflows"} \union
    CASE profile = "vendored-node"   -> {"scripts"}
      [] profile = "package-manager" -> {"package", "lockfile"}
      [] OTHER                       -> {}

\* resolveSelfReferentialTriggerFiles
TriggerFiles(p) == IF p.origin THEN OriginTriggers ELSE ProfileTriggers(p.profile)

\* A pull request that changes the check itself may be waived by the check's workflow.
AutoWaived(v, p) ==
  LET ctx == [WaiverContext(v, p) EXCEPT !.allowAuto = TRUE, !.trusted = @ \union {Actions}]
  IN  /\ Applicability(v, p) # "not_applicable"
      /\ Applicability(v, p) = "indeterminate" => PickedClaim(v.candidates, v.explicit) # NoClaimant
      /\ ~ ClaimAmbiguous(v.candidates, v.explicit)
      /\ OwnWaivers(v) # {} /\ v.changed \intersect TriggerFiles(p) # {}
      /\ \E w \in SummarizeExternalCheckWaivers(v.waivers, ctx, "valid") :
           w \in OwnWaivers(v) /\ w.run \in LookedUp(v, p.lookups) /\ VerifiedWaiver(v, w)

-----------------------------------------------------------------------------
(* The verdict.                                                            *)

\* computeAdvisoryConvergenceVerdict
Converged(v, p) ==
  /\ Applicability(v, p) = "applicable"
  /\ ReviewSettled(v, LatestReview(v.reviews, v.head))
  /\ Blocking(v) = {}

Ready(v, p) ==
  \/ Applicability(v, p) = "not_applicable"
  \/ Converged(v, p)
  \/ Waived(v, p)
  \/ AutoWaived(v, p)

\* isSoleCopilotNotReviewedYetReason: all that is missing is a first review, which the
\* check waits a moment for (runAdvisoryConvergenceWithPoll).
NeverReviewed(v, p) ==
  /\ ~ Ready(v, p)
  /\ Applicability(v, p) = "applicable"
  /\ ~ LatestReview(v.reviews, v.head).found
  /\ Blocking(v) = {}
  /\ ~ DeadlinePassed(v, p) /\ ~ Unavailable(v, p)

\* collectAssertNextActions: what the failing check tells the agent to do.
NextActions(v, p) ==
  LET review  == LatestReview(v.reviews, v.head)
      gone    == Unavailable(v, p)
      late    == ~ gone /\ DeadlinePassed(v, p)
      may     == p.waiverMode = "maintainer-authorized"
      Hint(condition, action) == IF condition THEN {action} ELSE {}
      hints ==
        Hint(Applicability(v, p) = "indeterminate", "indeterminate-applicability")
        \union Hint(~ review.found, "request-review")
        \union Hint(review.found /\ ~ review.matches, "request-re-review")
        \union Hint(review.items > 0, "disposition-posted-items")
        \union Hint(Blocking(v) # {}, "disposition-threads")
        \union Hint(review.suppressed > 0, "ack-suppressed")
        \union Hint(gone /\ may, "waiver-terminal") \union Hint(gone /\ ~ may, "hold-terminal")
        \union Hint(late /\ may, "waiver-deadline") \union Hint(late /\ ~ may, "hold-deadline")
        \union Hint(Applicability(v, p) = "applicable" /\ Requestable(Reroll(v, p, review)), "same-head-reroll")
  IN  IF Ready(v, p) THEN {} ELSE IF hints = {} THEN {"reread-verdict"} ELSE hints
=============================================================================
