------------------------------ MODULE IssueGate ------------------------------
(***************************************************************************)
(* May an issue be worked on, and should it?  The approval gate            *)
(* (claim-approval-gate.mjs), the standing rejections                      *)
(* (supersession-detection.mjs), the triage (suitability-triage.mjs), the  *)
(* viability gate (discover-viability-gate.mjs) and the condition of a     *)
(* close as a duplicate (suitability-close-execute.mjs); the readiness     *)
(* check of the leaves below a roadmap (discover-readiness-check.mjs), the *)
(* filter for issues outside every roadmap (discover-orphan-filter.mjs)    *)
(* and the order in which they are offered (autopilot-suitability.mjs).    *)
(*                                                                         *)
(* An issue as it was read has created, author, association, labels, open, *)
(* title [topic, words], files (its candidate files) and signals: what the *)
(* patterns of the scripts find in title and body.  A comment is           *)
(* [kind, author, at, ...]; timeline and edits are [known, ...], not known *)
(* if they could not be fetched.  Times are natural numbers.               *)
(***************************************************************************)
EXTENDS RoadmapGraph

Elements(seq) == {seq[i] : i \in DOMAIN seq}

BlockedByHuman == "blocked-by-human"
NeedsDecision == "needs-decision"

-----------------------------------------------------------------------------
(* The approval gate.                                                      *)

\* isAuthorizedByPolicy.
Authorized(permission, policy) ==
  \/ permission \in {"admin", "maintain"}
  \/ permission = "write" /\ policy.actors = "all-write-permission-actors"

\* authorAssociationSelfAuthorizes.
AssociationAuthorizes(association, policy) ==
  \/ association = "owner"
  \/ association = "member" /\ policy.actors # "owners-only"

\* The association counts only where the permission could not be read.
AuthorSelfAuthorized(issue, permissions, policy) ==
  LET permission == permissions[issue.author]
  IN  \/ Authorized(permission, policy)
      \/ permission = "unknown" /\ AssociationAuthorizes(issue.association, policy)

\* detectGeneratedPlanUpdateAt: anybody's comment that speaks of a generated plan.
PlanUpdates(comments) == {c.at : c \in {d \in Elements(comments) : d.kind = "plan"}}

\* resolveLatestSubstantiveEditAt: known only if the timeline and the edits are.
EditKnown(timeline, edits) == timeline.known /\ edits.known

LatestSubstantiveEdit(issue, timeline, edits) == Max({issue.created} \union timeline.renamed \union edits.at)

\* What an approval has to be later than.
FreshnessAnchor(issue, comments, timeline, edits) ==
  Max({LatestSubstantiveEdit(issue, timeline, edits)} \union PlanUpdates(comments))

\* resolveReadyLabelApproval.
ReadyLabel == "idd:ready"

ReadyLabelApproves(issue, comments, timeline, edits, policy) ==
  /\ ReadyLabel \in issue.labels
  /\ \/ policy.freshness # "event-freshness"
     \/ /\ EditKnown(timeline, edits)
        /\ timeline.ready # <<>>
        /\ Last(timeline.ready).event = "labeled"
        /\ Last(timeline.ready).at > FreshnessAnchor(issue, comments, timeline, edits)

\* findLatestReadyApprovalComment, and whether it is fresh: the latest is if any is.
ReadyComments(issue, comments, timeline, edits, permissions, policy) ==
  {c \in Elements(comments) : /\ c.kind = "ready"
                              /\ Authorized(permissions[c.author], policy)
                              /\ EditKnown(timeline, edits)
                              /\ c.at > FreshnessAnchor(issue, comments, timeline, edits)}

\* evaluateClaimApprovalGate.
Approved(issue, comments, timeline, edits, permissions, policy) ==
  \/ policy.skip
  \/ AuthorSelfAuthorized(issue, permissions, policy)
  \/ ReadyLabelApproves(issue, comments, timeline, edits, policy)
  \/ ReadyComments(issue, comments, timeline, edits, permissions, policy) # {}

\* deriveReason, for what is not approved.
DenialReason(issue, comments, timeline, edits, permissions, policy) ==
  LET stale == \E c \in Elements(comments) :
                  c.kind = "ready" /\ Authorized(permissions[c.author], policy)
      asked == {issue.author} \union {c.author : c \in {d \in Elements(comments) : d.kind = "ready"}}
      labelUnknown == ReadyLabel \in issue.labels /\ timeline.ready = <<>>
  IN  CASE \E login \in asked : permissions[login] = "unknown" -> "approval-ambiguous"
        [] labelUnknown \/ ~ EditKnown(timeline, edits) -> "freshness-undetermined"
        [] stale -> "approval-comment-stale"
        [] OTHER -> "approval-missing"

-----------------------------------------------------------------------------
(* Standing rejections.                                                    *)

VerdictMarkers == {"unclear", "duplicate", "out-of-scope", "invalid"}
NoMarkerOutcome == "no marker"
NoRejection == [kind |-> "none", at |-> 0, outcome |-> "none", markers |-> {}]

\* parseSuitabilityTriageVerdictMarker: two markers that differ are none.
MarkerOutcome(rejection) ==
  IF Cardinality(rejection.markers) = 1 /\ rejection.markers \subseteq VerdictMarkers
  THEN CHOOSE outcome \in rejection.markers : TRUE
  ELSE NoMarkerOutcome

\* findTrustedSuitabilityRejection: the latest one, and of two at a time the first.
TrustedRejection(comments, trusted) ==
  LET mine == {i \in DOMAIN comments : comments[i].kind = "rejection" /\ comments[i].author \in trusted}
      latest == Max({comments[i].at : i \in mine})
  IN  IF mine = {} THEN NoRejection ELSE comments[Min({i \in mine : comments[i].at = latest})]

\* resolveLatestSubstantiveIssueEditAt; what could not be fetched makes it unknown.
LatestIssueEdit(created, timeline, edits) ==
  Max({created} \union timeline.renamed \union edits.at)

\* isSuitabilityTriageVerdictCurrent: a rejection from the very time of the edit is.
VerdictCurrent(rejection, known, editedAt) ==
  MarkerOutcome(rejection) # NoMarkerOutcome /\ known /\ rejection.at >= editedAt

-----------------------------------------------------------------------------
(* Triage: the evidence.                                                   *)

\* evaluateStructuralEvidence: a command that verifies, candidate files that exist, and
\* nobody untrusted who wrote or edited the text; an editor who cannot be named is not trusted.
StructuralEvidence(issue, editors, trusted) ==
  /\ "verification command" \in issue.signals
  /\ "candidate files exist" \in issue.signals
  /\ issue.author \in trusted
  /\ editors \subseteq trusted

\* hasVerificationCommandSignal and candidateFilesExistOnDisk: worth asking for the editors.
WorthFetchingEditors(issue) == {"verification command", "candidate files exist"} \subseteq issue.signals

\* fetchClosedByMergedPrNumbers: nothing for an issue that is open.
ClosedByMergedPrs(issue, prs) ==
  {p \in prs : ~ issue.open /\ p.merged /\ issue.number \in p.closes}

\* fetchMergedPrByBranchName: the branch of this issue in this repository, not in a fork.
MergedPrsByBranchName(issue, prs) ==
  {p \in prs : p.merged /\ p.branch = <<issue.number, issue.title>> /\ ~ p.fork}

\* resolveCandidateFileSet.
CandidateFileSet(issue, highContention) == issue.files \ highContention

\* fetchMergedPrFileOverlapEvidence: merged since the issue was created.
MergedPrsOverlapping(issue, prs, highContention) ==
  {p \in prs : /\ p.merged
               /\ p.at >= issue.created
               /\ p.files \intersect CandidateFileSet(issue, highContention) # {}
               /\ issue.number \in p.closes \union p.mentions}

\* evaluateHighConfidenceDuplicate, on what collectHighConfidenceDuplicateEvidence got.
HighConfidenceDuplicate(evidence) ==
  evidence.byBranch # {} \/ evidence.closedBy # {} \/ evidence.overlapping # {}

\* evaluateSuitabilityCloseEligibility.
CloseEligible(check) == check.result = "fail" /\ check.tier = "high-confidence"

-----------------------------------------------------------------------------
(* Triage: the checks.                                                     *)

Pass == [result |-> "pass", tier |-> "none"]
Fail == [result |-> "fail", tier |-> "none"]
Weak == [result |-> "fail", tier |-> "weak"]
High == [result |-> "fail", tier |-> "high-confidence"]
Warn == [result |-> "warn", tier |-> "none"]

\* A finding that evidence demotes to a warning.
Demotable(structural) == IF structural THEN Warn ELSE Fail

CheckRepositoryFit(issue) ==
  IF \/ {"foreign link", "external coordination"} \subseteq issue.signals
     \/ "external system" \in issue.signals
  THEN Fail ELSE Pass

CheckCoherence(issue) ==
  IF issue.signals \intersect {"too short", "conflict markers"} # {} THEN Fail ELSE Pass

CheckTrustSafety(issue) ==
  IF issue.signals \intersect {"secret", "policy override", "unsafe directive"} # {} THEN Fail ELSE Pass

\* A near title counts only while its issue is open, an equal title always; when the
\* evidence could not be collected only equal titles count.
CheckDuplicateOrSuperseded(issue, candidates, evidence) ==
  LET others == {c \in candidates : c.number # issue.number}
      equal == \E c \in others : c.title = issue.title
      near == \E c \in others : c.open /\ c.title[1] = issue.title[1]
  IN  CASE HighConfidenceDuplicate(evidence) -> High
        [] equal -> Weak
        [] evidence.degraded -> Pass
        [] "declared duplicate" \in issue.signals \/ near -> Weak
        [] OTHER -> Pass

CheckActionability(issue) ==
  IF issue.signals \intersect {"acceptance criteria", "checklist", "steps"} # {} THEN Pass ELSE Fail

\* checkAutonomy: what says so itself is never demoted.
DeclaredBlocked(issue) ==
  \/ issue.labels \intersect {BlockedByHuman, NeedsDecision} # {}
  \/ issue.signals \intersect {"blocked title", "blocked bucket"} # {}

\* ... and what only sounds so is.
SoundsUndecided(issue) ==
  issue.signals \intersect {"requires approval", "unresolved choice"} # {}

CheckAutonomy(issue, structural) ==
  CASE DeclaredBlocked(issue) -> Fail
    [] SoundsUndecided(issue) -> Demotable(structural)
    [] OTHER -> Pass

\* checkVerifiability: the criteria below the heading, or another list, or another
\* section that says what must come out.
ObjectiveCriteria(issue) ==
  issue.signals \intersect {"substantive criteria", "outcome steps", "outcome section"} # {}

ObjectiveSignals(issue) == ObjectiveCriteria(issue) \/ "verification channel" \in issue.signals

SubjectiveApproval(issue) ==
  /\ "subjective approval" \in issue.signals
  /\ ~ ("resolved decision" \in issue.signals /\ ObjectiveCriteria(issue))

\* The first finding decides; an escape hatch is looked for only if there is none, and
\* it is never demoted.
CheckVerifiability(issue, structural) ==
  CASE ~ ObjectiveSignals(issue) \/ SubjectiveApproval(issue) -> Demotable(structural)
    [] "escape hatch" \in issue.signals -> Fail
    [] OTHER -> Pass

\* evaluateSuitability: the checks in order; the first that fails names the outcome.
Checks(issue, candidates, evidence, structural) ==
  << <<"out-of-scope", CheckRepositoryFit(issue)>>,
     <<"unclear", CheckCoherence(issue)>>,
     <<"invalid", CheckTrustSafety(issue)>>,
     <<"duplicate", CheckDuplicateOrSuperseded(issue, candidates, evidence)>>,
     <<NeedsDecision, CheckActionability(issue)>>,
     <<BlockedByHuman, CheckAutonomy(issue, structural)>>,
     <<NeedsDecision, CheckVerifiability(issue, structural)>> >>

Suitability(issue, candidates, evidence, structural) ==
  LET failed == SelectSeq(Checks(issue, candidates, evidence, structural),
                          LAMBDA check : check[2].result = "fail")
  IN  IF failed = <<>> THEN [outcome |-> "ready", check |-> Pass]
      ELSE [outcome |-> failed[1][1], check |-> failed[1][2]]

\* runCli: evidence is collected only for what passes the first three checks.
WorthCollecting(issue) ==
  \A check \in {CheckRepositoryFit(issue), CheckCoherence(issue), CheckTrustSafety(issue)} :
     check.result = "pass"

NoEvidence == [byBranch |-> {}, closedBy |-> {}, overlapping |-> {}, degraded |-> FALSE]

\* runCli: the editors are asked for only if full evidence would demote what failed.
WouldDemote(issue, candidates, evidence) ==
  LET plain == Suitability(issue, candidates, evidence, FALSE).outcome
  IN  \/ plain = BlockedByHuman /\ CheckAutonomy(issue, TRUE).result = "warn"
      \/ /\ plain = NeedsDecision
         /\ CheckActionability(issue).result = "pass"
         /\ CheckVerifiability(issue, TRUE).result = "warn"

-----------------------------------------------------------------------------
(* The viability gate.                                                     *)

\* evaluateLimitedScope, evaluateClearVerification, evaluateAutonomousCompletion.
LimitedScope(issue, structural) ==
  IF "broad scope" \in issue.signals THEN Demotable(structural) ELSE Pass

ClearVerification(issue) ==
  IF "objective verification" \in issue.signals THEN Pass ELSE Fail

AutonomousCompletion(issue, structural) ==
  IF "external coordination" \in issue.signals THEN Demotable(structural) ELSE Pass

\* evaluateA4Viability: all three are evaluated.
Viable(issue, structural) ==
  \A check \in {LimitedScope(issue, structural), ClearVerification(issue),
                AutonomousCompletion(issue, structural)} : check.result # "fail"

\* evaluateDiscoverViability: only the scope and the completion can be demoted.
WorthDemoting(issue) ==
  \/ LimitedScope(issue, FALSE).result = "fail"
  \/ AutonomousCompletion(issue, FALSE).result = "fail"

-----------------------------------------------------------------------------
(* Can an issue be started?  seen maps the issues that were read to their *)
(* readings; found maps a marker to the readings of the roadmaps that      *)
(* carry it.                                                               *)

Authoring == "authoring"
HoldingLabels == {BlockedByHuman, NeedsDecision, Authoring}

\* isParentEpicIssue.
IsParentEpic(reading) == reading.title[1] = "roadmap" \/ RoadmapLabel \in reading.labels

Unreadable(seen, numbers) == {n \in numbers : seen[n].access # "ok"}

OpenAmong(seen, numbers) == {n \in numbers : seen[n].access = "ok" /\ seen[n].open}

-----------------------------------------------------------------------------
(* evaluateDiscoverReadiness.  A reason is a pair of a word and an issue   *)
(* (0 where none is meant).                                                *)

ReasonsOf(why, numbers) == {<<why, n>> : n \in numbers}

LabelReasons(issue) == {<<l, 0>> : l \in issue.labels \intersect HoldingLabels}

\* An open dependency that is itself a collection of work does not block.
DependencyReasons(seen, issue) ==
  LET numbers == DependencyIssueNumbers(issue.body)
  IN  ReasonsOf("unresolvable dependency", Unreadable(seen, numbers)) \union
      ReasonsOf("open dependency", {n \in OpenAmong(seen, numbers) : ~ IsParentEpic(seen[n])})

BlockedByReasons(seen, issue) ==
  LET numbers == BlockedByIssueNumbers(issue.body)
  IN  ReasonsOf("unresolvable blocker", Unreadable(seen, numbers)) \union
      ReasonsOf("open blocker", OpenAmong(seen, numbers))

\* A deferral waits for the one issue it was deferred from.
DeferralReasons(seen, issue) ==
  LET numbers == DeferralNumbers(issue.body)
  IN  IF ~ IsDeferral(issue.body) THEN {}
      ELSE ReasonsOf("ambiguous source", IF DeferralAmbiguous(issue.body) THEN {0} ELSE {}) \union
           ReasonsOf("missing source", IF numbers = {} THEN {0} ELSE {}) \union
           ReasonsOf("unresolvable source", Unreadable(seen, numbers)) \union
           ReasonsOf("open source", OpenAmong(seen, numbers))

\* A marker of a roadmap blocks unless it is found and every roadmap found is closed.
MarkerReasons(found, issue) ==
  {<<"roadmap marker", 0>> : m \in {k \in BlockedByRoadmapMarkers(issue.body) :
                                      found[k] = {} \/ \E r \in found[k] : r.open}}

\* The triage verdict is looked up only where nothing else speaks against the issue.
BodyReasons(seen, found, issue) ==
  LabelReasons(issue) \union DependencyReasons(seen, issue) \union BlockedByReasons(seen, issue)
    \union DeferralReasons(seen, issue) \union MarkerReasons(found, issue)

\* A reading that failed counts as no verdict.
VerdictReasons(rejection, known, editedAt) ==
  IF VerdictCurrent(rejection, known, editedAt) THEN {<<"triage verdict", 0>>} ELSE {}

\* MUTANT of Reasons: what the body says is overwritten by what the verdict says.
ReasonsOfVerdict(seen, found, n, rejection, known, editedAt) ==
  CASE seen[n].access # "ok" -> {<<"unreadable", 0>>}
    [] ~ seen[n].open -> {<<"not open", 0>>}
    [] OTHER -> VerdictReasons(rejection, known, editedAt)

\* The body is asked before the verdict.
Reasons(seen, found, n, rejection, known, editedAt) ==
  CASE seen[n].access # "ok" -> {<<"unreadable", 0>>}
    [] ~ seen[n].open -> {<<"not open", 0>>}
    [] BodyReasons(seen, found, seen[n]) # {} -> BodyReasons(seen, found, seen[n])
    [] OTHER -> VerdictReasons(rejection, known, editedAt)

\* The issues that the check of one issue reads, in its order, until the cache has them.
ReadingOrder(issue) ==
  LET Sorted(numbers) == SetToSortSeq(numbers, LAMBDA a, b : a < b)
  IN  Sorted(DependencyIssueNumbers(issue.body)) \o Sorted(BlockedByIssueNumbers(issue.body)) \o
      Sorted(IF IsDeferral(issue.body) THEN DeferralNumbers(issue.body) ELSE {})

Unread(seen, n) ==
  IF n \notin DOMAIN seen THEN <<n>>
  ELSE IF seen[n].access # "ok" \/ ~ seen[n].open THEN <<>>
  ELSE SelectSeq(ReadingOrder(seen[n]), LAMBDA d : d \notin DOMAIN seen)

\* summarizeSwarmFloorEligibility, suitabilitySignal.
BelowFloor(issue, floor) == issue.score # NoScore /\ issue.score < floor

-----------------------------------------------------------------------------
(* The orphans.                                                            *)

OutageTarget == 9

\* resolveIssueState: what the listing of open issues has is open, the rest is asked for.
ReferenceState(listed, seen, n) ==
  IF n \in listed THEN "open"
  ELSE IF seen[n].access # "ok" THEN "unresolvable"
  ELSE IF seen[n].open THEN "open" ELSE "closed"

\* classifyIssue: the first that applies.
OrphanClass(listed, seen, n, structural) ==
  LET issue == seen[n]
      blockers == BlockedByIssueNumbers(issue.body)
      dependencies == DependencyIssueNumbers(issue.body)
      Is(d, state) == ReferenceState(listed, seen, d) = state
      Exempt(d) == d \in listed /\ IsParentEpic(seen[d])
  IN  CASE n = OutageTarget -> "provider outage target"
        [] HasMarkerText(issue.body, "roadmap-id") -> "roadmap marker"
        [] HasMarkerText(issue.body, "blocked-by") -> "blocked-by marker"
        [] issue.labels \intersect {BlockedByHuman, NeedsDecision} # {} -> "blocked label"
        [] Authoring \in issue.labels -> "authoring label"
        [] "runtime observation" \in issue.signals /\ ~ structural -> "runtime observation"
        [] \E d \in blockers : Is(d, "open") -> "open blocker"
        [] \E d \in dependencies : Is(d, "open") /\ ~ Exempt(d) -> "open dependency"
        [] \E d \in blockers \union dependencies : Is(d, "unresolvable") -> "unresolvable reference"
        [] OTHER -> "orphan"

\* filterOrphanIssues: the editors are asked for only if the runtime observation is all
\* that holds the issue and the rest of the evidence is there.
OrphanNeedsEditors(listed, seen, n) ==
  /\ OrphanClass(listed, seen, n, FALSE) = "runtime observation"
  /\ WorthFetchingEditors(seen[n])

-----------------------------------------------------------------------------
(* The order.                                                              *)

\* rankAndRouteBySuitability: what scores below the floor goes to a person; the order of
\* what was equal before is kept.
Ranked(leaves, floor, route) ==
  LET eligible == {n \in DOMAIN leaves : ~ (route /\ BelowFloor(leaves[n], floor))}
  IN  SelectSeq(UnionLeaves(leaves, floor), LAMBDA n : n \in eligible)
=============================================================================
