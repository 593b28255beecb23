---------------------------- MODULE ProviderOutage ----------------------------
(***************************************************************************)
(* A service that is down: the verdict on its health from the evidence of  *)
(* many pull requests (provider-health.mjs), the pull requests parked for  *)
(* it (provider-outage-park.mjs), and the declarations of an outage        *)
(* (provider-outage-declaration.mjs).  One run of one of the scripts;      *)
(* every read and post is a step, and people, reviewers and workflows act  *)
(* in between.  A run's own clock stops when it starts.                    *)
(*                                                                         *)
(* pulls[n] has open, requests (markers of requested reviews), events and  *)
(* reviews (times at which the reviewer was requested or answered) and     *)
(* parks; builds are the workflow runs: pr (0 for none), updated,          *)
(* conclusion, jobs ("none", "stepless", "ran"); desk are the comments of  *)
(* the declaration target.                                                 *)
(***************************************************************************)
EXTENDS Naturals, Sequences, FiniteSets, SequencesExt

CONSTANTS Owner, Trusted, Me,
          MinPrs,          \* providerHealth.minCorroboratingPrs
          SamplingWindow, SettledWindow, MaxValidity,
          SampleSize,      \* open pull requests that a list reads
          MaxParked        \* providerOutage.maxParkedChanges

VARIABLES pulls, builds, desk, roles, now, moves, failing, run, stood
vars == <<pulls, builds, desk, roles, now, moves, failing, run, stood>>

Advisory == "advisory-review"
Actions == "ci-actions"
Services == {Advisory, Actions}

InWindow(at, time) == time + SamplingWindow >= at

-----------------------------------------------------------------------------
(* The evidence of one pull request, as of the time at.                    *)

\* latestTrustedAdvisoryWaitRequest, latestTrustedParkMarker: of equal times the first.
Latest(written) ==
  LET trusted == SelectSeq(written, LAMBDA w : w.author \in Trusted)
      last == {i \in DOMAIN trusted : \A j \in DOMAIN trusted :
                 /\ trusted[j].at <= trusted[i].at
                 /\ j < i => trusted[j].at < trusted[i].at}
  IN  {trusted[i] : i \in last}

\* deriveAdvisoryReviewObservation: what became of the last request, if it is old enough to tell.
AdvisoryOutcomes(requests, answers, at) ==
  LET Of(r) == CASE ~ InWindow(at, r.at) -> "none"
                 [] \E t \in answers : t >= r.requested -> "success"
                 [] at < r.requested + SettledWindow -> "none"
                 [] OTHER -> "failure"
  IN  {Of(r) : r \in Latest(requests)} \ {"none"}

\* Workflow runs of a pull request within the window.
Counted(at, b) == builds[b].pr # 0 /\ InWindow(at, builds[b].updated)

\* deriveCiActionsObservation: a failure in which no step of any job ran.
Blocked(build) == build.jobs = "stepless"

Observed(service, n, from, outcome) == [service |-> service, pr |-> n, from |-> from, outcome |-> outcome]

Having(seen, service, outcome) == {o \in seen : o.service = service /\ o.outcome = outcome}

\* A burst of failures of one pull request is one.
DistinctPrs(observations) == {o.pr : o \in observations}

\* classifyProviderHealth; lost are the services whose evidence could not be listed.
Verdict(seen, lost, service) ==
  LET failures == DistinctPrs(Having(seen, service, "failure"))
      successes == DistinctPrs(Having(seen, service, "success"))
  IN  CASE service \in lost -> "unknown"
        [] failures = {} -> IF successes = {} THEN "unknown" ELSE "healthy"
        [] Cardinality(failures) < MinPrs \/ successes # {} -> "degraded"
        [] OTHER -> "unavailable"

\* PARK_ELIGIBLE_BLOCKER_GATES, resolveParkEligibility.
EligibleGates(service) ==
  IF service = Advisory THEN {"advisory-wait", "copilot-terminal-unavailable"}
  ELSE {"ci", "discarded-required-check-siblings"}

ParkEligible(service, verdict, blockers) ==
  verdict = "unavailable" /\ blockers # {} /\ blockers \subseteq EligibleGates(service)

-----------------------------------------------------------------------------
(* Declarations.                                                           *)

\* normalizeAuthorityEvidence under owners-and-maintainers-only; a lookup that failed
\* proves nothing.
Authorized(actor, role) == role # "unknown" /\ (actor = Owner \/ role \in {"admin", "maintain"})

\* resolveProviderOutageDeclaration, apart from the author's role.
InForce(d, at) ==
  /\ d.started < d.expires /\ d.expires - d.started <= MaxValidity
  /\ d.started <= at /\ at < d.expires
  /\ d.posted <= at

DeclarationsOf(comments, service) ==
  {d \in Range(comments) : d.kind = "declaration" /\ d.service = service}

-----------------------------------------------------------------------------
(* What is true of the world at the moment of a run's clock.               *)

Outcomes(service, n) ==
  IF service = Advisory
  THEN AdvisoryOutcomes(pulls[n].requests, pulls[n].events \union pulls[n].reviews, run.now)
  ELSE LET Of(b) == CASE builds[b].conclusion = "success" -> "success"
                      [] builds[b].conclusion = "failure" /\ Blocked(builds[b]) -> "failure"
                      [] builds[b].conclusion = "pending" /\ Blocked(builds[b]) -> "queued"
                      [] OTHER -> "none"
       IN  {Of(b) : b \in {c \in DOMAIN builds : Counted(run.now, c) /\ builds[c].pr = n}}

ParkOf(n) == Latest(pulls[n].parks)

\* A workflow run that was started again and has not run a step looks like a blocked one.
ObjectionsNow ==
  LET pairs == Services \X DOMAIN pulls
      Where(why, P(_, _)) == {<<why, p>> : p \in {q \in pairs : P(q[1], q[2])}}
  IN  Where("works", LAMBDA s, n : "success" \in Outcomes(s, n)) \union
      Where("fails", LAMBDA s, n : "failure" \in Outcomes(s, n)) \union
      Where("not failing", LAMBDA s, n : Outcomes(s, n) \intersect {"failure", "queued"} = {}) \union
      Where("parked", LAMBDA s, n : pulls[n].open /\ ParkOf(n) # {} /\ s = Advisory) \union
      (IF Authorized(run.actor, roles[run.actor]) THEN {} ELSE {<<"not authorized", <<Advisory, 0>>>>}) \union
      (IF \E d \in DeclarationsOf(desk, run.service) : InForce(d, run.now) /\ Authorized(d.author, roles[d.author])
       THEN {} ELSE {<<"no declaration", <<Advisory, 0>>>>})

Reading == run.step \notin {"post", "done"}

Witnessed == stood' = IF Reading THEN stood \intersect ObjectionsNow' ELSE stood

-----------------------------------------------------------------------------
(* People, reviewers, workflows and other sessions.                        *)

Pull(n, fields) == pulls' = [pulls EXCEPT ![n] = fields @@ @] /\ UNCHANGED <<builds, desk, roles>>

Do(move) ==
  CASE move.do = "request" ->
         Pull(move.n, [requests |-> Append(pulls[move.n].requests, [author |-> move.author, requested |-> now, at |-> now])])
    [] move.do = "register" -> Pull(move.n, [events |-> pulls[move.n].events \union {now}])
    [] move.do = "review" -> Pull(move.n, [reviews |-> pulls[move.n].reviews \union {now}])
    [] move.do = "close" -> Pull(move.n, [open |-> FALSE])
    [] move.do = "park" -> Pull(move.n, [parks |-> Append(pulls[move.n].parks, [move.park EXCEPT !.at = now])])
    [] move.do = "build" -> builds' = [builds EXCEPT ![move.id] = ([updated |-> now] @@ move.to) @@ @] /\ UNCHANGED <<pulls, desk, roles>>
    [] move.do = "role" -> roles' = [roles EXCEPT ![move.who] = move.role] /\ UNCHANGED <<pulls, builds, desk>>
    [] move.do = "declare" -> desk' = Append(desk, [move.declaration EXCEPT !.posted = now]) /\ UNCHANGED <<pulls, builds, roles>>
    [] move.do = "wait" -> UNCHANGED <<pulls, builds, desk, roles>>

Move ==
  /\ run.step # "done"
  /\ \E move \in moves :
       /\ Do(move)
       /\ moves' = moves \ {move}
       /\ now' = IF move.do = "wait" THEN now + 1 ELSE now
  /\ UNCHANGED <<failing, run>>
  /\ Witnessed

-----------------------------------------------------------------------------
(* The runs.                                                               *)

Quietly == UNCHANGED <<pulls, builds, desk, roles, now, moves, stood>>
At(step) == run.step = step
Run(fields) == run' = fields @@ run
Succeeds == UNCHANGED failing
Fails == failing > 0 /\ failing' = failing - 1
NoPart == [pr |-> 0, requests |-> <<>>, answers |-> {}]

End(result) == Run([step |-> "done", result |-> result, todo |-> {}, part |-> NoPart])

\* A read without which the run ends, and a post, which may be carried out nevertheless.
FailRun == run.step \in {"open", "desk", "head"} /\ Fails /\ End("failed") /\ Quietly

\* collectRawParkMarkers: the open pull requests and the last park of each.
ListOpen ==
  /\ At("open")
  /\ LET open == {n \in DOMAIN pulls : pulls[n].open}
     IN  Run([step |-> "parked", todo |-> open, truncated |-> Cardinality(open) >= SampleSize])
  /\ Succeeds /\ Quietly

ReadParks ==
  /\ At("parked")
  /\ \E n \in run.todo :
       \/ Run([todo |-> run.todo \ {n}, parked |-> run.parked \union {<<n, p.service>> : p \in ParkOf(n)}]) /\ Succeeds
       \/ Run([todo |-> run.todo \ {n}, trouble |-> TRUE]) /\ Fails
  /\ Quietly

\* computeBoundReached.
BoundReached == run.truncated \/ Cardinality(run.parked) >= MaxParked

\* buildParkedChangeReport: no park, no verdict.
ParksRead ==
  /\ At("parked") /\ run.todo = {}
  /\ IF run.parked = {} THEN End("listed") ELSE Run([step |-> "pulls"])
  /\ Succeeds /\ Quietly

\* collectAdvisoryReviewEvidence.
ListPulls ==
  /\ At("pulls")
  /\ \/ Run([step |-> "evidence", todo |-> DOMAIN pulls]) /\ Succeeds
     \/ Run([step |-> "builds", lost |-> {Advisory}]) /\ Fails
  /\ Quietly

ReadComments ==
  /\ At("evidence") /\ run.part.pr = 0
  /\ \E n \in run.todo : Run([part |-> [NoPart EXCEPT !.pr = n, !.requests = pulls[n].requests], at |-> "timeline"])
  /\ Succeeds /\ Quietly

ReadTimeline ==
  /\ At("evidence") /\ run.part.pr # 0 /\ run.at = "timeline"
  /\ Run([part |-> [run.part EXCEPT !.answers = pulls[run.part.pr].events], at |-> "reviews"])
  /\ Succeeds /\ Quietly

ReadReviews ==
  /\ At("evidence") /\ run.part.pr # 0 /\ run.at = "reviews"
  /\ LET n == run.part.pr
         outcomes == AdvisoryOutcomes(run.part.requests, run.part.answers \union pulls[n].reviews, run.now)
     IN  Run([part |-> NoPart, todo |-> run.todo \ {n}, seen |-> run.seen \union {Observed(Advisory, n, 0, o) : o \in outcomes}])
  /\ Succeeds /\ Quietly

\* One pull request that cannot be read is skipped.
SkipPull ==
  /\ At("evidence") /\ Fails
  /\ \E n \in run.todo :
       /\ run.part.pr \in {0, n}
       /\ Run([part |-> NoPart, todo |-> run.todo \ {n}, trouble |-> TRUE])
  /\ Quietly

PullsRead == At("evidence") /\ run.todo = {} /\ Run([step |-> "builds"]) /\ Succeeds /\ Quietly

\* collectCiActionsEvidence: jobs are read of failing workflow runs only.
ListBuilds ==
  /\ At("builds")
  /\ LET completed(conclusion) == {b \in DOMAIN builds : Counted(run.now, b) /\ builds[b].conclusion = conclusion}
     IN  \/ /\ Run([step |-> "jobs", todo |-> completed("failure"),
                    seen |-> run.seen \union {Observed(Actions, builds[b].pr, b, "success") : b \in completed("success")}])
            /\ Succeeds
         \/ Run([step |-> "judge", lost |-> run.lost \union {Actions}]) /\ Fails
  /\ Quietly

ReadJobs ==
  /\ At("jobs")
  /\ \E b \in run.todo :
       \/ /\ Run([todo |-> run.todo \ {b},
                  seen |-> run.seen \union (IF Blocked(builds[b]) THEN {Observed(Actions, builds[b].pr, b, "failure")} ELSE {})])
          /\ Succeeds
       \/ Run([todo |-> run.todo \ {b}, trouble |-> TRUE]) /\ Fails
  /\ Quietly

BuildsRead == At("jobs") /\ run.todo = {} /\ Run([step |-> "judge"]) /\ Succeeds /\ Quietly

\* runParkPullRequest, buildParkedChangeList.
Judge ==
  /\ At("judge")
  /\ IF run.kind = "list" THEN End("listed")
     ELSE IF ParkEligible(run.service, Verdict(run.seen, run.lost, run.service), run.blockers) THEN Run([step |-> "head"])
     ELSE End("refused")
  /\ Succeeds /\ Quietly

ReadHead == At("head") /\ Run([step |-> "post"]) /\ Succeeds /\ Quietly

\* runProviderOutageDeclaration --declare: the actor's role, and how long it lasts.
CheckActor ==
  /\ At("authority")
  /\ \/ /\ Succeeds
        /\ IF Authorized(run.actor, roles[run.actor]) /\ run.lasts <= MaxValidity THEN Run([step |-> "confirm"])
           ELSE End("refused")
     \/ Fails /\ End("refused")
  /\ Quietly

\* runProviderOutageDeclaration --record-advanced: the declarations, and the role of each author.
ReadDesk ==
  /\ At("desk")
  /\ Run([step |-> "authors", todo |-> DeclarationsOf(desk, run.service)])
  /\ Succeeds /\ Quietly

CheckAuthor ==
  /\ At("authors")
  /\ \E d \in run.todo :
       \/ Run([todo |-> run.todo \ {d}, active |-> run.active \/ (Authorized(d.author, roles[d.author]) /\ InForce(d, run.now))])
          /\ Succeeds
       \/ Run([todo |-> run.todo \ {d}]) /\ Fails
  /\ Quietly

AuthorsRead ==
  /\ At("authors") /\ run.todo = {}
  /\ IF run.active THEN Run([step |-> "confirm"]) ELSE End("refused")
  /\ Succeeds /\ Quietly

Confirm == At("confirm") /\ (Run([step |-> "post"]) \/ End("declined")) /\ Succeeds /\ Quietly

Posts ==
  IF run.kind = "park"
  THEN Pull(run.pr, [parks |-> Append(pulls[run.pr].parks, [author |-> Me, service |-> run.service, at |-> run.now])])
  ELSE /\ desk' = Append(desk, [kind |-> IF run.kind = "declare" THEN "declaration" ELSE "advanced", author |-> run.actor,
                                service |-> run.service, started |-> run.now, expires |-> run.now + run.lasts, posted |-> now])
       /\ UNCHANGED <<pulls, builds, roles>>

Post ==
  /\ At("post")
  /\ \/ Posts /\ Succeeds /\ End("posted")
     \/ (Posts \/ UNCHANGED <<pulls, builds, desk, roles>>) /\ Fails /\ End("failed")
  /\ UNCHANGED <<now, moves, stood>>

FirstStep(kind) ==
  CASE kind = "park" -> "pulls" [] kind = "list" -> "open" [] kind = "declare" -> "authority" [] kind = "advance" -> "desk"

Started(kind, given) ==
  given @@ [kind |-> kind, step |-> FirstStep(kind), result |-> "none", now |-> now, actor |-> Me, service |-> Advisory,
            pr |-> 0, blockers |-> {}, lasts |-> 0, todo |-> {}, part |-> NoPart, at |-> "timeline", parked |-> {},
            truncated |-> FALSE, seen |-> {}, lost |-> {}, trouble |-> FALSE, active |-> FALSE]

Init == stood = ObjectionsNow

Step ==
  \/ FailRun \/ ListOpen \/ ReadParks \/ ParksRead
  \/ ListPulls \/ ReadComments \/ ReadTimeline \/ ReadReviews \/ SkipPull \/ PullsRead
  \/ ListBuilds \/ ReadJobs \/ BuildsRead \/ Judge \/ ReadHead
  \/ CheckActor \/ ReadDesk \/ CheckAuthor \/ AuthorsRead \/ Confirm \/ Post

Next == Move \/ Step

-----------------------------------------------------------------------------
Stood(why) == {o[2] : o \in {p \in stood : p[1] = why}}

\* A pull request is parked only if the service failed for enough pull requests at some
\* moment of the reading and worked for none all the while (classifyProviderHealth).
ParksAreCorroborated ==
  run.kind = "park" /\ run.step = "post" =>
    /\ Cardinality({n \in DOMAIN pulls : <<run.service, n>> \notin Stood("not failing")}) >= MinPrs
    /\ run.trouble \/ \A n \in DOMAIN pulls : <<run.service, n>> \notin Stood("works")

\* A list that could be read names no change resumable while the service fails, and no bound
\* free that was full all the while (buildParkedChangeReport).
ListsAreCurrent ==
  run.kind = "list" /\ run.result = "listed" /\ ~ run.trouble =>
    /\ BoundReached \/ Cardinality(Stood("parked")) < MaxParked
    /\ \A p \in run.parked : Verdict(run.seen, run.lost, p[2]) = "healthy" =>
         \A n \in DOMAIN pulls : <<p[2], n>> \notin Stood("fails")

\* Nothing is declared by whom it is not for, nor advanced without a declaration in force
\* (runProviderOutageDeclaration).
DeclarationsAreAuthorized ==
  run.step = "post" =>
    /\ run.kind = "declare" => Stood("not authorized") = {}
    /\ run.kind = "advance" => Stood("no declaration") = {}

OutagesAreHandledRightly == ParksAreCorroborated /\ ListsAreCurrent /\ DeclarationsAreAuthorized
=============================================================================
