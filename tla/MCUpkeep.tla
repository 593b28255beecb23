------------------------------- MODULE MCUpkeep -------------------------------
(***************************************************************************)
(* What agents do to issues and pull requests besides working on them, for *)
(* TLC: the audit that closes a roadmap, the runs that waive a check, the  *)
(* sessions that post and hide markers, the cleanup of a pull request, and *)
(* the outage of a service.  A behaviour is of one of them (subject); it   *)
(* starts in one of a few scenes, each with what people and other sessions *)
(* may do in any order.                                                    *)
(***************************************************************************)
EXTENDS Naturals, Sequences, FiniteSets, TLC

CONSTANTS
  Sessions, Posters,   \* the sessions that post markers, and the logins whose markers count
  MaxHeads             \* the heads of their pull request

VARIABLES subject, failing, moves, run, stood, pr,
          issues, closing, connected, openPrs, log, trees, clock,
          committed, claims, roles, waivers, policy, now, request, phase, known, report,
          head, comments, ask, session,
          claim,
          pulls, builds, desk

AtRest == 0

Me == "me"
Numbers == 1..4

Audit == INSTANCE RoadmapAudit WITH Numbers <- Numbers, Root <- 1, StaleAge <- 2, Me <- Me

Runs == {"r1", "r2"}
Waiving == INSTANCE WaiverApply WITH
             Runs <- Runs, Owner <- "owner", Trusted <- {"owner", "maint", "writer", "bot"}, AutoLasts <- 2,
             Convergence <- "convergence", Actions <- "bot"

Markers == INSTANCE HideMarkers WITH Trusted <- Posters

Cleanup == INSTANCE CommentCleanup WITH
             Agents <- {"agent"}, Trusted <- {"agent", "maint"}, KnownBots <- {"rabbit", "copilot"},
             ConfiguredBots <- {"rabbit"}, Rabbit <- "rabbit", PrAuthor <- "author"

Answers == INSTANCE Dispositions WITH
             Agents <- {Me}, Trusted <- {Me, "maint"}, KnownBots <- {"rabbit", "codex"},
             ConfiguredBots <- {"rabbit", "codex"}, Rabbit <- "rabbit", Codex <- "codex", PrAuthor <- Me

Outage == INSTANCE ProviderOutage WITH
            Owner <- "owner", Trusted <- {Me, "other"}, Me <- Me, MinPrs <- 2, SamplingWindow <- 3,
            SettledWindow <- 1, MaxValidity <- 2, SampleSize <- 4, MaxParked <- 2

auditVars == <<issues, closing, connected, openPrs, log, trees, clock>>
waiverVars == <<committed, claims, roles, waivers, policy, now, request, phase, known, report>>
markerVars == <<head, comments, ask, session>>
outageVars == <<pulls, builds, desk>>
allVars == <<subject, failing, moves, run, stood, pr, auditVars, waiverVars, markerVars, claim, outageVars>>

(* Variables of the other subjects. *)
NoAudit ==
  /\ issues = AtRest /\ closing = AtRest /\ connected = AtRest /\ openPrs = AtRest
  /\ log = AtRest /\ trees = AtRest /\ clock = AtRest
NoWaivers ==
  /\ committed = AtRest /\ claims = AtRest /\ roles = AtRest /\ waivers = AtRest /\ policy = AtRest
  /\ now = AtRest /\ request = AtRest /\ phase = AtRest /\ known = AtRest /\ report = AtRest
NoOutage == pulls = AtRest /\ builds = AtRest /\ desk = AtRest
NoMarkers == head = AtRest /\ comments = AtRest /\ ask = AtRest /\ session = AtRest

-----------------------------------------------------------------------------
(* Roadmaps.                                                               *)

Says(keyword, refs) == [keyword |-> keyword, refs |-> refs, more |-> <<>>, place |-> "line", aside |-> FALSE]
Leaf(body, subIssues) ==
  [access |-> "ok", isPullRequest |-> FALSE, open |-> FALSE, labels |-> {}, body |-> body, subIssues |-> subIssues]
RoadmapOf(body, subIssues) == [Leaf(body, subIssues) EXCEPT !.labels = {Audit!RoadmapLabel}]
Missing == [Leaf(<<>>, <<>>) EXCEPT !.access = "missing"]
ClaimedBy(who) == <<[kind |-> "claim", session |-> who, branch |-> "audit", at |-> 0]>>
Tree(branch, state) == [branch |-> branch, state |-> state, detached |-> FALSE]

RoadmapScene(all, written, may) ==
  /\ issues = [n \in Numbers |-> IF n \in DOMAIN all THEN all[n] ELSE Missing]
  /\ log = written /\ moves = may /\ clock = 1

NoPrs == openPrs = {} /\ closing = [n \in Numbers |-> {}] /\ connected = [n \in Numbers |-> <<>>]

\* A roadmap with a leaf and a roadmap below it, all closed, until somebody reopens one,
\* cuts one off, hides one or calls for a decision.
Nested ==
  /\ RoadmapScene(
       (1 :> [RoadmapOf(<<Says("task", <<2>>), Says("task", <<3>>)>>, <<>>) EXCEPT !.open = TRUE]) @@
       (2 :> RoadmapOf(<<Says("Refs", <<1>>)>>, <<4>>)) @@ (3 :> Leaf(<<Says("Refs", <<1>>)>>, <<>>)) @@
       (4 :> Leaf(<<>>, <<>>)),
       ClaimedBy(Me),
       {[do |-> "set", n |-> 4, to |-> [open |-> TRUE]], [do |-> "set", n |-> 2, to |-> [open |-> TRUE]],
        [do |-> "set", n |-> 2, to |-> [subIssues |-> <<>>]], [do |-> "set", n |-> 3, to |-> [access |-> "denied"]],
        [do |-> "set", n |-> 1, to |-> [labels |-> {Audit!RoadmapLabel, "needs-decision"}]]})
  /\ NoPrs /\ trees = {} /\ failing = 0

\* Two closed leaves whose pull requests are reopened, linked, unlinked or merged.
Linked ==
  /\ RoadmapScene(
       (1 :> [RoadmapOf(<<Says("task", <<2>>), Says("task", <<3>>)>>, <<>>) EXCEPT !.open = TRUE]) @@
       (2 :> Leaf(<<Says("Refs", <<1>>)>>, <<>>)) @@ (3 :> Leaf(<<>>, <<>>)),
       ClaimedBy(Me),
       {[do |-> "reopen pr", pr |-> "p"], [do |-> "link", n |-> 3, pr |-> "q"], [do |-> "merge", pr |-> "q"],
        [do |-> "connect", n |-> 2, type |-> "connected", pr |-> "q"],
        [do |-> "connect", n |-> 2, type |-> "disconnected", pr |-> "q"]})
  /\ openPrs = {"q"} /\ closing = [n \in Numbers |-> IF n = 2 THEN {"p"} ELSE {}]
  /\ connected = [n \in Numbers |-> <<>>] /\ trees = {} /\ failing = 1

\* A claim that is taken over, released or goes stale, a worktree that gets dirty, and a
\* roadmap that was closed before, with or without the evidence of it.
Contested ==
  /\ \E written \in {ClaimedBy(Me), ClaimedBy("other"), <<>>}, open \in BOOLEAN, done \in BOOLEAN :
       RoadmapScene(
         (1 :> [RoadmapOf(<<Says("task", <<2>>)>>, <<>>) EXCEPT !.open = open]) @@ (2 :> Leaf(<<>>, <<>>)),
         IF done THEN Append(written, [kind |-> "evidence", session |-> "other", branch |-> "audit", at |-> 0]) ELSE written,
         {[do |-> "wait"], [do |-> "post", kind |-> "claim", session |-> "other", branch |-> "audit"],
          [do |-> "post", kind |-> "release", session |-> Me, branch |-> "audit"],
          [do |-> "worktrees", to |-> {Tree("audit", "dirty")}]})
  /\ NoPrs /\ trees \in {{Tree("audit", "clean"), Tree("other", "dirty")}, {}} /\ failing = 1

AuditInit ==
  /\ subject = "audit" /\ (Nested \/ Linked \/ Contested) /\ Audit!Init
  /\ pr = AtRest /\ NoWaivers /\ NoMarkers /\ NoOutage /\ claim = AtRest

-----------------------------------------------------------------------------
(* Waivers.                                                                *)

Text(t) == [text |-> t, hits |-> {t}]
Glob == [text |-> "*", hits |-> {"ci", "lint"}]
ClaimOf(id, supersedes) == [id |-> id, branch |-> "b", supersedes |-> supersedes]
Unclaimed == Waiving!NoClaim
Ask == [actor |-> "maint", selector |-> Text("ci"), reason |-> "flaky", auto |-> FALSE, claimless |-> FALSE,
        issue |-> 0, expected |-> "any", lasts |-> 3, until |-> 0, allowClosed |-> FALSE, yes |-> TRUE]
ConvergenceText == Text("convergence")
ByWorkflow == [Ask EXCEPT !.actor = "bot", !.auto = TRUE, !.reason = "auto", !.selector = ConvergenceText]
Rules == [mode |-> "maintainer-authorized", authority |-> "owners-and-maintainers-only",
          waivable |-> {Text("ci"), ConvergenceText}, maxValidity |-> 4, deadline |-> 2]

WaiverScene(asked, all, may, rules, checks, failures) ==
  /\ pr = [open |-> TRUE, head |-> 1, branch |-> "b", checks |-> {[name |-> c, passing |-> FALSE] : c \in checks}]
  /\ committed = [h \in 1..2 |-> 1] /\ claims = all
  /\ roles = [a \in {"maint", "writer", "owner", "bot"} |->
                CASE a = "maint" -> "maintain" [] a = "owner" -> "admin" [] OTHER -> "write"]
  /\ waivers = <<>> /\ policy = rules /\ now = 1 /\ moves = may /\ failing = failures /\ request = asked

Both(a, b) == [r \in Runs |-> IF r = "r1" THEN a ELSE b]

\* Two maintainers waive the same check while the claim moves on and the head as well.
Race == WaiverScene(Both(Ask, [Ask EXCEPT !.actor = "owner"]), <<ClaimOf("c2", "c1"), Unclaimed>>,
                    {[do |-> "claim", issue |-> 1, claim |-> ClaimOf("c3", "c2")], [do |-> "push", head |-> 2]},
                    Rules, {"ci"}, 1)

\* Every kind of request, while what it rests on changes.
Plans ==
  \E a \in {[Ask EXCEPT !.yes = FALSE, !.until = 3, !.selector = Glob],
            [Ask EXCEPT !.actor = "writer", !.expected = "c1", !.lasts = 5],
            [Ask EXCEPT !.claimless = TRUE, !.until = 3],
            [Ask EXCEPT !.selector = ConvergenceText],
            [Ask EXCEPT !.selector = ConvergenceText, !.allowClosed = TRUE, !.issue = 1]},
     rules \in {Rules, [Rules EXCEPT !.authority = "all-write-permission-actors", !.maxValidity = 5]},
     may \in {{[do |-> "wait"], [do |-> "close"]}, {[do |-> "role", who |-> "maint", role |-> "read"], [do |-> "pass"]},
              {[do |-> "wait"], [do |-> "claim", issue |-> 1, claim |-> Unclaimed]}} :
    WaiverScene(Both(a, Ask), <<ClaimOf("c1", "none"), Unclaimed>>, may, rules, {"ci", "convergence"}, 0)

\* The workflow waives its own check twice, for a pull request with and without claims.
Bootstrap ==
  \E rules \in {Rules, [Rules EXCEPT !.mode = "disabled"], [Rules EXCEPT !.waivable = {Text("ci")}]},
     all \in {<<Unclaimed, Unclaimed>>, <<ClaimOf("c1", "none"), [ClaimOf("d1", "none") EXCEPT !.branch = "x"]>>} :
    WaiverScene(Both(ByWorkflow, ByWorkflow), all,
                {[do |-> "wait"], [do |-> "push", head |-> 2],
                 [do |-> "claim", issue |-> 1, claim |-> ClaimOf("c2", "c1")],
                 [do |-> "claim", issue |-> 2, claim |-> Unclaimed]}, rules, {"convergence"}, 1)

WaiverInit ==
  /\ subject = "waivers" /\ (Race \/ Plans \/ Bootstrap) /\ Waiving!Start
  /\ run = AtRest /\ NoAudit /\ NoMarkers /\ NoOutage /\ claim = AtRest

-----------------------------------------------------------------------------
(* Markers.                                                                *)

Ack(author, given) ==
  [type |-> "review-ack", author |-> author, claim |-> "c", attempt |-> 0, head |-> given, issues |-> <<>>]
Unavailable(who, n) == [Ack(Me, 0) EXCEPT !.type = "copilot-unavailable", !.claim = who, !.attempt = n]
Sweep == [Ack(Me, 0) EXCEPT !.type = "sweep", !.issues = <<"i1", "i2">>]
Posted(where, author, type) ==
  [on |-> where, type |-> type, author |-> author, by |-> "past", head |-> 0, claim |-> "c", attempt |-> 0, hidden |-> FALSE]

MarkerScene(a, b, c, before, failures) ==
  ask = [s \in Sessions |-> CASE s = "s1" -> a [] s = "s2" -> b [] OTHER -> c] /\ comments = before /\ failing = failures

\* Acknowledgements by whom the repository trusts and by a stranger, over a push.
Acks == MarkerScene(Ack(Me, 0), Ack("other", 1), Ack("stranger", 0),
                    <<Posted("pr", "stranger", "review-ack"), Posted("pr", Me, "review-ack")>>, 1)

\* Two attempts of one claim and one of another.
Reports == MarkerScene(Unavailable("c", 1), Unavailable("c", 2), Unavailable("d", 1), <<>>, 2)

\* Two sweeps of two issues, and a post that has nothing to do with them.
Sweeps == MarkerScene(Sweep, Sweep, Ack(Me, 0),
  <<Posted("i1", Me, "authoring-owner"), Posted("i1", "other", "authoring-owner"),
    Posted("i1", "stranger", "authoring-owner"), Posted("i1", Me, "authoring-publication-intent"),
    Posted("i2", Me, "authoring-publication-intent"), Posted("i2", Me, "authoring-publication-intent")>>, 1)

MarkerInit ==
  /\ subject = "markers" /\ (Acks \/ Reports \/ Sweeps) /\ Markers!Init
  /\ run = AtRest /\ stood = AtRest /\ moves = AtRest /\ pr = AtRest /\ NoAudit /\ NoWaivers /\ NoOutage /\ claim = AtRest

-----------------------------------------------------------------------------
(* The cleanup.                                                            *)

Word(id, author, kind, at) ==
  [id |-> id, author |-> author, kind |-> kind, names |-> "rabbit", stamped |-> FALSE, at |-> at, edited |-> at,
   unsafe |-> FALSE, hidden |-> FALSE, mayHide |-> TRUE, review |-> 9]
ReviewOf(id, author, state, at) ==
  [id |-> id, author |-> author, state |-> state, at |-> at, unsafe |-> FALSE, hidden |-> FALSE, mayHide |-> TRUE]

\* Markers of several authors, one of which is edited or brought back, and a claim that goes.
Operational ==
  /\ \E merged \in BOOLEAN :
       pr = [merged |-> merged, reviews |-> <<>>, threads |-> {},
             comments |-> {Word(1, "agent", "marker", 1), Word(2, "stranger", "marker", 1),
                           Word(3, "agent", "handoff", 2), [Word(4, "agent", "marker", 2) EXCEPT !.mayHide = FALSE]}]
  /\ moves = {[do |-> "edit", id |-> 1, to |-> [hidden |-> FALSE]], [do |-> "edit", id |-> 1, to |-> [unsafe |-> TRUE]],
              [do |-> "claim", to |-> "other"], [do |-> "claim", to |-> "mine"], [do |-> "merge"]}
  /\ failing = 1

\* A bot's summary, its review, and its thread that was answered, until somebody objects.
Feedback ==
  /\ pr = [merged |-> TRUE, comments |-> {Word(1, "rabbit", "summary", 1), Word(2, "rabbit", "triggerAck", 1)},
           reviews |-> <<ReviewOf(9, "rabbit", "COMMENTED", 1), ReviewOf(10, "copilot", "CHANGES_REQUESTED", 1)>>,
           threads |-> {[id |-> 1, resolved |-> TRUE, truncated |-> FALSE,
                         comments |-> <<Word(5, "rabbit", "words", 1), Word(6, "agent", "accepted", 2)>>]}]
  /\ moves = {[do |-> "reopen", n |-> 1], [do |-> "reply", n |-> 1, comment |-> Word(7, "rabbit", "ack", 3)],
              [do |-> "reply", n |-> 1, comment |-> Word(8, "person", "words", 3)],
              [do |-> "review", review |-> ReviewOf(11, "rabbit", "CHANGES_REQUESTED", 3)]}
  /\ failing = 0

CleanupInit ==
  /\ subject = "cleanup" /\ (Operational \/ Feedback) /\ claim = "mine" /\ Cleanup!Init
  /\ NoAudit /\ NoWaivers /\ NoMarkers /\ NoOutage

-----------------------------------------------------------------------------
(* Answers to reviewers.                                                   *)

Said(id, author, kind, at, completed) ==
  [id |-> id, author |-> author, kind |-> kind, names |-> author, stamped |-> FALSE, at |-> at, edited |-> at,
   completed |-> completed, by |-> author, source |-> 0, read |-> 0]
Mine(id, kind, bot, at) == [Said(id, Me, kind, at, {}) EXCEPT !.names = bot]
AnswerRun(kind) ==
  [kind |-> kind, phase |-> "start", result |-> "none", todo |-> <<>>, attempt |-> 1, known |-> {}, head |-> 0,
   completed |-> {}, ok |-> TRUE, calm |-> FALSE]
AnswerScene(said, all, may, failures, asked) ==
  /\ pr = [head |-> 1, now |-> 5, closing |-> FALSE, comments |-> said, threads |-> all]
  /\ claim = "mine" /\ moves = may /\ failing = failures /\ run = asked

\* Notices of two bots, one of them answered, and one that comes later.
Notices ==
  \E answered \in {{}, {Mine(3, "noticeDisposition", "rabbit", 3)}} :
    AnswerScene({Said(1, "rabbit", "notice", 1, {}), Said(2, "rabbit", "notice", 2, {}), Said(4, "codex", "notice", 4, {})}
                \union answered, {},
                {[do |-> "claim", to |-> "other"], [do |-> "say", comment |-> Said(0, "rabbit", "notice", 0, {})]},
                2, AnswerRun("notices"))

\* Summaries of two bots that edit them, over a push, with or without a person's word.
Summaries ==
  \E completed \in {{}, {1}}, others \in {{}, {Said(1, "person", "words", 1, {})}, {Mine(2, "summaryDisposition", "rabbit", 3)}},
     quiet \in {"summary", "quietSummary"} :
    AnswerScene({Said(3, "rabbit", quiet, 2, {}), Said(4, "codex", "summary", 4, completed)} \union others, {},
                {[do |-> "push"], [do |-> "claim", to |-> "other"],
                 [do |-> "edit", id |-> 4, to |-> [completed |-> {}]], [do |-> "edit", id |-> 4, to |-> [completed |-> {1}]],
                 [do |-> "edit", id |-> 3, to |-> [kind |-> "summary"]]},
                1, AnswerRun("notices"))

\* A thread of a bot that is answered with every kind of text, with and without a claim.
Thread ==
  \E body \in {"accepted", "confirmed", "words"}, claimless \in BOOLEAN, id \in {1, 7}, resolved \in BOOLEAN :
    AnswerScene({}, {[id |-> 1, resolved |-> resolved, comments |-> <<Said(1, "rabbit", "words", 1, {}), Said(2, "person", "words", 2, {})>>]},
                {[do |-> "claim", to |-> "other"], [do |-> "claim", to |-> "elsewhere"], [do |-> "link"],
                 [do |-> "reply", comment |-> Said(8, "rabbit", "words", 0, {})]},
                1, [claimless |-> claimless, body |-> body, comment |-> id] @@ AnswerRun("thread"))

AnswersInit ==
  /\ subject = "answers" /\ (Notices \/ Summaries \/ Thread) /\ Answers!Init
  /\ NoAudit /\ NoWaivers /\ NoMarkers /\ NoOutage

-----------------------------------------------------------------------------
(* The outage.                                                             *)

Quiet == [open |-> TRUE, requests |-> <<>>, events |-> {}, reviews |-> {}, parks |-> <<>>]
Asked(author, time) == [author |-> author, requested |-> time, at |-> time]
Stuck == [Quiet EXCEPT !.requests = <<Asked(Me, 2)>>]
Served == [Stuck EXCEPT !.events = {2}]
Parked(service) == [author |-> "other", service |-> service, at |-> 2]
Ran(number, conclusion, jobs) == [pr |-> number, updated |-> 2, conclusion |-> conclusion, jobs |-> jobs]
Declared(author, started, expires) ==
  [kind |-> "declaration", author |-> author, service |-> Outage!Advisory, started |-> started, expires |-> expires,
   posted |-> started]

OutageScene(all, ran, said, may, failures, kind, given) ==
  /\ pulls = all /\ builds = ran /\ desk = said /\ moves = may /\ failing = failures /\ now = 4
  /\ roles = (Me :> "maintain" @@ "maint" :> "maintain" @@ "owner" :> "read" @@ "stranger" :> "read")
  /\ run = Outage!Started(kind, given)

\* One pull request waits, one more may or may not, until the reviewer comes or a request is
\* made anew; strangers' requests and old ones do not count.
ReviewerDown ==
  \E second \in {Stuck, Served, [Stuck EXCEPT !.requests = <<Asked("stranger", 2)>>],
                  [Stuck EXCEPT !.requests = <<Asked("other", 0), Asked(Me, 1)>>]},
     third \in {Quiet, Stuck} :
    OutageScene(<<Stuck, second, third>>, <<>>, <<>>,
                {[do |-> "register", n |-> 1], [do |-> "review", n |-> 2], [do |-> "wait"],
                 [do |-> "request", n |-> 2, author |-> Me], [do |-> "close", n |-> 1]},
                1, "park", [pr |-> 1, blockers |-> {"advisory-wait"}])

\* Workflow runs that never ran a step, twice for one pull request, and one that is repeated.
ActionsDown ==
  \E third \in {Ran(2, "failure", "stepless"), Ran(2, "failure", "ran"), Ran(1, "failure", "stepless")},
     gates \in {{"ci"}, {"ci", "review-currency"}, {}} :
    OutageScene(<<Quiet, Quiet>>,
                <<Ran(1, "failure", "stepless"), Ran(1, "failure", "stepless"), third, Ran(0, "success", "ran")>>, <<>>,
                {[do |-> "build", id |-> 3, to |-> [conclusion |-> "pending", jobs |-> "stepless"]],
                 [do |-> "build", id |-> 3, to |-> [conclusion |-> "success", jobs |-> "ran"]],
                 [do |-> "build", id |-> 2, to |-> [conclusion |-> "failure", jobs |-> "ran"]]},
                1, "park", [pr |-> 1, service |-> Outage!Actions, blockers |-> gates])

\* Parked changes of both services, one of which recovers while they are listed.
Backlog ==
  \E second \in {Quiet, [Served EXCEPT !.parks = <<Parked(Outage!Actions)>>]} :
    OutageScene(<<[Stuck EXCEPT !.parks = <<Parked(Outage!Advisory)>>], second>>,
                <<Ran(1, "failure", "stepless")>>, <<>>,
                {[do |-> "register", n |-> 1], [do |-> "close", n |-> 1],
                 [do |-> "build", id |-> 1, to |-> [conclusion |-> "success", jobs |-> "ran"]],
                 [do |-> "park", n |-> 2, park |-> Parked(Outage!Advisory)]},
                1, "list", <<>>)

\* A declaration is made or used while roles change and others declare as well.
Declaring ==
  \E kind \in {"declare", "advance"}, actor \in {"maint", "owner", "stranger"}, lasts \in {2, 3},
     said \in {<<>>, <<Declared("maint", 4, 6)>>, <<Declared("stranger", 4, 6), Declared("maint", 2, 4)>>} :
    OutageScene(<<Quiet>>, <<>>, said,
                {[do |-> "role", who |-> "maint", role |-> "read"], [do |-> "role", who |-> "stranger", role |-> "maintain"],
                 [do |-> "declare", declaration |-> Declared("owner", 4, 6)]},
                1, kind, [actor |-> actor, lasts |-> lasts])

OutageInit ==
  /\ subject = "outage" /\ (ReviewerDown \/ ActionsDown \/ Backlog \/ Declaring) /\ Outage!Init
  /\ pr = AtRest /\ NoAudit /\ NoMarkers /\ claim = AtRest
  /\ committed = AtRest /\ claims = AtRest /\ waivers = AtRest /\ policy = AtRest
  /\ request = AtRest /\ phase = AtRest /\ known = AtRest /\ report = AtRest

-----------------------------------------------------------------------------
Init == AuditInit \/ WaiverInit \/ MarkerInit \/ CleanupInit \/ AnswersInit \/ OutageInit

NextAudit == subject = "audit" /\ Audit!Next /\ UNCHANGED <<subject, pr, waiverVars, markerVars, claim, outageVars>>
NextWaiver == subject = "waivers" /\ Waiving!Next /\ UNCHANGED <<subject, run, auditVars, markerVars, claim, outageVars>>
NextMarkers == subject = "markers" /\ Markers!Next
               /\ UNCHANGED <<subject, moves, run, stood, pr, auditVars, waiverVars, claim, outageVars>>
NextCleanup == subject = "cleanup" /\ Cleanup!Next /\ UNCHANGED <<subject, auditVars, waiverVars, markerVars, outageVars>>
NextAnswers == subject = "answers" /\ Answers!Next /\ UNCHANGED <<subject, auditVars, waiverVars, markerVars, outageVars>>
NextOutage == /\ subject = "outage" /\ Outage!Next
              /\ UNCHANGED <<subject, pr, auditVars, markerVars, claim,
                             committed, claims, waivers, policy, request, phase, known, report>>

Spec == Init /\ [][NextAudit \/ NextWaiver \/ NextMarkers \/ NextCleanup \/ NextAnswers \/ NextOutage]_allVars

-----------------------------------------------------------------------------
\* No roadmap is closed, no check waived, nothing hidden and nothing parked or declared over
\* an objection that stood all the time in which it could have been read
\* (runRoadmapAuditExecute, runExternalCheckWaiver, applyCandidatePass, runParkPullRequest).
UpkeepIsWarranted ==
  /\ subject = "audit" => Audit!RoadmapClosesRightly
  /\ subject = "waivers" => Waiving!WaiversAreWarranted
  /\ subject = "cleanup" => Cleanup!CleanupIsWarranted
  /\ subject = "answers" => Answers!AnswersAreWarranted /\ Answers!AnswersSatisfyTheGate
  /\ subject = "outage" => Outage!OutagesAreHandledRightly

\* Of two waivers for one check the later run names both (runExternalCheckWaiver).
DuplicatesAreNamed == subject = "waivers" => Waiving!DuplicatesAreNamed

\* What is hidden was superseded and still is (hideSupersededPostTimeMarkers).
CurrentMarkersStayVisible == subject = "markers" => Markers!CurrentMarkersStayVisible

\* A request that failed is not repeated if it was carried out (postWorkItemCommentWithRetry).
PostedOnce ==
  /\ subject = "markers" => Markers!PostedOnce
  /\ subject = "answers" => Answers!AnsweredOnce

\* The acceptance of a summary never masks what the bot wrote into it later
\* (disposition-non-review-notices.mjs).
AcceptanceMasksNothing == subject = "answers" => Answers!AcceptanceMasksNothing
=============================================================================
