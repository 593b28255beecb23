----------------------------- MODULE IssueIntake -----------------------------
(***************************************************************************)
(* How a session finds its next issue.  It enumerates the roadmaps, checks *)
(* which leaves can be started, asks the approval gate and the viability   *)
(* gate, looks for claims, takes the best that is left through the triage  *)
(* and claims it, closes it as a duplicate, or rejects it and goes on.     *)
(* Every call to GitHub is a step of its own, and people and other         *)
(* sessions change the issues between any two of them.                     *)
(*                                                                         *)
(* issues[n] is issue n as IssueGate reads it, with version, the number of *)
(* its edits; history[n] has the times of renames and edits, the editors   *)
(* and the events of the ready label.  moves is what people may still do.  *)
(* s is the session.                                                       *)
(***************************************************************************)
EXTENDS IssueGate

CONSTANTS Issues, Numbers, LegacyRoots, Floor, Policy, Permissions, Trusted,
          HighContention, StaleAge, Me

ASSUME IntakeAssumption == StaleAge \in Nat \ {0} /\ Issues \subseteq Numbers /\ Me \in Trusted

VARIABLES issues, comments, history, prs, clock, moves, failing, s, always, held
world == <<issues, comments, history, prs, clock, moves>>
vars == <<issues, comments, history, prs, clock, moves, failing, s, always, held>>

NoIssue == 0
NoReading == <<>>
NoComments == <<>>
NoTimeline == [known |-> FALSE, renamed |-> {}, ready |-> <<>>]
NoEdits == [known |-> FALSE, at |-> {}, editors |-> {}]

Missing == [access |-> "missing"]
Reading(n) == IF n \in Issues THEN issues[n] ELSE Missing

Timeline(n) == [known |-> TRUE, renamed |-> history[n].renamed, ready |-> history[n].ready]
Edits(n) == [known |-> TRUE, at |-> history[n].edited, editors |-> history[n].editors]

-----------------------------------------------------------------------------
(* Claims.                                                                 *)

NoClaim == [author |-> "nobody", at |-> 0]

\* A claim stands until it is released or, once it is stale, another one is posted.
ActiveClaim(log) ==
  FoldLeft(LAMBDA active, c :
             CASE c.kind = "claim" /\ (active = NoClaim \/ active.author = c.author
                                         \/ c.at - active.at >= StaleAge) ->
                    [author |-> c.author, at |-> c.at]
               [] c.kind = "release" /\ c.author = active.author -> NoClaim
               [] OTHER -> active,
           NoClaim, log)

\* annotateLeafClaimState, isClaimStaleByAge.
ClaimEligible(log, now) ==
  ActiveClaim(log) = NoClaim \/ now - ActiveClaim(log).at >= StaleAge

\* evaluateSuitabilityCloseClaim.
CloseClaimOwned(log, now) ==
  ActiveClaim(log).author = Me /\ now - ActiveClaim(log).at < StaleAge

-----------------------------------------------------------------------------
(* What is true now: the state that nobody reads in one piece.             *)

LabelRoots(all) == {n \in DOMAIN all : all[n].access = "ok" /\ all[n].open /\ RoadmapLabel \in all[n].labels}

MarkerRoots(all) ==
  {n \in DOMAIN all : all[n].access = "ok" /\ all[n].open /\ RoadmapMarkerId(all[n].body) # NoMarker}

MarkerMatches(marker) ==
  {issues[n] : n \in {k \in Issues : issues[k].access = "ok" /\ RoadmapMarkerId(issues[k].body) = marker}}

MarkersOf(issue) == BlockedByRoadmapMarkers(issue.body)

Everything == [n \in Numbers |-> Reading(n)]

StructuralNow(n) == StructuralEvidence(issues[n], history[n].editors, Trusted)

EvidenceNow(n) ==
  [byBranch |-> MergedPrsByBranchName(issues[n], prs),
   closedBy |-> ClosedByMergedPrs(issues[n], prs),
   overlapping |-> MergedPrsOverlapping(issues[n], prs, HighContention),
   degraded |-> FALSE]

TitlesNow == {[number |-> n, title |-> issues[n].title, open |-> issues[n].open] :
                n \in {k \in Issues : issues[k].access = "ok"}}

\* A rejection of any outcome that the text has not outlived.
RejectedNow(n) ==
  LET rejection == TrustedRejection(comments[n], Trusted)
  IN  rejection # NoRejection
      /\ rejection.at >= LatestIssueEdit(issues[n].created, Timeline(n), Edits(n))

OpenNow == {n \in Issues : issues[n].access = "ok" /\ issues[n].open}

Suitable(n, evidence) == Suitability(issues[n], TitlesNow, evidence, StructuralNow(n)).outcome = "ready"

\* What the triage cannot know when evidence could not be collected.
DoubtfulDuplicate == <<"doubtful duplicate", 0>>

\* All that speaks against starting n now.
ObjectionsNow(n) ==
  IF issues[n].access # "ok" THEN {<<"unreadable", 0>>}
  ELSE
  (IF issues[n].open THEN {} ELSE {<<"not open", 0>>}) \union
  BodyReasons(Everything, [m \in MarkersOf(issues[n]) |-> MarkerMatches(m)], issues[n]) \union
  (IF RejectedNow(n) THEN {<<"rejected", 0>>} ELSE {}) \union
  (IF Approved(issues[n], comments[n], Timeline(n), Edits(n), Permissions, Policy)
   THEN {} ELSE {<<"not approved", 0>>}) \union
  (IF Viable(issues[n], StructuralNow(n)) THEN {} ELSE {<<"not viable", 0>>}) \union
  (IF Suitable(n, [NoEvidence EXCEPT !.degraded = TRUE]) THEN {} ELSE {<<"not suitable", 0>>}) \union
  (IF Suitable(n, EvidenceNow(n)) THEN {} ELSE {DoubtfulDuplicate}) \union
  (IF BelowFloor(issues[n], Floor) THEN {<<"below the floor", 0>>} ELSE {}) \union
  (IF ClaimEligible(comments[n], clock) THEN {} ELSE {<<"claimed", 0>>})

\* A way to an issue is how its root is known, the walk from there, and the version of the
\* issue at its end.  It holds while every step of it does and nothing speaks against its end.
RootsKnown(how) ==
  CASE how = "label" -> LabelRoots(issues)
    [] how = "marker" -> MarkerRoots(issues)
    [] how = "legacy" -> {r \in LegacyRoots : ~ RootFails(Reading(r))}

AnyRoot == \E how \in {"label", "marker", "legacy"} : RootsKnown(how) # {}

WayHolds(way) ==
  LET leaf == Last(way.walk)
  IN  /\ issues[leaf].version = way.version
      /\ IF way.how = "orphan"
         THEN ~ AnyRoot /\ OrphanClass(OpenNow, Everything, leaf, StructuralNow(leaf)) = "orphan"
         ELSE /\ way.walk[1] \in RootsKnown(way.how)
              /\ \A i \in 1..(Len(way.walk) - 1) : way.walk[i + 1] \in Expansion(issues[way.walk[i]])
              /\ leaf # way.walk[1] /\ Classification(issues[leaf]) = "execution"
      /\ ObjectionsNow(leaf) = {}

WaysNow ==
  {way \in [how : {"label", "marker", "legacy"},
            walk : UNION {Walks(Everything, r) : r \in Issues}, version : {0}]
           \union [how : {"orphan"}, walk : {<<n>> : n \in OpenNow}, version : {0}] : WayHolds(way)}

\* What changes the world keeps both accounts.
Witnessed ==
  /\ always' = {way \in always : WayHolds(way)'}
  /\ held' = [n \in Issues |-> IF held[n] = {} THEN {} ELSE held[n] \intersect ObjectionsNow(n)']

-----------------------------------------------------------------------------
(* People and other sessions.                                              *)

Post(n, comment) == comments' = [comments EXCEPT ![n] = Append(@, comment)]

Close(n) == issues' = [issues EXCEPT ![n].open = FALSE] /\ UNCHANGED <<comments, history, prs>>

Reopen(n) == issues' = [issues EXCEPT ![n].open = TRUE] /\ UNCHANGED <<comments, history, prs>>

\* The ready label leaves its events in the timeline.
Label(n, label, on, at) ==
  /\ issues' = [issues EXCEPT ![n].labels = IF on THEN @ \union {label} ELSE @ \ {label}]
  /\ history' = IF label # ReadyLabel THEN history
                ELSE [history EXCEPT ![n].ready =
                        Append(@, [event |-> IF on THEN "labeled" ELSE "unlabeled", at |-> at])]
  /\ UNCHANGED <<comments, prs>>

\* An edit of the body, or of the title only (a rename).
Edit(n, text, who, at) ==
  /\ issues' = [issues EXCEPT ![n] = [field \in DOMAIN @ |->
                  IF field = "version" THEN @.version + 1
                  ELSE IF field \in DOMAIN text THEN text[field] ELSE @[field]]]
  /\ history' = IF DOMAIN text = {"title"} THEN [history EXCEPT ![n].renamed = @ \union {at}]
                ELSE [history EXCEPT ![n].edited = @ \union {at}, ![n].editors = @ \union {who}]
  /\ UNCHANGED <<comments, prs>>

Comment(n, kind, who, at) ==
  /\ Post(n, [kind |-> kind, author |-> who, at |-> at])
  /\ UNCHANGED <<issues, history, prs>>

\* Another session's triage, of the text as it is or as it was before the last edit.
Rejection(n, outcome, at) ==
  /\ \E late \in {0, 1} :
       /\ late <= issues[n].version
       /\ Post(n, [kind |-> "rejection", author |-> Me, at |-> at, outcome |-> outcome,
                   markers |-> {outcome} \intersect VerdictMarkers, version |-> issues[n].version - late])
  /\ UNCHANGED <<issues, history, prs>>

Merge(pr) == prs' = prs \union {pr} /\ UNCHANGED <<issues, comments, history>>

Do(move, at) ==
  \/ move.do = "close" /\ Close(move.n)
  \/ move.do = "reopen" /\ Reopen(move.n)
  \/ move.do = "label" /\ Label(move.n, move.label, TRUE, at)
  \/ move.do = "unlabel" /\ Label(move.n, move.label, FALSE, at)
  \/ move.do = "edit" /\ Edit(move.n, move.text, move.who, at)
  \/ move.do = "ready" /\ Comment(move.n, "ready", move.who, at)
  \/ move.do = "plan" /\ Comment(move.n, "plan", move.who, at)
  \/ move.do = "claim" /\ Comment(move.n, "claim", "another session", at)
  \/ move.do = "reject" /\ Rejection(move.n, move.outcome, at)
  \/ move.do = "merge" /\ Merge([move.pr EXCEPT !.at = at])
  \/ move.do = "wait" /\ UNCHANGED <<issues, comments, history, prs>>

\* Every move happens at most once; where its time matters (move.after), some seconds
\* after the last one.
Move ==
  /\ s.phase # "over"
  /\ \E move \in moves :
       \E pause \in move.after :
         /\ Do(move, clock + pause)
         /\ clock' = clock + pause
         /\ moves' = moves \ {move}
  /\ UNCHANGED <<failing, s>>
  /\ Witnessed

-----------------------------------------------------------------------------
(* What is there when the session begins.                                  *)

\* When the text of an issue was written: at first, or by a rename or an edit.
EditTimes(issue, past) == {issue.created} \union past.renamed \union past.edited

\* A rejection is of a version that there was, and of the present one only if it is not
\* older than the text.
RejectionFits(c, issue, past, now) ==
  /\ c.version \in 0..issue.version /\ c.at \in 0..now
  /\ c.version = issue.version => \A t \in EditTimes(issue, past) : t <= c.at

ByTrusted(c) == c.kind = "rejection" /\ c.author \in Trusted

\* Nothing has happened later than now, and what people may still do takes time.
Filed ==
  /\ clock \in Nat
  /\ DOMAIN issues = Issues /\ DOMAIN comments = Issues /\ DOMAIN history = Issues
  /\ \A n \in Issues :
       /\ {"version", "created"} \subseteq DOMAIN issues[n] /\ issues[n].version \in Nat
       /\ DOMAIN history[n] = {"renamed", "ready", "edited", "editors"}
       /\ EditTimes(issues[n], history[n]) \subseteq 0..clock
       /\ comments[n] \in Seq(Elements(comments[n]))
       /\ \A c \in Elements(comments[n]) : ByTrusted(c) => RejectionFits(c, issues[n], history[n], clock)
  /\ \A move \in moves :
       move.after \subseteq Nat /\ (move.do = "edit" => "created" \notin DOMAIN move.text)

-----------------------------------------------------------------------------
(* The session.                                                            *)

Quietly == UNCHANGED <<world, always, held>>
Silently == Quietly /\ UNCHANGED failing

\* What it has read of the issue it looks at; what is still to be read of it, in order.
NoNotes == [issue |-> NoReading, log |-> NoComments, timeline |-> NoTimeline, edits |-> NoEdits,
            titles |-> {}, evidence |-> NoEvidence, structural |-> FALSE, now |-> 0]

ToRead == [readiness |-> <<>>, orphans |-> <<>>,
           approval |-> <<"issue", "comments", "timeline", "edits">>,
           viability |-> <<"issue">>,
           claims |-> <<"comments">>,
           triage |-> <<"issue", "titles", "comments">>]

Following == [readiness |-> "approval", orphans |-> "approval", approval |-> "viability",
              viability |-> "claims", claims |-> "triage"]

Start ==
  s = [phase |-> "roots", roots |-> {}, root |-> NoIssue, seen |-> NoReading, found |-> NoReading,
       frontier |-> {}, leaves |-> NoReading, listed |-> {}, queue |-> <<>>, kept |-> <<>>,
       todo |-> <<>>, stage |-> "begin", notes |-> NoNotes, claimed |-> NoIssue, trouble |-> FALSE]

\* The session without what it read for one part of its work.
Forgetting(t) ==
  [t EXCEPT !.seen = NoReading, !.found = NoReading, !.frontier = {}, !.notes = NoNotes, !.stage = "begin"]

\* The run ends without an issue; what it knew is gone.
Over(t) ==
  [Forgetting(t) EXCEPT !.phase = "over", !.queue = <<>>, !.kept = <<>>, !.todo = <<>>,
     !.leaves = NoReading, !.listed = {}, !.roots = {}, !.root = NoIssue]

\* The run ends because something could not be read or is not to be touched.
InTrouble == [Over(s) EXCEPT !.trouble = TRUE]

\* The next part of the work, on these issues in this order.
Enter(t, phase, queue) ==
  IF queue = <<>> THEN Over(t)
  ELSE [Forgetting(t) EXCEPT !.phase = phase, !.queue = queue, !.kept = <<>>, !.todo = ToRead[phase]]

InOrder(leaves) == UnionLeaves(leaves, Floor)

Only(leaves, kept) == [n \in Elements(kept) |-> leaves[n]]

Candidate == s.queue[1]

-----------------------------------------------------------------------------
(* Enumeration: enumerateAllRoadmapsGraph.                                 *)

\* buildOpenRoadmapRootsLoader: two searches, one after the other.
SearchByLabel ==
  /\ s.phase = "roots"
  /\ s' = [s EXCEPT !.phase = "marked", !.roots = LegacyRoots \union LabelRoots(issues)]
  /\ Silently

\* The next root; without one the leaves go on, or the orphans if there are none.
NextRoot(roots, leaves) ==
  IF roots # {}
  THEN [s EXCEPT !.phase = "load", !.roots = roots, !.root = Min(roots), !.frontier = {Min(roots)},
                 !.seen = NoReading, !.leaves = leaves]
  ELSE IF DOMAIN leaves = {} THEN [Forgetting(s) EXCEPT !.phase = "listing", !.leaves = leaves]
  ELSE [Enter(s, "readiness", InOrder(leaves)) EXCEPT !.leaves = leaves]

SearchByMarker ==
  /\ s.phase = "marked"
  /\ s' = NextRoot(s.roots \union MarkerRoots(issues), NoReading)
  /\ Silently

\* mapPool, expandForPrefetch, getIssue: the issues of a frontier, in any order, each once.
Load(n) ==
  /\ s.phase = "load"
  /\ n \in s.frontier \ DOMAIN s.seen
  /\ s' = [s EXCEPT !.seen = (n :> Reading(n)) @@ @]
  /\ Silently

\* MUTANT of NextFrontier: nobody remembers what was scheduled before.
NextFrontierAgain == UNION {Expansion(s.seen[n]) : n \in s.frontier}

\* MUTANT of NextFrontier: an issue that is closed ends its branch.
NextFrontierOfOpen ==
  UNION {Expansion(s.seen[n]) : n \in {k \in s.frontier : k = s.root \/ (s.seen[k].access = "ok" /\ s.seen[k].open)}}
    \ DOMAIN s.seen

\* prefetchReachableIssues: what the frontier refers to and was not scheduled before.
NextFrontier == UNION {Expansion(s.seen[n]) : n \in s.frontier} \ DOMAIN s.seen

Advance ==
  /\ s.phase = "load"
  /\ s.frontier \subseteq DOMAIN s.seen
  /\ NextFrontier # {}
  /\ s' = [s EXCEPT !.frontier = NextFrontier]
  /\ Silently

\* A root that cannot be visited is skipped; the others add their leaves.
FinishRoot ==
  /\ s.phase = "load"
  /\ s.frontier \subseteq DOMAIN s.seen
  /\ NextFrontier = {}
  /\ s' = NextRoot(s.roots \ {s.root},
                   IF RootFails(s.seen[s.root]) THEN s.leaves ELSE MergeLeaves(s.leaves, s.seen, s.root))
  /\ Silently

-----------------------------------------------------------------------------
(* One part of the reading of a candidate, and one that fails.             *)

\* A failure that a script lives with, or that ends the run.
Survivable == {"timeline", "edits", "closedBy", "byBranch", "overlapping", "editors"}

Got(part, n) ==
  CASE part = "issue" -> [s.notes EXCEPT !.issue = Reading(n)]
    [] part = "comments" -> [s.notes EXCEPT !.log = comments[n]]
    [] part = "timeline" -> [s.notes EXCEPT !.timeline = Timeline(n)]
    [] part = "edits" -> [s.notes EXCEPT !.edits = Edits(n)]
    [] part = "titles" -> [s.notes EXCEPT !.titles = TitlesNow]
    [] part = "closedBy" -> [s.notes EXCEPT !.evidence.closedBy = EvidenceNow(n).closedBy]
    [] part = "byBranch" -> [s.notes EXCEPT !.evidence.byBranch =
                               MergedPrsByBranchName(s.notes.issue, prs)]
    [] part = "overlapping" -> [s.notes EXCEPT !.evidence.overlapping =
                                  MergedPrsOverlapping(s.notes.issue, prs, HighContention)]
    [] part = "editors" -> [s.notes EXCEPT !.structural =
                              StructuralEvidence(s.notes.issue, history[n].editors, Trusted)]

\* Evidence that could not be had degrades the rest; other parts are as if empty.
Lost(part) ==
  IF part \in {"closedBy", "byBranch", "overlapping"}
  THEN [s.notes EXCEPT !.evidence.degraded = TRUE]
  ELSE s.notes

ReadPart ==
  /\ s.todo # <<>>
  /\ s' = [s EXCEPT !.notes = Got(s.todo[1], Candidate), !.todo = Tail(@)]
  /\ Silently

FailPart ==
  /\ s.todo # <<>>
  /\ failing > 0 /\ failing' = failing - 1
  /\ s' = IF s.todo[1] \in Survivable \/ (s.phase \in {"readiness", "orphans"} /\ s.todo[1] = "comments")
          THEN [s EXCEPT !.notes = Lost(s.todo[1]), !.todo = Tail(@), !.trouble = TRUE]
          ELSE InTrouble
  /\ Quietly

\* The candidate is kept for the next part of the work, or not.
Decide(keep) ==
  LET kept == IF keep THEN Append(s.kept, Candidate) ELSE s.kept
      next == Following[s.phase]
  IN  s' = IF Len(s.queue) > 1
           THEN [s EXCEPT !.queue = Tail(@), !.kept = kept, !.todo = ToRead[s.phase],
                          !.notes = NoNotes, !.stage = "begin"]
           ELSE IF s.phase = "readiness" /\ kept = <<>>
           THEN [Forgetting(s) EXCEPT !.phase = "listing", !.queue = <<>>]
           ELSE Enter(s, next, IF next = "triage" THEN Ranked(Only(s.leaves, kept), Floor, TRUE) ELSE kept)

-----------------------------------------------------------------------------
(* evaluateDiscoverReadiness.                                              *)

Undecided == s.todo = <<>> /\ s.queue # <<>>

Readable(n) == n \in DOMAIN s.seen /\ s.seen[n].access = "ok" /\ s.seen[n].open

MarkersUnread(n) == IF Readable(n) THEN MarkersOf(s.seen[n]) \ DOMAIN s.found ELSE {}

ReadReference ==
  /\ s.phase = "readiness" /\ Undecided /\ Unread(s.seen, Candidate) # <<>>
  /\ LET d == Unread(s.seen, Candidate)[1]
     IN  s' = [s EXCEPT !.seen = (d :> Reading(d)) @@ @]
  /\ Silently

FindRoadmaps ==
  /\ s.phase = "readiness" /\ Undecided /\ Unread(s.seen, Candidate) = <<>>
  /\ \E m \in MarkersUnread(Candidate) : s' = [s EXCEPT !.found = (m :> MarkerMatches(m)) @@ @]
  /\ Silently

Known == s.notes.timeline.known /\ s.notes.edits.known

NotesEdit(issue) == LatestIssueEdit(issue.created, s.notes.timeline, s.notes.edits)

NotesRejection == TrustedRejection(s.notes.log, Trusted)

\* The comments, and if they reject with a marker the history, before the verdict.
VerdictParts ==
  CASE s.stage = "begin" -> <<"comments">>
    [] s.stage = "comments" /\ MarkerOutcome(NotesRejection) # NoMarkerOutcome -> <<"timeline", "edits">>
    [] OTHER -> <<>>

AskForVerdict ==
  /\ VerdictParts # <<>>
  /\ s' = [s EXCEPT !.todo = VerdictParts, !.stage = VerdictParts[1]]

JudgeReadiness ==
  /\ s.phase = "readiness" /\ Undecided
  /\ Unread(s.seen, Candidate) = <<>> /\ MarkersUnread(Candidate) = {}
  /\ LET worth == Readable(Candidate) /\ BodyReasons(s.seen, s.found, s.seen[Candidate]) = {}
     IN  \/ worth /\ AskForVerdict
         \/ /\ ~ worth \/ VerdictParts = <<>>
            /\ Decide(Reasons(s.seen, s.found, Candidate, NotesRejection, Known,
                              IF Known THEN NotesEdit(s.seen[Candidate]) ELSE 0) = {})
  /\ Silently

-----------------------------------------------------------------------------
(* Orphans: filterOrphanIssues.                                            *)

ListOpenIssues ==
  /\ s.phase = "listing"
  /\ s' = IF OpenNow = {} THEN Over(s)
          ELSE [Enter(s, "orphans", SetToSortSeq(OpenNow, LAMBDA a, b : a < b)) EXCEPT
                  !.listed = OpenNow, !.seen = [n \in OpenNow |-> issues[n]],
                  !.leaves = [n \in OpenNow |->
                     [score |-> issues[n].score, effort |-> issues[n].effort, sourceRoots |-> {}]]]
  /\ Silently

\* The references of an orphan that the listing does not have.
Elsewhere(n) ==
  LET body == s.seen[n].body
  IN  (BlockedByIssueNumbers(body) \union DependencyIssueNumbers(body)) \ DOMAIN s.seen

FetchIssueState ==
  /\ s.phase = "orphans" /\ Undecided /\ Elsewhere(Candidate) # {}
  /\ LET d == Min(Elsewhere(Candidate)) IN s' = [s EXCEPT !.seen = (d :> Reading(d)) @@ @]
  /\ Silently

ClassifyOrphan ==
  /\ s.phase = "orphans" /\ Undecided /\ Elsewhere(Candidate) = {}
  /\ LET class == OrphanClass(s.listed, s.seen, Candidate, s.notes.structural)
         ask == s.stage = "begin" /\ OrphanNeedsEditors(s.listed, s.seen, Candidate) /\ ~ s.notes.structural
                  /\ s.notes.issue = NoReading
     IN  \/ ask /\ s' = [s EXCEPT !.notes.issue = s.seen[Candidate], !.todo = <<"editors">>]
         \/ ~ ask /\ class = "orphan" /\ AskForVerdict
         \/ /\ ~ ask /\ (class # "orphan" \/ VerdictParts = <<>>)
            /\ Decide(class = "orphan" /\ ~ VerdictCurrent(NotesRejection, Known,
                        IF Known THEN NotesEdit(s.seen[Candidate]) ELSE 0))
  /\ Silently

-----------------------------------------------------------------------------
(* The gates and the claims of others.                                     *)

\* runCli of claim-approval-gate.mjs.
JudgeApproval ==
  /\ s.phase = "approval" /\ Undecided
  /\ Decide(/\ s.notes.issue.access = "ok"
            /\ Approved(s.notes.issue, s.notes.log, s.notes.timeline, s.notes.edits, Permissions, Policy))
  /\ Silently

\* evaluateDiscoverViability.
JudgeViability ==
  /\ s.phase = "viability" /\ Undecided
  /\ LET issue == s.notes.issue
         ask == issue.access = "ok" /\ issue.open /\ s.stage = "begin"
                  /\ WorthDemoting(issue) /\ WorthFetchingEditors(issue)
     IN  IF ask THEN s' = [s EXCEPT !.stage = "editors", !.todo = <<"editors">>]
         ELSE Decide(issue.access = "ok" /\ issue.open /\ Viable(issue, s.notes.structural))
  /\ Silently

\* annotateLeafClaimState.
JudgeClaims ==
  /\ s.phase = "claims" /\ Undecided
  /\ Decide(ClaimEligible(s.notes.log, clock))
  /\ Silently

-----------------------------------------------------------------------------
(* Triage: runCli of suitability-triage.mjs, and what follows from it.     *)

\* The candidate is done with; the next one is looked at.
Drop == s' = Enter(s, "triage", Tail(s.queue))

\* MUTANT of Standing: a rejection is believed only if a marker names its outcome.
StandingMarked ==
  MarkerOutcome(NotesRejection) # NoMarkerOutcome /\ NotesRejection.at >= NotesEdit(s.notes.issue)

\* A rejection of any outcome stands until the text is edited.
Standing == NotesRejection # NoRejection /\ NotesRejection.at >= NotesEdit(s.notes.issue)

\* First the rejections, then the evidence, then the editors.  An issue that cannot be read
\* is not triaged.
Precheck ==
  /\ s.phase = "triage" /\ Undecided /\ s.stage \in {"begin", "history"}
  /\ s.notes.issue.access = "ok"
  /\ \/ /\ s.stage = "begin" /\ NotesRejection # NoRejection
        /\ s' = [s EXCEPT !.stage = "history", !.todo = <<"timeline", "edits">>]
     \/ /\ s.stage = "history" /\ (~ Known \/ Standing)
        /\ IF Known THEN Drop ELSE s' = InTrouble
     \/ /\ NotesRejection = NoRejection \/ (s.stage = "history" /\ Known /\ ~ Standing)
        /\ s' = [s EXCEPT !.stage = "evidence",
                           !.todo = IF WorthCollecting(s.notes.issue)
                                    THEN <<"closedBy", "byBranch", "overlapping">> ELSE <<>>]
  /\ Silently

AskForEditors ==
  /\ s.phase = "triage" /\ Undecided /\ s.stage = "evidence"
  /\ s' = [s EXCEPT !.stage = "verdict",
                     !.todo = IF WouldDemote(s.notes.issue, s.notes.titles, s.notes.evidence)
                                   /\ WorthFetchingEditors(s.notes.issue)
                              THEN <<"editors">> ELSE <<>>]
  /\ Silently

Verdict == Suitability(s.notes.issue, s.notes.titles, s.notes.evidence, s.notes.structural)

Judging == s.phase = "triage" /\ Undecided /\ s.stage = "verdict"

\* The rejection is posted; an invalid issue ends the run.
Reject ==
  /\ Judging /\ Verdict.outcome # "ready" /\ ~ CloseEligible(Verdict.check)
  /\ Post(Candidate, [kind |-> "rejection", author |-> Me, at |-> clock, outcome |-> Verdict.outcome,
                      markers |-> {Verdict.outcome} \intersect VerdictMarkers,
                      version |-> s.notes.issue.version])
  /\ IF Verdict.outcome = "invalid" THEN s' = InTrouble ELSE Drop
  /\ UNCHANGED <<issues, history, prs, clock, moves, failing>>
  /\ Witnessed

PostClaim(phase) ==
  /\ Post(Candidate, [kind |-> "claim", author |-> Me, at |-> clock])
  /\ s' = [s EXCEPT !.phase = phase, !.stage = "begin", !.notes = NoNotes,
                     !.todo = IF phase = "close" THEN <<"issue", "comments">> ELSE <<"comments">>]
  /\ UNCHANGED <<issues, history, prs, clock, moves, failing>>
  /\ Witnessed

Accept == Judging /\ Verdict.outcome = "ready" /\ PostClaim("verify")

\* The claim is won if it is the active one.
VerifyClaim ==
  /\ s.phase = "verify" /\ Undecided
  /\ IF ActiveClaim(s.notes.log).author = Me THEN s' = [Over(s) EXCEPT !.claimed = Candidate] ELSE Drop
  /\ Silently

-----------------------------------------------------------------------------
(* A close as a duplicate: runSuitabilityCloseExecute.                     *)

Coordinate == Judging /\ CloseEligible(Verdict.check) /\ PostClaim("close")

\* The claim is checked at a time that is kept for the second check.
CheckCloseClaim ==
  /\ s.phase = "close" /\ Undecided /\ s.stage = "begin"
  /\ IF s.notes.issue.access # "ok" \/ ~ CloseClaimOwned(s.notes.log, clock) THEN Drop
     ELSE s' = [s EXCEPT !.stage = "evidence", !.todo = <<"closedBy", "byBranch", "overlapping">>,
                         !.notes.now = clock]
  /\ Silently

\* MUTANT of AnnounceClose: it is not looked again who holds the claim.
AnnounceCloseAtOnce ==
  /\ s.phase = "close" /\ Undecided /\ s.stage = "evidence"
  /\ IF HighConfidenceDuplicate(s.notes.evidence)
     THEN Post(Candidate, [kind |-> "closing", author |-> Me, at |-> clock])
          /\ s' = [s EXCEPT !.stage = "announced", !.todo = <<>>]
     ELSE UNCHANGED comments /\ Drop
  /\ UNCHANGED <<issues, history, prs, clock, moves, failing>>
  /\ Witnessed

\* The evidence is posted, and then the claim is read once more.
AnnounceClose ==
  /\ s.phase = "close" /\ Undecided /\ s.stage = "evidence"
  /\ IF HighConfidenceDuplicate(s.notes.evidence)
     THEN Post(Candidate, [kind |-> "closing", author |-> Me, at |-> clock])
          /\ s' = [s EXCEPT !.stage = "announced", !.todo = <<"comments">>]
     ELSE UNCHANGED comments /\ Drop
  /\ UNCHANGED <<issues, history, prs, clock, moves, failing>>
  /\ Witnessed

CloseIssue ==
  /\ s.phase = "close" /\ Undecided /\ s.stage = "announced"
  /\ CloseClaimOwned(s.notes.log, s.notes.now)
  /\ issues' = [issues EXCEPT ![Candidate].open = FALSE]
  /\ Post(Candidate, [kind |-> "release", author |-> Me, at |-> clock])
  /\ Drop
  /\ UNCHANGED <<history, prs, clock, moves, failing>>
  /\ Witnessed

CloseLost ==
  /\ s.phase = "close" /\ Undecided /\ s.stage = "announced"
  /\ ~ CloseClaimOwned(s.notes.log, s.notes.now)
  /\ Drop
  /\ Silently

-----------------------------------------------------------------------------
Ended == s.phase = "over" /\ UNCHANGED vars

SessionStep ==
  \/ SearchByLabel \/ SearchByMarker \/ (\E n \in Numbers : Load(n)) \/ Advance \/ FinishRoot
  \/ ReadPart \/ FailPart
  \/ ReadReference \/ FindRoadmaps \/ JudgeReadiness
  \/ ListOpenIssues \/ FetchIssueState \/ ClassifyOrphan
  \/ JudgeApproval \/ JudgeViability \/ JudgeClaims
  \/ Precheck \/ AskForEditors \/ Reject \/ Accept \/ VerifyClaim
  \/ Coordinate \/ CheckCloseClaim \/ AnnounceClose \/ CloseIssue \/ CloseLost

Next == SessionStep \/ Move \/ Ended

\* The session goes on; nobody else has to.
Fairness == WF_vars(SessionStep)

Init == Start /\ Filed /\ always = WaysNow /\ held = [n \in Issues |-> ObjectionsNow(n)]

Spec == Init /\ [][Next]_vars /\ Fairness

-----------------------------------------------------------------------------
\* Nothing is overlooked: a run in which nothing failed and that ends without an issue
\* leaves none behind that could be reached all the time by one and the same way, with
\* nothing against it (enumerateAllRoadmapsGraph, evaluateDiscoverReadiness and the gates,
\* which all read piece by piece).
NothingOverlooked ==
  s.phase = "over" /\ s.claimed = NoIssue /\ ~ s.trouble => always = {}

\* An issue that was claimed is one against which nothing stood all the time: every
\* objection of readiness, approval, viability and triage was absent at some moment of the
\* run (what the gates read need not be true any more, but it was).  Only a duplicate that
\* has not the very title of another issue is missed when evidence could not be collected.
ClaimsAreJustified ==
  s.claimed # NoIssue => held[s.claimed] \subseteq (IF s.trouble THEN {DoubtfulDuplicate} ELSE {})

\* A text that a trusted actor has rejected, for whatever reason, is not triaged again, so
\* that it cannot be claimed (findTrustedSuitabilityRejection and the pre-check).
VerdictStands ==
  s.phase = "triage" /\ s.stage \in {"evidence", "verdict"} =>
    \A c \in Elements(s.notes.log) :
      c.kind = "rejection" /\ c.author \in Trusted => c.version # issues[Candidate].version

\* An issue is closed as a duplicate only while no other session has the claim, as far as
\* it could be read after the evidence was posted (runSuitabilityCloseExecute).
ClosesAreOwned ==
  [][\A n \in Issues :
       (s.phase = "close" /\ s.stage = "announced" /\ issues[n].open /\ ~ issues'[n].open /\ moves' = moves) =>
         \A i \in DOMAIN comments[n] : comments[n][i].kind = "closing" =>
            ActiveClaim(SubSeq(comments[n], 1, i)).author = Me]_vars

\* Every run ends, also below roadmaps that refer to one another in circles
\* (prefetchReachableIssues).
RunsEnd == <>(s.phase = "over")
=============================================================================
