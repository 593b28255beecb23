----------------------------- MODULE RoadmapGraph -----------------------------
(***************************************************************************)
(* What the scripts that look for work read in the body of an issue, and   *)
(* the graph below a roadmap that discover-roadmap-graph.mjs builds from   *)
(* what it has read (seen): a function from the numbers of issues to       *)
(* readings.  A reading says how the issue could be had ("ok", "missing"   *)
(* or "denied") and, if it could, its state, labels, body and native       *)
(* sub-issues.  A body is a sequence of statements,                        *)
(*   [keyword, refs, more, place, aside]                                   *)
(* refs are the issues named behind the keyword in a list with commas or   *)
(* "and"; more are those that follow after a mere space or on lines of     *)
(* their own.  place is "line" if the keyword begins its line (for a task: *)
(* the reference does), "inline" if it does not, "negated" behind a word   *)
(* like "not", and "code" inside a code region.  aside says that           *)
(* "(non-blocking)" stands there.  Hidden markers are statements too; the  *)
(* markers of a roadmap name the roadmap instead of issues.                *)
(***************************************************************************)
EXTENDS Naturals, FiniteSetsExt, SequencesExt, TLC

Keywords == {"task", "Depends on", "Blocked by", "Refs", "Closes", "Sub-issue"}
Markers == {"roadmap-id", "blocked-by", "defer-source"}

NoMarker == "none"

\* The statements of body that satisfy a test.
Stated(body, Test(_)) == {i \in DOMAIN body : Test(body[i])}

Targets(seq) == {seq[i] : i \in DOMAIN seq}

-----------------------------------------------------------------------------
(* discover-roadmap-graph.mjs.                                             *)

\* classifyKeywordRelationship, and the annotation that only a "Refs" may carry.
Relationship(s) ==
  CASE s.keyword = "task" -> "task-list"
    [] s.keyword \in {"Depends on", "Blocked by"} -> "dependency"
    [] s.keyword = "Sub-issue" -> "sub-issue-reference"
    [] s.keyword = "Refs" /\ s.aside -> "non-blocking-reference"
    [] s.keyword = "Refs" -> "reference"
    [] OTHER -> "closing-keyword"

\* extractTaskListReferences: a task names one issue, first, in a link or at its end.
TaskListReferences(body) ==
  FoldLeft(LAMBDA found, s : IF s.keyword = "task" /\ s.place \in {"line", "inline"}
                             THEN Append(found, [target |-> s.refs[1], relationship |-> "task-list"])
                             ELSE found,
           <<>>, body)

\* extractKeywordReferences: a keyword anywhere in a line, unless it is negated; the list
\* ends where neither a comma nor "and" follows.
KeywordReferences(body) ==
  FoldLeft(LAMBDA found, s : IF s.keyword \in Keywords \ {"task"} /\ s.place \in {"line", "inline"}
                             THEN found \o [i \in DOMAIN s.refs |->
                                    [target |-> s.refs[i], relationship |-> Relationship(s)]]
                             ELSE found,
           <<>>, body)

\* extractRoadmapMarkerId.
RoadmapMarkerId(body) ==
  LET Here(s) == s.keyword = "roadmap-id" /\ s.place # "code"
  IN  IF Stated(body, Here) = {} THEN NoMarker
      ELSE body[CHOOSE i \in Stated(body, Here) : \A j \in Stated(body, Here) : i <= j].refs[1]

-----------------------------------------------------------------------------
(* discover-readiness-check.mjs.                                           *)

\* extractKeywordLineRefs: a keyword at the beginning of its line, and all that follows.
KeywordLineRefs(body, keyword) ==
  UNION {Targets(body[i].refs) \union Targets(body[i].more) :
           i \in Stated(body, LAMBDA s : s.keyword = keyword /\ s.place = "line")}

BlockedByIssueNumbers(body) == KeywordLineRefs(body, "Blocked by")

\* A task counts if the reference begins it.
DependencyIssueNumbers(body) ==
  KeywordLineRefs(body, "Depends on") \union
  UNION {Targets(body[i].refs) : i \in Stated(body, LAMBDA s : s.keyword = "task" /\ s.place = "line")}

\* A marker blocks even from a code region.
BlockedByRoadmapMarkers(body) ==
  UNION {Targets(body[i].refs) : i \in Stated(body, LAMBDA s : s.keyword = "blocked-by")}

\* hasReviewFixLoopCutoffDeferMarker.
IsDeferral(body) == Stated(body, LAMBDA s : s.keyword = "defer-source" /\ s.place # "code") # {}

\* extractReviewFixLoopCutoffRefsIssueNumbers: the one issue a deferral comes from.
DeferralLines(body) == Stated(body, LAMBDA s : s.keyword = "Refs" /\ s.place = "line")

DeferralNumbers(body) == KeywordLineRefs(body, "Refs")

DeferralAmbiguous(body) ==
  \/ \E i, j \in DeferralLines(body) : i # j
  \/ \E m, n \in DeferralNumbers(body) : m # n

-----------------------------------------------------------------------------
(* discover-orphan-filter.mjs: the mere text of a marker, code or not.     *)

HasMarkerText(body, marker) == Stated(body, LAMBDA s : s.keyword = marker) # {}

-----------------------------------------------------------------------------
(* The graph.                                                              *)

RoadmapLabel == "roadmap"

\* classifyIssue.
Classification(issue) ==
  IF RoadmapMarkerId(issue.body) # NoMarker \/ RoadmapLabel \in issue.labels THEN "roadmap"
  ELSE "execution"

\* What can be visited: neither missing, nor denied, nor a pull request.
Visitable(reading) == reading.access = "ok" /\ ~ reading.isPullRequest

\* getReferences: tasks, keywords, native sub-issues.
References(issue) ==
  TaskListReferences(issue.body) \o KeywordReferences(issue.body) \o
  [i \in DOMAIN issue.subIssues |-> [target |-> issue.subIssues[i], relationship |-> "sub-issue"]]

Blocking(reference) == reference.relationship # "non-blocking-reference"

\* The issues that an expansion of this one asks for (expandForPrefetch).
Expansion(reading) ==
  IF Visitable(reading)
  THEN {r.target : r \in {q \in Targets(References(reading)) : Blocking(q)}}
  ELSE {}

\* The walks from root along steps that never come back to where they have been.
SimpleWalks(steps, root, bound) ==
  LET walks[k \in 0..bound] ==
        IF k = 0 THEN {<<root>>}
        ELSE LET shorter == walks[k - 1]
             IN  shorter \union
                 UNION {{Append(p, e[2]) : e \in {f \in steps : f[1] = Last(p) /\ ~ Contains(p, f[2])}} :
                          p \in shorter}
  IN  walks[bound]

\* The paths that visitIssue takes: it follows every reference that does not lead back
\* into its path.
Walks(seen, root) ==
  LET visitable == {n \in DOMAIN seen : Visitable(seen[n])}
      steps == UNION {{n} \X (Expansion(seen[n]) \intersect visitable) : n \in visitable}
  IN  IF root \in visitable THEN SimpleWalks(steps, root, Cardinality(visitable)) ELSE {}

Nodes(seen, root) == {Last(p) : p \in Walks(seen, root)}

\* recordNode: the root counts as a roadmap whatever it says.
KindOf(seen, root, n) == IF n = root THEN "roadmap" ELSE Classification(seen[n])

Depth(seen, root, n) == Min({Len(p) - 1 : p \in {q \in Walks(seen, root) : Last(q) = n}})

ExecutionCandidates(seen, root) ==
  LET nodes == Nodes(seen, root)
  IN  {n \in nodes : KindOf(seen, root, n) = "execution" /\ seen[n].open}

RoadmapNodes(seen, root) ==
  {n \in Nodes(seen, root) : KindOf(seen, root, n) = "roadmap"} \ {root}

\* The edges that are recorded, once for every relationship between two issues.
Edges(seen, root) ==
  UNION {{[source |-> n, target |-> r.target, relationship |-> r.relationship] :
            r \in Targets(References(seen[n]))} : n \in Nodes(seen, root)}

\* recordDuplicateReference: relationships to a target that another one reached first.
DuplicateReferences(seen, root) ==
  {e \in Edges(seen, root) :
     LET refs == References(seen[e.source])
         First(r) == CHOOSE i \in DOMAIN refs : refs[i] = r
                       /\ \A j \in DOMAIN refs : refs[j] = r => i <= j
         mine == First([target |-> e.target, relationship |-> e.relationship])
     IN  \E i \in DOMAIN refs : i < mine /\ refs[i].target = e.target}

\* What a reference back into the path is worth telling: not the "Refs" of an issue that
\* is done to the roadmap it served.
CycleIsBenign(seen, root, n, reference) ==
  reference.relationship = "reference" /\ KindOf(seen, root, n) = "execution" /\ ~ seen[n].open

Cycles(seen, root) ==
  UNION {{[path |-> Append(p, r.target), relationship |-> r.relationship] :
            r \in {q \in Targets(References(seen[Last(p)])) :
                     Blocking(q) /\ Contains(p, q.target) /\ ~ CycleIsBenign(seen, root, Last(p), q)}} :
         p \in Walks(seen, root)}

\* References that lead nowhere, and those that may lead somewhere nobody may look.
DanglingEdges(seen, root, access) ==
  {e \in Edges(seen, root) :
     /\ Blocking(e) /\ e.target \in DOMAIN seen
     /\ access = IF seen[e.target].access = "ok" /\ seen[e.target].isPullRequest THEN "missing"
                 ELSE seen[e.target].access}

UnresolvedReferences(seen, root) == DanglingEdges(seen, root, "missing")

InaccessibleReferences(seen, root) == DanglingEdges(seen, root, "denied")

\* isExpectedRootEnumerationFailure: a root that cannot be visited is skipped.
RootFails(reading) == ~ Visitable(reading)

-----------------------------------------------------------------------------
(* All roadmaps together.                                                  *)

\* A leaf of several roadmaps is the one that was found first.
MergeLeaves(leaves, seen, root) ==
  LET found == ExecutionCandidates(seen, root)
  IN  [n \in DOMAIN leaves \union found |->
         IF n \in DOMAIN leaves
         THEN [leaves[n] EXCEPT !.sourceRoots = IF n \in found THEN @ \union {root} ELSE @]
         ELSE [score |-> seen[n].score, effort |-> seen[n].effort, sourceRoots |-> {root}]]

\* compareUnionLeaves: does a come before b, when floor is what an issue without a score
\* is worth?
NoScore == 0

EffectiveScore(leaf, floor) == IF leaf.score = NoScore THEN floor ELSE leaf.score

LeafPrecedes(leaves, floor, a, b) ==
  LET left == leaves[a]
      right == leaves[b]
      scored(leaf) == leaf.score # NoScore
  IN  CASE EffectiveScore(left, floor) # EffectiveScore(right, floor) ->
             EffectiveScore(left, floor) > EffectiveScore(right, floor)
        [] scored(left) # scored(right) -> scored(left)
        [] left.effort # right.effort -> left.effort < right.effort
        [] OTHER -> a < b

UnionLeaves(leaves, floor) ==
  SetToSortSeq(DOMAIN leaves, LAMBDA a, b : LeafPrecedes(leaves, floor, a, b))
=============================================================================
