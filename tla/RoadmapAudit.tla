----------------------------- MODULE RoadmapAudit -----------------------------
(***************************************************************************)
(* The audit that closes a roadmap (idd-roadmap-audit-execute.mjs).  It    *)
(* collects the graph below the roadmap and the pull requests of what is   *)
(* closed, and if nothing speaks against it checks the claim and the local *)
(* worktrees, collects once more, checks once more, posts the evidence,    *)
(* checks a last time, closes the roadmap and releases the claim.  Every   *)
(* call to GitHub is a step; people and other sessions act in between.     *)
(*                                                                         *)
(* issues[n] is issue n as RoadmapGraph reads it; closing[n] are the pull  *)
(* requests that name n behind a closing keyword, connected[n] the events  *)
(* of those that were linked by hand, openPrs those that are open; log has *)
(* the comments of the roadmap; trees are the worktrees of this clone.     *)
(* run is the audit.                                                       *)
(***************************************************************************)
EXTENDS RoadmapGraph

CONSTANTS Numbers, Root, StaleAge, Me

VARIABLES issues, closing, connected, openPrs, log, trees, clock, moves, failing, run, stood
world == <<issues, closing, connected, openPrs, log, trees, clock, moves>>
vars == <<issues, closing, connected, openPrs, log, trees, clock, moves, failing, run, stood>>

HumanGates == {"blocked-by-human", "needs-decision"}
NoGraph == <<>>
NoSession == [session |-> "nobody", branch |-> "none", at |-> 0]

-----------------------------------------------------------------------------
(* evaluateRoadmapAuditGates.                                              *)

Descendants(seen) == Nodes(seen, Root) \ {Root}

ClosedDescendants(seen) == {n \in Descendants(seen) : ~ seen[n].open}

NestedRoadmaps(seen) == RoadmapNodes(seen, Root)

\* Who can be reached along any edge, also one that does not block.
ReachableFrom(seen, n) ==
  LET edges == {<<e.source, e.target>> : e \in Edges(seen, Root)}
  IN  {Last(p) : p \in SimpleWalks(edges, n, Cardinality(DOMAIN seen))}

Barren(seen, n) ==
  ~ \E leaf \in ReachableFrom(seen, n) \intersect Nodes(seen, Root) :
      leaf # n /\ KindOf(seen, Root, leaf) = "execution"

\* A circle is no blocker if it is a mere mention of the roadmap by a leaf, or if all of it
\* is closed and the roadmap itself is not on it.
CycleBlocks(seen, cycle) ==
  LET source == cycle.path[Len(cycle.path) - 1]
      first == CHOOSE i \in DOMAIN cycle.path :
                 cycle.path[i] = Last(cycle.path) /\ \A j \in 1..(i - 1) : cycle.path[j] # Last(cycle.path)
      segment == {cycle.path[i] : i \in first..Len(cycle.path)}
  IN  /\ ~ (cycle.relationship = "reference" /\ KindOf(seen, Root, source) = "execution")
      /\ Root \in segment \/ \E n \in segment : seen[n].open

\* linked are the closed descendants with a pull request that is open.
Blockers(seen, linked) ==
  (IF seen[Root].labels \intersect HumanGates # {} THEN {<<"roadmap-blocked", Root>>} ELSE {}) \union
  (IF \E e \in Edges(seen, Root) : Blocking(e) THEN {} ELSE {<<"childless", Root>>}) \union
  {<<"open-child", n>> : n \in ExecutionCandidates(seen, Root)} \union
  {<<"nested-roadmap", n>> : n \in {k \in NestedRoadmaps(seen) : seen[k].open \/ Barren(seen, k)}} \union
  {<<"open-linked-pr", n>> : n \in ClosedDescendants(seen) \intersect linked} \union
  {<<"unresolved-reference", e.target>> : e \in UnresolvedReferences(seen, Root)} \union
  {<<"inaccessible-reference", e.target>> : e \in InaccessibleReferences(seen, Root)} \union
  {<<"cycle", Last(c.path)>> : c \in {d \in Cycles(seen, Root) : CycleBlocks(seen, d)}}

\* reconcileConnectedOpenPrs: what was linked last and is open.
ConnectedOpen(events, open) ==
  {pr \in open : LET mine == SelectSeq(events, LAMBDA e : e.pr = pr)
                 IN  mine # <<>> /\ Last(mine).type = "connected"}

-----------------------------------------------------------------------------
(* evaluateRoadmapClaim; how claims follow one another is ClaimLog's.      *)

ActiveClaim(comments) ==
  FoldLeft(LAMBDA active, c :
             CASE c.kind = "claim" /\ (active = NoSession \/ c.at - active.at >= StaleAge) ->
                    [session |-> c.session, branch |-> c.branch, at |-> c.at]
               [] c.kind = "release" /\ c.session = active.session -> NoSession
               [] OTHER -> active,
           NoSession, comments)

\* Only a claim for an audit counts, and it may not be stale at a time that was kept.
Owned(comments, now) ==
  LET active == ActiveClaim(comments)
  IN  active.session = Me /\ active.branch = "audit" /\ now - active.at < StaleAge

CompletionEvidence(comments) == \E i \in DOMAIN comments : comments[i].kind = "evidence"

-----------------------------------------------------------------------------
(* evaluateLocalCoordinationState: the worktrees that have the branch of   *)
(* the claim checked out, or are detached while they rebase it.  If git    *)
(* cannot list them it is as if there were none.                           *)

Unsafe(tree) == tree.state \in {"locked", "prunable", "dirty", "unreadable", "rebasing"} \/ tree.detached

WorktreesAreUnsafe == \E tree \in trees : tree.branch = "audit" /\ Unsafe(tree)

-----------------------------------------------------------------------------
(* What speaks against closing the roadmap now, each with the way to it.   *)

WaysNow == Walks(issues, Root)

AgainstNow ==
  (IF issues[Root].labels \intersect HumanGates # {} THEN {<<"roadmap-blocked", <<Root>>, 0>>} ELSE {}) \union
  {<<"open", w, 0>> : w \in {v \in WaysNow : Len(v) > 1 /\ issues[Last(v)].open}} \union
  UNION {{<<"linked", w, pr>> : pr \in closing[Last(w)] \intersect openPrs} :
           w \in {v \in WaysNow : Len(v) > 1 /\ ~ issues[Last(v)].open}} \union
  UNION {{<<"dangling", w, t>> : t \in {u \in Expansion(issues[Last(w)]) : ~ Visitable(issues[u])}} :
           w \in WaysNow}

Collecting == run.pass = 2 /\ run.phase \in {"collect", "links"}

Witnessed == stood' = IF Collecting THEN stood \intersect AgainstNow' ELSE stood

-----------------------------------------------------------------------------
(* People and other sessions.                                              *)

Post(comment) == log' = Append(log, comment)

SetIssue(n, fields) ==
  /\ issues' = [issues EXCEPT ![n] = fields @@ @]
  /\ UNCHANGED <<closing, connected, openPrs, log, trees>>

SetPrs(open, links, events) ==
  /\ openPrs' = open /\ closing' = links /\ connected' = events
  /\ UNCHANGED <<issues, log, trees>>

Do(move) ==
  CASE move.do = "set" -> SetIssue(move.n, move.to)
    [] move.do = "reopen pr" -> SetPrs(openPrs \union {move.pr}, closing, connected)
    [] move.do = "merge" -> SetPrs(openPrs \ {move.pr}, closing, connected)
    [] move.do = "link" -> SetPrs(openPrs, [closing EXCEPT ![move.n] = @ \union {move.pr}], connected)
    [] move.do = "connect" ->
         SetPrs(openPrs, closing, [connected EXCEPT ![move.n] = Append(@, [type |-> move.type, pr |-> move.pr])])
    [] move.do = "post" -> Post([kind |-> move.kind, session |-> move.session, branch |-> move.branch, at |-> clock])
                           /\ UNCHANGED <<issues, closing, connected, openPrs, trees>>
    [] move.do = "worktrees" -> trees' = move.to /\ UNCHANGED <<issues, closing, connected, openPrs, log>>
    [] move.do = "wait" -> UNCHANGED <<issues, closing, connected, openPrs, log, trees>>

Move ==
  /\ run.phase # "done"
  /\ \E move \in moves :
       /\ Do(move)
       /\ moves' = moves \ {move}
       /\ clock' = IF move.do = "wait" THEN clock + StaleAge ELSE clock
  /\ UNCHANGED <<failing, run>>
  /\ Witnessed

-----------------------------------------------------------------------------
(* The audit.                                                              *)

Run(fields) == run' = fields @@ run
Silently == UNCHANGED <<world, failing, stood>>

Collection(pass) ==
  [phase |-> "collect", pass |-> pass, frontier |-> {Root}, seen |-> NoGraph, todo |-> <<>>, linked |-> {}]

Done(result) == [phase |-> "done", seen |-> NoGraph, frontier |-> {}, todo |-> <<>>, linked |-> {}, result |-> result]

Init == /\ \E apply \in BOOLEAN :
             run = [apply |-> apply, result |-> "none", check |-> 1, now |-> 0, wasOpen |-> FALSE] @@ Collection(1)
        /\ stood = {}

\* enumerateRoadmapGraph, an issue at a time; a root that cannot be had ends the run.
Load(n) ==
  /\ run.phase = "collect" /\ n \in run.frontier \ DOMAIN run.seen
  /\ Run(IF n = Root /\ RootFails(issues[n]) THEN Done("failed") ELSE [seen |-> (n :> issues[n]) @@ run.seen])
  /\ Silently

Loaded == run.phase = "collect" /\ run.frontier \subseteq DOMAIN run.seen

NextFrontier == UNION {Expansion(run.seen[n]) : n \in run.frontier} \ DOMAIN run.seen

Advance == Loaded /\ NextFrontier # {} /\ Run([frontier |-> NextFrontier]) /\ Silently

\* Then the pull requests of every closed descendant, those with a keyword first.
Parts(n) == <<[n |-> n, part |-> "closing"], [n |-> n, part |-> "connected"]>>

AskForPrs ==
  /\ Loaded /\ NextFrontier = {}
  /\ LET order == SetToSortSeq(ClosedDescendants(run.seen), LAMBDA a, b : a < b)
     IN  Run([phase |-> "links", todo |-> FlattenSeq([i \in DOMAIN order |-> Parts(order[i])])])
  /\ Silently

OpenPrsOf(ask) ==
  IF ask.part = "closing" THEN closing[ask.n] \intersect openPrs ELSE ConnectedOpen(connected[ask.n], openPrs)

\* One that is open decides without the rest.
ReadPrs ==
  /\ run.phase = "links" /\ run.todo # <<>>
  /\ LET ask == run.todo[1]
     IN  Run(IF OpenPrsOf(ask) # {}
             THEN [linked |-> run.linked \union {ask.n}, todo |-> SelectSeq(run.todo, LAMBDA a : a.n # ask.n)]
             ELSE [todo |-> Tail(run.todo)])
  /\ Silently

\* What cannot be read counts as open.
FailPrs ==
  /\ run.phase = "links" /\ run.todo # <<>>
  /\ failing > 0 /\ failing' = failing - 1
  /\ Run([linked |-> run.linked \union {run.todo[1].n}, todo |-> SelectSeq(run.todo, LAMBDA a : a.n # run.todo[1].n)])
  /\ UNCHANGED <<world, stood>>

\* A dry run ends here; a first pass without blockers goes on to the claim, with the time it
\* is now for the rest of the run; a second one to the claim again.
Judge ==
  /\ run.phase = "links" /\ run.todo = <<>>
  /\ IF Blockers(run.seen, run.linked) # {} THEN Run(Done("blocked"))
     ELSE IF ~ run.apply THEN Run(Done("ready"))
     ELSE IF run.pass = 1 THEN Run([phase |-> "claim", now |-> clock, wasOpen |-> run.seen[Root].open])
     ELSE Run([phase |-> "claim", check |-> 2])
  /\ Silently

\* The first check may find that the work was done before: the roadmap was closed when it was
\* collected, and its comments, read for this, have the evidence.
CheckClaim ==
  /\ run.phase = "claim"
  /\ Run(IF Owned(log, run.now) THEN [phase |-> "local"]
         ELSE IF run.check = 1 /\ ~ run.wasOpen THEN [phase |-> "evidence"]
         ELSE Done("not owned"))
  /\ Silently

LookForEvidence ==
  /\ run.phase = "evidence"
  /\ Run(IF CompletionEvidence(log) THEN Done("already complete") ELSE Done("not owned"))
  /\ Silently

\* applyLocalCoordinationGate, and what follows the first, the second and the last check.
CheckWorktrees ==
  /\ run.phase = "local"
  /\ IF WorktreesAreUnsafe THEN Run(Done("unsafe worktree")) /\ UNCHANGED stood
     ELSE CASE run.check = 1 -> Run(Collection(2)) /\ stood' = AgainstNow
            [] run.check = 2 -> Run([phase |-> "post"]) /\ UNCHANGED stood
            [] OTHER -> Run([phase |-> "close"]) /\ UNCHANGED stood
  /\ UNCHANGED <<world, failing>>

\* What the audit posts; the release names the claim that was found, not the one that is
\* active.
Mine(kind) == [kind |-> kind, session |-> Me, branch |-> "audit", at |-> clock]

PostEvidence ==
  /\ run.phase = "post"
  /\ Post(Mine("evidence"))
  /\ Run([phase |-> "claim", check |-> 3])
  /\ UNCHANGED <<issues, closing, connected, openPrs, trees, clock, moves, failing, stood>>

CloseRoadmap ==
  /\ run.phase = "close"
  /\ issues' = [issues EXCEPT ![Root].open = FALSE]
  /\ Run([phase |-> "release"])
  /\ UNCHANGED <<closing, connected, openPrs, log, trees, clock, moves, failing, stood>>

ReleaseClaim ==
  /\ run.phase = "release"
  /\ Post(Mine("release"))
  /\ Run(Done("closed"))
  /\ UNCHANGED <<issues, closing, connected, openPrs, trees, clock, moves, failing, stood>>

\* What fails here ends the run, carried out or not; evidence that cannot be read is none.
CallFails ==
  /\ run.phase \in {"claim", "evidence", "post", "close", "release"}
  /\ failing > 0 /\ failing' = failing - 1
  /\ Run(Done(IF run.phase = "evidence" THEN "not owned" ELSE "failed"))
  /\ \/ UNCHANGED <<issues, log>>
     \/ run.phase = "post" /\ Post(Mine("evidence")) /\ UNCHANGED issues
     \/ run.phase = "close" /\ issues' = [issues EXCEPT ![Root].open = FALSE] /\ UNCHANGED log
     \/ run.phase = "release" /\ Post(Mine("release")) /\ UNCHANGED issues
  /\ UNCHANGED <<closing, connected, openPrs, trees, clock, moves, stood>>

AuditStep ==
  \/ (\E n \in Numbers : Load(n)) \/ Advance \/ AskForPrs \/ ReadPrs \/ FailPrs \/ Judge
  \/ CheckClaim \/ LookForEvidence \/ CheckWorktrees
  \/ PostEvidence \/ CloseRoadmap \/ ReleaseClaim \/ CallFails

Next == AuditStep \/ Move

-----------------------------------------------------------------------------
\* A roadmap is closed only if nothing spoke against it all the time while it was collected
\* for the second time: no way to a child that is open, has an open pull request or cannot
\* be read, and no label for a person; and if the claim was this session's when the evidence
\* had been posted, whoever took it over before (runRoadmapAuditExecute).
RoadmapClosesRightly ==
  run.phase = "close" =>
    /\ stood = {}
    /\ \A i \in DOMAIN log :
         log[i].kind = "evidence" /\ log[i].session = Me => ActiveClaim(SubSeq(log, 1, i)).session = Me
=============================================================================
