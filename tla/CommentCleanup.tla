---------------------------- MODULE CommentCleanup ----------------------------
(***************************************************************************)
(* The cleanup of a merged pull request (audit-pr-cleanup.mjs --apply): it *)
(* hides markers that have done their work and the feedback of bots that   *)
(* is settled.  A report is made of four reads; each of its candidates is  *)
(* checked against the claim, a whole new report and the claim again       *)
(* before it is hidden; then everything is read anew, up to three times.   *)
(*                                                                         *)
(* pr is [merged, comments, reviews, threads]; what can be hidden has, on  *)
(* top of what DispositionEvidence reads, an id of its own, unsafe (a text *)
(* that must stay readable), hidden and mayHide; a comment in a thread     *)
(* names its review.  claim is the active claim of the issue.              *)
(***************************************************************************)
EXTENDS DispositionEvidence, CodeownerApproval

VARIABLES pr, claim, moves, failing, run, stood
world == <<pr, claim, moves>>
vars == <<world, failing, run, stood>>

ApplyPasses == 3
Parts == <<"merged", "comments", "reviews", "threads">>

-----------------------------------------------------------------------------
(* Why something is not hidden.                                            *)

Kept(seen, x) ==
  {tag \in {"not merged", "unsafe", "hidden", "may not hide"} :
     CASE tag = "not merged" -> ~ seen.merged
       [] tag = "unsafe" -> x.unsafe
       [] tag = "hidden" -> x.hidden
       [] OTHER -> ~ x.mayHide}

OnlyIf(condition, tag) == IF condition THEN {} ELSE {tag}

\* evaluateOperationalComment and evaluateRegularBotComment.
CommentReasons(seen, c) ==
  Kept(seen, c) \union
  IF c.kind \in {"marker", "handoff"}
  THEN OnlyIf(c.author \in Trusted, "not trusted") \union OnlyIf(c.kind = "marker", "audit evidence")
  ELSE OnlyIf(c.author \in KnownBots, "no bot") \union
       OnlyIf(BotCommentResolved(c, seen.comments, seen.threads), "not completed")

ChangesRequested(seen, bot) == bot \in WhoSaid(seen.reviews, "CHANGES_REQUESTED")

Disposed(t) == HasFreshDisposition(t, Agents, FALSE) \/ AckOnlyPostDisposition(t, AtNone)

ThreadReasons(t) ==
  OnlyIf(t.resolved, "unresolved") \union OnlyIf(~ t.truncated, "truncated") \union
  OnlyIf(Disposed(t), "no disposition")

\* evaluateReviewComment.
FeedbackReasons(seen, t, c) ==
  Kept(seen, c) \union ThreadReasons(t) \union
  OnlyIf(c.author \in KnownBots /\ ~ IsDispositionComment(c), "no bot") \union
  OnlyIf(~ ChangesRequested(seen, c.author), "changes requested")

\* indexThreadsByReview and evaluateReviewParent.
ParentReasons(seen, r) ==
  LET own == {t \in seen.threads : \E c \in InThread(t) : c.review = r.id}
  IN  Kept(seen, r) \union UNION {ThreadReasons(t) : t \in own} \union
      OnlyIf(own # {}, "no threads") \union
      OnlyIf(r.author \in KnownBots, "no bot") \union
      OnlyIf(r.state # "CHANGES_REQUESTED" /\ ~ ChangesRequested(seen, r.author), "changes requested")

Subjects(seen) ==
  {c.id : c \in seen.comments} \union {seen.reviews[i].id : i \in DOMAIN seen.reviews} \union
  UNION {{c.id : c \in InThread(t)} : t \in seen.threads}

Reasons(seen, id) ==
  UNION ({CommentReasons(seen, c) : c \in {d \in seen.comments : d.id = id}} \union
         {ParentReasons(seen, seen.reviews[i]) : i \in {j \in DOMAIN seen.reviews : seen.reviews[j].id = id}} \union
         UNION {{FeedbackReasons(seen, t, c) : c \in {d \in InThread(t) : d.id = id}} : t \in seen.threads})

Candidates(seen) == {id \in Subjects(seen) : Reasons(seen, id) = {}}

-----------------------------------------------------------------------------
(* What speaks against hiding the current candidate now.                   *)

ClaimHolds == run.skipClaim \/ claim = "mine"

AgainstNow ==
  IF run.todo = <<>> THEN {}
  ELSE Reasons(pr, run.todo[1]) \union OnlyIf(ClaimHolds, "claim")

Judging == run.phase \in {"read", "again"} /\ run.purpose = "revalidate"

Witnessed == stood' = IF Judging THEN stood \intersect AgainstNow' ELSE stood

-----------------------------------------------------------------------------
(* People and other sessions.                                              *)

\* The pull request with the comment or review of that id changed.
Altered(id, fields) ==
  LET Alter(x) == IF x.id = id THEN fields @@ x ELSE x
  IN  [merged |-> pr.merged,
       comments |-> {Alter(c) : c \in pr.comments},
       reviews |-> [i \in DOMAIN pr.reviews |-> Alter(pr.reviews[i])],
       threads |-> {[t EXCEPT !.comments = [i \in DOMAIN t.comments |-> Alter(t.comments[i])]] : t \in pr.threads}]

InThreadOf(n, fields) == {IF t.id = n THEN fields @@ t ELSE t : t \in pr.threads}

Do(move) ==
  CASE move.do = "merge" -> pr' = [pr EXCEPT !.merged = TRUE] /\ UNCHANGED claim
    [] move.do = "edit" -> pr' = Altered(move.id, move.to) /\ UNCHANGED claim
    [] move.do = "reopen" -> pr' = [pr EXCEPT !.threads = InThreadOf(move.n, [resolved |-> FALSE])] /\ UNCHANGED claim
    [] move.do = "reply" ->
         /\ pr' = [pr EXCEPT !.threads =
                     {IF t.id = move.n THEN [t EXCEPT !.comments = Append(@, move.comment)] ELSE t : t \in pr.threads}]
         /\ UNCHANGED claim
    [] move.do = "review" -> pr' = [pr EXCEPT !.reviews = Append(@, move.review)] /\ UNCHANGED claim
    [] move.do = "claim" -> claim' = move.to /\ UNCHANGED pr

Move ==
  /\ run.phase # "done"
  /\ \E move \in moves : Do(move) /\ moves' = moves \ {move}
  /\ UNCHANGED <<failing, run>>
  /\ Witnessed

-----------------------------------------------------------------------------
(* The cleanup.                                                            *)

Run(fields) == run' = fields @@ run
Fails == failing > 0 /\ failing' = failing - 1
Silently == UNCHANGED <<world, stood>>

Report(purpose) == [phase |-> "read", purpose |-> purpose, part |-> 1, seen |-> <<>>]
Done(result) == [phase |-> "done", result |-> result, seen |-> <<>>, todo |-> <<>>]
NextCandidate == [phase |-> "candidate", todo |-> Tail(run.todo), seen |-> <<>>]
Failure == [failed |-> TRUE]

Init == /\ \E apply \in BOOLEAN, skip \in BOOLEAN :
             run = [apply |-> apply, skipClaim |-> skip, pass |-> 1, todo |-> <<>>, applied |-> {}, failed |-> FALSE,
                    result |-> "none"] @@ Report("first")
        /\ stood = {}

\* buildReport: the pull request, its comments, reviews and threads.
Read ==
  /\ run.phase = "read" /\ run.part <= Len(Parts)
  /\ Run([part |-> run.part + 1, seen |-> (Parts[run.part] :> pr[Parts[run.part]]) @@ run.seen])
  /\ UNCHANGED failing /\ Silently

\* The first report ends everything when it fails, one before hiding the candidate, the last
\* one the passes.
ReadFails ==
  /\ run.phase = "read" /\ run.part <= Len(Parts) /\ Fails
  /\ Run(IF run.purpose = "revalidate" THEN Failure @@ NextCandidate ELSE Done("failed"))
  /\ Silently

InOrder(ids) == SetToSortSeq(ids, <)

Take(ids) == [phase |-> "candidate", todo |-> InOrder(ids), seen |-> <<>>]

FirstReport ==
  /\ run.phase = "read" /\ run.part > Len(Parts) /\ run.purpose = "first"
  /\ Run(IF run.apply THEN Take(Candidates(run.seen)) ELSE Done("dry run"))
  /\ UNCHANGED failing /\ Silently

\* runApplyWithRetry: what this run has hidden is not taken up again.
Rescanned ==
  /\ run.phase = "read" /\ run.part > Len(Parts) /\ run.purpose = "rescan"
  /\ LET left == Candidates(run.seen) \ run.applied
     IN  Run(IF left = {} THEN Done("converged")
             ELSE IF run.pass = ApplyPasses THEN Done("exhausted")
             ELSE [pass |-> run.pass + 1] @@ Take(left))
  /\ UNCHANGED failing /\ Silently

\* applyCandidatePass. Without the claim, or the means to read it, the pass is over.
CheckClaim ==
  /\ run.phase = "candidate" /\ run.todo # <<>>
  /\ \/ /\ ClaimHolds
        /\ Run(Report("revalidate")) /\ stood' = AgainstNow /\ UNCHANGED failing
     \/ /\ ~ run.skipClaim /\ (IF claim # "mine" THEN UNCHANGED failing ELSE Fails)
        /\ Run(Done("failed")) /\ UNCHANGED stood
  /\ UNCHANGED world

PassEnds ==
  /\ run.phase = "candidate" /\ run.todo = <<>>
  /\ Run(IF run.failed THEN Done("failed") ELSE Report("rescan"))
  /\ UNCHANGED failing /\ Silently

\* revalidateCandidate: of all that the new report says, only this candidate matters.
Revalidate ==
  /\ run.phase = "read" /\ run.part > Len(Parts) /\ run.purpose = "revalidate"
  /\ Run(IF Reasons(run.seen, run.todo[1]) = {} THEN [phase |-> "again", seen |-> <<>>] ELSE NextCandidate)
  /\ stood' = stood \union OnlyIf(ClaimHolds, "claim")
  /\ UNCHANGED <<world, failing>>

CheckClaimAgain ==
  /\ run.phase = "again"
  /\ \/ ClaimHolds /\ Run([phase |-> "minimize"]) /\ UNCHANGED failing
     \/ /\ ~ run.skipClaim /\ (IF claim # "mine" THEN UNCHANGED failing ELSE Fails)
        /\ Run(Done("failed"))
  /\ Silently

Minimize ==
  /\ run.phase = "minimize"
  /\ pr' = Altered(run.todo[1], [hidden |-> TRUE])
  /\ Run([applied |-> run.applied \union {run.todo[1]}] @@ NextCandidate)
  /\ UNCHANGED <<claim, moves, failing, stood>>

MinimizeFails ==
  /\ run.phase = "minimize" /\ Fails
  /\ pr' = Altered(run.todo[1], [hidden |-> TRUE]) \/ UNCHANGED pr
  /\ Run(Failure @@ NextCandidate)
  /\ UNCHANGED <<claim, moves, stood>>

CleanupStep ==
  \/ Read \/ ReadFails \/ FirstReport \/ Rescanned
  \/ CheckClaim \/ PassEnds \/ Revalidate \/ CheckClaimAgain
  \/ Minimize \/ MinimizeFails

Next == CleanupStep \/ Move

-----------------------------------------------------------------------------
\* Something is hidden only if nothing spoke against it all the time it was looked at again,
\* neither its own state nor its thread or a review; if after that the claim was the run's;
\* and not a second time when somebody has brought it back (applyCandidatePass,
\* runApplyWithRetry).
CleanupIsWarranted == run.phase = "minimize" => stood = {} /\ run.todo[1] \notin run.applied
=============================================================================
