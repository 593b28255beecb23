----------------------------- MODULE Dispositions -----------------------------
(***************************************************************************)
(* An agent answers what reviewers said in a pull request.  One command    *)
(* answers the notices and summaries of bots (disposition-non-review-      *)
(* notices.mjs --apply), another replies in a review thread and resolves   *)
(* it (resolve-review-thread.mjs --apply).  Every call to GitHub is a      *)
(* step; bots edit their comments, people speak, commits are pushed and    *)
(* the claim changes hands in between.                                     *)
(*                                                                         *)
(* pr is [head, now, closing, comments, threads]: now counts what was      *)
(* written, closing says whether the pull request closes an issue.  A      *)
(* comment has, on top of what DispositionEvidence reads, completed (the   *)
(* heads for which a status table says that the review is complete), by    *)
(* (who wrote it, or this run), source (the comment a disposition          *)
(* answers) and read (when that one had last changed as the run saw it).   *)
(* claim is "mine", "elsewhere" (mine, for another branch) or "other".     *)
(***************************************************************************)
EXTENDS DispositionEvidence

CONSTANTS
  Me,      \* the login of the session, and all that the commands trust
  Codex    \* the bot that edits one comment all through a review

VARIABLES pr, claim, moves, failing, run, stood
world == <<pr, claim, moves>>
vars == <<world, failing, run, stood>>

PostAttempts == 2

-----------------------------------------------------------------------------
(* Which notices and summaries want an answer.                             *)

IsNotice(c) == c.author \in ConfiguredBots /\ c.kind = "notice"
IsSummary(c) == c.author \in ConfiguredBots /\ c.kind \in {"summary", "quietSummary"}

\* isCodexReviewSummaryCompleteForHeadSha
CompleteFor(c, head) == head \in c.completed

Age(comments) == [c \in comments |-> c.at]

ByAge(comments) ==
  [i \in 1..Cardinality(comments) |->
     CHOOSE c \in comments : Cardinality(Earlier(comments, c, Age(comments))) = i - 1]

\* A bot's notices beyond as many, the oldest first, as there are dispositions of its notices.
UnansweredNotices(comments) ==
  UNION {LET notices == {c \in comments : IsNotice(c) /\ c.author = bot}
             answers == {c \in comments : c.author = Me /\ c.kind = "noticeDisposition" /\ Names(c, bot)}
         IN  notices \ First(notices, Cardinality(answers), Age(comments)) : bot \in ConfiguredBots}

\* markerCouldBeStolen: the gate may give this disposition to an older word of somebody else.
CouldBeStolen(d, comments) ==
  \E c \in comments : /\ c.author # Me /\ c.kind \notin {"notice", "summary", "quietSummary"}
                      /\ ActivityAt(c) < ActivityAt(d)

\* The summaries without a disposition of their own; each takes the first that is younger
\* and names its bot, unless that might be stolen.
UnansweredSummaries(comments, head) ==
  LET wanting == {c \in comments : /\ IsSummary(c) /\ c.kind # "quietSummary"
                                   /\ c.author = Codex => CompleteFor(c, head)}
      verdicts == {c \in comments : c.author = Me /\ c.kind = "summaryDisposition"}
      fits == {p \in verdicts \X wanting : /\ Names(p[1], p[2].author)
                                           /\ ActivityAt(p[1]) > ActivityAt(p[2])}
  IN  FirstFit(wanting, verdicts, fits, {d \in verdicts : CouldBeStolen(d, comments)}, Age(comments))

\* buildDispositionPlan: first the notices, then the summaries.
Plan(comments, head) == ByAge(UnansweredNotices(comments)) \o ByAge(UnansweredSummaries(comments, head))

-----------------------------------------------------------------------------
(* What speaks against the next answer now.                                *)

ClaimHolds ==
  CASE run.kind = "notices" -> claim \in {"mine", "elsewhere"}
    [] run.kind = "thread" -> IF run.claimless THEN ~ pr.closing ELSE claim = "mine"

CommentOf(id) == CHOOSE c \in pr.comments : c.id = id

Running == /\ run.kind = "notices" /\ run.todo # <<>>
           /\ run.todo[1].author = Codex /\ run.todo[1].kind = "summary"
           /\ ~ CompleteFor(CommentOf(run.todo[1].id), pr.head)

AgainstNow == {tag \in {"claim", "running"} : IF tag = "claim" THEN ~ ClaimHolds ELSE Running}

-----------------------------------------------------------------------------
(* People, bots and other sessions.                                        *)

Newest(comments) == Max({c.id : c \in comments} \union {0})

Edited(c, to) ==
  [field \in DOMAIN c |-> IF field = "edited" THEN pr.now + 1 ELSE IF field \in DOMAIN to THEN to[field] ELSE c[field]]

Do(move) ==
  CASE move.do = "claim" -> claim' = move.to /\ UNCHANGED pr
    [] move.do = "link" -> pr' = [pr EXCEPT !.closing = TRUE] /\ UNCHANGED claim
    [] move.do = "push" -> pr' = [pr EXCEPT !.head = @ + 1] /\ UNCHANGED claim
    [] move.do = "edit" ->
         /\ pr' = [pr EXCEPT !.now = @ + 1, !.comments = {IF c.id = move.id THEN Edited(c, move.to) ELSE c : c \in @}]
         /\ UNCHANGED claim
    [] move.do = "say" ->
         /\ pr' = [pr EXCEPT !.now = @ + 1,
                             !.comments = @ \union {[move.comment EXCEPT !.id = Newest(pr.comments) + 1,
                                                                         !.at = pr.now + 1, !.edited = pr.now + 1]}]
         /\ UNCHANGED claim
    [] move.do = "reply" ->
         /\ pr' = [pr EXCEPT !.now = @ + 1,
                             !.threads = {[t EXCEPT !.comments =
                                             Append(@, [move.comment EXCEPT !.at = pr.now + 1, !.edited = pr.now + 1])] : t \in @}]
         /\ UNCHANGED claim

Move ==
  /\ run.phase # "done"
  /\ \E move \in moves :
       /\ Do(move) /\ moves' = moves \ {move}
       /\ run' = IF move.do = "claim" THEN run ELSE [run EXCEPT !.calm = FALSE]
  /\ UNCHANGED failing
  /\ stood' = stood \intersect AgainstNow'

-----------------------------------------------------------------------------
(* The commands.                                                           *)

Fails == failing > 0 /\ failing' = failing - 1
Silently == UNCHANGED <<world, stood>>
On(phase) == run' = [run EXCEPT !.phase = phase]
Done(result) == run' = [run EXCEPT !.phase = "done", !.result = result, !.todo = <<>>]

\* Every comment has an id of its own, none is of this run yet, and nobody's edit makes
\* another comment of one.
Given ==
  /\ DOMAIN pr = {"head", "now", "closing", "comments", "threads"} /\ pr.now \in Nat
  /\ {"phase", "result", "todo", "attempt", "known", "head", "completed", "ok", "calm"} \subseteq DOMAIN run
  /\ IsFiniteSet(pr.comments) /\ \A c, d \in pr.comments : c.id = d.id => c = d
  /\ \A c \in pr.comments \union {m.comment : m \in {n \in moves : n.do = "say"}} :
       /\ {"id", "author", "kind", "at", "edited", "by", "source"} \subseteq DOMAIN c
       /\ c.id \in Nat /\ c.at \in Nat /\ c.by # "run"
  /\ \A m \in moves :
       /\ m.do \in {"claim", "link", "push", "edit", "say", "reply"}
       /\ m.do = "edit" => {"id", "author", "at", "by", "source"} \intersect DOMAIN m.to = {}

Init == /\ run.phase = "start" /\ run.result = "none" /\ run.todo = <<>> /\ run.attempt = 1 /\ run.known = {}
        /\ run.head = 0 /\ run.ok /\ ~ run.calm
        /\ stood = {} /\ Given

\* A call that reads fails: the process ends.
ReadFails ==
  /\ \/ run.phase \in {"claim", "head", "comments", "known", "item", "find", "check", "again", "recover"}
     \/ run.phase = "start" /\ run.kind = "thread" /\ run.claimless
  /\ Fails
  /\ Done("failed")
  /\ Silently

-----------------------------------------------------------------------------
(* Notices and summaries.                                                  *)

Begin == run.kind = "notices" /\ run.phase = "start" /\ On("claim") /\ UNCHANGED failing /\ Silently

CheckClaim ==
  /\ run.phase = "claim"
  /\ IF ClaimHolds THEN On("head") ELSE Done("failed")
  /\ UNCHANGED failing /\ Silently

\* planNow: the head, then the comments.
ReadHead ==
  /\ run.phase = "head"
  /\ run' = [run EXCEPT !.phase = "comments", !.head = pr.head]
  /\ UNCHANGED failing /\ Silently

ReadComments ==
  /\ run.phase = "comments"
  /\ run' = [run EXCEPT !.phase = "known", !.todo = Plan(pr.comments, run.head), !.calm = TRUE]
  /\ UNCHANGED failing /\ Silently

\* viewerCommentIds, and the first item.
ReadKnown ==
  /\ run.phase = "known"
  /\ run' = [run EXCEPT !.phase = "item", !.known = {c.id : c \in {d \in pr.comments : d.author = Me}}]
  /\ stood' = AgainstNow
  /\ UNCHANGED <<world, failing>>

NeedsCheck(item) == item.author = Codex /\ item.kind = "summary"

Attempt(item, number) ==
  run' = [run EXCEPT !.attempt = number, !.phase = IF NeedsCheck(item) THEN "body" ELSE "post"]

\* applyDispositionPlan: the claim before every item; without it all that is left has failed.
CheckItem ==
  /\ run.phase = "item" /\ run.todo # <<>>
  /\ IF ClaimHolds THEN Attempt(run.todo[1], 1) ELSE Done("failed")
  /\ UNCHANGED failing /\ Silently

Finish ==
  /\ run.phase = "item" /\ run.todo = <<>>
  /\ Done(IF run.ok THEN "applied" ELSE "failed")
  /\ UNCHANGED failing /\ Silently

\* On to the next item; what speaks against it counts from now on.
NextItem(before) ==
  /\ run' = [before EXCEPT !.phase = "item", !.todo = Tail(@)]
  /\ stood' = AgainstNow'

\* revalidateCodexSummaryStillComplete: the comment, then the head; nobody posts without
\* having seen both.
ReadBody ==
  /\ run.phase = "body" /\ UNCHANGED world
  /\ \/ /\ run' = [run EXCEPT !.phase = "fresh", !.completed = CommentOf(run.todo[1].id).completed]
        /\ UNCHANGED <<failing, stood>>
     \/ Fails /\ NextItem([run EXCEPT !.calm = FALSE])

\* MUTANT of ReadFreshHead: the head that was read before the comments.
ReadFreshHeadEarlier ==
  /\ run.phase = "fresh" /\ UNCHANGED <<world, failing>>
  /\ IF run.head \in run.completed THEN On("post") /\ UNCHANGED stood ELSE NextItem(run)

ReadFreshHead ==
  /\ run.phase = "fresh" /\ UNCHANGED world
  /\ \/ /\ UNCHANGED failing
        /\ IF pr.head \in run.completed THEN On("post") /\ UNCHANGED stood ELSE NextItem(run)
     \/ Fails /\ NextItem([run EXCEPT !.calm = FALSE])

Disposition(item) ==
  [item EXCEPT !.id = Newest(pr.comments) + 1, !.author = Me, !.names = item.author, !.stamped = TRUE,
               !.kind = IF item.kind = "notice" THEN "noticeDisposition" ELSE "summaryDisposition",
               !.at = pr.now + 1, !.edited = pr.now + 1, !.by = "run", !.source = item.id, !.read = item.edited,
               !.completed = {}]

Posted(item) == [pr EXCEPT !.now = @ + 1, !.comments = @ \union {Disposition(item)}]

Post ==
  /\ run.phase = "post"
  /\ pr' = Posted(run.todo[1]) /\ UNCHANGED <<claim, moves, failing>>
  /\ NextItem([run EXCEPT !.known = @ \union {Newest(pr.comments) + 1}])

\* The request fails, whether or not it was carried out.
PostFails ==
  /\ run.phase = "post" /\ Fails
  /\ pr' = Posted(run.todo[1]) \/ UNCHANGED pr
  /\ On("recover")
  /\ UNCHANGED <<claim, moves, stood>>

\* The claim was checked before the item, not before the attempt.
Again(item) ==
  /\ Attempt(item, run.attempt + 1)
  /\ stood' = AgainstNow \ {"claim"}

\* recoverPostedDisposition: a comment of this login and text that was not there before.
Recover ==
  /\ run.phase = "recover" /\ UNCHANGED <<world, failing>>
  /\ LET found == {c.id : c \in {d \in pr.comments : /\ d.author = Me /\ d.id \notin run.known
                                                     /\ d.source = run.todo[1].id}}
     IN  IF found # {} THEN NextItem([run EXCEPT !.known = @ \union {Max(found)}])
         ELSE IF run.attempt < PostAttempts THEN Again(run.todo[1])
         ELSE NextItem([run EXCEPT !.ok = FALSE])

-----------------------------------------------------------------------------
(* A review thread.                                                        *)

\* hasKnownDispositionMarkerPrefix, and isClaimlessEligible for a run without a claim.
Admit ==
  /\ run.kind = "thread" /\ run.phase = "start"
  /\ IF /\ run.body \in {"accepted", "rejected", "confirmed"}
        /\ ~ run.claimless \/ ~ pr.closing
     THEN On("find") ELSE Done("failed")
  /\ UNCHANGED failing /\ Silently

\* findThreadForComment
OwnThread(t) == \E c \in InThread(t) : c.id = run.comment

FindThread ==
  /\ run.phase = "find"
  /\ IF \E t \in pr.threads : OwnThread(t) THEN On("check") ELSE Done("failed")
  /\ stood' = AgainstNow
  /\ UNCHANGED <<world, failing>>

\* applyResolveReviewThread: the claim before the reply and before the resolution.
CheckBefore ==
  /\ run.phase = "check"
  /\ IF ClaimHolds THEN On("reply") ELSE Done("failed")
  /\ UNCHANGED failing /\ Silently

Answered ==
  [pr EXCEPT !.now = @ + 1,
             !.threads = {IF OwnThread(t)
                          THEN [t EXCEPT !.comments =
                                  Append(@, [t.comments[1] EXCEPT !.id = Newest(InThread(t)) + 1, !.author = Me, !.kind = run.body, !.stamped = TRUE,
                                                                  !.at = pr.now + 1, !.edited = pr.now + 1, !.by = "run"])]
                          ELSE t : t \in @}]

Reply ==
  /\ run.phase = "reply"
  /\ pr' = Answered
  /\ run' = [run EXCEPT !.phase = "again", !.calm = TRUE]
  /\ stood' = AgainstNow
  /\ UNCHANGED <<claim, moves, failing>>

ReplyFails ==
  /\ run.phase = "reply" /\ Fails
  /\ pr' = Answered \/ UNCHANGED pr
  /\ Done("failed")
  /\ UNCHANGED <<claim, moves, stood>>

CheckAgain ==
  /\ run.phase = "again"
  /\ IF ClaimHolds THEN On("resolve") ELSE Done("failed")
  /\ UNCHANGED failing /\ Silently

Resolved == [pr EXCEPT !.threads = {IF OwnThread(t) THEN [t EXCEPT !.resolved = TRUE] ELSE t : t \in @}]

Resolve ==
  /\ run.phase = "resolve"
  /\ pr' = Resolved
  /\ Done("applied")
  /\ UNCHANGED <<claim, moves, failing, stood>>

ResolveFails ==
  /\ run.phase = "resolve" /\ Fails
  /\ pr' = Resolved \/ UNCHANGED pr
  /\ Done("failed")
  /\ UNCHANGED <<claim, moves, stood>>

-----------------------------------------------------------------------------
CommandStep ==
  \/ ReadFails
  \/ Begin \/ CheckClaim \/ ReadHead \/ ReadComments \/ ReadKnown \/ CheckItem \/ Finish
  \/ ReadBody \/ ReadFreshHead \/ Post \/ PostFails \/ Recover
  \/ Admit \/ FindThread \/ CheckBefore \/ Reply \/ ReplyFails \/ CheckAgain \/ Resolve \/ ResolveFails

Next == CommandStep \/ Move

Spec == Init /\ [][Next]_vars

-----------------------------------------------------------------------------
\* Nothing is posted or resolved unless, since the answer before, there was a moment at
\* which the claim was the session's and the review of the head complete; and no thread is
\* resolved without the reply in it (applyDispositionPlan, applyResolveReviewThread).
AnswersAreWarranted ==
  /\ run.phase = "post" => stood = {}
  /\ run.phase = "resolve" => /\ stood = {}
                              /\ \E t \in pr.threads : OwnThread(t) /\ \E c \in InThread(t) : c.by = "run"

NoPeople == \A c \in pr.comments : c.author \in ConfiguredBots \union {Me}

\* When a command has succeeded and nobody did anything since it looked, the merge gate
\* misses none of what it was to answer; a person's comment that is still open may have
\* taken the answer (buildDispositionPlan, hasKnownDispositionMarkerPrefix).
AnswersSatisfyTheGate ==
  run.result = "applied" /\ run.calm =>
    CASE run.kind = "notices" ->
           NoPeople => \A c \in MissingComments(pr.comments, pr.threads) :
                         /\ ~ IsNotice(c)
                         /\ c.kind = "summary" => c.author = Codex /\ ~ CompleteFor(c, pr.head)
      [] run.kind = "thread" -> \A t \in pr.threads : OwnThread(t) => ~ MissingThread(t, AtNone)

\* However often a request fails, a comment gets one answer from a run
\* (recoverPostedDisposition).
AnsweredOnce ==
  \A c, d \in pr.comments : c.by = "run" /\ d.by = "run" /\ c.source = d.source => c = d

\* The acceptance of a summary of CodeRabbit, which is not looked at again before the post,
\* never covers a change of it that the run had not seen (applyDispositionPlan).
AcceptanceMasksNothing ==
  \A d \in pr.comments : d.by = "run" /\ d.kind = "summaryDisposition" /\ d.names = Rabbit =>
    \A c \in pr.comments : c.id = d.source => c.edited <= d.read \/ c.edited > d.at
=============================================================================
