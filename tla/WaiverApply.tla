----------------------------- MODULE WaiverApply -----------------------------
(***************************************************************************)
(* Runs of external-check-waiver.mjs --apply: a maintainer, or the         *)
(* workflow for itself (--auto-bootstrap), waives a check of a pull        *)
(* request.  A run reads the role of its actor, the pull request, the      *)
(* claims of the linked issues and the date of the head, plans, asks,      *)
(* looks for a waiver to reuse, posts, and reads again to name waivers     *)
(* that others posted meanwhile.  Every read and the post is a step; other *)
(* runs, sessions and people act in between.                               *)
(*                                                                         *)
(* pr is the pull request, committed the time of its head, claims the      *)
(* active claim of each linked issue, roles the permissions, waivers the   *)
(* comments in the order they were posted.  request says what a run was    *)
(* asked for and known what it has read.                                   *)
(***************************************************************************)
EXTENDS CheckRollup, Sequences, SequencesExt

CONSTANTS Runs, Owner, Trusted, AutoLasts

VARIABLES pr, committed, claims, roles, waivers, policy, now, moves, failing,
          request, phase, known, report, stood
world == <<pr, committed, claims, roles, waivers, policy, now, moves>>
vars == <<world, failing, request, phase, known, report, stood>>

NoClaim == [id |-> "none", branch |-> "none", supersedes |-> "none"]
Unread == [role |-> "unknown", pr |-> [open |-> FALSE], claims |-> <<>>, committed |-> NoTime, expires |-> 0,
           comments |-> <<>>]
NoReport == [result |-> "none", own |-> 0, named |-> {}]

-----------------------------------------------------------------------------
(* planExternalCheckWaiver, of a request q and what is known, k.           *)

\* normalizeAuthorityEvidence: a lookup that failed proves nothing, not even for the owner.
Authorized(q, role) ==
  /\ role # "unknown"
  /\ \/ q.actor = Owner
     \/ role \in {"admin", "maintain"}
     \/ role = "write" /\ policy.authority = "all-write-permission-actors"

Matched(q, checks) == {c \in checks : MatchCheckSelector(c.name, q.selector)}

\* Issues with a claim, on the branch of the pull request unless the workflow asks.
Candidates(q, expected, branch, found) ==
  {i \in DOMAIN found : /\ found[i] # NoClaim
                        /\ q.issue \in {0, i}
                        /\ q.auto \/ found[i].branch = branch
                        /\ expected \in {"any", found[i].id}}

\* selectLinkedIssueCandidate, and the waiver of a workflow for a pull request without claims.
Linked(q, k) == Candidates(q, q.expected, k.pr.branch, k.claims)

Claimless(q, k) == q.claimless \/ (q.auto /\ Linked(q, k) = {})

Binding(q, k) == IF Claimless(q, k) THEN NoClaim ELSE k.claims[CHOOSE i \in Linked(q, k) : TRUE]

AtMost(a, b) == IF a < b THEN a ELSE b

\* A workflow's waiver ends a fixed time after the head, or after now if that is over.
Expiry(q, k) ==
  IF ~ q.auto THEN IF q.until # NoTime THEN q.until ELSE now + q.lasts
  ELSE LET lasts == AtMost(AutoLasts, policy.maxValidity)
           anchored == AtMost(k.committed, now) + lasts
       IN  IF k.committed = NoTime THEN NoTime ELSE IF anchored > now THEN anchored ELSE now + lasts

ClaimReasons(q, k) ==
  IF Claimless(q, k) THEN IF q.claimless /\ Cardinality(Linked(q, k)) = 1 THEN {"claim resolves"} ELSE {}
  ELSE IF Linked(q, k) = {} THEN {"no claim"}
  ELSE IF Cardinality(Linked(q, k)) > 1 THEN {"several claims"} ELSE {}

ExpiryReasons(q, k) ==
  IF Expiry(q, k) <= now THEN {"expired"}
  ELSE IF Expiry(q, k) - now > policy.maxValidity THEN {"too long"} ELSE {}

CheckReasons(q, checks) ==
  LET matched == Matched(q, checks)
  IN  (IF ~ q.auto /\ matched = {} THEN {"no check"} ELSE {}) \union
      (IF ~ q.auto /\ matched # {} /\ \A c \in matched : c.passing THEN {"passing"} ELSE {}) \union
      (IF \/ \E c \in matched : ~ IsCheckNameConfiguredWaivable(c.name, policy.waivable)
          \/ q.auto /\ matched = {} /\ ~ IsCheckNameConfiguredWaivable(q.selector.text, policy.waivable)
       THEN {"not waivable"} ELSE {})

\* The waiver of the convergence check waits for its deadline, unless the operator knows better.
PreconditionReasons(q, k) ==
  IF /\ q.selector.text = Convergence /\ ~ q.auto /\ ~ q.allowClosed
     /\ ~ ConvergencePrecondition(k.committed, policy.deadline, FALSE, now).open
  THEN {"deadline"} ELSE {}

BlockingReasons(q, k) ==
  (IF ~ k.pr.open THEN {"closed"} ELSE {}) \union
  (IF policy.mode # "maintainer-authorized" THEN {"disabled"} ELSE {}) \union
  (IF ~ q.auto /\ ~ Authorized(q, k.role) THEN {"not authorized"} ELSE {}) \union
  ClaimReasons(q, k) \union ExpiryReasons(q, k) \union
  CheckReasons(q, k.pr.checks) \union PreconditionReasons(q, k)

\* A workflow that has nothing to waive under this policy ends well.
BenignSkip(q, reasons) ==
  /\ q.auto /\ reasons \intersect {"disabled", "not waivable"} # {}
  /\ reasons \subseteq {"disabled", "not waivable", "several claims"}

-----------------------------------------------------------------------------
(* Which waivers count.                                                    *)

\* buildWaiverEvidence: what a run asks the summary of the gate for.
Context(q, head, binding) ==
  [trusted |-> Trusted \union {q.actor}, head |-> head, claim |-> binding.id, supersedes |-> binding.supersedes,
   now |-> now, maxValidity |-> policy.maxValidity, waivable |-> policy.waivable, mode |-> policy.mode,
   allowAuto |-> q.auto]

\* collectValidWaiverComments.
ValidWaivers(q, comments, head, binding) ==
  LET accepted == {binding.id, binding.supersedes} \ {"none"}
  IN  {w \in SummarizeExternalCheckWaivers(comments, Context(q, head, binding), "valid") :
         /\ w.selector.text = q.selector.text
         /\ accepted = {} \/ w.claim \in accepted
         /\ q.auto => w.reason = "auto"}

\* findReusableWaiverComment, not for the workflow.
Reusable(q, comments, k) ==
  IF q.auto THEN {} ELSE ValidWaivers(q, comments, k.pr.head, Binding(q, k))

-----------------------------------------------------------------------------
(* What speaks against a waiver now.                                       *)

Everything(r) == [role |-> roles[request[r].actor], pr |-> pr, claims |-> claims, committed |-> committed[pr.head]]

ObjectionsNow(r) ==
  LET q == request[r]  k == Everything(r)  reasons == BlockingReasons(q, k)
  IN  {<<reason, 0>> : reason \in reasons} \union
      (IF reasons = {} THEN {<<"reusable", w.id>> : w \in Reusable(q, Range(waivers), k)} ELSE {})

Reading(r) == phase[r] \in {"pr", "claims", "commit", "plan", "confirm", "scan"}

Witnessed == stood' = [r \in Runs |-> IF Reading(r) THEN stood[r] \intersect ObjectionsNow(r)' ELSE stood[r]]

-----------------------------------------------------------------------------
(* People, sessions and checks.                                            *)

Do(move) ==
  CASE move.do = "claim" -> claims' = [claims EXCEPT ![move.issue] = move.claim] /\ UNCHANGED <<pr, committed, roles>>
    [] move.do = "push" -> /\ pr' = [pr EXCEPT !.head = move.head,
                                              !.checks = {[c EXCEPT !.passing = FALSE] : c \in pr.checks}]
                           /\ committed' = [committed EXCEPT ![move.head] = now]
                           /\ UNCHANGED <<claims, roles>>
    [] move.do = "pass" -> /\ pr' = [pr EXCEPT !.checks = {[c EXCEPT !.passing = TRUE] : c \in pr.checks}]
                           /\ UNCHANGED <<committed, claims, roles>>
    [] move.do = "close" -> pr' = [pr EXCEPT !.open = FALSE] /\ UNCHANGED <<committed, claims, roles>>
    [] move.do = "role" -> roles' = [roles EXCEPT ![move.who] = move.role] /\ UNCHANGED <<pr, committed, claims>>
    [] move.do = "wait" -> UNCHANGED <<pr, committed, claims, roles>>

Move ==
  /\ \E r \in Runs : phase[r] # "done"
  /\ \E move \in moves :
       /\ Do(move)
       /\ moves' = moves \ {move}
       /\ now' = IF move.do = "wait" THEN now + 1 ELSE now
  /\ UNCHANGED <<waivers, policy, failing, request, phase, known, report>>
  /\ Witnessed

-----------------------------------------------------------------------------
(* The runs.                                                               *)

To(r, next) == phase' = [phase EXCEPT ![r] = next]
Learn(r, fields) == known' = [known EXCEPT ![r] = fields @@ @]
Silently == UNCHANGED <<world, request, stood>>

End(r, fields) == /\ To(r, "done") /\ report' = [report EXCEPT ![r] = fields @@ @]

\* Forgetting what is known, which nobody asks for any more.
Ended(r, result) == End(r, [result |-> result]) /\ known' = [known EXCEPT ![r] = Unread] /\ UNCHANGED failing

\* All reads before the post end the run when they fail, except for the role and the date of
\* the head, which are then unknown.
Fails == failing > 0 /\ failing' = failing - 1

FailRead(r) ==
  /\ phase[r] \in {"pr", "claims", "scan"} /\ Fails
  /\ End(r, [result |-> "failed"]) /\ known' = [known EXCEPT ![r] = Unread]
  /\ Silently

ReadRole(r) ==
  /\ phase[r] = "authority"
  /\ To(r, "pr")
  /\ IF request[r].auto THEN UNCHANGED <<known, failing>>
     ELSE \/ Learn(r, [role |-> roles[request[r].actor]]) /\ UNCHANGED failing
          \/ Learn(r, [role |-> "unknown"]) /\ Fails
  /\ stood' = [stood EXCEPT ![r] = ObjectionsNow(r)]
  /\ UNCHANGED <<world, request, report>>

ReadPr(r) ==
  /\ phase[r] = "pr"
  /\ To(r, "claims") /\ Learn(r, [pr |-> pr])
  /\ UNCHANGED <<failing, report>> /\ Silently

ReadClaims(r) ==
  /\ phase[r] = "claims"
  /\ To(r, "commit") /\ Learn(r, [claims |-> claims])
  /\ UNCHANGED <<failing, report>> /\ Silently

ReadCommit(r) ==
  /\ phase[r] = "commit"
  /\ To(r, "plan")
  /\ \/ Learn(r, [committed |-> committed[known[r].pr.head]]) /\ UNCHANGED failing
     \/ Learn(r, [committed |-> NoTime]) /\ Fails
  /\ UNCHANGED report /\ Silently

Plan(r) ==
  /\ phase[r] = "plan"
  /\ LET q == request[r]
         reasons == BlockingReasons(q, known[r])
     IN  IF reasons = {}
         THEN /\ To(r, IF q.yes THEN "scan" ELSE "confirm")
              /\ Learn(r, [expires |-> Expiry(q, known[r])])
              /\ UNCHANGED <<failing, report>>
         ELSE Ended(r, IF BenignSkip(q, reasons) THEN "skipped" ELSE "blocked")
  /\ Silently

Confirm(r) ==
  /\ phase[r] = "confirm"
  /\ To(r, "scan") /\ UNCHANGED <<known, failing, report>> /\ Silently

Decline(r) == phase[r] = "confirm" /\ Ended(r, "declined") /\ Silently

Scan(r) ==
  /\ phase[r] = "scan"
  /\ IF Reusable(request[r], Range(waivers), known[r]) # {} THEN Ended(r, "reused")
     ELSE To(r, "post") /\ UNCHANGED <<known, failing, report>>
  /\ Silently

Waiver(r) ==
  LET q == request[r]  k == known[r]
  IN  [id |-> Len(waivers) + 1, wellFormed |-> TRUE, reason |-> q.reason, author |-> q.actor, head |-> k.pr.head,
       claim |-> Binding(q, k).id, selector |-> q.selector, at |-> now, expires |-> k.expires]

Post(r) ==
  /\ phase[r] = "post"
  /\ waivers' = Append(waivers, Waiver(r))
  /\ To(r, "reread")
  /\ report' = [report EXCEPT ![r].own = Len(waivers) + 1]
  /\ UNCHANGED <<pr, committed, claims, roles, policy, now, moves, failing, request, known, stood>>

\* The request is answered with an error, whether or not it was carried out.
PostFails(r) ==
  /\ phase[r] = "post" /\ Fails
  /\ waivers' = Append(waivers, Waiver(r)) \/ UNCHANGED waivers
  /\ End(r, [result |-> "failed"]) /\ known' = [known EXCEPT ![r] = Unread]
  /\ UNCHANGED <<pr, committed, claims, roles, policy, now, moves, request, stood>>

Reread(r) ==
  /\ phase[r] = "reread"
  /\ To(r, "reclaim") /\ Learn(r, [comments |-> waivers])
  /\ UNCHANGED <<failing, report>> /\ Silently

\* After the post a read that fails only costs the names of the others.
RereadFails(r) ==
  /\ phase[r] \in {"reread", "reclaim"} /\ Fails
  /\ End(r, [result |-> "inconclusive"]) /\ known' = [known EXCEPT ![r] = Unread]
  /\ Silently

\* MUTANT of Rebound: the claim of the plan is good enough.
PlannedBinding(q, k, found) == Binding(q, k)

\* The claim as it is after the post, whatever its id, if there is one.
Rebound(q, k, found) ==
  LET linked == Candidates(q, "any", k.pr.branch, found)
  IN  IF Cardinality(linked) = 1 THEN found[CHOOSE i \in linked : TRUE] ELSE Binding(q, k)

Reclaim(r) ==
  /\ phase[r] = "reclaim"
  /\ LET q == request[r]  k == known[r]
         others == ValidWaivers(q, Range(k.comments), k.pr.head, Rebound(q, k, claims))
     IN  End(r, [result |-> "posted", named |-> IF Cardinality(others) > 1 THEN {w.id : w \in others} ELSE {}])
  /\ known' = [known EXCEPT ![r] = Unread]
  /\ UNCHANGED failing /\ Silently

RunStep(r) ==
  \/ ReadRole(r) \/ ReadPr(r) \/ ReadClaims(r) \/ ReadCommit(r) \/ FailRead(r)
  \/ Plan(r) \/ Confirm(r) \/ Decline(r) \/ Scan(r)
  \/ Post(r) \/ PostFails(r) \/ Reread(r) \/ RereadFails(r) \/ Reclaim(r)

Start ==
  /\ phase = [r \in Runs |-> "authority"]
  /\ known = [r \in Runs |-> Unread]
  /\ report = [r \in Runs |-> NoReport]
  /\ stood = [r \in Runs |-> {}]

Next == Move \/ \E r \in Runs : RunStep(r)

-----------------------------------------------------------------------------
\* A run posts only if nothing spoke against it all the time it was reading: no reason of
\* the plan, and no waiver that would have done (runExternalCheckWaiver).
WaiversAreWarranted == \A r \in Runs : phase[r] = "post" => stood[r] = {}

\* The merge gate's view of a waiver.
CountsNow(w) ==
  LET k == [pr |-> pr, claims |-> claims]
      bound == {i \in DOMAIN claims : claims[i] # NoClaim /\ claims[i].branch = pr.branch}
      binding == IF Cardinality(bound) = 1 THEN claims[CHOOSE i \in bound : TRUE] ELSE NoClaim
      ctx == [trusted |-> Trusted, head |-> pr.head, claim |-> binding.id, supersedes |-> binding.supersedes,
              now |-> now, maxValidity |-> policy.maxValidity, waivable |-> policy.waivable,
              mode |-> policy.mode, allowAuto |-> TRUE]
  IN  WaiverVerdict(w, ctx) = "valid"

\* When two waivers of a kind count for a check, the run that posted the later one has named
\* both, unless it said that it could not tell or failed (the reconciliation after the post).
DuplicatesAreNamed ==
  \A r \in Runs : report[r].result = "posted" =>
    LET own == waivers[report[r].own]
    IN  CountsNow(own) =>
          \A i \in 1..(report[r].own - 1) :
            /\ waivers[i].selector.text = own.selector.text
            /\ (waivers[i].reason = "auto") = (own.reason = "auto")
            /\ CountsNow(waivers[i])
            => {i, report[r].own} \subseteq report[r].named
=============================================================================
