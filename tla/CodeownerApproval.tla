-------------------------- MODULE CodeownerApproval --------------------------
(***************************************************************************)
(* The reviews that a merge needs (protocol-helpers.mjs): the latest word  *)
(* of every reviewer, the approvals that branch rules require, the owners  *)
(* of the changed files and what happens when their only owner is the      *)
(* author.                                                                 *)
(*                                                                         *)
(* A review is [author, state, at]; a CODEOWNERS rule is [hits, users,     *)
(* teams, emails]; a ruleset is [id, bypass].                              *)
(***************************************************************************)
EXTENDS Naturals, Sequences, FiniteSets

\* indexLatestGatingReviewsByAuthor: a comment or a pending review is no verdict; of two
\* of the same time the later listed one counts.
Verdicts(reviews) ==
  {i \in DOMAIN reviews :
     /\ reviews[i].state \notin {"COMMENTED", "PENDING"}
     /\ ~ \E j \in DOMAIN reviews :
            /\ reviews[j].author = reviews[i].author
            /\ reviews[j].state \notin {"COMMENTED", "PENDING"}
            /\ \/ reviews[j].at > reviews[i].at
               \/ reviews[j].at = reviews[i].at /\ j > i}

WhoSaid(reviews, state) == {reviews[i].author : i \in {j \in Verdicts(reviews) : reviews[j].state = state}}

\* findCodeownersForPath: the last rule that matches a file.
OwnersOf(file, rules) ==
  LET hits == {i \in DOMAIN rules : file \in rules[i].hits}
  IN  IF hits = {} THEN [users |-> {}, teams |-> {}, emails |-> {}]
      ELSE LET last == CHOOSE i \in hits : \A j \in hits : j <= i
           IN  [users |-> rules[last].users, teams |-> rules[last].teams, emails |-> rules[last].emails]

\* collectCodeownersForFiles
CodeownersForFiles(files, rules) ==
  [users  |-> UNION {OwnersOf(f, rules).users : f \in files},
   teams  |-> UNION {OwnersOf(f, rules).teams : f \in files},
   emails |-> UNION {OwnersOf(f, rules).emails : f \in files}]

\* summarizeRulesetPullRequestBypass: every ruleset that asks for code owners has been
\* read and lets the caller by.
RulesetBypass(ids, rulesets, unreadable) ==
  LET relevant == {r \in rulesets : r.id \in ids}
      lets     == {"always", "exempt", "pull_requests_only"}
  IN  [detected   |-> ids # {} /\ Cardinality(relevant) = Cardinality(ids) /\ \A r \in relevant : r.bypass \in lets,
       unreadable |-> unreadable /\ Cardinality(relevant) < Cardinality(ids)]

\* summarizeCodeownerSelfApproval. eligible are the owners that can write to the
\* repository, when that could be read; classic tells whether classic protection asks
\* for owners and whether it lets the caller by.
SelfApproval(required, satisfied, owners, eligible, eligibleUnreadable, author, bypass, ids, classic) ==
  LET some  == owners.users \union owners.teams \union owners.emails # {}
      may   == /\ bypass.detected \/ (classic.codeOwner /\ classic.bypass)
               /\ ids = {} \/ bypass.detected
               /\ ~ classic.codeOwner \/ classic.bypass
      alone == eligible # {} /\ eligible \subseteq {author}
  IN  [status |-> CASE ~ required \/ ~ some \/ satisfied -> "not_applicable"
                    [] required /\ some /\ ~ satisfied /\ (may \/ eligible \ {author} # {}) -> "clear"
                    [] OTHER -> IF /\ owners.teams = {} /\ owners.emails = {} /\ alone
                                   /\ ~ bypass.unreadable
                                THEN "deadlock" ELSE "possible_deadlock",
       sole   |-> owners.teams = {} /\ owners.emails = {} /\ ~ eligibleUnreadable /\ alone]

\* summarizeReviewerStates; people are the authors that are no advisory bots, decision
\* is what GitHub says of the reviews.
ReviewerStates(reviews, decision, people, req, owners, eligible, self) ==
  LET approved == WhoSaid(reviews, "APPROVED") \intersect people
      owned    == owners.users \union owners.teams \union owners.emails # {}
      owner    == ~ req.codeOwner \/ ~ owned \/ approved \intersect eligible # {}
  IN  [approvals |-> /\ decision \in {"APPROVED", "none"}
                     /\ Cardinality(approved) >= req.approvals,
       codeowner |-> owner,
       blocking  |-> WhoSaid(reviews, "CHANGES_REQUESTED") \intersect people,
       self      |-> self]

\* isPreMergeReviewSatisfied
ReviewSatisfied(states) == states.approvals /\ (states.codeowner \/ states.self.status = "clear")

-----------------------------------------------------------------------------
\* routeRejectedChangesRequestedReview: what becomes of a review whose request was
\* rejected. answer is the reviewer's, rejected and escalated are times, 0 when there
\* is no such comment.
RouteRejectedChanges(state, answer, maintainerAgreed, rejected, escalated, now, first, second) ==
  CASE state # "CHANGES_REQUESTED" -> "proceed"
    [] state = "CHANGES_REQUESTED" /\ answer = "disagreed" -> "return-to-e1"
    [] state = "CHANGES_REQUESTED" /\ (answer = "agreed" \/ (answer = "none" /\ maintainerAgreed)) ->
         "hold-await-state-clear"
    [] OTHER -> IF rejected = 0 THEN "hold-for-evidence"
                ELSE IF now < rejected + first THEN "hold-before-escalation"
                ELSE IF escalated = 0 THEN "escalate-maintainer"
                ELSE IF now < escalated + second THEN "hold-after-escalation"
                ELSE "label-and-release"
=============================================================================
