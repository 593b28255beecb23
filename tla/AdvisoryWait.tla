----------------------------- MODULE AdvisoryWait -----------------------------
(***************************************************************************)
(* Waiting for the primary reviewer, a bot that may answer late or never:  *)
(* the summaries of protocol-helpers.mjs, advisory-wait-policy.mjs and     *)
(* advisory-wait-state.mjs from which a session reads whether to ask for a *)
(* review of the head commit, to wait, to go on, or to give up.            *)
(*                                                                         *)
(* A marker is [author, kind, head, agent, claim, at] with the kinds       *)
(* "wait", "recovery", "reroll" and "ack"; a timeline is a sequence of     *)
(* [event, what]; a review is [author, commit, items, suppressed, at, id]. *)
(* Times are natural numbers, 0 is no time.                                *)
(***************************************************************************)
EXTENDS Integers, Sequences, FiniteSets

CONSTANTS
  Primary,          \* advisoryWait.primaryBotLogin
  Secondary,        \* advisoryWait.secondaryBotLogin, or no login at all
  NoLogin           \* the empty string

LOCAL Highest(S) == CHOOSE i \in S : \A j \in S : j <= i
LOCAL Lowest(S) == CHOOSE i \in S : \A j \in S : i <= j
LOCAL Least(a, b) == IF a < b THEN a ELSE b

\* minutesBetween: no time has passed between times in the wrong order.
MinutesBetween(start, end) == IF end < start THEN 0 ELSE end - start

\* A section of the configuration that fails its schema counts as absent.
ReadPolicy(config, defaults) == IF config.valid THEN config.policy ELSE defaults

\* resolveEffectiveAdvisoryTerminalWindowMinutes: a declared outage may shorten the
\* wait for a review, never lengthen it.
TerminalWindow(policy, declared) ==
  IF declared /\ policy.outageWindow > 0 THEN Least(policy.terminalWindow, policy.outageWindow)
  ELSE policy.terminalWindow

-----------------------------------------------------------------------------
(* What GitHub shows of the request.                                       *)

\* findLastCopilotReviewCommit: the commit of the bot's latest review.
LastReviewCommit(reviews) ==
  LET own  == {i \in DOMAIN reviews : reviews[i].author = Primary}
      last == Highest({i \in own : \A j \in own : reviews[j].at <= reviews[i].at})
  IN  IF own = {} THEN NoLogin ELSE reviews[last].commit

\* computeCopilotPendingCoversHead: the last request came after the head commit.
RequestCoversHead(timeline, head, bot) ==
  LET at(event, what) == {i \in DOMAIN timeline : timeline[i] = [event |-> event, what |-> what]}
  IN  /\ at("committed", head) # {} /\ at("requested", bot) # {}
      /\ Highest(at("requested", bot)) > Highest(at("committed", head))

\* resolveCopilotPending. listed are the requested reviewers that REST lists, listedToo
\* those of GraphQL, which is only asked when neither of the others tells.
ReviewPending(listed, listedToo, covers, last, head) ==
  Primary \in listed \/ (covers /\ last # head) \/ Primary \in listedToo

-----------------------------------------------------------------------------
(* Markers.                                                                *)

WaitMarkers(markers, trusted) ==
  {m \in markers : m.author \in trusted /\ m.kind \in {"wait", "recovery"}}

\* summarizeAdvisoryWaitMarkers: the clock of a head starts with its first marker;
\* requests count over all heads.
SummarizeWaitMarkers(markers, head, trusted) ==
  LET own  == WaitMarkers(markers, trusted)
      here == {m \in own : m.head = head}
  IN  [present        |-> here # {},
       requestPresent |-> \E m \in here : m.kind = "wait",
       earliest       |-> IF here = {} THEN 0 ELSE Lowest({m.at : m \in here}),
       requests       |-> Cardinality({m \in own : m.kind = "wait"})]

-----------------------------------------------------------------------------
(* The outcomes.                                                           *)

\* evaluateAdvisoryWaitOutcome. s is a summary as BuildWaitSummary makes it.
WaitOutcome(s, policy) ==
  LET asked == IF s.markers.requests >= policy.requestCap THEN "CAP_EXHAUSTED" ELSE "REQUEST_NEEDED"
      until == IF s.pending THEN policy.pendingWindow ELSE policy.settledWindow
  IN  IF s.last = s.head THEN "SATISFIED"
      ELSE IF s.markers.present
      THEN IF s.elapsed >= until THEN "SATISFIED" ELSE "WAIT"
      ELSE IF s.pending /\ s.covers THEN "RECOVERY_NEEDED"
      ELSE asked

\* MUTANT of FinalOutcome: a review that was asked for is waited for until it comes.
FinalOutcomeReviewed(s, policy) ==
  IF s.last = s.head \/ ~ s.pending THEN "SATISFIED" ELSE "WAIT"

\* evaluateAdvisoryWaitF3Outcome: before the merge only a pending review is waited for.
FinalOutcome(s, policy) ==
  IF s.last = s.head \/ ~ s.pending THEN "SATISFIED" ELSE WaitOutcome(s, policy)

\* The second bot is asked once the first has let its time go by.
SecondaryRequestNeeded(s, timeline, outcome) ==
  /\ Secondary # NoLogin /\ Secondary # Primary
  /\ ~ RequestCoversHead(timeline, s.head, Secondary)
  /\ s.last # s.head
  /\ outcome = "CAP_EXHAUSTED" \/ (outcome = "SATISFIED" /\ s.markers.present)

\* buildAdvisoryWaitSummary. pr is what was read of the pull request.
BuildWaitSummary(pr, trusted, now) ==
  LET last    == LastReviewCommit(pr.reviews)
      covers  == RequestCoversHead(pr.timeline, pr.head, Primary)
      markers == SummarizeWaitMarkers(pr.markers, pr.head, trusted)
  IN  [head    |-> pr.head,
       last    |-> last,
       covers  |-> covers,
       pending |-> ReviewPending(pr.listed, pr.listedToo, covers, last, pr.head),
       markers |-> markers,
       elapsed |-> IF markers.present THEN MinutesBetween(markers.earliest, now) ELSE 0]

-----------------------------------------------------------------------------
(* Giving up on the reviewer.                                              *)

\* The recovery markers of a claim for a head.
RecoveryCycles(markers, head, trusted, claim) ==
  {m \in markers : /\ m.kind = "recovery" /\ m.author \in trusted
                   /\ m.agent = claim.agent /\ m.claim = claim.id /\ m.head = head}

\* buildCopilotRecoverySummary: the reviewer is unavailable once the claim has tried as
\* often as it may, and long enough ago, and there is still no review of the head.
RecoverySummary(markers, head, last, trusted, claim, policy, window, now) ==
  LET cycles == IF claim.id = "none" THEN {} ELSE RecoveryCycles(markers, head, trusted, claim)
      anchor == Lowest({m.at : m \in cycles})
  IN  [provided    |-> claim.id # "none",
       count       |-> Cardinality(cycles),
       left        |-> Highest({policy.recoveryCycleCap - Cardinality(cycles), 0}),
       unavailable |-> /\ cycles # {}
                       /\ Cardinality(cycles) >= policy.recoveryCycleCap
                       /\ MinutesBetween(anchor, now) >= window
                       /\ last # head]

\* evaluateStaleRequestRecoveryAction: ask again when it is not known that the reviewer
\* ever heard of this head.
StaleRequestRecovery(s, recovery, policy) ==
  LET unheard == /\ recovery.provided
                 /\ ~ s.covers
                 /\ IF s.pending THEN ~ s.markers.present
                    ELSE s.markers.requestPresent /\ s.elapsed >= policy.settledWindow
  IN  CASE ~ unheard -> "not-applicable"
        [] unheard /\ recovery.left = 0 -> "cap-exhausted"
        [] OTHER -> "attempt"

\* detectRecoveryHeadRace: the head must still be the one that the summary was about.
HeadRaced(expected, current) == expected # current

-----------------------------------------------------------------------------
(* The quiet time after the last word.                                     *)

\* computeSecondaryAdvisoryReviewSettlement: the second bot's latest comment since the
\* head commit is a review, or says that there will be none.
SecondarySettlement(comments, headAt) ==
  LET own  == {c \in comments : c.author = Secondary /\ c.edited >= headAt}
      last == {c \in own : \A d \in own : d.edited < c.edited \/ (d.edited = c.edited /\ d.id <= c.id)}
  IN  IF Secondary = NoLogin \/ headAt = 0 \/ own = {} THEN [settledAt |-> 0, declined |-> FALSE]
      ELSE [settledAt |-> Highest({0} \union {c.edited : c \in {d \in last : d.kind # "notice"}}),
            declined  |-> \E c \in last : c.kind = "notice"]

\* buildSecondaryQuietWindowStatus: minutes after the last activity, a few at most once
\* the second bot has spoken. SettledBuffer is 5 minutes.
QuietWindowElapsed(minutes, lastActivity, settlement, buffer, now) ==
  \/ minutes = 0
  \/ settlement.declined
  \/ IF settlement.settledAt # 0
     THEN MinutesBetween(settlement.settledAt, now) >= Least(minutes, buffer)
     ELSE lastActivity = 0 \/ MinutesBetween(lastActivity, now) >= minutes
===============================================================================
