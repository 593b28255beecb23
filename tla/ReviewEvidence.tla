-------------------------- MODULE ReviewEvidence --------------------------
(***************************************************************************)
(* What the merge gate makes of the conversation of a pull request:        *)
(* protocol-helpers.mjs compares the activity with the agent's last        *)
(* watermark, classifies the review threads, looks for the answer to every *)
(* comment and derives the state of the required reviewers.                *)
(*                                                                         *)
(* A comment is [id, author, kind, names, stamped, at, edited]: its kind   *)
(* is what the patterns of the code recognise in the body, names the bot a *)
(* disposition speaks of, stamped whether a helper signed it, edited the   *)
(* time of the last change. Ids follow the order of the listing. A thread  *)
(* is [id, comments, resolved], its comments a sequence.                   *)
(***************************************************************************)
EXTENDS Naturals, Sequences, FiniteSets, SequencesExt

CONSTANTS
  Agents,           \* iddAgentLogins: the logins the agents write under
  Trusted,          \* trustedMarkerLogins: whose operational markers count
  KnownBots,        \* the review bots the code knows by name
  ConfiguredBots,   \* advisoryBotLogins of the configuration
  Rabbit,           \* CodeRabbit, whose templates the code knows
  PrAuthor          \* the author of the pull request

AtNone == 0

\* isGateAdvisoryBotLogin: the known bots and the configured ones.
GateBots == KnownBots \union ConfiguredBots

\* **Accepted** and **Rejected**, also when they dispose of a notice or a summary.
IsDispositionComment(c) == c.kind \in {"accepted", "rejected", "noticeDisposition", "summaryDisposition"}

\* "Rejection confirmed by maintainer".
IsRejectionConfirmed(c) == c.kind = "confirmed"

\* An operational marker or the live status digest; a forced handoff only from whom
\* the repository trusts.
IsOperational(c) == c.kind \in {"marker", "digest"} \/ (c.kind = "handoff" /\ c.author \in Trusted)

\* The time of the last change of a comment.
ActivityAt(c) == c.edited

Latest(times) == IF times = {} THEN AtNone ELSE CHOOSE t \in times : \A u \in times : u <= t

\* The comments of a set before one of them: by the time that counts, then by the listing.
Earlier(comments, c, time) ==
  {d \in comments : time[d] < time[c] \/ (time[d] = time[c] /\ d.id < c.id)}

Activity(comments) == [c \in comments |-> ActivityAt(c)]

InThread(t) == {t.comments[i] : i \in DOMAIN t.comments}

-----------------------------------------------------------------------------
(* The activity snapshot and the watermark.                                *)

\* A disposition of the thread; the maintainer's confirmation counts once the thread
\* is resolved.
DisposesThread(c, t) == IsDispositionComment(c) \/ (t.resolved /\ IsRejectionConfirmed(c))

DispositionAuthors == {a \in Agents : a \notin ConfiguredBots}

\* When a disposition counts as written: a confirmation with its edits.
DisposedAt(c) == IF IsRejectionConfirmed(c) THEN ActivityAt(c) ELSE c.at

\* The bot replies of a resolved thread that came after its disposition.
AckReplies(t) ==
  LET disposed == Latest({DisposedAt(c) : c \in {d \in InThread(t) : d.author \in DispositionAuthors /\ DisposesThread(d, t)}})
  IN  IF ~ t.resolved \/ disposed = AtNone THEN {}
      ELSE {c \in InThread(t) : /\ c.author \in ConfiguredBots
                                /\ ~ IsDispositionComment(c) /\ ~ IsRejectionConfirmed(c)
                                /\ ActivityAt(c) > disposed}

\* What a snapshot of comments, reviews, threads and checks records: the number of
\* items, the latest activity, the latest passing check, and the same without what
\* bots added after the dispositions.
BuildActivitySnapshot(comments, reviews, threads, passingAt) ==
  LET counted   == {c \in comments : ~ (c.author \in Trusted /\ (IsOperational(c) \/ c.kind = "handoff"))}
      disposed  == Latest({c.at : c \in {d \in counted : d.author \in DispositionAuthors /\ IsDispositionComment(d)}}
                          \union {DisposedAt(c) : c \in UNION {{d \in InThread(t) : d.author \in DispositionAuthors /\ DisposesThread(d, t)} : t \in threads}})
      acks      == {c \in counted : /\ disposed # AtNone
                                    /\ c.author \in ConfiguredBots
                                    /\ ~ IsDispositionComment(c)
                                    /\ ActivityAt(c) > disposed}
      replies   == UNION {AckReplies(t) : t \in threads}
      reviewed  == {reviews[i].at : i \in DOMAIN reviews}
      said      == UNION {InThread(t) : t \in threads}
  IN  [count        |-> Cardinality(counted) + Len(reviews) + Cardinality(threads),
       max          |-> Latest({ActivityAt(c) : c \in counted \union said} \union reviewed),
       passing      |-> passingAt,
       acks         |-> acks,
       ackEvidence  |-> disposed # AtNone /\ acks \union replies # {},
       effectiveMax |-> Latest({ActivityAt(c) : c \in (counted \ acks) \union (said \ replies)} \union reviewed)]

\* MUTANT of DiffReviewSnapshot: the count of items is not compared.
DiffReviewSnapshotByTime(w, head, live) ==
  IF w.head # head THEN "head-changed"
  ELSE IF live.max > w.max THEN "newer-activity"
  ELSE IF w.passing # live.passing THEN "ci-pass-drift" ELSE "snapshot-current"

\* Whether the live activity is still what the watermark w has seen.
DiffReviewSnapshot(w, head, live) ==
  LET newer  == w.max # AtNone /\ live.max > w.max
      ackNew == live.ackEvidence /\ live.effectiveMax <= w.max
      grown  == live.count > w.count
      ackNum == Cardinality({c \in live.acks : ActivityAt(c) > w.max})
      ackGrown == live.ackEvidence /\ live.count <= w.count + ackNum
  IN  CASE w.head # head                    -> "head-changed"
        [] w.head = head /\ w.max = AtNone /\ live.count > 0 -> "snapshot-was-empty-now-nonempty"
        [] OTHER ->
             IF w.max # AtNone /\ live.count > 0 /\ live.max = AtNone THEN "missing-live-activity-evidence"
             ELSE IF newer /\ ~ ackNew THEN "newer-activity"
             ELSE IF grown /\ ~ ackGrown THEN "same-timestamp-count-growth"
             ELSE IF w.passing # live.passing THEN "ci-pass-drift"
             ELSE IF newer \/ grown THEN "ack-only-post-disposition"
             ELSE "snapshot-current"

\* The latest watermark of the claim that a trusted login wrote, in the order of the
\* listing; of two of one second the first stays. Empty when there is none.
ResolveLatestReviewWatermark(watermarks, claim) ==
  LET own == {i \in DOMAIN watermarks : watermarks[i].author \in Trusted /\ watermarks[i].claim = claim}
  IN  {watermarks[i] : i \in {j \in own : \A k \in own : \/ watermarks[k].at < watermarks[j].at
                                                         \/ watermarks[k].at = watermarks[j].at /\ j <= k}}

-----------------------------------------------------------------------------
(* Review threads.                                                         *)

\* Whose turn it is in a thread. amd marks the reply that asks the maintainer to
\* decide; conversation is the branch rule that every thread be resolved.
ClassifyReviewThread(t, conversation) ==
  LET n     == Len(t.comments)
      last  == t.comments[n]
      amds  == {i \in 1..n : t.comments[i].author \in Agents /\ t.comments[i].kind = "amd"}
      awaits == amds # {} /\ \A i \in (Latest(amds) + 1)..n : t.comments[i].author \in Agents \union {PrAuthor}
  IN  IF t.resolved THEN "resolved"
      ELSE IF awaits THEN "amd-blocking"
      ELSE IF last.author \notin Agents \union {PrAuthor} THEN "actionable-blocking"
      ELSE IF ~ conversation THEN "awaiting-reviewer"
      ELSE IF last.author \in Agents THEN "conversation-resolve-agent" ELSE "conversation-resolve-author"

\* The threads that keep the gate closed: all but the resolved ones and those that wait
\* for the reviewer.
ActionableThreads(threads, conversation) ==
  {t \in threads : ClassifyReviewThread(t, conversation) \notin {"resolved", "awaiting-reviewer"}}

\* A disposition that is younger than every other word in the thread. authors are the
\* logins whose dispositions count, stamped whether a helper's signature counts too.
HasFreshDisposition(t, authors, stamped) ==
  LET disposes == {c \in InThread(t) : DisposesThread(c, t) /\ (c.author \in authors \/ (stamped /\ c.stamped))}
      feedback == Latest({ActivityAt(c) : c \in InThread(t) \ disposes})
  IN  \E c \in disposes : feedback = AtNone \/ ActivityAt(c) > feedback

\* A resolved thread in which, since its disposition and since the watermark, only a
\* known acknowledgement of a bot was added.
AckOnlyPostDisposition(t, boundary) ==
  LET disposed == Latest({ActivityAt(c) : c \in {d \in InThread(t) : d.author \in DispositionAuthors /\ (IsDispositionComment(d) \/ IsRejectionConfirmed(d))}})
      after    == {c \in InThread(t) : /\ c.author \notin Agents \union {PrAuthor}
                                       /\ ActivityAt(c) > boundary
                                       /\ ActivityAt(c) > disposed}
  IN  /\ t.resolved
      /\ disposed # AtNone
      /\ after # {}
      /\ \A c \in after : c.author \in ConfiguredBots /\ c.author = Rabbit /\ c.kind = "ack"

=============================================================================
