------------------------- MODULE DispositionEvidence -------------------------
(***************************************************************************)
(* Has everything that was said in a pull request been answered?  The two  *)
(* summaries of protocol-helpers.mjs behind the merge gate: the comments   *)
(* that no agent has reacted to (summarizeRegularCommentsForGate) and the  *)
(* comments and threads without a disposition of their own                 *)
(* (summarizeDispositionEvidenceForGate).                                  *)
(***************************************************************************)
EXTENDS ReviewEvidence

\* The first comments of a set.
First(comments, number, time) == {c \in comments : Cardinality(Earlier(comments, c, time)) < number}

\* Each item, in the order of time, takes the first candidate that is still free and fits,
\* unless that is withheld; these are the items that take none. fits is a set of pairs of
\* a candidate and an item.
FirstFit(items, candidates, fits, withheld, time) ==
  LET takes[c \in items] ==
        LET gone == UNION {takes[d] : d \in Earlier(items, c, time)}
            free == {k \in candidates \ gone : <<k, c>> \in fits}
        IN  {k \in free : Earlier(free, k, time) = {} /\ k \notin withheld}
  IN  {c \in items : takes[c] = {}}

Names(disposition, bot) == disposition.names = bot

-----------------------------------------------------------------------------
(* Comments of bots that count as answered.                                *)

\* hasExplicitDispositionAfter: an agent disposed of the bot's comment later on.
DisposedAfter(c, comments) ==
  \E d \in comments : /\ d.author \in Agents
                      /\ IsDispositionComment(d) /\ Names(d, c.author)
                      /\ d.at > c.at

\* hasCompletedBotThreadDispositions: every thread of the bot is resolved and disposed.
ThreadsDisposed(bot, threads) ==
  LET own == {t \in threads : \E c \in InThread(t) : c.author = bot /\ ~ IsDispositionComment(c)}
  IN  own # {} /\ \A t \in own : t.resolved /\ HasFreshDisposition(t, Agents, FALSE)

\* classifyRegularBotComment: CodeRabbit's own summaries and acknowledgements are done
\* with once its threads are, and nothing is while a known bot's thread is open.
BotCommentResolved(c, comments, threads) ==
  /\ c.author = Rabbit
  /\ \A t \in threads : t.resolved \/ \A d \in InThread(t) : d.author \notin KnownBots
  /\ \/ c.kind = "quietSummary"
     \/ c.kind = "summary" /\ (DisposedAfter(c, comments) \/ ThreadsDisposed(Rabbit, threads))
     \/ c.kind = "triggerAck" /\ DisposedAfter(c, comments)

\* A notice or summary disposition of a login that is trusted without being an agent.
IsTrustedMachineDisposition(c) ==
  c.author \in Trusted /\ c.kind \in {"noticeDisposition", "summaryDisposition"}

\* matchTrustedAdvisoryStickyDispositions: what such dispositions answer, one each; a
\* summary only by a younger one.
StickyDisposed(comments) ==
  LET stickies(bot, kinds) == {c \in comments : c.author = bot /\ c.kind \in kinds}
      by(bot, kind) == {c \in comments : c.author \in Trusted \ Agents /\ c.kind = kind /\ Names(c, bot)}
      Disposed(items, candidates, fits) == items \ FirstFit(items, candidates, fits, {}, Activity(comments))
      notices(bot) == stickies(bot, {"notice"})
      summaries(bot) == stickies(bot, {"summary", "quietSummary"})
      dispositions(bot) == by(bot, "noticeDisposition")
      verdicts(bot) == by(bot, "summaryDisposition")
  IN  UNION {Disposed(notices(b), dispositions(b), dispositions(b) \X notices(b))
             \union Disposed(summaries(b), verdicts(b),
                             {p \in verdicts(b) \X summaries(b) : ActivityAt(p[1]) > ActivityAt(p[2])})
               : b \in GateBots}

\* The comments that want an answer at all.
Outstanding(comments, threads) ==
  {c \in comments : /\ ~ IsOperational(c)
                    /\ c.author \notin Agents
                    /\ ~ IsTrustedMachineDisposition(c)
                    /\ c.author \in GateBots => ~ BotCommentResolved(c, comments, threads)}

\* summarizeRegularCommentsForGate: those that no agent wrote anything after.
UnansweredForGate(comments, threads) ==
  LET reply == Latest({c.at : c \in {d \in comments : d.author \in Agents /\ ~ IsOperational(d)}})
  IN  {c \in Outstanding(comments, threads) \ StickyDisposed(comments) : reply <= ActivityAt(c)}

-----------------------------------------------------------------------------
(* Each answer answers once.                                               *)

\* A bot's notices are carried by as many dispositions as there are, whatever their order.
CarriedNotices(comments, outstanding) ==
  LET notices(bot) == {c \in outstanding : c.author = bot /\ c.kind = "notice"}
      named(bot)   == {c \in comments : c.author \in Agents /\ c.kind = "noticeDisposition" /\ Names(c, bot)}
      time         == Activity(comments)
  IN  [notices |-> UNION {First(notices(b), Cardinality(named(b)), time) : b \in GateBots},
       used    |-> UNION {First(named(b), Cardinality(notices(b)), time) : b \in GateBots}]

\* MUTANT of Answers: an answer of the same time is one.
AnswersAtOnce(reply, c) ==
  /\ ActivityAt(reply) >= ActivityAt(c)
  /\ c.author \in GateBots => IsDispositionComment(reply)

\* An answer is younger than what it answers, and to a bot it is a disposition.
Answers(reply, c) ==
  /\ ActivityAt(reply) > ActivityAt(c)
  /\ c.author \in GateBots => IsDispositionComment(reply)

\* The comments for which no answer is left.
MissingComments(comments, threads) ==
  LET asked   == Outstanding(comments, threads)
      carried == CarriedNotices(comments, asked)
      open    == asked \ (carried.notices \union StickyDisposed(comments))
      replies == {c \in comments \ carried.used : c.author \in Agents /\ ~ IsOperational(c)}
  IN  FirstFit(open, replies, {p \in replies \X open : Answers(p[1], p[2])}, {}, Activity(comments))

\* isIddOriginatedThreadReply
Originated(c) == c.stamped \/ (c.author \in Agents \union Trusted /\ (IsDispositionComment(c) \/ IsRejectionConfirmed(c)))

Feedback(t) == {c \in InThread(t) : c.author \notin Agents \union {PrAuthor}}

\* A thread of reviewers that lacks a disposition. People who talk in a thread of a
\* person are left to themselves; in a resolved thread only what came after the
\* watermark counts.
MissingThread(t, boundary) ==
  LET rest    == InThread(t) \ {t.comments[1]}
      people  == /\ t.comments[1].author \notin GateBots
                 /\ rest # {} /\ \A c \in rest : ~ Originated(c)
      settled == /\ t.resolved /\ boundary # AtNone
                 /\ Latest({ActivityAt(c) : c \in Feedback(t)}) <= boundary
  IN  /\ Feedback(t) # {}
      /\ ~ HasFreshDisposition(t, Agents \union Trusted, TRUE)
      /\ ~ people
      /\ ~ settled

\* The gate's summary; ackOnly when all that is missing are bots' thanks.
SummarizeDispositionEvidence(comments, threads, boundary) ==
  LET missed == MissingComments(comments, threads)
      open   == {t \in threads : MissingThread(t, boundary)}
  IN  [complete |-> missed = {} /\ open = {},
       ackOnly  |-> missed = {} /\ open # {} /\ \A t \in open : AckOnlyPostDisposition(t, boundary)]
=============================================================================
