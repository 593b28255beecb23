-------------------------- MODULE IssueIntake_proofs --------------------------
(***************************************************************************)
(* Proofs about the session that looks for its next issue, for any issues, *)
(* trusted actors and policies, and whatever people do meanwhile.          *)
(*                                                                         *)
(* The triage reads an issue, its comments and, if one of them rejects it, *)
(* the times of its edits, one after the other, while all of them change.  *)
(* What makes the verdict safe relates the pieces: a rejection of the      *)
(* present version is not older than any edit, so that one that was found  *)
(* older than an edit is of an earlier version, whatever is posted or      *)
(* edited after it was read.                                               *)
(***************************************************************************)
EXTENDS IssueIntake, FiniteSetTheorems, WellFoundedInduction, TLAPS

-----------------------------------------------------------------------------
(* Numbers and sequences.                                                  *)

\* A set of natural numbers that is not empty has a least element.
LEMMA LeastOfNaturals ==
  ASSUME NEW T, T \subseteq Nat, T # {}
  PROVE  \E x \in T : \A y \in T : x <= y
<1> DEFINE C == {0..x : x \in T}
<1>1. C \subseteq FiniteSubsetsOf(Nat) /\ C # {}
  <2>1. ASSUME NEW x \in T PROVE 0..x \in FiniteSubsetsOf(Nat)
    <3>1. x \in Nat OBVIOUS
    <3>2. IsFiniteSet(0..x) BY <3>1, FS_Interval
    <3>3. 0..x \subseteq Nat BY <3>1
    <3>4. QED BY <3>2, <3>3 DEF FiniteSubsetsOf
  <2>2. QED BY <2>1
<1>2. PICK c \in C : \A d \in C : ~ (<<d, c>> \in StrictSubsetOrdering(Nat))
  BY <1>1, FS_StrictSubsetOrderingWellFounded, WFMin
<1>3. PICK x \in T : c = 0..x
  OBVIOUS
<1>4. ASSUME NEW y \in T, ~ (x <= y) PROVE FALSE
  <2>1. x \in Nat /\ y \in Nat /\ y < x BY <1>4
  <2>2. 0..y \in C OBVIOUS
  <2>3. 0..y \subseteq 0..x /\ x \in 0..x /\ x \notin 0..y BY <2>1
  <2>4. 0..y # 0..x BY <2>3
  <2>5. 0..y \in SUBSET Nat /\ 0..x \in SUBSET Nat BY <2>1
  <2>6. <<0..y, 0..x>> \in StrictSubsetOrdering(Nat) BY <2>3, <2>4, <2>5 DEF StrictSubsetOrdering
  <2>7. QED BY <1>2, <1>3, <2>2, <2>6
<1>5. QED BY <1>4

\* The least element is the one that Min takes.
LEMMA MinIsLeast ==
  ASSUME NEW T, T \subseteq Nat, T # {}
  PROVE  Min(T) \in T
<1>1. \E x \in T : \A y \in T : x <= y BY LeastOfNaturals
<1> QED BY <1>1 DEF Min

\* Max takes the greatest of numbers that have a bound.
LEMMA MaxIsGreatest ==
  ASSUME NEW T, NEW k \in Nat, T \subseteq 0..k, T # {}
  PROVE  Max(T) \in T /\ \A y \in T : y <= Max(T)
<1> DEFINE B == {b \in Nat : \A y \in T : y <= b}
<1>1. k \in B OBVIOUS
<1>2. PICK b \in B : \A c \in B : b <= c
  <2> HIDE DEF B
  <2>1. B \subseteq Nat BY DEF B
  <2> QED BY <1>1, <2>1, LeastOfNaturals
<1>3. b \in T
  <2> SUFFICES ASSUME b \notin T PROVE FALSE OBVIOUS
  <2>1. \A y \in T : y < b OBVIOUS
  <2>2. PICK y \in T : TRUE OBVIOUS
  <2>3. b - 1 \in Nat /\ \A z \in T : z <= b - 1 BY <2>1, <2>2
  <2>4. b - 1 \in B BY <2>3
  <2> QED BY <1>2, <2>4
<1>4. \E x \in T : \A y \in T : x >= y BY <1>3
<1>5. Max(T) \in T /\ \A y \in T : Max(T) >= y BY <1>4 DEF Max
<1> QED BY <1>5

\* A sequence of some elements is one of its own.
LEMMA ElementsOfSeq ==
  ASSUME NEW S, NEW q \in Seq(S)
  PROVE  q \in Seq(Elements(q)) /\ Elements(q) \subseteq S
<1>1. DOMAIN q = 1..Len(q) /\ Len(q) \in Nat /\ q = [i \in 1..Len(q) |-> q[i]] OBVIOUS
<1>2. \A i \in 1..Len(q) : q[i] \in Elements(q) /\ q[i] \in S BY <1>1 DEF Elements
<1> QED BY <1>1, <1>2 DEF Elements

\* One more comment is one more element.
LEMMA ElementsOfAppend ==
  ASSUME NEW S, NEW q \in Seq(S), NEW c
  PROVE  /\ Append(q, c) \in Seq(Elements(Append(q, c)))
         /\ Elements(Append(q, c)) = Elements(q) \union {c}
<1>1. q \in Seq(S \union {c}) /\ Append(q, c) \in Seq(S \union {c}) OBVIOUS
<1>2. Len(Append(q, c)) = Len(q) + 1 /\ DOMAIN Append(q, c) = 1..(Len(q) + 1) /\ DOMAIN q = 1..Len(q) /\ Len(q) \in Nat OBVIOUS
<1>3. \A i \in 1..Len(q) : Append(q, c)[i] = q[i] OBVIOUS
<1>4. Append(q, c)[Len(q) + 1] = c OBVIOUS
<1>5. Elements(Append(q, c)) = Elements(q) \union {c} BY <1>2, <1>3, <1>4 DEF Elements
<1> QED BY <1>1, <1>5, ElementsOfSeq

\* What is first in a sequence or after it is an element.
LEMMA ElementsOfTail ==
  ASSUME NEW S, NEW q \in Seq(S), q # <<>>
  PROVE  Tail(q) \in Seq(S) /\ q[1] \in S /\ Elements(q) = {q[1]} \union Elements(Tail(q))
<1>1. Len(q) \in Nat \ {0} /\ DOMAIN q = 1..Len(q) OBVIOUS
<1>2. Tail(q) \in Seq(S) /\ DOMAIN Tail(q) = 1..(Len(q) - 1) /\ \A i \in 1..(Len(q) - 1) : Tail(q)[i] = q[i + 1]
  BY <1>1
<1>3. \A i \in 1..Len(q) : i = 1 \/ (i - 1 \in 1..(Len(q) - 1) /\ q[i] = Tail(q)[i - 1]) BY <1>1, <1>2
<1>4. ASSUME NEW x \in Elements(q) PROVE x \in {q[1]} \union Elements(Tail(q))
  <2>1. PICK i \in 1..Len(q) : x = q[i] BY <1>1 DEF Elements
  <2>2. i = 1 \/ x \in Elements(Tail(q)) BY <1>2, <1>3, <2>1 DEF Elements
  <2> QED BY <2>1, <2>2
<1>5. {q[1]} \union Elements(Tail(q)) \subseteq Elements(q)
  <2>1. \A i \in 1..(Len(q) - 1) : i + 1 \in 1..Len(q) BY <1>1
  <2> QED BY <1>1, <1>2, <2>1 DEF Elements
<1> QED BY <1>1, <1>2, <1>4, <1>5

-----------------------------------------------------------------------------
(* The invariant.                                                          *)

SessionFields == {"phase", "roots", "root", "seen", "found", "frontier", "leaves", "listed", "queue",
                  "kept", "todo", "stage", "notes", "claimed", "trouble"}

NoteFields == {"issue", "log", "timeline", "edits", "titles", "evidence", "structural", "now"}

Stages == {"begin", "history", "evidence", "verdict"}

\* What the triage may still have to read at a stage.
PartsAt(stage) ==
  IF stage = "begin" THEN {"issue", "titles", "comments"}
  ELSE IF stage = "history" THEN {"timeline", "edits"}
  ELSE IF stage = "evidence" THEN {"closedBy", "byBranch", "overlapping"}
  ELSE {"editors"}

\* One issue is as it can be (see Filed).
IssueSound(issue, log, past, now) ==
  /\ {"version", "created"} \subseteq DOMAIN issue /\ issue.version \in Nat
  /\ DOMAIN past = {"renamed", "ready", "edited", "editors"}
  /\ EditTimes(issue, past) \subseteq 0..now
  /\ log \in Seq(Elements(log))
  /\ \A c \in Elements(log) : ByTrusted(c) => RejectionFits(c, issue, past, now)

WorldSound(all, logs, pasts, now) ==
  /\ now \in Nat
  /\ DOMAIN all = Issues /\ DOMAIN logs = Issues /\ DOMAIN pasts = Issues
  /\ \A n \in Issues : IssueSound(all[n], logs[n], pasts[n], now)

MovesSound(may) ==
  \A move \in may : move.after \subseteq Nat /\ (move.do = "edit" => "created" \notin DOMAIN move.text)

\* What was read of an issue was there then: nothing of it is ever taken back.
ReadEarlier(notes, issue, log, past) ==
  /\ notes.issue # NoReading => notes.issue.created = issue.created /\ notes.issue.version \in 0..issue.version
  /\ notes.log \in Seq(Elements(log))
  /\ notes.timeline.known => notes.timeline.renamed \subseteq past.renamed
  /\ notes.edits.known => notes.edits.at \subseteq past.edited

\* Every rejection that was read is older than some edit.
Outlived(notes, issue, past) ==
  \A c \in Elements(notes.log) : ByTrusted(c) => \E t \in EditTimes(issue, past) : c.at < t

\* The triage of one issue.
TriageSound(t, all, logs, pasts) ==
  t.phase = "triage" =>
    /\ DOMAIN t.notes = NoteFields
    /\ t.stage \in Stages /\ t.todo \in Seq(PartsAt(t.stage))
    /\ t.stage = "begin" =>
         /\ t.notes.issue = NoReading => "issue" \in Elements(t.todo)
         /\ t.notes.issue # NoReading /\ t.notes.issue.access = "ok" => t.queue[1] \in Issues
    /\ t.stage # "begin" => t.queue[1] \in Issues /\ t.notes.issue # NoReading
    /\ t.queue[1] \in Issues =>
         LET n == t.queue[1]
         IN  /\ ReadEarlier(t.notes, all[n], logs[n], pasts[n])
             /\ t.stage \in {"evidence", "verdict"} => Outlived(t.notes, all[n], pasts[n])

IInv ==
  /\ WorldSound(issues, comments, history, clock)
  /\ MovesSound(moves)
  /\ DOMAIN s = SessionFields
  /\ TriageSound(s, issues, comments, history)

LEMMA InitIInv == Init => IInv
<1> SUFFICES ASSUME Init PROVE IInv OBVIOUS
<1>1. WorldSound(issues, comments, history, clock) BY DEF Init, Filed, WorldSound, IssueSound
<1>2. MovesSound(moves) BY DEF Init, Filed, MovesSound
<1>3. DOMAIN s = SessionFields BY DEF Init, Start, SessionFields
<1>4. s.phase = "roots" BY DEF Init, Start
<1> QED BY <1>1, <1>2, <1>3, <1>4 DEF IInv, TriageSound

\* What the invariant says of a verdict: its text is rejected by nothing that was read.
LEMMA IInvVerdict == IInv => VerdictStands
<1> SUFFICES ASSUME IInv, s.phase = "triage", s.stage \in {"evidence", "verdict"},
                    NEW c \in Elements(s.notes.log), c.kind = "rejection", c.author \in Trusted,
                    c.version = issues[Candidate].version
             PROVE  FALSE
  BY DEF VerdictStands
<1> DEFINE n == s.queue[1]
<1>1. /\ n \in Issues /\ ReadEarlier(s.notes, issues[n], comments[n], history[n])
      /\ Outlived(s.notes, issues[n], history[n])
  BY DEF IInv, TriageSound
<1>2. ByTrusted(c) BY DEF ByTrusted
<1>3. PICK t \in EditTimes(issues[n], history[n]) : c.at < t BY <1>1, <1>2 DEF Outlived
<1>4. IssueSound(issues[n], comments[n], history[n], clock) /\ clock \in Nat BY <1>1 DEF IInv, WorldSound
<1>5. c \in Elements(comments[n]) BY <1>1, ElementsOfSeq DEF ReadEarlier
<1>6. RejectionFits(c, issues[n], history[n], clock) BY <1>2, <1>4, <1>5 DEF IssueSound
<1>7. c.version = issues[n].version BY DEF Candidate
<1>8. t <= c.at BY <1>3, <1>6, <1>7 DEF RejectionFits
<1>9. t \in Nat /\ c.at \in Nat BY <1>3, <1>4, <1>6 DEF IssueSound, RejectionFits
<1> QED BY <1>3, <1>8, <1>9

-----------------------------------------------------------------------------
(* What people and other sessions do.                                      *)

\* Nothing of an issue is ever taken back.
Grown(issue, log, past, issue2, log2, past2) ==
  /\ issue2.created = issue.created
  /\ issue.version \in Nat /\ issue2.version \in Nat /\ issue.version <= issue2.version
  /\ Elements(log) \subseteq Elements(log2)
  /\ past.renamed \subseteq past2.renamed /\ past.edited \subseteq past2.edited

LEMMA GrownEarlier ==
  ASSUME NEW notes, NEW issue, NEW log, NEW past, NEW issue2, NEW log2, NEW past2,
         ReadEarlier(notes, issue, log, past), Grown(issue, log, past, issue2, log2, past2)
  PROVE  ReadEarlier(notes, issue2, log2, past2)
<1>1. notes.issue # NoReading => notes.issue.created = issue2.created /\ notes.issue.version \in 0..issue2.version
  BY DEF ReadEarlier, Grown
<1>2. notes.log \in Seq(Elements(log2)) BY DEF ReadEarlier, Grown
<1>3. notes.timeline.known => notes.timeline.renamed \subseteq past2.renamed BY DEF ReadEarlier, Grown
<1>4. notes.edits.known => notes.edits.at \subseteq past2.edited BY DEF ReadEarlier, Grown
<1> QED BY <1>1, <1>2, <1>3, <1>4 DEF ReadEarlier

LEMMA GrownOutlived ==
  ASSUME NEW notes, NEW issue, NEW log, NEW past, NEW issue2, NEW log2, NEW past2,
         Outlived(notes, issue, past), Grown(issue, log, past, issue2, log2, past2)
  PROVE  Outlived(notes, issue2, past2)
<1>1. EditTimes(issue, past) \subseteq EditTimes(issue2, past2) BY DEF EditTimes, Grown
<1> QED BY <1>1 DEF Outlived

LEMMA GrownTriage ==
  ASSUME NEW t, NEW all, NEW logs, NEW pasts, NEW all2, NEW logs2, NEW pasts2,
         TriageSound(t, all, logs, pasts),
         \A n \in Issues : Grown(all[n], logs[n], pasts[n], all2[n], logs2[n], pasts2[n])
  PROVE  TriageSound(t, all2, logs2, pasts2)
<1> SUFFICES ASSUME t.phase = "triage" PROVE TriageSound(t, all2, logs2, pasts2)
  BY DEF TriageSound
<1> DEFINE n == t.queue[1]
<1>1. ASSUME n \in Issues PROVE ReadEarlier(t.notes, all2[n], logs2[n], pasts2[n])
  <2>1. ReadEarlier(t.notes, all[n], logs[n], pasts[n]) BY <1>1 DEF TriageSound
  <2>2. Grown(all[n], logs[n], pasts[n], all2[n], logs2[n], pasts2[n]) BY <1>1
  <2> HIDE DEF n
  <2> QED BY <2>1, <2>2, GrownEarlier
<1>2. ASSUME n \in Issues, t.stage \in {"evidence", "verdict"} PROVE Outlived(t.notes, all2[n], pasts2[n])
  <2>1. Outlived(t.notes, all[n], pasts[n]) BY <1>2 DEF TriageSound
  <2>2. Grown(all[n], logs[n], pasts[n], all2[n], logs2[n], pasts2[n]) BY <1>2
  <2> HIDE DEF n
  <2> QED BY <2>1, <2>2, GrownOutlived
<1> QED BY <1>1, <1>2 DEF TriageSound

LEMMA GrownNot ==
  ASSUME NEW issue, NEW log, NEW past, issue.version \in Nat
  PROVE  Grown(issue, log, past, issue, log, past)
BY DEF Grown

\* Time passes.
LEMMA SoundLater ==
  ASSUME NEW issue, NEW log, NEW past, NEW now \in Nat, NEW now2 \in Nat, now <= now2,
         IssueSound(issue, log, past, now)
  PROVE  IssueSound(issue, log, past, now2)
<1>1. 0..now \subseteq 0..now2 OBVIOUS
<1>2. \A c \in Elements(log) : ByTrusted(c) => RejectionFits(c, issue, past, now2)
  BY <1>1 DEF IssueSound, RejectionFits
<1> QED BY <1>1, <1>2 DEF IssueSound

\* A field of an issue, and of its history, that has nothing to do with its text.
LEMMA SoundRelabelled ==
  ASSUME NEW issue, NEW log, NEW past, NEW now, IssueSound(issue, log, past, now), NEW issue2, NEW past2,
         DOMAIN issue2 = DOMAIN issue, issue2.version = issue.version, issue2.created = issue.created,
         DOMAIN past2 = DOMAIN past, past2.renamed = past.renamed, past2.edited = past.edited
  PROVE  IssueSound(issue2, log, past2, now) /\ Grown(issue, log, past, issue2, log, past2)
<1>1. EditTimes(issue2, past2) = EditTimes(issue, past) BY DEF EditTimes
<1>2. \A c \in Elements(log) : ByTrusted(c) => RejectionFits(c, issue2, past2, now)
  BY <1>1 DEF IssueSound, RejectionFits
<1>3. IssueSound(issue2, log, past2, now) BY <1>1, <1>2 DEF IssueSound
<1> QED BY <1>3 DEF IssueSound, Grown

\* A comment; if it rejects, it is of a version that there was, and not older than the text.
LEMMA SoundCommented ==
  ASSUME NEW issue, NEW log, NEW past, NEW now, IssueSound(issue, log, past, now), NEW c,
         ByTrusted(c) => RejectionFits(c, issue, past, now)
  PROVE  IssueSound(issue, Append(log, c), past, now) /\ Grown(issue, log, past, issue, Append(log, c), past)
<1>1. Append(log, c) \in Seq(Elements(Append(log, c))) /\ Elements(Append(log, c)) = Elements(log) \union {c}
  BY ElementsOfAppend DEF IssueSound
<1>2. \A d \in Elements(Append(log, c)) : ByTrusted(d) => RejectionFits(d, issue, past, now)
  BY <1>1 DEF IssueSound
<1>3. IssueSound(issue, Append(log, c), past, now) BY <1>1, <1>2 DEF IssueSound
<1> QED BY <1>1, <1>3 DEF IssueSound, Grown

\* An edit: no rejection is of the new version yet.
LEMMA SoundEdited ==
  ASSUME NEW issue, NEW log, NEW past, NEW now \in Nat, IssueSound(issue, log, past, now), NEW issue2, NEW past2,
         DOMAIN issue2 = DOMAIN issue, issue2.version = issue.version + 1, issue2.created = issue.created,
         DOMAIN past2 = DOMAIN past,
         \/ past2.renamed = past.renamed \union {now} /\ past2.edited = past.edited
         \/ past2.renamed = past.renamed /\ past2.edited = past.edited \union {now}
  PROVE  IssueSound(issue2, log, past2, now) /\ Grown(issue, log, past, issue2, log, past2)
<1>1. EditTimes(issue2, past2) \subseteq EditTimes(issue, past) \union {now} BY DEF EditTimes
<1>2. EditTimes(issue2, past2) \subseteq 0..now BY <1>1 DEF IssueSound
<1>3. issue.version \in Nat /\ issue2.version \in Nat /\ issue.version < issue2.version BY DEF IssueSound
<1>4. \A c \in Elements(log) : ByTrusted(c) => RejectionFits(c, issue2, past2, now)
  <2> SUFFICES ASSUME NEW c \in Elements(log), ByTrusted(c) PROVE RejectionFits(c, issue2, past2, now) OBVIOUS
  <2>1. c.version \in 0..issue.version /\ c.at \in 0..now BY DEF IssueSound, RejectionFits
  <2>2. c.version \in 0..issue2.version /\ c.version # issue2.version BY <1>3, <2>1
  <2> QED BY <2>1, <2>2 DEF RejectionFits
<1>5. IssueSound(issue2, log, past2, now) BY <1>2, <1>3, <1>4 DEF IssueSound
<1> QED BY <1>3, <1>5 DEF Grown

\* The issues afterwards.
Onwards(now) ==
  /\ WorldSound(issues', comments', history', now)
  /\ \A n \in Issues : Grown(issues[n], comments[n], history[n], issues'[n], comments'[n], history'[n])

\* It is enough to look at the issue that changes.
LEMMA OneChanges ==
  ASSUME NEW now, WorldSound(issues, comments, history, now), NEW n,
         DOMAIN issues' = Issues, DOMAIN comments' = Issues, DOMAIN history' = Issues,
         \A k \in Issues \ {n} : issues'[k] = issues[k] /\ comments'[k] = comments[k] /\ history'[k] = history[k],
         n \in Issues => /\ IssueSound(issues'[n], comments'[n], history'[n], now)
                         /\ Grown(issues[n], comments[n], history[n], issues'[n], comments'[n], history'[n])
  PROVE  Onwards(now)
<1>1. \A k \in Issues \ {n} : IssueSound(issues'[k], comments'[k], history'[k], now) BY DEF WorldSound
<1>2. \A k \in Issues \ {n} : Grown(issues[k], comments[k], history[k], issues'[k], comments'[k], history'[k])
  <2> SUFFICES ASSUME NEW k \in Issues \ {n}
               PROVE  Grown(issues[k], comments[k], history[k], issues'[k], comments'[k], history'[k])
    OBVIOUS
  <2>1. issues[k].version \in Nat BY DEF WorldSound, IssueSound
  <2> QED BY <2>1, GrownNot
<1> QED BY <1>1, <1>2 DEF Onwards, WorldSound

LEMMA PostOnwards ==
  ASSUME NEW now, WorldSound(issues, comments, history, now), NEW n, NEW c, Post(n, c),
         UNCHANGED <<issues, history>>,
         n \in Issues /\ ByTrusted(c) => RejectionFits(c, issues[n], history[n], now)
  PROVE  Onwards(now)
<1>1. DOMAIN issues = Issues /\ DOMAIN comments = Issues /\ DOMAIN history = Issues BY DEF WorldSound
<1>2. comments' = [comments EXCEPT ![n] = Append(comments[n], c)] BY DEF Post
<1>3. \A k \in Issues \ {n} : issues'[k] = issues[k] /\ comments'[k] = comments[k] /\ history'[k] = history[k]
  BY <1>1, <1>2
<1>4. ASSUME n \in Issues
      PROVE  /\ IssueSound(issues'[n], comments'[n], history'[n], now)
             /\ Grown(issues[n], comments[n], history[n], issues'[n], comments'[n], history'[n])
  <2>1. comments'[n] = Append(comments[n], c) /\ issues'[n] = issues[n] /\ history'[n] = history[n]
    BY <1>1, <1>2, <1>4
  <2>2. IssueSound(issues[n], comments[n], history[n], now) BY <1>4 DEF WorldSound
  <2> QED BY <2>1, <2>2, <1>4, SoundCommented
<1>5. DOMAIN comments' = Issues BY <1>1, <1>2
<1> QED BY <1>1, <1>3, <1>4, <1>5, OneChanges

LEMMA OpenOnwards ==
  ASSUME NEW now, WorldSound(issues, comments, history, now), NEW n, Close(n) \/ Reopen(n)
  PROVE  Onwards(now)
<1>1. DOMAIN issues = Issues /\ DOMAIN comments = Issues /\ DOMAIN history = Issues BY DEF WorldSound
<1>2. PICK v : issues' = [issues EXCEPT ![n] = [issues[n] EXCEPT !.open = v]] BY DEF Close, Reopen
<1>3. comments' = comments /\ history' = history BY DEF Close, Reopen
<1>4. ASSUME n \in Issues
      PROVE  /\ IssueSound(issues'[n], comments'[n], history'[n], now)
             /\ Grown(issues[n], comments[n], history[n], issues'[n], comments'[n], history'[n])
  <2>1. issues'[n] = [issues[n] EXCEPT !.open = v] BY <1>1, <1>2, <1>4
  <2>2. IssueSound(issues[n], comments[n], history[n], now) BY <1>4 DEF WorldSound
  <2>3. {"version", "created"} \subseteq DOMAIN issues[n] BY <2>2 DEF IssueSound
  <2>4. DOMAIN issues'[n] = DOMAIN issues[n] /\ issues'[n].version = issues[n].version /\ issues'[n].created = issues[n].created
    BY <2>1, <2>3
  <2> QED BY <1>3, <2>2, <2>4, SoundRelabelled
<1>5. \A k \in Issues \ {n} : issues'[k] = issues[k] BY <1>1, <1>2
<1>6. DOMAIN issues' = Issues BY <1>1, <1>2
<1> QED BY <1>1, <1>3, <1>4, <1>5, <1>6, OneChanges

LEMMA LabelOnwards ==
  ASSUME NEW now, WorldSound(issues, comments, history, now), NEW n, NEW label, NEW on, NEW at, Label(n, label, on, at)
  PROVE  Onwards(now)
<1>1. DOMAIN issues = Issues /\ DOMAIN comments = Issues /\ DOMAIN history = Issues BY DEF WorldSound
<1>2. PICK v : issues' = [issues EXCEPT ![n] = [issues[n] EXCEPT !.labels = v]] BY DEF Label
<1>3. comments' = comments BY DEF Label
<1>4. history' = history \/ \E w : history' = [history EXCEPT ![n] = [history[n] EXCEPT !.ready = w]] BY DEF Label
<1>5. ASSUME n \in Issues
      PROVE  /\ IssueSound(issues'[n], comments'[n], history'[n], now)
             /\ Grown(issues[n], comments[n], history[n], issues'[n], comments'[n], history'[n])
  <2>1. issues'[n] = [issues[n] EXCEPT !.labels = v] BY <1>1, <1>2, <1>5
  <2>2. IssueSound(issues[n], comments[n], history[n], now) BY <1>5 DEF WorldSound
  <2>3. {"version", "created"} \subseteq DOMAIN issues[n] /\ DOMAIN history[n] = {"renamed", "ready", "edited", "editors"}
    BY <2>2 DEF IssueSound
  <2>4. DOMAIN issues'[n] = DOMAIN issues[n] /\ issues'[n].version = issues[n].version /\ issues'[n].created = issues[n].created
    BY <2>1, <2>3
  <2>5. history'[n] = history[n] \/ \E w : history'[n] = [history[n] EXCEPT !.ready = w] BY <1>1, <1>4, <1>5
  <2>6. /\ DOMAIN history'[n] = DOMAIN history[n]
        /\ history'[n].renamed = history[n].renamed /\ history'[n].edited = history[n].edited
    BY <2>3, <2>5
  <2> QED BY <1>3, <2>2, <2>4, <2>6, SoundRelabelled
<1>6. \A k \in Issues \ {n} : issues'[k] = issues[k] /\ history'[k] = history[k] BY <1>1, <1>2, <1>4
<1>7. DOMAIN issues' = Issues /\ DOMAIN history' = Issues BY <1>1, <1>2, <1>4
<1> QED BY <1>1, <1>3, <1>5, <1>6, <1>7, OneChanges

LEMMA EditOnwards ==
  ASSUME NEW now, WorldSound(issues, comments, history, now), NEW n, NEW text, NEW who, Edit(n, text, who, now),
         "created" \notin DOMAIN text
  PROVE  Onwards(now)
<1>1. DOMAIN issues = Issues /\ DOMAIN comments = Issues /\ DOMAIN history = Issues /\ now \in Nat BY DEF WorldSound
<1> DEFINE edited == [field \in DOMAIN issues[n] |->
                        IF field = "version" THEN issues[n].version + 1
                        ELSE IF field \in DOMAIN text THEN text[field] ELSE issues[n][field]]
           past == [history[n] EXCEPT !.edited = @ \union {now}, !.editors = @ \union {who}]
           past2 == [history[n] EXCEPT !.renamed = @ \union {now}]
<1>2. issues' = [issues EXCEPT ![n] = edited] BY DEF Edit
<1>3. comments' = comments BY DEF Edit
<1>4. history' = [history EXCEPT ![n] = past] \/ history' = [history EXCEPT ![n] = past2] BY DEF Edit
<1>5. ASSUME n \in Issues
      PROVE  /\ IssueSound(issues'[n], comments'[n], history'[n], now)
             /\ Grown(issues[n], comments[n], history[n], issues'[n], comments'[n], history'[n])
  <2>1. issues'[n] = edited BY <1>1, <1>2, <1>5
  <2>2. IssueSound(issues[n], comments[n], history[n], now) BY <1>5 DEF WorldSound
  <2>3. {"version", "created"} \subseteq DOMAIN issues[n] /\ DOMAIN history[n] = {"renamed", "ready", "edited", "editors"}
    BY <2>2 DEF IssueSound
  <2>4. DOMAIN edited = DOMAIN issues[n] /\ edited.version = issues[n].version + 1 /\ edited.created = issues[n].created
    BY <2>3
  <2>5. history'[n] = past \/ history'[n] = past2 BY <1>1, <1>4, <1>5
  <2>6. /\ DOMAIN past = DOMAIN history[n] /\ past.renamed = history[n].renamed
        /\ past.edited = history[n].edited \union {now}
    BY <2>3
  <2>7. /\ DOMAIN past2 = DOMAIN history[n] /\ past2.edited = history[n].edited
        /\ past2.renamed = history[n].renamed \union {now}
    BY <2>3
  <2> HIDE DEF edited, past, past2
  <2>8. DOMAIN history'[n] = DOMAIN history[n] BY <2>5, <2>6, <2>7
  <2>9. \/ history'[n].renamed = history[n].renamed \union {now} /\ history'[n].edited = history[n].edited
        \/ history'[n].renamed = history[n].renamed /\ history'[n].edited = history[n].edited \union {now}
    BY <2>5, <2>6, <2>7
  <2> QED BY <1>1, <1>3, <2>1, <2>2, <2>4, <2>8, <2>9, SoundEdited
<1> HIDE DEF edited, past, past2
<1>6. \A k \in Issues \ {n} : issues'[k] = issues[k] /\ history'[k] = history[k] BY <1>1, <1>2, <1>4
<1>7. DOMAIN issues' = Issues /\ DOMAIN history' = Issues BY <1>1, <1>2, <1>4
<1> QED BY <1>1, <1>3, <1>5, <1>6, <1>7, OneChanges

LEMMA RejectionOnwards ==
  ASSUME NEW now, WorldSound(issues, comments, history, now), NEW n, NEW outcome, Rejection(n, outcome, now)
  PROVE  Onwards(now)
<1>1. PICK late \in {0, 1} :
        /\ late <= issues[n].version
        /\ Post(n, [kind |-> "rejection", author |-> Me, at |-> now, outcome |-> outcome,
                    markers |-> {outcome} \intersect VerdictMarkers, version |-> issues[n].version - late])
  BY DEF Rejection
<1> DEFINE c == [kind |-> "rejection", author |-> Me, at |-> now, outcome |-> outcome,
                 markers |-> {outcome} \intersect VerdictMarkers, version |-> issues[n].version - late]
<1>2. c.at = now /\ c.version = issues[n].version - late OBVIOUS
<1>3. Post(n, c) BY <1>1
<1> HIDE DEF c
<1>4. ASSUME n \in Issues PROVE RejectionFits(c, issues[n], history[n], now)
  <2>1. IssueSound(issues[n], comments[n], history[n], now) /\ now \in Nat BY <1>4 DEF WorldSound
  <2>2. issues[n].version \in Nat /\ EditTimes(issues[n], history[n]) \subseteq 0..now BY <2>1 DEF IssueSound
  <2>3. c.version \in 0..issues[n].version /\ c.at \in 0..now BY <1>1, <1>2, <2>1, <2>2
  <2>4. \A t \in EditTimes(issues[n], history[n]) : t <= c.at BY <1>2, <2>1, <2>2
  <2> QED BY <2>3, <2>4 DEF RejectionFits
<1>5. UNCHANGED <<issues, history>> BY DEF Rejection
<1> QED BY <1>3, <1>4, <1>5, PostOnwards

LEMMA CommentOnwards ==
  ASSUME NEW now, WorldSound(issues, comments, history, now), NEW n, NEW kind, kind # "rejection",
         NEW who, NEW at, Comment(n, kind, who, at)
  PROVE  Onwards(now)
<1> DEFINE c == [kind |-> kind, author |-> who, at |-> at]
<1>1. ~ ByTrusted(c) BY DEF ByTrusted
<1>2. Post(n, c) /\ UNCHANGED <<issues, history>> BY DEF Comment
<1> HIDE DEF c
<1> QED BY <1>1, <1>2, PostOnwards

LEMMA IdleOnwards ==
  ASSUME NEW now, WorldSound(issues, comments, history, now), UNCHANGED <<issues, comments, history>>
  PROVE  Onwards(now)
<1>1. \A n \in Issues : Grown(issues[n], comments[n], history[n], issues'[n], comments'[n], history'[n])
  <2> SUFFICES ASSUME NEW n \in Issues
               PROVE  Grown(issues[n], comments[n], history[n], issues[n], comments[n], history[n])
    OBVIOUS
  <2>1. issues[n].version \in Nat BY DEF WorldSound, IssueSound
  <2> QED BY <2>1, GrownNot
<1> QED BY <1>1 DEF Onwards

LEMMA MoveIInv == IInv /\ Move => IInv'
<1> SUFFICES ASSUME IInv, Move PROVE IInv' OBVIOUS
<1>0. PICK move \in moves :
        \E pause \in move.after : Do(move, clock + pause) /\ clock' = clock + pause /\ moves' = moves \ {move}
  BY DEF Move
<1>1. PICK pause \in move.after : Do(move, clock + pause) /\ clock' = clock + pause /\ moves' = moves \ {move}
  BY <1>0
<1>2. move.after \subseteq Nat /\ (move.do = "edit" => "created" \notin DOMAIN move.text)
  BY <1>1 DEF IInv, MovesSound
<1>3. clock \in Nat /\ clock' \in Nat /\ clock <= clock' BY <1>1, <1>2 DEF IInv, WorldSound
<1>4. WorldSound(issues, comments, history, clock')
  <2>1. \A n \in Issues : IssueSound(issues[n], comments[n], history[n], clock')
    BY <1>3, SoundLater DEF IInv, WorldSound
  <2> QED BY <1>3, <2>1 DEF IInv, WorldSound
<1>5. Do(move, clock') BY <1>1
<1>6. Onwards(clock')
  <2>1. CASE move.do = "close" BY <2>1, <1>4, <1>5, OpenOnwards DEF Do
  <2>2. CASE move.do = "reopen" BY <2>2, <1>4, <1>5, OpenOnwards DEF Do
  <2>3. CASE move.do = "label" BY <2>3, <1>4, <1>5, LabelOnwards DEF Do
  <2>4. CASE move.do = "unlabel" BY <2>4, <1>4, <1>5, LabelOnwards DEF Do
  <2>5. CASE move.do = "edit"
    <3>1. Edit(move.n, move.text, move.who, clock') BY <2>5, <1>5 DEF Do
    <3> QED BY <2>5, <1>2, <1>4, <3>1, EditOnwards
  <2>6. CASE move.do = "ready"
    <3>1. Comment(move.n, "ready", move.who, clock') BY <2>6, <1>5 DEF Do
    <3> QED BY <1>4, <3>1, CommentOnwards
  <2>7. CASE move.do = "plan"
    <3>1. Comment(move.n, "plan", move.who, clock') BY <2>7, <1>5 DEF Do
    <3> QED BY <1>4, <3>1, CommentOnwards
  <2>8. CASE move.do = "claim"
    <3>1. Comment(move.n, "claim", "another session", clock') BY <2>8, <1>5 DEF Do
    <3> QED BY <1>4, <3>1, CommentOnwards
  <2>9. CASE move.do = "reject"
    <3>1. Rejection(move.n, move.outcome, clock') BY <2>9, <1>5 DEF Do
    <3> QED BY <1>4, <3>1, RejectionOnwards
  <2>10. CASE move.do = "merge"
    <3>1. UNCHANGED <<issues, comments, history>> BY <2>10, <1>5 DEF Do, Merge
    <3> QED BY <1>4, <3>1, IdleOnwards
  <2>11. CASE move.do = "wait"
    <3>1. UNCHANGED <<issues, comments, history>> BY <2>11, <1>5 DEF Do
    <3> QED BY <1>4, <3>1, IdleOnwards
  <2> QED BY <1>5, <2>1, <2>2, <2>3, <2>4, <2>5, <2>6, <2>7, <2>8, <2>9, <2>10, <2>11 DEF Do
<1>7. s' = s BY DEF Move
<1>8. TriageSound(s, issues', comments', history') BY <1>6, GrownTriage DEF IInv, Onwards
<1>9. MovesSound(moves') BY <1>1 DEF IInv, MovesSound
<1> QED BY <1>6, <1>7, <1>8, <1>9 DEF IInv, Onwards

-----------------------------------------------------------------------------
(* What the session does before the triage, and how it comes to it.        *)

LEMMA QuietIInv ==
  ASSUME IInv, UNCHANGED <<issues, comments, history, clock, moves>>, DOMAIN s' = SessionFields,
         TriageSound(s', issues, comments, history)
  PROVE  IInv'
BY DEF IInv

\* A step that posts, on the issues as they were before it.
LEMMA PostIInv ==
  ASSUME IInv, Onwards(clock), UNCHANGED <<clock, moves>>, DOMAIN s' = SessionFields,
         TriageSound(s', issues, comments, history)
  PROVE  IInv'
<1>1. TriageSound(s', issues', comments', history') BY GrownTriage DEF Onwards
<1>2. WorldSound(issues', comments', history', clock') BY DEF Onwards
<1> QED BY <1>1, <1>2 DEF IInv

LEMMA ForgettingFields ==
  ASSUME NEW t, DOMAIN t = SessionFields
  PROVE  /\ DOMAIN Forgetting(t) = SessionFields
         /\ Forgetting(t).phase = t.phase /\ Forgetting(t).notes = NoNotes /\ Forgetting(t).stage = "begin"
BY DEF Forgetting, SessionFields

LEMMA OverFields ==
  ASSUME NEW t, DOMAIN t = SessionFields
  PROVE  DOMAIN Over(t) = SessionFields /\ Over(t).phase = "over"
<1> DEFINE u == Forgetting(t)
<1>1. DOMAIN u = SessionFields BY ForgettingFields
<1>2. Over(t) = [u EXCEPT !.phase = "over", !.queue = <<>>, !.kept = <<>>, !.todo = <<>>,
                   !.leaves = NoReading, !.listed = {}, !.roots = {}, !.root = NoIssue]
  BY DEF Over
<1> HIDE DEF u
<1> QED BY <1>1, <1>2 DEF SessionFields

\* A triage begins with nothing read.
LEMMA FreshTriage ==
  ASSUME NEW t, t.notes = NoNotes, t.stage = "begin", t.todo = <<"issue", "titles", "comments">>,
         NEW all, NEW logs, NEW pasts
  PROVE  TriageSound(t, all, logs, pasts)
<1>1. DOMAIN t.notes = NoteFields BY DEF NoNotes, NoteFields
<1>2. t.todo \in Seq(PartsAt("begin")) /\ Len(t.todo) = 3 /\ t.todo[1] = "issue"
  <2>1. t.todo \in Seq({"issue", "titles", "comments"}) OBVIOUS
  <2> QED BY <2>1 DEF PartsAt
<1>3. "issue" \in Elements(t.todo) BY <1>2 DEF Elements
<1>4. t.notes.issue = NoReading BY DEF NoNotes
<1>5. ASSUME NEW n PROVE ReadEarlier(t.notes, all[n], logs[n], pasts[n])
  <2>1. t.notes.log = <<>> BY DEF NoNotes, NoComments
  <2>2. t.notes.timeline.known = FALSE /\ t.notes.edits.known = FALSE BY DEF NoNotes, NoTimeline, NoEdits
  <2> QED BY <1>4, <2>1, <2>2 DEF ReadEarlier
<1>6. t.stage \in Stages /\ t.stage \notin {"evidence", "verdict"} BY DEF Stages
<1> QED BY <1>1, <1>2, <1>3, <1>4, <1>5, <1>6 DEF TriageSound

LEMMA EnterSound ==
  ASSUME NEW t, DOMAIN t = SessionFields, NEW phase, NEW queue, NEW all, NEW logs, NEW pasts
  PROVE  DOMAIN Enter(t, phase, queue) = SessionFields /\ TriageSound(Enter(t, phase, queue), all, logs, pasts)
<1> DEFINE u == Forgetting(t)
           e == [u EXCEPT !.phase = phase, !.queue = queue, !.kept = <<>>, !.todo = ToRead[phase]]
<1>1. DOMAIN u = SessionFields /\ u.notes = NoNotes /\ u.stage = "begin" BY ForgettingFields
<1>2. CASE queue = <<>>
  <2>1. Enter(t, phase, queue) = Over(t) BY <1>2 DEF Enter
  <2> QED BY <2>1, OverFields DEF TriageSound
<1>3. CASE queue # <<>>
  <2>1. Enter(t, phase, queue) = e BY <1>3 DEF Enter
  <2> HIDE DEF u
  <2>2. /\ DOMAIN e = SessionFields /\ e.phase = phase /\ e.todo = ToRead[phase]
        /\ e.notes = NoNotes /\ e.stage = "begin"
    BY <1>1 DEF SessionFields
  <2>3. ToRead["triage"] = <<"issue", "titles", "comments">> BY DEF ToRead
  <2> HIDE DEF e
  <2>4. CASE phase = "triage" BY <2>1, <2>2, <2>3, <2>4, FreshTriage
  <2>5. CASE phase # "triage" BY <2>1, <2>2, <2>5 DEF TriageSound
  <2> QED BY <2>1, <2>2, <2>4, <2>5
<1> QED BY <1>2, <1>3

\* Outside the triage there is nothing to keep.
LEMMA ElsewhereSound ==
  ASSUME NEW t, t.phase # "triage", NEW all, NEW logs, NEW pasts
  PROVE  TriageSound(t, all, logs, pasts)
BY DEF TriageSound

LEMMA TroubleSound ==
  ASSUME DOMAIN s = SessionFields
  PROVE  DOMAIN InTrouble = SessionFields /\ InTrouble.phase = "over"
<1> DEFINE o == Over(s)
<1>1. DOMAIN o = SessionFields /\ o.phase = "over" BY OverFields
<1>2. InTrouble = [o EXCEPT !.trouble = TRUE] BY DEF InTrouble
<1> HIDE DEF o
<1> QED BY <1>1, <1>2 DEF SessionFields

LEMMA NextRootSound ==
  ASSUME IInv, NEW roots, NEW leaves
  PROVE  /\ DOMAIN NextRoot(roots, leaves) = SessionFields
         /\ TriageSound(NextRoot(roots, leaves), issues, comments, history)
<1> DEFINE f == Forgetting(s)
           e == Enter(s, "readiness", InOrder(leaves))
           r == NextRoot(roots, leaves)
<1>1. DOMAIN s = SessionFields BY DEF IInv
<1>2. CASE roots # {}
  <2>1. r = [s EXCEPT !.phase = "load", !.roots = roots, !.root = Min(roots), !.frontier = {Min(roots)},
                      !.seen = NoReading, !.leaves = leaves]
    BY <1>2 DEF NextRoot
  <2> HIDE DEF r
  <2>2. DOMAIN r = SessionFields /\ r.phase = "load" BY <1>1, <2>1 DEF SessionFields
  <2> QED BY <2>2, ElsewhereSound DEF r
<1>3. CASE roots = {} /\ DOMAIN leaves = {}
  <2>1. r = [f EXCEPT !.phase = "listing", !.leaves = leaves] BY <1>3 DEF NextRoot
  <2>2. DOMAIN f = SessionFields BY <1>1, ForgettingFields
  <2> HIDE DEF r, f
  <2>3. DOMAIN r = SessionFields /\ r.phase = "listing" BY <2>1, <2>2 DEF SessionFields
  <2> QED BY <2>3, ElsewhereSound DEF r
<1>4. CASE roots = {} /\ DOMAIN leaves # {}
  <2>1. r = [e EXCEPT !.leaves = leaves] BY <1>4 DEF NextRoot
  <2>2. DOMAIN e = SessionFields BY <1>1, EnterSound
  <2>3. e.phase \in {"over", "readiness"} BY <1>1, OverFields, ForgettingFields DEF Enter, SessionFields
  <2> HIDE DEF r, e
  <2>4. DOMAIN r = SessionFields /\ r.phase = e.phase BY <2>1, <2>2 DEF SessionFields
  <2> QED BY <2>3, <2>4, ElsewhereSound DEF r
<1> QED BY <1>2, <1>3, <1>4

\* A step without a trace outside the session, at the end of which there is no triage.
LEMMA SilentElsewhere ==
  ASSUME IInv, Silently, DOMAIN s' = SessionFields, s'.phase # "triage"
  PROVE  IInv'
<1>1. UNCHANGED <<issues, comments, history, clock, moves>> BY DEF Silently, Quietly, world
<1> QED BY <1>1, QuietIInv, ElsewhereSound

LEMMA SilentSound ==
  ASSUME IInv, Silently, DOMAIN s' = SessionFields, TriageSound(s', issues, comments, history)
  PROVE  IInv'
<1>1. UNCHANGED <<issues, comments, history, clock, moves>> BY DEF Silently, Quietly, world
<1> QED BY <1>1, QuietIInv

LEMMA EnumerationIInv ==
  ASSUME IInv, SearchByLabel \/ SearchByMarker \/ (\E n \in Numbers : Load(n)) \/ Advance \/ FinishRoot
  PROVE  IInv'
<1>1. DOMAIN s = SessionFields BY DEF IInv
<1>2. CASE SearchByLabel
  <2>1. Silently BY <1>2 DEF SearchByLabel
  <2>2. DOMAIN s' = SessionFields /\ s'.phase = "marked" BY <1>1, <1>2 DEF SearchByLabel, SessionFields
  <2> QED BY <2>1, <2>2, SilentElsewhere
<1>3. CASE SearchByMarker
  <2>1. PICK roots, leaves : s' = NextRoot(roots, leaves) BY <1>3 DEF SearchByMarker
  <2>2. Silently BY <1>3 DEF SearchByMarker
  <2> QED BY <2>1, <2>2, NextRootSound, SilentSound
<1>4. ASSUME NEW n \in Numbers, Load(n) PROVE IInv'
  <2>1. PICK seen : s' = [s EXCEPT !.seen = seen] BY <1>4 DEF Load
  <2>2. Silently /\ s.phase = "load" BY <1>4 DEF Load
  <2>3. DOMAIN s' = SessionFields /\ s'.phase = "load" BY <1>1, <2>1, <2>2 DEF SessionFields
  <2> QED BY <2>2, <2>3, SilentElsewhere
<1>5. CASE Advance
  <2>1. PICK frontier : s' = [s EXCEPT !.frontier = frontier] BY <1>5 DEF Advance
  <2>2. Silently /\ s.phase = "load" BY <1>5 DEF Advance
  <2>3. DOMAIN s' = SessionFields /\ s'.phase = "load" BY <1>1, <2>1, <2>2 DEF SessionFields
  <2> QED BY <2>2, <2>3, SilentElsewhere
<1>6. CASE FinishRoot
  <2>1. PICK roots, leaves : s' = NextRoot(roots, leaves) BY <1>6 DEF FinishRoot
  <2>2. Silently BY <1>6 DEF FinishRoot
  <2> QED BY <2>1, <2>2, NextRootSound, SilentSound
<1> QED BY <1>2, <1>3, <1>4, <1>5, <1>6

\* The candidate is kept for the next part or not: it may be the triage.
LEMMA DecideIInv ==
  ASSUME IInv, NEW keep, Decide(keep), Silently, s.phase # "triage"
  PROVE  IInv'
<1> DEFINE f == Forgetting(s)
<1>1. DOMAIN s = SessionFields BY DEF IInv
<1>2. \/ \E queue, kept : s' = [s EXCEPT !.queue = queue, !.kept = kept, !.todo = ToRead[s.phase],
                                         !.notes = NoNotes, !.stage = "begin"]
      \/ s' = [f EXCEPT !.phase = "listing", !.queue = <<>>]
      \/ \E next, queue : s' = Enter(s, next, queue)
  BY DEF Decide
<1>3. ASSUME NEW queue, NEW kept,
             s' = [s EXCEPT !.queue = queue, !.kept = kept, !.todo = ToRead[s.phase],
                            !.notes = NoNotes, !.stage = "begin"]
      PROVE  IInv'
  <2>1. DOMAIN s' = SessionFields /\ s'.phase = s.phase BY <1>1, <1>3 DEF SessionFields
  <2> QED BY <2>1, SilentElsewhere
<1>4. CASE s' = [f EXCEPT !.phase = "listing", !.queue = <<>>]
  <2>1. DOMAIN f = SessionFields BY <1>1, ForgettingFields
  <2> HIDE DEF f
  <2>2. DOMAIN s' = SessionFields /\ s'.phase = "listing" BY <1>4, <2>1 DEF SessionFields
  <2> QED BY <2>2, SilentElsewhere
<1>5. ASSUME NEW next, NEW queue, s' = Enter(s, next, queue) PROVE IInv'
  <2>1. DOMAIN s' = SessionFields /\ TriageSound(s', issues, comments, history) BY <1>1, <1>5, EnterSound
  <2> QED BY <2>1, SilentSound
<1> QED BY <1>2, <1>3, <1>4, <1>5

LEMMA AskIInv ==
  ASSUME IInv, AskForVerdict, Silently, s.phase # "triage"
  PROVE  IInv'
<1>1. DOMAIN s = SessionFields BY DEF IInv
<1>2. PICK todo, stage : s' = [s EXCEPT !.todo = todo, !.stage = stage] BY DEF AskForVerdict
<1>3. DOMAIN s' = SessionFields /\ s'.phase = s.phase BY <1>1, <1>2 DEF SessionFields
<1> QED BY <1>3, SilentElsewhere

LEMMA ReadinessIInv ==
  ASSUME IInv, ReadReference \/ FindRoadmaps \/ JudgeReadiness
  PROVE  IInv'
<1>1. DOMAIN s = SessionFields BY DEF IInv
<1>2. CASE ReadReference
  <2>1. PICK seen : s' = [s EXCEPT !.seen = seen] BY <1>2 DEF ReadReference
  <2>2. Silently /\ s.phase = "readiness" BY <1>2 DEF ReadReference
  <2>3. DOMAIN s' = SessionFields /\ s'.phase = "readiness" BY <1>1, <2>1, <2>2 DEF SessionFields
  <2> QED BY <2>2, <2>3, SilentElsewhere
<1>3. CASE FindRoadmaps
  <2>1. PICK found : s' = [s EXCEPT !.found = found] BY <1>3 DEF FindRoadmaps
  <2>2. Silently /\ s.phase = "readiness" BY <1>3 DEF FindRoadmaps
  <2>3. DOMAIN s' = SessionFields /\ s'.phase = "readiness" BY <1>1, <2>1, <2>2 DEF SessionFields
  <2> QED BY <2>2, <2>3, SilentElsewhere
<1>4. CASE JudgeReadiness
  <2>1. Silently /\ s.phase = "readiness" BY <1>4 DEF JudgeReadiness
  <2>2. AskForVerdict \/ \E keep : Decide(keep) BY <1>4 DEF JudgeReadiness
  <2> QED BY <2>1, <2>2, AskIInv, DecideIInv
<1> QED BY <1>2, <1>3, <1>4

LEMMA OrphansIInv ==
  ASSUME IInv, ListOpenIssues \/ FetchIssueState \/ ClassifyOrphan
  PROVE  IInv'
<1>1. DOMAIN s = SessionFields BY DEF IInv
<1>2. CASE ListOpenIssues
  <2>1. Silently BY <1>2 DEF ListOpenIssues
  <2>2. CASE s' = Over(s) BY <1>1, <2>1, <2>2, OverFields, SilentElsewhere
  <2>3. ASSUME s' # Over(s) PROVE IInv'
    <3>1. PICK queue, seen, leaves :
            s' = [Enter(s, "orphans", queue) EXCEPT !.listed = OpenNow, !.seen = seen, !.leaves = leaves]
      BY <1>2, <2>3 DEF ListOpenIssues
    <3> DEFINE e == Enter(s, "orphans", queue)
    <3>2. DOMAIN e = SessionFields BY <1>1, EnterSound
    <3>3. e.phase \in {"over", "orphans"} BY <1>1, OverFields, ForgettingFields DEF Enter, SessionFields
    <3>4. s' = [e EXCEPT !.listed = OpenNow, !.seen = seen, !.leaves = leaves] BY <3>1
    <3> HIDE DEF e
    <3>5. DOMAIN s' = SessionFields /\ s'.phase = e.phase BY <3>2, <3>4 DEF SessionFields
    <3> QED BY <2>1, <3>3, <3>5, SilentElsewhere
  <2> QED BY <2>2, <2>3
<1>3. CASE FetchIssueState
  <2>1. PICK seen : s' = [s EXCEPT !.seen = seen] BY <1>3 DEF FetchIssueState
  <2>2. Silently /\ s.phase = "orphans" BY <1>3 DEF FetchIssueState
  <2>3. DOMAIN s' = SessionFields /\ s'.phase = "orphans" BY <1>1, <2>1, <2>2 DEF SessionFields
  <2> QED BY <2>2, <2>3, SilentElsewhere
<1>4. CASE ClassifyOrphan
  <2>1. Silently /\ s.phase = "orphans" BY <1>4 DEF ClassifyOrphan
  <2>2. \/ AskForVerdict \/ \E keep : Decide(keep)
        \/ \E issue, todo : s' = [s EXCEPT !.notes.issue = issue, !.todo = todo]
    BY <1>4 DEF ClassifyOrphan
  <2>3. ASSUME NEW issue, NEW todo, s' = [s EXCEPT !.notes.issue = issue, !.todo = todo] PROVE IInv'
    <3>1. DOMAIN s' = SessionFields /\ s'.phase = "orphans" BY <1>1, <2>1, <2>3 DEF SessionFields
    <3> QED BY <2>1, <3>1, SilentElsewhere
  <2> QED BY <2>1, <2>2, <2>3, AskIInv, DecideIInv
<1> QED BY <1>2, <1>3, <1>4

LEMMA GatesIInv ==
  ASSUME IInv, JudgeApproval \/ JudgeViability \/ JudgeClaims
  PROVE  IInv'
<1>1. DOMAIN s = SessionFields BY DEF IInv
<1>2. CASE JudgeApproval
  <2>1. Silently /\ s.phase = "approval" /\ \E keep : Decide(keep) BY <1>2 DEF JudgeApproval
  <2> QED BY <2>1, DecideIInv
<1>3. CASE JudgeViability
  <2>1. Silently /\ s.phase = "viability" BY <1>3 DEF JudgeViability
  <2>2. \/ \E stage, todo : s' = [s EXCEPT !.stage = stage, !.todo = todo]
        \/ \E keep : Decide(keep)
    BY <1>3 DEF JudgeViability
  <2>3. ASSUME NEW stage, NEW todo, s' = [s EXCEPT !.stage = stage, !.todo = todo] PROVE IInv'
    <3>1. DOMAIN s' = SessionFields /\ s'.phase = "viability" BY <1>1, <2>1, <2>3 DEF SessionFields
    <3> QED BY <2>1, <3>1, SilentElsewhere
  <2> QED BY <2>1, <2>2, <2>3, DecideIInv
<1>4. CASE JudgeClaims
  <2>1. Silently /\ s.phase = "claims" /\ \E keep : Decide(keep) BY <1>4 DEF JudgeClaims
  <2> QED BY <2>1, DecideIInv
<1> QED BY <1>2, <1>3, <1>4

-----------------------------------------------------------------------------
(* The triage.                                                             *)

\* The rejection that is found is the latest of all (findTrustedSuitabilityRejection).
LEMMA LatestRejection ==
  ASSUME NEW S, NEW log \in Seq(S), NEW now \in Nat,
         \A c \in Elements(log) : ByTrusted(c) => c.at \in 0..now
  PROVE  \/ /\ TrustedRejection(log, Trusted) = NoRejection
            /\ \A c \in Elements(log) : ~ ByTrusted(c)
         \/ /\ TrustedRejection(log, Trusted).kind = "rejection"
            /\ TrustedRejection(log, Trusted).at \in 0..now
            /\ \A c \in Elements(log) : ByTrusted(c) => c.at <= TrustedRejection(log, Trusted).at
<1> DEFINE mine == {i \in DOMAIN log : log[i].kind = "rejection" /\ log[i].author \in Trusted}
           times == {log[i].at : i \in mine}
           latest == Max(times)
           last == {i \in mine : log[i].at = latest}
<1>1. DOMAIN log = 1..Len(log) /\ Len(log) \in Nat OBVIOUS
<1>2. \A i \in mine : log[i] \in Elements(log) /\ ByTrusted(log[i]) BY DEF Elements, ByTrusted
<1>3. \A c \in Elements(log) : ByTrusted(c) => \E i \in mine : c = log[i] BY DEF Elements, ByTrusted
<1>4. TrustedRejection(log, Trusted) = IF mine = {} THEN NoRejection ELSE log[Min(last)]
  BY DEF TrustedRejection
<1>5. times \subseteq 0..now BY <1>2
<1>6. mine \subseteq Nat BY <1>1
<1>7. last \subseteq mine OBVIOUS
<1>8. \A i \in last : log[i].kind = "rejection" /\ log[i].at = latest OBVIOUS
<1>9. CASE mine = {} BY <1>3, <1>4, <1>9
<1>10. CASE mine # {}
  <2>1. times # {} BY <1>10
  <2>2. \A i \in mine : log[i].at \in times OBVIOUS
  <2>3. latest \in times => last # {} OBVIOUS
  <2> HIDE DEF mine, times, last
  <2>4. latest \in times /\ \A y \in times : y <= latest BY <1>5, <2>1, MaxIsGreatest
  <2> HIDE DEF latest
  <2>5. Min(last) \in last BY <1>6, <1>7, <2>3, <2>4, MinIsLeast
  <2>6. TrustedRejection(log, Trusted) = log[Min(last)] BY <1>4, <1>10
  <2>7. \A c \in Elements(log) : ByTrusted(c) => c.at <= latest BY <1>3, <2>2, <2>4
  <2>8. latest \in 0..now BY <1>5, <2>4
  <2> QED BY <1>8, <2>5, <2>6, <2>7, <2>8
<1> QED BY <1>9, <1>10

\* A pre-check that lets the issue through has found every rejection older than an edit.
LEMMA ThroughPrecheck ==
  ASSUME IInv, s.phase = "triage", s.queue[1] \in Issues, s.notes.issue # NoReading,
         NotesRejection = NoRejection \/ (Known /\ ~ Standing)
  PROVE  Outlived(s.notes, issues[s.queue[1]], history[s.queue[1]])
<1> DEFINE n == s.queue[1]
           times == {s.notes.issue.created} \union s.notes.timeline.renamed \union s.notes.edits.at
<1>1. ReadEarlier(s.notes, issues[n], comments[n], history[n]) BY DEF IInv, TriageSound
<1>2. IssueSound(issues[n], comments[n], history[n], clock) /\ clock \in Nat BY DEF IInv, WorldSound
<1>3. s.notes.log \in Seq(Elements(comments[n])) /\ Elements(s.notes.log) \subseteq Elements(comments[n])
  BY <1>1, ElementsOfSeq DEF ReadEarlier
<1>4. \A c \in Elements(s.notes.log) : ByTrusted(c) => c.at \in 0..clock
  BY <1>2, <1>3 DEF IssueSound, RejectionFits
<1>5. \/ NotesRejection = NoRejection /\ \A c \in Elements(s.notes.log) : ~ ByTrusted(c)
      \/ /\ NotesRejection.kind = "rejection" /\ NotesRejection.at \in 0..clock
         /\ \A c \in Elements(s.notes.log) : ByTrusted(c) => c.at <= NotesRejection.at
  BY <1>2, <1>3, <1>4, LatestRejection DEF NotesRejection
<1>6. CASE \A c \in Elements(s.notes.log) : ~ ByTrusted(c) BY <1>6 DEF Outlived
<1>7. CASE /\ NotesRejection.kind = "rejection" /\ NotesRejection.at \in 0..clock
           /\ \A c \in Elements(s.notes.log) : ByTrusted(c) => c.at <= NotesRejection.at
  <2>1. NotesRejection # NoRejection BY <1>7 DEF NoRejection
  <2>2. Known /\ ~ (NotesRejection.at >= NotesEdit(s.notes.issue)) BY <2>1 DEF Standing
  <2>3. s.notes.timeline.known /\ s.notes.edits.known BY <2>2 DEF Known
  <2>4. times \subseteq EditTimes(issues[n], history[n]) BY <1>1, <2>3 DEF ReadEarlier, EditTimes
  <2>5. times \subseteq 0..clock BY <1>2, <2>4 DEF IssueSound
  <2>6. NotesEdit(s.notes.issue) = Max(times) BY DEF NotesEdit, LatestIssueEdit
  <2>7. times # {} OBVIOUS
  <2> HIDE DEF times, n
  <2>8. Max(times) \in times BY <1>2, <2>5, <2>7, MaxIsGreatest
  <2> SUFFICES ASSUME NEW c \in Elements(s.notes.log), ByTrusted(c) PROVE c.at < Max(times)
    BY <2>4, <2>8 DEF Outlived, n
  <2>9. c.at \in Nat /\ Max(times) \in Nat
    <3>1. c.at \in 0..clock BY <1>4
    <3>2. Max(times) \in 0..clock BY <2>5, <2>8
    <3> QED BY <1>2, <3>1, <3>2
  <2>10. c.at <= NotesRejection.at /\ ~ (NotesRejection.at >= Max(times)) BY <1>7, <2>2, <2>6
  <2>11. NotesRejection.at \in Nat BY <1>2, <1>7
  <2> QED BY <2>9, <2>10, <2>11
<1> QED BY <1>5, <1>6, <1>7

LEMMA DropSound ==
  ASSUME IInv, Drop
  PROVE  DOMAIN s' = SessionFields /\ TriageSound(s', issues, comments, history)
<1>1. DOMAIN s = SessionFields BY DEF IInv
<1> QED BY <1>1, EnterSound DEF Drop

\* A candidate that could be read is one of the issues.
LEMMA ReadingOfIssue ==
  ASSUME NEW n, Reading(n).access = "ok"
  PROVE  n \in Issues /\ Reading(n) = issues[n]
<1>1. Missing.access = "missing" BY DEF Missing
<1> QED BY <1>1 DEF Reading

LEMMA PrecheckIInv == ASSUME IInv, Precheck PROVE IInv'
<1> DEFINE n == s.queue[1]
<1>1. Silently /\ s.phase = "triage" /\ s.todo = <<>> /\ s.stage \in {"begin", "history"} /\ s.notes.issue.access = "ok"
  BY DEF Precheck, Undecided
<1>2. DOMAIN s = SessionFields /\ TriageSound(s, issues, comments, history) BY DEF IInv
<1>3. Elements(s.todo) = {} BY <1>1 DEF Elements
<1>4. n \in Issues /\ s.notes.issue # NoReading
  <2>1. CASE s.stage = "begin"
    <3>1. s.notes.issue # NoReading BY <1>1, <1>2, <1>3, <2>1 DEF TriageSound
    <3> QED BY <1>1, <1>2, <2>1, <3>1 DEF TriageSound
  <2>2. CASE s.stage = "history" BY <1>1, <1>2, <2>2 DEF TriageSound
  <2> QED BY <1>1, <2>1, <2>2
<1>5. DOMAIN s.notes = NoteFields /\ ReadEarlier(s.notes, issues[n], comments[n], history[n])
  BY <1>1, <1>2, <1>4 DEF TriageSound
<1>6. ASSUME s' = [s EXCEPT !.stage = "history", !.todo = <<"timeline", "edits">>] PROVE IInv'
  <2>1. /\ DOMAIN s' = SessionFields /\ s'.phase = "triage" /\ s'.stage = "history" /\ s'.notes = s.notes
        /\ s'.queue = s.queue /\ s'.todo = <<"timeline", "edits">>
    BY <1>1, <1>2, <1>6 DEF SessionFields
  <2>2. s'.todo \in Seq(PartsAt("history"))
    <3>1. <<"timeline", "edits">> \in Seq({"timeline", "edits"}) OBVIOUS
    <3> QED BY <2>1, <3>1 DEF PartsAt
  <2>3. TriageSound(s', issues, comments, history) BY <1>4, <1>5, <2>1, <2>2 DEF TriageSound, Stages
  <2> QED BY <1>1, <2>1, <2>3, SilentSound
<1>7. ASSUME Drop PROVE IInv' BY <1>1, <1>7, DropSound, SilentSound
<1>8. ASSUME s' = InTrouble PROVE IInv' BY <1>1, <1>2, <1>8, TroubleSound, SilentElsewhere
<1>9. ASSUME NotesRejection = NoRejection \/ (Known /\ ~ Standing),
             NEW todo \in {<<"closedBy", "byBranch", "overlapping">>, <<>>},
             s' = [s EXCEPT !.stage = "evidence", !.todo = todo]
      PROVE  IInv'
  <2>1. /\ DOMAIN s' = SessionFields /\ s'.phase = "triage" /\ s'.stage = "evidence" /\ s'.notes = s.notes
        /\ s'.queue = s.queue /\ s'.todo = todo
    BY <1>1, <1>2, <1>9 DEF SessionFields
  <2>2. s'.todo \in Seq(PartsAt("evidence"))
    <3>1. /\ <<"closedBy", "byBranch", "overlapping">> \in Seq({"closedBy", "byBranch", "overlapping"})
          /\ <<>> \in Seq({"closedBy", "byBranch", "overlapping"})
      OBVIOUS
    <3> QED BY <1>9, <2>1, <3>1 DEF PartsAt
  <2>3. Outlived(s.notes, issues[n], history[n]) BY <1>1, <1>4, <1>9, ThroughPrecheck
  <2>4. TriageSound(s', issues, comments, history) BY <1>4, <1>5, <2>1, <2>2, <2>3 DEF TriageSound, Stages
  <2> QED BY <1>1, <2>1, <2>4, SilentSound
<1>10. \/ s' = [s EXCEPT !.stage = "history", !.todo = <<"timeline", "edits">>]
       \/ Drop \/ s' = InTrouble
       \/ /\ NotesRejection = NoRejection \/ (Known /\ ~ Standing)
          /\ s' = [s EXCEPT !.stage = "evidence",
                            !.todo = IF WorthCollecting(s.notes.issue)
                                     THEN <<"closedBy", "byBranch", "overlapping">> ELSE <<>>]
  BY DEF Precheck
<1> QED BY <1>6, <1>7, <1>8, <1>9, <1>10

LEMMA EditorsIInv == ASSUME IInv, AskForEditors PROVE IInv'
<1> DEFINE n == s.queue[1]
<1>1. Silently /\ s.phase = "triage" /\ s.stage = "evidence" BY DEF AskForEditors
<1>2. DOMAIN s = SessionFields /\ TriageSound(s, issues, comments, history) BY DEF IInv
<1>3. PICK todo \in {<<"editors">>, <<>>} : s' = [s EXCEPT !.stage = "verdict", !.todo = todo]
  BY DEF AskForEditors
<1>4. /\ DOMAIN s' = SessionFields /\ s'.phase = "triage" /\ s'.stage = "verdict" /\ s'.notes = s.notes
      /\ s'.queue = s.queue /\ s'.todo = todo
  BY <1>1, <1>2, <1>3 DEF SessionFields
<1>5. s'.todo \in Seq(PartsAt("verdict"))
  <2>1. <<"editors">> \in Seq({"editors"}) /\ <<>> \in Seq({"editors"}) OBVIOUS
  <2> QED BY <1>3, <1>4, <2>1 DEF PartsAt
<1>6. /\ DOMAIN s.notes = NoteFields /\ n \in Issues /\ s.notes.issue # NoReading
      /\ ReadEarlier(s.notes, issues[n], comments[n], history[n]) /\ Outlived(s.notes, issues[n], history[n])
  BY <1>1, <1>2 DEF TriageSound
<1>7. TriageSound(s', issues, comments, history) BY <1>4, <1>5, <1>6 DEF TriageSound, Stages
<1> QED BY <1>1, <1>4, <1>7, SilentSound

\* What Reject posts is of the version that was read, and as young as can be.
LEMMA RejectIInv == ASSUME IInv, Reject PROVE IInv'
<1> DEFINE n == s.queue[1]
           c == [kind |-> "rejection", author |-> Me, at |-> clock, outcome |-> Verdict.outcome,
                 markers |-> {Verdict.outcome} \intersect VerdictMarkers, version |-> s.notes.issue.version]
<1>1. s.phase = "triage" /\ s.stage = "verdict" BY DEF Reject, Judging
<1>2. Post(n, c) /\ UNCHANGED <<issues, history, clock, moves>> BY DEF Reject, Candidate
<1>3. c.at = clock /\ c.version = s.notes.issue.version OBVIOUS
<1>4. DOMAIN s = SessionFields /\ TriageSound(s, issues, comments, history) /\ WorldSound(issues, comments, history, clock)
  BY DEF IInv
<1>5. n \in Issues /\ s.notes.issue # NoReading /\ ReadEarlier(s.notes, issues[n], comments[n], history[n])
  BY <1>1, <1>4 DEF TriageSound
<1>6. DOMAIN s' = SessionFields /\ TriageSound(s', issues, comments, history)
  <2>1. CASE Drop BY <2>1, DropSound
  <2>2. CASE s' = InTrouble BY <1>4, <2>2, TroubleSound, ElsewhereSound
  <2> QED BY <2>1, <2>2 DEF Reject
<1> HIDE DEF c
<1>7. RejectionFits(c, issues[n], history[n], clock)
  <2>1. IssueSound(issues[n], comments[n], history[n], clock) /\ clock \in Nat BY <1>4, <1>5 DEF WorldSound
  <2>2. EditTimes(issues[n], history[n]) \subseteq 0..clock BY <2>1 DEF IssueSound
  <2>3. c.version \in 0..issues[n].version BY <1>3, <1>5 DEF ReadEarlier
  <2>4. c.at \in 0..clock /\ \A t \in EditTimes(issues[n], history[n]) : t <= c.at BY <1>3, <2>1, <2>2
  <2> QED BY <2>3, <2>4 DEF RejectionFits
<1>8. Onwards(clock) BY <1>2, <1>4, <1>7, PostOnwards
<1> QED BY <1>2, <1>6, <1>8, PostIInv

\* The claim of an issue, and what follows from it.
LEMMA PostClaimIInv == ASSUME IInv, NEW phase, phase # "triage", PostClaim(phase) PROVE IInv'
<1> DEFINE c == [kind |-> "claim", author |-> Me, at |-> clock]
<1>1. Post(s.queue[1], c) /\ UNCHANGED <<issues, history, clock, moves>> BY DEF PostClaim, Candidate
<1>2. ~ ByTrusted(c) BY DEF ByTrusted
<1>3. DOMAIN s = SessionFields /\ WorldSound(issues, comments, history, clock) BY DEF IInv
<1>4. PICK todo : s' = [s EXCEPT !.phase = phase, !.stage = "begin", !.notes = NoNotes, !.todo = todo]
  BY DEF PostClaim
<1>5. DOMAIN s' = SessionFields /\ s'.phase = phase BY <1>3, <1>4 DEF SessionFields
<1> HIDE DEF c
<1>6. Onwards(clock) BY <1>1, <1>2, <1>3, PostOnwards
<1> QED BY <1>1, <1>5, <1>6, ElsewhereSound, PostIInv

LEMMA VerifyIInv == ASSUME IInv, VerifyClaim PROVE IInv'
<1> DEFINE o == Over(s)
<1>1. Silently BY DEF VerifyClaim
<1>2. DOMAIN s = SessionFields BY DEF IInv
<1>3. CASE Drop BY <1>1, <1>3, DropSound, SilentSound
<1>4. CASE s' = [Over(s) EXCEPT !.claimed = Candidate]
  <2>1. DOMAIN o = SessionFields /\ o.phase = "over" BY <1>2, OverFields
  <2>2. s' = [o EXCEPT !.claimed = Candidate] BY <1>4
  <2> HIDE DEF o
  <2>3. DOMAIN s' = SessionFields /\ s'.phase = "over" BY <2>1, <2>2 DEF SessionFields
  <2> QED BY <1>1, <2>3, SilentElsewhere
<1> QED BY <1>3, <1>4 DEF VerifyClaim

LEMMA CheckCloseIInv == ASSUME IInv, CheckCloseClaim PROVE IInv'
<1>1. Silently /\ s.phase = "close" BY DEF CheckCloseClaim
<1>2. DOMAIN s = SessionFields BY DEF IInv
<1>3. CASE Drop BY <1>1, <1>3, DropSound, SilentSound
<1>4. ASSUME s' = [s EXCEPT !.stage = "evidence", !.todo = <<"closedBy", "byBranch", "overlapping">>,
                            !.notes.now = clock]
      PROVE  IInv'
  <2>1. DOMAIN s' = SessionFields /\ s'.phase = "close" BY <1>1, <1>2, <1>4 DEF SessionFields
  <2> QED BY <1>1, <2>1, SilentElsewhere
<1> QED BY <1>3, <1>4 DEF CheckCloseClaim

LEMMA AnnounceIInv == ASSUME IInv, AnnounceClose PROVE IInv'
<1> DEFINE c == [kind |-> "closing", author |-> Me, at |-> clock]
<1>1. s.phase = "close" /\ UNCHANGED <<issues, history, clock, moves>> BY DEF AnnounceClose
<1>2. DOMAIN s = SessionFields /\ WorldSound(issues, comments, history, clock) BY DEF IInv
<1>3. ASSUME Post(s.queue[1], c), s' = [s EXCEPT !.stage = "announced", !.todo = <<"comments">>] PROVE IInv'
  <2>1. ~ ByTrusted(c) BY DEF ByTrusted
  <2>2. DOMAIN s' = SessionFields /\ s'.phase = "close" BY <1>1, <1>2, <1>3 DEF SessionFields
  <2> HIDE DEF c
  <2>3. Onwards(clock) BY <1>1, <1>2, <1>3, <2>1, PostOnwards
  <2> QED BY <1>1, <2>2, <2>3, ElsewhereSound, PostIInv
<1>4. ASSUME UNCHANGED comments, Drop PROVE IInv'
  <2>1. DOMAIN s' = SessionFields /\ TriageSound(s', issues, comments, history) BY <1>4, DropSound
  <2> QED BY <1>1, <1>4, <2>1, QuietIInv
<1> QED BY <1>3, <1>4 DEF AnnounceClose, Candidate

LEMMA CloseIInv == ASSUME IInv, CloseIssue \/ CloseLost PROVE IInv'
<1> DEFINE n == s.queue[1]
           c == [kind |-> "release", author |-> Me, at |-> clock]
           closed == [issues EXCEPT ![n].open = FALSE]
<1>1. CASE CloseLost
  <2>1. Silently /\ Drop BY <1>1 DEF CloseLost
  <2> QED BY <2>1, DropSound, SilentSound
<1>2. CASE CloseIssue
  <2>1. /\ issues' = [issues EXCEPT ![n] = [issues[n] EXCEPT !.open = FALSE]] /\ Drop
        /\ comments' = [comments EXCEPT ![n] = Append(comments[n], c)]
        /\ UNCHANGED <<history, clock, moves>>
    BY <1>2 DEF CloseIssue, Candidate, Post
  <2>2. DOMAIN s' = SessionFields /\ TriageSound(s', issues, comments, history) BY <2>1, DropSound
  <2>3. ~ ByTrusted(c) BY DEF ByTrusted
  <2> HIDE DEF c
  <2>4. WorldSound(issues, comments, history, clock) BY DEF IInv
  <2>5. DOMAIN issues = Issues /\ DOMAIN comments = Issues /\ DOMAIN history = Issues BY <2>4 DEF WorldSound
  <2>6. DOMAIN issues' = Issues /\ DOMAIN comments' = Issues /\ DOMAIN history' = Issues BY <2>1, <2>5
  <2>7. \A k \in Issues \ {n} : issues'[k] = issues[k] /\ comments'[k] = comments[k] /\ history'[k] = history[k]
    BY <2>1, <2>5
  <2>8. ASSUME n \in Issues
        PROVE  /\ IssueSound(issues'[n], comments'[n], history'[n], clock)
               /\ Grown(issues[n], comments[n], history[n], issues'[n], comments'[n], history'[n])
    <3>1. /\ issues'[n] = [issues[n] EXCEPT !.open = FALSE] /\ comments'[n] = Append(comments[n], c)
          /\ history'[n] = history[n]
      BY <2>1, <2>5, <2>8
    <3>2. IssueSound(issues[n], comments[n], history[n], clock) BY <2>4, <2>8 DEF WorldSound
    <3>3. {"version", "created"} \subseteq DOMAIN issues[n] BY <3>2 DEF IssueSound
    <3>4. DOMAIN issues'[n] = DOMAIN issues[n] /\ issues'[n].version = issues[n].version /\ issues'[n].created = issues[n].created
      BY <3>1, <3>3
    <3>5. /\ IssueSound(issues'[n], comments[n], history[n], clock)
          /\ Grown(issues[n], comments[n], history[n], issues'[n], comments[n], history[n])
      BY <3>2, <3>4, SoundRelabelled
    <3>6. /\ IssueSound(issues'[n], comments'[n], history[n], clock)
          /\ Grown(issues'[n], comments[n], history[n], issues'[n], comments'[n], history[n])
      BY <2>3, <3>1, <3>5, SoundCommented
    <3>7. Grown(issues[n], comments[n], history[n], issues'[n], comments'[n], history'[n])
      BY <3>1, <3>5, <3>6 DEF Grown
    <3> QED BY <3>1, <3>6, <3>7
  <2>9. Onwards(clock) BY <2>4, <2>6, <2>7, <2>8, OneChanges
  <2> QED BY <2>1, <2>2, <2>9, PostIInv
<1> QED BY <1>1, <1>2

-----------------------------------------------------------------------------
(* The parts of a reading.                                                 *)

\* A failure in the triage that does not end the run loses nothing of what the verdict needs.
LEMMA LostPart ==
  ASSUME IInv, s.phase = "triage", NEW part
  PROVE  /\ DOMAIN Lost(part) = DOMAIN s.notes
         /\ \A f \in {"issue", "log", "timeline", "edits"} : Lost(part)[f] = s.notes[f]
<1>1. DOMAIN s.notes = NoteFields BY DEF IInv, TriageSound
<1>2. Lost(part) = s.notes \/ \E e : Lost(part) = [s.notes EXCEPT !.evidence = e] BY DEF Lost
<1> QED BY <1>1, <1>2 DEF NoteFields

\* The parts that the triage reads at its beginning and of the history are of this moment.
LEMMA GotPart ==
  ASSUME IInv, s.phase = "triage", NEW n, NEW part \in PartsAt(s.stage)
  PROVE  /\ DOMAIN Got(part, n) = NoteFields
         /\ Got(part, n).issue = IF part = "issue" THEN Reading(n) ELSE s.notes.issue
         /\ Got(part, n).log = IF part = "comments" THEN comments[n] ELSE s.notes.log
         /\ Got(part, n).timeline = IF part = "timeline" THEN Timeline(n) ELSE s.notes.timeline
         /\ Got(part, n).edits = IF part = "edits" THEN Edits(n) ELSE s.notes.edits
<1>1. DOMAIN s.notes = NoteFields /\ s.stage \in Stages BY DEF IInv, TriageSound
<1>2. part \in {"issue", "titles", "comments", "timeline", "edits", "closedBy", "byBranch", "overlapping", "editors"}
  BY <1>1 DEF PartsAt, Stages
<1>3. CASE part = "issue"
  <2>1. Got(part, n) = [s.notes EXCEPT !.issue = Reading(n)] BY <1>3 DEF Got
  <2> QED BY <1>1, <1>3, <2>1 DEF NoteFields
<1>4. CASE part = "comments"
  <2>1. Got(part, n) = [s.notes EXCEPT !.log = comments[n]] BY <1>4 DEF Got
  <2> QED BY <1>1, <1>4, <2>1 DEF NoteFields
<1>5. CASE part = "timeline"
  <2>1. Got(part, n) = [s.notes EXCEPT !.timeline = Timeline(n)] BY <1>5 DEF Got
  <2> QED BY <1>1, <1>5, <2>1 DEF NoteFields
<1>6. CASE part = "edits"
  <2>1. Got(part, n) = [s.notes EXCEPT !.edits = Edits(n)] BY <1>6 DEF Got
  <2> QED BY <1>1, <1>6, <2>1 DEF NoteFields
<1>7. CASE part = "titles"
  <2>1. PICK v : Got(part, n) = [s.notes EXCEPT !.titles = v] BY <1>7 DEF Got
  <2> QED BY <1>1, <1>7, <2>1 DEF NoteFields
<1>8. CASE part \in {"closedBy", "byBranch", "overlapping"}
  <2>1. PICK v : Got(part, n) = [s.notes EXCEPT !.evidence = v] BY <1>8 DEF Got
  <2> QED BY <1>1, <1>8, <2>1 DEF NoteFields
<1>9. CASE part = "editors"
  <2>1. PICK v : Got(part, n) = [s.notes EXCEPT !.structural = v] BY <1>9 DEF Got
  <2> QED BY <1>1, <1>9, <2>1 DEF NoteFields
<1> QED BY <1>2, <1>3, <1>4, <1>5, <1>6, <1>7, <1>8, <1>9

\* What is read now was there not later than now.
LEMMA GotEarlier ==
  ASSUME IInv, s.phase = "triage", s.queue[1] \in Issues, NEW part \in PartsAt(s.stage)
  PROVE  ReadEarlier(Got(part, s.queue[1]), issues[s.queue[1]], comments[s.queue[1]], history[s.queue[1]])
<1> DEFINE n == s.queue[1]
           notes == Got(part, n)
<1>1. ReadEarlier(s.notes, issues[n], comments[n], history[n]) BY DEF IInv, TriageSound
<1>2. IssueSound(issues[n], comments[n], history[n], clock) BY DEF IInv, WorldSound
<1>3. /\ notes.issue = IF part = "issue" THEN Reading(n) ELSE s.notes.issue
      /\ notes.log = IF part = "comments" THEN comments[n] ELSE s.notes.log
      /\ notes.timeline = IF part = "timeline" THEN Timeline(n) ELSE s.notes.timeline
      /\ notes.edits = IF part = "edits" THEN Edits(n) ELSE s.notes.edits
  BY GotPart
<1>4. Reading(n) = issues[n] /\ issues[n].version \in Nat BY <1>2 DEF Reading, IssueSound
<1>5. Timeline(n).renamed = history[n].renamed BY DEF Timeline
<1>6. Edits(n).at = history[n].edited BY DEF Edits
<1> HIDE DEF notes, n
<1>7. notes.issue # NoReading => notes.issue.created = issues[n].created /\ notes.issue.version \in 0..issues[n].version
  <2>1. CASE part = "issue" BY <1>3, <1>4, <2>1
  <2>2. CASE part # "issue" BY <1>1, <1>3, <2>2 DEF ReadEarlier
  <2> QED BY <2>1, <2>2
<1>8. notes.log \in Seq(Elements(comments[n]))
  <2>1. CASE part = "comments" BY <1>2, <1>3, <2>1 DEF IssueSound
  <2>2. CASE part # "comments" BY <1>1, <1>3, <2>2 DEF ReadEarlier
  <2> QED BY <2>1, <2>2
<1>9. notes.timeline.known => notes.timeline.renamed \subseteq history[n].renamed
  <2>1. CASE part = "timeline" BY <1>3, <1>5, <2>1
  <2>2. CASE part # "timeline" BY <1>1, <1>3, <2>2 DEF ReadEarlier
  <2> QED BY <2>1, <2>2
<1>10. notes.edits.known => notes.edits.at \subseteq history[n].edited
  <2>1. CASE part = "edits" BY <1>3, <1>6, <2>1
  <2>2. CASE part # "edits" BY <1>1, <1>3, <2>2 DEF ReadEarlier
  <2> QED BY <2>1, <2>2
<1> QED BY <1>7, <1>8, <1>9, <1>10 DEF ReadEarlier, notes, n

LEMMA ReadPartIInv == ASSUME IInv, ReadPart PROVE IInv'
<1> DEFINE n == s.queue[1]
           part == s.todo[1]
<1>1. Silently /\ s.todo # <<>> /\ s' = [s EXCEPT !.notes = Got(part, n), !.todo = Tail(s.todo)]
  BY DEF ReadPart, Candidate
<1>2. DOMAIN s = SessionFields /\ TriageSound(s, issues, comments, history) BY DEF IInv
<1>3. /\ DOMAIN s' = SessionFields /\ s'.phase = s.phase /\ s'.stage = s.stage /\ s'.queue = s.queue
      /\ s'.notes = Got(part, n) /\ s'.todo = Tail(s.todo)
  BY <1>1, <1>2 DEF SessionFields
<1>4. CASE s.phase # "triage" BY <1>1, <1>3, <1>4, SilentElsewhere
<1>5. CASE s.phase = "triage"
  <2>1. s.todo \in Seq(PartsAt(s.stage)) /\ s.stage \in Stages BY <1>2, <1>5 DEF TriageSound
  <2>2. Tail(s.todo) \in Seq(PartsAt(s.stage)) /\ part \in PartsAt(s.stage)
        /\ Elements(s.todo) = {part} \union Elements(Tail(s.todo))
    BY <1>1, <2>1, ElementsOfTail
  <2>3. /\ DOMAIN Got(part, n) = NoteFields
        /\ Got(part, n).issue = IF part = "issue" THEN Reading(n) ELSE s.notes.issue
        /\ Got(part, n).log = IF part = "comments" THEN comments[n] ELSE s.notes.log
    BY <1>5, <2>2, GotPart
  <2>4. ASSUME n \in Issues PROVE ReadEarlier(Got(part, n), issues[n], comments[n], history[n])
    BY <1>5, <2>2, <2>4, GotEarlier
  <2>5. Reading(n) # NoReading
    <3>1. DOMAIN NoReading = {} BY DEF NoReading
    <3>2. ASSUME n \in Issues PROVE DOMAIN Reading(n) # {}
      <4>1. IssueSound(issues[n], comments[n], history[n], clock) BY <3>2 DEF IInv, WorldSound
      <4> QED BY <3>2, <4>1 DEF IssueSound, Reading
    <3>3. ASSUME n \notin Issues PROVE DOMAIN Reading(n) # {} BY <3>3 DEF Reading, Missing
    <3> QED BY <3>1, <3>2, <3>3
  <2>6. ASSUME s.stage = "begin", Got(part, n).issue = NoReading PROVE "issue" \in Elements(Tail(s.todo))
    <3>1. part # "issue" /\ s.notes.issue = NoReading BY <2>3, <2>5, <2>6
    <3>2. "issue" \in Elements(s.todo) BY <1>2, <1>5, <2>6, <3>1 DEF TriageSound
    <3> QED BY <2>2, <3>1, <3>2
  <2>7. ASSUME s.stage = "begin", Got(part, n).issue # NoReading, Got(part, n).issue.access = "ok" PROVE n \in Issues
    <3>1. CASE part = "issue" BY <2>3, <2>7, <3>1, ReadingOfIssue
    <3>2. CASE part # "issue" BY <1>2, <1>5, <2>3, <2>7, <3>2 DEF TriageSound
    <3> QED BY <3>1, <3>2
  <2>8. ASSUME s.stage # "begin" PROVE n \in Issues /\ Got(part, n).issue # NoReading
    <3>1. n \in Issues /\ s.notes.issue # NoReading BY <1>2, <1>5, <2>8 DEF TriageSound
    <3> QED BY <2>3, <2>5, <3>1
  <2>9. ASSUME n \in Issues, s.stage \in {"evidence", "verdict"} PROVE Outlived(Got(part, n), issues[n], history[n])
    <3>1. part # "comments" BY <2>2, <2>9 DEF PartsAt
    <3>2. Outlived(s.notes, issues[n], history[n]) BY <1>2, <1>5, <2>9 DEF TriageSound
    <3> QED BY <2>3, <3>1, <3>2 DEF Outlived
  <2> HIDE DEF part, n
  <2>10. TriageSound(s', issues, comments, history)
    BY <1>3, <1>5, <2>1, <2>2, <2>3, <2>4, <2>6, <2>7, <2>8, <2>9 DEF TriageSound, n
  <2> QED BY <1>1, <1>3, <2>10, SilentSound
<1> QED BY <1>4, <1>5

LEMMA FailPartIInv == ASSUME IInv, FailPart PROVE IInv'
<1> DEFINE part == s.todo[1]
<1>1. s.todo # <<>> /\ UNCHANGED <<issues, comments, history, clock, moves>> BY DEF FailPart, Quietly, world
<1>2. DOMAIN s = SessionFields /\ TriageSound(s, issues, comments, history) BY DEF IInv
<1>3. CASE s' = InTrouble BY <1>1, <1>2, <1>3, TroubleSound, ElsewhereSound, QuietIInv
<1>4. CASE /\ part \in Survivable \/ (s.phase \in {"readiness", "orphans"} /\ part = "comments")
           /\ s' = [s EXCEPT !.notes = Lost(part), !.todo = Tail(s.todo), !.trouble = TRUE]
  <2>1. /\ DOMAIN s' = SessionFields /\ s'.phase = s.phase /\ s'.stage = s.stage /\ s'.queue = s.queue
        /\ s'.notes = Lost(part) /\ s'.todo = Tail(s.todo)
    BY <1>2, <1>4 DEF SessionFields
  <2>2. CASE s.phase # "triage" BY <1>1, <2>1, <2>2, ElsewhereSound, QuietIInv
  <2>3. CASE s.phase = "triage"
    <3> DEFINE n == s.queue[1]
    <3>1. s.todo \in Seq(PartsAt(s.stage)) /\ s.stage \in Stages /\ DOMAIN s.notes = NoteFields
      BY <1>2, <2>3 DEF TriageSound
    <3>2. Tail(s.todo) \in Seq(PartsAt(s.stage)) /\ Elements(s.todo) = {part} \union Elements(Tail(s.todo))
      BY <1>1, <3>1, ElementsOfTail
    <3>3. DOMAIN Lost(part) = NoteFields /\ \A f \in {"issue", "log", "timeline", "edits"} : Lost(part)[f] = s.notes[f]
      BY <2>3, <3>1, LostPart
    <3>4. Lost(part).issue = s.notes.issue /\ Lost(part).log = s.notes.log
          /\ Lost(part).timeline = s.notes.timeline /\ Lost(part).edits = s.notes.edits
      BY <3>3
    <3>5. part # "issue" BY <1>4, <2>3 DEF Survivable
    <3>6. ASSUME n \in Issues PROVE ReadEarlier(Lost(part), issues[n], comments[n], history[n])
      <4>1. ReadEarlier(s.notes, issues[n], comments[n], history[n]) BY <1>2, <2>3, <3>6 DEF TriageSound
      <4> QED BY <3>4, <4>1 DEF ReadEarlier
    <3>7. ASSUME n \in Issues, s.stage \in {"evidence", "verdict"} PROVE Outlived(Lost(part), issues[n], history[n])
      <4>1. Outlived(s.notes, issues[n], history[n]) BY <1>2, <2>3, <3>7 DEF TriageSound
      <4> QED BY <3>4, <4>1 DEF Outlived
    <3>8. ASSUME s.stage = "begin", s.notes.issue = NoReading PROVE "issue" \in Elements(Tail(s.todo))
      BY <1>2, <2>3, <3>2, <3>5, <3>8 DEF TriageSound
    <3>9. /\ s.stage = "begin" /\ s.notes.issue # NoReading /\ s.notes.issue.access = "ok" => n \in Issues
          /\ s.stage # "begin" => n \in Issues /\ s.notes.issue # NoReading
      BY <1>2, <2>3 DEF TriageSound
    <3> HIDE DEF part, n
    <3>10. TriageSound(s', issues, comments, history)
      BY <2>1, <2>3, <3>1, <3>2, <3>3, <3>4, <3>6, <3>7, <3>8, <3>9 DEF TriageSound, n
    <3> QED BY <1>1, <2>1, <3>10, QuietIInv
  <2> QED BY <2>2, <2>3
<1> QED BY <1>3, <1>4 DEF FailPart

-----------------------------------------------------------------------------
(* The theorems.                                                           *)

LEMMA StepIInv == IInv /\ [Next]_vars => IInv'
<1> SUFFICES ASSUME IInv, [Next]_vars PROVE IInv' OBVIOUS
<1>1. CASE SearchByLabel \/ SearchByMarker \/ (\E n \in Numbers : Load(n)) \/ Advance \/ FinishRoot
  BY <1>1, EnumerationIInv
<1>2. CASE ReadPart BY <1>2, ReadPartIInv
<1>3. CASE FailPart BY <1>3, FailPartIInv
<1>4. CASE ReadReference \/ FindRoadmaps \/ JudgeReadiness BY <1>4, ReadinessIInv
<1>5. CASE ListOpenIssues \/ FetchIssueState \/ ClassifyOrphan BY <1>5, OrphansIInv
<1>6. CASE JudgeApproval \/ JudgeViability \/ JudgeClaims BY <1>6, GatesIInv
<1>7. CASE Precheck BY <1>7, PrecheckIInv
<1>8. CASE AskForEditors BY <1>8, EditorsIInv
<1>9. CASE Reject BY <1>9, RejectIInv
<1>10. CASE Accept BY <1>10, PostClaimIInv DEF Accept
<1>11. CASE VerifyClaim BY <1>11, VerifyIInv
<1>12. CASE Coordinate BY <1>12, PostClaimIInv DEF Coordinate
<1>13. CASE CheckCloseClaim BY <1>13, CheckCloseIInv
<1>14. CASE AnnounceClose BY <1>14, AnnounceIInv
<1>15. CASE CloseIssue \/ CloseLost BY <1>15, CloseIInv
<1>16. CASE Move BY <1>16, MoveIInv
<1>17. CASE UNCHANGED vars BY <1>17 DEF vars, IInv
<1>18. CASE SessionStep
  BY <1>18, <1>1, <1>2, <1>3, <1>4, <1>5, <1>6, <1>7, <1>8, <1>9, <1>10, <1>11, <1>12, <1>13, <1>14, <1>15
  DEF SessionStep
<1> QED BY <1>16, <1>17, <1>18 DEF Next, Ended

\* What is known of rejections and edits, and what the triage has read of them, fit together
\* at every moment, whatever people and other sessions do (runCli of suitability-triage.mjs).
THEOREM Invariant == Spec => []IInv
<1> QED BY InitIInv, StepIInv, PTL DEF Spec

\* A text that a trusted actor has rejected is not triaged again: once the pre-check let the
\* issue through, no rejection that it read is of the text as it is now, nor will be.
THEOREM RejectedTextIsNotTriaged == Spec => []VerdictStands
<1> QED BY Invariant, IInvVerdict, PTL
=============================================================================
