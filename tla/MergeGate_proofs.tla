-------------------------- MODULE MergeGate_proofs --------------------------
(***************************************************************************)
(* What the merge gate promises, for any number of heads, seconds, words   *)
(* and runs of the check: nothing a person said goes unseen, a commit is   *)
(* merged on its own checks, and rules are overridden for a sole owner     *)
(* only.  The invariant relates every watermark of the pull request to     *)
(* what has been said since, and the command's view to the pull request it *)
(* was read from, piece by piece.                                          *)
(***************************************************************************)
EXTENDS MergeGate, FiniteSetTheorems, SequenceTheorems, WellFoundedInduction, TLAPS

(* What the parts of a pull request are.                                   *)

Login == {agent, person, bot, primary}
CommentType ==
  [id : Nat, author : Login, kind : {"plain", "notice", "ack", "accepted", "noticeDisposition"},
   names : {bot}, stamped : {FALSE}, at : Nat, edited : Nat]
ThreadType == [id : {1}, comments : Seq(CommentType), resolved : BOOLEAN]
Opinions == {"APPROVED", "CHANGES_REQUESTED", "COMMENTED"}
ReviewType == [author : Login, state : Opinions, commit : Nat, at : Nat, id : Nat]
CheckType ==
  [name : {check}, producer : {"check-run"}, state : {"IN_PROGRESS", "SUCCESS", "FAILURE", "CANCELLED"},
   began : Nat, done : Nat]
WaiverType ==
  [wellFormed : {TRUE}, reason : {"maintainer"}, author : {agent, person}, head : Nat, claim : {"mine"},
   at : Nat, expires : Nat, selector : {Selector}, run : {"none"}, runHead : {0}]
MarkerType ==
  [author : {agent}, kind : {"wait"}, head : Nat, agent : {agent}, claim : {"mine"}, at : Nat]
MarkType ==
  [author : {agent}, claim : {"mine", "theirs"}, head : Nat, max : Nat, count : Nat, passing : Nat,
   at : Nat, words : SUBSET (CommentType \union ReviewType)]
EventType == [event : {"committed", "requested"}, what : Nat \union Login]

PrType ==
  [head : Nat, committed : Nat, comments : SUBSET CommentType, threads : SUBSET ThreadType,
   reviews : Seq(ReviewType), checks : SUBSET CheckType, waivers : SUBSET WaiverType,
   marks : Seq(MarkType), claim : {"mine", "theirs"}, runs : Nat, words : Nat, behind : BOOLEAN,
   listed : SUBSET {primary}, timeline : Seq(EventType), markers : SUBSET MarkerType]


-----------------------------------------------------------------------------
(* What the actions of the world do to the pull request.                   *)

\* Nothing of the pull request changes but the parts that are named.
Keeps(p, q, parts) ==
  /\ "head" \notin parts => q.head = p.head
  /\ "committed" \notin parts => q.committed = p.committed
  /\ "comments" \notin parts => q.comments = p.comments
  /\ "threads" \notin parts => q.threads = p.threads
  /\ "reviews" \notin parts => q.reviews = p.reviews
  /\ "checks" \notin parts => q.checks = p.checks
  /\ "waivers" \notin parts => q.waivers = p.waivers
  /\ "marks" \notin parts => q.marks = p.marks
  /\ "markers" \notin parts => q.markers = p.markers

\* What the world leaves alone when it changes the pull request.
Others == <<now, scene, seen, phase, round, view, expected, merged>>

\* A word that is said is a comment.
LEMMA WordTypes ==
  ASSUME pr \in PrType, now \in Nat, NEW who \in Login,
         NEW kind \in {"plain", "notice", "ack", "accepted", "noticeDisposition"}
  PROVE  Word(who, kind, bot) \in CommentType
  BY DEF Word, CommentType, PrType


\* The pull request when its comments have changed,
LEMMA SetComments ==
  ASSUME NEW p \in PrType, NEW C \in SUBSET CommentType, NEW n \in Nat
  PROVE  LET q == [p EXCEPT !.comments = C, !.words = n]
         IN  q \in PrType /\ q.comments = C /\ q.words = n /\ Keeps(p, q, {"comments"})
  BY DEF PrType, Keeps
\* its threads,
LEMMA SetThreads ==
  ASSUME NEW p \in PrType, NEW T \in SUBSET ThreadType, NEW n \in Nat
  PROVE  LET q == [p EXCEPT !.threads = T, !.words = n]
         IN  q \in PrType /\ q.threads = T /\ q.words = n /\ Keeps(p, q, {"threads"})
  BY DEF PrType, Keeps
\* its reviews,
LEMMA SetReviews ==
  ASSUME NEW p \in PrType, NEW R \in Seq(ReviewType)
  PROVE  LET q == [p EXCEPT !.reviews = R]
         IN  q \in PrType /\ q.reviews = R /\ q.words = p.words /\ Keeps(p, q, {"reviews"})
  BY DEF PrType, Keeps
\* the list of requested reviewers,
LEMMA SetListed ==
  ASSUME NEW p \in PrType
  PROVE  LET q == [p EXCEPT !.listed = {}]
         IN  q \in PrType /\ q.words = p.words /\ Keeps(p, q, {})
  BY DEF PrType, Keeps
\* its waivers,
LEMMA SetWaivers ==
  ASSUME NEW p \in PrType, NEW W \in SUBSET WaiverType
  PROVE  LET q == [p EXCEPT !.waivers = W]
         IN  q \in PrType /\ q.words = p.words /\ q.waivers = W /\ Keeps(p, q, {"waivers"})
  BY DEF PrType, Keeps
\* its watermarks,
LEMMA SetMarks ==
  ASSUME NEW p \in PrType, NEW M \in Seq(MarkType), NEW claim \in {"mine", "theirs"}
  PROVE  LET q == [p EXCEPT !.marks = M]
             r == [p EXCEPT !.claim = claim, !.marks = M]
         IN  /\ q \in PrType /\ q.words = p.words /\ q.marks = M /\ Keeps(p, q, {"marks"})
             /\ r \in PrType /\ r.words = p.words /\ r.marks = M /\ Keeps(p, r, {"marks"})
  BY DEF PrType, Keeps
\* its checks,
LEMMA SetChecks ==
  ASSUME NEW p \in PrType, NEW K \in SUBSET CheckType, NEW n \in Nat
  PROVE  LET q == [p EXCEPT !.checks = K]
             r == [p EXCEPT !.runs = n, !.checks = K]
         IN  /\ q \in PrType /\ q.words = p.words /\ q.checks = K /\ Keeps(p, q, {"checks"})
             /\ r \in PrType /\ r.words = p.words /\ r.checks = K /\ Keeps(p, r, {"checks"})
  BY DEF PrType, Keeps
\* or the base branch.
LEMMA SetBehind ==
  ASSUME NEW p \in PrType
  PROVE  LET q == [p EXCEPT !.behind = TRUE]
         IN  q \in PrType /\ q.words = p.words /\ Keeps(p, q, {})
  BY DEF PrType, Keeps
-----------------------------------------------------------------------------
(* Extremes of sets of numbers.                                            *)

\* A set of natural numbers that is not empty has a least element.
LEMMA LeastNatural ==
  ASSUME NEW T, T \subseteq Nat, T # {}
  PROVE  \E x \in T : \A y \in T : x <= y
<1> DEFINE C == {0..x : x \in T}
<1>1. C \subseteq FiniteSubsetsOf(Nat) /\ C # {}
  <2>1. ASSUME NEW x \in T PROVE 0..x \in FiniteSubsetsOf(Nat)
    <3>1. x \in Nat OBVIOUS
    <3>2. IsFiniteSet(0..x) BY <3>1, FS_Interval
    <3>3. 0..x \subseteq Nat BY <3>1
    <3>4. QED BY <3>2, <3>3 DEF FiniteSubsetsOf
  <2>2. QED BY <2>1
<1>2. PICK c \in C : \A d \in C : ~ (<<d, c>> \in StrictSubsetOrdering(Nat))
  BY <1>1, FS_StrictSubsetOrderingWellFounded, WFMin
<1>3. PICK x \in T : c = 0..x
  OBVIOUS
<1>4. ASSUME NEW y \in T, ~ (x <= y) PROVE FALSE
  <2>1. x \in Nat /\ y \in Nat /\ y < x BY <1>4
  <2>2. 0..y \in C OBVIOUS
  <2>3. 0..y \subseteq 0..x /\ x \in 0..x /\ x \notin 0..y BY <2>1
  <2>4. 0..y # 0..x BY <2>3
  <2>5. 0..y \in SUBSET Nat /\ 0..x \in SUBSET Nat BY <2>1
  <2>6. <<0..y, 0..x>> \in StrictSubsetOrdering(Nat) BY <2>3, <2>4, <2>5 DEF StrictSubsetOrdering
  <2>7. QED BY <1>2, <1>3, <2>2, <2>6
<1>5. QED BY <1>4

\* One that is bounded has a greatest element.
LEMMA GreatestNatural ==
  ASSUME NEW T, T \subseteq Nat, T # {}, NEW b \in Nat, \A y \in T : y <= b
  PROVE  \E x \in T : \A y \in T : y <= x
<1> DEFINE D == {b - y : y \in T}
<1>0. \A y \in T : b - y \in Nat
  OBVIOUS
<1>1. D \subseteq Nat /\ D # {}
  BY <1>0
<1>2. PICK z \in D : \A u \in D : z <= u
  <2> HIDE DEF D
  <2> QED BY <1>1, LeastNatural
<1>3. PICK x \in T : z = b - x
  OBVIOUS
<1>4. ASSUME NEW y \in T PROVE y <= x
  <2>1. b - y \in D OBVIOUS
  <2>2. b - x <= b - y BY <1>2, <1>3, <2>1
  <2>3. x \in Nat /\ y \in Nat OBVIOUS
  <2> QED BY <2>2, <2>3
<1>5. QED BY <1>4

\* Latest is the greatest of the times, if there is any.
LEMMA LatestIs ==
  ASSUME NEW T, T \subseteq Nat, NEW b \in Nat, \A y \in T : y <= b
  PROVE  /\ Talk!Latest(T) \in Nat /\ Talk!Latest(T) <= b
         /\ \A y \in T : y <= Talk!Latest(T)
         /\ T # {} => Talk!Latest(T) \in T
<1>1. CASE T = {}
  BY <1>1 DEF Talk!Latest, Talk!AtNone
<1>2. CASE T # {}
  <2>1. \E x \in T : \A y \in T : y <= x
    BY <1>2, GreatestNatural
  <2>2. /\ (CHOOSE x \in T : \A y \in T : y <= x) \in T
        /\ \A y \in T : y <= (CHOOSE x \in T : \A z \in T : z <= x)
    BY <2>1
  <2>3. Talk!Latest(T) = CHOOSE x \in T : \A y \in T : y <= x
    BY <1>2 DEF Talk!Latest
  <2> QED BY <2>2, <2>3
<1>3. QED BY <1>1, <1>2

-----------------------------------------------------------------------------
(* The checks.                                                             *)

\* What a waiver makes of a check.
EffectiveType ==
  [name : {check}, producer : {"check-run"},
   state : {"IN_PROGRESS", "SUCCESS", "FAILURE", "CANCELLED", "SKIPPED"}, began : Nat, done : Nat]

\* The places of the states in the alphabet.
LEMMA Alphabet ==
  ASSUME NEW s \in {"IN_PROGRESS", "SUCCESS", "FAILURE", "CANCELLED", "SKIPPED"}
  PROVE  Rollup!Alphabetical(s) \in 1..15
<1> DEFINE order == <<"ACTION_REQUIRED", "CANCELLED", "ERROR", "FAILURE", "IN_PROGRESS", "NEUTRAL",
                 "NOT_APPLICABLE", "QUEUED", "SKIPPED", "STALE", "STARTUP_FAILURE", "SUCCESS",
                 "TIMED_OUT", "UNKNOWN", "WAITING">>
<1>1. DOMAIN order = 1..15
  OBVIOUS
<1>2. order[2] = "CANCELLED" /\ order[4] = "FAILURE" /\ order[5] = "IN_PROGRESS"
      /\ order[9] = "SKIPPED" /\ order[12] = "SUCCESS"
  OBVIOUS
<1>3. \E i \in 1..15 : order[i] = s
  BY <1>2
<1>4. Rollup!Alphabetical(s) = CHOOSE i \in DOMAIN order : order[i] = s
  BY DEF Rollup!Alphabetical
<1> HIDE DEF order
<1>5. QED BY <1>1, <1>3, <1>4

\* The reduction over the instances of a check ends with one that none is newer than.
LEMMA LatestInstance ==
  ASSUME NEW G, G \subseteq EffectiveType, G # {}, NEW b \in Nat, \A c \in G : c.done <= b
  PROVE  /\ Rollup!SelectLatestCheckInstance(G) \in G
         /\ \A d \in G : ~ Rollup!IsNewerCheckInstance(d, Rollup!SelectLatestCheckInstance(G))
<1> DEFINE Key(c) == 100 * Rollup!CiStateTieRank(c.state) + Rollup!Alphabetical(c.state)
<1>1. ASSUME NEW c \in G
      PROVE  /\ Rollup!CiStateTieRank(c.state) \in 0..2 /\ Rollup!Alphabetical(c.state) \in 1..15
             /\ c.done \in Nat
  <2>1. c.state \in {"IN_PROGRESS", "SUCCESS", "FAILURE", "CANCELLED", "SKIPPED"} /\ c.done \in Nat
    BY DEF EffectiveType
  <2>2. Rollup!CiStateTieRank(c.state) \in 0..2
    BY DEF Rollup!CiStateTieRank
  <2> QED BY <2>1, <2>2, Alphabet
<1>2. \E L : /\ L \subseteq G /\ L # {}
             /\ \A c \in L, d \in G : \/ d \in L /\ d.done = c.done
                                      \/ c.done = 0 /\ d.done # 0
                                      \/ c.done # 0 /\ d.done # 0 /\ d.done < c.done
  <2>1. CASE \E c \in G : c.done = 0
    <3> WITNESS {c \in G : c.done = 0}
    <3> QED BY <2>1, <1>1
  <2>2. CASE ~ \E c \in G : c.done = 0
    <3>1. {c.done : c \in G} \subseteq Nat /\ {c.done : c \in G} # {}
      BY <1>1
    <3>2. \A y \in {c.done : c \in G} : y <= b
      OBVIOUS
    <3>3. PICK m \in {c.done : c \in G} : \A y \in {c.done : c \in G} : y <= m
      BY <3>1, <3>2, GreatestNatural
    <3>4. PICK x \in G : x.done = m
      OBVIOUS
    <3>5. ASSUME NEW c \in G, c.done = m, NEW d \in G
          PROVE  d.done = c.done \/ (c.done # 0 /\ d.done # 0 /\ d.done < c.done)
      BY <2>2, <1>1, <3>3, <3>5
    <3> WITNESS {c \in G : c.done = m}
    <3> QED BY <3>4, <3>5
  <2> QED BY <2>1, <2>2
<1>3. PICK L : /\ L \subseteq G /\ L # {}
               /\ \A c \in L, d \in G : \/ d \in L /\ d.done = c.done
                                        \/ c.done = 0 /\ d.done # 0
                                        \/ c.done # 0 /\ d.done # 0 /\ d.done < c.done
  BY <1>2
<1>4. \E c \in L : \A d \in L : Key(c) <= Key(d)
  <2>1. \A c \in L : Key(c) \in Nat
    BY <1>1, <1>3
  <2> HIDE DEF Key
  <2>2. {Key(c) : c \in L} \subseteq Nat /\ {Key(c) : c \in L} # {}
    BY <2>1, <1>3
  <2>3. PICK k \in {Key(c) : c \in L} : \A y \in {Key(c) : c \in L} : k <= y
    BY <2>2, LeastNatural
  <2> QED BY <2>3
<1>5. PICK c \in L : \A d \in L : Key(c) <= Key(d)
  BY <1>4
<1>6. ASSUME NEW d \in G PROVE ~ Rollup!IsNewerCheckInstance(d, c)
  <2>1. c \in G BY <1>3
  <2>2. CASE d \in L /\ d.done = c.done
    <3>1. Key(c) <= Key(d) BY <1>5, <2>2
    <3>2. \/ Rollup!CiStateTieRank(c.state) < Rollup!CiStateTieRank(d.state)
          \/ /\ Rollup!CiStateTieRank(c.state) = Rollup!CiStateTieRank(d.state)
             /\ Rollup!Alphabetical(c.state) <= Rollup!Alphabetical(d.state)
      BY <3>1, <2>1, <1>1
    <3> QED BY <3>2, <2>2, <2>1, <1>1 DEF Rollup!IsNewerCheckInstance
  <2>3. CASE c.done = 0 /\ d.done # 0
    BY <2>3, <2>1, <1>1 DEF Rollup!IsNewerCheckInstance, Rollup!NoTime
  <2>4. CASE c.done # 0 /\ d.done # 0 /\ d.done < c.done
    BY <2>4, <2>1, <1>1 DEF Rollup!IsNewerCheckInstance, Rollup!NoTime
  <2> QED BY <1>3, <2>2, <2>3, <2>4
<1>7. \E x \in G : \A d \in G : ~ Rollup!IsNewerCheckInstance(d, x)
  BY <1>3, <1>6
<1>8. QED BY <1>7 DEF Rollup!SelectLatestCheckInstance

\* The rules of the base branch require the check.
LEMMA Required == Rollup!SummarizeBranchReviewRequirements(Rules(scene), Classic).names = {check}
<1> DEFINE entry == [name |-> check, pinned |-> FALSE]
           pull == [type |-> "pull_request", approvals |-> 0, codeOwner |-> Ruled(scene), conversation |-> FALSE]
           required == [type |-> "required_status_checks", strict |-> TRUE, checks |-> {entry}]
           named == UNION {r.checks : r \in {q \in Rules(scene) : q.type = "required_status_checks"}} \union Classic.checks
<1>1. Rules(scene) = {pull, required}
  BY DEF Rules
<1>2. pull.type # "required_status_checks" /\ required.type = "required_status_checks" /\ required.checks = {entry}
  OBVIOUS
<1>3. Classic.checks = {}
  BY DEF Classic
<1> HIDE DEF pull, required
<1>4. {q \in Rules(scene) : q.type = "required_status_checks"} = {required}
  BY <1>1, <1>2
<1>5. named = {entry}
  BY <1>2, <1>3, <1>4
<1>6. Rollup!SummarizeBranchReviewRequirements(Rules(scene), Classic).names
        = Rollup!SummarizeRequiredCheckMetadata(named).names
  BY DEF Rollup!SummarizeBranchReviewRequirements
<1>7. Rollup!SummarizeRequiredCheckMetadata(named).names = {e.name : e \in named} \ {"none"}
  BY DEF Rollup!SummarizeRequiredCheckMetadata
<1> HIDE DEF named
<1>8. {e.name : e \in named} = {check}
  BY <1>5
<1>9. QED BY <1>6, <1>7, <1>8, NamesAssumption

\* The checks that pass the gate: none is under way, and those that ended last passed,
\* were cancelled, or are covered by one waiver.
LEMMA PassingChecks ==
  ASSUME NEW v, v.checks \subseteq CheckType, v.committed \in Nat \ {0}, v.waivers \subseteq WaiverType,
         \A w, x \in v.waivers : w = x,
         \A c \in v.checks : c.state = "IN_PROGRESS" <=> c.done = 0,
         NEW b \in Nat, \A c \in v.checks : c.done <= b,
         ~ Recovery(v).unavailable,
         Rollup!IsPreMergeCiAllPassing(Ci(v))
  PROVE  LET ended == {c \in v.checks : c.done # Rollup!NoTime}
             last  == {c \in ended : \A d \in ended : d.done <= c.done}
         IN  /\ v.checks = ended /\ ended # {}
             /\ \/ \A c \in last : c.state \in {"SUCCESS", "CANCELLED"}
                \/ \E w \in v.waivers : \A c \in last :
                     /\ w.author = agent /\ w.head = v.head
                     /\ c.done >= w.at /\ c.done >= v.committed + Deadline
<1> DEFINE pre == Rollup!ConvergencePrecondition(v.committed, Deadline, Recovery(v).unavailable, v.now)
           relief == [relieved |-> FALSE, since |-> 0]
           req == Rollup!SummarizeBranchReviewRequirements(Rules(scene), Classic)
           Covered(c) == Rollup!CoveredByWaiver(c, Waivers(v), {Selector}, pre, relief)
           effective == Rollup!Effective(v.checks, Waivers(v), {Selector}, pre, relief)
           required == {c \in effective : c.name \in req.names}
           chosen == Rollup!SelectLatestCheckInstance(effective)
<1>1. req.names = {check}
  BY Required
<1>2. effective = {IF Covered(c) THEN [c EXCEPT !.state = "SKIPPED"] ELSE c : c \in v.checks}
  BY DEF Rollup!Effective
<1>3. \A c \in v.checks : Covered(c) =>
         /\ c.state \notin Rollup!PassingStates
         /\ \E w \in Waivers(v) : c.done >= w.at /\ c.done >= pre.opensAt
         /\ pre.open
  <2> SUFFICES ASSUME NEW c \in v.checks, Covered(c)
               PROVE /\ c.state \notin Rollup!PassingStates
                     /\ \E w \in Waivers(v) : c.done >= w.at /\ c.done >= pre.opensAt
                     /\ pre.open
    OBVIOUS
  <2>1. c.name = check
    BY DEF CheckType
  <2>2. relief.relieved = FALSE
    OBVIOUS
  <2> HIDE DEF pre, relief
  <2>3. QED BY <2>1, <2>2 DEF Rollup!CoveredByWaiver, Rollup!HasFreshWaiverCoverage
<1>4. pre.open => pre.opensAt = v.committed + Deadline
  BY DEF Rollup!ConvergencePrecondition
<1>5. \A w \in Waivers(v) : w \in v.waivers /\ w.author = agent /\ w.head = v.head
  <2> SUFFICES ASSUME NEW w \in Waivers(v)
               PROVE  w \in v.waivers /\ w.author = agent /\ w.head = v.head
    OBVIOUS
  <2>1. w \in v.waivers /\ Rollup!WaiverVerdict(w, WaiverContext(v)) = "valid"
    BY DEF Waivers, Rollup!SummarizeExternalCheckWaivers
  <2>2. WaiverContext(v).trusted = {agent} /\ WaiverContext(v).head = v.head
    BY DEF WaiverContext
  <2>3. w.wellFormed /\ w.reason # "auto"
    BY <2>1 DEF WaiverType
  <2>4. w.author \in WaiverContext(v).trusted /\ w.head = WaiverContext(v).head
    BY <2>1, <2>3 DEF Rollup!WaiverVerdict
  <2> QED BY <2>1, <2>2, <2>4

<1>6. /\ effective # {} /\ required = effective
      /\ Rollup!ClassifyCiChecks(effective) = "success"
  <2>1. Ci(v) = Rollup!SummarizeRequiredChecks(v.checks, Waivers(v), {Selector}, pre, relief, req, CiOptions)
    BY DEF Ci
  <2> HIDE DEF pre, relief, req
  <2>2. /\ Ci(v).unreadable = FALSE
        /\ Ci(v).status = Rollup!RequiredChecksStatus(effective, req, CiOptions)
        /\ ~ Ci(v).none
    <3> DEFINE none == ~ CiOptions.unreadable /\ req.names = {} /\ ~ req.pinned
               present == Rollup!ResolvePresentRunConclusion(effective, CiOptions.unresolvedNames)
               discarded == Rollup!FindDiscardedNonPassingSiblings({c \in v.checks : c.name \in req.names})
    <3>1. Ci(v) = [status |-> Rollup!RequiredChecksStatus(effective, req, CiOptions),
                   unreadable |-> CiOptions.unreadable,
                   none |-> none,
                   present |-> present, discarded |-> discarded]
      BY <2>1, Zenon DEF Rollup!SummarizeRequiredChecks
    <3>2. CiOptions.unreadable = FALSE
      BY DEF CiOptions
    <3>3. ~ none
      BY <1>1
    <3> HIDE DEF effective, present, discarded, none
    <3> QED BY <3>1, <3>2, <3>3
  <2>3. Ci(v).status = "success"
    BY <2>2 DEF Rollup!IsPreMergeCiAllPassing
  <2>4. required = effective
    <3>1. \A c \in effective : c.name = check
      BY <1>2 DEF CheckType
    <3> HIDE DEF effective
    <3> QED BY <3>1, <1>1
  <2> HIDE DEF effective
  <2> DEFINE status == IF req.names = {} THEN "unknown"
                       ELSE IF req.names \ {c.name : c \in effective} # {} THEN "missing"
                       ELSE Rollup!ClassifyCiChecks(effective)
  <2>5. status = "success"
    <3>1. Rollup!RequiredChecksStatus(effective, req, CiOptions) =
            IF /\ status = "success"
               /\ \/ req.pinned /\ (~ CiOptions.trustPinned \/ req.unresolved)
                  \/ req.names \intersect CiOptions.unresolvedNames # {}
            THEN "unknown" ELSE status
      BY <2>4 DEF Rollup!RequiredChecksStatus
    <3> QED BY <2>2, <2>3, <3>1
  <2>6. req.names \ {c.name : c \in effective} = {} /\ Rollup!ClassifyCiChecks(effective) = "success"
    BY <2>5, <1>1
  <2> QED BY <2>4, <2>6, <1>1
<1>7. effective \subseteq EffectiveType /\ \A c \in effective : c.done <= b
  <2>1. ASSUME NEW d \in v.checks
        PROVE  [d EXCEPT !.state = "SKIPPED"] \in EffectiveType /\ d \in EffectiveType
               /\ [d EXCEPT !.state = "SKIPPED"].done = d.done /\ d.done <= b
    BY DEF CheckType, EffectiveType
  <2> HIDE DEF effective, Covered
  <2> QED BY <2>1, <1>2
<1>8. /\ chosen \in effective /\ chosen.state \in Rollup!PassingStates
      /\ \A d \in effective : ~ Rollup!IsNewerCheckInstance(d, chosen)
  <2> HIDE DEF effective
  <2>1. chosen \in effective /\ \A d \in effective : ~ Rollup!IsNewerCheckInstance(d, chosen)
    BY <1>6, <1>7, LatestInstance
  <2>2. \A c \in effective : {d \in effective : d.name = c.name /\ d.producer = c.producer} = effective
    BY <1>7 DEF EffectiveType
  <2>3. effective \in Rollup!GroupChecksByProducer(effective)
    BY <1>6, <2>2 DEF Rollup!GroupChecksByProducer
  <2>4. chosen \in Rollup!SelectLatestCheckPerName(effective)
    BY <2>3 DEF Rollup!SelectLatestCheckPerName
  <2>5. chosen.state \in Rollup!PassingStates
    <3> HIDE DEF chosen
    <3> QED BY <1>6, <2>4 DEF Rollup!ClassifyCiChecks
  <2> QED BY <2>1, <2>5
<1>9. \A c \in v.checks : Covered(c) => c.done # 0
  <2> SUFFICES ASSUME NEW c \in v.checks, Covered(c) PROVE c.done # 0
    OBVIOUS
  <2>1. relief.relieved = FALSE
    OBVIOUS
  <2> HIDE DEF pre, relief
  <2> QED BY <2>1 DEF Rollup!CoveredByWaiver, Rollup!HasFreshWaiverCoverage, Rollup!NoTime
<1> DEFINE Image(c) == IF Covered(c) THEN [c EXCEPT !.state = "SKIPPED"] ELSE c
<1>10. \A c \in v.checks : /\ Image(c) \in effective /\ Image(c).done = c.done
                           /\ Image(c).state = IF Covered(c) THEN "SKIPPED" ELSE c.state
  <2> SUFFICES ASSUME NEW c \in v.checks
               PROVE  /\ Image(c) \in effective /\ Image(c).done = c.done
                      /\ Image(c).state = IF Covered(c) THEN "SKIPPED" ELSE c.state
    OBVIOUS
  <2> HIDE DEF Covered
  <2> QED BY <1>2 DEF CheckType
<1>11. PICK source \in v.checks : chosen = Image(source)
  BY <1>2, <1>8
<1> HIDE DEF effective, Image, chosen, Covered, required
<1>12. chosen.done # 0
  <2> SUFFICES ASSUME chosen.done = 0 PROVE FALSE
    OBVIOUS
  <2>1. source.done = 0 /\ ~ Covered(source) /\ chosen.state = source.state
    BY <1>9, <1>10, <1>11
  <2>2. source.state = "IN_PROGRESS"
    BY <2>1
  <2> QED BY <1>8, <2>1, <2>2 DEF Rollup!PassingStates
<1>13. \A d \in effective : d.done # 0 /\ d.done <= chosen.done
  <2> SUFFICES ASSUME NEW d \in effective PROVE d.done # 0 /\ d.done <= chosen.done
    OBVIOUS
  <2>1. d.done \in Nat /\ chosen.done \in Nat
    BY <1>7, <1>8 DEF EffectiveType
  <2> QED BY <1>8, <1>12, <2>1 DEF Rollup!IsNewerCheckInstance, Rollup!NoTime
<1> DEFINE ended == {c \in v.checks : c.done # Rollup!NoTime}
           last  == {c \in ended : \A d \in ended : d.done <= c.done}
<1>14. v.checks = ended /\ ended # {}
  BY <1>10, <1>11, <1>13 DEF Rollup!NoTime
<1>15. \A c \in last : c.done = chosen.done
  <2> SUFFICES ASSUME NEW c \in last PROVE c.done = chosen.done
    OBVIOUS
  <2>1. c \in v.checks /\ source.done <= c.done
    BY <1>14
  <2>2. c.done <= chosen.done /\ source.done = chosen.done
    BY <1>10, <1>11, <1>13, <2>1
  <2>3. c.done \in Nat /\ chosen.done \in Nat
    BY <2>1, <2>2 DEF CheckType
  <2> QED BY <2>1, <2>2, <2>3
<1>16. \A c \in last : Covered(c) \/ c.state \in {"SUCCESS", "CANCELLED"}
  <2> SUFFICES ASSUME NEW c \in last, ~ Covered(c), c.state \notin {"SUCCESS", "CANCELLED"}
               PROVE  FALSE
    OBVIOUS
  <2>1. c \in v.checks /\ c.done # 0
    BY <1>14 DEF Rollup!NoTime
  <2>2. c.state = "FAILURE"
    BY <2>1 DEF CheckType
  <2>3. Image(c) \in effective /\ Image(c).state = "FAILURE" /\ Image(c).done = chosen.done
    BY <1>10, <1>15, <2>1, <2>2
  <2>4. Rollup!CiStateTieRank("FAILURE") = 0
    BY DEF Rollup!CiStateTieRank, Rollup!FailureStates
  <2>5. Rollup!CiStateTieRank(chosen.state) = 1
    BY <1>8 DEF Rollup!CiStateTieRank, Rollup!FailureStates, Rollup!PassingStates
  <2>6. Rollup!IsNewerCheckInstance(Image(c), chosen)
    BY <2>3, <2>4, <2>5 DEF Rollup!IsNewerCheckInstance
  <2> QED BY <1>8, <2>3, <2>6
<1>17. ASSUME NEW c \in last, Covered(c)
       PROVE  \E w \in v.waivers : \A d \in last :
                /\ w.author = agent /\ w.head = v.head
                /\ d.done >= w.at /\ d.done >= v.committed + Deadline
  <2>1. PICK w \in Waivers(v) : c.done >= w.at /\ c.done >= pre.opensAt
    BY <1>3, <1>17
  <2>2. w \in v.waivers /\ w.author = agent /\ w.head = v.head
    BY <1>5, <2>1
  <2>3. pre.opensAt = v.committed + Deadline
    BY <1>3, <1>4, <1>17
  <2>4. \A d \in last : d.done = c.done
    BY <1>15
  <2> HIDE DEF last, pre
  <2> QED BY <2>1, <2>2, <2>3, <2>4
<1>18. \/ \A c \in last : c.state \in {"SUCCESS", "CANCELLED"}
       \/ \E w \in v.waivers : \A d \in last :
            /\ w.author = agent /\ w.head = v.head
            /\ d.done >= w.at /\ d.done >= v.committed + Deadline
  <2> HIDE DEF last
  <2> QED BY <1>16, <1>17
<1>19. QED BY <1>14, <1>18

-----------------------------------------------------------------------------
(* Words, one at a time.                                                   *)

\* Who writes comments.
Speakers == {agent, person, bot}

\* Somebody writes a comment.
CommentAdded ==
  \E w \in CommentType :
    /\ scene = "comments"
    /\ w.author \in Speakers /\ w.at = now /\ w.edited = now /\ w.id = pr.words + 1
    /\ pr'.comments = pr.comments \union {w} /\ pr'.words = pr.words + 1
    /\ Keeps(pr, pr', {"comments"})

\* A person edits one.
CommentEdited ==
  \E c \in pr.comments :
    /\ c.author = person /\ c.edited < now
    /\ pr'.comments = (pr.comments \ {c}) \union {[c EXCEPT !.edited = now]}
    /\ pr'.words = pr.words + 1
    /\ Keeps(pr, pr', {"comments"})

\* Somebody writes in the thread, or opens it.
ThreadWritten ==
  \E t \in ThreadType :
    /\ scene = "thread"
    /\ pr'.threads = {t} /\ pr'.words = pr.words + 1
    /\ \A c \in Talk!InThread(t) : c \in UNION {Talk!InThread(u) : u \in pr.threads} \/ c.edited = now
    /\ Keeps(pr, pr', {"threads"})

\* A review comes in.
ReviewAdded ==
  \E r \in ReviewType :
    /\ scene \in {"two-owners", "wait"} /\ r.at = now
    /\ pr'.reviews = Append(pr.reviews, r) /\ pr'.words = pr.words
    /\ Keeps(pr, pr', {"reviews"})

\* What is said stays; the commit, its checks and a waiver may be others.
NothingSaid ==
  /\ pr'.words = pr.words
  /\ Keeps(pr, pr', {"head", "committed", "checks", "waivers"})

\* What there is to say, and where.
Placed ==
  /\ pr.comments # {} => scene = "comments"
  /\ pr.threads # {} => scene = "thread"
  /\ pr.reviews # <<>> => scene \in {"two-owners", "wait"}

\* A comment, of a person, of a bot or of the agent.
LEMMA CommentDoes ==
  ASSUME pr \in PrType, now \in Nat, Placed, Comment \/ Answer
  PROVE  pr' \in PrType /\ UNCHANGED Others /\ CommentAdded
<1>1. ASSUME NEW who \in Speakers, NEW kind \in {"plain", "notice", "accepted", "noticeDisposition"},
             scene = "comments",
             Happens([pr EXCEPT !.comments = @ \union {Word(who, kind, bot)}, !.words = @ + 1])
      PROVE  pr' \in PrType /\ UNCHANGED Others /\ CommentAdded
  <2> DEFINE w == Word(who, kind, bot)
             C == pr.comments \union {w}
             n == pr.words + 1
  <2>1. who \in Login
    BY DEF Speakers, Login
  <2>2. w \in CommentType
    BY <2>1, WordTypes
  <2>3. w.author = who /\ w.at = now /\ w.edited = now /\ w.id = pr.words + 1
    BY DEF Word
  <2>4. C \in SUBSET CommentType /\ n \in Nat
    BY <2>2 DEF PrType
  <2>5. pr' = [pr EXCEPT !.comments = C, !.words = n] /\ UNCHANGED Others
    BY <1>1 DEF Happens, Others
  <2> HIDE DEF w, C, n
  <2> DEFINE q == [pr EXCEPT !.comments = C, !.words = n]
  <2>a. q \in PrType /\ q.comments = C /\ q.words = n /\ Keeps(pr, q, {"comments"})
    BY <2>4, SetComments
  <2>b. pr' = q
    BY <2>5
  <2> HIDE DEF q
  <2>6. pr' \in PrType /\ pr'.comments = C /\ pr'.words = n /\ Keeps(pr, pr', {"comments"})
    BY <2>a, <2>b
  <2> QED BY <1>1, <2>2, <2>3, <2>5, <2>6 DEF CommentAdded, C, n
<1>2. CASE Comment
  BY <1>1, <1>2 DEF Comment, Talking, Speakers
<1>3. CASE Answer
  <2>0. Missing(pr) \subseteq pr.comments
    BY DEF Missing, Talk!MissingComments, Talk!FirstFit, Talk!Outstanding
  <2>1. PICK c \in pr.comments :
          Happens([pr EXCEPT !.comments = @ \union
            {Word(agent, IF c.kind = "notice" THEN "noticeDisposition" ELSE "accepted", bot)}, !.words = @ + 1])
    BY <1>3, <2>0 DEF Answer
  <2>2. scene = "comments"
    BY <2>1 DEF Placed
  <2>3. CASE c.kind = "notice"
    BY <1>1, <2>1, <2>2, <2>3 DEF Speakers
  <2>4. CASE c.kind # "notice"
    BY <1>1, <2>1, <2>2, <2>4 DEF Speakers
  <2> QED BY <2>3, <2>4
<1> QED BY <1>2, <1>3

\* An edit.
LEMMA EditDoes ==
  ASSUME pr \in PrType, now \in Nat, Edit
  PROVE  pr' \in PrType /\ UNCHANGED Others /\ CommentEdited
<1>1. PICK c \in pr.comments :
        /\ c.author = person /\ c.edited < now
        /\ Happens([pr EXCEPT !.comments = (@ \ {c}) \union {[c EXCEPT !.edited = now]}, !.words = @ + 1])
  BY DEF Edit
<1> DEFINE C == (pr.comments \ {c}) \union {[c EXCEPT !.edited = now]}
           n == pr.words + 1
<1>2. [c EXCEPT !.edited = now] \in CommentType
  <2>1. c \in CommentType
    BY DEF PrType
  <2> QED BY <2>1 DEF CommentType
<1>3. C \in SUBSET CommentType /\ n \in Nat
  BY <1>2 DEF PrType
<1>4. pr' = [pr EXCEPT !.comments = C, !.words = n] /\ UNCHANGED Others
  BY <1>1 DEF Happens, Others
<1> HIDE DEF C, n
<1> DEFINE q == [pr EXCEPT !.comments = C, !.words = n]
<1>a. q \in PrType /\ q.comments = C /\ q.words = n /\ Keeps(pr, q, {"comments"})
  BY <1>3, SetComments
<1>b. pr' = q
  BY <1>4
<1> HIDE DEF q
<1>5. pr' \in PrType /\ pr'.comments = C /\ pr'.words = n /\ Keeps(pr, pr', {"comments"})
  BY <1>a, <1>b
<1> QED BY <1>1, <1>4, <1>5 DEF CommentEdited, C, n

\* A word in a thread, or its settlement.
LEMMA ThreadDoes ==
  ASSUME pr \in PrType, now \in Nat, Placed, Reply \/ Settle
  PROVE  pr' \in PrType /\ UNCHANGED Others /\ ThreadWritten
<1>1. ASSUME NEW t \in ThreadType, scene = "thread",
             \A c \in Talk!InThread(t) : c \in UNION {Talk!InThread(u) : u \in pr.threads} \/ c.edited = now,
             Happens([pr EXCEPT !.threads = {t}, !.words = @ + 1])
      PROVE  pr' \in PrType /\ UNCHANGED Others /\ ThreadWritten
  <2> DEFINE n == pr.words + 1
             T == {t}
  <2>1. n \in Nat /\ T \in SUBSET ThreadType
    BY DEF PrType
  <2>2. pr' = [pr EXCEPT !.threads = T, !.words = n] /\ UNCHANGED Others
    BY <1>1 DEF Happens, Others
  <2> HIDE DEF n, T
  <2> DEFINE q == [pr EXCEPT !.threads = T, !.words = n]
  <2>a. q \in PrType /\ q.threads = T /\ q.words = n /\ Keeps(pr, q, {"threads"})
    BY <2>1, SetThreads
  <2>b. pr' = q
    BY <2>2
  <2> HIDE DEF q
  <2>3. pr' \in PrType /\ pr'.threads = T /\ pr'.words = n /\ Keeps(pr, pr', {"threads"})
    BY <2>a, <2>b
  <2> QED BY <1>1, <2>2, <2>3 DEF ThreadWritten, n, T
<1>2. ASSUME NEW t \in pr.threads, NEW w \in CommentType, w.edited = now, NEW resolved \in BOOLEAN
      PROVE  LET u == [t EXCEPT !.comments = Append(@, w), !.resolved = resolved]
                 r == [t EXCEPT !.comments = Append(@, w)]
             IN  /\ u \in ThreadType /\ r \in ThreadType
                 /\ \A c \in Talk!InThread(u) \union Talk!InThread(r) :
                      c \in UNION {Talk!InThread(x) : x \in pr.threads} \/ c.edited = now
  <2> DEFINE s == Append(t.comments, w)
             u == [t EXCEPT !.comments = s, !.resolved = resolved]
             r == [t EXCEPT !.comments = s]
  <2>1. t \in ThreadType
    BY DEF PrType
  <2>2. t.comments \in Seq(CommentType)
    BY <2>1 DEF ThreadType
  <2>3. /\ s \in Seq(CommentType)
        /\ \A i \in DOMAIN s : s[i] = w \/ (i \in DOMAIN t.comments /\ s[i] = t.comments[i])
    BY <2>2
  <2> HIDE DEF s
  <2>4. u \in ThreadType /\ r \in ThreadType /\ u.comments = s /\ r.comments = s
    BY <2>1, <2>3 DEF ThreadType
  <2>5. \A c \in Talk!InThread(u) \union Talk!InThread(r) : c = w \/ c \in Talk!InThread(t)
    <3> HIDE DEF u, r
    <3> QED BY <2>3, <2>4 DEF Talk!InThread
  <2> HIDE DEF u, r
  <2>6. \A c \in Talk!InThread(u) \union Talk!InThread(r) :
          c \in UNION {Talk!InThread(x) : x \in pr.threads} \/ c.edited = now
    BY <1>2, <2>5
  <2> QED BY <2>4, <2>6 DEF s, u, r
<1>3. \A who \in Speakers : \A kind \in {"plain", "ack", "accepted"} :
        Word(who, kind, bot) \in CommentType /\ Word(who, kind, bot).edited = now
  <2> SUFFICES ASSUME NEW who \in Speakers, NEW kind \in {"plain", "ack", "accepted"}
               PROVE  Word(who, kind, bot) \in CommentType /\ Word(who, kind, bot).edited = now
    OBVIOUS
  <2>1. who \in Login BY DEF Speakers, Login
  <2>2. Word(who, kind, bot) \in CommentType BY <2>1, WordTypes
  <2> QED BY <2>2 DEF Word
<1>4. CASE Reply
  <2>1. scene = "thread"
    BY <1>4 DEF Reply, Talking
  <2>2. CASE Happens([pr EXCEPT !.threads = {[id |-> 1, comments |-> <<Word(person, "plain", bot)>>, resolved |-> FALSE]},
                                !.words = @ + 1])
    <3> DEFINE w == Word(person, "plain", bot)
               t == [id |-> 1, comments |-> <<w>>, resolved |-> FALSE]
    <3>1. w \in CommentType /\ w.edited = now
      BY <1>3 DEF Speakers
    <3> HIDE DEF w
    <3>2. t \in ThreadType /\ t.comments = <<w>>
      BY <3>1 DEF ThreadType
    <3>3. \A c \in Talk!InThread(t) : c = w
      BY <3>2 DEF Talk!InThread
    <3>4. Happens([pr EXCEPT !.threads = {t}, !.words = @ + 1])
      BY <2>2 DEF w
    <3> HIDE DEF t
    <3> QED BY <1>1, <2>1, <3>1, <3>2, <3>3, <3>4
  <2>3. ASSUME NEW t \in pr.threads, NEW w \in {Word(person, "plain", bot), Word(bot, "ack", bot)},
               Happens([pr EXCEPT !.threads = {[t EXCEPT !.comments = Append(@, w)]}, !.words = @ + 1])
        PROVE  pr' \in PrType /\ UNCHANGED Others /\ ThreadWritten
    <3>1. w \in CommentType /\ w.edited = now
      BY <1>3 DEF Speakers
    <3> QED BY <1>1, <1>2, <2>1, <2>3, <3>1
  <2> QED BY <1>4, <2>2, <2>3 DEF Reply
<1>5. CASE Settle
  <2>1. PICK t \in pr.threads :
          Happens([pr EXCEPT
            !.threads = {[t EXCEPT !.comments = Append(@, Word(agent, "accepted", bot)), !.resolved = TRUE]},
            !.words = @ + 1])
    BY <1>5 DEF Settle
  <2>2. scene = "thread"
    BY <2>1 DEF Placed
  <2> DEFINE w == Word(agent, "accepted", bot)
  <2>3. w \in CommentType /\ w.edited = now
    BY <1>3 DEF Speakers
  <2>4. Happens([pr EXCEPT !.threads = {[t EXCEPT !.comments = Append(@, w), !.resolved = TRUE]}, !.words = @ + 1])
    BY <2>1
  <2> HIDE DEF w
  <2> QED BY <1>1, <1>2, <2>2, <2>3, <2>4
<1> QED BY <1>4, <1>5

\* A review comes in, of a person or of the primary reviewer.
LEMMA ReviewDoes ==
  ASSUME pr \in PrType, now \in Nat, Review \/ PrimaryAnswers
  PROVE  pr' \in PrType /\ UNCHANGED Others /\ ReviewAdded
<1>1. ASSUME NEW who \in Login, NEW s \in Opinions
      PROVE  Opinion(who, s) \in ReviewType /\ Opinion(who, s).at = now
  BY <1>1 DEF Opinion, ReviewType, PrType
<1>2. CASE Review
  <2>1. PICK s \in {"APPROVED", "CHANGES_REQUESTED", "COMMENTED"} :
          Happens([pr EXCEPT !.reviews = Append(@, Opinion(person, s))])
    BY <1>2 DEF Review
  <2> DEFINE r == Opinion(person, s)
             R == Append(pr.reviews, r)
             q == [pr EXCEPT !.reviews = R]
  <2>2. r \in ReviewType /\ r.at = now
    BY <1>1 DEF Login, Opinions
  <2>3. R \in Seq(ReviewType)
    BY <2>2 DEF PrType
  <2>4. pr' = q /\ UNCHANGED Others /\ scene = "two-owners"
    BY <1>2, <2>1 DEF Happens, Others, Review
  <2> HIDE DEF r, R
  <2>5. q \in PrType /\ q.reviews = R /\ q.words = pr.words /\ Keeps(pr, q, {"reviews"})
    BY <2>3, SetReviews
  <2> HIDE DEF q
  <2> QED BY <2>2, <2>4, <2>5 DEF ReviewAdded, R
<1>3. CASE PrimaryAnswers
  <2> DEFINE r == Opinion(primary, "COMMENTED")
             R == Append(pr.reviews, r)
             m == [pr EXCEPT !.listed = {}]
             q == [m EXCEPT !.reviews = R]
  <2>2. r \in ReviewType /\ r.at = now
    BY <1>1 DEF Login, Opinions
  <2>3. R \in Seq(ReviewType)
    BY <2>2 DEF PrType
  <2>4. pr' = q /\ UNCHANGED Others /\ scene = "wait"
    BY <1>3 DEF Happens, Others, PrimaryAnswers, PrType
  <2>5. m \in PrType /\ m.words = pr.words /\ Keeps(pr, m, {})
    BY SetListed
  <2> HIDE DEF r, R, m
  <2>6. q \in PrType /\ q.reviews = R /\ q.words = m.words /\ Keeps(m, q, {"reviews"})
    BY <2>3, <2>5, SetReviews
  <2>7. Keeps(pr, q, {"reviews"})
    BY <2>5, <2>6 DEF Keeps
  <2> HIDE DEF q
  <2> QED BY <2>2, <2>4, <2>5, <2>6, <2>7 DEF ReviewAdded, R
<1> QED BY <1>2, <1>3

-----------------------------------------------------------------------------
(* What the command has read.                                              *)

\* What is read later is added to what has been read.
LEMMA Adding ==
  ASSUME NEW f
  PROVE  /\ DOMAIN Reading(f) = DOMAIN f \union DOMAIN view
         /\ \A x \in DOMAIN f : Reading(f)[x] = f[x]
         /\ \A x \in DOMAIN view \ DOMAIN f : Reading(f)[x] = view[x]
  BY DEF Reading

\* Only the sole owner of the changed file counts as one.
LEMMA SoloIsSole ==
  ASSUME NEW v, SoloOwner(v)
  PROVE  scene = "sole-owner"
<1>1. Owned(scene).users # {} /\ Owned(scene).users \subseteq {agent}
  BY DEF SoloOwner, ReviewerStates, Owners!ReviewerStates, Owners!SelfApproval
<1> QED BY <1>1, NamesAssumption DEF Owned

-----------------------------------------------------------------------------
(* The invariant.                                                          *)

\* A check is under way as long as it has no end.
ChecksSound(checks) == \A c \in checks : (c.state = "IN_PROGRESS" <=> c.done = 0) /\ c.done <= now

\* The commit and what covers its checks.
CommitSound ==
  /\ ChecksSound(pr.checks)
  /\ \A w, x \in pr.waivers : w = x
  /\ pr.committed # 0

\* Who wrote a comment and when; only people edit.
CommentSound(c) ==
  /\ c.author \in Speakers /\ c.at <= c.edited /\ c.edited <= now
  /\ c.author # person => c.at = c.edited

\* What has been said, and when.
WordsSound ==
  /\ Placed
  /\ IsFiniteSet(pr.comments)
  /\ \A c \in pr.comments : CommentSound(c) /\ c.id <= pr.words
  /\ \A c, d \in pr.comments : c.id = d.id => c = d
  /\ \A t, u \in pr.threads : t = u
  /\ \A t \in pr.threads : \A c \in Talk!InThread(t) : c.edited <= now
  /\ \A i \in DOMAIN pr.reviews : pr.reviews[i].at <= now

\* What became of the comments that a watermark has counted: people's have been seen, or
\* edited since; bots never edit.
CommentsSeen(mark, comments) ==
  scene = "comments" =>
    \E old \in SUBSET comments :
      /\ Cardinality(old) = mark.count
      /\ \A c \in old : /\ c.author = person => c \in mark.words \/ (c.at < c.edited /\ mark.max <= c.edited)
                        /\ c.author # person => c.edited <= mark.max

\* What became of the words in the thread,
ThreadsSeen(mark, threads) ==
  scene = "thread" =>
    \A t \in threads : \A c \in Talk!InThread(t) :
      c.author = person => c \in mark.words \/ mark.max <= c.edited

\* and of the reviews.
ReviewsSeen(mark, reviews) ==
  scene \in {"two-owners", "wait"} =>
    \A i \in DOMAIN reviews : i <= mark.count => reviews[i] \in mark.words

\* A watermark and what it has seen of the pull request.
MarkSound(mark) ==
  /\ mark.max <= now
  /\ CommentsSeen(mark, pr.comments) /\ ThreadsSeen(mark, pr.threads) /\ ReviewsSeen(mark, pr.reviews)
  /\ scene \in {"two-owners", "wait"} => mark.count <= Len(pr.reviews)

\* The watermarks, and the one about to be recorded.
MarksSound ==
  /\ \A i \in DOMAIN pr.marks : MarkSound(pr.marks[i])
  /\ seen # NoView =>
       /\ seen.head \in Nat /\ seen.live.max \in Nat /\ seen.live.count \in Nat /\ seen.live.passing \in Nat
       /\ seen.words \subseteq CommentType \union ReviewType
       /\ MarkSound([max |-> seen.live.max, count |-> seen.live.count, words |-> seen.words])

\* What the command has in view, as far as it has read.
HeadView ==
  phase \in {"reviews", "comments", "threads", "judge"} =>
    /\ {"head", "committed", "checks"} \subseteq DOMAIN view
    /\ view.head = expected /\ view.committed \in Nat \ {0}
    /\ view.checks \subseteq CheckType /\ ChecksSound(view.checks)

\* The reviews it has read,
ReviewsView ==
  phase \in {"comments", "threads", "judge"} =>
    /\ "reviews" \in DOMAIN view
    /\ view.reviews \in Seq(ReviewType)
    /\ view.reviews # <<>> => scene \in {"two-owners", "wait"}
    /\ Len(view.reviews) <= Len(pr.reviews)
    /\ \A i \in DOMAIN view.reviews : view.reviews[i] = pr.reviews[i] /\ view.reviews[i].at <= now

\* the comments, waivers and watermarks,
CommentsView ==
  phase \in {"threads", "judge"} =>
    /\ {"comments", "waivers", "marks", "markers"} \subseteq DOMAIN view
    /\ view.comments \subseteq CommentType /\ IsFiniteSet(view.comments)
    /\ \A c, d \in view.comments : c.id = d.id => c = d
    /\ view.comments # {} => scene = "comments"
    /\ \A c \in view.comments : CommentSound(c)
    /\ view.waivers \subseteq WaiverType /\ \A w, x \in view.waivers : w = x
    /\ view.markers \subseteq MarkerType
    /\ view.marks \in Seq(MarkType)
    /\ \A i \in DOMAIN view.marks : /\ \E j \in DOMAIN pr.marks : view.marks[i] = pr.marks[j]
                                    /\ CommentsSeen(view.marks[i], view.comments)
                                    /\ ReviewsSeen(view.marks[i], view.reviews)

\* and the threads.
ThreadsView ==
  phase = "judge" =>
    /\ {"threads", "now"} \subseteq DOMAIN view
    /\ view.threads \subseteq ThreadType /\ \A t, u \in view.threads : t = u
    /\ view.threads # {} => scene = "thread"
    /\ \A t \in view.threads : \A c \in Talk!InThread(t) : c.edited <= now
    /\ \A i \in DOMAIN view.marks : ThreadsSeen(view.marks[i], view.threads)

\* All it has read so far.
ViewSound == HeadView /\ ReviewsView /\ CommentsView /\ ThreadsView

\* Where the command is.
FlowSound ==
  /\ phase \in {"reviews", "comments", "threads", "judge"} => round \in 1..3
  /\ phase = "revalidate" => round \in 1..2
  /\ phase = "merge" => round = 2
  /\ phase \in {"admin", "merge-admin"} => scene = "sole-owner"
  /\ Decided => view.head = expected /\ {"head", "committed", "checks", "reviews", "comments", "waivers", "marks",
                                         "threads"} \subseteq DOMAIN view
  /\ merged # NoView => merged.head = merged.view.head

\* The clock and the pull request.
TypesSound == now \in Nat \ {0} /\ pr \in PrType

-----------------------------------------------------------------------------
(* The commit and its checks.                                              *)

\* A commit, a run of the check and a waiver leave the conversation alone.
LEMMA CommitDoes ==
  ASSUME TypesSound, CommitSound, Push \/ BaseMoves \/ StartCheck \/ EndCheck \/ Waive
  PROVE  pr' \in PrType /\ UNCHANGED Others /\ NothingSaid /\ CommitSound'
<1> DEFINE Sound(K) == \A c \in K : (c.state = "IN_PROGRESS" <=> c.done = 0) /\ c.done <= now
<1>1. pr \in PrType /\ now \in Nat /\ now # 0 /\ Sound(pr.checks) /\ pr.committed # 0
      /\ \A w, x \in pr.waivers : w = x
  BY DEF TypesSound, CommitSound, ChecksSound
<1>2. Run("IN_PROGRESS", Rollup!NoTime) \in CheckType /\ Sound({Run("IN_PROGRESS", Rollup!NoTime)})
  BY <1>1 DEF Run, CheckType, Rollup!NoTime
<1>3. ASSUME UNCHANGED Others, Sound(pr'.checks), \A w, x \in pr'.waivers : w = x, pr'.committed # 0
      PROVE  CommitSound'
  BY <1>3 DEF CommitSound, ChecksSound, Others
<1>4. ASSUME NEW K \in SUBSET CheckType, Sound(K), NEW n \in Nat,
             Happens([pr EXCEPT !.checks = K]) \/ Happens([pr EXCEPT !.runs = n, !.checks = K])
      PROVE  pr' \in PrType /\ UNCHANGED Others /\ NothingSaid /\ CommitSound'
  <2> DEFINE q == [pr EXCEPT !.checks = K]
             r == [pr EXCEPT !.runs = n, !.checks = K]
  <2>1. /\ q \in PrType /\ q.words = pr.words /\ q.checks = K /\ Keeps(pr, q, {"checks"})
        /\ r \in PrType /\ r.words = pr.words /\ r.checks = K /\ Keeps(pr, r, {"checks"})
    BY <1>1, SetChecks
  <2>2. (pr' = q \/ pr' = r) /\ UNCHANGED Others
    BY <1>4 DEF Happens, Others
  <2> HIDE DEF q, r
  <2>3. pr' \in PrType /\ pr'.words = pr.words /\ pr'.checks = K /\ Keeps(pr, pr', {"checks"})
    BY <2>1, <2>2
  <2>4. NothingSaid /\ pr'.waivers = pr.waivers /\ pr'.committed = pr.committed
    BY <2>3 DEF NothingSaid, Keeps
  <2> HIDE DEF Sound
  <2> QED BY <1>1, <1>3, <1>4, <2>2, <2>3, <2>4
<1>5. CASE Push
  <2> DEFINE K == {Run("IN_PROGRESS", Rollup!NoTime)}
             h == pr.head + 1
             L == Append(pr.timeline, [event |-> "committed", what |-> pr.head + 1])
             q == [pr EXCEPT !.head = h, !.committed = now, !.behind = FALSE, !.timeline = L, !.checks = K]
  <2>1. K \in SUBSET CheckType /\ Sound(K)
    BY <1>2
  <2>2. h \in Nat /\ L \in Seq(EventType)
    BY <1>1 DEF PrType, EventType
  <2>3. pr' = q /\ UNCHANGED Others
    BY <1>5 DEF Push, Happens, Others
  <2> HIDE DEF K, h, L, Sound
  <2>a. K \in SUBSET CheckType /\ now \in Nat /\ h \in Nat /\ L \in Seq(EventType) /\ pr \in PrType
    BY <1>1, <2>1, <2>2
  <2>4. /\ q \in PrType /\ q.words = pr.words /\ q.checks = K /\ q.committed = now
        /\ Keeps(pr, q, {"head", "committed", "checks"})
    BY <2>a DEF PrType, Keeps
  <2> HIDE DEF q
  <2>5. NothingSaid /\ pr'.waivers = pr.waivers
    BY <2>3, <2>4 DEF NothingSaid, Keeps
  <2> QED BY <1>1, <1>3, <2>1, <2>3, <2>4, <2>5
<1>6. CASE BaseMoves
  <2> DEFINE q == [pr EXCEPT !.behind = TRUE]
  <2>1. q \in PrType /\ q.words = pr.words /\ Keeps(pr, q, {})
    BY <1>1, SetBehind
  <2>2. pr' = q /\ UNCHANGED Others
    BY <1>6 DEF BaseMoves, Happens, Others
  <2> HIDE DEF q
  <2>3. NothingSaid /\ pr'.waivers = pr.waivers /\ pr'.committed = pr.committed /\ pr'.checks = pr.checks
    BY <2>1, <2>2 DEF NothingSaid, Keeps
  <2> HIDE DEF Sound
  <2> QED BY <1>1, <1>3, <2>1, <2>2, <2>3
<1>7. CASE StartCheck
  <2> DEFINE K == pr.checks \union {Run("IN_PROGRESS", Rollup!NoTime)}
             n == pr.runs + 1
  <2>1. K \in SUBSET CheckType /\ Sound(K) /\ n \in Nat
    BY <1>1, <1>2 DEF PrType
  <2>2. Happens([pr EXCEPT !.runs = n, !.checks = K])
    BY <1>7 DEF StartCheck
  <2> HIDE DEF K, n, Sound
  <2> QED BY <1>4, <2>1, <2>2
<1>8. CASE EndCheck
  <2>1. PICK c \in pr.checks, s \in {"SUCCESS", "FAILURE", "CANCELLED"} :
          Happens([pr EXCEPT !.checks = (@ \ {c}) \union {[c EXCEPT !.state = s, !.done = now]}])
    BY <1>8 DEF EndCheck
  <2> DEFINE d == [c EXCEPT !.state = s, !.done = now]
             K == (pr.checks \ {c}) \union {d}
  <2>2. c \in CheckType
    BY <1>1 DEF PrType
  <2>3. d \in CheckType /\ d.done = now /\ d.state # "IN_PROGRESS"
    BY <1>1, <2>2 DEF CheckType
  <2> HIDE DEF d
  <2>4. K \in SUBSET CheckType /\ Sound(K)
    BY <1>1, <2>3 DEF PrType
  <2>5. Happens([pr EXCEPT !.checks = K])
    BY <2>1 DEF d
  <2> HIDE DEF K, Sound
  <2> QED BY <1>4, <2>4, <2>5
<1>9. CASE Waive
  <2>1. PICK who \in {agent, person} :
          Happens([pr EXCEPT !.waivers =
            {[wellFormed |-> TRUE, reason |-> "maintainer", author |-> who, head |-> pr.head, claim |-> "mine",
              at |-> now, expires |-> MaxTime + 1, selector |-> Selector, run |-> "none", runHead |-> 0]}])
    BY <1>9 DEF Waive
  <2> DEFINE w == [wellFormed |-> TRUE, reason |-> "maintainer", author |-> who, head |-> pr.head, claim |-> "mine",
                   at |-> now, expires |-> MaxTime + 1, selector |-> Selector, run |-> "none", runHead |-> 0]
             W == {w}
             q == [pr EXCEPT !.waivers = W]
  <2>2. pr.head \in Nat
    BY <1>1 DEF PrType
  <2>3. w \in WaiverType
    BY <1>1, <2>2, BoundsAssumption DEF WaiverType
  <2>4. pr' = q /\ UNCHANGED Others
    BY <2>1 DEF Happens, Others
  <2> HIDE DEF w
  <2>5. W \in SUBSET WaiverType /\ \A x, y \in W : x = y
    BY <2>3
  <2> HIDE DEF W
  <2>6. q \in PrType /\ q.words = pr.words /\ q.waivers = W /\ Keeps(pr, q, {"waivers"})
    BY <1>1, <2>5, SetWaivers
  <2> HIDE DEF q
  <2>7. NothingSaid /\ pr'.committed = pr.committed /\ pr'.checks = pr.checks
    BY <2>4, <2>6 DEF NothingSaid, Keeps
  <2> HIDE DEF Sound
  <2> QED BY <1>1, <1>3, <2>4, <2>5, <2>6, <2>7
<1> QED BY <1>5, <1>6, <1>7, <1>8, <1>9

-----------------------------------------------------------------------------
(* Watermarks.                                                             *)

\* The last passing check ended at some time, or never.
LEMMA PassingAtIs ==
  ASSUME NEW p, p.checks \subseteq CheckType, \A c \in p.checks : c.done <= now, now \in Nat
  PROVE  PassingAt(p) \in Nat
<1> DEFINE K == p.checks
           latest == Rollup!SelectLatestCheckPerName(K)
           done == {c.done : c \in {d \in latest : d.state \in Rollup!PassingStates}}
<1>1. ASSUME NEW G \in Rollup!GroupChecksByProducer(K)
      PROVE  Rollup!SelectLatestCheckInstance(G) \in K
  <2>1. G \subseteq K /\ G # {}
    BY DEF Rollup!GroupChecksByProducer
  <2>2. G \subseteq EffectiveType /\ \A c \in G : c.done <= now
    BY <2>1 DEF CheckType, EffectiveType
  <2> QED BY <2>1, <2>2, LatestInstance
<1>2. latest \subseteq K
  BY <1>1 DEF Rollup!SelectLatestCheckPerName
<1> HIDE DEF latest
<1>3. done \subseteq Nat /\ \A y \in done : y <= now
  BY <1>2 DEF CheckType
<1>4. PassingAt(p) = Talk!Latest(done)
  BY DEF PassingAt, latest
<1> HIDE DEF done
<1> QED BY <1>3, <1>4, LatestIs

\* The size of a set is one thing in this module and in the one of the conversation.
LEMMA SameSize == ASSUME NEW S PROVE Talk!Cardinality(S) = Cardinality(S)
  BY DEF Cardinality, Talk!Cardinality

\* What a snapshot says of comments without markers and handoffs.
LEMMA SnapshotIs ==
  ASSUME NEW C \in SUBSET CommentType, NEW R \in Seq(ReviewType), NEW T \in SUBSET ThreadType, NEW n \in Nat,
         IsFiniteSet(C), IsFiniteSet(T), now \in Nat,
         \A c \in C : c.edited <= now,
         \A t \in T : \A c \in Talk!InThread(t) : c.edited <= now,
         \A i \in DOMAIN R : R[i].at <= now
  PROVE  LET s == Talk!BuildActivitySnapshot(C, R, T, n)
         IN  /\ s.count = Cardinality(C) + Len(R) + Cardinality(T) /\ s.count \in Nat
             /\ s.max \in Nat /\ s.max <= now
             /\ \A c \in C \union UNION {Talk!InThread(t) : t \in T} : c.edited <= s.max
             /\ s.effectiveMax \in Nat
             /\ \A c \in C \union UNION {Talk!InThread(t) : t \in T} : c.author # bot => c.edited <= s.effectiveMax
             /\ s.acks \subseteq C /\ \A c \in s.acks : c.author = bot
             /\ s.passing = n /\ s.ackEvidence \in BOOLEAN
<1> DEFINE counted   == {c \in C : ~ (c.author \in {agent} /\ (Talk!IsOperational(c) \/ c.kind = "handoff"))}
           disposed  == Talk!Latest({c.at : c \in {d \in counted : d.author \in Talk!DispositionAuthors /\ Talk!IsDispositionComment(d)}}
                          \union {Talk!DisposedAt(c) : c \in UNION {{d \in Talk!InThread(t) : d.author \in Talk!DispositionAuthors /\ Talk!DisposesThread(d, t)} : t \in T}})
           acks      == {c \in counted : /\ disposed # Talk!AtNone
                                    /\ c.author \in {bot}
                                    /\ ~ Talk!IsDispositionComment(c)
                                    /\ Talk!ActivityAt(c) > disposed}
           replies   == UNION {Talk!AckReplies(t) : t \in T}
           reviewed  == {R[i].at : i \in DOMAIN R}
           said      == UNION {Talk!InThread(t) : t \in T}
           all       == {Talk!ActivityAt(c) : c \in counted \union said} \union reviewed
           most      == {Talk!ActivityAt(c) : c \in (counted \ acks) \union (said \ replies)} \union reviewed
           evidence  == disposed # Talk!AtNone /\ acks \union replies # {}
<1> DEFINE s == Talk!BuildActivitySnapshot(C, R, T, n)
<1>1. /\ s.count = Cardinality(counted) + Len(R) + Cardinality(T)
      /\ s.max = Talk!Latest(all)
      /\ s.passing = n /\ s.acks = acks
      /\ s.ackEvidence = evidence
      /\ s.effectiveMax = Talk!Latest(most)
  <2>1. s.count = Cardinality(counted) + Len(R) + Cardinality(T)
    <3>1. s.count = Talk!Cardinality(counted) + Len(R) + Talk!Cardinality(T)
      BY DEF Talk!BuildActivitySnapshot
    <3> HIDE DEF counted, s
    <3> QED BY <3>1, SameSize
  <2>2. s.max = Talk!Latest(all)
    BY DEF Talk!BuildActivitySnapshot
  <2>3. s.passing = n
    BY DEF Talk!BuildActivitySnapshot
  <2>4. s.acks = acks
    BY DEF Talk!BuildActivitySnapshot
  <2>5. s.ackEvidence = evidence
    BY DEF Talk!BuildActivitySnapshot
  <2>6. s.effectiveMax = Talk!Latest(most)
    BY DEF Talk!BuildActivitySnapshot
  <2> QED BY <2>1, <2>2, <2>3, <2>4, <2>5, <2>6
<1>2. counted = C
  BY DEF CommentType, Talk!IsOperational
<1>3. acks \subseteq C /\ \A c \in acks : c.author = bot
  BY <1>2
<1>4. \A c \in replies : c.author = bot
  BY DEF Talk!AckReplies
<1>5. evidence \in BOOLEAN
  OBVIOUS
<1>6. \A c \in C \union said : c.edited \in Nat /\ c.edited <= now
  <2>1. \A c \in C : c.edited \in Nat
    BY DEF CommentType
  <2>2. ASSUME NEW t \in T, NEW c \in Talk!InThread(t) PROVE c.edited \in Nat
    <3>1. t.comments \in Seq(CommentType)
      BY DEF ThreadType
    <3>2. c \in CommentType
      BY <3>1 DEF Talk!InThread
    <3> QED BY <3>2 DEF CommentType
  <2> QED BY <2>1, <2>2
<1>7. \A x \in reviewed : x \in Nat /\ x <= now
  <2> SUFFICES ASSUME NEW i \in DOMAIN R PROVE R[i].at \in Nat /\ R[i].at <= now
    OBVIOUS
  <2>1. R[i] \in ReviewType
    OBVIOUS
  <2> QED BY <2>1 DEF ReviewType
<1> HIDE DEF counted, disposed, acks, replies, reviewed, said, evidence
<1>8. all \subseteq Nat /\ \A y \in all : y <= now
  BY <1>2, <1>6, <1>7 DEF Talk!ActivityAt
<1>9. most \subseteq Nat /\ \A y \in most : y <= now
  BY <1>2, <1>6, <1>7 DEF Talk!ActivityAt
<1>10. \A c \in C \union said : c.edited \in all
  BY <1>2 DEF Talk!ActivityAt
<1>11. \A c \in C \union said : c.author # bot => c.edited \in most
  BY <1>2, <1>3, <1>4 DEF Talk!ActivityAt
<1> HIDE DEF all, most
<1>12. /\ Talk!Latest(all) \in Nat /\ Talk!Latest(all) <= now /\ \A y \in all : y <= Talk!Latest(all)
       /\ Talk!Latest(most) \in Nat /\ \A y \in most : y <= Talk!Latest(most)
  BY <1>8, <1>9, LatestIs
<1>13. Cardinality(C) \in Nat /\ Cardinality(T) \in Nat /\ Len(R) \in Nat
  BY FS_CardinalityType, LenProperties
<1>14. s.count = Cardinality(C) + Len(R) + Cardinality(T) /\ s.max = Talk!Latest(all)
       /\ s.passing = n /\ s.acks = acks /\ s.effectiveMax = Talk!Latest(most)
  BY <1>1, <1>2
<1>15. s.ackEvidence \in BOOLEAN
  BY <1>1, <1>5
<1> HIDE DEF s
<1> QED BY <1>3, <1>10, <1>11, <1>12, <1>13, <1>14, <1>15 DEF s, said

\* What has been said consists of comments and reviews.
LEMMA WordsAre ==
  ASSUME NEW p \in PrType
  PROVE  Words(p) \subseteq CommentType \union ReviewType
<1>1. ASSUME NEW t \in p.threads, NEW c \in Talk!InThread(t) PROVE c \in CommentType
  <2>1. t.comments \in Seq(CommentType)
    BY DEF PrType, ThreadType
  <2> QED BY <2>1 DEF Talk!InThread
<1>2. p.comments \subseteq CommentType /\ p.reviews \in Seq(ReviewType)
  BY DEF PrType
<1>3. \A i \in DOMAIN p.reviews : p.reviews[i] \in ReviewType
  BY <1>2
<1> QED BY <1>1, <1>2, <1>3 DEF Words

\* The activity of the pull request as it is now.
LEMMA ActivityIs ==
  ASSUME TypesSound, CommitSound, WordsSound
  PROVE  LET a == Activity(pr.comments, pr.reviews, pr.threads, pr)
         IN  /\ a.count = Cardinality(pr.comments) + Len(pr.reviews) + Cardinality(pr.threads)
             /\ a.count \in Nat /\ a.max \in Nat /\ a.max <= now /\ a.passing \in Nat
             /\ \A c \in pr.comments : c.edited <= a.max
             /\ IsFiniteSet(pr.threads)
<1>1. pr.checks \subseteq CheckType /\ pr.comments \in SUBSET CommentType /\ pr.reviews \in Seq(ReviewType)
      /\ pr.threads \in SUBSET ThreadType /\ now \in Nat
  BY DEF TypesSound, PrType
<1>2. \A c \in pr.checks : c.done <= now
  BY DEF CommitSound, ChecksSound
<1>3. PassingAt(pr) \in Nat
  BY <1>1, <1>2, PassingAtIs
<1>4. IsFiniteSet(pr.threads)
  <2>1. CASE pr.threads = {}
    BY <2>1, FS_EmptySet
  <2>2. CASE pr.threads # {}
    <3>1. PICK t \in pr.threads : TRUE
      BY <2>2
    <3>2. pr.threads = {t}
      BY <3>1 DEF WordsSound
    <3> QED BY <3>2, FS_Singleton
  <2> QED BY <2>1, <2>2
<1>5. /\ IsFiniteSet(pr.comments) /\ \A c \in pr.comments : c.edited <= now
      /\ \A t \in pr.threads : \A c \in Talk!InThread(t) : c.edited <= now
      /\ \A i \in DOMAIN pr.reviews : pr.reviews[i].at <= now
  BY DEF WordsSound, CommentSound
<1> DEFINE a == Talk!BuildActivitySnapshot(pr.comments, pr.reviews, pr.threads, PassingAt(pr))
<1>6. /\ a.count = Cardinality(pr.comments) + Len(pr.reviews) + Cardinality(pr.threads) /\ a.count \in Nat
      /\ a.max \in Nat /\ a.max <= now
      /\ \A c \in pr.comments \union UNION {Talk!InThread(t) : t \in pr.threads} : c.edited <= a.max
      /\ a.passing = PassingAt(pr)
  BY <1>1, <1>3, <1>4, <1>5, SnapshotIs
<1> HIDE DEF a
<1>7. Activity(pr.comments, pr.reviews, pr.threads, pr) = a
  BY DEF Activity, a
<1> QED BY <1>3, <1>4, <1>6, <1>7

\* Whoever looks at the pull request sees all of it.
LEMMA FreshMark ==
  ASSUME TypesSound, CommitSound, WordsSound, NEW m, m.words = Words(pr),
         m.max = Activity(pr.comments, pr.reviews, pr.threads, pr).max,
         m.count = Activity(pr.comments, pr.reviews, pr.threads, pr).count
  PROVE  MarkSound(m)
<1>1. /\ m.count = Cardinality(pr.comments) + Len(pr.reviews) + Cardinality(pr.threads)
      /\ m.count \in Nat /\ m.max \in Nat /\ m.max <= now
      /\ \A c \in pr.comments : c.edited <= m.max
      /\ IsFiniteSet(pr.comments) /\ IsFiniteSet(pr.threads)
  BY ActivityIs DEF WordsSound
<1>2. \A c \in pr.comments : c.author = person => c \in m.words
  BY NamesAssumption DEF Words
<1>3. \A t \in pr.threads : \A c \in Talk!InThread(t) : c.author = person => c \in m.words
  BY NamesAssumption DEF Words
<1>4. \A i \in DOMAIN pr.reviews : pr.reviews[i] \in m.words
  BY DEF Words
<1>5. Cardinality({}) = 0 /\ Len(<<>>) = 0
  BY FS_EmptySet
<1>6. Cardinality(pr.comments) \in Nat /\ Cardinality(pr.threads) \in Nat /\ Len(pr.reviews) \in Nat
  BY <1>1, FS_CardinalityType, LenProperties DEF TypesSound, PrType
<1>7. CommentsSeen(m, pr.comments)
  <2> SUFFICES ASSUME scene = "comments"
               PROVE  \E old \in SUBSET pr.comments :
                        /\ Cardinality(old) = m.count
                        /\ \A c \in old : /\ c.author = person => c \in m.words \/ (c.at < c.edited /\ m.max <= c.edited)
                                          /\ c.author # person => c.edited <= m.max
    BY DEF CommentsSeen
  <2>1. pr.threads = {} /\ pr.reviews = <<>>
    BY DEF WordsSound, Placed
  <2>2. m.count = Cardinality(pr.comments)
    BY <1>1, <1>5, <1>6, <2>1
  <2> WITNESS pr.comments \in SUBSET pr.comments
  <2> QED BY <1>1, <1>2, <2>2
<1>8. ThreadsSeen(m, pr.threads)
  BY <1>3 DEF ThreadsSeen
<1>9. ReviewsSeen(m, pr.reviews)
  BY <1>4 DEF ReviewsSeen
<1>10. scene \in {"two-owners", "wait"} => m.count <= Len(pr.reviews)
  <2> SUFFICES ASSUME scene \in {"two-owners", "wait"} PROVE m.count <= Len(pr.reviews)
    OBVIOUS
  <2>1. pr.threads = {} /\ pr.comments = {}
    BY DEF WordsSound, Placed
  <2>2. Cardinality(pr.comments) = 0 /\ Cardinality(pr.threads) = 0
    BY <1>5, <2>1
  <2>3. m.count = Len(pr.reviews)
    BY <1>1, <1>6, <2>2
  <2> QED BY <1>6, <2>3
<1> QED BY <1>1, <1>7, <1>8, <1>9, <1>10 DEF MarkSound

\* Nothing that happens takes from what a watermark has seen.
LEMMA MarkStays ==
  ASSUME TypesSound, WordsSound, pr' \in PrType, UNCHANGED <<now, scene>>,
         CommentAdded \/ CommentEdited \/ ThreadWritten \/ ReviewAdded \/ Keeps(pr, pr', {"head", "committed", "checks", "waivers", "marks"}),
         NEW m, m.count \in Nat, m.max \in Nat, MarkSound(m)
  PROVE  MarkSound(m)'
<1> DEFINE Fresh(c) == /\ c.author = person => c \in m.words \/ (c.at < c.edited /\ m.max <= c.edited)
                       /\ c.author # person => c.edited <= m.max
<1>0. now \in Nat /\ pr \in PrType /\ pr.comments \subseteq CommentType
  BY DEF TypesSound, PrType
<1>1. ASSUME pr'.comments = pr.comments PROVE CommentsSeen(m, pr.comments)'
  BY <1>1 DEF MarkSound, CommentsSeen
<1>2. ASSUME pr'.threads = pr.threads PROVE ThreadsSeen(m, pr.threads)'
  BY <1>2 DEF MarkSound, ThreadsSeen
<1>3. ASSUME pr'.reviews = pr.reviews
      PROVE  ReviewsSeen(m, pr.reviews)' /\ (scene' \in {"two-owners", "wait"} => m.count <= Len(pr'.reviews))
  BY <1>3 DEF MarkSound, ReviewsSeen
<1>4. m.max <= now'
  BY DEF MarkSound
<1>5. CASE Keeps(pr, pr', {"head", "committed", "checks", "waivers", "marks"})
  <2>1. pr'.comments = pr.comments /\ pr'.threads = pr.threads /\ pr'.reviews = pr.reviews
    BY <1>5 DEF Keeps
  <2> QED BY <1>1, <1>2, <1>3, <1>4, <2>1 DEF MarkSound
<1>6. CASE CommentAdded
  <2>1. pr'.threads = pr.threads /\ pr'.reviews = pr.reviews /\ pr.comments \subseteq pr'.comments
    BY <1>6 DEF CommentAdded, Keeps
  <2>2. CommentsSeen(m, pr.comments)'
    BY <2>1 DEF MarkSound, CommentsSeen
  <2> QED BY <1>2, <1>3, <1>4, <2>1, <2>2 DEF MarkSound
<1>7. CASE CommentEdited
  <2>1. PICK c \in pr.comments :
          /\ c.author = person /\ c.edited < now
          /\ pr'.comments = (pr.comments \ {c}) \union {[c EXCEPT !.edited = now]}
          /\ Keeps(pr, pr', {"comments"})
    BY <1>7 DEF CommentEdited
  <2> DEFINE d == [c EXCEPT !.edited = now]
  <2>a. c \in CommentType
    BY <1>0
  <2>b. c.edited # now /\ c.edited \in Nat /\ c.at \in Nat
    BY <1>0, <2>1, <2>a DEF CommentType
  <2>2. /\ c \in CommentType /\ d.id = c.id /\ d.author = person /\ d.at = c.at /\ d.edited = now /\ d # c
        /\ c.at \in Nat /\ c.edited \in Nat
    BY <2>1, <2>a, <2>b DEF CommentType
  <2>3. c.at <= c.edited
    BY DEF WordsSound, CommentSound
  <2> HIDE DEF d
  <2>4. d \notin pr.comments
    BY <2>2 DEF WordsSound
  <2>5. CommentsSeen(m, pr.comments)'
    <3> SUFFICES ASSUME scene' = "comments"
                 PROVE  \E old \in SUBSET pr'.comments : Cardinality(old) = m.count /\ \A x \in old : Fresh(x)
      BY DEF CommentsSeen
    <3>1. PICK old \in SUBSET pr.comments : Cardinality(old) = m.count /\ \A x \in old : Fresh(x)
      BY DEF MarkSound, CommentsSeen
    <3>2. Fresh(d)
      BY <1>0, <1>4, <2>1, <2>2, <2>3
    <3> HIDE DEF Fresh
    <3>3. CASE c \notin old
      <4>1. old \in SUBSET pr'.comments
        BY <2>1, <3>3
      <4> QED BY <3>1, <4>1
    <3>4. CASE c \in old
      <4> DEFINE new == (old \ {c}) \union {d}
      <4>1. new \in SUBSET pr'.comments
        BY <2>1 DEF d
      <4>2. \A x \in new : Fresh(x)
        BY <3>1, <3>2
      <4>3. IsFiniteSet(old)
        BY FS_Subset DEF WordsSound
      <4>4. Cardinality(new) = m.count
        <5>1. IsFiniteSet(old \ {c}) /\ Cardinality(old \ {c}) = Cardinality(old) - 1
          BY <3>4, <4>3, FS_RemoveElement
        <5>2. d \notin old \ {c}
          BY <2>4
        <5>3. Cardinality((old \ {c}) \union {d}) = Cardinality(old \ {c}) + 1
          BY <5>1, <5>2, FS_AddElement
        <5> QED BY <3>1, <5>1, <5>3
      <4> HIDE DEF new
      <4> QED BY <4>1, <4>2, <4>4
    <3> QED BY <3>3, <3>4
  <2>6. pr'.threads = pr.threads /\ pr'.reviews = pr.reviews
    BY <2>1 DEF Keeps
  <2> QED BY <1>2, <1>3, <1>4, <2>5, <2>6 DEF MarkSound
<1>8. CASE ThreadWritten
  <2>1. PICK t \in ThreadType :
          /\ pr'.threads = {t}
          /\ \A c \in Talk!InThread(t) : c \in UNION {Talk!InThread(u) : u \in pr.threads} \/ c.edited = now
          /\ Keeps(pr, pr', {"threads"})
    BY <1>8 DEF ThreadWritten
  <2>2. pr'.comments = pr.comments /\ pr'.reviews = pr.reviews
    BY <2>1 DEF Keeps
  <2>3. ThreadsSeen(m, pr.threads)'
    <3> SUFFICES ASSUME scene = "thread", NEW c \in Talk!InThread(t), c.author = person
                 PROVE  c \in m.words \/ m.max <= c.edited
      BY <2>1 DEF ThreadsSeen
    <3>1. CASE c.edited = now
      BY <1>4, <3>1
    <3>2. CASE c \in UNION {Talk!InThread(u) : u \in pr.threads}
      BY <3>2 DEF MarkSound, ThreadsSeen
    <3> QED BY <2>1, <3>1, <3>2
  <2> QED BY <1>1, <1>3, <1>4, <2>2, <2>3 DEF MarkSound
<1>9. CASE ReviewAdded
  <2>1. PICK r \in ReviewType : pr'.reviews = Append(pr.reviews, r) /\ Keeps(pr, pr', {"reviews"})
                                /\ scene \in {"two-owners", "wait"}
    BY <1>9 DEF ReviewAdded
  <2>2. pr'.comments = pr.comments /\ pr'.threads = pr.threads
    BY <2>1 DEF Keeps
  <2>3. pr.reviews \in Seq(ReviewType)
    BY <1>0 DEF PrType
  <2>4. m.count <= Len(pr.reviews)
    BY <2>1 DEF MarkSound
  <2>5. /\ Len(pr'.reviews) = Len(pr.reviews) + 1
        /\ \A i \in 1..Len(pr.reviews) : pr'.reviews[i] = pr.reviews[i]
        /\ DOMAIN pr'.reviews = 1..(Len(pr.reviews) + 1) /\ Len(pr.reviews) \in Nat
    BY <2>1, <2>3
  <2>6. \A i \in 1..(Len(pr.reviews) + 1) : i <= m.count => i \in 1..Len(pr.reviews)
    BY <2>4, <2>5
  <2>7. ReviewsSeen(m, pr.reviews)'
    <3>1. \A i \in 1..Len(pr.reviews) : i <= m.count => pr.reviews[i] \in m.words
      BY <2>1, <2>3, LenProperties DEF MarkSound, ReviewsSeen
    <3> QED BY <2>5, <2>6, <3>1 DEF ReviewsSeen
  <2>8. m.count <= Len(pr'.reviews)
    BY <2>4, <2>5
  <2> QED BY <1>1, <1>2, <1>4, <2>2, <2>7, <2>8 DEF MarkSound
<1> QED BY <1>5, <1>6, <1>7, <1>8, <1>9

-----------------------------------------------------------------------------
(* Every step keeps what is known of the pull request.                     *)

\* All that is known of the pull request.
Known == TypesSound /\ CommitSound /\ WordsSound /\ MarksSound

\* Reviews and watermarks stay where they are.
Grown ==
  /\ \A j \in DOMAIN pr.marks : j \in DOMAIN pr'.marks /\ pr'.marks[j] = pr.marks[j]
  /\ \A i \in DOMAIN pr.reviews : i \in DOMAIN pr'.reviews /\ pr'.reviews[i] = pr.reviews[i]
  /\ Len(pr.reviews) <= Len(pr'.reviews)

\* A word that is added leaves the rest as it was.
LEMMA WordsStay ==
  ASSUME TypesSound, WordsSound, pr' \in PrType, UNCHANGED <<now, scene>>,
         \/ CommentAdded \/ CommentEdited \/ ThreadWritten \/ ReviewAdded
         \/ Keeps(pr, pr', {"head", "committed", "checks", "waivers", "marks"}) /\ pr'.words = pr.words
  PROVE  WordsSound'
<1>0. now \in Nat /\ pr \in PrType /\ pr.comments \subseteq CommentType /\ pr.words \in Nat
  BY DEF TypesSound, PrType
<1>1. CASE Keeps(pr, pr', {"head", "committed", "checks", "waivers", "marks"}) /\ pr'.words = pr.words
  BY <1>1 DEF WordsSound, Placed, Keeps, CommentSound
<1>2. CASE CommentAdded
  <2>1. PICK w \in CommentType :
          /\ scene = "comments"
          /\ w.author \in Speakers /\ w.at = now /\ w.edited = now /\ w.id = pr.words + 1
          /\ pr'.comments = pr.comments \union {w} /\ pr'.words = pr.words + 1
          /\ Keeps(pr, pr', {"comments"})
    BY <1>2 DEF CommentAdded
  <2>2. pr'.threads = pr.threads /\ pr'.reviews = pr.reviews
    BY <2>1 DEF Keeps
  <2>3. IsFiniteSet(pr'.comments)
    BY <2>1, FS_AddElement DEF WordsSound
  <2>4. \A c \in pr'.comments : CommentSound(c)' /\ c.id <= pr'.words
    <3> SUFFICES ASSUME NEW c \in pr'.comments PROVE CommentSound(c)' /\ c.id <= pr'.words
      OBVIOUS
    <3>1. CASE c = w
      BY <1>0, <2>1, <3>1 DEF CommentSound
    <3>2. CASE c \in pr.comments
      <4>1. c.id \in Nat /\ c.id <= pr.words
        BY <1>0, <3>2 DEF WordsSound, CommentType
      <4> QED BY <1>0, <2>1, <3>2, <4>1 DEF WordsSound, CommentSound
    <3> QED BY <2>1, <3>1, <3>2
  <2>5. \A c, d \in pr'.comments : c.id = d.id => c = d
    <3>1. \A c \in pr.comments : c.id # w.id
      <4> SUFFICES ASSUME NEW c \in pr.comments PROVE c.id # w.id
        OBVIOUS
      <4>1. c.id \in Nat /\ c.id <= pr.words
        BY <1>0 DEF WordsSound, CommentType
      <4> QED BY <1>0, <2>1, <4>1
    <3> QED BY <2>1, <3>1 DEF WordsSound
  <2>6. Placed'
    BY <2>1, <2>2 DEF WordsSound, Placed
  <2> QED BY <2>2, <2>3, <2>4, <2>5, <2>6 DEF WordsSound
<1>3. CASE CommentEdited
  <2>1. PICK c \in pr.comments :
          /\ c.author = person /\ c.edited < now
          /\ pr'.comments = (pr.comments \ {c}) \union {[c EXCEPT !.edited = now]}
          /\ pr'.words = pr.words + 1
          /\ Keeps(pr, pr', {"comments"})
    BY <1>3 DEF CommentEdited
  <2> DEFINE d == [c EXCEPT !.edited = now]
  <2>2. c \in CommentType
    BY <1>0
  <2>3. d.id = c.id /\ d.author = person /\ d.at = c.at /\ d.edited = now /\ c.edited \in Nat /\ c.at \in Nat
    BY <2>1, <2>2 DEF CommentType
  <2>4. pr'.threads = pr.threads /\ pr'.reviews = pr.reviews
    BY <2>1 DEF Keeps
  <2> HIDE DEF d
  <2>5. pr'.comments = (pr.comments \ {c}) \union {d}
    BY <2>1 DEF d
  <2>6. IsFiniteSet(pr'.comments)
    <3>1. IsFiniteSet(pr.comments \ {c})
      BY FS_RemoveElement DEF WordsSound
    <3> QED BY <2>5, <3>1, FS_AddElement
  <2>7. \A x \in pr'.comments : CommentSound(x)' /\ x.id <= pr'.words
    <3> SUFFICES ASSUME NEW x \in pr'.comments PROVE CommentSound(x)' /\ x.id <= pr'.words
      OBVIOUS
    <3>1. CASE x = d
      <4>1. c.id \in Nat /\ c.id <= pr.words
        BY <1>0 DEF WordsSound, CommentType
      <4>2. c.at <= now
        BY <1>0, <2>1, <2>3 DEF WordsSound, CommentSound
      <4> QED BY <1>0, <2>1, <2>3, <3>1, <4>1, <4>2 DEF CommentSound, Speakers
    <3>2. CASE x \in pr.comments
      <4>1. x.id \in Nat /\ x.id <= pr.words
        BY <1>0, <3>2 DEF WordsSound, CommentType
      <4> QED BY <1>0, <2>1, <3>2, <4>1 DEF WordsSound, CommentSound
    <3> QED BY <2>5, <3>1, <3>2
  <2>8. \A x, y \in pr'.comments : x.id = y.id => x = y
    BY <2>3, <2>5 DEF WordsSound
  <2>9. Placed'
    BY <2>4 DEF WordsSound, Placed
  <2> QED BY <2>4, <2>6, <2>7, <2>8, <2>9 DEF WordsSound
<1>4. CASE ThreadWritten
  <2>1. PICK t \in ThreadType :
          /\ scene = "thread"
          /\ pr'.threads = {t} /\ pr'.words = pr.words + 1
          /\ \A c \in Talk!InThread(t) : c \in UNION {Talk!InThread(u) : u \in pr.threads} \/ c.edited = now
          /\ Keeps(pr, pr', {"threads"})
    BY <1>4 DEF ThreadWritten
  <2>2. pr'.comments = pr.comments /\ pr'.reviews = pr.reviews
    BY <2>1 DEF Keeps
  <2>3. \A c \in Talk!InThread(t) : c.edited <= now
    BY <1>0, <2>1 DEF WordsSound
  <2>4. \A c \in pr.comments : CommentSound(c)' /\ c.id <= pr'.words
    <3> SUFFICES ASSUME NEW c \in pr.comments PROVE CommentSound(c)' /\ c.id <= pr'.words
      OBVIOUS
    <3>1. c.id \in Nat /\ c.id <= pr.words
      BY <1>0 DEF WordsSound, CommentType
    <3> QED BY <1>0, <2>1, <3>1 DEF WordsSound, CommentSound
  <2>5. Placed'
    BY <2>1, <2>2 DEF WordsSound, Placed
  <2> QED BY <2>1, <2>2, <2>3, <2>4, <2>5 DEF WordsSound
<1>5. CASE ReviewAdded
  <2>1. PICK r \in ReviewType :
          /\ scene \in {"two-owners", "wait"} /\ r.at = now
          /\ pr'.reviews = Append(pr.reviews, r) /\ pr'.words = pr.words
          /\ Keeps(pr, pr', {"reviews"})
    BY <1>5 DEF ReviewAdded
  <2>2. pr'.comments = pr.comments /\ pr'.threads = pr.threads
    BY <2>1 DEF Keeps
  <2>3. \A i \in DOMAIN pr'.reviews : pr'.reviews[i].at <= now
    <3>1. pr.reviews \in Seq(ReviewType)
      BY <1>0 DEF PrType
    <3>2. \A i \in DOMAIN pr'.reviews : pr'.reviews[i] = r \/ (i \in DOMAIN pr.reviews /\ pr'.reviews[i] = pr.reviews[i])
      BY <2>1, <3>1
    <3> QED BY <1>0, <2>1, <3>2 DEF WordsSound
  <2>4. Placed'
    BY <2>1, <2>2 DEF WordsSound, Placed
  <2> QED BY <2>1, <2>2, <2>3, <2>4 DEF WordsSound, CommentSound
<1> QED BY <1>1, <1>2, <1>3, <1>4, <1>5

\* Something happens to the pull request; the watermarks stay as they are.
Happened ==
  \/ CommentAdded \/ CommentEdited \/ ThreadWritten \/ ReviewAdded
  \/ Keeps(pr, pr', {"head", "committed", "checks", "waivers", "marks"}) /\ pr'.words = pr.words

\* The watermarks have seen what they have seen.
LEMMA MarksStay ==
  ASSUME Known, pr' \in PrType, UNCHANGED Others, Happened, NEW m, m.count \in Nat, m.max \in Nat, MarkSound(m)
  PROVE  MarkSound(m)'
  BY MarkStays DEF Known, Happened, Others

\* All of them.
LEMMA AllMarksStay ==
  ASSUME Known, pr' \in PrType, UNCHANGED Others, Happened, pr'.marks = pr.marks
  PROVE  MarksSound'
<1>1. ASSUME NEW i \in DOMAIN pr'.marks PROVE MarkSound(pr.marks[i])'
  <2>1. PICK m : m = pr.marks[i]
    OBVIOUS
  <2>2. pr.marks \in Seq(MarkType) /\ i \in DOMAIN pr.marks
    BY DEF Known, TypesSound, PrType
  <2>3. m \in MarkType /\ MarkSound(m)
    BY <2>1, <2>2 DEF Known, MarksSound
  <2>4. m.count \in Nat /\ m.max \in Nat
    BY <2>3 DEF MarkType
  <2>5. MarkSound(m)'
    BY <2>3, <2>4, MarksStay
  <2>6. pr'.marks[i] = m
    BY <2>1
  <2> QED BY <2>5, <2>6 DEF MarkSound, CommentsSeen, ThreadsSeen, ReviewsSeen
<1>2. ASSUME seen' # NoView PROVE MarkSound([max |-> seen.live.max, count |-> seen.live.count, words |-> seen.words])'
  <2>1. seen' = seen
    BY DEF Others
  <2>2. PICK m : m = [max |-> seen.live.max, count |-> seen.live.count, words |-> seen.words]
    OBVIOUS
  <2>3. MarkSound(m) /\ m.count \in Nat /\ m.max \in Nat
    BY <1>2, <2>1, <2>2 DEF Known, MarksSound
  <2>4. MarkSound(m)'
    BY <2>3, MarksStay
  <2> QED BY <2>1, <2>2, <2>4 DEF MarkSound, CommentsSeen, ThreadsSeen, ReviewsSeen
<1> QED BY <1>1, <1>2 DEF MarksSound, Others, Known

\* What happens to the pull request while people, bots and the agent talk, and while
\* commits, runs and waivers come.
LEMMA TalkStep ==
  ASSUME Known, World \/ Answer \/ Settle, ~ Takeover
  PROVE  Known' /\ UNCHANGED Others /\ Grown
<1>0. pr \in PrType /\ now \in Nat /\ Placed /\ pr.reviews \in Seq(ReviewType) /\ pr.marks \in Seq(MarkType)
  BY DEF Known, TypesSound, WordsSound, PrType
<1>1. /\ pr' \in PrType /\ UNCHANGED Others /\ Happened /\ pr'.marks = pr.marks
      /\ CommitSound'
      /\ pr'.reviews = pr.reviews \/ \E r : pr'.reviews = Append(pr.reviews, r)
  <2>1. CASE Push \/ BaseMoves \/ StartCheck \/ EndCheck \/ Waive
    <3>1. pr' \in PrType /\ UNCHANGED Others /\ NothingSaid /\ CommitSound'
      BY <2>1, CommitDoes DEF Known
    <3>2. pr'.marks = pr.marks /\ pr'.reviews = pr.reviews /\ Happened
      BY <3>1 DEF NothingSaid, Keeps, Happened
    <3> QED BY <3>1, <3>2
  <2>2. CASE ~ (Push \/ BaseMoves \/ StartCheck \/ EndCheck \/ Waive)
    <3>1. pr' \in PrType /\ UNCHANGED Others /\ (CommentAdded \/ CommentEdited \/ ThreadWritten \/ ReviewAdded)
      <4>1. \/ Comment \/ Answer \/ Edit \/ Reply \/ Settle \/ Review \/ PrimaryAnswers
        BY <2>2 DEF World
      <4> QED BY <1>0, <4>1, CommentDoes, EditDoes, ThreadDoes, ReviewDoes
    <3>2. /\ pr'.marks = pr.marks /\ pr'.checks = pr.checks /\ pr'.committed = pr.committed /\ pr'.waivers = pr.waivers
          /\ pr'.reviews = pr.reviews \/ \E r : pr'.reviews = Append(pr.reviews, r)
      BY <3>1 DEF CommentAdded, CommentEdited, ThreadWritten, ReviewAdded, Keeps
    <3>3. CommitSound'
      BY <3>1, <3>2 DEF Known, CommitSound, ChecksSound, Others
    <3> QED BY <3>1, <3>2, <3>3 DEF Happened
  <2> QED BY <2>1, <2>2
<1>2. UNCHANGED <<now, scene>>
  BY <1>1 DEF Others
<1>3. WordsSound'
  BY <1>1, <1>2, WordsStay DEF Known, Happened
<1>4. MarksSound'
  BY <1>1, AllMarksStay
<1>5. TypesSound'
  BY <1>1, <1>2 DEF Known, TypesSound
<1>6. Grown
  BY <1>0, <1>1 DEF Grown
<1> QED BY <1>1, <1>3, <1>4, <1>5, <1>6 DEF Known

\* The pull request is the same in the next second.
LEMMA TickStep ==
  ASSUME Known, Tick
  PROVE  Known' /\ Grown
<1>1. now \in Nat \ {0} /\ now' = now + 1 /\ pr' = pr /\ scene' = scene /\ seen' = seen /\ pr \in PrType
  BY DEF Tick, Known, TypesSound
<1>2. TypesSound'
  BY <1>1 DEF TypesSound
<1>3. CommitSound'
  <2>1. \A c \in pr.checks : c.done \in Nat /\ c.done <= now
    BY <1>1 DEF Known, CommitSound, ChecksSound, PrType, CheckType
  <2> QED BY <1>1, <2>1 DEF Known, CommitSound, ChecksSound
<1>4. WordsSound'
  <2>1. \A c \in pr.comments : c.edited \in Nat
    BY <1>1 DEF PrType, CommentType
  <2>2. \A t \in pr.threads : \A c \in Talk!InThread(t) : c.edited \in Nat
    <3> SUFFICES ASSUME NEW t \in pr.threads, NEW c \in Talk!InThread(t) PROVE c.edited \in Nat
      OBVIOUS
    <3>1. t.comments \in Seq(CommentType)
      BY <1>1 DEF PrType, ThreadType
    <3>2. c \in CommentType
      BY <3>1 DEF Talk!InThread
    <3> QED BY <3>2 DEF CommentType
  <2>3. \A i \in DOMAIN pr.reviews : pr.reviews[i].at \in Nat
    <3> SUFFICES ASSUME NEW i \in DOMAIN pr.reviews PROVE pr.reviews[i].at \in Nat
      OBVIOUS
    <3>1. pr.reviews[i] \in ReviewType
      BY <1>1 DEF PrType
    <3> QED BY <3>1 DEF ReviewType
  <2>4. \A x \in Nat : x <= now => x <= now'
    BY <1>1
  <2>5. \A c \in pr.comments : CommentSound(c)' /\ c.id <= pr.words
    BY <1>1, <2>1, <2>4 DEF Known, WordsSound, CommentSound
  <2>6. \A t \in pr.threads : \A c \in Talk!InThread(t) : c.edited <= now'
    BY <2>2, <2>4 DEF Known, WordsSound
  <2>7. \A i \in DOMAIN pr.reviews : pr.reviews[i].at <= now'
    BY <2>3, <2>4 DEF Known, WordsSound
  <2> QED BY <1>1, <2>5, <2>6, <2>7 DEF Known, WordsSound, Placed
<1>5. ASSUME NEW m, m.max \in Nat, MarkSound(m) PROVE MarkSound(m)'
  <2>1. m.max <= now'
    BY <1>1, <1>5 DEF MarkSound
  <2> QED BY <1>1, <1>5, <2>1 DEF MarkSound, CommentsSeen, ThreadsSeen, ReviewsSeen
<1>6. MarksSound'
  <2>1. ASSUME NEW i \in DOMAIN pr.marks PROVE MarkSound(pr.marks[i])'
    <3>1. PICK m : m = pr.marks[i]
      OBVIOUS
    <3>2. pr.marks \in Seq(MarkType)
      BY <1>1 DEF PrType
    <3>3. m \in MarkType /\ MarkSound(m)
      BY <3>1, <3>2 DEF Known, MarksSound
    <3>4. MarkSound(m)'
      BY <1>5, <3>3 DEF MarkType
    <3> QED BY <1>1, <3>1, <3>4 DEF MarkSound, CommentsSeen, ThreadsSeen, ReviewsSeen
  <2>2. ASSUME seen # NoView
        PROVE  MarkSound([max |-> seen.live.max, count |-> seen.live.count, words |-> seen.words])'
    <3>1. PICK m : m = [max |-> seen.live.max, count |-> seen.live.count, words |-> seen.words]
      OBVIOUS
    <3>2. MarkSound(m) /\ m.max \in Nat
      BY <2>2, <3>1 DEF Known, MarksSound
    <3>3. MarkSound(m)'
      BY <1>5, <3>2
    <3> QED BY <1>1, <3>1, <3>3 DEF MarkSound, CommentsSeen, ThreadsSeen, ReviewsSeen
  <2> QED BY <1>1, <2>1, <2>2 DEF Known, MarksSound
<1>7. Grown
  BY <1>1, LenProperties DEF Grown, PrType
<1> QED BY <1>2, <1>3, <1>4, <1>6, <1>7 DEF Known

\* The agent takes a snapshot of the activity.
LEMMA ReadActivityStep ==
  ASSUME Known, ReadActivity
  PROVE  Known' /\ Grown
<1>1. /\ pr' = pr /\ now' = now /\ scene' = scene /\ pr \in PrType
      /\ seen' = [head |-> pr.head, live |-> Activity(pr.comments, pr.reviews, pr.threads, pr), words |-> Words(pr)]
  BY DEF ReadActivity, Known, TypesSound
<1>2. TypesSound' /\ CommitSound' /\ WordsSound'
  BY <1>1 DEF Known, TypesSound, CommitSound, ChecksSound, WordsSound, Placed, CommentSound
<1>3. PICK a : a = Activity(pr.comments, pr.reviews, pr.threads, pr)
  OBVIOUS
<1>4. a.count \in Nat /\ a.max \in Nat /\ a.passing \in Nat
  BY <1>3, ActivityIs DEF Known
<1>5. PICK w : w = Words(pr)
  OBVIOUS
<1>6. w \subseteq CommentType \union ReviewType
  BY <1>1, <1>5, WordsAre
<1>7. PICK m : m = [max |-> a.max, count |-> a.count, words |-> w]
  OBVIOUS
<1>8. MarkSound(m)
  BY <1>3, <1>5, <1>7, FreshMark DEF Known
<1>9. MarkSound(m)'
  BY <1>1, <1>8 DEF MarkSound, CommentsSeen, ThreadsSeen, ReviewsSeen
<1>10. seen'.head \in Nat /\ seen'.live = a /\ seen'.words = w
  BY <1>1, <1>3, <1>5 DEF PrType
<1>11. MarkSound([max |-> seen.live.max, count |-> seen.live.count, words |-> seen.words])'
  BY <1>7, <1>9, <1>10 DEF MarkSound, CommentsSeen, ThreadsSeen, ReviewsSeen
<1>12. \A i \in DOMAIN pr.marks : MarkSound(pr.marks[i])'
  BY <1>1 DEF Known, MarksSound, MarkSound, CommentsSeen, ThreadsSeen, ReviewsSeen
<1>13. MarksSound'
  BY <1>1, <1>4, <1>6, <1>10, <1>11, <1>12 DEF MarksSound
<1>14. Grown
  BY <1>1, LenProperties DEF Grown, PrType
<1> QED BY <1>2, <1>13, <1>14 DEF Known

\* A watermark that is sound is added, or none.
LEMMA MarkAddedStep ==
  ASSUME Known, UNCHANGED <<now, scene>>, pr' \in PrType,
         NEW m \in MarkType, MarkSound(m),
         pr'.marks = pr.marks \/ pr'.marks = Append(pr.marks, m),
         Keeps(pr, pr', {"marks"}), pr'.words = pr.words,
         seen' = seen \/ seen' = NoView
  PROVE  Known' /\ Grown
<1>1. pr \in PrType /\ pr.marks \in Seq(MarkType) /\ pr.reviews \in Seq(ReviewType)
  BY DEF Known, TypesSound, PrType
<1>2. /\ pr'.comments = pr.comments /\ pr'.threads = pr.threads /\ pr'.reviews = pr.reviews
      /\ pr'.checks = pr.checks /\ pr'.waivers = pr.waivers /\ pr'.committed = pr.committed
  BY DEF Keeps
<1>3. TypesSound' /\ CommitSound' /\ WordsSound'
  BY <1>2 DEF Known, TypesSound, CommitSound, ChecksSound, WordsSound, Placed, CommentSound
<1>4. ASSUME NEW w, MarkSound(w) PROVE MarkSound(w)'
  BY <1>2, <1>4 DEF MarkSound, CommentsSeen, ThreadsSeen, ReviewsSeen
<1>5. \A i \in DOMAIN pr'.marks : pr'.marks[i] = m \/ (i \in DOMAIN pr.marks /\ pr'.marks[i] = pr.marks[i])
  BY <1>1
<1>6. ASSUME NEW i \in DOMAIN pr'.marks PROVE MarkSound(pr.marks[i])'
  <2>1. PICK w : w = pr'.marks[i]
    OBVIOUS
  <2>2. MarkSound(w)
    BY <1>5, <2>1 DEF Known, MarksSound
  <2>3. MarkSound(w)'
    BY <1>4, <2>2
  <2> QED BY <2>1, <2>3 DEF MarkSound, CommentsSeen, ThreadsSeen, ReviewsSeen
<1>7. ASSUME seen' # NoView
      PROVE  MarkSound([max |-> seen.live.max, count |-> seen.live.count, words |-> seen.words])'
  <2>1. PICK w : w = [max |-> seen.live.max, count |-> seen.live.count, words |-> seen.words]
    OBVIOUS
  <2>2. seen' = seen /\ seen # NoView
    BY <1>7
  <2>3. MarkSound(w)
    BY <2>1, <2>2 DEF Known, MarksSound
  <2>4. MarkSound(w)'
    BY <1>4, <2>3
  <2> QED BY <2>1, <2>2, <2>4 DEF MarkSound, CommentsSeen, ThreadsSeen, ReviewsSeen
<1>8. MarksSound'
  BY <1>6, <1>7 DEF Known, MarksSound
<1>9. Grown
  BY <1>1, <1>2, LenProperties DEF Grown
<1> QED BY <1>3, <1>8, <1>9 DEF Known

\* What an agent writes into a watermark.
LEMMA MarkIs ==
  ASSUME Known, NEW claim \in {"mine", "theirs"}, NEW s, s.head \in Nat, s.live.max \in Nat, s.live.count \in Nat,
         s.live.passing \in Nat, s.words \subseteq CommentType \union ReviewType
  PROVE  /\ Mark(claim, s) \in MarkType
         /\ Mark(claim, s).max = s.live.max /\ Mark(claim, s).count = s.live.count
         /\ Mark(claim, s).words = s.words
<1>1. Len(pr.marks) + 1 \in Nat
  BY LenProperties DEF Known, TypesSound, PrType
<1> QED BY <1>1 DEF Mark, MarkType

\* The agent records what it has read.
LEMMA RecordStep ==
  ASSUME Known, RecordWatermark
  PROVE  Known' /\ Grown
<1>1. /\ UNCHANGED <<now, scene>> /\ seen # NoView /\ seen' = NoView
      /\ pr' = pr \/ pr' = [pr EXCEPT !.marks = Append(@, Mark("mine", seen))]
  BY DEF RecordWatermark
<1>2. /\ seen.head \in Nat /\ seen.live.max \in Nat /\ seen.live.count \in Nat /\ seen.live.passing \in Nat
      /\ seen.words \subseteq CommentType \union ReviewType
  BY <1>1 DEF Known, MarksSound
<1>3. PICK m : m = Mark("mine", seen)
  OBVIOUS
<1>4. m \in MarkType /\ m.max = seen.live.max /\ m.count = seen.live.count /\ m.words = seen.words
  BY <1>2, <1>3, MarkIs
<1>5. MarkSound(m)
  BY <1>1, <1>4 DEF Known, MarksSound, MarkSound, CommentsSeen, ThreadsSeen, ReviewsSeen
<1>6. pr \in PrType /\ pr.marks \in Seq(MarkType)
  BY DEF Known, TypesSound, PrType
<1>7. PICK M : M = Append(pr.marks, m)
  OBVIOUS
<1>8. M \in Seq(MarkType)
  BY <1>4, <1>6, <1>7
<1> DEFINE q == [pr EXCEPT !.marks = M]
<1>9. q \in PrType /\ q.words = pr.words /\ q.marks = M /\ Keeps(pr, q, {"marks"})
  BY <1>6, <1>8, SetMarks
<1>10. pr' = pr \/ pr' = q
  BY <1>1, <1>3, <1>7
<1>11. Keeps(pr, pr, {"marks"})
  BY DEF Keeps
<1> HIDE DEF q
<1>12. /\ pr' \in PrType /\ pr'.words = pr.words /\ Keeps(pr, pr', {"marks"})
       /\ pr'.marks = pr.marks \/ pr'.marks = Append(pr.marks, m)
  BY <1>6, <1>7, <1>9, <1>10, <1>11
<1> QED BY <1>1, <1>4, <1>5, <1>12, MarkAddedStep

\* Another session records under its own claim.
LEMMA TakeoverStep ==
  ASSUME Known, Takeover
  PROVE  Known' /\ Grown /\ UNCHANGED Others
<1>1. PICK s : s = [head |-> pr.head, words |-> Words(pr), live |-> Activity(pr.comments, pr.reviews, pr.threads, pr)]
  OBVIOUS
<1>2. /\ UNCHANGED Others
      /\ pr' = [pr EXCEPT !.claim = "theirs", !.marks = Append(@, Mark("theirs", s))]
  BY <1>1 DEF Takeover, Happens, Others
<1>3. pr \in PrType /\ pr.marks \in Seq(MarkType) /\ pr.head \in Nat
  BY DEF Known, TypesSound, PrType
<1>4. s.live = Activity(pr.comments, pr.reviews, pr.threads, pr) /\ s.words = Words(pr) /\ s.head \in Nat
  BY <1>1, <1>3
<1>5. s.live.max \in Nat /\ s.live.count \in Nat /\ s.live.passing \in Nat
  BY <1>4, ActivityIs DEF Known
<1>6. s.words \subseteq CommentType \union ReviewType
  BY <1>3, <1>4, WordsAre
<1>7. PICK m : m = Mark("theirs", s)
  OBVIOUS
<1>8. m \in MarkType /\ m.max = s.live.max /\ m.count = s.live.count /\ m.words = s.words
  BY <1>4, <1>5, <1>6, <1>7, MarkIs
<1>9. MarkSound(m)
  BY <1>4, <1>8, FreshMark DEF Known
<1>10. PICK M : M = Append(pr.marks, m)
  OBVIOUS
<1>11. M \in Seq(MarkType)
  BY <1>3, <1>8, <1>10
<1> DEFINE q == [pr EXCEPT !.claim = "theirs", !.marks = M]
<1>12. q \in PrType /\ q.words = pr.words /\ q.marks = M /\ Keeps(pr, q, {"marks"})
  BY <1>3, <1>11, SetMarks
<1>13. pr' = q
  BY <1>2, <1>7, <1>10
<1> HIDE DEF q
<1>14. /\ pr' \in PrType /\ pr'.words = pr.words /\ Keeps(pr, pr', {"marks"})
       /\ pr'.marks = Append(pr.marks, m)
  BY <1>10, <1>12, <1>13
<1>15. UNCHANGED <<now, scene>> /\ seen' = seen
  BY <1>2 DEF Others
<1> QED BY <1>2, <1>8, <1>9, <1>14, <1>15, MarkAddedStep

\* The command looks, and leaves things alone.
LEMMA CommandStep ==
  ASSUME Known, UNCHANGED <<now, scene, pr, seen>>
  PROVE  Known' /\ Grown
<1>1. TypesSound' /\ CommitSound' /\ WordsSound'
  BY DEF Known, TypesSound, CommitSound, ChecksSound, WordsSound, Placed, CommentSound
<1>2. MarksSound'
  BY DEF Known, MarksSound, MarkSound, CommentsSeen, ThreadsSeen, ReviewsSeen
<1>3. Grown
  BY LenProperties DEF Grown, PrType, Known, TypesSound
<1> QED BY <1>1, <1>2, <1>3 DEF Known

-----------------------------------------------------------------------------
(* Every step keeps what is known of the command's view.                   *)

\* The view stays what it was while the pull request grows.
LEMMA ViewStays ==
  ASSUME Known, Known', ViewSound, Grown, now' = now \/ now' = now + 1, UNCHANGED <<scene, view, expected, phase>>
  PROVE  ViewSound'
<1>1. now \in Nat /\ pr \in PrType /\ pr.reviews \in Seq(ReviewType) /\ \A x \in Nat : x <= now => x <= now'
  BY DEF Known, TypesSound, PrType
<1>2. HeadView'
  <2> SUFFICES ASSUME phase \in {"reviews", "comments", "threads", "judge"} PROVE HeadView'
    BY DEF HeadView
  <2>1. view.checks \subseteq CheckType /\ ChecksSound(view.checks)
    BY DEF ViewSound, HeadView
  <2>2. \A c \in view.checks : c.done \in Nat
    BY <2>1 DEF CheckType
  <2>3. \A c \in view.checks : c.done <= now'
    BY <1>1, <2>1, <2>2 DEF ChecksSound
  <2> QED BY <2>1, <2>3 DEF ViewSound, HeadView, ChecksSound
<1>3. ReviewsView'
  <2> SUFFICES ASSUME phase \in {"comments", "threads", "judge"} PROVE ReviewsView'
    BY DEF ReviewsView
  <2>1. /\ "reviews" \in DOMAIN view
        /\ view.reviews \in Seq(ReviewType)
        /\ view.reviews # <<>> => scene \in {"two-owners", "wait"}
        /\ Len(view.reviews) <= Len(pr.reviews)
        /\ \A i \in DOMAIN view.reviews : view.reviews[i] = pr.reviews[i] /\ view.reviews[i].at <= now
    BY DEF ViewSound, ReviewsView
  <2>2. \A i \in DOMAIN view.reviews : i \in DOMAIN pr.reviews
    BY <1>1, <2>1
  <2>3. \A i \in DOMAIN view.reviews : view.reviews[i] = pr'.reviews[i]
    BY <2>1, <2>2 DEF Grown
  <2>4. Len(view.reviews) <= Len(pr'.reviews)
    <3>1. Len(view.reviews) \in Nat /\ Len(pr.reviews) \in Nat
      BY <1>1, <2>1, LenProperties
    <3>2. Len(pr'.reviews) \in Nat
      BY LenProperties DEF Known, TypesSound, PrType
    <3> QED BY <2>1, <3>1, <3>2 DEF Grown
  <2>5. \A i \in DOMAIN view.reviews : view.reviews[i].at <= now'
    <3> SUFFICES ASSUME NEW i \in DOMAIN view.reviews PROVE view.reviews[i].at <= now'
      OBVIOUS
    <3>1. view.reviews[i] \in ReviewType /\ view.reviews[i].at <= now
      BY <2>1
    <3>2. view.reviews[i].at \in Nat
      BY <3>1 DEF ReviewType
    <3> QED BY <1>1, <3>1, <3>2
  <2> QED BY <2>1, <2>3, <2>4, <2>5 DEF ReviewsView
<1>4. CommentsView'
  <2> SUFFICES ASSUME phase \in {"threads", "judge"} PROVE CommentsView'
    BY DEF CommentsView
  <2>1. \A c \in view.comments : CommentSound(c) /\ c.edited \in Nat
    BY DEF ViewSound, CommentsView, CommentType
  <2>2. \A c \in view.comments : CommentSound(c)'
    BY <1>1, <2>1 DEF CommentSound
  <2>3. \A i \in DOMAIN view.marks : /\ \E j \in DOMAIN pr'.marks : view.marks[i] = pr'.marks[j]
                                     /\ CommentsSeen(view.marks[i], view.comments)'
                                     /\ ReviewsSeen(view.marks[i], view.reviews)'
    BY DEF ViewSound, CommentsView, Grown, CommentsSeen, ReviewsSeen
  <2> QED BY <2>2, <2>3 DEF ViewSound, CommentsView
<1>5. ThreadsView'
  <2> SUFFICES ASSUME phase = "judge" PROVE ThreadsView'
    BY DEF ThreadsView
  <2>1. \A t \in view.threads : \A c \in Talk!InThread(t) : c.edited \in Nat
    <3> SUFFICES ASSUME NEW t \in view.threads, NEW c \in Talk!InThread(t) PROVE c.edited \in Nat
      OBVIOUS
    <3>1. t.comments \in Seq(CommentType)
      BY DEF ViewSound, ThreadsView, ThreadType
    <3>2. c \in CommentType
      BY <3>1 DEF Talk!InThread
    <3> QED BY <3>2 DEF CommentType
  <2>2. \A t \in view.threads : \A c \in Talk!InThread(t) : c.edited <= now'
    BY <1>1, <2>1 DEF ViewSound, ThreadsView
  <2> QED BY <2>2 DEF ViewSound, ThreadsView, ThreadsSeen
<1> QED BY <1>2, <1>3, <1>4, <1>5 DEF ViewSound

\* A round begins with the head.
LEMMA SnapshotReads ==
  ASSUME Known, ReadSnapshot
  PROVE  ViewSound'
<1>1. /\ UNCHANGED <<now, scene, pr>> /\ phase' = "reviews" /\ expected' = pr.head
      /\ view' = [head |-> pr.head, committed |-> pr.committed, checks |-> pr.checks,
                  behind |-> pr.behind, blocked |-> Protected(pr), decision |-> Decision(pr)]
  BY DEF ReadSnapshot, Goto
<1> DEFINE blocked == Protected(pr)
           decision == Decision(pr)
<1> HIDE DEF blocked, decision
<1>2. view' = [head |-> pr.head, committed |-> pr.committed, checks |-> pr.checks,
               behind |-> pr.behind, blocked |-> blocked, decision |-> decision]
  BY <1>1 DEF blocked, decision
<1>3. /\ {"head", "committed", "checks"} \subseteq DOMAIN view'
      /\ view'.head = pr.head /\ view'.committed = pr.committed /\ view'.checks = pr.checks
  BY <1>2
<1>4. pr.committed \in Nat \ {0} /\ pr.checks \subseteq CheckType /\ ChecksSound(pr.checks)
  BY DEF Known, TypesSound, PrType, CommitSound
<1>5. HeadView'
  BY <1>1, <1>3, <1>4 DEF HeadView, ChecksSound
<1> QED BY <1>1, <1>5 DEF ViewSound, ReviewsView, CommentsView, ThreadsView

\* The reviews come next.
LEMMA ReviewsRead ==
  ASSUME Known, ViewSound, ReadReviews
  PROVE  ViewSound'
<1>1. PICK f : f = [reviews |-> pr.reviews, listed |-> pr.listed, timeline |-> pr.timeline]
  OBVIOUS
<1>2. /\ UNCHANGED <<now, scene, pr, expected>> /\ phase = "reviews" /\ phase' = "comments"
      /\ view' = Reading(f)
  BY <1>1 DEF ReadReviews, Goto
<1>3. DOMAIN f = {"reviews", "listed", "timeline"} /\ f.reviews = pr.reviews
  BY <1>1
<1>4. /\ DOMAIN view' = DOMAIN f \union DOMAIN view
      /\ \A x \in DOMAIN f : view'[x] = f[x]
      /\ \A x \in DOMAIN view \ DOMAIN f : view'[x] = view[x]
  BY <1>2, Adding
<1>5. {"head", "committed", "checks"} \subseteq DOMAIN view
  BY <1>2 DEF ViewSound, HeadView
<1>6. /\ view'.head = view.head /\ view'.committed = view.committed /\ view'.checks = view.checks
      /\ view'.reviews = pr.reviews
  BY <1>3, <1>4, <1>5
<1>7. HeadView'
  BY <1>2, <1>4, <1>5, <1>6 DEF ViewSound, HeadView, ChecksSound
<1>8. pr.reviews \in Seq(ReviewType)
  BY DEF Known, TypesSound, PrType
<1>9. ReviewsView'
  <2>1. "reviews" \in DOMAIN view'
    BY <1>3, <1>4
  <2>2. Len(pr.reviews) <= Len(pr.reviews)
    BY <1>8, LenProperties
  <2> QED BY <1>2, <1>6, <1>8, <2>1, <2>2 DEF ReviewsView, Known, WordsSound, Placed
<1> QED BY <1>2, <1>7, <1>9 DEF ViewSound, CommentsView, ThreadsView

\* Then the comments of the pull request and of the issue.
LEMMA CommentsRead ==
  ASSUME Known, ViewSound, ReadComments
  PROVE  ViewSound'
<1>1. PICK f : f = [comments |-> pr.comments, waivers |-> pr.waivers, marks |-> pr.marks,
                    markers |-> pr.markers, claim |-> pr.claim]
  OBVIOUS
<1>2. /\ UNCHANGED <<now, scene, pr, expected>> /\ phase = "comments" /\ phase' = "threads"
      /\ view' = Reading(f)
  BY <1>1 DEF ReadComments, Goto
<1>3. /\ DOMAIN f = {"comments", "waivers", "marks", "markers", "claim"}
      /\ f.comments = pr.comments /\ f.waivers = pr.waivers /\ f.marks = pr.marks /\ f.markers = pr.markers
  BY <1>1
<1>4. /\ DOMAIN view' = DOMAIN f \union DOMAIN view
      /\ \A x \in DOMAIN f : view'[x] = f[x]
      /\ \A x \in DOMAIN view \ DOMAIN f : view'[x] = view[x]
  BY <1>2, Adding
<1>5. {"head", "committed", "checks", "reviews"} \subseteq DOMAIN view
  BY <1>2 DEF ViewSound, HeadView, ReviewsView
<1>6. /\ view'.head = view.head /\ view'.committed = view.committed /\ view'.checks = view.checks
      /\ view'.reviews = view.reviews
      /\ view'.comments = pr.comments /\ view'.waivers = pr.waivers /\ view'.marks = pr.marks
      /\ view'.markers = pr.markers
  BY <1>3, <1>4, <1>5
<1>7. HeadView'
  BY <1>2, <1>4, <1>5, <1>6 DEF ViewSound, HeadView, ChecksSound
<1>8. ReviewsView'
  BY <1>2, <1>4, <1>5, <1>6 DEF ViewSound, ReviewsView
<1>9. /\ pr.comments \subseteq CommentType /\ pr.waivers \subseteq WaiverType /\ pr.markers \subseteq MarkerType
      /\ pr.marks \in Seq(MarkType) /\ pr.reviews \in Seq(ReviewType)
  BY DEF Known, TypesSound, PrType
<1>10. ASSUME NEW i \in DOMAIN pr.marks
       PROVE  CommentsSeen(pr.marks[i], pr.comments) /\ ReviewsSeen(pr.marks[i], view.reviews)
  <2>1. MarkSound(pr.marks[i])
    BY DEF Known, MarksSound
  <2>2. \A j \in DOMAIN view.reviews : j \in DOMAIN pr.reviews /\ view.reviews[j] = pr.reviews[j]
    <3>1. /\ view.reviews \in Seq(ReviewType) /\ Len(view.reviews) <= Len(pr.reviews)
          /\ \A j \in DOMAIN view.reviews : view.reviews[j] = pr.reviews[j]
      BY <1>2 DEF ViewSound, ReviewsView
    <3> QED BY <1>9, <3>1
  <2> QED BY <2>1, <2>2 DEF MarkSound, ReviewsSeen
<1>11. CommentsView'
  <2>1. {"comments", "waivers", "marks", "markers"} \subseteq DOMAIN view'
    BY <1>3, <1>4
  <2>2. /\ IsFiniteSet(pr.comments) /\ (pr.comments # {} => scene = "comments")
        /\ \A c \in pr.comments : CommentSound(c)'
        /\ \A c, d \in pr.comments : c.id = d.id => c = d
    BY <1>2 DEF Known, WordsSound, Placed, CommentSound
  <2>3. \A w, x \in pr.waivers : w = x
    BY DEF Known, CommitSound
  <2>4. \A i \in DOMAIN view'.marks : /\ \E j \in DOMAIN pr'.marks : view'.marks[i] = pr'.marks[j]
                                      /\ CommentsSeen(view.marks[i], view.comments)'
                                      /\ ReviewsSeen(view.marks[i], view.reviews)'
    BY <1>2, <1>6, <1>10 DEF CommentsSeen, ReviewsSeen
  <2> QED BY <1>2, <1>6, <1>9, <2>1, <2>2, <2>3, <2>4 DEF CommentsView
<1> QED BY <1>2, <1>7, <1>8, <1>11 DEF ViewSound, ThreadsView

\* The threads come last.
LEMMA ThreadsRead ==
  ASSUME Known, ViewSound, ReadThreads
  PROVE  ViewSound'
<1>1. PICK f : f = [threads |-> pr.threads, now |-> now]
  OBVIOUS
<1>2. /\ UNCHANGED <<now, scene, pr, expected>> /\ phase = "threads" /\ phase' = "judge"
      /\ view' = Reading(f)
  BY <1>1 DEF ReadThreads, Goto
<1>3. DOMAIN f = {"threads", "now"} /\ f.threads = pr.threads
  BY <1>1
<1>4. /\ DOMAIN view' = DOMAIN f \union DOMAIN view
      /\ \A x \in DOMAIN f : view'[x] = f[x]
      /\ \A x \in DOMAIN view \ DOMAIN f : view'[x] = view[x]
  BY <1>2, Adding
<1>5. {"head", "committed", "checks", "reviews", "comments", "waivers", "marks", "markers"} \subseteq DOMAIN view
  BY <1>2 DEF ViewSound, HeadView, ReviewsView, CommentsView
<1>6. /\ view'.head = view.head /\ view'.committed = view.committed /\ view'.checks = view.checks
      /\ view'.reviews = view.reviews
      /\ view'.comments = view.comments /\ view'.waivers = view.waivers /\ view'.marks = view.marks
      /\ view'.markers = view.markers /\ view'.threads = pr.threads
  BY <1>3, <1>4, <1>5
<1>7. HeadView'
  BY <1>2, <1>4, <1>5, <1>6 DEF ViewSound, HeadView, ChecksSound
<1>8. ReviewsView'
  BY <1>2, <1>4, <1>5, <1>6 DEF ViewSound, ReviewsView
<1>9. CommentsView'
  BY <1>2, <1>4, <1>5, <1>6 DEF ViewSound, CommentsView, CommentSound, CommentsSeen, ReviewsSeen
<1>10. ThreadsView'
  <2>1. {"threads", "now"} \subseteq DOMAIN view'
    BY <1>3, <1>4
  <2>2. pr.threads \subseteq ThreadType
    BY DEF Known, TypesSound, PrType
  <2>3. /\ \A t, u \in pr.threads : t = u
        /\ pr.threads # {} => scene = "thread"
        /\ \A t \in pr.threads : \A c \in Talk!InThread(t) : c.edited <= now
    BY DEF Known, WordsSound, Placed
  <2>4. \A i \in DOMAIN view.marks : ThreadsSeen(view.marks[i], pr.threads)
    <3> SUFFICES ASSUME NEW i \in DOMAIN view.marks PROVE ThreadsSeen(view.marks[i], pr.threads)
      OBVIOUS
    <3>1. PICK j \in DOMAIN pr.marks : view.marks[i] = pr.marks[j]
      BY <1>2 DEF ViewSound, CommentsView
    <3> QED BY <3>1 DEF Known, MarksSound, MarkSound
  <2> QED BY <1>2, <1>6, <2>1, <2>2, <2>3, <2>4 DEF ThreadsView, ThreadsSeen
<1> QED BY <1>7, <1>8, <1>9, <1>10 DEF ViewSound

-----------------------------------------------------------------------------
(* What follows from a view that passes the gates.                         *)

\* A claim has at most one latest watermark.
LEMMA OneWatermark ==
  ASSUME NEW marks \in Seq(MarkType)
  PROVE  /\ \A w, x \in Talk!ResolveLatestReviewWatermark(marks, "mine") : w = x
         /\ \A w \in Talk!ResolveLatestReviewWatermark(marks, "mine") : \E i \in DOMAIN marks : w = marks[i]
<1> DEFINE own == {i \in DOMAIN marks : marks[i].author \in {agent} /\ marks[i].claim = "mine"}
           last == {j \in own : \A k \in own : \/ marks[k].at < marks[j].at
                                               \/ marks[k].at = marks[j].at /\ j <= k}
<1>1. Talk!ResolveLatestReviewWatermark(marks, "mine") = {marks[i] : i \in last}
  BY DEF Talk!ResolveLatestReviewWatermark
<1>2. last \subseteq DOMAIN marks
  OBVIOUS
<1>3. \A i, j \in last : i = j
  <2> SUFFICES ASSUME NEW i \in last, NEW j \in last PROVE i = j
    OBVIOUS
  <2>1. i \in Nat /\ j \in Nat /\ marks[i] \in MarkType /\ marks[j] \in MarkType
    OBVIOUS
  <2>2. marks[i].at \in Nat /\ marks[j].at \in Nat
    BY <2>1 DEF MarkType
  <2>3. marks[j].at < marks[i].at \/ (marks[j].at = marks[i].at /\ i <= j)
    OBVIOUS
  <2>4. marks[i].at < marks[j].at \/ (marks[i].at = marks[j].at /\ j <= i)
    OBVIOUS
  <2> HIDE DEF last, own
  <2> QED BY <2>1, <2>2, <2>3, <2>4
<1> HIDE DEF last
<1> QED BY <1>1, <1>2, <1>3

\* What the comparison of a watermark with the live activity lets pass.
LEMMA CurrentOnly ==
  ASSUME NEW w, NEW head, NEW live, w.max \in Nat, live.max \in Nat, live.count \in Nat, w.count \in Nat,
         live.effectiveMax \in Nat,
         Talk!DiffReviewSnapshot(w, head, live) \in {"snapshot-current", "ack-only-post-disposition"}
  PROVE  /\ w.head = head
         /\ w.max = 0 => live.count = 0
         /\ w.max # 0 => live.max <= w.max \/ live.effectiveMax <= w.max
         /\ \/ live.count <= w.count
            \/ live.count <= w.count + Cardinality({c \in live.acks : c.edited > w.max})
<1> DEFINE newer == w.max # Talk!AtNone /\ live.max > w.max
           ackNew == live.ackEvidence /\ live.effectiveMax <= w.max
           grown == live.count > w.count
           ackNum == Talk!Cardinality({c \in live.acks : Talk!ActivityAt(c) > w.max})
           ackGrown == live.ackEvidence /\ live.count <= w.count + ackNum
           rest == IF w.max # Talk!AtNone /\ live.count > 0 /\ live.max = Talk!AtNone THEN "missing-live-activity-evidence"
                   ELSE IF newer /\ ~ ackNew THEN "newer-activity"
                   ELSE IF grown /\ ~ ackGrown THEN "same-timestamp-count-growth"
                   ELSE IF w.passing # live.passing THEN "ci-pass-drift"
                   ELSE IF newer \/ grown THEN "ack-only-post-disposition"
                   ELSE "snapshot-current"
           d == Talk!DiffReviewSnapshot(w, head, live)
<1>1. d = CASE w.head # head -> "head-changed"
            [] w.head = head /\ w.max = Talk!AtNone /\ live.count > 0 -> "snapshot-was-empty-now-nonempty"
            [] OTHER -> rest
  BY Zenon DEF Talk!DiffReviewSnapshot
<1>2. w.head = head /\ ~ (w.max = Talk!AtNone /\ live.count > 0) /\ d = rest
  <2> HIDE DEF rest, d
  <2> QED BY <1>1 DEF d
<1>3. ~ (newer /\ ~ ackNew) /\ ~ (grown /\ ~ ackGrown)
  <2> HIDE DEF newer, ackNew, grown, ackGrown, d
  <2> QED BY <1>2 DEF d
<1>4. w.max = 0 => live.count = 0
  BY <1>2 DEF Talk!AtNone
<1>5. w.max # 0 => live.max <= w.max \/ live.effectiveMax <= w.max
  <2>1. ~ newer \/ live.effectiveMax <= w.max
    BY <1>3
  <2> QED BY <2>1 DEF Talk!AtNone
<1>6. ackNum = Cardinality({c \in live.acks : c.edited > w.max})
  BY SameSize DEF Talk!ActivityAt
<1>7. live.count <= w.count \/ live.count <= w.count + ackNum
  <2>1. ~ grown \/ live.count <= w.count + ackNum
    BY <1>3
  <2> HIDE DEF ackNum
  <2> QED BY <2>1
<1> HIDE DEF ackNum
<1> QED BY <1>2, <1>4, <1>5, <1>6, <1>7

\* Of a watermark w and what the command has in view.
HasSeen(w) ==
  LET replies == UNION {Talk!InThread(t) : t \in view.threads}
  IN  \A c \in Words(view) :
        \/ c \in w.words \/ c.author # person
        \/ c \in replies /\ c.edited = w.max
        \/ c \in view.comments /\ c.at < c.edited /\ c.edited = w.max

\* What a view and a watermark have in common, once all has been read.
LEMMA ReadInFull ==
  ASSUME Known, ViewSound, phase = "judge"
  PROVE  LET live == Live(view)
         IN  /\ view.comments \subseteq CommentType /\ IsFiniteSet(view.comments)
             /\ view.reviews \in Seq(ReviewType) /\ view.threads \subseteq ThreadType /\ IsFiniteSet(view.threads)
             /\ live.count = Cardinality(view.comments) + Len(view.reviews) + Cardinality(view.threads)
             /\ live.count \in Nat /\ live.max \in Nat /\ live.effectiveMax \in Nat
             /\ \A c \in view.comments \union UNION {Talk!InThread(t) : t \in view.threads} :
                  c.edited <= live.max /\ (c.author # bot => c.edited <= live.effectiveMax)
             /\ live.acks \subseteq view.comments /\ \A c \in live.acks : c.author = bot
<1>1. /\ view.comments \in SUBSET CommentType /\ IsFiniteSet(view.comments)
      /\ view.reviews \in Seq(ReviewType) /\ view.threads \in SUBSET ThreadType
      /\ view.checks \subseteq CheckType /\ now \in Nat
  BY DEF ViewSound, HeadView, ReviewsView, CommentsView, ThreadsView, Known, TypesSound
<1>2. /\ \A c \in view.comments : c.edited <= now
      /\ \A t \in view.threads : \A c \in Talk!InThread(t) : c.edited <= now
      /\ \A i \in DOMAIN view.reviews : view.reviews[i].at <= now
      /\ \A c \in view.checks : c.done <= now
  BY DEF ViewSound, HeadView, ReviewsView, CommentsView, ThreadsView, CommentSound, ChecksSound
<1>3. IsFiniteSet(view.threads)
  <2>1. CASE view.threads = {}
    BY <2>1, FS_EmptySet
  <2>2. CASE view.threads # {}
    <3>1. PICK t \in view.threads : TRUE
      BY <2>2
    <3>2. view.threads = {t}
      BY <3>1 DEF ViewSound, ThreadsView
    <3> QED BY <3>2, FS_Singleton
  <2> QED BY <2>1, <2>2
<1>4. PICK n : n = PassingAt([checks |-> view.checks])
  OBVIOUS
<1>5. n \in Nat
  <2>1. PICK p : p = [checks |-> view.checks]
    OBVIOUS
  <2>2. p.checks = view.checks
    BY <2>1
  <2> QED BY <1>1, <1>2, <1>4, <2>1, <2>2, PassingAtIs
<1> DEFINE s == Talk!BuildActivitySnapshot(view.comments, view.reviews, view.threads, n)
<1>6. /\ s.count = Cardinality(view.comments) + Len(view.reviews) + Cardinality(view.threads) /\ s.count \in Nat
      /\ s.max \in Nat
      /\ \A c \in view.comments \union UNION {Talk!InThread(t) : t \in view.threads} : c.edited <= s.max
      /\ s.effectiveMax \in Nat
      /\ \A c \in view.comments \union UNION {Talk!InThread(t) : t \in view.threads} :
           c.author # bot => c.edited <= s.effectiveMax
      /\ s.acks \subseteq view.comments /\ \A c \in s.acks : c.author = bot
  BY <1>1, <1>2, <1>3, <1>5, SnapshotIs
<1>7. Live(view) = s
  BY <1>4 DEF Live
<1> HIDE DEF s
<1> QED BY <1>1, <1>3, <1>6, <1>7

\* A watermark that passes the comparison has seen what the command sees.
LEMMA PassingHasSeen ==
  ASSUME Known, ViewSound, phase = "judge",
         NEW w \in Talk!ResolveLatestReviewWatermark(view.marks, "mine"),
         Talk!DiffReviewSnapshot(w, view.head, Live(view)) \in {"snapshot-current", "ack-only-post-disposition"}
  PROVE  HasSeen(w)
<1>1. view.marks \in Seq(MarkType)
  BY DEF ViewSound, CommentsView
<1>2. PICK i \in DOMAIN view.marks : w = view.marks[i]
  BY <1>1, OneWatermark
<1>3. w \in MarkType
  BY <1>1, <1>2
<1>4. w.max \in Nat /\ w.count \in Nat
  BY <1>3 DEF MarkType
<1>5. CommentsSeen(w, view.comments) /\ ReviewsSeen(w, view.reviews) /\ ThreadsSeen(w, view.threads)
  BY <1>2 DEF ViewSound, CommentsView, ThreadsView
<1>6. PICK live : live = Live(view)
  OBVIOUS
<1> DEFINE C == view.comments
           R == view.reviews
           T == view.threads
           said == UNION {Talk!InThread(t) : t \in T}
<1>7. /\ C \subseteq CommentType /\ IsFiniteSet(C) /\ R \in Seq(ReviewType) /\ T \subseteq ThreadType /\ IsFiniteSet(T)
      /\ live.count = Cardinality(C) + Len(R) + Cardinality(T)
      /\ live.count \in Nat /\ live.max \in Nat /\ live.effectiveMax \in Nat
      /\ \A c \in C \union said : c.edited <= live.max /\ (c.author # bot => c.edited <= live.effectiveMax)
      /\ live.acks \subseteq C /\ \A c \in live.acks : c.author = bot
  BY <1>6, ReadInFull
<1>8. /\ w.max = 0 => live.count = 0
      /\ w.max # 0 => live.max <= w.max \/ live.effectiveMax <= w.max
      /\ \/ live.count <= w.count
         \/ live.count <= w.count + Cardinality({c \in live.acks : c.edited > w.max})
  BY <1>4, <1>6, <1>7, CurrentOnly
<1>9. Cardinality(C) \in Nat /\ Cardinality(T) \in Nat /\ Len(R) \in Nat
  BY <1>7, FS_CardinalityType, LenProperties
<1>10. /\ C # {} => scene = "comments"
       /\ T # {} => scene = "thread"
       /\ R # <<>> => scene \in {"two-owners", "wait"}
  BY DEF ViewSound, ReviewsView, CommentsView, ThreadsView
<1>11. Cardinality({}) = 0
  BY FS_EmptySet
<1>12. CASE w.max = 0
  <2>1. Cardinality(C) = 0 /\ Cardinality(T) = 0 /\ Len(R) = 0
    BY <1>7, <1>8, <1>9, <1>12
  <2>2. C = {} /\ T = {}
    BY <1>7, <2>1, FS_EmptySet
  <2>3. R = <<>>
    BY <1>7, <2>1
  <2> QED BY <2>2, <2>3 DEF HasSeen, Words
<1>13. CASE w.max # 0
  <2>1. \A c \in C \union said : c.author = person => c.edited <= w.max
    <3> SUFFICES ASSUME NEW c \in C \union said, c.author = person PROVE c.edited <= w.max
      OBVIOUS
    <3>1. c.edited <= live.max /\ c.edited <= live.effectiveMax
      BY <1>7, NamesAssumption
    <3>2. c.edited \in Nat
      <4>1. CASE c \in C
        BY <1>7, <4>1 DEF CommentType
      <4>2. CASE c \in said
        <5>1. PICK t \in T : c \in Talk!InThread(t)
          BY <4>2
        <5>2. t.comments \in Seq(CommentType)
          BY <1>7 DEF ThreadType
        <5>3. c \in CommentType
          BY <5>1, <5>2 DEF Talk!InThread
        <5> QED BY <5>3 DEF CommentType
      <4> QED BY <4>1, <4>2
    <3> QED BY <1>4, <1>7, <1>8, <1>13, <3>1, <3>2
  <2>2. \A c \in said : c.author = person => c \in w.words \/ c.edited = w.max
    <3> SUFFICES ASSUME NEW t \in T, NEW c \in Talk!InThread(t), c.author = person
                 PROVE  c \in w.words \/ c.edited = w.max
      OBVIOUS
    <3>1. c \in w.words \/ w.max <= c.edited
      BY <1>5, <1>10 DEF ThreadsSeen
    <3>2. c.edited <= w.max
      BY <2>1
    <3>3. t.comments \in Seq(CommentType)
      BY <1>7 DEF ThreadType
    <3>4. c \in CommentType
      BY <3>3 DEF Talk!InThread
    <3>5. c.edited \in Nat
      BY <3>4 DEF CommentType
    <3> QED BY <1>4, <3>1, <3>2, <3>5
  <2>3. \A i_1 \in DOMAIN R : R[i_1] \in w.words
    <3> SUFFICES ASSUME NEW j \in DOMAIN R PROVE R[j] \in w.words
      OBVIOUS
    <3>1. R # <<>> /\ j \in 1..Len(R)
      BY <1>7
    <3>2. C = {} /\ T = {} /\ scene \in {"two-owners", "wait"}
      BY <1>10, <3>1
    <3>3. live.count = Len(R)
      BY <1>7, <1>9, <1>11, <3>2
    <3>4. {c \in live.acks : c.edited > w.max} = {}
      BY <1>7, <3>2
    <3>a. Cardinality({c \in live.acks : c.edited > w.max}) = 0
      BY <1>11, <3>4
    <3>b. live.count <= w.count
      BY <1>4, <1>7, <1>8, <3>a
    <3>5. Len(R) <= w.count
      BY <3>3, <3>b
    <3>6. j <= w.count
      BY <1>4, <1>9, <3>1, <3>5
    <3> QED BY <1>5, <3>2, <3>6 DEF ReviewsSeen
  <2>4. \A c \in C : c.author = person => c \in w.words \/ (c.at < c.edited /\ c.edited = w.max)
    <3> SUFFICES ASSUME NEW c \in C, c.author = person
                 PROVE  c \in w.words \/ (c.at < c.edited /\ c.edited = w.max)
      OBVIOUS
    <3>1. scene = "comments" /\ T = {} /\ R = <<>>
      BY <1>10
    <3>2. PICK old \in SUBSET C :
            /\ Cardinality(old) = w.count
            /\ \A d \in old : /\ d.author = person => d \in w.words \/ (d.at < d.edited /\ w.max <= d.edited)
                              /\ d.author # person => d.edited <= w.max
      BY <1>5, <3>1 DEF CommentsSeen
    <3>3. c.edited <= w.max /\ c.edited \in Nat
      BY <1>7, <2>1 DEF CommentType
    <3>4. CASE c \in old
      BY <1>4, <3>2, <3>3, <3>4
    <3>5. CASE c \notin old
      <4> DEFINE acks == {d \in live.acks : d.edited > w.max}
                 more == old \union acks
      <4>1. acks \subseteq C /\ \A d \in acks : d.author = bot /\ d.edited > w.max
        BY <1>7
      <4>2. old \intersect acks = {}
        <5> SUFFICES ASSUME NEW d \in old, d \in acks PROVE FALSE
          OBVIOUS
        <5>1. d.author # person /\ d.edited > w.max
          BY <4>1, NamesAssumption
        <5>2. d.edited <= w.max /\ d.edited \in Nat
          BY <1>7, <3>2, <5>1 DEF CommentType
        <5> QED BY <1>4, <5>1, <5>2
      <4>3. c \notin acks
        BY <4>1, NamesAssumption
      <4> HIDE DEF acks
      <4>4. IsFiniteSet(old) /\ IsFiniteSet(acks)
        BY <1>7, <4>1, FS_Subset
      <4>5. IsFiniteSet(more) /\ Cardinality(more) = Cardinality(old) + Cardinality(acks)
        <5>1. Cardinality(old \intersect acks) = 0
          BY <1>11, <4>2
        <5>2. Cardinality(old) \in Nat /\ Cardinality(acks) \in Nat
          BY <4>4, FS_CardinalityType
        <5> QED BY <4>4, <5>1, <5>2, FS_Union
      <4>6. c \notin more
        BY <3>5, <4>3
      <4> HIDE DEF more
      <4>7. Cardinality(more \union {c}) = Cardinality(more) + 1
        BY <4>5, <4>6, FS_AddElement
      <4>8. more \union {c} \subseteq C
        BY <4>1 DEF more
      <4>9. Cardinality(more \union {c}) <= Cardinality(C)
        BY <1>7, <4>8, FS_Subset
      <4>10. Cardinality(acks) \in Nat
        BY <4>4, FS_CardinalityType
      <4>11. live.count = Cardinality(C)
        BY <1>7, <1>9, <1>11, <3>1
      <4>12. live.count <= w.count \/ live.count <= w.count + Cardinality(acks)
        BY <1>8 DEF acks
      <4> HIDE DEF C, R, T, said
      <4> QED BY <1>4, <1>9, <3>2, <4>5, <4>7, <4>9, <4>10, <4>11, <4>12
    <3> QED BY <3>4, <3>5
  <2> QED BY <2>2, <2>3, <2>4 DEF HasSeen, Words
<1> QED BY <1>12, <1>13

-----------------------------------------------------------------------------
(* Answers, one for each comment.                                          *)

\* What is below an element of a finite set, by some order.
Ordered(S, below) ==
  /\ IsFiniteSet(S) /\ below \in [S -> SUBSET S]
  /\ \A x \in S : x \notin below[x]
  /\ \A x, y \in S : x # y => x \in below[y] \/ y \in below[x]
  /\ \A x, y \in S : y \in below[x] => below[y] \subseteq below[x]

\* Of two elements the lower has fewer below it.
LEMMA RankGrows ==
  ASSUME NEW S, NEW below, Ordered(S, below), NEW x \in S, NEW y \in S, y \in below[x]
  PROVE  /\ Cardinality(below[y]) < Cardinality(below[x])
         /\ Cardinality(below[y]) \in Nat
         /\ Cardinality(below[x]) \in Nat
<1>1. below[y] \subseteq below[x] /\ y \notin below[y] /\ below[x] \subseteq S
  BY DEF Ordered
<1>2. IsFiniteSet(below[x]) /\ IsFiniteSet(below[y])
  BY <1>1, FS_Subset DEF Ordered
<1>3. below[y] # below[x] BY <1>1
<1>4. Cardinality(below[y]) <= Cardinality(below[x]) /\ (Cardinality(below[y]) = Cardinality(below[x]) <=> below[x] = below[y])
  BY <1>1, <1>2, FS_Subset
<1> QED BY <1>2, <1>3, <1>4, FS_CardinalityType

\* Every rank is that of one element.
LEMMA RankIsTaken ==
  ASSUME NEW S, NEW below, Ordered(S, below), NEW n \in 0..(Cardinality(S) - 1)
  PROVE  /\ \E x \in S : Cardinality(below[x]) = n
         /\ \A x, y \in S : Cardinality(below[x]) = n /\ Cardinality(below[y]) = n => x = y
<1> DEFINE k == Cardinality(S)
           rank == [x \in S |-> Cardinality(below[x])]
<1>1. k \in Nat /\ IsFiniteSet(S)
  BY FS_CardinalityType DEF Ordered
<1>2. ASSUME NEW x \in S PROVE rank[x] \in 0..(k - 1)
  <2>1. below[x] \subseteq S /\ x \notin below[x] BY DEF Ordered
  <2>2. IsFiniteSet(below[x]) /\ Cardinality(below[x]) <= k /\ below[x] # S
    BY <1>1, <2>1, FS_Subset
  <2>3. Cardinality(below[x]) # k BY <1>1, <2>1, <2>2, FS_Subset
  <2>4. Cardinality(below[x]) \in Nat BY <2>2, FS_CardinalityType
  <2> QED BY <1>1, <2>2, <2>3, <2>4
<1>3. \A x, y \in S : rank[x] = rank[y] => x = y
  <2>1. SUFFICES ASSUME NEW x \in S, NEW y \in S, rank[x] = rank[y], x # y PROVE FALSE
    OBVIOUS
  <2>2. CASE x \in below[y] BY <2>1, <2>2, RankGrows
  <2>3. CASE y \in below[x] BY <2>1, <2>3, RankGrows
  <2> QED BY <2>1, <2>2, <2>3 DEF Ordered
<1>4. rank \in [S -> 0..(k - 1)]
  BY <1>2
<1>5. rank \in Injection(S, 0..(k - 1))
  <2> HIDE DEF rank
  <2> QED BY <1>3, <1>4 DEF Injection, IsInjective
<1>6. IsFiniteSet(0..(k - 1)) /\ Cardinality(0..(k - 1)) = k
  BY <1>1, FS_Interval
<1>7. rank \in Surjection(S, 0..(k - 1))
  <2> HIDE DEF rank, k
  <2> QED BY <1>5, <1>6, FS_Injection DEF k
<1>8. \E x \in S : rank[x] = n
  BY <1>7 DEF Surjection
<1> QED BY <1>3, <1>8

\* Of every rank there is one element.
LEMMA RanksAreTaken ==
  ASSUME NEW S, NEW below, Ordered(S, below)
  PROVE  \A n \in 0..(Cardinality(S) - 1) :
           /\ \E x \in S : Cardinality(below[x]) = n
           /\ \A x, y \in S : Cardinality(below[x]) = n /\ Cardinality(below[y]) = n => x = y
BY RankIsTaken

\* It is less than the number of elements.
LEMMA RankIsBelow ==
  ASSUME NEW S, NEW below, Ordered(S, below), NEW x \in S
  PROVE  Cardinality(below[x]) \in 0..(Cardinality(S) - 1) /\ Cardinality(S) \in Nat
<1>1. Cardinality(S) \in Nat /\ IsFiniteSet(S)
  BY FS_CardinalityType DEF Ordered
<1>2. below[x] \subseteq S /\ x \notin below[x] BY DEF Ordered
<1>3. IsFiniteSet(below[x]) /\ Cardinality(below[x]) <= Cardinality(S) /\ below[x] # S
  BY <1>1, <1>2, FS_Subset
<1>4. Cardinality(below[x]) # Cardinality(S) BY <1>1, <1>2, <1>3, FS_Subset
<1>5. Cardinality(below[x]) \in Nat BY <1>3, FS_CardinalityType
<1> QED BY <1>1, <1>3, <1>4, <1>5

\* Comments with ids of their own.
Listed(S) == S \subseteq CommentType /\ IsFiniteSet(S) /\ \A c, d \in S : c.id = d.id => c = d

\* The comments before each one.
Before(S, time) == [c \in S |-> Talk!Earlier(S, c, time)]

\* Time and listing order them.
LEMMA CommentsAreOrdered ==
  ASSUME NEW S, Listed(S), NEW time, \A c \in S : time[c] = c.edited
  PROVE  Ordered(S, Before(S, time))
<1> DEFINE below == Before(S, time)
<1>1. \A c \in S : c.id \in Nat /\ c.edited \in Nat
  BY DEF Listed, CommentType
<1>2. \A c \in S : below[c] = {d \in S : d.edited < c.edited \/ (d.edited = c.edited /\ d.id < c.id)}
  BY DEF Before, Talk!Earlier
<1>3. IsFiniteSet(S) /\ below \in [S -> SUBSET S]
  BY DEF Listed, Before, Talk!Earlier
<1> HIDE DEF below
<1>4. \A c \in S : c \notin below[c] BY <1>1, <1>2
<1>5. \A c, d \in S : c # d => c \in below[d] \/ d \in below[c]
  <2>1. \A c, d \in S : c # d => c.id # d.id BY DEF Listed
  <2> QED BY <1>1, <1>2, <2>1
<1>6. \A c, d \in S : d \in below[c] => below[d] \subseteq below[c]
  <2> SUFFICES ASSUME NEW c \in S, NEW d \in S, d \in below[c], NEW e \in below[d] PROVE e \in below[c]
    OBVIOUS
  <2>1. e \in S /\ (e.edited < d.edited \/ (e.edited = d.edited /\ e.id < d.id)) BY <1>2
  <2>2. d.edited < c.edited \/ (d.edited = c.edited /\ d.id < c.id) BY <1>2
  <2>3. e.edited < c.edited \/ (e.edited = c.edited /\ e.id < c.id) BY <1>1, <2>1, <2>2
  <2> QED BY <1>2, <2>1, <2>3
<1> QED BY <1>3, <1>4, <1>5, <1>6 DEF Ordered, below

\* What an item takes when those before it have taken theirs.
Takes(taken, c, earlier, candidates, fits, withheld, time) ==
  LET free == {k \in candidates \ UNION {taken[d] : d \in earlier} : <<k, c>> \in fits}
  IN  {k \in free : Talk!Earlier(free, k, time) = {} /\ k \notin withheld}

\* One item after the other can take something.
AllTake(S, below, candidates, fits, withheld, time) ==
  \E f \in [S -> SUBSET candidates] :
    \A c \in S : f[c] = Takes(f, c, below[c], candidates, fits, withheld, time)

\* Ranks, for they are natural numbers, see to it.
LEMMA TakingGoesOn ==
  ASSUME NEW S, NEW below, Ordered(S, below), NEW candidates, NEW fits, NEW withheld, NEW time
  PROVE  AllTake(S, below, candidates, fits, withheld, time)
<1> DEFINE Rank(c) == Cardinality(below[c])
           T(f, c) == Takes(f, c, below[c], candidates, fits, withheld, time)
           P(n) == \E f \in [S -> SUBSET candidates] : \A c \in S : Rank(c) < n => f[c] = T(f, c)
<1>1. \A c \in S : Rank(c) \in Nat /\ Rank(c) < Cardinality(S) /\ Cardinality(S) \in Nat
  BY RankIsBelow
<1>2. \A c \in S : \A d \in below[c] : d \in S /\ Rank(d) < Rank(c)
  <2> SUFFICES ASSUME NEW c \in S, NEW d \in below[c] PROVE d \in S /\ Rank(d) < Rank(c)
    OBVIOUS
  <2>1. d \in S BY DEF Ordered
  <2> QED BY <2>1, RankGrows
<1>3. \A f : \A c \in S : T(f, c) \subseteq candidates
  BY DEF Takes
<1>4. \A f, g : \A c \in S : (\A d \in below[c] : f[d] = g[d]) => T(f, c) = T(g, c)
  <2> SUFFICES ASSUME NEW f, NEW g, NEW c \in S, \A d \in below[c] : f[d] = g[d] PROVE T(f, c) = T(g, c)
    OBVIOUS
  <2>1. {f[d] : d \in below[c]} = {g[d] : d \in below[c]}
    OBVIOUS
  <2> QED BY <2>1 DEF Takes
<1> HIDE DEF Rank, T
<1>5. P(0)
  <2> DEFINE g == [c \in S |-> {}]
  <2>1. g \in [S -> SUBSET candidates] OBVIOUS
  <2>2. \A c \in S : ~ (Rank(c) < 0) BY <1>1
  <2> HIDE DEF g
  <2> QED BY <2>1, <2>2
<1>6. ASSUME NEW n \in Nat, P(n) PROVE P(n + 1)
  <2>1. PICK f \in [S -> SUBSET candidates] : \A c \in S : Rank(c) < n => f[c] = T(f, c)
    BY <1>6
  <2> DEFINE g == [c \in S |-> IF Rank(c) < n THEN f[c] ELSE T(f, c)]
  <2>2. g \in [S -> SUBSET candidates]
    BY <1>3
  <2>3. \A c \in S : g[c] = T(f, c) /\ (Rank(c) < n => g[c] = f[c])
    BY <2>1
  <2> HIDE DEF g
  <2>4. ASSUME NEW c \in S, Rank(c) < n + 1 PROVE g[c] = T(g, c)
    <3>1. \A d \in below[c] : d \in S /\ Rank(d) < n
      BY <1>1, <1>2, <2>4
    <3>2. \A d \in below[c] : g[d] = f[d]
      BY <2>3, <3>1
    <3> QED BY <1>4, <2>3, <3>2
  <2> QED BY <2>2, <2>4
<1>7. \A n \in Nat : P(n)
  <2> DEFINE Bad == {n \in Nat : ~ P(n)}
  <2> HIDE DEF P
  <2> SUFFICES ASSUME Bad # {} PROVE FALSE
    OBVIOUS
  <2>1. PICK n \in Bad : \A m \in Bad : n <= m
    BY LeastNatural
  <2>2. n # 0 /\ n - 1 \in Nat /\ n - 1 \notin Bad /\ n - 1 + 1 = n
    BY <1>5, <2>1
  <2> QED BY <1>6, <2>2
<1>8. Cardinality(S) \in Nat
  BY FS_CardinalityType DEF Ordered
<1>9. PICK f \in [S -> SUBSET candidates] : \A c \in S : Rank(c) < Cardinality(S) => f[c] = T(f, c)
  BY <1>7, <1>8
<1>10. \A c \in S : f[c] = T(f, c)
  BY <1>1, <1>9
<1> QED BY <1>10 DEF T, AllTake

\* So that the matching is one: each item is left or takes a candidate that fits and that no
\* other item takes.
LEMMA FirstFitMatches ==
  ASSUME NEW S, Listed(S), NEW time, \A c \in S : time[c] = c.edited, NEW candidates, NEW fits, NEW withheld
  PROVE  /\ candidates = {} => Talk!FirstFit(S, candidates, fits, withheld, time) = S
         /\ Talk!FirstFit(S, candidates, fits, withheld, time) = {} =>
              \E h \in [S -> candidates] : /\ \A c \in S : <<h[c], c>> \in fits
                                           /\ \A c, d \in S : h[c] = h[d] => c = d
<1> DEFINE below == Before(S, time)
           T(f, c) == Takes(f, c, below[c], candidates, fits, withheld, time)
           Eq(f) == f = [c \in S |-> T(f, c)]
           takes == CHOOSE f : Eq(f)
<1>1. Ordered(S, below)
  BY CommentsAreOrdered
<1>2. \E f : Eq(f)
  <2> HIDE DEF below
  <2>0. AllTake(S, below, candidates, fits, withheld, time)
    BY <1>1, TakingGoesOn
  <2>1. PICK f \in [S -> SUBSET candidates] :
          \A c \in S : f[c] = Takes(f, c, below[c], candidates, fits, withheld, time)
    BY <2>0 DEF AllTake
  <2>2. \A c \in S : f[c] = T(f, c)
    BY <2>1
  <2> HIDE DEF T
  <2> QED BY <2>1, <2>2
<1>3. Eq(takes)
  <2> HIDE DEF Eq
  <2> QED BY <1>2
<1>4. Talk!FirstFit(S, candidates, fits, withheld, time) = {c \in S : takes[c] = {}}
  BY DEF Talk!FirstFit, Takes, Before
<1>5. \A c \in S : takes[c] = T(takes, c)
  <2> HIDE DEF takes, T
  <2> QED BY <1>3
<1> HIDE DEF takes, below
<1>6. \A c \in S : \A k \in takes[c] :
         k \in candidates /\ <<k, c>> \in fits /\ \A d \in below[c] : k \notin takes[d]
  <2> SUFFICES ASSUME NEW c \in S, NEW k \in takes[c]
               PROVE  k \in candidates /\ <<k, c>> \in fits /\ \A d \in below[c] : k \notin takes[d]
    OBVIOUS
  <2>1. k \in Takes(takes, c, below[c], candidates, fits, withheld, time)
    BY <1>5
  <2> DEFINE free == {j \in candidates \ UNION {takes[d] : d \in below[c]} : <<j, c>> \in fits}
  <2>2. k \in free
    BY <2>1 DEF Takes
  <2> QED BY <2>2
<1>7. candidates = {} => Talk!FirstFit(S, candidates, fits, withheld, time) = S
  BY <1>4, <1>6
<1>8. ASSUME Talk!FirstFit(S, candidates, fits, withheld, time) = {}
      PROVE  \E h \in [S -> candidates] : /\ \A c \in S : <<h[c], c>> \in fits
                                          /\ \A c, d \in S : h[c] = h[d] => c = d
  <2>1. \A c \in S : takes[c] # {}
    BY <1>4, <1>8
  <2> DEFINE h == [c \in S |-> CHOOSE k \in takes[c] : TRUE]
  <2>2. \A c \in S : h[c] \in takes[c]
    BY <2>1
  <2>3. h \in [S -> candidates]
    BY <1>6, <2>2
  <2> HIDE DEF h
  <2>4. \A c \in S : <<h[c], c>> \in fits
    BY <1>6, <2>2
  <2>5. \A c, d \in S : d \in below[c] => h[c] # h[d]
    BY <1>6, <2>2
  <2>6. \A c, d \in S : h[c] = h[d] => c = d
    BY <1>1, <2>5 DEF Ordered
  <2> QED BY <2>3, <2>4, <2>6
<1> QED BY <1>7, <1>8

\* Of two sets of comments the first ones go together, as many of either as the other has.
LEMMA RanksMatch ==
  ASSUME NEW A, NEW B, Listed(A), Listed(B), NEW time, \A c \in A \union B : time[c] = c.edited
  PROVE  \E g \in [Talk!First(A, Cardinality(B), time) -> Talk!First(B, Cardinality(A), time)] :
           \A c, d \in Talk!First(A, Cardinality(B), time) : g[c] = g[d] => c = d
<1> DEFINE a == Before(A, time)
           b == Before(B, time)
           F == Talk!First(A, Cardinality(B), time)
           G == Talk!First(B, Cardinality(A), time)
<1>1. Ordered(A, a) /\ Ordered(B, b)
  BY CommentsAreOrdered
<1>2. /\ F = {c \in A : Cardinality(a[c]) < Cardinality(B)}
      /\ G = {d \in B : Cardinality(b[d]) < Cardinality(A)}
  BY SameSize DEF Talk!First, Before
<1> HIDE DEF a, b, F, G
<1>3. \A c \in A : Cardinality(a[c]) \in 0..(Cardinality(A) - 1) /\ Cardinality(A) \in Nat
  BY <1>1, RankIsBelow
<1>4. Cardinality(B) \in Nat /\ Cardinality(A) \in Nat
  BY <1>1, FS_CardinalityType DEF Ordered
<1>5. \A c \in F : \E d \in G : Cardinality(b[d]) = Cardinality(a[c])
  <2> SUFFICES ASSUME NEW c \in F PROVE \E d \in G : Cardinality(b[d]) = Cardinality(a[c])
    OBVIOUS
  <2>1. c \in A /\ Cardinality(a[c]) \in 0..(Cardinality(A) - 1) /\ Cardinality(a[c]) \in 0..(Cardinality(B) - 1)
    BY <1>2, <1>3, <1>4
  <2>2. PICK d \in B : Cardinality(b[d]) = Cardinality(a[c])
    BY <1>1, <2>1, RanksAreTaken
  <2> QED BY <1>2, <1>4, <2>1, <2>2
<1> DEFINE g == [c \in F |-> CHOOSE d \in G : Cardinality(b[d]) = Cardinality(a[c])]
<1>6. \A c \in F : g[c] \in G /\ Cardinality(b[g[c]]) = Cardinality(a[c])
  BY <1>5
<1>7. g \in [F -> G]
  BY <1>6
<1> HIDE DEF g
<1>8. ASSUME NEW c \in F, NEW d \in F, g[c] = g[d] PROVE c = d
  <2>1. Cardinality(a[c]) = Cardinality(a[d]) /\ c \in A /\ d \in A
    BY <1>2, <1>6, <1>8
  <2>2. Cardinality(a[c]) \in 0..(Cardinality(A) - 1)
    BY <1>3, <2>1
  <2> QED BY <1>1, <2>1, <2>2, RanksAreTaken
<1> QED BY <1>7, <1>8 DEF F, G

\* The comments of a pull request.
Conversation(C) == Listed(C) /\ \A c \in C : CommentSound(c)

\* What is not the agent's own wants an answer.
LEMMA AskedAre ==
  ASSUME NEW C, NEW threads, Conversation(C)
  PROVE  Talk!Outstanding(C, threads) = {c \in C : c.author # agent}
<1>1. ASSUME NEW c \in C
      PROVE  /\ ~ Talk!IsOperational(c)
             /\ c.author # agent => ~ Talk!IsTrustedMachineDisposition(c)
             /\ ~ Talk!BotCommentResolved(c, C, threads)
  <2>1. c.kind \in {"plain", "notice", "ack", "accepted", "noticeDisposition"}
    BY DEF Conversation, Listed, CommentType
  <2> QED BY <2>1 DEF Talk!IsOperational, Talk!IsTrustedMachineDisposition, Talk!BotCommentResolved
<1> QED BY <1>1 DEF Talk!Outstanding

\* No login is trusted without being the agent's.
LEMMA NoneIsSticky ==
  ASSUME NEW C, Conversation(C)
  PROVE  Talk!StickyDisposed(C) = {}
<1> DEFINE stickies(who, kinds) == {c \in C : c.author = who /\ c.kind \in kinds}
           by(who, kind) == {c \in C : c.author \in {agent} \ {agent} /\ c.kind = kind /\ Talk!Names(c, who)}
           Disposed(items, candidates, fits) ==
             items \ Talk!FirstFit(items, candidates, fits, {}, Talk!Activity(C))
           notices(who) == stickies(who, {"notice"})
           summaries(who) == stickies(who, {"summary", "quietSummary"})
           dispositions(who) == by(who, "noticeDisposition")
           verdicts(who) == by(who, "summaryDisposition")
           younger(who) == {p \in verdicts(who) \X summaries(who) : Talk!ActivityAt(p[1]) > Talk!ActivityAt(p[2])}
<1>1. \A c \in C : Talk!Activity(C)[c] = c.edited
  BY DEF Talk!Activity, Talk!ActivityAt
<1>2. ASSUME NEW items \in SUBSET C, NEW candidates, NEW fits, candidates = {}
      PROVE  Disposed(items, candidates, fits) = {}
  <2>1. Listed(items)
    <3>1. IsFiniteSet(items)
      BY FS_Subset DEF Conversation, Listed
    <3> QED BY <3>1 DEF Conversation, Listed
  <2>2. \A c \in items : Talk!Activity(C)[c] = c.edited
    BY <1>1
  <2>3. Talk!FirstFit(items, candidates, fits, {}, Talk!Activity(C)) = items
    BY <1>2, <2>1, <2>2, FirstFitMatches
  <2> QED BY <2>3
<1>3. \A who, kind : by(who, kind) = {}
  OBVIOUS
<1>4. \A who, kinds : stickies(who, kinds) \in SUBSET C
  OBVIOUS
<1>5. Talk!StickyDisposed(C) =
        UNION {Disposed(notices(who), dispositions(who), dispositions(who) \X notices(who))
               \union Disposed(summaries(who), verdicts(who), younger(who)) : who \in Talk!GateBots}
  BY DEF Talk!StickyDisposed
<1> HIDE DEF by, stickies, Disposed
<1>6. ASSUME NEW who
      PROVE  /\ Disposed(notices(who), dispositions(who), dispositions(who) \X notices(who)) = {}
             /\ Disposed(summaries(who), verdicts(who), younger(who)) = {}
  <2>1. notices(who) \in SUBSET C /\ summaries(who) \in SUBSET C /\ dispositions(who) = {} /\ verdicts(who) = {}
    BY <1>3, <1>4
  <2> HIDE DEF notices, summaries, dispositions, verdicts, younger
  <2> QED BY <1>2, <2>1
<1> QED BY <1>5, <1>6

\* Each comment has an answer of its own.
HasAnswers(C) ==
  LET asked   == {c \in C : c.author # agent}
      answers == {c \in C : c.author = agent}
      Fits(a, c) == \/ a.edited > c.edited
                    \/ c.kind = "notice" /\ a.kind = "noticeDisposition"
  IN  \E f \in [asked -> answers] :
        /\ \A c \in asked : Fits(f[c], c)
        /\ \A c, d \in asked : f[c] = f[d] => c = d

\* A bot's notices are carried by rank; everything else takes what is left.
LEMMA EachHasAnswer ==
  ASSUME NEW C, NEW threads, Conversation(C), Talk!MissingComments(C, threads) = {}
  PROVE  HasAnswers(C)
<1> DEFINE time == Talk!Activity(C)
           asked == {c \in C : c.author # agent}
           notices == {c \in asked : c.author = bot /\ c.kind = "notice"}
           named == {c \in C : c.author \in {agent} /\ c.kind = "noticeDisposition" /\ Talk!Names(c, bot)}
           N == Talk!First(notices, Cardinality(named), time)
           U == Talk!First(named, Cardinality(notices), time)
           open == asked \ (N \union {})
           replies == {c \in C \ U : c.author \in {agent} /\ ~ Talk!IsOperational(c)}
           fits == {p \in replies \X open : Talk!Answers(p[1], p[2])}
           carried == Talk!CarriedNotices(C, asked)
<1>1. \A S \in SUBSET C : Listed(S)
  <2> SUFFICES ASSUME NEW S \in SUBSET C PROVE Listed(S)
    OBVIOUS
  <2>1. IsFiniteSet(S)
    BY FS_Subset DEF Conversation, Listed
  <2> QED BY <2>1 DEF Conversation, Listed
<1>2. \A c \in C : time[c] = c.edited
  BY DEF Talk!Activity, Talk!ActivityAt
<1>3. Talk!GateBots = {bot}
  BY DEF Talk!GateBots
<1>4. carried.notices = N /\ carried.used = U
  BY <1>3, SameSize DEF Talk!CarriedNotices
<1>5. Talk!FirstFit(open, replies, fits, {}, time) = {}
  <2>1. Talk!Outstanding(C, threads) = asked
    BY AskedAre
  <2>2. Talk!StickyDisposed(C) = {}
    BY NoneIsSticky
  <2> DEFINE left == asked \ (carried.notices \union Talk!StickyDisposed(C))
             mine == {c \in C \ carried.used : c.author \in {agent} /\ ~ Talk!IsOperational(c)}
  <2> HIDE DEF asked, N, U, time
  <2>3. left = open /\ mine = replies
    BY <1>4, <2>2
  <2>4. Talk!MissingComments(C, threads) =
          Talk!FirstFit(left, mine, {p \in mine \X left : Talk!Answers(p[1], p[2])}, {}, time)
    BY <2>1 DEF Talk!MissingComments, time
  <2> HIDE DEF left, mine, open, replies
  <2> QED BY <2>3, <2>4
<1>6. asked \in SUBSET C /\ notices \in SUBSET asked /\ named \in SUBSET C /\ replies \in SUBSET C /\ open \in SUBSET C
  OBVIOUS
<1>7. N \subseteq notices /\ U \subseteq named
  BY DEF Talk!First
<1>8. /\ \A c \in named : c.author = agent /\ c.kind = "noticeDisposition"
      /\ \A c \in notices : c.kind = "notice"
      /\ \A c \in replies : c.author = agent /\ c \notin U
  OBVIOUS
<1>9. open = asked \ N
  OBVIOUS
<1> HIDE DEF time, asked, notices, named, open, replies, carried
<1>10. PICK g \in [N -> U] : \A c, d \in N : g[c] = g[d] => c = d
  <2>1. Listed(notices) /\ Listed(named) /\ \A c \in notices \union named : time[c] = c.edited
    BY <1>1, <1>2, <1>6
  <2> QED BY <2>1, RanksMatch
<1>11. PICK h \in [open -> replies] : /\ \A c \in open : <<h[c], c>> \in fits
                                      /\ \A c, d \in open : h[c] = h[d] => c = d
  <2>1. Listed(open) /\ \A c \in open : time[c] = c.edited
    BY <1>1, <1>2, <1>6
  <2> HIDE DEF fits
  <2> QED BY <1>5, <2>1, FirstFitMatches
<1> HIDE DEF N, U
<1> DEFINE f == [c \in asked |-> IF c \in N THEN g[c] ELSE h[c]]
<1>12. \A c \in asked : /\ c \in N => f[c] = g[c] /\ f[c] \in U
                        /\ c \notin N => f[c] = h[c] /\ f[c] \in replies /\ c \in open
  BY <1>9
<1>13. \A c \in asked : f[c] \in {d \in C : d.author = agent}
  BY <1>6, <1>7, <1>8, <1>12
<1>14. f \in [asked -> {d \in C : d.author = agent}]
  BY <1>13
<1> HIDE DEF f
<1>15. \A c \in asked : f[c].edited > c.edited \/ (c.kind = "notice" /\ f[c].kind = "noticeDisposition")
  <2> SUFFICES ASSUME NEW c \in asked
               PROVE  f[c].edited > c.edited \/ (c.kind = "notice" /\ f[c].kind = "noticeDisposition")
    OBVIOUS
  <2>1. CASE c \in N
    BY <1>7, <1>8, <1>12, <2>1
  <2>2. CASE c \notin N
    <3>1. f[c] = h[c] /\ c \in open
      BY <1>12, <2>2
    <3>2. Talk!Answers(h[c], c)
      BY <1>11, <3>1
    <3> QED BY <3>1, <3>2 DEF Talk!Answers, Talk!ActivityAt
  <2> QED BY <2>1, <2>2
<1>16. \A c, d \in asked : f[c] = f[d] => c = d
  <2> SUFFICES ASSUME NEW c \in asked, NEW d \in asked, f[c] = f[d] PROVE c = d
    OBVIOUS
  <2>1. CASE c \in N /\ d \in N
    BY <1>10, <1>12, <2>1
  <2>2. CASE c \notin N /\ d \notin N
    BY <1>11, <1>12, <2>2
  <2>3. (c \in N <=> d \in N)
    BY <1>8, <1>12
  <2> QED BY <2>1, <2>2, <2>3
<1> QED BY <1>14, <1>15, <1>16 DEF HasAnswers, asked

-----------------------------------------------------------------------------
(* What the open gates mean.                                               *)

\* The checks of a view have ended, and the last to end passed or was waived in time.
HasPassed ==
  LET ended == {c \in view.checks : c.done # Rollup!NoTime}
      last  == {c \in ended : \A d \in ended : d.done <= c.done}
  IN  /\ view.checks = ended /\ ended # {}
      /\ \/ \A c \in last : c.state \in {"SUCCESS", "CANCELLED"}
         \/ \E w \in view.waivers : \A c \in last :
              /\ w.author = agent /\ w.head = view.head
              /\ c.done >= w.at /\ c.done >= view.committed + Deadline

\* A view that no gate shuts out has seen what people said, has passing checks and its
\* comments are answered.
LEMMA OpenGates ==
  ASSUME Known, ViewSound, phase = "judge", Blockers(view) = {}
  PROVE  /\ HasPassed /\ HasAnswers(view.comments)
         /\ \A w \in Talk!ResolveLatestReviewWatermark(view.marks, "mine") : HasSeen(w) /\ w.head = view.head
<1>1. ~ Recovery(view).unavailable
  <2>1. view.markers \subseteq MarkerType
    BY DEF ViewSound, CommentsView
  <2>2. \A m \in view.markers : m.kind # "recovery"
    BY <2>1 DEF MarkerType
  <2> DEFINE claim == [id |-> "mine", agent |-> agent]
             cycles == IF claim.id = "none" THEN {} ELSE Wait!RecoveryCycles(view.markers, view.head, {agent}, claim)
  <2>3. cycles = {}
    BY <2>2 DEF Wait!RecoveryCycles
  <2>4. Recovery(view).unavailable => cycles # {}
    BY DEF Recovery, Wait!RecoverySummary
  <2> QED BY <2>3, <2>4
<1>2. Rollup!IsPreMergeCiAllPassing(Ci(view))
  BY DEF Blockers, CiGates, Shut
<1>3. ReviewCurrency(view) \in {"snapshot-current", "ack-only-post-disposition"}
  BY DEF Blockers, ActivityGates, Shut
<1>4. HasPassed
  <2>1. /\ view.checks \subseteq CheckType /\ view.committed \in Nat \ {0}
        /\ \A c \in view.checks : (c.state = "IN_PROGRESS" <=> c.done = 0) /\ c.done <= now
        /\ now \in Nat
    BY DEF ViewSound, HeadView, ChecksSound, Known, TypesSound
  <2>2. view.waivers \subseteq WaiverType /\ \A w, x \in view.waivers : w = x
    BY DEF ViewSound, CommentsView
  <2> QED BY <1>1, <1>2, <2>1, <2>2, PassingChecks DEF HasPassed
<1>5. ASSUME NEW w \in Talk!ResolveLatestReviewWatermark(view.marks, "mine")
      PROVE  HasSeen(w) /\ w.head = view.head
  <2>1. view.marks \in Seq(MarkType)
    BY DEF ViewSound, CommentsView
  <2>2. Talk!ResolveLatestReviewWatermark(view.marks, "mine") = {w}
    BY <2>1, OneWatermark
  <2>3. (CHOOSE x \in Talk!ResolveLatestReviewWatermark(view.marks, "mine") : TRUE) = w
    BY <2>2
  <2>4. Talk!DiffReviewSnapshot(w, view.head, Live(view)) \in {"snapshot-current", "ack-only-post-disposition"}
    BY <1>3, <2>2, <2>3 DEF ReviewCurrency
  <2>5. HasSeen(w)
    BY <2>4, PassingHasSeen
  <2>6. \E i \in DOMAIN view.marks : w = view.marks[i]
    BY <2>1, OneWatermark
  <2>7. w \in MarkType
    BY <2>1, <2>6
  <2>8. w.max \in Nat /\ w.count \in Nat
    BY <2>7 DEF MarkType
  <2>9. PICK live : live = Live(view)
    OBVIOUS
  <2>10. live.max \in Nat /\ live.count \in Nat /\ live.effectiveMax \in Nat
    BY <2>9, ReadInFull
  <2>11. w.head = view.head
    BY <2>4, <2>8, <2>9, <2>10, CurrentOnly
  <2> QED BY <2>5, <2>11
<1>6. HasAnswers(view.comments)
  <2>1. Conversation(view.comments)
    BY DEF Conversation, Listed, ViewSound, CommentsView
  <2> DEFINE answered == Talk!SummarizeDispositionEvidence(view.comments, view.threads, Boundary(view))
  <2>2. answered.complete \/ answered.ackOnly
    BY DEF Blockers, OwnerGates, Shut
  <2>3. Talk!MissingComments(view.comments, view.threads) = {}
    BY <2>2 DEF Talk!SummarizeDispositionEvidence
  <2> QED BY <2>1, <2>3, EachHasAnswer
<1> QED BY <1>4, <1>5, <1>6

\* What was concluded from the view.
Concluded ==
  /\ HasPassed /\ HasAnswers(view.comments)
  /\ \A w \in Talk!ResolveLatestReviewWatermark(view.marks, "mine") : HasSeen(w) /\ w.head = view.head

\* What holds once the command has made up its mind.
FinalSound ==
  /\ Decided => Concluded
  /\ phase = "merge-admin" => view.passing
  /\ phase = "done" => (merged.admin => scene = "sole-owner" /\ view.passing)

\* The inductive invariant.
IInv == Known /\ ViewSound /\ FlowSound /\ FinalSound

\* The conclusions are the properties.
LEMMA Concludes ==
  ASSUME IInv
  PROVE  NothingUnseen /\ AnsweredOneByOne /\ MergedOnItsChecks /\ AdminOnlyForSoleOwner
<1>1. NothingUnseen
  BY DEF IInv, FinalSound, Concluded, HasSeen, NothingUnseen
<1>2. MergedOnItsChecks
  BY DEF IInv, FinalSound, Concluded, HasPassed, FlowSound, MergedOnItsChecks
<1>3. AdminOnlyForSoleOwner
  BY DEF IInv, FinalSound, FlowSound, AdminOnlyForSoleOwner
<1>4. AnsweredOneByOne
  BY DEF IInv, FinalSound, Concluded, HasAnswers, AnsweredOneByOne
<1> QED BY <1>1, <1>2, <1>3, <1>4

\* At first nothing has been said and nothing is being done.
LEMMA Begins == Init => IInv
<1> SUFFICES ASSUME Init PROVE IInv
  OBVIOUS
<1>1. now = 1 /\ seen = NoView /\ merged = NoView /\ phase = "idle"
  BY DEF Init
<1>2. PICK K : K = IF scene = "checks" THEN {} ELSE {Run("SUCCESS", 1)}
  OBVIOUS
<1>3. K \subseteq CheckType /\ \A c \in K : c.state = "SUCCESS" /\ c.done = 1
  BY <1>1, <1>2 DEF Run, CheckType
<1>4. PICK L : L = IF scene = "wait" THEN {primary} ELSE {}
  OBVIOUS
<1>5. PICK E : E = <<[event |-> "committed", what |-> 1]>> \o
                        IF scene = "wait" THEN <<[event |-> "requested", what |-> primary]>> ELSE <<>>
  OBVIOUS
<1>6. E \in Seq(EventType)
  <2> DEFINE c == [event |-> "committed", what |-> 1]
             d == [event |-> "requested", what |-> primary]
  <2>1. c \in EventType /\ d \in EventType
    BY DEF EventType, Login
  <2> HIDE DEF c, d
  <2>2. <<c>> \in Seq(EventType) /\ <<d>> \in Seq(EventType) /\ <<>> \in Seq(EventType)
    BY <2>1
  <2>3. E = <<c>> \o (IF scene = "wait" THEN <<d>> ELSE <<>>)
    BY <1>5 DEF c, d
  <2>4. (IF scene = "wait" THEN <<d>> ELSE <<>>) \in Seq(EventType)
    BY <2>2
  <2> QED BY <2>2, <2>3, <2>4, ConcatProperties
<1>7. PICK M : M = IF scene # "wait" THEN {}
                   ELSE {[author |-> agent, kind |-> "wait", head |-> 1, agent |-> agent, claim |-> "mine", at |-> 1]}
  OBVIOUS
<1>8. M \subseteq MarkerType
  BY <1>7 DEF MarkerType
<1>9. pr = [head |-> 1, committed |-> 1, comments |-> {}, threads |-> {}, reviews |-> <<>>,
            checks |-> K, waivers |-> {}, marks |-> <<>>, claim |-> "mine", runs |-> 0, words |-> 0, behind |-> FALSE,
            listed |-> L, timeline |-> E, markers |-> M]
  BY <1>2, <1>4, <1>5, <1>7 DEF Init
<1>10. pr \in PrType
  <2>1. L \in SUBSET {primary}
    BY <1>4
  <2> QED BY <1>3, <1>6, <1>8, <1>9, <2>1 DEF PrType
<1>11. /\ pr.comments = {} /\ pr.threads = {} /\ pr.reviews = <<>> /\ pr.checks = K /\ pr.waivers = {}
       /\ pr.marks = <<>> /\ pr.committed = 1
  BY <1>9
<1>12. Known
  <2>1. TypesSound
    BY <1>1, <1>10 DEF TypesSound
  <2>2. CommitSound
    BY <1>1, <1>3, <1>11 DEF CommitSound, ChecksSound
  <2>3. WordsSound
    BY <1>11, FS_EmptySet DEF WordsSound, Placed
  <2>4. MarksSound
    BY <1>1, <1>11 DEF MarksSound
  <2> QED BY <2>1, <2>2, <2>3, <2>4 DEF Known
<1>13. ViewSound
  BY <1>1 DEF ViewSound, HeadView, ReviewsView, CommentsView, ThreadsView
<1>14. FlowSound /\ FinalSound
  BY <1>1 DEF FlowSound, FinalSound, Decided
<1> QED BY <1>12, <1>13, <1>14 DEF IInv

\* Nothing that the command knows or has done changes.
Bystands == UNCHANGED <<scene, phase, round, view, expected, merged>>

\* What happens to the pull request leaves the command's knowledge as it is.
LEMMA BystanderStep ==
  ASSUME IInv, Known', Grown, now' = now \/ now' = now + 1, Bystands
  PROVE  IInv'
<1>1. ViewSound'
  BY ViewStays DEF IInv, Bystands
<1>2. FlowSound'
  BY DEF IInv, Bystands, FlowSound, Decided
<1>3. FinalSound'
  BY DEF IInv, Bystands, FinalSound, Decided, Concluded, HasPassed, HasSeen, Words
<1> QED BY <1>1, <1>2, <1>3 DEF IInv

\* A state in which the command has nothing in view.
LEMMA NothingInView ==
  ASSUME Known', scene' = scene, phase' \in {"idle", "called"}, merged' = NoView
  PROVE  IInv'
<1>1. ViewSound'
  BY DEF ViewSound, HeadView, ReviewsView, CommentsView, ThreadsView
<1>2. FlowSound' /\ FinalSound'
  BY DEF FlowSound, FinalSound, Decided
<1> QED BY <1>1, <1>2 DEF IInv

\* The fields of a view that has been read in full.
LEMMA FieldsInView ==
  ASSUME ViewSound, phase = "judge"
  PROVE  {"head", "committed", "checks", "reviews", "comments", "waivers", "marks", "threads"} \subseteq DOMAIN view
  BY DEF ViewSound, HeadView, ReviewsView, CommentsView, ThreadsView

\* The verdict on a round.
LEMMA JudgeStep ==
  ASSUME IInv, Judge, Known'
  PROVE  IInv'
<1>1. phase = "judge" /\ merged = NoView /\ round \in 1..3
  BY DEF Judge, Open, IInv, FlowSound
<1>2. CASE Abort
  <2>1. phase' = "idle" /\ scene' = scene /\ merged' = NoView
    BY <1>1, <1>2 DEF Abort, Goto
  <2> QED BY <2>1, NothingInView
<1>3. CASE /\ ~ (Blockers(view) # {} \/ view.head # expected \/ (round = 3 /\ ~ SoloOwner(view)))
           /\ Goto(CASE round = 1 -> "revalidate" [] round = 2 -> "merge" [] OTHER -> "admin")
           /\ UNCHANGED <<round, view, expected, merged>>
  <2>1. /\ Blockers(view) = {} /\ view.head = expected /\ (round = 3 => SoloOwner(view))
        /\ UNCHANGED <<now, scene, pr, seen, round, view, expected, merged>>
    BY <1>3 DEF Goto
  <2>2. /\ round = 1 => phase' = "revalidate"
        /\ round = 2 => phase' = "merge"
        /\ round = 3 => phase' = "admin"
    BY <1>1, <1>3 DEF Goto
  <2>3. Concluded
    BY <1>1, <2>1, OpenGates DEF IInv, Concluded
  <2>4. round = 3 => scene = "sole-owner"
    BY <2>1, SoloIsSole
  <2>5. phase' \in {"revalidate", "merge", "admin"}
    BY <1>1, <2>2
  <2>6. ViewSound'
    BY <2>5 DEF ViewSound, HeadView, ReviewsView, CommentsView, ThreadsView
  <2>7. FlowSound'
    BY <1>1, <2>1, <2>2, <2>4, FieldsInView DEF IInv, FlowSound, Decided
  <2>8. Concluded'
    BY <2>1, <2>3 DEF Concluded, HasPassed, HasSeen, Words
  <2>9. FinalSound'
    BY <2>5, <2>8 DEF FinalSound
  <2> QED BY <2>6, <2>7, <2>9 DEF IInv
<1> QED BY <1>2, <1>3 DEF Judge

\* A reading that adds none of the fields the conclusions are about leaves them true.
LEMMA ConcludedStays ==
  ASSUME Concluded,
         /\ view'.head = view.head /\ view'.committed = view.committed /\ view'.checks = view.checks
         /\ view'.reviews = view.reviews /\ view'.comments = view.comments /\ view'.waivers = view.waivers
         /\ view'.marks = view.marks /\ view'.threads = view.threads
  PROVE  Concluded'
<1>1. Words(view)' = Words(view)
  BY DEF Words
<1>2. \A w \in Talk!ResolveLatestReviewWatermark(view.marks, "mine") : HasSeen(w)'
  <2> SUFFICES ASSUME NEW w \in Talk!ResolveLatestReviewWatermark(view.marks, "mine") PROVE HasSeen(w)'
    OBVIOUS
  <2>1. HasSeen(w)
    BY DEF Concluded
  <2> QED BY <1>1, <2>1 DEF HasSeen
<1>3. HasPassed'
  BY DEF Concluded, HasPassed
<1> QED BY <1>2, <1>3 DEF Concluded

\* A round reads piece by piece.
LEMMA RoundStep ==
  ASSUME IInv, Known', ReadSnapshot \/ ReadReviews \/ ReadComments \/ ReadThreads
  PROVE  IInv'
<1>1. ViewSound'
  BY SnapshotReads, ReviewsRead, CommentsRead, ThreadsRead DEF IInv
<1>2. /\ phase' \in {"reviews", "comments", "threads", "judge"} /\ merged' = merged /\ merged = NoView
      /\ round' \in 1..3
  BY DEF IInv, FlowSound, ReadSnapshot, ReadReviews, ReadComments, ReadThreads, Goto, Open
<1>3. FlowSound' /\ FinalSound'
  BY <1>2 DEF FlowSound, FinalSound, Decided
<1> QED BY <1>1, <1>3 DEF IInv

\* The merge, or its refusal.
LEMMA MergeStep ==
  ASSUME IInv, Known', MergePr \/ Refused \/ HeadDrift \/ AdminRefused
  PROVE  IInv'
<1>1. CASE MergePr
  <2>1. /\ phase = "merge" /\ phase' = "done" /\ pr.head = expected /\ merged' = Done(FALSE)
        /\ UNCHANGED <<now, scene, pr, seen, round, view, expected>>
    BY <1>1 DEF MergePr, Goto, Matches
  <2>2. merged'.head = pr.head /\ merged'.view = view /\ ~ merged'.admin
    BY <2>1 DEF Done
  <2>3. ViewSound'
    BY <2>1 DEF ViewSound, HeadView, ReviewsView, CommentsView, ThreadsView
  <2>4. FlowSound'
    BY <2>1, <2>2 DEF IInv, FlowSound, Decided
  <2>5. Concluded
    BY <2>1 DEF IInv, FinalSound, Decided
  <2>6. Concluded'
    BY <2>1, <2>5, ConcludedStays
  <2>7. FinalSound'
    BY <2>1, <2>2, <2>6 DEF FinalSound
  <2> QED BY <2>3, <2>4, <2>7 DEF IInv
<1>2. CASE Abort /\ Open
  <2>1. phase' = "idle" /\ scene' = scene /\ merged' = NoView
    BY <1>2 DEF Abort, Goto, Open
  <2> QED BY <2>1, NothingInView
<1>3. CASE phase = "merge" /\ Open /\ Goto("revalidate") /\ UNCHANGED <<round, view, expected, merged>>
  <2>1. round' = 2 /\ phase' = "revalidate" /\ merged' = NoView
    BY <1>3 DEF IInv, FlowSound, Goto, Open
  <2>2. ViewSound'
    BY <2>1 DEF ViewSound, HeadView, ReviewsView, CommentsView, ThreadsView
  <2>3. FlowSound' /\ FinalSound'
    BY <2>1 DEF FlowSound, FinalSound, Decided
  <2> QED BY <2>2, <2>3 DEF IInv
<1>4. CASE Refused
  BY <1>2, <1>3, <1>4 DEF Refused
<1>5. CASE HeadDrift \/ AdminRefused
  BY <1>2, <1>5 DEF HeadDrift, AdminRefused
<1> QED BY <1>1, <1>4, <1>5

\* The fallback of an owner who has nobody else to ask.
LEMMA AdminStep ==
  ASSUME IInv, Known', ReadMergeState \/ MergePrAdmin
  PROVE  IInv'
<1>1. CASE ReadMergeState
  <2>1. PICK s \in {IF CheckPasses(pr) THEN "CLEAN" ELSE "BLOCKED", "UNKNOWN"} :
          IF SafeMergeState(s)
          THEN /\ view' = Reading([passing |-> CheckPasses(pr)])
               /\ Goto("merge-admin") /\ UNCHANGED <<round, expected, merged>>
          ELSE Abort
    BY <1>1 DEF ReadMergeState
  <2>2. CASE Abort
    <3>1. phase' = "idle" /\ scene' = scene /\ merged' = NoView
      BY <1>1, <2>2 DEF Abort, Goto, ReadMergeState, Open
    <3> QED BY <3>1, NothingInView
  <2>3. CASE SafeMergeState(s)
    <3>1. CheckPasses(pr)
      BY <2>3 DEF SafeMergeState
    <3>2. PICK f : f = [passing |-> CheckPasses(pr)]
      OBVIOUS
    <3>3. DOMAIN f = {"passing"} /\ f.passing
      BY <3>1, <3>2
    <3>4. /\ view' = Reading(f) /\ phase' = "merge-admin" /\ phase = "admin" /\ merged = NoView
          /\ UNCHANGED <<now, scene, pr, seen, round, expected, merged>>
      BY <1>1, <2>1, <2>3, <3>2 DEF Goto, ReadMergeState, Open
    <3>5. /\ DOMAIN view' = DOMAIN f \union DOMAIN view
          /\ \A x \in DOMAIN f : view'[x] = f[x]
          /\ \A x \in DOMAIN view \ DOMAIN f : view'[x] = view[x]
      BY <3>4, Adding
    <3>6. {"head", "committed", "checks", "reviews", "comments", "waivers", "marks", "threads"} \subseteq DOMAIN view
          /\ view.head = expected
      BY <3>4 DEF IInv, FlowSound, Decided
    <3>7. /\ view'.head = view.head /\ view'.committed = view.committed /\ view'.checks = view.checks
          /\ view'.reviews = view.reviews /\ view'.comments = view.comments /\ view'.waivers = view.waivers
          /\ view'.marks = view.marks /\ view'.threads = view.threads
      BY <3>3, <3>5, <3>6
    <3>8. view'.passing
      BY <3>3, <3>5
    <3>9. ViewSound'
      BY <3>4 DEF ViewSound, HeadView, ReviewsView, CommentsView, ThreadsView
    <3>10. FlowSound'
      BY <3>4, <3>5, <3>6, <3>7 DEF IInv, FlowSound, Decided
    <3>11. Concluded'
      <4>1. Concluded
        BY <3>4 DEF IInv, FinalSound, Decided
      <4> QED BY <3>7, <4>1, ConcludedStays
    <3>12. FinalSound'
      BY <3>4, <3>8, <3>11 DEF FinalSound
    <3> QED BY <3>9, <3>10, <3>12 DEF IInv
  <2> QED BY <2>1, <2>2, <2>3
<1>2. CASE MergePrAdmin
  <2>1. /\ phase = "merge-admin" /\ phase' = "done" /\ pr.head = expected /\ merged' = Done(TRUE)
        /\ UNCHANGED <<now, scene, pr, seen, round, view, expected>>
    BY <1>2 DEF MergePrAdmin, Goto, Matches
  <2>2. merged'.head = pr.head /\ merged'.view = view
    BY <2>1 DEF Done
  <2>3. ViewSound'
    BY <2>1 DEF ViewSound, HeadView, ReviewsView, CommentsView, ThreadsView
  <2>4. FlowSound'
    BY <2>1, <2>2 DEF IInv, FlowSound, Decided
  <2>5. Concluded /\ scene = "sole-owner" /\ view.passing
    BY <2>1 DEF IInv, FinalSound, FlowSound, Decided
  <2>6. Concluded'
    BY <2>1, <2>5, ConcludedStays
  <2>7. FinalSound'
    BY <2>1, <2>5, <2>6 DEF FinalSound
  <2> QED BY <2>3, <2>4, <2>7 DEF IInv
<1> QED BY <1>1, <1>2

\* Every step keeps the invariant.
LEMMA Step == IInv /\ [Next]_vars => IInv'
<1> SUFFICES ASSUME IInv, [Next]_vars PROVE IInv'
  OBVIOUS
<1>1. CASE World \/ Answer \/ Settle
  <2>1. Known' /\ UNCHANGED Others /\ Grown
    BY <1>1, TalkStep, TakeoverStep DEF IInv
  <2> QED BY <2>1, BystanderStep DEF Others, Bystands
<1>2. CASE Tick
  <2>1. Known' /\ Grown /\ now' = now + 1 /\ Bystands
    BY <1>2, TickStep DEF IInv, Tick, Bystands
  <2> QED BY <2>1, BystanderStep
<1>3. CASE ReadActivity
  <2>1. Known' /\ Grown /\ now' = now /\ Bystands
    BY <1>3, ReadActivityStep DEF IInv, ReadActivity, Bystands
  <2> QED BY <2>1, BystanderStep
<1>4. CASE RecordWatermark
  <2>1. Known'
    BY <1>4, RecordStep DEF IInv
  <2>2. phase' \in {"idle", "called"} /\ scene' = scene /\ merged' = NoView
    BY <1>4 DEF RecordWatermark, Open
  <2> QED BY <2>1, <2>2, NothingInView
<1>5. CASE Command
  <2>1. UNCHANGED <<now, scene, pr, seen>>
    BY <1>5 DEF Command, ReadSnapshot, HeadDrift, ReadReviews, ReadComments, ReadThreads, Judge, MergePr, Refused,
                ReadMergeState, MergePrAdmin, AdminRefused, Abort, Goto
  <2>2. Known'
    BY <2>1, CommandStep DEF IInv
  <2> QED BY <1>5, <2>2, RoundStep, JudgeStep, MergeStep, AdminStep DEF Command
<1>6. CASE UNCHANGED vars
  <2>1. UNCHANGED <<now, scene, pr, seen>> /\ Bystands /\ now' = now
    BY <1>6 DEF vars, Bystands
  <2>2. Known' /\ Grown
    BY <2>1, CommandStep DEF IInv
  <2> QED BY <2>1, <2>2, BystanderStep
<1> QED BY <1>1, <1>2, <1>3, <1>4, <1>5, <1>6 DEF Next

\* The invariant holds of the merge gate.
THEOREM Invariant == Spec => []IInv
  BY Begins, Step, PTL DEF Spec

\* Nothing that a person said goes unseen (the review-currency gate of
\* computePreMergeReadinessBlockers).
THEOREM NothingGoesUnseen == Spec => []NothingUnseen
  BY Invariant, Concludes, PTL

\* Every comment has an answer of its own (the disposition-evidence gate,
\* summarizeDispositionEvidenceForGate).
THEOREM EachCommentIsAnswered == Spec => []AnsweredOneByOne
  BY Invariant, Concludes, PTL

\* A commit is only merged on its own checks (the ci gate and --match-head-commit).
THEOREM ChecksArePassed == Spec => []MergedOnItsChecks
  BY Invariant, Concludes, PTL

\* The rules of the branch are only overridden for a sole owner, over a passing check
\* (isEligibleForSoloCodeownerAdminFallback, isSafeSoloCodeownerAdminMergeState).
THEOREM OverridesAreForSoleOwners == Spec => []AdminOnlyForSoleOwner
  BY Invariant, Concludes, PTL
=============================================================================
