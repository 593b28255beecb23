---------------------------- MODULE Upkeep_proofs ----------------------------
(***************************************************************************)
(* Proofs about what agents post and hide besides their work: the markers  *)
(* of any number of sessions, whoever is trusted and whatever they are     *)
(* asked for, and the answers of a run to whatever bots and people say.    *)
(***************************************************************************)
EXTENDS MCUpkeep, FiniteSetTheorems, SequenceTheorems, WellFoundedInduction, TLAPS

-----------------------------------------------------------------------------
(* Numbers, ranks and sequences.                                           *)

\* A set of natural numbers that is not empty has a least element.
LEMMA LeastOfNaturals ==
  ASSUME NEW T, T \subseteq Nat, T # {}
  PROVE  \E x \in T : \A y \in T : x <= y
<1> DEFINE C == {0..x : x \in T}
<1>1. C \subseteq FiniteSubsetsOf(Nat) /\ C # {}
  <2>1. ASSUME NEW x \in T PROVE 0..x \in FiniteSubsetsOf(Nat)
    <3>1. x \in Nat OBVIOUS
    <3>2. IsFiniteSet(0..x) BY <3>1, FS_Interval
    <3>3. 0..x \subseteq Nat BY <3>1
    <3>4. QED BY <3>2, <3>3 DEF FiniteSubsetsOf
  <2>2. QED BY <2>1
<1>2. PICK c \in C : \A d \in C : ~ (<<d, c>> \in StrictSubsetOrdering(Nat))
  BY <1>1, FS_StrictSubsetOrderingWellFounded, WFMin
<1>3. PICK x \in T : c = 0..x
  OBVIOUS
<1>4. ASSUME NEW y \in T, ~ (x <= y) PROVE FALSE
  <2>1. x \in Nat /\ y \in Nat /\ y < x BY <1>4
  <2>2. 0..y \in C OBVIOUS
  <2>3. 0..y \subseteq 0..x /\ x \in 0..x /\ x \notin 0..y BY <2>1
  <2>4. 0..y # 0..x BY <2>3
  <2>5. 0..y \in SUBSET Nat /\ 0..x \in SUBSET Nat BY <2>1
  <2>6. <<0..y, 0..x>> \in StrictSubsetOrdering(Nat) BY <2>3, <2>4, <2>5 DEF StrictSubsetOrdering
  <2>7. QED BY <1>2, <1>3, <2>2, <2>6
<1>5. QED BY <1>4

\* A finite set of natural numbers that is not empty has a greatest element.
LEMMA GreatestOfNaturals ==
  ASSUME NEW T, T \subseteq Nat, IsFiniteSet(T), T # {}
  PROVE  \E x \in T : \A y \in T : x >= y
<1> DEFINE From(x) == {y \in T : y >= x}
           C == {From(x) : x \in T}
<1>1. C \subseteq FiniteSubsetsOf(T) /\ C # {}
  <2>1. ASSUME NEW x \in T PROVE From(x) \in FiniteSubsetsOf(T)
    <3>1. From(x) \in SUBSET T OBVIOUS
    <3>2. IsFiniteSet(From(x)) BY <3>1, FS_Subset
    <3> QED BY <3>1, <3>2 DEF FiniteSubsetsOf
  <2> QED BY <2>1
<1>2. PICK c \in C : \A d \in C : ~ (<<d, c>> \in StrictSubsetOrdering(T))
  <2> HIDE DEF C
  <2> QED BY <1>1, FS_StrictSubsetOrderingWellFounded, WFMin
<1>3. PICK x \in T : c = From(x)
  OBVIOUS
<1>4. ASSUME NEW y \in T, ~ (x >= y) PROVE FALSE
  <2>1. x \in Nat /\ y \in Nat /\ y > x BY <1>4
  <2>2. From(y) \in C OBVIOUS
  <2>3. From(y) \subseteq From(x) /\ x \in From(x) /\ x \notin From(y)
    <3>1. ASSUME NEW z \in T, z >= y PROVE z >= x
      <4>1. z \in Nat OBVIOUS
      <4> QED BY <2>1, <3>1, <4>1
    <3>2. x >= x /\ ~ (x >= y) BY <2>1
    <3> QED BY <3>1, <3>2
  <2>4. From(y) # From(x) BY <2>3
  <2>5. From(y) \in SUBSET T /\ From(x) \in SUBSET T OBVIOUS
  <2>6. <<From(y), From(x)>> \in StrictSubsetOrdering(T) BY <2>3, <2>4, <2>5 DEF StrictSubsetOrdering
  <2> QED BY <1>2, <1>3, <2>2, <2>6
<1> QED BY <1>4

\* A part of 1..n that is not empty has a greatest element.
LEMMA GreatestIndex ==
  ASSUME NEW n \in Nat, NEW T, T \subseteq 1..n, T # {}
  PROVE  \E x \in T : \A y \in T : x >= y
<1>1. IsFiniteSet(1..n) BY FS_Interval
<1>2. IsFiniteSet(T) BY <1>1, FS_Subset
<1>3. T \subseteq Nat OBVIOUS
<1> QED BY <1>2, <1>3, GreatestOfNaturals

\* What is below an element of a finite set, by some order.
Ordered(S, below) ==
  /\ IsFiniteSet(S) /\ below \in [S -> SUBSET S]
  /\ \A x \in S : x \notin below[x]
  /\ \A x, y \in S : x # y => x \in below[y] \/ y \in below[x]
  /\ \A x, y \in S : y \in below[x] => below[y] \subseteq below[x]

\* Of two elements the lower has fewer below it.
LEMMA RankGrows ==
  ASSUME NEW S, NEW below, Ordered(S, below), NEW x \in S, NEW y \in S, y \in below[x]
  PROVE  /\ Cardinality(below[y]) < Cardinality(below[x])
         /\ Cardinality(below[y]) \in Nat
         /\ Cardinality(below[x]) \in Nat
<1>1. below[y] \subseteq below[x] /\ y \notin below[y] /\ below[x] \subseteq S
  BY DEF Ordered
<1>2. IsFiniteSet(below[x]) /\ IsFiniteSet(below[y])
  BY <1>1, FS_Subset DEF Ordered
<1>3. below[y] # below[x] BY <1>1
<1>4. Cardinality(below[y]) <= Cardinality(below[x]) /\ (Cardinality(below[y]) = Cardinality(below[x]) <=> below[x] = below[y])
  BY <1>1, <1>2, FS_Subset
<1> QED BY <1>2, <1>3, <1>4, FS_CardinalityType

\* Every rank is that of one element.
LEMMA RankIsTaken ==
  ASSUME NEW S, NEW below, Ordered(S, below), NEW n \in 0..(Cardinality(S) - 1)
  PROVE  /\ \E x \in S : Cardinality(below[x]) = n
         /\ \A x, y \in S : Cardinality(below[x]) = n /\ Cardinality(below[y]) = n => x = y
<1> DEFINE k == Cardinality(S)
           rank == [x \in S |-> Cardinality(below[x])]
<1>1. k \in Nat /\ IsFiniteSet(S)
  BY FS_CardinalityType DEF Ordered
<1>2. ASSUME NEW x \in S PROVE rank[x] \in 0..(k - 1)
  <2>1. below[x] \subseteq S /\ x \notin below[x] BY DEF Ordered
  <2>2. IsFiniteSet(below[x]) /\ Cardinality(below[x]) <= k /\ below[x] # S
    BY <1>1, <2>1, FS_Subset
  <2>3. Cardinality(below[x]) # k BY <1>1, <2>1, <2>2, FS_Subset
  <2>4. Cardinality(below[x]) \in Nat BY <2>2, FS_CardinalityType
  <2> QED BY <1>1, <2>2, <2>3, <2>4
<1>3. \A x, y \in S : rank[x] = rank[y] => x = y
  <2>1. SUFFICES ASSUME NEW x \in S, NEW y \in S, rank[x] = rank[y], x # y PROVE FALSE
    OBVIOUS
  <2>2. CASE x \in below[y] BY <2>1, <2>2, RankGrows
  <2>3. CASE y \in below[x] BY <2>1, <2>3, RankGrows
  <2> QED BY <2>1, <2>2, <2>3 DEF Ordered
<1>4. rank \in [S -> 0..(k - 1)]
  BY <1>2
<1>5. rank \in Injection(S, 0..(k - 1))
  <2> HIDE DEF rank
  <2> QED BY <1>3, <1>4 DEF Injection, IsInjective
<1>6. IsFiniteSet(0..(k - 1)) /\ Cardinality(0..(k - 1)) = k
  BY <1>1, FS_Interval
<1>7. rank \in Surjection(S, 0..(k - 1))
  <2> HIDE DEF rank, k
  <2> QED BY <1>5, <1>6, FS_Injection DEF k
<1>8. \E x \in S : rank[x] = n
  BY <1>7 DEF Surjection
<1> QED BY <1>3, <1>8

\* Of every rank there is one element.
RanksTaken(S, below) ==
  \A n \in 0..(Cardinality(S) - 1) :
    /\ \E x \in S : Cardinality(below[x]) = n
    /\ \A x, y \in S : Cardinality(below[x]) = n /\ Cardinality(below[y]) = n => x = y

\* It is so in any order.
LEMMA RanksAreTaken ==
  ASSUME NEW S, NEW below, Ordered(S, below)
  PROVE  RanksTaken(S, below)
BY RankIsTaken DEF RanksTaken

\* A list of elements of a set is a sequence over it.
LEMMA ListIsSeq ==
  ASSUME NEW k \in Nat, NEW S, NEW f \in [1..k -> S]
  PROVE  f \in Seq(S) /\ Len(f) = k
BY SeqDef

Elements(q) == {q[i] : i \in DOMAIN q}

\* A sequence of some elements is one of its own.
LEMMA ElementsOfSeq ==
  ASSUME NEW S, NEW q \in Seq(S)
  PROVE  q \in Seq(Elements(q)) /\ Elements(q) \subseteq S
<1>1. DOMAIN q = 1..Len(q) /\ Len(q) \in Nat /\ q = [i \in 1..Len(q) |-> q[i]] OBVIOUS
<1>2. \A i \in 1..Len(q) : q[i] \in Elements(q) /\ q[i] \in S BY <1>1 DEF Elements
<1> QED BY <1>1, <1>2 DEF Elements

\* The elements of a set of numbers in their order.
LEMMA InOrderLists ==
  ASSUME NEW n \in Nat, NEW T, T \subseteq 1..n
  PROVE  Markers!InOrder(T) \in Seq(T)
<1> DEFINE below == [x \in T |-> {j \in T : j < x}]
           k == Cardinality(T)
<1>1. IsFiniteSet(T)
  <2>1. IsFiniteSet(1..n) BY FS_Interval
  <2> QED BY <2>1, FS_Subset
<1>2. k \in Nat
  BY <1>1, FS_CardinalityType
<1>3. Ordered(T, below)
  <2>1. \A x, y \in T : x \in Nat /\ y \in Nat /\ (x # y => x < y \/ y < x) /\ ~ (x < x)
    OBVIOUS
  <2>2. \A x, y, z \in T : z < y /\ y < x => z < x
    OBVIOUS
  <2> QED BY <1>1, <2>1, <2>2 DEF Ordered
<1>4. \A i \in 0..(k - 1) : \E x \in T : Cardinality(below[x]) = i
  <2> HIDE DEF below
  <2>1. RanksTaken(T, below)
    BY <1>3, RanksAreTaken
  <2> QED BY <2>1 DEF RanksTaken
<1> DEFINE nth(i) == CHOOSE x \in T : Cardinality({j \in T : j < x}) = i - 1
<1>5. ASSUME NEW i \in 1..k PROVE nth(i) \in T
  <2>1. i - 1 \in 0..(k - 1) BY <1>2
  <2>2. PICK x \in T : Cardinality(below[x]) = i - 1
    BY <1>4, <2>1
  <2>3. \E y \in T : Cardinality({j \in T : j < y}) = i - 1
    BY <2>2
  <2> QED BY <2>3
<1>6. [i \in 1..k |-> nth(i)] \in [1..k -> T]
  <2> HIDE DEF nth, k
  <2> QED BY <1>5
<1>7. [i \in 1..k |-> nth(i)] \in Seq(T)
  <2> HIDE DEF nth, k
  <2> QED BY <1>2, <1>6, ListIsSeq
<1>8. Markers!InOrder(T) = [i \in 1..k |-> nth(i)]
  BY DEF Markers!InOrder, Cardinality, Markers!Cardinality
<1> QED BY <1>7, <1>8

-----------------------------------------------------------------------------
(* Markers: the invariant.                                                 *)

CommentFields == {"on", "type", "author", "by", "head", "claim", "attempt", "hidden"}
SessionFields == {"phase", "head", "attempt", "posted", "stale", "blind", "issues", "todo"}
Phases == {"start", "post", "find", "live", "list", "fetch", "hide", "minimize", "done"}

\* Comments of a pull request whose head is hd.
CommentsSound(all, hd) ==
  /\ hd \in Nat
  /\ all \in Seq(Elements(all))
  /\ \A i \in DOMAIN all :
       /\ DOMAIN all[i] = CommentFields
       /\ all[i].head \in 0..hd /\ all[i].attempt \in Nat /\ all[i].hidden \in BOOLEAN

AskSound(a, hd) ==
  a.type \in {"review-ack", "copilot-unavailable", "sweep"} /\ a.head \in 0..hd /\ a.attempt \in Nat

\* What j says, it says in the place of i.
Replaces(all, j, i) ==
  all[j].on = all[i].on /\ all[j].type = all[i].type /\ all[j].author \in Posters

\* A report of a later attempt of the claim, of no earlier head.
FurtherOn(all, j, i) ==
  /\ Replaces(all, j, i) /\ all[j].claim = all[i].claim
  /\ all[j].attempt > all[i].attempt /\ all[i].head <= all[j].head

\* A marker that may be hidden; once it may, it always may.
Behind(all, hd, i) ==
  \/ all[i].type \in {"review-ack", "copilot-unavailable"} /\ all[i].head < hd
  \/ all[i].type = "copilot-unavailable" /\ \E j \in DOMAIN all : FurtherOn(all, j, i)
  \/ all[i].type \in Markers!AuthoringFamilies /\ \E j \in DOMAIN all : j > i /\ Replaces(all, j, i)

HiddenSound(all, hd) ==
  \A i \in DOMAIN all : all[i].hidden => all[i].author \in Posters /\ Behind(all, hd, i)

Shape(q, hd) ==
  /\ DOMAIN q = SessionFields /\ q.phase \in Phases /\ q.head \in 0..hd
  /\ q.attempt \in Nat /\ q.posted \in Nat /\ q.stale \in BOOLEAN /\ q.blind \in BOOLEAN /\ q.todo \in Seq(Nat)

\* A sweep posts nothing, a poster has no issues to look at.
Role(a, q) ==
  /\ q.phase \in {"post", "find", "live", "list"} => a.type # "sweep"
  /\ q.phase = "fetch" => a.type = "sweep"

\* The comments of a session are what it was asked for, of the head that it holds.
Own(all, a, s, q) ==
  \A i \in DOMAIN all : all[i].by = s =>
    /\ q.phase # "start" /\ a.type # "sweep"
    /\ all[i].on = "pr" /\ all[i].type = a.type /\ all[i].author = a.author /\ all[i].head = q.head
    /\ all[i].claim = a.claim /\ all[i].attempt = a.attempt

\* A poster that hides has its own marker; either there was no later head before that marker,
\* or there is one now.
Level(all, hd, a, s, q) ==
  q.phase \in {"live", "list", "hide", "minimize"} /\ a.type # "sweep" =>
    /\ q.posted \in DOMAIN all /\ all[q.posted].by = s
    /\ q.phase # "live" => IF q.stale THEN q.head < hd
                           ELSE \A i \in DOMAIN all : i < q.posted => all[i].head <= q.head

\* All that a session is about to hide may be hidden.
Due(all, hd, q) ==
  /\ \A n \in DOMAIN q.todo : q.todo[n] \in DOMAIN all /\ Behind(all, hd, q.todo[n])
  /\ q.phase = "minimize" => q.todo # <<>> /\ all[q.todo[1]].author \in Posters

\* A session that never looked in vain has posted once at most, and not yet when it posts.
Once(all, s, q) ==
  \/ q.blind
  \/ /\ q.phase = "post" => \A i \in DOMAIN all : all[i].by # s
     /\ \A i, j \in DOMAIN all : all[i].by = s /\ all[j].by = s => i = j

SessionSound(all, hd, a, s, q) ==
  /\ Shape(q, hd) /\ Role(a, q) /\ Own(all, a, s, q) /\ Level(all, hd, a, s, q)
  /\ Due(all, hd, q) /\ Once(all, s, q)

MarkersInv ==
  /\ CommentsSound(comments, head) /\ HiddenSound(comments, head)
  /\ DOMAIN ask = Sessions /\ DOMAIN session = Sessions
  /\ \A s \in Sessions : AskSound(ask[s], head) /\ SessionSound(comments, head, ask[s], s, session[s])

-----------------------------------------------------------------------------
(* Markers: what the steps keep.                                           *)

\* Comments are added at the end, hidden, and otherwise left alone; the head advances.
Goes(all, hd, all2, hd2) ==
  /\ hd <= hd2 /\ Len(all) <= Len(all2)
  /\ \A i \in DOMAIN all :
       /\ all2[i].on = all[i].on /\ all2[i].type = all[i].type /\ all2[i].author = all[i].author
       /\ all2[i].by = all[i].by /\ all2[i].head = all[i].head /\ all2[i].claim = all[i].claim
       /\ all2[i].attempt = all[i].attempt

LEMMA GoesOn ==
  ASSUME NEW all, NEW hd, NEW all2, NEW hd2, CommentsSound(all, hd), CommentsSound(all2, hd2), Goes(all, hd, all2, hd2)
  PROVE  /\ DOMAIN all \subseteq DOMAIN all2
         /\ \A i \in DOMAIN all2 : i \notin DOMAIN all => i > Len(all)
<1>1. DOMAIN all = 1..Len(all) /\ DOMAIN all2 = 1..Len(all2) /\ Len(all) \in Nat /\ Len(all2) \in Nat
  BY DEF CommentsSound
<1> QED BY <1>1 DEF Goes

LEMMA StaysBehind ==
  ASSUME NEW all, NEW hd, NEW all2, NEW hd2, CommentsSound(all, hd), CommentsSound(all2, hd2), Goes(all, hd, all2, hd2),
         NEW i \in DOMAIN all, Behind(all, hd, i)
  PROVE  Behind(all2, hd2, i)
<1>1. DOMAIN all \subseteq DOMAIN all2 BY GoesOn
<1>2. \A j \in DOMAIN all : (Replaces(all, j, i) => Replaces(all2, j, i)) /\ (FurtherOn(all, j, i) => FurtherOn(all2, j, i))
  BY DEF Goes, Replaces, FurtherOn
<1>3. all2[i].type = all[i].type /\ all2[i].head = all[i].head /\ hd <= hd2 /\ hd \in Nat /\ hd2 \in Nat /\ all[i].head \in Nat
  BY DEF Goes, CommentsSound
<1>4. all[i].head < hd => all2[i].head < hd2
  BY <1>3
<1> QED BY <1>1, <1>2, <1>3, <1>4 DEF Behind

\* What a session that does nothing holds stays sound, whatever the others post and hide.
LEMMA OthersStaySound ==
  ASSUME NEW all, NEW hd, NEW all2, NEW hd2, CommentsSound(all, hd), CommentsSound(all2, hd2), Goes(all, hd, all2, hd2),
         NEW a, NEW s, NEW q, SessionSound(all, hd, a, s, q),
         \A i \in DOMAIN all2 : i > Len(all) => all2[i].by # s
  PROVE  SessionSound(all2, hd2, a, s, q)
<1>1. /\ DOMAIN all \subseteq DOMAIN all2
      /\ \A i \in DOMAIN all2 : i \notin DOMAIN all => i > Len(all)
  BY GoesOn
<1>2. hd \in Nat /\ hd2 \in Nat /\ hd <= hd2 /\ DOMAIN all = 1..Len(all) /\ Len(all) \in Nat /\ DOMAIN all2 = 1..Len(all2)
      /\ Len(all2) \in Nat
  BY DEF CommentsSound, Goes
<1>3. Shape(q, hd2)
  BY <1>2 DEF SessionSound, Shape
<1>4. \A i \in DOMAIN all2 : all2[i].by = s => i \in DOMAIN all
  BY <1>1
<1>5. Own(all2, a, s, q)
  BY <1>4 DEF SessionSound, Own, Goes
<1>6. Level(all2, hd2, a, s, q)
  <2> SUFFICES ASSUME q.phase \in {"live", "list", "hide", "minimize"}, a.type # "sweep"
               PROVE  /\ q.posted \in DOMAIN all2 /\ all2[q.posted].by = s
                      /\ q.phase # "live" => IF q.stale THEN q.head < hd2
                                             ELSE \A i \in DOMAIN all2 : i < q.posted => all2[i].head <= q.head
    BY DEF Level
  <2>1. /\ q.posted \in DOMAIN all /\ all[q.posted].by = s
        /\ q.phase # "live" => IF q.stale THEN q.head < hd
                               ELSE \A i \in DOMAIN all : i < q.posted => all[i].head <= q.head
    BY DEF SessionSound, Level
  <2>2. q.posted \in DOMAIN all2 /\ all2[q.posted].by = s
    BY <2>1, <1>1 DEF Goes
  <2>3. \A i \in DOMAIN all2 : i < q.posted => i \in DOMAIN all
    BY <2>1, <1>2
  <2>4. q.head < hd => q.head < hd2
    BY <1>2 DEF SessionSound, Shape
  <2> QED BY <2>1, <2>2, <2>3, <2>4 DEF Goes
<1>7. Due(all2, hd2, q)
  <2>1. \A n \in DOMAIN q.todo : q.todo[n] \in DOMAIN all /\ Behind(all, hd, q.todo[n])
    BY DEF SessionSound, Due
  <2>2. \A n \in DOMAIN q.todo : q.todo[n] \in DOMAIN all2 /\ Behind(all2, hd2, q.todo[n])
    BY <2>1, <1>1, StaysBehind
  <2>3. q.phase = "minimize" => q.todo # <<>> /\ all[q.todo[1]].author \in Posters
    BY DEF SessionSound, Due
  <2>4. q.todo # <<>> => 1 \in DOMAIN q.todo
    BY DEF SessionSound, Shape
  <2> QED BY <2>1, <2>2, <2>3, <2>4 DEF Due, Goes
<1>8. Once(all2, s, q)
  BY <1>1, <1>4 DEF SessionSound, Once, Goes
<1> QED BY <1>3, <1>5, <1>6, <1>7, <1>8 DEF SessionSound

\* One comment is hidden.
LEMMA HideDoes ==
  ASSUME NEW all, NEW hd, CommentsSound(all, hd), NEW k \in DOMAIN all,
         NEW all2, all2 = [all EXCEPT ![k].hidden = TRUE]
  PROVE  /\ CommentsSound(all2, hd) /\ Goes(all, hd, all2, hd) /\ Len(all2) = Len(all)
         /\ \A i \in DOMAIN all2 : all2[i].hidden => i = k \/ all[i].hidden
<1>1. DOMAIN all = 1..Len(all) /\ Len(all) \in Nat /\ all = [i \in 1..Len(all) |-> all[i]]
  BY DEF CommentsSound
<1>2. DOMAIN all2 = 1..Len(all) /\ \A i \in DOMAIN all : all2[i] = IF i = k THEN [all[k] EXCEPT !.hidden = TRUE] ELSE all[i]
  BY <1>1
<1>3. all2 = [i \in 1..Len(all) |-> all2[i]]
  BY <1>1
<1>4. all2 \in [1..Len(all) -> Elements(all2)]
  BY <1>2, <1>3 DEF Elements
<1>5. all2 \in Seq(Elements(all2)) /\ Len(all2) = Len(all)
  <2> DEFINE own == Elements(all2)
             k2 == Len(all)
  <2>1. k2 \in Nat /\ all2 \in [1..k2 -> own]
    BY <1>1, <1>4
  <2> HIDE DEF own, k2
  <2>2. all2 \in Seq(own) /\ Len(all2) = k2
    BY <2>1, ListIsSeq
  <2> QED BY <2>2 DEF own, k2
<1>6. \A i \in DOMAIN all : DOMAIN all[i] = CommentFields /\ all[i].head \in 0..hd /\ all[i].attempt \in Nat /\ all[i].hidden \in BOOLEAN
  BY DEF CommentsSound
<1>7. \A i \in DOMAIN all :
        /\ DOMAIN all2[i] = CommentFields
        /\ all2[i].on = all[i].on /\ all2[i].type = all[i].type /\ all2[i].author = all[i].author
        /\ all2[i].by = all[i].by /\ all2[i].head = all[i].head /\ all2[i].claim = all[i].claim
        /\ all2[i].attempt = all[i].attempt
  BY <1>2, <1>6 DEF CommentFields
<1>8. \A i \in DOMAIN all : all2[i].hidden \in BOOLEAN /\ (all2[i].hidden => i = k \/ all[i].hidden)
  BY <1>2, <1>6 DEF CommentFields
<1>9. CommentsSound(all2, hd)
  BY <1>1, <1>2, <1>5, <1>6, <1>7, <1>8 DEF CommentsSound
<1>10. Goes(all, hd, all2, hd)
  BY <1>1, <1>5, <1>7 DEF Goes, CommentsSound
<1> QED BY <1>1, <1>2, <1>5, <1>8, <1>9, <1>10

\* One comment is added.
Fresh(c, hd) == DOMAIN c = CommentFields /\ c.head \in 0..hd /\ c.attempt \in Nat /\ c.hidden = FALSE

LEMMA AppendDoes ==
  ASSUME NEW all, NEW hd, CommentsSound(all, hd), NEW c, Fresh(c, hd)
  PROVE  /\ CommentsSound(Append(all, c), hd) /\ Goes(all, hd, Append(all, c), hd)
         /\ Len(Append(all, c)) = Len(all) + 1 /\ Append(all, c)[Len(all) + 1] = c
         /\ DOMAIN all = 1..Len(all) /\ Len(all) \in Nat /\ DOMAIN Append(all, c) = 1..(Len(all) + 1)
         /\ \A i \in DOMAIN all : Append(all, c)[i] = all[i]
<1> DEFINE S == Elements(all)
           all2 == Append(all, c)
<1>1. all \in Seq(S) /\ hd \in Nat
  BY DEF CommentsSound
<1> HIDE DEF S
<1>2. all \in Seq(S \union {c})
  BY <1>1, SeqMonotonic
<1>3. DOMAIN all = 1..Len(all) /\ Len(all) \in Nat
  BY <1>1
<1>4. /\ all2 \in Seq(S \union {c}) /\ Len(all2) = Len(all) + 1 /\ DOMAIN all2 = 1..(Len(all) + 1)
      /\ all2[Len(all) + 1] = c /\ \A i \in 1..Len(all) : all2[i] = all[i]
  BY <1>2, <1>3
<1>5. all2 \in Seq(Elements(all2))
  BY <1>4, ElementsOfSeq
<1>6. \A i \in DOMAIN all2 : i = Len(all) + 1 \/ i \in DOMAIN all
  BY <1>3, <1>4
<1>7. CommentsSound(all2, hd)
  BY <1>1, <1>3, <1>4, <1>5, <1>6 DEF CommentsSound, Fresh
<1>8. Goes(all, hd, all2, hd)
  BY <1>1, <1>3, <1>4 DEF Goes
<1> QED BY <1>3, <1>4, <1>7, <1>8

LEMMA NothingGoes ==
  ASSUME NEW all, NEW hd, CommentsSound(all, hd), NEW hd2 \in Nat, hd <= hd2
  PROVE  CommentsSound(all, hd2) /\ Goes(all, hd, all, hd2)
<1>1. Len(all) \in Nat /\ hd \in Nat BY DEF CommentsSound
<1>2. \A i \in DOMAIN all : all[i].head \in 0..hd2 BY <1>1 DEF CommentsSound
<1> QED BY <1>1, <1>2 DEF CommentsSound, Goes

\* What is hidden stays justified, and so is what is hidden now.
LEMMA HiddenStaysSound ==
  ASSUME NEW all, NEW hd, NEW all2, NEW hd2, CommentsSound(all, hd), CommentsSound(all2, hd2), Goes(all, hd, all2, hd2),
         HiddenSound(all, hd),
         \A i \in DOMAIN all2 : all2[i].hidden =>
           i \in DOMAIN all /\ (all[i].hidden \/ (all[i].author \in Posters /\ Behind(all, hd, i)))
  PROVE  HiddenSound(all2, hd2)
<1> SUFFICES ASSUME NEW i \in DOMAIN all2, all2[i].hidden PROVE all2[i].author \in Posters /\ Behind(all2, hd2, i)
  BY DEF HiddenSound
<1>1. i \in DOMAIN all /\ all[i].author \in Posters /\ Behind(all, hd, i)
  BY DEF HiddenSound
<1>2. Behind(all2, hd2, i) BY <1>1, StaysBehind
<1> QED BY <1>1, <1>2 DEF Goes

\* A step of one session.
LEMMA SessionKeeps ==
  ASSUME MarkersInv, NEW s \in Sessions, ask' = ask,
         CommentsSound(comments', head'), Goes(comments, head, comments', head'), HiddenSound(comments', head'),
         DOMAIN session' = Sessions, \A r \in Sessions : r # s => session'[r] = session[r],
         \A i \in DOMAIN comments' : i > Len(comments) => comments'[i].by = s,
         SessionSound(comments', head', ask[s], s, session'[s])
  PROVE  MarkersInv'
<1>1. head \in Nat /\ head' \in Nat /\ head <= head'
  BY DEF MarkersInv, CommentsSound, Goes
<1>2. \A r \in Sessions : AskSound(ask[r], head')
  BY <1>1 DEF MarkersInv, AskSound
<1>3. ASSUME NEW r \in Sessions, r # s PROVE SessionSound(comments', head', ask[r], r, session'[r])
  <2>1. SessionSound(comments, head, ask[r], r, session[r]) /\ CommentsSound(comments, head)
    BY DEF MarkersInv
  <2>2. \A i \in DOMAIN comments' : i > Len(comments) => comments'[i].by # r
    BY <1>3
  <2>3. SessionSound(comments', head', ask[r], r, session[r])
    BY <2>1, <2>2, OthersStaySound
  <2> QED BY <2>3, <1>3
<1> QED BY <1>2, <1>3 DEF MarkersInv

\* A step that only changes what one session holds.
LEMMA SilentKeeps ==
  ASSUME MarkersInv, NEW s \in Sessions, UNCHANGED <<head, comments, ask>>,
         DOMAIN session' = Sessions, \A r \in Sessions : r # s => session'[r] = session[r],
         SessionSound(comments, head, ask[s], s, session'[s])
  PROVE  MarkersInv'
<1>1. CommentsSound(comments, head) /\ HiddenSound(comments, head) /\ head \in Nat
  BY DEF MarkersInv, CommentsSound
<1>2. Goes(comments, head, comments, head)
  BY <1>1, NothingGoes
<1>3. \A i \in DOMAIN comments : ~ (i > Len(comments))
  BY <1>1 DEF CommentsSound
<1> QED BY <1>1, <1>2, <1>3, SessionKeeps

-----------------------------------------------------------------------------
(* Markers: the steps.                                                     *)

\* A session that goes no further than it was, with less to hide.
Less(a, q, q2) ==
  /\ q2.head = q.head /\ q2.posted = q.posted /\ q2.stale = q.stale /\ q2.blind = q.blind
  /\ \A n \in DOMAIN q2.todo : \E m \in DOMAIN q.todo : q2.todo[n] = q.todo[m]
  /\ \/ q2.phase = "done"
     \/ q2.phase = "hide" /\ (q.phase \in {"hide", "minimize"} \/ a.type = "sweep")
     \/ q2.phase = "fetch" /\ q.phase = "fetch"

LEMMA LessStaysSound ==
  ASSUME NEW all, NEW hd, NEW a, NEW s, NEW q, CommentsSound(all, hd), SessionSound(all, hd, a, s, q),
         NEW q2, Shape(q2, hd), Less(a, q, q2)
  PROVE  SessionSound(all, hd, a, s, q2)
<1>1. Role(a, q2)
  BY DEF Role, SessionSound, Less
<1>2. Own(all, a, s, q2)
  BY DEF Own, SessionSound, Less
<1>3. Level(all, hd, a, s, q2)
  BY DEF Level, SessionSound, Less
<1>4. Due(all, hd, q2)
  BY DEF Due, SessionSound, Less
<1>5. Once(all, s, q2)
  BY DEF Once, SessionSound, Less
<1> QED BY <1>1, <1>2, <1>3, <1>4, <1>5 DEF SessionSound

\* What holds of a session before its step.
LEMMA SessionHas ==
  ASSUME MarkersInv, NEW s \in Sessions
  PROVE  /\ SessionSound(comments, head, ask[s], s, session[s]) /\ AskSound(ask[s], head)
         /\ CommentsSound(comments, head) /\ HiddenSound(comments, head)
         /\ DOMAIN session = Sessions /\ DOMAIN session[s] = SessionFields /\ head \in Nat
         /\ DOMAIN comments = 1..Len(comments) /\ Len(comments) \in Nat
<1>1. CommentsSound(comments, head) /\ SessionSound(comments, head, ask[s], s, session[s])
  BY DEF MarkersInv
<1> QED BY <1>1 DEF MarkersInv, CommentsSound, SessionSound, Shape

\* What is left of a list is in it.
LEMMA TailHasLess ==
  ASSUME NEW S, NEW q \in Seq(S), q # <<>>
  PROVE  Tail(q) \in Seq(S) /\ 1 \in DOMAIN q /\ q[1] \in S /\ \A n \in DOMAIN Tail(q) : \E m \in DOMAIN q : Tail(q)[n] = q[m]
<1>1. Len(q) \in Nat \ {0} /\ DOMAIN q = 1..Len(q) OBVIOUS
<1>2. Tail(q) \in Seq(S) /\ DOMAIN Tail(q) = 1..(Len(q) - 1) /\ \A i \in 1..(Len(q) - 1) : Tail(q)[i] = q[i + 1]
  BY <1>1
<1>3. \A i \in 1..(Len(q) - 1) : i + 1 \in 1..Len(q) BY <1>1
<1> QED BY <1>1, <1>2, <1>3

\* A session that ends, goes on to the next subject or the next issue.
LEMMA LessKeeps ==
  ASSUME MarkersInv, NEW s \in Sessions, UNCHANGED <<head, comments, ask>>,
         \/ Markers!Ended(s)
         \/ session[s].phase \in {"hide", "minimize"} /\ session[s].todo # <<>> /\ Markers!NextSubject(s)
         \/ /\ session[s].phase = "fetch"
            /\ \/ session' = [session EXCEPT ![s].issues = Tail(@)]
               \/ session' = [session EXCEPT ![s].phase = "hide"]
  PROVE  MarkersInv'
<1> DEFINE q == session[s]
           q2 == session'[s]
<1>1. /\ SessionSound(comments, head, ask[s], s, q) /\ CommentsSound(comments, head)
      /\ DOMAIN session = Sessions /\ DOMAIN q = SessionFields /\ Shape(q, head) /\ Role(ask[s], q)
  BY SessionHas DEF SessionSound
<1>2. Tail(q.todo) \in Seq(Nat) \/ q.todo = <<>>
  BY <1>1, TailHasLess DEF Shape
<1>3. /\ DOMAIN session' = Sessions /\ \A r \in Sessions : r # s => session'[r] = session[r]
      /\ Shape(q2, head) /\ Less(ask[s], q, q2)
  <2>1. CASE Markers!Ended(s)
    <3>1. /\ DOMAIN session' = Sessions /\ \A r \in Sessions : r # s => session'[r] = session[r]
          /\ DOMAIN q2 = SessionFields /\ q2.phase = "done" /\ q2.todo = <<>> /\ q2.head = q.head /\ q2.posted = q.posted
          /\ q2.stale = q.stale /\ q2.blind = q.blind /\ q2.attempt = q.attempt
      BY <1>1, <2>1 DEF Markers!Ended, SessionFields
    <3>2. <<>> \in Seq(Nat) /\ DOMAIN <<>> = {} OBVIOUS
    <3> HIDE DEF q, q2
    <3> QED BY <1>1, <3>1, <3>2 DEF Shape, Phases, Less
  <2>2. CASE q.phase \in {"hide", "minimize"} /\ q.todo # <<>> /\ Markers!NextSubject(s)
    <3>1. /\ DOMAIN session' = Sessions /\ \A r \in Sessions : r # s => session'[r] = session[r]
          /\ DOMAIN q2 = SessionFields /\ q2.phase = "hide" /\ q2.todo = Tail(q.todo) /\ q2.head = q.head /\ q2.posted = q.posted
          /\ q2.stale = q.stale /\ q2.blind = q.blind /\ q2.attempt = q.attempt
      BY <1>1, <2>2 DEF Markers!NextSubject, SessionFields
    <3> HIDE DEF q, q2
    <3>2. Tail(q.todo) \in Seq(Nat) /\ \A n \in DOMAIN Tail(q.todo) : \E m \in DOMAIN q.todo : Tail(q.todo)[n] = q.todo[m]
      BY <1>1, <2>2, TailHasLess DEF Shape
    <3> QED BY <1>1, <2>2, <3>1, <3>2 DEF Shape, Phases, Less
  <2>3. CASE q.phase = "fetch" /\ session' = [session EXCEPT ![s].issues = Tail(@)]
    <3>1. /\ DOMAIN session' = Sessions /\ \A r \in Sessions : r # s => session'[r] = session[r]
          /\ DOMAIN q2 = SessionFields /\ q2.phase = "fetch" /\ q2.todo = q.todo /\ q2.head = q.head /\ q2.posted = q.posted
          /\ q2.stale = q.stale /\ q2.blind = q.blind /\ q2.attempt = q.attempt
      BY <1>1, <2>3 DEF SessionFields
    <3> HIDE DEF q, q2
    <3> QED BY <1>1, <2>3, <3>1 DEF Shape, Phases, Less
  <2>4. CASE q.phase = "fetch" /\ session' = [session EXCEPT ![s].phase = "hide"]
    <3>1. /\ DOMAIN session' = Sessions /\ \A r \in Sessions : r # s => session'[r] = session[r]
          /\ DOMAIN q2 = SessionFields /\ q2.phase = "hide" /\ q2.todo = q.todo /\ q2.head = q.head /\ q2.posted = q.posted
          /\ q2.stale = q.stale /\ q2.blind = q.blind /\ q2.attempt = q.attempt
      BY <1>1, <2>4 DEF SessionFields
    <3> HIDE DEF q, q2
    <3> QED BY <1>1, <2>4, <3>1 DEF Shape, Phases, Role, Less
  <2> QED BY <2>1, <2>2, <2>3, <2>4
<1>4. SessionSound(comments, head, ask[s], s, q2)
  <2> HIDE DEF q, q2
  <2> QED BY <1>1, <1>3, LessStaysSound
<1>5. SessionSound(comments, head, ask[s], s, session'[s])
  BY <1>4
<1> QED BY <1>3, <1>5, SilentKeeps

LEMMA PushKeeps ==
  ASSUME MarkersInv, Markers!Push
  PROVE  MarkersInv'
<1>1. head' = head + 1 /\ UNCHANGED <<comments, ask, session>>
  BY DEF Markers!Push
<1>2. CommentsSound(comments, head) /\ HiddenSound(comments, head) /\ head \in Nat
  BY DEF MarkersInv, CommentsSound
<1>3. CommentsSound(comments, head + 1) /\ Goes(comments, head, comments, head + 1)
  BY <1>2, NothingGoes
<1>4. HiddenSound(comments, head + 1)
  BY <1>2, <1>3, HiddenStaysSound DEF HiddenSound
<1>5. \A i \in DOMAIN comments : ~ (i > Len(comments))
  BY <1>2 DEF CommentsSound
<1>6. ASSUME NEW s \in Sessions
      PROVE  AskSound(ask[s], head + 1) /\ SessionSound(comments, head + 1, ask[s], s, session[s])
  <2>1. SessionSound(comments, head, ask[s], s, session[s]) /\ AskSound(ask[s], head)
    BY DEF MarkersInv
  <2>2. SessionSound(comments, head + 1, ask[s], s, session[s])
    BY <1>2, <1>3, <1>5, <2>1, OthersStaySound
  <2> QED BY <1>2, <2>1, <2>2 DEF AskSound
<1> QED BY <1>1, <1>3, <1>4, <1>6 DEF MarkersInv

LEMMA StartKeeps ==
  ASSUME MarkersInv, NEW s \in Sessions, Markers!Start(s)
  PROVE  MarkersInv'
<1> DEFINE q == session[s]
           q2 == session'[s]
           a == ask[s]
<1>1. /\ SessionSound(comments, head, a, s, q) /\ AskSound(a, head) /\ DOMAIN session = Sessions /\ DOMAIN q = SessionFields
      /\ head \in Nat /\ Shape(q, head) /\ Own(comments, a, s, q) /\ Due(comments, head, q) /\ q.phase = "start"
  BY SessionHas DEF SessionSound, Markers!Start
<1>2. UNCHANGED <<head, comments, ask>>
  BY DEF Markers!Start, Markers!Silently
<1>3. /\ DOMAIN session' = Sessions /\ \A r \in Sessions : r # s => session'[r] = session[r]
      /\ DOMAIN q2 = SessionFields /\ q2.attempt = q.attempt /\ q2.posted = q.posted /\ q2.stale = q.stale
      /\ q2.blind = q.blind /\ q2.todo = q.todo
      /\ \/ a.type = "sweep" /\ q2.phase = "fetch" /\ q2.head = q.head
         \/ a.type # "sweep" /\ q2.phase = "post" /\ q2.head = IF a.head # 0 THEN a.head ELSE head
  <2>1. CASE a.type = "sweep"
    BY <1>1, <2>1 DEF Markers!Start, SessionFields
  <2>2. CASE a.type # "sweep"
    BY <1>1, <2>2 DEF Markers!Start, SessionFields
  <2> QED BY <2>1, <2>2
<1>4. \A i \in DOMAIN comments : comments[i].by # s
  BY <1>1 DEF Own
<1>5. SessionSound(comments, head, a, s, q2)
  <2> HIDE DEF q, q2, a
  <2>1. q2.head \in 0..head /\ q2.phase \in {"fetch", "post"}
    BY <1>1, <1>3 DEF Shape, AskSound
  <2>2. Shape(q2, head)
    BY <1>1, <1>3, <2>1 DEF Shape, Phases
  <2>3. Role(a, q2) /\ Own(comments, a, s, q2) /\ Level(comments, head, a, s, q2) /\ Due(comments, head, q2) /\ Once(comments, s, q2)
    BY <1>1, <1>3, <1>4 DEF Role, Own, Level, Due, Once
  <2> QED BY <2>2, <2>3 DEF SessionSound
<1> QED BY <1>2, <1>3, <1>5, SilentKeeps

\* A comment of a session that is about to post.
LEMMA PostDoes ==
  ASSUME MarkersInv, NEW s \in Sessions, session[s].phase = "post",
         head' = head, comments' = Append(comments, Markers!Comment(s))
  PROVE  /\ CommentsSound(comments', head) /\ Goes(comments, head, comments', head) /\ HiddenSound(comments', head)
         /\ \A i \in DOMAIN comments' : i > Len(comments) => comments'[i].by = s
         /\ Len(comments) + 1 \in DOMAIN comments' /\ comments'[Len(comments) + 1].by = s
         /\ Own(comments', ask[s], s, session[s])
         /\ session[s].blind \/ \A i, j \in DOMAIN comments' : comments'[i].by = s /\ comments'[j].by = s => i = j
         /\ \A n \in DOMAIN session[s].todo : session[s].todo[n] \in DOMAIN comments' /\ Behind(comments', head, session[s].todo[n])
<1> DEFINE c == Markers!Comment(s)
           q == session[s]
           n == Len(comments) + 1
<1>1. /\ SessionSound(comments, head, ask[s], s, q) /\ AskSound(ask[s], head) /\ CommentsSound(comments, head)
      /\ HiddenSound(comments, head) /\ Shape(q, head) /\ Role(ask[s], q) /\ Own(comments, ask[s], s, q)
      /\ Once(comments, s, q) /\ Due(comments, head, q) /\ Len(comments) \in Nat /\ DOMAIN comments = 1..Len(comments)
  BY SessionHas DEF SessionSound
<1>2. /\ DOMAIN c = CommentFields /\ c.on = "pr" /\ c.type = ask[s].type /\ c.author = ask[s].author /\ c.by = s
      /\ c.head = q.head /\ c.claim = ask[s].claim /\ c.attempt = ask[s].attempt
  BY DEF Markers!Comment, CommentFields
<1>3. c.hidden = FALSE
  BY DEF Markers!Comment
<1> HIDE DEF c, q
<1>4. comments' = Append(comments, c)
  BY DEF c
<1>5. Fresh(c, head)
  BY <1>1, <1>2, <1>3 DEF Fresh, Shape, AskSound
<1>6. /\ CommentsSound(comments', head) /\ Goes(comments, head, comments', head)
      /\ comments'[n] = c /\ DOMAIN comments' = 1..n /\ \A i \in DOMAIN comments : comments'[i] = comments[i]
  BY <1>1, <1>4, <1>5, AppendDoes
<1>7. \A i \in DOMAIN comments' : i = n \/ (i \in DOMAIN comments /\ ~ (i > Len(comments)))
  BY <1>1, <1>6
<1>8. HiddenSound(comments', head)
  <2>1. \A i \in DOMAIN comments' : comments'[i].hidden => i \in DOMAIN comments /\ comments[i].hidden
    BY <1>3, <1>6, <1>7
  <2> QED BY <1>1, <1>6, <2>1, HiddenStaysSound
<1>9. n \in DOMAIN comments' /\ comments'[n].by = s /\ \A i \in DOMAIN comments' : i > Len(comments) => comments'[i].by = s
  BY <1>1, <1>2, <1>6, <1>7
<1>10. Own(comments', ask[s], s, q)
  BY <1>1, <1>2, <1>6, <1>7 DEF Own, Role, q
<1>11. q.blind \/ \A i, j \in DOMAIN comments' : comments'[i].by = s /\ comments'[j].by = s => i = j
  BY <1>1, <1>6, <1>7 DEF Once, q
<1>12. \A m \in DOMAIN q.todo : q.todo[m] \in DOMAIN comments' /\ Behind(comments', head, q.todo[m])
  <2>1. \A m \in DOMAIN q.todo : q.todo[m] \in DOMAIN comments /\ Behind(comments, head, q.todo[m])
    BY <1>1 DEF Due
  <2>2. \A m \in DOMAIN q.todo : Behind(comments', head, q.todo[m])
    BY <1>1, <1>6, <2>1, StaysBehind
  <2> QED BY <1>1, <1>6, <2>1, <2>2
<1> QED BY <1>6, <1>8, <1>9, <1>10, <1>11, <1>12 DEF q, n

\* A session that goes on from its post.
AfterPost(q, q2, n) ==
  /\ q2.head = q.head /\ q2.todo = q.todo /\ q2.stale = q.stale /\ q2.blind = q.blind
  /\ \/ q2.phase = "live" /\ q2.posted = n
     \/ q2.phase = "find" /\ q2.posted = q.posted

LEMMA PostedStaysSound ==
  ASSUME MarkersInv, NEW s \in Sessions, session[s].phase = "post",
         head' = head, ask' = ask, comments' = Append(comments, Markers!Comment(s)),
         DOMAIN session' = Sessions, \A r \in Sessions : r # s => session'[r] = session[r],
         Shape(session'[s], head),
         \/ AfterPost(session[s], session'[s], Len(comments) + 1)
         \/ session'[s].phase = "done" /\ Less(ask[s], session[s], session'[s])
  PROVE  MarkersInv'
<1> DEFINE q == session[s]
           q2 == session'[s]
           a == ask[s]
<1>1. SessionSound(comments, head, a, s, q) /\ Role(a, q) /\ Due(comments, head, q) /\ q.phase = "post"
  BY SessionHas DEF SessionSound
<1>2. /\ CommentsSound(comments', head) /\ Goes(comments, head, comments', head) /\ HiddenSound(comments', head)
      /\ \A i \in DOMAIN comments' : i > Len(comments) => comments'[i].by = s
      /\ Len(comments) + 1 \in DOMAIN comments' /\ comments'[Len(comments) + 1].by = s
      /\ Own(comments', a, s, q)
      /\ q.blind \/ \A i, j \in DOMAIN comments' : comments'[i].by = s /\ comments'[j].by = s => i = j
      /\ \A n \in DOMAIN q.todo : q.todo[n] \in DOMAIN comments' /\ Behind(comments', head, q.todo[n])
  BY PostDoes
<1>3. Shape(q2, head) /\ (AfterPost(q, q2, Len(comments) + 1) \/ (q2.phase = "done" /\ Less(a, q, q2)))
  OBVIOUS
<1>4. SessionSound(comments', head, a, s, q2)
  <2> HIDE DEF q, q2, a
  <2>1. q2.head = q.head /\ q2.blind = q.blind /\ q2.phase \in {"live", "find", "done"}
    BY <1>3 DEF AfterPost, Less
  <2>2. Role(a, q2)
    BY <1>1, <2>1 DEF Role
  <2>3. Own(comments', a, s, q2)
    BY <1>2, <2>1 DEF Own
  <2>4. Level(comments', head, a, s, q2)
    BY <1>2, <1>3, <2>1 DEF Level, AfterPost
  <2>5. Due(comments', head, q2)
    BY <1>2, <1>3, <2>1 DEF Due, AfterPost, Less
  <2>6. Once(comments', s, q2)
    BY <1>2, <2>1 DEF Once
  <2> QED BY <1>3, <2>2, <2>3, <2>4, <2>5, <2>6 DEF SessionSound
<1> QED BY <1>2, <1>4, SessionKeeps

LEMMA PostMarkerKeeps ==
  ASSUME MarkersInv, NEW s \in Sessions, Markers!PostMarker(s)
  PROVE  MarkersInv'
<1> DEFINE q == session[s]
           q2 == session'[s]
<1>1. /\ q.phase = "post" /\ head' = head /\ ask' = ask /\ comments' = Append(comments, Markers!Comment(s))
      /\ session' = [session EXCEPT ![s].phase = "live", ![s].posted = Len(comments) + 1]
  BY DEF Markers!PostMarker
<1>2. DOMAIN session = Sessions /\ DOMAIN q = SessionFields /\ Shape(q, head) /\ Len(comments) \in Nat
  BY SessionHas DEF SessionSound
<1>3. /\ DOMAIN session' = Sessions /\ \A r \in Sessions : r # s => session'[r] = session[r]
      /\ DOMAIN q2 = SessionFields /\ q2.phase = "live" /\ q2.posted = Len(comments) + 1 /\ q2.head = q.head
      /\ q2.todo = q.todo /\ q2.stale = q.stale /\ q2.blind = q.blind /\ q2.attempt = q.attempt
  BY <1>1, <1>2 DEF SessionFields
<1>4. Shape(q2, head) /\ AfterPost(q, q2, Len(comments) + 1)
  <2> HIDE DEF q, q2
  <2> QED BY <1>2, <1>3 DEF Shape, AfterPost, Phases
<1> QED BY <1>1, <1>3, <1>4, PostedStaysSound

\* What a failed post leaves of a session.
LEMMA FailedPostLeaves ==
  ASSUME MarkersInv, NEW s \in Sessions, session[s].phase = "post",
         \/ Markers!Ended(s)
         \/ session' = [session EXCEPT ![s].phase = "find", ![s].attempt = @ + 1]
  PROVE  /\ DOMAIN session' = Sessions /\ \A r \in Sessions : r # s => session'[r] = session[r]
         /\ Shape(session'[s], head)
         /\ \/ AfterPost(session[s], session'[s], Len(comments) + 1) /\ session'[s].phase = "find"
            \/ session'[s].phase = "done" /\ Less(ask[s], session[s], session'[s])
<1> DEFINE q == session[s]
           q2 == session'[s]
<1>1. DOMAIN session = Sessions /\ DOMAIN q = SessionFields /\ Shape(q, head)
  BY SessionHas DEF SessionSound
<1>2. CASE Markers!Ended(s)
  <2>1. /\ DOMAIN session' = Sessions /\ \A r \in Sessions : r # s => session'[r] = session[r]
        /\ DOMAIN q2 = SessionFields /\ q2.phase = "done" /\ q2.todo = <<>> /\ q2.head = q.head /\ q2.posted = q.posted
        /\ q2.stale = q.stale /\ q2.blind = q.blind /\ q2.attempt = q.attempt
    BY <1>1, <1>2 DEF Markers!Ended, SessionFields
  <2>2. <<>> \in Seq(Nat) /\ DOMAIN <<>> = {} OBVIOUS
  <2>3. Shape(q2, head) /\ Less(ask[s], q, q2)
    <3> HIDE DEF q, q2
    <3> QED BY <1>1, <2>1, <2>2 DEF Shape, Phases, Less
  <2> QED BY <2>1, <2>3
<1>3. CASE session' = [session EXCEPT ![s].phase = "find", ![s].attempt = @ + 1]
  <2>1. /\ DOMAIN session' = Sessions /\ \A r \in Sessions : r # s => session'[r] = session[r]
        /\ DOMAIN q2 = SessionFields /\ q2.phase = "find" /\ q2.todo = q.todo /\ q2.head = q.head /\ q2.posted = q.posted
        /\ q2.stale = q.stale /\ q2.blind = q.blind /\ q2.attempt = q.attempt + 1
    BY <1>1, <1>3 DEF SessionFields
  <2>2. Shape(q2, head) /\ AfterPost(q, q2, Len(comments) + 1)
    <3> HIDE DEF q, q2
    <3> QED BY <1>1, <2>1 DEF Shape, Phases, AfterPost
  <2> QED BY <2>1, <2>2
<1> QED BY <1>2, <1>3

LEMMA FailedPostKeeps ==
  ASSUME MarkersInv, NEW s \in Sessions, Markers!LosePost(s) \/ Markers!MalformedAnswer(s)
  PROVE  MarkersInv'
<1> DEFINE q == session[s]
           q2 == session'[s]
           a == ask[s]
<1>1. /\ q.phase = "post" /\ head' = head /\ ask' = ask
      /\ comments' = Append(comments, Markers!Comment(s)) \/ comments' = comments
      /\ Markers!Ended(s) \/ session' = [session EXCEPT ![s].phase = "find", ![s].attempt = @ + 1]
  BY DEF Markers!LosePost, Markers!MalformedAnswer
<1>2. /\ DOMAIN session' = Sessions /\ \A r \in Sessions : r # s => session'[r] = session[r]
      /\ Shape(q2, head)
      /\ \/ AfterPost(q, q2, Len(comments) + 1) /\ q2.phase = "find"
         \/ q2.phase = "done" /\ Less(a, q, q2)
  BY <1>1, FailedPostLeaves
<1>3. CASE comments' = Append(comments, Markers!Comment(s))
  BY <1>1, <1>2, <1>3, PostedStaysSound
<1>4. CASE comments' = comments
  <2>1. SessionSound(comments, head, a, s, q) /\ CommentsSound(comments, head)
    BY SessionHas
  <2>2. SessionSound(comments, head, a, s, q2)
    <3> HIDE DEF q, q2, a
    <3>1. CASE q2.phase = "done" /\ Less(a, q, q2)
      BY <1>2, <2>1, <3>1, LessStaysSound
    <3>2. CASE AfterPost(q, q2, Len(comments) + 1) /\ q2.phase = "find"
      <4>1. q.phase = "post" BY <1>1 DEF q
      <4>2. q2.head = q.head /\ q2.todo = q.todo /\ q2.blind = q.blind /\ q2.phase = "find"
        BY <3>2 DEF AfterPost
      <4>3. Role(a, q2) /\ Own(comments, a, s, q2) /\ Level(comments, head, a, s, q2) /\ Due(comments, head, q2)
        BY <2>1, <4>1, <4>2 DEF SessionSound, Role, Own, Level, Due
      <4>4. Once(comments, s, q2)
        BY <2>1, <4>1, <4>2 DEF SessionSound, Once
      <4> QED BY <1>2, <4>3, <4>4 DEF SessionSound
    <3> QED BY <1>2, <3>1, <3>2
  <2> QED BY <1>1, <1>2, <1>4, <2>2, SilentKeeps
<1> QED BY <1>1, <1>3, <1>4

LEMMA FindKeeps ==
  ASSUME MarkersInv, NEW s \in Sessions, Markers!FindPosted(s) \/ Markers!FindFails(s)
  PROVE  MarkersInv'
<1> DEFINE q == session[s]
           q2 == session'[s]
           a == ask[s]
           mine == {i \in DOMAIN comments : comments[i].by = s}
<1>1. /\ SessionSound(comments, head, a, s, q) /\ DOMAIN session = Sessions /\ DOMAIN q = SessionFields
      /\ Shape(q, head) /\ DOMAIN comments = 1..Len(comments) /\ Len(comments) \in Nat
  BY SessionHas DEF SessionSound
<1>2. q.phase = "find" /\ UNCHANGED <<head, comments, ask>>
  BY DEF Markers!FindPosted, Markers!FindFails, Markers!Silently
<1>3. \/ mine = {} /\ session' = [session EXCEPT ![s].phase = "post"]
      \/ mine # {} /\ session' = [session EXCEPT ![s].phase = "live", ![s].posted = Markers!Max(mine)]
      \/ session' = [session EXCEPT ![s].phase = "post", ![s].blind = TRUE]
  BY DEF Markers!FindPosted, Markers!FindFails
<1>4. mine # {} => Markers!Max(mine) \in mine
  <2> HIDE DEF mine
  <2> SUFFICES ASSUME mine # {} PROVE Markers!Max(mine) \in mine
    OBVIOUS
  <2>1. mine \subseteq 1..Len(comments) BY <1>1 DEF mine
  <2>2. \E x \in mine : \A y \in mine : x >= y BY <1>1, <2>1, GreatestIndex
  <2> QED BY <2>2 DEF Markers!Max
<1>5. /\ DOMAIN session' = Sessions /\ \A r \in Sessions : r # s => session'[r] = session[r]
      /\ DOMAIN q2 = SessionFields /\ q2.attempt = q.attempt /\ q2.head = q.head /\ q2.todo = q.todo /\ q2.stale = q.stale
      /\ \/ mine = {} /\ q2.phase = "post" /\ q2.posted = q.posted /\ q2.blind = q.blind
         \/ mine # {} /\ q2.phase = "live" /\ q2.posted = Markers!Max(mine) /\ q2.blind = q.blind
         \/ q2.phase = "post" /\ q2.posted = q.posted /\ q2.blind = TRUE
  <2> HIDE DEF mine
  <2>1. CASE mine = {} /\ session' = [session EXCEPT ![s].phase = "post"]
    BY <1>1, <2>1 DEF SessionFields
  <2>2. CASE mine # {} /\ session' = [session EXCEPT ![s].phase = "live", ![s].posted = Markers!Max(mine)]
    BY <1>1, <2>2 DEF SessionFields
  <2>3. CASE session' = [session EXCEPT ![s].phase = "post", ![s].blind = TRUE]
    BY <1>1, <2>3 DEF SessionFields
  <2> QED BY <1>3, <2>1, <2>2, <2>3
<1>6. mine # {} => Markers!Max(mine) \in DOMAIN comments /\ Markers!Max(mine) \in Nat /\ comments[Markers!Max(mine)].by = s
  BY <1>1, <1>4
<1>7. mine = {} => \A i \in DOMAIN comments : comments[i].by # s
  OBVIOUS
<1>8. SessionSound(comments, head, a, s, q2)
  <2> HIDE DEF q, q2, a, mine
  <2>0. q2.phase \in {"post", "live"} BY <1>5
  <2>1. Shape(q2, head)
    <3>1. q2.posted \in Nat BY <1>1, <1>5, <1>6 DEF Shape
    <3>2. q2.blind \in BOOLEAN BY <1>1, <1>5 DEF Shape
    <3> QED BY <1>1, <1>5, <2>0, <3>1, <3>2 DEF Shape, Phases
  <2>2. Role(a, q2) /\ Own(comments, a, s, q2) /\ Due(comments, head, q2)
    BY <1>1, <1>2, <1>5, <2>0 DEF q, SessionSound, Role, Own, Due
  <2>3. Level(comments, head, a, s, q2)
    BY <1>5, <1>6 DEF Level
  <2>4. Once(comments, s, q2)
    <3>1. Once(comments, s, q) BY <1>1 DEF SessionSound
    <3>2. CASE q2.phase = "live" /\ q2.blind = q.blind
      BY <3>1, <3>2 DEF Once
    <3>3. CASE mine = {}
      BY <1>7, <3>3 DEF Once
    <3>4. CASE q2.blind = TRUE
      BY <3>4 DEF Once
    <3> QED BY <1>5, <3>2, <3>3, <3>4
  <2> QED BY <2>1, <2>2, <2>3, <2>4 DEF SessionSound
<1> QED BY <1>2, <1>5, <1>8, SilentKeeps

LEMMA CheckLiveHeadKeeps ==
  ASSUME MarkersInv, NEW s \in Sessions, Markers!CheckLiveHead(s)
  PROVE  MarkersInv'
<1> DEFINE q == session[s]
           q2 == session'[s]
           a == ask[s]
<1>1. /\ SessionSound(comments, head, a, s, q) /\ DOMAIN session = Sessions /\ DOMAIN q = SessionFields
      /\ Shape(q, head) /\ head \in Nat /\ CommentsSound(comments, head)
  BY SessionHas DEF SessionSound
<1>2. q.phase = "live" /\ UNCHANGED <<head, comments, ask>>
  BY DEF Markers!CheckLiveHead, Markers!Silently
<1>3. /\ DOMAIN session' = Sessions /\ \A r \in Sessions : r # s => session'[r] = session[r]
      /\ DOMAIN q2 = SessionFields /\ q2.attempt = q.attempt /\ q2.head = q.head /\ q2.todo = q.todo
      /\ q2.phase = "list" /\ q2.posted = q.posted /\ q2.blind = q.blind
  BY <1>1 DEF Markers!CheckLiveHead, SessionFields
<1>4. q2.stale = (head # q.head)
  BY <1>1 DEF Markers!CheckLiveHead, SessionFields
<1>5. SessionSound(comments, head, a, s, q2)
  <2> HIDE DEF q, q2, a
  <2>1. Shape(q2, head)
    BY <1>1, <1>3, <1>4 DEF Shape, Phases
  <2>2. Role(a, q2) /\ Own(comments, a, s, q2) /\ Due(comments, head, q2) /\ Once(comments, s, q2)
    <3>1. q.phase = "live" BY <1>2 DEF q
    <3> QED BY <1>1, <1>3, <3>1 DEF SessionSound, Role, Own, Due, Once
  <2>3. Level(comments, head, a, s, q2)
    <3>1. q.phase = "live" BY <1>2 DEF q
    <3>2. head # q.head => q2.head < head
      BY <1>1, <1>3 DEF Shape
    <3>3. head = q.head => \A i \in DOMAIN comments : i < q2.posted => comments[i].head <= q2.head
      BY <1>1, <1>3 DEF CommentsSound
    <3>4. IF q2.stale THEN q2.head < head ELSE \A i \in DOMAIN comments : i < q2.posted => comments[i].head <= q2.head
      BY <1>4, <3>2, <3>3
    <3> QED BY <1>1, <1>3, <3>1, <3>4 DEF SessionSound, Level
  <2> QED BY <2>1, <2>2, <2>3 DEF SessionSound
<1> QED BY <1>2, <1>3, <1>5, SilentKeeps

\* What a poster is to hide may be hidden.
LEMMA SubjectsAreBehind ==
  ASSUME MarkersInv, NEW s \in Sessions, session[s].phase = "list", NEW k \in Markers!Subjects(comments, s)
  PROVE  k \in DOMAIN comments /\ Behind(comments, head, k)
<1> DEFINE q == session[s]
           a == ask[s]
           p == q.posted
<1>1. /\ AskSound(a, head) /\ CommentsSound(comments, head) /\ head \in Nat /\ Shape(q, head)
      /\ Own(comments, a, s, q) /\ Role(a, q) /\ Level(comments, head, a, s, q)
      /\ DOMAIN comments = 1..Len(comments) /\ Len(comments) \in Nat
  BY SessionHas DEF SessionSound
<1>2. a.type \in {"review-ack", "copilot-unavailable"}
  BY <1>1 DEF Role, AskSound
<1>3. /\ p \in DOMAIN comments /\ comments[p].by = s
      /\ IF q.stale THEN q.head < head ELSE \A i \in DOMAIN comments : i < p => comments[i].head <= q.head
  BY <1>1, <1>2 DEF Level
<1>4. /\ comments[p].on = "pr" /\ comments[p].type = a.type /\ comments[p].head = q.head /\ comments[p].claim = a.claim
      /\ comments[p].attempt = a.attempt
  BY <1>1, <1>3 DEF Own
<1>5. comments[p].author \in Posters /\ k \in (IF q.stale THEN {p} ELSE Markers!Superseded(comments, s))
  BY DEF Markers!Subjects
<1>6. CASE q.stale
  BY <1>2, <1>3, <1>4, <1>5, <1>6 DEF Behind
<1>7. CASE ~ q.stale
  <2>1. /\ k \in 1..(p - 1) /\ comments[k].on = "pr" /\ comments[k].type = a.type
        /\ IF a.type = "review-ack" THEN comments[k].head # q.head
           ELSE comments[k].claim = a.claim /\ comments[k].attempt < a.attempt
    BY <1>5, <1>7 DEF Markers!Superseded
  <2>2. k \in DOMAIN comments /\ k < p /\ comments[k].head <= q.head /\ comments[k].head \in Nat /\ comments[k].attempt \in Nat
    BY <1>1, <1>3, <1>7, <2>1 DEF CommentsSound
  <2>3. CASE a.type = "review-ack"
    <3>1. comments[k].head < head BY <1>1, <2>1, <2>2, <2>3 DEF Shape
    <3> QED BY <2>1, <2>2, <2>3, <3>1 DEF Behind
  <2>4. CASE a.type = "copilot-unavailable"
    <3>1. FurtherOn(comments, p, k)
      BY <1>1, <1>4, <1>5, <2>1, <2>2, <2>4 DEF FurtherOn, Replaces, AskSound
    <3> QED BY <1>3, <2>1, <2>2, <2>4, <3>1 DEF Behind
  <2> QED BY <1>2, <2>3, <2>4
<1> QED BY <1>6, <1>7

LEMMA ListCommentsKeeps ==
  ASSUME MarkersInv, NEW s \in Sessions, Markers!ListComments(s)
  PROVE  MarkersInv'
<1> DEFINE q == session[s]
           q2 == session'[s]
           a == ask[s]
           T == Markers!Subjects(comments, s)
<1>1. /\ SessionSound(comments, head, a, s, q) /\ DOMAIN session = Sessions /\ DOMAIN q = SessionFields
      /\ Shape(q, head) /\ DOMAIN comments = 1..Len(comments) /\ Len(comments) \in Nat
  BY SessionHas DEF SessionSound
<1>2. q.phase = "list" /\ UNCHANGED <<head, comments, ask>>
  BY DEF Markers!ListComments, Markers!Silently
<1>3. /\ DOMAIN session' = Sessions /\ \A r \in Sessions : r # s => session'[r] = session[r]
      /\ DOMAIN q2 = SessionFields /\ q2.attempt = q.attempt /\ q2.head = q.head /\ q2.todo = Markers!InOrder(T)
      /\ q2.phase = "hide" /\ q2.posted = q.posted /\ q2.blind = q.blind /\ q2.stale = q.stale
  <2> HIDE DEF T
  <2>1. session' = [session EXCEPT ![s].phase = "hide", ![s].todo = Markers!InOrder(T)]
    BY DEF Markers!ListComments, T
  <2> QED BY <1>1, <2>1 DEF SessionFields
<1>4. \A k \in T : k \in DOMAIN comments /\ Behind(comments, head, k)
  BY <1>2, SubjectsAreBehind
<1>5. q2.todo \in Seq(T) /\ T \subseteq 1..Len(comments)
  <2> HIDE DEF T, q, q2
  <2> QED BY <1>1, <1>3, <1>4, InOrderLists
<1>6. SessionSound(comments, head, a, s, q2)
  <2> HIDE DEF q, q2, a, T
  <2>0. q.phase = "list" BY <1>2 DEF q
  <2>1. q2.todo \in Seq(Nat)
    <3>1. T \subseteq Nat BY <1>1, <1>5
    <3> QED BY <1>5, <3>1, SeqMonotonic
  <2>2. Shape(q2, head)
    BY <1>1, <1>3, <2>1 DEF Shape, Phases
  <2>3. \A n \in DOMAIN q2.todo : q2.todo[n] \in T
    BY <1>5
  <2>4. Due(comments, head, q2)
    BY <1>3, <1>4, <2>3 DEF Due
  <2>5. Role(a, q2) /\ Own(comments, a, s, q2) /\ Level(comments, head, a, s, q2) /\ Once(comments, s, q2)
    BY <1>1, <1>3, <2>0 DEF SessionSound, Role, Own, Level, Once
  <2> QED BY <2>2, <2>4, <2>5 DEF SessionSound
<1> QED BY <1>2, <1>3, <1>6, SilentKeeps

\* A list that goes on with another.
Joined(z, S, x, T) ==
  /\ z \in Seq(S \union T)
  /\ \A n \in DOMAIN z : (\E m \in DOMAIN x : z[n] = x[m]) \/ z[n] \in T

\* It is what one gets by putting the one behind the other.
LEMMA ConcatHas ==
  ASSUME NEW S, NEW x \in Seq(S), NEW T, NEW y \in Seq(T)
  PROVE  Joined(x \o y, S, x, T)
<1>1. x \in Seq(S \union T) /\ y \in Seq(S \union T)
  BY SeqMonotonic
<1>2. /\ x \o y \in Seq(S \union T) /\ Len(x \o y) = Len(x) + Len(y) /\ Len(x) \in Nat /\ Len(y) \in Nat
      /\ DOMAIN (x \o y) = 1..(Len(x) + Len(y)) /\ DOMAIN x = 1..Len(x)
  BY <1>1
<1>3. \A n \in 1..(Len(x) + Len(y)) : (x \o y)[n] = IF n <= Len(x) THEN x[n] ELSE y[n - Len(x)]
  BY <1>1
<1>4. \A n \in 1..(Len(x) + Len(y)) : n <= Len(x) \/ (n - Len(x) \in 1..Len(y))
  BY <1>2
<1>5. \A m \in 1..Len(y) : y[m] \in T
  OBVIOUS
<1> QED BY <1>2, <1>3, <1>4, <1>5 DEF Joined

\* What a sweep finds may be hidden.
LEMMA EligibleAreBehind ==
  ASSUME NEW all, NEW hd, CommentsSound(all, hd), NEW issue, NEW k \in Markers!Eligible(all, issue)
  PROVE  k \in DOMAIN all /\ Behind(all, hd, k)
<1>1. PICK family \in Markers!AuthoringFamilies :
        LET mine == {i \in DOMAIN all : all[i].on = issue /\ all[i].type = family /\ all[i].author \in Posters}
        IN  k \in {i \in mine : ~ all[i].hidden /\ \E j \in mine : j > i}
  BY DEF Markers!Eligible
<1>2. k \in DOMAIN all /\ all[k].type = family /\ \E j \in DOMAIN all : j > k /\ Replaces(all, j, k)
  BY <1>1 DEF Replaces
<1> QED BY <1>2 DEF Behind

LEMMA FetchIssueKeeps ==
  ASSUME MarkersInv, NEW s \in Sessions, Markers!FetchIssue(s)
  PROVE  MarkersInv'
<1> DEFINE q == session[s]
           q2 == session'[s]
           a == ask[s]
           T == Markers!Eligible(comments, q.issues[1])
<1>1. /\ SessionSound(comments, head, a, s, q) /\ DOMAIN session = Sessions /\ DOMAIN q = SessionFields
      /\ Shape(q, head) /\ Due(comments, head, q) /\ DOMAIN comments = 1..Len(comments) /\ Len(comments) \in Nat
      /\ CommentsSound(comments, head)
  BY SessionHas DEF SessionSound
<1>2. q.phase = "fetch" /\ UNCHANGED <<head, comments, ask>>
  BY DEF Markers!FetchIssue, Markers!Silently
<1>3. /\ DOMAIN session' = Sessions /\ \A r \in Sessions : r # s => session'[r] = session[r]
      /\ DOMAIN q2 = SessionFields /\ q2.attempt = q.attempt /\ q2.head = q.head
      /\ q2.todo = q.todo \o Markers!InOrder(T)
      /\ q2.phase = "fetch" /\ q2.posted = q.posted /\ q2.blind = q.blind /\ q2.stale = q.stale
  <2>1. session' = [session EXCEPT ![s].issues = Tail(@), ![s].todo = @ \o Markers!InOrder(T)]
    BY DEF Markers!FetchIssue
  <2> HIDE DEF T
  <2> QED BY <1>1, <1>2, <2>1 DEF SessionFields
<1>4. \A k \in T : k \in DOMAIN comments /\ Behind(comments, head, k)
  BY <1>1, EligibleAreBehind
<1>5. Markers!InOrder(T) \in Seq(T) /\ T \subseteq Nat
  <2> HIDE DEF T, q, q2
  <2>1. T \subseteq 1..Len(comments) BY <1>1, <1>4
  <2>2. Markers!InOrder(T) \in Seq(T) BY <1>1, <2>1, InOrderLists
  <2>3. T \subseteq Nat BY <1>1, <2>1
  <2> QED BY <2>2, <2>3
<1>6. SessionSound(comments, head, a, s, q2)
  <2> HIDE DEF q, q2, a, T
  <2>0. q.phase = "fetch" BY <1>2 DEF q
  <2>1. /\ q2.todo \in Seq(Nat \union T)
        /\ \A n \in DOMAIN q2.todo : (\E m \in DOMAIN q.todo : q2.todo[n] = q.todo[m]) \/ q2.todo[n] \in T
    <3> DEFINE x == q.todo
               y == Markers!InOrder(T)
    <3>1. x \in Seq(Nat) /\ y \in Seq(T) /\ q2.todo = x \o y
      BY <1>1, <1>3, <1>5 DEF Shape
    <3> HIDE DEF x, y
    <3>2. Joined(q2.todo, Nat, x, T)
      BY <3>1, ConcatHas
    <3> QED BY <3>2 DEF Joined, x
  <2>2. Nat \union T = Nat BY <1>5
  <2>3. Shape(q2, head)
    BY <1>1, <1>3, <2>1, <2>2 DEF Shape, Phases
  <2>4. Due(comments, head, q2)
    BY <1>1, <1>3, <1>4, <2>1 DEF Due
  <2>5. Role(a, q2) /\ Own(comments, a, s, q2) /\ Level(comments, head, a, s, q2) /\ Once(comments, s, q2)
    BY <1>1, <1>3, <2>0 DEF SessionSound, Role, Own, Level, Once
  <2> QED BY <2>3, <2>4, <2>5 DEF SessionSound
<1> QED BY <1>2, <1>3, <1>6, SilentKeeps

LEMMA ProbeKeeps ==
  ASSUME MarkersInv, NEW s \in Sessions, Markers!Probe(s)
  PROVE  MarkersInv'
<1> DEFINE q == session[s]
           q2 == session'[s]
           a == ask[s]
<1>1. /\ SessionSound(comments, head, a, s, q) /\ DOMAIN session = Sessions /\ DOMAIN q = SessionFields
      /\ Shape(q, head) /\ Due(comments, head, q)
  BY SessionHas DEF SessionSound
<1>2. q.phase = "hide" /\ q.todo # <<>> /\ UNCHANGED <<head, comments, ask>>
  BY DEF Markers!Probe, Markers!Silently
<1>3. CASE Markers!NextSubject(s)
  BY <1>2, <1>3, LessKeeps
<1>4. CASE ~ Markers!NextSubject(s)
  <2>1. /\ session' = [session EXCEPT ![s].phase = "minimize"]
        /\ comments[q.todo[1]].author \in Posters
    BY <1>4 DEF Markers!Probe
  <2>2. /\ DOMAIN session' = Sessions /\ \A r \in Sessions : r # s => session'[r] = session[r]
        /\ DOMAIN q2 = SessionFields /\ q2.attempt = q.attempt /\ q2.head = q.head /\ q2.todo = q.todo
        /\ q2.phase = "minimize" /\ q2.posted = q.posted /\ q2.blind = q.blind /\ q2.stale = q.stale
    BY <1>1, <2>1 DEF SessionFields
  <2>3. SessionSound(comments, head, a, s, q2)
    <3>1. q.phase = "hide" /\ q.todo # <<>> /\ comments[q.todo[1]].author \in Posters
      BY <1>2, <2>1
    <3> HIDE DEF q, q2, a
    <3>2. Shape(q2, head)
      BY <1>1, <2>2 DEF Shape, Phases
    <3>3. Due(comments, head, q2)
      BY <1>1, <2>2, <3>1 DEF Due
    <3>4. Role(a, q2) /\ Own(comments, a, s, q2) /\ Level(comments, head, a, s, q2) /\ Once(comments, s, q2)
      BY <1>1, <2>2, <3>1 DEF SessionSound, Role, Own, Level, Once
    <3> QED BY <3>2, <3>3, <3>4 DEF SessionSound
  <2> QED BY <1>2, <2>2, <2>3, SilentKeeps
<1> QED BY <1>3, <1>4

\* One that was hidden: the session goes on to the next.
LEMMA MinimizeKeeps ==
  ASSUME MarkersInv, NEW s \in Sessions, Markers!Minimize(s) \/ Markers!MinimizeFails(s)
  PROVE  MarkersInv'
<1> DEFINE q == session[s]
           q2 == session'[s]
           a == ask[s]
           k == q.todo[1]
           all2 == [comments EXCEPT ![k].hidden = TRUE]
<1>1. /\ SessionSound(comments, head, a, s, q) /\ DOMAIN session = Sessions /\ DOMAIN q = SessionFields
      /\ Shape(q, head) /\ Due(comments, head, q) /\ CommentsSound(comments, head) /\ HiddenSound(comments, head)
      /\ DOMAIN comments = 1..Len(comments) /\ Len(comments) \in Nat
  BY SessionHas DEF SessionSound
<1>2. /\ q.phase = "minimize" /\ head' = head /\ ask' = ask
      /\ comments' = all2 \/ comments' = comments
      /\ Markers!NextSubject(s)
  BY DEF Markers!Minimize, Markers!MinimizeFails
<1>3. q.todo # <<>> /\ q.todo \in Seq(Nat) /\ k \in DOMAIN comments /\ Behind(comments, head, k) /\ comments[k].author \in Posters
  <2>1. q.todo # <<>> /\ q.todo \in Seq(Nat) /\ comments[k].author \in Posters
    BY <1>1, <1>2 DEF Due, Shape
  <2>2. 1 \in DOMAIN q.todo BY <2>1
  <2> QED BY <1>1, <2>1, <2>2 DEF Due
<1>4. CASE comments' = comments
  BY <1>2, <1>3, <1>4, LessKeeps
<1>5. CASE comments' = all2
  <2>1. /\ CommentsSound(all2, head) /\ Goes(comments, head, all2, head) /\ Len(all2) = Len(comments)
        /\ \A i \in DOMAIN all2 : all2[i].hidden => i = k \/ comments[i].hidden
    <3> HIDE DEF k
    <3> QED BY <1>1, <1>3, HideDoes
  <2> HIDE DEF all2
  <2>2. DOMAIN all2 = DOMAIN comments
    BY <1>1, <2>1 DEF CommentsSound
  <2>3. HiddenSound(all2, head)
    BY <1>1, <1>3, <2>1, <2>2, HiddenStaysSound
  <2>4. \A i \in DOMAIN all2 : ~ (i > Len(comments))
    BY <1>1, <2>2
  <2>5. SessionSound(all2, head, a, s, q)
    <3> HIDE DEF q, a
    <3> QED BY <1>1, <2>1, <2>4, OthersStaySound
  <2>6. /\ DOMAIN session' = Sessions /\ \A r \in Sessions : r # s => session'[r] = session[r]
        /\ DOMAIN q2 = SessionFields /\ q2.phase = "hide" /\ q2.todo = Tail(q.todo) /\ q2.head = q.head /\ q2.posted = q.posted
        /\ q2.stale = q.stale /\ q2.blind = q.blind /\ q2.attempt = q.attempt
    BY <1>1, <1>2 DEF Markers!NextSubject, SessionFields
  <2>7. SessionSound(all2, head, a, s, q2)
    <3>1. q.phase = "minimize" BY <1>2
    <3> HIDE DEF q, q2, a
    <3>2. Tail(q.todo) \in Seq(Nat) /\ \A n \in DOMAIN Tail(q.todo) : \E m \in DOMAIN q.todo : Tail(q.todo)[n] = q.todo[m]
      BY <1>3, TailHasLess
    <3>3. Shape(q2, head) /\ Less(a, q, q2)
      BY <1>1, <2>6, <3>1, <3>2 DEF Shape, Phases, Less
    <3> QED BY <2>1, <2>5, <3>3, LessStaysSound
  <2> QED BY <1>2, <1>5, <2>1, <2>3, <2>4, <2>6, <2>7, SessionKeeps
<1> QED BY <1>2, <1>4, <1>5

-----------------------------------------------------------------------------
(* Markers: the theorems.                                                  *)

LEMMA MarkersStart == Markers!Init => MarkersInv
<1> SUFFICES ASSUME Markers!Init PROVE MarkersInv
  OBVIOUS
<1>1. head = 1 /\ session = [s \in Sessions |-> Markers!Starting] /\ Markers!Given
  BY DEF Markers!Init
<1>2. /\ comments \in Seq(Elements(comments)) /\ DOMAIN ask = Sessions
      /\ \A i \in DOMAIN comments :
           /\ DOMAIN comments[i] = CommentFields /\ comments[i].by \notin Sessions
           /\ comments[i].head \in 0..head /\ comments[i].attempt \in Nat
      /\ \A s \in Sessions : AskSound(ask[s], head)
  <2>1. Markers!Range(comments) = Elements(comments)
    BY DEF Markers!Range, Elements
  <2>2. \A i \in DOMAIN comments : comments[i] \in Elements(comments)
    BY DEF Elements
  <2> QED BY <1>1, <2>1, <2>2 DEF Markers!Given, CommentFields, AskSound
<1>3. \A i \in DOMAIN comments : comments[i].hidden = FALSE
  BY <1>1 DEF Markers!Given, Markers!Range
<1>4. CommentsSound(comments, head) /\ HiddenSound(comments, head)
  BY <1>1, <1>2, <1>3 DEF CommentsSound, HiddenSound
<1>5. ASSUME NEW s \in Sessions PROVE SessionSound(comments, head, ask[s], s, session[s])
  <2> DEFINE q == session[s]
  <2>1. /\ DOMAIN q = SessionFields /\ q.phase = "start" /\ q.head = 0 /\ q.attempt = 1 /\ q.posted = 0 /\ q.todo = <<>>
    BY <1>1, <1>5 DEF Markers!Starting, SessionFields
  <2>2. q.stale = FALSE /\ q.blind = FALSE
    BY <1>1, <1>5 DEF Markers!Starting
  <2>3. DOMAIN <<>> = {} /\ <<>> \in Seq(Nat)
    OBVIOUS
  <2> HIDE DEF q
  <2>4. Shape(q, head)
    <3>1. q.stale \in BOOLEAN /\ q.blind \in BOOLEAN
      BY <2>2
    <3>2. q.phase \in Phases /\ q.head \in 0..head /\ q.attempt \in Nat /\ q.posted \in Nat /\ q.todo \in Seq(Nat)
      BY <1>1, <2>1, <2>3 DEF Phases
    <3> QED BY <2>1, <3>1, <3>2 DEF Shape
  <2>5. \A i \in DOMAIN comments : comments[i].by # s
    BY <1>2
  <2>6. /\ Role(ask[s], q) /\ Own(comments, ask[s], s, q) /\ Level(comments, head, ask[s], s, q)
        /\ Due(comments, head, q) /\ Once(comments, s, q)
    BY <2>1, <2>3, <2>5 DEF Role, Own, Level, Due, Once
  <2> QED BY <2>4, <2>6 DEF SessionSound, q
<1> QED BY <1>1, <1>2, <1>4, <1>5 DEF MarkersInv

LEMMA MarkersStep == MarkersInv /\ Markers!Next => MarkersInv'
<1> SUFFICES ASSUME MarkersInv, Markers!Next PROVE MarkersInv'
  OBVIOUS
<1>1. CASE Markers!Push
  BY <1>1, PushKeeps
<1>2. ASSUME NEW s \in Sessions, Markers!SessionStep(s) PROVE MarkersInv'
  <2>1. CASE Markers!Start(s)
    BY <2>1, StartKeeps
  <2>2. CASE Markers!StartFails(s)
    BY <2>2, LessKeeps DEF Markers!StartFails, Markers!Silently
  <2>3. CASE Markers!PostMarker(s)
    BY <2>3, PostMarkerKeeps
  <2>4. CASE Markers!LosePost(s) \/ Markers!MalformedAnswer(s)
    BY <2>4, FailedPostKeeps
  <2>5. CASE Markers!FindPosted(s) \/ Markers!FindFails(s)
    BY <2>5, FindKeeps
  <2>6. CASE Markers!CheckLiveHead(s)
    BY <2>6, CheckLiveHeadKeeps
  <2>7. CASE Markers!ListComments(s)
    BY <2>7, ListCommentsKeeps
  <2>8. CASE Markers!FetchIssue(s)
    BY <2>8, FetchIssueKeeps
  <2>9. CASE Markers!FetchFails(s) \/ Markers!Fetched(s)
    BY <2>9, LessKeeps DEF Markers!FetchFails, Markers!Fetched, Markers!Silently
  <2>10. CASE Markers!Probe(s)
    BY <2>10, ProbeKeeps
  <2>11. CASE Markers!ProbeFails(s)
    BY <2>11, LessKeeps DEF Markers!ProbeFails, Markers!Silently
  <2>12. CASE Markers!Minimize(s) \/ Markers!MinimizeFails(s)
    BY <2>12, MinimizeKeeps
  <2>13. CASE Markers!Finish(s)
    BY <2>13, LessKeeps DEF Markers!Finish, Markers!Silently
  <2> QED BY <1>2, <2>1, <2>2, <2>3, <2>4, <2>5, <2>6, <2>7, <2>8, <2>9, <2>10, <2>11, <2>12, <2>13
          DEF Markers!SessionStep
<1> QED BY <1>1, <1>2 DEF Markers!Next

LEMMA MarkersRest == MarkersInv /\ UNCHANGED <<head, comments, ask, session>> => MarkersInv'
BY DEF MarkersInv

\* Of the reports further on the last is visible, unless its head is a past one.
LEMMA LastReportIsVisible ==
  ASSUME MarkersInv, NEW i \in DOMAIN comments, ~ (comments[i].head < head),
         comments[i].type = "copilot-unavailable", \E j \in DOMAIN comments : FurtherOn(comments, j, i)
  PROVE  \E j \in DOMAIN comments : FurtherOn(comments, j, i) /\ ~ comments[j].hidden
<1> DEFINE J == {j \in DOMAIN comments : FurtherOn(comments, j, i)}
           A == {comments[j].attempt : j \in J}
           att == [j \in J |-> comments[j].attempt]
<1>1. /\ DOMAIN comments = 1..Len(comments) /\ Len(comments) \in Nat /\ head \in Nat
      /\ \A j \in DOMAIN comments : comments[j].attempt \in Nat /\ comments[j].head \in Nat
  BY DEF MarkersInv, CommentsSound
<1>2. IsFiniteSet(J)
  <2>1. IsFiniteSet(1..Len(comments)) BY <1>1, FS_Interval
  <2>2. J \in SUBSET (1..Len(comments)) BY <1>1
  <2> HIDE DEF J
  <2> QED BY <2>1, <2>2, FS_Subset
<1>3. J # {} /\ A # {} /\ A \subseteq Nat
  BY <1>1
<1>4. IsFiniteSet(A)
  <2>1. att \in Surjection(J, A)
    <3> HIDE DEF J
    <3> QED BY DEF Surjection
  <2> HIDE DEF J, A, att
  <2> QED BY <1>2, <2>1, FS_Surjection
<1>5. PICK top \in A : \A x \in A : top >= x
  <2> HIDE DEF A
  <2> QED BY <1>3, <1>4, GreatestOfNaturals
<1>6. PICK j \in J : comments[j].attempt = top
  BY <1>5
<1>7. FurtherOn(comments, j, i) /\ j \in DOMAIN comments
  OBVIOUS
<1>8. comments[j].type = "copilot-unavailable" /\ comments[i].head <= comments[j].head
  BY <1>7 DEF FurtherOn, Replaces
<1>9. ASSUME comments[j].hidden PROVE FALSE
  <2>1. Behind(comments, head, j)
    BY <1>7, <1>9 DEF MarkersInv, HiddenSound
  <2>2. ~ (comments[j].head < head)
    BY <1>1, <1>8
  <2>3. PICK m \in DOMAIN comments : FurtherOn(comments, m, j)
    BY <1>8, <2>1, <2>2 DEF Behind, Markers!AuthoringFamilies
  <2>4. FurtherOn(comments, m, i) /\ comments[m].attempt > comments[j].attempt
    <3>1. /\ comments[m].attempt > comments[j].attempt /\ comments[j].attempt > comments[i].attempt
          /\ comments[i].head <= comments[j].head /\ comments[j].head <= comments[m].head
      BY <1>7, <2>3 DEF FurtherOn
    <3>2. /\ comments[m].attempt \in Nat /\ comments[j].attempt \in Nat /\ comments[i].attempt \in Nat
          /\ comments[i].head \in Nat /\ comments[j].head \in Nat /\ comments[m].head \in Nat
      BY <1>1, <1>7
    <3>3. comments[m].attempt > comments[i].attempt /\ comments[i].head <= comments[m].head
      BY <3>1, <3>2
    <3>4. Replaces(comments, m, i) /\ comments[m].claim = comments[i].claim
      BY <1>7, <2>3 DEF FurtherOn, Replaces
    <3> QED BY <3>1, <3>3, <3>4 DEF FurtherOn
  <2>5. comments[m].attempt \in A
    BY <2>4
  <2>6. top >= comments[m].attempt
    BY <1>5, <2>5
  <2> QED BY <1>1, <1>6, <1>7, <2>4, <2>6
<1> QED BY <1>7, <1>9

\* Of the authoring markers that come later the last is visible.
LEMMA LastAuthoringIsVisible ==
  ASSUME MarkersInv, NEW i \in DOMAIN comments, comments[i].type \in Markers!AuthoringFamilies,
         \E j \in DOMAIN comments : j > i /\ Replaces(comments, j, i)
  PROVE  \E j \in DOMAIN comments : j > i /\ Replaces(comments, j, i) /\ ~ comments[j].hidden
<1> DEFINE J == {j \in DOMAIN comments : j > i /\ Replaces(comments, j, i)}
<1>1. DOMAIN comments = 1..Len(comments) /\ Len(comments) \in Nat
  BY DEF MarkersInv, CommentsSound
<1>2. PICK j \in J : \A m \in J : j >= m
  <2>1. J \subseteq 1..Len(comments) /\ J # {} BY <1>1
  <2> HIDE DEF J
  <2> QED BY <1>1, <2>1, GreatestIndex
<1>3. j \in DOMAIN comments /\ j > i /\ Replaces(comments, j, i)
  OBVIOUS
<1>4. ASSUME comments[j].hidden PROVE FALSE
  <2>1. Behind(comments, head, j) /\ comments[j].type \in Markers!AuthoringFamilies
    BY <1>3, <1>4 DEF MarkersInv, HiddenSound, Replaces
  <2>2. PICK m \in DOMAIN comments : m > j /\ Replaces(comments, m, j)
    BY <2>1 DEF Behind, Markers!AuthoringFamilies
  <2>3. m > i /\ Replaces(comments, m, i)
    BY <1>1, <1>3, <2>2 DEF Replaces
  <2>4. j >= m
    BY <1>2, <2>3
  <2> QED BY <1>1, <1>3, <2>2, <2>4
<1> QED BY <1>3, <1>4

LEMMA MarkersStayVisible == MarkersInv => Markers!CurrentMarkersStayVisible
<1> SUFFICES ASSUME MarkersInv, NEW i \in DOMAIN comments, comments[i].hidden
             PROVE  /\ comments[i].author \in Posters
                    /\ CASE comments[i].type = "review-ack" -> comments[i].head < head
                         [] comments[i].type = "copilot-unavailable" ->
                              \/ comments[i].head < head
                              \/ \E j \in DOMAIN comments : /\ Markers!StillMeant(i, j) /\ comments[j].claim = comments[i].claim
                                                            /\ comments[j].attempt > comments[i].attempt
                         [] OTHER -> \E j \in DOMAIN comments : j > i /\ Markers!StillMeant(i, j)
  BY DEF Markers!CurrentMarkersStayVisible
<1>1. comments[i].author \in Posters /\ Behind(comments, head, i)
  BY DEF MarkersInv, HiddenSound
<1>2. CASE comments[i].type = "review-ack"
  BY <1>1, <1>2 DEF Behind, Markers!AuthoringFamilies
<1>3. CASE comments[i].type = "copilot-unavailable"
  <2>1. comments[i].head < head \/ \E j \in DOMAIN comments : FurtherOn(comments, j, i)
    BY <1>1, <1>3 DEF Behind, Markers!AuthoringFamilies
  <2>2. comments[i].head < head \/ \E j \in DOMAIN comments : FurtherOn(comments, j, i) /\ ~ comments[j].hidden
    BY <1>3, <2>1, LastReportIsVisible
  <2> QED BY <1>1, <1>3, <2>2 DEF FurtherOn, Replaces, Markers!StillMeant
<1>4. CASE comments[i].type \notin {"review-ack", "copilot-unavailable"}
  <2>1. /\ comments[i].type \in Markers!AuthoringFamilies
        /\ \E j \in DOMAIN comments : j > i /\ Replaces(comments, j, i)
    BY <1>1, <1>4 DEF Behind
  <2>2. \E j \in DOMAIN comments : j > i /\ Replaces(comments, j, i) /\ ~ comments[j].hidden
    BY <2>1, LastAuthoringIsVisible
  <2> QED BY <1>1, <1>4, <2>2 DEF Replaces, Markers!StillMeant
<1> QED BY <1>2, <1>3, <1>4

LEMMA MarkersPostedOnce == MarkersInv => Markers!PostedOnce
<1> SUFFICES ASSUME MarkersInv, NEW s \in Sessions, ~ session[s].blind
             PROVE  ~ (Markers!Cardinality({i \in DOMAIN comments : comments[i].by = s}) > 1)
  BY DEF Markers!PostedOnce
<1> DEFINE mine == {i \in DOMAIN comments : comments[i].by = s}
<1>1. \A i, j \in mine : i = j
  BY DEF MarkersInv, SessionSound, Once
<1>2. Cardinality(mine) <= 1
  <2> HIDE DEF mine
  <2>1. CASE mine = {}
    BY <2>1, FS_EmptySet
  <2>2. CASE mine # {}
    <3>1. PICK i \in mine : TRUE BY <2>2
    <3>2. mine = {i} BY <1>1, <3>1
    <3>3. Cardinality({i}) = 1 BY FS_Singleton
    <3> QED BY <3>2, <3>3
  <2> QED BY <2>1, <2>2
<1>3. Cardinality(mine) \in Nat
  <2>1. IsFiniteSet(mine)
    <3>1. DOMAIN comments = 1..Len(comments) /\ Len(comments) \in Nat BY DEF MarkersInv, CommentsSound
    <3>2. IsFiniteSet(1..Len(comments)) BY <3>1, FS_Interval
    <3> QED BY <3>1, <3>2, FS_Subset
  <2> QED BY <2>1, FS_CardinalityType
<1>4. Markers!Cardinality(mine) = Cardinality(mine)
  BY DEF Cardinality, Markers!Cardinality
<1> QED BY <1>2, <1>3, <1>4

\* Whatever the sessions are asked for, by whom, and however the head moves: what is hidden
\* was superseded and stays so, and nothing is posted twice by a session whose look for it
\* did not fail (hideSupersededPostTimeMarkers, runAuthoringMarkerSweep,
\* postWorkItemCommentWithRetry).
THEOREM MarkersAreSafe == Markers!Spec => [](Markers!CurrentMarkersStayVisible /\ Markers!PostedOnce)
<1>1. MarkersInv /\ [Markers!Next]_(Markers!vars) => MarkersInv'
  BY MarkersStep, MarkersRest DEF Markers!vars
<1>2. MarkersInv => Markers!CurrentMarkersStayVisible /\ Markers!PostedOnce
  BY MarkersStayVisible, MarkersPostedOnce
<1> QED BY MarkersStart, <1>1, <1>2, PTL DEF Markers!Spec

\* In a behaviour of the sessions that post and hide, the invariant of theirs.
LEMMA MarkersInUpkeep == Spec => [](subject = "markers" => MarkersInv)
<1> DEFINE I == subject = "markers" => MarkersInv
<1>1. Init => I
  BY MarkersStart
     DEF Init, MarkerInit, AuditInit, WaiverInit, CleanupInit, AnswersInit, OutageInit
<1>2. I /\ [NextAudit \/ NextWaiver \/ NextMarkers \/ NextCleanup \/ NextAnswers \/ NextOutage]_allVars => I'
  <2> SUFFICES ASSUME I, [NextAudit \/ NextWaiver \/ NextMarkers \/ NextCleanup \/ NextAnswers \/ NextOutage]_allVars,
                      subject' = "markers"
               PROVE  MarkersInv'
    OBVIOUS
  <2>1. CASE NextMarkers
    BY <2>1, MarkersStep DEF NextMarkers
  <2>2. CASE UNCHANGED allVars
    BY <2>2, MarkersRest DEF allVars, markerVars
  <2>3. CASE NextAudit \/ NextWaiver \/ NextCleanup \/ NextAnswers \/ NextOutage
    BY <2>3 DEF NextAudit, NextWaiver, NextCleanup, NextAnswers, NextOutage
  <2> QED BY <2>1, <2>2, <2>3
<1> QED BY <1>1, <1>2, PTL DEF Spec

\* What is hidden was superseded and still is.
THEOREM CurrentMarkersAlwaysVisible == Spec => []CurrentMarkersStayVisible
<1>1. (subject = "markers" => MarkersInv) => CurrentMarkersStayVisible
  BY MarkersStayVisible DEF CurrentMarkersStayVisible
<1> QED BY <1>1, MarkersInUpkeep, PTL

-----------------------------------------------------------------------------
(* Answers: the invariant.                                                 *)

WordFields == {"id", "author", "kind", "at", "edited", "by", "source"}
PrFields == {"head", "now", "closing", "comments", "threads"}
RunFields == {"phase", "result", "todo", "attempt", "known", "head", "completed", "ok", "calm"}

\* Before these phases are over, nothing was posted.
Early == {"start", "claim", "head", "comments", "known"}

\* Comments have ids of their own.
WordsSound(all) ==
  /\ IsFiniteSet(all) /\ \A c, d \in all : c.id = d.id => c = d
  /\ \A c \in all : WordFields \subseteq DOMAIN c /\ c.id \in Nat /\ c.at \in Nat

MovesSound(may) ==
  \A m \in may :
    /\ m.do \in {"claim", "link", "push", "edit", "say", "reply"}
    /\ m.do = "edit" => {"id", "author", "at", "by", "source"} \intersect DOMAIN m.to = {}
    /\ m.do = "say" => WordFields \subseteq DOMAIN m.comment /\ m.comment.by # "run"

\* No item is to be answered twice.
ListSound(q) ==
  /\ q.todo \in Seq(Elements(q.todo))
  /\ \A i \in DOMAIN q.todo : WordFields \subseteq DOMAIN q.todo[i]
  /\ \A i, j \in DOMAIN q.todo : q.todo[i].id = q.todo[j].id => i = j
  /\ q.phase \in {"body", "fresh", "post", "recover"} => q.todo # <<>>

\* Of what is still to be answered only the first item may have its answer, while the run
\* looks for it, and then it will know it.
AnsweredSound(all, q) ==
  \A c \in all : c.by = "run" =>
    /\ q.phase \notin Early
    /\ \A i \in DOMAIN q.todo : c.source = q.todo[i].id =>
         i = 1 /\ q.phase = "recover" /\ c.author = Me /\ c.id \notin q.known

OneEach(all) == \A c, d \in all : c.by = "run" /\ d.by = "run" /\ c.source = d.source => c = d

\* Nothing that the run knows came after the newest comment.
KnownSound(all, q) == \A k \in q.known : k \in Nat /\ \E c \in all : k <= c.id

AnswersInv ==
  /\ DOMAIN pr = PrFields /\ pr.now \in Nat /\ RunFields \subseteq DOMAIN run
  /\ WordsSound(pr.comments) /\ MovesSound(moves) /\ ListSound(run)
  /\ AnsweredSound(pr.comments, run) /\ OneEach(pr.comments) /\ KnownSound(pr.comments, run)

LEMMA AnswersStart == Answers!Init => AnswersInv
<1> SUFFICES ASSUME Answers!Init PROVE AnswersInv
  OBVIOUS
<1>1. Answers!Given /\ run.phase = "start" /\ run.todo = <<>> /\ run.known = {}
  BY DEF Answers!Init
<1>2. DOMAIN pr = PrFields /\ pr.now \in Nat /\ RunFields \subseteq DOMAIN run
  BY <1>1 DEF Answers!Given, PrFields, RunFields
<1>3. WordsSound(pr.comments) /\ \A c \in pr.comments : c.by # "run"
  BY <1>1 DEF Answers!Given, WordsSound, WordFields, IsFiniteSet, Answers!IsFiniteSet
<1>4. MovesSound(moves)
  <2>1. \A m \in moves : m.do = "say" => m.comment \in {x.comment : x \in {n \in moves : n.do = "say"}}
    OBVIOUS
  <2> QED BY <1>1, <2>1 DEF Answers!Given, MovesSound, WordFields
<1>5. <<>> \in Seq(Elements(<<>>)) /\ DOMAIN <<>> = {}
  OBVIOUS
<1>6. ListSound(run) /\ AnsweredSound(pr.comments, run) /\ OneEach(pr.comments) /\ KnownSound(pr.comments, run)
  BY <1>1, <1>3, <1>5 DEF ListSound, AnsweredSound, OneEach, KnownSound
<1> QED BY <1>2, <1>3, <1>4, <1>6 DEF AnswersInv

-----------------------------------------------------------------------------
(* Answers: the plan.                                                      *)

\* The comments of a set by age: each once.
LEMMA ByAgeLists ==
  ASSUME NEW S, WordsSound(S)
  PROVE  /\ Answers!ByAge(S) \in Seq(S)
         /\ \A i, j \in DOMAIN Answers!ByAge(S) : Answers!ByAge(S)[i] = Answers!ByAge(S)[j] => i = j
<1> DEFINE time == Answers!Age(S)
           below == [c \in S |-> Answers!Earlier(S, c, time)]
           k == Cardinality(S)
<1>1. IsFiniteSet(S) /\ k \in Nat
  BY FS_CardinalityType DEF WordsSound
<1>2. \A c \in S : time[c] = c.at /\ c.at \in Nat /\ c.id \in Nat
  BY DEF Answers!Age, WordsSound
<1>3. \A c \in S : below[c] = {d \in S : d.at < c.at \/ (d.at = c.at /\ d.id < c.id)}
  BY <1>2 DEF Answers!Earlier
<1>4. Ordered(S, below)
  <2> HIDE DEF below
  <2>1. below \in [S -> SUBSET S]
    <3>1. \A c \in S : Answers!Earlier(S, c, time) \in SUBSET S BY DEF Answers!Earlier
    <3> QED BY <3>1 DEF below
  <2>2. \A x \in S : x \notin below[x]
    BY <1>2, <1>3
  <2>3. \A x, y \in S : x # y => x \in below[y] \/ y \in below[x]
    <3>1. \A x, y \in S : x # y => x.id # y.id BY DEF WordsSound
    <3> QED BY <1>2, <1>3, <3>1
  <2>4. \A x, y \in S : y \in below[x] => below[y] \subseteq below[x]
    <3> SUFFICES ASSUME NEW x \in S, NEW y \in S, y \in below[x], NEW z \in below[y] PROVE z \in below[x]
      OBVIOUS
    <3>1. z \in S /\ (z.at < y.at \/ (z.at = y.at /\ z.id < y.id)) BY <1>3
    <3>2. y.at < x.at \/ (y.at = x.at /\ y.id < x.id) BY <1>3
    <3>3. z.at < x.at \/ (z.at = x.at /\ z.id < x.id) BY <1>2, <3>1, <3>2
    <3> QED BY <1>3, <3>1, <3>3
  <2> QED BY <1>1, <2>1, <2>2, <2>3, <2>4 DEF Ordered
<1>5. \A i \in 0..(k - 1) : \E x \in S : Cardinality(below[x]) = i
  <2> HIDE DEF below
  <2>1. RanksTaken(S, below)
    BY <1>4, RanksAreTaken
  <2> QED BY <2>1 DEF RanksTaken
<1> DEFINE nth(i) == CHOOSE c \in S : Cardinality(Answers!Earlier(S, c, time)) = i - 1
<1>6. ASSUME NEW i \in 1..k PROVE nth(i) \in S /\ Cardinality(Answers!Earlier(S, nth(i), time)) = i - 1
  <2> HIDE DEF time
  <2>1. i - 1 \in 0..(k - 1) BY <1>1
  <2>2. PICK y \in S : Cardinality(below[y]) = i - 1
    BY <1>5, <2>1
  <2>3. \E x \in S : Cardinality(Answers!Earlier(S, x, time)) = i - 1
    BY <2>2
  <2> QED BY <2>3
<1>7. [i \in 1..k |-> nth(i)] \in [1..k -> S]
  <2> HIDE DEF nth, k
  <2> QED BY <1>6
<1>8. [i \in 1..k |-> nth(i)] \in Seq(S)
  <2> HIDE DEF nth, k
  <2> QED BY <1>1, <1>7, ListIsSeq
<1>9. Answers!ByAge(S) = [i \in 1..k |-> nth(i)]
  BY DEF Answers!ByAge, Cardinality, Answers!Cardinality
<1>10. \A i, j \in 1..k : nth(i) = nth(j) => i = j
  <2> HIDE DEF nth, k, time
  <2>1. SUFFICES ASSUME NEW i \in 1..k, NEW j \in 1..k, nth(i) = nth(j) PROVE i = j
    OBVIOUS
  <2>2. i - 1 = j - 1 BY <2>1, <1>6
  <2> QED BY <1>1, <2>2
<1> HIDE DEF nth, k
<1>11. DOMAIN Answers!ByAge(S) = 1..k /\ \A i \in 1..k : Answers!ByAge(S)[i] = nth(i)
  BY <1>9
<1> QED BY <1>8, <1>9, <1>10, <1>11

LEMMA PartOfWords ==
  ASSUME NEW all, WordsSound(all), NEW S, S \subseteq all
  PROVE  WordsSound(S)
<1>1. IsFiniteSet(S)
  BY FS_Subset DEF WordsSound
<1> QED BY <1>1 DEF WordsSound

\* Two lists of different elements, each of which has every element once.
LEMMA ConcatOnce ==
  ASSUME NEW S, NEW T, S \intersect T = {}, NEW x \in Seq(S), NEW y \in Seq(T),
         \A i, j \in DOMAIN x : x[i] = x[j] => i = j, \A i, j \in DOMAIN y : y[i] = y[j] => i = j
  PROVE  x \o y \in Seq(S \union T) /\ \A i, j \in DOMAIN (x \o y) : (x \o y)[i] = (x \o y)[j] => i = j
<1>1. x \in Seq(S \union T) /\ y \in Seq(S \union T)
  BY SeqMonotonic
<1>2. /\ x \o y \in Seq(S \union T) /\ Len(x) \in Nat /\ Len(y) \in Nat
      /\ DOMAIN (x \o y) = 1..(Len(x) + Len(y)) /\ DOMAIN x = 1..Len(x) /\ DOMAIN y = 1..Len(y)
  BY <1>1
<1>3. \A n \in 1..(Len(x) + Len(y)) : (x \o y)[n] = IF n <= Len(x) THEN x[n] ELSE y[n - Len(x)]
  BY <1>1
<1>4. SUFFICES ASSUME NEW i \in 1..(Len(x) + Len(y)), NEW j \in 1..(Len(x) + Len(y)), (x \o y)[i] = (x \o y)[j]
      PROVE i = j
  BY <1>2
<1>5. /\ i <= Len(x) => i \in DOMAIN x /\ (x \o y)[i] = x[i] /\ x[i] \in S
      /\ j <= Len(x) => j \in DOMAIN x /\ (x \o y)[j] = x[j] /\ x[j] \in S
      /\ ~ (i <= Len(x)) => i - Len(x) \in DOMAIN y /\ (x \o y)[i] = y[i - Len(x)] /\ y[i - Len(x)] \in T
      /\ ~ (j <= Len(x)) => j - Len(x) \in DOMAIN y /\ (x \o y)[j] = y[j - Len(x)] /\ y[j - Len(x)] \in T
  BY <1>2, <1>3
<1>6. (i <= Len(x)) <=> (j <= Len(x))
  BY <1>4, <1>5
<1>7. CASE i <= Len(x)
  BY <1>4, <1>5, <1>6, <1>7
<1>8. CASE ~ (i <= Len(x))
  <2>1. i - Len(x) = j - Len(x) BY <1>4, <1>5, <1>6, <1>8
  <2> QED BY <1>2, <2>1
<1> QED BY <1>7, <1>8

\* No comment is planned for twice.
LEMMA PlanLists ==
  ASSUME NEW all, WordsSound(all), NEW hd
  PROVE  /\ Answers!Plan(all, hd) \in Seq(all)
         /\ \A i, j \in DOMAIN Answers!Plan(all, hd) : Answers!Plan(all, hd)[i] = Answers!Plan(all, hd)[j] => i = j
<1> DEFINE S == Answers!UnansweredNotices(all)
           T == Answers!UnansweredSummaries(all, hd)
<1>1. S \subseteq {c \in all : c.kind = "notice"}
  BY DEF Answers!UnansweredNotices, Answers!IsNotice
<1>2. T \subseteq {c \in all : c.kind \in {"summary", "quietSummary"}}
  BY DEF Answers!UnansweredSummaries, Answers!FirstFit, Answers!IsSummary
<1> HIDE DEF S, T
<1>3. WordsSound(S) /\ WordsSound(T) /\ S \intersect T = {}
  BY <1>1, <1>2, PartOfWords
<1> DEFINE x == Answers!ByAge(S)
           y == Answers!ByAge(T)
<1>4. x \in Seq(S) /\ \A i, j \in DOMAIN x : x[i] = x[j] => i = j
  BY <1>3, ByAgeLists
<1>5. y \in Seq(T) /\ \A i, j \in DOMAIN y : y[i] = y[j] => i = j
  BY <1>3, ByAgeLists
<1>6. Answers!Plan(all, hd) = x \o y
  BY DEF Answers!Plan, S, T
<1> HIDE DEF x, y
<1>7. x \o y \in Seq(S \union T) /\ \A i, j \in DOMAIN (x \o y) : (x \o y)[i] = (x \o y)[j] => i = j
  BY <1>3, <1>4, <1>5, ConcatOnce
<1>8. S \union T \subseteq all
  BY <1>1, <1>2
<1>9. x \o y \in Seq(all)
  BY <1>7, <1>8, SeqMonotonic
<1> QED BY <1>6, <1>7, <1>9

\* The newest comment has the greatest id.
LEMMA NewestIsGreatest ==
  ASSUME NEW all, WordsSound(all)
  PROVE  Answers!Newest(all) \in Nat /\ \A c \in all : c.id <= Answers!Newest(all)
<1> DEFINE ids == {c.id : c \in all} \union {0}
           idOf == [c \in all |-> c.id]
<1>1. ids \subseteq Nat /\ ids # {}
  BY DEF WordsSound
<1>2. IsFiniteSet(ids)
  <2>1. idOf \in Surjection(all, {c.id : c \in all})
    BY DEF Surjection
  <2> HIDE DEF idOf
  <2>2. IsFiniteSet({c.id : c \in all}) BY <2>1, FS_Surjection DEF WordsSound
  <2>3. IsFiniteSet({0}) BY FS_Singleton
  <2> QED BY <2>2, <2>3, FS_Union
<1> HIDE DEF ids
<1>3. \E x \in ids : \A y \in ids : x >= y
  BY <1>1, <1>2, GreatestOfNaturals
<1>4. Answers!Max(ids) \in ids /\ \A y \in ids : Answers!Max(ids) >= y
  BY <1>3 DEF Answers!Max
<1>5. Answers!Newest(all) = Answers!Max(ids)
  BY DEF Answers!Newest, ids
<1>6. \A c \in all : c.id \in ids
  BY DEF ids
<1>7. \A y \in ids : y \in Nat BY <1>1
<1>8. \A c \in all : Answers!Max(ids) >= c.id BY <1>4, <1>6
<1>9. Answers!Max(ids) \in Nat BY <1>4, <1>7
<1> QED BY <1>5, <1>6, <1>7, <1>8, <1>9

-----------------------------------------------------------------------------
(* Answers: the steps.                                                     *)

\* The run goes on without a word.
Continues(all, q, q2) ==
  /\ RunFields \subseteq DOMAIN q2 /\ q2.known = q.known
  /\ \/ q2.todo = <<>> /\ q2.phase \notin {"body", "fresh", "post", "recover"}
     \/ q2.todo = q.todo /\ (q2.phase \in {"body", "fresh", "post", "recover"} => q.todo # <<>>)
  /\ q2.phase \in Early => q.phase \in Early
  /\ q.phase = "recover" /\ q2.todo # <<>> =>
       q2.phase = "recover" \/ \A c \in all : c.by = "run" => c.source # q.todo[1].id

LEMMA RunKeeps ==
  ASSUME AnswersInv, DOMAIN pr' = PrFields, pr'.now \in Nat, pr'.comments = pr.comments, moves' = moves,
         Continues(pr.comments, run, run')
  PROVE  AnswersInv'
<1> DEFINE q == run
           q2 == run'
           all == pr.comments
<1>1. /\ pr.now \in Nat /\ WordsSound(all) /\ MovesSound(moves) /\ ListSound(q) /\ AnsweredSound(all, q) /\ OneEach(all)
      /\ KnownSound(all, q) /\ Continues(all, q, q2)
  BY DEF AnswersInv
<1>2. ListSound(q2) /\ AnsweredSound(all, q2) /\ KnownSound(all, q2)
  <2> HIDE DEF q, q2, all
  <2>1. DOMAIN <<>> = {} /\ <<>> \in Seq(Elements(<<>>))
    OBVIOUS
  <2>2. ListSound(q2)
    BY <1>1, <2>1 DEF ListSound, Continues
  <2>3. AnsweredSound(all, q2)
    <3> SUFFICES ASSUME NEW c \in all, c.by = "run"
                 PROVE  /\ q2.phase \notin Early
                        /\ \A i \in DOMAIN q2.todo : c.source = q2.todo[i].id =>
                             i = 1 /\ q2.phase = "recover" /\ c.author = Me /\ c.id \notin q2.known
      BY DEF AnsweredSound
    <3>1. q2.phase \notin Early
      BY <1>1 DEF AnsweredSound, Continues
    <3>2. ASSUME NEW i \in DOMAIN q2.todo, c.source = q2.todo[i].id
          PROVE  i = 1 /\ q2.phase = "recover" /\ c.author = Me /\ c.id \notin q2.known
      <4>1. q2.todo # <<>> BY <2>1, <3>2
      <4>2. q2.todo = q.todo BY <1>1, <4>1 DEF Continues
      <4>3. i = 1 /\ q.phase = "recover" /\ c.author = Me /\ c.id \notin q.known
        BY <1>1, <3>2, <4>2 DEF AnsweredSound
      <4> QED BY <1>1, <3>2, <4>1, <4>2, <4>3 DEF Continues
    <3> QED BY <3>1, <3>2
  <2>4. KnownSound(all, q2)
    BY <1>1 DEF KnownSound, Continues
  <2> QED BY <2>2, <2>3, <2>4
<1>3. RunFields \subseteq DOMAIN q2
  BY <1>1 DEF Continues
<1> QED BY <1>1, <1>2, <1>3 DEF AnswersInv

\* The steps that only move the run on, or end it.
LEMMA QuietSteps ==
  ASSUME AnswersInv,
         \/ Answers!ReadFails \/ Answers!Begin \/ Answers!CheckClaim \/ Answers!ReadHead \/ Answers!CheckItem
         \/ Answers!Finish \/ Answers!Admit \/ Answers!FindThread \/ Answers!CheckBefore \/ Answers!CheckAgain
  PROVE  AnswersInv'
<1>1. RunFields \subseteq DOMAIN run /\ DOMAIN pr = PrFields
  BY DEF AnswersInv
<1>2. pr' = pr /\ moves' = moves
  BY DEF Answers!ReadFails, Answers!Begin, Answers!CheckClaim, Answers!ReadHead, Answers!CheckItem,
         Answers!Finish, Answers!Admit, Answers!FindThread, Answers!CheckBefore, Answers!CheckAgain,
         Answers!Silently, Answers!world
<1>3. Continues(pr.comments, run, run')
  <2>1. ASSUME NEW result, Answers!Done(result) PROVE Continues(pr.comments, run, run')
    <3>1. /\ RunFields \subseteq DOMAIN run' /\ run'.known = run.known /\ run'.todo = <<>> /\ run'.phase = "done"
      BY <1>1, <2>1 DEF Answers!Done, RunFields
    <3> QED BY <3>1 DEF Continues, Early
  <2>2. ASSUME NEW phase2, Answers!On(phase2), phase2 \notin {"body", "fresh", "post", "recover"},
               run.phase # "recover", phase2 \in Early => run.phase \in Early
        PROVE Continues(pr.comments, run, run')
    <3>1. RunFields \subseteq DOMAIN run' /\ run'.known = run.known /\ run'.todo = run.todo /\ run'.phase = phase2
      BY <1>1, <2>2 DEF Answers!On, RunFields
    <3> QED BY <2>2, <3>1 DEF Continues
  <2>3. CASE Answers!ReadFails
    BY <2>1, <2>3 DEF Answers!ReadFails
  <2>4. CASE Answers!Begin
    BY <2>2, <2>4 DEF Answers!Begin, Early
  <2>5. CASE Answers!CheckClaim
    BY <2>1, <2>2, <2>5 DEF Answers!CheckClaim, Early
  <2>6. CASE Answers!ReadHead
    <3>1. /\ RunFields \subseteq DOMAIN run' /\ run'.known = run.known /\ run'.todo = run.todo /\ run'.phase = "comments"
          /\ run.phase = "head"
      BY <1>1, <2>6 DEF Answers!ReadHead, RunFields
    <3> QED BY <3>1 DEF Continues, Early
  <2>7. CASE Answers!CheckItem
    <3>1. CASE Answers!Done("failed")
      BY <2>1, <3>1
    <3>2. CASE Answers!Attempt(run.todo[1], 1)
      <4>1. /\ RunFields \subseteq DOMAIN run' /\ run'.known = run.known /\ run'.todo = run.todo
            /\ run'.phase \in {"body", "post"} /\ run.phase = "item" /\ run.todo # <<>>
        BY <1>1, <2>7, <3>2 DEF Answers!CheckItem, Answers!Attempt, RunFields
      <4> QED BY <4>1 DEF Continues, Early
    <3> QED BY <2>7, <3>1, <3>2 DEF Answers!CheckItem
  <2>8. CASE Answers!Finish
    BY <2>1, <2>8 DEF Answers!Finish
  <2>9. CASE Answers!Admit
    BY <2>1, <2>2, <2>9 DEF Answers!Admit, Early
  <2>10. CASE Answers!FindThread
    BY <2>1, <2>2, <2>10 DEF Answers!FindThread, Early
  <2>11. CASE Answers!CheckBefore \/ Answers!CheckAgain
    BY <2>1, <2>2, <2>11 DEF Answers!CheckBefore, Answers!CheckAgain, Early
  <2> QED BY <2>3, <2>4, <2>5, <2>6, <2>7, <2>8, <2>9, <2>10, <2>11
<1> QED BY <1>1, <1>2, <1>3, RunKeeps DEF AnswersInv

\* A reply in a thread and its resolution leave the comments of the pull request alone.
LEMMA ThreadSteps ==
  ASSUME AnswersInv, Answers!Reply \/ Answers!ReplyFails \/ Answers!Resolve \/ Answers!ResolveFails
  PROVE  AnswersInv'
<1>1. RunFields \subseteq DOMAIN run /\ DOMAIN pr = PrFields
  BY DEF AnswersInv
<1>2. pr' \in {pr, Answers!Answered, Answers!Resolved} /\ moves' = moves
  BY DEF Answers!Reply, Answers!ReplyFails, Answers!Resolve, Answers!ResolveFails
<1>3. DOMAIN pr' = PrFields /\ pr'.now \in Nat /\ pr'.comments = pr.comments
  <2>1. pr.now \in Nat
    BY DEF AnswersInv
  <2>2. CASE pr' = pr
    BY <1>1, <2>1, <2>2
  <2>3. CASE pr' = Answers!Answered
    <3>1. DOMAIN pr' = PrFields /\ pr'.now = pr.now + 1 /\ pr'.comments = pr.comments
      BY <1>1, <2>3 DEF PrFields, Answers!Answered
    <3> QED BY <2>1, <3>1
  <2>4. CASE pr' = Answers!Resolved
    <3>1. DOMAIN pr' = PrFields /\ pr'.now = pr.now /\ pr'.comments = pr.comments
      BY <1>1, <2>4 DEF PrFields, Answers!Resolved
    <3> QED BY <2>1, <3>1
  <2> QED BY <1>2, <2>2, <2>3, <2>4
<1>4. Continues(pr.comments, run, run')
  <2>1. CASE \E result \in {"applied", "failed"} : Answers!Done(result)
    <3>1. RunFields \subseteq DOMAIN run' /\ run'.known = run.known /\ run'.todo = <<>> /\ run'.phase = "done"
      BY <1>1, <2>1 DEF Answers!Done, RunFields
    <3> QED BY <3>1 DEF Continues, Early
  <2>2. CASE Answers!Reply
    <3>1. /\ RunFields \subseteq DOMAIN run' /\ run'.known = run.known /\ run'.todo = run.todo /\ run'.phase = "again"
          /\ run.phase = "reply"
      BY <1>1, <2>2 DEF Answers!Reply, RunFields
    <3> QED BY <3>1 DEF Continues, Early
  <2> QED BY <2>1, <2>2 DEF Answers!ReplyFails, Answers!Resolve, Answers!ResolveFails
<1> QED BY <1>2, <1>3, <1>4, RunKeeps

LEMMA ReadCommentsKeeps ==
  ASSUME AnswersInv, Answers!ReadComments
  PROVE  AnswersInv'
<1> DEFINE q == run
           q2 == run'
           all == pr.comments
           plan == Answers!Plan(all, q.head)
<1>1. pr' = pr /\ moves' = moves /\ run.phase = "comments"
  BY DEF Answers!ReadComments, Answers!Silently, Answers!world
<1>2. RunFields \subseteq DOMAIN q2 /\ q2.known = q.known /\ q2.todo = plan /\ q2.phase = "known"
  BY DEF AnswersInv, RunFields, Answers!ReadComments
<1>3. /\ WordsSound(all) /\ AnsweredSound(all, q) /\ KnownSound(all, q)
  BY DEF AnswersInv
<1> HIDE DEF plan, all, q2
<1>4. plan \in Seq(all) /\ \A i, j \in DOMAIN plan : plan[i] = plan[j] => i = j
  BY <1>3, PlanLists DEF plan
<1>5. ListSound(q2)
  <2>1. plan \in Seq(Elements(plan)) BY <1>4, ElementsOfSeq
  <2>2. \A i \in DOMAIN plan : plan[i] \in all BY <1>4
  <2>3. \A i, j \in DOMAIN plan : plan[i].id = plan[j].id => i = j
    BY <1>3, <1>4, <2>2 DEF WordsSound
  <2> QED BY <1>2, <1>3, <2>1, <2>2, <2>3 DEF ListSound, WordsSound
<1>6. AnsweredSound(all, q2) /\ KnownSound(all, q2)
  BY <1>1, <1>2, <1>3 DEF AnsweredSound, KnownSound, Early
<1> QED BY <1>1, <1>2, <1>5, <1>6 DEF AnswersInv, q2, all

LEMMA ReadKnownKeeps ==
  ASSUME AnswersInv, Answers!ReadKnown
  PROVE  AnswersInv'
<1> DEFINE q == run
           q2 == run'
           all == pr.comments
<1>1. pr' = pr /\ moves' = moves /\ q.phase = "known"
  BY DEF Answers!ReadKnown, Answers!world
<1>2. /\ RunFields \subseteq DOMAIN q2 /\ q2.todo = q.todo /\ q2.phase = "item"
      /\ q2.known = {c.id : c \in {d \in all : d.author = Me}}
  BY DEF AnswersInv, RunFields, Answers!ReadKnown
<1>3. WordsSound(all) /\ AnsweredSound(all, q) /\ ListSound(q)
  BY DEF AnswersInv
<1>4. ListSound(q2)
  <2> HIDE DEF q, q2, all
  <2> QED BY <1>2, <1>3 DEF ListSound
<1>5. AnsweredSound(all, q2)
  BY <1>1, <1>3 DEF AnsweredSound, Early
<1>6. KnownSound(all, q2)
  <2> HIDE DEF q, q2, all
  <2> SUFFICES ASSUME NEW k \in q2.known PROVE k \in Nat /\ \E c \in all : k <= c.id
    BY DEF KnownSound
  <2>1. PICK c \in all : k = c.id BY <1>2
  <2> QED BY <1>3, <2>1 DEF WordsSound
<1> QED BY <1>1, <1>2, <1>4, <1>5, <1>6 DEF AnswersInv

\* A list without its first element.
LEMMA TailOfItems ==
  ASSUME NEW list, list \in Seq(Elements(list)), list # <<>>
  PROVE  /\ Len(list) \in Nat \ {0} /\ DOMAIN list = 1..Len(list)
         /\ DOMAIN Tail(list) = 1..(Len(list) - 1) /\ \A i \in 1..(Len(list) - 1) : Tail(list)[i] = list[i + 1]
         /\ Tail(list) \in Seq(Elements(list))
<1> DEFINE S == Elements(list)
<1>1. list \in Seq(S) /\ list # <<>>
  OBVIOUS
<1> HIDE DEF S
<1>2. /\ Len(list) \in Nat \ {0} /\ DOMAIN list = 1..Len(list)
      /\ Len(Tail(list)) = Len(list) - 1 /\ Tail(list) \in Seq(S)
  BY <1>1
<1>3. DOMAIN Tail(list) = 1..(Len(list) - 1) /\ \A i \in 1..(Len(list) - 1) : Tail(list)[i] = list[i + 1]
  BY <1>1, <1>2
<1> QED BY <1>1, <1>2, <1>3 DEF S

\* On to the next item, with one more comment known.
LEMMA NextItemKeeps ==
  ASSUME AnswersInv, pr' = pr, moves' = moves, run.todo # <<>>, run.phase \notin Early,
         RunFields \subseteq DOMAIN run', run'.phase = "item", run'.todo = Tail(run.todo),
         \A k \in run'.known : k \in run.known \/ \E c \in pr.comments : k = c.id
  PROVE  AnswersInv'
<1> DEFINE q == run
           q2 == run'
           all == pr.comments
<1>1. WordsSound(all) /\ AnsweredSound(all, q) /\ ListSound(q) /\ KnownSound(all, q)
  BY DEF AnswersInv
<1>2. /\ q.todo # <<>> /\ q.phase \notin Early /\ q2.phase = "item" /\ q2.todo = Tail(q.todo)
      /\ \A k \in q2.known : k \in q.known \/ \E c \in all : k = c.id
  OBVIOUS
<1>3. ListSound(q2) /\ AnsweredSound(all, q2) /\ KnownSound(all, q2)
  <2> HIDE DEF q, q2, all
  <2>0. q.todo \in Seq(Elements(q.todo)) /\ q.todo # <<>>
    BY <1>1, <1>2 DEF ListSound
  <2>1. /\ Len(q.todo) \in Nat \ {0} /\ DOMAIN q.todo = 1..Len(q.todo)
        /\ DOMAIN q2.todo = 1..(Len(q.todo) - 1) /\ \A i \in DOMAIN q2.todo : q2.todo[i] = q.todo[i + 1]
        /\ q2.todo \in Seq(Elements(q.todo))
    <3>1. /\ Len(q.todo) \in Nat \ {0} /\ DOMAIN q.todo = 1..Len(q.todo)
          /\ DOMAIN Tail(q.todo) = 1..(Len(q.todo) - 1) /\ \A i \in 1..(Len(q.todo) - 1) : Tail(q.todo)[i] = q.todo[i + 1]
          /\ Tail(q.todo) \in Seq(Elements(q.todo))
      BY <2>0, TailOfItems
    <3> QED BY <1>2, <3>1
  <2>2. \A i \in DOMAIN q2.todo : i + 1 \in DOMAIN q.todo /\ i + 1 # 1
    BY <2>1
  <2>3. q2.todo \in Seq(Elements(q2.todo)) BY <2>1, ElementsOfSeq
  <2>4. \A i, j \in DOMAIN q2.todo : q2.todo[i].id = q2.todo[j].id => i = j
    <3> SUFFICES ASSUME NEW i \in DOMAIN q2.todo, NEW j \in DOMAIN q2.todo, q2.todo[i].id = q2.todo[j].id PROVE i = j
      OBVIOUS
    <3>1. i + 1 = j + 1 BY <1>1, <2>1, <2>2 DEF ListSound
    <3> QED BY <2>1, <3>1
  <2>5. ListSound(q2)
    BY <1>1, <1>2, <2>1, <2>2, <2>3, <2>4 DEF ListSound
  <2>6. AnsweredSound(all, q2)
    BY <1>1, <1>2, <2>1, <2>2 DEF AnsweredSound, Early
  <2>7. KnownSound(all, q2)
    <3> SUFFICES ASSUME NEW k \in q2.known PROVE k \in Nat /\ \E c \in all : k <= c.id
      BY DEF KnownSound
    <3>1. CASE k \in q.known BY <1>1, <3>1 DEF KnownSound
    <3>2. CASE \E c \in all : k = c.id BY <1>1, <3>2 DEF WordsSound
    <3> QED BY <1>2, <3>1, <3>2
  <2> QED BY <2>5, <2>6, <2>7
<1> QED BY <1>3 DEF AnswersInv

LEMMA ReviewReadKeeps ==
  ASSUME AnswersInv, Answers!ReadBody \/ Answers!ReadFreshHead
  PROVE  AnswersInv'
<1>1. /\ RunFields \subseteq DOMAIN run /\ DOMAIN pr = PrFields /\ ListSound(run)
  BY DEF AnswersInv
<1>2. pr' = pr /\ moves' = moves /\ run.phase \in {"body", "fresh"} /\ run.todo # <<>>
  BY <1>1 DEF Answers!ReadBody, Answers!ReadFreshHead, Answers!world, ListSound
<1>3. CASE \/ Answers!NextItem(run)
           \/ Answers!NextItem([run EXCEPT !.calm = FALSE])
  <2>1. /\ RunFields \subseteq DOMAIN run' /\ run'.phase = "item" /\ run'.todo = Tail(run.todo) /\ run'.known = run.known
    BY <1>1, <1>3 DEF Answers!NextItem, RunFields
  <2> QED BY <1>2, <2>1, NextItemKeeps DEF Early
<1>4. CASE \/ Answers!On("post")
           \/ run' = [run EXCEPT !.phase = "fresh", !.completed = Answers!CommentOf(run.todo[1].id).completed]
  <2>1. /\ RunFields \subseteq DOMAIN run' /\ run'.phase \in {"post", "fresh"} /\ run'.todo = run.todo /\ run'.known = run.known
    BY <1>1, <1>4 DEF Answers!On, RunFields
  <2>2. Continues(pr.comments, run, run')
    BY <1>2, <2>1 DEF Continues, Early
  <2> QED BY <1>1, <1>2, <2>2, RunKeeps DEF AnswersInv
<1> QED BY <1>3, <1>4 DEF Answers!ReadBody, Answers!ReadFreshHead

LEMMA RecoverKeeps ==
  ASSUME AnswersInv, Answers!Recover
  PROVE  AnswersInv'
<1> DEFINE ids == {c.id : c \in {d \in pr.comments : /\ d.author = Me /\ d.id \notin run.known
                                                     /\ d.source = run.todo[1].id}}
<1>1. RunFields \subseteq DOMAIN run /\ DOMAIN pr = PrFields /\ ListSound(run) /\ AnsweredSound(pr.comments, run)
      /\ WordsSound(pr.comments)
  BY DEF AnswersInv
<1>2. pr' = pr /\ moves' = moves /\ run.phase = "recover" /\ run.todo # <<>>
  BY <1>1 DEF Answers!Recover, Answers!world, ListSound
<1>3. \/ ids # {} /\ Answers!NextItem([run EXCEPT !.known = @ \union {Answers!Max(ids)}])
      \/ ids = {} /\ Answers!Again(run.todo[1])
      \/ Answers!NextItem([run EXCEPT !.ok = FALSE])
  BY DEF Answers!Recover
<1>4. ids # {} => Answers!Max(ids) \in ids
  <2>1. ids \subseteq {c.id : c \in pr.comments} OBVIOUS
  <2> DEFINE idOf == [c \in pr.comments |-> c.id]
             I == {c.id : c \in pr.comments}
  <2>2. idOf \in Surjection(pr.comments, I)
    BY DEF Surjection
  <2>3. IsFiniteSet(I)
    <3> HIDE DEF idOf, I
    <3> QED BY <1>1, <2>2, FS_Surjection DEF WordsSound
  <2>4. I \subseteq Nat BY <1>1 DEF WordsSound
  <2> HIDE DEF ids, I
  <2>5. ids \subseteq I BY <2>1 DEF I
  <2>6. ids \subseteq Nat /\ IsFiniteSet(ids) BY <2>3, <2>4, <2>5, FS_Subset
  <2> SUFFICES ASSUME ids # {} PROVE Answers!Max(ids) \in ids
    OBVIOUS
  <2>7. \E x \in ids : \A y \in ids : x >= y BY <2>6, GreatestOfNaturals
  <2> QED BY <2>7 DEF Answers!Max
<1>5. CASE ids # {} /\ Answers!NextItem([run EXCEPT !.known = @ \union {Answers!Max(ids)}])
  <2>1. \E c \in pr.comments : Answers!Max(ids) = c.id
    BY <1>4, <1>5
  <2> HIDE DEF ids
  <2>2. /\ RunFields \subseteq DOMAIN run' /\ run'.phase = "item" /\ run'.todo = Tail(run.todo)
        /\ run'.known = run.known \union {Answers!Max(ids)}
    BY <1>1, <1>5 DEF Answers!NextItem, RunFields
  <2> QED BY <1>2, <2>1, <2>2, NextItemKeeps DEF Early
<1>6. CASE Answers!NextItem([run EXCEPT !.ok = FALSE])
  <2>1. RunFields \subseteq DOMAIN run' /\ run'.phase = "item" /\ run'.todo = Tail(run.todo) /\ run'.known = run.known
    BY <1>1, <1>6 DEF Answers!NextItem, RunFields
  <2> QED BY <1>2, <2>1, NextItemKeeps DEF Early
<1>7. CASE ids = {} /\ Answers!Again(run.todo[1])
  <2>1. /\ RunFields \subseteq DOMAIN run' /\ run'.phase \in {"post", "body"} /\ run'.todo = run.todo /\ run'.known = run.known
    BY <1>1, <1>7 DEF Answers!Again, Answers!Attempt, RunFields
  <2>2. 1 \in DOMAIN run.todo
    BY <1>1, <1>2 DEF ListSound
  <2>3. \A c \in pr.comments : c.by = "run" => c.source # run.todo[1].id
    BY <1>1, <1>7, <2>2 DEF AnsweredSound
  <2>4. Continues(pr.comments, run, run')
    BY <1>2, <2>1, <2>3 DEF Continues, Early
  <2> QED BY <1>1, <1>2, <2>4, RunKeeps DEF AnswersInv
<1> QED BY <1>3, <1>5, <1>6, <1>7

\* A comment that is about to be written.
NewWord(all, w) == WordFields \subseteq DOMAIN w /\ w.id = Answers!Newest(all) + 1 /\ w.at \in Nat

LEMMA NewWordSound ==
  ASSUME NEW all, WordsSound(all), NEW w, NewWord(all, w)
  PROVE  WordsSound(all \union {w}) /\ w.id \in Nat /\ \A c \in all : c.id < w.id
<1>1. Answers!Newest(all) \in Nat /\ \A c \in all : c.id <= Answers!Newest(all)
  BY NewestIsGreatest
<1>2. \A c \in all : c.id \in Nat
  BY DEF WordsSound
<1>3. w.id \in Nat /\ \A c \in all : c.id < w.id
  <2>1. w.id = Answers!Newest(all) + 1 BY DEF NewWord
  <2> QED BY <1>1, <1>2, <2>1
<1>4. IsFiniteSet(all \union {w})
  BY FS_AddElement DEF WordsSound
<1>5. \A c, d \in all \union {w} : c.id = d.id => c = d
  <2>1. \A c \in all : c.id # w.id BY <1>2, <1>3
  <2> QED BY <2>1 DEF WordsSound
<1> QED BY <1>3, <1>4, <1>5 DEF WordsSound, NewWord

\* The first item has its answer: the run knows it and goes on, or looks for it.
HasAnswered(all, q, w, q2) ==
  /\ q.phase = "post" /\ NewWord(all, w)
  /\ w.by = "run" /\ w.author = Me /\ w.source = q.todo[1].id
  /\ RunFields \subseteq DOMAIN q2
  /\ \/ q2.phase = "item" /\ q2.todo = Tail(q.todo) /\ q2.known = q.known \union {w.id}
     \/ q2.phase = "recover" /\ q2.todo = q.todo /\ q2.known = q.known

LEMMA AnswerKeeps ==
  ASSUME NEW all, NEW q, NEW w, NEW q2, WordsSound(all), ListSound(q), AnsweredSound(all, q), OneEach(all),
         KnownSound(all, q), HasAnswered(all, q, w, q2)
  PROVE  /\ WordsSound(all \union {w}) /\ ListSound(q2) /\ AnsweredSound(all \union {w}, q2)
         /\ OneEach(all \union {w}) /\ KnownSound(all \union {w}, q2)
<1>1. WordsSound(all \union {w}) /\ w.id \in Nat /\ \A c \in all : c.id < w.id
  BY NewWordSound DEF HasAnswered
<1>2. q.phase = "post" /\ q.todo # <<>> /\ q.todo \in Seq(Elements(q.todo))
  BY DEF HasAnswered, ListSound
<1>3. /\ Len(q.todo) \in Nat \ {0} /\ DOMAIN q.todo = 1..Len(q.todo)
      /\ DOMAIN Tail(q.todo) = 1..(Len(q.todo) - 1) /\ \A i \in 1..(Len(q.todo) - 1) : Tail(q.todo)[i] = q.todo[i + 1]
      /\ Tail(q.todo) \in Seq(Elements(q.todo))
  BY <1>2, TailOfItems
<1>4. \A i \in DOMAIN Tail(q.todo) : Tail(q.todo)[i] = q.todo[i + 1] /\ i + 1 \in DOMAIN q.todo /\ i + 1 # 1
  BY <1>3
<1>5. 1 \in DOMAIN q.todo
  BY <1>3
<1>6. \A c \in all : c.by = "run" => \A i \in DOMAIN q.todo : c.source # q.todo[i].id
  BY <1>2 DEF AnsweredSound
<1>7. w.id \notin q.known
  <2>1. ASSUME w.id \in q.known PROVE FALSE
    <3>1. PICK c \in all : w.id <= c.id BY <2>1 DEF KnownSound
    <3>2. c.id \in Nat /\ c.id < w.id BY <1>1 DEF WordsSound
    <3> QED BY <1>1, <3>1, <3>2
  <2> QED BY <2>1
<1>8. ListSound(q2)
  <2>1. CASE q2.phase = "item" /\ q2.todo = Tail(q.todo)
    <3>1. q2.todo \in Seq(Elements(q2.todo)) BY <1>3, <2>1, ElementsOfSeq
    <3>2. \A i \in DOMAIN q2.todo : WordFields \subseteq DOMAIN q2.todo[i]
      BY <1>4, <2>1 DEF ListSound
    <3>3. \A i, j \in DOMAIN q2.todo : q2.todo[i].id = q2.todo[j].id => i = j
      <4> SUFFICES ASSUME NEW i \in DOMAIN q2.todo, NEW j \in DOMAIN q2.todo, q2.todo[i].id = q2.todo[j].id PROVE i = j
        OBVIOUS
      <4>1. i + 1 = j + 1 BY <1>4, <2>1 DEF ListSound
      <4>2. i \in 1..(Len(q.todo) - 1) /\ j \in 1..(Len(q.todo) - 1) BY <1>3, <2>1
      <4> QED BY <1>3, <4>1, <4>2
    <3> QED BY <2>1, <3>1, <3>2, <3>3 DEF ListSound
  <2>2. CASE q2.phase = "recover" /\ q2.todo = q.todo
    BY <1>2, <2>2 DEF ListSound
  <2> QED BY <2>1, <2>2 DEF HasAnswered
<1>9. AnsweredSound(all \union {w}, q2)
  <2>1. q2.phase \notin Early
    BY DEF HasAnswered, Early
  <2>2. \A i \in DOMAIN q2.todo : \E j \in DOMAIN q.todo : q2.todo[i] = q.todo[j] /\ (q2.phase = "item" => j # 1)
                                                             /\ (q2.phase = "recover" => i = j)
    BY <1>4 DEF HasAnswered
  <2> SUFFICES ASSUME NEW c \in all \union {w}, c.by = "run", NEW i \in DOMAIN q2.todo, c.source = q2.todo[i].id
               PROVE  i = 1 /\ q2.phase = "recover" /\ c.author = Me /\ c.id \notin q2.known
    BY <2>1 DEF AnsweredSound
  <2>3. PICK j \in DOMAIN q.todo : q2.todo[i] = q.todo[j] /\ (q2.phase = "item" => j # 1) /\ (q2.phase = "recover" => i = j)
    BY <2>2
  <2>4. c = w
    BY <1>6, <2>3
  <2>5. j = 1
    BY <1>5, <2>3, <2>4 DEF HasAnswered, ListSound
  <2>6. q2.phase = "recover" /\ q2.known = q.known
    BY <2>3, <2>5 DEF HasAnswered
  <2> QED BY <1>7, <2>3, <2>4, <2>5, <2>6 DEF HasAnswered
<1>10. OneEach(all \union {w})
  <2>1. \A c \in all : c.by = "run" => c.source # w.source
    BY <1>5, <1>6 DEF HasAnswered
  <2> QED BY <2>1 DEF OneEach
<1>11. KnownSound(all \union {w}, q2)
  <2> SUFFICES ASSUME NEW k \in q2.known PROVE k \in Nat /\ \E c \in all \union {w} : k <= c.id
    BY DEF KnownSound
  <2>1. CASE k \in q.known
    BY <2>1 DEF KnownSound
  <2>2. CASE k = w.id
    BY <1>1, <2>2
  <2> QED BY <2>1, <2>2 DEF HasAnswered
<1> QED BY <1>1, <1>8, <1>9, <1>10, <1>11

\* An answer that is posted, or whose request fails.
LEMMA PostKeeps ==
  ASSUME AnswersInv, Answers!Post \/ Answers!PostFails
  PROVE  AnswersInv'
<1> DEFINE q == run
           q2 == run'
           all == pr.comments
           w == Answers!Disposition(run.todo[1])
<1>1. /\ RunFields \subseteq DOMAIN run /\ DOMAIN pr = PrFields /\ ListSound(run) /\ pr.now \in Nat
      /\ WordsSound(all) /\ AnsweredSound(all, q) /\ OneEach(all) /\ KnownSound(all, q) /\ MovesSound(moves)
  BY DEF AnswersInv
<1>2. run.phase = "post" /\ moves' = moves /\ pr' \in {pr, Answers!Posted(run.todo[1])}
  BY DEF Answers!Post, Answers!PostFails
<1>3. \/ Answers!NextItem([run EXCEPT !.known = @ \union {Answers!Newest(pr.comments) + 1}]) /\ pr' = Answers!Posted(run.todo[1])
      \/ Answers!On("recover")
  BY DEF Answers!Post, Answers!PostFails
<1>4. CASE pr' = pr /\ Answers!On("recover")
  <2>1. /\ RunFields \subseteq DOMAIN run' /\ run'.phase = "recover" /\ run'.todo = run.todo /\ run'.known = run.known
    BY <1>1, <1>4 DEF Answers!On, RunFields
  <2>2. run.todo # <<>>
    BY <1>1, <1>2 DEF ListSound
  <2>3. Continues(pr.comments, run, run')
    BY <1>2, <2>1, <2>2 DEF Continues, Early
  <2> QED BY <1>1, <1>2, <1>4, <2>3, RunKeeps
<1>5. CASE pr' = Answers!Posted(run.todo[1])
  <2>1. DOMAIN pr' = PrFields /\ pr'.now = pr.now + 1 /\ pr'.comments = all \union {w}
    BY <1>1, <1>5 DEF Answers!Posted, PrFields
  <2>2. WordFields \subseteq DOMAIN run.todo[1]
    <3>1. run.todo # <<>> /\ run.todo \in Seq(Elements(run.todo)) BY <1>1, <1>2 DEF ListSound
    <3>2. 1 \in DOMAIN run.todo BY <3>1
    <3> QED BY <1>1, <3>2 DEF ListSound
  <2>3. /\ WordFields \subseteq DOMAIN w /\ w.id = Answers!Newest(all) + 1 /\ w.at = pr.now + 1
        /\ w.by = "run" /\ w.author = Me /\ w.source = run.todo[1].id
    BY <2>2 DEF Answers!Disposition, WordFields
  <2>4. NewWord(all, w)
    <3> HIDE DEF w, all
    <3>1. w.at \in Nat BY <1>1, <2>3
    <3> QED BY <2>3, <3>1 DEF NewWord
  <2>5. /\ RunFields \subseteq DOMAIN q2
        /\ \/ q2.phase = "item" /\ q2.todo = Tail(q.todo) /\ q2.known = q.known \union {Answers!Newest(all) + 1}
           \/ q2.phase = "recover" /\ q2.todo = q.todo /\ q2.known = q.known
    <3>1. CASE Answers!NextItem([run EXCEPT !.known = @ \union {Answers!Newest(pr.comments) + 1}])
      BY <1>1, <3>1 DEF Answers!NextItem, RunFields
    <3>2. CASE Answers!On("recover")
      BY <1>1, <3>2 DEF Answers!On, RunFields
    <3> QED BY <1>3, <3>1, <3>2
  <2> HIDE DEF w, all, q, q2
  <2>6. HasAnswered(all, q, w, q2)
    BY <1>2, <2>3, <2>4, <2>5 DEF HasAnswered, q
  <2>7. /\ WordsSound(all \union {w}) /\ ListSound(q2) /\ AnsweredSound(all \union {w}, q2)
        /\ OneEach(all \union {w}) /\ KnownSound(all \union {w}, q2)
    BY <1>1, <2>6, AnswerKeeps DEF q
  <2>8. pr'.now \in Nat BY <1>1, <2>1
  <2> QED BY <1>1, <1>2, <2>1, <2>5, <2>7, <2>8 DEF AnswersInv, q2
<1> QED BY <1>2, <1>3, <1>4, <1>5

-----------------------------------------------------------------------------
(* Answers: what others do.                                                *)

\* The comments of the run are as before, and none is gone.
SameAnswers(all, all2) ==
  /\ \A d \in all2 : d.by = "run" =>
       \E c \in all : c.id = d.id /\ c.by = "run" /\ c.source = d.source /\ c.author = d.author
  /\ \A c \in all : \E d \in all2 : d.id = c.id

LEMMA OthersKeepAnswers ==
  ASSUME NEW all, NEW all2, NEW q, NEW q2, AnsweredSound(all, q), OneEach(all), KnownSound(all, q), ListSound(q),
         WordsSound(all2), SameAnswers(all, all2),
         q2.phase = q.phase, q2.todo = q.todo, q2.known = q.known
  PROVE  ListSound(q2) /\ AnsweredSound(all2, q2) /\ OneEach(all2) /\ KnownSound(all2, q2)
<1>1. ListSound(q2)
  BY DEF ListSound
<1>2. AnsweredSound(all2, q2)
  <2> SUFFICES ASSUME NEW d \in all2, d.by = "run"
               PROVE  /\ q2.phase \notin Early
                      /\ \A i \in DOMAIN q2.todo : d.source = q2.todo[i].id =>
                           i = 1 /\ q2.phase = "recover" /\ d.author = Me /\ d.id \notin q2.known
    BY DEF AnsweredSound
  <2>1. PICK c \in all : c.id = d.id /\ c.by = "run" /\ c.source = d.source /\ c.author = d.author
    BY DEF SameAnswers
  <2> QED BY <2>1 DEF AnsweredSound
<1>3. OneEach(all2)
  <2> SUFFICES ASSUME NEW d \in all2, NEW e \in all2, d.by = "run", e.by = "run", d.source = e.source PROVE d = e
    BY DEF OneEach
  <2>1. PICK c \in all : c.id = d.id /\ c.by = "run" /\ c.source = d.source
    BY DEF SameAnswers
  <2>2. PICK b \in all : b.id = e.id /\ b.by = "run" /\ b.source = e.source
    BY DEF SameAnswers
  <2>3. c = b BY <2>1, <2>2 DEF OneEach
  <2> QED BY <2>1, <2>2, <2>3 DEF WordsSound
<1>4. KnownSound(all2, q2)
  <2> SUFFICES ASSUME NEW k \in q2.known PROVE k \in Nat /\ \E d \in all2 : k <= d.id
    BY DEF KnownSound
  <2>1. k \in Nat /\ \E c \in all : k <= c.id
    BY DEF KnownSound
  <2>2. PICK c \in all : k <= c.id
    BY <2>1
  <2>3. PICK d \in all2 : d.id = c.id
    BY DEF SameAnswers
  <2> QED BY <2>1, <2>2, <2>3
<1> QED BY <1>1, <1>2, <1>3, <1>4

\* Somebody changes a comment.
WithEdit(all, id, to) == {IF c.id = id THEN Answers!Edited(c, to) ELSE c : c \in all}

LEMMA EditKeeps ==
  ASSUME NEW all, WordsSound(all), NEW id, NEW to,
         {"id", "author", "at", "by", "source"} \intersect DOMAIN to = {}
  PROVE  WordsSound(WithEdit(all, id, to)) /\ SameAnswers(all, WithEdit(all, id, to))
<1> DEFINE all2 == WithEdit(all, id, to)
           f == [c \in all |-> IF c.id = id THEN Answers!Edited(c, to) ELSE c]
<1>1. ASSUME NEW c \in all
      PROVE  /\ f[c].id = c.id /\ f[c].by = c.by /\ f[c].source = c.source /\ f[c].author = c.author /\ f[c].at = c.at
             /\ WordFields \subseteq DOMAIN f[c]
  <2> DEFINE e == Answers!Edited(c, to)
  <2>1. WordFields \subseteq DOMAIN c BY DEF WordsSound
  <2>2. DOMAIN e = DOMAIN c BY DEF Answers!Edited
  <2>3. \A field \in {"id", "author", "at", "by", "source"} : e[field] = c[field]
    <3>1. \A field \in {"id", "author", "at", "by", "source"} : field \in DOMAIN c /\ field # "edited" /\ field \notin DOMAIN to
      BY <2>1 DEF WordFields
    <3> QED BY <3>1 DEF Answers!Edited
  <2> HIDE DEF e
  <2>4. e.id = c.id /\ e.by = c.by /\ e.source = c.source /\ e.author = c.author /\ e.at = c.at
    BY <2>3
  <2>5. f[c] = e \/ f[c] = c BY DEF e
  <2> HIDE DEF f
  <2> QED BY <2>1, <2>2, <2>4, <2>5
<1>2. all2 = {f[c] : c \in all} /\ DOMAIN f = all
  BY DEF WithEdit
<1> HIDE DEF f, all2
<1>3. IsFiniteSet(all2)
  <2>1. f \in Surjection(all, all2)
    <3>1. f \in [all -> all2]
      <4>1. f = [c \in all |-> f[c]] BY <1>2 DEF f
      <4> QED BY <1>2, <4>1
    <3> QED BY <1>2, <3>1 DEF Surjection
  <2> QED BY <2>1, FS_Surjection DEF WordsSound
<1>4. WordsSound(all2)
  <2>1. \A c \in all : c.id \in Nat /\ c.at \in Nat BY DEF WordsSound
  <2>2. \A c, d \in all : c.id = d.id => c = d BY DEF WordsSound
  <2>3. \A c, d \in all2 : c.id = d.id => c = d
    BY <1>1, <1>2, <2>2
  <2>4. \A c \in all2 : WordFields \subseteq DOMAIN c /\ c.id \in Nat /\ c.at \in Nat
    BY <1>1, <1>2, <2>1
  <2> QED BY <1>3, <2>3, <2>4 DEF WordsSound
<1>5. SameAnswers(all, all2)
  <2>1. \A d \in all2 : \E c \in all : c.id = d.id /\ c.by = d.by /\ c.source = d.source /\ c.author = d.author
    BY <1>1, <1>2
  <2>2. \A c \in all : f[c] \in all2 /\ f[c].id = c.id
    BY <1>1, <1>2
  <2> QED BY <2>1, <2>2 DEF SameAnswers
<1> QED BY <1>4, <1>5 DEF all2

LEMMA MoveKeeps ==
  ASSUME AnswersInv, Answers!Move
  PROVE  AnswersInv'
<1> DEFINE all == pr.comments
           all2 == pr'.comments
<1>1. /\ RunFields \subseteq DOMAIN run /\ DOMAIN pr = PrFields /\ ListSound(run) /\ pr.now \in Nat
      /\ WordsSound(all) /\ AnsweredSound(all, run) /\ OneEach(all) /\ KnownSound(all, run) /\ MovesSound(moves)
  BY DEF AnswersInv
<1>2. PICK move \in moves : /\ Answers!Do(move) /\ moves' = moves \ {move}
                            /\ run' \in {run, [run EXCEPT !.calm = FALSE]}
  BY DEF Answers!Move
<1>3. MovesSound(moves')
  BY <1>1, <1>2 DEF MovesSound
<1>4. /\ RunFields \subseteq DOMAIN run' /\ run'.phase = run.phase /\ run'.todo = run.todo /\ run'.known = run.known
  BY <1>1, <1>2 DEF RunFields
<1>5. move.do \in {"claim", "link", "push", "edit", "say", "reply"}
  BY <1>1, <1>2 DEF MovesSound
<1>6. DOMAIN pr' = PrFields /\ pr'.now \in Nat /\ WordsSound(all2) /\ SameAnswers(all, all2)
  <2>1. ASSUME pr'.comments = pr.comments PROVE WordsSound(all2) /\ SameAnswers(all, all2)
    BY <1>1, <2>1 DEF SameAnswers
  <2>2. CASE move.do = "claim"
    <3>1. pr' = pr BY <1>2, <2>2 DEF Answers!Do
    <3> QED BY <1>1, <2>1, <3>1
  <2>3. CASE move.do = "link"
    <3>1. pr' = [pr EXCEPT !.closing = TRUE] BY <1>2, <2>3 DEF Answers!Do
    <3>2. DOMAIN pr' = PrFields /\ pr'.now = pr.now /\ pr'.comments = pr.comments
      BY <1>1, <3>1 DEF PrFields
    <3> QED BY <1>1, <2>1, <3>2
  <2>4. CASE move.do = "push"
    <3>1. pr' = [pr EXCEPT !.head = @ + 1] BY <1>2, <2>4 DEF Answers!Do
    <3>2. DOMAIN pr' = PrFields /\ pr'.now = pr.now /\ pr'.comments = pr.comments
      BY <1>1, <3>1 DEF PrFields
    <3> QED BY <1>1, <2>1, <3>2
  <2>5. CASE move.do = "reply"
    <3>1. pr' = [pr EXCEPT !.now = @ + 1,
                           !.threads = {[t EXCEPT !.comments =
                                           Append(@, [move.comment EXCEPT !.at = pr.now + 1, !.edited = pr.now + 1])] : t \in @}]
      BY <1>2, <2>5 DEF Answers!Do
    <3>2. DOMAIN pr' = PrFields /\ pr'.now = pr.now + 1 /\ pr'.comments = pr.comments
      BY <1>1, <3>1 DEF PrFields
    <3> QED BY <1>1, <2>1, <3>2
  <2>6. CASE move.do = "edit"
    <3>1. pr' = [pr EXCEPT !.now = @ + 1,
                           !.comments = {IF c.id = move.id THEN Answers!Edited(c, move.to) ELSE c : c \in @}]
      BY <1>2, <2>6 DEF Answers!Do
    <3>2. /\ DOMAIN pr' = PrFields /\ pr'.now = pr.now + 1
          /\ all2 = WithEdit(all, move.id, move.to)
      BY <1>1, <3>1 DEF PrFields, WithEdit
    <3>3. {"id", "author", "at", "by", "source"} \intersect DOMAIN move.to = {}
      BY <1>1, <1>2, <2>6 DEF MovesSound
    <3> HIDE DEF all, all2
    <3>4. WordsSound(all2) /\ SameAnswers(all, all2)
      BY <1>1, <3>2, <3>3, EditKeeps
    <3> QED BY <1>1, <3>2, <3>4
  <2>7. CASE move.do = "say"
    <3> DEFINE w == [move.comment EXCEPT !.id = Answers!Newest(pr.comments) + 1,
                                         !.at = pr.now + 1, !.edited = pr.now + 1]
    <3>1. pr' = [pr EXCEPT !.now = @ + 1, !.comments = @ \union {w}]
      BY <1>2, <2>7 DEF Answers!Do
    <3>2. WordFields \subseteq DOMAIN move.comment /\ move.comment.by # "run"
      BY <1>1, <1>2, <2>7 DEF MovesSound
    <3>3. WordFields \subseteq DOMAIN w /\ w.id = Answers!Newest(all) + 1 /\ w.at = pr.now + 1 /\ w.by # "run"
      BY <3>2 DEF WordFields
    <3> HIDE DEF w
    <3>4. DOMAIN pr' = PrFields /\ pr'.now = pr.now + 1 /\ all2 = all \union {w}
      BY <1>1, <3>1 DEF PrFields
    <3> HIDE DEF all, all2
    <3>5. NewWord(all, w)
      <4>1. w.at \in Nat BY <1>1, <3>3
      <4> QED BY <3>3, <4>1 DEF NewWord
    <3>6. WordsSound(all2)
      BY <1>1, <3>4, <3>5, NewWordSound
    <3>7. SameAnswers(all, all2)
      BY <3>3, <3>4 DEF SameAnswers
    <3> QED BY <1>1, <3>4, <3>6, <3>7
  <2> QED BY <1>5, <2>2, <2>3, <2>4, <2>5, <2>6, <2>7
<1> HIDE DEF all, all2
<1>7. ListSound(run') /\ AnsweredSound(all2, run') /\ OneEach(all2) /\ KnownSound(all2, run')
  BY <1>1, <1>4, <1>6, OthersKeepAnswers
<1> QED BY <1>3, <1>4, <1>6, <1>7 DEF AnswersInv, all2

-----------------------------------------------------------------------------
(* Answers: the theorems.                                                  *)

LEMMA AnswersStep == AnswersInv /\ Answers!Next => AnswersInv'
<1> SUFFICES ASSUME AnswersInv, Answers!Next PROVE AnswersInv'
  OBVIOUS
<1>1. CASE \/ Answers!ReadFails \/ Answers!Begin \/ Answers!CheckClaim \/ Answers!ReadHead \/ Answers!CheckItem
           \/ Answers!Finish \/ Answers!Admit \/ Answers!FindThread \/ Answers!CheckBefore \/ Answers!CheckAgain
  BY <1>1, QuietSteps
<1>2. CASE Answers!Reply \/ Answers!ReplyFails \/ Answers!Resolve \/ Answers!ResolveFails
  BY <1>2, ThreadSteps
<1>3. CASE Answers!ReadComments
  BY <1>3, ReadCommentsKeeps
<1>4. CASE Answers!ReadKnown
  BY <1>4, ReadKnownKeeps
<1>5. CASE Answers!ReadBody \/ Answers!ReadFreshHead
  BY <1>5, ReviewReadKeeps
<1>6. CASE Answers!Recover
  BY <1>6, RecoverKeeps
<1>7. CASE Answers!Post \/ Answers!PostFails
  BY <1>7, PostKeeps
<1>8. CASE Answers!Move
  BY <1>8, MoveKeeps
<1> QED BY <1>1, <1>2, <1>3, <1>4, <1>5, <1>6, <1>7, <1>8 DEF Answers!Next, Answers!CommandStep

LEMMA AnswersRest == AnswersInv /\ UNCHANGED <<pr, moves, run>> => AnswersInv'
BY DEF AnswersInv

\* However often a request fails, and whatever bots and people say and change meanwhile, a
\* comment gets one answer from a run (applyDispositionPlan, recoverPostedDisposition).
THEOREM AnsweredOnceAlways == Answers!Spec => []Answers!AnsweredOnce
<1>1. AnswersInv /\ [Answers!Next]_(Answers!vars) => AnswersInv'
  BY AnswersStep, AnswersRest DEF Answers!vars, Answers!world
<1>2. AnswersInv => Answers!AnsweredOnce
  BY DEF AnswersInv, OneEach, Answers!AnsweredOnce
<1> QED BY AnswersStart, <1>1, <1>2, PTL DEF Answers!Spec

\* In a behaviour of a run that answers, the invariant of its own.
LEMMA AnswersInUpkeep == Spec => [](subject = "answers" => AnswersInv)
<1> DEFINE I == subject = "answers" => AnswersInv
<1>1. Init => I
  BY AnswersStart
     DEF Init, MarkerInit, AuditInit, WaiverInit, CleanupInit, AnswersInit, OutageInit
<1>2. I /\ [NextAudit \/ NextWaiver \/ NextMarkers \/ NextCleanup \/ NextAnswers \/ NextOutage]_allVars => I'
  <2> SUFFICES ASSUME I, [NextAudit \/ NextWaiver \/ NextMarkers \/ NextCleanup \/ NextAnswers \/ NextOutage]_allVars,
                      subject' = "answers"
               PROVE  AnswersInv'
    OBVIOUS
  <2>1. CASE NextAnswers
    BY <2>1, AnswersStep DEF NextAnswers
  <2>2. CASE UNCHANGED allVars
    BY <2>2, AnswersRest DEF allVars
  <2>3. CASE NextAudit \/ NextWaiver \/ NextCleanup \/ NextMarkers \/ NextOutage
    BY <2>3 DEF NextAudit, NextWaiver, NextCleanup, NextMarkers, NextOutage
  <2> QED BY <2>1, <2>2, <2>3
<1> QED BY <1>1, <1>2, PTL DEF Spec

\* A request that failed is not repeated if it was carried out, whether it posts a marker or
\* answers a reviewer (postWorkItemCommentWithRetry, recoverPostedDisposition).
THEOREM PostedOnceAlways == Spec => []PostedOnce
<1>1. (subject = "markers" => MarkersInv) /\ (subject = "answers" => AnswersInv) => PostedOnce
  <2>1. AnswersInv => Answers!AnsweredOnce
    BY DEF AnswersInv, OneEach, Answers!AnsweredOnce
  <2> QED BY <2>1, MarkersPostedOnce DEF PostedOnce
<1> QED BY <1>1, MarkersInUpkeep, AnswersInUpkeep, PTL
=============================================================================
