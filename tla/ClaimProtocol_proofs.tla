------------------------ MODULE ClaimProtocol_proofs ------------------------
(***************************************************************************)
(* Proofs about ClaimProtocol, for any sessions, ids and bounds.            *)
(*                                                                         *)
(* The comments are read by recursive functions; the first part says what  *)
(* they compute, comment by comment.  The sorting is no order (ClaimLog),  *)
(* so all it is known to do is to put a comment behind those of earlier    *)
(* seconds and leave the others as they were.                              *)
(*                                                                         *)
(* A session that verified its claim after the settle delay has seen every *)
(* comment of the claim's second, so that its claim is rooted: the place   *)
(* where it became active is one that no later comment gets before.  From  *)
(* there on its beats leave no gap of StaleAge in which another claim      *)
(* could take over.                                                        *)
(***************************************************************************)
EXTENDS ClaimProtocol, FiniteSetTheorems, SequenceTheorems, WellFoundedInduction, TLAPS

-----------------------------------------------------------------------------
(* Reading comments from the first to the last: what the recursive          *)
(* definitions of ClaimLog compute, step by step.                          *)

\* A set of numbers that is not empty has a least element.
LEMMA LeastNatural ==
  ASSUME NEW T, T \subseteq Nat, T # {}
  PROVE  \E x \in T : \A y \in T : x <= y
<1> DEFINE C == {0..x : x \in T}
<1>1. C \subseteq FiniteSubsetsOf(Nat) /\ C # {}
  <2>1. ASSUME NEW x \in T PROVE 0..x \in FiniteSubsetsOf(Nat)
    <3>1. x \in Nat OBVIOUS
    <3>2. IsFiniteSet(0..x) BY <3>1, FS_Interval
    <3>3. 0..x \subseteq Nat BY <3>1
    <3>4. QED BY <3>2, <3>3 DEF FiniteSubsetsOf
  <2>2. QED BY <2>1
<1>2. PICK c \in C : \A d \in C : ~ (<<d, c>> \in StrictSubsetOrdering(Nat))
  BY <1>1, FS_StrictSubsetOrderingWellFounded, WFMin
<1>3. PICK x \in T : c = 0..x
  OBVIOUS
<1>4. ASSUME NEW y \in T, ~ (x <= y) PROVE FALSE
  <2>1. x \in Nat /\ y \in Nat /\ y < x BY <1>4
  <2>2. 0..y \in C OBVIOUS
  <2>3. 0..y \subseteq 0..x /\ x \in 0..x /\ x \notin 0..y BY <2>1
  <2>4. 0..y # 0..x BY <2>3
  <2>5. 0..y \in SUBSET Nat /\ 0..x \in SUBSET Nat BY <2>1
  <2>6. <<0..y, 0..x>> \in StrictSubsetOrdering(Nat) BY <2>3, <2>4, <2>5 DEF StrictSubsetOrdering
  <2>7. QED BY <1>2, <1>3, <2>2, <2>6
<1>5. QED BY <1>4

(* A fold is what its recursion says: a function of the comments read so far. *)
Solves(f, l, S, T, start, step) ==
    /\ f \in [0 .. Len(l) -> S]
    /\ f[0] = start
    /\ \A n \in 1 .. Len(l) : f[n] = step[<<f[n - 1], l[n]>>]

\* A recursion over the comments of a log has a solution.
LEMMA Recursion ==
  ASSUME NEW T, NEW log0 \in Seq(T), NEW S, NEW start \in S, NEW step \in [S \X T -> S]
  PROVE  \E f : Solves(f, log0, S, T, start, step)
<1> DEFINE P(k) == \E f \in [0 .. k -> S] :
                      f[0] = start /\ \A n \in 1 .. k : f[n] = step[<<f[n - 1], log0[n]>>]
           Bad == {k \in 0 .. Len(log0) : ~P(k)}
<1>0. Len(log0) \in Nat /\ \A n \in 1 .. Len(log0) : log0[n] \in T
  OBVIOUS
<1>1. P(0)
  <2> WITNESS [n \in 0 .. 0 |-> start] \in [0 .. 0 -> S]
  <2> QED  OBVIOUS
<1>2. ASSUME NEW k \in Nat, k < Len(log0), P(k) PROVE P(k + 1)
  <2>1. PICK f \in [0 .. k -> S] : f[0] = start /\ \A n \in 1 .. k : f[n] = step[<<f[n - 1], log0[n]>>]
    BY <1>2
  <2> DEFINE v == step[<<f[k], log0[k + 1]>>]
  <2>2. v \in S
    <3>1. f[k] \in S /\ log0[k + 1] \in T  BY <1>2, <2>1, <1>0
    <3> QED  BY <3>1
  <2> HIDE DEF v
  <2> DEFINE g == [n \in 0 .. k + 1 |-> IF n = k + 1 THEN v ELSE f[n]]
  <2>3. g \in [0 .. k + 1 -> S]  BY <2>2, <2>1
  <2>4. g[0] = start  BY <2>1
  <2>5. ASSUME NEW n \in 1 .. k + 1 PROVE g[n] = step[<<g[n - 1], log0[n]>>]
    <3>1. CASE n = k + 1
      <4>1. g[n] = v /\ g[n - 1] = f[k]  BY <3>1, <1>2
      <4> QED  BY <4>1, <3>1 DEF v
    <3>2. CASE n # k + 1
      <4>1. n \in 1 .. k /\ g[n] = f[n] /\ g[n - 1] = f[n - 1]  BY <3>2
      <4> QED  BY <4>1, <2>1
    <3> QED  BY <3>1, <3>2
  <2> HIDE DEF g
  <2> QED  BY <2>3, <2>4, <2>5
<1> HIDE DEF P
<1>3. P(Len(log0))
  <2> SUFFICES ASSUME Bad # {} PROVE FALSE
    BY <1>0
  <2>1. Bad \subseteq Nat
    OBVIOUS
  <2>2. PICK k \in Bad : \A j \in Bad : k <= j
    BY <2>1, LeastNatural
  <2>3. k # 0 /\ k \in 0 .. Len(log0)
    BY <1>1
  <2>4. k - 1 \in 0 .. Len(log0) /\ k - 1 \notin Bad /\ k - 1 < Len(log0) /\ k - 1 \in Nat
    BY <2>2, <2>3, <1>0
  <2>5. P(k - 1 + 1)
    BY <2>4, <1>2
  <2>6. k - 1 + 1 = k
    BY <2>3
  <2> QED  BY <2>5, <2>6
<1> QED  BY <1>3 DEF P, Solves

\* One more comment is one more step.
LEMMA OneMore ==
  ASSUME NEW S, NEW T, NEW start, NEW step, NEW l \in Seq(T), NEW e \in T, NEW f, NEW g,
         Solves(f, l, S, T, start, step), Solves(g, Append(l, e), S, T, start, step)
  PROVE  g[Len(Append(l, e))] = step[<<f[Len(l)], e>>]
<1> DEFINE k == Len(l)
           l2 == Append(l, e)
           Bad == {n \in 0 .. k : f[n] # g[n]}
<1>1. k \in Nat /\ Len(l2) = k + 1 /\ l2[k + 1] = e /\ (\A n \in 1 .. k : l[n] = l2[n])
  OBVIOUS
<1>2. f[0] = g[0]
  BY DEF Solves
<1>3. \A n \in 1 .. k : f[n] = step[<<f[n - 1], l[n]>>]
  BY DEF Solves
<1>4. \A n \in 1 .. k + 1 : g[n] = step[<<g[n - 1], l2[n]>>]
  BY <1>1 DEF Solves
<1> HIDE DEF k, l2
<1>5. Bad = {}
  <2> SUFFICES ASSUME Bad # {} PROVE FALSE
    OBVIOUS
  <2>1. Bad \subseteq Nat
    BY <1>1
  <2>2. PICK n \in Bad : \A j \in Bad : n <= j
    BY <2>1, LeastNatural
  <2>3. n # 0 /\ n \in 1 .. k /\ n \in 1 .. k + 1
    BY <1>1, <1>2
  <2>4. n - 1 \in 0 .. k /\ n - 1 \notin Bad
    BY <2>2, <2>3, <1>1
  <2>5. f[n] = step[<<f[n - 1], l[n]>>] /\ g[n] = step[<<g[n - 1], l2[n]>>] /\ l[n] = l2[n]
    BY <2>3, <1>1, <1>3, <1>4
  <2> QED  BY <2>4, <2>5
<1>6. f[k] = g[k]
  BY <1>1, <1>5
<1>7. g[k + 1] = step[<<g[k + 1 - 1], l2[k + 1]>>] /\ k + 1 - 1 = k
  BY <1>1, <1>4
<1> QED  BY <1>1, <1>6, <1>7 DEF k, l2

\* What solves the recursion step by step as long as it stays in range solves it.
LEMMA StaysInRange ==
  ASSUME NEW S, NEW T, NEW start \in S, NEW step \in [S \X T -> S], NEW l \in Seq(T), NEW f,
         f = [n \in 0 .. Len(l) |-> f[n]], f[0] = start,
         \A n \in 1 .. Len(l) : f[n - 1] \in S => f[n] = step[<<f[n - 1], l[n]>>]
  PROVE  Solves(f, l, S, T, start, step)
<1> DEFINE Bad == {n \in 0 .. Len(l) : f[n] \notin S}
<1>0. Len(l) \in Nat /\ \A n \in 1 .. Len(l) : l[n] \in T
  OBVIOUS
<1>1. Bad = {}
  <2> SUFFICES ASSUME Bad # {} PROVE FALSE
    OBVIOUS
  <2>1. Bad \subseteq Nat
    BY <1>0
  <2>2. PICK n \in Bad : \A j \in Bad : n <= j
    BY <2>1, LeastNatural
  <2>3. n # 0 /\ n \in 1 .. Len(l)
    BY <1>0
  <2>4. n - 1 \in 0 .. Len(l) /\ n - 1 \notin Bad
    BY <2>2, <2>3, <1>0
  <2>5. f[n - 1] \in S /\ l[n] \in T
    BY <2>3, <2>4, <1>0
  <2> QED  BY <2>3, <2>5
<1>2. \A n \in 0 .. Len(l) : f[n] \in S
  BY <1>1
<1>3. f \in [0 .. Len(l) -> S]
  BY <1>2
<1>4. \A n \in 1 .. Len(l) : f[n - 1] \in S
  BY <1>0, <1>2
<1> QED  BY <1>3, <1>4 DEF Solves

(* Binary insertion ends where it may: behind every comment that the new   *)
(* one does not precede.                                                   *)
LEMMA InsertionPointIsAfter ==
  ASSUME NEW T, NEW seq \in Seq(T), NEW e, NEW q \in 0 .. Len(seq),
         \A i \in 1 .. q : ~Precedes(e, seq[i])
  PROVE  InsertionPoint(seq, e) \in q + 1 .. Len(seq) + 1
<1> DEFINE N == Len(seq)
           B == (0 .. N) \X (0 .. N)
           Before(j) == Precedes(e, seq[j])
           Rhs(g, b) == IF b[1] >= b[2] THEN b[1]
                        ELSE IF Before((b[1] + b[2]) \div 2 + 1) THEN g[<<b[1], (b[1] + b[2]) \div 2>>]
                        ELSE g[<<(b[1] + b[2]) \div 2 + 1, b[2]>>]
           Eq(g) == g = [b \in B |-> Rhs(g, b)]
           f == CHOOSE g : Eq(g)
           P(k) == \E g \in [B -> 0 .. N] : \A b \in B : b[2] - b[1] <= k => g[b] = Rhs(g, b)
<1>0. N \in Nat /\ (\A i \in 1 .. q : ~Before(i))
  OBVIOUS
<1>1. InsertionPoint(seq, e) = f[<<0, N>>] + 1
  BY DEF InsertionPoint
<1> HIDE DEF Before
<1>2. ASSUME NEW b \in B, b[1] < b[2]
      PROVE  /\ (b[1] + b[2]) \div 2 \in Nat
             /\ b[1] <= (b[1] + b[2]) \div 2 /\ (b[1] + b[2]) \div 2 < b[2]
             /\ <<b[1], (b[1] + b[2]) \div 2>> \in B
             /\ <<(b[1] + b[2]) \div 2 + 1, b[2]>> \in B
  <2> DEFINE m == (b[1] + b[2]) \div 2
  <2>1. b[1] \in 0 .. N /\ b[2] \in 0 .. N
    OBVIOUS
  <2>2. m \in Nat /\ b[1] <= m /\ m < b[2]
    BY <2>1, <1>2, <1>0
  <2> HIDE DEF m
  <2>3. <<b[1], m>> \in B /\ <<m + 1, b[2]>> \in B
    BY <2>1, <2>2, <1>0
  <2> QED  BY <2>2, <2>3 DEF m
<1>3. P(0)
  <2> DEFINE g == [b \in B |-> b[1]]
  <2>1. g \in [B -> 0 .. N]
    OBVIOUS
  <2>2. ASSUME NEW b \in B, b[2] - b[1] <= 0 PROVE g[b] = Rhs(g, b)
    <3>1. b[1] >= b[2]
      BY <2>2, <1>0
    <3> QED  BY <3>1
  <2> HIDE DEF g
  <2> QED  BY <2>1, <2>2
<1>4. ASSUME NEW k \in Nat, P(k) PROVE P(k + 1)
  <2>1. PICK g \in [B -> 0 .. N] : \A b \in B : b[2] - b[1] <= k => g[b] = Rhs(g, b)
    BY <1>4
  <2> DEFINE h == [b \in B |-> IF b[2] - b[1] = k + 1 THEN Rhs(g, b) ELSE g[b]]
  <2>2. ASSUME NEW b \in B, b[1] < b[2] PROVE Rhs(g, b) \in 0 .. N
    BY <2>2, <1>2, <2>1
  <2>3. h \in [B -> 0 .. N]
    <3>1. ASSUME NEW b \in B, b[2] - b[1] = k + 1 PROVE Rhs(g, b) \in 0 .. N
      <4>1. b[1] < b[2]  BY <3>1, <1>0
      <4> QED  BY <4>1, <2>2
    <3> HIDE DEF Rhs
    <3> QED  BY <3>1, <2>1
  <2>4. ASSUME NEW b \in B, b[2] - b[1] <= k + 1 PROVE h[b] = Rhs(h, b)
    <3>1. CASE b[1] >= b[2]
      <4>1. b[2] - b[1] <= k /\ b[2] - b[1] # k + 1
        BY <3>1, <1>0
      <4>2. h[b] = g[b] /\ g[b] = Rhs(g, b)
        BY <4>1, <2>1
      <4> QED  BY <4>2, <3>1
    <3>2. CASE b[1] < b[2]
      <4> DEFINE m == (b[1] + b[2]) \div 2
      <4>1. /\ m \in Nat /\ b[1] <= m /\ m < b[2] /\ <<b[1], m>> \in B /\ <<m + 1, b[2]>> \in B
        BY <3>2, <1>2
      <4>2. Rhs(g, b) = IF Before(m + 1) THEN g[<<b[1], m>>] ELSE g[<<m + 1, b[2]>>]
        BY <3>2
      <4>3. Rhs(h, b) = IF Before(m + 1) THEN h[<<b[1], m>>] ELSE h[<<m + 1, b[2]>>]
        BY <3>2
      <4>4. h[b] = Rhs(g, b)
        <5>1. CASE b[2] - b[1] = k + 1  BY <5>1
        <5>2. CASE b[2] - b[1] # k + 1
          <6>1. b[2] - b[1] <= k  BY <5>2, <2>4, <1>0
          <6> QED  BY <6>1, <5>2, <2>1
        <5> QED  BY <5>1, <5>2
      <4> HIDE DEF m, Rhs
      <4>5. m - b[1] # k + 1 /\ b[2] - (m + 1) # k + 1
        BY <4>1, <2>4, <1>0
      <4>6. h[<<b[1], m>>] = g[<<b[1], m>>] /\ h[<<m + 1, b[2]>>] = g[<<m + 1, b[2]>>]
        BY <4>1, <4>5
      <4> QED  BY <4>2, <4>3, <4>4, <4>6
    <3> QED  BY <3>1, <3>2, <1>0
  <2> HIDE DEF h
  <2> QED  BY <2>3, <2>4
<1> HIDE DEF P
<1>5. P(N)
  <2> DEFINE Bad == {k \in Nat : ~P(k)}
  <2> SUFFICES ASSUME Bad # {} PROVE FALSE
    BY <1>0
  <2>1. PICK k \in Bad : \A j \in Bad : k <= j
    BY LeastNatural
  <2>2. k # 0 /\ k - 1 \in Nat /\ k - 1 \notin Bad /\ k - 1 + 1 = k
    BY <2>1, <1>3
  <2> QED  BY <2>2, <1>4
<1>6. PICK g \in [B -> 0 .. N] : \A b \in B : b[2] - b[1] <= N => g[b] = Rhs(g, b)
  BY <1>5 DEF P
<1>7. Eq(f)
  <2>1. \A b \in B : b[2] - b[1] <= N
    BY <1>0
  <2>2. \A b \in B : g[b] = Rhs(g, b)
    BY <1>6, <2>1
  <2> HIDE DEF Rhs
  <2>3. Eq(g)
    BY <1>6, <2>2
  <2> QED  BY <2>3
<1>8. \A b \in B : f[b] = Rhs(f, b)
  <2> HIDE DEF Rhs, f
  <2> QED  BY <1>7
<1> HIDE DEF f
<1> DEFINE Ends(b) == f[b] \in q .. N
           Bad == {k \in Nat : \E b \in B : b[1] <= b[2] /\ q <= b[2] /\ b[2] - b[1] = k /\ ~Ends(b)}
<1>9. Bad = {}
  <2> SUFFICES ASSUME Bad # {} PROVE FALSE
    OBVIOUS
  <2>1. PICK k \in Bad : \A j \in Bad : k <= j
    BY LeastNatural
  <2>2. PICK b \in B : b[1] <= b[2] /\ q <= b[2] /\ b[2] - b[1] = k /\ ~Ends(b)
    OBVIOUS
  <2>3. CASE b[1] >= b[2]
    <3>1. f[b] = b[1]
      BY <1>8, <2>3
    <3> QED  BY <3>1, <2>2, <2>3, <1>0
  <2>4. CASE b[1] < b[2]
    <3> DEFINE m == (b[1] + b[2]) \div 2
    <3>1. /\ m \in Nat /\ b[1] <= m /\ m < b[2] /\ <<b[1], m>> \in B /\ <<m + 1, b[2]>> \in B
      BY <2>4, <1>2
    <3>2. f[b] = IF Before(m + 1) THEN f[<<b[1], m>>] ELSE f[<<m + 1, b[2]>>]
      <4>1. Rhs(f, b) = IF Before(m + 1) THEN f[<<b[1], m>>] ELSE f[<<m + 1, b[2]>>]
        BY <2>4
      <4> HIDE DEF Rhs, m
      <4> QED  BY <4>1, <1>8
    <3>0. b[1] \in Nat /\ b[2] \in Nat /\ k \in Nat
      OBVIOUS
    <3> HIDE DEF m, Rhs
    <3>3. CASE Before(m + 1)
      <4>1. q <= m
        BY <3>3, <3>1, <1>0
      <4>2. m - b[1] \in Nat /\ m - b[1] < k
        <5> HIDE DEF B, Bad, Ends
        <5> QED  BY <3>0, <3>1, <2>2
      <4>3. m - b[1] \notin Bad
        <5> HIDE DEF B, Bad, Ends
        <5> QED  BY <4>2, <3>0, <2>1
      <4>4. Ends(<<b[1], m>>)
        BY <4>1, <4>2, <4>3, <3>1
      <4> QED  BY <4>4, <3>2, <3>3, <2>2
    <3>4. CASE ~Before(m + 1)
      <4>2. b[2] - (m + 1) \in Nat /\ b[2] - (m + 1) < k /\ m + 1 <= b[2]
        <5> HIDE DEF B, Bad, Ends
        <5> QED  BY <3>0, <3>1, <2>2
      <4>3. b[2] - (m + 1) \notin Bad
        <5> HIDE DEF B, Bad, Ends
        <5> QED  BY <4>2, <3>0, <2>1
      <4>4. Ends(<<m + 1, b[2]>>)
        BY <4>2, <4>3, <3>1, <2>2
      <4> QED  BY <4>4, <3>2, <3>4, <2>2
    <3> QED  BY <3>3, <3>4
  <2> QED  BY <2>3, <2>4, <1>0
<1>10. <<0, N>> \in B /\ N - 0 = N
  BY <1>0
<1>11. Ends(<<0, N>>)
  BY <1>9, <1>10, <1>0
<1> QED  BY <1>1, <1>11, <1>0

(* The three folds of ClaimLog: the trusted comments, ...                  *)
LEMMA TrustedSolved ==
  ASSUME NEW T, NEW l \in Seq(T)
  PROVE  \E f : /\ Trusted(l) = f[Len(l)]
                /\ Solves(f, l, Seq(T), T, <<>>,
                     [p \in Seq(T) \X T |-> IF p[2].trusted THEN Append(p[1], p[2]) ELSE p[1]])
<1> DEFINE A(s, e) == IF e.trusted THEN Append(s, e) ELSE s
           Eq(g) == g = [n \in 0 .. Len(l) |-> IF n = 0 THEN <<>> ELSE A(g[n - 1], l[n])]
           f == CHOOSE g : Eq(g)
           step == [p \in Seq(T) \X T |-> A(p[1], p[2])]
<1>1. Trusted(l) = f[Len(l)]
  BY DEF Trusted, FromFirst
<1>2. \A s \in Seq(T), e \in T : A(s, e) \in Seq(T)
  OBVIOUS
<1>3. <<>> \in Seq(T) /\ Len(l) \in Nat /\ \A n \in 1 .. Len(l) : l[n] \in T
  OBVIOUS
<1> HIDE DEF A
<1>4. step \in [Seq(T) \X T -> Seq(T)] /\ \A s \in Seq(T), e \in T : step[<<s, e>>] = A(s, e)
  BY <1>2
<1> HIDE DEF step
<1>5. PICK g : Solves(g, l, Seq(T), T, <<>>, step)
  BY <1>3, <1>4, Recursion
<1>6. Eq(g)
  <2>1. g = [n \in 0 .. Len(l) |-> g[n]] /\ g[0] = <<>> /\ \A n \in 0 .. Len(l) : g[n] \in Seq(T)
    BY <1>5 DEF Solves
  <2>2. ASSUME NEW n \in 1 .. Len(l) PROVE g[n] = A(g[n - 1], l[n])
    <3>1. g[n - 1] \in Seq(T) /\ l[n] \in T
      BY <1>3, <2>1
    <3>2. g[n] = step[<<g[n - 1], l[n]>>]
      BY <1>5 DEF Solves
    <3> QED  BY <3>1, <3>2, <1>4
  <2>3. ASSUME NEW n \in 0 .. Len(l) PROVE g[n] = IF n = 0 THEN <<>> ELSE A(g[n - 1], l[n])
    <3>1. CASE n = 0  BY <3>1, <2>1
    <3>2. CASE n # 0
      <4>1. n \in 1 .. Len(l)  BY <3>2, <1>3
      <4> QED  BY <4>1, <3>2, <2>2
    <3> QED  BY <3>1, <3>2
  <2> QED  BY <2>1, <2>3
<1>7. Eq(f)
  BY <1>6
<1> HIDE DEF f
<1>8. f = [n \in 0 .. Len(l) |-> f[n]] /\ f[0] = <<>>
  BY <1>7, <1>3
<1>9. ASSUME NEW n \in 1 .. Len(l), f[n - 1] \in Seq(T) PROVE f[n] = step[<<f[n - 1], l[n]>>]
  <2>1. n \in 0 .. Len(l) /\ n # 0 /\ l[n] \in T
    BY <1>3
  <2>2. f[n] = A(f[n - 1], l[n])
    BY <1>7, <2>1
  <2> QED  BY <2>1, <2>2, <1>4, <1>9
<1>10. Solves(f, l, Seq(T), T, <<>>, step)
  BY <1>3, <1>4, <1>8, <1>9, StaysInRange
<1> QED  BY <1>1, <1>10 DEF step, A

\* It is done comment by comment.
LEMMA TrustedSteps ==
  ASSUME NEW T, NEW l \in Seq(T), NEW e \in T
  PROVE  /\ Trusted(<<>>) = <<>>
         /\ Trusted(l) \in Seq(T)
         /\ Trusted(Append(l, e)) = IF e.trusted THEN Append(Trusted(l), e) ELSE Trusted(l)
<1> DEFINE A(s, x) == IF x.trusted THEN Append(s, x) ELSE s
           step == [p \in Seq(T) \X T |-> A(p[1], p[2])]
<1>1. PICK f0 : Trusted(<<>>) = f0[Len(<<>>)] /\ Solves(f0, <<>>, Seq(T), T, <<>>, step)
  <2>1. <<>> \in Seq(T)  OBVIOUS
  <2> QED  BY <2>1, TrustedSolved
<1>2. PICK f : Trusted(l) = f[Len(l)] /\ Solves(f, l, Seq(T), T, <<>>, step)
  BY TrustedSolved
<1>3. PICK g : Trusted(Append(l, e)) = g[Len(Append(l, e))] /\ Solves(g, Append(l, e), Seq(T), T, <<>>, step)
  <2>1. Append(l, e) \in Seq(T)  OBVIOUS
  <2> QED  BY <2>1, TrustedSolved
<1> HIDE DEF A
<1>4. \A s \in Seq(T) : step[<<s, e>>] = A(s, e)
  OBVIOUS
<1> HIDE DEF step
<1>5. Trusted(<<>>) = <<>>
  <2>1. Len(<<>>) = 0  OBVIOUS
  <2> QED  BY <1>1, <2>1 DEF Solves
<1>6. Trusted(l) \in Seq(T)
  <2>1. Len(l) \in 0 .. Len(l)  OBVIOUS
  <2> QED  BY <1>2, <2>1 DEF Solves
<1>7. g[Len(Append(l, e))] = step[<<f[Len(l)], e>>]
  BY <1>2, <1>3, OneMore
<1> QED  BY <1>2, <1>3, <1>4, <1>5, <1>6, <1>7 DEF A

\* What InsertAt does.
LEMMA Inserted ==
  ASSUME NEW T, NEW s \in Seq(T), NEW e \in T, NEW k \in 1 .. Len(s) + 1
  PROVE  /\ InsertAt(s, k, e) \in Seq(T)
         /\ Len(InsertAt(s, k, e)) = Len(s) + 1
         /\ \A i \in 1 .. k - 1 : InsertAt(s, k, e)[i] = s[i]
         /\ InsertAt(s, k, e)[k] = e
         /\ \A i \in k + 1 .. Len(s) + 1 : InsertAt(s, k, e)[i] = s[i - 1]
<1> DEFINE a == SubSeq(s, 1, k - 1)
           b == <<e>>
           c == SubSeq(s, k, Len(s))
<1>1. a \in Seq(T) /\ Len(a) = k - 1 /\ \A i \in 1 .. k - 1 : a[i] = s[i]
  OBVIOUS
<1>2. c \in Seq(T) /\ Len(c) = Len(s) + 1 - k /\ \A i \in 1 .. Len(s) + 1 - k : c[i] = s[k + i - 1]
  OBVIOUS
<1>3. b \in Seq(T) /\ Len(b) = 1 /\ b[1] = e
  OBVIOUS
<1> HIDE DEF a, b, c
<1> DEFINE ab == a \o b
<1>4. ab \in Seq(T) /\ Len(ab) = k /\ (\A i \in 1 .. k - 1 : ab[i] = s[i]) /\ ab[k] = e
  <2>1. ab \in Seq(T)
    BY <1>1, <1>3, ConcatProperties, Zenon
  <2>2. Len(ab) = Len(a) + Len(b)
    BY <1>1, <1>3, ConcatProperties, Zenon
  <2>3. \A i \in 1 .. Len(a) + Len(b) : ab[i] = IF i <= Len(a) THEN a[i] ELSE b[i - Len(a)]
    BY <1>1, <1>3, ConcatProperties, Zenon
  <2> HIDE DEF ab
  <2>4. Len(ab) = k /\ Len(a) = k - 1 /\ Len(b) = 1 /\ k \in Nat
    BY <2>2, <1>1, <1>3
  <2>5. ASSUME NEW i \in 1 .. k - 1 PROVE ab[i] = s[i]
    <3>1. ab[i] = a[i]
      BY <2>3, <2>4
    <3> QED  BY <3>1, <1>1
  <2>6. ab[k] = b[1]
    <3>1. k \in 1 .. Len(a) + Len(b) /\ ~ (k <= Len(a)) /\ k - Len(a) = 1
      BY <2>4
    <3> QED  BY <3>1, <2>3
  <2> QED  BY <2>1, <2>4, <2>5, <2>6, <1>3
<1> HIDE DEF ab
<1> DEFINE r == ab \o c
<1>5. r \in Seq(T) /\ Len(r) = Len(s) + 1
  <2>1. r \in Seq(T) /\ Len(r) = Len(ab) + Len(c)
    BY <1>2, <1>4, ConcatProperties, Zenon
  <2> HIDE DEF r
  <2> QED  BY <2>1, <1>2, <1>4
<1>6. \A i \in 1 .. k : r[i] = ab[i]
  BY <1>2, <1>4, ConcatProperties
<1>7. ASSUME NEW i \in k + 1 .. Len(s) + 1 PROVE r[i] = s[i - 1]
  <2>1. r[i] = c[i - k]
    BY <1>2, <1>4, ConcatProperties
  <2>2. i - k \in 1 .. Len(s) + 1 - k /\ k + (i - k) - 1 = i - 1
    OBVIOUS
  <2> QED  BY <2>1, <2>2, <1>2
<1>8. InsertAt(s, k, e) = r
  BY DEF InsertAt, r, ab, a, b, c
<1> HIDE DEF r
<1>9. /\ r[k] = e
      /\ \A i \in 1 .. k - 1 : r[i] = s[i]
  BY <1>4, <1>6
<1> QED  BY <1>5, <1>7, <1>8, <1>9

\* The sort keeps to the comments it was given.
LEMMA SortStepType ==
  ASSUME NEW T, NEW s \in [seq : Seq(T), run : BOOLEAN], NEW e \in T
  PROVE  /\ SortStep(s, e) \in [seq : Seq(T), run : BOOLEAN]
         /\ \/ SortStep(s, e).seq = Append(s.seq, e)
            \/ SortStep(s, e).seq = InsertAt(s.seq, InsertionPoint(s.seq, e), e)
<1> DEFINE k == InsertionPoint(s.seq, e)
           ins == InsertAt(s.seq, k, e)
<1>1. s.seq \in Seq(T)
  OBVIOUS
<1>2. k \in 1 .. Len(s.seq) + 1
  <2>1. 0 \in 0 .. Len(s.seq) /\ 0 + 1 = 1  BY <1>1
  <2> QED  BY <1>1, <2>1, InsertionPointIsAfter
<1> HIDE DEF k
<1>3. ins \in Seq(T)
  BY <1>1, <1>2, Inserted
<1> HIDE DEF ins
<1>4. Append(s.seq, e) \in Seq(T)
  BY <1>1
<1>5. \/ SortStep(s, e) = [seq |-> Append(s.seq, e), run |-> TRUE]
      \/ SortStep(s, e) = [seq |-> ins, run |-> FALSE]
  BY Zenon DEF SortStep, ins, k
<1> DEFINE r == SortStep(s, e)
           app == Append(s.seq, e)
<1> HIDE DEF app, r
<1>6. r \in [seq : Seq(T), run : BOOLEAN] /\ (r.seq = app \/ r.seq = ins)
  <2>1. app \in Seq(T) /\ (r = [seq |-> app, run |-> TRUE] \/ r = [seq |-> ins, run |-> FALSE])
    BY <1>4, <1>5 DEF app, r
  <2>2. CASE r = [seq |-> app, run |-> TRUE]
    BY <2>1, <2>2
  <2>3. CASE r = [seq |-> ins, run |-> FALSE]
    BY <2>3, <1>3
  <2> QED  BY <2>1, <2>2, <2>3
<1> QED  BY <1>6 DEF ins, k, app, r

\* ... the sorting, ...
LEMMA SortingSolved ==
  ASSUME NEW T, NEW l \in Seq(T)
  PROVE  \E f : /\ Sorting(l) = f[Len(l)]
                /\ Solves(f, l, [seq : Seq(T), run : BOOLEAN], T, [seq |-> <<>>, run |-> TRUE],
                     [p \in [seq : Seq(T), run : BOOLEAN] \X T |-> SortStep(p[1], p[2])])
<1> DEFINE S == [seq : Seq(T), run : BOOLEAN]
           start == [seq |-> <<>>, run |-> TRUE]
           A(s, e) == SortStep(s, e)
           Eq(g) == g = [n \in 0 .. Len(l) |-> IF n = 0 THEN start ELSE A(g[n - 1], l[n])]
           f == CHOOSE g : Eq(g)
           step == [p \in S \X T |-> A(p[1], p[2])]
<1>1. Sorting(l) = f[Len(l)]
  BY DEF Sorting, FromFirst
<1>2. \A s \in S, e \in T : A(s, e) \in S
  BY SortStepType
<1>3. start \in S /\ Len(l) \in Nat /\ \A n \in 1 .. Len(l) : l[n] \in T
  OBVIOUS
<1> HIDE DEF A, S, start
<1>4. step \in [S \X T -> S] /\ \A s \in S, e \in T : step[<<s, e>>] = A(s, e)
  BY <1>2
<1> HIDE DEF step
<1>5. PICK g : Solves(g, l, S, T, start, step)
  BY <1>3, <1>4, Recursion
<1>6. Eq(g)
  <2>1. g = [n \in 0 .. Len(l) |-> g[n]] /\ g[0] = start /\ \A n \in 0 .. Len(l) : g[n] \in S
    BY <1>5 DEF Solves
  <2>2. ASSUME NEW n \in 1 .. Len(l) PROVE g[n] = A(g[n - 1], l[n])
    <3>1. g[n - 1] \in S /\ l[n] \in T
      BY <1>3, <2>1
    <3>2. g[n] = step[<<g[n - 1], l[n]>>]
      BY <1>5 DEF Solves
    <3> QED  BY <3>1, <3>2, <1>4
  <2>3. ASSUME NEW n \in 0 .. Len(l) PROVE g[n] = IF n = 0 THEN start ELSE A(g[n - 1], l[n])
    <3>1. CASE n = 0  BY <3>1, <2>1
    <3>2. CASE n # 0
      <4>1. n \in 1 .. Len(l)  BY <3>2, <1>3
      <4> QED  BY <4>1, <3>2, <2>2
    <3> QED  BY <3>1, <3>2
  <2> QED  BY <2>1, <2>3
<1>7. Eq(f)
  BY <1>6
<1> HIDE DEF f
<1>8. f = [n \in 0 .. Len(l) |-> f[n]] /\ f[0] = start
  BY <1>7, <1>3
<1>9. ASSUME NEW n \in 1 .. Len(l), f[n - 1] \in S PROVE f[n] = step[<<f[n - 1], l[n]>>]
  <2>1. n \in 0 .. Len(l) /\ n # 0 /\ l[n] \in T
    BY <1>3
  <2>2. f[n] = A(f[n - 1], l[n])
    BY <1>7, <2>1
  <2> QED  BY <2>1, <2>2, <1>4, <1>9
<1>10. Solves(f, l, S, T, start, step)
  BY <1>3, <1>4, <1>8, <1>9, StaysInRange
<1> QED  BY <1>1, <1>10 DEF step, A, S, start

\* It is done comment by comment.
LEMMA SortingSteps ==
  ASSUME NEW T, NEW l \in Seq(T), NEW e \in T
  PROVE  /\ Sorting(<<>>) = [seq |-> <<>>, run |-> TRUE]
         /\ Sorting(l) \in [seq : Seq(T), run : BOOLEAN]
         /\ Sorting(Append(l, e)) = SortStep(Sorting(l), e)
<1> DEFINE S == [seq : Seq(T), run : BOOLEAN]
           start == [seq |-> <<>>, run |-> TRUE]
           A(s, x) == SortStep(s, x)
           step == [p \in S \X T |-> A(p[1], p[2])]
<1>1. PICK f0 : Sorting(<<>>) = f0[Len(<<>>)] /\ Solves(f0, <<>>, S, T, start, step)
  <2>1. <<>> \in Seq(T)  OBVIOUS
  <2> QED  BY <2>1, SortingSolved
<1>2. PICK f : Sorting(l) = f[Len(l)] /\ Solves(f, l, S, T, start, step)
  BY SortingSolved
<1>3. PICK g : Sorting(Append(l, e)) = g[Len(Append(l, e))] /\ Solves(g, Append(l, e), S, T, start, step)
  <2>1. Append(l, e) \in Seq(T)  OBVIOUS
  <2> QED  BY <2>1, SortingSolved
<1> HIDE DEF A, S, start
<1>4. \A s \in S : step[<<s, e>>] = A(s, e)
  OBVIOUS
<1> HIDE DEF step
<1>5. Sorting(<<>>) = start
  <2>1. Len(<<>>) = 0  OBVIOUS
  <2> QED  BY <1>1, <2>1 DEF Solves
<1>6. Sorting(l) \in S
  <2>1. Len(l) \in 0 .. Len(l)  OBVIOUS
  <2> QED  BY <1>2, <2>1 DEF Solves
<1>7. g[Len(Append(l, e))] = step[<<f[Len(l)], e>>]
  BY <1>2, <1>3, OneMore
<1>8. Sorting(Append(l, e)) = A(Sorting(l), e)
  BY <1>2, <1>3, <1>4, <1>6, <1>7
<1> QED  BY <1>5, <1>6, <1>8 DEF A, S, start

(* What comments there are, and what a resolution may come to.             *)
Comments ==
    [kind : {"claim"}, id : Nat, sup : Nat, branch : Nat, sec : Nat, trusted : BOOLEAN]
    \cup [kind : {"release"}, id : Nat, sec : Nat, trusted : BOOLEAN]
    \cup [kind : {"nonce"}, id : Nat, nonce : Nat, sec : Nat, trusted : BOOLEAN]
    \cup [kind : {"handoff"}, id : Nat, new : Nat, branch : Nat, withPr : BOOLEAN,
          signed : BOOLEAN, authorized : BOOLEAN, sec : Nat, trusted : BOOLEAN]
    \cup [kind : {"legacyClaim", "legacyRelease", "remark"}, sec : Nat, trusted : BOOLEAN]

\* What a resolution may come to.
Actives == [id : Nat, sup : Nat, branch : Nat, sec : Nat]

\* What the fields of a comment are.
LEMMA CommentFields ==
  ASSUME NEW e \in Comments
  PROVE  /\ e.sec \in Nat /\ e.trusted \in BOOLEAN
         /\ e.kind \in {"claim", "release", "nonce", "handoff", "legacyClaim", "legacyRelease", "remark"}
         /\ e.kind = "claim" => e.id \in Nat /\ e.sup \in Nat /\ e.branch \in Nat
         /\ e.kind = "release" => e.id \in Nat
         /\ e.kind = "nonce" => e.id \in Nat /\ e.nonce \in Nat
         /\ e.kind = "handoff" => e.id \in Nat /\ e.new \in Nat /\ e.branch \in Nat
  BY DEF Comments

\* A comment turns one active claim into another.
LEMMA ApplyType ==
  ASSUME NEW opt, NEW active \in Actives, NEW e \in Comments
  PROVE  ApplyClaimEvent(opt, active, e) \in Actives
<1>1. NoClaim \in Actives
  BY DEF NoClaim, Actives, None
<1>2. CASE e.kind = "claim"
  <2>1. Activate(e) \in Actives /\ [active EXCEPT !.sec = e.sec] \in Actives
    BY <1>2, CommentFields DEF Activate, Actives
  <2>2. ApplyClaim(active, e) \in Actives
    BY <1>1, <2>1 DEF ApplyClaim
  <2> QED  BY <2>2, <1>2, CommentFields DEF ApplyClaimEvent
<1>3. CASE e.kind = "release"
  BY <1>1, <1>3, CommentFields DEF ApplyClaimEvent
<1>4. CASE e.kind = "handoff"
  <2>1. [id |-> e.new, sup |-> e.id, branch |-> e.branch, sec |-> e.sec] \in Actives
    BY <1>4, CommentFields DEF Actives
  <2>2. ApplyHandoff(opt, active, e) \in Actives
    BY <2>1 DEF ApplyHandoff
  <2> QED  BY <2>2, <1>4, CommentFields DEF ApplyClaimEvent
<1>5. CASE e.kind \notin {"claim", "release", "handoff"}
  BY <1>5, CommentFields DEF ApplyClaimEvent
<1> QED  BY <1>2, <1>3, <1>4, <1>5

\* ... and the resolution.
LEMMA ActiveAfterSolved ==
  ASSUME NEW opt, NEW l \in Seq(Comments)
  PROVE  \E f : /\ ActiveAfter(opt, l) = f[Len(l)]
                /\ Solves(f, l, Actives, Comments, NoClaim,
                     [p \in Actives \X Comments |-> ApplyClaimEvent(opt, p[1], p[2])])
<1> DEFINE S == Actives
           T == Comments
           start == NoClaim
           A(s, e) == ApplyClaimEvent(opt, s, e)
           Eq(g) == g = [n \in 0 .. Len(l) |-> IF n = 0 THEN start ELSE A(g[n - 1], l[n])]
           f == CHOOSE g : Eq(g)
           step == [p \in S \X T |-> A(p[1], p[2])]
<1>1. ActiveAfter(opt, l) = f[Len(l)]
  BY DEF ActiveAfter, FromFirst
<1>2. \A s \in S, e \in T : A(s, e) \in S
  BY ApplyType
<1>3. start \in S /\ Len(l) \in Nat /\ \A n \in 1 .. Len(l) : l[n] \in T
  BY DEF NoClaim, Actives, None
<1> HIDE DEF A, S, start, T
<1>4. step \in [S \X T -> S] /\ \A s \in S, e \in T : step[<<s, e>>] = A(s, e)
  BY <1>2
<1> HIDE DEF step
<1>0. l \in Seq(T)
  BY DEF T
<1>5. PICK g : Solves(g, l, S, T, start, step)
  BY <1>0, <1>3, <1>4, Recursion
<1>6. Eq(g)
  <2>1. g = [n \in 0 .. Len(l) |-> g[n]] /\ g[0] = start /\ \A n \in 0 .. Len(l) : g[n] \in S
    BY <1>5 DEF Solves
  <2>2. ASSUME NEW n \in 1 .. Len(l) PROVE g[n] = A(g[n - 1], l[n])
    <3>1. g[n - 1] \in S /\ l[n] \in T
      BY <1>3, <2>1
    <3>2. g[n] = step[<<g[n - 1], l[n]>>]
      BY <1>5 DEF Solves
    <3> QED  BY <3>1, <3>2, <1>4
  <2>3. ASSUME NEW n \in 0 .. Len(l) PROVE g[n] = IF n = 0 THEN start ELSE A(g[n - 1], l[n])
    <3>1. CASE n = 0  BY <3>1, <2>1
    <3>2. CASE n # 0
      <4>1. n \in 1 .. Len(l)  BY <3>2, <1>3
      <4> QED  BY <4>1, <3>2, <2>2
    <3> QED  BY <3>1, <3>2
  <2> QED  BY <2>1, <2>3
<1>7. Eq(f)
  BY <1>6
<1> HIDE DEF f
<1>8. f = [n \in 0 .. Len(l) |-> f[n]] /\ f[0] = start
  BY <1>7, <1>3
<1>9. ASSUME NEW n \in 1 .. Len(l), f[n - 1] \in S PROVE f[n] = step[<<f[n - 1], l[n]>>]
  <2>1. n \in 0 .. Len(l) /\ n # 0 /\ l[n] \in T
    BY <1>3
  <2>2. f[n] = A(f[n - 1], l[n])
    BY <1>7, <2>1
  <2> QED  BY <2>1, <2>2, <1>4, <1>9
<1>10. Solves(f, l, S, T, start, step)
  BY <1>0, <1>3, <1>4, <1>8, <1>9, StaysInRange
<1> QED  BY <1>1, <1>10 DEF step, A, S, T, start

\* It is done comment by comment.
LEMMA ActiveAfterSteps ==
  ASSUME NEW opt, NEW l \in Seq(Comments), NEW e \in Comments
  PROVE  /\ ActiveAfter(opt, <<>>) = NoClaim
         /\ ActiveAfter(opt, l) \in Actives
         /\ ActiveAfter(opt, Append(l, e)) = ApplyClaimEvent(opt, ActiveAfter(opt, l), e)
<1> DEFINE A(s, x) == ApplyClaimEvent(opt, s, x)
           step == [p \in Actives \X Comments |-> A(p[1], p[2])]
<1>1. PICK f0 : ActiveAfter(opt, <<>>) = f0[Len(<<>>)] /\ Solves(f0, <<>>, Actives, Comments, NoClaim, step)
  <2>1. <<>> \in Seq(Comments)  OBVIOUS
  <2> QED  BY <2>1, ActiveAfterSolved
<1>2. PICK f : ActiveAfter(opt, l) = f[Len(l)] /\ Solves(f, l, Actives, Comments, NoClaim, step)
  BY ActiveAfterSolved
<1>3. PICK g : /\ ActiveAfter(opt, Append(l, e)) = g[Len(Append(l, e))]
               /\ Solves(g, Append(l, e), Actives, Comments, NoClaim, step)
  <2>1. Append(l, e) \in Seq(Comments)  OBVIOUS
  <2> QED  BY <2>1, ActiveAfterSolved
<1> HIDE DEF A
<1>4. \A s \in Actives : step[<<s, e>>] = A(s, e)
  OBVIOUS
<1> HIDE DEF step
<1>5. ActiveAfter(opt, <<>>) = NoClaim
  <2>1. Len(<<>>) = 0  OBVIOUS
  <2> QED  BY <1>1, <2>1 DEF Solves
<1>6. ActiveAfter(opt, l) \in Actives
  <2>1. Len(l) \in 0 .. Len(l)  OBVIOUS
  <2> QED  BY <1>2, <2>1 DEF Solves
<1>7. g[Len(Append(l, e))] = step[<<f[Len(l)], e>>]
  BY <1>2, <1>3, OneMore
<1>8. ActiveAfter(opt, Append(l, e)) = A(ActiveAfter(opt, l), e)
  BY <1>2, <1>3, <1>4, <1>6, <1>7
<1> QED  BY <1>5, <1>6, <1>8 DEF A

-----------------------------------------------------------------------------
(* What follows by going through the comments.                             *)

\* Which comments there are, in whatever order.
Contents(l) == {l[i] : i \in DOMAIN l}

\* A log is its beginning and one comment more.
LEMMA Prefix ==
  ASSUME NEW T, NEW l \in Seq(T), NEW n \in 1 .. Len(l)
  PROVE  /\ SubSeq(l, 1, n - 1) \in Seq(T) /\ l[n] \in T /\ SubSeq(l, 1, n) \in Seq(T)
         /\ SubSeq(l, 1, n) = Append(SubSeq(l, 1, n - 1), l[n])
         /\ SubSeq(l, 1, 0) = <<>> /\ SubSeq(l, 1, Len(l)) = l
<1>1. SubSeq(l, 1, n - 1) \in Seq(T) /\ l[n] \in T /\ SubSeq(l, 1, n) \in Seq(T)
  OBVIOUS
<1>2. Len(SubSeq(l, 1, n - 1)) = n - 1 /\ Len(SubSeq(l, 1, n)) = n
  OBVIOUS
<1>3. SubSeq(l, 1, n) = Append(SubSeq(l, 1, n - 1), l[n])
  OBVIOUS
<1>4. SubSeq(l, 1, 0) = <<>> /\ SubSeq(l, 1, Len(l)) = l
  OBVIOUS
<1> QED  BY <1>1, <1>3, <1>4

\* The contents of a longer log.
LEMMA ContentsSteps ==
  ASSUME NEW T, NEW l \in Seq(T), NEW e \in T
  PROVE  /\ Contents(<<>>) = {} /\ Contents(l) \subseteq T
         /\ Contents(Append(l, e)) = Contents(l) \cup {e}
<1>1. Contents(<<>>) = {} /\ Contents(l) \subseteq T
  BY DEF Contents
<1>2. Contents(Append(l, e)) = Contents(l) \cup {e}
  <2>1. Len(l) \in Nat /\ DOMAIN l = 1 .. Len(l) /\ DOMAIN Append(l, e) = 1 .. Len(l) + 1
    OBVIOUS
  <2>2. Append(l, e)[Len(l) + 1] = e /\ \A i \in 1 .. Len(l) : Append(l, e)[i] = l[i]
    OBVIOUS
  <2> QED  BY <2>1, <2>2 DEF Contents
<1> QED  BY <1>1, <1>2

\* The sort loses no comment and makes up none.
LEMMA InsertedContents ==
  ASSUME NEW T, NEW s \in Seq(T), NEW e \in T, NEW k \in 1 .. Len(s) + 1
  PROVE  Contents(InsertAt(s, k, e)) = Contents(s) \cup {e}
<1> DEFINE r == InsertAt(s, k, e)
<1>1. /\ r \in Seq(T) /\ Len(r) = Len(s) + 1
      /\ \A i \in 1 .. k - 1 : r[i] = s[i]
      /\ r[k] = e
      /\ \A i \in k + 1 .. Len(s) + 1 : r[i] = s[i - 1]
  BY Inserted
<1> HIDE DEF r
<1>2. Len(s) \in Nat /\ DOMAIN s = 1 .. Len(s) /\ DOMAIN r = 1 .. Len(s) + 1
  BY <1>1
<1>3. ASSUME NEW i \in DOMAIN r PROVE r[i] \in Contents(s) \cup {e}
  <2>1. CASE i < k
    <3>1. i \in DOMAIN s /\ i \in 1 .. k - 1  BY <1>2, <2>1
    <3> QED  BY <3>1, <1>1 DEF Contents
  <2>2. CASE i = k  BY <2>2, <1>1
  <2>3. CASE i > k
    <3>1. i - 1 \in DOMAIN s /\ i \in k + 1 .. Len(s) + 1  BY <1>2, <2>3
    <3> QED  BY <3>1, <1>1 DEF Contents
  <2> QED  BY <2>1, <2>2, <2>3, <1>2
<1>4. ASSUME NEW i \in DOMAIN s PROVE s[i] \in Contents(r)
  <2>1. CASE i < k
    <3>1. i \in DOMAIN r /\ i \in 1 .. k - 1  BY <1>2, <2>1
    <3> QED  BY <3>1, <1>1 DEF Contents
  <2>2. CASE i >= k
    <3>1. i + 1 \in DOMAIN r /\ i + 1 \in k + 1 .. Len(s) + 1 /\ i + 1 - 1 = i  BY <1>2, <2>2
    <3>2. r[i + 1] = s[i]  BY <3>1, <1>1
    <3> QED  BY <3>1, <3>2 DEF Contents
  <2> QED  BY <2>1, <2>2, <1>2
<1>5. e \in Contents(r)
  <2>1. k \in DOMAIN r  BY <1>2
  <2> QED  BY <2>1, <1>1 DEF Contents
<1>6. Contents(r) \subseteq Contents(s) \cup {e}
  BY <1>3 DEF Contents
<1>7. Contents(s) \subseteq Contents(r)
  BY <1>4 DEF Contents
<1> QED  BY <1>5, <1>6, <1>7 DEF r

\* Going up comment by comment.
LEMMA UpTo ==
  ASSUME NEW N \in Nat, NEW G, 0 \in G, \A n \in 1 .. N : n - 1 \in G => n \in G
  PROVE  \A n \in 0 .. N : n \in G
<1> DEFINE Bad == {n \in 0 .. N : n \notin G}
<1> SUFFICES ASSUME Bad # {} PROVE FALSE
  OBVIOUS
<1>1. PICK n \in Bad : \A j \in Bad : n <= j
  <2>1. Bad \subseteq Nat  OBVIOUS
  <2> QED  BY <2>1, LeastNatural
<1>2. n \in 1 .. N
  OBVIOUS
<1>3. n - 1 \in 0 .. N /\ n - 1 \notin Bad
  BY <1>1, <1>2
<1> QED  BY <1>2, <1>3

\* Nothing is trusted of nothing, and a sort of nothing is empty.
LEMMA EmptyTrusted == Trusted(<<>>) = <<>>
<1>1. <<>> \in Seq(Nat) /\ 0 \in Nat
  OBVIOUS
<1> QED  BY <1>1, TrustedSteps

\* No comments are sorted already.
LEMMA EmptySort == Sorting(<<>>) = [seq |-> <<>>, run |-> TRUE]
<1>1. <<>> \in Seq(Nat) /\ 0 \in Nat
  OBVIOUS
<1> QED  BY <1>1, SortingSteps

\* The trusted comments are those of the log.
LEMMA TrustedContents ==
  ASSUME NEW T, NEW l \in Seq(T)
  PROVE  /\ Trusted(l) \in Seq(T)
         /\ Contents(Trusted(l)) = {e \in Contents(l) : e.trusted}
<1> DEFINE P(n) == /\ Trusted(SubSeq(l, 1, n)) \in Seq(T)
                   /\ Contents(Trusted(SubSeq(l, 1, n))) = {e \in Contents(SubSeq(l, 1, n)) : e.trusted}
           G == {n \in 0 .. Len(l) : P(n)}
<1>1. Len(l) \in Nat
  OBVIOUS
<1>2. P(0)
  <2>1. SubSeq(l, 1, 0) = <<>> /\ <<>> \in Seq(T) /\ Contents(<<>>) = {}
    BY DEF Contents
  <2>2. Trusted(<<>>) = <<>>
    BY EmptyTrusted
  <2> QED  BY <2>1, <2>2
<1>3. ASSUME NEW n \in 1 .. Len(l), P(n - 1) PROVE P(n)
  <2> DEFINE a == SubSeq(l, 1, n - 1)
             e == l[n]
             b == SubSeq(l, 1, n)
             ta == Trusted(a)
  <2>1. a \in Seq(T) /\ e \in T /\ b = Append(a, e)
    BY Prefix
  <2>2. ta \in Seq(T) /\ Contents(ta) = {x \in Contents(a) : x.trusted}
    BY <1>3
  <2> HIDE DEF a, b, e
  <2>3. Trusted(b) = IF e.trusted THEN Append(ta, e) ELSE ta
    BY <2>1, TrustedSteps
  <2>4. Contents(b) = Contents(a) \cup {e}
    BY <2>1, ContentsSteps
  <2>5. Contents(Append(ta, e)) = Contents(ta) \cup {e}
    BY <2>1, <2>2, ContentsSteps
  <2> HIDE DEF ta
  <2>6. CASE e.trusted
    <3>1. Trusted(b) = Append(ta, e) /\ Append(ta, e) \in Seq(T)
      BY <2>1, <2>2, <2>3, <2>6
    <3>2. Contents(Trusted(b)) = {x \in Contents(b) : x.trusted}
      BY <2>2, <2>4, <2>5, <2>6, <3>1
    <3> QED  BY <3>1, <3>2 DEF b
  <2>7. CASE ~e.trusted
    <3>1. Trusted(b) = ta
      BY <2>3, <2>7
    <3>2. Contents(Trusted(b)) = {x \in Contents(b) : x.trusted}
      BY <2>2, <2>4, <2>7, <3>1
    <3> QED  BY <3>1, <3>2, <2>2 DEF b
  <2> QED  BY <2>6, <2>7
<1> HIDE DEF P
<1>4. Len(l) \in G
  <2>1. 0 \in G  BY <1>1, <1>2
  <2>2. \A n \in 1 .. Len(l) : n - 1 \in G => n \in G
    BY <1>3
  <2>3. \A n \in 0 .. Len(l) : n \in G
    BY <1>1, <2>1, <2>2, UpTo
  <2> QED  BY <1>1, <2>3
<1>5. SubSeq(l, 1, Len(l)) = l
  OBVIOUS
<1> QED  BY <1>4, <1>5 DEF P

\* The sorted comments are those of the log, too.
LEMMA SortContents ==
  ASSUME NEW T, NEW l \in Seq(T)
  PROVE  /\ SortClaimEvents(l) \in Seq(T)
         /\ Contents(SortClaimEvents(l)) = Contents(l)
<1> DEFINE Q(s) == SortClaimEvents(s)
           P(n) == /\ Q(SubSeq(l, 1, n)) \in Seq(T)
                   /\ Contents(Q(SubSeq(l, 1, n))) = Contents(SubSeq(l, 1, n))
           G == {n \in 0 .. Len(l) : P(n)}
<1>1. Len(l) \in Nat
  OBVIOUS
<1>2. P(0)
  <2>1. SubSeq(l, 1, 0) = <<>> /\ <<>> \in Seq(T)
    OBVIOUS
  <2>2. Q(<<>>) = <<>>
    BY EmptySort DEF SortClaimEvents
  <2> HIDE DEF Q
  <2> QED  BY <2>1, <2>2
<1>3. ASSUME NEW n \in 1 .. Len(l), P(n - 1) PROVE P(n)
  <2> DEFINE a == SubSeq(l, 1, n - 1)
             e == l[n]
             b == SubSeq(l, 1, n)
             s == Sorting(a)
  <2>1. a \in Seq(T) /\ e \in T /\ b = Append(a, e)
    BY Prefix
  <2>2. Contents(Q(a)) = Contents(a)
    BY <1>3
  <2> HIDE DEF a, b, e
  <2>3. s \in [seq : Seq(T), run : BOOLEAN] /\ Sorting(b) = SortStep(s, e)
    BY <2>1, SortingSteps
  <2>4. Q(a) = s.seq /\ Q(b) = SortStep(s, e).seq
    BY <2>3 DEF SortClaimEvents
  <2> HIDE DEF s, Q
  <2>5. /\ SortStep(s, e) \in [seq : Seq(T), run : BOOLEAN]
        /\ \/ Q(b) = Append(s.seq, e)
           \/ Q(b) = InsertAt(s.seq, InsertionPoint(s.seq, e), e)
    BY <2>1, <2>3, <2>4, SortStepType
  <2>6. s.seq \in Seq(T) /\ Q(b) \in Seq(T)
    BY <2>3, <2>4, <2>5
  <2>7. InsertionPoint(s.seq, e) \in 1 .. Len(s.seq) + 1
    <3>1. 0 \in 0 .. Len(s.seq) /\ 0 + 1 = 1  BY <2>6
    <3> QED  BY <2>6, <3>1, InsertionPointIsAfter
  <2>8. Contents(Q(b)) = Contents(s.seq) \cup {e}
    <3>1. Contents(Append(s.seq, e)) = Contents(s.seq) \cup {e}
      BY <2>1, <2>6, ContentsSteps
    <3>2. Contents(InsertAt(s.seq, InsertionPoint(s.seq, e), e)) = Contents(s.seq) \cup {e}
      BY <2>1, <2>6, <2>7, InsertedContents
    <3> QED  BY <2>5, <3>1, <3>2
  <2>9. Contents(b) = Contents(a) \cup {e}
    BY <2>1, ContentsSteps
  <2> QED  BY <2>2, <2>4, <2>6, <2>8, <2>9 DEF b
<1> HIDE DEF P
<1>4. Len(l) \in G
  <2>1. 0 \in G  BY <1>1, <1>2
  <2>2. \A n \in 1 .. Len(l) : n - 1 \in G => n \in G
    BY <1>3
  <2>3. \A n \in 0 .. Len(l) : n \in G
    BY <1>1, <2>1, <2>2, UpTo
  <2> QED  BY <1>1, <2>3
<1>5. SubSeq(l, 1, Len(l)) = l
  OBVIOUS
<1> QED  BY <1>4, <1>5 DEF P

(* Where a claim comes from: the marker or the handoff that made it, or     *)
(* refreshed it, last.                                                     *)
ComesFrom(active, e) ==
    /\ e.trusted /\ e.sec = active.sec /\ e.branch = active.branch
    /\ \/ e.kind = "claim" /\ e.id = active.id
       \/ e.kind = "handoff" /\ e.new = active.id

\* One comment leaves the active claim alone, ends it or makes one.
LEMMA ApplyMakes ==
  ASSUME NEW opt, NEW active \in Actives, NEW e \in Comments
  PROVE  \/ ApplyClaimEvent(opt, active, e) \in {active, NoClaim}
         \/ ComesFrom(ApplyClaimEvent(opt, active, e), e)
<1>0. CASE ~e.trusted
  BY <1>0 DEF ApplyClaimEvent
<1>1. CASE e.trusted /\ e.kind = "claim"
  <2>1. ApplyClaimEvent(opt, active, e) = ApplyClaim(active, e)
    BY <1>1 DEF ApplyClaimEvent
  <2>2. ComesFrom(Activate(e), e)
    BY <1>1 DEF ComesFrom, Activate
  <2>3. e.id = active.id /\ e.branch = active.branch => ComesFrom([active EXCEPT !.sec = e.sec], e)
    BY <1>1, CommentFields DEF ComesFrom, Actives
  <2>4. ApplyClaim(active, e) \in {active, NoClaim, Activate(e)} \/
        (e.id = active.id /\ e.branch = active.branch /\ ApplyClaim(active, e) = [active EXCEPT !.sec = e.sec])
    BY DEF ApplyClaim
  <2> QED  BY <2>1, <2>2, <2>3, <2>4
<1>2. CASE e.trusted /\ e.kind = "release"
  BY <1>2 DEF ApplyClaimEvent
<1>3. CASE e.trusted /\ e.kind = "handoff"
  <2> DEFINE new == [id |-> e.new, sup |-> e.id, branch |-> e.branch, sec |-> e.sec]
  <2>1. ApplyClaimEvent(opt, active, e) = ApplyHandoff(opt, active, e)
    BY <1>3 DEF ApplyClaimEvent
  <2>2. ComesFrom(new, e)
    BY <1>3 DEF ComesFrom
  <2>3. ApplyHandoff(opt, active, e) \in {active, new}
    BY DEF ApplyHandoff
  <2> QED  BY <2>1, <2>2, <2>3
<1>4. CASE e.trusted /\ e.kind \notin {"claim", "release", "handoff"}
  BY <1>4 DEF ApplyClaimEvent
<1> QED  BY <1>0, <1>1, <1>2, <1>3, <1>4, CommentFields

\* Nothing is active after nothing.
LEMMA EmptyActive == \A opt : ActiveAfter(opt, <<>>) = NoClaim
<1> SUFFICES ASSUME NEW opt PROVE ActiveAfter(opt, <<>>) = NoClaim
  OBVIOUS
<1> DEFINE e == [kind |-> "remark", sec |-> 0, trusted |-> TRUE]
<1>1. <<>> \in Seq(Comments) /\ e \in Comments
  BY DEF Comments
<1> HIDE DEF e
<1> QED  BY <1>1, ActiveAfterSteps

\* One comment after the other, for the beginnings of a log.
LEMMA ActivePrefix ==
  ASSUME NEW opt, NEW l \in Seq(Comments)
  PROVE  /\ ActiveAfter(opt, SubSeq(l, 1, 0)) = NoClaim
         /\ SubSeq(l, 1, Len(l)) = l
         /\ \A n \in 1 .. Len(l) :
              /\ l[n] \in Comments /\ l[n] \in Contents(l)
              /\ ActiveAfter(opt, SubSeq(l, 1, n - 1)) \in Actives
              /\ ActiveAfter(opt, SubSeq(l, 1, n)) =
                   ApplyClaimEvent(opt, ActiveAfter(opt, SubSeq(l, 1, n - 1)), l[n])
<1>1. SubSeq(l, 1, 0) = <<>> /\ SubSeq(l, 1, Len(l)) = l
  OBVIOUS
<1>2. ASSUME NEW n \in 1 .. Len(l)
      PROVE  /\ l[n] \in Comments /\ l[n] \in Contents(l)
             /\ ActiveAfter(opt, SubSeq(l, 1, n - 1)) \in Actives
             /\ ActiveAfter(opt, SubSeq(l, 1, n)) =
                   ApplyClaimEvent(opt, ActiveAfter(opt, SubSeq(l, 1, n - 1)), l[n])
  <2>1. /\ SubSeq(l, 1, n - 1) \in Seq(Comments) /\ l[n] \in Comments
        /\ SubSeq(l, 1, n) = Append(SubSeq(l, 1, n - 1), l[n])
    BY Prefix
  <2>2. l[n] \in Contents(l)
    BY DEF Contents
  <2> QED  BY <2>1, <2>2, ActiveAfterSteps
<1>3. ActiveAfter(opt, SubSeq(l, 1, 0)) = NoClaim
  BY <1>1, EmptyActive
<1> QED  BY <1>1, <1>2, <1>3

\* The active claim comes from one of the comments.
LEMMA ActiveComesFrom ==
  ASSUME NEW opt, NEW l \in Seq(Comments), ActiveAfter(opt, l) # NoClaim
  PROVE  \E e \in Contents(l) : ComesFrom(ActiveAfter(opt, l), e)
<1> DEFINE A(n) == ActiveAfter(opt, SubSeq(l, 1, n))
           P(n) == A(n) # NoClaim => \E e \in Contents(l) : ComesFrom(A(n), e)
           G == {n \in 0 .. Len(l) : P(n)}
<1>1. Len(l) \in Nat
  OBVIOUS
<1>2. A(0) = NoClaim /\ A(Len(l)) = ActiveAfter(opt, l)
  BY ActivePrefix
<1>3. ASSUME NEW n \in 1 .. Len(l), P(n - 1) PROVE P(n)
  <2>1. /\ l[n] \in Comments /\ l[n] \in Contents(l) /\ A(n - 1) \in Actives
        /\ A(n) = ApplyClaimEvent(opt, A(n - 1), l[n])
    BY ActivePrefix
  <2> HIDE DEF A
  <2>2. A(n) \in {A(n - 1), NoClaim} \/ ComesFrom(A(n), l[n])
    BY <2>1, ApplyMakes
  <2> QED  BY <1>3, <2>1, <2>2
<1> HIDE DEF A
<1>4. 0 \in G
  BY <1>1, <1>2
<1> HIDE DEF P
<1>5. \A n \in 1 .. Len(l) : n - 1 \in G => n \in G
  BY <1>3
<1>6. \A n \in 0 .. Len(l) : n \in G
  BY <1>1, <1>4, <1>5, UpTo
<1>7. P(Len(l))
  BY <1>1, <1>6
<1> QED  BY <1>2, <1>7 DEF P

\* A claim that no handoff made has a marker that made it active.
LEMMA ActivationPoint ==
  ASSUME NEW opt, NEW l \in Seq(Comments), NEW c \in Nat \ {None}, ActiveAfter(opt, l).id = c,
         \A e \in Contents(l) : e.kind # "handoff"
  PROVE  \E n \in 1 .. Len(l) :
           /\ l[n].trusted /\ l[n].kind = "claim" /\ l[n].id = c
           /\ ActiveAfter(opt, SubSeq(l, 1, n)) = Activate(l[n])
<1> DEFINE A(n) == ActiveAfter(opt, SubSeq(l, 1, n))
           G == {n \in 0 .. Len(l) : A(n).id = c}
<1>1. Len(l) \in Nat
  OBVIOUS
<1>2. A(0) = NoClaim /\ A(Len(l)) = ActiveAfter(opt, l)
  BY ActivePrefix
<1>3. PICK n \in G : \A j \in G : n <= j
  <2>1. Len(l) \in G /\ G \subseteq Nat
    BY <1>1, <1>2
  <2> QED  BY <2>1, LeastNatural
<1>4. n # 0 /\ n \in 1 .. Len(l)
  BY <1>1, <1>2 DEF NoClaim, None
<1>5. n - 1 \in 0 .. Len(l) /\ n - 1 \notin G
  BY <1>3, <1>4
<1>6. /\ l[n] \in Comments /\ l[n] \in Contents(l) /\ A(n - 1) \in Actives
      /\ A(n) = ApplyClaimEvent(opt, A(n - 1), l[n])
  BY <1>4, ActivePrefix
<1> HIDE DEF A
<1>7. A(n).id = c /\ A(n - 1).id # c
  BY <1>3, <1>5
<1>8. l[n].kind # "handoff"
  BY <1>6
<1>9. NoClaim.id = None
  BY DEF NoClaim
<1>10. l[n].trusted /\ l[n].kind = "claim"
  BY <1>6, <1>7, <1>8, <1>9, CommentFields DEF ApplyClaimEvent
<1>11. A(n) = ApplyClaim(A(n - 1), l[n])
  BY <1>6, <1>10 DEF ApplyClaimEvent
<1>12. l[n].id = A(n - 1).id => ApplyClaim(A(n - 1), l[n]).id = A(n - 1).id \/ A(n - 1) = NoClaim
  BY <1>6 DEF ApplyClaim, Actives
<1>13. A(n) = Activate(l[n])
  BY <1>6, <1>7, <1>9, <1>11, <1>12 DEF ApplyClaim
<1>14. l[n].id = c
  BY <1>7, <1>13 DEF Activate
<1> QED  BY <1>4, <1>10, <1>13, <1>14 DEF A

-----------------------------------------------------------------------------
(* The order of the sorted comments.                                       *)

\* Comments in the order of their seconds.
Ordered(l) == \A i, j \in DOMAIN l : i < j => l[i].sec <= l[j].sec

(* r is s with e put in at k.                                              *)
PutIn(r, s, e, k) ==
    /\ Len(r) = Len(s) + 1
    /\ \A i \in 1 .. k - 1 : r[i] = s[i]
    /\ r[k] = e
    /\ \A i \in k + 1 .. Len(s) + 1 : r[i] = s[i - 1]

\* The sorted comments after a step: one more at the end or at its place.
SortsIn(r, l, e) == r = Append(l, e) \/ r = InsertAt(l, InsertionPoint(l, e), e)

\* That is all that a step does.
LEMMA SortStepSortsIn ==
  ASSUME NEW s, NEW e
  PROVE  SortsIn(SortStep(s, e).seq, s.seq, e)
<1> DEFINE app == Append(s.seq, e)
           ins == InsertAt(s.seq, InsertionPoint(s.seq, e), e)
<1>1. \/ SortStep(s, e) = [seq |-> app, run |-> TRUE]
      \/ SortStep(s, e) = [seq |-> ins, run |-> FALSE]
  BY Zenon DEF SortStep
<1> HIDE DEF app, ins
<1>2. SortStep(s, e).seq = app \/ SortStep(s, e).seq = ins
  BY <1>1
<1> QED  BY <1>2 DEF SortsIn, app, ins

\* A comment that is not earlier than any other is put behind all earlier ones.
LEMMA SortStepPutsIn ==
  ASSUME NEW s \in [seq : Seq(Comments), run : BOOLEAN], NEW e \in Comments,
         \A x \in Contents(s.seq) : x.sec <= e.sec
  PROVE  \E k \in 1 .. Len(s.seq) + 1 :
           /\ PutIn(SortStep(s, e).seq, s.seq, e, k)
           /\ \A q \in 0 .. Len(s.seq) : (\A i \in 1 .. q : s.seq[i].sec < e.sec) => k > q
<1> DEFINE l == s.seq
           p == InsertionPoint(l, e)
<1>1. l \in Seq(Comments) /\ Len(l) \in Nat /\ \A i \in 1 .. Len(l) : l[i] \in Comments
  OBVIOUS
<1> HIDE DEF l
<1>2. SortStep(s, e).seq = Append(l, e) \/ SortStep(s, e).seq = InsertAt(l, p, e)
  <2>1. SortsIn(SortStep(s, e).seq, l, e)
    BY SortStepSortsIn DEF l
  <2> QED BY <2>1 DEF SortsIn
<1>3. CASE SortStep(s, e).seq = Append(l, e)
  <2> DEFINE k == Len(l) + 1
  <2>1. PutIn(Append(l, e), l, e, k)
    BY <1>1 DEF PutIn
  <2>2. k \in 1 .. Len(l) + 1 /\ \A q \in 0 .. Len(l) : k > q
    BY <1>1
  <2> QED  BY <2>1, <2>2, <1>3 DEF l
<1>4. CASE SortStep(s, e).seq = InsertAt(l, p, e)
  <2>1. ASSUME NEW q \in 0 .. Len(l), \A i \in 1 .. q : l[i].sec < e.sec
        PROVE  p \in q + 1 .. Len(l) + 1
    <3>1. ASSUME NEW i \in 1 .. q PROVE ~Precedes(e, l[i])
      <4>1. l[i] \in Comments /\ l[i].sec < e.sec
        BY <1>1, <2>1
      <4>2. l[i].sec \in Nat /\ e.sec \in Nat
        BY <4>1, CommentFields
      <4> QED  BY <4>1, <4>2 DEF Precedes
    <3> QED  BY <3>1, <1>1, InsertionPointIsAfter
  <2>2. p \in 1 .. Len(l) + 1
    <3>1. 0 \in 0 .. Len(l) /\ 0 + 1 = 1 /\ \A i \in 1 .. 0 : l[i].sec < e.sec
      BY <1>1
    <3> QED  BY <2>1, <3>1
  <2> HIDE DEF p
  <2>3. PutIn(InsertAt(l, p, e), l, e, p)
    BY <1>1, <2>2, Inserted DEF PutIn
  <2>4. \A q \in 0 .. Len(l) : (\A i \in 1 .. q : l[i].sec < e.sec) => p > q
    BY <2>1, <2>2, <1>1
  <2> QED  BY <2>2, <2>3, <2>4, <1>4 DEF l
<1> QED  BY <1>2, <1>3, <1>4

\* What is put in behind all earlier comments is in order.
LEMMA PutInOrdered ==
  ASSUME NEW r \in Seq(Comments), NEW s \in Seq(Comments), NEW e \in Comments, NEW k \in 1 .. Len(s) + 1,
         PutIn(r, s, e, k), Ordered(s), \A x \in Contents(s) : x.sec <= e.sec,
         \A q \in 0 .. Len(s) : (\A i \in 1 .. q : s[i].sec < e.sec) => k > q
  PROVE  Ordered(r)
<1>1. /\ Len(s) \in Nat /\ DOMAIN s = 1 .. Len(s) /\ DOMAIN r = 1 .. Len(s) + 1
  BY DEF PutIn
<1>2. \A i \in 1 .. Len(s) : s[i] \in Comments /\ s[i].sec \in Nat /\ s[i].sec <= e.sec
  BY <1>1, CommentFields DEF Contents
<1>3. e.sec \in Nat
  BY CommentFields
<1>4. \A i, j \in 1 .. Len(s) : i < j => s[i].sec <= s[j].sec
  BY <1>1 DEF Ordered
<1>5. ASSUME NEW j \in k .. Len(s) PROVE e.sec <= s[j].sec
  <2>1. j \in 1 .. Len(s) /\ j \in 0 .. Len(s)
    BY <1>1
  <2> SUFFICES ASSUME s[j].sec < e.sec PROVE FALSE
    BY <2>1, <1>2, <1>3
  <2>2. ASSUME NEW i \in 1 .. j PROVE s[i].sec < e.sec
    <3>1. i \in 1 .. Len(s) /\ (i < j \/ i = j)
      BY <2>1, <1>1
    <3> QED  BY <3>1, <2>1, <1>2, <1>3, <1>4
  <2>3. k > j
    BY <2>1, <2>2
  <2> QED  BY <2>3, <2>1
<1>6. ASSUME NEW i \in 1 .. Len(s) + 1, NEW j \in 1 .. Len(s) + 1, i < j
      PROVE  r[i].sec <= r[j].sec
  <2>1. CASE j < k
    <3>1. i \in 1 .. k - 1 /\ j \in 1 .. k - 1 /\ i \in 1 .. Len(s) /\ j \in 1 .. Len(s)
      BY <2>1, <1>6, <1>1
    <3> QED  BY <3>1, <1>4, <1>6 DEF PutIn
  <2>2. CASE j = k
    <3>1. i \in 1 .. k - 1 /\ i \in 1 .. Len(s)
      BY <2>2, <1>6, <1>1
    <3> QED  BY <3>1, <2>2, <1>2 DEF PutIn
  <2>3. CASE i = k
    <3>1. j \in k + 1 .. Len(s) + 1 /\ j - 1 \in k .. Len(s)
      BY <2>3, <1>6, <1>1
    <3> QED  BY <3>1, <2>3, <1>5 DEF PutIn
  <2>4. CASE i < k /\ k < j
    <3>1. i \in 1 .. k - 1 /\ i \in 1 .. Len(s) /\ j \in k + 1 .. Len(s) + 1 /\ j - 1 \in 1 .. Len(s)
      BY <2>4, <1>1
    <3>2. i < j - 1 \/ i = j - 1
      BY <2>4, <3>1
    <3>3. r[i] = s[i] /\ r[j] = s[j - 1]
      BY <3>1 DEF PutIn
    <3> QED  BY <3>1, <3>2, <3>3, <1>2, <1>4
  <2>5. CASE k < i
    <3>1. /\ i \in k + 1 .. Len(s) + 1 /\ j \in k + 1 .. Len(s) + 1
          /\ i - 1 \in 1 .. Len(s) /\ j - 1 \in 1 .. Len(s) /\ i - 1 < j - 1
      BY <2>5, <1>6, <1>1
    <3>2. r[i] = s[i - 1] /\ r[j] = s[j - 1]
      BY <3>1 DEF PutIn
    <3> QED  BY <3>1, <3>2, <1>4
  <2> QED  BY <2>1, <2>2, <2>3, <2>4, <2>5, <1>1
<1> QED  BY <1>1, <1>6 DEF Ordered

\* An empty log is in order, and the beginning of one that is.
LEMMA OrderedPrefix ==
  ASSUME NEW l \in Seq(Comments), Ordered(l), NEW n \in 1 .. Len(l)
  PROVE  /\ Ordered(<<>>) /\ Ordered(SubSeq(l, 1, n - 1)) /\ Ordered(SubSeq(l, 1, n))
         /\ \A x \in Contents(SubSeq(l, 1, n - 1)) : x.sec <= l[n].sec
<1>1. /\ DOMAIN l = 1 .. Len(l) /\ DOMAIN SubSeq(l, 1, n - 1) = 1 .. n - 1
      /\ DOMAIN SubSeq(l, 1, n) = 1 .. n /\ DOMAIN <<>> = {}
  OBVIOUS
<1>2. /\ \A i \in 1 .. n - 1 : SubSeq(l, 1, n - 1)[i] = l[i]
      /\ \A i \in 1 .. n : SubSeq(l, 1, n)[i] = l[i]
  OBVIOUS
<1> DEFINE a == SubSeq(l, 1, n - 1)
           b == SubSeq(l, 1, n)
<1> HIDE DEF a, b
<1>3. DOMAIN a = 1 .. n - 1 /\ DOMAIN b = 1 .. n
  BY <1>1 DEF a, b
<1>4. (\A i \in 1 .. n - 1 : a[i] = l[i]) /\ (\A i \in 1 .. n : b[i] = l[i])
  BY <1>2 DEF a, b
<1>5. Ordered(<<>>) /\ Ordered(a) /\ Ordered(b)
  BY <1>1, <1>3, <1>4 DEF Ordered
<1>6. \A x \in Contents(a) : x.sec <= l[n].sec
  BY <1>1, <1>3, <1>4 DEF Ordered, Contents
<1> QED  BY <1>5, <1>6 DEF a, b

\* The sort puts comments in the order of their seconds.
LEMMA SortInOrder ==
  ASSUME NEW l \in Seq(Comments), Ordered(l)
  PROVE  Ordered(SortClaimEvents(l))
<1> DEFINE Q(s) == SortClaimEvents(s)
           P(n) == Ordered(Q(SubSeq(l, 1, n)))
           G == {n \in 0 .. Len(l) : P(n)}
<1>1. Len(l) \in Nat
  OBVIOUS
<1>2. P(0)
  <2>1. SubSeq(l, 1, 0) = <<>>
    OBVIOUS
  <2>2. Q(<<>>) = <<>>
    BY EmptySort DEF SortClaimEvents
  <2>3. Ordered(<<>>)
    BY DEF Ordered
  <2> HIDE DEF Q
  <2> QED  BY <2>1, <2>2, <2>3
<1>3. ASSUME NEW n \in 1 .. Len(l), P(n - 1) PROVE P(n)
  <2> DEFINE a == SubSeq(l, 1, n - 1)
             e == l[n]
             b == SubSeq(l, 1, n)
             s == Sorting(a)
  <2>1. a \in Seq(Comments) /\ e \in Comments /\ b = Append(a, e) /\ \A x \in Contents(a) : x.sec <= e.sec
    BY Prefix, OrderedPrefix
  <2>2. Ordered(Q(a))
    BY <1>3
  <2> HIDE DEF a, b, e
  <2>3. s \in [seq : Seq(Comments), run : BOOLEAN] /\ Sorting(b) = SortStep(s, e)
    BY <2>1, SortingSteps
  <2>4. Q(a) = s.seq /\ Q(b) = SortStep(s, e).seq
    BY <2>3 DEF SortClaimEvents
  <2>5. Contents(Q(a)) = Contents(a) /\ Q(b) \in Seq(Comments)
    <3>1. b \in Seq(Comments)
      BY <2>1
    <3> QED  BY <2>1, <3>1, SortContents
  <2> HIDE DEF s, Q
  <2>6. s.seq \in Seq(Comments) /\ \A x \in Contents(s.seq) : x.sec <= e.sec
    BY <2>1, <2>3, <2>4, <2>5
  <2>7. PICK k \in 1 .. Len(s.seq) + 1 :
           /\ PutIn(SortStep(s, e).seq, s.seq, e, k)
           /\ \A q \in 0 .. Len(s.seq) : (\A i \in 1 .. q : s.seq[i].sec < e.sec) => k > q
    BY <2>1, <2>3, <2>6, SortStepPutsIn
  <2>8. Ordered(SortStep(s, e).seq)
    <3>1. SortStep(s, e).seq \in Seq(Comments) /\ Ordered(s.seq)
      BY <2>2, <2>4, <2>5
    <3> QED  BY <2>1, <2>6, <2>7, <3>1, PutInOrdered
  <2> QED  BY <2>4, <2>8 DEF b
<1> HIDE DEF P
<1>4. Len(l) \in G
  <2>1. 0 \in G  BY <1>1, <1>2
  <2>2. \A n \in 1 .. Len(l) : n - 1 \in G => n \in G
    BY <1>3
  <2>3. \A n \in 0 .. Len(l) : n \in G
    BY <1>1, <2>1, <2>2, UpTo
  <2> QED  BY <1>1, <2>3
<1>5. SubSeq(l, 1, Len(l)) = l
  OBVIOUS
<1> QED  BY <1>4, <1>5 DEF P

\* Leaving some out changes no order.
LEMMA AppendInOrder ==
  ASSUME NEW l \in Seq(Comments), Ordered(l), NEW e \in Comments, \A x \in Contents(l) : x.sec <= e.sec
  PROVE  Ordered(Append(l, e))
<1> DEFINE r == Append(l, e)
<1>1. /\ Len(l) \in Nat /\ DOMAIN l = 1 .. Len(l) /\ DOMAIN r = 1 .. Len(l) + 1
      /\ r[Len(l) + 1] = e /\ \A i \in 1 .. Len(l) : r[i] = l[i]
  OBVIOUS
<1> HIDE DEF r
<1>2. ASSUME NEW i \in DOMAIN r, NEW j \in DOMAIN r, i < j PROVE r[i].sec <= r[j].sec
  <2>1. i \in DOMAIN l
    BY <1>1, <1>2
  <2>2. CASE j = Len(l) + 1
    BY <2>1, <2>2, <1>1 DEF Contents
  <2>3. CASE j # Len(l) + 1
    <3>1. j \in DOMAIN l
      BY <2>3, <1>1
    <3> QED  BY <2>1, <3>1, <1>1, <1>2 DEF Ordered
  <2> QED  BY <2>2, <2>3
<1> QED  BY <1>2 DEF r, Ordered

\* Leaving comments out keeps the order of the others.
LEMMA TrustedInOrder ==
  ASSUME NEW l \in Seq(Comments), Ordered(l)
  PROVE  Ordered(Trusted(l))
<1> DEFINE P(n) == Ordered(Trusted(SubSeq(l, 1, n)))
           G == {n \in 0 .. Len(l) : P(n)}
<1>1. Len(l) \in Nat
  OBVIOUS
<1>2. P(0)
  <2>1. SubSeq(l, 1, 0) = <<>>
    OBVIOUS
  <2>2. Ordered(<<>>)
    BY DEF Ordered
  <2> QED  BY <2>1, <2>2, EmptyTrusted
<1>3. ASSUME NEW n \in 1 .. Len(l), P(n - 1) PROVE P(n)
  <2> DEFINE a == SubSeq(l, 1, n - 1)
             e == l[n]
             b == SubSeq(l, 1, n)
             ta == Trusted(a)
  <2>1. a \in Seq(Comments) /\ e \in Comments /\ b = Append(a, e) /\ \A x \in Contents(a) : x.sec <= e.sec
    BY Prefix, OrderedPrefix
  <2>2. Ordered(ta)
    BY <1>3
  <2> HIDE DEF a, b, e
  <2>3. Trusted(b) = IF e.trusted THEN Append(ta, e) ELSE ta
    BY <2>1, TrustedSteps
  <2>4. ta \in Seq(Comments) /\ \A x \in Contents(ta) : x.sec <= e.sec
    BY <2>1, TrustedContents
  <2> HIDE DEF ta
  <2>5. Ordered(Append(ta, e))
    BY <2>1, <2>2, <2>4, AppendInOrder
  <2> QED  BY <2>2, <2>3, <2>5 DEF b
<1> HIDE DEF P
<1>4. Len(l) \in G
  <2>1. 0 \in G  BY <1>1, <1>2
  <2>2. \A n \in 1 .. Len(l) : n - 1 \in G => n \in G
    BY <1>3
  <2>3. \A n \in 0 .. Len(l) : n \in G
    BY <1>1, <2>1, <2>2, UpTo
  <2> QED  BY <1>1, <2>3
<1>5. SubSeq(l, 1, Len(l)) = l
  OBVIOUS
<1> QED  BY <1>4, <1>5 DEF P

\* The comments as a resolution goes through them.
Sorted(l) == SortClaimEvents(Trusted(l))

\* They are the trusted ones, in order.
LEMMA SortedIs ==
  ASSUME NEW l \in Seq(Comments)
  PROVE  /\ Sorted(l) \in Seq(Comments)
         /\ Contents(Sorted(l)) = {e \in Contents(l) : e.trusted}
         /\ Contents(l) \subseteq Comments
         /\ Ordered(l) => Ordered(Sorted(l))
<1>1. Trusted(l) \in Seq(Comments) /\ Contents(Trusted(l)) = {e \in Contents(l) : e.trusted}
  BY TrustedContents
<1>2. Contents(l) \subseteq Comments
  BY DEF Contents
<1>3. Sorted(l) \in Seq(Comments) /\ Contents(Sorted(l)) = Contents(Trusted(l))
  BY <1>1, SortContents DEF Sorted
<1>4. Ordered(l) => Ordered(Sorted(l))
  BY <1>1, TrustedInOrder, SortInOrder DEF Sorted
<1> QED  BY <1>1, <1>2, <1>3, <1>4

\* A new comment is put in behind all earlier ones, if it is trusted.
LEMMA SortedOfMore ==
  ASSUME NEW l \in Seq(Comments), Ordered(l), NEW e \in Comments, \A x \in Contents(l) : x.sec <= e.sec
  PROVE  \/ Sorted(Append(l, e)) = Sorted(l)
         \/ \E k \in 1 .. Len(Sorted(l)) + 1 :
              /\ PutIn(Sorted(Append(l, e)), Sorted(l), e, k)
              /\ \A q \in 0 .. Len(Sorted(l)) : (\A i \in 1 .. q : Sorted(l)[i].sec < e.sec) => k > q
<1> DEFINE tl == Trusted(l)
           s == Sorting(tl)
<1>1. Trusted(Append(l, e)) = IF e.trusted THEN Append(tl, e) ELSE tl
  BY TrustedSteps
<1>2. tl \in Seq(Comments) /\ \A x \in Contents(tl) : x.sec <= e.sec
  BY TrustedContents
<1>3. CASE ~e.trusted
  BY <1>1, <1>3 DEF Sorted
<1>4. CASE e.trusted
  <2>1. Sorted(Append(l, e)) = SortClaimEvents(Append(tl, e)) /\ Sorted(l) = SortClaimEvents(tl)
    BY <1>1, <1>4 DEF Sorted
  <2> HIDE DEF tl
  <2>2. s \in [seq : Seq(Comments), run : BOOLEAN] /\ Sorting(Append(tl, e)) = SortStep(s, e)
    BY <1>2, SortingSteps
  <2>3. Sorted(l) = s.seq /\ Sorted(Append(l, e)) = SortStep(s, e).seq
    BY <2>1, <2>2 DEF SortClaimEvents
  <2>4. Contents(s.seq) = Contents(tl)
    BY <1>2, <2>1, <2>3, SortContents
  <2> HIDE DEF s
  <2>5. \A x \in Contents(s.seq) : x.sec <= e.sec
    BY <1>2, <2>4
  <2>6. PICK k \in 1 .. Len(s.seq) + 1 :
           /\ PutIn(SortStep(s, e).seq, s.seq, e, k)
           /\ \A q \in 0 .. Len(s.seq) : (\A i \in 1 .. q : s.seq[i].sec < e.sec) => k > q
    BY <2>2, <2>5, SortStepPutsIn
  <2> QED  BY <2>3, <2>6
<1> QED  BY <1>3, <1>4

(* The first n comments of one sorted log are those of another.            *)
Keeps(r, s, n) == n <= Len(s) /\ n <= Len(r) /\ \A i \in 1 .. n : r[i] = s[i]

\* What is kept comes to the same claim.
LEMMA KeptPrefix ==
  ASSUME NEW r \in Seq(Comments), NEW s \in Seq(Comments), NEW n \in Nat, Keeps(r, s, n)
  PROVE  SubSeq(r, 1, n) = SubSeq(s, 1, n)
<1>1. n <= Len(s) /\ n <= Len(r) /\ \A i \in 1 .. n : r[i] = s[i]
  BY DEF Keeps
<1> QED  BY <1>1

\* No later comment gets before one of an earlier second.
LEMMA MoreKeeps ==
  ASSUME NEW l \in Seq(Comments), Ordered(l), NEW e \in Comments, \A x \in Contents(l) : x.sec <= e.sec,
         NEW n \in 1 .. Len(Sorted(l)), Sorted(l)[n].sec < e.sec
  PROVE  Keeps(Sorted(Append(l, e)), Sorted(l), n)
<1> DEFINE s == Sorted(l)
           r == Sorted(Append(l, e))
<1>1. s \in Seq(Comments) /\ Ordered(s)
  BY SortedIs
<1>2. CASE r = s
  BY <1>1, <1>2 DEF Keeps
<1>3. CASE \E k \in 1 .. Len(s) + 1 :
              /\ PutIn(r, s, e, k)
              /\ \A q \in 0 .. Len(s) : (\A i \in 1 .. q : s[i].sec < e.sec) => k > q
  <2>1. PICK k \in 1 .. Len(s) + 1 :
              /\ PutIn(r, s, e, k)
              /\ \A q \in 0 .. Len(s) : (\A i \in 1 .. q : s[i].sec < e.sec) => k > q
    BY <1>3
  <2> HIDE DEF s, r
  <2>2. n \in 1 .. Len(s) /\ s[n].sec < e.sec /\ Len(s) \in Nat
    BY <1>1 DEF s
  <2>3. ASSUME NEW i \in 1 .. n PROVE s[i].sec < e.sec
    <3>1. i \in DOMAIN s /\ n \in DOMAIN s /\ (i < n \/ i = n)
      BY <1>1, <2>2
    <3>2. s[i].sec \in Nat /\ s[n].sec \in Nat /\ e.sec \in Nat
      <4>1. s[i] \in Comments /\ s[n] \in Comments
        BY <1>1, <3>1
      <4> QED  BY <4>1, CommentFields
    <3>3. s[i].sec <= s[n].sec
      BY <1>1, <3>1, <3>2 DEF Ordered
    <3> QED  BY <2>2, <3>2, <3>3
  <2>4. k > n
    <3>1. n \in 0 .. Len(s)
      BY <2>2
    <3> QED  BY <2>1, <2>3, <3>1
  <2>5. n <= Len(s) /\ n <= Len(r) /\ \A i \in 1 .. n : r[i] = s[i]
    BY <2>1, <2>2, <2>4 DEF PutIn
  <2> QED  BY <2>5 DEF Keeps, r, s
<1>4. r = s \/ \E k \in 1 .. Len(s) + 1 :
              /\ PutIn(r, s, e, k)
              /\ \A q \in 0 .. Len(s) : (\A i \in 1 .. q : s[i].sec < e.sec) => k > q
  BY SortedOfMore
<1> QED  BY <1>2, <1>3, <1>4

\* Nor do any number of them: what a reading knows of earlier seconds stays.
LEMMA ViewKeeps ==
  ASSUME NEW l \in Seq(Comments), Ordered(l), NEW m \in 0 .. Len(l),
         NEW n \in 1 .. Len(Sorted(SubSeq(l, 1, m))),
         \A i \in m + 1 .. Len(l) : Sorted(SubSeq(l, 1, m))[n].sec < l[i].sec
  PROVE  Keeps(Sorted(l), Sorted(SubSeq(l, 1, m)), n)
<1> DEFINE S(j) == Sorted(SubSeq(l, 1, j))
           G == {j \in 0 .. Len(l) - m : Keeps(S(m + j), S(m), n)}
<1>0. Len(l) \in Nat /\ m \in Nat /\ Len(l) - m \in Nat /\ SubSeq(l, 1, m) \in Seq(Comments)
  OBVIOUS
<1>1. 0 \in G
  <2>1. S(m) \in Seq(Comments)
    BY <1>0, SortedIs
  <2>2. m + 0 = m
    BY <1>0
  <2>3. Keeps(S(m), S(m), n)
    BY <2>1 DEF Keeps
  <2> HIDE DEF S
  <2> QED  BY <1>0, <2>2, <2>3
<1>2. ASSUME NEW j \in 1 .. Len(l) - m, j - 1 \in G PROVE j \in G
  <2> DEFINE a == SubSeq(l, 1, m + j - 1)
             e == l[m + j]
             b == SubSeq(l, 1, m + j)
  <2>1. m + j \in 1 .. Len(l) /\ m + (j - 1) = m + j - 1 /\ m + j \in m + 1 .. Len(l)
    BY <1>0
  <2>2. /\ a \in Seq(Comments) /\ e \in Comments /\ b = Append(a, e) /\ Ordered(a)
        /\ \A x \in Contents(a) : x.sec <= e.sec
    BY <2>1, Prefix, OrderedPrefix
  <2>3. S(m + j) = Sorted(b) /\ S(m + (j - 1)) = Sorted(a)
    BY <2>1
  <2>4. Keeps(Sorted(a), S(m), n) /\ S(m)[n].sec < e.sec
    BY <1>2, <2>1, <2>3
  <2> HIDE DEF a, b, e, S
  <2>5. n \in 1 .. Len(Sorted(a)) /\ Sorted(a)[n] = S(m)[n]
    <3>1. Len(Sorted(a)) \in Nat /\ n \in 1 .. n
      BY <2>2, SortedIs
    <3> QED  BY <2>4, <3>1 DEF Keeps
  <2>6. Keeps(Sorted(b), Sorted(a), n)
    BY <2>2, <2>4, <2>5, MoreKeeps
  <2>7. Keeps(Sorted(b), S(m), n)
    BY <2>4, <2>6 DEF Keeps
  <2> QED  BY <2>3, <2>7
<1>3. \A j \in 0 .. Len(l) - m : j \in G
  <2> HIDE DEF G
  <2>1. \A j \in 1 .. Len(l) - m : j - 1 \in G => j \in G
    BY <1>2
  <2> QED  BY <1>0, <1>1, <2>1, UpTo
<1>4. Len(l) - m \in G /\ m + (Len(l) - m) = Len(l)
  BY <1>0, <1>3
<1>5. SubSeq(l, 1, Len(l)) = l
  OBVIOUS
<1>6. Keeps(S(m + (Len(l) - m)), S(m), n)
  BY <1>4
<1> QED  BY <1>4, <1>5, <1>6

\* Without handoffs it does not matter who resolves.
LEMMA ActiveForAll ==
  ASSUME NEW o1, NEW o2, NEW l \in Seq(Comments), \A e \in Contents(l) : e.kind # "handoff"
  PROVE  ActiveAfter(o1, l) = ActiveAfter(o2, l)
<1> DEFINE A(o, n) == ActiveAfter(o, SubSeq(l, 1, n))
           G == {n \in 0 .. Len(l) : A(o1, n) = A(o2, n)}
<1>1. Len(l) \in Nat
  OBVIOUS
<1>2. A(o1, 0) = A(o2, 0)
  BY ActivePrefix
<1>3. ASSUME NEW n \in 1 .. Len(l), n - 1 \in G PROVE n \in G
  <2>1. /\ l[n] \in Comments /\ l[n].kind # "handoff"
        /\ A(o1, n) = ApplyClaimEvent(o1, A(o1, n - 1), l[n])
        /\ A(o2, n) = ApplyClaimEvent(o2, A(o2, n - 1), l[n])
    BY ActivePrefix
  <2>2. A(o1, n - 1) = A(o2, n - 1)
    BY <1>3
  <2> HIDE DEF A
  <2>3. ASSUME NEW a PROVE ApplyClaimEvent(o1, a, l[n]) = ApplyClaimEvent(o2, a, l[n])
    BY <2>1, Zenon DEF ApplyClaimEvent
  <2>4. A(o1, n) = A(o2, n)
    BY <2>1, <2>2, <2>3
  <2> QED  BY <2>4
<1>4. \A n \in 0 .. Len(l) : n \in G
  <2>1. 0 \in G  BY <1>1, <1>2
  <2> HIDE DEF G
  <2>2. \A n \in 1 .. Len(l) : n - 1 \in G => n \in G
    BY <1>3
  <2> QED  BY <1>1, <2>1, <2>2, UpTo
<1>5. A(o1, Len(l)) = A(o2, Len(l))
  BY <1>1, <1>4
<1>6. SubSeq(l, 1, Len(l)) = l
  OBVIOUS
<1> QED  BY <1>5, <1>6

(* A claim that is active and beating in time stays active.                *)
IsBeat(e, c) == e.trusted /\ e.kind = "claim" /\ e.id = c /\ e.branch = 1

\* Between two beats no comment finds the claim stale, and none of the
\* others takes an active claim that is not.
LEMMA BeatingStaysActive ==
  ASSUME NEW S \in Seq(Comments), Ordered(S), NEW opt, NEW c \in Nat \ {None}, NEW n \in 1 .. Len(S),
         IsBeat(S[n], c),
         ActiveAfter(opt, SubSeq(S, 1, n)) = Activate(S[n]),
         \A e \in Contents(S) : e.kind # "handoff" /\ (e.kind = "release" => e.id # c),
         \A e \in Contents(S) : e.sec > S[n].sec =>
            \E b \in Contents(S) : IsBeat(b, c) /\ b.sec < e.sec /\ e.sec < b.sec + StaleAge
  PROVE  ActiveAfter(opt, S).id = c /\ ActiveAfter(opt, S).branch = 1
<1> DEFINE A(j) == ActiveAfter(opt, SubSeq(S, 1, j))
           P(j) == /\ A(j).id = c /\ A(j).branch = 1 /\ A(j).sec \in Nat /\ A(j).sec >= S[n].sec
                   /\ \A i \in 1 .. j : IsBeat(S[i], c) => S[i].sec <= A(j).sec
           G == {j \in 0 .. Len(S) - n : P(n + j)}
<1>1. Len(S) \in Nat /\ n \in Nat /\ Len(S) - n \in Nat /\ DOMAIN S = 1 .. Len(S)
  OBVIOUS
<1>2. \A i \in 1 .. Len(S) : S[i] \in Comments /\ S[i].sec \in Nat /\ S[i] \in Contents(S)
  BY CommentFields DEF Contents
<1>3. \A i, j \in 1 .. Len(S) : i <= j => S[i].sec <= S[j].sec
  BY <1>1, <1>2 DEF Ordered
<1>4. P(n)
  <2>1. A(n).id = c /\ A(n).branch = 1 /\ A(n).sec = S[n].sec
    BY DEF Activate, IsBeat
  <2> HIDE DEF A
  <2>2. \A i \in 1 .. n : S[i].sec <= S[n].sec
    BY <1>1, <1>3
  <2> QED  BY <1>2, <2>1, <2>2
<1>5. StaleAge \in Nat \ {0}
  BY ClaimLogAssumption
<1>6. ASSUME NEW j \in n + 1 .. Len(S), P(j - 1) PROVE P(j)
  <2>1. j \in 1 .. Len(S) /\ j - 1 \in 1 .. Len(S)
    BY <1>1
  <2>2. /\ S[j] \in Comments /\ S[j] \in Contents(S) /\ A(j - 1) \in Actives
        /\ A(j) = ApplyClaimEvent(opt, A(j - 1), S[j])
    BY <2>1, ActivePrefix
  <2> PICK a : a = A(j - 1)
    OBVIOUS
  <2> PICK e : e = S[j]
    OBVIOUS
  <2>3. /\ a \in Actives /\ a.id = c /\ a.branch = 1 /\ a.sec \in Nat /\ a.sec >= S[n].sec
        /\ \A i \in 1 .. j - 1 : IsBeat(S[i], c) => S[i].sec <= a.sec
    BY <1>6, <2>2
  <2>4. A(j) = ApplyClaimEvent(opt, a, e)
    BY <2>2
  <2> HIDE DEF A
  <2>5. e \in Comments /\ e \in Contents(S) /\ e.sec \in Nat /\ S[n].sec <= e.sec /\ S[n].sec \in Nat
    BY <1>1, <1>2, <1>3, <2>1
  <2>6. a # NoClaim
    BY <2>3 DEF NoClaim
  <2>7. CASE IsBeat(e, c)
    <3>1. A(j) = [a EXCEPT !.sec = e.sec]
      BY <2>3, <2>4, <2>6, <2>7 DEF IsBeat, ApplyClaimEvent, ApplyClaim
    <3>2. A(j).id = c /\ A(j).branch = 1 /\ A(j).sec = e.sec
      BY <2>3, <3>1 DEF Actives
    <3>3. \A i \in 1 .. j : S[i].sec <= e.sec
      BY <1>1, <1>3, <2>1
    <3> QED  BY <2>5, <3>2, <3>3
  <2>8. CASE ~IsBeat(e, c)
    <3>1. A(j) = a
      <4>1. CASE ~e.trusted
        BY <2>4, <4>1 DEF ApplyClaimEvent
      <4>2. CASE e.trusted /\ e.kind = "claim" /\ e.id = c
        <5>1. e.branch # 1
          BY <2>8, <4>2 DEF IsBeat
        <5> QED  BY <2>3, <2>4, <2>6, <4>2, <5>1 DEF ApplyClaimEvent, ApplyClaim
      <4>3. CASE e.trusted /\ e.kind = "claim" /\ e.id # c
        <5>1. ~IsStale(a, e.sec)
          <6> SUFFICES ASSUME e.sec >= a.sec + StaleAge PROVE FALSE
            BY DEF IsStale
          <6>1. e.sec > S[n].sec
            BY <1>5, <2>3, <2>5
          <6>2. PICK b \in Contents(S) : IsBeat(b, c) /\ b.sec < e.sec /\ e.sec < b.sec + StaleAge
            BY <2>5, <6>1
          <6>3. PICK i \in 1 .. Len(S) : b = S[i]
            BY <1>1 DEF Contents
          <6>4. i < j
            <7> SUFFICES ASSUME j <= i PROVE FALSE
              BY <1>1
            <7>1. S[j].sec <= S[i].sec
              BY <1>3, <2>1
            <7> QED  BY <6>2, <6>3, <7>1, <1>2, <2>1
          <6>5. b.sec <= a.sec /\ b.sec \in Nat
            BY <1>1, <1>2, <2>1, <2>3, <6>2, <6>3, <6>4
          <6> QED  BY <1>5, <2>3, <2>5, <6>2, <6>5
        <5> QED  BY <2>3, <2>4, <2>6, <4>3, <5>1 DEF ApplyClaimEvent, ApplyClaim
      <4>4. CASE e.trusted /\ e.kind = "release"
        <5>1. e.id # a.id
          BY <2>3, <2>5, <4>4
        <5> QED  BY <2>4, <4>4, <5>1 DEF ApplyClaimEvent
      <4>5. CASE e.trusted /\ e.kind \notin {"claim", "release"}
        <5>1. e.kind # "handoff"
          BY <2>5
        <5> QED  BY <2>4, <4>5, <5>1 DEF ApplyClaimEvent
      <4> QED  BY <4>1, <4>2, <4>3, <4>4, <4>5
    <3>2. \A i \in 1 .. j : IsBeat(S[i], c) => S[i].sec <= a.sec
      <4>1. \A i \in 1 .. j : i \in 1 .. j - 1 \/ i = j
        BY <1>1, <2>1
      <4> QED  BY <2>3, <2>8, <4>1
    <3> QED  BY <2>3, <3>1, <3>2
  <2> QED  BY <2>7, <2>8
<1> HIDE DEF P
<1>7. \A j \in 0 .. Len(S) - n : j \in G
  <2>1. 0 \in G
    <3>1. n + 0 = n  BY <1>1
    <3> QED  BY <1>1, <1>4, <3>1
  <2>2. ASSUME NEW j \in 1 .. Len(S) - n, j - 1 \in G PROVE j \in G
    <3>1. n + j \in n + 1 .. Len(S) /\ n + (j - 1) = n + j - 1 /\ j \in 0 .. Len(S) - n
      BY <1>1
    <3>2. P(n + j - 1)
      BY <2>2, <3>1
    <3> QED  BY <3>1, <3>2, <1>6
  <2> HIDE DEF G
  <2> QED  BY <1>1, <2>1, <2>2, UpTo
<1>8. P(Len(S))
  <2>1. Len(S) - n \in 0 .. Len(S) - n /\ n + (Len(S) - n) = Len(S)
    BY <1>1
  <2>2. Len(S) - n \in G
    BY <1>7, <2>1
  <2> QED  BY <2>1, <2>2
<1>9. SubSeq(S, 1, Len(S)) = S
  OBVIOUS
<1> QED  BY <1>8, <1>9 DEF P

-----------------------------------------------------------------------------
(* The inductive invariant.                                                *)

\* What the variables are.
TypeOK ==
    /\ log \in Seq(Comments) /\ now \in Nat
    /\ pr \in [open : BOOLEAN, firstCommit : Nat]
    /\ plan \in [id : Nat, branch : Nat, withPr : BOOLEAN]
    /\ phase \in [Sessions -> Phases]
    /\ id \in [Sessions -> Nat] /\ sup \in [Sessions -> Nat]
    /\ drawn \in [Sessions -> Nat] /\ posted \in [Sessions -> Nat]
    /\ beat \in [Sessions -> [last : Nat, late : BOOLEAN]]

\* Comments are listed in the order of their seconds, the last one not after now.
InOrder == Ordered(log) /\ \A e \in Contents(log) : e.sec <= now

\* A session works under an id that it drew, or adopted after a handoff.
Drawn(s) == drawn[s] \in DOMAIN Ids[s] /\ id[s] = Ids[s][drawn[s]]

\* Which of the two it is, by the phase that the session is in.
IdsAreDrawn ==
    \A s \in Sessions :
        /\ drawn[s] \in 0 .. Len(Ids[s])
        /\ \/ Drawn(s)
           \/ id[s] = None /\ phase[s] \in {"idle", "gone"}
           \/ id[s] = HandoffId /\ HandedOver
        /\ phase[s] \in {"posting", "posted", "withdrawing"} => Drawn(s)
        /\ phase[s] \in {"adopting", "adopted"} => id[s] = HandoffId

\* A claim id that is not drawn, or not posted, yet is in no comment.
IdsAreFresh ==
    \A s \in Sessions : \A k \in DOMAIN Ids[s] : \A e \in Contents(log) :
        e.kind \in {"claim", "release"} /\ e.id = Ids[s][k] =>
            k <= drawn[s] /\ (phase[s] = "posting" => k < drawn[s])

\* Nobody works under the successor's id before there is a handoff.
SuccessorIsHandedOver ==
    \A e \in Contents(log) : e.kind = "claim" /\ e.id = HandoffId => HandedOver

\* The beats of a session that are among the comments.
Beats(s) == {e \in Contents(log) : IsBeat(e, id[s])}

\* Sessions that hold a claim of their own, or are about to verify it.
Beating(s) == phase[s] \in {"posted", "owner", "validated"} /\ id[s] # HandoffId

\* A session that posted a claim of its own has not released it, and has
\* kept beating since unless it knows that it was late.
KeptBeating(s) ==
    /\ \A e \in Contents(log) : e.kind = "release" => e.id # id[s]
    /\ posted[s] <= beat[s].last /\ beat[s].last <= now
    /\ \E e \in Beats(s) : e.sec = beat[s].last
    /\ ~beat[s].late => \A x \in posted[s] + 1 .. beat[s].last :
          \E e \in Beats(s) : e.sec < x /\ x < e.sec + StaleAge
    /\ phase[s] = "posted" => \A e \in Contents(log) :
          e.kind = "claim" /\ e.id = id[s] => e.branch = 1 /\ e.sec = posted[s]

\* Every such session has kept beating.
IsBeating == \A s \in Sessions : Beating(s) => KeptBeating(s)

\* Where the claim of an owner became active, no comment to come gets before.
RootedAt(s, n) ==
    /\ IsBeat(Sorted(log)[n], id[s]) /\ Sorted(log)[n].sec = posted[s]
    /\ ActiveAfter(Strict(pr), SubSeq(Sorted(log), 1, n)) = Activate(Sorted(log)[n])

\* The claim of an owner is rooted, unless it was handed over.
IsRooted ==
    \A s \in Sessions :
        phase[s] \in {"owner", "validated"} /\ id[s] # HandoffId /\ ~HandedOver =>
            posted[s] < now /\ \E n \in DOMAIN Sorted(log) : RootedAt(s, n)

\* An adopter of the successor claim has posted its nonce.
IsAdopted ==
    /\ \A e \in Contents(log) : e.kind = "nonce" => e.nonce # NoNonce
    /\ \A s \in Sessions : phase[s] \in {"adopted", "owner", "validated"} /\ id[s] = HandoffId =>
          \E e \in Contents(log) :
             e.trusted /\ e.kind = "nonce" /\ e.id = HandoffId /\ e.nonce = Nonce[s]

\* The invariant is inductive with all of these together.
IInv ==
    /\ TypeOK /\ InOrder /\ IdsAreDrawn /\ IdsAreFresh /\ SuccessorIsHandedOver
    /\ IsBeating /\ IsRooted /\ IsAdopted

\* What the assumptions say of the constants.
LEMMA Constants ==
  /\ StaleAge \in Nat \ {0} /\ None = 0
  /\ OldId \in Nat /\ HandoffId \in Nat /\ OldId # None /\ HandoffId # None /\ OldId # HandoffId
  /\ \A s \in Sessions : Len(Ids[s]) \in Nat /\ DOMAIN Ids[s] = 1 .. Len(Ids[s])
  /\ \A s \in Sessions : \A k \in DOMAIN Ids[s] :
        Ids[s][k] \in Nat /\ Ids[s][k] # None /\ Ids[s][k] # OldId /\ Ids[s][k] # HandoffId
  /\ \A s, t \in Sessions : \A i \in DOMAIN Ids[s], j \in DOMAIN Ids[t] :
        Ids[s][i] = Ids[t][j] => s = t /\ i = j
  /\ \A s \in Sessions : Nonce[s] \in Nat /\ Nonce[s] # NoNonce
  /\ \A s, t \in Sessions : s # t => Nonce[s] # Nonce[t]
<1>1. StaleAge \in Nat \ {0} /\ None = 0
  BY ClaimLogAssumption DEF None
<1>2. OldId \in Nat /\ HandoffId \in Nat /\ OldId # None /\ HandoffId # None /\ OldId # HandoffId
  BY ClaimProtocolAssumption
<1>3. ASSUME NEW s \in Sessions
      PROVE  /\ Len(Ids[s]) \in Nat /\ DOMAIN Ids[s] = 1 .. Len(Ids[s])
             /\ \A k \in DOMAIN Ids[s] : Ids[s][k] \in Nat \ {None, OldId, HandoffId}
  <2>1. Ids[s] \in Seq(Nat \ {None, OldId, HandoffId})
    BY ClaimProtocolAssumption
  <2> QED  BY <2>1
<1>4. \A s, t \in Sessions : \A i \in DOMAIN Ids[s], j \in DOMAIN Ids[t] :
        Ids[s][i] = Ids[t][j] => s = t /\ i = j
  BY ClaimProtocolAssumption
<1>5. /\ \A s \in Sessions : Nonce[s] \in Nat /\ Nonce[s] # NoNonce
      /\ \A s, t \in Sessions : s # t => Nonce[s] # Nonce[t]
  BY ClaimProtocolAssumption
<1> QED  BY <1>1, <1>2, <1>3, <1>4, <1>5

\* The comments that are posted are comments.
LEMMA PostedComments ==
  ASSUME NEW i \in Nat, NEW u \in Nat, NEW b \in Nat, NEW sec \in Nat, NEW o \in Nat, NEW w \in BOOLEAN,
         NEW tr \in BOOLEAN, NEW k \in {"legacyClaim", "legacyRelease"}
  PROVE  /\ ClaimBy(i, u, b, sec) \in Comments /\ ReleaseOf(i, sec) \in Comments
         /\ NonceOf(i, u, sec) \in Comments /\ HandoffOf(i, o, b, w, sec) \in Comments
         /\ Legacy(k, sec) \in Comments /\ Remark(tr, sec) \in Comments
  BY DEF ClaimBy, ReleaseOf, NonceOf, HandoffOf, Legacy, Remark, Comments

\* The invariant holds at the start.
LEMMA InitIInv == Init => IInv
<1> SUFFICES ASSUME Init PROVE IInv
  OBVIOUS
<1> USE DEF Init
<1>1. log \in Seq(Comments) /\ Ordered(log) /\ (\A e \in Contents(log) : e.sec <= now) /\ now \in Nat
  <2> DEFINE lc == Legacy("legacyClaim", 0)
             lr == Legacy("legacyRelease", 1)
             cl == ClaimBy(OldId, None, 1, 0)
  <2>1. lc \in Comments /\ lr \in Comments /\ cl \in Comments /\ lc.sec = 0 /\ lr.sec = 1 /\ cl.sec = 0
    BY PostedComments, Constants DEF Legacy, ClaimBy
  <2> HIDE DEF lc, lr, cl
  <2>2. log \in {<<>>, <<lc>>, <<lc, lr>>, <<cl>>}
    BY DEF OldLogs, lc, lr, cl
  <2>3. CASE log = <<>>
    BY <2>3 DEF Ordered, Contents
  <2>4. CASE log = <<lc>>
    BY <2>1, <2>4 DEF Ordered, Contents
  <2>5. CASE log = <<cl>>
    BY <2>1, <2>5 DEF Ordered, Contents
  <2>6. CASE log = <<lc, lr>>
    <3>1. Len(log) = 2 /\ DOMAIN log = {1, 2} /\ log[1] = lc /\ log[2] = lr /\ log \in Seq(Comments)
      BY <2>1, <2>6
    <3>2. now = 1
      BY <3>1
    <3> QED  BY <2>1, <3>1, <3>2 DEF Ordered, Contents
  <2> QED  BY <2>2, <2>3, <2>4, <2>5, <2>6
<1>2. TypeOK
  BY <1>1, Constants DEF TypeOK, NoPr, NoPlan, Phases
<1>3. InOrder
  BY <1>1 DEF InOrder
<1>4. IdsAreDrawn
  BY Constants DEF IdsAreDrawn
<1>5. IdsAreFresh
  <2>1. \A e \in Contents(log) : e.kind \in {"claim", "release"} => e.id = OldId
    BY DEF OldLogs, Contents, Legacy, ClaimBy
  <2> QED  BY <2>1, Constants DEF IdsAreFresh
<1>6. IsBeating /\ IsRooted
  BY DEF IsBeating, Beating, IsRooted
<1>7. \A e \in Contents(log) : e.kind # "nonce" /\ (e.kind = "claim" => e.id = OldId)
  BY DEF OldLogs, Contents, Legacy, ClaimBy
<1>8. SuccessorIsHandedOver /\ IsAdopted
  BY <1>7, Constants DEF SuccessorIsHandedOver, IsAdopted
<1> QED  BY <1>2, <1>3, <1>4, <1>5, <1>6, <1>8 DEF IInv

\* A handoff is one among the comments.
LEMMA HandedOverIs ==
  ASSUME log \in Seq(Comments)
  PROVE  HandedOver <=> \E e \in Contents(log) : e.kind = "handoff"
  BY DEF HandedOver, Contents

\* One more comment, of this second.
LEMMA Grows ==
  ASSUME TypeOK, InOrder, NEW e \in Comments, e.sec = now, log' = Append(log, e)
  PROVE  /\ log' \in Seq(Comments) /\ Contents(log') = Contents(log) \cup {e}
         /\ Ordered(log') /\ \A x \in Contents(log') : x.sec <= now
         /\ HandedOver' <=> HandedOver \/ e.kind = "handoff"
<1>1. log \in Seq(Comments) /\ now \in Nat /\ Ordered(log) /\ \A x \in Contents(log) : x.sec <= e.sec
  BY DEF TypeOK, InOrder
<1>2. Contents(log') = Contents(log) \cup {e} /\ Ordered(log') /\ log' \in Seq(Comments)
  BY <1>1, ContentsSteps, AppendInOrder
<1>3. \A x \in Contents(log') : x.sec <= now
  BY <1>1, <1>2
<1>4. HandedOver <=> \E x \in Contents(log) : x.kind = "handoff"
  BY <1>1, HandedOverIs
<1>5. HandedOver' <=> \E x \in Contents(log') : x.kind = "handoff"
  BY <1>2 DEF HandedOver, Contents
<1> QED  BY <1>2, <1>3, <1>4, <1>5

\* It leaves alone what is rooted in an earlier second.
LEMMA RootGrows ==
  ASSUME TypeOK, InOrder, NEW e \in Comments, e.sec = now, log' = Append(log, e),
         NEW s \in Sessions, posted[s] < now, NEW n \in DOMAIN Sorted(log), RootedAt(s, n),
         id'[s] = id[s], posted'[s] = posted[s], pr' = pr
  PROVE  n \in DOMAIN Sorted(log') /\ RootedAt(s, n)'
<1> DEFINE S == Sorted(log)
           R == Sorted(Append(log, e))
<1>1. log \in Seq(Comments) /\ Ordered(log) /\ \A x \in Contents(log) : x.sec <= e.sec
  BY DEF TypeOK, InOrder
<1>2. S \in Seq(Comments) /\ R \in Seq(Comments)
  <2>1. Append(log, e) \in Seq(Comments)
    BY <1>1
  <2> QED  BY <1>1, <2>1, SortedIs
<1>3. n \in 1 .. Len(S) /\ n \in Nat /\ IsBeat(S[n], id[s]) /\ S[n].sec = posted[s]
  BY <1>2 DEF RootedAt
<1>4. Keeps(R, S, n)
  BY <1>1, <1>3, MoreKeeps
<1>5. ActiveAfter(Strict(pr), SubSeq(S, 1, n)) = Activate(S[n])
  BY DEF RootedAt
<1> HIDE DEF S, R
<1>6. SubSeq(R, 1, n) = SubSeq(S, 1, n)
  BY <1>2, <1>3, <1>4, KeptPrefix
<1>7. R[n] = S[n] /\ n \in DOMAIN R
  BY <1>2, <1>3, <1>4 DEF Keeps
<1>8. Sorted(log') = R
  BY DEF R
<1>9. /\ IsBeat(R[n], id[s]) /\ R[n].sec = posted[s]
      /\ ActiveAfter(Strict(pr), SubSeq(R, 1, n)) = Activate(R[n])
  BY <1>3, <1>5, <1>6, <1>7
<1> QED  BY <1>7, <1>8, <1>9 DEF RootedAt

\* What a session reads is the first comments, all those of earlier seconds.
LEMMA ViewsAre ==
  ASSUME TypeOK, NEW view \in Views
  PROVE  /\ view \in Seq(Comments) /\ Contents(view) \subseteq Contents(log)
         /\ \E m \in 0 .. Len(log) :
               /\ view = SubSeq(log, 1, m)
               /\ \A i \in DOMAIN log : log[i].sec < now => i <= m
<1>1. log \in Seq(Comments) /\ Len(log) \in Nat
  BY DEF TypeOK
<1>2. PICK m \in 0 .. Len(log) :
         view = SubSeq(log, 1, m) /\ \A i \in DOMAIN log : log[i].sec < now => i <= m
  BY DEF Views
<1>3. SubSeq(log, 1, m) \in Seq(Comments)
  BY <1>1
<1>4. DOMAIN SubSeq(log, 1, m) \subseteq DOMAIN log
      /\ \A i \in DOMAIN SubSeq(log, 1, m) : SubSeq(log, 1, m)[i] = log[i]
  BY <1>1
<1> QED  BY <1>2, <1>3, <1>4 DEF Contents

-----------------------------------------------------------------------------
(* Every step keeps the invariant: first the types, ...                    *)
LEMMA TypeStep ==
  ASSUME TypeOK, Next
  PROVE  TypeOK'
<1> USE DEF Goto, Post, TypeOK, Phases
<1>1. ASSUME NEW s \in Sessions, ReadGate(s) PROVE TypeOK'
  <2>1. drawn[s] + 1 \in DOMAIN Ids[s] /\ Ids[s][drawn[s] + 1] \in Nat
    BY <1>1, Constants DEF ReadGate
  <2>2. drawn'[s] = drawn[s] + 1 /\ id' = [id EXCEPT ![s] = Ids[s][drawn[s] + 1]]
    BY <1>1 DEF ReadGate
  <2>3. sup' \in [Sessions -> Nat]
    <3>1. PICK view \in Views :
             sup' = [sup EXCEPT ![s] = IF FreshClaimGate(view, pr, now).verdict = "claimable" THEN None
                                       ELSE FreshClaimGate(view, pr, now).winner]
      BY <1>1 DEF ReadGate
    <3>2. view \in Seq(Comments)
      BY ViewsAre
    <3>3. FreshClaimGate(view, pr, now).winner = ActiveAfter(Strict(pr), Sorted(view)).id
      BY DEF FreshClaimGate, ResolveActiveClaim, Sorted
    <3>4. Sorted(view) \in Seq(Comments)
      BY <3>2, SortedIs
    <3>5. ActiveAfter(Strict(pr), Sorted(view)) \in Actives
      <4> DEFINE c == [kind |-> "remark", sec |-> 0, trusted |-> TRUE]
      <4>1. c \in Comments  BY DEF Comments
      <4> HIDE DEF c
      <4> QED  BY <3>4, <4>1, ActiveAfterSteps
    <3>6. FreshClaimGate(view, pr, now).winner \in Nat
      BY <3>3, <3>5 DEF Actives
    <3> QED  BY <3>1, <3>6, Constants
  <2>4. id' \in [Sessions -> Nat]
    BY <2>1, <2>2
  <2>5. drawn' \in [Sessions -> Nat]
    BY <1>1 DEF ReadGate
  <2>6. phase' \in [Sessions -> Phases]
    BY <1>1 DEF ReadGate
  <2>7. UNCHANGED <<log, now, pr, plan, posted, beat>>
    BY <1>1 DEF ReadGate
  <2> QED  BY <2>3, <2>4, <2>5, <2>6, <2>7
<1>2. ASSUME NEW s \in Sessions, PostClaim(s) PROVE TypeOK'
  <2>1. ClaimBy(id[s], sup[s], 1, now) \in Comments
    BY PostedComments
  <2> QED  BY <1>2, <2>1 DEF PostClaim, world
<1>3. ASSUME NEW s \in Sessions, Verify(s) PROVE TypeOK'
  BY <1>3 DEF Verify, world, mind
<1>4. ASSUME NEW s \in Sessions, Release(s) PROVE TypeOK'
  <2>1. ReleaseOf(id[s], now) \in Comments
    BY PostedComments
  <2> QED  BY <1>4, <2>1 DEF Release, world, mind
<1>5. ASSUME NEW s \in Sessions, WalkAway(s) PROVE TypeOK'
  BY <1>5 DEF WalkAway, world, mind
<1>6. ASSUME NEW s \in Sessions, Revalidate(s) PROVE TypeOK'
  BY <1>6 DEF Revalidate, world, mind
<1>7. ASSUME NEW s \in Sessions, Heartbeat(s) PROVE TypeOK'
  <2>1. PICK branch \in Branches :
           /\ Post(ClaimBy(id[s], sup[s], branch, now))
           /\ beat' = [beat EXCEPT ![s] =
                IF branch # 1 THEN @
                ELSE [last |-> now, late |-> @.late \/ now >= @.last + StaleAge]]
    BY <1>7 DEF Heartbeat
  <2>2. branch \in Nat /\ ClaimBy(id[s], sup[s], branch, now) \in Comments
    BY WorldAssumption, PostedComments
  <2>3. log' \in Seq(Comments)
    BY <2>1, <2>2
  <2>4. beat' \in [Sessions -> [last : Nat, late : BOOLEAN]]
    <3> DEFINE l == beat[s].late \/ now >= beat[s].last + StaleAge
    <3>1. l \in BOOLEAN
      OBVIOUS
    <3> HIDE DEF l
    <3>2. beat' = [beat EXCEPT ![s] = IF branch # 1 THEN @ ELSE [last |-> now, late |-> l]]
      BY <2>1 DEF l
    <3> QED  BY <3>1, <3>2
  <2> QED  BY <1>7, <2>3, <2>4 DEF Heartbeat, world
<1>8. ASSUME NEW s \in Sessions, OpenPr(s) PROVE TypeOK'
  BY <1>8 DEF OpenPr, mind
<1>9. ASSUME NEW s \in Sessions, Finish(s) PROVE TypeOK'
  <2>1. ReleaseOf(id[s], now) \in Comments
    BY PostedComments
  <2> QED  BY <1>9, <2>1 DEF Finish, world, mind
<1>10. ASSUME NEW s \in Sessions, Crash(s) PROVE TypeOK'
  BY <1>10 DEF Crash, world, mind
<1>11. CASE PlanHandoff
  <2>1. PICK view \in Views :
           plan' = [id |-> ResolveActiveClaim(Lenient(NoPr), view).id,
                    branch |-> ResolveActiveClaim(Lenient(NoPr), view).branch, withPr |-> pr.open]
    BY <1>11 DEF PlanHandoff
  <2>2. ResolveActiveClaim(Lenient(NoPr), view) \in Actives
    <3>1. view \in Seq(Comments)
      BY ViewsAre
    <3>2. SortClaimEvents(view) \in Seq(Comments)
      BY <3>1, SortContents
    <3> DEFINE c == [kind |-> "remark", sec |-> 0, trusted |-> TRUE]
    <3>3. c \in Comments  BY DEF Comments
    <3> HIDE DEF c
    <3> QED  BY <3>2, <3>3, ActiveAfterSteps DEF ResolveActiveClaim
  <2>3. plan' \in [id : Nat, branch : Nat, withPr : BOOLEAN]
    BY <2>1, <2>2 DEF Actives
  <2> QED  BY <1>11, <2>3 DEF PlanHandoff, mind
<1>12. CASE PostHandoff
  <2>1. HandoffOf(plan.id, HandoffId, plan.branch, plan.withPr, now) \in Comments
    BY PostedComments, Constants
  <2>2. NoPlan \in [id : Nat, branch : Nat, withPr : BOOLEAN]
    BY DEF NoPlan, None
  <2> QED  BY <1>12, <2>1, <2>2 DEF PostHandoff, mind
<1>13. ASSUME NEW s \in Sessions, Adopt(s) PROVE TypeOK'
  <2>1. PICK view \in Views :
           /\ sup' = [sup EXCEPT ![s] = ActiveIn(view).sup]
           /\ beat' = [beat EXCEPT ![s] = [last |-> ActiveIn(view).sec, late |-> FALSE]]
    BY <1>13 DEF Adopt
  <2>2. ActiveIn(view) \in Actives
    <3>1. view \in Seq(Comments)
      BY ViewsAre
    <3>2. ActiveIn(view) = ActiveAfter(Strict(pr), Sorted(view)) /\ Sorted(view) \in Seq(Comments)
      BY <3>1, SortedIs DEF ActiveIn, ResolveActiveClaim, Sorted
    <3> DEFINE c == [kind |-> "remark", sec |-> 0, trusted |-> TRUE]
    <3>3. c \in Comments  BY DEF Comments
    <3> HIDE DEF c
    <3> QED  BY <3>2, <3>3, ActiveAfterSteps
  <2>3. sup' \in [Sessions -> Nat] /\ beat' \in [Sessions -> [last : Nat, late : BOOLEAN]]
    BY <2>1, <2>2 DEF Actives
  <2>4. id' \in [Sessions -> Nat]
    BY <1>13, Constants DEF Adopt
  <2> QED  BY <1>13, <2>3, <2>4 DEF Adopt, world
<1>14. ASSUME NEW s \in Sessions, PostNonce(s) PROVE TypeOK'
  <2>1. NonceOf(id[s], Nonce[s], now) \in Comments
    BY PostedComments, Constants
  <2> QED  BY <1>14, <2>1 DEF PostNonce, world
<1>15. ASSUME NEW s \in Sessions, VerifyNonce(s) PROVE TypeOK'
  BY <1>15 DEF VerifyNonce, world, mind
<1>16. CASE Comment
  <2>1. PICK tr \in Strangers : Post(Remark(tr, now))
    BY <1>16 DEF Comment
  <2>2. Remark(tr, now) \in Comments
    BY WorldAssumption, PostedComments
  <2> QED  BY <1>16, <2>1, <2>2 DEF Comment, world, mind
<1>17. CASE Tick
  BY <1>17 DEF Tick, mind
<1> QED  BY <1>1, <1>2, <1>3, <1>4, <1>5, <1>6, <1>7, <1>8, <1>9, <1>10, <1>11, <1>12,
            <1>13, <1>14, <1>15, <1>16, <1>17 DEF Next, Session

(* What a step that posts a comment does, ...                              *)
Posts(e) ==
    /\ e \in Comments /\ e.sec = now /\ log' = Append(log, e)
    /\ now' = now /\ pr' = pr /\ id' = id /\ drawn' = drawn

\* The step does not touch session t.
SameFor(t) == phase'[t] = phase[t] /\ posted'[t] = posted[t] /\ beat'[t] = beat[t]
\* A comment of session s.
PostsBy(s, e) == Posts(e) /\ \A t \in Sessions \ {s} : SameFor(t)

\* A claim, ...
Claiming(s, e) ==
    /\ PostsBy(s, e) /\ IsBeat(e, id[s])
    /\ phase[s] = "posting" /\ phase'[s] = "posted"
    /\ posted'[s] = now /\ beat'[s].last = now

\* ... a heartbeat, on the claimed branch or another, ...
Refreshing(s, e) ==
    /\ PostsBy(s, e) /\ e.trusted /\ e.kind = "claim" /\ e.id = id[s]
    /\ phase[s] = "validated" /\ phase'[s] = "owner" /\ posted'[s] = posted[s]
    /\ \/ e.branch # 1 /\ beat'[s] = beat[s]
       \/ e.branch = 1 /\ beat'[s].last = now
          /\ (~beat'[s].late => ~beat[s].late /\ now < beat[s].last + StaleAge)

\* ... a release, ...
Releasing(s, e) ==
    /\ PostsBy(s, e) /\ e.kind = "release" /\ e.id = id[s]
    /\ phase[s] \in {"withdrawing", "lost", "validated"} /\ phase'[s] \in {"idle", "done"}

\* ... a nonce, ...
Activating(s, e) ==
    /\ PostsBy(s, e) /\ e.trusted /\ e.kind = "nonce" /\ e.id = id[s] /\ e.nonce = Nonce[s]
    /\ phase[s] = "adopting" /\ phase'[s] = "adopted"

\* ... or a comment of nobody who takes part.
Saying(e) == Posts(e) /\ e.kind \in {"handoff", "remark"} /\ \A t \in Sessions : SameFor(t)

\* ... by the action it is.
LEMMA PostingIs ==
  ASSUME TypeOK, NEW s \in Sessions
  PROVE  /\ PostClaim(s) => \E e \in Comments : Claiming(s, e)
         /\ Heartbeat(s) => \E e \in Comments : Refreshing(s, e)
         /\ Release(s) \/ Finish(s) => \E e \in Comments : Releasing(s, e)
         /\ PostNonce(s) => \E e \in Comments : Activating(s, e)
<1> USE DEF Goto, Post, TypeOK, PostsBy, Posts, SameFor
<1>1. ASSUME PostClaim(s) PROVE \E e \in Comments : Claiming(s, e)
  <2> DEFINE e == ClaimBy(id[s], sup[s], 1, now)
  <2>1. e \in Comments /\ e.sec = now /\ IsBeat(e, id[s])
    BY PostedComments DEF ClaimBy, IsBeat
  <2>2. log' = Append(log, e)
    BY <1>1 DEF PostClaim
  <2> HIDE DEF e
  <2>9. Claiming(s, e)
    BY <1>1, <2>1, <2>2 DEF PostClaim, world, Claiming
  <2> QED  BY <2>1, <2>9
<1>2. ASSUME Heartbeat(s) PROVE \E e \in Comments : Refreshing(s, e)
  <2>1. PICK branch \in Branches :
           /\ Post(ClaimBy(id[s], sup[s], branch, now))
           /\ beat' = [beat EXCEPT ![s] =
                IF branch # 1 THEN @
                ELSE [last |-> now, late |-> @.late \/ now >= @.last + StaleAge]]
    BY <1>2 DEF Heartbeat
  <2> DEFINE e == ClaimBy(id[s], sup[s], branch, now)
  <2>2. branch \in Nat /\ e \in Comments /\ e.sec = now /\ e.trusted /\ e.kind = "claim"
        /\ e.id = id[s] /\ e.branch = branch
    BY WorldAssumption, PostedComments DEF ClaimBy
  <2>3. log' = Append(log, e)
    BY <2>1
  <2>4. \/ branch # 1 /\ beat'[s] = beat[s]
        \/ branch = 1 /\ beat'[s].last = now
           /\ (~beat'[s].late => ~beat[s].late /\ now < beat[s].last + StaleAge)
    <3> DEFINE l == beat[s].late \/ now >= beat[s].last + StaleAge
    <3>1. ~l => ~beat[s].late /\ now < beat[s].last + StaleAge
      BY Constants
    <3>2. CASE branch # 1
      BY <2>1, <3>2
    <3>3. CASE branch = 1
      <4>1. beat'[s] = [last |-> now, late |-> l]
        BY <2>1, <3>3
      <4> HIDE DEF l
      <4> QED  BY <3>1, <3>3, <4>1
    <3> QED  BY <3>2, <3>3
  <2>5. \A t \in Sessions \ {s} : beat'[t] = beat[t]
    BY <2>1
  <2> HIDE DEF e
  <2>9. Refreshing(s, e)
    BY <1>2, <2>2, <2>3, <2>4, <2>5 DEF Heartbeat, world, Refreshing
  <2> QED  BY <2>2, <2>9
<1>3. ASSUME Release(s) \/ Finish(s) PROVE \E e \in Comments : Releasing(s, e)
  <2> DEFINE e == ReleaseOf(id[s], now)
  <2>1. e \in Comments /\ e.sec = now /\ e.kind = "release" /\ e.id = id[s]
    BY PostedComments DEF ReleaseOf
  <2>2. log' = Append(log, e)
    BY <1>3 DEF Release, Finish
  <2> HIDE DEF e
  <2>9. Releasing(s, e)
    BY <1>3, <2>1, <2>2 DEF Release, Finish, world, mind, Releasing
  <2> QED  BY <2>1, <2>9
<1>4. ASSUME PostNonce(s) PROVE \E e \in Comments : Activating(s, e)
  <2> DEFINE e == NonceOf(id[s], Nonce[s], now)
  <2>1. e \in Comments /\ e.sec = now /\ e.trusted /\ e.kind = "nonce" /\ e.id = id[s] /\ e.nonce = Nonce[s]
    BY PostedComments, Constants DEF NonceOf
  <2>2. log' = Append(log, e)
    BY <1>4 DEF PostNonce
  <2> HIDE DEF e
  <2>9. Activating(s, e)
    BY <1>4, <2>1, <2>2 DEF PostNonce, world, Activating
  <2> QED  BY <2>1, <2>9
<1> QED  BY <1>1, <1>2, <1>3, <1>4

\* The handoff and a remark are such comments.
LEMMA SayingIs ==
  ASSUME TypeOK, PostHandoff \/ Comment
  PROVE  \E e \in Comments : Saying(e)
<1> USE DEF Post, TypeOK, Posts, SameFor
<1>1. CASE PostHandoff
  <2> DEFINE e == HandoffOf(plan.id, HandoffId, plan.branch, plan.withPr, now)
  <2>1. e \in Comments /\ e.sec = now /\ e.kind = "handoff"
    BY PostedComments, Constants DEF HandoffOf
  <2>2. log' = Append(log, e)
    BY <1>1 DEF PostHandoff
  <2> HIDE DEF e
  <2>9. Saying(e)
    BY <1>1, <2>1, <2>2 DEF PostHandoff, mind, Saying
  <2> QED  BY <2>1, <2>9
<1>2. CASE Comment
  <2>1. PICK tr \in Strangers : Post(Remark(tr, now))
    BY <1>2 DEF Comment
  <2> DEFINE e == Remark(tr, now)
  <2>2. e \in Comments /\ e.sec = now /\ e.kind = "remark"
    BY WorldAssumption, PostedComments DEF Remark
  <2>3. log' = Append(log, e)
    BY <2>1
  <2> HIDE DEF e
  <2>9. Saying(e)
    BY <1>2, <2>2, <2>3 DEF Comment, world, mind, Saying
  <2> QED  BY <2>2, <2>9
<1> QED  BY <1>1, <1>2

(* ... what one does that moves a session without a comment, ...            *)
Quiet == log' = log /\ now' = now /\ id' = id /\ drawn' = drawn

\* Session s changes its phase and nothing else that is its own.
Moves(s, before, after) ==
    /\ Quiet /\ posted' = posted /\ beat' = beat
    /\ phase[s] \in before /\ phase'[s] \in after
    /\ \A t \in Sessions \ {s} : phase'[t] = phase[t]

\* It gives up, or is gone, ...
LeavesOff(s) ==
    /\ pr' = pr
    /\ \/ Moves(s, Phases, {"gone"})
       \/ Moves(s, {"posted", "owner", "adopted", "lost"}, {"lost", "idle", "withdrawing"})
          /\ (phase'[s] = "withdrawing" => phase[s] = "posted")

\* ... it passes the gate, its verification, that of its nonce, ...
GoesOn(s) == pr' = pr /\ Moves(s, {"owner"}, {"validated"})
IsVerified(s) == Verify(s) /\ pr' = pr /\ Moves(s, {"posted"}, {"owner"})
Succeeds(s) == pr' = pr /\ Moves(s, {"adopted"}, {"owner"})
\* ... it opens the pull request, ...
Opens(s) == Moves(s, {"validated"}, {"owner"})

\* ... it draws an id, ...
Draws(s) ==
    /\ log' = log /\ now' = now /\ pr' = pr /\ posted' = posted /\ beat' = beat
    /\ phase[s] = "idle" /\ phase'[s] = "posting"
    /\ drawn'[s] = drawn[s] + 1 /\ drawn[s] < Len(Ids[s]) /\ id'[s] = Ids[s][drawn[s] + 1]
    /\ \A t \in Sessions \ {s} :
          phase'[t] = phase[t] /\ id'[t] = id[t] /\ drawn'[t] = drawn[t]

\* ... or follows a handoff.
Follows(s) ==
    /\ log' = log /\ now' = now /\ pr' = pr /\ drawn' = drawn /\ posted' = posted
    /\ phase[s] = "idle" /\ phase'[s] = "adopting" /\ id'[s] = HandoffId
    /\ \E view \in Views : ActiveIn(view).id = HandoffId
    /\ \A t \in Sessions \ {s} :
          phase'[t] = phase[t] /\ id'[t] = id[t] /\ beat'[t] = beat[t]

\* And a step of no session: time, or a plan for a handoff.
Passes == log' = log /\ now' \in {now, now + 1} /\ UNCHANGED <<pr, phase, mind>>

\* ... and that there are no other steps.
LEMMA StepIs ==
  ASSUME TypeOK, Next
  PROVE  \/ \E e \in Comments : Saying(e)
         \/ Passes
         \/ \E s \in Sessions :
               \/ \E e \in Comments :
                     Claiming(s, e) \/ Refreshing(s, e) \/ Releasing(s, e) \/ Activating(s, e)
               \/ LeavesOff(s) \/ GoesOn(s) \/ IsVerified(s) \/ Succeeds(s) \/ Opens(s)
               \/ Draws(s) \/ Follows(s)
<1>1. CASE PostHandoff \/ Comment
  BY <1>1, SayingIs
<1>2. CASE PlanHandoff \/ Tick
  BY <1>2 DEF PlanHandoff, Tick, Passes, mind
<1>3. ASSUME NEW s \in Sessions, Session(s) \/ Crash(s)
      PROVE  \/ \E e \in Comments :
                   Claiming(s, e) \/ Refreshing(s, e) \/ Releasing(s, e) \/ Activating(s, e)
             \/ LeavesOff(s) \/ GoesOn(s) \/ IsVerified(s) \/ Succeeds(s) \/ Opens(s)
             \/ Draws(s) \/ Follows(s)
  <2> USE DEF TypeOK, Goto, world, mind, Quiet, Moves
  <2>1. CASE PostClaim(s) \/ Heartbeat(s) \/ Release(s) \/ Finish(s) \/ PostNonce(s)
    BY <2>1, PostingIs
  <2>2. CASE Crash(s)
    BY <2>2 DEF Crash, LeavesOff
  <2>3. CASE WalkAway(s)
    BY <2>3 DEF WalkAway, LeavesOff
  <2>4. CASE Revalidate(s)
    <3>1. phase' = [phase EXCEPT ![s] = "validated"] \/ phase' = [phase EXCEPT ![s] = "lost"]
      BY <2>4 DEF Revalidate
    <3> QED  BY <2>4, <3>1 DEF Revalidate, LeavesOff, GoesOn
  <2>5. CASE Verify(s)
    <3>1. PICK p \in {"owner", "withdrawing", "lost"} : phase' = [phase EXCEPT ![s] = p]
      BY <2>5 DEF Verify
    <3> QED  BY <2>5, <3>1 DEF Verify, LeavesOff, IsVerified
  <2>6. CASE VerifyNonce(s)
    <3>1. PICK p \in {"owner", "lost"} : phase' = [phase EXCEPT ![s] = p]
      BY <2>6 DEF VerifyNonce
    <3> QED  BY <2>6, <3>1 DEF VerifyNonce, LeavesOff, Succeeds
  <2>7. CASE OpenPr(s)
    BY <2>7 DEF OpenPr, Opens
  <2>8. CASE ReadGate(s)
    <3>1. drawn'[s] = drawn[s] + 1 /\ id' = [id EXCEPT ![s] = Ids[s][drawn[s] + 1]]
      BY <2>8 DEF ReadGate
    <3>2. id'[s] = Ids[s][drawn[s] + 1] /\ \A t \in Sessions \ {s} : id'[t] = id[t]
      BY <3>1
    <3> QED  BY <2>8, <3>1, <3>2 DEF ReadGate, Draws
  <2>9. CASE Adopt(s)
    <3>1. PICK view \in Views :
             /\ ActiveIn(view).id = HandoffId
             /\ beat' = [beat EXCEPT ![s] = [last |-> ActiveIn(view).sec, late |-> FALSE]]
      BY <2>9 DEF Adopt
    <3>2. \A t \in Sessions \ {s} : beat'[t] = beat[t]
      BY <3>1
    <3> QED  BY <2>9, <3>1, <3>2 DEF Adopt, Follows
  <2> QED  BY <1>3, <2>1, <2>2, <2>3, <2>4, <2>5, <2>6, <2>7, <2>8, <2>9 DEF Session
<1> QED  BY <1>1, <1>2, <1>3 DEF Next

\* ... then the order of the comments, ...
LEMMA InOrderStep ==
  ASSUME TypeOK, InOrder, Next
  PROVE  InOrder'
<1>1. CASE \E e \in Comments : Posts(e)
  <2>1. PICK e \in Comments : Posts(e)
    BY <1>1
  <2>2. Ordered(log') /\ (\A x \in Contents(log') : x.sec <= now) /\ now' = now
    BY <2>1, Grows DEF Posts
  <2> QED  BY <2>2 DEF InOrder
<1>2. CASE log' = log /\ now' \in {now, now + 1}
  <2>1. now \in Nat /\ \A x \in Contents(log) : x \in Comments /\ x.sec \in Nat
    <3>1. Contents(log) \subseteq Comments
      BY SortedIs DEF TypeOK
    <3> QED  BY <3>1, CommentFields DEF TypeOK
  <2>2. \A x \in Contents(log) : x.sec <= now'
    BY <1>2, <2>1 DEF InOrder
  <2> QED  BY <1>2, <2>2 DEF InOrder
<1> QED
  BY <1>1, <1>2, StepIs DEF Saying, Claiming, Refreshing, Releasing, Activating, PostsBy, Passes,
     LeavesOff, GoesOn, IsVerified, Succeeds, Opens, Draws, Follows, Moves, Quiet

\* Comments are never taken back.
LEMMA HandedOverStays ==
  ASSUME TypeOK, InOrder, Next
  PROVE  /\ Contents(log) \subseteq Contents(log') /\ now <= now'
         /\ HandedOver => HandedOver'
<1>1. CASE \E e \in Comments : Posts(e)
  BY <1>1, Grows DEF Posts, TypeOK
<1>2. CASE log' = log /\ now' \in {now, now + 1}
  BY <1>2 DEF HandedOver, TypeOK
<1> QED
  BY <1>1, <1>2, StepIs DEF Saying, Claiming, Refreshing, Releasing, Activating, PostsBy, Passes,
     LeavesOff, GoesOn, IsVerified, Succeeds, Opens, Draws, Follows, Moves, Quiet

\* A session adopts the successor only after the handoff.
LEMMA FollowsHandover ==
  ASSUME TypeOK, SuccessorIsHandedOver, NEW s \in Sessions, Follows(s)
  PROVE  HandedOver
<1>1. PICK view \in Views : ActiveIn(view).id = HandoffId
  BY DEF Follows
<1>2. view \in Seq(Comments)
  BY ViewsAre
<1>3. ActiveIn(view) = ActiveAfter(Strict(pr), Sorted(view))
  BY DEF ActiveIn, ResolveActiveClaim, Sorted
<1>4. Sorted(view) \in Seq(Comments) /\ Contents(Sorted(view)) \subseteq Contents(view)
  BY <1>2, SortedIs
<1>5. ActiveAfter(Strict(pr), Sorted(view)) # NoClaim
  BY <1>1, <1>3, Constants DEF NoClaim
<1>6. PICK e \in Contents(Sorted(view)) : ComesFrom(ActiveIn(view), e)
  BY <1>3, <1>4, <1>5, ActiveComesFrom
<1>7. e \in Contents(log)
  BY <1>4, ViewsAre
<1>8. e.kind = "handoff" \/ (e.kind = "claim" /\ e.id = HandoffId)
  BY <1>1, <1>6 DEF ComesFrom
<1> QED  BY <1>7, <1>8, HandedOverIs DEF SuccessorIsHandedOver, TypeOK

\* ... the ids that sessions work under, ...
LEMMA IdsAreDrawnStep ==
  ASSUME TypeOK, InOrder, IdsAreDrawn, SuccessorIsHandedOver, Next
  PROVE  IdsAreDrawn'
<1> DEFINE P(t) == /\ drawn[t] \in 0 .. Len(Ids[t])
                   /\ \/ Drawn(t)
                      \/ id[t] = None /\ phase[t] \in {"idle", "gone"}
                      \/ id[t] = HandoffId /\ HandedOver
                   /\ phase[t] \in {"posting", "posted", "withdrawing"} => Drawn(t)
                   /\ phase[t] \in {"adopting", "adopted"} => id[t] = HandoffId
<1>1. SUFFICES ASSUME NEW t \in Sessions PROVE P(t)'
  BY DEF IdsAreDrawn
<1>2. P(t)
  BY DEF IdsAreDrawn
<1>3. HandedOver => HandedOver'
  BY HandedOverStays
<1> USE DEF Drawn
<1>4. ASSUME id'[t] = id[t], drawn'[t] = drawn[t], phase'[t] = phase[t] PROVE P(t)'
  BY <1>2, <1>3, <1>4
<1>5. CASE \E e \in Comments : Saying(e)
  BY <1>4, <1>5 DEF Saying, Posts, SameFor
<1>6. CASE Passes
  BY <1>4, <1>6 DEF Passes, mind
<1>7. ASSUME NEW s \in Sessions, NEW e \in Comments,
             Claiming(s, e) \/ Refreshing(s, e) \/ Releasing(s, e) \/ Activating(s, e)
      PROVE  P(t)'
  <2>1. CASE s # t
    BY <1>4, <1>7, <2>1 DEF Claiming, Refreshing, Releasing, Activating, PostsBy, Posts, SameFor
  <2>2. CASE s = t
    BY <1>2, <1>3, <1>7, <2>2 DEF Claiming, Refreshing, Releasing, Activating, PostsBy, Posts
  <2> QED  BY <2>1, <2>2
<1>8. ASSUME NEW s \in Sessions, LeavesOff(s) \/ GoesOn(s) \/ IsVerified(s) \/ Succeeds(s) \/ Opens(s)
      PROVE  P(t)'
  <2>1. CASE s # t
    BY <1>4, <1>8, <2>1 DEF LeavesOff, GoesOn, IsVerified, Succeeds, Opens, Moves, Quiet
  <2>2. CASE s = t
    BY <1>2, <1>3, <1>8, <2>2 DEF LeavesOff, GoesOn, IsVerified, Succeeds, Opens, Moves, Quiet
  <2> QED  BY <2>1, <2>2
<1>9. ASSUME NEW s \in Sessions, Draws(s) PROVE P(t)'
  <2>1. CASE s # t
    BY <1>4, <1>9, <2>1 DEF Draws
  <2>2. CASE s = t
    BY <1>2, <1>9, <2>2, Constants DEF Draws
  <2> QED  BY <2>1, <2>2
<1>10. ASSUME NEW s \in Sessions, Follows(s) PROVE P(t)'
  <2>1. CASE s # t
    BY <1>4, <1>10, <2>1 DEF Follows
  <2>2. CASE s = t
    BY <1>2, <1>3, <1>10, <2>2, FollowsHandover DEF Follows
  <2> QED  BY <2>1, <2>2
<1> QED  BY <1>5, <1>6, <1>7, <1>8, <1>9, <1>10, StepIs

\* An id that was drawn is nobody else's.
LEMMA DistinctIds ==
  ASSUME IdsAreDrawn, NEW s \in Sessions, Drawn(s)
  PROVE  /\ id[s] \in Nat /\ id[s] # None /\ id[s] # HandoffId
         /\ \A t \in Sessions : t # s => id[t] # id[s]
         /\ \A t \in Sessions : \A k \in DOMAIN Ids[t] :
               Ids[t][k] = id[s] => t = s /\ k = drawn[s]
  BY Constants DEF IdsAreDrawn, Drawn

\* ... that those not posted yet are in no comment, ...
LEMMA IdsAreFreshStep ==
  ASSUME TypeOK, InOrder, IdsAreDrawn, IdsAreFresh, SuccessorIsHandedOver, Next
  PROVE  IdsAreFresh' /\ SuccessorIsHandedOver'
<1> DEFINE Used(e, t, k) == e.kind \in {"claim", "release"} /\ e.id = Ids[t][k]
           Ok(t, k) == k <= drawn[t] /\ (phase[t] = "posting" => k < drawn[t])
           H(e) == e.kind = "claim" /\ e.id = HandoffId
<1>1. HandedOver => HandedOver'
  BY HandedOverStays
<1>2. ASSUME log' = log, \A t \in Sessions : \A k \in DOMAIN Ids[t] : Ok(t, k) => Ok(t, k)'
      PROVE  IdsAreFresh' /\ SuccessorIsHandedOver'
  BY <1>1, <1>2 DEF IdsAreFresh, SuccessorIsHandedOver
<1>3. ASSUME NEW e \in Comments, Posts(e),
             \A t \in Sessions : phase'[t] = "posting" => phase[t] = "posting",
             \A t \in Sessions : \A k \in DOMAIN Ids[t] : Used(e, t, k) => Ok(t, k)',
             H(e) => HandedOver
      PROVE  IdsAreFresh' /\ SuccessorIsHandedOver'
  <2>1. Contents(log') = Contents(log) \cup {e} /\ drawn' = drawn
    BY <1>3, Grows DEF Posts
  <2>2. ASSUME NEW t \in Sessions, NEW k \in DOMAIN Ids[t], NEW x \in Contents(log'), Used(x, t, k)
        PROVE  Ok(t, k)'
    <3>1. CASE x = e
      BY <1>3, <2>2, <3>1
    <3>2. CASE x \in Contents(log)
      <4>1. Ok(t, k)
        BY <2>2, <3>2 DEF IdsAreFresh
      <4> QED  BY <1>3, <2>1, <4>1
    <3> QED  BY <2>1, <3>1, <3>2
  <2>3. SuccessorIsHandedOver'
    BY <1>1, <1>3, <2>1 DEF SuccessorIsHandedOver
  <2> QED  BY <2>2, <2>3 DEF IdsAreFresh
<1>4. ASSUME NEW s \in Sessions, NEW e \in Comments, PostsBy(s, e), e.id = id[s],
             phase[s] \notin {"idle", "gone"}, phase'[s] # "posting"
      PROVE  IdsAreFresh' /\ SuccessorIsHandedOver'
  <2>1. \A t \in Sessions : phase'[t] = "posting" => phase[t] = "posting"
    BY <1>4 DEF PostsBy, SameFor
  <2>2. drawn' = drawn /\ \A t \in Sessions : drawn[t] \in Nat
    BY <1>4 DEF PostsBy, Posts, TypeOK
  <2>3. CASE Drawn(s)
    <3>1. ASSUME NEW t \in Sessions, NEW k \in DOMAIN Ids[t], Used(e, t, k) PROVE Ok(t, k)'
      <4>1. t = s /\ k = drawn[s]
        BY <1>4, <2>3, <3>1, DistinctIds
      <4> QED  BY <1>4, <2>2, <4>1
    <3>2. ~H(e)
      BY <1>4, <2>3, DistinctIds
    <3> QED  BY <1>3, <1>4, <2>1, <3>1, <3>2 DEF PostsBy
  <2>4. CASE id[s] = HandoffId /\ HandedOver
    <3>1. \A t \in Sessions : \A k \in DOMAIN Ids[t] : ~Used(e, t, k)
      BY <1>4, <2>4, Constants
    <3> QED  BY <1>3, <1>4, <2>1, <2>4, <3>1 DEF PostsBy
  <2> QED  BY <1>4, <2>3, <2>4 DEF IdsAreDrawn
<1>5. CASE \E e \in Comments : Saying(e)
  <2>1. PICK e \in Comments : Saying(e)
    BY <1>5
  <2>2. Posts(e) /\ e.kind \notin {"claim", "release"} /\ \A t \in Sessions : phase'[t] = phase[t]
    BY <2>1 DEF Saying, SameFor
  <2> QED  BY <1>3, <2>2
<1>6. ASSUME NEW s \in Sessions, NEW e \in Comments,
             Claiming(s, e) \/ Refreshing(s, e) \/ Releasing(s, e) \/ Activating(s, e)
      PROVE  IdsAreFresh' /\ SuccessorIsHandedOver'
  BY <1>4, <1>6 DEF Claiming, Refreshing, Releasing, Activating, IsBeat
<1>7. CASE Passes
  BY <1>2, <1>7 DEF Passes, mind
<1>8. ASSUME NEW s \in Sessions, LeavesOff(s) \/ GoesOn(s) \/ IsVerified(s) \/ Succeeds(s) \/ Opens(s)
      PROVE  IdsAreFresh' /\ SuccessorIsHandedOver'
  <2>1. \A t \in Sessions : phase'[t] = "posting" => phase[t] = "posting"
    BY <1>8 DEF LeavesOff, GoesOn, IsVerified, Succeeds, Opens, Moves
  <2>2. log' = log /\ drawn' = drawn
    BY <1>8 DEF LeavesOff, GoesOn, IsVerified, Succeeds, Opens, Moves, Quiet
  <2> QED  BY <1>2, <2>1, <2>2
<1>9. ASSUME NEW s \in Sessions, Draws(s) \/ Follows(s)
      PROVE  IdsAreFresh' /\ SuccessorIsHandedOver'
  <2>1. ASSUME NEW t \in Sessions, NEW k \in DOMAIN Ids[t], Ok(t, k) PROVE Ok(t, k)'
    <3>1. k \in Nat /\ drawn[t] \in Nat
      <4>1. Len(Ids[t]) \in Nat /\ DOMAIN Ids[t] = 1 .. Len(Ids[t])
        BY Constants
      <4>2. drawn[t] \in Nat
        BY DEF TypeOK
      <4> QED  BY <4>1, <4>2
    <3>2. CASE Draws(s)
      BY <2>1, <3>1, <3>2 DEF Draws
    <3>3. CASE Follows(s)
      BY <2>1, <3>1, <3>3 DEF Follows
    <3> QED  BY <1>9, <3>2, <3>3
  <2>2. log' = log
    BY <1>9 DEF Draws, Follows
  <2> QED  BY <1>2, <2>1, <2>2
<1> QED  BY <1>5, <1>6, <1>7, <1>8, <1>9, StepIs

\* ... the beats, ...
LEMMA KeepsBeating ==
  ASSUME TypeOK, NEW t \in Sessions, KeptBeating(t), now' \in Nat, now <= now',
         id'[t] = id[t], posted'[t] = posted[t], beat'[t] = beat[t],
         phase'[t] = "posted" => phase[t] = "posted",
         Contents(log) \subseteq Contents(log'),
         \A x \in Contents(log') : x \in Contents(log)
            \/ x.id # id[t] \/ x.kind \notin {"claim", "release"}
            \/ (x.kind = "claim" /\ phase[t] # "posted")
  PROVE  KeptBeating(t)'
<1>1. Beats(t) \subseteq Beats(t)'
  BY DEF Beats
<1>2. \A e \in Contents(log') : e.kind = "release" => e.id # id'[t]
  BY DEF KeptBeating
<1>3. posted'[t] <= beat'[t].last /\ beat'[t].last <= now'
  BY DEF KeptBeating, TypeOK
<1>4. \E e \in Beats(t)' : e.sec = beat'[t].last
  BY <1>1 DEF KeptBeating
<1>5. ~beat'[t].late => \A x \in posted'[t] + 1 .. beat'[t].last :
          \E e \in Beats(t)' : e.sec < x /\ x < e.sec + StaleAge
  BY <1>1 DEF KeptBeating
<1>6. phase'[t] = "posted" => \A e \in Contents(log') :
          e.kind = "claim" /\ e.id = id'[t] => e.branch = 1 /\ e.sec = posted'[t]
  BY DEF KeptBeating
<1> QED  BY <1>2, <1>3, <1>4, <1>5, <1>6 DEF KeptBeating

\* Posting the claim is the first beat.
LEMMA StartsBeating ==
  ASSUME TypeOK, InOrder, IdsAreDrawn, IdsAreFresh,
         NEW s \in Sessions, NEW e \in Comments, Claiming(s, e)
  PROVE  KeptBeating(s)'
<1>1. /\ e.sec = now /\ now' = now /\ id' = id /\ IsBeat(e, id[s]) /\ phase[s] = "posting"
      /\ Contents(log') = Contents(log) \cup {e} /\ posted'[s] = now /\ beat'[s].last = now /\ now \in Nat
  BY Grows DEF Claiming, PostsBy, Posts, TypeOK
<1>2. Drawn(s)
  BY <1>1 DEF IdsAreDrawn
<1>3. \A x \in Contents(log) : x.kind \in {"claim", "release"} => x.id # id[s]
  BY <1>1, <1>2, DistinctIds DEF IdsAreFresh, Drawn, TypeOK
<1>4. e \in Beats(s)' /\ e.kind = "claim" /\ e.branch = 1
  BY <1>1 DEF Beats, IsBeat
<1>5. \A x \in posted'[s] + 1 .. beat'[s].last : FALSE
  BY <1>1
<1>6. \A x \in Contents(log') : x.kind = "release" => x.id # id'[s]
  BY <1>1, <1>3, <1>4
<1>7. \A x \in Contents(log') : x.kind = "claim" /\ x.id = id'[s] => x.branch = 1 /\ x.sec = posted'[s]
  BY <1>1, <1>3, <1>4
<1>8. posted'[s] <= beat'[s].last /\ beat'[s].last <= now' /\ e.sec = beat'[s].last
  BY <1>1
<1> QED  BY <1>4, <1>5, <1>6, <1>7, <1>8 DEF KeptBeating

\* A heartbeat in time leaves no gap; one that came late is known to be.
LEMMA BeatsAgain ==
  ASSUME TypeOK, InOrder, NEW s \in Sessions, NEW e \in Comments, Refreshing(s, e), KeptBeating(s)
  PROVE  KeptBeating(s)'
<1>1. /\ e.sec = now /\ now' = now /\ id' = id /\ posted'[s] = posted[s] /\ phase'[s] = "owner"
      /\ phase[s] = "validated" /\ e.kind = "claim" /\ e.trusted /\ e.id = id[s]
      /\ Contents(log') = Contents(log) \cup {e} /\ now \in Nat
      /\ posted[s] \in Nat /\ beat[s].last \in Nat
  BY Grows DEF Refreshing, PostsBy, Posts, TypeOK
<1>2. CASE beat'[s] = beat[s]
  BY <1>1, <1>2, KeepsBeating
<1>3. CASE e.branch = 1 /\ beat'[s].last = now
           /\ (~beat'[s].late => ~beat[s].late /\ now < beat[s].last + StaleAge)
  <2>1. e \in Beats(s)' /\ Beats(s) \subseteq Beats(s)'
    BY <1>1, <1>3 DEF Beats, IsBeat
  <2>2. posted'[s] <= beat'[s].last /\ beat'[s].last <= now' /\ e.sec = beat'[s].last
    BY <1>1, <1>3 DEF KeptBeating
  <2>3. \A x \in Contents(log') : x.kind = "release" => x.id # id'[s]
    BY <1>1 DEF KeptBeating
  <2>4. ASSUME ~beat'[s].late, NEW x \in posted'[s] + 1 .. beat'[s].last
        PROVE  \E b \in Beats(s)' : b.sec < x /\ x < b.sec + StaleAge
    <3>1. ~beat[s].late /\ now < beat[s].last + StaleAge /\ x <= now /\ x \in Nat /\ x >= posted[s] + 1
      BY <1>1, <1>3, <2>4
    <3>2. CASE x <= beat[s].last
      <4>1. x \in posted[s] + 1 .. beat[s].last
        BY <1>1, <3>1, <3>2
      <4>2. PICK b \in Beats(s) : b.sec < x /\ x < b.sec + StaleAge
        BY <3>1, <4>1 DEF KeptBeating
      <4> QED  BY <2>1, <4>2
    <3>3. CASE x > beat[s].last
      <4>1. PICK b \in Beats(s) : b.sec = beat[s].last
        BY DEF KeptBeating
      <4>2. b.sec < x /\ x < b.sec + StaleAge
        BY <1>1, <3>1, <3>3, <4>1, Constants
      <4> QED  BY <2>1, <4>1, <4>2
    <3> QED  BY <1>1, <3>1, <3>2, <3>3
  <2> QED  BY <1>1, <2>1, <2>2, <2>3, <2>4 DEF KeptBeating
<1> QED  BY <1>2, <1>3 DEF Refreshing

\* So every step keeps the beats.
LEMMA IsBeatingStep ==
  ASSUME TypeOK, InOrder, IdsAreDrawn, IdsAreFresh, IsBeating, Next
  PROVE  IsBeating'
<1> SUFFICES ASSUME NEW t \in Sessions, Beating(t)' PROVE KeptBeating(t)'
  BY DEF IsBeating
<1>1. Contents(log) \subseteq Contents(log') /\ now <= now' /\ now' \in Nat
  BY HandedOverStays, TypeStep DEF TypeOK
<1>2. Beating(t) => KeptBeating(t)
  BY DEF IsBeating
<1>3. Beating(t) => Drawn(t)
  BY DEF Beating, IdsAreDrawn
<1>4. ASSUME log' = log, id'[t] = id[t], posted'[t] = posted[t], beat'[t] = beat[t],
             phase'[t] = "posted" => phase[t] = "posted", Beating(t)
      PROVE  KeptBeating(t)'
  BY <1>1, <1>2, <1>4, KeepsBeating
<1>5. ASSUME NEW e \in Comments, Posts(e), SameFor(t),
             \/ e.kind \notin {"claim", "release"}
             \/ e.id # id[t]
             \/ e.kind = "claim" /\ phase[t] # "posted"
      PROVE  KeptBeating(t)'
  <2>1. Contents(log') = Contents(log) \cup {e} /\ id' = id
    BY <1>5, Grows DEF Posts
  <2>2. Beating(t)
    BY <1>5, <2>1 DEF Beating, SameFor
  <2> QED  BY <1>1, <1>2, <1>5, <2>1, <2>2, KeepsBeating DEF SameFor
<1>6. CASE \E e \in Comments : Saying(e)
  BY <1>5, <1>6 DEF Saying
<1>7. CASE Passes
  BY <1>4, <1>7 DEF Passes, mind, Beating
<1>8. ASSUME NEW s \in Sessions, NEW e \in Comments, Claiming(s, e) PROVE KeptBeating(t)'
  <2>1. CASE t = s
    BY <1>8, <2>1, StartsBeating
  <2>2. CASE t # s
    <3>1. Drawn(s) /\ e.id = id[s]
      BY <1>8 DEF Claiming, IdsAreDrawn, IsBeat
    <3>2. e.id # id[t]
      BY <2>2, <3>1, DistinctIds
    <3> QED  BY <1>5, <1>8, <2>2, <3>2 DEF Claiming, PostsBy
  <2> QED  BY <2>1, <2>2
<1>9. ASSUME NEW s \in Sessions, NEW e \in Comments, Refreshing(s, e) PROVE KeptBeating(t)'
  <2>1. CASE t = s
    <3>1. Beating(t)
      BY <1>9, <2>1 DEF Refreshing, PostsBy, Posts, Beating
    <3> QED  BY <1>2, <1>9, <2>1, <3>1, BeatsAgain
  <2>2. CASE t # s
    <3>1. SameFor(t) /\ Posts(e) /\ e.id = id[s] /\ id' = id
      BY <1>9, <2>2 DEF Refreshing, PostsBy, Posts
    <3>2. Drawn(t)
      BY <1>3, <3>1 DEF Beating, SameFor
    <3>3. e.id # id[t]
      BY <2>2, <3>1, <3>2, DistinctIds
    <3> QED  BY <1>5, <3>1, <3>3
  <2> QED  BY <2>1, <2>2
<1>10. ASSUME NEW s \in Sessions, NEW e \in Comments, Releasing(s, e) PROVE KeptBeating(t)'
  <2>1. t # s
    BY <1>10 DEF Releasing, Beating
  <2>2. SameFor(t) /\ Posts(e) /\ e.id = id[s] /\ id' = id
    BY <1>10, <2>1 DEF Releasing, PostsBy, Posts
  <2>3. Drawn(t)
    BY <1>3, <2>2 DEF Beating, SameFor
  <2>4. e.id # id[t]
    BY <2>1, <2>2, <2>3, DistinctIds
  <2> QED  BY <1>5, <2>2, <2>4
<1>11. ASSUME NEW s \in Sessions, NEW e \in Comments, Activating(s, e) PROVE KeptBeating(t)'
  <2>1. t # s
    BY <1>11 DEF Activating, Beating
  <2> QED  BY <1>5, <1>11, <2>1 DEF Activating, PostsBy
<1>12. ASSUME NEW s \in Sessions, LeavesOff(s) \/ GoesOn(s) \/ IsVerified(s) \/ Succeeds(s) \/ Opens(s)
       PROVE  KeptBeating(t)'
  <2>1. log' = log /\ id' = id /\ posted' = posted /\ beat' = beat
    BY <1>12 DEF LeavesOff, GoesOn, IsVerified, Succeeds, Opens, Moves, Quiet
  <2>2. phase'[t] = "posted" => phase[t] = "posted"
    BY <1>12 DEF LeavesOff, GoesOn, IsVerified, Succeeds, Opens, Moves
  <2>3. Beating(t)
    BY <1>12, <2>1 DEF LeavesOff, GoesOn, IsVerified, Succeeds, Opens, Moves, Beating, IdsAreDrawn
  <2> QED  BY <1>4, <2>1, <2>2, <2>3
<1>13. ASSUME NEW s \in Sessions, Draws(s) \/ Follows(s) PROVE KeptBeating(t)'
  <2>1. t # s
    BY <1>13 DEF Draws, Follows, Beating
  <2>2. log' = log /\ id'[t] = id[t] /\ posted' = posted /\ beat'[t] = beat[t] /\ phase'[t] = phase[t]
    BY <1>13, <2>1 DEF Draws, Follows
  <2>3. Beating(t)
    BY <2>2 DEF Beating
  <2> QED  BY <1>4, <2>2, <2>3
<1> QED  BY <1>6, <1>7, <1>8, <1>9, <1>10, <1>11, <1>12, <1>13, StepIs

\* Whom the routing calls the owner.
LEMMA RouteOwned ==
  ASSUME NEW view, NEW p, NEW i, NEW n, NEW t, Route(view, p, i, n, t) = "already_owned"
  PROVE  /\ i # None /\ i = ActiveAfter(Strict(p), Sorted(view)).id
         /\ n # NoNonce => NonceWinner(Trusted(view), i) \in {NoNonce, n}
<1> DEFINE active == ResolveActiveClaim(Strict(p), Trusted(view))
           winner == NonceWinner(Trusted(view), active.id)
           owner == active # NoClaim /\ i # None /\ i = active.id
           contested ==
              \/ LaterCompetingClaim(Trusted(view), active)
              \/ n # NoNonce /\ winner \notin {NoNonce, n}
              \/ n = NoNonce /\ Cardinality(ActivationNonces(Trusted(view), active.id)) >= 2
           none == Claims(Trusted(view)) = {}
           old == ~HasLegacyClaim(Trusted(view)) \/ LegacyClaim(Trusted(view)) = NoClaim
           aged == IsStale(LegacyClaim(Trusted(view)), t)
           rival == i # None /\ i \in SameSecondContenders(Trusted(view), active)
           stale == IsStale(active, t)
           later == LaterCompetingClaim(Trusted(view), active)
<1>1. Route(view, p, i, n, t) =
        CASE none -> IF old THEN "unclaimed" ELSE IF aged THEN "stale" ELSE "non_inheritable"
          [] ~none /\ active = NoClaim -> "unclaimed"
          [] owner -> IF contested THEN "disputed" ELSE "already_owned"
          [] ~none /\ active # NoClaim /\ ~owner ->
                IF rival THEN "disputed" ELSE IF stale THEN "stale"
                ELSE IF later THEN "disputed" ELSE "non_inheritable"
  BY Zenon DEF Route
<1>2. active = ActiveAfter(Strict(p), Sorted(view))
  BY DEF ResolveActiveClaim, Sorted
<1>3. (owner /\ ~contested) \/ ~(none \/ (~none /\ active = NoClaim) \/ owner \/ (~none /\ active # NoClaim /\ ~owner))
  <2> HIDE DEF old, aged, rival, stale, later, contested, none
  <2> QED  BY <1>1
<1>4. owner /\ ~contested
  BY <1>3
<1> QED  BY <1>2, <1>4

\* ... where a verified claim is rooted, ...
LEMMA IsRootedAtVerification ==
  ASSUME TypeOK, InOrder, IdsAreDrawn, IsBeating, NEW s \in Sessions, Verify(s), phase'[s] = "owner",
         ~HandedOver
  PROVE  /\ posted[s] < now
         /\ \E n \in DOMAIN Sorted(log) : RootedAt(s, n)
<1>1. phase[s] = "posted" /\ now > posted[s]
  BY DEF Verify
<1>2. PICK view \in Views : Route(view, pr, id[s], NoNonce, now) = "already_owned"
  <2>1. PICK view \in Views :
          Goto(s, CASE Route(view, pr, id[s], NoNonce, now) = "already_owned" -> "owner"
                    [] /\ Route(view, pr, id[s], NoNonce, now) = "disputed"
                       /\ ActiveIn(view).id = id[s] -> "withdrawing"
                    [] OTHER -> "lost")
    BY DEF Verify
  <2> DEFINE q == CASE Route(view, pr, id[s], NoNonce, now) = "already_owned" -> "owner"
                    [] /\ Route(view, pr, id[s], NoNonce, now) = "disputed"
                       /\ ActiveIn(view).id = id[s] -> "withdrawing"
                    [] OTHER -> "lost"
  <2>2. phase' = [phase EXCEPT ![s] = q]
    BY <2>1 DEF Goto
  <2>3. q = "owner"
    <3> HIDE DEF q
    <3> QED  BY <2>2 DEF TypeOK
  <2>4. Route(view, pr, id[s], NoNonce, now) = "already_owned"
    BY <2>3
  <2> QED  BY <2>4
<1> DEFINE V == Sorted(view)
           L == Sorted(log)
<1>3. /\ view \in Seq(Comments) /\ V \in Seq(Comments) /\ L \in Seq(Comments) /\ log \in Seq(Comments)
      /\ Contents(V) \subseteq Contents(log) /\ Ordered(log)
  BY ViewsAre, SortedIs DEF TypeOK, InOrder
<1>4. id[s] = ActiveAfter(Strict(pr), V).id
  BY <1>2, RouteOwned
<1>5. Drawn(s)
  BY <1>1 DEF IdsAreDrawn
<1>6. id[s] \in Nat \ {None} /\ id[s] # HandoffId
  BY <1>5, DistinctIds
<1>7. \A e \in Contents(V) : e.kind # "handoff"
  BY <1>3, HandedOverIs
<1>8. KeptBeating(s)
  BY <1>1, <1>6 DEF IsBeating, Beating
<1> HIDE DEF V, L
<1>10. PICK n \in 1 .. Len(V) :
         /\ V[n].trusted /\ V[n].kind = "claim" /\ V[n].id = id[s]
         /\ ActiveAfter(Strict(pr), SubSeq(V, 1, n)) = Activate(V[n])
  BY <1>3, <1>4, <1>6, <1>7, ActivationPoint
<1>11. V[n] \in Contents(log)
  <2>1. n \in DOMAIN V
    BY <1>3
  <2>2. V[n] \in Contents(V)
    BY <2>1 DEF Contents
  <2> QED  BY <1>3, <2>2
<1>12. V[n].branch = 1 /\ V[n].sec = posted[s] /\ IsBeat(V[n], id[s])
  BY <1>1, <1>8, <1>10, <1>11 DEF KeptBeating, IsBeat
<1>13. PICK m \in 0 .. Len(log) :
          view = SubSeq(log, 1, m) /\ \A i \in DOMAIN log : log[i].sec < now => i <= m
  BY ViewsAre
<1>14. \A i \in m + 1 .. Len(log) : V[n].sec < log[i].sec
  <2> SUFFICES ASSUME NEW i \in m + 1 .. Len(log) PROVE V[n].sec < log[i].sec
    OBVIOUS
  <2>1. i \in DOMAIN log /\ ~(i <= m)
    BY <1>3, <1>13
  <2>2. ~(log[i].sec < now)
    BY <1>13, <2>1
  <2>3. log[i] \in Comments
    BY <1>3, <2>1
  <2>4. log[i].sec \in Nat /\ now \in Nat /\ posted[s] \in Nat
    BY <2>3, CommentFields DEF TypeOK
  <2> QED  BY <1>1, <1>12, <2>2, <2>4
<1>15. Keeps(L, V, n)
  BY <1>3, <1>10, <1>13, <1>14, ViewKeeps DEF V, L
<1>16. SubSeq(L, 1, n) = SubSeq(V, 1, n) /\ n \in DOMAIN L /\ L[n] = V[n]
  BY <1>3, <1>15, KeptPrefix DEF Keeps
<1>17. RootedAt(s, n)
  BY <1>10, <1>12, <1>16 DEF RootedAt, L
<1> QED  BY <1>1, <1>16, <1>17 DEF L

\* Once rooted, a claim stays rooted: every later comment is of a later second.
LEMMA IsRootedStep ==
  ASSUME TypeOK, InOrder, IdsAreDrawn, IsBeating, IsRooted, Next
  PROVE  IsRooted'
<1> DEFINE Owns(t) == phase[t] \in {"owner", "validated"} /\ id[t] # HandoffId
           Root(t) == posted[t] < now /\ \E n \in DOMAIN Sorted(log) : RootedAt(t, n)
<1> SUFFICES ASSUME NEW t \in Sessions, Owns(t)', ~HandedOver' PROVE Root(t)'
  BY DEF IsRooted
<1>1. ~HandedOver
  BY HandedOverStays
<1>2. Owns(t) => Root(t)
  BY <1>1 DEF IsRooted
<1>3. ASSUME log' = log, pr' = pr, id'[t] = id[t], posted'[t] = posted[t], now' \in {now, now + 1}, Root(t)
      PROVE  Root(t)'
  <2>1. posted'[t] < now'
    BY <1>3 DEF TypeOK
  <2>2. PICK n \in DOMAIN Sorted(log) : RootedAt(t, n)
    BY <1>3
  <2>3. n \in DOMAIN Sorted(log') /\ RootedAt(t, n)'
    BY <1>3, <2>2 DEF RootedAt
  <2> QED  BY <2>1, <2>3
<1>4. ASSUME NEW e \in Comments, Posts(e), posted'[t] = posted[t],
             phase[t] \in {"owner", "validated"}
      PROVE  Root(t)'
  <2>1. Root(t)
    BY <1>2, <1>4 DEF Posts
  <2>2. PICK n \in DOMAIN Sorted(log) : RootedAt(t, n)
    BY <2>1
  <2>3. n \in DOMAIN Sorted(log') /\ RootedAt(t, n)'
    BY <1>4, <2>1, <2>2, RootGrows DEF Posts
  <2> QED  BY <1>4, <2>1, <2>3 DEF Posts
<1>5. CASE \E e \in Comments : Saying(e)
  BY <1>4, <1>5 DEF Saying, SameFor
<1>6. CASE Passes
  BY <1>2, <1>3, <1>6 DEF Passes, mind
<1>7. ASSUME NEW s \in Sessions, NEW e \in Comments,
             Claiming(s, e) \/ Refreshing(s, e) \/ Releasing(s, e) \/ Activating(s, e)
      PROVE  Root(t)'
  <2>1. Posts(e)
    BY <1>7 DEF Claiming, Refreshing, Releasing, Activating, PostsBy
  <2>2. CASE t # s
    BY <1>4, <1>7, <2>1, <2>2 DEF Claiming, Refreshing, Releasing, Activating, PostsBy, SameFor
  <2>3. CASE t = s
    BY <1>4, <1>7, <2>1, <2>3 DEF Claiming, Refreshing, Releasing, Activating
  <2> QED  BY <2>2, <2>3
<1>8. ASSUME NEW s \in Sessions, LeavesOff(s) \/ GoesOn(s) PROVE Root(t)'
  <2>1. Owns(t)
    BY <1>8 DEF LeavesOff, GoesOn, Moves, Quiet
  <2> QED  BY <1>2, <1>3, <1>8, <2>1 DEF LeavesOff, GoesOn, Moves, Quiet
<1>9. ASSUME NEW s \in Sessions, IsVerified(s) PROVE Root(t)'
  <2>1. log' = log /\ pr' = pr /\ id' = id /\ posted' = posted /\ now' = now
    BY <1>9 DEF IsVerified, Moves, Quiet
  <2>2. CASE t = s
    <3>1. Root(t)
      <4>1. Verify(s) /\ phase'[s] = "owner"
        BY <1>9 DEF IsVerified, Moves
      <4> QED  BY <1>1, <2>2, <4>1, IsRootedAtVerification
    <3> QED  BY <1>3, <2>1, <3>1
  <2>3. CASE t # s
    <3>1. Owns(t)
      BY <1>9, <2>1, <2>3 DEF IsVerified, Moves
    <3> QED  BY <1>2, <1>3, <2>1, <3>1
  <2> QED  BY <2>2, <2>3
<1>10. ASSUME NEW s \in Sessions, Succeeds(s) PROVE Root(t)'
  <2>1. log' = log /\ pr' = pr /\ id' = id /\ posted' = posted /\ now' = now /\ t # s
    BY <1>10 DEF Succeeds, Moves, Quiet, IdsAreDrawn
  <2>2. Owns(t)
    BY <1>10, <2>1 DEF Succeeds, Moves
  <2> QED  BY <1>2, <1>3, <2>1, <2>2
<1>11. ASSUME NEW s \in Sessions, Opens(s) PROVE Root(t)'
  <2>1. log' = log /\ id' = id /\ posted' = posted /\ now' = now /\ Owns(t)
    BY <1>11 DEF Opens, Moves, Quiet
  <2>2. Root(t)
    BY <1>2, <2>1
  <2>3. PICK n \in DOMAIN Sorted(log) : RootedAt(t, n)
    BY <2>2
  <2> DEFINE l == SubSeq(Sorted(log), 1, n)
  <2>4. Sorted(log) \in Seq(Comments) /\ Contents(Sorted(log)) \subseteq Contents(log)
    BY SortedIs DEF TypeOK
  <2>5. l \in Seq(Comments) /\ Contents(l) \subseteq Contents(Sorted(log))
    <3> DEFINE S == Sorted(log)
    <3>1. S \in Seq(Comments) /\ n \in 1 .. Len(S)
      BY <2>4
    <3> HIDE DEF S
    <3>2. SubSeq(S, 1, n) \in Seq(Comments)
      BY <3>1
    <3>3. \A i \in DOMAIN SubSeq(S, 1, n) : i \in DOMAIN S /\ SubSeq(S, 1, n)[i] = S[i]
      BY <3>1
    <3> QED  BY <3>2, <3>3 DEF S, Contents
  <2>6. \A e \in Contents(l) : e.kind # "handoff"
    BY <1>1, <2>4, <2>5, HandedOverIs DEF TypeOK
  <2>7. ActiveAfter(Strict(pr'), l) = ActiveAfter(Strict(pr), l)
    <3> HIDE DEF l
    <3> QED  BY <2>5, <2>6, ActiveForAll
  <2>8. n \in DOMAIN Sorted(log') /\ RootedAt(t, n)'
    BY <2>1, <2>3, <2>7 DEF RootedAt
  <2> QED  BY <2>1, <2>2, <2>8
<1>12. ASSUME NEW s \in Sessions, Draws(s) \/ Follows(s) PROVE Root(t)'
  <2>1. t # s
    BY <1>12 DEF Draws, Follows
  <2>2. log' = log /\ pr' = pr /\ now' = now /\ id'[t] = id[t] /\ posted' = posted /\ phase'[t] = phase[t]
    BY <1>12, <2>1 DEF Draws, Follows
  <2> QED  BY <1>2, <1>3, <2>2
<1> QED  BY <1>5, <1>6, <1>7, <1>8, <1>9, <1>10, <1>11, <1>12, StepIs

\* ... and the nonces.
LEMMA IsAdoptedStep ==
  ASSUME TypeOK, InOrder, IdsAreDrawn, IsAdopted, Next
  PROVE  IsAdopted'
<1> DEFINE In(t) == phase[t] \in {"adopted", "owner", "validated"} /\ id[t] = HandoffId
           Its(e, t) == e.trusted /\ e.kind = "nonce" /\ e.id = HandoffId /\ e.nonce = Nonce[t]
           Has(t) == \E e \in Contents(log) : Its(e, t)
           Fine == \A e \in Contents(log) : e.kind = "nonce" => e.nonce # NoNonce
<1>1. Fine /\ \A t \in Sessions : In(t) => Has(t)
  BY DEF IsAdopted
<1>2. Contents(log) \subseteq Contents(log')
  BY HandedOverStays
<1>3. \A t \in Sessions : Has(t) => Has(t)'
  BY <1>2
<1>4. ASSUME Fine', \A t \in Sessions : In(t)' => In(t) \/ Has(t)'
      PROVE  IsAdopted'
  BY <1>1, <1>3, <1>4 DEF IsAdopted
<1>5. ASSUME NEW e \in Comments, Posts(e), e.kind = "nonce" => e.nonce # NoNonce
      PROVE  Fine'
  <2>1. Contents(log') = Contents(log) \cup {e}
    BY <1>5, Grows DEF Posts
  <2> QED  BY <1>1, <1>5, <2>1
<1>6. log' = log => Fine'
  BY <1>1
<1>7. CASE \E e \in Comments : Saying(e)
  <2>1. PICK e \in Comments : Saying(e)
    BY <1>7
  <2>2. Fine'
    BY <1>5, <2>1 DEF Saying
  <2>3. \A t \in Sessions : In(t)' => In(t)
    BY <2>1 DEF Saying, Posts, SameFor
  <2> QED  BY <1>4, <2>2, <2>3
<1>8. CASE Passes
  <2>1. \A t \in Sessions : In(t)' => In(t)
    BY <1>8 DEF Passes, mind
  <2> QED  BY <1>4, <1>6, <1>8, <2>1 DEF Passes
<1>9. ASSUME NEW s \in Sessions, NEW e \in Comments,
             Claiming(s, e) \/ Refreshing(s, e) \/ Releasing(s, e)
      PROVE  IsAdopted'
  <2>1. Posts(e) /\ e.kind # "nonce"
    BY <1>9 DEF Claiming, Refreshing, Releasing, PostsBy, IsBeat
  <2>2. \A t \in Sessions : In(t)' => In(t)
    BY <1>9 DEF Claiming, Refreshing, Releasing, PostsBy, Posts, SameFor
  <2> QED  BY <1>4, <1>5, <2>1, <2>2
<1>10. ASSUME NEW s \in Sessions, NEW e \in Comments, Activating(s, e)
       PROVE  IsAdopted'
  <2>1. Posts(e) /\ e.nonce = Nonce[s] /\ e.trusted /\ e.kind = "nonce" /\ e.id = id[s] /\ id' = id
    BY <1>10 DEF Activating, PostsBy, Posts
  <2>2. Fine' /\ e \in Contents(log')
    BY <1>5, <2>1, Constants, Grows DEF Posts
  <2>3. id[s] = HandoffId
    BY <1>10 DEF Activating, IdsAreDrawn
  <2>4. Has(s)'
    BY <2>1, <2>2, <2>3
  <2>5. \A t \in Sessions : t # s => (In(t)' => In(t))
    BY <1>10, <2>1 DEF Activating, PostsBy, SameFor
  <2> QED  BY <1>4, <2>2, <2>4, <2>5
<1>11. ASSUME NEW s \in Sessions, LeavesOff(s) \/ GoesOn(s) \/ IsVerified(s) \/ Succeeds(s) \/ Opens(s)
       PROVE  IsAdopted'
  <2>1. log' = log /\ id' = id
    BY <1>11 DEF LeavesOff, GoesOn, IsVerified, Succeeds, Opens, Moves, Quiet
  <2>2. CASE ~IsVerified(s)
    <3>1. \A t \in Sessions : In(t)' => In(t)
      BY <1>11, <2>1, <2>2 DEF LeavesOff, GoesOn, Succeeds, Opens, Moves
    <3> QED  BY <1>4, <1>6, <2>1, <3>1
  <2>3. CASE IsVerified(s)
    <3>1. Drawn(s)
      BY <2>3 DEF IsVerified, Moves, IdsAreDrawn
    <3>2. id[s] # HandoffId
      BY <3>1, DistinctIds
    <3>3. \A t \in Sessions : In(t)' => In(t)
      BY <2>1, <2>3, <3>2 DEF IsVerified, Moves
    <3> QED  BY <1>4, <1>6, <2>1, <3>3
  <2> QED  BY <2>2, <2>3
<1>12. ASSUME NEW s \in Sessions, Draws(s) \/ Follows(s) PROVE IsAdopted'
  <2>1. \A t \in Sessions : In(t)' => In(t)
    BY <1>12 DEF Draws, Follows
  <2>2. log' = log
    BY <1>12 DEF Draws, Follows
  <2> QED  BY <1>4, <1>6, <2>1, <2>2
<1> QED  BY <1>7, <1>8, <1>9, <1>10, <1>11, <1>12, StepIs

\* THE INVARIANT: every claim that a session holds has its place in the comments.
THEOREM Invariant == Spec => []IInv
<1>1. Init => IInv
  BY InitIInv
<1>2. IInv /\ [Next]_vars => IInv'
  <2> SUFFICES ASSUME IInv, [Next]_vars PROVE IInv'
    OBVIOUS
  <2>1. CASE Next
    BY <2>1, TypeStep, InOrderStep, IdsAreDrawnStep, IdsAreFreshStep, IsBeatingStep, IsRootedStep,
       IsAdoptedStep DEF IInv
  <2>2. CASE UNCHANGED vars
    BY <2>2 DEF vars, IInv, TypeOK, InOrder, IdsAreDrawn, Drawn, IdsAreFresh, SuccessorIsHandedOver,
       HandedOver, IsBeating, Beating, KeptBeating, Beats, IsRooted, RootedAt, IsAdopted
  <2> QED  BY <2>1, <2>2
<1> QED  BY <1>1, <1>2, PTL DEF Spec

-----------------------------------------------------------------------------
\* A timely owner works under an id that it drew and has kept beating.
LEMMA OwnersDrew ==
  ASSUME IInv, NEW s \in TimelyOwners
  PROVE  /\ s \in Sessions /\ Drawn(s) /\ ~HandedOver /\ Beating(s) /\ KeptBeating(s)
         /\ ~beat[s].late /\ now < beat[s].last + StaleAge
         /\ \E n \in DOMAIN Sorted(log) : RootedAt(s, n)
<1>1. /\ s \in Sessions /\ phase[s] \in {"owner", "validated"} /\ ~HandedOver
      /\ ~beat[s].late /\ now < beat[s].last + StaleAge
  BY DEF TimelyOwners, Owners
<1>2. Drawn(s)
  BY <1>1 DEF IInv, IdsAreDrawn
<1>3. id[s] # HandoffId
  BY <1>1, <1>2, DistinctIds DEF IInv
<1>4. Beating(s) /\ KeptBeating(s)
  BY <1>1, <1>3 DEF IInv, IsBeating, Beating
<1>5. \E n \in DOMAIN Sorted(log) : RootedAt(s, n)
  BY <1>1, <1>3 DEF IInv, IsRooted
<1> QED  BY <1>1, <1>2, <1>4, <1>5

\* From its root on the beats keep the claim of a timely owner active.
LEMMA OwnerIsActive == IInv => TimelyOwnerIsActive
<1> SUFFICES ASSUME IInv, NEW s \in TimelyOwners PROVE Active.id = id[s]
  BY DEF TimelyOwnerIsActive
<1> DEFINE S == Sorted(log)
<1>1. S \in Seq(Comments) /\ Contents(S) = {e \in Contents(log) : e.trusted} /\ Ordered(S)
      /\ Contents(log) \subseteq Comments
  BY SortedIs DEF IInv, TypeOK, InOrder
<1>2. /\ s \in Sessions /\ Drawn(s) /\ ~HandedOver /\ KeptBeating(s)
      /\ ~beat[s].late /\ now < beat[s].last + StaleAge
      /\ now \in Nat /\ posted[s] \in Nat /\ beat[s].last \in Nat
  BY OwnersDrew DEF IInv, TypeOK
<1>3. PICK n \in DOMAIN S : RootedAt(s, n)
  BY OwnersDrew
<1>4. id[s] \in Nat \ {None}
  BY <1>2, DistinctIds DEF IInv
<1>5. Active = ActiveAfter(Strict(pr), S)
  BY DEF Active, ActiveIn, ResolveActiveClaim, Sorted
<1>6. /\ IsBeat(S[n], id[s]) /\ S[n].sec = posted[s]
      /\ ActiveAfter(Strict(pr), SubSeq(S, 1, n)) = Activate(S[n])
  BY <1>3 DEF RootedAt
<1> HIDE DEF S
<1>7. \A e \in Contents(S) : e.kind # "handoff" /\ (e.kind = "release" => e.id # id[s])
  <2>1. \A e \in Contents(log) : e.kind # "handoff"
    BY <1>2, HandedOverIs DEF IInv, TypeOK
  <2>2. \A e \in Contents(log) : e.kind = "release" => e.id # id[s]
    BY <1>2 DEF KeptBeating
  <2> QED  BY <1>1, <2>1, <2>2
<1>8. Beats(s) \subseteq Contents(S) /\ \A b \in Beats(s) : IsBeat(b, id[s])
  BY <1>1 DEF Beats, IsBeat
<1>9. ASSUME NEW e \in Contents(S), e.sec > posted[s]
      PROVE  \E b \in Contents(S) : IsBeat(b, id[s]) /\ b.sec < e.sec /\ e.sec < b.sec + StaleAge
  <2>1. e.sec \in Nat /\ e.sec <= now
    <3>1. e \in Contents(log) /\ e \in Comments
      BY <1>1
    <3> QED  BY <3>1, CommentFields DEF IInv, InOrder
  <2>2. CASE e.sec <= beat[s].last
    <3>1. e.sec \in posted[s] + 1 .. beat[s].last
      BY <1>2, <1>9, <2>1, <2>2
    <3>2. \E b \in Beats(s) : b.sec < e.sec /\ e.sec < b.sec + StaleAge
      BY <1>2, <3>1 DEF KeptBeating
    <3> QED  BY <1>8, <3>2
  <2>3. CASE e.sec > beat[s].last
    <3>1. PICK b \in Beats(s) : b.sec = beat[s].last
      BY <1>2 DEF KeptBeating
    <3>2. b.sec < e.sec /\ e.sec < b.sec + StaleAge
      BY <1>2, <2>1, <2>3, <3>1, Constants
    <3> QED  BY <1>8, <3>1, <3>2
  <2> QED  BY <1>2, <2>1, <2>2, <2>3
<1>10. n \in 1 .. Len(S)
  BY <1>1
<1>11. \A e \in Contents(S) : e.sec > S[n].sec =>
          \E b \in Contents(S) : IsBeat(b, id[s]) /\ b.sec < e.sec /\ e.sec < b.sec + StaleAge
  BY <1>6, <1>9
<1>12. ActiveAfter(Strict(pr), S).id = id[s]
  BY <1>1, <1>4, <1>6, <1>7, <1>10, <1>11, BeatingStaysActive
<1> QED  BY <1>5, <1>12

(* A session that verified its claim and heartbeats in time keeps the       *)
(* active claim of the issue, whatever the others read, post and miss.     *)
THEOREM OwnersAreActive == Spec => []TimelyOwnerIsActive
  BY Invariant, OwnerIsActive, PTL

\* At most one session is a timely owner.
OneTimelyOwner == \A s, t \in TimelyOwners : s = t

\* There is one active claim, and an id is of one session.
LEMMA IsOneTimelyOwner == IInv => OneTimelyOwner
<1> SUFFICES ASSUME IInv, NEW s \in TimelyOwners, NEW t \in TimelyOwners PROVE s = t
  BY DEF OneTimelyOwner
<1>1. id[s] = id[t]
  BY OwnerIsActive DEF TimelyOwnerIsActive
<1>2. s \in Sessions /\ Drawn(s) /\ t \in Sessions
  BY OwnersDrew
<1> QED  BY <1>1, <1>2, DistinctIds DEF IInv

\* The same owner is timely after a step only if it was before, or verifies.
LEMMA OwnersChange ==
  ASSUME IInv, Next
  PROVE  \/ TimelyOwners' \subseteq TimelyOwners
         \/ \E s \in Sessions : TimelyOwners' = TimelyOwners \cup {s}
<1>1. HandedOver => HandedOver'
  BY HandedOverStays DEF IInv
<1>2. ASSUME NEW t \in Sessions, t \in TimelyOwners', phase[t] \in {"owner", "validated"},
             beat'[t] = beat[t], now' \in {now, now + 1}
      PROVE  t \in TimelyOwners
  <2>1. now' >= now /\ now \in Nat /\ now' \in Nat /\ beat[t].last \in Nat
    BY <1>2 DEF IInv, TypeOK
  <2>2. ~beat'[t].late /\ now' < beat'[t].last + StaleAge /\ ~HandedOver'
    BY <1>2 DEF TimelyOwners
  <2>3. ~beat[t].late /\ now < beat[t].last + StaleAge /\ ~HandedOver
    BY <1>1, <1>2, <2>1, <2>2, Constants
  <2> QED  BY <1>2, <2>3 DEF TimelyOwners, Owners
<1>3. ASSUME NEW t \in Sessions, t \in TimelyOwners' PROVE phase'[t] \in {"owner", "validated"}
  BY <1>3 DEF TimelyOwners, Owners
<1>4. TimelyOwners' \subseteq Sessions
  BY DEF TimelyOwners, Owners
<1>5. CASE \E e \in Comments : Saying(e)
  BY <1>2, <1>3, <1>4, <1>5 DEF Saying, Posts, SameFor
<1>6. CASE Passes
  BY <1>2, <1>3, <1>4, <1>6 DEF Passes, mind
<1>7. ASSUME NEW s \in Sessions, NEW e \in Comments,
             Claiming(s, e) \/ Releasing(s, e) \/ Activating(s, e)
      PROVE  TimelyOwners' \subseteq TimelyOwners
  BY <1>2, <1>3, <1>4, <1>7 DEF Claiming, Releasing, Activating, PostsBy, Posts, SameFor
<1>8. ASSUME NEW s \in Sessions, NEW e \in Comments, Refreshing(s, e)
      PROVE  TimelyOwners' \subseteq TimelyOwners
  <2> SUFFICES ASSUME NEW t \in TimelyOwners' PROVE t \in TimelyOwners
    OBVIOUS
  <2>1. t \in Sessions /\ phase'[t] \in {"owner", "validated"} /\ now' = now
    BY <1>3, <1>4, <1>8 DEF Refreshing, PostsBy, Posts
  <2>2. CASE t # s \/ beat'[t] = beat[t]
    <3>1. beat'[t] = beat[t] /\ phase[t] \in {"owner", "validated"}
      BY <1>8, <2>1, <2>2 DEF Refreshing, PostsBy, SameFor
    <3> QED  BY <1>2, <2>1, <3>1
  <2>3. CASE t = s /\ beat'[t] # beat[t]
    <3>1. ~beat'[s].late /\ ~HandedOver'
      BY <2>3 DEF TimelyOwners
    <3>2. ~beat[s].late /\ now < beat[s].last + StaleAge /\ phase[s] = "validated"
      BY <1>8, <2>3, <3>1 DEF Refreshing
    <3> QED  BY <1>1, <2>1, <2>3, <3>1, <3>2 DEF TimelyOwners, Owners
  <2> QED  BY <2>2, <2>3
<1>9. ASSUME NEW s \in Sessions, LeavesOff(s) \/ GoesOn(s) \/ Opens(s) \/ Draws(s) \/ Follows(s)
      PROVE  TimelyOwners' \subseteq TimelyOwners
  <2>1. now' = now
    BY <1>9 DEF LeavesOff, GoesOn, Opens, Moves, Quiet, Draws, Follows
  <2>2. \A t \in Sessions : phase'[t] \in {"owner", "validated"} =>
           phase[t] \in {"owner", "validated"} /\ beat'[t] = beat[t]
    BY <1>9 DEF LeavesOff, GoesOn, Opens, Moves, Quiet, Draws, Follows
  <2> QED  BY <1>2, <1>3, <1>4, <2>1, <2>2
<1>10. ASSUME NEW s \in Sessions, IsVerified(s) \/ Succeeds(s)
       PROVE  \/ TimelyOwners' \subseteq TimelyOwners
              \/ TimelyOwners' = TimelyOwners \cup {s}
  <2>1. /\ now' = now /\ beat' = beat /\ log' = log /\ phase'[s] = "owner"
        /\ \A t \in Sessions \ {s} : phase'[t] = phase[t]
    BY <1>10 DEF IsVerified, Succeeds, Moves, Quiet
  <2>2. TimelyOwners' \subseteq TimelyOwners \cup {s}
    BY <1>2, <1>3, <1>4, <2>1
  <2>3. TimelyOwners \subseteq TimelyOwners'
    BY <2>1 DEF TimelyOwners, Owners, HandedOver
  <2> QED  BY <2>2, <2>3
<1> QED  BY <1>5, <1>6, <1>7, <1>8, <1>9, <1>10, StepIs DEF IInv

(* Among timely owners the comments of an issue implement a mutex.         *)
THEOREM ClaimsImplementMutex == Spec => ImplementsMutex
<1>1. Init => M!Init
  <2> SUFFICES ASSUME Init PROVE TimelyOwners = {}
    BY DEF M!Init
  <2> QED  BY DEF Init, TimelyOwners, Owners
<1>2. IInv /\ OneTimelyOwner /\ OneTimelyOwner' /\ [Next]_vars => [M!Next]_TimelyOwners
  <2> SUFFICES ASSUME IInv, OneTimelyOwner, OneTimelyOwner', [Next]_vars, TimelyOwners' # TimelyOwners PROVE M!Next
    OBVIOUS
  <2>1. Next
    BY DEF vars, TimelyOwners, Owners, HandedOver
  <2>2. \A s, t \in TimelyOwners : s = t
    BY DEF OneTimelyOwner
  <2>3. \A s, t \in TimelyOwners' : s = t
    BY DEF OneTimelyOwner
  <2>4. CASE TimelyOwners' \subseteq TimelyOwners
    <3>1. TimelyOwners # {} /\ TimelyOwners' = {}
      BY <2>2, <2>4
    <3> QED  BY <3>1 DEF M!Next, M!Leave
  <2>5. ASSUME NEW s \in Sessions, TimelyOwners' = TimelyOwners \cup {s} PROVE M!Next
    <3>1. TimelyOwners = {} /\ TimelyOwners' = {s}
      BY <2>3, <2>5
    <3> QED  BY <3>1 DEF M!Next, M!Enter
  <2> QED  BY <2>1, <2>4, <2>5, OwnersChange
<1> QED  BY <1>1, <1>2, Invariant, IsOneTimelyOwner, PTL DEF Spec, ImplementsMutex, M!Spec

-----------------------------------------------------------------------------
\* The nonce that wins is one that was posted, when any was.
LEMMA WinnerIsPosted ==
  ASSUME NEW l \in Seq(Comments), NEW c, NEW e \in Contents(l), e.kind = "nonce", e.id = c
  PROVE  \E x \in Contents(l) : x.kind = "nonce" /\ x.id = c /\ NonceWinner(l, c) = x.nonce
<1> DEFINE values == {l[i].nonce : i \in ActivationNonces(l, c)}
<1>1. e.nonce \in values
  BY DEF Contents, ActivationNonces
<1>2. \A v \in values : v \in Nat
  <2>1. \A i \in DOMAIN l : l[i] \in Comments
    OBVIOUS
  <2> QED  BY <2>1, CommentFields DEF ActivationNonces
<1> HIDE DEF values
<1>3. \E v \in values : \A m \in values : v <= m
  <2>1. values \subseteq Nat /\ values # {}
    BY <1>1, <1>2
  <2> QED  BY <2>1, LeastNatural
<1>4. (CHOOSE v \in values : \A m \in values : v <= m) \in values
  BY <1>3
<1>5. NonceWinner(l, c) = CHOOSE v \in values : \A m \in values : v <= m
  BY <1>1 DEF NonceWinner, values
<1>6. NonceWinner(l, c) \in values
  BY <1>4, <1>5
<1> QED  BY <1>6 DEF values, Contents, ActivationNonces

\* Two sessions under one id are adopters, whose nonces differ, and one wins.
LEMMA GateExcludes == IInv => GateIsExclusive
<1> SUFFICES ASSUME IInv, NEW s \in Owners, NEW t \in Owners,
                    Route(log, pr, id[s], Nonce[s], now) = "already_owned",
                    Route(log, pr, id[t], Nonce[t], now) = "already_owned",
                    s # t
             PROVE  FALSE
  BY DEF GateIsExclusive
<1> DEFINE w == NonceWinner(Trusted(log), HandoffId)
<1>1. s \in Sessions /\ t \in Sessions /\ Nonce[s] # NoNonce /\ Nonce[t] # NoNonce /\ Nonce[s] # Nonce[t]
  BY Constants DEF Owners
<1>2. id[s] = id[t] /\ id[s] # None
  BY RouteOwned
<1>3. id[s] = HandoffId
  <2>1. ~Drawn(s)
    BY <1>1, <1>2, DistinctIds DEF IInv
  <2> QED  BY <1>1, <1>2, <2>1 DEF IInv, IdsAreDrawn
<1>4. w \in {NoNonce, Nonce[s]} /\ w \in {NoNonce, Nonce[t]}
  BY <1>1, <1>2, <1>3, RouteOwned
<1>5. w = NoNonce
  BY <1>1, <1>4
<1>6. Trusted(log) \in Seq(Comments) /\ Contents(Trusted(log)) = {e \in Contents(log) : e.trusted}
  BY TrustedContents DEF IInv, TypeOK
<1>7. PICK e \in Contents(log) : e.trusted /\ e.kind = "nonce" /\ e.id = HandoffId
  BY <1>1, <1>3 DEF IInv, IsAdopted, Owners
<1>8. PICK x \in Contents(Trusted(log)) : x.kind = "nonce" /\ w = x.nonce
  <2>1. e \in Contents(Trusted(log))
    BY <1>6, <1>7
  <2> QED  BY <1>6, <1>7, <2>1, WinnerIsPosted
<1>9. x \in Contents(log)
  BY <1>6, <1>8
<1> QED  BY <1>5, <1>8, <1>9 DEF IInv, IsAdopted

(* The gate before a mutation lets one of the sessions pass that hold a     *)
(* claim, adopters of the same successor among them.                       *)
THEOREM GateExcludesOthers == Spec => []GateIsExclusive
  BY Invariant, GateExcludes, PTL

\* When the routing neither takes an issue as free nor as stale.
LEMMA RouteWithheld ==
  ASSUME NEW l, NEW p, NEW t, FreshClaimGate(l, p, t).verdict = "already-claimed"
  PROVE  \/ /\ HasLegacyClaim(Trusted(l)) /\ LegacyClaim(Trusted(l)) # NoClaim
            /\ ~IsStale(LegacyClaim(Trusted(l)), t)
         \/ /\ ActiveAfter(Strict(p), Sorted(l)) # NoClaim
            /\ ~IsStale(ActiveAfter(Strict(p), Sorted(l)), t)
<1> DEFINE i == None
           n == NoNonce
           active == ResolveActiveClaim(Strict(p), Trusted(l))
           winner == NonceWinner(Trusted(l), active.id)
           owner == active # NoClaim /\ i # None /\ i = active.id
           contested ==
              \/ LaterCompetingClaim(Trusted(l), active)
              \/ n # NoNonce /\ winner \notin {NoNonce, n}
              \/ n = NoNonce /\ Cardinality(ActivationNonces(Trusted(l), active.id)) >= 2
           none == Claims(Trusted(l)) = {}
           old == ~HasLegacyClaim(Trusted(l)) \/ LegacyClaim(Trusted(l)) = NoClaim
           aged == IsStale(LegacyClaim(Trusted(l)), t)
           rival == i # None /\ i \in SameSecondContenders(Trusted(l), active)
           stale == IsStale(active, t)
           later == LaterCompetingClaim(Trusted(l), active)
           route == Route(l, p, None, NoNonce, t)
<1>1. route =
        CASE none -> IF old THEN "unclaimed" ELSE IF aged THEN "stale" ELSE "non_inheritable"
          [] ~none /\ active = NoClaim -> "unclaimed"
          [] owner -> IF contested THEN "disputed" ELSE "already_owned"
          [] ~none /\ active # NoClaim /\ ~owner ->
                IF rival THEN "disputed" ELSE IF stale THEN "stale"
                ELSE IF later THEN "disputed" ELSE "non_inheritable"
  BY Zenon DEF Route
<1>2. active = ActiveAfter(Strict(p), Sorted(l))
  BY DEF ResolveActiveClaim, Sorted
<1>3. route # "unclaimed" /\ route # "stale"
  <2>1. FreshClaimGate(l, p, t).verdict =
          CASE route = "unclaimed" -> "claimable"
            [] route = "stale" -> "stale-reclaimable"
            [] OTHER -> "already-claimed"
    BY Zenon DEF FreshClaimGate
  <2> HIDE DEF route
  <2> QED  BY <2>1
<1>4. ~owner /\ ~rival
  OBVIOUS
<1>5. (none /\ ~old /\ ~aged) \/ (~none /\ active # NoClaim /\ ~stale)
  <2> HIDE DEF old, aged, rival, stale, later, contested, none, route, owner
  <2> QED  BY <1>1, <1>3, <1>4
<1> QED  BY <1>2, <1>5

\* A legacy claim that counts is one of the comments.
LEMMA LegacyClaimIs ==
  ASSUME NEW l \in Seq(Comments), HasLegacyClaim(l), LegacyClaim(l) # NoClaim
  PROVE  \E i \in DOMAIN l : l[i].kind = "legacyClaim" /\ LegacyClaim(l).sec = l[i].sec
<1> DEFINE claims == LegacyClaims(l)
           last == CHOOSE i \in claims : \A j \in claims : j <= i
<1>1. claims # {} /\ claims \subseteq 1 .. Len(l) /\ Len(l) \in Nat
  BY DEF HasLegacyClaim, LegacyClaims
<1>2. \E i \in claims : \A j \in claims : j <= i
  <2> DEFINE D == {Len(l) - i : i \in claims}
  <2>1. D \subseteq Nat /\ D # {}
    <3>1. \A i \in claims : i \in 1 .. Len(l)
      BY <1>1
    <3>2. \A i \in claims : Len(l) - i \in Nat
      <4> HIDE DEF claims
      <4> QED  BY <1>1, <3>1
    <3>3. \A d \in D : d \in Nat
      <4> HIDE DEF claims
      <4> QED  BY <3>2
    <3>4. PICK i \in claims : TRUE
      BY <1>1
    <3>5. Len(l) - i \in D
      OBVIOUS
    <3> QED  BY <3>3, <3>5
  <2>2. PICK d \in D : \A m \in D : d <= m
    <3> HIDE DEF D
    <3> QED  BY <2>1, LeastNatural
  <2>3. PICK i \in claims : d = Len(l) - i
    OBVIOUS
  <2>4. ASSUME NEW j \in claims PROVE j <= i
    <3>1. d <= Len(l) - j
      BY <2>2
    <3> HIDE DEF claims, D
    <3> QED  BY <1>1, <2>3, <3>1
  <2> QED  BY <2>4
<1>3. last \in claims
  <2> HIDE DEF claims
  <2> QED  BY <1>2
<1>4. LegacyClaim(l) = [NoClaim EXCEPT !.sec = l[last].sec]
  BY Zenon DEF LegacyClaim
<1>5. LegacyClaim(l).sec = l[last].sec
  <2> HIDE DEF last
  <2> QED  BY <1>4 DEF NoClaim
<1> QED  BY <1>3, <1>5 DEF LegacyClaims

\* The active claim is as old as the comment it comes from.
LEMMA WithheldIsFresh == IInv => NeverWithheldForGood
<1> SUFFICES ASSUME IInv, FreshClaimGate(log, pr, now).verdict = "already-claimed"
             PROVE  \E i \in DOMAIN log :
                      /\ log[i].kind \in {"claim", "handoff", "legacyClaim"}
                      /\ log[i].kind = "claim" => log[i].branch = Active.branch
                      /\ now < log[i].sec + StaleAge
  BY DEF NeverWithheldForGood
<1> DEFINE Fits(e) == /\ e.kind \in {"claim", "handoff", "legacyClaim"}
                      /\ e.kind = "claim" => e.branch = Active.branch
                      /\ now < e.sec + StaleAge
<1>1. /\ log \in Seq(Comments) /\ now \in Nat /\ Sorted(log) \in Seq(Comments)
      /\ Trusted(log) \in Seq(Comments)
      /\ Contents(Trusted(log)) \subseteq Contents(log)
      /\ Contents(Sorted(log)) \subseteq Contents(log) /\ Contents(log) \subseteq Comments
  BY SortedIs, TrustedContents DEF IInv, TypeOK
<1>2. Active = ActiveAfter(Strict(pr), Sorted(log))
  BY DEF Active, ActiveIn, ResolveActiveClaim, Sorted
<1>3. ASSUME NEW e \in Contents(log), Fits(e)
      PROVE  \E i \in DOMAIN log : Fits(log[i])
  BY <1>3 DEF Contents
<1>4. CASE /\ HasLegacyClaim(Trusted(log)) /\ LegacyClaim(Trusted(log)) # NoClaim
           /\ ~IsStale(LegacyClaim(Trusted(log)), now)
  <2>1. PICK i \in DOMAIN Trusted(log) :
           /\ Trusted(log)[i].kind = "legacyClaim"
           /\ LegacyClaim(Trusted(log)).sec = Trusted(log)[i].sec
    BY <1>1, <1>4, LegacyClaimIs
  <2> DEFINE e == Trusted(log)[i]
  <2>2. e \in Contents(log)
    BY <1>1, <2>1 DEF Contents
  <2>3. e.kind = "legacyClaim" /\ ~(now >= e.sec + StaleAge)
    BY <1>4, <2>1 DEF IsStale
  <2>4. e.sec \in Nat
    BY <1>1, <2>2, CommentFields
  <2> HIDE DEF e
  <2>5. Fits(e)
    BY <1>1, <2>3, <2>4, Constants
  <2> QED  BY <1>3, <2>2, <2>5
<1>5. CASE Active # NoClaim /\ ~IsStale(Active, now)
  <2>1. PICK e \in Contents(Sorted(log)) : ComesFrom(Active, e)
    BY <1>1, <1>2, <1>5, ActiveComesFrom
  <2>2. e \in Contents(log)
    BY <1>1
  <2>3. e.sec \in Nat
    BY <1>1, <2>2, CommentFields
  <2>4. e.kind \in {"claim", "handoff"} /\ e.branch = Active.branch /\ ~(now >= e.sec + StaleAge)
    BY <1>5, <2>1 DEF ComesFrom, IsStale
  <2>5. Fits(e)
    BY <1>1, <2>3, <2>4, Constants
  <2> QED  BY <1>3, <2>2, <2>5
<1> QED  BY <1>2, <1>4, <1>5, RouteWithheld

(* An issue that is withheld from new sessions has a claim that was        *)
(* refreshed, on its own branch, less than StaleAge ago.                   *)
THEOREM WithheldIssuesAreFresh == Spec => []NeverWithheldForGood
  BY Invariant, WithheldIsFresh, PTL
=============================================================================
