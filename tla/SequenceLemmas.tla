---------------------------- MODULE SequenceLemmas ----------------------------
(***************************************************************************)
(* What the proofs about the components share: greatest and least elements *)
(* of sets of numbers, induction over an initial segment, and what a fold  *)
(* over a sequence computes, step by step.                                 *)
(***************************************************************************)
EXTENDS Integers, FiniteSetsExt, FiniteSetTheorems, SequenceTheorems, WellFoundedInduction, TLAPS

(***************************************************************************)
(* A finite, non-empty set of integers has a greatest element, which Max   *)
(* returns. The proof is an induction over the subsets of S, in the form   *)
(* of a minimal bad subset.                                                *)
(***************************************************************************)
HasGreatest(T) == \E m \in T : \A y \in T : y <= m

\* There is a greatest element.
LEMMA GreatestExists ==
  ASSUME NEW S, IsFiniteSet(S), S \subseteq Int, S # {}
  PROVE  HasGreatest(S)
<1> DEFINE Bad == {T \in SUBSET S : T # {} /\ ~HasGreatest(T)}
<1>1. Bad = {}
  <2>1. SUFFICES ASSUME Bad # {} PROVE FALSE
    OBVIOUS
  <2>2. IsWellFoundedOn(StrictSubsetOrdering(S), SUBSET S)
    BY FS_StrictSubsetOrderingWellFounded, FS_FiniteSubsetsOfFinite
  <2>3. PICK T \in Bad : \A U \in Bad : <<U, T>> \notin StrictSubsetOrdering(S)
    <3>1. Bad \subseteq SUBSET S
      OBVIOUS
    <3> HIDE DEF Bad
    <3> QED BY <2>1, <2>2, <3>1, WFMin
  <2>4. PICK x \in T : TRUE
    OBVIOUS
  <2> DEFINE U == T \ {x}
  <2>5. U \in SUBSET S /\ U # T /\ U \subseteq T
    BY <2>4
  <2>6. <<U, T>> \in StrictSubsetOrdering(S)
    BY <2>5, T \in SUBSET S DEF StrictSubsetOrdering
  <2>7. U \notin Bad
    BY <2>3, <2>6
  <2>8. CASE U = {}
    <3>1. T = {x} /\ x \in Int
      BY <2>4, <2>8
    <3> QED BY <3>1 DEF HasGreatest
  <2>9. CASE U # {}
    <3>1. PICK m \in U : \A y \in U : y <= m
      BY <2>5, <2>7, <2>9 DEF HasGreatest
    <3>2. m \in T /\ x \in T /\ T \subseteq Int /\ m \in Int /\ x \in Int
      BY <2>4
    <3>3. CASE x <= m
      <4>1. \A y \in T : y <= m
        BY <3>1, <3>3
      <4> QED BY <3>2, <4>1 DEF HasGreatest
    <3>4. CASE m < x
      <4>1. \A y \in T : y <= x
        BY <3>1, <3>2, <3>4
      <4> QED BY <3>2, <4>1 DEF HasGreatest
    <3> QED BY <3>2, <3>3, <3>4
  <2> QED BY <2>8, <2>9
<1> QED BY <1>1

\* It is what Max chooses.
LEMMA MaxIsGreatest ==
  ASSUME NEW S, IsFiniteSet(S), S \subseteq Int, S # {}
  PROVE  Max(S) \in S /\ \A y \in S : y <= Max(S)
<1>1. PICK m \in S : \A y \in S : y <= m
  BY GreatestExists DEF HasGreatest
<1>2. \A y \in S : m >= y
  BY <1>1
<1>3. Max(S) \in S /\ \A y \in S : Max(S) >= y
  BY <1>2 DEF Max
<1> QED BY <1>3

\* The values of a function on a finite set are finite.
LEMMA ImageIsFinite ==
  ASSUME NEW S, IsFiniteSet(S), NEW f
  PROVE  IsFiniteSet({f[x] : x \in S})
<1> DEFINE T == {f[x] : x \in S}
           g == [x \in S |-> f[x]]
<1>1. g \in Surjection(S, T)
  BY DEF Surjection
<1> QED BY <1>1, FS_Surjection
-----------------------------------------------------------------------------
(***************************************************************************)
(* Induction, for sets of numbers, and what folding a sequence computes.   *)
(***************************************************************************)
\* Every non-empty set of naturals has a least element.
LEMMA LeastExists ==
  ASSUME NEW S, S \subseteq Nat, S # {}
  PROVE  \E m \in S : \A x \in S : m <= x
<1>1. IsWellFoundedOn(OpToRel(<, Nat), Nat)
  BY NatLessThanWellFounded
<1>2. PICK m \in S : \A x \in S : <<x, m>> \notin OpToRel(<, Nat)
  BY <1>1, WFMin
<1>3. \A x \in S : ~(x < m)
  BY <1>2 DEF OpToRel
<1> QED BY <1>3

\* The least one is what Min chooses.
LEMMA MinIsLeast ==
  ASSUME NEW S, S \subseteq Nat, S # {}
  PROVE  Min(S) \in S /\ \A x \in S : Min(S) <= x
<1>1. \E m \in S : \A x \in S : m <= x
  BY LeastExists
<1> QED BY <1>1 DEF Min

\* A set that holds 0, and with each number below n the next one.
LEMMA Steps ==
  ASSUME NEW n \in Nat, NEW T, 0 \in T,
         \A k \in 1 .. n : k - 1 \in T => k \in T
  PROVE  0 .. n \subseteq T
<1> DEFINE U == (0 .. n) \ T
<1> SUFFICES ASSUME U # {} PROVE FALSE
  OBVIOUS
<1>1. PICK m \in U : \A x \in U : m <= x
  <2>1. U \subseteq Nat
    OBVIOUS
  <2> HIDE DEF U
  <2> QED BY <2>1, LeastExists
<1>2. m \in 1 .. n /\ m - 1 \in 0 .. n
  <2>1. m # 0
    OBVIOUS
  <2> QED BY <2>1
<1>3. m - 1 \in T
  BY <1>1, <1>2
<1> QED BY <1>2, <1>3

\* Taking the greatest element off a set at a time: what the library's folds
\* do. Its recursion has a solution, whatever the step G is.
FoldsOver(f, n, base, G) ==
  \A s \in SUBSET (1 .. n) :
    f[s] = IF s = {} THEN base ELSE G[<<f[s \ {Max(s)}], Max(s)>>]

\* The recursion has a solution, built one prefix 1 .. k at a time.
LEMMA FoldExists ==
  ASSUME NEW n \in Nat, NEW S, NEW base \in S, NEW G \in [S \X (1 .. n) -> S]
  PROVE  \E f \in [SUBSET (1 .. n) -> S] : FoldsOver(f, n, base, G)
<1> DEFINE T == {m \in 0 .. n : \E f \in [SUBSET (1 .. m) -> S] : FoldsOver(f, m, base, G)}
<1>1. 0 \in T
  <2> DEFINE f == [s \in SUBSET (1 .. 0) |-> base]
  <2>1. f \in [SUBSET (1 .. 0) -> S] /\ \A s \in SUBSET (1 .. 0) : s = {}
    OBVIOUS
  <2>2. FoldsOver(f, 0, base, G)
    BY <2>1 DEF FoldsOver
  <2> QED BY <2>1, <2>2
<1>2. ASSUME NEW k \in 1 .. n, k - 1 \in T
      PROVE  k \in T
  <2>1. PICK f \in [SUBSET (1 .. k - 1) -> S] : FoldsOver(f, k - 1, base, G)
    BY <1>2
  <2> DEFINE h == [s \in SUBSET (1 .. k) |->
                     IF k \in s THEN G[<<f[s \ {k}], k>>] ELSE f[s]]
  <2>2. \A s \in SUBSET (1 .. k) : s \ {k} \in SUBSET (1 .. k - 1)
    OBVIOUS
  <2>3. h \in [SUBSET (1 .. k) -> S]
    <3> SUFFICES ASSUME NEW s \in SUBSET (1 .. k) PROVE h[s] \in S
      OBVIOUS
    <3>1. f[s \ {k}] \in S /\ (k \notin s => f[s] \in S)
      BY <2>2
    <3> QED BY <3>1
  <2>4. FoldsOver(h, k, base, G)
    <3> SUFFICES ASSUME NEW s \in SUBSET (1 .. k)
                 PROVE  h[s] = IF s = {} THEN base ELSE G[<<h[s \ {Max(s)}], Max(s)>>]
      BY DEF FoldsOver
    <3>1. CASE k \in s
      <4>1. \A y \in s : k >= y
        OBVIOUS
      <4>2. \A x \in s : (\A y \in s : x >= y) => x = k
        BY <3>1
      <4>3. Max(s) = k
        BY <3>1, <4>1, <4>2 DEF Max
      <4>4. h[s \ {k}] = f[s \ {k}]
        BY <2>2
      <4> QED BY <3>1, <4>3, <4>4
    <3>2. CASE k \notin s
      <4>1. s \in SUBSET (1 .. k - 1) /\ s \ {Max(s)} \in SUBSET (1 .. k - 1)
        BY <3>2, <2>2
      <4>2. f[s] = IF s = {} THEN base ELSE G[<<f[s \ {Max(s)}], Max(s)>>]
        BY <2>1, <4>1 DEF FoldsOver
      <4>3. h[s \ {Max(s)}] = f[s \ {Max(s)}] /\ h[s] = f[s]
        BY <3>2, <4>1
      <4> QED BY <4>2, <4>3
    <3> QED BY <3>1, <3>2
  <2> HIDE DEF h
  <2> QED BY <2>3, <2>4
<1>3. n \in T
  <2> HIDE DEF T
  <2>1. 0 .. n \subseteq T
    BY <1>1, <1>2, Steps
  <2> QED BY <2>1
<1> QED BY <1>3

\* The greatest element of a set of positions, and of the first k.
LEMMA GreatestPosition ==
  ASSUME NEW n \in Nat
  PROVE  /\ \A s \in SUBSET (1 .. n) : s # {} => Max(s) \in s
         /\ \A k \in 1 .. n : /\ 1 .. k \in SUBSET (1 .. n) /\ 1 .. k # {}
                              /\ Max(1 .. k) = k /\ (1 .. k) \ {k} = 1 .. k - 1
<1>1. ASSUME NEW s \in SUBSET (1 .. n), s # {}
      PROVE  Max(s) \in s
  <2> DEFINE T == {y \in Nat : n - y \in s}
  <2>1. T \subseteq Nat /\ T # {}
    <3>1. PICK x \in s : TRUE
      BY <1>1
    <3>2. n - x \in Nat /\ n - (n - x) = x
      OBVIOUS
    <3> QED BY <3>1, <3>2
  <2>2. PICK m \in T : \A y \in T : m <= y
    <3> HIDE DEF T
    <3> QED BY <2>1, LeastExists
  <2>3. n - m \in s /\ \A y \in s : n - m >= y
    <3>1. \A y \in s : n - y \in T
      OBVIOUS
    <3> QED BY <2>2, <3>1
  <2> QED BY <2>3 DEF Max
<1>2. ASSUME NEW k \in 1 .. n
      PROVE  /\ 1 .. k \in SUBSET (1 .. n) /\ 1 .. k # {}
             /\ Max(1 .. k) = k /\ (1 .. k) \ {k} = 1 .. k - 1
  <2>1. k \in 1 .. k /\ (\A y \in 1 .. k : k >= y)
    OBVIOUS
  <2>2. \A x \in 1 .. k : (\A y \in 1 .. k : x >= y) => x = k
    OBVIOUS
  <2>3. Max(1 .. k) = k
    BY <2>1, <2>2 DEF Max
  <2> QED BY <2>3
<1> QED BY <1>1, <1>2

(***************************************************************************)
(* A fold over n elements is the last of a chain of n + 1 values, each one *)
(* step from the one before. The function h stands for the library's       *)
(* recursion; the step G has to keep the values within S.                  *)
(***************************************************************************)
Iterated(g, n, base, G) ==
  /\ g[0] = base
  /\ \A k \in 1 .. n : g[k] = G[<<g[k - 1], k>>]

Unfolds(h, n, S, base, G) ==
  /\ n \in Nat /\ base \in S /\ G \in [S \X (1 .. n) -> S]
  /\ h[{}] = base
  /\ \A k \in 1 .. n : h[1 .. k - 1] \in S => h[1 .. k] = G[<<h[1 .. k - 1], k>>]

EndsChain(last, n, S, base, G) ==
  \E g \in [0 .. n -> S] : Iterated(g, n, base, G) /\ g[n] = last

\* What the recursion computes is the end of a chain.
LEMMA ChainOfFold ==
  ASSUME NEW h, NEW n, NEW S, NEW base, NEW G, Unfolds(h, n, S, base, G)
  PROVE  EndsChain(h[1 .. n], n, S, base, G)
<1> DEFINE g == [k \in 0 .. n |-> h[1 .. k]]
           T == {k \in 0 .. n : h[1 .. k] \in S}
<1>0. /\ n \in Nat /\ base \in S /\ G \in [S \X (1 .. n) -> S]
      /\ h[{}] = base
      /\ \A k \in 1 .. n : h[1 .. k - 1] \in S => h[1 .. k] = G[<<h[1 .. k - 1], k>>]
  BY DEF Unfolds
<1>1. 0 .. n \subseteq T
  <2>1. 0 \in T
    <3>1. 1 .. 0 = {}
      OBVIOUS
    <3> QED BY <1>0, <3>1
  <2>2. ASSUME NEW k \in 1 .. n, k - 1 \in T
        PROVE  k \in T
    <3>1. h[1 .. k - 1] \in S
      BY <2>2
    <3>2. h[1 .. k] \in S
      BY <1>0, <3>1
    <3> QED BY <3>2
  <2> HIDE DEF T
  <2> QED BY <1>0, <2>1, <2>2, Steps
<1>2. \A k \in 0 .. n : h[1 .. k] \in S
  BY <1>1
<1>3. g \in [0 .. n -> S] /\ g[n] = h[1 .. n]
  BY <1>0, <1>2
<1>4. g[0] = base
  <2>1. 1 .. 0 = {} /\ 0 \in 0 .. n
    BY <1>0
  <2> QED BY <1>0, <2>1
<1>5. ASSUME NEW k \in 1 .. n
      PROVE  g[k] = G[<<g[k - 1], k>>]
  <2>1. k \in 0 .. n /\ k - 1 \in 0 .. n
    BY <1>0
  <2>2. h[1 .. k] = G[<<h[1 .. k - 1], k>>]
    BY <1>0, <1>2, <2>1
  <2> QED BY <2>1, <2>2
<1> HIDE DEF g
<1> QED BY <1>3, <1>4, <1>5 DEF Iterated, EndsChain
-----------------------------------------------------------------------------
\* Elements of a sequence with one taken out.
Without(s, i) == SubSeq(s, 1, i - 1) \o SubSeq(s, i + 1, Len(s))

\* Those before the place stay, the others move up by one.
LEMMA WithoutElements ==
  ASSUME NEW X, NEW s \in Seq(X), NEW i \in 1 .. Len(s)
  PROVE  /\ Without(s, i) \in Seq(X)
         /\ Len(Without(s, i)) = Len(s) - 1
         /\ \A k \in 1 .. Len(s) - 1 :
              Without(s, i)[k] = IF k < i THEN s[k] ELSE s[k + 1]
<1> DEFINE a == SubSeq(s, 1, i - 1)
           c == SubSeq(s, i + 1, Len(s))
<1>1. a \in Seq(X) /\ Len(a) = i - 1 /\ (\A k \in 1 .. i - 1 : a[k] = s[k])
  OBVIOUS
<1>2. /\ c \in Seq(X) /\ Len(c) = Len(s) - i
      /\ \A k \in 1 .. Len(s) - i : c[k] = s[i + k]
  <2>1. \A k \in i + 1 .. Len(s) : s[k] \in X
    OBVIOUS
  <2>2. c \in Seq(X) /\ Len(c) = Len(s) - i
    BY <2>1, SubSeqProperties
  <2>3. \A k \in 1 .. Len(s) - (i + 1) + 1 : c[k] = s[i + 1 + k - 1]
    BY <2>1, SubSeqProperties
  <2> QED BY <2>2, <2>3
<1> HIDE DEF a, c
<1>3. /\ a \o c \in Seq(X) /\ Len(a \o c) = Len(s) - 1
      /\ \A k \in 1 .. i - 1 : (a \o c)[k] = a[k]
      /\ \A k \in i .. Len(s) - 1 : (a \o c)[k] = c[k - i + 1]
  <2>1. /\ a \o c \in Seq(X) /\ Len(a \o c) = Len(a) + Len(c)
        /\ \A k \in 1 .. Len(a) + Len(c) :
             (a \o c)[k] = IF k <= Len(a) THEN a[k] ELSE c[k - Len(a)]
    BY <1>1, <1>2, ConcatProperties, ZenonT(60)
  <2>2. \A k \in i .. Len(s) - 1 : k \in 1 .. Len(a) + Len(c) /\ k - Len(a) = k - i + 1
    BY <1>1, <1>2
  <2>3. \A k \in 1 .. i - 1 : k \in 1 .. Len(a) + Len(c)
    BY <1>1, <1>2
  <2> QED BY <1>1, <1>2, <2>1, <2>2, <2>3, SMTT(60)
<1>4. \A k \in i .. Len(s) - 1 : k - i + 1 \in 1 .. Len(s) - i /\ i + (k - i + 1) = k + 1
  OBVIOUS
<1>5. Without(s, i) = a \o c
  BY DEF Without, a, c
<1> DEFINE u == a \o c
<1> HIDE DEF u
<1>6. ASSUME NEW k \in 1 .. Len(s) - 1
      PROVE  u[k] = IF k < i THEN s[k] ELSE s[k + 1]
  <2>1. CASE k < i
    <3>1. k \in 1 .. i - 1
      BY <2>1
    <3> QED BY <1>1, <1>3, <2>1, <3>1 DEF u
  <2>2. CASE ~(k < i)
    <3> DEFINE j == k - i + 1
    <3>1. k \in i .. Len(s) - 1
      BY <2>2
    <3>2. u[k] = c[j]
      BY <1>3, <3>1 DEF u
    <3>3. j \in 1 .. Len(s) - i /\ i + j = k + 1
      BY <1>4, <3>1
    <3> HIDE DEF j
    <3>4. c[j] = s[i + j]
      BY <1>2, <3>3
    <3> QED BY <2>2, <3>2, <3>3, <3>4
  <2> QED BY <2>1, <2>2
<1>7. Without(s, i) = u /\ u \in Seq(X) /\ Len(u) = Len(s) - 1
  BY <1>3, <1>5 DEF u
<1> QED BY <1>6, <1>7

\* Sequences are equal if their elements are.
LEMMA EqualSequences ==
  ASSUME NEW X, NEW s \in Seq(X), NEW t \in Seq(X), Len(s) = Len(t),
         \A k \in 1 .. Len(s) : s[k] = t[k]
  PROVE  s = t
OBVIOUS
=============================================================================
