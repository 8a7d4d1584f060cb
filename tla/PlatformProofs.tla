---------------------------- MODULE PlatformProofs ----------------------------
(***************************************************************************)
(* The configuration of an engine. First the registry: the pattern with    *)
(* most fields is not refined by another one that matches. Then the check: *)
(* for each stage the condition that it leaves, where it has nothing more  *)
(* to do, and that later stages keep these conditions. Last, that it takes *)
(* the same course in two processes that agree on what it reads.           *)
(***************************************************************************)
EXTENDS SpyrePlatform, SequenceLemmas

\* A family that holds a set as soon as it holds its proper subsets holds all
\* subsets of a finite set.
LEMMA SubsetSteps ==
  ASSUME NEW S, IsFiniteSet(S), NEW T,
         \A s \in SUBSET S : (\A r \in SUBSET s : r # s => r \in T) => s \in T
  PROVE  SUBSET S \subseteq T
<1>1. IsWellFoundedOn(StrictSubsetOrdering(S), SUBSET S)
  <2>1. FiniteSubsetsOf(S) = SUBSET S
    BY FS_FiniteSubsetsOfFinite
  <2> QED BY <2>1, FS_StrictSubsetOrderingWellFounded
<1> DEFINE Bad == (SUBSET S) \ T
<1> SUFFICES ASSUME Bad # {} PROVE FALSE
  OBVIOUS
<1>2. PICK s \in Bad : \A r \in Bad : <<r, s>> \notin StrictSubsetOrdering(S)
  <2>1. Bad \subseteq SUBSET S
    OBVIOUS
  <2> HIDE DEF Bad
  <2> QED BY <1>1, <2>1, WFMin
<1>3. ASSUME NEW r \in SUBSET s, r # s
      PROVE  r \in T
  <2>1. <<r, s>> \in StrictSubsetOrdering(S)
    BY <1>3 DEF StrictSubsetOrdering
  <2> QED BY <1>2, <2>1
<1> QED BY <1>2, <1>3

\* The library's sum takes some element at a time.
Some(s) == CHOOSE x \in s : TRUE

SumsOver(h, S, f) ==
  \A s \in SUBSET S : h[s] = IF s = {} THEN 0 ELSE f[Some(s)] + h[s \ {Some(s)}]

\* Its recursion has a solution, built for sets of up to k elements.
LEMMA SumExists ==
  ASSUME NEW S, IsFiniteSet(S), NEW f \in [S -> Nat]
  PROVE  \E h \in [SUBSET S -> Nat] : SumsOver(h, S, f)
<1> DEFINE n == Cardinality(S)
           Solves(h, k) ==
             \A s \in SUBSET S : Cardinality(s) <= k =>
               h[s] = IF s = {} THEN 0 ELSE f[Some(s)] + h[s \ {Some(s)}]
           T == {k \in 0 .. n : \E h \in [SUBSET S -> Nat] : Solves(h, k)}
<1>0. n \in Nat
  BY FS_CardinalityType
<1>1. \A s \in SUBSET S : IsFiniteSet(s) /\ Cardinality(s) \in Nat /\ Cardinality(s) <= n
  BY FS_Subset, FS_CardinalityType
<1>2. ASSUME NEW s \in SUBSET S, s # {}
      PROVE  /\ Some(s) \in s /\ s \ {Some(s)} \in SUBSET S
             /\ Cardinality(s \ {Some(s)}) = Cardinality(s) - 1
  <2>1. Some(s) \in s
    BY <1>2 DEF Some
  <2> QED BY <1>1, <2>1, FS_RemoveElement
<1>3. 0 \in T
  <2> DEFINE h == [s \in SUBSET S |-> 0]
  <2>1. \A s \in SUBSET S : Cardinality(s) <= 0 => s = {}
    <3> TAKE s \in SUBSET S
    <3> HIDE DEF h, T, Solves, n
    <3>1. IsFiniteSet(s) /\ Cardinality(s) \in Nat
      BY <1>1
    <3> QED BY <3>1, FS_EmptySet
  <2>2. h \in [SUBSET S -> Nat] /\ Solves(h, 0)
    BY <2>1
  <2> HIDE DEF h, Solves
  <2> QED BY <1>0, <2>2
<1>4. ASSUME NEW k \in 1 .. n, k - 1 \in T
      PROVE  k \in T
  <2>1. PICK g \in [SUBSET S -> Nat] : Solves(g, k - 1)
    BY <1>4
  <2> DEFINE h == [s \in SUBSET S |->
                     IF s = {} THEN 0 ELSE f[Some(s)] + g[s \ {Some(s)}]]
  <2>2. h \in [SUBSET S -> Nat]
    <3> SUFFICES ASSUME NEW s \in SUBSET S, s # {}
                 PROVE  f[Some(s)] + g[s \ {Some(s)}] \in Nat
      OBVIOUS
    <3>1. f[Some(s)] \in Nat /\ g[s \ {Some(s)}] \in Nat
      BY <1>2
    <3> QED BY <3>1
  <2>3. Solves(h, k)
    <3> SUFFICES ASSUME NEW s \in SUBSET S, Cardinality(s) <= k, s # {}
                 PROVE  h[s] = f[Some(s)] + h[s \ {Some(s)}]
      OBVIOUS
    <3> DEFINE r == s \ {Some(s)}
    <3>1. r \in SUBSET S /\ Cardinality(r) <= k - 1
      BY <1>0, <1>1, <1>2
    <3>2. g[r] = IF r = {} THEN 0 ELSE f[Some(r)] + g[r \ {Some(r)}]
      BY <2>1, <3>1
    <3>3. h[r] = g[r]
      BY <3>1, <3>2
    <3> QED BY <3>3
  <2> HIDE DEF h, Solves
  <2> QED BY <2>2, <2>3
<1>5. n \in T
  <2> HIDE DEF T, n
  <2>1. 0 .. n \subseteq T
    BY <1>0, <1>3, <1>4, Steps
  <2> QED BY <1>0, <2>1
<1>6. PICK h \in [SUBSET S -> Nat] : Solves(h, n)
  BY <1>5
<1>7. SumsOver(h, S, f)
  BY <1>1, <1>6 DEF SumsOver
<1> QED BY <1>7

\* A sum, whichever element is taken first.
IsSum(h, S, f) ==
  /\ h \in [SUBSET S -> Nat]
  /\ h[{}] = 0
  /\ \A s \in SUBSET S : \A x \in s : h[s] = f[x] + h[s \ {x}]

LEMMA SumsAdd ==
  ASSUME NEW S, IsFiniteSet(S), NEW f \in [S -> Nat],
         NEW h \in [SUBSET S -> Nat], SumsOver(h, S, f)
  PROVE  IsSum(h, S, f)
<1> DEFINE T == {s \in SUBSET S : \A x \in s : h[s] = f[x] + h[s \ {x}]}
<1>1. ASSUME NEW s \in SUBSET S, \A r \in SUBSET s : r # s => r \in T
      PROVE  s \in T
  <2> SUFFICES ASSUME NEW x \in s PROVE h[s] = f[x] + h[s \ {x}]
    OBVIOUS
  <2> DEFINE y == Some(s)
             r == s \ {x}
             q == s \ {y}
             b == s \ {x, y}
  <2>1. y \in s /\ h[s] = f[y] + h[q]
    <3>1. y \in s
      BY DEF Some
    <3> QED BY <3>1 DEF SumsOver
  <2>2. CASE x # y
    <3>1. q \in T /\ x \in q /\ q \ {x} = b
      BY <1>1, <2>1, <2>2
    <3>2. r \in T /\ y \in r /\ r \ {y} = b
      BY <1>1, <2>1, <2>2
    <3>3. h[q] = f[x] + h[b]
      BY <3>1
    <3>4. h[r] = f[y] + h[b]
      BY <3>2
    <3>5. f[x] \in Nat /\ f[y] \in Nat /\ h[b] \in Nat
      BY <2>1
    <3> HIDE DEF y, r, q, b
    <3>6. h[s] = f[x] + h[r]
      BY <2>1, <3>3, <3>4, <3>5
    <3> QED BY <3>6 DEF r
  <2> QED BY <2>1, <2>2
<1>2. SUBSET S \subseteq T
  <2> HIDE DEF T
  <2> QED BY <1>1, SubsetSteps
<1>3. h[{}] = 0
  BY DEF SumsOver
<1> QED BY <1>2, <1>3 DEF IsSum

\* Fields that each nested attribute of a pattern counts.
Weights(a) == [x \in DOMAIN a.nested |-> 1 + Cardinality(a.nested[x])]

LEMMA WeightsPositive ==
  ASSUME NEW a, IsPattern(a)
  PROVE  /\ Weights(a) \in [DOMAIN a.nested -> Nat]
         /\ \A x \in DOMAIN a.nested : Weights(a)[x] > 0
<1> SUFFICES ASSUME NEW x \in DOMAIN a.nested
             PROVE  1 + Cardinality(a.nested[x]) \in Nat /\ 1 + Cardinality(a.nested[x]) > 0
  BY DEF Weights
<1>1. Cardinality(a.nested[x]) \in Nat
  BY FS_CardinalityType DEF IsPattern
<1> QED BY <1>1

\* FieldCount adds them to the plain ones.
LEMMA FieldsSum ==
  ASSUME NEW a, IsPattern(a)
  PROVE  \E h : /\ IsSum(h, DOMAIN a.nested, Weights(a))
                /\ FieldCount(a) = Cardinality(a.plain) + h[DOMAIN a.nested]
<1> DEFINE S == DOMAIN a.nested
           f == Weights(a)
           Solves(h) ==
             h = [s \in SUBSET S |->
                    IF s = {} THEN 0
                    ELSE 1 + Cardinality(a.nested[Some(s)]) + h[s \ {Some(s)}]]
<1>1. FieldCount(a) = Cardinality(a.plain) + (CHOOSE h : Solves(h))[S]
  BY DEF FieldCount, MapThenSumSet, MapThenFoldSet, Some
<1>2. IsFiniteSet(S) /\ f \in [S -> Nat]
  BY WeightsPositive DEF IsPattern
<1>3. \A s \in SUBSET S : s # {} => Some(s) \in s /\ f[Some(s)] = 1 + Cardinality(a.nested[Some(s)])
  <2> TAKE s \in SUBSET S
  <2>1. s # {} => Some(s) \in s
    BY DEF Some
  <2> QED BY <2>1 DEF Weights
<1>4. PICK g \in [SUBSET S -> Nat] : SumsOver(g, S, f)
  <2> HIDE DEF S, f
  <2> QED BY <1>2, SumExists
<1>5. Solves(g)
  <2> HIDE DEF S, f
  <2> QED BY <1>3, <1>4 DEF SumsOver
<1>6. PICK h : Solves(h) /\ FieldCount(a) = Cardinality(a.plain) + h[S]
  <2> HIDE DEF Solves
  <2> QED BY <1>1, <1>5
<1> DEFINE T == {s \in SUBSET S : h[s] \in Nat}
<1>7. ASSUME NEW s \in SUBSET S, \A r \in SUBSET s : r # s => r \in T
      PROVE  s \in T
  <2>1. h[s] = IF s = {} THEN 0 ELSE f[Some(s)] + h[s \ {Some(s)}]
    <3> HIDE DEF f
    <3> QED BY <1>3, <1>6
  <2>2. CASE s # {}
    <3>1. s \ {Some(s)} \in T /\ f[Some(s)] \in Nat
      <4> HIDE DEF f
      <4> QED BY <1>2, <1>3, <1>7, <2>2
    <3> QED BY <2>1, <2>2, <3>1
  <2> QED BY <2>1, <2>2
<1>8. SUBSET S \subseteq T
  <2> HIDE DEF T, S
  <2> QED BY <1>2, <1>7, SubsetSteps
<1>9. h \in [SUBSET S -> Nat] /\ SumsOver(h, S, f)
  <2> HIDE DEF f
  <2> QED BY <1>3, <1>6, <1>8 DEF SumsOver
<1>10. IsSum(h, S, f)
  <2> HIDE DEF S, f
  <2> QED BY <1>2, <1>9, SumsAdd
<1> QED BY <1>6, <1>10

\* More elements, each of more weight.
LEMMA SumsCompare ==
  ASSUME NEW S, IsFiniteSet(S), NEW f \in [S -> Nat], NEW h, IsSum(h, S, f),
         NEW R \in SUBSET S, NEW g \in [R -> Nat], NEW k, IsSum(k, R, g),
         \A x \in R : g[x] <= f[x]
  PROVE  /\ h[S] \in Nat /\ k[R] \in Nat
         /\ k[R] <= h[S]
         /\ (\E x \in R : g[x] < f[x]) => k[R] < h[S]
         /\ R # S /\ (\A x \in S : f[x] > 0) => k[R] < h[S]
<1>1. /\ h \in [SUBSET S -> Nat] /\ h[{}] = 0
      /\ \A s \in SUBSET S : \A x \in s : h[s] = f[x] + h[s \ {x}]
  BY DEF IsSum
<1>2. /\ k \in [SUBSET R -> Nat] /\ k[{}] = 0
      /\ \A r \in SUBSET R : \A x \in r : k[r] = g[x] + k[r \ {x}]
  BY DEF IsSum
<1>3. \A r \in SUBSET R : k[r] <= h[r]
  <2> DEFINE T == {r \in SUBSET R : k[r] <= h[r]}
  <2>1. ASSUME NEW r \in SUBSET R, \A q \in SUBSET r : q # r => q \in T
        PROVE  r \in T
    <3>1. CASE r = {}
      BY <1>1, <1>2, <3>1
    <3>2. ASSUME NEW x \in r PROVE r \in T
      <4>1. r \ {x} \in T
        BY <2>1, <3>2
      <4>2. k[r] = g[x] + k[r \ {x}] /\ h[r] = f[x] + h[r \ {x}]
        BY <1>1, <1>2, <3>2
      <4>3. /\ k[r \ {x}] \in Nat /\ h[r \ {x}] \in Nat /\ g[x] \in Nat /\ f[x] \in Nat
            /\ g[x] <= f[x]
        BY <1>1, <1>2
      <4>4. k[r] <= h[r]
        BY <4>1, <4>2, <4>3
      <4> QED BY <4>4
    <3> QED BY <3>1, <3>2
  <2>2. IsFiniteSet(R)
    BY FS_Subset
  <2>3. SUBSET R \subseteq T
    <3> HIDE DEF T
    <3> QED BY <2>1, <2>2, SubsetSteps
  <2> QED BY <2>3
<1>4. \A s \in SUBSET S : h[s \cap R] <= h[s]
  <2> DEFINE T == {s \in SUBSET S : h[s \cap R] <= h[s]}
  <2>1. ASSUME NEW s \in SUBSET S, \A q \in SUBSET s : q # s => q \in T
        PROVE  s \in T
    <3>1. CASE s \cap R = s
      <4>1. h[s] \in Nat
        BY <1>1
      <4> QED BY <3>1, <4>1
    <3>2. ASSUME NEW x \in s, x \notin R PROVE s \in T
      <4>1. s \ {x} \in T /\ (s \ {x}) \cap R = s \cap R
        BY <2>1, <3>2
      <4>2. h[s] = f[x] + h[s \ {x}] /\ h[s] \in Nat /\ h[s \ {x}] \in Nat /\ f[x] \in Nat
        BY <1>1, <3>2
      <4>3. h[s \cap R] <= h[s \ {x}] /\ h[s \cap R] \in Nat
        BY <1>1, <4>1
      <4>4. h[s \cap R] <= h[s]
        BY <4>2, <4>3
      <4> QED BY <4>4
    <3> QED BY <3>1, <3>2
  <2>2. SUBSET S \subseteq T
    <3> HIDE DEF T
    <3> QED BY <2>1, SubsetSteps
  <2> QED BY <2>2
<1>5. /\ k[R] \in Nat /\ h[R] \in Nat /\ h[S] \in Nat
      /\ k[R] <= h[R] /\ h[R] <= h[S]
  <2>1. S \cap R = R
    OBVIOUS
  <2> QED BY <1>1, <1>2, <1>3, <1>4, <2>1
<1>6. ASSUME NEW x \in R, g[x] < f[x]
      PROVE  k[R] < h[S]
  <2>1. k[R] = g[x] + k[R \ {x}] /\ h[R] = f[x] + h[R \ {x}]
    BY <1>1, <1>2
  <2>2. /\ k[R \ {x}] <= h[R \ {x}]
        /\ k[R \ {x}] \in Nat /\ h[R \ {x}] \in Nat /\ g[x] \in Nat /\ f[x] \in Nat
    BY <1>1, <1>2, <1>3
  <2> QED BY <1>5, <1>6, <2>1, <2>2
<1>7. ASSUME NEW x \in S, x \notin R, f[x] > 0
      PROVE  k[R] < h[S]
  <2>1. h[S] = f[x] + h[S \ {x}] /\ h[S \ {x}] \in Nat /\ f[x] \in Nat
    BY <1>1
  <2>2. h[R] <= h[S \ {x}]
    <3>1. (S \ {x}) \cap R = R
      BY <1>7
    <3> QED BY <1>4, <3>1
  <2> QED BY <1>5, <1>7, <2>1, <2>2
<1> QED BY <1>5, <1>6, <1>7

\* A pattern that says more counts more fields.
LEMMA RefiningCountsMore ==
  ASSUME NEW p, NEW q, IsPattern(p), IsPattern(q), Refines(p, q)
  PROVE  /\ FieldCount(p) \in Nat /\ FieldCount(q) \in Nat
         /\ FieldCount(p) > FieldCount(q)
<1> DEFINE S == DOMAIN p.nested
           R == DOMAIN q.nested
           f == Weights(p)
           g == Weights(q)
<1>1. PICK h : IsSum(h, S, f) /\ FieldCount(p) = Cardinality(p.plain) + h[S]
  BY FieldsSum
<1>2. PICK k : IsSum(k, R, g) /\ FieldCount(q) = Cardinality(q.plain) + k[R]
  BY FieldsSum
<1>3. /\ p # q /\ p.model_type = q.model_type /\ q.plain \subseteq p.plain
      /\ R \subseteq S /\ \A x \in R : q.nested[x] \subseteq p.nested[x]
  BY DEF Refines
<1>4. /\ Cardinality(p.plain) \in Nat /\ Cardinality(q.plain) \in Nat
      /\ Cardinality(q.plain) <= Cardinality(p.plain)
      /\ q.plain # p.plain => Cardinality(q.plain) < Cardinality(p.plain)
  BY <1>3, FS_Subset, FS_CardinalityType DEF IsPattern
<1>5. ASSUME NEW x \in R
      PROVE  /\ g[x] <= f[x]
             /\ q.nested[x] # p.nested[x] => g[x] < f[x]
  <2>1. /\ IsFiniteSet(p.nested[x]) /\ q.nested[x] \subseteq p.nested[x]
    BY <1>3, <1>5 DEF IsPattern
  <2>2. /\ Cardinality(p.nested[x]) \in Nat /\ Cardinality(q.nested[x]) \in Nat
        /\ Cardinality(q.nested[x]) <= Cardinality(p.nested[x])
        /\ q.nested[x] # p.nested[x] => Cardinality(q.nested[x]) < Cardinality(p.nested[x])
    BY <2>1, FS_Subset, FS_CardinalityType
  <2>3. f[x] = 1 + Cardinality(p.nested[x]) /\ g[x] = 1 + Cardinality(q.nested[x])
    BY <1>3, <1>5 DEF Weights
  <2> QED BY <2>2, <2>3
<1>6. /\ f \in [S -> Nat] /\ g \in [R -> Nat] /\ \A x \in S : f[x] > 0
      /\ IsFiniteSet(S)
  BY WeightsPositive DEF IsPattern
<1>7. /\ h[S] \in Nat /\ k[R] \in Nat
      /\ k[R] <= h[S]
      /\ (\E x \in R : g[x] < f[x]) => k[R] < h[S]
      /\ R # S => k[R] < h[S]
  <2> HIDE DEF S, R, f, g
  <2> QED BY <1>1, <1>2, <1>3, <1>5, <1>6, SumsCompare
<1>8. q.plain # p.plain \/ R # S \/ \E x \in R : q.nested[x] # p.nested[x]
  <2> SUFFICES ASSUME q.plain = p.plain, R = S, \A x \in R : q.nested[x] = p.nested[x]
               PROVE  FALSE
    OBVIOUS
  <2>1. p.nested \in [S -> Range(p.nested)] /\ q.nested \in [R -> Range(q.nested)]
    BY DEF IsPattern
  <2>2. p.nested = q.nested
    BY <2>1
  <2> QED BY <1>3, <2>2 DEF IsPattern
<1> HIDE DEF S, R, f, g
<1> QED BY <1>1, <1>2, <1>4, <1>5, <1>7, <1>8

LEMMA FieldsNumber ==
  ASSUME NEW a, IsPattern(a)
  PROVE  FieldCount(a) \in Nat
<1>1. PICK h : /\ IsSum(h, DOMAIN a.nested, Weights(a))
               /\ FieldCount(a) = Cardinality(a.plain) + h[DOMAIN a.nested]
  BY FieldsSum
<1>2. h[DOMAIN a.nested] \in Nat
  BY <1>1 DEF IsSum
<1>3. Cardinality(a.plain) \in Nat
  BY FS_CardinalityType DEF IsPattern
<1> QED BY <1>1, <1>2, <1>3

LEMMA EveryModel ==
  /\ Len(Models) \in Nat /\ DOMAIN Models = 1 .. Len(Models)
  /\ \A i \in 1 .. Len(Models) : /\ Models[i] \in ToSet(Models)
                                 /\ IsModel(Models[i]) /\ Models[i] # NoModel
                                 /\ FieldCount(Models[i].architecture) \in Nat
  /\ \A m \in ToSet(Models) : \E i \in 1 .. Len(Models) : m = Models[i]
<1>1. Len(Models) \in Nat /\ DOMAIN Models = 1 .. Len(Models)
  BY ModelsAssumption, LenProperties
<1>2. ASSUME NEW i \in 1 .. Len(Models)
      PROVE  /\ IsModel(Models[i]) /\ Models[i] # NoModel
             /\ FieldCount(Models[i].architecture) \in Nat
  <2>1. IsModel(Models[i])
    BY <1>1, ModelsAssumption
  <2>2. Models[i] # NoModel
    <3>1. Models[i] = [name |-> Models[i].name, architecture |-> Models[i].architecture,
                       static |-> Models[i].static, continuous |-> Models[i].continuous]
      BY <2>1 DEF IsModel
    <3>2. "static" \in DOMAIN Models[i] /\ "static" \notin DOMAIN NoModel
      BY <3>1 DEF NoModel
    <3> QED BY <3>2
  <2> QED BY <2>1, <2>2, FieldsNumber DEF IsModel
<1> QED BY <1>1, <1>2 DEF ToSet

\* One step of the search.
BetterOf(hf, best, m) ==
  IF /\ Matches(hf, m.architecture)
     /\ best = NoModel \/ FieldCount(m.architecture) > FieldCount(best.architecture)
    THEN m ELSE best

\* The best of the first k models.
BestOf(hf, best, k) ==
  /\ \/ best = NoModel
     \/ \E i \in 1 .. k : best = Models[i] /\ Matches(hf, Models[i].architecture)
  /\ \A i \in 1 .. k :
       Matches(hf, Models[i].architecture) =>
         /\ best # NoModel
         /\ FieldCount(Models[i].architecture) <= FieldCount(best.architecture)

LEMMA FindsBest ==
  ASSUME NEW hf
  PROVE  BestOf(hf, FindMatchingModel(hf), Len(Models))
<1> DEFINE n == Len(Models)
           found == FindMatchingModel(hf)
           Found == ToSet(Models) \cup {NoModel}
           G == [x \in Found \X (1 .. n) |-> BetterOf(hf, x[1], Models[x[2]])]
           Solves(h) == h = [s \in SUBSET (1 .. n) |->
                               IF s = {} THEN NoModel
                               ELSE BetterOf(hf, h[s \ {Max(s)}], Models[Max(s)])]
<1>1. n \in Nat /\ DOMAIN Models = 1 .. n /\ \A k \in 1 .. n : Models[k] \in Found
  BY EveryModel
<1>2. found =
        (CHOOSE iter : iter = [s \in SUBSET (1 .. n) |->
            IF s = {} THEN NoModel
            ELSE BetterOf(hf, iter[s \ {Max(s)}], Models[Max(s)])])[1 .. n]
  BY <1>1 DEF FindMatchingModel, BetterOf, FoldLeft, MapThenFoldSet
<1> HIDE DEF n, found
<1>3. \A m \in Found, k \in 1 .. n : BetterOf(hf, m, Models[k]) \in Found
  BY <1>1 DEF BetterOf
<1>4. G \in [Found \X (1 .. n) -> Found] /\ NoModel \in Found
  <2>1. \A x \in Found \X (1 .. n) : x[1] \in Found /\ x[2] \in 1 .. n
    OBVIOUS
  <2> HIDE DEF Found
  <2>2. G \in [Found \X (1 .. n) -> Found]
    BY <1>3, <2>1
  <2> QED BY <2>2 DEF Found
<1>5. \A m \in Found, k \in 1 .. n : G[<<m, k>>] = BetterOf(hf, m, Models[k])
  OBVIOUS
<1> HIDE DEF G, Found
<1>6. PICK f \in [SUBSET (1 .. n) -> Found] : FoldsOver(f, n, NoModel, G)
  BY <1>1, <1>4, FoldExists
<1>7. Solves(f)
  <2> SUFFICES ASSUME NEW s \in SUBSET (1 .. n), s # {}
               PROVE  f[s] = BetterOf(hf, f[s \ {Max(s)}], Models[Max(s)])
    BY <1>6 DEF FoldsOver
  <2>1. Max(s) \in 1 .. n
    BY <1>1, GreatestPosition
  <2>2. f[s \ {Max(s)}] \in Found
    BY <1>6
  <2>3. f[s] = G[<<f[s \ {Max(s)}], Max(s)>>]
    BY <1>6 DEF FoldsOver
  <2> HIDE DEF Solves
  <2> QED BY <1>5, <2>1, <2>2, <2>3
<1>8. PICK h : Solves(h) /\ found = h[1 .. n]
  BY <1>2, <1>7, Zenon DEF Solves
<1>9. h[{}] = NoModel
  BY <1>8
<1>10. \A k \in 1 .. n : h[1 .. k] = BetterOf(hf, h[1 .. k - 1], Models[k])
  <2> TAKE k \in 1 .. n
  <2>1. /\ 1 .. k \in SUBSET (1 .. n) /\ 1 .. k # {}
        /\ Max(1 .. k) = k /\ (1 .. k) \ {k} = 1 .. k - 1
    BY <1>1, GreatestPosition
  <2> QED BY <1>8, <2>1, ZenonT(60)
<1>11. Unfolds(h, n, Found, NoModel, G)
  BY <1>1, <1>4, <1>5, <1>9, <1>10 DEF Unfolds
<1>12. PICK g \in [0 .. n -> Found] : Iterated(g, n, NoModel, G) /\ g[n] = h[1 .. n]
  <2>1. EndsChain(h[1 .. n], n, Found, NoModel, G)
    BY <1>11, ChainOfFold
  <2> QED BY <2>1 DEF EndsChain
<1> DEFINE T == {k \in 0 .. n : BestOf(hf, g[k], k)}
<1>13. 0 \in T
  <2>1. g[0] = NoModel /\ 1 .. 0 = {} /\ 0 \in 0 .. n
    BY <1>1, <1>12 DEF Iterated
  <2> QED BY <2>1 DEF BestOf
<1>14. ASSUME NEW k \in 1 .. n, k - 1 \in T
       PROVE  k \in T
  <2>1. /\ k \in 1 .. Len(Models) /\ k - 1 \in 0 .. n /\ k \in 0 .. n
        /\ BestOf(hf, g[k - 1], k - 1)
    BY <1>1, <1>14 DEF n
  <2>2. g[k] = BetterOf(hf, g[k - 1], Models[k])
    BY <1>5, <1>12, <2>1 DEF Iterated
  <2>3. \A i \in 1 .. k : i \in 1 .. Len(Models) /\ (i \in 1 .. k - 1 \/ i = k)
    BY <2>1, <1>1 DEF n
  <2>4. \A i \in 1 .. k : /\ FieldCount(Models[i].architecture) \in Nat
                          /\ Models[i] # NoModel
    BY <2>3, EveryModel
  <2>5. k \in 1 .. k /\ \A i \in 1 .. k - 1 : i \in 1 .. k
    BY <2>1, <1>1
  <2>6. BestOf(hf, g[k], k)
    <3>1. CASE g[k] = g[k - 1] /\ ~Matches(hf, Models[k].architecture)
      BY <2>1, <2>3, <2>5, <3>1 DEF BestOf
    <3>2. CASE /\ g[k] = g[k - 1] /\ g[k - 1] # NoModel
               /\ ~(FieldCount(Models[k].architecture) > FieldCount(g[k - 1].architecture))
      <4>1. PICK i \in 1 .. k - 1 : g[k - 1] = Models[i]
        BY <2>1, <3>2 DEF BestOf
      <4>2. FieldCount(Models[k].architecture) <= FieldCount(g[k].architecture)
        BY <2>4, <2>5, <3>2, <4>1
      <4> QED BY <2>1, <2>3, <2>5, <3>2, <4>2 DEF BestOf
    <3>3. CASE g[k] = Models[k] /\ Matches(hf, Models[k].architecture) /\ g[k - 1] = NoModel
      <4>1. FieldCount(Models[k].architecture) <= FieldCount(g[k].architecture)
        BY <2>4, <2>5, <3>3
      <4> QED BY <2>1, <2>3, <2>4, <2>5, <3>3, <4>1 DEF BestOf
    <3>4. CASE /\ g[k] = Models[k] /\ Matches(hf, Models[k].architecture)
               /\ g[k - 1] # NoModel
               /\ FieldCount(Models[k].architecture) > FieldCount(g[k - 1].architecture)
      <4>1. PICK j \in 1 .. k - 1 : g[k - 1] = Models[j]
        BY <2>1, <3>4 DEF BestOf
      <4>2. \A i \in 1 .. k : Matches(hf, Models[i].architecture) =>
              FieldCount(Models[i].architecture) <= FieldCount(g[k].architecture)
        <5> TAKE i \in 1 .. k
        <5> HAVE Matches(hf, Models[i].architecture)
        <5>1. CASE i = k
          BY <2>4, <3>4, <5>1
        <5>2. CASE i \in 1 .. k - 1
          <6>1. FieldCount(Models[i].architecture) <= FieldCount(g[k - 1].architecture)
            BY <2>1, <5>2 DEF BestOf
          <6>2. /\ FieldCount(Models[i].architecture) \in Nat
                /\ FieldCount(Models[j].architecture) \in Nat
                /\ FieldCount(Models[k].architecture) \in Nat
            BY <2>4, <2>5, <4>1
          <6> QED BY <3>4, <4>1, <6>1, <6>2
        <5> QED BY <2>3, <5>1, <5>2
      <4> QED BY <2>4, <2>5, <3>4, <4>2 DEF BestOf
    <3> QED BY <2>2, <3>1, <3>2, <3>3, <3>4 DEF BetterOf
  <2> HIDE DEF T
  <2> QED BY <2>1, <2>6 DEF T
<1>15. n \in T
  <2> HIDE DEF T
  <2>1. 0 .. n \subseteq T
    BY <1>1, <1>13, <1>14, Steps
  <2> QED BY <1>1, <2>1
<1> QED BY <1>8, <1>12, <1>15 DEF n, found

\* Whatever the registry holds and the order it is in.
LEMMA MostSpecific ==
  ASSUME NEW hf, NEW m \in ToSet(Models), Matches(hf, m.architecture)
  PROVE  /\ FindMatchingModel(hf) # NoModel
         /\ ~Refines(m.architecture, FindMatchingModel(hf).architecture)
<1> DEFINE found == FindMatchingModel(hf)
<1>1. BestOf(hf, found, Len(Models))
  BY FindsBest
<1>2. PICK i \in 1 .. Len(Models) : m = Models[i]
  BY EveryModel
<1>3. found # NoModel /\ FieldCount(m.architecture) <= FieldCount(found.architecture)
  BY <1>1, <1>2 DEF BestOf
<1>4. PICK j \in 1 .. Len(Models) : found = Models[j]
  BY <1>1, <1>3 DEF BestOf
<1>5. IsPattern(m.architecture) /\ IsPattern(found.architecture)
  BY <1>2, <1>4, EveryModel DEF IsModel
<1>6. ASSUME Refines(m.architecture, found.architecture) PROVE FALSE
  <2>1. /\ FieldCount(m.architecture) \in Nat /\ FieldCount(found.architecture) \in Nat
        /\ FieldCount(m.architecture) > FieldCount(found.architecture)
    BY <1>5, <1>6, RefiningCountsMore
  <2> QED BY <1>3, <2>1
<1> QED BY <1>3, <1>6
-----------------------------------------------------------------------------
(***************************************************************************)
(* The stages of the check. What holds of every process: it is a record    *)
(* of two mappings and three values.                                       *)
(***************************************************************************)
IsMapping(f) == f = [n \in DOMAIN f |-> f[n]]

IsProcess(p) ==
  /\ p = [environ |-> p.environ, cache |-> p.cache, shapes |-> p.shapes,
          config |-> p.config, error |-> p.error]
  /\ IsMapping(p.environ) /\ IsMapping(p.cache)

LEMMA WithIs ==
  ASSUME NEW f, NEW n, NEW v
  PROVE  IsMapping(With(f, n, v))
BY DEF With, IsMapping

\* Every change of a process, by field.
LEMMA SetEnvIs ==
  ASSUME NEW p, IsProcess(p), NEW n, NEW v
  PROVE  /\ IsProcess(SetEnv(p, n, v))
         /\ DOMAIN SetEnv(p, n, v).environ = DOMAIN p.environ \cup {n}
         /\ SetEnv(p, n, v).environ[n] = v
         /\ \A m \in DOMAIN p.environ :
              m # n => SetEnv(p, n, v).environ[m] = p.environ[m]
         /\ SetEnv(p, n, v).cache = p.cache
         /\ SetEnv(p, n, v).shapes = p.shapes
         /\ SetEnv(p, n, v).config = p.config
         /\ SetEnv(p, n, v).error = p.error
         /\ n \in DOMAIN p.environ /\ p.environ[n] = v => SetEnv(p, n, v) = p
<1> DEFINE e == With(p.environ, n, v)
           q == SetEnv(p, n, v)
<1>1. q = [environ |-> e, cache |-> p.cache, shapes |-> p.shapes,
           config |-> p.config, error |-> p.error]
  BY DEF SetEnv, IsProcess
<1>2. /\ IsMapping(e)
      /\ DOMAIN e = DOMAIN p.environ \cup {n} /\ e[n] = v
      /\ \A m \in DOMAIN p.environ : m # n => e[m] = p.environ[m]
      /\ n \in DOMAIN p.environ /\ p.environ[n] = v => e = p.environ
  <2> DEFINE f == p.environ
  <2>1. IsMapping(f)
    BY DEF IsProcess
  <2> HIDE DEF f
  <2>2. /\ IsMapping(With(f, n, v))
        /\ DOMAIN With(f, n, v) = DOMAIN f \cup {n} /\ With(f, n, v)[n] = v
        /\ \A m \in DOMAIN f : m # n => With(f, n, v)[m] = f[m]
        /\ n \in DOMAIN f /\ f[n] = v => With(f, n, v) = f
    BY <2>1 DEF With, IsMapping
  <2> QED BY <2>2 DEF f
<1> HIDE DEF e, q
<1>3. q.environ = e /\ q.cache = p.cache /\ q.shapes = p.shapes /\ q.config = p.config
      /\ q.error = p.error
  BY <1>1
<1>4. IsProcess(q)
  BY <1>1, <1>2, <1>3 DEF IsProcess
<1>5. e = p.environ => q = p
  BY <1>1 DEF IsProcess
<1> QED BY <1>2, <1>3, <1>4, <1>5 DEF e, q

LEMMA ReadIs ==
  ASSUME NEW p, IsProcess(p), NEW S
  PROVE  /\ IsProcess(Read(p, S))
         /\ Read(p, S).environ = p.environ
         /\ DOMAIN Read(p, S).cache = S \cup DOMAIN p.cache
         /\ Read(p, S).shapes = p.shapes
         /\ Read(p, S).config = p.config
         /\ Read(p, S).error = p.error
         /\ \A n : Setting(Read(p, S), n) = Setting(p, n)
         /\ S \subseteq DOMAIN p.cache => Read(p, S) = p
<1> DEFINE k == [n \in S \cup DOMAIN p.cache |-> Setting(p, n)]
           q == Read(p, S)
<1>1. q = [environ |-> p.environ, cache |-> k, shapes |-> p.shapes,
           config |-> p.config, error |-> p.error]
  BY DEF Read, IsProcess
<1>2. /\ IsMapping(k) /\ DOMAIN k = S \cup DOMAIN p.cache
      /\ \A n \in DOMAIN k : k[n] = Setting(p, n)
  BY DEF IsMapping
<1>3. S \subseteq DOMAIN p.cache => k = p.cache
  <2> HAVE S \subseteq DOMAIN p.cache
  <2>1. S \cup DOMAIN p.cache = DOMAIN p.cache
    OBVIOUS
  <2>2. \A n \in DOMAIN p.cache : Setting(p, n) = p.cache[n]
    BY DEF Setting
  <2>3. p.cache = [n \in DOMAIN p.cache |-> p.cache[n]]
    BY DEF IsProcess, IsMapping
  <2> QED BY <2>1, <2>2, <2>3
<1> HIDE DEF k, q
<1>4. q.environ = p.environ /\ q.cache = k /\ q.shapes = p.shapes /\ q.config = p.config
      /\ q.error = p.error
  BY <1>1
<1>5. IsProcess(q)
  BY <1>1, <1>2, <1>4 DEF IsProcess
<1>6. k = p.cache => q = p
  BY <1>1 DEF IsProcess
<1>7. ASSUME NEW n PROVE Setting(q, n) = Setting(p, n)
  BY <1>2, <1>4 DEF Setting
<1> QED BY <1>2, <1>3, <1>4, <1>5, <1>6, <1>7 DEF q

LEMMA FailIs ==
  ASSUME NEW p, IsProcess(p), NEW reason
  PROVE  /\ IsProcess(Fail(p, reason))
         /\ Fail(p, reason).environ = p.environ
         /\ Fail(p, reason).cache = p.cache
         /\ Fail(p, reason).shapes = p.shapes
         /\ Fail(p, reason).config = p.config
         /\ Fail(p, reason).error = reason
<1> DEFINE q == Fail(p, reason)
<1>1. q = [environ |-> p.environ, cache |-> p.cache, shapes |-> p.shapes,
           config |-> p.config, error |-> reason]
  BY DEF Fail, IsProcess
<1> HIDE DEF q
<1> QED BY <1>1 DEF q, IsProcess

\* A configuration or shapes that are put into a process.
PutConfig(p, c) == [p EXCEPT !.config = c]

PutShapes(p, s) == [p EXCEPT !.shapes = s]

LEMMA PutConfigIs ==
  ASSUME NEW p, IsProcess(p), NEW c
  PROVE  /\ IsProcess(PutConfig(p, c))
         /\ PutConfig(p, c).environ = p.environ
         /\ PutConfig(p, c).cache = p.cache
         /\ PutConfig(p, c).shapes = p.shapes
         /\ PutConfig(p, c).config = c
         /\ PutConfig(p, c).error = p.error
         /\ c = p.config => PutConfig(p, c) = p
<1> DEFINE q == PutConfig(p, c)
<1>1. q = [environ |-> p.environ, cache |-> p.cache, shapes |-> p.shapes,
           config |-> c, error |-> p.error]
  BY DEF PutConfig, IsProcess
<1> HIDE DEF q
<1> QED BY <1>1 DEF q, IsProcess

LEMMA PutShapesIs ==
  ASSUME NEW p, IsProcess(p), NEW s
  PROVE  /\ IsProcess(PutShapes(p, s))
         /\ PutShapes(p, s).environ = p.environ
         /\ PutShapes(p, s).cache = p.cache
         /\ PutShapes(p, s).shapes = s
         /\ PutShapes(p, s).config = p.config
         /\ PutShapes(p, s).error = p.error
         /\ s = p.shapes => PutShapes(p, s) = p
<1> DEFINE q == PutShapes(p, s)
<1>1. q = [environ |-> p.environ, cache |-> p.cache, shapes |-> s,
           config |-> p.config, error |-> p.error]
  BY DEF PutShapes, IsProcess
<1> HIDE DEF q
<1> QED BY <1>1 DEF q, IsProcess
-----------------------------------------------------------------------------
\* Variables that are set only if they are not there.
Lasting == {TkvLimit} \cup DeviceVariables

LEMMA NamesApart ==
  /\ Settings \cap (Overwritten \cup Lasting \cup {"VLLM_USE_V1"}) = {}
  /\ "VLLM_USE_V1" \notin Overwritten \cup Lasting
  /\ Overwritten \cap Lasting = {}
<1>1. DeviceVariables \cap (Settings \cup Overwritten \cup {"VLLM_USE_V1"}) = {}
  BY DevicesAssumption
<1>2. Settings \cap (Overwritten \cup {TkvLimit, "VLLM_USE_V1"}) = {}
  BY DEF Settings, Defaults, Overwritten, TkvLimit
<1>3. TkvLimit \notin Overwritten /\ TkvLimit # "VLLM_USE_V1" /\ "VLLM_USE_V1" \notin Overwritten
  BY DEF TkvLimit, Overwritten
<1> QED BY <1>1, <1>2, <1>3 DEF Lasting

(***************************************************************************)
(* What a stage leaves alone: settings keep their values, what was cached  *)
(* stays cached, and of the variables those in W are overwritten and       *)
(* otherwise lasting ones are added.                                       *)
(***************************************************************************)
Frame(p, q, W) ==
  /\ IsProcess(q)
  /\ DOMAIN p.cache \subseteq DOMAIN q.cache
  /\ \A n \in Settings : Setting(q, n) = Setting(p, n)
  /\ \A n \in DOMAIN p.environ \ W : n \in DOMAIN q.environ /\ q.environ[n] = p.environ[n]
  /\ DOMAIN p.environ \subseteq DOMAIN q.environ
  /\ DOMAIN q.environ \subseteq DOMAIN p.environ \cup W \cup Lasting

LEMMA FrameSame ==
  ASSUME NEW p, NEW q, NEW W, IsProcess(q), q.environ = p.environ, q.cache = p.cache
  PROVE  Frame(p, q, W)
<1>1. \A n : Setting(q, n) = Setting(p, n)
  BY DEF Setting
<1> QED BY <1>1 DEF Frame

LEMMA FrameFail ==
  ASSUME NEW p, IsProcess(p), NEW reason, NEW W
  PROVE  Frame(p, Fail(p, reason), W)
<1> DEFINE q == Fail(p, reason)
<1>1. IsProcess(q) /\ q.environ = p.environ /\ q.cache = p.cache
  BY FailIs
<1> HIDE DEF q
<1>2. Frame(p, q, W)
  BY <1>1, FrameSame
<1> QED BY <1>2 DEF q

LEMMA FramePut ==
  ASSUME NEW p, IsProcess(p), NEW c, NEW s, NEW W
  PROVE  Frame(p, PutConfig(p, c), W) /\ Frame(p, PutShapes(p, s), W)
<1> DEFINE q == PutConfig(p, c)
           r == PutShapes(p, s)
<1>1. IsProcess(q) /\ q.environ = p.environ /\ q.cache = p.cache
  BY PutConfigIs
<1>2. IsProcess(r) /\ r.environ = p.environ /\ r.cache = p.cache
  BY PutShapesIs
<1> HIDE DEF q, r
<1>3. Frame(p, q, W) /\ Frame(p, r, W)
  BY <1>1, <1>2, FrameSame
<1> QED BY <1>3 DEF q, r

LEMMA FrameRead ==
  ASSUME NEW p, IsProcess(p), NEW S, NEW W
  PROVE  Frame(p, Read(p, S), W)
<1> DEFINE q == Read(p, S)
<1>1. /\ IsProcess(q) /\ q.environ = p.environ /\ DOMAIN q.cache = S \cup DOMAIN p.cache
      /\ \A n : Setting(q, n) = Setting(p, n)
  BY ReadIs
<1> HIDE DEF q
<1>2. Frame(p, q, W)
  BY <1>1 DEF Frame
<1> QED BY <1>2 DEF q

LEMMA FrameSet ==
  ASSUME NEW p, IsProcess(p), NEW n, NEW v, NEW W,
         (n \in W /\ W \subseteq Overwritten) \/ n \in Lasting \ DOMAIN p.environ
  PROVE  Frame(p, SetEnv(p, n, v), W)
<1> DEFINE q == SetEnv(p, n, v)
<1>1. IsProcess(q) /\ q.cache = p.cache
  BY SetEnvIs
<1>2. /\ DOMAIN q.environ = DOMAIN p.environ \cup {n}
      /\ \A m \in DOMAIN p.environ : m # n => q.environ[m] = p.environ[m]
  BY SetEnvIs
<1>3. n \notin Settings
  BY NamesApart
<1> HIDE DEF q
<1>4. \A m \in Settings : Setting(q, m) = Setting(p, m)
  BY <1>1, <1>2, <1>3 DEF Setting, Evaluated
<1>5. Frame(p, q, W)
  BY <1>1, <1>2, <1>4 DEF Frame
<1> QED BY <1>5 DEF q

LEMMA FrameTrans ==
  ASSUME NEW p, NEW q, NEW r, NEW W, NEW X, Frame(p, q, W), Frame(q, r, X)
  PROVE  Frame(p, r, W \cup X)
BY DEF Frame

\* A configuration, with some fields changed.
Fields ==
  {"runner", "hf", "quantized", "world_size", "max_position_embeddings", "max_model_len",
   "max_num_seqs", "max_num_batched_tokens", "num_gpu_blocks", "block_size"}

IsRecord(c) == IsMapping(c) /\ DOMAIN c = Fields

Same(c, d, F) == IsRecord(d) /\ \A f \in Fields \ F : d[f] = c[f]

LEMMA SameTrans ==
  ASSUME NEW c, NEW d, NEW e, NEW F, NEW G, Same(c, d, F), Same(d, e, G)
  PROVE  Same(c, e, F \cup G)
BY DEF Same

\* What a stage asks of the process it is called with.
Ready(p) == IsProcess(p) /\ IsRecord(p.config) /\ p.error = "none"
-----------------------------------------------------------------------------
(***************************************************************************)
(* For each stage: what it changes, the condition that it leaves if it     *)
(* raises no exception, and that it changes nothing where this condition   *)
(* holds.                                                                  *)
(***************************************************************************)
RunnerChecked(p) ==
  /\ "VLLM_USE_V1" \in DOMAIN p.environ => p.environ["VLLM_USE_V1"]
  /\ p.config.runner \in {"generate", "pooling"}

LEMMA CheckRunnerIs ==
  ASSUME NEW p, Ready(p)
  PROVE  /\ Frame(p, CheckRunner(p), {})
         /\ CheckRunner(p).config = p.config /\ CheckRunner(p).shapes = p.shapes
         /\ CheckRunner(p).error = "none" => RunnerChecked(CheckRunner(p))
         /\ RunnerChecked(p) => CheckRunner(p) = p
<1>1. IsProcess(p) /\ p.error = "none"
  BY DEF Ready
<1> DEFINE q == Fail(p, "v0")
           r == Fail(p, "runner")
<1>2. /\ IsProcess(q) /\ q.environ = p.environ /\ q.cache = p.cache
      /\ q.shapes = p.shapes /\ q.config = p.config /\ q.error = "v0"
  BY <1>1, FailIs
<1>3. /\ IsProcess(r) /\ r.environ = p.environ /\ r.cache = p.cache
      /\ r.shapes = p.shapes /\ r.config = p.config /\ r.error = "runner"
  BY <1>1, FailIs
<1>4. Frame(p, p, {}) /\ Frame(p, q, {}) /\ Frame(p, r, {})
  <2> HIDE DEF q, r
  <2> QED BY <1>1, <1>2, <1>3, FrameSame
<1>5. CASE "VLLM_USE_V1" \in DOMAIN p.environ /\ ~p.environ["VLLM_USE_V1"]
  <2>1. CheckRunner(p) = q
    BY <1>5 DEF CheckRunner
  <2> HIDE DEF q, r
  <2> QED BY <1>2, <1>4, <1>5, <2>1 DEF RunnerChecked
<1>6. CASE /\ ~("VLLM_USE_V1" \in DOMAIN p.environ /\ ~p.environ["VLLM_USE_V1"])
           /\ p.config.runner \notin {"generate", "pooling"}
  <2>1. CheckRunner(p) = r
    BY <1>6 DEF CheckRunner
  <2> HIDE DEF q, r
  <2> QED BY <1>3, <1>4, <1>6, <2>1 DEF RunnerChecked
<1>7. CASE /\ ~("VLLM_USE_V1" \in DOMAIN p.environ /\ ~p.environ["VLLM_USE_V1"])
           /\ p.config.runner \in {"generate", "pooling"}
  <2>1. CheckRunner(p) = p
    BY <1>7 DEF CheckRunner
  <2> HIDE DEF q, r
  <2> QED BY <1>4, <1>7, <2>1 DEF RunnerChecked
<1> QED BY <1>5, <1>6, <1>7

ThreadSettings == {"VLLM_SPYRE_NUM_CPUS", "VLLM_SPYRE_UPDATE_THREAD_CONFIG"}

Cpus(p) ==
  LET set == Setting(p, "VLLM_SPYRE_NUM_CPUS") IN IF set > 0 THEN set ELSE DetectedCpus

Threaded(p) ==
  /\ ThreadSettings \subseteq DOMAIN p.cache
  /\ Setting(p, "VLLM_SPYRE_UPDATE_THREAD_CONFIG") =>
       /\ Cpus(p) # 0
       /\ "OMP_NUM_THREADS" \in DOMAIN p.environ
       /\ p.environ["OMP_NUM_THREADS"] = CeilDiv(Cpus(p), p.config.world_size)

LEMMA CheckThreadingIs ==
  ASSUME NEW p, Ready(p)
  PROVE  /\ Frame(p, CheckThreading(p), {"OMP_NUM_THREADS"})
         /\ CheckThreading(p).config = p.config /\ CheckThreading(p).shapes = p.shapes
         /\ CheckThreading(p).error = "none" => Threaded(CheckThreading(p))
         /\ Threaded(p) => CheckThreading(p) = p
<1> DEFINE W == {"OMP_NUM_THREADS"}
           q == Read(p, ThreadSettings)
           f == Fail(q, "cpus")
           v == CeilDiv(Cpus(p), p.config.world_size)
           s == SetEnv(q, "OMP_NUM_THREADS", v)
           t == Setting(p, "VLLM_SPYRE_UPDATE_THREAD_CONFIG")
           z == Cpus(p) = 0
<1>0. CheckThreading(p) = IF ~t THEN q ELSE IF z THEN f ELSE s
  BY DEF CheckThreading, Cpus, ThreadSettings
<1>1. IsProcess(p) /\ p.error = "none"
  BY DEF Ready
<1>2. /\ IsProcess(q) /\ q.environ = p.environ /\ ThreadSettings \subseteq DOMAIN q.cache
      /\ q.shapes = p.shapes /\ q.config = p.config /\ q.error = "none"
      /\ \A n : Setting(q, n) = Setting(p, n)
      /\ ThreadSettings \subseteq DOMAIN p.cache => q = p
  BY <1>1, ReadIs
<1>3. Frame(p, q, W)
  BY <1>1, FrameRead
<1>4. Cpus(q) = Cpus(p)
  BY <1>2 DEF Cpus
<1> HIDE DEF q
<1>5. /\ Frame(q, f, {}) /\ f.error # "none" /\ f.config = q.config /\ f.shapes = q.shapes
  BY <1>2, FailIs, FrameFail
<1>6. /\ Frame(q, s, W) /\ s.error = "none" /\ s.config = q.config /\ s.shapes = q.shapes
      /\ s.cache = q.cache /\ "OMP_NUM_THREADS" \in DOMAIN s.environ
      /\ s.environ["OMP_NUM_THREADS"] = v
      /\ "OMP_NUM_THREADS" \in DOMAIN q.environ /\ q.environ["OMP_NUM_THREADS"] = v => s = q
  BY <1>2, SetEnvIs, FrameSet DEF Overwritten
<1>7. Frame(p, f, W) /\ Frame(p, s, W)
  <2>1. W \cup {} = W /\ W \cup W = W
    OBVIOUS
  <2> HIDE DEF W, f, s
  <2> QED BY <1>3, <1>5, <1>6, <2>1, FrameTrans
<1>8. "VLLM_SPYRE_NUM_CPUS" \in Settings /\ "VLLM_SPYRE_UPDATE_THREAD_CONFIG" \in Settings
  BY DEF Settings, Defaults
<1>9. CASE ~t
  <2>1. CheckThreading(p) = q
    BY <1>0, <1>9
  <2>2. Threaded(q)
    BY <1>2, <1>9 DEF Threaded
  <2> HIDE DEF t
  <2> QED BY <1>2, <1>3, <2>1, <2>2 DEF Threaded
<1>10. CASE t /\ z
  <2>1. CheckThreading(p) = f /\ ~Threaded(p)
    BY <1>0, <1>10 DEF Threaded
  <2> QED BY <1>2, <1>5, <1>7, <2>1
<1>11. CASE t /\ ~z
  <2>1. CheckThreading(p) = s
    BY <1>0, <1>11
  <2>2. \A n \in Settings : Setting(s, n) = Setting(p, n)
    BY <1>2, <1>6 DEF Frame
  <2>3. Cpus(s) = Cpus(p)
    BY <1>8, <2>2 DEF Cpus
  <2>4. Threaded(s)
    <3> HIDE DEF s
    <3> QED BY <1>2, <1>6, <1>8, <1>11, <2>2, <2>3 DEF Threaded
  <2>5. Threaded(p) => s = p
    BY <1>2, <1>6, <1>11 DEF Threaded
  <2> HIDE DEF s
  <2> QED BY <1>2, <1>6, <1>7, <2>1, <2>4, <2>5
<1> QED BY <1>9, <1>10, <1>11

Moded(p) ==
  /\ "VLLM_SPYRE_DYNAMO_BACKEND" \in DOMAIN p.cache
  /\ "COMPILATION_MODE" \in DOMAIN p.environ
  /\ p.environ["COMPILATION_MODE"] =
       IF IsDecoder(p.config) THEN "offline_decoder" ELSE "offline"

LEMMA SetCompilationModeIs ==
  ASSUME NEW p, Ready(p)
  PROVE  /\ Frame(p, SetCompilationMode(p), {"COMPILATION_MODE"})
         /\ SetCompilationMode(p).config = p.config
         /\ SetCompilationMode(p).shapes = p.shapes
         /\ SetCompilationMode(p).error = "none"
         /\ Moded(SetCompilationMode(p))
         /\ Moded(p) => SetCompilationMode(p) = p
<1> DEFINE W == {"COMPILATION_MODE"}
           q == Read(p, {"VLLM_SPYRE_DYNAMO_BACKEND"})
           v == IF IsDecoder(p.config) THEN "offline_decoder" ELSE "offline"
           s == SetEnv(q, "COMPILATION_MODE", v)
<1>0. SetCompilationMode(p) = s
  BY DEF SetCompilationMode
<1>1. IsProcess(p) /\ p.error = "none"
  BY DEF Ready
<1>2. /\ IsProcess(q) /\ q.environ = p.environ
      /\ "VLLM_SPYRE_DYNAMO_BACKEND" \in DOMAIN q.cache
      /\ q.shapes = p.shapes /\ q.config = p.config /\ q.error = "none"
      /\ "VLLM_SPYRE_DYNAMO_BACKEND" \in DOMAIN p.cache => q = p
  BY <1>1, ReadIs
<1>3. Frame(p, q, W)
  BY <1>1, FrameRead
<1> HIDE DEF q
<1>4. /\ s.error = "none" /\ s.config = q.config /\ s.shapes = q.shapes
      /\ s.cache = q.cache /\ "COMPILATION_MODE" \in DOMAIN s.environ
      /\ s.environ["COMPILATION_MODE"] = v
      /\ "COMPILATION_MODE" \in DOMAIN q.environ /\ q.environ["COMPILATION_MODE"] = v => s = q
  BY <1>2, SetEnvIs
<1>5. Frame(q, s, W)
  BY <1>2, FrameSet DEF Overwritten
<1>6. Frame(p, s, W)
  <2>1. W \cup W = W
    OBVIOUS
  <2> HIDE DEF W, s
  <2> QED BY <1>3, <1>5, <2>1, FrameTrans
<1>7. Moded(s)
  <2> HIDE DEF s
  <2> QED BY <1>2, <1>4 DEF Moded
<1>8. Moded(p) => s = p
  BY <1>2, <1>4 DEF Moded
<1> HIDE DEF s
<1> QED BY <1>0, <1>2, <1>4, <1>6, <1>7, <1>8

ShapeSettings == {"VLLM_SPYRE_WARMUP_PROMPT_LENS", "VLLM_SPYRE_WARMUP_BATCH_SIZES"}

Listed(p) ==
  LET lens  == Setting(p, "VLLM_SPYRE_WARMUP_PROMPT_LENS")
      sizes == Setting(p, "VLLM_SPYRE_WARMUP_BATCH_SIZES")
  IN /\ ShapeSettings \subseteq DOMAIN p.cache
     /\ \A i \in DOMAIN lens : lens[i] % 64 = 0
     /\ Len(lens) = Len(sizes)
     /\ p.shapes = {<<lens[i], sizes[i]>> : i \in DOMAIN lens}

LEMMA GetWarmupShapesIs ==
  ASSUME NEW p, Ready(p)
  PROVE  LET u == GetWarmupShapes(ForgetShapes(p))
         IN /\ Frame(p, u, {})
            /\ u.config = p.config
            /\ u.error = "none" => Listed(u)
            /\ Listed(p) => u = p
<1> DEFINE o == ForgetShapes(p)
           q == Read(o, {"VLLM_SPYRE_WARMUP_PROMPT_LENS"})
           b == Read(q, {"VLLM_SPYRE_WARMUP_BATCH_SIZES"})
           lens == Setting(p, "VLLM_SPYRE_WARMUP_PROMPT_LENS")
           sizes == Setting(p, "VLLM_SPYRE_WARMUP_BATCH_SIZES")
           made == {<<lens[i], sizes[i]>> : i \in DOMAIN lens}
           f == Fail(q, "prompt_lens")
           g == Fail(b, "lists")
           s == PutShapes(b, made)
           odd == \E i \in DOMAIN lens : lens[i] % 64 # 0
           even == Len(lens) = Len(sizes)
           u == GetWarmupShapes(o)
<1>1. IsProcess(p) /\ p.error = "none"
  BY DEF Ready
<1>2. /\ IsProcess(o) /\ o.environ = p.environ /\ o.cache = p.cache /\ o.shapes = {}
      /\ o.config = p.config /\ o.error = "none"
      /\ p.shapes = {} => o = p
      /\ PutShapes(o, p.shapes) = p
  <2>1. o = PutShapes(p, {})
    BY DEF ForgetShapes, PutShapes
  <2>2. PutShapes(o, p.shapes) = p
    BY <1>1 DEF ForgetShapes, PutShapes, IsProcess
  <2> HIDE DEF o
  <2> QED BY <1>1, <2>1, <2>2, PutShapesIs
<1>3. \A n : Setting(o, n) = Setting(p, n)
  BY <1>2 DEF Setting
<1>4. u = IF odd THEN f ELSE IF ~even THEN g ELSE s
  <2>1. o.shapes = {}
    BY <1>2
  <2>2. Setting(o, "VLLM_SPYRE_WARMUP_PROMPT_LENS") = lens
    BY <1>3
  <2>3. Setting(o, "VLLM_SPYRE_WARMUP_BATCH_SIZES") = sizes
    BY <1>3
  <2> HIDE DEF o, lens, sizes
  <2> QED BY <2>1, <2>2, <2>3 DEF GetWarmupShapes, PutShapes
<1> HIDE DEF o, odd, even
<1>5. /\ IsProcess(q) /\ q.environ = o.environ
      /\ DOMAIN q.cache = {"VLLM_SPYRE_WARMUP_PROMPT_LENS"} \cup DOMAIN o.cache
      /\ q.config = o.config /\ q.error = "none" /\ q.shapes = {}
      /\ \A n : Setting(q, n) = Setting(o, n)
      /\ {"VLLM_SPYRE_WARMUP_PROMPT_LENS"} \subseteq DOMAIN o.cache => q = o
  BY <1>2, ReadIs
<1>6. Frame(o, q, {})
  BY <1>2, FrameRead
<1> HIDE DEF q
<1>7. /\ IsProcess(b) /\ b.environ = q.environ
      /\ DOMAIN b.cache = {"VLLM_SPYRE_WARMUP_BATCH_SIZES"} \cup DOMAIN q.cache
      /\ b.config = q.config /\ b.error = "none" /\ b.shapes = {}
      /\ \A n : Setting(b, n) = Setting(q, n)
      /\ {"VLLM_SPYRE_WARMUP_BATCH_SIZES"} \subseteq DOMAIN q.cache => b = q
  BY <1>5, ReadIs
<1>8. Frame(q, b, {})
  BY <1>5, FrameRead
<1> HIDE DEF b
<1>9. Frame(p, o, {})
  BY <1>1, <1>2, FrameSame
<1>10. /\ Frame(q, f, {}) /\ f.config = q.config /\ f.error # "none"
  BY <1>5, FailIs, FrameFail
<1>11. /\ Frame(b, g, {}) /\ g.config = b.config /\ g.error # "none"
  BY <1>7, FailIs, FrameFail
<1>12. /\ Frame(b, s, {}) /\ s.config = b.config /\ s.cache = b.cache
       /\ s.environ = b.environ /\ s.shapes = made /\ s.error = "none"
  BY <1>7, PutShapesIs, FramePut
<1> HIDE DEF f, g, s
<1>13. Frame(p, f, {}) /\ Frame(p, g, {}) /\ Frame(p, s, {})
  <2>1. {} \cup {} = {}
    OBVIOUS
  <2>2. Frame(p, q, {})
    BY <1>6, <1>9, <2>1, FrameTrans
  <2>3. Frame(p, b, {})
    BY <1>8, <2>1, <2>2, FrameTrans
  <2> QED BY <1>10, <1>11, <1>12, <2>1, <2>2, <2>3, FrameTrans
<1>14. CASE odd
  <2>1. ~Listed(p)
    BY <1>14 DEF Listed, odd
  <2> HIDE DEF u
  <2> QED BY <1>2, <1>4, <1>5, <1>10, <1>13, <1>14, <2>1 DEF o, u
<1>15. CASE ~odd /\ ~even
  <2>1. ~Listed(p)
    BY <1>15 DEF Listed, even
  <2> HIDE DEF u
  <2> QED BY <1>2, <1>4, <1>5, <1>7, <1>11, <1>13, <1>15, <2>1 DEF o, u
<1>16. CASE ~odd /\ even
  <2>1. u = s
    BY <1>4, <1>16
  <2>2. \A n : Setting(s, n) = Setting(p, n)
    <3>1. \A n : Setting(s, n) = Setting(b, n)
      BY <1>12 DEF Setting
    <3> QED BY <1>3, <1>5, <1>7, <3>1
  <2>3. Listed(s)
    <3>1. ShapeSettings \subseteq DOMAIN s.cache
      BY <1>5, <1>7, <1>12 DEF ShapeSettings
    <3>2. /\ Setting(s, "VLLM_SPYRE_WARMUP_PROMPT_LENS") = lens
          /\ Setting(s, "VLLM_SPYRE_WARMUP_BATCH_SIZES") = sizes
      BY <2>2
    <3>3. \A i \in DOMAIN lens : lens[i] % 64 = 0
      BY <1>16 DEF odd
    <3> HIDE DEF lens, sizes
    <3> QED BY <1>12, <1>16, <3>1, <3>2, <3>3 DEF Listed, even
  <2>4. Listed(p) => s = p
    <3> HAVE Listed(p)
    <3>1. ShapeSettings \subseteq DOMAIN p.cache /\ p.shapes = made
      BY DEF Listed
    <3>2. q = o /\ b = o
      BY <1>2, <1>5, <1>7, <3>1 DEF ShapeSettings
    <3> QED BY <1>2, <3>1, <3>2 DEF s
  <2> HIDE DEF u
  <2> QED BY <1>2, <1>5, <1>7, <1>12, <1>13, <2>1, <2>3, <2>4 DEF o, u
<1> QED BY <1>14, <1>15, <1>16

\* One field of a configuration.
Put(c, f, v) == [c EXCEPT ![f] = v]

LEMMA FieldPut ==
  ASSUME NEW c, IsRecord(c), NEW f \in Fields, NEW v
  PROVE  /\ Same(c, Put(c, f, v), {f})
         /\ IsRecord(Put(c, f, v))
         /\ Put(c, f, v)[f] = v
         /\ c[f] = v => Put(c, f, v) = c
<1>1. IsMapping(c) /\ DOMAIN c = Fields
  BY DEF IsRecord
<1>2. /\ DOMAIN Put(c, f, v) = Fields /\ Put(c, f, v)[f] = v
      /\ \A g \in Fields : g # f => Put(c, f, v)[g] = c[g]
      /\ IsMapping(Put(c, f, v))
      /\ c[f] = v => Put(c, f, v) = c
  BY <1>1 DEF Put, IsMapping
<1> QED BY <1>2 DEF Same, IsRecord

LongestShape(p) == Max({s[1] : s \in p.shapes})

LargestShape(p) == Max({s[2] : s \in p.shapes})

Fitted(p) ==
  /\ ~(LongestShape(p) > p.config.max_position_embeddings)
  /\ p.config.max_model_len = LongestShape(p)
  /\ p.config.max_num_seqs = LargestShape(p)

LEMMA ApplyShapesIs ==
  ASSUME NEW p, Ready(p)
  PROVE  /\ Frame(p, ApplyShapes(p), {})
         /\ Same(p.config, ApplyShapes(p).config, {"max_model_len", "max_num_seqs"})
         /\ ApplyShapes(p).shapes = p.shapes
         /\ ApplyShapes(p).error = "none" => Fitted(ApplyShapes(p))
         /\ Fitted(p) => ApplyShapes(p) = p
<1> DEFINE a == LongestShape(p)
           b == LargestShape(p)
           c == Put(p.config, "max_model_len", a)
           d == Put(c, "max_num_seqs", b)
           f == Fail(p, "max_len")
           s == PutConfig(p, d)
<1>1. IsProcess(p) /\ IsRecord(p.config) /\ p.error = "none"
  BY DEF Ready
<1>2. ApplyShapes(p) = IF a > p.config.max_position_embeddings THEN f ELSE s
  <2>1. [p EXCEPT !.config.max_model_len = a, !.config.max_num_seqs = b] = s
    BY <1>1 DEF PutConfig, Put, IsProcess
  <2> HIDE DEF s, f
  <2> QED BY <2>1 DEF ApplyShapes, LongestShape, LargestShape, f
<1>3. "max_model_len" \in Fields /\ "max_num_seqs" \in Fields
      /\ "max_position_embeddings" \in Fields
  BY DEF Fields
<1>4. /\ Same(p.config, c, {"max_model_len"}) /\ IsRecord(c) /\ c["max_model_len"] = a
      /\ p.config["max_model_len"] = a => c = p.config
  <2> DEFINE k == p.config
  <2> HIDE DEF k, a
  <2>1. /\ Same(k, Put(k, "max_model_len", a), {"max_model_len"})
        /\ IsRecord(Put(k, "max_model_len", a)) /\ Put(k, "max_model_len", a)["max_model_len"] = a
        /\ k["max_model_len"] = a => Put(k, "max_model_len", a) = k
    BY <1>1, <1>3, FieldPut DEF k
  <2> QED BY <2>1 DEF k
<1> HIDE DEF c
<1>5. /\ Same(c, d, {"max_num_seqs"}) /\ IsRecord(d) /\ d["max_num_seqs"] = b
      /\ c["max_num_seqs"] = b => d = c
  <2>1. IsRecord(c) /\ "max_num_seqs" \in Fields
    BY <1>3, <1>4
  <2> HIDE DEF b
  <2> QED BY <2>1, FieldPut
<1> HIDE DEF d
<1>6. /\ Same(p.config, d, {"max_model_len", "max_num_seqs"})
      /\ d["max_model_len"] = a /\ d["max_num_seqs"] = b
      /\ d["max_position_embeddings"] = p.config["max_position_embeddings"]
  BY <1>3, <1>4, <1>5 DEF Same
<1>7. /\ Frame(p, f, {}) /\ f.config = p.config /\ f.shapes = p.shapes /\ f.error # "none"
  BY <1>1, FailIs, FrameFail
<1>8. /\ Frame(p, s, {}) /\ s.config = d /\ s.shapes = p.shapes /\ s.error = "none"
      /\ d = p.config => s = p
  BY <1>1, PutConfigIs, FramePut
<1> HIDE DEF f, s
<1>9. CASE a > p.config.max_position_embeddings
  <2>1. Same(p.config, p.config, {"max_model_len", "max_num_seqs"})
    BY <1>1 DEF Same
  <2>2. ~Fitted(p)
    BY <1>9 DEF Fitted
  <2> QED BY <1>2, <1>7, <1>9, <2>1, <2>2
<1>10. CASE ~(a > p.config.max_position_embeddings)
  <2>1. ApplyShapes(p) = s
    BY <1>2, <1>10
  <2>2. Fitted(s)
    BY <1>6, <1>8, <1>10 DEF Fitted, LongestShape, LargestShape
  <2>3. Fitted(p) => s = p
    <3> HAVE Fitted(p)
    <3>1. c = p.config
      BY <1>4 DEF Fitted
    <3>2. d = c
      BY <1>5, <3>1 DEF Fitted
    <3> QED BY <1>8, <3>1, <3>2
  <2> QED BY <1>6, <1>8, <2>1, <2>2, <2>3
<1> QED BY <1>9, <1>10

RunnerConfigured(p) ==
  IF IsDecoder(p.config) THEN ~(p.config.quantized /\ p.config.max_num_seqs = 1)
  ELSE Listed(p) /\ Fitted(p)

LEMMA CheckRunnerConfigIs ==
  ASSUME NEW p, Ready(p)
  PROVE  LET u == CheckRunnerConfig(p)
         IN /\ Frame(p, u, {})
            /\ Same(p.config, u.config, {"max_model_len", "max_num_seqs"})
            /\ IsDecoder(p.config) => u.config = p.config /\ u.shapes = p.shapes
            /\ u.error = "none" => RunnerConfigured(u)
            /\ RunnerConfigured(p) => u = p
<1> DEFINE u == CheckRunnerConfig(p)
           f == Fail(p, "fp8")
           g == GetWarmupShapes(ForgetShapes(p))
           s == ApplyShapes(g)
<1>1. IsProcess(p) /\ IsRecord(p.config) /\ p.error = "none"
  BY DEF Ready
<1>2. Same(p.config, p.config, {"max_model_len", "max_num_seqs"})
  BY <1>1 DEF Same
<1>3. CASE IsDecoder(p.config)
  <2>1. u = IF p.config.quantized /\ p.config.max_num_seqs = 1 THEN f ELSE p
    BY <1>3 DEF CheckRunnerConfig, CheckDecoder
  <2>2. Frame(p, p, {})
    BY <1>1, FrameSame
  <2>3. /\ Frame(p, f, {}) /\ f.config = p.config /\ f.shapes = p.shapes /\ f.error # "none"
    BY <1>1, FailIs, FrameFail
  <2> HIDE DEF u, f
  <2>4. CASE p.config.quantized /\ p.config.max_num_seqs = 1
    <3>1. u = f /\ ~RunnerConfigured(p)
      BY <1>3, <2>1, <2>4 DEF RunnerConfigured
    <3> QED BY <1>2, <2>3, <3>1 DEF u
  <2>5. CASE ~(p.config.quantized /\ p.config.max_num_seqs = 1)
    <3>1. u = p /\ RunnerConfigured(p)
      BY <1>3, <2>1, <2>5 DEF RunnerConfigured
    <3> QED BY <1>2, <2>2, <3>1 DEF u
  <2> QED BY <2>4, <2>5
<1>4. CASE ~IsDecoder(p.config)
  <2>1. u = IF g.error = "none" THEN s ELSE g
    BY <1>4 DEF CheckRunnerConfig, Then
  <2>2. /\ Frame(p, g, {}) /\ g.config = p.config
        /\ g.error = "none" => Listed(g)
        /\ Listed(p) => g = p
    BY GetWarmupShapesIs
  <2> HIDE DEF u, g
  <2>3. CASE g.error # "none"
    <3>1. u = g
      BY <2>1, <2>3
    <3>2. ~RunnerConfigured(p)
      BY <1>1, <1>4, <2>2, <2>3 DEF RunnerConfigured
    <3> QED BY <1>2, <1>4, <2>2, <2>3, <3>1, <3>2 DEF u
  <2>4. CASE g.error = "none"
    <3>1. u = s
      BY <2>1, <2>4
    <3>2. Ready(g)
      BY <1>1, <2>2, <2>4 DEF Ready, Frame
    <3>3. /\ Frame(g, s, {})
          /\ Same(g.config, s.config, {"max_model_len", "max_num_seqs"})
          /\ s.shapes = g.shapes
          /\ s.error = "none" => Fitted(s)
          /\ Fitted(g) => s = g
      BY <3>2, ApplyShapesIs
    <3> HIDE DEF s
    <3>4. Frame(p, s, {})
      <4>1. {} \cup {} = {}
        OBVIOUS
      <4> QED BY <2>2, <3>3, <4>1, FrameTrans
    <3>5. Listed(s)
      <4>1. /\ Listed(g) /\ DOMAIN g.cache \subseteq DOMAIN s.cache
            /\ \A n \in Settings : Setting(s, n) = Setting(g, n)
        BY <2>2, <2>4, <3>3 DEF Frame
      <4>2. ShapeSettings \subseteq Settings
        BY DEF ShapeSettings, Settings, Defaults
      <4>3. /\ Setting(s, "VLLM_SPYRE_WARMUP_PROMPT_LENS")
                 = Setting(g, "VLLM_SPYRE_WARMUP_PROMPT_LENS")
            /\ Setting(s, "VLLM_SPYRE_WARMUP_BATCH_SIZES")
                 = Setting(g, "VLLM_SPYRE_WARMUP_BATCH_SIZES")
        BY <4>1, <4>2 DEF ShapeSettings
      <4> QED BY <3>3, <4>1, <4>3 DEF Listed
    <3>6. ~IsDecoder(s.config)
      <4>1. s.config["runner"] = p.config["runner"]
        BY <2>2, <3>3 DEF Same, Fields
      <4> QED BY <1>4, <4>1 DEF IsDecoder
    <3>7. s.error = "none" => RunnerConfigured(s)
      BY <3>3, <3>5, <3>6 DEF RunnerConfigured
    <3>8. RunnerConfigured(p) => s = p
      BY <1>4, <2>2, <3>3 DEF RunnerConfigured
    <3> QED BY <1>4, <2>2, <3>1, <3>3, <3>4, <3>7, <3>8 DEF u
  <2> QED BY <2>3, <2>4
<1> QED BY <1>3, <1>4
-----------------------------------------------------------------------------
(***************************************************************************)
(* The device configuration: one variable after the other is set, or found *)
(* and compared.                                                           *)
(***************************************************************************)
Required == "VLLM_SPYRE_REQUIRE_KNOWN_CONFIG"

\* Conflicts are only warned of, and that has been read.
Relaxed(p) == Required \in DOMAIN p.cache /\ ~Setting(p, Required)

LEMMA ValidateIs ==
  ASSUME NEW p, IsProcess(p), NEW d, NEW a
  PROVE  LET q == ValidateConfigOverride(p, d, a)
         IN /\ Frame(p, q, {}) /\ q.environ = p.environ
            /\ q.config = p.config /\ q.shapes = p.shapes
            /\ q.error \in {p.error, "conflict"}
            /\ q.error # "conflict" => d = a \/ Relaxed(q)
            /\ d = a \/ Relaxed(p) => q = p
<1> DEFINE q == ValidateConfigOverride(p, d, a)
           r == Read(p, {Required})
           f == Fail(r, "conflict")
<1>1. q = IF d = a THEN p ELSE IF Setting(r, Required) THEN f ELSE r
  BY DEF ValidateConfigOverride, Required
<1>2. /\ IsProcess(r) /\ r.environ = p.environ /\ Required \in DOMAIN r.cache
      /\ r.shapes = p.shapes /\ r.config = p.config /\ r.error = p.error
      /\ Setting(r, Required) = Setting(p, Required)
      /\ Required \in DOMAIN p.cache => r = p
  BY ReadIs
<1>3. Frame(p, p, {}) /\ Frame(p, r, {})
  BY FrameSame, FrameRead
<1> HIDE DEF r
<1>4. /\ Frame(r, f, {}) /\ f.environ = p.environ
      /\ f.config = p.config /\ f.shapes = p.shapes /\ f.error = "conflict"
  BY <1>2, FailIs, FrameFail
<1> HIDE DEF f
<1>5. Frame(p, f, {})
  <2>1. {} \cup {} = {}
    OBVIOUS
  <2> QED BY <1>3, <1>4, <2>1, FrameTrans
<1> HIDE DEF q
<1>6. CASE d = a
  BY <1>1, <1>3, <1>6 DEF q
<1>7. CASE d # a /\ Setting(r, Required)
  <2>1. q = f /\ ~Relaxed(p)
    BY <1>1, <1>2, <1>7 DEF Relaxed
  <2> QED BY <1>4, <1>5, <1>7, <2>1 DEF q
<1>8. CASE d # a /\ ~Setting(r, Required)
  <2>1. q = r /\ Relaxed(r)
    BY <1>1, <1>2, <1>8 DEF Relaxed
  <2> QED BY <1>2, <1>3, <1>8, <2>1 DEF q, Relaxed
<1> QED BY <1>6, <1>7, <1>8

\* The variable is there, as it should be or because that does not matter.
Held(p, n, v) ==
  n \in DOMAIN p.environ /\ (p.environ[n] = v \/ Relaxed(p))

LEMMA SetEnvVarIs ==
  ASSUME NEW p, IsProcess(p), NEW n \in DeviceVariables, NEW v
  PROVE  LET q == SetEnvVar(p, n, v)
         IN /\ Frame(p, q, {}) /\ q.config = p.config /\ q.shapes = p.shapes
            /\ q.error \in {p.error, "conflict"}
            /\ q.error # "conflict" => Held(q, n, v)
            /\ Held(p, n, v) => q = p
<1> DEFINE q == SetEnvVar(p, n, v)
           s == SetEnv(p, n, v)
           r == ValidateConfigOverride(p, v, p.environ[n])
<1>1. q = IF n \in DOMAIN p.environ THEN r ELSE s
  BY DEF SetEnvVar
<1>2. CASE n \in DOMAIN p.environ
  <2>1. q = r
    BY <1>1, <1>2
  <2> DEFINE a == p.environ[n]
  <2> HIDE DEF a
  <2>2. LET x == ValidateConfigOverride(p, v, a)
        IN /\ Frame(p, x, {}) /\ x.environ = p.environ
           /\ x.config = p.config /\ x.shapes = p.shapes
           /\ x.error \in {p.error, "conflict"}
           /\ x.error # "conflict" => v = a \/ Relaxed(x)
           /\ v = a \/ Relaxed(p) => x = p
    BY ValidateIs
  <2>3. /\ Frame(p, r, {}) /\ r.environ = p.environ
        /\ r.config = p.config /\ r.shapes = p.shapes
        /\ r.error \in {p.error, "conflict"}
        /\ r.error # "conflict" => v = p.environ[n] \/ Relaxed(r)
        /\ v = p.environ[n] \/ Relaxed(p) => r = p
    BY <2>2 DEF a
  <2> HIDE DEF q, r
  <2>4. r.error # "conflict" => Held(r, n, v)
    BY <1>2, <2>3 DEF Held
  <2>5. Held(p, n, v) => r = p
    BY <2>3 DEF Held
  <2> QED BY <2>1, <2>3, <2>4, <2>5 DEF q
<1>3. CASE n \notin DOMAIN p.environ
  <2>1. q = s /\ ~Held(p, n, v)
    BY <1>1, <1>3 DEF Held
  <2>2. /\ Frame(p, s, {}) /\ s.config = p.config /\ s.shapes = p.shapes
        /\ s.error = p.error /\ n \in DOMAIN s.environ /\ s.environ[n] = v
    BY <1>3, SetEnvIs, FrameSet DEF Lasting
  <2> HIDE DEF q, s
  <2>3. Held(s, n, v)
    BY <2>2 DEF Held
  <2> QED BY <2>1, <2>2, <2>3 DEF q
<1> QED BY <1>2, <1>3

\* A set of processes that setting a variable does not leave.
Mappings(N, V) == UNION {[D -> V] : D \in SUBSET N}

Processes(N, V, p) ==
  [environ : Mappings(N, V), cache : Mappings(N, V), shapes : {p.shapes},
   config : {p.config}, error : {p.error, "conflict"}]

LEMMA MappingIs ==
  ASSUME NEW N, NEW V, NEW f
  PROVE  /\ f \in Mappings(N, V) =>
              IsMapping(f) /\ DOMAIN f \subseteq N /\ \A n \in DOMAIN f : f[n] \in V
         /\ IsMapping(f) /\ DOMAIN f \subseteq N /\ (\A n \in DOMAIN f : f[n] \in V) =>
              f \in Mappings(N, V)
<1>1. ASSUME f \in Mappings(N, V)
      PROVE  IsMapping(f) /\ DOMAIN f \subseteq N /\ \A n \in DOMAIN f : f[n] \in V
  <2>1. PICK D \in SUBSET N : f \in [D -> V]
    BY <1>1 DEF Mappings
  <2> QED BY <2>1 DEF IsMapping
<1>2. ASSUME IsMapping(f), DOMAIN f \subseteq N, \A n \in DOMAIN f : f[n] \in V
      PROVE  f \in Mappings(N, V)
  <2>1. f \in [DOMAIN f -> V]
    BY <1>2 DEF IsMapping
  <2>2. DOMAIN f \in SUBSET N
    BY <1>2
  <2> QED BY <2>1, <2>2 DEF Mappings
<1> QED BY <1>1, <1>2

LEMMA SetEnvVarStays ==
  ASSUME NEW N, NEW V, NEW p, NEW q \in Processes(N, V, p), NEW n \in N, NEW v \in V,
         Required \in N, Defaults[Required] \in V
  PROVE  IsProcess(q) /\ SetEnvVar(q, n, v) \in Processes(N, V, p)
<1> DEFINE P == Processes(N, V, p)
           r == Read(q, {Required})
           f == Fail(r, "conflict")
           s == SetEnv(q, n, v)
           M == Mappings(N, V)
<1>1. /\ q = [environ |-> q.environ, cache |-> q.cache, shapes |-> q.shapes,
             config |-> q.config, error |-> q.error]
      /\ q.environ \in M /\ q.cache \in M /\ q.shapes = p.shapes /\ q.config = p.config
      /\ q.error \in {p.error, "conflict"}
  <2> HIDE DEF M
  <2> QED BY DEF Processes, M
<1>2. /\ IsMapping(q.environ) /\ DOMAIN q.environ \subseteq N
      /\ \A m \in DOMAIN q.environ : q.environ[m] \in V
  BY <1>1, MappingIs
<1>3. /\ IsMapping(q.cache) /\ DOMAIN q.cache \subseteq N
      /\ \A m \in DOMAIN q.cache : q.cache[m] \in V
  BY <1>1, MappingIs
<1>4. IsProcess(q)
  BY <1>1, <1>2, <1>3 DEF IsProcess
<1>5. ASSUME NEW x, IsProcess(x), x.environ \in M, x.cache \in M, x.shapes = p.shapes,
             x.config = p.config, x.error \in {p.error, "conflict"}
      PROVE  x \in P
  <2> HIDE DEF M
  <2>1. x = [environ |-> x.environ, cache |-> x.cache, shapes |-> x.shapes,
             config |-> x.config, error |-> x.error]
    BY <1>5 DEF IsProcess
  <2> QED BY <1>5, <2>1 DEF Processes, M
<1>6. s \in P
  <2>1. /\ IsProcess(s) /\ DOMAIN s.environ = DOMAIN q.environ \cup {n}
        /\ s.environ[n] = v /\ s.cache = q.cache /\ s.shapes = q.shapes
        /\ s.config = q.config /\ s.error = q.error
        /\ \A m \in DOMAIN q.environ : m # n => s.environ[m] = q.environ[m]
    BY <1>4, SetEnvIs
  <2> HIDE DEF s
  <2>2. s.environ \in M
    <3> DEFINE e == s.environ
    <3>1. IsMapping(e) /\ DOMAIN e \subseteq N /\ \A m \in DOMAIN e : e[m] \in V
      BY <1>2, <2>1 DEF IsProcess
    <3> HIDE DEF e
    <3>2. e \in M
      BY <3>1, MappingIs
    <3> QED BY <3>2 DEF e
  <2> HIDE DEF M, P
  <2> QED BY <1>1, <1>5, <2>1, <2>2
<1>7. r \in P /\ f \in P
  <2>1. /\ IsProcess(r) /\ r.environ = q.environ
        /\ DOMAIN r.cache = {Required} \cup DOMAIN q.cache /\ r.shapes = q.shapes
        /\ r.config = q.config /\ r.error = q.error
        /\ \A m : Setting(r, m) = Setting(q, m)
    BY <1>4, ReadIs
  <2> HIDE DEF r
  <2>2. r.cache \in M
    <3> DEFINE e == r.cache
    <3>1. \A m \in DOMAIN e : Setting(q, m) = e[m]
      BY <2>1 DEF Setting
    <3>2. \A m \in DOMAIN e : Setting(q, m) \in V
      BY <1>2, <1>3, <2>1 DEF Setting, Evaluated
    <3>3. IsMapping(e) /\ DOMAIN e \subseteq N /\ \A m \in DOMAIN e : e[m] \in V
      BY <1>3, <2>1, <3>1, <3>2 DEF IsProcess
    <3> HIDE DEF e
    <3>4. e \in M
      BY <3>3, MappingIs
    <3> QED BY <3>4 DEF e
  <2>3. /\ IsProcess(f) /\ f.environ = r.environ /\ f.cache = r.cache
        /\ f.shapes = r.shapes /\ f.config = r.config /\ f.error = "conflict"
    BY <2>1, FailIs
  <2> HIDE DEF M, P, f
  <2> QED BY <1>1, <1>5, <2>1, <2>2, <2>3
<1>8. SetEnvVar(q, n, v) \in {q, r, f, s}
  BY DEF SetEnvVar, ValidateConfigOverride, Required
<1> HIDE DEF P, r, f, s
<1> QED BY <1>4, <1>6, <1>7, <1>8 DEF P

\* What is held stays so.
LEMMA HeldKept ==
  ASSUME NEW p, NEW q, NEW W, Frame(p, q, W), NEW n, n \notin W, NEW v
  PROVE  /\ Relaxed(p) => Relaxed(q)
         /\ Held(p, n, v) => Held(q, n, v)
<1>1. Required \in Settings
  BY DEF Required, Settings, Defaults
<1>2. Relaxed(p) => Relaxed(q)
  BY <1>1 DEF Frame, Relaxed
<1> QED BY <1>2 DEF Frame, Held

Stepped(q, e) == IF q.error = "none" THEN SetEnvVar(q, e[1], e[2]) ELSE q

VariablesSet(p, d) ==
  FoldLeft(LAMBDA q, e : Then(q, LAMBDA s : SetEnvVar(s, e[1], e[2])), p, d.env_vars)

DeviceChain(g, p, d) ==
  /\ g[0] = p
  /\ \A k \in 1 .. Len(d.env_vars) : g[k] = Stepped(g[k - 1], d.env_vars[k])
  /\ VariablesSet(p, d) = g[Len(d.env_vars)]

LEMMA DeviceVars ==
  ASSUME NEW d \in Devices
  PROVE  /\ Len(d.env_vars) \in Nat /\ DOMAIN d.env_vars = 1 .. Len(d.env_vars)
         /\ \A k \in 1 .. Len(d.env_vars) : /\ d.env_vars[k] \in ToSet(d.env_vars)
                                            /\ d.env_vars[k][1] \in DeviceVariables
         /\ \A e \in ToSet(d.env_vars) : \E k \in 1 .. Len(d.env_vars) : e = d.env_vars[k]
<1> DEFINE s == d.env_vars
<1>1. s \in Seq(ToSet(s))
  BY DevicesAssumption
<1>2. {e[1] : e \in ToSet(s)} \subseteq DeviceVariables
  BY DEF DeviceVariables
<1> HIDE DEF s
<1>3. Len(s) \in Nat /\ DOMAIN s = 1 .. Len(s)
  BY <1>1, LenProperties
<1>4. \A k \in 1 .. Len(s) : s[k] \in ToSet(s) /\ s[k][1] \in DeviceVariables
  BY <1>2, <1>3 DEF ToSet
<1>5. \A e \in ToSet(s) : \E k \in 1 .. Len(s) : e = s[k]
  BY <1>3 DEF ToSet
<1> QED BY <1>3, <1>4, <1>5 DEF s

\* The library's fold is such a chain.
LEMMA DeviceFold ==
  ASSUME NEW p, IsProcess(p), p.error = "none", NEW d \in Devices
  PROVE  \E g : DeviceChain(g, p, d)
<1> DEFINE n == Len(d.env_vars)
           vs == d.env_vars
           N == {Required} \cup DOMAIN p.environ \cup DOMAIN p.cache
                  \cup {vs[k][1] : k \in 1 .. n}
           V == {Defaults[Required]} \cup {p.environ[m] : m \in DOMAIN p.environ}
                  \cup {p.cache[m] : m \in DOMAIN p.cache} \cup {vs[k][2] : k \in 1 .. n}
           P == Processes(N, V, p)
           G == [x \in P \X (1 .. n) |-> Stepped(x[1], vs[x[2]])]
           last == VariablesSet(p, d)
           Solves(h) == h = [s \in SUBSET (1 .. n) |->
                               IF s = {} THEN p
                               ELSE Stepped(h[s \ {Max(s)}], vs[Max(s)])]
<1>1. n \in Nat /\ DOMAIN vs = 1 .. n
  BY DeviceVars
<1>2. last =
        (CHOOSE iter : iter = [s \in SUBSET (1 .. n) |->
            IF s = {} THEN p
            ELSE Stepped(iter[s \ {Max(s)}], vs[Max(s)])])[1 .. n]
  BY <1>1 DEF VariablesSet, Stepped, Then, FoldLeft, MapThenFoldSet
<1>3. p \in P
  <2>1. p.environ \in Mappings(N, V)
    <3> DEFINE e == p.environ
    <3>1. IsMapping(e) /\ DOMAIN e \subseteq N /\ \A m \in DOMAIN e : e[m] \in V
      BY DEF IsProcess
    <3> HIDE DEF e, N, V
    <3>2. e \in Mappings(N, V)
      BY <3>1, MappingIs
    <3> QED BY <3>2 DEF e
  <2>2. p.cache \in Mappings(N, V)
    <3> DEFINE e == p.cache
    <3>1. IsMapping(e) /\ DOMAIN e \subseteq N /\ \A m \in DOMAIN e : e[m] \in V
      BY DEF IsProcess
    <3> HIDE DEF e, N, V
    <3>2. e \in Mappings(N, V)
      BY <3>1, MappingIs
    <3> QED BY <3>2 DEF e
  <2>3. p = [environ |-> p.environ, cache |-> p.cache, shapes |-> p.shapes,
             config |-> p.config, error |-> p.error]
    BY DEF IsProcess
  <2> HIDE DEF N, V
  <2> QED BY <2>1, <2>2, <2>3 DEF Processes
<1>4. \A q \in P, k \in 1 .. n : Stepped(q, vs[k]) \in P
  <2> TAKE q \in P, k \in 1 .. n
  <2>1. vs[k][1] \in N /\ vs[k][2] \in V /\ Required \in N /\ Defaults[Required] \in V
    OBVIOUS
  <2> DEFINE a == vs[k][1]
             b == vs[k][2]
  <2> HIDE DEF N, V, a, b
  <2>2. SetEnvVar(q, a, b) \in P
    BY <2>1, SetEnvVarStays DEF a, b
  <2> QED BY <2>2 DEF Stepped, a, b
<1> HIDE DEF n, vs, last, P
<1>5. G \in [P \X (1 .. n) -> P]
  <2>1. \A x \in P \X (1 .. n) : x[1] \in P /\ x[2] \in 1 .. n
    OBVIOUS
  <2> QED BY <1>4, <2>1
<1>6. \A q \in P, k \in 1 .. n : G[<<q, k>>] = Stepped(q, vs[k])
  OBVIOUS
<1> HIDE DEF G
<1>7. PICK f \in [SUBSET (1 .. n) -> P] : FoldsOver(f, n, p, G)
  BY <1>1, <1>3, <1>5, FoldExists
<1>8. Solves(f)
  <2> SUFFICES ASSUME NEW s \in SUBSET (1 .. n), s # {}
               PROVE  f[s] = Stepped(f[s \ {Max(s)}], vs[Max(s)])
    BY <1>7 DEF FoldsOver
  <2>1. Max(s) \in 1 .. n
    BY <1>1, GreatestPosition
  <2>2. f[s \ {Max(s)}] \in P
    BY <1>7
  <2>3. f[s] = G[<<f[s \ {Max(s)}], Max(s)>>]
    BY <1>7 DEF FoldsOver
  <2> HIDE DEF Solves
  <2> QED BY <1>6, <2>1, <2>2, <2>3
<1>9. PICK h : Solves(h) /\ last = h[1 .. n]
  BY <1>2, <1>8, Zenon DEF Solves
<1>10. h[{}] = p
  BY <1>9
<1>11. \A k \in 1 .. n : h[1 .. k] = Stepped(h[1 .. k - 1], vs[k])
  <2> TAKE k \in 1 .. n
  <2>1. /\ 1 .. k \in SUBSET (1 .. n) /\ 1 .. k # {}
        /\ Max(1 .. k) = k /\ (1 .. k) \ {k} = 1 .. k - 1
    BY <1>1, GreatestPosition
  <2> QED BY <1>9, <2>1, ZenonT(60)
<1>12. Unfolds(h, n, P, p, G)
  BY <1>1, <1>3, <1>5, <1>6, <1>10, <1>11 DEF Unfolds
<1>13. PICK g \in [0 .. n -> P] : Iterated(g, n, p, G) /\ g[n] = h[1 .. n]
  <2>1. EndsChain(h[1 .. n], n, P, p, G)
    BY <1>12, ChainOfFold
  <2> QED BY <2>1 DEF EndsChain
<1>14. \A k \in 1 .. n : g[k] = Stepped(g[k - 1], vs[k])
  <2> TAKE k \in 1 .. n
  <2>1. k - 1 \in 0 .. n
    BY <1>1
  <2> QED BY <1>6, <1>13, <2>1 DEF Iterated
<1>15. DeviceChain(g, p, d)
  BY <1>9, <1>13, <1>14 DEF DeviceChain, Iterated, n, vs, last
<1> QED BY <1>15

\* All variables are set or checked, unless one of them conflicts.
LEMMA VariablesSetIs ==
  ASSUME NEW p, IsProcess(p), p.error = "none", NEW d \in Devices
  PROVE  LET q == VariablesSet(p, d)
         IN /\ Frame(p, q, {}) /\ q.config = p.config /\ q.shapes = p.shapes
            /\ q.error = "none" => \A e \in ToSet(d.env_vars) : Held(q, e[1], e[2])
            /\ (\A e \in ToSet(d.env_vars) : Held(p, e[1], e[2])) => q = p
<1> DEFINE n == Len(d.env_vars)
           vs == d.env_vars
           q == VariablesSet(p, d)
<1>1. PICK g : DeviceChain(g, p, d)
  BY DeviceFold
<1>2. /\ g[0] = p /\ q = g[n]
      /\ \A k \in 1 .. n : g[k] = Stepped(g[k - 1], vs[k])
  BY <1>1 DEF DeviceChain
<1>3. /\ n \in Nat
      /\ \A k \in 1 .. n : vs[k] \in ToSet(vs) /\ vs[k][1] \in DeviceVariables
      /\ \A e \in ToSet(vs) : \E k \in 1 .. n : e = vs[k]
  BY DeviceVars
<1> DEFINE Reached(k) ==
             /\ Frame(p, g[k], {}) /\ g[k].config = p.config /\ g[k].shapes = p.shapes
             /\ g[k].error = "none" =>
                  \A i \in 1 .. k : Held(g[k], vs[i][1], vs[i][2])
             /\ (\A e \in ToSet(vs) : Held(p, e[1], e[2])) => g[k] = p
           T == {k \in 0 .. n : Reached(k)}
<1> HIDE DEF n, vs, q
<1>4. 0 \in T
  <2>1. Frame(p, p, {}) /\ 0 \in 0 .. n /\ 1 .. 0 = {}
    BY <1>3, FrameSame
  <2> QED BY <1>2, <2>1
<1>5. ASSUME NEW k \in 1 .. n, k - 1 \in T
      PROVE  k \in T
  <2> DEFINE o == g[k - 1]
             x == vs[k][1]
             y == vs[k][2]
             u == SetEnvVar(o, x, y)
  <2>1. g[k] = IF o.error = "none" THEN u ELSE o
    BY <1>2 DEF Stepped
  <2>2. Reached(k - 1) /\ k \in 0 .. n
    BY <1>3, <1>5
  <2>3. x \in DeviceVariables /\ vs[k] \in ToSet(vs)
    BY <1>3
  <2>4. /\ Frame(p, o, {}) /\ o.config = p.config /\ o.shapes = p.shapes /\ IsProcess(o)
        /\ o.error = "none" => \A i \in 1 .. k - 1 : Held(o, vs[i][1], vs[i][2])
        /\ (\A e \in ToSet(vs) : Held(p, e[1], e[2])) => o = p
    BY <2>2 DEF Frame
  <2> HIDE DEF o, x, y
  <2>5. CASE o.error # "none"
    <3>1. g[k] = o
      BY <2>1, <2>5
    <3>2. Reached(k)
      BY <2>4, <2>5, <3>1
    <3> QED BY <2>2, <3>2
  <2>6. CASE o.error = "none"
    <3>1. g[k] = u
      BY <2>1, <2>6
    <3>2. /\ Frame(o, u, {}) /\ u.config = o.config /\ u.shapes = o.shapes
          /\ u.error # "conflict" => Held(u, x, y)
          /\ Held(o, x, y) => u = o
      BY <2>3, <2>4, SetEnvVarIs
    <3> HIDE DEF u
    <3>3. Frame(p, u, {})
      <4>1. {} \cup {} = {}
        OBVIOUS
      <4> QED BY <2>4, <3>2, <4>1, FrameTrans
    <3>4. u.error = "none" => \A i \in 1 .. k : Held(u, vs[i][1], vs[i][2])
      <4> HAVE u.error = "none"
      <4> TAKE i \in 1 .. k
      <4>1. CASE i = k
        BY <3>2, <4>1 DEF x, y
      <4>2. CASE i # k
        <5>1. i \in 1 .. k - 1
          BY <1>3, <4>2
        <5>2. Held(o, vs[i][1], vs[i][2])
          BY <2>4, <2>6, <5>1
        <5> QED BY <3>2, <5>2, HeldKept
      <4> QED BY <4>1, <4>2
    <3>5. (\A e \in ToSet(vs) : Held(p, e[1], e[2])) => u = p
      <4> HAVE \A e \in ToSet(vs) : Held(p, e[1], e[2])
      <4>1. o = p /\ Held(p, x, y)
        BY <2>3, <2>4 DEF x, y
      <4> QED BY <3>2, <4>1
    <3>6. Reached(k)
      BY <2>4, <3>1, <3>2, <3>3, <3>4, <3>5
    <3> QED BY <2>2, <3>6
  <2> QED BY <2>5, <2>6
<1>6. Reached(n)
  <2> HIDE DEF T
  <2>1. 0 .. n \subseteq T
    BY <1>3, <1>4, <1>5, Steps
  <2>2. n \in T
    BY <1>3, <2>1
  <2> QED BY <2>2 DEF T
<1>7. (q.error = "none") => \A e \in ToSet(vs) : Held(q, e[1], e[2])
  BY <1>2, <1>3, <1>6
<1> QED BY <1>2, <1>6, <1>7 DEF q, vs

BlocksHeld(p, d) ==
  DeviceBlocks(d) # NoBlocks =>
    /\ p.config.num_gpu_blocks # NoBlocks
    /\ p.config.num_gpu_blocks = DeviceBlocks(d) \/ Relaxed(p)

LEMMA ConfigureGpuBlocksIs ==
  ASSUME NEW p, Ready(p), NEW d
  PROVE  LET u == ConfigureGpuBlocks(p, d)
         IN /\ Frame(p, u, {}) /\ u.shapes = p.shapes
            /\ Same(p.config, u.config, {"num_gpu_blocks"})
            /\ u.error = "none" => BlocksHeld(u, d)
            /\ BlocksHeld(p, d) => u = p
<1> DEFINE u == ConfigureGpuBlocks(p, d)
           blocks == DeviceBlocks(d)
           own == p.config.num_gpu_blocks
           c == Put(p.config, "num_gpu_blocks", blocks)
           s == PutConfig(p, c)
           r == ValidateConfigOverride(p, blocks, own)
<1>1. IsProcess(p) /\ IsRecord(p.config) /\ p.error = "none"
  BY DEF Ready
<1>2. u = IF blocks = NoBlocks THEN p ELSE IF own = NoBlocks THEN s ELSE r
  <2>1. [p EXCEPT !.config.num_gpu_blocks = blocks] = s
    BY <1>1 DEF PutConfig, Put, IsProcess
  <2> HIDE DEF s
  <2> QED BY <2>1 DEF ConfigureGpuBlocks
<1>3. Frame(p, p, {}) /\ Same(p.config, p.config, {"num_gpu_blocks"})
  BY <1>1, FrameSame DEF Same
<1> HIDE DEF u
<1>4. CASE blocks = NoBlocks
  <2>1. u = p /\ BlocksHeld(p, d)
    BY <1>2, <1>4 DEF BlocksHeld
  <2> QED BY <1>3, <2>1 DEF u
<1>5. CASE blocks # NoBlocks /\ own = NoBlocks
  <2>1. u = s /\ ~BlocksHeld(p, d)
    BY <1>2, <1>5 DEF BlocksHeld
  <2>2. Same(p.config, c, {"num_gpu_blocks"}) /\ c["num_gpu_blocks"] = blocks
    <3> DEFINE k == p.config
    <3>1. IsRecord(k) /\ "num_gpu_blocks" \in Fields
      BY <1>1 DEF Fields
    <3> HIDE DEF k, blocks
    <3>2. LET x == Put(k, "num_gpu_blocks", blocks)
          IN Same(k, x, {"num_gpu_blocks"}) /\ x["num_gpu_blocks"] = blocks
      BY <3>1, FieldPut
    <3> QED BY <3>2 DEF k
  <2>3. Frame(p, s, {}) /\ s.config = c /\ s.shapes = p.shapes
    <3> HIDE DEF c
    <3> QED BY <1>1, PutConfigIs, FramePut
  <2>4. BlocksHeld(s, d)
    BY <1>5, <2>2, <2>3 DEF BlocksHeld
  <2> HIDE DEF s, c
  <2> QED BY <2>1, <2>2, <2>3, <2>4 DEF u
<1>6. CASE blocks # NoBlocks /\ own # NoBlocks
  <2>1. u = r
    BY <1>2, <1>6
  <2>2. /\ Frame(p, r, {}) /\ r.config = p.config /\ r.shapes = p.shapes
        /\ r.error \in {p.error, "conflict"}
        /\ r.error # "conflict" => blocks = own \/ Relaxed(r)
        /\ blocks = own \/ Relaxed(p) => r = p
    <3> HIDE DEF blocks, own
    <3> QED BY <1>1, ValidateIs
  <2> HIDE DEF r
  <2>3. r.error = "none" => BlocksHeld(r, d)
    BY <1>6, <2>2 DEF BlocksHeld
  <2>4. BlocksHeld(p, d) => r = p
    BY <1>6, <2>2 DEF BlocksHeld
  <2> QED BY <1>3, <2>1, <2>2, <2>3, <2>4 DEF u
<1> QED BY <1>4, <1>5, <1>6

\* The process and its configuration have what the device asks for.
Configured(p, d) ==
  /\ \A e \in ToSet(d.env_vars) : Held(p, e[1], e[2])
  /\ BlocksHeld(p, d)

LEMMA ConfigureDeviceIs ==
  ASSUME NEW p, Ready(p), NEW d \in Devices
  PROVE  LET u == ConfigureDevice(p, d)
         IN /\ Frame(p, u, {}) /\ u.shapes = p.shapes
            /\ Same(p.config, u.config, {"num_gpu_blocks"})
            /\ u.error = "none" => Configured(u, d)
            /\ Configured(p, d) => u = p
<1> DEFINE u == ConfigureDevice(p, d)
           v == VariablesSet(p, d)
           w == ConfigureGpuBlocks(v, d)
<1>1. IsProcess(p) /\ IsRecord(p.config) /\ p.error = "none"
  BY DEF Ready
<1>2. u = IF v.error = "none" THEN w ELSE v
  BY DEF ConfigureDevice, VariablesSet, Then
<1>3. /\ Frame(p, v, {}) /\ v.config = p.config /\ v.shapes = p.shapes
      /\ v.error = "none" => \A e \in ToSet(d.env_vars) : Held(v, e[1], e[2])
      /\ (\A e \in ToSet(d.env_vars) : Held(p, e[1], e[2])) => v = p
  BY <1>1, VariablesSetIs
<1> HIDE DEF u, v
<1>4. CASE v.error # "none"
  <2>1. u = v /\ Same(p.config, p.config, {"num_gpu_blocks"})
    BY <1>1, <1>2, <1>4 DEF Same
  <2> QED BY <1>3, <1>4, <2>1 DEF u, Configured
<1>5. CASE v.error = "none"
  <2>1. u = w /\ Ready(v)
    BY <1>1, <1>2, <1>3, <1>5 DEF Ready, Frame
  <2>2. /\ Frame(v, w, {}) /\ w.shapes = v.shapes
        /\ Same(v.config, w.config, {"num_gpu_blocks"})
        /\ w.error = "none" => BlocksHeld(w, d)
        /\ BlocksHeld(v, d) => w = v
    BY <2>1, ConfigureGpuBlocksIs
  <2> HIDE DEF w
  <2>3. Frame(p, w, {})
    <3>1. {} \cup {} = {}
      OBVIOUS
    <3> QED BY <1>3, <2>2, <3>1, FrameTrans
  <2>4. \A e \in ToSet(d.env_vars) : Held(w, e[1], e[2])
    <3> TAKE e \in ToSet(d.env_vars)
    <3> DEFINE x == e[1]
               y == e[2]
    <3>1. Held(v, x, y)
      BY <1>3, <1>5
    <3> HIDE DEF x, y
    <3>2. Held(w, x, y)
      BY <2>2, <3>1, HeldKept
    <3> QED BY <3>2 DEF x, y
  <2>5. Configured(p, d) => w = p
    BY <1>3, <2>2 DEF Configured
  <2> QED BY <1>3, <2>1, <2>2, <2>3, <2>4, <2>5 DEF u, Configured
<1> QED BY <1>4, <1>5

\* What the registry says depends on four fields.
LEMMA DevicesSame ==
  ASSUME NEW c, NEW e, NEW shape_set, e.hf = c.hf, e.world_size = c.world_size,
         e.max_model_len = c.max_model_len, e.max_num_seqs = c.max_num_seqs
  PROVE  DevicesForRuntime(e, shape_set) = DevicesForRuntime(c, shape_set)
BY DEF DevicesForRuntime, ContinuousMatches

\* It is one device configuration at most, that of some model.
LEMMA DevicesAre ==
  ASSUME NEW c, NEW shape_set, NEW d \in DevicesForRuntime(c, shape_set)
  PROVE  /\ DevicesForRuntime(c, shape_set) = {d}
         /\ d = NoDevice \/ d \in Devices
<1> DEFINE m == FindMatchingModel(c.hf)
           sig == <<c.world_size, c.max_model_len, c.max_num_seqs>>
<1>1. BestOf(c.hf, m, Len(Models))
  BY FindsBest
<1> HIDE DEF m
<1>2. m # NoModel
  BY DEF DevicesForRuntime, m
<1>3. PICK i \in 1 .. Len(Models) : m = Models[i]
  BY <1>1, <1>2 DEF BestOf
<1>4. m \in ToSet(Models) /\ IsModel(m)
  BY <1>3, EveryModel
<1>5. CASE shape_set # {}
  <2>1. DevicesForRuntime(c, shape_set) \subseteq {NoDevice}
    BY <1>5 DEF DevicesForRuntime
  <2> QED BY <2>1
<1>6. CASE shape_set = {}
  <2>1. DevicesForRuntime(c, shape_set) =
          {cb.device : cb \in {x \in ToSet(m.continuous) : Signature(x) = sig}}
    BY <1>2, <1>6 DEF DevicesForRuntime, ContinuousMatches, m
  <2> HIDE DEF sig
  <2>2. PICK cb \in ToSet(m.continuous) : Signature(cb) = sig /\ d = cb.device
    BY <2>1
  <2>3. ASSUME NEW x \in ToSet(m.continuous), Signature(x) = sig
        PROVE  x = cb
    <3>1. PICK j \in DOMAIN m.continuous : x = m.continuous[j]
      BY DEF ToSet
    <3>2. PICK k \in DOMAIN m.continuous : cb = m.continuous[k]
      BY DEF ToSet
    <3>3. j = k
      BY <1>4, <2>2, <2>3, <3>1, <3>2 DEF IsModel
    <3> QED BY <3>1, <3>2, <3>3
  <2>4. DevicesForRuntime(c, shape_set) = {d}
    BY <2>1, <2>2, <2>3
  <2>5. d = NoDevice \/ d \in Devices
    BY <1>4, <2>2 DEF Devices
  <2> QED BY <2>4, <2>5
<1> QED BY <1>5, <1>6

Registered(p) ==
  LET devices == DevicesForRuntime(p.config, p.shapes)
  IN /\ "VLLM_SPYRE_DYNAMO_BACKEND" \in DOMAIN p.cache
     /\ Setting(p, "VLLM_SPYRE_DYNAMO_BACKEND") = "sendnn" /\ devices # {NoDevice} =>
          /\ \A d \in devices : d \in Devices /\ Configured(p, d)
          /\ devices = {} => Relaxed(p)

LEMMA ConfiguredKept ==
  ASSUME NEW p, NEW q, NEW W, Frame(p, q, W), W \subseteq Overwritten, NEW d \in Devices,
         p.config.num_gpu_blocks # NoBlocks => q.config.num_gpu_blocks = p.config.num_gpu_blocks,
         Configured(p, d)
  PROVE  Configured(q, d)
<1>1. ASSUME NEW e \in ToSet(d.env_vars)
      PROVE  Held(q, e[1], e[2])
  <2> DEFINE x == e[1]
             y == e[2]
  <2>1. x \in DeviceVariables /\ Held(p, x, y)
    BY DEF Configured, DeviceVariables
  <2>2. x \notin W
    BY <2>1, NamesApart DEF Lasting
  <2> HIDE DEF x, y
  <2>3. Held(q, x, y)
    BY <2>1, <2>2, HeldKept
  <2> QED BY <2>3 DEF x, y
<1>2. Relaxed(p) => Relaxed(q)
  <2>1. "VLLM_USE_V1" \notin W
    BY NamesApart
  <2> QED BY <2>1, HeldKept
<1>3. BlocksHeld(q, d)
  BY <1>2 DEF Configured, BlocksHeld
<1> QED BY <1>1, <1>3 DEF Configured

LEMMA ApplyRegistryIs ==
  ASSUME NEW p, Ready(p)
  PROVE  LET u == ApplyRegistry(p)
         IN /\ Frame(p, u, {}) /\ u.shapes = p.shapes
            /\ Same(p.config, u.config, {"num_gpu_blocks"})
            /\ u.error = "none" => Registered(u)
            /\ Registered(p) => u = p
<1> DEFINE u == ApplyRegistry(p)
           q == Read(p, {"VLLM_SPYRE_DYNAMO_BACKEND"})
           devices == DevicesForRuntime(p.config, p.shapes)
           d == CHOOSE x \in devices : TRUE
           w == ConfigureDevice(q, d)
           t == Read(q, {Required})
           f == Fail(t, "unknown")
           on == Setting(p, "VLLM_SPYRE_DYNAMO_BACKEND") = "sendnn"
<1>1. IsProcess(p) /\ IsRecord(p.config) /\ p.error = "none"
  BY DEF Ready
<1>2. u = IF ~on THEN q ELSE IF devices = {NoDevice} THEN q
          ELSE IF devices # {} THEN w
          ELSE IF Setting(t, Required) THEN f ELSE t
  BY DEF ApplyRegistry, Required
<1>3. /\ IsProcess(q) /\ "VLLM_SPYRE_DYNAMO_BACKEND" \in DOMAIN q.cache
      /\ q.shapes = p.shapes /\ q.config = p.config /\ q.error = "none"
      /\ \A n : Setting(q, n) = Setting(p, n)
      /\ "VLLM_SPYRE_DYNAMO_BACKEND" \in DOMAIN p.cache => q = p
  BY <1>1, ReadIs
<1>4. Frame(p, q, {})
  BY <1>1, FrameRead
<1> HIDE DEF u, q
<1>5. Same(p.config, p.config, {"num_gpu_blocks"}) /\ Ready(q)
  BY <1>1, <1>3 DEF Same, Ready
<1>6. {} \cup {} = {}
  OBVIOUS
<1>7. CASE ~on \/ devices = {NoDevice}
  <2>1. u = q
    BY <1>2, <1>7
  <2>2. Registered(q)
    BY <1>3, <1>7 DEF Registered
  <2>3. Registered(p) => q = p
    BY <1>3 DEF Registered
  <2> QED BY <1>3, <1>4, <1>5, <2>1, <2>2, <2>3 DEF u
<1>8. CASE on /\ devices # {NoDevice} /\ devices # {}
  <2>1. u = w
    BY <1>2, <1>8
  <2>2. d \in devices
    BY <1>8
  <2>3. devices = {d} /\ d \in Devices
    <3> HIDE DEF d
    <3>1. DevicesForRuntime(p.config, p.shapes) = {d} /\ (d = NoDevice \/ d \in Devices)
      BY <2>2, DevicesAre
    <3> QED BY <1>8, <3>1
  <2> HIDE DEF d
  <2>4. /\ Frame(q, w, {}) /\ w.shapes = q.shapes
        /\ Same(q.config, w.config, {"num_gpu_blocks"})
        /\ w.error = "none" => Configured(w, d)
        /\ Configured(q, d) => w = q
    BY <1>5, <2>3, ConfigureDeviceIs
  <2> HIDE DEF w
  <2>5. Frame(p, w, {})
    BY <1>4, <1>6, <2>4, FrameTrans
  <2>6. DevicesForRuntime(w.config, w.shapes) = devices
    <3> DEFINE k == w.config
    <3>1. /\ k["hf"] = p.config["hf"] /\ k["world_size"] = p.config["world_size"]
          /\ k["max_model_len"] = p.config["max_model_len"]
          /\ k["max_num_seqs"] = p.config["max_num_seqs"]
      BY <1>3, <2>4 DEF Same, Fields
    <3>2. w.shapes = p.shapes
      BY <1>3, <2>4
    <3> QED BY <3>1, <3>2, DevicesSame
  <2>7. w.error = "none" => Registered(w)
    <3>1. "VLLM_SPYRE_DYNAMO_BACKEND" \in DOMAIN w.cache
      BY <1>3, <2>4 DEF Frame
    <3> QED BY <1>8, <2>3, <2>4, <2>6, <3>1 DEF Registered
  <2>8. Registered(p) => w = p
    BY <1>3, <1>8, <2>3, <2>4 DEF Registered
  <2> QED BY <1>3, <2>1, <2>4, <2>5, <2>7, <2>8 DEF u
<1>9. CASE on /\ devices = {}
  <2>1. u = IF Setting(t, Required) THEN f ELSE t
    BY <1>2, <1>9
  <2>2. /\ IsProcess(t) /\ DOMAIN t.cache = {Required} \cup DOMAIN q.cache
        /\ t.shapes = q.shapes /\ t.config = q.config /\ t.error = "none"
        /\ \A n : Setting(t, n) = Setting(q, n)
        /\ Required \in DOMAIN q.cache => t = q
    BY <1>3, ReadIs
  <2>3. Frame(q, t, {})
    BY <1>3, FrameRead
  <2>4. Frame(p, t, {})
    BY <1>4, <1>6, <2>3, FrameTrans
  <2> HIDE DEF t
  <2>5. CASE Setting(t, Required)
    <3>1. u = f
      BY <2>1, <2>5
    <3>2. /\ Frame(t, f, {}) /\ f.config = t.config /\ f.shapes = t.shapes /\ f.error # "none"
      BY <2>2, FailIs, FrameFail
    <3> HIDE DEF f
    <3>3. Frame(p, f, {})
      BY <1>6, <2>4, <3>2, FrameTrans
    <3>4. ~Registered(p)
      BY <1>3, <1>9, <2>2, <2>5 DEF Registered, Relaxed
    <3> QED BY <1>3, <1>5, <2>2, <3>1, <3>2, <3>3, <3>4 DEF u
  <2>6. CASE ~Setting(t, Required)
    <3>1. u = t
      BY <2>1, <2>6
    <3>2. Registered(t)
      BY <1>3, <1>9, <2>2, <2>6 DEF Registered, Relaxed
    <3>3. Registered(p) => t = p
      BY <1>3, <1>9, <2>2 DEF Registered, Relaxed
    <3> QED BY <1>3, <1>5, <2>2, <2>4, <3>1, <3>2, <3>3 DEF u
  <2> QED BY <2>5, <2>6
<1> QED BY <1>7, <1>8, <1>9
-----------------------------------------------------------------------------
\* Blocks are a number, not the mark for none.
LEMMA TotalBlocksIs ==
  ASSUME NEW c, c.max_num_seqs \in Nat \ {0}, c.max_model_len \in Nat
  PROVE  TotalBlocks(c) # NoBlocks
<1> DEFINE n == c.max_num_seqs
           b == c.max_model_len \div BlockSize
           f == n * b
           k == (f + 1 + n - 1) \div n
<1>1. n \in Nat \ {0} /\ b \in Nat
  BY DEF BlockSize
<1> HIDE DEF n, b
<1>2. f \in Nat
  BY <1>1
<1> HIDE DEF f
<1>3. k \in Nat
  <2>1. f + 1 + n - 1 \in Nat
    BY <1>1, <1>2
  <2> QED BY <1>1, <2>1
<1> HIDE DEF k
<1>4. k * n \in Nat
  BY <1>1, <1>3
<1>5. TotalBlocks(c) = k * n
  BY DEF TotalBlocks, CeilDiv, FullBatchBlocks, n, b, f, k
<1>6. NoBlocks \notin Nat
  BY DEF NoBlocks
<1> QED BY <1>4, <1>5, <1>6

Cached(p) ==
  IF IsDecoder(p.config)
    THEN /\ p.config.block_size = BlockSize
         /\ "VLLM_DT_CHUNK_LEN" \in DOMAIN p.environ
         /\ p.environ["VLLM_DT_CHUNK_LEN"] = p.config.max_num_batched_tokens
         /\ p.config.max_num_batched_tokens % BlockSize = 0
         /\ p.config.num_gpu_blocks # NoBlocks
    ELSE /\ p.config.block_size = p.config.max_model_len
         /\ p.config.max_num_batched_tokens = p.config.max_model_len * p.config.max_num_seqs

CacheFields == {"block_size", "num_gpu_blocks", "max_num_batched_tokens"}

\* A decoder's numbers are those that it was asked for with.
Numbered(p) ==
  IsDecoder(p.config) =>
    p.config.max_num_seqs \in Nat \ {0} /\ p.config.max_model_len \in Nat

LEMMA SetDecoderCacheIs ==
  ASSUME NEW p, Ready(p), IsDecoder(p.config), Numbered(p)
  PROVE  LET u == SetDecoderCache(p)
         IN /\ Frame(p, u, {"VLLM_DT_CHUNK_LEN"}) /\ u.shapes = p.shapes
            /\ Same(p.config, u.config, {"block_size", "num_gpu_blocks"})
            /\ p.config.num_gpu_blocks # NoBlocks =>
                 u.config.num_gpu_blocks = p.config.num_gpu_blocks
            /\ u.error = "none" => Cached(u)
            /\ Cached(p) => u = p
<1> DEFINE u == SetDecoderCache(p)
           W == {"VLLM_DT_CHUNK_LEN"}
           c == p.config
           k == Put(c, "block_size", BlockSize)
           o == PutConfig(p, k)
           v == c.max_num_batched_tokens
           q == SetEnv(o, "VLLM_DT_CHUNK_LEN", v)
           total == TotalBlocks(c)
           l == Put(k, "num_gpu_blocks", total)
           s == PutConfig(q, l)
           f == Fail(q, "chunk")
           g == Fail(q, "pool")
           odd == v % BlockSize # 0
           small == total < MinBlocks(p)
           own == c.num_gpu_blocks
<1>1. IsProcess(p) /\ IsRecord(c) /\ p.error = "none" /\ total # NoBlocks
  BY TotalBlocksIs DEF Ready, Numbered
<1>2. /\ Same(c, k, {"block_size"}) /\ IsRecord(k) /\ k["block_size"] = BlockSize
      /\ c["block_size"] = BlockSize => k = c
  <2>1. IsRecord(c) /\ "block_size" \in Fields
    BY <1>1 DEF Fields
  <2> HIDE DEF c
  <2> QED BY <2>1, FieldPut
<1>3. /\ Same(k, l, {"num_gpu_blocks"}) /\ IsRecord(l) /\ l["num_gpu_blocks"] = total
  <2>1. IsRecord(k) /\ "num_gpu_blocks" \in Fields
    BY <1>2 DEF Fields
  <2> HIDE DEF k, total
  <2> QED BY <2>1, FieldPut
<1>4. /\ IsProcess(o) /\ Frame(p, o, {}) /\ o.environ = p.environ /\ o.shapes = p.shapes
      /\ o.config = k /\ o.error = "none"
      /\ k = c => o = p
  <2> HIDE DEF k
  <2> QED BY <1>1, PutConfigIs, FramePut
<1>5. /\ IsProcess(q) /\ Frame(o, q, W) /\ q.shapes = o.shapes /\ q.config = o.config
      /\ q.error = o.error /\ "VLLM_DT_CHUNK_LEN" \in DOMAIN q.environ
      /\ q.environ["VLLM_DT_CHUNK_LEN"] = v
      /\ "VLLM_DT_CHUNK_LEN" \in DOMAIN o.environ /\ o.environ["VLLM_DT_CHUNK_LEN"] = v => q = o
  <2> HIDE DEF o, v
  <2> QED BY <1>4, SetEnvIs, FrameSet DEF Overwritten
<1>6. u = IF odd THEN f ELSE IF own # NoBlocks THEN q ELSE IF small THEN g ELSE s
  <2>1. o = [p EXCEPT !.config.block_size = BlockSize]
    BY <1>1 DEF PutConfig, Put, IsProcess
  <2>2. [q EXCEPT !.config.num_gpu_blocks = total] = s
    <3> HIDE DEF q, total
    <3>1. q.config = k
      BY <1>4, <1>5
    <3> QED BY <1>5, <3>1 DEF PutConfig, Put, IsProcess
  <2> HIDE DEF o, s, total, small
  <2> QED BY <2>1, <2>2 DEF SetDecoderCache, total, small
<1> HIDE DEF u, k, l, o, q, c, v
<1>7. Frame(p, q, W)
  <2>1. {} \cup W = W
    OBVIOUS
  <2> HIDE DEF W
  <2> QED BY <1>4, <1>5, <2>1, FrameTrans
<1>8. /\ Frame(q, f, W) /\ f.config = k /\ f.shapes = p.shapes /\ f.error # "none"
      /\ Frame(q, g, W) /\ g.config = k /\ g.shapes = p.shapes /\ g.error # "none"
  BY <1>4, <1>5, FailIs, FrameFail
<1>9. Frame(q, s, W) /\ s.config = l /\ s.shapes = p.shapes /\ s.environ = q.environ
  BY <1>4, <1>5, PutConfigIs, FramePut
<1> HIDE DEF f, g, s
<1>10. Frame(p, f, W) /\ Frame(p, g, W) /\ Frame(p, s, W)
  <2>1. W \cup W = W
    OBVIOUS
  <2> HIDE DEF W
  <2> QED BY <1>7, <1>8, <1>9, <2>1, FrameTrans
<1>11. /\ Same(c, k, {"block_size", "num_gpu_blocks"})
       /\ Same(c, l, {"block_size", "num_gpu_blocks"})
       /\ k["num_gpu_blocks"] = own
       /\ k["runner"] = c["runner"] /\ l["runner"] = c["runner"]
       /\ k["max_num_batched_tokens"] = v /\ l["max_num_batched_tokens"] = v
       /\ l["block_size"] = BlockSize /\ k["block_size"] = BlockSize
  BY <1>2, <1>3 DEF Same, Fields, v
<1>12. CASE odd
  <2>1. u = f /\ ~Cached(p)
    BY <1>6, <1>12 DEF Cached, v, c
  <2> QED BY <1>8, <1>10, <1>11, <2>1 DEF u, c
<1>13. CASE ~odd /\ own # NoBlocks
  <2>1. u = q
    BY <1>6, <1>13
  <2>2. Cached(q)
    <3>1. IsDecoder(q.config)
      BY <1>4, <1>5, <1>11 DEF IsDecoder, c
    <3> QED BY <1>4, <1>5, <1>11, <1>13, <3>1 DEF Cached
  <2>3. Cached(p) => q = p
    BY <1>2, <1>4, <1>5 DEF Cached, v, c
  <2> QED BY <1>4, <1>5, <1>7, <1>11, <2>1, <2>2, <2>3 DEF u, c
<1>14. CASE ~odd /\ own = NoBlocks /\ small
  <2>1. u = g /\ ~Cached(p)
    BY <1>6, <1>14 DEF Cached, c
  <2> QED BY <1>8, <1>10, <1>11, <1>14, <2>1 DEF u, c
<1>15. CASE ~odd /\ own = NoBlocks /\ ~small
  <2>1. u = s /\ ~Cached(p)
    BY <1>6, <1>15 DEF Cached, c
  <2>2. Cached(s)
    <3>1. IsDecoder(s.config)
      BY <1>9, <1>11 DEF IsDecoder, c
    <3> QED BY <1>1, <1>3, <1>5, <1>9, <1>11, <1>15, <3>1 DEF Cached
  <2> QED BY <1>9, <1>10, <1>11, <1>15, <2>1, <2>2 DEF u, c
<1> QED BY <1>12, <1>13, <1>14, <1>15

LEMMA SetCacheIs ==
  ASSUME NEW p, Ready(p), Numbered(p)
  PROVE  LET u == SetCache(p)
         IN /\ Frame(p, u, {"VLLM_DT_CHUNK_LEN"}) /\ u.shapes = p.shapes
            /\ Same(p.config, u.config, CacheFields)
            /\ p.config.num_gpu_blocks # NoBlocks =>
                 u.config.num_gpu_blocks = p.config.num_gpu_blocks
            /\ u.error = "none" => Cached(u)
            /\ Cached(p) => u = p
<1> DEFINE u == SetCache(p)
<1>1. IsProcess(p) /\ IsRecord(p.config) /\ p.error = "none"
  BY DEF Ready
<1>2. CASE IsDecoder(p.config)
  <2>1. u = SetDecoderCache(p)
    BY <1>2 DEF SetCache
  <2>2. LET x == SetDecoderCache(p)
        IN /\ Frame(p, x, {"VLLM_DT_CHUNK_LEN"}) /\ x.shapes = p.shapes
           /\ Same(p.config, x.config, {"block_size", "num_gpu_blocks"})
           /\ p.config.num_gpu_blocks # NoBlocks =>
                x.config.num_gpu_blocks = p.config.num_gpu_blocks
           /\ x.error = "none" => Cached(x)
           /\ Cached(p) => x = p
    BY <1>2, SetDecoderCacheIs
  <2> HIDE DEF u
  <2>3. Same(p.config, u.config, CacheFields)
    BY <2>1, <2>2 DEF Same, CacheFields
  <2> QED BY <2>1, <2>2, <2>3 DEF u
<1>3. CASE ~IsDecoder(p.config)
  <2> DEFINE c == p.config
             a == c.max_model_len
             b == c.max_model_len * c.max_num_seqs
             k == Put(c, "block_size", a)
             l == Put(k, "max_num_batched_tokens", b)
             s == PutConfig(p, l)
  <2>1. u = s
    <3>1. [p EXCEPT !.config.block_size = a, !.config.max_num_batched_tokens = b] = s
      <4> HIDE DEF a, b
      <4> QED BY <1>1 DEF PutConfig, Put, IsProcess
    <3> HIDE DEF s
    <3> QED BY <1>3, <3>1 DEF SetCache, SetPoolingCache
  <2>2. /\ Same(c, k, {"block_size"}) /\ IsRecord(k) /\ k["block_size"] = a
        /\ c["block_size"] = a => k = c
    <3>1. IsRecord(c) /\ "block_size" \in Fields
      BY <1>1 DEF Fields
    <3> HIDE DEF c, a
    <3> QED BY <3>1, FieldPut
  <2> HIDE DEF k
  <2>3. /\ Same(k, l, {"max_num_batched_tokens"}) /\ l["max_num_batched_tokens"] = b
        /\ k["max_num_batched_tokens"] = b => l = k
    <3>1. IsRecord(k) /\ "max_num_batched_tokens" \in Fields
      BY <2>2 DEF Fields
    <3> HIDE DEF b
    <3> QED BY <3>1, FieldPut
  <2> HIDE DEF l
  <2>4. /\ Frame(p, s, {"VLLM_DT_CHUNK_LEN"}) /\ s.shapes = p.shapes /\ s.config = l
        /\ l = c => s = p
    BY <1>1, PutConfigIs, FramePut
  <2> HIDE DEF u, s, c, a, b
  <2>5. /\ Same(c, l, CacheFields) /\ l["num_gpu_blocks"] = c["num_gpu_blocks"]
        /\ l["runner"] = c["runner"] /\ l["block_size"] = a
        /\ l["max_model_len"] = c["max_model_len"] /\ l["max_num_seqs"] = c["max_num_seqs"]
    BY <2>2, <2>3 DEF Same, Fields, CacheFields
  <2>6. Cached(s)
    <3>1. ~IsDecoder(l)
      BY <1>3, <2>5 DEF IsDecoder, c
    <3> QED BY <2>3, <2>4, <2>5, <3>1 DEF Cached, a, b
  <2>7. Cached(p) => s = p
    <3> HAVE Cached(p)
    <3>1. c["block_size"] = a /\ c["max_num_batched_tokens"] = b
      BY <1>3 DEF Cached, a, b, c
    <3> QED BY <2>2, <2>3, <2>4, <3>1
  <2> QED BY <2>1, <2>4, <2>5, <2>6, <2>7 DEF u, c
<1> QED BY <1>2, <1>3

Compiled(p) ==
  /\ "VLLM_DT_MAX_CONTEXT_LEN" \in DOMAIN p.environ
  /\ p.environ["VLLM_DT_MAX_CONTEXT_LEN"] = p.config.max_model_len
  /\ "VLLM_DT_MAX_BATCH_SIZE" \in DOMAIN p.environ
  /\ p.environ["VLLM_DT_MAX_BATCH_SIZE"] = Larger(p.config.max_num_seqs, 2)
  /\ TkvLimit \in DOMAIN p.environ

CompilerVars == {"VLLM_DT_MAX_CONTEXT_LEN", "VLLM_DT_MAX_BATCH_SIZE"}

LEMMA SetCompilerVarsIs ==
  ASSUME NEW p, Ready(p)
  PROVE  LET u == SetCompilerVars(p)
         IN /\ Frame(p, u, CompilerVars) /\ u.shapes = p.shapes /\ u.config = p.config
            /\ u.error = "none"
            /\ Compiled(u)
            /\ Compiled(p) => u = p
<1> DEFINE u == SetCompilerVars(p)
           x == "VLLM_DT_MAX_CONTEXT_LEN"
           y == "VLLM_DT_MAX_BATCH_SIZE"
           a == p.config.max_model_len
           b == Larger(p.config.max_num_seqs, 2)
           q == SetEnv(p, x, a)
           r == SetEnv(q, y, b)
           e == p.config.max_model_len * p.config.max_num_seqs
           s == SetEnv(r, TkvLimit, e)
           W == CompilerVars
<1>1. IsProcess(p) /\ p.error = "none"
  BY DEF Ready
<1>2. /\ IsProcess(q) /\ q.shapes = p.shapes /\ q.config = p.config /\ q.error = "none"
      /\ x \in DOMAIN q.environ /\ q.environ[x] = a
      /\ x \in DOMAIN p.environ /\ p.environ[x] = a => q = p
  <2> HIDE DEF a
  <2> QED BY <1>1, SetEnvIs
<1>3. Frame(p, q, W)
  <2> HIDE DEF a
  <2> QED BY <1>1, FrameSet DEF Overwritten, CompilerVars
<1> HIDE DEF q
<1>4. /\ IsProcess(r) /\ r.shapes = p.shapes /\ r.config = p.config /\ r.error = "none"
      /\ y \in DOMAIN r.environ /\ r.environ[y] = b
      /\ x \in DOMAIN r.environ /\ r.environ[x] = a
      /\ y \in DOMAIN q.environ /\ q.environ[y] = b => r = q
  <2> HIDE DEF a, b
  <2> QED BY <1>2, SetEnvIs
<1>5. Frame(q, r, W)
  <2> HIDE DEF b
  <2> QED BY <1>2, FrameSet DEF Overwritten, CompilerVars
<1> HIDE DEF r
<1>6. Frame(p, r, W)
  <2>1. W \cup W = W
    OBVIOUS
  <2> HIDE DEF W
  <2> QED BY <1>3, <1>5, <2>1, FrameTrans
<1>7. u = IF TkvLimit \in DOMAIN r.environ THEN r ELSE s
  BY <1>4 DEF SetCompilerVars, SetTkvLimit, q, r
<1> HIDE DEF u
<1>8. CASE TkvLimit \in DOMAIN r.environ
  <2>1. u = r
    BY <1>7, <1>8
  <2>2. Compiled(r)
    BY <1>4, <1>8 DEF Compiled
  <2>3. Compiled(p) => r = p
    BY <1>2, <1>4 DEF Compiled
  <2> QED BY <1>4, <1>6, <2>1, <2>2, <2>3 DEF u
<1>9. CASE TkvLimit \notin DOMAIN r.environ
  <2>1. u = s
    BY <1>7, <1>9
  <2>2. /\ Frame(r, s, W) /\ s.shapes = r.shapes /\ s.config = r.config /\ s.error = "none"
        /\ TkvLimit \in DOMAIN s.environ
        /\ \A n \in DOMAIN r.environ : n # TkvLimit =>
             n \in DOMAIN s.environ /\ s.environ[n] = r.environ[n]
    <3> HIDE DEF e, W
    <3>1. TkvLimit \in Lasting
      BY DEF Lasting
    <3> QED BY <1>4, <1>9, <3>1, SetEnvIs, FrameSet
  <2>3. x # TkvLimit /\ y # TkvLimit
    BY DEF TkvLimit
  <2> HIDE DEF s
  <2>4. Compiled(s)
    <3>1. /\ x \in DOMAIN s.environ /\ s.environ[x] = a
          /\ y \in DOMAIN s.environ /\ s.environ[y] = b
      BY <1>4, <2>2, <2>3
    <3> QED BY <1>4, <2>2, <3>1 DEF Compiled
  <2>5. ~Compiled(p)
    BY <1>2, <1>4, <1>9 DEF Compiled
  <2>6. Frame(p, s, W)
    <3>1. W \cup W = W
      OBVIOUS
    <3> HIDE DEF W
    <3> QED BY <1>6, <2>2, <3>1, FrameTrans
  <2> QED BY <1>4, <2>1, <2>2, <2>4, <2>5, <2>6 DEF u
<1> QED BY <1>8, <1>9

Disabled(p) ==
  /\ "VLLM_SPYRE_REQUIRE_PRECOMPILED_DECODERS" \in DOMAIN p.cache
  /\ Setting(p, "VLLM_SPYRE_REQUIRE_PRECOMPILED_DECODERS") /\ IsDecoder(p.config) =>
       /\ PrecompiledCache
       /\ "DISABLE_COMPILATION" \in DOMAIN p.environ
       /\ p.environ["DISABLE_COMPILATION"] = TRUE

LEMMA DisableCompilationIs ==
  ASSUME NEW p, Ready(p)
  PROVE  LET u == DisableCompilation(p)
         IN /\ Frame(p, u, {"DISABLE_COMPILATION"})
            /\ u.shapes = p.shapes /\ u.config = p.config
            /\ u.error = "none" => Disabled(u)
            /\ Disabled(p) => u = p
<1> DEFINE u == DisableCompilation(p)
           W == {"DISABLE_COMPILATION"}
           x == "VLLM_SPYRE_REQUIRE_PRECOMPILED_DECODERS"
           q == Read(p, {x})
           yes == TRUE
           d == SetEnv(q, "DISABLE_COMPILATION", yes)
           f == Fail(d, "precompiled")
           on == Setting(p, x)
<1>1. IsProcess(p) /\ p.error = "none"
  BY DEF Ready
<1>2. /\ IsProcess(q) /\ q.environ = p.environ /\ x \in DOMAIN q.cache
      /\ q.shapes = p.shapes /\ q.config = p.config /\ q.error = "none"
      /\ \A n : Setting(q, n) = Setting(p, n)
      /\ x \in DOMAIN p.cache => q = p
  BY <1>1, ReadIs
<1>3. Frame(p, q, W)
  BY <1>1, FrameRead
<1> HIDE DEF q
<1>4. /\ IsProcess(d) /\ Frame(q, d, W) /\ d.cache = q.cache /\ d.shapes = p.shapes
      /\ d.config = p.config /\ d.error = "none"
      /\ "DISABLE_COMPILATION" \in DOMAIN d.environ
      /\ d.environ["DISABLE_COMPILATION"] = yes
      /\ "DISABLE_COMPILATION" \in DOMAIN q.environ
           /\ q.environ["DISABLE_COMPILATION"] = yes => d = q
  <2> HIDE DEF yes
  <2> QED BY <1>2, SetEnvIs, FrameSet DEF Overwritten
<1> HIDE DEF d
<1>5. Frame(d, f, W) /\ f.config = p.config /\ f.shapes = p.shapes /\ f.error # "none"
  BY <1>4, FailIs, FrameFail
<1> HIDE DEF f
<1>6. Frame(p, d, W) /\ Frame(p, f, W)
  <2>1. W \cup W = W
    OBVIOUS
  <2> HIDE DEF W
  <2> QED BY <1>3, <1>4, <1>5, <2>1, FrameTrans
<1>7. u = IF ~on THEN q ELSE IF ~IsDecoder(p.config) THEN q
          ELSE IF PrecompiledCache THEN d ELSE f
  BY DEF DisableCompilation, q, d, f
<1> HIDE DEF u
<1>8. CASE ~on \/ ~IsDecoder(p.config)
  <2>1. u = q
    BY <1>7, <1>8
  <2>2. Disabled(q)
    BY <1>2, <1>8 DEF Disabled
  <2>3. Disabled(p) => q = p
    BY <1>2 DEF Disabled
  <2> QED BY <1>2, <1>3, <2>1, <2>2, <2>3 DEF u
<1>9. CASE on /\ IsDecoder(p.config) /\ PrecompiledCache
  <2>1. u = d
    BY <1>7, <1>9
  <2>2. Disabled(d)
    BY <1>2, <1>4, <1>9 DEF Disabled
  <2>3. Disabled(p) => d = p
    BY <1>2, <1>4, <1>9 DEF Disabled
  <2> QED BY <1>4, <1>6, <2>1, <2>2, <2>3 DEF u
<1>10. CASE on /\ IsDecoder(p.config) /\ ~PrecompiledCache
  <2>1. u = f /\ ~Disabled(p)
    BY <1>7, <1>10 DEF Disabled
  <2> QED BY <1>5, <1>6, <2>1 DEF u
<1> QED BY <1>8, <1>9, <1>10
-----------------------------------------------------------------------------
(***************************************************************************)
(* The whole check: the process before the first stage and after each one. *)
(***************************************************************************)
Given(p, c)       == [p EXCEPT !.config = c, !.error = "none"]
Started(p, c)     == CheckRunner(Given(p, c))
WithThreads(p, c) == Then(Started(p, c), CheckThreading)
WithMode(p, c)    == Then(WithThreads(p, c), SetCompilationMode)
WithRunner(p, c)  == Then(WithMode(p, c), CheckRunnerConfig)
WithDevice(p, c)  == Then(WithRunner(p, c), ApplyRegistry)
WithCache(p, c)   == Then(WithDevice(p, c), SetCache)
WithVars(p, c)    == Then(WithCache(p, c), SetCompilerVars)

LEMMA InStages ==
  ASSUME NEW p, NEW c
  PROVE  CheckAndUpdateConfig(p, c) = Then(WithVars(p, c), DisableCompilation)
BY DEF CheckAndUpdateConfig, Given, Started, WithThreads, WithMode, WithRunner,
       WithDevice, WithCache, WithVars

LEMMA GivenIs ==
  ASSUME NEW p, IsProcess(p), NEW c
  PROVE  /\ IsProcess(Given(p, c)) /\ Given(p, c).environ = p.environ
         /\ Given(p, c).cache = p.cache /\ Given(p, c).shapes = p.shapes
         /\ Given(p, c).config = c /\ Given(p, c).error = "none"
         /\ c = p.config /\ p.error = "none" => Given(p, c) = p
<1> DEFINE q == PutConfig(p, c)
<1>1. /\ IsProcess(q) /\ q.environ = p.environ /\ q.cache = p.cache
      /\ q.shapes = p.shapes /\ q.config = c /\ q.error = p.error
      /\ c = p.config => q = p
  BY PutConfigIs
<1>2. Given(p, c) = Fail(q, "none")
  BY DEF Given, PutConfig, Fail
<1> HIDE DEF q
<1>3. Fail(q, "none") = [environ |-> q.environ, cache |-> q.cache, shapes |-> q.shapes,
                        config |-> q.config, error |-> "none"]
  BY <1>1 DEF Fail, IsProcess
<1>4. p.error = "none" /\ c = p.config => Fail(q, "none") = p
  BY <1>1, <1>3 DEF IsProcess
<1> QED BY <1>1, <1>2, <1>4, FailIs

\* What every stage keeps.
ChangedFields == {"max_model_len", "max_num_seqs"} \cup CacheFields

Along(p, c, q) ==
  /\ Frame(p, q, Overwritten)
  /\ Same(c, q.config, ChangedFields)
  /\ Numbered(q)

LEMMA AlongSame ==
  ASSUME NEW p, NEW c, NEW q, NEW r, NEW W, NEW F, Along(p, c, q), Frame(q, r, W),
         W \subseteq Overwritten, Same(q.config, r.config, F), F \subseteq ChangedFields,
         F \subseteq CacheFields \/ ~IsDecoder(q.config)
  PROVE  Along(p, c, r)
<1>1. Frame(p, r, Overwritten)
  <2>1. Overwritten \cup W = Overwritten
    OBVIOUS
  <2> QED BY <2>1, FrameTrans DEF Along
<1>2. r.config["runner"] = q.config["runner"]
  BY DEF Same, Fields, ChangedFields, CacheFields
<1>4. Same(c, r.config, ChangedFields)
  <2>1. ChangedFields \cup F = ChangedFields
    OBVIOUS
  <2> QED BY <2>1, SameTrans DEF Along
<1>3. Numbered(r)
  <2>1. CASE IsDecoder(q.config)
    <3>1. /\ r.config["max_model_len"] = q.config["max_model_len"]
          /\ r.config["max_num_seqs"] = q.config["max_num_seqs"]
      BY <2>1 DEF Same, Fields, CacheFields
    <3> QED BY <2>1, <3>1 DEF Along, Numbered
  <2>2. CASE ~IsDecoder(q.config)
    BY <1>2, <2>2 DEF Numbered, IsDecoder
  <2> QED BY <2>1, <2>2
<1> QED BY <1>1, <1>3, <1>4 DEF Along

LEMMA AlongEqual ==
  ASSUME NEW p, NEW c, NEW q, NEW r, NEW W, Along(p, c, q), Frame(q, r, W),
         W \subseteq Overwritten, r.config = q.config
  PROVE  Along(p, c, r)
<1>1. Same(q.config, r.config, {})
  BY DEF Same, Along
<1> QED BY <1>1, AlongSame

LEMMA ConfigFields ==
  ASSUME NEW c, IsConfig(c)
  PROVE  /\ IsRecord(c)
         /\ c.max_num_seqs \in Nat \ {0} /\ c.max_model_len \in Nat
BY DEF IsConfig, IsRecord, IsMapping, Fields

LEMMA StagesAlong ==
  ASSUME NEW p, IsProcess(p), NEW c, IsConfig(c)
  PROVE  /\ Along(p, c, Started(p, c)) /\ Along(p, c, WithThreads(p, c))
         /\ Along(p, c, WithMode(p, c)) /\ Along(p, c, WithRunner(p, c))
         /\ Along(p, c, WithDevice(p, c)) /\ Along(p, c, WithCache(p, c))
         /\ Along(p, c, WithVars(p, c)) /\ Along(p, c, CheckAndUpdateConfig(p, c))
<1> DEFINE p0 == Given(p, c)
           p1 == Started(p, c)
           p2 == WithThreads(p, c)
           p3 == WithMode(p, c)
           p4 == WithRunner(p, c)
           p5 == WithDevice(p, c)
           p6 == WithCache(p, c)
           p7 == WithVars(p, c)
           p8 == CheckAndUpdateConfig(p, c)
<1>0. Along(p, c, p0) /\ p0.error = "none"
  <2>1. /\ IsProcess(p0) /\ p0.environ = p.environ /\ p0.cache = p.cache
        /\ p0.config = c /\ p0.error = "none"
    BY GivenIs
  <2> HIDE DEF p0
  <2>2. Frame(p, p0, Overwritten)
    BY <2>1, FrameSame
  <2>3. Same(c, p0.config, ChangedFields) /\ Numbered(p0)
    BY <2>1, ConfigFields DEF Numbered, Same
  <2> QED BY <2>1, <2>2, <2>3 DEF Along
<1>r. ASSUME NEW q, Along(p, c, q), q.error = "none"
      PROVE  Ready(q) /\ Numbered(q)
  BY <1>r DEF Along, Ready, Frame, Same
<1>w. /\ {} \subseteq Overwritten /\ {"OMP_NUM_THREADS"} \subseteq Overwritten
      /\ {"COMPILATION_MODE"} \subseteq Overwritten
      /\ {"VLLM_DT_CHUNK_LEN"} \subseteq Overwritten /\ CompilerVars \subseteq Overwritten
      /\ {"DISABLE_COMPILATION"} \subseteq Overwritten
  BY DEF Overwritten, CompilerVars
<1>1. Along(p, c, p1)
  <2>1. p1 = CheckRunner(p0)
    BY DEF Started
  <2> HIDE DEF p0, p1
  <2>2. Frame(p0, p1, {}) /\ p1.config = p0.config
    BY <1>0, <1>r, <2>1, CheckRunnerIs
  <2> QED BY <1>0, <1>w, <2>2, AlongEqual
<1>2. Along(p, c, p2)
  <2>1. p2 = IF p1.error = "none" THEN CheckThreading(p1) ELSE p1
    BY DEF WithThreads, Then
  <2> HIDE DEF p1, p2
  <2>2. CASE p1.error = "none"
    <3>1. Frame(p1, p2, {"OMP_NUM_THREADS"}) /\ p2.config = p1.config
      BY <1>1, <1>r, <2>1, <2>2, CheckThreadingIs
    <3> QED BY <1>1, <1>w, <3>1, AlongEqual
  <2> QED BY <1>1, <2>1, <2>2
<1>3. Along(p, c, p3)
  <2>1. p3 = IF p2.error = "none" THEN SetCompilationMode(p2) ELSE p2
    BY DEF WithMode, Then
  <2> HIDE DEF p2, p3
  <2>2. CASE p2.error = "none"
    <3>1. Frame(p2, p3, {"COMPILATION_MODE"}) /\ p3.config = p2.config
      BY <1>2, <1>r, <2>1, <2>2, SetCompilationModeIs
    <3> QED BY <1>2, <1>w, <3>1, AlongEqual
  <2> QED BY <1>2, <2>1, <2>2
<1>4. Along(p, c, p4)
  <2>1. p4 = IF p3.error = "none" THEN CheckRunnerConfig(p3) ELSE p3
    BY DEF WithRunner, Then
  <2> HIDE DEF p3, p4
  <2>2. CASE p3.error = "none"
    <3>1. /\ Frame(p3, p4, {})
          /\ Same(p3.config, p4.config, {"max_model_len", "max_num_seqs"})
          /\ IsDecoder(p3.config) => p4.config = p3.config
      BY <1>3, <1>r, <2>1, <2>2, CheckRunnerConfigIs
    <3>2. CASE IsDecoder(p3.config)
      BY <1>3, <1>w, <3>1, <3>2, AlongEqual
    <3>3. CASE ~IsDecoder(p3.config)
      <4>1. {"max_model_len", "max_num_seqs"} \subseteq ChangedFields
        BY DEF ChangedFields
      <4> QED BY <1>3, <1>w, <3>1, <3>3, <4>1, AlongSame
    <3> QED BY <3>2, <3>3
  <2> QED BY <1>3, <2>1, <2>2
<1>5. Along(p, c, p5)
  <2>1. p5 = IF p4.error = "none" THEN ApplyRegistry(p4) ELSE p4
    BY DEF WithDevice, Then
  <2> HIDE DEF p4, p5
  <2>2. CASE p4.error = "none"
    <3>1. Frame(p4, p5, {}) /\ Same(p4.config, p5.config, {"num_gpu_blocks"})
      BY <1>4, <1>r, <2>1, <2>2, ApplyRegistryIs
    <3>2. {"num_gpu_blocks"} \subseteq CacheFields /\ CacheFields \subseteq ChangedFields
      BY DEF CacheFields, ChangedFields
    <3> QED BY <1>4, <1>w, <3>1, <3>2, AlongSame
  <2> QED BY <1>4, <2>1, <2>2
<1>6. Along(p, c, p6)
  <2>1. p6 = IF p5.error = "none" THEN SetCache(p5) ELSE p5
    BY DEF WithCache, Then
  <2> HIDE DEF p5, p6
  <2>2. CASE p5.error = "none"
    <3>1. Frame(p5, p6, {"VLLM_DT_CHUNK_LEN"}) /\ Same(p5.config, p6.config, CacheFields)
      BY <1>5, <1>r, <2>1, <2>2, SetCacheIs
    <3>2. CacheFields \subseteq ChangedFields
      BY DEF ChangedFields
    <3> QED BY <1>5, <1>w, <3>1, <3>2, AlongSame
  <2> QED BY <1>5, <2>1, <2>2
<1>7. Along(p, c, p7)
  <2>1. p7 = IF p6.error = "none" THEN SetCompilerVars(p6) ELSE p6
    BY DEF WithVars, Then
  <2> HIDE DEF p6, p7
  <2>2. CASE p6.error = "none"
    <3>1. Frame(p6, p7, CompilerVars) /\ p7.config = p6.config
      BY <1>6, <1>r, <2>1, <2>2, SetCompilerVarsIs
    <3> QED BY <1>6, <1>w, <3>1, AlongEqual
  <2> QED BY <1>6, <2>1, <2>2
<1>8. Along(p, c, p8)
  <2>1. p8 = IF p7.error = "none" THEN DisableCompilation(p7) ELSE p7
    BY InStages DEF Then
  <2> HIDE DEF p7, p8
  <2>2. CASE p7.error = "none"
    <3>1. Frame(p7, p8, {"DISABLE_COMPILATION"}) /\ p8.config = p7.config
      BY <1>7, <1>r, <2>1, <2>2, DisableCompilationIs
    <3> QED BY <1>7, <1>w, <3>1, AlongEqual
  <2> QED BY <1>7, <2>1, <2>2
<1> HIDE DEF p1, p2, p3, p4, p5, p6, p7, p8
<1> QED BY <1>1, <1>2, <1>3, <1>4, <1>5, <1>6, <1>7, <1>8 DEF p1, p2, p3, p4, p5, p6, p7, p8

\* An accepted configuration, and the process it leaves.
Checked(p) ==
  /\ RunnerChecked(p) /\ Threaded(p) /\ Moded(p) /\ RunnerConfigured(p)
  /\ Registered(p) /\ Cached(p) /\ Compiled(p) /\ Disabled(p)

\* The check finds what it left.
LEMMA CheckedRests ==
  ASSUME NEW p, Ready(p), Numbered(p), Checked(p)
  PROVE  CheckAndUpdateConfig(p, p.config) = p
<1> DEFINE c == p.config
<1>1. IsProcess(p) /\ p.error = "none"
  BY DEF Ready
<1>2. Given(p, c) = p
  BY <1>1, GivenIs
<1> HIDE DEF c
<1>3. Started(p, c) = p
  BY <1>2, CheckRunnerIs DEF Started, Checked
<1>4. WithThreads(p, c) = p
  BY <1>1, <1>3, CheckThreadingIs DEF WithThreads, Checked, Then
<1>5. WithMode(p, c) = p
  BY <1>1, <1>4, SetCompilationModeIs DEF WithMode, Checked, Then
<1>6. WithRunner(p, c) = p
  BY <1>1, <1>5, CheckRunnerConfigIs DEF WithRunner, Checked, Then
<1>7. WithDevice(p, c) = p
  BY <1>1, <1>6, ApplyRegistryIs DEF WithDevice, Checked, Then
<1>8. WithCache(p, c) = p
  BY <1>1, <1>7, SetCacheIs DEF WithCache, Checked, Then
<1>9. WithVars(p, c) = p
  BY <1>1, <1>8, SetCompilerVarsIs DEF WithVars, Checked, Then
<1>10. CheckAndUpdateConfig(p, c) = p
  BY <1>1, <1>9, InStages, DisableCompilationIs DEF Checked, Then
<1> QED BY <1>10 DEF c
-----------------------------------------------------------------------------
(***************************************************************************)
(* What a stage leaves is kept by the stages after it.                     *)
(***************************************************************************)
LEMMA RunnerCheckedKept ==
  ASSUME NEW p, NEW q, NEW W, Frame(p, q, W), W \subseteq Overwritten,
         q.config.runner = p.config.runner, RunnerChecked(p)
  PROVE  RunnerChecked(q)
<1> DEFINE x == "VLLM_USE_V1"
<1>1. x \notin W \cup Lasting
  BY NamesApart
<1>2. ASSUME x \in DOMAIN q.environ PROVE x \in DOMAIN p.environ /\ q.environ[x] = p.environ[x]
  <2> HIDE DEF x
  <2> QED BY <1>1, <1>2 DEF Frame
<1> QED BY <1>2 DEF RunnerChecked

LEMMA ThreadedKept ==
  ASSUME NEW p, NEW q, NEW W, Frame(p, q, W), "OMP_NUM_THREADS" \notin W,
         q.config.world_size = p.config.world_size, Threaded(p)
  PROVE  Threaded(q)
<1> DEFINE x == "OMP_NUM_THREADS"
<1>1. ThreadSettings \subseteq Settings
  BY DEF ThreadSettings, Settings, Defaults
<1>2. ThreadSettings \subseteq DOMAIN q.cache
      /\ \A n \in ThreadSettings : Setting(q, n) = Setting(p, n)
  BY <1>1 DEF Frame, Threaded
<1>3. Cpus(q) = Cpus(p)
      /\ Setting(q, "VLLM_SPYRE_UPDATE_THREAD_CONFIG")
           = Setting(p, "VLLM_SPYRE_UPDATE_THREAD_CONFIG")
  BY <1>2 DEF ThreadSettings, Cpus
<1>4. x \in DOMAIN p.environ => x \in DOMAIN q.environ /\ q.environ[x] = p.environ[x]
  <2> HIDE DEF x
  <2> QED BY DEF Frame, x
<1> QED BY <1>2, <1>3, <1>4 DEF Threaded

LEMMA ModedKept ==
  ASSUME NEW p, NEW q, NEW W, Frame(p, q, W), "COMPILATION_MODE" \notin W,
         q.config.runner = p.config.runner, Moded(p)
  PROVE  Moded(q)
<1> DEFINE x == "COMPILATION_MODE"
<1>1. x \in DOMAIN p.environ => x \in DOMAIN q.environ /\ q.environ[x] = p.environ[x]
  <2> HIDE DEF x
  <2> QED BY DEF Frame, x
<1> QED BY <1>1 DEF Moded, Frame, IsDecoder

LEMMA RunnerConfiguredKept ==
  ASSUME NEW p, NEW q, NEW W, Frame(p, q, W), q.shapes = p.shapes,
         Same(p.config, q.config, CacheFields), RunnerConfigured(p)
  PROVE  RunnerConfigured(q)
<1>1. /\ q.config["runner"] = p.config["runner"]
      /\ q.config["quantized"] = p.config["quantized"]
      /\ q.config["max_num_seqs"] = p.config["max_num_seqs"]
      /\ q.config["max_model_len"] = p.config["max_model_len"]
      /\ q.config["max_position_embeddings"] = p.config["max_position_embeddings"]
  BY DEF Same, Fields, CacheFields
<1>2. ShapeSettings \subseteq Settings
  BY DEF ShapeSettings, Settings, Defaults
<1>3. DOMAIN p.cache \subseteq DOMAIN q.cache
      /\ \A n \in ShapeSettings : Setting(q, n) = Setting(p, n)
  BY <1>2 DEF Frame
<1>4. Listed(p) => Listed(q)
  <2> DEFINE x == "VLLM_SPYRE_WARMUP_PROMPT_LENS"
             y == "VLLM_SPYRE_WARMUP_BATCH_SIZES"
  <2>1. Setting(q, x) = Setting(p, x) /\ Setting(q, y) = Setting(p, y)
    BY <1>3 DEF ShapeSettings
  <2> QED BY <1>3, <2>1 DEF Listed
<1>5. Fitted(p) => Fitted(q)
  BY <1>1 DEF Fitted, LongestShape, LargestShape
<1> QED BY <1>1, <1>4, <1>5 DEF RunnerConfigured, IsDecoder

LEMMA RegisteredKept ==
  ASSUME NEW p, NEW q, NEW W, Frame(p, q, W), W \subseteq Overwritten, q.shapes = p.shapes,
         Same(p.config, q.config, CacheFields),
         p.config.num_gpu_blocks # NoBlocks => q.config.num_gpu_blocks = p.config.num_gpu_blocks,
         Registered(p)
  PROVE  Registered(q)
<1> DEFINE x == "VLLM_SPYRE_DYNAMO_BACKEND"
           devices == DevicesForRuntime(p.config, p.shapes)
<1>1. DevicesForRuntime(q.config, q.shapes) = devices
  <2>1. /\ q.config["hf"] = p.config["hf"]
        /\ q.config["world_size"] = p.config["world_size"]
        /\ q.config["max_num_seqs"] = p.config["max_num_seqs"]
        /\ q.config["max_model_len"] = p.config["max_model_len"]
    BY DEF Same, Fields, CacheFields
  <2> QED BY <2>1, DevicesSame
<1>2. x \in DOMAIN p.cache => x \in DOMAIN q.cache
  BY DEF Frame
<1>3. Setting(q, x) = Setting(p, x)
  <2>1. x \in Settings
    BY DEF Settings, Defaults
  <2> HIDE DEF x
  <2> QED BY <2>1 DEF Frame
<1>4. Relaxed(p) => Relaxed(q)
  <2>1. "VLLM_USE_V1" \notin W
    BY NamesApart
  <2> QED BY <2>1, HeldKept
<1>5. ASSUME NEW d \in devices, d \in Devices, Configured(p, d)
      PROVE  Configured(q, d)
  BY <1>5, ConfiguredKept
<1> HIDE DEF devices, x
<1> QED BY <1>1, <1>2, <1>3, <1>4, <1>5 DEF Registered, x, devices

LEMMA CachedKept ==
  ASSUME NEW p, NEW q, NEW W, Frame(p, q, W), "VLLM_DT_CHUNK_LEN" \notin W,
         q.config = p.config, Cached(p)
  PROVE  Cached(q)
<1> DEFINE x == "VLLM_DT_CHUNK_LEN"
<1>1. x \in DOMAIN p.environ => x \in DOMAIN q.environ /\ q.environ[x] = p.environ[x]
  <2> HIDE DEF x
  <2> QED BY DEF Frame, x
<1> QED BY <1>1 DEF Cached

LEMMA CompiledKept ==
  ASSUME NEW p, NEW q, NEW W, Frame(p, q, W), CompilerVars \cap W = {}, TkvLimit \notin W,
         q.config = p.config, Compiled(p)
  PROVE  Compiled(q)
<1>1. ASSUME NEW x, x \notin W, x \in DOMAIN p.environ
      PROVE  x \in DOMAIN q.environ /\ q.environ[x] = p.environ[x]
  BY <1>1 DEF Frame
<1> QED BY <1>1 DEF Compiled, CompilerVars

\* A configuration that is accepted passed every stage.
LEMMA CheckedAfter ==
  ASSUME NEW p, IsProcess(p), NEW c, IsConfig(c),
         CheckAndUpdateConfig(p, c).error = "none"
  PROVE  Checked(CheckAndUpdateConfig(p, c))
<1> DEFINE p1 == Started(p, c)
           p2 == WithThreads(p, c)
           p3 == WithMode(p, c)
           p4 == WithRunner(p, c)
           p5 == WithDevice(p, c)
           p6 == WithCache(p, c)
           p7 == WithVars(p, c)
           p8 == CheckAndUpdateConfig(p, c)
           chunk == {"VLLM_DT_CHUNK_LEN"}
           mode == {"COMPILATION_MODE"}
           omp == {"OMP_NUM_THREADS"}
           off == {"DISABLE_COMPILATION"}
           w5 == chunk \cup CompilerVars \cup off
<1>0. Along(p, c, Given(p, c)) /\ Given(p, c).error = "none"
  <2>1. /\ IsProcess(Given(p, c)) /\ Given(p, c).environ = p.environ
        /\ Given(p, c).cache = p.cache /\ Given(p, c).config = c
        /\ Given(p, c).error = "none"
    BY GivenIs
  <2>2. Frame(p, Given(p, c), Overwritten)
    BY <2>1, FrameSame
  <2> QED BY <2>1, <2>2, ConfigFields DEF Along, Numbered, Same
<1>1. /\ Along(p, c, p1) /\ Along(p, c, p2) /\ Along(p, c, p3) /\ Along(p, c, p4)
      /\ Along(p, c, p5) /\ Along(p, c, p6) /\ Along(p, c, p7) /\ Along(p, c, p8)
  BY StagesAlong
<1>2. p8.error = "none"
  OBVIOUS
<1>3. /\ p1 = CheckRunner(Given(p, c))
      /\ p2 = IF p1.error = "none" THEN CheckThreading(p1) ELSE p1
      /\ p3 = IF p2.error = "none" THEN SetCompilationMode(p2) ELSE p2
      /\ p4 = IF p3.error = "none" THEN CheckRunnerConfig(p3) ELSE p3
      /\ p5 = IF p4.error = "none" THEN ApplyRegistry(p4) ELSE p4
      /\ p6 = IF p5.error = "none" THEN SetCache(p5) ELSE p5
      /\ p7 = IF p6.error = "none" THEN SetCompilerVars(p6) ELSE p6
      /\ p8 = IF p7.error = "none" THEN DisableCompilation(p7) ELSE p7
  BY InStages DEF Started, WithThreads, WithMode, WithRunner, WithDevice, WithCache,
       WithVars, Then
<1>r. ASSUME NEW q, Along(p, c, q), q.error = "none"
      PROVE  Ready(q) /\ Numbered(q) /\ IsRecord(q.config) /\ IsProcess(q)
  BY <1>r DEF Along, Ready, Frame, Same
<1> HIDE DEF p1, p2, p3, p4, p5, p6, p7, p8
<1>4. /\ p7.error = "none" /\ p6.error = "none" /\ p5.error = "none" /\ p4.error = "none"
      /\ p3.error = "none" /\ p2.error = "none" /\ p1.error = "none"
  BY <1>2, <1>3
<1>5. /\ Ready(Given(p, c)) /\ Ready(p1) /\ Ready(p2) /\ Ready(p3) /\ Ready(p4)
      /\ Ready(p5) /\ Numbered(p5) /\ Ready(p6) /\ Ready(p7)
  BY <1>0, <1>1, <1>4, <1>r
<1>6. /\ p2 = CheckThreading(p1) /\ p3 = SetCompilationMode(p2) /\ p4 = CheckRunnerConfig(p3)
      /\ p5 = ApplyRegistry(p4) /\ p6 = SetCache(p5) /\ p7 = SetCompilerVars(p6)
      /\ p8 = DisableCompilation(p7)
  BY <1>3, <1>4
<1>11. RunnerChecked(p1)
  BY <1>3, <1>4, <1>5, CheckRunnerIs
<1>12. Frame(p1, p2, omp) /\ p2.config = p1.config /\ Threaded(p2)
  BY <1>4, <1>5, <1>6, CheckThreadingIs
<1>13. Frame(p2, p3, mode) /\ p3.config = p2.config /\ Moded(p3)
  BY <1>5, <1>6, SetCompilationModeIs
<1>14. /\ Frame(p3, p4, {}) /\ Same(p3.config, p4.config, {"max_model_len", "max_num_seqs"})
       /\ RunnerConfigured(p4)
  BY <1>4, <1>5, <1>6, CheckRunnerConfigIs
<1>15. /\ Frame(p4, p5, {}) /\ p5.shapes = p4.shapes
       /\ Same(p4.config, p5.config, {"num_gpu_blocks"}) /\ Registered(p5)
  BY <1>4, <1>5, <1>6, ApplyRegistryIs
<1>16. /\ Frame(p5, p6, chunk) /\ p6.shapes = p5.shapes
       /\ Same(p5.config, p6.config, CacheFields) /\ Cached(p6)
       /\ p5.config.num_gpu_blocks # NoBlocks =>
            p6.config.num_gpu_blocks = p5.config.num_gpu_blocks
  BY <1>4, <1>5, <1>6, SetCacheIs
<1>17. /\ Frame(p6, p7, CompilerVars) /\ p7.shapes = p6.shapes /\ p7.config = p6.config
       /\ Compiled(p7)
  BY <1>5, <1>6, SetCompilerVarsIs
<1>18. /\ Frame(p7, p8, off) /\ p8.shapes = p7.shapes /\ p8.config = p7.config
       /\ Disabled(p8)
  BY <1>2, <1>5, <1>6, DisableCompilationIs
<1>w. /\ "VLLM_DT_CHUNK_LEN" \notin CompilerVars \cup off
      /\ CompilerVars \cap off = {} /\ TkvLimit \notin off
      /\ "COMPILATION_MODE" \notin w5 /\ "OMP_NUM_THREADS" \notin w5 \cup mode
      /\ w5 \subseteq Overwritten /\ w5 \cup mode \subseteq Overwritten
      /\ omp \cup (mode \cup w5) \subseteq Overwritten
  BY DEF CompilerVars, TkvLimit, Overwritten
<1>22. Frame(p6, p8, CompilerVars \cup off)
  BY <1>17, <1>18, FrameTrans
<1>23. Frame(p5, p8, w5)
  <2>1. chunk \cup (CompilerVars \cup off) = w5
    OBVIOUS
  <2> HIDE DEF w5
  <2> QED BY <1>16, <1>22, <2>1, FrameTrans
<1>24. Frame(p3, p8, w5)
  <2>1. Frame(p4, p8, {} \cup w5)
    BY <1>15, <1>23, FrameTrans
  <2>2. Frame(p3, p8, {} \cup ({} \cup w5))
    BY <1>14, <2>1, FrameTrans
  <2>3. {} \cup ({} \cup w5) = w5
    OBVIOUS
  <2> QED BY <2>2, <2>3
<1>25. Frame(p4, p8, w5)
  <2>1. Frame(p4, p8, {} \cup w5)
    BY <1>15, <1>23, FrameTrans
  <2>2. {} \cup w5 = w5
    OBVIOUS
  <2> QED BY <2>1, <2>2
<1>26. Frame(p2, p8, mode \cup w5) /\ Frame(p1, p8, omp \cup (mode \cup w5))
  BY <1>12, <1>13, <1>24, FrameTrans
<1>31. Same(p5.config, p8.config, CacheFields) /\ p8.shapes = p5.shapes
  BY <1>16, <1>17, <1>18
<1>32. Same(p4.config, p8.config, CacheFields) /\ p8.shapes = p4.shapes
  <2>1. {"num_gpu_blocks"} \cup CacheFields = CacheFields
    BY DEF CacheFields
  <2> QED BY <1>15, <1>31, <2>1, SameTrans
<1>33. /\ p8.config.runner = p3.config.runner /\ p8.config.world_size = p3.config.world_size
  <2>1. /\ p4.config["runner"] = p3.config["runner"]
        /\ p4.config["world_size"] = p3.config["world_size"]
    BY <1>14 DEF Same, Fields
  <2>2. /\ p8.config["runner"] = p4.config["runner"]
        /\ p8.config["world_size"] = p4.config["world_size"]
    BY <1>32 DEF Same, Fields, CacheFields
  <2> QED BY <2>1, <2>2
<1> HIDE DEF w5, off, omp, mode, chunk
<1>41. RunnerChecked(p8)
  BY <1>11, <1>12, <1>13, <1>26, <1>33, <1>w, RunnerCheckedKept
<1>42. Threaded(p8)
  BY <1>12, <1>13, <1>26, <1>33, <1>w, ThreadedKept
<1>43. Moded(p8)
  BY <1>13, <1>24, <1>33, <1>w, ModedKept
<1>44. RunnerConfigured(p8)
  BY <1>14, <1>25, <1>32, RunnerConfiguredKept
<1>45. Registered(p8)
  <2>1. p5.config.num_gpu_blocks # NoBlocks =>
          p8.config.num_gpu_blocks = p5.config.num_gpu_blocks
    BY <1>16, <1>17, <1>18
  <2> QED BY <1>15, <1>23, <1>31, <1>w, <2>1, RegisteredKept
<1>46. Cached(p8)
  BY <1>16, <1>17, <1>18, <1>22, <1>w, CachedKept
<1>47. Compiled(p8)
  BY <1>17, <1>18, <1>w, CompiledKept
<1> QED BY <1>18, <1>41, <1>42, <1>43, <1>44, <1>45, <1>46, <1>47 DEF Checked, p8
-----------------------------------------------------------------------------
(***************************************************************************)
(* The state of the process: what a record p of it becomes.                *)
(***************************************************************************)
LEMMA BecomesIs ==
  ASSUME NEW p, IsProcess(p), Becomes(p)
  PROVE  Process' = p
BY DEF Becomes, Process, IsProcess

\* A configuration is one of those that were asked for, updated. As long as
\* nothing else was changed, the process is as an accepted check leaves it.
PlatformInv ==
  /\ IsProcess(Process)
  /\ config # NoConfig => \E c \in Configs : Same(c, config, ChangedFields)
  /\ settled /\ error = "none" =>
       IsRecord(config) /\ Numbered(Process) /\ Checked(Process)

LEMMA PlatformInit == Init => PlatformInv
<1> SUFFICES ASSUME Init PROVE PlatformInv
  OBVIOUS
<1>1. IsMapping(<<>>)
  BY DEF IsMapping
<1>2. IsProcess(Process)
  BY <1>1 DEF Init, IsProcess, Process
<1> QED BY <1>2 DEF Init, PlatformInv

LEMMA OverrideIs ==
  ASSUME NEW p, IsProcess(p), NEW n, NEW v
  PROVE  LET q == Override(p, n, v)
         IN /\ IsProcess(q) /\ q.environ = With(p.environ, n, v)
            /\ q.cache = With(p.cache, n, v) /\ q.shapes = p.shapes
            /\ q.config = p.config /\ q.error = p.error
<1> DEFINE q == Override(p, n, v)
           s == SetEnv(p, n, v)
           k == With(p.cache, n, v)
           e == With(p.environ, n, v)
<1>1. s = [environ |-> e, cache |-> p.cache, shapes |-> p.shapes, config |-> p.config,
           error |-> p.error]
  BY DEF SetEnv, IsProcess
<1>2. q = [s EXCEPT !.cache = k]
  BY <1>1 DEF Override
<1> HIDE DEF s, q
<1>3. IsMapping(e) /\ IsMapping(k)
  BY WithIs
<1> HIDE DEF k, e
<1>4. q = [environ |-> e, cache |-> k, shapes |-> p.shapes, config |-> p.config,
           error |-> p.error]
  BY <1>1, <1>2
<1>5. IsProcess(q)
  BY <1>3, <1>4 DEF IsProcess
<1> QED BY <1>4, <1>5 DEF q, k, e

LEMMA ClearIs ==
  ASSUME NEW p, IsProcess(p)
  PROVE  LET q == ClearEnvCache(p)
         IN /\ IsProcess(q) /\ q.environ = p.environ /\ q.cache = <<>>
            /\ q.shapes = p.shapes /\ q.config = p.config /\ q.error = p.error
<1> DEFINE q == ClearEnvCache(p)
<1>1. q = [environ |-> p.environ, cache |-> <<>>, shapes |-> p.shapes, config |-> p.config,
           error |-> p.error]
  BY DEF ClearEnvCache, IsProcess
<1>2. IsMapping(<<>>)
  BY DEF IsMapping
<1> HIDE DEF q
<1>3. IsProcess(q)
  BY <1>1, <1>2 DEF IsProcess
<1> QED BY <1>1, <1>3 DEF q

\* A change by the user keeps the configuration.
LEMMA UserKeeps ==
  ASSUME PlatformInv, NEW p, IsProcess(p), p.config = config, Becomes(p), UserChanges
  PROVE  PlatformInv'
<1>1. Process' = p /\ config' = config /\ ~settled'
  BY BecomesIs DEF Becomes, UserChanges
<1>2. IsProcess(Process)'
  BY <1>1 DEF IsProcess
<1> QED BY <1>1, <1>2 DEF PlatformInv

LEMMA PlatformStep == PlatformInv /\ [Next]_vars => PlatformInv'
<1> SUFFICES ASSUME PlatformInv, [Next]_vars PROVE PlatformInv'
  OBVIOUS
<1>0. IsProcess(Process) /\ Process.config = config /\ Process.cache = cache
      /\ Process.environ = environ
  BY DEF PlatformInv, Process
<1>1. ASSUME NEW c \in Configs, Configure(c) PROVE PlatformInv'
  <2> DEFINE p == CheckAndUpdateConfig(Process, c)
  <2>1. IsConfig(c)
    BY RequestsAssumption
  <2>2. Along(Process, c, p)
    BY <1>0, <2>1, StagesAlong
  <2>3. p.error = "none" => Checked(p)
    BY <1>0, <2>1, CheckedAfter
  <2>4. Becomes(p)
    BY <1>1 DEF Configure
  <2> HIDE DEF p
  <2>5. IsProcess(p) /\ Same(c, p.config, ChangedFields) /\ Numbered(p)
    BY <2>2 DEF Along, Frame
  <2>6. Process' = p /\ config' = p.config /\ error' = p.error
    BY <2>4, <2>5, BecomesIs DEF Becomes
  <2>7. IsProcess(Process)'
    BY <2>5, <2>6 DEF IsProcess
  <2>8. Numbered(Process)' /\ (error' = "none" => Checked(Process'))
    BY <2>3, <2>5, <2>6 DEF Numbered
  <2>9. Checked(Process') => Checked(Process)'
    BY DEF Checked, RunnerChecked, Threaded, Moded, RunnerConfigured, Registered, Cached,
       Compiled, Disabled, Cpus, Listed, Fitted, LongestShape, LargestShape, Relaxed,
       Configured, BlocksHeld, Held
  <2> QED BY <2>5, <2>6, <2>7, <2>8, <2>9 DEF PlatformInv, Same
<1>2. ASSUME NEW change \in Changes, SetVariable(change[1], change[2]) PROVE PlatformInv'
  <2> DEFINE n == change[1]
             v == change[2]
  <2>1. Becomes(SetEnv(Process, n, v)) /\ UserChanges
    BY <1>2 DEF SetVariable
  <2> HIDE DEF n, v
  <2>2. IsProcess(SetEnv(Process, n, v)) /\ SetEnv(Process, n, v).config = config
    BY <1>0, SetEnvIs
  <2> QED BY <2>1, <2>2, UserKeeps
<1>3. ASSUME NEW change \in Changes, OverrideSetting(change[1], change[2]) PROVE PlatformInv'
  <2> DEFINE n == change[1]
             v == change[2]
  <2>1. Becomes(Override(Process, n, v)) /\ UserChanges
    BY <1>3 DEF OverrideSetting
  <2> HIDE DEF n, v
  <2>2. IsProcess(Override(Process, n, v)) /\ Override(Process, n, v).config = config
    BY <1>0, OverrideIs
  <2> QED BY <2>1, <2>2, UserKeeps
<1>4. ASSUME ClearCache PROVE PlatformInv'
  <2>1. Becomes(ClearEnvCache(Process)) /\ UserChanges
    BY <1>4 DEF ClearCache
  <2>2. IsProcess(ClearEnvCache(Process)) /\ ClearEnvCache(Process).config = config
    BY <1>0, ClearIs
  <2> QED BY <2>1, <2>2, UserKeeps
<1>5. ASSUME UNCHANGED vars PROVE PlatformInv'
  BY <1>5 DEF vars, PlatformInv, Process, IsProcess, Numbered, Checked, RunnerChecked,
     Threaded, Moded, RunnerConfigured, Registered, Cached, Compiled, Disabled, Cpus,
     Listed, Fitted, LongestShape, LargestShape, Relaxed, Configured, BlocksHeld, Held
<1> QED BY <1>1, <1>2, <1>3, <1>4, <1>5 DEF Next

\* CheckAndUpdateConfig, and whatever the user does between two checks, keeps
\* the process and the configuration in shape.
THEOREM PlatformInvHolds == Spec => []PlatformInv
<1> QED BY PlatformInit, PlatformStep, PTL DEF Spec

\* check_and_update_config, called again with the configuration that it accepted
\* last, accepts it and changes nothing in it or in the process.
THEOREM CheckedTwiceHolds == Spec => []CheckedTwice
<1>1. PlatformInv => CheckedTwice
  <2> SUFFICES ASSUME PlatformInv, Accepted, settled
               PROVE  CheckAndUpdateConfig(Process, config) = Process
    BY DEF CheckedTwice
  <2>1. IsProcess(Process) /\ Process.config = config /\ Process.error = error
    BY DEF PlatformInv, Process
  <2>2. error = "none"
    BY DEF Accepted
  <2>3. IsRecord(config) /\ Numbered(Process) /\ Checked(Process)
    BY <2>2 DEF PlatformInv
  <2>4. Ready(Process)
    BY <2>1, <2>2, <2>3 DEF Ready
  <2> QED BY <2>1, <2>3, <2>4, CheckedRests
<1> QED BY <1>1, PlatformInvHolds, PTL

\* With VLLM_SPYRE_REQUIRE_KNOWN_CONFIG on Spyre, an accepted configuration is
\* known, and all that the registry says of it holds when the check returns.
THEOREM StrictMeansKnownHolds == Spec => []StrictMeansKnown
<1>1. PlatformInv => StrictMeansKnown
  <2> DEFINE backend == "VLLM_SPYRE_DYNAMO_BACKEND"
             listed == IF IsDecoder(config) THEN {} ELSE shapes
             known == DevicesForRuntime(config, listed)
             found == DevicesForRuntime(config, shapes)
  <2> SUFFICES ASSUME PlatformInv, Accepted, settled, Setting(Process, Required),
                      Setting(Process, backend) = "sendnn"
               PROVE  \E device \in known :
                        device # NoDevice =>
                          /\ \A e \in ToSet(device.env_vars) : environ[e[1]] = e[2]
                          /\ DeviceBlocks(device) \in {NoBlocks, config.num_gpu_blocks}
    BY DEF StrictMeansKnown, Required
  <2>1. /\ Process.config = config /\ Process.shapes = shapes
        /\ Process.environ = environ
    BY DEF Process
  <2>2. Registered(Process)
    BY DEF PlatformInv, Accepted, Checked
  <2>3. ~Relaxed(Process)
    BY DEF Relaxed
  <2>4. \/ found = {NoDevice}
        \/ found # {} /\ \A d \in found : d \in Devices /\ Configured(Process, d)
    BY <2>1, <2>2, <2>3 DEF Registered
  <2>5. found # {}
    BY <2>4
  <2>6. known = found
    <3>1. CASE ~IsDecoder(config)
      BY <3>1
    <3>2. CASE IsDecoder(config) /\ shapes # {}
      <4> DEFINE m == FindMatchingModel(config.hf)
      <4>1. BestOf(config.hf, m, Len(Models))
        BY FindsBest
      <4>2. m # NoModel /\ StaticMatch(m, config.world_size, shapes)
        BY <2>5, <3>2 DEF DevicesForRuntime
      <4> HIDE DEF m
      <4>3. PICK i \in 1 .. Len(Models) : m = Models[i]
        BY <4>1, <4>2 DEF BestOf
      <4>4. m \in ToSet(Models) /\ Matches(config.hf, m.architecture)
        BY <4>1, <4>2, <4>3, EveryModel DEF BestOf
      <4>5. PICK c \in Configs : Same(c, config, ChangedFields)
        BY DEF PlatformInv, Accepted
      <4>6. config["hf"] = c["hf"] /\ config["runner"] = c["runner"]
        BY <4>5 DEF Same, Fields, ChangedFields, CacheFields
      <4>7. m.static = <<>>
        BY <3>2, <4>4, <4>6, DecodersAssumption DEF IsDecoder
      <4>8. ~StaticMatch(m, config.world_size, shapes)
        BY <4>7 DEF StaticMatch, ToSet
      <4> QED BY <4>2, <4>8
    <3>3. CASE IsDecoder(config) /\ shapes = {}
      BY <3>3
    <3> QED BY <3>1, <3>2, <3>3
  <2> HIDE DEF known, found, listed
  <2>7. PICK d \in found : TRUE
    BY <2>5
  <2>8. ASSUME d # NoDevice
        PROVE  /\ \A e \in ToSet(d.env_vars) : environ[e[1]] = e[2]
               /\ DeviceBlocks(d) \in {NoBlocks, config.num_gpu_blocks}
    <3>1. Configured(Process, d)
      BY <2>4, <2>7, <2>8
    <3>2. ASSUME NEW e \in ToSet(d.env_vars) PROVE environ[e[1]] = e[2]
      <4>1. Held(Process, e[1], e[2])
        BY <3>1 DEF Configured
      <4> QED BY <2>1, <2>3, <4>1 DEF Held
    <3>3. DeviceBlocks(d) \in {NoBlocks, config.num_gpu_blocks}
      BY <2>1, <2>3, <3>1 DEF Configured, BlocksHeld
    <3> QED BY <3>2, <3>3
  <2> QED BY <2>6, <2>7, <2>8
<1> QED BY <1>1, PlatformInvHolds, PTL

\* find_matching_model never takes a pattern that another one refines, if both
\* match, whatever the order of the file.
THEOREM MostSpecificModelHolds == Spec => []MostSpecificModel
<1>1. MostSpecificModel
  BY MostSpecific DEF MostSpecificModel
<1> QED BY <1>1, PTL
-----------------------------------------------------------------------------
(***************************************************************************)
(* Two processes are alike for the variables in S: nothing else is needed  *)
(* for the check to decide the same in both.                               *)
(***************************************************************************)
Agree(p, q, n) ==
  /\ n \in DOMAIN p.environ <=> n \in DOMAIN q.environ
  /\ n \in DOMAIN p.environ => p.environ[n] = q.environ[n]

Alike(p, q, S) ==
  /\ IsProcess(p) /\ IsProcess(q)
  /\ p.config = q.config /\ p.error = q.error
  /\ \A n \in Settings : Setting(p, n) = Setting(q, n)
  /\ \A n \in S : Agree(p, q, n)

LEMMA AlikeRead ==
  ASSUME NEW p, NEW q, NEW S, Alike(p, q, S), NEW A
  PROVE  Alike(Read(p, A), Read(q, A), S)
<1> DEFINE u == Read(p, A)
           v == Read(q, A)
<1>1. IsProcess(p) /\ IsProcess(q)
  BY DEF Alike
<1>2. /\ IsProcess(u) /\ u.environ = p.environ /\ u.config = p.config /\ u.error = p.error
      /\ \A n : Setting(u, n) = Setting(p, n)
  BY <1>1, ReadIs
<1>3. /\ IsProcess(v) /\ v.environ = q.environ /\ v.config = q.config /\ v.error = q.error
      /\ \A n : Setting(v, n) = Setting(q, n)
  BY <1>1, ReadIs
<1> HIDE DEF u, v
<1>4. \A n \in S : Agree(u, v, n)
  BY <1>2, <1>3 DEF Alike, Agree
<1>5. Alike(u, v, S)
  BY <1>2, <1>3, <1>4 DEF Alike
<1> QED BY <1>5 DEF u, v

LEMMA AlikeFail ==
  ASSUME NEW p, NEW q, NEW S, Alike(p, q, S), NEW reason
  PROVE  Alike(Fail(p, reason), Fail(q, reason), S)
<1> DEFINE u == Fail(p, reason)
           v == Fail(q, reason)
<1>1. IsProcess(p) /\ IsProcess(q)
  BY DEF Alike
<1>2. /\ IsProcess(u) /\ u.environ = p.environ /\ u.cache = p.cache
      /\ u.config = p.config /\ u.error = reason
  BY <1>1, FailIs
<1>3. /\ IsProcess(v) /\ v.environ = q.environ /\ v.cache = q.cache
      /\ v.config = q.config /\ v.error = reason
  BY <1>1, FailIs
<1> HIDE DEF u, v
<1>4. \A n \in S : Agree(u, v, n)
  BY <1>2, <1>3 DEF Alike, Agree
<1>5. \A n : Setting(u, n) = Setting(p, n) /\ Setting(v, n) = Setting(q, n)
  BY <1>2, <1>3 DEF Setting
<1>6. Alike(u, v, S)
  BY <1>2, <1>3, <1>4, <1>5 DEF Alike
<1> QED BY <1>6 DEF u, v

LEMMA AlikePut ==
  ASSUME NEW p, NEW q, NEW S, Alike(p, q, S), NEW c
  PROVE  Alike(PutConfig(p, c), PutConfig(q, c), S)
<1> DEFINE u == PutConfig(p, c)
           v == PutConfig(q, c)
<1>1. IsProcess(p) /\ IsProcess(q)
  BY DEF Alike
<1>2. /\ IsProcess(u) /\ u.environ = p.environ /\ u.cache = p.cache
      /\ u.config = c /\ u.error = p.error
  BY <1>1, PutConfigIs
<1>3. /\ IsProcess(v) /\ v.environ = q.environ /\ v.cache = q.cache
      /\ v.config = c /\ v.error = q.error
  BY <1>1, PutConfigIs
<1> HIDE DEF u, v
<1>4. \A n \in S : Agree(u, v, n)
  BY <1>2, <1>3 DEF Alike, Agree
<1>5. \A n : Setting(u, n) = Setting(p, n) /\ Setting(v, n) = Setting(q, n)
  BY <1>2, <1>3 DEF Setting
<1>6. Alike(u, v, S)
  BY <1>2, <1>3, <1>4, <1>5 DEF Alike
<1> QED BY <1>6 DEF u, v

LEMMA AlikeShapes ==
  ASSUME NEW p, NEW q, NEW S, Alike(p, q, S), NEW s, NEW t
  PROVE  Alike(PutShapes(p, s), PutShapes(q, t), S)
<1> DEFINE u == PutShapes(p, s)
           v == PutShapes(q, t)
<1>1. IsProcess(p) /\ IsProcess(q)
  BY DEF Alike
<1>2. /\ IsProcess(u) /\ u.environ = p.environ /\ u.cache = p.cache
      /\ u.config = p.config /\ u.error = p.error
  BY <1>1, PutShapesIs
<1>3. /\ IsProcess(v) /\ v.environ = q.environ /\ v.cache = q.cache
      /\ v.config = q.config /\ v.error = q.error
  BY <1>1, PutShapesIs
<1> HIDE DEF u, v
<1>4. \A n \in S : Agree(u, v, n)
  BY <1>2, <1>3 DEF Alike, Agree
<1>5. \A n : Setting(u, n) = Setting(p, n) /\ Setting(v, n) = Setting(q, n)
  BY <1>2, <1>3 DEF Setting
<1>6. Alike(u, v, S)
  BY <1>2, <1>3, <1>4, <1>5 DEF Alike
<1> QED BY <1>6 DEF u, v

LEMMA AlikeSet ==
  ASSUME NEW p, NEW q, NEW S, Alike(p, q, S), NEW n, n \notin Settings, NEW v
  PROVE  Alike(SetEnv(p, n, v), SetEnv(q, n, v), S \cup {n})
<1> DEFINE u == SetEnv(p, n, v)
           w == SetEnv(q, n, v)
<1>1. IsProcess(p) /\ IsProcess(q)
  BY DEF Alike
<1>2. /\ IsProcess(u) /\ u.cache = p.cache /\ u.config = p.config /\ u.error = p.error
      /\ DOMAIN u.environ = DOMAIN p.environ \cup {n} /\ u.environ[n] = v
      /\ \A m \in DOMAIN p.environ : m # n => u.environ[m] = p.environ[m]
  BY <1>1, SetEnvIs
<1>3. /\ IsProcess(w) /\ w.cache = q.cache /\ w.config = q.config /\ w.error = q.error
      /\ DOMAIN w.environ = DOMAIN q.environ \cup {n} /\ w.environ[n] = v
      /\ \A m \in DOMAIN q.environ : m # n => w.environ[m] = q.environ[m]
  BY <1>1, SetEnvIs
<1> HIDE DEF u, w
<1>4. Agree(u, w, n)
  BY <1>2, <1>3 DEF Agree
<1>5. ASSUME NEW m \in S, m # n PROVE Agree(u, w, m)
  <2>1. Agree(p, q, m)
    BY DEF Alike
  <2> QED BY <1>2, <1>3, <1>5, <2>1 DEF Agree
<1>6. ASSUME NEW m \in Settings
      PROVE  Setting(u, m) = Setting(p, m) /\ Setting(w, m) = Setting(q, m)
  <2>1. m # n
    OBVIOUS
  <2> QED BY <1>2, <1>3, <2>1 DEF Setting, Evaluated
<1>7. Alike(u, w, S \cup {n})
  BY <1>2, <1>3, <1>4, <1>5, <1>6 DEF Alike
<1> QED BY <1>7 DEF u, w

LEMMA AlikeWeaken ==
  ASSUME NEW p, NEW q, NEW S, NEW T, Alike(p, q, S), T \subseteq S
  PROVE  Alike(p, q, T)
BY DEF Alike

LEMMA RunnerAlike ==
  ASSUME NEW p, NEW q, NEW S, Alike(p, q, S), "VLLM_USE_V1" \in S
  PROVE  Alike(CheckRunner(p), CheckRunner(q), S)
<1>1. Agree(p, q, "VLLM_USE_V1") /\ p.config = q.config
  BY DEF Alike
<1>2. ("VLLM_USE_V1" \in DOMAIN p.environ /\ ~p.environ["VLLM_USE_V1"])
        = ("VLLM_USE_V1" \in DOMAIN q.environ /\ ~q.environ["VLLM_USE_V1"])
  BY <1>1 DEF Agree
<1>3. Alike(Fail(p, "v0"), Fail(q, "v0"), S) /\ Alike(Fail(p, "runner"), Fail(q, "runner"), S)
  BY AlikeFail
<1> QED BY <1>1, <1>2, <1>3 DEF CheckRunner

LEMMA ThreadingAlike ==
  ASSUME NEW p, NEW q, NEW S, Alike(p, q, S)
  PROVE  Alike(CheckThreading(p), CheckThreading(q), S)
<1> DEFINE x == "VLLM_SPYRE_UPDATE_THREAD_CONFIG"
           y == "VLLM_SPYRE_NUM_CPUS"
           A == {y, x}
           a == Read(p, A)
           b == Read(q, A)
           n == CeilDiv(Cpus(p), p.config.world_size)
<1>1. Setting(p, x) = Setting(q, x) /\ Setting(p, y) = Setting(q, y) /\ p.config = q.config
  BY DEF Alike, Settings, Defaults
<1>2. Cpus(q) = Cpus(p)
  BY <1>1 DEF Cpus
<1>3. Alike(a, b, S)
  BY AlikeRead
<1>4. /\ CheckThreading(p) =
           IF ~Setting(p, x) THEN a ELSE IF Cpus(p) = 0 THEN Fail(a, "cpus")
           ELSE SetEnv(a, "OMP_NUM_THREADS", n)
      /\ CheckThreading(q) =
           IF ~Setting(p, x) THEN b ELSE IF Cpus(p) = 0 THEN Fail(b, "cpus")
           ELSE SetEnv(b, "OMP_NUM_THREADS", n)
  BY <1>1, <1>2 DEF CheckThreading, Cpus
<1> HIDE DEF a, b, n
<1>5. Alike(Fail(a, "cpus"), Fail(b, "cpus"), S)
  BY <1>3, AlikeFail
<1>6. Alike(SetEnv(a, "OMP_NUM_THREADS", n), SetEnv(b, "OMP_NUM_THREADS", n), S)
  <2>1. "OMP_NUM_THREADS" \notin Settings
    BY DEF Settings, Defaults
  <2> DEFINE T == S \cup {"OMP_NUM_THREADS"}
  <2>2. S \subseteq T
    OBVIOUS
  <2>3. Alike(SetEnv(a, "OMP_NUM_THREADS", n), SetEnv(b, "OMP_NUM_THREADS", n), T)
    BY <1>3, <2>1, AlikeSet
  <2> HIDE DEF T
  <2> QED BY <2>2, <2>3, AlikeWeaken
<1> QED BY <1>3, <1>4, <1>5, <1>6

LEMMA ModeAlike ==
  ASSUME NEW p, NEW q, NEW S, Alike(p, q, S)
  PROVE  Alike(SetCompilationMode(p), SetCompilationMode(q), S \cup {"COMPILATION_MODE"})
<1> DEFINE A == {"VLLM_SPYRE_DYNAMO_BACKEND"}
           a == Read(p, A)
           b == Read(q, A)
           v == IF IsDecoder(p.config) THEN "offline_decoder" ELSE "offline"
<1>1. Alike(a, b, S)
  BY AlikeRead
<1>2. /\ SetCompilationMode(p) = SetEnv(a, "COMPILATION_MODE", v)
      /\ SetCompilationMode(q) = SetEnv(b, "COMPILATION_MODE", v)
  BY DEF SetCompilationMode, Alike
<1>3. "COMPILATION_MODE" \notin Settings
  BY DEF Settings, Defaults
<1> HIDE DEF a, b, v
<1> QED BY <1>1, <1>2, <1>3, AlikeSet

LEMMA ReadyAlike ==
  ASSUME NEW p, NEW q, NEW S, Alike(p, q, S), Ready(p)
  PROVE  Ready(q)
BY DEF Alike, Ready

LEMMA ListsAlike ==
  ASSUME NEW p, NEW q, NEW S, Alike(p, q, S)
  PROVE  Alike(GetWarmupShapes(ForgetShapes(p)), GetWarmupShapes(ForgetShapes(q)), S)
<1> DEFINE x == "VLLM_SPYRE_WARMUP_PROMPT_LENS"
           y == "VLLM_SPYRE_WARMUP_BATCH_SIZES"
           lens == Setting(p, x)
           sizes == Setting(p, y)
           made == {<<lens[i], sizes[i]>> : i \in DOMAIN lens}
           odd == \E i \in DOMAIN lens : lens[i] % 64 # 0
           even == Len(lens) = Len(sizes)
           First(o) == Read(o, {x})
           Both(o) == Read(First(o), {y})
           Made(o) == IF odd THEN Fail(First(o), "prompt_lens")
                      ELSE IF ~even THEN Fail(Both(o), "lists")
                      ELSE PutShapes(Both(o), made)
           a == ForgetShapes(p)
           b == ForgetShapes(q)
<1>1. Setting(q, x) = lens /\ Setting(q, y) = sizes
  BY DEF Alike, Settings, Defaults
<1>2. /\ a.environ = p.environ /\ a.cache = p.cache /\ a.shapes = {}
      /\ b.environ = q.environ /\ b.cache = q.cache /\ b.shapes = {}
      /\ Alike(a, b, S)
  <2>1. a = PutShapes(p, {}) /\ b = PutShapes(q, {})
    BY DEF ForgetShapes, PutShapes
  <2> HIDE DEF a, b
  <2>2. Alike(a, b, S)
    BY <2>1, AlikeShapes
  <2>3. IsProcess(p) /\ IsProcess(q)
    BY DEF Alike
  <2> QED BY <2>1, <2>2, <2>3, PutShapesIs
<1> HIDE DEF a, b
<1>3. /\ Setting(a, x) = lens /\ Setting(a, y) = sizes
      /\ Setting(b, x) = lens /\ Setting(b, y) = sizes
  <2>1. \A n : Setting(a, n) = Setting(p, n) /\ Setting(b, n) = Setting(q, n)
    BY <1>2 DEF Setting
  <2> QED BY <1>1, <2>1
<1>4. ASSUME NEW o, o.shapes = {}, Setting(o, x) = lens, Setting(o, y) = sizes
      PROVE  GetWarmupShapes(o) = Made(o)
  <2> HIDE DEF lens, sizes
  <2> QED BY <1>4 DEF GetWarmupShapes, PutShapes
<1>5. GetWarmupShapes(a) = Made(a) /\ GetWarmupShapes(b) = Made(b)
  <2> HIDE DEF Made, lens, sizes
  <2> QED BY <1>2, <1>3, <1>4
<1> HIDE DEF odd, even, made
<1>6. Alike(First(a), First(b), S)
  BY <1>2, AlikeRead
<1>7. Alike(Both(a), Both(b), S)
  <2> HIDE DEF First
  <2> QED BY <1>6, AlikeRead
<1> HIDE DEF First, Both
<1>8. /\ Alike(Fail(First(a), "prompt_lens"), Fail(First(b), "prompt_lens"), S)
      /\ Alike(Fail(Both(a), "lists"), Fail(Both(b), "lists"), S)
      /\ Alike(PutShapes(Both(a), made), PutShapes(Both(b), made), S)
  BY <1>6, <1>7, AlikeFail, AlikeShapes
<1>9. Alike(Made(a), Made(b), S)
  BY <1>8
<1> QED BY <1>5, <1>9 DEF a, b

LEMMA FitsAlike ==
  ASSUME NEW p, NEW q, NEW S, Alike(p, q, S), p.shapes = q.shapes
  PROVE  Alike(ApplyShapes(p), ApplyShapes(q), S)
<1> DEFINE a == LongestShape(p)
           b == LargestShape(p)
           c == Put(Put(p.config, "max_model_len", a), "max_num_seqs", b)
           long == a > p.config.max_position_embeddings
           Fit(o) == IF long THEN Fail(o, "max_len") ELSE PutConfig(o, c)
<1>1. IsProcess(p) /\ IsProcess(q) /\ p.config = q.config
  BY DEF Alike
<1>2. ApplyShapes(p) = Fit(p)
  <2>1. [p EXCEPT !.config.max_model_len = a, !.config.max_num_seqs = b] = PutConfig(p, c)
    BY <1>1 DEF PutConfig, Put, IsProcess
  <2> HIDE DEF c
  <2> QED BY <2>1 DEF ApplyShapes, LongestShape, LargestShape
<1>3. ApplyShapes(q) = Fit(q)
  <2>1. LongestShape(q) = a /\ LargestShape(q) = b
    BY DEF LongestShape, LargestShape
  <2> HIDE DEF a, b
  <2>2. [q EXCEPT !.config.max_model_len = a, !.config.max_num_seqs = b] = PutConfig(q, c)
    BY <1>1 DEF PutConfig, Put, IsProcess
  <2> HIDE DEF c
  <2> QED BY <1>1, <2>1, <2>2 DEF ApplyShapes, LongestShape, LargestShape
<1> HIDE DEF c, long
<1>4. /\ Alike(Fail(p, "max_len"), Fail(q, "max_len"), S)
      /\ Alike(PutConfig(p, c), PutConfig(q, c), S)
  BY AlikeFail, AlikePut
<1> QED BY <1>2, <1>3, <1>4

LEMMA RunnerConfigAlike ==
  ASSUME NEW p, NEW q, NEW S, Alike(p, q, S), Ready(p)
  PROVE  Alike(CheckRunnerConfig(p), CheckRunnerConfig(q), S)
<1>1. p.config = q.config /\ Ready(q)
  BY ReadyAlike DEF Alike
<1>2. CASE IsDecoder(p.config)
  <2>1. Alike(Fail(p, "fp8"), Fail(q, "fp8"), S)
    BY AlikeFail
  <2> QED BY <1>1, <1>2, <2>1 DEF CheckRunnerConfig, CheckDecoder
<1>3. CASE ~IsDecoder(p.config)
  <2> DEFINE a == GetWarmupShapes(ForgetShapes(p))
             b == GetWarmupShapes(ForgetShapes(q))
  <2>1. Alike(a, b, S)
    BY ListsAlike
  <2>2. /\ CheckRunnerConfig(p) = IF a.error = "none" THEN ApplyShapes(a) ELSE a
        /\ CheckRunnerConfig(q) = IF b.error = "none" THEN ApplyShapes(b) ELSE b
    BY <1>1, <1>3 DEF CheckRunnerConfig, Then
  <2>3. /\ a.error = "none" => Listed(a)
        /\ b.error = "none" => Listed(b)
    BY <1>1, GetWarmupShapesIs
  <2> HIDE DEF a, b
  <2>4. a.error = b.error
    BY <2>1 DEF Alike
  <2>5. a.error = "none" => a.shapes = b.shapes
    <3>1. \A n \in ShapeSettings : Setting(a, n) = Setting(b, n)
      BY <2>1 DEF Alike, ShapeSettings, Settings, Defaults
    <3>2. /\ Setting(a, "VLLM_SPYRE_WARMUP_PROMPT_LENS")
               = Setting(b, "VLLM_SPYRE_WARMUP_PROMPT_LENS")
          /\ Setting(a, "VLLM_SPYRE_WARMUP_BATCH_SIZES")
               = Setting(b, "VLLM_SPYRE_WARMUP_BATCH_SIZES")
      BY <3>1 DEF ShapeSettings
    <3> QED BY <2>3, <2>4, <3>2 DEF Listed
  <2> QED BY <2>1, <2>2, <2>4, <2>5, FitsAlike
<1> QED BY <1>2, <1>3

LEMMA ValidateAlike ==
  ASSUME NEW p, NEW q, NEW S, Alike(p, q, S), NEW v, NEW a
  PROVE  Alike(ValidateConfigOverride(p, v, a), ValidateConfigOverride(q, v, a), S)
<1> DEFINE s == Read(p, {Required})
           t == Read(q, {Required})
<1>1. Alike(s, t, S)
  BY AlikeRead
<1>2. /\ ValidateConfigOverride(p, v, a) =
           IF v = a THEN p ELSE IF Setting(s, Required) THEN Fail(s, "conflict") ELSE s
      /\ ValidateConfigOverride(q, v, a) =
           IF v = a THEN q ELSE IF Setting(t, Required) THEN Fail(t, "conflict") ELSE t
  BY DEF ValidateConfigOverride, Required
<1> HIDE DEF s, t
<1>3. Setting(s, Required) = Setting(t, Required)
  BY <1>1 DEF Alike, Required, Settings, Defaults
<1>4. Alike(Fail(s, "conflict"), Fail(t, "conflict"), S)
  BY <1>1, AlikeFail
<1> QED BY <1>1, <1>2, <1>3, <1>4

LEMMA VariableAlike ==
  ASSUME NEW p, NEW q, NEW S, Alike(p, q, S), NEW n \in S, n \notin Settings, NEW v
  PROVE  Alike(SetEnvVar(p, n, v), SetEnvVar(q, n, v), S)
<1>1. Agree(p, q, n)
  BY DEF Alike
<1>2. CASE n \in DOMAIN p.environ
  <2> DEFINE a == p.environ[n]
  <2>1. n \in DOMAIN q.environ /\ q.environ[n] = a
    BY <1>1, <1>2 DEF Agree
  <2> HIDE DEF a
  <2>2. Alike(ValidateConfigOverride(p, v, a), ValidateConfigOverride(q, v, a), S)
    BY ValidateAlike
  <2> QED BY <1>2, <2>1, <2>2 DEF SetEnvVar, a
<1>3. CASE n \notin DOMAIN p.environ
  <2>1. n \notin DOMAIN q.environ
    BY <1>1, <1>3 DEF Agree
  <2>2. S \cup {n} = S
    OBVIOUS
  <2>3. Alike(SetEnv(p, n, v), SetEnv(q, n, v), S)
    BY <2>2, AlikeSet
  <2> QED BY <1>3, <2>1, <2>3 DEF SetEnvVar
<1> QED BY <1>2, <1>3

LEMMA VariablesAlike ==
  ASSUME NEW p, NEW q, NEW S, Alike(p, q, S), DeviceVariables \subseteq S,
         p.error = "none", NEW d \in Devices
  PROVE  Alike(VariablesSet(p, d), VariablesSet(q, d), S)
<1> DEFINE n == Len(d.env_vars)
           vs == d.env_vars
<1>1. IsProcess(p) /\ IsProcess(q) /\ q.error = "none"
  BY DEF Alike
<1>2. PICK g : DeviceChain(g, p, d)
  BY <1>1, DeviceFold
<1>3. PICK h : DeviceChain(h, q, d)
  BY <1>1, DeviceFold
<1>4. /\ g[0] = p /\ VariablesSet(p, d) = g[n]
      /\ h[0] = q /\ VariablesSet(q, d) = h[n]
      /\ \A k \in 1 .. n : g[k] = Stepped(g[k - 1], vs[k]) /\ h[k] = Stepped(h[k - 1], vs[k])
  BY <1>2, <1>3 DEF DeviceChain
<1>5. n \in Nat /\ \A k \in 1 .. n : vs[k][1] \in DeviceVariables
  BY DeviceVars
<1> DEFINE T == {k \in 0 .. n : Alike(g[k], h[k], S)}
<1> HIDE DEF n, vs
<1>6. 0 \in T
  BY <1>4, <1>5
<1>7. ASSUME NEW k \in 1 .. n, k - 1 \in T
      PROVE  k \in T
  <2> DEFINE a == g[k - 1]
             b == h[k - 1]
             x == vs[k][1]
             y == vs[k][2]
  <2>1. Alike(a, b, S)
    BY <1>7
  <2>2. x \in S /\ x \notin Settings
    BY <1>5, NamesApart DEF Lasting
  <2>3. /\ g[k] = IF a.error = "none" THEN SetEnvVar(a, x, y) ELSE a
        /\ h[k] = IF b.error = "none" THEN SetEnvVar(b, x, y) ELSE b
    BY <1>4 DEF Stepped
  <2> HIDE DEF a, b, x, y
  <2>4. a.error = b.error
    BY <2>1 DEF Alike
  <2>5. Alike(SetEnvVar(a, x, y), SetEnvVar(b, x, y), S)
    BY <2>1, <2>2, VariableAlike
  <2>6. Alike(g[k], h[k], S)
    BY <2>1, <2>3, <2>4, <2>5
  <2> QED BY <1>5, <2>6
<1>8. n \in T
  <2> HIDE DEF T
  <2>1. 0 .. n \subseteq T
    BY <1>5, <1>6, <1>7, Steps
  <2> QED BY <1>5, <2>1
<1> QED BY <1>4, <1>8

LEMMA BlocksAlike ==
  ASSUME NEW p, NEW q, NEW S, Alike(p, q, S), NEW d
  PROVE  Alike(ConfigureGpuBlocks(p, d), ConfigureGpuBlocks(q, d), S)
<1> DEFINE n == DeviceBlocks(d)
           a == p.config.num_gpu_blocks
           c == Put(p.config, "num_gpu_blocks", n)
           Made(o) == IF n = NoBlocks THEN o ELSE IF a = NoBlocks THEN PutConfig(o, c)
                      ELSE ValidateConfigOverride(o, n, a)
<1>1. IsProcess(p) /\ IsProcess(q) /\ p.config = q.config
  BY DEF Alike
<1>2. \A o : o.config = p.config => ConfigureGpuBlocks(o, d) = Made(o)
  <2> TAKE o
  <2> HAVE o.config = p.config
  <2>1. [o EXCEPT !.config.num_gpu_blocks = n] = PutConfig(o, c)
    BY DEF PutConfig, Put
  <2> HIDE DEF c, n
  <2> QED BY <2>1 DEF ConfigureGpuBlocks, n
<1> HIDE DEF n, a, c
<1>3. /\ Alike(PutConfig(p, c), PutConfig(q, c), S)
      /\ Alike(ValidateConfigOverride(p, n, a), ValidateConfigOverride(q, n, a), S)
  BY AlikePut, ValidateAlike
<1>4. Alike(Made(p), Made(q), S)
  BY <1>3
<1> HIDE DEF Made
<1> QED BY <1>1, <1>2, <1>4

LEMMA DeviceAlike ==
  ASSUME NEW p, NEW q, NEW S, Alike(p, q, S), DeviceVariables \subseteq S,
         p.error = "none", NEW d \in Devices
  PROVE  Alike(ConfigureDevice(p, d), ConfigureDevice(q, d), S)
<1> DEFINE a == VariablesSet(p, d)
           b == VariablesSet(q, d)
<1>1. Alike(a, b, S)
  BY VariablesAlike
<1>2. /\ ConfigureDevice(p, d) = IF a.error = "none" THEN ConfigureGpuBlocks(a, d) ELSE a
      /\ ConfigureDevice(q, d) = IF b.error = "none" THEN ConfigureGpuBlocks(b, d) ELSE b
  BY DEF ConfigureDevice, VariablesSet, Then
<1> HIDE DEF a, b
<1>3. a.error = b.error
  BY <1>1 DEF Alike
<1> QED BY <1>1, <1>2, <1>3, BlocksAlike

\* With shapes, the registry has no device configuration to apply.
LEMMA RegistryAlike ==
  ASSUME NEW p, NEW q, NEW S, Alike(p, q, S), p.error = "none", p.shapes = q.shapes,
         DeviceVariables \subseteq S \/ p.shapes # {}
  PROVE  Alike(ApplyRegistry(p), ApplyRegistry(q), S)
<1> DEFINE x == "VLLM_SPYRE_DYNAMO_BACKEND"
           devices == DevicesForRuntime(p.config, p.shapes)
           d == CHOOSE e \in devices : TRUE
           on == Setting(p, x) = "sendnn"
           a == Read(p, {x})
           b == Read(q, {x})
           u == Read(a, {Required})
           v == Read(b, {Required})
<1>1. p.config = q.config /\ IsProcess(p) /\ IsProcess(q)
  BY DEF Alike
<1>2. Setting(q, x) = Setting(p, x)
  BY DEF Alike, Settings, Defaults
<1>3. Alike(a, b, S)
  BY AlikeRead
<1>4. Alike(u, v, S)
  <2> HIDE DEF a, b
  <2> QED BY <1>3, AlikeRead
<1>5. /\ ApplyRegistry(p) =
           IF ~on THEN a ELSE IF devices = {NoDevice} THEN a
           ELSE IF devices # {} THEN ConfigureDevice(a, d)
           ELSE IF Setting(u, Required) THEN Fail(u, "unknown") ELSE u
      /\ ApplyRegistry(q) =
           IF ~on THEN b ELSE IF devices = {NoDevice} THEN b
           ELSE IF devices # {} THEN ConfigureDevice(b, d)
           ELSE IF Setting(v, Required) THEN Fail(v, "unknown") ELSE v
  <2>1. DevicesForRuntime(q.config, q.shapes) = devices
    BY <1>1
  <2> HIDE DEF devices
  <2> QED BY <1>2, <2>1 DEF ApplyRegistry, Required, devices
<1>6. a.error = "none"
  BY <1>1, ReadIs
<1> HIDE DEF a, b, u, v, on
<1>7. Setting(u, Required) = Setting(v, Required)
  BY <1>4 DEF Alike, Required, Settings, Defaults
<1>8. Alike(Fail(u, "unknown"), Fail(v, "unknown"), S)
  BY <1>4, AlikeFail
<1>9. ASSUME devices # {}, devices # {NoDevice}
      PROVE  Alike(ConfigureDevice(a, d), ConfigureDevice(b, d), S)
  <2>1. d \in devices
    BY <1>9
  <2>2. devices = {d} /\ (d = NoDevice \/ d \in Devices)
    <3> HIDE DEF d
    <3> QED BY <2>1, DevicesAre
  <2>3. d \in Devices
    BY <1>9, <2>2
  <2>4. DeviceVariables \subseteq S
    <3> SUFFICES ASSUME p.shapes # {} PROVE FALSE
      OBVIOUS
    <3>1. devices \in {{}, {NoDevice}}
      BY DEF DevicesForRuntime
    <3> QED BY <1>9, <3>1
  <2> HIDE DEF d, devices
  <2> QED BY <1>3, <1>6, <2>3, <2>4, DeviceAlike
<1> HIDE DEF d, devices
<1> QED BY <1>3, <1>4, <1>5, <1>7, <1>8, <1>9

LEMMA AlikeNewSet ==
  ASSUME NEW p, NEW q, NEW S, Alike(p, q, S), NEW n \in S, n \notin Settings, NEW v
  PROVE  Alike(SetEnv(p, n, v), SetEnv(q, n, v), S)
<1>1. S \cup {n} = S
  OBVIOUS
<1> QED BY <1>1, AlikeSet

LEMMA CacheAlike ==
  ASSUME NEW p, NEW q, NEW S, Alike(p, q, S), IsDecoder(p.config) => TkvLimit \in S
  PROVE  Alike(SetCache(p), SetCache(q),
               IF IsDecoder(p.config) THEN S \cup {"VLLM_DT_CHUNK_LEN"} ELSE S)
<1> DEFINE x == "VLLM_DT_CHUNK_LEN"
           T == S \cup {x}
           c == p.config
           k == Put(c, "block_size", BlockSize)
           n == c.max_num_batched_tokens
           t == TotalBlocks(c)
           m == Put(k, "num_gpu_blocks", t)
           Sized(o) == SetEnv(PutConfig(o, k), x, n)
           a == Sized(p)
           b == Sized(q)
           odd == n % BlockSize # 0
           given == c.num_gpu_blocks # NoBlocks
           small == t < MinBlocks(p)
<1>1. IsProcess(p) /\ IsProcess(q) /\ q.config = c
  BY DEF Alike
<1>2. CASE IsDecoder(c)
  <2>1. Alike(PutConfig(p, k), PutConfig(q, k), S)
    BY AlikePut
  <2>2. Alike(a, b, T)
    <3>1. x \notin Settings
      BY DEF Settings, Defaults
    <3> HIDE DEF k, n
    <3> QED BY <2>1, <3>1, AlikeSet
  <2>3. a.config = k /\ b.config = k
    <3>1. /\ IsProcess(PutConfig(p, k)) /\ PutConfig(p, k).config = k
          /\ IsProcess(PutConfig(q, k)) /\ PutConfig(q, k).config = k
      <4> HIDE DEF k
      <4> QED BY <1>1, PutConfigIs
    <3> HIDE DEF k, n
    <3> QED BY <3>1, SetEnvIs
  <2>4. MinBlocks(q) = MinBlocks(p)
    <3>1. Agree(p, q, TkvLimit)
      BY <1>2 DEF Alike
    <3> QED BY <1>1, <3>1 DEF MinBlocks, Agree
  <2>5. ASSUME NEW o, o.config = c, MinBlocks(o) = MinBlocks(p), Sized(o).config = k
        PROVE  SetDecoderCache(o) =
                 IF odd THEN Fail(Sized(o), "chunk") ELSE IF given THEN Sized(o)
                 ELSE IF small THEN Fail(Sized(o), "pool") ELSE PutConfig(Sized(o), m)
    <3>1. [o EXCEPT !.config.block_size = BlockSize] = PutConfig(o, k)
      BY <2>5 DEF PutConfig, Put
    <3>2. SetEnv([o EXCEPT !.config.block_size = BlockSize], x, n) = Sized(o)
      BY <3>1
    <3>3. [Sized(o) EXCEPT !.config.num_gpu_blocks = t] = PutConfig(Sized(o), m)
      <4> DEFINE s == Sized(o)
      <4>1. s.config = k
        BY <2>5
      <4> HIDE DEF s, k, t
      <4> QED BY <4>1 DEF PutConfig, Put, s
    <3> HIDE DEF Sized, m, t
    <3> QED BY <2>5, <3>2, <3>3 DEF SetDecoderCache, t
  <2>6. /\ SetCache(p) = IF odd THEN Fail(a, "chunk") ELSE IF given THEN a
                         ELSE IF small THEN Fail(a, "pool") ELSE PutConfig(a, m)
        /\ SetCache(q) = IF odd THEN Fail(b, "chunk") ELSE IF given THEN b
                         ELSE IF small THEN Fail(b, "pool") ELSE PutConfig(b, m)
    <3>1. SetCache(p) = SetDecoderCache(p) /\ SetCache(q) = SetDecoderCache(q)
      BY <1>1, <1>2 DEF SetCache
    <3> HIDE DEF Sized, m, k, odd, given, small
    <3> QED BY <1>1, <2>3, <2>4, <2>5, <3>1
  <2> HIDE DEF a, b, T, m, odd, given, small
  <2>7. /\ Alike(Fail(a, "chunk"), Fail(b, "chunk"), T)
        /\ Alike(Fail(a, "pool"), Fail(b, "pool"), T)
        /\ Alike(PutConfig(a, m), PutConfig(b, m), T)
    BY <2>2, AlikeFail, AlikePut
  <2>8. Alike(SetCache(p), SetCache(q), T)
    <3> HIDE DEF Sized, c, k, n, t
    <3>1. CASE odd
      BY <2>6, <2>7, <3>1
    <3>2. CASE ~odd /\ given
      BY <2>2, <2>6, <3>2
    <3>3. CASE ~odd /\ ~given /\ small
      BY <2>6, <2>7, <3>3
    <3>4. CASE ~odd /\ ~given /\ ~small
      BY <2>6, <2>7, <3>4
    <3> QED BY <3>1, <3>2, <3>3, <3>4
  <2> QED BY <1>2, <2>8 DEF T
<1>3. CASE ~IsDecoder(c)
  <2> DEFINE e == Put(Put(c, "block_size", c.max_model_len), "max_num_batched_tokens",
                      c.max_model_len * c.max_num_seqs)
  <2>1. SetCache(p) = PutConfig(p, e) /\ SetCache(q) = PutConfig(q, e)
    BY <1>1, <1>3 DEF SetCache, SetPoolingCache, PutConfig, Put, IsProcess
  <2>2. Alike(PutConfig(p, e), PutConfig(q, e), S)
    <3> HIDE DEF e
    <3> QED BY AlikePut
  <2> QED BY <1>3, <2>1, <2>2
<1> QED BY <1>2, <1>3

LEMMA AlikeOneSet ==
  ASSUME NEW p, NEW q, NEW S, Alike(p, q, S), NEW n, n \notin S, n \notin Settings, NEW v
  PROVE  Alike(SetEnv(p, n, v), q, S) /\ Alike(p, SetEnv(q, n, v), S)
<1>1. IsProcess(p) /\ IsProcess(q)
  BY DEF Alike
<1>2. ASSUME NEW o, IsProcess(o)
      PROVE  LET u == SetEnv(o, n, v)
             IN /\ IsProcess(u) /\ u.config = o.config /\ u.error = o.error
                /\ \A m \in Settings : Setting(u, m) = Setting(o, m)
                /\ \A m \in S : m \in DOMAIN u.environ <=> m \in DOMAIN o.environ
                /\ \A m \in S : m \in DOMAIN o.environ => u.environ[m] = o.environ[m]
  <2> DEFINE u == SetEnv(o, n, v)
  <2>1. /\ IsProcess(u) /\ u.cache = o.cache /\ u.config = o.config /\ u.error = o.error
        /\ DOMAIN u.environ = DOMAIN o.environ \cup {n}
        /\ \A m \in DOMAIN o.environ : m # n => u.environ[m] = o.environ[m]
    BY <1>2, SetEnvIs
  <2> HIDE DEF u
  <2>2. ASSUME NEW m \in Settings PROVE Setting(u, m) = Setting(o, m)
    <3>1. m # n
      OBVIOUS
    <3> QED BY <2>1, <3>1 DEF Setting, Evaluated
  <2>3. ASSUME NEW m \in S
        PROVE  /\ m \in DOMAIN u.environ <=> m \in DOMAIN o.environ
               /\ m \in DOMAIN o.environ => u.environ[m] = o.environ[m]
    <3>1. m # n
      OBVIOUS
    <3> QED BY <2>1, <3>1
  <2> QED BY <2>1, <2>2, <2>3 DEF u
<1> DEFINE u == SetEnv(p, n, v)
           w == SetEnv(q, n, v)
<1>3. /\ IsProcess(u) /\ u.config = p.config /\ u.error = p.error
      /\ \A m \in Settings : Setting(u, m) = Setting(p, m)
      /\ \A m \in S : m \in DOMAIN u.environ <=> m \in DOMAIN p.environ
      /\ \A m \in S : m \in DOMAIN p.environ => u.environ[m] = p.environ[m]
  BY <1>1, <1>2
<1>4. /\ IsProcess(w) /\ w.config = q.config /\ w.error = q.error
      /\ \A m \in Settings : Setting(w, m) = Setting(q, m)
      /\ \A m \in S : m \in DOMAIN w.environ <=> m \in DOMAIN q.environ
      /\ \A m \in S : m \in DOMAIN q.environ => w.environ[m] = q.environ[m]
  BY <1>1, <1>2
<1> HIDE DEF u, w
<1>5. \A m \in S : Agree(u, q, m)
  BY <1>3 DEF Alike, Agree
<1>6. \A m \in S : Agree(p, w, m)
  BY <1>4 DEF Alike, Agree
<1>7. Alike(u, q, S)
  BY <1>3, <1>5 DEF Alike
<1>8. Alike(p, w, S)
  BY <1>4, <1>6 DEF Alike
<1> QED BY <1>7, <1>8 DEF u, w

LEMMA LimitAlike ==
  ASSUME NEW p, NEW q, NEW S, Alike(p, q, S)
  PROVE  Alike(SetTkvLimit(p), SetTkvLimit(q), S)
<1> DEFINE n == p.config.max_model_len * p.config.max_num_seqs
           u == SetEnv(p, TkvLimit, n)
           w == SetEnv(q, TkvLimit, n)
<1>1. /\ SetTkvLimit(p) = IF TkvLimit \in DOMAIN p.environ THEN p ELSE u
      /\ SetTkvLimit(q) = IF TkvLimit \in DOMAIN q.environ THEN q ELSE w
  BY DEF SetTkvLimit, Alike
<1> HIDE DEF n
<1>2. TkvLimit \notin Settings
  BY NamesApart DEF Lasting
<1>3. CASE TkvLimit \in S
  <2>1. TkvLimit \in DOMAIN p.environ <=> TkvLimit \in DOMAIN q.environ
    BY <1>3 DEF Alike, Agree
  <2>2. Alike(u, w, S)
    BY <1>2, <1>3, AlikeNewSet
  <2> HIDE DEF u, w
  <2> QED BY <1>1, <2>1, <2>2
<1>4. CASE TkvLimit \notin S
  <2>1. Alike(u, q, S) /\ Alike(p, w, S)
    BY <1>2, <1>4, AlikeOneSet
  <2>2. Alike(u, w, S)
    <3> HIDE DEF u
    <3> QED BY <1>2, <1>4, <2>1, AlikeOneSet
  <2> HIDE DEF u, w
  <2> QED BY <1>1, <2>1, <2>2
<1> QED BY <1>3, <1>4

LEMMA VarsAlike ==
  ASSUME NEW p, NEW q, NEW S, Alike(p, q, S)
  PROVE  Alike(SetCompilerVars(p), SetCompilerVars(q), S \cup CompilerVars)
<1> DEFINE x == "VLLM_DT_MAX_CONTEXT_LEN"
           y == "VLLM_DT_MAX_BATCH_SIZE"
           m == p.config.max_model_len
           n == Larger(p.config.max_num_seqs, 2)
           T == (S \cup {x}) \cup {y}
           a == SetEnv(p, x, m)
           b == SetEnv(q, x, m)
           u == SetEnv(a, y, n)
           w == SetEnv(b, y, n)
<1>1. SetCompilerVars(p) = SetTkvLimit(u) /\ SetCompilerVars(q) = SetTkvLimit(w)
  BY DEF SetCompilerVars, Alike
<1>2. x \notin Settings /\ y \notin Settings
  BY DEF Settings, Defaults
<1>3. T = S \cup CompilerVars
  BY DEF CompilerVars
<1> HIDE DEF m, n
<1>4. Alike(a, b, S \cup {x})
  BY <1>2, AlikeSet
<1> HIDE DEF a, b
<1>5. Alike(u, w, T)
  BY <1>2, <1>4, AlikeSet
<1> HIDE DEF u, w, T
<1>6. Alike(SetTkvLimit(u), SetTkvLimit(w), T)
  BY <1>5, LimitAlike
<1> QED BY <1>1, <1>3, <1>6

LEMMA PrecompiledAlike ==
  ASSUME NEW p, NEW q, NEW S, Alike(p, q, S)
  PROVE  Alike(DisableCompilation(p), DisableCompilation(q), S)
<1> DEFINE x == "VLLM_SPYRE_REQUIRE_PRECOMPILED_DECODERS"
           y == "DISABLE_COMPILATION"
           yes == TRUE
           on == Setting(p, x)
           a == Read(p, {x})
           b == Read(q, {x})
           u == SetEnv(a, y, yes)
           w == SetEnv(b, y, yes)
           T == S \cup {y}
<1>1. Setting(q, x) = on /\ q.config = p.config
  BY DEF Alike, Settings, Defaults
<1>2. /\ DisableCompilation(p) = IF ~on THEN a ELSE IF ~IsDecoder(p.config) THEN a
                                 ELSE IF PrecompiledCache THEN u ELSE Fail(u, "precompiled")
      /\ DisableCompilation(q) = IF ~on THEN b ELSE IF ~IsDecoder(p.config) THEN b
                                 ELSE IF PrecompiledCache THEN w ELSE Fail(w, "precompiled")
  BY <1>1 DEF DisableCompilation
<1> HIDE DEF yes, on
<1>3. Alike(a, b, S)
  BY AlikeRead
<1> HIDE DEF a, b
<1>4. Alike(u, w, S)
  <2>1. y \notin Settings /\ S \subseteq T
    BY DEF Settings, Defaults
  <2>2. Alike(u, w, T)
    BY <1>3, <2>1, AlikeSet
  <2> HIDE DEF T, u, w
  <2> QED BY <2>1, <2>2, AlikeWeaken
<1> HIDE DEF u, w
<1>5. Alike(Fail(u, "precompiled"), Fail(w, "precompiled"), S)
  BY <1>4, AlikeFail
<1> QED BY <1>2, <1>3, <1>4, <1>5
-----------------------------------------------------------------------------
(***************************************************************************)
(* The whole check in two processes.                                       *)
(***************************************************************************)
\* As long as there is no error they are alike.
Follows(p, q, S) == p.error = q.error /\ (p.error = "none" => Alike(p, q, S))

LEMMA FollowsNext ==
  ASSUME NEW p, NEW q, NEW S, Follows(p, q, S), NEW o, NEW r, NEW T,
         p.error = "none" => Alike(o, r, T),
         p.error # "none" => o = p, q.error # "none" => r = q
  PROVE  Follows(o, r, T)
BY DEF Follows, Alike

\* Shapes are those that were there, or all those that are listed.
LEMMA ShapesAfter ==
  ASSUME NEW p, IsProcess(p), NEW c, IsConfig(c), WithRunner(p, c).error = "none"
  PROVE  IF IsDecoder(c) THEN WithRunner(p, c).shapes = p.shapes ELSE Listed(WithRunner(p, c))
<1> DEFINE p0 == Given(p, c)
           p1 == Started(p, c)
           p2 == WithThreads(p, c)
           p3 == WithMode(p, c)
           p4 == WithRunner(p, c)
<1>1. Along(p, c, p1) /\ Along(p, c, p2) /\ Along(p, c, p3) /\ Along(p, c, p4)
  BY StagesAlong
<1>2. /\ IsProcess(p0) /\ p0.config = c /\ p0.error = "none" /\ p0.shapes = p.shapes
  BY GivenIs
<1>3. /\ p1 = CheckRunner(p0)
      /\ p2 = IF p1.error = "none" THEN CheckThreading(p1) ELSE p1
      /\ p3 = IF p2.error = "none" THEN SetCompilationMode(p2) ELSE p2
      /\ p4 = IF p3.error = "none" THEN CheckRunnerConfig(p3) ELSE p3
  BY DEF Started, WithThreads, WithMode, WithRunner, Then
<1>4. p4.error = "none"
  OBVIOUS
<1> HIDE DEF p0, p1, p2, p3, p4
<1>5. p3.error = "none" /\ p2.error = "none" /\ p1.error = "none"
  BY <1>3, <1>4
<1>6. Ready(p0) /\ Ready(p1) /\ Ready(p2) /\ Ready(p3)
  BY <1>1, <1>2, <1>5, ConfigFields DEF Along, Frame, Same, Ready
<1>7. p1.shapes = p.shapes /\ p2.shapes = p.shapes /\ p3.shapes = p.shapes
  BY <1>2, <1>3, <1>5, <1>6, CheckRunnerIs, CheckThreadingIs, SetCompilationModeIs
<1>8. /\ IsDecoder(p3.config) => p4.shapes = p3.shapes
      /\ RunnerConfigured(p4)
  BY <1>3, <1>4, <1>5, <1>6, CheckRunnerConfigIs
<1>9. IsDecoder(p3.config) = IsDecoder(c) /\ IsDecoder(p4.config) = IsDecoder(c)
  <2>1. p3.config["runner"] = c["runner"] /\ p4.config["runner"] = c["runner"]
    BY <1>1 DEF Along, Same, Fields, ChangedFields, CacheFields
  <2> QED BY <2>1 DEF IsDecoder
<1> QED BY <1>7, <1>8, <1>9 DEF RunnerConfigured, p4

\* What an engine that is asked for with c takes from the environment.
Taken(c) == {"VLLM_USE_V1"} \cup IF IsDecoder(c) THEN Lasting ELSE {}

LEMMA OutcomeAlike ==
  ASSUME NEW p, NEW q, NEW c, IsConfig(c), Alike(Given(p, c), Given(q, c), Taken(c)),
         IsProcess(p), IsProcess(q), IsDecoder(c) => p.shapes = {} /\ q.shapes = {},
         DOMAIN Setting(p, "VLLM_SPYRE_WARMUP_PROMPT_LENS") # {}
  PROVE  Outcome(CheckAndUpdateConfig(p, c)) = Outcome(CheckAndUpdateConfig(q, c))
<1> DEFINE p1 == Started(p, c)
           p2 == WithThreads(p, c)
           p3 == WithMode(p, c)
           p4 == WithRunner(p, c)
           p5 == WithDevice(p, c)
           p6 == WithCache(p, c)
           p7 == WithVars(p, c)
           p8 == CheckAndUpdateConfig(p, c)
           q1 == Started(q, c)
           q2 == WithThreads(q, c)
           q3 == WithMode(q, c)
           q4 == WithRunner(q, c)
           q5 == WithDevice(q, c)
           q6 == WithCache(q, c)
           q7 == WithVars(q, c)
           q8 == CheckAndUpdateConfig(q, c)
           x == "VLLM_SPYRE_WARMUP_PROMPT_LENS"
           S1 == Taken(c)
           S3 == S1 \cup {"COMPILATION_MODE"}
           S6 == IF IsDecoder(c) THEN S3 \cup {"VLLM_DT_CHUNK_LEN"} ELSE S3
           S7 == S6 \cup CompilerVars
<1>1. /\ Along(p, c, p3) /\ Along(p, c, p4) /\ Along(p, c, p5) /\ Along(p, c, p8)
  BY StagesAlong
<1>2. /\ p2 = IF p1.error = "none" THEN CheckThreading(p1) ELSE p1
      /\ q2 = IF q1.error = "none" THEN CheckThreading(q1) ELSE q1
      /\ p3 = IF p2.error = "none" THEN SetCompilationMode(p2) ELSE p2
      /\ q3 = IF q2.error = "none" THEN SetCompilationMode(q2) ELSE q2
      /\ p4 = IF p3.error = "none" THEN CheckRunnerConfig(p3) ELSE p3
      /\ q4 = IF q3.error = "none" THEN CheckRunnerConfig(q3) ELSE q3
      /\ p5 = IF p4.error = "none" THEN ApplyRegistry(p4) ELSE p4
      /\ q5 = IF q4.error = "none" THEN ApplyRegistry(q4) ELSE q4
      /\ p6 = IF p5.error = "none" THEN SetCache(p5) ELSE p5
      /\ q6 = IF q5.error = "none" THEN SetCache(q5) ELSE q5
      /\ p7 = IF p6.error = "none" THEN SetCompilerVars(p6) ELSE p6
      /\ q7 = IF q6.error = "none" THEN SetCompilerVars(q6) ELSE q6
      /\ p8 = IF p7.error = "none" THEN DisableCompilation(p7) ELSE p7
      /\ q8 = IF q7.error = "none" THEN DisableCompilation(q7) ELSE q7
  BY InStages DEF WithThreads, WithMode, WithRunner, WithDevice, WithCache, WithVars, Then
<1>3. IsDecoder(p5.config) = IsDecoder(c) /\ IsDecoder(p8.config) = IsDecoder(c)
  <2>1. p5.config["runner"] = c["runner"] /\ p8.config["runner"] = c["runner"]
    BY <1>1 DEF Along, Same, Fields, ChangedFields, CacheFields
  <2> QED BY <2>1 DEF IsDecoder
<1>4. p3.error = "none" => Ready(p3)
  BY <1>1 DEF Along, Frame, Same, Ready
<1>5. p4.error = "none" /\ q4.error = "none" =>
        IF IsDecoder(c) THEN p4.shapes = {} /\ q4.shapes = {} ELSE Listed(p4) /\ Listed(q4)
  BY ShapesAfter
<1>6. DOMAIN Setting(p4, x) # {}
  <2>1. x \in Settings
    BY DEF Settings, Defaults
  <2>2. Setting(p4, x) = Setting(p, x)
    <3> HIDE DEF x
    <3> QED BY <1>1, <2>1 DEF Along, Frame
  <2> QED BY <2>2
<1>w. /\ "VLLM_USE_V1" \in S1
      /\ IsDecoder(c) => TkvLimit \in S3 /\ DeviceVariables \subseteq S3
      /\ {"COMPILATION_MODE", "VLLM_DT_MAX_CONTEXT_LEN", "VLLM_DT_MAX_BATCH_SIZE"} \subseteq S7
      /\ IsDecoder(c) => {"VLLM_DT_CHUNK_LEN", TkvLimit} \subseteq S7
  BY DEF Taken, Lasting, CompilerVars
<1> HIDE DEF p1, p2, p3, p4, p5, p6, p7, p8, q1, q2, q3, q4, q5, q6, q7, q8, S1, S3, S6, S7
<1>11. Follows(p1, q1, S1)
  <2>1. Alike(p1, q1, S1)
    BY <1>w, RunnerAlike DEF Started, p1, q1, S1
  <2> QED BY <2>1 DEF Follows, Alike
<1>12. Follows(p2, q2, S1)
  <2>1. p1.error = "none" => Alike(CheckThreading(p1), CheckThreading(q1), S1)
    BY <1>11, ThreadingAlike DEF Follows
  <2>2. /\ p1.error = "none" => Alike(p2, q2, S1)
        /\ p1.error # "none" => p2 = p1
        /\ q1.error # "none" => q2 = q1
    BY <1>2, <1>11, <2>1 DEF Follows
  <2> QED BY <1>11, <2>2, FollowsNext
<1>13. Follows(p3, q3, S3)
  <2>1. p2.error = "none" => Alike(SetCompilationMode(p2), SetCompilationMode(q2), S3)
    BY <1>12, ModeAlike DEF Follows, S3
  <2>2. /\ p2.error = "none" => Alike(p3, q3, S3)
        /\ p2.error # "none" => p3 = p2
        /\ q2.error # "none" => q3 = q2
    BY <1>2, <1>12, <2>1 DEF Follows
  <2> QED BY <1>12, <2>2, FollowsNext
<1>14. Follows(p4, q4, S3)
  <2>1. p3.error = "none" => Alike(CheckRunnerConfig(p3), CheckRunnerConfig(q3), S3)
    BY <1>4, <1>13, RunnerConfigAlike DEF Follows
  <2>2. /\ p3.error = "none" => Alike(p4, q4, S3)
        /\ p3.error # "none" => p4 = p3
        /\ q3.error # "none" => q4 = q3
    BY <1>2, <1>13, <2>1 DEF Follows
  <2> QED BY <1>13, <2>2, FollowsNext
<1>15. Follows(p5, q5, S3)
  <2>1. ASSUME p4.error = "none" PROVE Alike(ApplyRegistry(p4), ApplyRegistry(q4), S3)
    <3>1. Alike(p4, q4, S3) /\ q4.error = "none"
      BY <1>14, <2>1 DEF Follows
    <3>2. CASE IsDecoder(c)
      <4>1. p4.shapes = q4.shapes /\ DeviceVariables \subseteq S3
        BY <1>5, <1>w, <2>1, <3>1, <3>2
      <4> QED BY <2>1, <3>1, <4>1, RegistryAlike
    <3>3. CASE ~IsDecoder(c)
      <4>1. Listed(p4) /\ Listed(q4)
        BY <1>5, <2>1, <3>1, <3>3
      <4>2. /\ Setting(q4, "VLLM_SPYRE_WARMUP_PROMPT_LENS")
                 = Setting(p4, "VLLM_SPYRE_WARMUP_PROMPT_LENS")
            /\ Setting(q4, "VLLM_SPYRE_WARMUP_BATCH_SIZES")
                 = Setting(p4, "VLLM_SPYRE_WARMUP_BATCH_SIZES")
        BY <3>1 DEF Alike, Settings, Defaults
      <4>3. p4.shapes = q4.shapes
        BY <4>1, <4>2 DEF Listed
      <4>4. p4.shapes # {}
        BY <1>6, <4>1 DEF Listed
      <4> QED BY <2>1, <3>1, <4>3, <4>4, RegistryAlike
    <3> QED BY <3>2, <3>3
  <2>2. /\ p4.error = "none" => Alike(p5, q5, S3)
        /\ p4.error # "none" => p5 = p4
        /\ q4.error # "none" => q5 = q4
    BY <1>2, <1>14, <2>1 DEF Follows
  <2> QED BY <1>14, <2>2, FollowsNext
<1>16. Follows(p6, q6, S6)
  <2>1. p5.error = "none" => Alike(SetCache(p5), SetCache(q5), S6)
    BY <1>3, <1>15, <1>w, CacheAlike DEF Follows, S6
  <2>2. /\ p5.error = "none" => Alike(p6, q6, S6)
        /\ p5.error # "none" => p6 = p5
        /\ q5.error # "none" => q6 = q5
    BY <1>2, <1>15, <2>1 DEF Follows
  <2> QED BY <1>15, <2>2, FollowsNext
<1>17. Follows(p7, q7, S7)
  <2>1. p6.error = "none" => Alike(SetCompilerVars(p6), SetCompilerVars(q6), S7)
    BY <1>16, VarsAlike DEF Follows, S7
  <2>2. /\ p6.error = "none" => Alike(p7, q7, S7)
        /\ p6.error # "none" => p7 = p6
        /\ q6.error # "none" => q7 = q6
    BY <1>2, <1>16, <2>1 DEF Follows
  <2> QED BY <1>16, <2>2, FollowsNext
<1>18. Follows(p8, q8, S7)
  <2>1. p7.error = "none" => Alike(DisableCompilation(p7), DisableCompilation(q7), S7)
    BY <1>17, PrecompiledAlike DEF Follows
  <2>2. /\ p7.error = "none" => Alike(p8, q8, S7)
        /\ p7.error # "none" => p8 = p7
        /\ q7.error # "none" => q8 = q7
    BY <1>2, <1>17, <2>1 DEF Follows
  <2> QED BY <1>17, <2>2, FollowsNext
<1>19. Outcome(p8) = Outcome(q8)
  <2>1. CASE p8.error # "none"
    BY <1>18, <2>1 DEF Follows, Outcome
  <2>2. CASE p8.error = "none"
    <3> DEFINE X == {"COMPILATION_MODE", "VLLM_DT_MAX_CONTEXT_LEN", "VLLM_DT_MAX_BATCH_SIZE"}
                      \cup IF IsDecoder(c) THEN {"VLLM_DT_CHUNK_LEN", TkvLimit} ELSE {}
               D == DOMAIN p8.environ \cap X
    <3>1. Alike(p8, q8, S7) /\ q8.error = "none" /\ q8.config = p8.config
      BY <1>18, <2>2 DEF Follows, Alike
    <3>2. \A n \in X : Agree(p8, q8, n)
      <4>1. X \subseteq S7
        BY <1>w
      <4> HIDE DEF X
      <4> QED BY <3>1, <4>1 DEF Alike
    <3>3. /\ Outcome(p8) = <<p8.config, Restrict(p8.environ, D)>>
          /\ Outcome(q8) = <<p8.config, Restrict(q8.environ, DOMAIN q8.environ \cap X)>>
      BY <1>3, <2>2, <3>1 DEF Outcome
    <3> HIDE DEF X
    <3>4. DOMAIN q8.environ \cap X = D /\ \A n \in D : q8.environ[n] = p8.environ[n]
      BY <3>2 DEF Agree
    <3> HIDE DEF D
    <3>5. Restrict(p8.environ, D) = Restrict(q8.environ, D)
      BY <3>4 DEF Restrict
    <3> QED BY <3>3, <3>4, <3>5
  <2> QED BY <2>1, <2>2
<1> QED BY <1>19 DEF p8, q8
-----------------------------------------------------------------------------
(***************************************************************************)
(* What process p holds of the environment u that the user made, where the *)
(* settings in S changed after they were cached: the settings, the choice  *)
(* of the engine, and his values of variables that are never overwritten.  *)
(***************************************************************************)
Kept == Settings \cup {"VLLM_USE_V1"}

Remembers(p, u, S) ==
  /\ IsMapping(u)
  /\ \A n \in Settings \ S : Setting(p, n) = Evaluated(u, n)
  /\ \A n \in Kept : n \in DOMAIN p.environ <=> n \in DOMAIN u
  /\ \A n \in Kept \cup Lasting :
       n \in DOMAIN u => n \in DOMAIN p.environ /\ p.environ[n] = u[n]
  /\ "VLLM_SPYRE_WARMUP_PROMPT_LENS" \in DOMAIN u =>
       DOMAIN u["VLLM_SPYRE_WARMUP_PROMPT_LENS"] # {}

UserInv == Remembers(Process, user, unseen)

\* A check, whatever it finds, keeps that.
LEMMA CheckRemembers ==
  ASSUME NEW p, IsProcess(p), NEW c, IsConfig(c), NEW u, NEW S, Remembers(p, u, S)
  PROVE  Remembers(CheckAndUpdateConfig(p, c), u, S)
<1> DEFINE q == CheckAndUpdateConfig(p, c)
<1>1. Frame(p, q, Overwritten)
  BY StagesAlong DEF Along
<1> HIDE DEF q
<1>2. \A n \in Settings \ S : Setting(q, n) = Evaluated(u, n)
  BY <1>1 DEF Frame, Remembers
<1>3. ASSUME NEW n \in Kept PROVE n \in DOMAIN q.environ <=> n \in DOMAIN u
  <2>1. n \notin Overwritten \cup Lasting
    BY NamesApart DEF Kept
  <2> QED BY <1>1, <2>1 DEF Frame, Remembers
<1>4. ASSUME NEW n \in Kept \cup Lasting, n \in DOMAIN u
      PROVE  n \in DOMAIN q.environ /\ q.environ[n] = u[n]
  <2>1. n \notin Overwritten
    BY NamesApart DEF Kept
  <2> QED BY <1>1, <1>4, <2>1 DEF Frame, Remembers
<1>5. Remembers(q, u, S)
  BY <1>2, <1>3, <1>4 DEF Remembers
<1> QED BY <1>5 DEF q

\* So do the user's own changes, for the environment that he made of it.
LEMMA ChangeRemembers ==
  ASSUME NEW p, IsProcess(p), NEW u, NEW S, Remembers(p, u, S), NEW n, NEW v,
         n = "VLLM_SPYRE_WARMUP_PROMPT_LENS" => DOMAIN v # {},
         NEW q, q.environ = With(p.environ, n, v), NEW T,
         \/ /\ q.cache = p.cache
            /\ T = IF n \in DOMAIN p.cache /\ p.cache[n] # v THEN S \cup {n} ELSE S \ {n}
         \/ q.cache = With(p.cache, n, v) /\ T = S \ {n}
  PROVE  Remembers(q, With(u, n, v), T)
<1> DEFINE w == With(u, n, v)
           e == With(p.environ, n, v)
           o == p.environ
<1>1. /\ IsMapping(w) /\ DOMAIN w = DOMAIN u \cup {n} /\ w[n] = v
      /\ \A m \in DOMAIN u : m # n => w[m] = u[m]
  BY DEF With, IsMapping
<1>2. /\ DOMAIN e = DOMAIN o \cup {n} /\ e[n] = v
      /\ \A m \in DOMAIN o : m # n => e[m] = o[m]
  <2> HIDE DEF o
  <2>1. e = With(o, n, v)
    BY DEF o
  <2> HIDE DEF e
  <2> QED BY <2>1 DEF With
<1>3. \A m : m # n => /\ m \in DOMAIN q.cache <=> m \in DOMAIN p.cache
                      /\ m \in DOMAIN p.cache => q.cache[m] = p.cache[m]
  <2> DEFINE k == p.cache
  <2>1. /\ DOMAIN With(k, n, v) = DOMAIN k \cup {n}
        /\ \A m \in DOMAIN k : m # n => With(k, n, v)[m] = k[m]
    <3> HIDE DEF k
    <3> QED BY DEF With
  <2> HIDE DEF k, e, w
  <2>2. q.cache = k \/ q.cache = With(k, n, v)
    BY DEF k
  <2>3. \A m : m # n => /\ m \in DOMAIN q.cache <=> m \in DOMAIN k
                        /\ m \in DOMAIN k => q.cache[m] = k[m]
    BY <2>1, <2>2
  <2> QED BY <2>3 DEF k
<1>4. n \notin T => n \notin DOMAIN q.cache \/ q.cache[n] = v
  <2> DEFINE k == p.cache
  <2>1. With(k, n, v)[n] = v
    <3> HIDE DEF k
    <3> QED BY DEF With
  <2> QED BY <2>1
<1>5. q.environ = e
  OBVIOUS
<1> HIDE DEF w, e
<1>6. ASSUME NEW m \in Settings \ T PROVE Setting(q, m) = Evaluated(w, m)
  <2>1. CASE m = n
    BY <1>1, <1>2, <1>4, <1>5, <2>1 DEF Setting, Evaluated
  <2>2. CASE m # n
    <3>1. m \in Settings \ S
      BY <2>2
    <3>2. Setting(p, m) = Evaluated(u, m)
      BY <3>1 DEF Remembers
    <3>3. Setting(q, m) = Setting(p, m)
      BY <1>2, <1>3, <1>5, <2>2 DEF Setting, Evaluated, o
    <3>4. Evaluated(w, m) = Evaluated(u, m)
      BY <1>1, <2>2 DEF Evaluated
    <3> QED BY <3>2, <3>3, <3>4
  <2> QED BY <2>1, <2>2
<1>7. \A m \in Kept : m \in DOMAIN q.environ <=> m \in DOMAIN w
  BY <1>1, <1>2, <1>5 DEF Remembers
<1>8. \A m \in Kept \cup Lasting :
        m \in DOMAIN w => m \in DOMAIN q.environ /\ q.environ[m] = w[m]
  BY <1>1, <1>2, <1>5 DEF Remembers
<1>9. "VLLM_SPYRE_WARMUP_PROMPT_LENS" \in DOMAIN w =>
        DOMAIN w["VLLM_SPYRE_WARMUP_PROMPT_LENS"] # {}
  BY <1>1 DEF Remembers
<1>10. Remembers(q, w, T)
  BY <1>1, <1>6, <1>7, <1>8, <1>9 DEF Remembers
<1> QED BY <1>10 DEF w

LEMMA UserStep == PlatformInv /\ UserInv /\ [Next]_vars => UserInv'
<1> SUFFICES ASSUME PlatformInv, UserInv, [Next]_vars PROVE UserInv'
  OBVIOUS
<1>0. /\ IsProcess(Process) /\ Process.environ = environ /\ Process.cache = cache
      /\ Remembers(Process, user, unseen)
  BY DEF PlatformInv, UserInv, Process
<1>1. Remembers(Process', user', unseen') => UserInv'
  BY DEF UserInv, Remembers, Setting, Evaluated
<1>2. ASSUME NEW c \in Configs, Configure(c) PROVE UserInv'
  <2> DEFINE p == CheckAndUpdateConfig(Process, c)
  <2>1. IsConfig(c)
    BY RequestsAssumption
  <2>2. Remembers(p, user, unseen)
    BY <1>0, <2>1, CheckRemembers
  <2>3. IsProcess(p)
    BY <1>0, <2>1, StagesAlong DEF Along, Frame
  <2>4. Becomes(p) /\ user' = user /\ unseen' = unseen
    BY <1>2 DEF Configure
  <2> HIDE DEF p
  <2>5. Process' = p
    BY <2>3, <2>4, BecomesIs
  <2> QED BY <1>1, <2>2, <2>4, <2>5
<1>3. ASSUME NEW change \in Changes, SetVariable(change[1], change[2]) PROVE UserInv'
  <2> DEFINE n == change[1]
             v == change[2]
             p == SetEnv(Process, n, v)
             w == With(user, n, v)
             e == With(Process.environ, n, v)
             T == IF n \in DOMAIN cache /\ cache[n] # v THEN unseen \cup {n} ELSE unseen \ {n}
  <2>1. Becomes(p) /\ user' = w /\ unseen' = T
    BY <1>3 DEF SetVariable
  <2>2. n = "VLLM_SPYRE_WARMUP_PROMPT_LENS" => DOMAIN v # {}
    BY RequestsAssumption
  <2> HIDE DEF n, v
  <2>3. /\ IsProcess(p) /\ p.cache = cache /\ p.environ = e
    <3>1. p.environ = e
      BY <1>0 DEF SetEnv, IsProcess
    <3> HIDE DEF e
    <3> QED BY <1>0, <3>1, SetEnvIs
  <2> HIDE DEF p
  <2>4. Remembers(p, w, T)
    BY <1>0, <2>2, <2>3, ChangeRemembers
  <2>5. Process' = p
    BY <2>1, <2>3, BecomesIs
  <2> HIDE DEF w, T
  <2> QED BY <1>1, <2>1, <2>4, <2>5
<1>4. ASSUME NEW change \in Changes, OverrideSetting(change[1], change[2]) PROVE UserInv'
  <2> DEFINE n == change[1]
             v == change[2]
             p == Override(Process, n, v)
             w == With(user, n, v)
             T == unseen \ {n}
  <2>1. Becomes(p) /\ user' = w /\ unseen' = T
    BY <1>4 DEF OverrideSetting
  <2>2. n = "VLLM_SPYRE_WARMUP_PROMPT_LENS" => DOMAIN v # {}
    BY RequestsAssumption
  <2> HIDE DEF n, v
  <2>3. /\ IsProcess(p) /\ p.environ = With(Process.environ, n, v)
        /\ p.cache = With(Process.cache, n, v)
    BY <1>0, OverrideIs
  <2> HIDE DEF p
  <2>4. Remembers(p, w, T)
    BY <1>0, <2>2, <2>3, ChangeRemembers
  <2>5. Process' = p
    BY <2>1, <2>3, BecomesIs
  <2> HIDE DEF w, T
  <2> QED BY <1>1, <2>1, <2>4, <2>5
<1>5. ASSUME ClearCache PROVE UserInv'
  <2> DEFINE p == ClearEnvCache(Process)
  <2>1. Becomes(p) /\ user' = user /\ unseen' = {}
    BY <1>5 DEF ClearCache
  <2>2. IsProcess(p) /\ p.environ = environ /\ p.cache = <<>>
    BY <1>0, ClearIs
  <2> HIDE DEF p
  <2>3. ASSUME NEW n \in Settings PROVE Setting(p, n) = Evaluated(user, n)
    <3>1. Setting(p, n) = Evaluated(environ, n)
      BY <2>2 DEF Setting
    <3>2. Evaluated(environ, n) = Evaluated(user, n)
      BY <1>0 DEF Remembers, Kept, Evaluated
    <3> QED BY <3>1, <3>2
  <2>4. Remembers(p, user, {})
    BY <1>0, <2>2, <2>3 DEF Remembers
  <2>5. Process' = p
    BY <2>1, <2>2, BecomesIs
  <2> QED BY <1>1, <2>1, <2>4, <2>5
<1>6. ASSUME UNCHANGED vars PROVE UserInv'
  <2>1. Process' = Process /\ user' = user /\ unseen' = unseen
    BY <1>6 DEF vars, Process
  <2> QED BY <1>0, <1>1, <2>1
<1> QED BY <1>2, <1>3, <1>4, <1>5, <1>6 DEF Next

\* After any engines and changes, check_and_update_config gives the next engine
\* what it would give it in a new process with the environment of the user, if
\* no setting is cached that he changed, and a decoder finds no Leftovers.
THEOREM ForgetsHistoryHolds == Spec => []ForgetsHistory
<1>1. Init => UserInv
  <2> SUFFICES ASSUME Init PROVE UserInv
    OBVIOUS
  <2>1. Process.environ = <<>> /\ Process.cache = <<>> /\ user = <<>>
    BY DEF Init, Process
  <2>2. IsMapping(<<>>) /\ DOMAIN <<>> = {}
    BY DEF IsMapping
  <2> QED BY <2>1, <2>2 DEF UserInv, Remembers, Setting
<1>2. PlatformInv /\ UserInv => ForgetsHistory
  <2> SUFFICES ASSUME PlatformInv, UserInv, NEW c \in Configs, unseen = {},
                      IsDecoder(c) => ~Leftovers
               PROVE  Outcome(CheckAndUpdateConfig(Process, c)) =
                        Outcome(CheckAndUpdateConfig(FreshProcess(user), c))
    BY DEF ForgetsHistory
  <2> DEFINE p == Process
             q == FreshProcess(user)
             a == Given(p, c)
             b == Given(q, c)
             x == "VLLM_SPYRE_WARMUP_PROMPT_LENS"
  <2>1. /\ IsProcess(p) /\ p.environ = environ /\ p.shapes = shapes
        /\ Remembers(p, user, unseen)
    BY DEF PlatformInv, UserInv, Process
  <2>2. IsProcess(q) /\ q.environ = user /\ q.cache = <<>> /\ q.shapes = {}
    <3>1. IsMapping(user) /\ IsMapping(<<>>)
      BY <2>1 DEF Remembers, IsMapping
    <3> QED BY <3>1 DEF FreshProcess, IsProcess
  <2> HIDE DEF p, q
  <2>3. /\ IsProcess(a) /\ a.environ = p.environ /\ a.cache = p.cache
        /\ a.config = c /\ a.error = "none"
        /\ IsProcess(b) /\ b.environ = q.environ /\ b.cache = q.cache
        /\ b.config = c /\ b.error = "none"
    BY <2>1, <2>2, GivenIs
  <2> HIDE DEF a, b
  <2>4. ASSUME NEW n \in Settings PROVE Setting(a, n) = Setting(b, n)
    <3>1. Setting(p, n) = Evaluated(user, n)
      BY <2>1 DEF Remembers
    <3>2. Setting(q, n) = Evaluated(user, n)
      BY <2>2 DEF Setting
    <3> QED BY <2>3, <3>1, <3>2 DEF Setting
  <2>5. ASSUME NEW n \in Taken(c) PROVE Agree(a, b, n)
    <3>1. n \in DOMAIN user => n \in DOMAIN environ /\ environ[n] = user[n]
      BY <2>1 DEF Remembers, Kept, Taken
    <3>2. n \in DOMAIN environ => n \in DOMAIN user
      <4>1. CASE n = "VLLM_USE_V1"
        BY <2>1, <4>1 DEF Remembers, Kept
      <4>2. CASE n \in Lasting /\ IsDecoder(c)
        BY <4>2 DEF Leftovers, Lasting
      <4> QED BY <4>1, <4>2 DEF Taken
    <3> QED BY <2>1, <2>2, <2>3, <3>1, <3>2 DEF Agree
  <2>6. Alike(a, b, Taken(c))
    BY <2>3, <2>4, <2>5 DEF Alike
  <2>7. IsDecoder(c) => p.shapes = {} /\ q.shapes = {}
    BY <2>1, <2>2 DEF Leftovers
  <2>8. DOMAIN Setting(p, x) # {}
    <3>1. Setting(p, x) = Evaluated(user, x)
      BY <2>1 DEF Remembers, Settings, Defaults
    <3>2. CASE x \in DOMAIN user
      BY <2>1, <3>1, <3>2 DEF Remembers, Evaluated
    <3>3. CASE x \notin DOMAIN user
      <4>1. Setting(p, x) = <<64>>
        BY <3>1, <3>3 DEF Evaluated, Defaults
      <4> QED BY <4>1
    <3> QED BY <3>2, <3>3
  <2>9. IsConfig(c)
    BY RequestsAssumption
  <2> QED BY <2>1, <2>2, <2>6, <2>7, <2>8, <2>9, OutcomeAlike DEF a, b, p, q
<1> QED BY <1>1, <1>2, PlatformInit, PlatformStep, UserStep, PTL DEF Spec
=============================================================================
