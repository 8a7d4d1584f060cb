---------------------------- MODULE PoolingProofs ----------------------------
(***************************************************************************)
(* Batches of pooling requests, for all warmup shapes and any number of    *)
(* requests: the scheduler takes them in the order of their arrival, the   *)
(* runner has a shape for each of its batches, compiled before serving,    *)
(* and every request is pooled from its own row.                           *)
(***************************************************************************)
EXTENDS PoolingEngine, SequenceLemmas

\* The longest prompt and the largest batch are those of some shape.
LEMMA LargestShapes ==
  /\ MaxModelLen \in Nat \ {0}
  /\ \A s \in Shapes : s.prompt_length <= MaxModelLen
  /\ \E s \in Shapes : s.prompt_length = MaxModelLen
  /\ MaxNumReqs \in Nat \ {0}
  /\ \A s \in Shapes : s.batch_size <= MaxNumReqs
<1> DEFINE Lengths == {s.prompt_length : s \in Shapes}
           Sizes == {s.batch_size : s \in Shapes}
           f == [s \in Shapes |-> s.prompt_length]
           g == [s \in Shapes |-> s.batch_size]
<1>1. /\ IsFiniteSet(Shapes) /\ Shapes # {}
      /\ \A s \in Shapes : s.prompt_length \in Nat \ {0} /\ s.batch_size \in Nat \ {0}
  BY ShapesAssumption
<1>2. IsFiniteSet(Lengths)
  <2>1. Lengths = {f[s] : s \in Shapes}
    OBVIOUS
  <2> HIDE DEF f, Lengths
  <2>2. IsFiniteSet({f[s] : s \in Shapes})
    BY <1>1, ImageIsFinite
  <2> QED BY <2>1, <2>2
<1>3. IsFiniteSet(Sizes)
  <2>1. Sizes = {g[s] : s \in Shapes}
    OBVIOUS
  <2> HIDE DEF g, Sizes
  <2>2. IsFiniteSet({g[s] : s \in Shapes})
    BY <1>1, ImageIsFinite
  <2> QED BY <2>1, <2>2
<1>4. Lengths \subseteq Int /\ Lengths # {} /\ Sizes \subseteq Int /\ Sizes # {}
  BY <1>1
<1>5. Max(Lengths) \in Lengths /\ \A y \in Lengths : y <= Max(Lengths)
  BY <1>2, <1>4, MaxIsGreatest
<1>6. Max(Sizes) \in Sizes /\ \A y \in Sizes : y <= Max(Sizes)
  BY <1>3, <1>4, MaxIsGreatest
<1> QED BY <1>1, <1>5, <1>6 DEF MaxModelLen, MaxNumReqs
-----------------------------------------------------------------------------
(***************************************************************************)
(* Queues in the order of arrival.                                         *)
(***************************************************************************)
Increasing(s) == \A i, j \in 1 .. Len(s) : i < j => s[i] < s[j]

\* The newest goes to the end.
LEMMA AppendIncreasing ==
  ASSUME NEW s \in Seq(Int), NEW r \in Int, Increasing(s),
         \A i \in 1 .. Len(s) : s[i] < r
  PROVE  Increasing(Append(s, r))
<1>1. /\ Len(Append(s, r)) = Len(s) + 1 /\ Len(s) \in Nat
      /\ \A i \in 1 .. Len(s) : Append(s, r)[i] = s[i]
      /\ Append(s, r)[Len(s) + 1] = r
  BY AppendProperties
<1> DEFINE t == Append(s, r)
<1> HIDE DEF t
<1>2. ASSUME NEW i \in 1 .. Len(t), NEW j \in 1 .. Len(t), i < j
      PROVE  t[i] < t[j]
  <2>1. i \in 1 .. Len(s) /\ t[i] = s[i]
    BY <1>1, <1>2 DEF t
  <2>2. CASE j \in 1 .. Len(s)
    BY <1>1, <1>2, <2>1, <2>2 DEF t, Increasing
  <2>3. CASE j = Len(s) + 1
    BY <1>1, <2>1, <2>3 DEF t
  <2> QED BY <1>1, <2>2, <2>3 DEF t
<1> QED BY <1>2 DEF Increasing, t

\* A queue before another one.
LEMMA ConcatIncreasing ==
  ASSUME NEW s \in Seq(Int), NEW t \in Seq(Int), Increasing(s), Increasing(t),
         \A i \in 1 .. Len(s), j \in 1 .. Len(t) : s[i] < t[j]
  PROVE  Increasing(s \o t)
<1> DEFINE u == s \o t
<1>1. /\ Len(u) = Len(s) + Len(t) /\ Len(s) \in Nat /\ Len(t) \in Nat
      /\ \A k \in 1 .. Len(s) + Len(t) : u[k] = IF k <= Len(s) THEN s[k] ELSE t[k - Len(s)]
  BY ConcatProperties
<1> HIDE DEF u
<1>2. ASSUME NEW i \in 1 .. Len(u), NEW j \in 1 .. Len(u), i < j
      PROVE  u[i] < u[j]
  <2>1. CASE j <= Len(s)
    BY <1>1, <1>2, <2>1, SMTT(60) DEF Increasing
  <2>2. CASE i <= Len(s) /\ ~(j <= Len(s))
    <3>1. i \in 1 .. Len(s) /\ j - Len(s) \in 1 .. Len(t)
      BY <1>1, <1>2, <2>2
    <3>2. u[i] = s[i] /\ u[j] = t[j - Len(s)]
      BY <1>1, <1>2, <2>2
    <3> QED BY <3>1, <3>2
  <2>3. CASE ~(i <= Len(s)) /\ ~(j <= Len(s))
    <3>1. /\ i - Len(s) \in 1 .. Len(t) /\ j - Len(s) \in 1 .. Len(t)
          /\ i - Len(s) < j - Len(s)
      BY <1>1, <1>2, <2>3
    <3> QED BY <1>1, <2>3, <3>1 DEF Increasing
  <2> QED BY <1>1, <1>2, <2>1, <2>2, <2>3
<1> QED BY <1>2 DEF Increasing, u

\* Whoever leaves the queue, the others stay in order.
LEMMA WithoutIncreasing ==
  ASSUME NEW s \in Seq(Int), NEW i \in 1 .. Len(s), Increasing(s)
  PROVE  /\ RemoveAt(s, i) \in Seq(Int) /\ Increasing(RemoveAt(s, i))
         /\ \A k \in 1 .. Len(RemoveAt(s, i)) :
              \E j \in 1 .. Len(s) : j # i /\ RemoveAt(s, i)[k] = s[j]
<1> DEFINE t == RemoveAt(s, i)
<1>1. /\ t \in Seq(Int) /\ Len(t) = Len(s) - 1
      /\ \A k \in 1 .. Len(s) - 1 : t[k] = IF k < i THEN s[k] ELSE s[k + 1]
  <2>1. RemoveAt(s, i) = Without(s, i)
    BY DEF RemoveAt, Without
  <2> QED BY <2>1, WithoutElements, Zenon
<1> HIDE DEF t
<1>2. \A k \in 1 .. Len(t) : \E j \in 1 .. Len(s) : j # i /\ t[k] = s[j]
  <2> TAKE k \in 1 .. Len(t)
  <2>1. CASE k < i
    BY <1>1, <2>1, SMTT(60)
  <2>2. CASE ~(k < i)
    <3>1. k + 1 \in 1 .. Len(s) /\ k + 1 # i
      BY <1>1, <2>2
    <3> QED BY <1>1, <2>2, <3>1
  <2> QED BY <2>1, <2>2
<1>3. ASSUME NEW k \in 1 .. Len(t), NEW l \in 1 .. Len(t), k < l
      PROVE  t[k] < t[l]
  <2> DEFINE p == IF k < i THEN k ELSE k + 1
             q == IF l < i THEN l ELSE l + 1
  <2>1. p \in 1 .. Len(s) /\ q \in 1 .. Len(s) /\ p < q
    BY <1>1, <1>3, SMTT(60)
  <2>2. t[k] = s[p] /\ t[l] = s[q]
    BY <1>1
  <2> HIDE DEF p, q
  <2> QED BY <2>1, <2>2 DEF Increasing
<1> QED BY <1>1, <1>2, <1>3 DEF Increasing, t

-----------------------------------------------------------------------------
(***************************************************************************)
(* The loop of schedule(): what one more request of the queue does to the  *)
(* batch, the skipped and the held back requests.                          *)
(***************************************************************************)
Sortings ==
  [batch : Seq(Int), skipped : Seq(Int), heldback : Seq(Int), shapes : SUBSET Shapes,
   full : BOOLEAN]

\* r joins the batch: t is s after it.
Joins(s, t, r) ==
  /\ ~s.full /\ Matching(r, s.shapes, Len(s.batch)) # {}
  /\ t.batch = Append(s.batch, r) /\ t.skipped = s.skipped /\ t.heldback = s.heldback
  /\ t.shapes = Matching(r, s.shapes, Len(s.batch)) /\ t.full = s.full

\* r is skipped.
Skipped(s, t, r) ==
  /\ ~s.full /\ Matching(r, s.shapes, Len(s.batch)) = {}
  /\ t.batch = s.batch /\ t.skipped = Append(s.skipped, r) /\ t.heldback = s.heldback
  /\ t.shapes = s.shapes /\ t.full = s.full

\* r is held back, as all that come after it.
HeldBack(s, t, r) ==
  /\ t.batch = s.batch /\ t.skipped = s.skipped /\ t.heldback = Append(s.heldback, r)
  /\ t.shapes = s.shapes /\ t.full = TRUE
  /\ s.full \/ Matching(r, s.shapes, Len(s.batch)) = {}

\* A request of the queue joins the batch, is skipped, or is held back.
LEMMA PlacedCases ==
  ASSUME NEW s \in Sortings, NEW r \in Int
  PROVE  /\ Placed(s, r) \in Sortings
         /\ \/ Joins(s, Placed(s, r), r)
            \/ Skipped(s, Placed(s, r), r)
            \/ HeldBack(s, Placed(s, r), r)
<1> DEFINE m == Matching(r, s.shapes, Len(s.batch))
<1>1. /\ s.batch \in Seq(Int) /\ s.skipped \in Seq(Int) /\ s.heldback \in Seq(Int)
      /\ s.shapes \subseteq Shapes /\ s.full \in BOOLEAN /\ m \subseteq Shapes
      /\ s = [batch |-> s.batch, skipped |-> s.skipped, heldback |-> s.heldback,
              shapes |-> s.shapes, full |-> s.full]
  BY DEF Sortings, Matching
<1>2. /\ Append(s.batch, r) \in Seq(Int) /\ Append(s.skipped, r) \in Seq(Int)
      /\ Append(s.heldback, r) \in Seq(Int)
  BY <1>1, AppendProperties
<1>3. CASE s.full
  <2>1. Placed(s, r) = [s EXCEPT !.heldback = Append(@, r)]
    BY <1>3 DEF Placed
  <2>2. Placed(s, r) = [batch |-> s.batch, skipped |-> s.skipped,
                        heldback |-> Append(s.heldback, r), shapes |-> s.shapes,
                        full |-> s.full]
    BY <1>1, <2>1
  <2> HIDE DEF m
  <2> DEFINE t == Placed(s, r)
  <2>3. /\ t.batch = s.batch /\ t.skipped = s.skipped /\ t.heldback = Append(s.heldback, r)
        /\ t.shapes = s.shapes /\ t.full = s.full
    BY <2>2
  <2>4. t \in Sortings
    BY <1>1, <1>2, <2>2 DEF Sortings
  <2>5. s.full = TRUE
    BY <1>1, <1>3
  <2> HIDE DEF t
  <2>6. HeldBack(s, t, r)
    <3>1. t.full = TRUE
      BY <2>3, <2>5
    <3>2. s.full \/ Matching(r, s.shapes, Len(s.batch)) = {}
      BY <1>3, Zenon
    <3> QED BY <2>3, <3>1, <3>2, Zenon DEF HeldBack
  <2> QED BY <2>4, <2>6 DEF t
<1>4. CASE ~s.full /\ m # {}
  <2>1. Placed(s, r) = [s EXCEPT !.batch = Append(@, r),
                                 !.shapes = Matching(r, @, Len(s.batch))]
    BY <1>4 DEF Placed
  <2>2. Placed(s, r) = [batch |-> Append(s.batch, r), skipped |-> s.skipped,
                        heldback |-> s.heldback, shapes |-> m, full |-> s.full]
    BY <1>1, <2>1
  <2>3. m = Matching(r, s.shapes, Len(s.batch))
    OBVIOUS
  <2> HIDE DEF m
  <2> QED BY <1>1, <1>2, <1>4, <2>2, <2>3 DEF Sortings, Joins
<1>5. CASE ~s.full /\ m = {}
  <2>1. Placed(s, r) = IF \E shape \in s.shapes : Len(s.batch) < shape.batch_size
                         THEN [s EXCEPT !.skipped = Append(@, r)]
                         ELSE [s EXCEPT !.heldback = Append(@, r), !.full = TRUE]
    BY <1>5 DEF Placed
  <2>2. \/ Placed(s, r) = [batch |-> s.batch, skipped |-> Append(s.skipped, r),
                           heldback |-> s.heldback, shapes |-> s.shapes, full |-> s.full]
        \/ Placed(s, r) = [batch |-> s.batch, skipped |-> s.skipped,
                           heldback |-> Append(s.heldback, r), shapes |-> s.shapes,
                           full |-> TRUE]
    BY <1>1, <2>1
  <2>3. m = Matching(r, s.shapes, Len(s.batch))
    OBVIOUS
  <2> DEFINE t == Placed(s, r)
  <2>4. /\ t.batch = s.batch /\ t.shapes = s.shapes
        /\ \/ /\ t.skipped = Append(s.skipped, r) /\ t.heldback = s.heldback
              /\ t.full = s.full
           \/ /\ t.skipped = s.skipped /\ t.heldback = Append(s.heldback, r)
              /\ t.full = TRUE
    BY <2>2
  <2>5. t \in Sortings
    <3>1. CASE t = [batch |-> s.batch, skipped |-> Append(s.skipped, r),
                    heldback |-> s.heldback, shapes |-> s.shapes, full |-> s.full]
      <4> HIDE DEF t
      <4> QED BY <1>1, <1>2, <3>1 DEF Sortings
    <3>2. CASE t = [batch |-> s.batch, skipped |-> s.skipped,
                    heldback |-> Append(s.heldback, r), shapes |-> s.shapes, full |-> TRUE]
      <4> HIDE DEF t
      <4> QED BY <1>1, <1>2, <3>2 DEF Sortings
    <3> QED BY <2>2, <3>1, <3>2
  <2> HIDE DEF t, m
  <2>6. Skipped(s, t, r) \/ HeldBack(s, t, r)
    BY <1>5, <2>3, <2>4 DEF Skipped, HeldBack
  <2> QED BY <2>5, <2>6 DEF t
<1> QED BY <1>1, <1>3, <1>4, <1>5

\* The loop as a chain: one value for each prefix of the queue.
LoopChain(g, queue) ==
  /\ g[0] = EmptyBatch
  /\ \A k \in 1 .. Len(queue) : g[k] = Placed(g[k - 1], queue[k])
  /\ Sorted(queue) = g[Len(queue)]

\* FoldLeft runs through such a chain.
LEMMA LoopFold ==
  ASSUME NEW queue \in Seq(Int)
  PROVE  \E g \in [0 .. Len(queue) -> Sortings] : LoopChain(g, queue)
<1> DEFINE n == Len(queue)
           G == [x \in Sortings \X (1 .. n) |-> Placed(x[1], queue[x[2]])]
           Solves(h) == h = [s \in SUBSET (1 .. n) |->
                               IF s = {} THEN EmptyBatch
                               ELSE Placed(h[s \ {Max(s)}], queue[Max(s)])]
<1>1. n \in Nat /\ DOMAIN queue = 1 .. n /\ \A k \in 1 .. n : queue[k] \in Int
  BY LenProperties, ElementOfSeq
<1>2. EmptyBatch \in Sortings
  BY EmptySeq DEF EmptyBatch, Sortings
<1>3. G \in [Sortings \X (1 .. n) -> Sortings]
  <2>1. \A x \in Sortings \X (1 .. n) : x[1] \in Sortings /\ x[2] \in 1 .. n
    OBVIOUS
  <2>2. \A x \in Sortings \X (1 .. n) : Placed(x[1], queue[x[2]]) \in Sortings
    BY <1>1, <2>1, PlacedCases
  <2> QED BY <2>2
<1>4. \A s \in Sortings, k \in 1 .. n : G[<<s, k>>] = Placed(s, queue[k])
  OBVIOUS
<1>5. Sorted(queue) =
        (CHOOSE iter : iter = [s \in SUBSET (1 .. n) |->
            IF s = {} THEN EmptyBatch
            ELSE Placed(iter[s \ {Max(s)}], queue[Max(s)])])[1 .. n]
  BY <1>1 DEF Sorted, FoldLeft, MapThenFoldSet
<1> HIDE DEF n, G
<1>6. PICK f \in [SUBSET (1 .. n) -> Sortings] : FoldsOver(f, n, EmptyBatch, G)
  BY <1>1, <1>2, <1>3, FoldExists
<1>7. Solves(f)
  <2> SUFFICES ASSUME NEW s \in SUBSET (1 .. n), s # {}
               PROVE  f[s] = Placed(f[s \ {Max(s)}], queue[Max(s)])
    BY <1>6 DEF FoldsOver
  <2>1. Max(s) \in 1 .. n
    BY <1>1, GreatestPosition
  <2>2. f[s \ {Max(s)}] \in Sortings
    BY <1>6
  <2>3. f[s] = G[<<f[s \ {Max(s)}], Max(s)>>]
    BY <1>6 DEF FoldsOver
  <2> HIDE DEF Solves
  <2> QED BY <1>4, <2>1, <2>2, <2>3
<1>8. PICK h : Solves(h) /\ Sorted(queue) = h[1 .. n]
  BY <1>5, <1>7, Zenon DEF Solves
<1>9. h[{}] = EmptyBatch
  BY <1>8
<1>10. \A k \in 1 .. n : h[1 .. k] = Placed(h[1 .. k - 1], queue[k])
  <2> TAKE k \in 1 .. n
  <2>1. /\ 1 .. k \in SUBSET (1 .. n) /\ 1 .. k # {}
        /\ Max(1 .. k) = k /\ (1 .. k) \ {k} = 1 .. k - 1
    BY <1>1, GreatestPosition
  <2> QED BY <1>8, <2>1, ZenonT(60)
<1>11. Unfolds(h, n, Sortings, EmptyBatch, G)
  BY <1>1, <1>2, <1>3, <1>4, <1>9, <1>10 DEF Unfolds
<1>12. PICK g \in [0 .. n -> Sortings] : Iterated(g, n, EmptyBatch, G) /\ g[n] = h[1 .. n]
  BY <1>11, ChainOfFold DEF EndsChain
<1>13. \A k \in 1 .. n : g[k] = Placed(g[k - 1], queue[k])
  <2> TAKE k \in 1 .. n
  <2>1. k - 1 \in 0 .. n
    BY <1>1
  <2> QED BY <1>4, <1>12, <2>1 DEF Iterated
<1> QED BY <1>8, <1>12, <1>13 DEF LoopChain, Iterated, n

\* The requests of a list come from the first k of the queue.
Among(list, queue, k) ==
  \A x \in 1 .. Len(list) : \E i \in 1 .. k : list[x] = queue[i]

\* All requests of a list are older than r.
Below(list, r) == \A x \in 1 .. Len(list) : list[x] < r

\* The k-th of the queue is newer than those before it.
LEMMA OneMore ==
  ASSUME NEW queue \in Seq(Int), Increasing(queue), NEW k \in 1 .. Len(queue),
         NEW list \in Seq(Int), Increasing(list), Among(list, queue, k - 1)
  PROVE  /\ Append(list, queue[k]) \in Seq(Int)
         /\ Len(Append(list, queue[k])) = Len(list) + 1
         /\ Append(list, queue[k])[Len(list) + 1] = queue[k]
         /\ \A x \in 1 .. Len(list) : Append(list, queue[k])[x] = list[x]
         /\ Below(list, queue[k])
         /\ Increasing(Append(list, queue[k]))
         /\ Among(Append(list, queue[k]), queue, k) /\ Among(list, queue, k)
<1> DEFINE t == Append(list, queue[k])
<1>1. queue[k] \in Int /\ Len(list) \in Nat /\ Len(queue) \in Nat
  BY LenProperties, ElementOfSeq
<1>2. /\ t \in Seq(Int) /\ Len(t) = Len(list) + 1 /\ t[Len(list) + 1] = queue[k]
      /\ \A x \in 1 .. Len(list) : t[x] = list[x]
  BY <1>1, AppendProperties
<1>3. ASSUME NEW x \in 1 .. Len(list)
      PROVE  list[x] < queue[k] /\ \E i \in 1 .. k : list[x] = queue[i]
  <2>1. PICK i \in 1 .. k - 1 : list[x] = queue[i]
    BY DEF Among
  <2>2. i \in 1 .. Len(queue) /\ i < k /\ i \in 1 .. k
    BY <1>1
  <2> QED BY <2>1, <2>2 DEF Increasing
<1>4. Increasing(t)
  BY <1>1, <1>3, AppendIncreasing
<1> HIDE DEF t
<1>5. Among(t, queue, k)
  <2> SUFFICES ASSUME NEW x \in 1 .. Len(t) PROVE \E i \in 1 .. k : t[x] = queue[i]
    BY DEF Among
  <2>1. CASE x \in 1 .. Len(list)
    BY <1>2, <1>3, <2>1
  <2>2. CASE x = Len(list) + 1
    BY <1>2, <2>2
  <2> QED BY <1>1, <1>2, <2>1, <2>2
<1>6. Among(list, queue, k)
  BY <1>3 DEF Among
<1> QED BY <1>2, <1>3, <1>4, <1>5, <1>6 DEF t, Below

\* Requests of the one list come before those of the other, and in another
\* list than those of the batch.
Before(s, t) == \A x \in 1 .. Len(s), y \in 1 .. Len(t) : s[x] < t[y]

Apart(s, t) == \A x \in 1 .. Len(s), y \in 1 .. Len(t) : s[x] # t[y]

\* A shape with room for the batch.
Covers(shape, batch) ==
  /\ Len(batch) <= shape.batch_size
  /\ \A x \in 1 .. Len(batch) : prompt_len[batch[x]] <= shape.prompt_length

(***************************************************************************)
(* What holds of the loop after k requests of the queue. What was skipped  *)
(* is older than what is held back, as nothing is held back before the     *)
(* loop ends. The shapes that are left have room for the whole batch,      *)
(* although each is tested against one request at a time.                  *)
(***************************************************************************)
LoopInv(s, queue, k) ==
  /\ s \in Sortings
  /\ Increasing(s.batch) /\ Increasing(s.skipped) /\ Increasing(s.heldback)
  /\ Among(s.batch, queue, k) /\ Among(s.skipped, queue, k) /\ Among(s.heldback, queue, k)
  /\ Before(s.skipped, s.heldback)
  /\ Apart(s.batch, s.skipped) /\ Apart(s.batch, s.heldback)
  /\ s.full = FALSE => s.heldback = <<>>
  /\ s.shapes # {}
  /\ \A shape \in s.shapes : Covers(shape, s.batch)
  /\ IF k = 0 THEN s = EmptyBatch ELSE Len(s.batch) > 0 /\ s.batch[1] = queue[1]

\* A queue of requests that fit some shape.
Queue(queue) ==
  /\ queue \in Seq(Int) /\ Increasing(queue)
  /\ \A i \in 1 .. Len(queue) : prompt_len[queue[i]] \in 1 .. MaxModelLen

\* It holds before the first request.
LEMMA LoopStarts ==
  ASSUME NEW queue
  PROVE  LoopInv(EmptyBatch, queue, 0)
<1> DEFINE s == EmptyBatch
<1>1. /\ s.batch = <<>> /\ s.skipped = <<>> /\ s.heldback = <<>>
      /\ s.shapes = Shapes /\ s.full = FALSE /\ s \in Sortings
  BY EmptySeq DEF EmptyBatch, Sortings
<1>2. Len(<<>>) = 0 /\ 1 .. 0 = {}
  BY EmptySeq
<1>3. /\ Increasing(<<>>) /\ Among(<<>>, queue, 0)
      /\ Before(<<>>, <<>>) /\ Apart(<<>>, <<>>)
  BY <1>2 DEF Increasing, Among, Before, Apart
<1>4. Shapes # {} /\ \A shape \in Shapes : Covers(shape, <<>>)
  BY <1>2, ShapesAssumption DEF Covers
<1> HIDE DEF s
<1>5. LoopInv(s, queue, 0)
  BY <1>1, <1>3, <1>4 DEF LoopInv, s
<1> QED BY <1>5 DEF s

\* The newest request keeps the order between two lists, and their being apart.
LEMMA OneMoreBehind ==
  ASSUME NEW s \in Seq(Int), NEW t \in Seq(Int), NEW r \in Int, Below(s, r)
  PROVE  /\ Before(s, t) => Before(s, Append(t, r))
         /\ Apart(s, t) => Apart(s, Append(t, r))
         /\ Apart(t, s) => Apart(Append(t, r), s)
<1> DEFINE u == Append(t, r)
<1>1. /\ Len(u) = Len(t) + 1 /\ Len(t) \in Nat /\ u[Len(t) + 1] = r
      /\ \A x \in 1 .. Len(t) : u[x] = t[x]
  BY AppendProperties, LenProperties
<1> HIDE DEF u
<1>2. \A y \in 1 .. Len(u) : y \in 1 .. Len(t) \/ y = Len(t) + 1
  BY <1>1
<1>3. \A x \in 1 .. Len(s) : s[x] \in Int /\ s[x] # r
  BY ElementOfSeq DEF Below
<1>4. Before(s, t) => Before(s, u)
  BY <1>1, <1>2 DEF Before, Below
<1>5. Apart(s, t) => Apart(s, u)
  BY <1>1, <1>2, <1>3 DEF Apart
<1>6. Apart(t, s) => Apart(u, s)
  BY <1>1, <1>2, <1>3 DEF Apart
<1> QED BY <1>4, <1>5, <1>6 DEF u

\* The loop keeps its invariant; it cannot leave out the first request.
LEMMA LoopStep ==
  ASSUME NEW queue, Queue(queue), NEW k \in 1 .. Len(queue), NEW s,
         LoopInv(s, queue, k - 1)
  PROVE  LoopInv(Placed(s, queue[k]), queue, k)
<1> DEFINE r == queue[k]
           t == Placed(s, r)
<1>1. /\ queue \in Seq(Int) /\ Increasing(queue) /\ Len(queue) \in Nat /\ r \in Int
      /\ prompt_len[r] \in 1 .. MaxModelLen
  BY LenProperties, ElementOfSeq DEF Queue
<1>2. /\ s \in Sortings
      /\ s.batch \in Seq(Int) /\ s.skipped \in Seq(Int) /\ s.heldback \in Seq(Int)
      /\ Len(s.batch) \in Nat /\ s.shapes \subseteq Shapes
  BY LenProperties DEF LoopInv, Sortings
<1>3. /\ Increasing(s.batch) /\ Increasing(s.skipped) /\ Increasing(s.heldback)
      /\ Among(s.batch, queue, k - 1) /\ Among(s.skipped, queue, k - 1)
      /\ Among(s.heldback, queue, k - 1)
      /\ Before(s.skipped, s.heldback)
      /\ Apart(s.batch, s.skipped) /\ Apart(s.batch, s.heldback)
      /\ s.full = FALSE => s.heldback = <<>>
      /\ s.shapes # {} /\ \A shape \in s.shapes : Covers(shape, s.batch)
  BY DEF LoopInv
<1>4. /\ Append(s.batch, r) \in Seq(Int)
      /\ Len(Append(s.batch, r)) = Len(s.batch) + 1
      /\ Append(s.batch, r)[Len(s.batch) + 1] = r
      /\ \A x \in 1 .. Len(s.batch) : Append(s.batch, r)[x] = s.batch[x]
      /\ Below(s.batch, r)
      /\ Increasing(Append(s.batch, r))
      /\ Among(Append(s.batch, r), queue, k) /\ Among(s.batch, queue, k)
  BY <1>1, <1>2, <1>3, OneMore
<1>5. /\ Below(s.skipped, r)
      /\ Increasing(Append(s.skipped, r))
      /\ Among(Append(s.skipped, r), queue, k) /\ Among(s.skipped, queue, k)
  BY <1>1, <1>2, <1>3, OneMore
<1>6. /\ Below(s.heldback, r)
      /\ Increasing(Append(s.heldback, r))
      /\ Among(Append(s.heldback, r), queue, k) /\ Among(s.heldback, queue, k)
  BY <1>1, <1>2, <1>3, OneMore
<1>7. t \in Sortings /\ (Joins(s, t, r) \/ Skipped(s, t, r) \/ HeldBack(s, t, r))
  BY <1>1, <1>2, PlacedCases
<1>8. k = 1 => Joins(s, t, r) /\ Len(s.batch) = 0
  <2> HAVE k = 1
  <2>1. s.batch = <<>> /\ s.shapes = Shapes /\ s.full = FALSE
    BY DEF LoopInv, EmptyBatch
  <2>2. Len(s.batch) = 0
    BY <2>1, EmptySeq
  <2>3. PICK shape \in Shapes : shape.prompt_length = MaxModelLen
    BY LargestShapes
  <2>4. shape.batch_size \in Nat \ {0}
    BY ShapesAssumption
  <2>5. shape \in Matching(r, s.shapes, Len(s.batch))
    BY <1>1, <2>1, <2>2, <2>3, <2>4, LargestShapes DEF Matching
  <2> HIDE DEF t
  <2> QED BY <1>7, <2>1, <2>2, <2>5 DEF Skipped, HeldBack
<1>9. k # 1 => Len(s.batch) > 0 /\ s.batch[1] = queue[1]
  BY DEF LoopInv
<1>10. \A shape \in Shapes : shape.batch_size \in Nat /\ shape.prompt_length \in Nat
  BY ShapesAssumption
<1> HIDE DEF t
<1>11. CASE Joins(s, t, r)
  <2>1. /\ t.batch = Append(s.batch, r) /\ t.skipped = s.skipped
        /\ t.heldback = s.heldback /\ t.full = s.full
        /\ t.shapes = Matching(r, s.shapes, Len(s.batch)) /\ t.shapes # {}
    BY <1>11 DEF Joins
  <2>2. Apart(t.batch, t.skipped) /\ Apart(t.batch, t.heldback)
    <3> HIDE DEF r
    <3>1. Apart(Append(s.batch, r), s.skipped) /\ Apart(Append(s.batch, r), s.heldback)
      BY <1>1, <1>2, <1>3, <1>5, <1>6, OneMoreBehind, Zenon
    <3> QED BY <2>1, <3>1
  <2>3. ASSUME NEW shape \in t.shapes
        PROVE  Covers(shape, t.batch)
    <3>1. /\ shape \in s.shapes /\ prompt_len[r] <= shape.prompt_length
          /\ Len(s.batch) < shape.batch_size
      BY <2>1, <2>3 DEF Matching
    <3>2. /\ Len(s.batch) <= shape.batch_size
          /\ \A x \in 1 .. Len(s.batch) : prompt_len[s.batch[x]] <= shape.prompt_length
      BY <1>3, <3>1 DEF Covers
    <3>3. Len(t.batch) <= shape.batch_size
      BY <1>2, <1>4, <1>10, <2>1, <3>1, SMTT(60)
    <3>4. ASSUME NEW x \in 1 .. Len(t.batch)
          PROVE  prompt_len[t.batch[x]] <= shape.prompt_length
      <4>1. x \in 1 .. Len(s.batch) \/ x = Len(s.batch) + 1
        BY <1>2, <1>4, <2>1
      <4> QED BY <1>4, <2>1, <3>1, <3>2, <4>1
    <3> QED BY <3>3, <3>4 DEF Covers
  <2>4. Len(t.batch) > 0 /\ t.batch[1] = queue[1]
    <3>1. CASE k = 1
      BY <1>4, <1>8, <2>1, <3>1
    <3>2. CASE k # 1
      BY <1>2, <1>4, <1>9, <2>1, <3>2
    <3> QED BY <3>1, <3>2
  <2>5. /\ Increasing(t.batch) /\ Increasing(t.skipped) /\ Increasing(t.heldback)
        /\ Among(t.batch, queue, k) /\ Among(t.skipped, queue, k)
        /\ Among(t.heldback, queue, k)
        /\ Before(t.skipped, t.heldback)
        /\ t.full = FALSE => t.heldback = <<>>
    BY <1>3, <1>4, <1>5, <1>6, <2>1, Zenon
  <2> HIDE DEF r
  <2>6. k # 0
    OBVIOUS
  <2> QED BY <1>7, <2>1, <2>2, <2>3, <2>4, <2>5, <2>6, Zenon DEF LoopInv, t, r
<1>12. CASE Skipped(s, t, r)
  <2>1. /\ t.batch = s.batch /\ t.skipped = Append(s.skipped, r)
        /\ t.heldback = s.heldback /\ t.full = s.full /\ t.shapes = s.shapes
        /\ k # 1 /\ k # 0
    BY <1>8, <1>12 DEF Skipped, Joins
  <2>2. s.heldback = <<>>
    BY <1>2, <1>3, <1>12 DEF Skipped, Sortings
  <2>3. Before(t.skipped, t.heldback)
    BY <2>1, <2>2, EmptySeq DEF Before
  <2> HIDE DEF r
  <2>4. Apart(t.batch, t.skipped)
    <3>1. Apart(s.batch, Append(s.skipped, r))
      BY <1>1, <1>2, <1>3, <1>4, OneMoreBehind, Zenon
    <3> QED BY <2>1, <3>1
  <2> QED BY <1>3, <1>4, <1>5, <1>6, <1>7, <1>9, <2>1, <2>3, <2>4, Zenon DEF LoopInv, t, r
<1>13. CASE HeldBack(s, t, r)
  <2>1. /\ t.batch = s.batch /\ t.skipped = s.skipped
        /\ t.heldback = Append(s.heldback, r) /\ t.full = TRUE /\ t.shapes = s.shapes
    BY <1>13 DEF HeldBack
  <2> HIDE DEF r
  <2>2. Before(t.skipped, t.heldback)
    <3>1. Before(s.skipped, Append(s.heldback, r))
      BY <1>1, <1>2, <1>3, <1>5, OneMoreBehind, Zenon
    <3> QED BY <2>1, <3>1
  <2>3. Apart(t.batch, t.heldback)
    <3>1. Apart(s.batch, Append(s.heldback, r))
      BY <1>1, <1>2, <1>3, <1>4, OneMoreBehind, Zenon
    <3> QED BY <2>1, <3>1
  <2>4. k # 1 /\ k # 0
    BY <1>8, <1>13 DEF HeldBack, Joins
  <2>5. t.full # FALSE
    BY <2>1
  <2> QED BY <1>3, <1>4, <1>5, <1>6, <1>7, <1>9, <2>1, <2>2, <2>3, <2>4, <2>5, Zenon
    DEF LoopInv, t, r
<1> QED BY <1>7, <1>11, <1>12, <1>13 DEF t

\* The loop over the whole queue.
LEMMA SortedQueue ==
  ASSUME NEW queue, Queue(queue)
  PROVE  LoopInv(Sorted(queue), queue, Len(queue))
<1> DEFINE n == Len(queue)
<1>1. n \in Nat /\ queue \in Seq(Int)
  BY LenProperties DEF Queue
<1>2. PICK g \in [0 .. n -> Sortings] : LoopChain(g, queue)
  BY <1>1, LoopFold
<1> DEFINE T == {k \in 0 .. n : LoopInv(g[k], queue, k)}
<1>3. 0 \in T
  BY <1>1, <1>2, LoopStarts DEF LoopChain
<1>4. ASSUME NEW k \in 1 .. n, k - 1 \in T
      PROVE  k \in T
  <2>1. LoopInv(g[k - 1], queue, k - 1)
    BY <1>4
  <2>2. g[k] = Placed(g[k - 1], queue[k])
    BY <1>2 DEF LoopChain
  <2>3. LoopInv(g[k], queue, k)
    BY <2>1, <2>2, LoopStep
  <2> QED BY <2>3
<1>5. n \in T
  <2> HIDE DEF T
  <2>1. 0 .. n \subseteq T
    BY <1>1, <1>3, <1>4, Steps
  <2> QED BY <1>1, <2>1
<1> QED BY <1>2, <1>5 DEF LoopChain

\* What schedule() leaves in the queue, and what it takes.
LEMMA SortedLists ==
  ASSUME NEW queue, Queue(queue)
  PROVE  LET batch == Sorted(queue).batch
             left  == LeftWaiting(Sorted(queue))
         IN  /\ batch \in Seq(Int) /\ Increasing(batch) /\ Among(batch, queue, Len(queue))
             /\ left \in Seq(Int) /\ Increasing(left) /\ Among(left, queue, Len(queue))
             /\ Apart(batch, left)
             /\ \E shape \in Shapes : Covers(shape, batch)
             /\ Len(queue) > 0 => Len(batch) > 0 /\ batch[1] = queue[1]
<1> DEFINE s == Sorted(queue)
           left == LeftWaiting(s)
<1>1. LoopInv(s, queue, Len(queue))
  BY SortedQueue
<1> HIDE DEF s
<1>2. /\ s.batch \in Seq(Int) /\ s.skipped \in Seq(Int) /\ s.heldback \in Seq(Int)
      /\ s.shapes \subseteq Shapes
  BY <1>1 DEF LoopInv, Sortings
<1>3. /\ left \in Seq(Int) /\ Len(left) = Len(s.skipped) + Len(s.heldback)
      /\ Len(s.skipped) \in Nat /\ Len(s.heldback) \in Nat
      /\ \A k \in 1 .. Len(s.skipped) + Len(s.heldback) :
           left[k] = IF k <= Len(s.skipped) THEN s.skipped[k]
                                            ELSE s.heldback[k - Len(s.skipped)]
  <2> DEFINE a == s.skipped
             c == s.heldback
  <2>1. left = a \o c
    BY DEF LeftWaiting
  <2>2. a \in Seq(Int) /\ c \in Seq(Int) /\ Len(a) \in Nat /\ Len(c) \in Nat
    BY <1>2, LenProperties
  <2> HIDE DEF a, c
  <2>3. /\ a \o c \in Seq(Int) /\ Len(a \o c) = Len(a) + Len(c)
        /\ \A k \in 1 .. Len(a) + Len(c) :
             (a \o c)[k] = IF k <= Len(a) THEN a[k] ELSE c[k - Len(a)]
    BY <2>2, ConcatProperties
  <2> HIDE DEF left
  <2> QED BY <2>1, <2>2, <2>3 DEF a, c
<1>4. Increasing(left)
  BY <1>1, <1>2, ConcatIncreasing DEF LoopInv, Before, LeftWaiting
<1> HIDE DEF left
<1>5. ASSUME NEW k \in 1 .. Len(left)
      PROVE  \/ \E x \in 1 .. Len(s.skipped) : left[k] = s.skipped[x]
             \/ \E x \in 1 .. Len(s.heldback) : left[k] = s.heldback[x]
  <2> DEFINE a == Len(s.skipped)
             c == Len(s.heldback)
  <2>0. a \in Nat /\ c \in Nat /\ k \in 1 .. a + c
    BY <1>3
  <2> HIDE DEF a, c
  <2>1. CASE k <= a
    <3>1. k \in 1 .. a
      BY <2>0, <2>1
    <3> QED BY <1>3, <2>0, <2>1, <3>1 DEF a, c
  <2>2. CASE ~(k <= a)
    <3>1. k - a \in 1 .. c
      BY <2>0, <2>2
    <3> QED BY <1>3, <2>0, <2>2, <3>1 DEF a, c
  <2> QED BY <2>1, <2>2
<1>6. Among(left, queue, Len(queue))
  BY <1>1, <1>5 DEF LoopInv, Among
<1>7. Apart(s.batch, left)
  BY <1>1, <1>5 DEF LoopInv, Apart
<1>8. \E shape \in Shapes : Covers(shape, s.batch)
  BY <1>1, <1>2 DEF LoopInv
<1>9. Len(queue) > 0 => Len(s.batch) > 0 /\ s.batch[1] = queue[1]
  BY <1>1 DEF LoopInv
<1>10. Increasing(s.batch) /\ Among(s.batch, queue, Len(queue))
  BY <1>1 DEF LoopInv
<1> QED BY <1>2, <1>3, <1>4, <1>6, <1>7, <1>8, <1>9, <1>10 DEF s, left

-----------------------------------------------------------------------------
(***************************************************************************)
(* The runner's batch. Its three tables count the same requests: as many   *)
(* keys as the counter says, no key twice, and indices within the arrays.  *)
(***************************************************************************)
Items == [req : Int, index : Int]

Batches ==
  [items : Seq(Items), num : Int, rows : [1 .. MaxNumReqs -> Prompts], params : SUBSET Int]

KeysDiffer(items) ==
  \A k, l \in 1 .. Len(items) : items[k].req = items[l].req => k = l

Tidy ==
  {b \in Batches :
     /\ b.num = Len(b.items) /\ b.num <= MaxNumReqs
     /\ KeysDiffer(b.items)
     /\ \A k \in 1 .. Len(b.items) : b.items[k].index \in 1 .. MaxNumReqs}

\* A new object and a cleared one are tidy.
LEMMA ClearedTidy ==
  ASSUME NEW b \in Batches
  PROVE  /\ NewBatch(MaxNumReqs) \in Tidy
         /\ ClearRequests(b) \in Tidy
         /\ ClearRequests(b).items = <<>> /\ ClearRequests(b).num = 0
<1>1. Len(<<>>) = 0 /\ 1 .. 0 = {} /\ <<>> \in Seq(Items) /\ 0 <= MaxNumReqs
  BY EmptySeq, LargestShapes
<1>2. NoPrompt \in Prompts
  BY DEF NoPrompt, Prompts
<1>3. KeysDiffer(<<>>)
  BY <1>1 DEF KeysDiffer
<1>4. ASSUME NEW rows \in [1 .. MaxNumReqs -> Prompts]
      PROVE  [items |-> <<>>, num |-> 0, rows |-> rows, params |-> {}] \in Tidy
  <2> DEFINE e == [items |-> <<>>, num |-> 0, rows |-> rows, params |-> {}]
  <2>1. e \in Batches
    BY <1>1 DEF Batches
  <2>2. e.items = <<>> /\ e.num = 0
    OBVIOUS
  <2> HIDE DEF e
  <2>3. e \in Tidy
    BY <1>1, <1>3, <2>1, <2>2 DEF Tidy
  <2> QED BY <2>3 DEF e
<1>5. NewBatch(MaxNumReqs) \in Tidy
  <2>1. [i \in 1 .. MaxNumReqs |-> NoPrompt] \in [1 .. MaxNumReqs -> Prompts]
    BY <1>2
  <2> QED BY <1>4, <2>1 DEF NewBatch
<1>6. ClearRequests(b) = [items |-> <<>>, num |-> 0, rows |-> b.rows, params |-> {}]
  <2>1. b = [items |-> b.items, num |-> b.num, rows |-> b.rows, params |-> b.params]
    BY DEF Batches
  <2>2. ClearRequests(b) = [b EXCEPT !.items = <<>>, !.num = 0, !.params = {}]
    BY DEF ClearRequests
  <2> QED BY <2>1, <2>2
<1>7. b.rows \in [1 .. MaxNumReqs -> Prompts]
  BY DEF Batches
<1> QED BY <1>4, <1>5, <1>6, <1>7

\* remove_request leaves a tidy batch, whether or not it finds the request.
LEMMA RemoveKeepsTidy ==
  ASSUME NEW b \in Tidy, NEW r \in Int
  PROVE  RemoveFromBatch(b, r) \in Tidy
<1>1. /\ b \in Batches /\ b.num = Len(b.items) /\ b.num <= MaxNumReqs
      /\ KeysDiffer(b.items)
      /\ \A k \in 1 .. Len(b.items) : b.items[k].index \in 1 .. MaxNumReqs
  BY DEF Tidy
<1>2. /\ b.items \in Seq(Items) /\ b.rows \in [1 .. MaxNumReqs -> Prompts]
      /\ b.params \in SUBSET Int /\ Len(b.items) \in Nat /\ DOMAIN b.items = 1 .. Len(b.items)
      /\ b = [items |-> b.items, num |-> b.num, rows |-> b.rows, params |-> b.params]
      /\ MaxNumReqs \in Nat
  BY <1>1, LenProperties, LargestShapes DEF Batches
<1>3. CASE ~\E k \in DOMAIN b.items : b.items[k].req = r
  BY <1>3 DEF RemoveFromBatch
<1>4. CASE \E k \in DOMAIN b.items : b.items[k].req = r
  <2> DEFINE p == PlaceOf(b, r)
             left == RemoveAt(b.items, p)
             c == RemoveFromBatch(b, r)
  <2>1. p \in 1 .. Len(b.items)
    BY <1>2, <1>4 DEF PlaceOf
  <2> HIDE DEF p
  <2>2. /\ left \in Seq(Items) /\ Len(left) = Len(b.items) - 1
        /\ \A k \in 1 .. Len(b.items) - 1 :
             left[k] = IF k < p THEN b.items[k] ELSE b.items[k + 1]
    <3>1. left = Without(b.items, p)
      BY DEF RemoveAt, Without
    <3> QED BY <1>2, <2>1, <3>1, WithoutElements, ZenonT(60)
  <2>3. c = [b EXCEPT !.items = left, !.num = @ - 1, !.params = @ \ {r}]
    BY <1>4 DEF RemoveFromBatch, p
  <2> HIDE DEF left, c
  <2>4. /\ c.items = left /\ c.num = b.num - 1 /\ c.rows = b.rows
        /\ c \in Batches
    <3>1. c = [items |-> left, num |-> b.num - 1, rows |-> b.rows, params |-> b.params \ {r}]
      BY <1>2, <2>3
    <3>2. b.num - 1 \in Int /\ b.params \ {r} \in SUBSET Int
      BY <1>1, <1>2
    <3> QED BY <1>2, <2>2, <3>1, <3>2 DEF Batches
  <2>5. ASSUME NEW k \in 1 .. Len(left)
        PROVE  LET q == IF k < p THEN k ELSE k + 1
               IN  q \in 1 .. Len(b.items) /\ left[k] = b.items[q]
    BY <1>2, <2>1, <2>2
  <2>6. KeysDiffer(left)
    <3> SUFFICES ASSUME NEW k \in 1 .. Len(left), NEW l \in 1 .. Len(left),
                        left[k].req = left[l].req
                 PROVE  k = l
      BY DEF KeysDiffer
    <3> DEFINE q(j) == IF j < p THEN j ELSE j + 1
    <3>1. q(k) \in 1 .. Len(b.items) /\ q(l) \in 1 .. Len(b.items)
      BY <2>5
    <3>2. b.items[q(k)].req = b.items[q(l)].req
      BY <2>5
    <3>3. q(k) = q(l)
      BY <1>1, <3>1, <3>2 DEF KeysDiffer
    <3> QED BY <1>2, <2>1, <2>2, <3>3, SMTT(60)
  <2>7. \A k \in 1 .. Len(left) : left[k].index \in 1 .. MaxNumReqs
    BY <1>1, <2>5
  <2>8. c.num = Len(c.items) /\ c.num <= MaxNumReqs
    BY <1>1, <1>2, <2>2, <2>4
  <2>9. c \in Tidy
    BY <2>4, <2>6, <2>7, <2>8 DEF Tidy
  <2> QED BY <2>9 DEF c
<1> QED BY <1>3, <1>4

(***************************************************************************)
(* update_states: one request after the other is removed.                  *)
(***************************************************************************)
\* SetToSeq lists a finite set.
LEMMA ListedSet ==
  ASSUME NEW S, IsFiniteSet(S)
  PROVE  /\ Cardinality(S) \in Nat
         /\ SetToSeq(S) \in [1 .. Cardinality(S) -> S]
<1>1. Cardinality(S) \in Nat /\ ExistsBijection(1 .. Cardinality(S), S)
  BY FS_CardinalityType
<1>2. PICK f \in Bijection(1 .. Cardinality(S), S) : TRUE
  BY <1>1 DEF ExistsBijection
<1>3. f \in [1 .. Cardinality(S) -> S] /\ IsInjective(f)
  BY <1>2 DEF Bijection, Injection
<1> QED BY <1>1, <1>3 DEF SetToSeq

\* A tidy batch stays tidy when finished requests are taken out one by one.
LEMMA UpdatedTidy ==
  ASSUME input_batch \in Tidy, NEW gone, gone \subseteq Int, IsFiniteSet(gone)
  PROVE  UpdatedBatch(gone) \in Tidy
<1> DEFINE n == Cardinality(gone)
           list == SetToSeq(gone)
           G == [x \in Tidy \X (1 .. n) |-> RemoveFromBatch(x[1], list[x[2]])]
           Solves(h) == h = [s \in SUBSET (1 .. n) |->
                               IF s = {} THEN input_batch
                               ELSE RemoveFromBatch(h[s \ {Max(s)}], list[Max(s)])]
<1>1. n \in Nat /\ list \in [1 .. n -> gone] /\ DOMAIN list = 1 .. n
  BY ListedSet
<1>2. UpdatedBatch(gone) =
        (CHOOSE iter : iter = [s \in SUBSET (1 .. n) |->
            IF s = {} THEN input_batch
            ELSE RemoveFromBatch(iter[s \ {Max(s)}], list[Max(s)])])[1 .. n]
  BY <1>1 DEF UpdatedBatch, FoldLeft, MapThenFoldSet
<1> HIDE DEF n, list
<1>3. \A b \in Tidy, k \in 1 .. n : RemoveFromBatch(b, list[k]) \in Tidy
  BY <1>1, RemoveKeepsTidy
<1>4. G \in [Tidy \X (1 .. n) -> Tidy]
  <2>1. \A x \in Tidy \X (1 .. n) : x[1] \in Tidy /\ x[2] \in 1 .. n
    OBVIOUS
  <2> QED BY <1>3, <2>1
<1>5. \A b \in Tidy, k \in 1 .. n : G[<<b, k>>] = RemoveFromBatch(b, list[k])
  OBVIOUS
<1> HIDE DEF G
<1>6. PICK f \in [SUBSET (1 .. n) -> Tidy] : FoldsOver(f, n, input_batch, G)
  BY <1>1, <1>4, FoldExists
<1>7. Solves(f)
  <2> SUFFICES ASSUME NEW s \in SUBSET (1 .. n), s # {}
               PROVE  f[s] = RemoveFromBatch(f[s \ {Max(s)}], list[Max(s)])
    BY <1>6 DEF FoldsOver
  <2>1. Max(s) \in 1 .. n
    BY <1>1, GreatestPosition
  <2>2. f[s \ {Max(s)}] \in Tidy
    BY <1>6
  <2>3. f[s] = G[<<f[s \ {Max(s)}], Max(s)>>]
    BY <1>6 DEF FoldsOver
  <2> HIDE DEF Solves
  <2> QED BY <1>5, <2>1, <2>2, <2>3
<1>8. PICK h : Solves(h) /\ UpdatedBatch(gone) = h[1 .. n]
  BY <1>2, <1>7, Zenon DEF Solves
<1>9. h[{}] = input_batch
  BY <1>8
<1>10. \A k \in 1 .. n : h[1 .. k] = RemoveFromBatch(h[1 .. k - 1], list[k])
  <2> TAKE k \in 1 .. n
  <2>1. /\ 1 .. k \in SUBSET (1 .. n) /\ 1 .. k # {}
        /\ Max(1 .. k) = k /\ (1 .. k) \ {k} = 1 .. k - 1
    BY <1>1, GreatestPosition
  <2> QED BY <1>8, <2>1, ZenonT(60)
<1>11. Unfolds(h, n, Tidy, input_batch, G)
  BY <1>1, <1>4, <1>5, <1>9, <1>10 DEF Unfolds
<1>12. PICK g \in [0 .. n -> Tidy] : g[n] = h[1 .. n]
  BY <1>11, ChainOfFold DEF EndsChain
<1> QED BY <1>1, <1>8, <1>12

(***************************************************************************)
(* _prepare_prompt: one prompt after the other goes to the end.            *)
(***************************************************************************)
LEMMA AddedFields ==
  ASSUME NEW b \in Batches, NEW p \in Prompts
  PROVE  /\ AddToBatch(b, p) \in Batches
         /\ AddToBatch(b, p).items = SetItem(b.items, p.req, b.num + 1)
         /\ AddToBatch(b, p).num = b.num + 1
         /\ AddToBatch(b, p).rows = [b.rows EXCEPT ![b.num + 1] = p]
         /\ AddToBatch(b, p).params = b.params \cup {p.req}
<1> DEFINE items == SetItem(b.items, p.req, b.num + 1)
           rows == [b.rows EXCEPT ![b.num + 1] = p]
           c == AddToBatch(b, p)
<1>1. /\ b.items \in Seq(Items) /\ b.num \in Int /\ b.rows \in [1 .. MaxNumReqs -> Prompts]
      /\ b.params \in SUBSET Int /\ p.req \in Int
      /\ b = [items |-> b.items, num |-> b.num, rows |-> b.rows, params |-> b.params]
  BY DEF Batches, Prompts
<1>2. items \in Seq(Items)
  <2> DEFINE e == [req |-> p.req, index |-> b.num + 1]
  <2>1. e \in Items /\ Len(b.items) \in Nat /\ DOMAIN b.items = 1 .. Len(b.items)
    BY <1>1, LenProperties DEF Items
  <2>2. CASE \E k \in DOMAIN b.items : b.items[k].req = p.req
    <3>1. items = [k \in 1 .. Len(b.items) |-> IF b.items[k].req = p.req THEN e ELSE b.items[k]]
      BY <2>1, <2>2 DEF SetItem
    <3>2. \A k \in 1 .. Len(b.items) : b.items[k] \in Items
      BY <1>1, ElementOfSeq
    <3> HIDE DEF e
    <3>3. items \in [1 .. Len(b.items) -> Items]
      BY <2>1, <3>1, <3>2
    <3> HIDE DEF items
    <3> QED BY <2>1, <3>3, IsASeq
  <2>3. CASE ~\E k \in DOMAIN b.items : b.items[k].req = p.req
    <3>1. items = Append(b.items, e)
      BY <2>3 DEF SetItem
    <3> HIDE DEF e, items
    <3>2. Append(b.items, e) \in Seq(Items)
      BY <1>1, <2>1, AppendProperties
    <3> QED BY <3>1, <3>2
  <2> QED BY <2>2, <2>3
<1>3. rows \in [1 .. MaxNumReqs -> Prompts]
  BY <1>1
<1>4. c = [b EXCEPT !.items = items, !.num = @ + 1, !.rows = rows,
                    !.params = @ \cup {p.req}]
  BY <1>1 DEF AddToBatch
<1> HIDE DEF items, rows, c
<1>5. c = [items |-> items, num |-> b.num + 1, rows |-> rows,
           params |-> b.params \cup {p.req}]
  BY <1>1, <1>4
<1>6. b.num + 1 \in Int /\ b.params \cup {p.req} \in SUBSET Int
  BY <1>1
<1>7. c \in Batches
  BY <1>2, <1>3, <1>5, <1>6 DEF Batches
<1> QED BY <1>5, <1>7 DEF c, items, rows

\* Distinct requests, as many as a batch can have.
Distinct(prompts) ==
  /\ prompts \in Seq(Prompts) /\ Len(prompts) <= MaxNumReqs
  /\ \A k, l \in 1 .. Len(prompts) : prompts[k].req = prompts[l].req => k = l

\* The first k prompts have their rows and indices.
FilledTo(b, prompts, k) ==
  /\ b \in Batches
  /\ b.num = k /\ Len(b.items) = k
  /\ \A i \in 1 .. k : /\ b.items[i] = [req |-> prompts[i].req, index |-> i]
                       /\ b.rows[i] = prompts[i]

\* One more prompt takes the next row: its request is no key of the batch.
LEMMA FillOne ==
  ASSUME NEW prompts, Distinct(prompts), NEW k \in 1 .. Len(prompts), NEW b,
         FilledTo(b, prompts, k - 1)
  PROVE  FilledTo(AddToBatch(b, prompts[k]), prompts, k)
<1> DEFINE p == prompts[k]
           c == AddToBatch(b, p)
           e == [req |-> p.req, index |-> k]
<1>1. /\ p \in Prompts /\ Len(prompts) \in Nat /\ MaxNumReqs \in Nat
      /\ k \in 1 .. MaxNumReqs /\ k - 1 \in Nat /\ (k - 1) + 1 = k
  BY LenProperties, ElementOfSeq, LargestShapes DEF Distinct
<1>2. /\ b \in Batches /\ b.num = k - 1 /\ Len(b.items) = k - 1
      /\ b.items \in Seq(Items) /\ DOMAIN b.items = 1 .. k - 1
      /\ b.rows \in [1 .. MaxNumReqs -> Prompts]
      /\ \A i \in 1 .. k - 1 : /\ b.items[i] = [req |-> prompts[i].req, index |-> i]
                               /\ b.rows[i] = prompts[i]
  BY LenProperties DEF FilledTo, Batches
<1>3. ASSUME NEW i \in 1 .. k - 1, b.items[i].req = p.req
      PROVE  FALSE
  <2>1. i \in 1 .. Len(prompts) /\ i # k
    BY <1>1
  <2>2. b.items[i] = [req |-> prompts[i].req, index |-> i]
    BY <1>2
  <2>3. prompts[i].req = prompts[k].req
    BY <1>3, <2>2
  <2> QED BY <2>1, <2>3 DEF Distinct
<1>4. /\ c \in Batches /\ c.items = SetItem(b.items, p.req, k) /\ c.num = k
      /\ c.rows = [b.rows EXCEPT ![k] = p]
  BY <1>1, <1>2, AddedFields
<1>5. c.items = Append(b.items, e)
  BY <1>2, <1>3, <1>4 DEF SetItem
<1>6. e \in Items
  BY <1>1 DEF Items, Prompts
<1> HIDE DEF c, e
<1>7. /\ Len(c.items) = k /\ c.items[k] = e
      /\ \A i \in 1 .. k - 1 : c.items[i] = b.items[i]
  <2>1. /\ Len(Append(b.items, e)) = Len(b.items) + 1
        /\ \A i \in 1 .. Len(b.items) : Append(b.items, e)[i] = b.items[i]
        /\ Append(b.items, e)[Len(b.items) + 1] = e
    BY <1>2, <1>6, AppendProperties
  <2> QED BY <1>1, <1>2, <1>5, <2>1
<1>8. ASSUME NEW i \in 1 .. k
      PROVE  c.items[i] = [req |-> prompts[i].req, index |-> i] /\ c.rows[i] = prompts[i]
  <2>1. CASE i = k
    BY <1>1, <1>2, <1>4, <1>7, <2>1 DEF e
  <2>2. CASE i # k
    <3>1. i \in 1 .. k - 1
      BY <1>1, <2>2
    <3>2. c.rows[i] = b.rows[i]
      BY <1>1, <1>2, <1>4, <2>2, <3>1
    <3> QED BY <1>2, <1>7, <3>1, <3>2
  <2> QED BY <2>1, <2>2
<1>9. FilledTo(c, prompts, k)
  BY <1>4, <1>7, <1>8 DEF FilledTo
<1> QED BY <1>9 DEF c

\* All prompts of a step, put into a cleared batch.
LEMMA FilledBatch ==
  ASSUME NEW prompts, Distinct(prompts), NEW b \in Batches, b.items = <<>>, b.num = 0
  PROVE  FilledTo(FoldLeft(AddToBatch, b, prompts), prompts, Len(prompts))
<1> DEFINE n == Len(prompts)
           filled == FoldLeft(AddToBatch, b, prompts)
           G == [x \in Batches \X (1 .. n) |-> AddToBatch(x[1], prompts[x[2]])]
           Solves(h) == h = [s \in SUBSET (1 .. n) |->
                               IF s = {} THEN b
                               ELSE AddToBatch(h[s \ {Max(s)}], prompts[Max(s)])]
<1>1. n \in Nat /\ DOMAIN prompts = 1 .. n /\ \A k \in 1 .. n : prompts[k] \in Prompts
  BY LenProperties, ElementOfSeq DEF Distinct
<1>2. filled =
        (CHOOSE iter : iter = [s \in SUBSET (1 .. n) |->
            IF s = {} THEN b
            ELSE AddToBatch(iter[s \ {Max(s)}], prompts[Max(s)])])[1 .. n]
  BY <1>1 DEF FoldLeft, MapThenFoldSet
<1> HIDE DEF n, filled
<1>3. \A c \in Batches, k \in 1 .. n : AddToBatch(c, prompts[k]) \in Batches
  BY <1>1, AddedFields
<1>4. G \in [Batches \X (1 .. n) -> Batches]
  <2>1. \A x \in Batches \X (1 .. n) : x[1] \in Batches /\ x[2] \in 1 .. n
    OBVIOUS
  <2> QED BY <1>3, <2>1
<1>5. \A c \in Batches, k \in 1 .. n : G[<<c, k>>] = AddToBatch(c, prompts[k])
  OBVIOUS
<1> HIDE DEF G
<1>6. PICK f \in [SUBSET (1 .. n) -> Batches] : FoldsOver(f, n, b, G)
  BY <1>1, <1>4, FoldExists
<1>7. Solves(f)
  <2> SUFFICES ASSUME NEW s \in SUBSET (1 .. n), s # {}
               PROVE  f[s] = AddToBatch(f[s \ {Max(s)}], prompts[Max(s)])
    BY <1>6 DEF FoldsOver
  <2>1. Max(s) \in 1 .. n
    BY <1>1, GreatestPosition
  <2>2. f[s \ {Max(s)}] \in Batches
    BY <1>6
  <2>3. f[s] = G[<<f[s \ {Max(s)}], Max(s)>>]
    BY <1>6 DEF FoldsOver
  <2> HIDE DEF Solves
  <2> QED BY <1>5, <2>1, <2>2, <2>3
<1>8. PICK h : Solves(h) /\ filled = h[1 .. n]
  BY <1>2, <1>7, Zenon DEF Solves
<1>9. h[{}] = b
  BY <1>8
<1>10. \A k \in 1 .. n : h[1 .. k] = AddToBatch(h[1 .. k - 1], prompts[k])
  <2> TAKE k \in 1 .. n
  <2>1. /\ 1 .. k \in SUBSET (1 .. n) /\ 1 .. k # {}
        /\ Max(1 .. k) = k /\ (1 .. k) \ {k} = 1 .. k - 1
    BY <1>1, GreatestPosition
  <2> QED BY <1>8, <2>1, ZenonT(60)
<1>11. Unfolds(h, n, Batches, b, G)
  BY <1>1, <1>4, <1>5, <1>9, <1>10 DEF Unfolds
<1>12. PICK g \in [0 .. n -> Batches] : Iterated(g, n, b, G) /\ g[n] = h[1 .. n]
  <2>1. EndsChain(h[1 .. n], n, Batches, b, G)
    BY <1>11, ChainOfFold
  <2> QED BY <2>1 DEF EndsChain
<1> DEFINE T == {k \in 0 .. n : FilledTo(g[k], prompts, k)}
<1>13. 0 \in T
  <2>1. g[0] = b /\ Len(<<>>) = 0 /\ 1 .. 0 = {} /\ 0 \in 0 .. n
    BY <1>1, <1>12, EmptySeq DEF Iterated
  <2>2. FilledTo(b, prompts, 0)
    BY <2>1 DEF FilledTo
  <2> QED BY <2>1, <2>2
<1>14. ASSUME NEW k \in 1 .. n, k - 1 \in T
       PROVE  k \in T
  <2>1. FilledTo(g[k - 1], prompts, k - 1) /\ k \in 1 .. Len(prompts) /\ k - 1 \in 0 .. n
    BY <1>14 DEF n
  <2>2. g[k] = AddToBatch(g[k - 1], prompts[k])
    <3>1. g[k - 1] \in Batches
      BY <2>1 DEF FilledTo
    <3>2. g[k] = G[<<g[k - 1], k>>]
      BY <1>12 DEF Iterated
    <3>3. G[<<g[k - 1], k>>] = AddToBatch(g[k - 1], prompts[k])
      BY <1>5, <3>1
    <3> QED BY <3>2, <3>3
  <2>3. FilledTo(g[k], prompts, k)
    BY <2>1, <2>2, FillOne
  <2> QED BY <2>3
<1>15. n \in T
  <2> HIDE DEF T
  <2>1. 0 .. n \subseteq T
    BY <1>1, <1>13, <1>14, Steps
  <2> QED BY <1>1, <2>1
<1>16. FilledTo(filled, prompts, n)
  BY <1>8, <1>12, <1>15
<1> QED BY <1>16 DEF filled, n

\* _prepare_prompt, after update_states and clear_requests.
LEMMA PreparedRows ==
  ASSUME input_batch \in Tidy, NEW gone, gone \subseteq Int, IsFiniteSet(gone),
         NEW prompts, Distinct(prompts)
  PROVE  FilledTo(PreparedBatch(prompts, gone), prompts, Len(prompts))
<1> DEFINE b == UpdatedBatch(gone)
           c == ClearRequests(b)
<1>1. b \in Tidy
  BY UpdatedTidy
<1>2. b \in Batches
  BY <1>1 DEF Tidy
<1> HIDE DEF b
<1>3. c \in Tidy /\ c.items = <<>> /\ c.num = 0
  BY <1>2, ClearedTidy
<1>4. c \in Batches
  BY <1>3 DEF Tidy
<1> HIDE DEF c
<1>5. FilledTo(FoldLeft(AddToBatch, c, prompts), prompts, Len(prompts))
  BY <1>3, <1>4, FilledBatch
<1>6. PreparedBatch(prompts, gone) = FoldLeft(AddToBatch, c, prompts)
  BY DEF PreparedBatch, b, c
<1> QED BY <1>5, <1>6

\* Such a batch is tidy, and every request is at its own index.
LEMMA FilledIndex ==
  ASSUME NEW b, NEW prompts, Distinct(prompts), FilledTo(b, prompts, Len(prompts))
  PROVE  /\ b \in Tidy
         /\ \A k \in 1 .. Len(prompts) : IndexOf(b, prompts[k].req) = k
<1> DEFINE n == Len(prompts)
<1>1. /\ n \in Nat /\ n <= MaxNumReqs /\ MaxNumReqs \in Nat
      /\ \A k, l \in 1 .. n : prompts[k].req = prompts[l].req => k = l
  BY LenProperties, LargestShapes DEF Distinct
<1>2. /\ b \in Batches /\ b.num = n /\ Len(b.items) = n
      /\ b.items \in Seq(Items) /\ DOMAIN b.items = 1 .. n
      /\ \A i \in 1 .. n : b.items[i] = [req |-> prompts[i].req, index |-> i]
  BY LenProperties DEF FilledTo, Batches
<1> HIDE DEF n
<1>3. \A i \in 1 .. n : b.items[i].req = prompts[i].req /\ b.items[i].index = i
  <2> TAKE i \in 1 .. n
  <2>1. b.items[i] = [req |-> prompts[i].req, index |-> i]
    BY <1>2
  <2> QED BY <2>1
<1>4. b \in Tidy
  <2>1. KeysDiffer(b.items)
    BY <1>1, <1>2, <1>3 DEF KeysDiffer
  <2>2. \A k \in 1 .. n : b.items[k].index \in 1 .. MaxNumReqs
    BY <1>1, <1>3
  <2> QED BY <1>1, <1>2, <2>1, <2>2 DEF Tidy
<1>5. ASSUME NEW k \in 1 .. n
      PROVE  IndexOf(b, prompts[k].req) = k
  <2> DEFINE r == prompts[k].req
  <2>1. \A item : item \in ToSet(b.items) <=> \E i \in 1 .. n : item = b.items[i]
    BY <1>2 DEF ToSet
  <2>2. b.items[k] \in ToSet(b.items) /\ b.items[k].req = r
    BY <1>3, <2>1
  <2>3. \A item \in ToSet(b.items) : item.req = r => item = b.items[k]
    <3> SUFFICES ASSUME NEW item \in ToSet(b.items), item.req = r
                 PROVE  item = b.items[k]
      OBVIOUS
    <3>1. PICK i \in 1 .. n : item = b.items[i]
      BY <2>1
    <3>2. prompts[i].req = prompts[k].req
      BY <1>3, <3>1
    <3> QED BY <1>1, <3>1, <3>2
  <2>4. (CHOOSE item \in ToSet(b.items) : item.req = r) = b.items[k]
    <3> HIDE DEF r
    <3> QED BY <2>2, <2>3
  <2> QED BY <1>3, <2>4 DEF IndexOf
<1> QED BY <1>4, <1>5 DEF n

\* The pooler gets of each row what it needs.
LEMMA PooledRows ==
  ASSUME NEW b, NEW prompts, Distinct(prompts), FilledTo(b, prompts, Len(prompts))
  PROVE  \A k \in 1 .. Len(prompts) :
           Pooled(b, prompts)[k] =
             [hidden   |-> prompts[k].req,
              metadata |-> [len |-> prompts[k].len, params |-> prompts[k].req]]
<1> DEFINE n == Len(prompts)
           meta == PoolingMetadata(b)
<1>1. n \in Nat /\ b.num = n
  BY LenProperties DEF FilledTo, Distinct
<1>2. \A i \in 1 .. n : /\ b.items[i] = [req |-> prompts[i].req, index |-> i]
                        /\ b.rows[i] = prompts[i]
  BY DEF FilledTo
<1>3. meta = [i \in 1 .. n |-> [len |-> b.rows[i].len, params |-> b.items[i].req]]
  BY <1>1 DEF PoolingMetadata
<1>4. Pooled(b, prompts) = [i \in 1 .. n |-> [hidden |-> prompts[i].req, metadata |-> meta[i]]]
  BY <1>1 DEF Pooled, Smaller
<1> HIDE DEF n, meta
<1>5. ASSUME NEW k \in 1 .. n
      PROVE  meta[k] = [len |-> prompts[k].len, params |-> prompts[k].req]
  <2>1. b.items[k] = [req |-> prompts[k].req, index |-> k] /\ b.rows[k] = prompts[k]
    BY <1>2
  <2>2. meta[k] = [len |-> b.rows[k].len, params |-> b.items[k].req]
    BY <1>3
  <2> QED BY <2>1, <2>2
<1>6. \A k \in 1 .. n :
        Pooled(b, prompts)[k] =
          [hidden |-> prompts[k].req,
           metadata |-> [len |-> prompts[k].len, params |-> prompts[k].req]]
  BY <1>4, <1>5
<1> QED BY <1>6 DEF n
-----------------------------------------------------------------------------

(***************************************************************************)
(* The order of the warmup shapes.                                         *)
(***************************************************************************)
LEMMA FasterOrder ==
  /\ \A s \in Shapes : ~Faster(s, s)
  /\ \A s, t \in Shapes : s # t => Faster(s, t) \/ Faster(t, s)
  /\ \A s, t, u \in Shapes : Faster(s, t) /\ Faster(t, u) => Faster(s, u)
<1>1. \A s \in Shapes : /\ s = [prompt_length |-> s.prompt_length, batch_size |-> s.batch_size]
                        /\ s.prompt_length \in Int /\ s.batch_size \in Int
  BY ShapesAssumption
<1>2. \A s, t \in Shapes :
        s.prompt_length = t.prompt_length /\ s.batch_size = t.batch_size => s = t
  BY <1>1
<1>3. \A s, t \in Shapes : s # t => Faster(s, t) \/ Faster(t, s)
  BY <1>1, <1>2 DEF Faster
<1>4. \A s, t, u \in Shapes : Faster(s, t) /\ Faster(t, u) => Faster(s, u)
  BY <1>1 DEF Faster
<1> QED BY <1>1, <1>3, <1>4 DEF Faster

\* One of several shapes is the fastest: the shortest of the smallest.
LEMMA FirstShape ==
  ASSUME NEW A, A \subseteq Shapes, A # {}
  PROVE  \E s \in A : \A other \in A \ {s} : Faster(s, other)
<1> DEFINE Sizes == {s.batch_size : s \in A}
<1>1. \A s \in A : s.prompt_length \in Nat /\ s.batch_size \in Nat
  BY ShapesAssumption
<1>2. PICK m \in Sizes : \A x \in Sizes : m <= x
  <2>1. Sizes \subseteq Nat /\ Sizes # {}
    BY <1>1
  <2> HIDE DEF Sizes
  <2> QED BY <2>1, LeastExists
<1> DEFINE Lengths == {s.prompt_length : s \in {t \in A : t.batch_size = m}}
<1>3. PICK l \in Lengths : \A x \in Lengths : l <= x
  <2>1. Lengths \subseteq Nat /\ Lengths # {}
    BY <1>1, <1>2
  <2> HIDE DEF Lengths
  <2> QED BY <2>1, LeastExists
<1>4. PICK s \in A : s.batch_size = m /\ s.prompt_length = l
  BY <1>3
<1>5. ASSUME NEW other \in A \ {s}
      PROVE  Faster(s, other)
  <2>1. m <= other.batch_size
    BY <1>2
  <2>2. other.batch_size = m => l <= other.prompt_length
    BY <1>3
  <2>3. ~Faster(other, s)
    BY <1>1, <1>4, <2>1, <2>2 DEF Faster
  <2> QED BY <2>3, FasterOrder
<1> QED BY <1>4, <1>5

\* Places in the order: how many shapes are faster.
Ahead(s) == {t \in Shapes : Faster(t, s)}

\* A place for each shape, in the order of speed.
LEMMA PlacesInOrder ==
  /\ \A s \in Shapes : Cardinality(Ahead(s)) + 1 \in 1 .. Cardinality(Shapes)
  /\ \A s, t \in Shapes : Faster(s, t) => Cardinality(Ahead(s)) < Cardinality(Ahead(t))
<1>1. IsFiniteSet(Shapes) /\ Cardinality(Shapes) \in Nat
  BY ShapesAssumption, FS_CardinalityType
<1>2. \A s \in Shapes : /\ IsFiniteSet(Ahead(s)) /\ Cardinality(Ahead(s)) \in Nat
                        /\ Cardinality(Ahead(s)) < Cardinality(Shapes)
  <2> TAKE s \in Shapes
  <2>1. Ahead(s) \in SUBSET Shapes /\ s \notin Ahead(s)
    BY FasterOrder DEF Ahead
  <2>2. /\ IsFiniteSet(Ahead(s)) /\ Cardinality(Ahead(s)) <= Cardinality(Shapes)
        /\ Cardinality(Shapes) = Cardinality(Ahead(s)) => Shapes = Ahead(s)
    BY <1>1, <2>1, FS_Subset
  <2>3. Cardinality(Ahead(s)) \in Nat
    BY <2>2, FS_CardinalityType
  <2> QED BY <1>1, <2>1, <2>2, <2>3
<1>3. ASSUME NEW s \in Shapes, NEW t \in Shapes, Faster(s, t)
      PROVE  Cardinality(Ahead(s)) < Cardinality(Ahead(t))
  <2>1. Ahead(s) \in SUBSET Ahead(t) /\ s \notin Ahead(s) /\ s \in Ahead(t)
    BY <1>3, FasterOrder DEF Ahead
  <2>2. /\ Cardinality(Ahead(s)) <= Cardinality(Ahead(t))
        /\ Cardinality(Ahead(t)) = Cardinality(Ahead(s)) => Ahead(t) = Ahead(s)
    BY <1>2, <2>1, FS_Subset
  <2> QED BY <1>2, <2>1, <2>2
<1> QED BY <1>1, <1>2, <1>3

\* The order exists and lists every shape.
LEMMA AllShapesListed ==
  /\ Cardinality(Shapes) \in Nat
  /\ WarmupShapes \in [1 .. Cardinality(Shapes) -> Shapes]
  /\ \A s \in Shapes : \E i \in 1 .. Cardinality(Shapes) : WarmupShapes[i] = s
<1> DEFINE n == Cardinality(Shapes)
           place == [s \in Shapes |-> Cardinality(Ahead(s)) + 1]
           Ordered(order) == \A i, j \in 1 .. n : i < j => Faster(order[i], order[j])
<1>1. /\ IsFiniteSet(Shapes) /\ n \in Nat
      /\ IsFiniteSet(1 .. n) /\ Cardinality(1 .. n) = n
  <2>1. IsFiniteSet(Shapes) /\ n \in Nat
    BY ShapesAssumption, FS_CardinalityType
  <2> HIDE DEF n
  <2> QED BY <2>1, FS_Interval
<1>2. /\ place \in [Shapes -> 1 .. n]
      /\ \A s, t \in Shapes : Faster(s, t) => place[s] < place[t]
  <2>1. \A s \in Shapes : Cardinality(Ahead(s)) + 1 \in 1 .. n /\ Cardinality(Ahead(s)) \in Int
    <3>1. \A s \in Shapes : Cardinality(Ahead(s)) \in Int
      <4> TAKE s \in Shapes
      <4>1. Ahead(s) \in SUBSET Shapes
        BY DEF Ahead
      <4> QED BY <1>1, <4>1, FS_Subset, FS_CardinalityType
    <3> QED BY <3>1, PlacesInOrder
  <2> HIDE DEF n
  <2>2. place \in [Shapes -> 1 .. n]
    BY <2>1
  <2>3. \A s, t \in Shapes : Faster(s, t) => place[s] < place[t]
    BY <2>1, PlacesInOrder
  <2> QED BY <2>2, <2>3
<1> HIDE DEF n, place
<1>3. \A s, t \in Shapes : place[s] = place[t] => s = t
  BY <1>2, FasterOrder
<1>4. \A i \in 1 .. n : \E s \in Shapes : place[s] = i
  <2>1. place \in Injection(Shapes, 1 .. n)
    BY <1>2, <1>3 DEF Injection, IsInjective
  <2>2. place \in Surjection(Shapes, 1 .. n)
    BY <1>1, <2>1, FS_Injection DEF n
  <2> QED BY <2>2 DEF Surjection
<1>5. \E order \in [1 .. n -> Shapes] : Ordered(order)
  <2> DEFINE order == [i \in 1 .. n |-> CHOOSE s \in Shapes : place[s] = i]
  <2>1. \A i \in 1 .. n : order[i] \in Shapes /\ place[order[i]] = i
    BY <1>4
  <2>2. order \in [1 .. n -> Shapes]
    BY <2>1
  <2> HIDE DEF order
  <2>3. ASSUME NEW i \in 1 .. n, NEW j \in 1 .. n, i < j
        PROVE  Faster(order[i], order[j])
    <3>1. order[i] # order[j] /\ ~Faster(order[j], order[i])
      BY <1>1, <1>2, <2>1, <2>3
    <3> QED BY <2>1, <3>1, FasterOrder
  <2> QED BY <2>2, <2>3
<1>6. WarmupShapes \in [1 .. n -> Shapes] /\ Ordered(WarmupShapes)
  <2>1. WarmupShapes = CHOOSE order \in [1 .. n -> Shapes] : Ordered(order)
    BY DEF WarmupShapes, n
  <2> HIDE DEF Ordered
  <2> QED BY <1>5, <2>1
<1>7. \A s \in Shapes : \E i \in 1 .. n : WarmupShapes[i] = s
  <2>1. \A i, j \in 1 .. n : WarmupShapes[i] = WarmupShapes[j] => i = j
    <3> SUFFICES ASSUME NEW i \in 1 .. n, NEW j \in 1 .. n, i < j
                 PROVE  WarmupShapes[i] # WarmupShapes[j]
      BY <1>1
    <3> QED BY <1>6, FasterOrder
  <2>2. WarmupShapes \in Injection(1 .. n, Shapes)
    BY <1>6, <2>1 DEF Injection, IsInjective
  <2>3. WarmupShapes \in Surjection(1 .. n, Shapes)
    BY <1>1, <2>2, FS_Injection DEF n
  <2> QED BY <2>3 DEF Surjection
<1> QED BY <1>1, <1>6, <1>7 DEF n

\* The runner takes one of the shapes.
LEMMA PaddedAsShape ==
  ASSUME NEW prompts, ApplicableShapes(prompts) # {}
  PROVE  /\ PaddedShape(prompts) \in ApplicableShapes(prompts)
         /\ \A other \in ApplicableShapes(prompts) \ {PaddedShape(prompts)} :
              Faster(PaddedShape(prompts), other)
<1> DEFINE A == ApplicableShapes(prompts)
<1>1. A \subseteq Shapes /\ A # {}
  BY DEF ApplicableShapes
<1>2. PaddedShape(prompts) =
        CHOOSE s \in A : \A other \in A \ {s} : Faster(s, other)
  BY DEF PaddedShape
<1> HIDE DEF A
<1>3. \E s \in A : \A other \in A \ {s} : Faster(s, other)
  BY <1>1, FirstShape
<1>4. PaddedShape(prompts) \in A /\ \A other \in A \ {PaddedShape(prompts)} :
                                      Faster(PaddedShape(prompts), other)
  BY <1>2, <1>3
<1> QED BY <1>4 DEF A

\* For the prompts of a shape's warmup, that is the shape itself.
LEMMA OwnShape ==
  ASSUME NEW shape \in Shapes
  PROVE  /\ Distinct(WarmupPrompts(shape)) /\ WarmupPrompts(shape) # <<>>
         /\ ApplicableShapes(WarmupPrompts(shape)) # {}
         /\ PaddedShape(WarmupPrompts(shape)) = shape
<1> DEFINE prompts == WarmupPrompts(shape)
           n == shape.batch_size
<1>1. /\ n \in Nat \ {0} /\ n <= MaxNumReqs /\ shape.prompt_length \in Nat
      /\ \A s \in Shapes : s.batch_size \in Int /\ s.prompt_length \in Int
  BY ShapesAssumption, LargestShapes
<1>2. prompts = [i \in 1 .. n |-> [req |-> -i, len |-> shape.prompt_length]]
  BY DEF WarmupPrompts
<1> HIDE DEF prompts, n
<1>3. \A i \in 1 .. n : /\ prompts[i] \in Prompts /\ prompts[i].req = -i
                        /\ prompts[i].len = shape.prompt_length
  BY <1>1, <1>2 DEF Prompts
<1>4. prompts \in Seq(Prompts) /\ Len(prompts) = n /\ DOMAIN prompts = 1 .. n
  <2>1. prompts \in [1 .. n -> Prompts]
    BY <1>2, <1>3
  <2>2. n \in Nat
    BY <1>1
  <2>3. prompts \in Seq(Prompts)
    BY <2>1, <2>2, IsASeq
  <2>4. Len(prompts) = n
    BY <2>1, <2>2, <2>3, LenProperties
  <2> QED BY <2>1, <2>3, <2>4
<1>5. Distinct(prompts)
  <2>1. \A k, l \in 1 .. n : prompts[k].req = prompts[l].req => k = l
    <3> TAKE k \in 1 .. n, l \in 1 .. n
    <3>1. prompts[k].req = -k /\ prompts[l].req = -l
      BY <1>3
    <3> QED BY <3>1
  <2> QED BY <1>1, <1>4, <2>1 DEF Distinct
<1>6. prompts # <<>>
  BY <1>1, <1>4
<1>7. \A s \in Shapes : s \in ApplicableShapes(prompts) <=>
                          n <= s.batch_size /\ shape.prompt_length <= s.prompt_length
  <2> TAKE s \in Shapes
  <2>1. ToSet(prompts) = {prompts[i] : i \in 1 .. n}
    BY <1>4 DEF ToSet
  <2>2. (\A p \in ToSet(prompts) : p.len <= s.prompt_length) <=>
          shape.prompt_length <= s.prompt_length
    <3>1. \A p \in ToSet(prompts) : p.len = shape.prompt_length
      BY <1>3, <2>1
    <3>2. prompts[1] \in ToSet(prompts)
      BY <1>1, <2>1
    <3> QED BY <3>1, <3>2
  <2> QED BY <1>4, <2>2 DEF ApplicableShapes
<1>8. shape \in ApplicableShapes(prompts)
  BY <1>1, <1>7 DEF n
<1>9. PaddedShape(prompts) = shape
  <2> SUFFICES ASSUME PaddedShape(prompts) # shape PROVE FALSE
    OBVIOUS
  <2> DEFINE s == PaddedShape(prompts)
  <2>1. s \in ApplicableShapes(prompts) /\ Faster(s, shape)
    BY <1>8, PaddedAsShape
  <2> HIDE DEF s
  <2>2. s \in Shapes
    BY <2>1 DEF ApplicableShapes
  <2>3. n <= s.batch_size /\ shape.prompt_length <= s.prompt_length
    BY <1>7, <2>1, <2>2
  <2> QED BY <1>1, <2>1, <2>2, <2>3 DEF Faster, n
<1> QED BY <1>5, <1>6, <1>8, <1>9 DEF prompts
-----------------------------------------------------------------------------

(***************************************************************************)
(* The inductive invariant. A request is in the queue or was taken from    *)
(* it; the batch of the step fits a shape; while the model's output is     *)
(* there the rows are those of the batch, also of requests aborted since;  *)
(* and the warmup has compiled a shape for every two passes.               *)
(***************************************************************************)
QueueInv ==
  /\ prompt_len \in Seq(1 .. MaxModelLen)
  /\ waiting \in Seq(Arrived \ (running \cup finished_ids))
  /\ Increasing(waiting)
  /\ finished_ids \subseteq Arrived /\ told \subseteq Arrived

StepInv ==
  /\ scheduled \in Seq(Arrived) /\ Increasing(scheduled)
  /\ \E shape \in Shapes : Covers(shape, scheduled)
  /\ running \subseteq ToSet(scheduled)
  /\ phase \in {"warmup", "idle"} => scheduled = <<>>

RowsInv ==
  /\ input_batch \in Tidy
  /\ requests \subseteq Int /\ padded \subseteq Shapes /\ model_input \in Seq(Prompts)
  /\ phase = "executed" /\ scheduled # <<>> =>
       /\ FilledTo(input_batch, ScheduledPrompts, Len(scheduled))
       /\ pooler_output = Pooled(input_batch, ScheduledPrompts)

WarmupInv ==
  /\ warmups \in 0 .. 2 * Cardinality(Shapes)
  /\ phase \in {"warmup", "idle", "scheduled", "executed"}
  /\ phase = "warmup" =>
       /\ warmup_mode = TRUE
       /\ compiled = {WarmupShapes[i] : i \in 1 .. (warmups + 1) \div 2}
  /\ phase # "warmup" => warmup_mode = FALSE /\ compiled = Shapes

PoolingInv == QueueInv /\ StepInv /\ RowsInv /\ WarmupInv

\* Requests are numbered from 1.
LEMMA ArrivedNumbers ==
  ASSUME prompt_len \in Seq(1 .. MaxModelLen)
  PROVE  /\ Len(prompt_len) \in Nat /\ Arrived = 1 .. Len(prompt_len)
         /\ IsFiniteSet(Arrived) /\ Arrived \subseteq Int
         /\ \A r \in Arrived : prompt_len[r] \in 1 .. MaxModelLen
<1>1. /\ Len(prompt_len) \in Nat /\ Arrived = 1 .. Len(prompt_len)
      /\ \A r \in 1 .. Len(prompt_len) : prompt_len[r] \in 1 .. MaxModelLen
  BY LenProperties, ElementOfSeq DEF Arrived
<1>2. IsFiniteSet(1 .. Len(prompt_len))
  BY <1>1, FS_Interval
<1> QED BY <1>1, <1>2

\* What schedule() finds in the waiting queue.
LEMMA WaitingQueue ==
  ASSUME QueueInv
  PROVE  /\ Queue(waiting)
         /\ waiting \in Seq(Arrived) /\ Len(waiting) \in Nat
         /\ DOMAIN waiting = 1 .. Len(waiting)
         /\ \A i \in 1 .. Len(waiting) : waiting[i] \in Arrived \ (running \cup finished_ids)
<1>1. /\ waiting \in Seq(Arrived \ (running \cup finished_ids)) /\ Increasing(waiting)
      /\ Arrived \subseteq Int /\ \A r \in Arrived : prompt_len[r] \in 1 .. MaxModelLen
  BY ArrivedNumbers DEF QueueInv
<1>2. /\ Len(waiting) \in Nat /\ DOMAIN waiting = 1 .. Len(waiting)
      /\ \A i \in 1 .. Len(waiting) : waiting[i] \in Arrived \ (running \cup finished_ids)
  BY <1>1, LenProperties, ElementOfSeq
<1>3. waiting \in [1 .. Len(waiting) -> Arrived] /\ waiting \in [1 .. Len(waiting) -> Int]
  <2>1. waiting \in [1 .. Len(waiting) -> Arrived \ (running \cup finished_ids)]
    BY <1>1, LenProperties
  <2> QED BY <1>1, <2>1
<1>4. waiting \in Seq(Arrived) /\ waiting \in Seq(Int)
  BY <1>2, <1>3, IsASeq
<1>5. Queue(waiting)
  BY <1>1, <1>2, <1>4 DEF Queue
<1> QED BY <1>2, <1>4, <1>5

\* scheduled_new_reqs: distinct requests that fit a shape together.
LEMMA NewRequests ==
  ASSUME QueueInv, StepInv
  PROVE  /\ Distinct(ScheduledPrompts)
         /\ Len(scheduled) \in Nat /\ DOMAIN scheduled = 1 .. Len(scheduled)
         /\ Len(ScheduledPrompts) = Len(scheduled)
         /\ \A k \in 1 .. Len(scheduled) :
              /\ scheduled[k] \in Arrived
              /\ ScheduledPrompts[k] = [req |-> scheduled[k], len |-> prompt_len[scheduled[k]]]
         /\ ScheduledPrompts = <<>> <=> scheduled = <<>>
         /\ ApplicableShapes(ScheduledPrompts) # {}
<1> DEFINE n == Len(scheduled)
           prompts == ScheduledPrompts
<1>1. /\ n \in Nat /\ DOMAIN scheduled = 1 .. n
      /\ \A k \in 1 .. n : scheduled[k] \in Arrived
  BY LenProperties, ElementOfSeq DEF StepInv
<1>2. Arrived \subseteq Int /\ \A r \in Arrived : prompt_len[r] \in 1 .. MaxModelLen
  BY ArrivedNumbers DEF QueueInv
<1>3. prompts = [k \in 1 .. n |-> [req |-> scheduled[k], len |-> prompt_len[scheduled[k]]]]
  BY <1>1 DEF ScheduledPrompts
<1>4. \A i, j \in 1 .. n : i < j => scheduled[i] < scheduled[j]
  BY DEF StepInv, Increasing
<1>5. PICK shape \in Shapes :
        /\ n <= shape.batch_size
        /\ \A x \in 1 .. n : prompt_len[scheduled[x]] <= shape.prompt_length
  BY DEF StepInv, Covers
<1>6. scheduled = <<>> <=> n = 0
  BY EmptySeq DEF StepInv
<1> HIDE DEF n, prompts
<1>7. \A k \in 1 .. n :
        /\ prompts[k] = [req |-> scheduled[k], len |-> prompt_len[scheduled[k]]]
        /\ prompts[k].req = scheduled[k] /\ prompts[k].len = prompt_len[scheduled[k]]
        /\ prompts[k] \in Prompts
  <2> TAKE k \in 1 .. n
  <2>1. prompts[k] = [req |-> scheduled[k], len |-> prompt_len[scheduled[k]]]
    BY <1>3
  <2>2. scheduled[k] \in Arrived
    BY <1>1
  <2>3. scheduled[k] \in Int /\ prompt_len[scheduled[k]] \in 1 .. MaxModelLen
    BY <1>2, <2>2
  <2>4. prompt_len[scheduled[k]] \in Nat
    BY <2>3, LargestShapes
  <2> QED BY <2>1, <2>3, <2>4 DEF Prompts
<1>8. prompts \in Seq(Prompts) /\ Len(prompts) = n /\ DOMAIN prompts = 1 .. n
  <2>1. prompts \in [1 .. n -> Prompts]
    BY <1>3, <1>7
  <2>2. prompts \in Seq(Prompts)
    BY <1>1, <2>1, IsASeq
  <2>3. Len(prompts) = n
    BY <1>1, <2>1, <2>2, LenProperties
  <2> QED BY <2>1, <2>2, <2>3
<1>9. Distinct(prompts)
  <2>1. n <= MaxNumReqs
    BY <1>1, <1>5, LargestShapes, ShapesAssumption
  <2>2. ASSUME NEW k \in 1 .. n, NEW l \in 1 .. n, prompts[k].req = prompts[l].req
        PROVE  k = l
    <3>1. prompts[k].req = scheduled[k] /\ prompts[l].req = scheduled[l]
      BY <1>7
    <3>2. scheduled[k] \in Int /\ scheduled[k] = scheduled[l]
      BY <1>1, <1>2, <2>2, <3>1
    <3> QED BY <1>4, <3>2
  <2> QED BY <1>8, <2>1, <2>2 DEF Distinct
<1>10. prompts = <<>> <=> scheduled = <<>>
  BY <1>6, <1>8, EmptySeq
<1>11. shape \in ApplicableShapes(prompts)
  <2>1. \A p \in ToSet(prompts) : p.len <= shape.prompt_length
    <3> SUFFICES ASSUME NEW p \in ToSet(prompts) PROVE p.len <= shape.prompt_length
      OBVIOUS
    <3>1. PICK k \in 1 .. n : p = prompts[k]
      BY <1>8 DEF ToSet
    <3>2. p.len = prompt_len[scheduled[k]]
      BY <1>7, <3>1
    <3> QED BY <1>5, <3>2
  <2> QED BY <1>5, <1>8, <2>1 DEF ApplicableShapes
<1> QED BY <1>1, <1>7, <1>8, <1>9, <1>10, <1>11 DEF n, prompts

-----------------------------------------------------------------------------
(***************************************************************************)
(* The first state and every step.                                         *)
(***************************************************************************)
\* The empty queue, and a batch of no requests.
LEMMA EmptyLists ==
  /\ Increasing(<<>>) /\ Len(<<>>) = 0 /\ \A S : <<>> \in Seq(S)
  /\ \E shape \in Shapes : Covers(shape, <<>>)
<1>1. Len(<<>>) = 0 /\ \A S : <<>> \in Seq(S)
  BY EmptySeq
<1>2. \A s \in Shapes : s.batch_size \in Nat \ {0}
  BY ShapesAssumption
<1>3. \A s \in Shapes : Covers(s, <<>>)
  BY <1>1, <1>2 DEF Covers
<1> QED BY <1>1, <1>3, ShapesAssumption DEF Increasing

\* The object is new, the warmup is about to begin.
LEMMA InitPoolingInv == Init => PoolingInv
<1> SUFFICES ASSUME Init PROVE PoolingInv
  OBVIOUS
<1> USE DEF Init, SchedInit, RunnerInit
<1>1. QueueInv
  BY EmptyLists DEF QueueInv, Arrived
<1>2. StepInv
  BY EmptyLists DEF StepInv
<1>3. RowsInv
  <2>1. NewBatch(MaxNumReqs) \in Tidy
    <3>1. PICK b : b \in Batches
      <4>1. NewBatch(MaxNumReqs) \in Batches
        <5>1. NoPrompt \in Prompts
          BY DEF NoPrompt, Prompts
        <5> QED BY <5>1, EmptySeq DEF NewBatch, Batches
      <4> QED BY <4>1
    <3> QED BY <3>1, ClearedTidy
  <2> QED BY <2>1, EmptyLists DEF RowsInv
<1>4. WarmupInv
  <2>1. Cardinality(Shapes) \in Nat /\ 1 .. (0 + 1) \div 2 = {}
    BY AllShapesListed
  <2> QED BY <2>1 DEF WarmupInv
<1> QED BY <1>1, <1>2, <1>3, <1>4 DEF PoolingInv

\* A pass of the warmup compiles its own shape.
LEMMA WarmupPassStep == PoolingInv /\ WarmupPass => PoolingInv'
<1> DEFINE i == warmups \div 2 + 1
           n == Cardinality(Shapes)
           shape == WarmupShapes[i]
           prompts == WarmupPrompts(shape)
<1> SUFFICES ASSUME PoolingInv, WarmupPass PROVE PoolingInv'
  OBVIOUS
<1>1. /\ phase = "warmup" /\ phase' = phase /\ warmups' = warmups + 1
      /\ UNCHANGED <<schedVars, warmup_mode>>
      /\ ExecuteModel(prompts, {}) /\ warmups # 2 * n
  BY DEF WarmupPass, PassesDone
<1>2. /\ warmups \in 0 .. 2 * n /\ warmup_mode = TRUE
      /\ compiled = {WarmupShapes[k] : k \in 1 .. (warmups + 1) \div 2}
  BY <1>1 DEF PoolingInv, WarmupInv
<1>3. n \in Nat /\ WarmupShapes \in [1 .. n -> Shapes]
  BY AllShapesListed
<1> HIDE DEF n
<1>4. /\ i \in 1 .. n
      /\ 1 .. (warmups + 1 + 1) \div 2 = (1 .. (warmups + 1) \div 2) \cup {i}
  BY <1>1, <1>2, <1>3
<1>5. shape \in Shapes
  BY <1>3, <1>4
<1> HIDE DEF i, shape
<1>6. /\ Distinct(prompts) /\ prompts # <<>> /\ ApplicableShapes(prompts) # {}
      /\ PaddedShape(prompts) = shape
  BY <1>5, OwnShape
<1> HIDE DEF prompts
<1>7. /\ padded' = {shape} /\ compiled' = compiled \cup {shape}
      /\ input_batch' = PreparedBatch(prompts, {})
      /\ requests' = {p.req : p \in ToSet(prompts)} /\ model_input' = prompts
  BY <1>1, <1>2, <1>6 DEF ExecuteModel
<1>8. QueueInv'
  BY <1>1 DEF PoolingInv, QueueInv, schedVars, Arrived
<1>9. StepInv'
  BY <1>1 DEF PoolingInv, StepInv, schedVars, Arrived, Covers
<1>10. RowsInv'
  <2>1. input_batch \in Tidy
    BY DEF PoolingInv, RowsInv
  <2>2. FilledTo(PreparedBatch(prompts, {}), prompts, Len(prompts))
    BY <1>6, <2>1, PreparedRows, FS_EmptySet
  <2>3. input_batch' \in Tidy
    BY <1>6, <1>7, <2>2, FilledIndex
  <2>4. requests' \subseteq Int /\ model_input' \in Seq(Prompts)
    <3>1. prompts \in Seq(Prompts)
      BY <1>6 DEF Distinct
    <3>2. \A p \in ToSet(prompts) : p \in Prompts
      BY <3>1, LenProperties, ElementOfSeq DEF ToSet
    <3> QED BY <1>7, <3>1, <3>2 DEF Prompts
  <2> QED BY <1>1, <1>5, <1>7, <2>3, <2>4 DEF RowsInv
<1>11. WarmupInv'
  <2>1. compiled' = {WarmupShapes[k] : k \in 1 .. (warmups' + 1) \div 2}
    BY <1>1, <1>2, <1>4, <1>7 DEF shape
  <2>2. warmups' \in 0 .. 2 * n
    BY <1>1, <1>2, <1>3
  <2> QED BY <1>1, <1>2, <2>1, <2>2 DEF WarmupInv, n
<1> QED BY <1>8, <1>9, <1>10, <1>11 DEF PoolingInv

\* After two passes for each of them, all shapes are compiled.
LEMMA CompleteWarmupStep == PoolingInv /\ CompleteWarmup => PoolingInv'
<1> SUFFICES ASSUME PoolingInv, CompleteWarmup PROVE PoolingInv'
  OBVIOUS
<1>1. /\ phase = "warmup" /\ phase' = "idle" /\ warmup_mode' = FALSE
      /\ warmups = 2 * Cardinality(Shapes)
      /\ UNCHANGED <<schedVars, input_batch, requests, padded, model_input, pooler_output,
                     compiled, warmups>>
  BY DEF CompleteWarmup, PassesDone
<1>2. QueueInv'
  BY <1>1 DEF PoolingInv, QueueInv, schedVars, Arrived
<1>3. StepInv'
  BY <1>1 DEF PoolingInv, StepInv, schedVars, Arrived, Covers
<1>4. RowsInv'
  BY <1>1 DEF PoolingInv, RowsInv
<1>5. WarmupInv'
  <2> DEFINE n == Cardinality(Shapes)
  <2>1. /\ n \in Nat /\ WarmupShapes \in [1 .. n -> Shapes]
        /\ \A s \in Shapes : \E i \in 1 .. n : WarmupShapes[i] = s
    BY AllShapesListed
  <2>2. warmups \in 0 .. 2 * n /\ compiled = {WarmupShapes[k] : k \in 1 .. (warmups + 1) \div 2}
    BY <1>1 DEF PoolingInv, WarmupInv
  <2>3. warmups = 2 * n
    BY <1>1
  <2> HIDE DEF n
  <2>4. (warmups + 1) \div 2 = n
    BY <2>1, <2>3
  <2>5. compiled = Shapes
    BY <2>1, <2>2, <2>4
  <2> QED BY <1>1, <2>2, <2>5 DEF WarmupInv, n
<1> QED BY <1>2, <1>3, <1>4, <1>5 DEF PoolingInv

\* The newest request has the highest number and is in no other place.
LEMMA ArriveStep ==
  ASSUME PoolingInv, NEW len \in PromptLens, Arrive(len)
  PROVE  PoolingInv'
<1> DEFINE n == Len(prompt_len)
<1>1. /\ phase = "idle" /\ phase' = "idle" /\ len <= MaxModelLen
      /\ prompt_len' = Append(prompt_len, len)
      /\ waiting' = Append(waiting, Len(prompt_len'))
      /\ UNCHANGED <<running, finished_ids, scheduled, told>>
      /\ UNCHANGED <<runnerVars, warmups>>
  BY DEF Arrive, AddRequest
<1>2. QueueInv /\ StepInv /\ RowsInv /\ WarmupInv
  BY DEF PoolingInv
<1>3. /\ n \in Nat /\ Arrived = 1 .. n /\ prompt_len \in Seq(1 .. MaxModelLen)
      /\ finished_ids \subseteq Arrived /\ told \subseteq Arrived
  BY <1>2, ArrivedNumbers DEF QueueInv
<1>4. len \in 1 .. MaxModelLen
  BY <1>1, PromptAssumption, LargestShapes
<1>5. /\ prompt_len' \in Seq(1 .. MaxModelLen) /\ Len(prompt_len') = n + 1
      /\ Arrived' = 1 .. n + 1
  <2>1. prompt_len' \in Seq(1 .. MaxModelLen) /\ Len(prompt_len') = n + 1
    BY <1>1, <1>3, <1>4, AppendProperties
  <2> QED BY <2>1, LenProperties DEF Arrived
<1>6. /\ waiting \in Seq(Int) /\ Len(waiting) \in Nat /\ Increasing(waiting)
      /\ \A i \in 1 .. Len(waiting) : waiting[i] \in Arrived \ (running \cup finished_ids)
  BY <1>2, WaitingQueue DEF Queue
<1>7. scheduled = <<>> /\ running = {}
  <2>1. scheduled = <<>> /\ running \subseteq ToSet(scheduled)
    BY <1>1, <1>2 DEF StepInv
  <2>2. ToSet(<<>>) = {}
    BY EmptyLists DEF ToSet
  <2> QED BY <2>1, <2>2
<1> HIDE DEF n
<1>8. QueueInv'
  <2>1. waiting' = Append(waiting, n + 1) /\ n + 1 \in Int
    BY <1>1, <1>3, <1>5
  <2>2. Increasing(waiting')
    <3>1. \A i \in 1 .. Len(waiting) : waiting[i] < n + 1
      BY <1>3, <1>6
    <3> QED BY <1>6, <2>1, <3>1, AppendIncreasing
  <2>3. waiting' \in Seq(Arrived' \ (running' \cup finished_ids'))
    <3> DEFINE S == Arrived' \ (running' \cup finished_ids')
    <3>1. S = (1 .. n + 1) \ finished_ids /\ n + 1 \in S
      BY <1>1, <1>3, <1>5, <1>7
    <3>2. waiting \in [1 .. Len(waiting) -> Int] /\ \A i \in 1 .. Len(waiting) : waiting[i] \in S
      BY <1>3, <1>6, <3>1, LenProperties
    <3> HIDE DEF S
    <3>3. waiting \in [1 .. Len(waiting) -> S]
      BY <3>2
    <3>4. waiting \in Seq(S)
      BY <1>6, <3>3, IsASeq
    <3>5. waiting' \in Seq(S)
      BY <2>1, <3>1, <3>4, AppendProperties
    <3> QED BY <3>5 DEF S
  <2>4. finished_ids' \subseteq Arrived' /\ told' \subseteq Arrived'
    BY <1>1, <1>3, <1>5
  <2> QED BY <1>5, <2>2, <2>3, <2>4 DEF QueueInv
<1>9. StepInv'
  <2>1. scheduled' = <<>> /\ running' = {}
    BY <1>1, <1>7
  <2>2. Increasing(scheduled') /\ scheduled' \in Seq(Arrived')
    BY <2>1, EmptyLists
  <2>3. \E shape \in Shapes : Covers(shape, scheduled)'
    BY <2>1, EmptyLists, ShapesAssumption DEF Covers
  <2> QED BY <2>1, <2>2, <2>3 DEF StepInv
<1>10. RowsInv'
  BY <1>1, <1>2 DEF RowsInv, runnerVars
<1>11. WarmupInv'
  BY <1>1, <1>2 DEF WarmupInv, runnerVars
<1> QED BY <1>8, <1>9, <1>10, <1>11 DEF PoolingInv

\* An aborted request leaves the list it is in; its row stays.
LEMMA AbortStep ==
  ASSUME PoolingInv, NEW r \in Arrived, Abort(r)
  PROVE  PoolingInv'
<1>1. /\ phase' = phase /\ FinishRequest(r)
      /\ UNCHANGED <<prompt_len, scheduled, told>>
      /\ UNCHANGED <<runnerVars, warmups>>
      /\ finished_ids' = finished_ids \cup {r}
  BY DEF Abort, FinishRequest
<1>2. QueueInv /\ StepInv /\ RowsInv /\ WarmupInv
  BY DEF PoolingInv
<1>3. Arrived' = Arrived
  BY <1>1 DEF Arrived
<1>4. /\ prompt_len \in Seq(1 .. MaxModelLen)
      /\ finished_ids \subseteq Arrived /\ told \subseteq Arrived
  BY <1>2 DEF QueueInv
<1>5. /\ Increasing(waiting') /\ running' \subseteq running
      /\ waiting' \in Seq(Arrived \ (running' \cup finished_ids'))
  <2>1. CASE r \in running /\ running' = running \ {r} /\ UNCHANGED waiting
    <3>1. running' \cup finished_ids' = running \cup finished_ids
      BY <1>1, <2>1
    <3> QED BY <1>2, <2>1, <3>1 DEF QueueInv
  <2>2. ASSUME NEW i \in DOMAIN waiting, waiting[i] = r,
               waiting' = RemoveAt(waiting, i), UNCHANGED running
        PROVE  /\ Increasing(waiting') /\ running' \subseteq running
               /\ waiting' \in Seq(Arrived \ (running' \cup finished_ids'))
    <3> DEFINE S == Arrived \ (running' \cup finished_ids')
    <3>1. /\ waiting \in Seq(Int) /\ Len(waiting) \in Nat /\ Increasing(waiting)
          /\ DOMAIN waiting = 1 .. Len(waiting)
          /\ \A k \in 1 .. Len(waiting) : waiting[k] \in Arrived \ (running \cup finished_ids)
      BY <1>2, WaitingQueue DEF Queue
    <3>2. /\ waiting' \in Seq(Int) /\ Increasing(waiting')
          /\ \A k \in 1 .. Len(waiting') : \E j \in 1 .. Len(waiting) :
               j # i /\ waiting'[k] = waiting[j]
      <4> DEFINE t == RemoveAt(waiting, i)
      <4>1. i \in 1 .. Len(waiting)
        BY <3>1
      <4>2. /\ t \in Seq(Int) /\ Increasing(t)
            /\ \A k \in 1 .. Len(t) : \E j \in 1 .. Len(waiting) :
                 j # i /\ t[k] = waiting[j]
        BY <3>1, <4>1, WithoutIncreasing
      <4>3. waiting' = t
        BY <2>2
      <4> HIDE DEF t
      <4> QED BY <4>2, <4>3
    <3>3. \A j \in 1 .. Len(waiting) : j # i => waiting[j] # r
      <4> SUFFICES ASSUME NEW j \in 1 .. Len(waiting), j # i PROVE waiting[j] # waiting[i]
        BY <2>2
      <4>1. waiting[i] \in Int /\ waiting[j] \in Int /\ i \in 1 .. Len(waiting)
        BY <3>1, ElementOfSeq
      <4>2. waiting[i] < waiting[j] \/ waiting[j] < waiting[i]
        BY <3>1, <4>1 DEF Increasing
      <4> QED BY <4>1, <4>2
    <3>4. \A k \in 1 .. Len(waiting') : waiting'[k] \in S
      <4> TAKE k \in 1 .. Len(waiting')
      <4>1. PICK j \in 1 .. Len(waiting) : j # i /\ waiting'[k] = waiting[j]
        BY <3>2
      <4>2. waiting[j] # r /\ waiting[j] \in Arrived \ (running \cup finished_ids)
        BY <3>1, <3>3, <4>1
      <4> QED BY <1>1, <2>2, <4>1, <4>2
    <3> HIDE DEF S
    <3>5. waiting' \in [1 .. Len(waiting') -> S] /\ Len(waiting') \in Nat
      BY <3>2, <3>4, LenProperties
    <3>6. waiting' \in Seq(S)
      BY <3>5, IsASeq
    <3> QED BY <2>2, <3>2, <3>6 DEF S
  <2> QED BY <1>1, <2>1, <2>2 DEF FinishRequest
<1>6. QueueInv'
  BY <1>1, <1>3, <1>4, <1>5 DEF QueueInv
<1>7. StepInv'
  BY <1>1, <1>2, <1>3, <1>5 DEF StepInv, Covers
<1>8. RowsInv'
  <2>1. ScheduledPrompts' = ScheduledPrompts
    BY <1>1 DEF ScheduledPrompts
  <2> QED BY <1>1, <1>2, <2>1 DEF RowsInv, runnerVars
<1>9. WarmupInv'
  BY <1>1, <1>2 DEF WarmupInv, runnerVars
<1> QED BY <1>6, <1>7, <1>8, <1>9 DEF PoolingInv

\* schedule() takes a batch off the queue.
LEMMA ScheduleStepKeeps == PoolingInv /\ ScheduleStep => PoolingInv'
<1> DEFINE batch == Sorted(waiting).batch
           left == LeftWaiting(Sorted(waiting))
<1> SUFFICES ASSUME PoolingInv, ScheduleStep PROVE PoolingInv'
  OBVIOUS
<1>1. /\ phase = "idle" /\ phase' = "scheduled"
      /\ scheduled' = batch /\ waiting' = left /\ running' = ToSet(batch)
      /\ told' = finished_ids /\ finished_ids' = {}
      /\ UNCHANGED prompt_len /\ UNCHANGED <<runnerVars, warmups>>
  BY DEF ScheduleStep, Schedule
<1>2. QueueInv /\ StepInv /\ RowsInv /\ WarmupInv
  BY DEF PoolingInv
<1>3. /\ Queue(waiting) /\ Len(waiting) \in Nat
      /\ \A i \in 1 .. Len(waiting) : waiting[i] \in Arrived
  BY <1>2, WaitingQueue
<1>4. /\ batch \in Seq(Int) /\ Increasing(batch) /\ Among(batch, waiting, Len(waiting))
      /\ left \in Seq(Int) /\ Increasing(left) /\ Among(left, waiting, Len(waiting))
      /\ Apart(batch, left)
      /\ \E shape \in Shapes : Covers(shape, batch)
  BY <1>3, SortedLists
<1> HIDE DEF batch, left
<1>5. Arrived' = Arrived
  BY <1>1 DEF Arrived
<1>6. /\ Len(batch) \in Nat /\ batch \in [1 .. Len(batch) -> Arrived]
      /\ batch \in Seq(Arrived) /\ ToSet(batch) = {batch[k] : k \in 1 .. Len(batch)}
  <2>1. \A k \in 1 .. Len(batch) : batch[k] \in Arrived
    BY <1>3, <1>4 DEF Among
  <2>2. Len(batch) \in Nat /\ batch \in [1 .. Len(batch) -> Arrived]
    BY <1>4, <2>1, LenProperties
  <2>3. ToSet(batch) = {batch[k] : k \in 1 .. Len(batch)}
    BY <2>2 DEF ToSet
  <2> QED BY <2>2, <2>3, IsASeq
<1>7. left \in Seq(Arrived \ ToSet(batch))
  <2> DEFINE S == Arrived \ ToSet(batch)
  <2>1. \A k \in 1 .. Len(left) : left[k] \in S
    <3> TAKE k \in 1 .. Len(left)
    <3>1. left[k] \in Arrived
      BY <1>3, <1>4 DEF Among
    <3>2. left[k] \notin ToSet(batch)
      BY <1>4, <1>6 DEF Apart
    <3> QED BY <3>1, <3>2
  <2> HIDE DEF S
  <2>2. Len(left) \in Nat /\ left \in [1 .. Len(left) -> S]
    BY <1>4, <2>1, LenProperties
  <2>3. left \in Seq(S)
    BY <2>2, IsASeq
  <2> QED BY <2>3 DEF S
<1>8. QueueInv'
  BY <1>1, <1>2, <1>4, <1>5, <1>7 DEF QueueInv
<1>9. StepInv'
  <2>1. \E shape \in Shapes : Covers(shape, scheduled)'
    BY <1>1, <1>4 DEF Covers
  <2> QED BY <1>1, <1>4, <1>5, <1>6, <2>1 DEF StepInv
<1>10. RowsInv'
  BY <1>1, <1>2 DEF RowsInv, runnerVars
<1>11. WarmupInv'
  BY <1>1, <1>2 DEF WarmupInv, runnerVars
<1> QED BY <1>8, <1>9, <1>10, <1>11 DEF PoolingInv

\* The runner's rows become those of the batch.
LEMMA ExecuteStepKeeps == PoolingInv /\ ExecuteStep => PoolingInv'
<1> DEFINE prompts == ScheduledPrompts
<1> SUFFICES ASSUME PoolingInv, ExecuteStep PROVE PoolingInv'
  OBVIOUS
<1>1. /\ phase = "scheduled" /\ phase' = "executed" /\ ExecuteModel(prompts, told)
      /\ UNCHANGED schedVars /\ UNCHANGED <<warmup_mode, warmups>>
  BY DEF ExecuteStep
<1>2. QueueInv /\ StepInv /\ RowsInv /\ WarmupInv
  BY DEF PoolingInv
<1>3. /\ Distinct(prompts) /\ Len(prompts) = Len(scheduled)
      /\ prompts = <<>> <=> scheduled = <<>>
      /\ ApplicableShapes(prompts) # {}
  BY <1>2, NewRequests
<1>4. told \subseteq Int /\ IsFiniteSet(told) /\ input_batch \in Tidy
  BY <1>2, ArrivedNumbers, FS_Subset DEF QueueInv, RowsInv
<1>5. warmup_mode = FALSE /\ warmup_mode' = FALSE /\ compiled = Shapes
  BY <1>1, <1>2 DEF WarmupInv
<1>6. prompts' = prompts
  BY <1>1 DEF ScheduledPrompts, schedVars
<1> HIDE DEF prompts
<1>7. QueueInv'
  BY <1>1, <1>2 DEF QueueInv, schedVars, Arrived
<1>8. StepInv'
  BY <1>1, <1>2 DEF StepInv, schedVars, Arrived, Covers
<1>9. compiled' = Shapes /\ RowsInv'
  <2>1. CASE prompts = <<>>
    <3>1. /\ input_batch' = UpdatedBatch(told) /\ requests' = requests \ told
          /\ UNCHANGED <<padded, model_input, compiled>>
      BY <1>1, <2>1 DEF ExecuteModel
    <3>2. input_batch' \in Tidy
      BY <1>4, <3>1, UpdatedTidy
    <3>3. scheduled' = <<>>
      BY <1>1, <1>3, <2>1 DEF schedVars
    <3> QED BY <1>2, <1>5, <3>1, <3>2, <3>3 DEF RowsInv
  <2>2. CASE prompts # <<>>
    <3>1. /\ padded' = {PaddedShape(prompts)} /\ compiled' = compiled
          /\ input_batch' = PreparedBatch(prompts, told)
          /\ pooler_output' = Pooled(PreparedBatch(prompts, told), prompts)
          /\ requests' = {p.req : p \in ToSet(prompts)} /\ model_input' = prompts
      BY <1>1, <1>5, <2>2 DEF ExecuteModel
    <3>2. FilledTo(PreparedBatch(prompts, told), prompts, Len(prompts))
      BY <1>3, <1>4, PreparedRows
    <3>3. input_batch' \in Tidy
      BY <1>3, <3>1, <3>2, FilledIndex
    <3>4. padded' \subseteq Shapes
      <4>1. PaddedShape(prompts) \in Shapes
        BY <1>3, PaddedAsShape DEF ApplicableShapes
      <4> QED BY <3>1, <4>1
    <3>5. requests' \subseteq Int /\ model_input' \in Seq(Prompts)
      <4>1. prompts \in Seq(Prompts)
        BY <1>3 DEF Distinct
      <4>2. \A p \in ToSet(prompts) : p \in Prompts
        BY <4>1, LenProperties, ElementOfSeq DEF ToSet
      <4> QED BY <3>1, <4>1, <4>2 DEF Prompts
    <3>6. /\ FilledTo(input_batch', prompts, Len(scheduled))
          /\ pooler_output' = Pooled(input_batch', prompts)
      BY <1>3, <3>1, <3>2
    <3>7. scheduled' = scheduled
      BY <1>1 DEF schedVars
    <3>8. /\ FilledTo(input_batch, ScheduledPrompts, Len(scheduled))'
          /\ pooler_output' = Pooled(input_batch, ScheduledPrompts)'
      BY <1>6, <3>6, <3>7 DEF prompts
    <3> QED BY <1>5, <3>1, <3>3, <3>4, <3>5, <3>8 DEF RowsInv
  <2> QED BY <2>1, <2>2
<1>10. WarmupInv'
  BY <1>1, <1>2, <1>5, <1>9 DEF WarmupInv
<1> QED BY <1>7, <1>8, <1>9, <1>10 DEF PoolingInv

\* The requests of the step are done.
LEMMA UpdateStepKeeps == PoolingInv /\ UpdateStep => PoolingInv'
<1> SUFFICES ASSUME PoolingInv, UpdateStep PROVE PoolingInv'
  OBVIOUS
<1>1. /\ phase = "executed" /\ phase' = "idle"
      /\ running' = {} /\ finished_ids' = finished_ids \cup running
      /\ scheduled' = <<>> /\ told' = {}
      /\ UNCHANGED <<prompt_len, waiting>> /\ UNCHANGED <<runnerVars, warmups>>
  BY DEF UpdateStep, UpdateFromOutput
<1>2. QueueInv /\ StepInv /\ RowsInv /\ WarmupInv
  BY DEF PoolingInv
<1>3. Arrived' = Arrived
  BY <1>1 DEF Arrived
<1>4. running \subseteq Arrived
  <2>1. \A x \in ToSet(scheduled) : x \in Arrived
    BY <1>2, LenProperties, ElementOfSeq DEF StepInv, ToSet
  <2> QED BY <1>2, <2>1 DEF StepInv
<1>5. QueueInv'
  <2>1. running' \cup finished_ids' = running \cup finished_ids
    BY <1>1
  <2> QED BY <1>1, <1>2, <1>3, <1>4, <2>1 DEF QueueInv
<1>6. StepInv'
  <2>1. \E shape \in Shapes : Covers(shape, scheduled)'
    BY <1>1, EmptyLists, ShapesAssumption DEF Covers
  <2>2. Increasing(scheduled') /\ scheduled' \in Seq(Arrived')
    BY <1>1, EmptyLists
  <2> QED BY <1>1, <2>1, <2>2 DEF StepInv
<1>7. RowsInv'
  BY <1>1, <1>2 DEF RowsInv, runnerVars
<1>8. WarmupInv'
  BY <1>1, <1>2 DEF WarmupInv, runnerVars
<1> QED BY <1>5, <1>6, <1>7, <1>8 DEF PoolingInv

\* Nothing happens.
LEMMA StillPooling == PoolingInv /\ UNCHANGED vars => PoolingInv'
<1> SUFFICES ASSUME PoolingInv, UNCHANGED vars PROVE PoolingInv'
  OBVIOUS
<1> USE DEF vars, schedVars, runnerVars, PoolingInv
<1>1. Arrived' = Arrived /\ ScheduledPrompts' = ScheduledPrompts
  BY DEF Arrived, ScheduledPrompts
<1>2. QueueInv'
  BY <1>1 DEF QueueInv
<1>3. StepInv'
  BY <1>1 DEF StepInv, Covers
<1>4. RowsInv'
  BY <1>1 DEF RowsInv
<1>5. WarmupInv'
  BY DEF WarmupInv
<1> QED BY <1>2, <1>3, <1>4, <1>5

\* One case for each action.
LEMMA PoolingStep == PoolingInv /\ [Next]_vars => PoolingInv'
<1> SUFFICES ASSUME PoolingInv, [Next]_vars PROVE PoolingInv'
  OBVIOUS
<1>1. CASE WarmupPass
  BY <1>1, WarmupPassStep
<1>2. CASE CompleteWarmup
  BY <1>2, CompleteWarmupStep
<1>3. ASSUME NEW len \in PromptLens, Arrive(len)
      PROVE  PoolingInv'
  BY <1>3, ArriveStep
<1>4. ASSUME NEW r \in Arrived, Abort(r)
      PROVE  PoolingInv'
  BY <1>4, AbortStep
<1>5. CASE ScheduleStep
  BY <1>5, ScheduleStepKeeps
<1>6. CASE ExecuteStep
  BY <1>6, ExecuteStepKeeps
<1>7. CASE UpdateStep
  BY <1>7, UpdateStepKeeps
<1>8. CASE UNCHANGED vars
  BY <1>8, StillPooling
<1> QED BY <1>1, <1>2, <1>3, <1>4, <1>5, <1>6, <1>7, <1>8 DEF Next, EngineStep, Drained

-----------------------------------------------------------------------------
\* In every state the queue, the batch, the rows and the warmup's progress are
\* what schedule(), execute_model and the base class's bookkeeping make them.
THEOREM PoolingInvariant == Spec => []PoolingInv
<1> QED BY InitPoolingInv, PoolingStep, PTL DEF Spec

\* Lists, rows and shapes keep their types, and a waiting request is neither
\* running nor finished: schedule() takes it off the queue for good.
THEOREM PoolingTypes == Spec => []PoolingTypeOK
<1>1. PoolingInv => PoolingTypeOK
  <2> SUFFICES ASSUME PoolingInv PROVE PoolingTypeOK
    OBVIOUS
  <2>1. QueueInv /\ StepInv /\ RowsInv /\ WarmupInv
    BY DEF PoolingInv
  <2> DEFINE b == input_batch
             S == [req : Int, index : 1 .. MaxNumReqs]
  <2>2. /\ b \in Batches /\ b.num = Len(b.items) /\ b.num <= MaxNumReqs
        /\ \A k \in 1 .. Len(b.items) : b.items[k].index \in 1 .. MaxNumReqs
    BY <2>1 DEF RowsInv, Tidy
  <2> HIDE DEF b
  <2>3. b.items \in Seq(Items) /\ b.rows \in [1 .. MaxNumReqs -> Prompts]
    BY <2>2 DEF Batches
  <2>4. Len(b.items) \in Nat /\ b.items \in [1 .. Len(b.items) -> Items]
    BY <2>3, LenProperties
  <2>5. b.items \in Seq(S)
    <3>1. \A k \in 1 .. Len(b.items) : b.items[k] \in S
      <4> TAKE k \in 1 .. Len(b.items)
      <4>1. b.items[k] \in Items /\ b.items[k].index \in 1 .. MaxNumReqs
        BY <2>2, <2>4
      <4> QED BY <4>1 DEF Items
    <3> HIDE DEF S
    <3>2. b.items \in [1 .. Len(b.items) -> S]
      BY <2>4, <3>1
    <3> QED BY <2>4, <3>2, IsASeq
  <2>6. b.num \in 0 .. MaxNumReqs
    BY <2>2, <2>4, LargestShapes
  <2>7. warmup_mode \in BOOLEAN /\ compiled \subseteq Shapes
    <3>1. CASE phase = "warmup"
      <4> DEFINE n == Cardinality(Shapes)
                 m == (warmups + 1) \div 2
      <4>1. /\ warmup_mode = TRUE /\ warmups \in 0 .. 2 * n
            /\ compiled = {WarmupShapes[i] : i \in 1 .. m}
        BY <2>1, <3>1 DEF WarmupInv
      <4>2. n \in Nat /\ WarmupShapes \in [1 .. n -> Shapes]
        BY AllShapesListed
      <4> HIDE DEF n
      <4>3. 1 .. m \subseteq 1 .. n
        BY <4>1, <4>2
      <4> HIDE DEF m
      <4> QED BY <4>1, <4>2, <4>3
    <3>2. CASE phase # "warmup"
      BY <2>1, <3>2 DEF WarmupInv
    <3> QED BY <3>1, <3>2
  <2>8. RunnerTypeOK
    BY <2>1, <2>3, <2>5, <2>6, <2>7 DEF RunnerTypeOK, RowsInv, b
  <2> QED BY <2>1, <2>8 DEF PoolingTypeOK, QueueInv, StepInv, WarmupInv
<1> QED BY <1>1, PoolingInvariant, PTL

\* The waiting queue stays in the order of arrival, whatever schedule() skips
\* or holds back and whoever is aborted.
THEOREM WaitInOrder == Spec => []ArrivalOrder
<1>1. PoolingInv => ArrivalOrder
  BY WaitingQueue DEF PoolingInv, QueueInv, Increasing, ArrivalOrder
<1> QED BY <1>1, PoolingInvariant, PTL

\* The runner finds a shape for every batch the scheduler puts together: the
\* assertion of execute_model cannot fail.
THEOREM BatchesHaveShapes == Spec => []ShapeForEveryBatch
<1>1. PoolingInv => ShapeForEveryBatch
  BY NewRequests DEF PoolingInv, ShapeForEveryBatch
<1> QED BY <1>1, PoolingInvariant, PTL

\* Each request of the batch gets the output pooled from its own prompt, with
\* its own length and parameters, whatever the batch's tables held before and
\* whoever was aborted while the model ran.
THEOREM RowsArePooledApart == Spec => []PooledOwnPrompt
<1>1. PoolingInv => PooledOwnPrompt
  <2> SUFFICES ASSUME PoolingInv, phase = "executed", NEW r \in running
               PROVE  pooler_output[IndexOf(input_batch, r)] =
                        [hidden |-> r, metadata |-> [len |-> prompt_len[r], params |-> r]]
    BY DEF PooledOwnPrompt
  <2> DEFINE prompts == ScheduledPrompts
  <2>1. QueueInv /\ StepInv /\ RowsInv
    BY DEF PoolingInv
  <2>2. /\ Distinct(prompts) /\ DOMAIN scheduled = 1 .. Len(scheduled)
        /\ Len(prompts) = Len(scheduled)
        /\ \A k \in 1 .. Len(scheduled) :
             prompts[k] = [req |-> scheduled[k], len |-> prompt_len[scheduled[k]]]
    BY <2>1, NewRequests
  <2>3. PICK k \in 1 .. Len(scheduled) : r = scheduled[k]
    BY <2>1, <2>2 DEF StepInv, ToSet
  <2>4. prompts[k].req = r /\ prompts[k].len = prompt_len[r]
    <3>1. prompts[k] = [req |-> scheduled[k], len |-> prompt_len[scheduled[k]]]
      BY <2>2
    <3> QED BY <2>3, <3>1
  <2>5. scheduled # <<>>
    BY <2>3, EmptyLists
  <2> HIDE DEF prompts
  <2>6. /\ FilledTo(input_batch, prompts, Len(prompts))
        /\ pooler_output = Pooled(input_batch, prompts)
    BY <2>1, <2>2, <2>5 DEF RowsInv, prompts
  <2>7. IndexOf(input_batch, r) = k
    BY <2>2, <2>4, <2>6, FilledIndex
  <2>8. pooler_output[k] = [hidden   |-> prompts[k].req,
                            metadata |-> [len |-> prompts[k].len, params |-> prompts[k].req]]
    BY <2>2, <2>6, PooledRows
  <2> QED BY <2>4, <2>7, <2>8
<1> QED BY <1>1, PoolingInvariant, PTL

\* When the engine serves, each shape has been compiled by a pass of its own.
THEOREM WarmupCoversShapes == Spec => []EveryShapeCompiled
<1>1. PoolingInv => EveryShapeCompiled
  BY DEF PoolingInv, WarmupInv, EveryShapeCompiled
<1> QED BY <1>1, PoolingInvariant, PTL

\* The head of the queue is the first of the next batch: it fits some shape
\* when the batch is empty, so the loop of schedule() takes it.
THEOREM HeadIsTaken == Spec => OldestRuns
<1>1. PoolingInv /\ ScheduleStep /\ waiting # <<>> => Head(waiting) \in ToSet(scheduled')
  <2> SUFFICES ASSUME PoolingInv, ScheduleStep, waiting # <<>>
               PROVE  Head(waiting) \in ToSet(scheduled')
    OBVIOUS
  <2> DEFINE batch == Sorted(waiting).batch
  <2>1. Queue(waiting) /\ Len(waiting) \in Nat /\ waiting \in Seq(Arrived)
    BY WaitingQueue DEF PoolingInv
  <2>2. scheduled' = batch
    BY DEF ScheduleStep, Schedule
  <2>3. /\ batch \in Seq(Int)
        /\ Len(waiting) > 0 => Len(batch) > 0 /\ batch[1] = waiting[1]
    BY <2>1, SortedLists
  <2> HIDE DEF batch
  <2>4. Len(waiting) > 0 /\ Head(waiting) = waiting[1]
    BY <2>1, EmptySeq, HeadTailProperties
  <2>5. 1 \in DOMAIN batch /\ batch[1] = Head(waiting)
    BY <2>3, <2>4, LenProperties
  <2> QED BY <2>2, <2>5 DEF ToSet
<1> QED BY <1>1, PoolingInvariant, PTL DEF Spec, OldestRuns
=============================================================================
