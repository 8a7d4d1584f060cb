---------------------------- MODULE SamplingProofs ----------------------------
(***************************************************************************)
(* The rows that the sampler works on stay aligned: for every number of    *)
(* slots and requests, and however many requests end in a step, the input, *)
(* the parameters, the output tokens and the logits processors of a row    *)
(* belong to the same request.                                             *)
(*                                                                         *)
(* Slots, rows and processors are three orders of the same requests. The   *)
(* rows are the occupied slots in their order; the processors follow them  *)
(* through chains of swaps, which rotate the part behind a row that comes  *)
(* or goes.                                                                *)
(***************************************************************************)
EXTENDS SamplingSteps, SequenceLemmas
-----------------------------------------------------------------------------
\* The three stages of update_state.
WithAdded(procs, added) == FoldLeft(LAMBDA p, u : Serve(p, u[1], u[2]), procs, added)
WithRemoved(procs, removed) == FoldLeft(LAMBDA p, i : Serve(p, i, NoRequest), procs, removed)
WithMoved(procs, moves) == FoldLeft(LAMBDA p, m : Swap(p, m[1], m[2]), procs, moves)

(***************************************************************************)
(* A fold is the last of a chain of values, each one step from the one     *)
(* before; they are all in a set that the step does not leave.             *)
(***************************************************************************)
SwapsWithin(moves, n, S) ==
  /\ DOMAIN moves = 1 .. n
  /\ \A p \in S, k \in 1 .. n : Swap(p, moves[k][1], moves[k][2]) \in S

SwapChain(g, n, procs, moves) ==
  /\ g[0] = procs
  /\ \A k \in 1 .. n : g[k] = Swap(g[k - 1], moves[k][1], moves[k][2])
  /\ WithMoved(procs, moves) = g[n]

\* The moves of update_state make such a chain.
LEMMA SwapFold ==
  ASSUME NEW n \in Nat, NEW moves, NEW S, NEW procs \in S, SwapsWithin(moves, n, S)
  PROVE  \E g \in [0 .. n -> S] : SwapChain(g, n, procs, moves)
<1>0. /\ DOMAIN moves = 1 .. n
      /\ \A p \in S, k \in 1 .. n : Swap(p, moves[k][1], moves[k][2]) \in S
  BY DEF SwapsWithin
<1> DEFINE G == [x \in S \X (1 .. n) |-> Swap(x[1], moves[x[2]][1], moves[x[2]][2])]
           Solves(h) == h = [s \in SUBSET (1 .. n) |->
                               IF s = {} THEN procs
                               ELSE Swap(h[s \ {Max(s)}], moves[Max(s)][1], moves[Max(s)][2])]
<1>1. PICK f \in [SUBSET (1 .. n) -> S] : FoldsOver(f, n, procs, G)
  <2>1. G \in [S \X (1 .. n) -> S]
    BY <1>0
  <2> HIDE DEF G
  <2> QED BY <2>1, FoldExists
<1>2. Solves(f)
  <2> SUFFICES ASSUME NEW s \in SUBSET (1 .. n), s # {}
               PROVE  f[s] = Swap(f[s \ {Max(s)}], moves[Max(s)][1], moves[Max(s)][2])
    BY <1>1 DEF FoldsOver
  <2>1. Max(s) \in 1 .. n
    BY GreatestPosition
  <2>2. f[s \ {Max(s)}] \in S
    BY <1>1
  <2>3. f[s] = G[<<f[s \ {Max(s)}], Max(s)>>]
    BY <1>1 DEF FoldsOver
  <2> HIDE DEF Solves
  <2> QED BY <2>1, <2>2, <2>3
<1>3. PICK h : Solves(h) /\ WithMoved(procs, moves) = h[1 .. n]
  <2>1. WithMoved(procs, moves) =
          (CHOOSE iter : iter = [s \in SUBSET (1 .. n) |->
              IF s = {} THEN procs
              ELSE Swap(iter[s \ {Max(s)}], moves[Max(s)][1], moves[Max(s)][2])])[1 .. n]
    BY <1>0 DEF WithMoved, FoldLeft, MapThenFoldSet
  <2> QED BY <1>2, <2>1, Zenon DEF Solves
<1> DEFINE g == [k \in 0 .. n |-> h[1 .. k]]
<1>4. g[0] = procs
  <2>1. 1 .. 0 = {} /\ {} \in SUBSET (1 .. n)
    OBVIOUS
  <2>2. h[{}] = procs
    BY <1>3, <2>1
  <2> QED BY <2>1, <2>2
<1>5. ASSUME NEW k \in 1 .. n
      PROVE  g[k] = Swap(g[k - 1], moves[k][1], moves[k][2])
  <2>1. /\ 1 .. k \in SUBSET (1 .. n) /\ 1 .. k # {}
        /\ Max(1 .. k) = k /\ (1 .. k) \ {k} = 1 .. k - 1
    BY GreatestPosition
  <2>2. h[1 .. k] = Swap(h[1 .. k - 1], moves[k][1], moves[k][2])
    BY <1>3, <2>1, ZenonT(60)
  <2>3. k \in 0 .. n /\ k - 1 \in 0 .. n
    OBVIOUS
  <2> QED BY <2>2, <2>3
<1>6. \A k \in 0 .. n : g[k] \in S
  <2> DEFINE T == {k \in 0 .. n : g[k] \in S}
  <2>1. 0 \in T
    BY <1>4
  <2>2. \A k \in 1 .. n : k - 1 \in T => k \in T
    <3> HIDE DEF g
    <3> QED BY <1>0, <1>5
  <2>3. 0 .. n \subseteq T
    <3> HIDE DEF T
    <3> QED BY <2>1, <2>2, Steps
  <2> QED BY <2>3
<1>7. g \in [0 .. n -> S] /\ g[n] = h[1 .. n]
  BY <1>6
<1> HIDE DEF g
<1> QED BY <1>3, <1>4, <1>5, <1>7 DEF SwapChain

\* The same for the removals of a step.
Remaining(b, r) == RefreshMetadata(RemoveRequest(b, r))

RemovesWithin(order, n, S) ==
  /\ DOMAIN order = 1 .. n
  /\ \A c \in S, k \in 1 .. n : Remaining(c, order[k]) \in S

RemovalChain(g, n, b, order) ==
  /\ g[0] = b
  /\ \A k \in 1 .. n : g[k] = Remaining(g[k - 1], order[k])
  /\ FoldLeft(LAMBDA c, r : RefreshMetadata(RemoveRequest(c, r)), b, order) = g[n]

\* The removals of _update_batch make such a chain.
LEMMA RemovalFold ==
  ASSUME NEW n \in Nat, NEW order, NEW S, NEW b \in S, RemovesWithin(order, n, S)
  PROVE  \E g \in [0 .. n -> S] : RemovalChain(g, n, b, order)
<1>0. /\ DOMAIN order = 1 .. n
      /\ \A c \in S, k \in 1 .. n : Remaining(c, order[k]) \in S
  BY DEF RemovesWithin
<1> DEFINE G == [x \in S \X (1 .. n) |-> Remaining(x[1], order[x[2]])]
           Solves(h) == h = [s \in SUBSET (1 .. n) |->
                               IF s = {} THEN b
                               ELSE Remaining(h[s \ {Max(s)}], order[Max(s)])]
<1>1. PICK f \in [SUBSET (1 .. n) -> S] : FoldsOver(f, n, b, G)
  <2>1. G \in [S \X (1 .. n) -> S]
    BY <1>0
  <2> HIDE DEF G
  <2> QED BY <2>1, FoldExists
<1>2. Solves(f)
  <2> SUFFICES ASSUME NEW s \in SUBSET (1 .. n), s # {}
               PROVE  f[s] = Remaining(f[s \ {Max(s)}], order[Max(s)])
    BY <1>1 DEF FoldsOver
  <2>1. Max(s) \in 1 .. n
    BY GreatestPosition
  <2>2. f[s \ {Max(s)}] \in S
    BY <1>1
  <2>3. f[s] = G[<<f[s \ {Max(s)}], Max(s)>>]
    BY <1>1 DEF FoldsOver
  <2> HIDE DEF Solves
  <2> QED BY <2>1, <2>2, <2>3
<1>3. PICK h : /\ Solves(h)
               /\ FoldLeft(LAMBDA c, r : RefreshMetadata(RemoveRequest(c, r)), b, order) = h[1 .. n]
  <2>1. FoldLeft(LAMBDA c, r : RefreshMetadata(RemoveRequest(c, r)), b, order) =
          (CHOOSE iter : iter = [s \in SUBSET (1 .. n) |->
              IF s = {} THEN b
              ELSE Remaining(iter[s \ {Max(s)}], order[Max(s)])])[1 .. n]
    BY <1>0 DEF FoldLeft, MapThenFoldSet, Remaining
  <2> QED BY <1>2, <2>1, Zenon DEF Solves
<1> DEFINE g == [k \in 0 .. n |-> h[1 .. k]]
<1>4. g[0] = b
  <2>1. 1 .. 0 = {} /\ {} \in SUBSET (1 .. n)
    OBVIOUS
  <2>2. h[{}] = b
    BY <1>3, <2>1
  <2> QED BY <2>1, <2>2
<1>5. ASSUME NEW k \in 1 .. n
      PROVE  g[k] = Remaining(g[k - 1], order[k])
  <2>1. /\ 1 .. k \in SUBSET (1 .. n) /\ 1 .. k # {}
        /\ Max(1 .. k) = k /\ (1 .. k) \ {k} = 1 .. k - 1
    BY GreatestPosition
  <2>2. h[1 .. k] = Remaining(h[1 .. k - 1], order[k])
    BY <1>3, <2>1
  <2>3. k \in 0 .. n /\ k - 1 \in 0 .. n
    OBVIOUS
  <2> QED BY <2>2, <2>3
<1>6. \A k \in 0 .. n : g[k] \in S
  <2> DEFINE T == {k \in 0 .. n : g[k] \in S}
  <2>1. 0 \in T
    BY <1>4
  <2>2. \A k \in 1 .. n : k - 1 \in T => k \in T
    <3> HIDE DEF g
    <3> QED BY <1>0, <1>5
  <2>3. 0 .. n \subseteq T
    <3> HIDE DEF T
    <3> QED BY <2>1, <2>2, Steps
  <2> QED BY <2>3
<1>7. g \in [0 .. n -> S] /\ g[n] = h[1 .. n]
  BY <1>6
<1> HIDE DEF g
<1> QED BY <1>3, <1>4, <1>5, <1>7, Zenon DEF RemovalChain

\* A fold of nothing, and of one element: an update has one request added or
\* removed at most.
LEMMA AddedFold ==
  ASSUME NEW procs, NEW u
  PROVE  /\ WithAdded(procs, <<>>) = procs
         /\ WithAdded(procs, <<u>>) =
              Serve(procs, u[1], u[2])
<1>1. ASSUME NEW seq, NEW D, D = DOMAIN seq, D = {} \/ (D = {1} /\ seq[1] = u)
      PROVE  WithAdded(procs, seq) =
               IF D = {} THEN procs ELSE Serve(procs, u[1], u[2])
  <2> DEFINE Solves(h) == h = [s \in SUBSET D |->
                                 IF s = {} THEN procs
                                 ELSE Serve(h[s \ {Max(s)}], seq[Max(s)][1], seq[Max(s)][2])]
             f == [s \in SUBSET D |-> IF s = {} THEN procs ELSE Serve(procs, u[1], u[2])]
  <2>1. \A s \in SUBSET D : s # {} => s = {1} /\ s \ {Max(s)} = {} /\ seq[Max(s)] = u
    <3>1. Max({1}) = 1
      BY DEF Max
    <3> QED BY <1>1, <3>1
  <2>2. Solves(f)
    <3> SUFFICES ASSUME NEW s \in SUBSET D, s # {}
                 PROVE  f[s] = Serve(f[s \ {Max(s)}], seq[Max(s)][1], seq[Max(s)][2])
      OBVIOUS
    <3> QED BY <2>1
  <2>3. WithAdded(procs, seq) =
          (CHOOSE iter : iter = [s \in SUBSET D |->
              IF s = {} THEN procs
              ELSE Serve(iter[s \ {Max(s)}], seq[Max(s)][1], seq[Max(s)][2])])[D]
    BY <1>1 DEF WithAdded, FoldLeft, MapThenFoldSet
  <2>4. PICK h : Solves(h) /\ WithAdded(procs, seq) = h[D]
    <3> HIDE DEF f
    <3> QED BY <2>2, <2>3, Zenon
  <2>5. h[D] = IF D = {} THEN procs ELSE Serve(procs, u[1], u[2])
    <3>1. \A s \in SUBSET D :
            h[s] = IF s = {} THEN procs
                     ELSE Serve(h[s \ {Max(s)}], seq[Max(s)][1], seq[Max(s)][2])
      BY <2>4
    <3>2. h[{}] = procs
      BY <3>1
    <3>3. D # {} => h[D] = Serve(h[{}], u[1], u[2])
      BY <2>1, <3>1
    <3> QED BY <3>2, <3>3
  <2> QED BY <2>4, <2>5, Zenon
<1>2. DOMAIN <<>> = {} /\ DOMAIN <<u>> = {1} /\ <<u>>[1] = u
  OBVIOUS
<1> QED BY <1>1, <1>2

\* What update_state does with no removed row, and with one.
LEMMA RemovedFold ==
  ASSUME NEW procs, NEW d
  PROVE  /\ WithRemoved(procs, <<>>) = procs
         /\ WithRemoved(procs, <<d>>) =
              Serve(procs, d, NoRequest)
<1>1. ASSUME NEW seq, NEW D, D = DOMAIN seq, D = {} \/ (D = {1} /\ seq[1] = d)
      PROVE  WithRemoved(procs, seq) =
               IF D = {} THEN procs ELSE Serve(procs, d, NoRequest)
  <2> DEFINE Solves(h) == h = [s \in SUBSET D |->
                                 IF s = {} THEN procs
                                 ELSE Serve(h[s \ {Max(s)}], seq[Max(s)], NoRequest)]
             f == [s \in SUBSET D |-> IF s = {} THEN procs ELSE Serve(procs, d, NoRequest)]
  <2>1. \A s \in SUBSET D : s # {} => s = {1} /\ s \ {Max(s)} = {} /\ seq[Max(s)] = d
    <3>1. Max({1}) = 1
      BY DEF Max
    <3> QED BY <1>1, <3>1
  <2>2. Solves(f)
    <3> SUFFICES ASSUME NEW s \in SUBSET D, s # {}
                 PROVE  f[s] = Serve(f[s \ {Max(s)}], seq[Max(s)], NoRequest)
      OBVIOUS
    <3> QED BY <2>1
  <2>3. WithRemoved(procs, seq) =
          (CHOOSE iter : iter = [s \in SUBSET D |->
              IF s = {} THEN procs
              ELSE Serve(iter[s \ {Max(s)}], seq[Max(s)], NoRequest)])[D]
    BY <1>1 DEF WithRemoved, FoldLeft, MapThenFoldSet
  <2>4. PICK h : Solves(h) /\ WithRemoved(procs, seq) = h[D]
    <3> HIDE DEF f
    <3> QED BY <2>2, <2>3, Zenon
  <2>5. h[D] = IF D = {} THEN procs ELSE Serve(procs, d, NoRequest)
    <3>1. \A s \in SUBSET D :
            h[s] = IF s = {} THEN procs
                     ELSE Serve(h[s \ {Max(s)}], seq[Max(s)], NoRequest)
      BY <2>4
    <3>2. h[{}] = procs
      BY <3>1
    <3>3. D # {} => h[D] = Serve(h[{}], d, NoRequest)
      BY <2>1, <3>1
    <3> QED BY <3>2, <3>3
  <2> QED BY <2>4, <2>5, Zenon
<1>2. DOMAIN <<>> = {} /\ DOMAIN <<d>> = {1} /\ <<d>>[1] = d
  OBVIOUS
<1> QED BY <1>1, <1>2

-----------------------------------------------------------------------------
(***************************************************************************)
(* Rows: the dense index numbers the occupied slots without a gap.         *)
(***************************************************************************)
LEMMA DenseIndexBounds ==
  ASSUME NEW b, NEW n \in Nat, Slots(b) = 0 .. n - 1
  PROVE  /\ IsFiniteSet(Occupied(b)) /\ NumReqs(b) \in 0 .. n
         /\ \A i \in Int : DenseIndex(b, i) \in 0 .. NumReqs(b)
         /\ \A i \in Occupied(b) : DenseIndex(b, i) < NumReqs(b)
         /\ \A i, j \in Int : i <= j => DenseIndex(b, i) <= DenseIndex(b, j)
         /\ \A i \in Occupied(b), j \in Int : i < j => DenseIndex(b, i) < DenseIndex(b, j)
<1> DEFINE O == Occupied(b)
           Below(i) == {j \in O : j < i}
<1>1. IsFiniteSet(O) /\ Cardinality(O) \in 0 .. n
  <2>1. O \subseteq 0 .. n - 1
    BY DEF Occupied
  <2>2. IsFiniteSet(0 .. n - 1) /\ Cardinality(0 .. n - 1) = n
    BY FS_Interval
  <2> QED BY <2>1, <2>2, FS_Subset, FS_CardinalityType
<1>2. O \subseteq Int
  BY DEF Occupied
<1> HIDE DEF O
<1>3. \A S, T \in SUBSET O : S \subseteq T =>
        /\ IsFiniteSet(S) /\ Cardinality(S) \in Nat /\ Cardinality(S) <= Cardinality(T)
        /\ S # T => Cardinality(S) < Cardinality(T)
  <2> SUFFICES ASSUME NEW S \in SUBSET O, NEW T \in SUBSET O, S \subseteq T
               PROVE  /\ IsFiniteSet(S) /\ Cardinality(S) \in Nat
                      /\ Cardinality(S) <= Cardinality(T)
                      /\ S # T => Cardinality(S) < Cardinality(T)
    OBVIOUS
  <2>1. IsFiniteSet(T)
    BY <1>1, FS_Subset
  <2>2. IsFiniteSet(S) /\ Cardinality(S) <= Cardinality(T)
        /\ (Cardinality(T) = Cardinality(S) => T = S)
    BY <2>1, FS_Subset
  <2>3. Cardinality(S) \in Nat /\ Cardinality(T) \in Nat
    BY <2>1, <2>2, FS_CardinalityType
  <2> QED BY <2>2, <2>3
<1>4. \A i \in Int : Below(i) \in SUBSET O /\ Cardinality(Below(i)) \in 0 .. Cardinality(O)
  BY <1>1, <1>3
<1>5. \A i \in O : Cardinality(Below(i)) < Cardinality(O)
  <2> SUFFICES ASSUME NEW i \in O PROVE Cardinality(Below(i)) < Cardinality(O)
    OBVIOUS
  <2>1. Below(i) # O /\ Below(i) \in SUBSET O
    BY <1>2
  <2> HIDE DEF Below
  <2> QED BY <2>1, <1>3
<1>6. \A i, j \in Int : i <= j => Cardinality(Below(i)) <= Cardinality(Below(j))
  <2> SUFFICES ASSUME NEW i \in Int, NEW j \in Int, i <= j
               PROVE  Cardinality(Below(i)) <= Cardinality(Below(j))
    OBVIOUS
  <2>1. Below(i) \subseteq Below(j)
    <3>1. \A x \in O : x < i => x < j
      BY <1>2
    <3> QED BY <3>1
  <2>2. Below(i) \in SUBSET O /\ Below(j) \in SUBSET O
    OBVIOUS
  <2> HIDE DEF Below
  <2> QED BY <2>1, <2>2, <1>3
<1>7. \A i \in O, j \in Int : i < j => Cardinality(Below(i)) < Cardinality(Below(j))
  <2> SUFFICES ASSUME NEW i \in O, NEW j \in Int, i < j
               PROVE  Cardinality(Below(i)) < Cardinality(Below(j))
    OBVIOUS
  <2>1. Below(i) \subseteq Below(j) /\ i \in Below(j) /\ i \notin Below(i)
    <3>1. (\A x \in O : x < i => x < j) /\ i < j /\ ~(i < i)
      BY <1>2
    <3> QED BY <3>1
  <2>2. Below(i) \in SUBSET O /\ Below(j) \in SUBSET O
    OBVIOUS
  <2> HIDE DEF Below
  <2> QED BY <2>1, <2>2, <1>3
<1> QED BY <1>1, <1>4, <1>5, <1>6, <1>7 DEF O, NumReqs, DenseIndex

\* Every row has one occupied slot, and shows what is in it.
LEMMA RowOfSlot ==
  ASSUME NEW b, NEW n \in Nat, Slots(b) = 0 .. n - 1
  PROVE  /\ DOMAIN Rows(b) = 1 .. NumReqs(b) /\ Len(Rows(b)) = NumReqs(b)
         /\ \A i \in Occupied(b) : /\ DenseIndex(b, i) + 1 \in 1 .. NumReqs(b)
                                   /\ Rows(b)[DenseIndex(b, i) + 1] = b.slots[i]
         /\ \A k \in 1 .. NumReqs(b) :
              \E i \in Occupied(b) : DenseIndex(b, i) = k - 1 /\ Rows(b)[k] = b.slots[i]
<1> DEFINE O == Occupied(b)
           m == NumReqs(b)
           f == [i \in O |-> DenseIndex(b, i)]
<1>1. /\ IsFiniteSet(O) /\ m \in Nat /\ Cardinality(O) = m /\ O \subseteq Int
      /\ \A i \in O : DenseIndex(b, i) \in 0 .. m - 1
      /\ \A i, j \in O : i < j => DenseIndex(b, i) < DenseIndex(b, j)
  <2>1. O \subseteq Int
    BY DEF Occupied
  <2>2. Cardinality(O) = m
    BY DEF NumReqs
  <2>3. /\ IsFiniteSet(O) /\ m \in 0 .. n
        /\ \A i \in Int : DenseIndex(b, i) \in 0 .. m
        /\ \A i \in O : DenseIndex(b, i) < m
        /\ \A i \in O, j \in Int : i < j => DenseIndex(b, i) < DenseIndex(b, j)
    BY DenseIndexBounds
  <2> HIDE DEF O, m
  <2>4. m \in Nat
    BY <2>3
  <2>5. \A i \in O : DenseIndex(b, i) \in 0 .. m - 1
    <3> SUFFICES ASSUME NEW i \in O PROVE DenseIndex(b, i) \in 0 .. m - 1
      OBVIOUS
    <3>1. DenseIndex(b, i) \in 0 .. m /\ DenseIndex(b, i) < m
      BY <2>1, <2>3
    <3> QED BY <2>4, <3>1
  <2>6. \A i, j \in O : i < j => DenseIndex(b, i) < DenseIndex(b, j)
    BY <2>1, <2>3
  <2> QED BY <2>1, <2>2, <2>3, <2>4, <2>5, <2>6
<1>2. \A i, j \in O : DenseIndex(b, i) = DenseIndex(b, j) => i = j
  BY <1>1
<1> HIDE DEF O, m
<1>3. f \in Injection(O, 0 .. m - 1)
  <2>1. f \in [O -> 0 .. m - 1]
    BY <1>1
  <2>2. \A i, j \in O : f[i] = f[j] => i = j
    BY <1>2
  <2> QED BY <2>1, <2>2 DEF Injection, IsInjective
<1>4. f \in Surjection(O, 0 .. m - 1)
  <2>1. IsFiniteSet(0 .. m - 1) /\ Cardinality(0 .. m - 1) = m
    BY <1>1, FS_Interval, SMTT(60)
  <2> HIDE DEF f
  <2> QED BY <1>1, <1>3, <2>1, FS_Injection
<1>5. \A k \in 1 .. m : \E i \in O : DenseIndex(b, i) = k - 1
  <2>1. \A t \in 0 .. m - 1 : \E i \in O : f[i] = t
    BY <1>4 DEF Surjection
  <2>2. \A k \in 1 .. m : k - 1 \in 0 .. m - 1
    BY <1>1
  <2>3. \A i \in O : f[i] = DenseIndex(b, i)
    OBVIOUS
  <2> HIDE DEF f
  <2> QED BY <2>1, <2>2, <2>3
<1>6. \A k \in 1 .. m : SlotOfRow(b, k) \in O /\ DenseIndex(b, SlotOfRow(b, k)) = k - 1
  BY <1>5 DEF SlotOfRow, O
<1>7. Rows(b) = [k \in 1 .. m |-> b.slots[SlotOfRow(b, k)]]
  BY DEF Rows, m
<1>8. ASSUME NEW i \in O
      PROVE  /\ DenseIndex(b, i) + 1 \in 1 .. m
             /\ Rows(b)[DenseIndex(b, i) + 1] = b.slots[i]
  <2>1. DenseIndex(b, i) + 1 \in 1 .. m /\ DenseIndex(b, i) + 1 - 1 = DenseIndex(b, i)
    BY <1>1
  <2>2. SlotOfRow(b, DenseIndex(b, i) + 1) = i
    <3> DEFINE k == DenseIndex(b, i) + 1
    <3>1. \A x \in 1 .. m : SlotOfRow(b, x) \in O /\ DenseIndex(b, SlotOfRow(b, x)) = x - 1
      BY <1>6
    <3>2. k \in 1 .. m /\ k - 1 = DenseIndex(b, i)
      BY <1>1
    <3>3. SlotOfRow(b, k) \in O /\ DenseIndex(b, SlotOfRow(b, k)) = DenseIndex(b, i)
      <4> HIDE DEF k
      <4> QED BY <3>1, <3>2
    <3> DEFINE x == SlotOfRow(b, k)
    <3>4. x \in O /\ DenseIndex(b, x) = DenseIndex(b, i)
      BY <3>3
    <3>5. x = i
      <4> HIDE DEF x
      <4> QED BY <1>2, <3>4
    <3> QED BY <3>5
  <2> QED BY <1>7, <2>1, <2>2
<1>9. DOMAIN Rows(b) = 1 .. m /\ Len(Rows(b)) = m
  BY <1>1, <1>7
<1> QED BY <1>6, <1>7, <1>8, <1>9 DEF O, m

(***************************************************************************)
(* What a request in one more slot does to the rows: it is put in between. *)
(* Batch c is batch b with r in the free slot i.                           *)
(***************************************************************************)
FillsSlot(b, c, i, r, n) ==
  /\ Slots(b) = 0 .. n - 1 /\ Slots(c) = 0 .. n - 1 /\ r # NoRequest
  /\ b.slots[i] = NoRequest /\ c.slots[i] = r
  /\ \A j \in 0 .. n - 1 : j # i => c.slots[j] = b.slots[j]

RowBetween(b, c, d, r) ==
  \A k \in 1 .. NumReqs(b) + 1 :
    Rows(c)[k] = IF k <= d THEN Rows(b)[k] ELSE IF k = d + 1 THEN r ELSE Rows(b)[k - 1]

\* A slot that is filled puts its request between the rows before and after it.
LEMMA OneMoreSlot ==
  ASSUME NEW n \in Nat, NEW b, NEW c, NEW i \in 0 .. n - 1, NEW r,
         FillsSlot(b, c, i, r, n)
  PROVE  /\ Occupied(c) = Occupied(b) \cup {i} /\ i \notin Occupied(b)
         /\ NumReqs(b) \in 0 .. n - 1 /\ NumReqs(c) = NumReqs(b) + 1
         /\ DenseIndex(c, i) = DenseIndex(b, i) /\ DenseIndex(b, i) \in 0 .. NumReqs(b)
         /\ RowBetween(b, c, DenseIndex(b, i), r)
<1>0. /\ Slots(b) = 0 .. n - 1 /\ Slots(c) = 0 .. n - 1 /\ r # NoRequest
      /\ b.slots[i] = NoRequest /\ c.slots[i] = r
      /\ \A j \in 0 .. n - 1 : j # i => c.slots[j] = b.slots[j]
  BY DEF FillsSlot
<1> DEFINE d == DenseIndex(b, i)
           m == NumReqs(b)
<1>1. Occupied(c) = Occupied(b) \cup {i} /\ i \notin Occupied(b) /\ Occupied(b) \subseteq 0 .. n - 1
  <2>1. /\ Occupied(b) = {j \in 0 .. n - 1 : b.slots[j] # NoRequest}
        /\ Occupied(c) = {j \in 0 .. n - 1 : c.slots[j] # NoRequest}
    BY <1>0 DEF Occupied
  <2> QED BY <1>0, <2>1
<1>2. /\ IsFiniteSet(Occupied(b)) /\ m \in 0 .. n /\ d \in 0 .. m
      /\ \A j \in Int : DenseIndex(b, j) \in 0 .. m
      /\ \A j \in Occupied(b) : DenseIndex(b, j) < m
      /\ \A j, k \in Int : j <= k => DenseIndex(b, j) <= DenseIndex(b, k)
      /\ \A j \in Occupied(b), k \in Int : j < k => DenseIndex(b, j) < DenseIndex(b, k)
  <2>1. /\ IsFiniteSet(Occupied(b)) /\ m \in 0 .. n
        /\ \A j \in Int : DenseIndex(b, j) \in 0 .. m
        /\ \A j \in Occupied(b) : DenseIndex(b, j) < m
        /\ \A j, k \in Int : j <= k => DenseIndex(b, j) <= DenseIndex(b, k)
        /\ \A j \in Occupied(b), k \in Int : j < k => DenseIndex(b, j) < DenseIndex(b, k)
    BY <1>0, DenseIndexBounds
  <2>2. i \in Int
    OBVIOUS
  <2> HIDE DEF m
  <2> QED BY <2>1, <2>2
<1>3. NumReqs(c) = m + 1 /\ NumReqs(c) \in 0 .. n
  <2>1. NumReqs(c) = m + 1
    BY <1>1, <1>2, FS_AddElement DEF NumReqs
  <2>2. NumReqs(c) \in 0 .. n
    BY <1>0, DenseIndexBounds
  <2> QED BY <2>1, <2>2
<1>4. \A j \in 0 .. n - 1 : DenseIndex(c, j) = IF i < j THEN DenseIndex(b, j) + 1
                                               ELSE DenseIndex(b, j)
  <2> SUFFICES ASSUME NEW j \in 0 .. n - 1
               PROVE  DenseIndex(c, j) = IF i < j THEN DenseIndex(b, j) + 1
                                         ELSE DenseIndex(b, j)
    OBVIOUS
  <2> DEFINE B == {x \in Occupied(b) : x < j}
             C == {x \in Occupied(c) : x < j}
  <2>1. IsFiniteSet(B) /\ i \notin B
    <3>1. B \in SUBSET Occupied(b)
      OBVIOUS
    <3> QED BY <1>1, <1>2, <3>1, FS_Subset
  <2>2. C = IF i < j THEN B \cup {i} ELSE B
    BY <1>1
  <2>3. DenseIndex(b, j) = Cardinality(B) /\ DenseIndex(c, j) = Cardinality(C)
    BY DEF DenseIndex
  <2> HIDE DEF B, C
  <2> QED BY <2>1, <2>2, <2>3, FS_AddElement
<1>5. DenseIndex(c, i) = d
  BY <1>4
<1>6. ASSUME NEW k \in 1 .. m + 1
      PROVE  Rows(c)[k] = IF k <= d THEN Rows(b)[k]
                          ELSE IF k = d + 1 THEN r ELSE Rows(b)[k - 1]
  <2>1. PICK j \in Occupied(c) : DenseIndex(c, j) = k - 1 /\ Rows(c)[k] = c.slots[j]
    BY <1>3, <1>0, RowOfSlot
  <2>2. j \in 0 .. n - 1 /\ i \in Int /\ j \in Int
    BY <1>1, <2>1
  <2>3. CASE j = i
    <3>1. d = k - 1 /\ d \in Int
      BY <1>2, <1>5, <2>1, <2>3
    <3>2. k = d + 1 /\ ~(k <= d)
      BY <3>1
    <3> QED BY <1>0, <2>1, <2>3, <3>2
  <2>4. CASE j # i
    <3>1. j \in Occupied(b) /\ c.slots[j] = b.slots[j]
      BY <1>0, <1>1, <2>1, <2>2, <2>4
    <3>2. Rows(b)[DenseIndex(b, j) + 1] = b.slots[j] /\ DenseIndex(b, j) \in 0 .. m
      BY <1>2, <2>2, <3>1, <1>0, RowOfSlot
    <3>3. CASE j < i
      <4>1. DenseIndex(b, j) = k - 1
        BY <1>4, <2>1, <2>2, <3>3
      <4>2. DenseIndex(b, j) < d
        BY <1>2, <2>2, <3>1, <3>3
      <4>3. k <= d /\ DenseIndex(b, j) + 1 = k
        BY <1>2, <4>1, <4>2
      <4> QED BY <2>1, <3>1, <3>2, <4>3
    <3>4. CASE i < j
      <4>1. DenseIndex(b, j) + 1 = k - 1
        BY <1>4, <2>1, <2>2, <3>4
      <4>2. d <= DenseIndex(b, j)
        BY <1>2, <2>2, <3>4
      <4>3. ~(k <= d) /\ k # d + 1
        <5> DEFINE e == DenseIndex(b, j)
        <5>1. e \in Int /\ d \in Int /\ k \in Int /\ e + 1 = k - 1 /\ d <= e
          BY <1>2, <3>2, <4>1, <4>2
        <5> HIDE DEF e, d
        <5> QED BY <5>1
      <4> QED BY <2>1, <3>1, <3>2, <4>1, <4>3
    <3> QED BY <2>2, <2>4, <3>3, <3>4
  <2> QED BY <2>3, <2>4
<1>7. m \in 0 .. n - 1
  BY <1>2, <1>3
<1> QED BY <1>1, <1>2, <1>3, <1>5, <1>6, <1>7 DEF RowBetween

-----------------------------------------------------------------------------
(***************************************************************************)
(* Processors: a chain of swaps takes one row to another place and shifts  *)
(* those in between by one.                                                *)
(***************************************************************************)
\* The moves of add_request, from the end of the rows down.
Downwards(n, d) == [k \in 1 .. n - d |-> <<n - k + 1, n - k>>]

\* The moves of remove_request, up to the end of the rows.
Upwards(d, e) == [k \in 1 .. e - d |-> <<d + k - 1, d + k>>]

IsMovedDown(q, p, n, d, D) ==
  /\ q[d] = p[n]
  /\ \A j \in D : d < j /\ j <= n => q[j] = p[j - 1]
  /\ \A j \in D : j < d \/ n < j => q[j] = p[j]

IsMovedUp(q, p, d, e, D) ==
  /\ q[e] = p[d]
  /\ \A j \in D : d <= j /\ j < e => q[j] = p[j + 1]
  /\ \A j \in D : j < d \/ e < j => q[j] = p[j]

\* Down from the end of the rows, for a request that is added.
LEMMA SwappedDown ==
  ASSUME NEW N \in Nat, NEW X, NEW p \in [0 .. N - 1 -> X],
         NEW n \in 0 .. N - 1, NEW d \in 0 .. n
  PROVE  /\ WithMoved(p, Downwards(n, d)) \in [0 .. N - 1 -> X]
         /\ IsMovedDown(WithMoved(p, Downwards(n, d)), p, n, d, 0 .. N - 1)
<1> DEFINE S == [0 .. N - 1 -> X]
           moves == Downwards(n, d)
<1>0. moves = [k \in 1 .. n - d |-> <<n - k + 1, n - k>>]
  BY DEF Downwards
<1> HIDE DEF moves
<1>s. \A q \in S : \A a, c \in 0 .. N - 1 : a # c =>
        /\ Swap(q, a, c) \in S
        /\ Swap(q, a, c)[a] = q[c] /\ Swap(q, a, c)[c] = q[a]
        /\ \A j \in 0 .. N - 1 : j # a /\ j # c => Swap(q, a, c)[j] = q[j]
  BY DEF Swap
<1> HIDE DEF S
<1>1. \A q \in S, k \in 1 .. n - d : Swap(q, moves[k][1], moves[k][2]) \in S
  <2> SUFFICES ASSUME NEW q \in S, NEW k \in 1 .. n - d
               PROVE  Swap(q, moves[k][1], moves[k][2]) \in S
    OBVIOUS
  <2>1. moves[k][1] = n - k + 1 /\ moves[k][2] = n - k
    BY <1>0
  <2>2. n - k + 1 \in 0 .. N - 1 /\ n - k \in 0 .. N - 1 /\ n - k + 1 # n - k
    OBVIOUS
  <2> QED BY <2>1, <2>2, <1>s
<1>2. n - d \in Nat /\ DOMAIN moves = 1 .. n - d
  BY <1>0
<1>3. PICK g \in [0 .. n - d -> S] :
        /\ g[0] = p
        /\ \A k \in 1 .. n - d : g[k] = Swap(g[k - 1], moves[k][1], moves[k][2])
        /\ WithMoved(p, moves) = g[n - d]
  <2> HIDE DEF S
  <2>1. p \in S
    BY DEF S
  <2>2. SwapsWithin(moves, n - d, S)
    BY <1>1, <1>2 DEF SwapsWithin
  <2>3. \E g \in [0 .. n - d -> S] : SwapChain(g, n - d, p, moves)
    BY <1>2, <2>1, <2>2, SwapFold
  <2> QED BY <2>3 DEF SwapChain
<1> DEFINE After(k) ==
             /\ g[k][n - k] = p[n]
             /\ \A j \in 0 .. N - 1 : n - k < j /\ j <= n => g[k][j] = p[j - 1]
             /\ \A j \in 0 .. N - 1 : j < n - k \/ n < j => g[k][j] = p[j]
           T == {k \in 0 .. n - d : After(k)}
<1>4. 0 \in T
  <2>1. 0 \in 0 .. n - d /\ n - 0 = n
    OBVIOUS
  <2>2. After(0)
    BY <1>3, <2>1
  <2> QED BY <2>1, <2>2
<1>5. ASSUME NEW k \in 1 .. n - d, k - 1 \in T
      PROVE  k \in T
  <2> DEFINE a == n - k + 1
             c == n - k
             q == g[k - 1]
  <2>1. /\ a \in 0 .. N - 1 /\ c \in 0 .. N - 1 /\ a # c
        /\ n - (k - 1) = a /\ c = a - 1 /\ a <= n
    OBVIOUS
  <2>2. q \in S /\ g[k] = Swap(q, a, c)
    <3>1. k - 1 \in 0 .. n - d /\ moves[k][1] = a /\ moves[k][2] = c
      BY <1>0
    <3> QED BY <1>3, <3>1
  <2>3. /\ q[a] = p[n]
        /\ \A j \in 0 .. N - 1 : a < j /\ j <= n => q[j] = p[j - 1]
        /\ \A j \in 0 .. N - 1 : j < a \/ n < j => q[j] = p[j]
    BY <1>5, <2>1
  <2>4. /\ g[k][a] = q[c] /\ g[k][c] = q[a]
        /\ \A j \in 0 .. N - 1 : j # a /\ j # c => g[k][j] = q[j]
    <3> HIDE DEF a, c, q
    <3> QED BY <2>1, <2>2, <1>s
  <2> HIDE DEF a, q
  <2>5. g[k][c] = p[n]
    BY <2>3, <2>4
  <2>6. ASSUME NEW j \in 0 .. N - 1, c < j, j <= n
        PROVE  g[k][j] = p[j - 1]
    <3>1. CASE j = a
      <4>1. q[c] = p[c] /\ c = j - 1
        BY <2>1, <2>3, <3>1
      <4> QED BY <2>4, <3>1, <4>1
    <3>2. CASE j # a
      <4>1. a < j /\ j # c
        BY <2>1, <2>6, <3>2
      <4> QED BY <2>3, <2>4, <2>6, <3>2, <4>1
    <3> QED BY <3>1, <3>2
  <2>7. ASSUME NEW j \in 0 .. N - 1, j < c \/ n < j
        PROVE  g[k][j] = p[j]
    <3>1. j # a /\ j # c /\ (j < a \/ n < j)
      BY <2>1, <2>7
    <3> QED BY <2>3, <2>4, <3>1
  <2>8. After(k)
    BY <2>5, <2>6, <2>7
  <2> HIDE DEF After
  <2> QED BY <2>8
<1>6. n - d \in T
  <2> HIDE DEF T
  <2>1. 0 .. n - d \subseteq T
    BY <1>2, <1>4, <1>5, Steps
  <2> QED BY <1>2, <2>1
<1>7. After(n - d) /\ g[n - d] \in S /\ n - (n - d) = d
  BY <1>2, <1>6
<1> QED BY <1>3, <1>7 DEF moves, S, IsMovedDown

\* Up to the end of the rows, for a request that is removed.
LEMMA SwappedUp ==
  ASSUME NEW N \in Nat, NEW X, NEW p \in [0 .. N - 1 -> X],
         NEW e \in 0 .. N - 1, NEW d \in 0 .. e
  PROVE  /\ WithMoved(p, Upwards(d, e)) \in [0 .. N - 1 -> X]
         /\ IsMovedUp(WithMoved(p, Upwards(d, e)), p, d, e, 0 .. N - 1)
<1> DEFINE S == [0 .. N - 1 -> X]
           moves == Upwards(d, e)
<1>0. moves = [k \in 1 .. e - d |-> <<d + k - 1, d + k>>]
  BY DEF Upwards
<1> HIDE DEF moves
<1>s. \A q \in S : \A a, c \in 0 .. N - 1 : a # c =>
        /\ Swap(q, a, c) \in S
        /\ Swap(q, a, c)[a] = q[c] /\ Swap(q, a, c)[c] = q[a]
        /\ \A j \in 0 .. N - 1 : j # a /\ j # c => Swap(q, a, c)[j] = q[j]
  BY DEF Swap
<1> HIDE DEF S
<1>1. \A q \in S, k \in 1 .. e - d : Swap(q, moves[k][1], moves[k][2]) \in S
  <2> SUFFICES ASSUME NEW q \in S, NEW k \in 1 .. e - d
               PROVE  Swap(q, moves[k][1], moves[k][2]) \in S
    OBVIOUS
  <2>1. moves[k][1] = d + k - 1 /\ moves[k][2] = d + k
    BY <1>0
  <2>2. d + k - 1 \in 0 .. N - 1 /\ d + k \in 0 .. N - 1 /\ d + k - 1 # d + k
    OBVIOUS
  <2> QED BY <2>1, <2>2, <1>s
<1>2. e - d \in Nat /\ DOMAIN moves = 1 .. e - d
  BY <1>0
<1>3. PICK g \in [0 .. e - d -> S] :
        /\ g[0] = p
        /\ \A k \in 1 .. e - d : g[k] = Swap(g[k - 1], moves[k][1], moves[k][2])
        /\ WithMoved(p, moves) = g[e - d]
  <2> HIDE DEF S
  <2>1. p \in S
    BY DEF S
  <2>2. SwapsWithin(moves, e - d, S)
    BY <1>1, <1>2 DEF SwapsWithin
  <2>3. \E g \in [0 .. e - d -> S] : SwapChain(g, e - d, p, moves)
    BY <1>2, <2>1, <2>2, SwapFold
  <2> QED BY <2>3 DEF SwapChain
<1> DEFINE After(k) ==
             /\ g[k][d + k] = p[d]
             /\ \A j \in 0 .. N - 1 : d <= j /\ j < d + k => g[k][j] = p[j + 1]
             /\ \A j \in 0 .. N - 1 : j < d \/ d + k < j => g[k][j] = p[j]
           T == {k \in 0 .. e - d : After(k)}
<1>4. 0 \in T
  <2>1. 0 \in 0 .. e - d /\ d + 0 = d
    OBVIOUS
  <2>2. After(0)
    BY <1>3, <2>1
  <2> QED BY <2>1, <2>2
<1>5. ASSUME NEW k \in 1 .. e - d, k - 1 \in T
      PROVE  k \in T
  <2> DEFINE a == d + k - 1
             c == d + k
             q == g[k - 1]
  <2>1. /\ a \in 0 .. N - 1 /\ c \in 0 .. N - 1 /\ a # c
        /\ d + (k - 1) = a /\ c = a + 1 /\ d <= a
    OBVIOUS
  <2>2. q \in S /\ g[k] = Swap(q, a, c)
    <3>1. k - 1 \in 0 .. e - d /\ moves[k][1] = a /\ moves[k][2] = c
      BY <1>0
    <3> QED BY <1>3, <3>1
  <2>3. /\ q[a] = p[d]
        /\ \A j \in 0 .. N - 1 : d <= j /\ j < a => q[j] = p[j + 1]
        /\ \A j \in 0 .. N - 1 : j < d \/ a < j => q[j] = p[j]
    BY <1>5, <2>1
  <2>4. /\ g[k][a] = q[c] /\ g[k][c] = q[a]
        /\ \A j \in 0 .. N - 1 : j # a /\ j # c => g[k][j] = q[j]
    <3> HIDE DEF a, c, q
    <3> QED BY <2>1, <2>2, <1>s
  <2> HIDE DEF a, q
  <2>5. g[k][c] = p[d]
    BY <2>3, <2>4
  <2>6. ASSUME NEW j \in 0 .. N - 1, d <= j, j < c
        PROVE  g[k][j] = p[j + 1]
    <3>1. CASE j = a
      <4>1. q[c] = p[c] /\ c = j + 1
        BY <2>1, <2>3, <3>1
      <4> QED BY <2>4, <3>1, <4>1
    <3>2. CASE j # a
      <4>1. j < a /\ j # c
        BY <2>1, <2>6, <3>2
      <4> QED BY <2>3, <2>4, <2>6, <3>2, <4>1
    <3> QED BY <3>1, <3>2
  <2>7. ASSUME NEW j \in 0 .. N - 1, j < d \/ c < j
        PROVE  g[k][j] = p[j]
    <3>1. j # a /\ j # c /\ (j < d \/ a < j)
      BY <2>1, <2>7
    <3> QED BY <2>3, <2>4, <3>1
  <2>8. After(k)
    BY <2>5, <2>6, <2>7
  <2> HIDE DEF After
  <2> QED BY <2>8
<1>6. e - d \in T
  <2> HIDE DEF T
  <2>1. 0 .. e - d \subseteq T
    BY <1>2, <1>4, <1>5, Steps
  <2> QED BY <1>2, <2>1
<1>7. After(e - d) /\ g[e - d] \in S /\ d + (e - d) = e
  BY <1>2, <1>6
<1> QED BY <1>3, <1>7 DEF moves, S, IsMovedUp

-----------------------------------------------------------------------------
(***************************************************************************)
(* Aligned batches, and that requests join and leave without a row or a    *)
(* processor getting out of place.                                         *)
(***************************************************************************)
Processors == [req : Holders, fresh : BOOLEAN]

OneSlotEach(b) == \A i, j \in Occupied(b) : b.slots[i] = b.slots[j] => i = j

ServedInOrder(b) ==
  \A i \in 0 .. MaxNumSeqs - 1 :
    b.procs[i].req = IF i < NumReqs(b) THEN Rows(b)[i + 1] ELSE NoRequest

Aligned(b) ==
  /\ b.update = NoUpdate
  /\ OneSlotEach(b)
  /\ b.outputs = Rows(b)
  /\ b.rows = Rows(b)
  /\ ServedInOrder(b)

AlignedBatches == {b \in Batches(MaxNumSeqs, MaxNumSeqs) : Aligned(b)}

\* The slots alone decide on the rows.
RowsOf(slots) ==
  LET O == {i \in DOMAIN slots : slots[i] # NoRequest}
  IN [k \in 1 .. Cardinality(O) |->
        slots[CHOOSE i \in O : Cardinality({j \in O : j < i}) = k - 1]]

\* Batches with the same slots have the same rows and members.
LEMMA SlotsDecide ==
  ASSUME NEW b, NEW c, b.slots = c.slots
  PROVE  /\ Slots(b) = Slots(c) /\ Occupied(b) = Occupied(c) /\ NumReqs(b) = NumReqs(c)
         /\ Rows(b) = Rows(c) /\ Members(b) = Members(c)
<1>1. Slots(b) = Slots(c) /\ Occupied(b) = Occupied(c)
  BY DEF Slots, Occupied
<1>2. NumReqs(b) = NumReqs(c)
  BY <1>1 DEF NumReqs
<1>3. Rows(b) = RowsOf(b.slots)
  BY DEF Rows, RowsOf, SlotOfRow, DenseIndex, NumReqs, Occupied, Slots
<1>4. Rows(c) = RowsOf(c.slots)
  BY DEF Rows, RowsOf, SlotOfRow, DenseIndex, NumReqs, Occupied, Slots
<1>5. Members(b) = Members(c)
  BY <1>1 DEF Members
<1> QED BY <1>1, <1>2, <1>3, <1>4, <1>5

\* The elements of a sequence with one more, and of one with one less.
LEMMA InsertAtElements ==
  ASSUME NEW X, NEW s \in Seq(X), NEW e \in X, NEW i \in 1 .. Len(s) + 1
  PROVE  /\ InsertAt(s, i, e) \in Seq(X)
         /\ Len(InsertAt(s, i, e)) = Len(s) + 1
         /\ \A k \in 1 .. Len(s) + 1 :
              InsertAt(s, i, e)[k] = IF k < i THEN s[k] ELSE IF k = i THEN e ELSE s[k - 1]
<1> DEFINE a == SubSeq(s, 1, i - 1)
           c == SubSeq(s, i, Len(s))
           t == a \o <<e>>
<1>1. a \in Seq(X) /\ Len(a) = i - 1 /\ (\A k \in 1 .. i - 1 : a[k] = s[k])
  OBVIOUS
<1>2. /\ c \in Seq(X) /\ Len(c) = Len(s) - i + 1
      /\ \A k \in 1 .. Len(s) - i + 1 : c[k] = s[i + k - 1]
  OBVIOUS
<1> HIDE DEF a, c
<1>3. t \in Seq(X) /\ Len(t) = i /\ (\A k \in 1 .. i - 1 : t[k] = s[k]) /\ t[i] = e
  BY <1>1
<1> HIDE DEF t
<1>4. /\ t \o c \in Seq(X) /\ Len(t \o c) = Len(s) + 1
      /\ \A k \in 1 .. i : (t \o c)[k] = t[k]
      /\ \A k \in i + 1 .. Len(s) + 1 : (t \o c)[k] = c[k - i]
  BY <1>2, <1>3
<1>5. \A k \in i + 1 .. Len(s) + 1 : k - i \in 1 .. Len(s) - i + 1 /\ i + (k - i) - 1 = k - 1
  OBVIOUS
<1>6. InsertAt(s, i, e) = t \o c
  BY DEF InsertAt, t, a, c
<1> DEFINE u == t \o c
<1> HIDE DEF u
<1>7. ASSUME NEW k \in 1 .. Len(s) + 1
      PROVE  u[k] = IF k < i THEN s[k] ELSE IF k = i THEN e ELSE s[k - 1]
  <2>1. CASE k < i
    <3>1. k \in 1 .. i - 1 /\ k \in 1 .. i
      BY <2>1
    <3> QED BY <1>3, <1>4, <2>1, <3>1 DEF u
  <2>2. CASE k = i
    <3>1. k \in 1 .. i /\ ~(k < i)
      BY <2>2
    <3> QED BY <1>3, <1>4, <2>2, <3>1 DEF u
  <2>3. CASE i < k
    <3> DEFINE j == k - i
    <3>1. k \in i + 1 .. Len(s) + 1 /\ ~(k < i) /\ k # i
      BY <2>3
    <3>2. u[k] = c[j]
      BY <1>4, <3>1 DEF u
    <3>3. j \in 1 .. Len(s) - i + 1 /\ i + j - 1 = k - 1
      BY <1>5, <3>1
    <3> HIDE DEF j
    <3>4. c[j] = s[i + j - 1]
      BY <1>2, <3>3
    <3> QED BY <3>1, <3>2, <3>3, <3>4
  <2> QED BY <2>1, <2>2, <2>3
<1>8. InsertAt(s, i, e) = u /\ u \in Seq(X) /\ Len(u) = Len(s) + 1
  BY <1>4, <1>6 DEF u
<1> QED BY <1>7, <1>8

\* RemoveAt takes one element out.
LEMMA RemoveAtElements ==
  ASSUME NEW X, NEW s \in Seq(X), NEW i \in 1 .. Len(s)
  PROVE  /\ RemoveAt(s, i) \in Seq(X)
         /\ Len(RemoveAt(s, i)) = Len(s) - 1
         /\ \A k \in 1 .. Len(s) - 1 :
              RemoveAt(s, i)[k] = IF k < i THEN s[k] ELSE s[k + 1]
<1>1. RemoveAt(s, i) = Without(s, i)
  BY DEF RemoveAt, Without
<1> QED BY <1>1, WithoutElements, Zenon

InPlace(procs, update) ==
  WithMoved(WithRemoved(WithAdded(procs, update.added), update.removed), update.moved)

\* update_state serves the requests that the moves have put in each place.
LEMMA UpdatedProcessors ==
  ASSUME NEW D, NEW procs \in [D -> Processors], NEW update,
         InPlace(procs, update) \in [D -> Processors]
  PROVE  /\ UpdateState(procs, update) \in [D -> Processors]
         /\ \A i \in D : UpdateState(procs, update)[i].req = InPlace(procs, update)[i].req
<1> DEFINE moved == InPlace(procs, update)
<1>1. UpdateState(procs, update) =
        [i \in DOMAIN procs |->
           IF i \in Called(update) THEN moved[i] ELSE [moved[i] EXCEPT !.fresh = TRUE]]
  BY DEF UpdateState, InPlace, WithMoved, WithRemoved, WithAdded
<1> HIDE DEF moved
<1>2. \A i \in D : /\ [moved[i] EXCEPT !.fresh = TRUE] \in Processors
                   /\ [moved[i] EXCEPT !.fresh = TRUE].req = moved[i].req
  <2>1. \A x \in Processors : /\ [x EXCEPT !.fresh = TRUE] \in Processors
                              /\ [x EXCEPT !.fresh = TRUE].req = x.req
    BY DEF Processors
  <2>2. moved \in [D -> Processors]
    BY DEF moved
  <2> QED BY <2>1, <2>2
<1>3. moved \in [D -> Processors]
  BY DEF moved
<1>4. UpdateState(procs, update) \in [D -> Processors]
      /\ \A i \in D : UpdateState(procs, update)[i].req = moved[i].req
  BY <1>1, <1>2, <1>3
<1> QED BY <1>4 DEF moved

\* Rows of a typed batch.
LEMMA RowsType ==
  ASSUME NEW n \in Nat, NEW b, b.slots \in [0 .. n - 1 -> Holders]
  PROVE  /\ Slots(b) = 0 .. n - 1 /\ Members(b) \subseteq Requests
         /\ Rows(b) \in Seq(Requests) /\ Len(Rows(b)) = NumReqs(b)
         /\ IsFiniteSet(Occupied(b)) /\ NumReqs(b) \in 0 .. n
<1>1. Slots(b) = 0 .. n - 1
  BY DEF Slots
<1>2. \A i \in Occupied(b) : b.slots[i] \in Requests
  BY <1>1 DEF Occupied, Holders
<1>3. IsFiniteSet(Occupied(b)) /\ NumReqs(b) \in 0 .. n
  BY <1>1, DenseIndexBounds
<1>4. \A k \in 1 .. NumReqs(b) : Rows(b)[k] \in Requests
  BY <1>1, <1>2, RowOfSlot
<1>5. Rows(b) \in [1 .. NumReqs(b) -> Requests]
  <2>1. Rows(b) = [k \in 1 .. NumReqs(b) |-> b.slots[SlotOfRow(b, k)]]
    BY DEF Rows
  <2> QED BY <1>4, <2>1
<1>6. Rows(b) \in Seq(Requests) /\ Len(Rows(b)) = NumReqs(b)
  BY <1>3, <1>5
<1> QED BY <1>1, <1>2, <1>3, <1>6 DEF Members

\* Numbers that count from 0.
LEMMA SizeOfPositions ==
  ASSUME NEW n \in Nat
  PROVE  Cardinality(0 .. n - 1) = n
<1>1. Cardinality(0 .. n - 1) = IF 0 > n - 1 THEN 0 ELSE n - 1 - 0 + 1
  <2>1. 0 \in Int /\ n - 1 \in Int
    OBVIOUS
  <2> QED BY <2>1, FS_Interval
<1> QED BY <1>1

\* The first free slot is the one behind the rows before it.
LEMMA FirstFree ==
  ASSUME NEW n \in Nat, NEW b, b.slots \in [0 .. n - 1 -> Holders], NumReqs(b) < n
  PROVE  /\ AvailableIndex(b) \in 0 .. n - 1 /\ b.slots[AvailableIndex(b)] = NoRequest
         /\ DenseIndex(b, AvailableIndex(b)) = AvailableIndex(b)
<1> DEFINE F == Slots(b) \ Occupied(b)
           i == AvailableIndex(b)
<1>1. Slots(b) = 0 .. n - 1 /\ Occupied(b) \subseteq 0 .. n - 1
  BY DEF Slots, Occupied
<1>2. F \subseteq Nat /\ F # {}
  <2>1. Cardinality(0 .. n - 1) = n
    BY SizeOfPositions
  <2>2. Occupied(b) # 0 .. n - 1
    <3>1. Cardinality(Occupied(b)) \in 0 .. n /\ Cardinality(Occupied(b)) < n
      BY RowsType DEF NumReqs
    <3>2. Cardinality(Occupied(b)) # n
      BY <3>1
    <3>3. Occupied(b) = 0 .. n - 1 => Cardinality(Occupied(b)) = n
      BY <2>1
    <3> QED BY <3>2, <3>3
  <2>3. \E x \in 0 .. n - 1 : x \notin Occupied(b)
    BY <1>1, <2>2, Zenon
  <2>4. F = (0 .. n - 1) \ Occupied(b)
    BY <1>1
  <2> HIDE DEF F
  <2> QED BY <2>3, <2>4
<1>3. i \in F /\ \A x \in F : i <= x
  <2> HIDE DEF F
  <2> QED BY <1>2, MinIsLeast DEF AvailableIndex, F
<1>4. i \in 0 .. n - 1 /\ b.slots[i] = NoRequest
  BY <1>1, <1>3 DEF Occupied
<1>5. {j \in Occupied(b) : j < i} = 0 .. i - 1
  <2>1. \A j \in 0 .. i - 1 : j \in 0 .. n - 1 /\ ~(i <= j)
    BY <1>4
  <2>2. \A j \in 0 .. i - 1 : j \in Occupied(b)
    BY <1>1, <1>3, <2>1
  <2>3. \A j \in 0 .. n - 1 : j < i => j \in 0 .. i - 1
    BY <1>4
  <2>4. \A j \in 0 .. i - 1 : j < i
    BY <1>4
  <2> QED BY <1>1, <2>2, <2>3, <2>4
<1>6. DenseIndex(b, i) = i
  <2>1. Cardinality(0 .. i - 1) = i
    BY <1>4, SizeOfPositions
  <2> QED BY <1>5, <2>1, Zenon DEF DenseIndex
<1> QED BY <1>4, <1>6

(***************************************************************************)
(* A request that joins: its row is where it is in the list of outputs.    *)
(***************************************************************************)
LEMMA JoinedRows ==
  ASSUME NEW n \in Nat, NEW w \in Nat, NEW b \in Batches(n, w), NumReqs(b) < n,
         OneSlotEach(b), b.outputs = Rows(b),
         NEW r \in Requests, r \notin Members(b)
  PROVE  LET i == AvailableIndex(b)
             c == AddRequest(b, r)
         IN /\ i \in 0 .. NumReqs(b) /\ DenseIndex(b, i) = i /\ SlotOf(c, r) = i
            /\ c.slots \in [0 .. n - 1 -> Holders] /\ c.bad_words \in [0 .. n - 1 -> Holders]
            /\ OneSlotEach(c) /\ Members(c) = Members(b) \cup {r}
            /\ NumReqs(c) = NumReqs(b) + 1
            /\ \A k \in 1 .. NumReqs(c) :
                 Rows(c)[k] = IF k <= i THEN Rows(b)[k]
                              ELSE IF k = i + 1 THEN r ELSE Rows(b)[k - 1]
            /\ c.outputs = Rows(c)
<1> DEFINE i == AvailableIndex(b)
           c == AddRequest(b, r)
<1>1. b.slots \in [0 .. n - 1 -> Holders] /\ b.bad_words \in [0 .. n - 1 -> Holders]
  BY DEF Batches
<1>2. i \in 0 .. n - 1 /\ b.slots[i] = NoRequest /\ DenseIndex(b, i) = i
  BY <1>1, FirstFree
<1>3. r # NoRequest /\ r \in Holders
  BY BatchAssumption DEF Holders
<1>4. /\ c.slots = [b.slots EXCEPT ![i] = r]
      /\ c.bad_words \in [0 .. n - 1 -> Holders]
      /\ c.outputs = InsertAt(b.outputs, i + 1, r)
  <2>1. /\ c.slots = [b.slots EXCEPT ![i] = r]
        /\ c.bad_words = [b.bad_words EXCEPT ![i] = IF r \in BadWords THEN r ELSE @]
        /\ c.outputs = InsertAt(b.outputs, DenseIndex(b, i) + 1, r)
    BY DEF AddRequest, Batches
  <2> QED BY <1>1, <1>2, <1>3, <2>1
<1> HIDE DEF c, i
<1>5. /\ c.slots \in [0 .. n - 1 -> Holders] /\ c.slots[i] = r
      /\ \A j \in 0 .. n - 1 : j # i => c.slots[j] = b.slots[j]
  BY <1>1, <1>2, <1>3, <1>4
<1>6. /\ Slots(b) = 0 .. n - 1 /\ Slots(c) = 0 .. n - 1
      /\ Rows(b) \in Seq(Requests) /\ Len(Rows(b)) = NumReqs(b)
      /\ Rows(c) \in Seq(Requests) /\ Len(Rows(c)) = NumReqs(c)
  BY <1>1, <1>5, RowsType
<1>7. /\ Occupied(c) = Occupied(b) \cup {i} /\ i \notin Occupied(b)
      /\ NumReqs(b) \in 0 .. n - 1 /\ NumReqs(c) = NumReqs(b) + 1
      /\ i \in 0 .. NumReqs(b)
      /\ \A k \in 1 .. NumReqs(b) + 1 :
           Rows(c)[k] = IF k <= i THEN Rows(b)[k]
                        ELSE IF k = i + 1 THEN r ELSE Rows(b)[k - 1]
  <2>1. /\ Occupied(c) = Occupied(b) \cup {i} /\ i \notin Occupied(b)
        /\ NumReqs(b) \in 0 .. n - 1 /\ NumReqs(c) = NumReqs(b) + 1
        /\ DenseIndex(b, i) \in 0 .. NumReqs(b) /\ RowBetween(b, c, DenseIndex(b, i), r)
    <3>1. FillsSlot(b, c, i, r, n)
      BY <1>2, <1>3, <1>5, <1>6 DEF FillsSlot
    <3> QED BY <1>2, <3>1, OneMoreSlot, ZenonT(60)
  <2> QED BY <1>2, <2>1 DEF RowBetween
<1>8. OneSlotEach(c) /\ Members(c) = Members(b) \cup {r}
  <2>1. Occupied(b) \subseteq 0 .. n - 1
    BY <1>6 DEF Occupied
  <2>2. \A j \in Occupied(b) : c.slots[j] = b.slots[j] /\ b.slots[j] # r
    BY <1>5, <1>7, <2>1 DEF Members
  <2>3. OneSlotEach(c)
    BY <1>5, <1>7, <2>2 DEF OneSlotEach
  <2>4. Members(c) = {b.slots[j] : j \in Occupied(b)} \cup {r}
    BY <1>5, <1>7, <2>2, SMTT(60) DEF Members
  <2> QED BY <2>3, <2>4 DEF Members
<1>9. SlotOf(c, r) = i
  <2>1. \A j \in Slots(c) : c.slots[j] = r => j = i
    <3> SUFFICES ASSUME NEW j \in Slots(c), c.slots[j] = r PROVE j = i
      OBVIOUS
    <3>1. j \in Occupied(c) /\ i \in Occupied(c)
      BY <1>3, <1>7 DEF Occupied
    <3> QED BY <1>5, <1>8, <3>1 DEF OneSlotEach
  <2>2. i \in Slots(c) /\ c.slots[i] = r
    BY <1>2, <1>5, <1>6
  <2> QED BY <2>1, <2>2 DEF SlotOf
<1>10. c.outputs = Rows(c)
  <2>1. c.outputs = InsertAt(Rows(b), i + 1, r)
    BY <1>4
  <2>2. /\ c.outputs \in Seq(Requests) /\ Len(c.outputs) = NumReqs(b) + 1
        /\ \A k \in 1 .. NumReqs(b) + 1 :
             c.outputs[k] = IF k < i + 1 THEN Rows(b)[k]
                            ELSE IF k = i + 1 THEN r ELSE Rows(b)[k - 1]
    <3> DEFINE p == i + 1
               s == Rows(b)
    <3>1. p \in 1 .. Len(s) + 1 /\ s \in Seq(Requests)
      BY <1>6, <1>7
    <3>2. /\ InsertAt(s, p, r) \in Seq(Requests) /\ Len(InsertAt(s, p, r)) = Len(s) + 1
          /\ \A k \in 1 .. Len(s) + 1 :
               InsertAt(s, p, r)[k] = IF k < p THEN s[k] ELSE IF k = p THEN r ELSE s[k - 1]
      <4> HIDE DEF p, s
      <4> QED BY <3>1, InsertAtElements
    <3>3. c.outputs = InsertAt(s, p, r) /\ Len(s) = NumReqs(b)
      BY <1>6, <2>1
    <3> HIDE DEF s
    <3>4. /\ c.outputs \in Seq(Requests) /\ Len(c.outputs) = NumReqs(b) + 1
          /\ \A k \in 1 .. NumReqs(b) + 1 :
               c.outputs[k] = IF k < p THEN s[k] ELSE IF k = p THEN r ELSE s[k - 1]
      <4> HIDE DEF p
      <4> QED BY ONLY <3>2, <3>3
    <3> QED BY ONLY <3>4 DEF s, p
  <2>3. \A k \in 1 .. NumReqs(b) + 1 : c.outputs[k] = Rows(c)[k]
    BY <1>7, <2>2
  <2> QED BY <1>6, <1>7, <2>2, <2>3, EqualSequences, SMTT(60)
<1> QED BY <1>2, <1>5, <1>4, <1>7, <1>8, <1>9, <1>10 DEF c, i

\* The parts of an aligned batch.
LEMMA AlignedParts ==
  ASSUME NEW b \in AlignedBatches
  PROVE  /\ MaxNumSeqs \in Nat \ {0}
         /\ b \in Batches(MaxNumSeqs, MaxNumSeqs) /\ b.update = NoUpdate
         /\ b.slots \in [0 .. MaxNumSeqs - 1 -> Holders]
         /\ b.bad_words \in [0 .. MaxNumSeqs - 1 -> Holders]
         /\ b.procs \in [0 .. MaxNumSeqs - 1 -> Processors]
         /\ OneSlotEach(b) /\ b.outputs = Rows(b) /\ b.rows = Rows(b) /\ ServedInOrder(b)
         /\ Rows(b) \in Seq(Requests) /\ Len(Rows(b)) = NumReqs(b)
         /\ NumReqs(b) \in 0 .. MaxNumSeqs
<1>1. MaxNumSeqs \in Nat \ {0}
  BY BatchAssumption
<1>2. /\ b \in Batches(MaxNumSeqs, MaxNumSeqs) /\ b.update = NoUpdate
      /\ OneSlotEach(b) /\ b.outputs = Rows(b) /\ b.rows = Rows(b) /\ ServedInOrder(b)
  BY DEF AlignedBatches, Aligned
<1>3. /\ b.slots \in [0 .. MaxNumSeqs - 1 -> Holders]
      /\ b.bad_words \in [0 .. MaxNumSeqs - 1 -> Holders]
      /\ b.procs \in [0 .. MaxNumSeqs - 1 -> Processors]
  BY <1>2 DEF Batches, Processors
<1>4. /\ Rows(b) \in Seq(Requests) /\ Len(Rows(b)) = NumReqs(b)
      /\ NumReqs(b) \in 0 .. MaxNumSeqs
  BY <1>1, <1>3, RowsType
<1> QED BY <1>1, <1>2, <1>3, <1>4

\* What makes a refreshed batch an aligned one.
LEMMA RefreshedAligned ==
  ASSUME NEW j, NEW c, NEW procs \in [0 .. MaxNumSeqs - 1 -> Processors],
         j.slots \in [0 .. MaxNumSeqs - 1 -> Holders],
         j.bad_words \in [0 .. MaxNumSeqs - 1 -> Holders],
         OneSlotEach(j), j.outputs = Rows(j),
         c = [slots |-> j.slots, bad_words |-> j.bad_words, outputs |-> j.outputs,
              update |-> NoUpdate, rows |-> Rows(j), procs |-> procs],
         \A i \in 0 .. MaxNumSeqs - 1 :
           procs[i].req = IF i < NumReqs(j) THEN Rows(j)[i + 1] ELSE NoRequest
  PROVE  c \in AlignedBatches /\ Members(c) = Members(j) /\ Rows(c) = Rows(j)
<1>1. c.slots = j.slots
  OBVIOUS
<1>2. /\ Occupied(c) = Occupied(j) /\ NumReqs(c) = NumReqs(j)
      /\ Rows(c) = Rows(j) /\ Members(c) = Members(j)
  BY <1>1, SlotsDecide
<1>3. Rows(j) \in Seq(Requests)
  BY BatchAssumption, RowsType
<1>4. /\ NoUpdate.added \in Seq(Nat \X Requests) /\ NoUpdate.removed \in Seq(Nat)
      /\ NoUpdate.moved \in Seq(Nat \X Nat)
      /\ NoUpdate \in [added : Seq(Nat \X Requests), removed : Seq(Nat), moved : Seq(Nat \X Nat)]
  BY DEF NoUpdate
<1>5. c \in Batches(MaxNumSeqs, MaxNumSeqs)
  BY <1>3, <1>4 DEF Batches, Processors
<1>6. OneSlotEach(c)
  BY <1>1, <1>2 DEF OneSlotEach
<1>7. ServedInOrder(c)
  BY <1>2 DEF ServedInOrder
<1>8. c.update = NoUpdate /\ c.outputs = Rows(c) /\ c.rows = Rows(c)
  BY <1>2
<1> QED BY <1>2, <1>5, <1>6, <1>7, <1>8 DEF AlignedBatches, Aligned

\* refresh_metadata after a change, as a record.
LEMMA RefreshedRecord ==
  ASSUME NEW n \in Nat, NEW j, j.update # NoUpdate,
         j = [slots |-> j.slots, bad_words |-> j.bad_words, outputs |-> j.outputs,
              update |-> j.update, rows |-> j.rows, procs |-> j.procs],
         j.procs \in [0 .. n - 1 -> Processors]
  PROVE  RefreshMetadata(j) =
           [slots |-> j.slots, bad_words |-> j.bad_words, outputs |-> j.outputs,
            update |-> NoUpdate, rows |-> Rows(j),
            procs |-> IF n = 0 THEN j.procs ELSE UpdateState(j.procs, j.update)]
<1>1. DOMAIN j.procs = 0 .. n - 1
  OBVIOUS
<1>2. DOMAIN j.procs = {} <=> n = 0
  <2>1. n # 0 => 0 \in 0 .. n - 1
    OBVIOUS
  <2>2. n = 0 => 0 .. n - 1 = {}
    OBVIOUS
  <2> QED BY <1>1, <2>1, <2>2
<1>3. Metadata(j) = Rows(j)
  BY DEF Metadata
<1> DEFINE p == IF DOMAIN j.procs = {} THEN j.procs ELSE UpdateState(j.procs, j.update)
<1>4. RefreshMetadata(j) = [j EXCEPT !.procs = p, !.rows = Rows(j), !.update = NoUpdate]
  BY <1>3 DEF RefreshMetadata
<1>5. p = IF n = 0 THEN j.procs ELSE UpdateState(j.procs, j.update)
  BY <1>2
<1> HIDE DEF p
<1>6. RefreshMetadata(j) =
        [slots |-> j.slots, bad_words |-> j.bad_words, outputs |-> j.outputs,
         update |-> NoUpdate, rows |-> Rows(j), procs |-> p]
  BY <1>4
<1> QED BY <1>5, <1>6

\* The batch after add_request.
LEMMA JoinedRecord ==
  ASSUME NEW n \in Nat, NEW w \in Nat, NEW b \in Batches(n, w), b.update = NoUpdate,
         NEW r \in Requests, NEW i, i = AvailableIndex(b),
         NumReqs(b) \in Nat, DenseIndex(b, i) \in 0 .. NumReqs(b)
  PROVE  LET c == AddRequest(b, r)
         IN /\ c = [slots |-> c.slots, bad_words |-> c.bad_words, outputs |-> c.outputs,
                    update |-> c.update, rows |-> c.rows, procs |-> c.procs]
            /\ c.update = [added   |-> <<<<NumReqs(b), r>>>>,
                           removed |-> <<>>,
                           moved   |-> Downwards(NumReqs(b), DenseIndex(b, i))]
            /\ c.update # NoUpdate
            /\ c.rows = b.rows /\ c.procs = b.procs
<1> DEFINE m == NumReqs(b)
           d == DenseIndex(b, i)
           moves == Downwards(m, d)
           c == AddRequest(b, r)
<1>1. /\ b.update.added = <<>> /\ b.update.removed = <<>> /\ b.update.moved = <<>>
      /\ b.update = [added |-> <<>>, removed |-> <<>>, moved |-> <<>>]
  BY DEF NoUpdate
<1>2. <<>> \o moves = moves
  <2>1. m - d \in Nat
    OBVIOUS
  <2>2. moves \in [1 .. m - d -> Int \X Int]
    BY DEF Downwards
  <2>3. moves \in Seq(Int \X Int)
    BY <2>1, <2>2
  <2> QED BY <2>3, ConcatEmptySeq
<1>3. moves = [k \in 1 .. m - d |-> <<m - k + 1, m - k>>]
  BY DEF Downwards
<1> HIDE DEF moves
<1>4. c = [b EXCEPT
             !.slots[i]     = r,
             !.bad_words[i] = IF r \in BadWords THEN r ELSE @,
             !.outputs      = InsertAt(@, d + 1, r),
             !.update.added = Append(@, <<m, r>>),
             !.update.moved = @ \o moves]
  BY <1>3 DEF AddRequest
<1>5. /\ c = [slots |-> c.slots, bad_words |-> c.bad_words, outputs |-> c.outputs,
              update |-> c.update, rows |-> c.rows, procs |-> c.procs]
      /\ c.rows = b.rows /\ c.procs = b.procs
      /\ c.update = [b.update EXCEPT !.added = Append(@, <<m, r>>), !.moved = @ \o moves]
  BY <1>4 DEF Batches
<1>6. c.update = [added |-> <<<<m, r>>>>, removed |-> <<>>, moved |-> moves]
  <2> DEFINE e == <<m, r>>
             u == [added |-> <<>>, removed |-> <<>>, moved |-> <<>>]
  <2>1. Append(<<>>, e) = <<e>>
    OBVIOUS
  <2>2. c.update = [u EXCEPT !.added = <<e>>, !.moved = moves]
    <3>1. u.added = <<>> /\ u.moved = <<>> /\ b.update = u
      BY <1>1
    <3>2. c.update = [u EXCEPT !.added = Append(u.added, e), !.moved = u.moved \o moves]
      BY <1>5, <3>1
    <3> HIDE DEF u, e
    <3> QED BY <1>2, <2>1, <3>1, <3>2
  <2> HIDE DEF e, c
  <2> QED BY <2>2 DEF e
<1>7. c.update # NoUpdate
  <2>1. c.update.added = <<<<m, r>>>>
    BY <1>6
  <2>2. NoUpdate.added = <<>>
    BY DEF NoUpdate
  <2>3. <<<<m, r>>>> # <<>>
    OBVIOUS
  <2> QED BY <2>1, <2>2, <2>3
<1> QED BY <1>5, <1>6, <1>7 DEF moves

(***************************************************************************)
(* The new request's processor starts behind all rows and is swapped down  *)
(* to its row: everyone is served in order.                                *)
(***************************************************************************)
LEMMA JoinedProcessors ==
  ASSUME NEW b \in AlignedBatches, NumReqs(b) < MaxNumSeqs, NEW r \in Requests,
         NEW d \in 0 .. NumReqs(b), NEW rows, NEW update,
         update = [added |-> <<<<NumReqs(b), r>>>>, removed |-> <<>>,
                   moved |-> Downwards(NumReqs(b), d)],
         \A k \in 1 .. NumReqs(b) + 1 :
           rows[k] = IF k <= d THEN Rows(b)[k] ELSE IF k = d + 1 THEN r ELSE Rows(b)[k - 1]
  PROVE  /\ UpdateState(b.procs, update) \in [0 .. MaxNumSeqs - 1 -> Processors]
         /\ \A i \in 0 .. MaxNumSeqs - 1 :
              UpdateState(b.procs, update)[i].req =
                IF i < NumReqs(b) + 1 THEN rows[i + 1] ELSE NoRequest
<1> DEFINE n == NumReqs(b)
           D == 0 .. MaxNumSeqs - 1
           new == [req |-> r, fresh |-> TRUE]
           p == [b.procs EXCEPT ![n] = new]
           moved == WithMoved(p, Downwards(n, d))
           after == UpdateState(b.procs, update)
<1>1. /\ MaxNumSeqs \in Nat \ {0} /\ b.procs \in [D -> Processors]
      /\ n \in 0 .. MaxNumSeqs - 1 /\ d \in 0 .. n
      /\ \A i \in D : b.procs[i].req = IF i < n THEN Rows(b)[i + 1] ELSE NoRequest
  <2>1. MaxNumSeqs \in Nat \ {0} /\ b.procs \in [D -> Processors] /\ n \in 0 .. MaxNumSeqs
    BY AlignedParts
  <2>2. ServedInOrder(b)
    BY AlignedParts
  <2> QED BY <2>1, <2>2 DEF ServedInOrder
<1>2. new \in Processors /\ new.req = r
  BY DEF Processors, Holders
<1> HIDE DEF n, D, new
<1>3. /\ p \in [D -> Processors] /\ p[n] = new
      /\ \A i \in D : i # n => p[i] = b.procs[i]
  BY <1>1, <1>2 DEF D
<1>4. InPlace(b.procs, update) = moved
  <2>1. WithAdded(b.procs, <<<<n, r>>>>) = p
    <3>1. WithAdded(b.procs, <<<<n, r>>>>) = Serve(b.procs, <<n, r>>[1], <<n, r>>[2])
      BY AddedFold
    <3> QED BY <3>1 DEF Serve, new
  <2>2. WithRemoved(p, <<>>) = p
    BY RemovedFold
  <2>3. update.added = <<<<n, r>>>> /\ update.removed = <<>> /\ update.moved = Downwards(n, d)
    BY DEF n
  <2> HIDE DEF p
  <2> QED BY <2>1, <2>2, <2>3 DEF InPlace
<1> HIDE DEF p
<1>5. /\ moved \in [D -> Processors] /\ moved[d] = p[n]
      /\ \A j \in D : d < j /\ j <= n => moved[j] = p[j - 1]
      /\ \A j \in D : j < d \/ n < j => moved[j] = p[j]
  <2>1. MaxNumSeqs \in Nat /\ n \in 0 .. MaxNumSeqs - 1 /\ d \in 0 .. n
    BY <1>1
  <2>2. p \in [0 .. MaxNumSeqs - 1 -> Processors]
    BY <1>3 DEF D
  <2>3. moved \in [D -> Processors] /\ IsMovedDown(moved, p, n, d, D)
    BY <2>1, <2>2, SwappedDown DEF D
  <2> HIDE DEF moved
  <2> QED BY <2>3 DEF IsMovedDown
<1> HIDE DEF moved
<1>6. after \in [D -> Processors] /\ \A i \in D : after[i].req = moved[i].req
  BY <1>1, <1>4, <1>5, UpdatedProcessors
<1>7. \A k \in 1 .. n + 1 :
        rows[k] = IF k <= d THEN Rows(b)[k] ELSE IF k = d + 1 THEN r ELSE Rows(b)[k - 1]
  BY DEF n
<1>8. ASSUME NEW i \in D
      PROVE  moved[i].req = IF i < n + 1 THEN rows[i + 1] ELSE NoRequest
  <2>1. i \in Int /\ n \in Int /\ d \in Int /\ 0 <= i /\ 0 <= d /\ d <= n
    BY <1>1 DEF D
  <2>2. CASE i = d
    <3>1. d + 1 \in 1 .. n + 1 /\ ~(d + 1 <= d) /\ d < n + 1
      BY <1>1
    <3> QED BY <1>2, <1>3, <1>5, <1>7, <2>2, <3>1
  <2>3. CASE i < d
    <3>1. i + 1 \in 1 .. n + 1 /\ i + 1 <= d /\ i < n + 1 /\ i # n /\ i < n
      BY <2>1, <2>3
    <3>2. moved[i] = b.procs[i]
      BY <1>3, <1>5, <2>3, <3>1
    <3> QED BY <1>1, <1>7, <3>1, <3>2
  <2>4. CASE d < i /\ i <= n
    <3>1. /\ i + 1 \in 1 .. n + 1 /\ ~(i + 1 <= d) /\ i + 1 # d + 1 /\ i + 1 - 1 = i
          /\ i < n + 1 /\ i - 1 # n /\ i - 1 < n /\ i - 1 + 1 = i
      BY <2>1, <2>4
    <3>2. i - 1 \in D
      BY <1>1, <2>1, <2>4 DEF D
    <3>3. moved[i] = b.procs[i - 1]
      BY <1>3, <1>5, <2>4, <3>1, <3>2
    <3>4. b.procs[i - 1].req = Rows(b)[i]
      BY <1>1, <3>1, <3>2
    <3>5. rows[i + 1] = Rows(b)[i]
      <4> DEFINE k == i + 1
      <4>1. k \in 1 .. n + 1 /\ ~(k <= d) /\ k # d + 1 /\ k - 1 = i
        BY <2>1, <3>1
      <4> HIDE DEF k
      <4>2. rows[k] = Rows(b)[i]
        BY <1>7, <4>1
      <4> QED BY <4>2 DEF k
    <3> QED BY <3>1, <3>3, <3>4, <3>5
  <2>5. CASE n < i
    <3>1. ~(i < n + 1) /\ i # n /\ ~(i < n)
      BY <2>1, <2>5
    <3> QED BY <1>1, <1>3, <1>5, <2>5, <3>1
  <2> QED BY <2>1, <2>2, <2>3, <2>4, <2>5
<1> QED BY <1>6, <1>8 DEF n, D

\* add_request and its refresh: the request has the processor at its slot.
LEMMA JoinKeepsAligned ==
  ASSUME NEW b \in AlignedBatches, NumReqs(b) < MaxNumSeqs,
         NEW r \in Requests, r \notin Members(b)
  PROVE  LET joined == AddRequest(b, r)
             c == RefreshMetadata(joined)
         IN /\ c \in AlignedBatches /\ Members(c) = Members(b) \cup {r}
            /\ SlotOf(joined, r) \in 0 .. MaxNumSeqs - 1
            /\ c.procs[SlotOf(joined, r)].req = r
<1> DEFINE i == AvailableIndex(b)
           joined == AddRequest(b, r)
           c == RefreshMetadata(joined)
           n == NumReqs(b)
           after == UpdateState(b.procs, joined.update)
<1>1. /\ MaxNumSeqs \in Nat \ {0} /\ b \in Batches(MaxNumSeqs, MaxNumSeqs)
      /\ b.update = NoUpdate /\ b.procs \in [0 .. MaxNumSeqs - 1 -> Processors]
      /\ OneSlotEach(b) /\ b.outputs = Rows(b) /\ n \in 0 .. MaxNumSeqs - 1
  BY AlignedParts
<1>2. /\ i \in 0 .. n /\ DenseIndex(b, i) = i /\ SlotOf(joined, r) = i
      /\ joined.slots \in [0 .. MaxNumSeqs - 1 -> Holders]
      /\ joined.bad_words \in [0 .. MaxNumSeqs - 1 -> Holders]
      /\ OneSlotEach(joined) /\ Members(joined) = Members(b) \cup {r}
      /\ NumReqs(joined) = n + 1
      /\ \A k \in 1 .. NumReqs(joined) :
           Rows(joined)[k] = IF k <= i THEN Rows(b)[k]
                             ELSE IF k = i + 1 THEN r ELSE Rows(b)[k - 1]
      /\ joined.outputs = Rows(joined)
  <2>1. MaxNumSeqs \in Nat
    BY <1>1
  <2> QED BY <1>1, <2>1, JoinedRows
<1>3. /\ joined = [slots |-> joined.slots, bad_words |-> joined.bad_words,
                   outputs |-> joined.outputs, update |-> joined.update,
                   rows |-> joined.rows, procs |-> joined.procs]
      /\ joined.update = [added |-> <<<<n, r>>>>, removed |-> <<>>, moved |-> Downwards(n, i)]
      /\ joined.update # NoUpdate /\ joined.procs = b.procs
  <2>1. MaxNumSeqs \in Nat /\ n \in Nat
    BY <1>1
  <2> QED BY <1>1, <1>2, <2>1, JoinedRecord
<1> HIDE DEF joined, n, i
<1>4. c = [slots |-> joined.slots, bad_words |-> joined.bad_words, outputs |-> joined.outputs,
           update |-> NoUpdate, rows |-> Rows(joined), procs |-> after]
  <2>1. MaxNumSeqs \in Nat /\ MaxNumSeqs # 0
    BY <1>1
  <2>2. joined.procs \in [0 .. MaxNumSeqs - 1 -> Processors]
    BY <1>1, <1>3
  <2>3. RefreshMetadata(joined) =
          [slots |-> joined.slots, bad_words |-> joined.bad_words, outputs |-> joined.outputs,
           update |-> NoUpdate, rows |-> Rows(joined),
           procs |-> IF MaxNumSeqs = 0 THEN joined.procs
                     ELSE UpdateState(joined.procs, joined.update)]
    BY <1>3, <2>1, <2>2, RefreshedRecord
  <2> QED BY <1>3, <2>1, <2>3
<1>5. /\ after \in [0 .. MaxNumSeqs - 1 -> Processors]
      /\ \A k \in 0 .. MaxNumSeqs - 1 :
           after[k].req = IF k < n + 1 THEN Rows(joined)[k + 1] ELSE NoRequest
  <2>1. \A k \in 1 .. n + 1 :
          Rows(joined)[k] = IF k <= i THEN Rows(b)[k]
                            ELSE IF k = i + 1 THEN r ELSE Rows(b)[k - 1]
    BY <1>2
  <2>2. /\ b \in AlignedBatches /\ NumReqs(b) < MaxNumSeqs /\ r \in Requests
        /\ i \in 0 .. NumReqs(b)
        /\ joined.update = [added |-> <<<<NumReqs(b), r>>>>, removed |-> <<>>,
                            moved |-> Downwards(NumReqs(b), i)]
    BY <1>2, <1>3 DEF n
  <2> QED BY ONLY <2>1, <2>2, JoinedProcessors, SMTT(60) DEF n
<1> HIDE DEF after, c
<1>6. c \in AlignedBatches /\ Members(c) = Members(joined)
  <2>1. \A k \in 0 .. MaxNumSeqs - 1 :
          after[k].req = IF k < NumReqs(joined) THEN Rows(joined)[k + 1] ELSE NoRequest
    BY <1>2, <1>5
  <2> QED BY <1>2, <1>4, <1>5, <2>1, RefreshedAligned
<1>7. c.procs[i].req = r
  <2>1. i \in 0 .. MaxNumSeqs - 1 /\ i < n + 1 /\ i + 1 \in 1 .. n + 1 /\ ~(i + 1 <= i)
    BY <1>1, <1>2
  <2> QED BY <1>2, <1>4, <1>5, <2>1
<1> QED BY <1>1, <1>2, <1>6, <1>7 DEF c, joined

(***************************************************************************)
(* A request that leaves: its row is taken out of the list of outputs.     *)
(***************************************************************************)
LEMMA LeftRows ==
  ASSUME NEW n \in Nat, NEW w \in Nat, NEW b \in Batches(n, w),
         OneSlotEach(b), b.outputs = Rows(b), NEW r \in Members(b)
  PROVE  LET d == DenseIndex(b, SlotOf(b, r))
             c == RemoveRequest(b, r)
         IN /\ NumReqs(b) \in 1 .. n /\ d \in 0 .. NumReqs(b) - 1
            /\ c.slots \in [0 .. n - 1 -> Holders] /\ c.bad_words \in [0 .. n - 1 -> Holders]
            /\ OneSlotEach(c) /\ Members(c) = Members(b) \ {r}
            /\ NumReqs(c) = NumReqs(b) - 1
            /\ \A k \in 1 .. NumReqs(b) - 1 :
                 Rows(c)[k] = IF k <= d THEN Rows(b)[k] ELSE Rows(b)[k + 1]
            /\ c.outputs = Rows(c)
<1> DEFINE i == SlotOf(b, r)
           d == DenseIndex(b, i)
           c == RemoveRequest(b, r)
<1>1. b.slots \in [0 .. n - 1 -> Holders] /\ b.bad_words \in [0 .. n - 1 -> Holders]
  BY DEF Batches
<1>2. Slots(b) = 0 .. n - 1
  BY <1>1, RowsType
<1>3. i \in 0 .. n - 1 /\ b.slots[i] = r /\ r # NoRequest
  <2>1. PICK j \in Occupied(b) : b.slots[j] = r
    BY DEF Members
  <2>2. j \in Slots(b) /\ r # NoRequest
    BY <2>1 DEF Occupied
  <2> QED BY <1>2, <2>1, <2>2 DEF SlotOf
<1>4. NoRequest \in Holders
  BY DEF Holders
<1>5. /\ c.slots = [b.slots EXCEPT ![i] = NoRequest]
      /\ c.bad_words \in [0 .. n - 1 -> Holders]
      /\ c.outputs = RemoveAt(b.outputs, d + 1)
  <2>1. /\ c.slots = [b.slots EXCEPT ![i] = NoRequest]
        /\ c.bad_words = [b.bad_words EXCEPT ![i] = NoRequest]
        /\ c.outputs = RemoveAt(b.outputs, DenseIndex(b, i) + 1)
    BY DEF RemoveRequest, OutputsWithout, Batches
  <2> QED BY <1>1, <1>3, <1>4, <2>1
<1> HIDE DEF c, i
<1>6. /\ c.slots \in [0 .. n - 1 -> Holders] /\ c.slots[i] = NoRequest
      /\ \A j \in 0 .. n - 1 : j # i => c.slots[j] = b.slots[j]
  BY <1>1, <1>3, <1>4, <1>5
<1>7. /\ Slots(c) = 0 .. n - 1
      /\ Rows(b) \in Seq(Requests) /\ Len(Rows(b)) = NumReqs(b)
      /\ Rows(c) \in Seq(Requests) /\ Len(Rows(c)) = NumReqs(c)
  BY <1>1, <1>6, RowsType
<1>8. /\ Occupied(b) = Occupied(c) \cup {i} /\ i \notin Occupied(c)
      /\ NumReqs(c) \in 0 .. n - 1 /\ NumReqs(b) = NumReqs(c) + 1
      /\ d \in 0 .. NumReqs(c)
      /\ \A k \in 1 .. NumReqs(c) + 1 :
           Rows(b)[k] = IF k <= d THEN Rows(c)[k] ELSE IF k = d + 1 THEN r ELSE Rows(c)[k - 1]
  <2>1. /\ Occupied(b) = Occupied(c) \cup {i} /\ i \notin Occupied(c)
        /\ NumReqs(c) \in 0 .. n - 1 /\ NumReqs(b) = NumReqs(c) + 1
        /\ DenseIndex(b, i) = DenseIndex(c, i)
        /\ DenseIndex(c, i) \in 0 .. NumReqs(c) /\ RowBetween(c, b, DenseIndex(c, i), r)
    <3>1. FillsSlot(c, b, i, r, n)
      BY <1>2, <1>3, <1>6, <1>7 DEF FillsSlot
    <3> QED BY <1>3, <3>1, OneMoreSlot
  <2> QED BY <2>1 DEF RowBetween
<1> HIDE DEF d
<1>9. OneSlotEach(c) /\ Members(c) = Members(b) \ {r}
  <2>1. Occupied(c) \subseteq 0 .. n - 1
    BY <1>7 DEF Occupied
  <2>2. \A j \in Occupied(c) : c.slots[j] = b.slots[j] /\ j # i /\ j \in Occupied(b)
    BY <1>6, <1>8, <2>1
  <2>3. OneSlotEach(c)
    BY <2>2 DEF OneSlotEach
  <2>4. \A j \in Occupied(b) : j # i <=> b.slots[j] # r
    BY <1>3, <1>8 DEF OneSlotEach
  <2>5. Members(c) = {b.slots[j] : j \in Occupied(c)}
    BY <2>2 DEF Members
  <2>6. \A x : x \in Members(c) <=> x \in Members(b) /\ x # r
    BY <1>8, <2>2, <2>4, <2>5 DEF Members
  <2> QED BY <2>3, <2>6
<1>10. \A k \in 1 .. NumReqs(c) :
         Rows(c)[k] = IF k <= d THEN Rows(b)[k] ELSE Rows(b)[k + 1]
  <2> SUFFICES ASSUME NEW k \in 1 .. NumReqs(c)
               PROVE  Rows(c)[k] = IF k <= d THEN Rows(b)[k] ELSE Rows(b)[k + 1]
    OBVIOUS
  <2>1. /\ k \in 1 .. NumReqs(c) + 1 /\ k + 1 \in 1 .. NumReqs(c) + 1 /\ k + 1 - 1 = k
        /\ k <= d \/ (~(k + 1 <= d) /\ k + 1 # d + 1 /\ ~(k <= d))
    BY <1>8
  <2>2. k <= d => Rows(b)[k] = Rows(c)[k]
    BY <1>8, <2>1
  <2>3. ~(k <= d) => Rows(b)[k + 1] = Rows(c)[k]
    <3> DEFINE l == k + 1
    <3>1. l \in 1 .. NumReqs(c) + 1 /\ l - 1 = k
      BY <2>1
    <3>2. ~(k <= d) => ~(l <= d) /\ l # d + 1
      BY <2>1
    <3> HIDE DEF l
    <3>3. ~(k <= d) => Rows(b)[l] = Rows(c)[k]
      BY <1>8, <3>1, <3>2
    <3> QED BY <3>3 DEF l
  <2> QED BY <2>2, <2>3
<1>11. c.outputs = Rows(c)
  <2> DEFINE p == d + 1
             s == Rows(b)
  <2>1. c.outputs = RemoveAt(s, p)
    BY <1>5
  <2>2. p \in 1 .. Len(s) /\ s \in Seq(Requests) /\ Len(s) - 1 = NumReqs(c)
    BY <1>7, <1>8
  <2>3. /\ RemoveAt(s, p) \in Seq(Requests) /\ Len(RemoveAt(s, p)) = Len(s) - 1
        /\ \A k \in 1 .. Len(s) - 1 : RemoveAt(s, p)[k] = IF k < p THEN s[k] ELSE s[k + 1]
    <3> HIDE DEF p, s
    <3> QED BY <2>2, RemoveAtElements
  <2>4. \A k \in 1 .. NumReqs(c) : k < p <=> k <= d
    BY <1>8
  <2>5. /\ c.outputs \in Seq(Requests) /\ Len(c.outputs) = Len(Rows(c))
        /\ \A k \in 1 .. Len(c.outputs) : c.outputs[k] = Rows(c)[k]
    <3> HIDE DEF p
    <3> QED BY <1>7, <1>10, <2>1, <2>2, <2>3, <2>4
  <2> QED BY <1>7, <2>5, EqualSequences
<1>12. /\ NumReqs(b) \in 1 .. n /\ d \in 0 .. NumReqs(b) - 1 /\ NumReqs(c) = NumReqs(b) - 1
       /\ \A k \in 1 .. NumReqs(b) - 1 : k \in 1 .. NumReqs(c)
  BY <1>8
<1> QED BY <1>5, <1>6, <1>9, <1>10, <1>11, <1>12 DEF c, i, d

\* The batch after remove_request.
LEMMA LeftRecord ==
  ASSUME NEW n \in Nat, NEW w \in Nat, NEW b \in Batches(n, w), b.update = NoUpdate,
         NEW r \in Members(b), NEW d, d = DenseIndex(b, SlotOf(b, r)),
         NumReqs(b) \in 1 .. n, d \in 0 .. NumReqs(b) - 1
  PROVE  LET c == RemoveRequest(b, r)
             e == IF NumReqs(b) = n THEN n - 1 ELSE NumReqs(b)
         IN /\ c = [slots |-> c.slots, bad_words |-> c.bad_words, outputs |-> c.outputs,
                    update |-> c.update, rows |-> c.rows, procs |-> c.procs]
            /\ c.update = [added |-> <<>>, removed |-> <<d>>, moved |-> Upwards(d, e)]
            /\ c.update # NoUpdate
            /\ c.rows = b.rows /\ c.procs = b.procs
<1> DEFINE m == NumReqs(b)
           e == IF m = n THEN n - 1 ELSE m
           moves == Upwards(d, e)
           c == RemoveRequest(b, r)
           i == SlotOf(b, r)
<1>1. /\ b.update.added = <<>> /\ b.update.removed = <<>> /\ b.update.moved = <<>>
      /\ b.update = [added |-> <<>>, removed |-> <<>>, moved |-> <<>>]
  BY DEF NoUpdate
<1>2. Min({m, Cardinality(Slots(b)) - 1}) = e
  <2>1. Cardinality(Slots(b)) = n
    <3>1. Slots(b) = 0 .. n - 1
      BY DEF Slots, Batches
    <3> QED BY <3>1, SizeOfPositions
  <2>2. {m, n - 1} \subseteq Nat /\ {m, n - 1} # {}
    OBVIOUS
  <2>3. Min({m, n - 1}) \in {m, n - 1} /\ \A x \in {m, n - 1} : Min({m, n - 1}) <= x
    BY <2>2, MinIsLeast
  <2> QED BY <2>1, <2>3
<1>3. <<>> \o moves = moves
  <2>1. e - d \in Nat
    OBVIOUS
  <2>2. moves \in [1 .. e - d -> Int \X Int]
    BY DEF Upwards
  <2>3. moves \in Seq(Int \X Int)
    BY <2>1, <2>2, SMTT(60)
  <2> QED BY <2>3, ConcatEmptySeq
<1>4. RemovalMoves(b, d) = moves
  BY <1>2 DEF RemovalMoves, Upwards
<1> HIDE DEF moves
<1>5. c = [b EXCEPT
             !.slots[i]       = NoRequest,
             !.bad_words[i]   = NoRequest,
             !.outputs        = OutputsWithout(b, i),
             !.update.removed = Append(@, d),
             !.update.moved   = @ \o moves]
  BY <1>4 DEF RemoveRequest
<1>6. /\ c = [slots |-> c.slots, bad_words |-> c.bad_words, outputs |-> c.outputs,
              update |-> c.update, rows |-> c.rows, procs |-> c.procs]
      /\ c.rows = b.rows /\ c.procs = b.procs
      /\ c.update = [b.update EXCEPT !.removed = Append(@, d), !.moved = @ \o moves]
  BY <1>5 DEF Batches
<1>7. c.update = [added |-> <<>>, removed |-> <<d>>, moved |-> moves]
  <2> DEFINE u == [added |-> <<>>, removed |-> <<>>, moved |-> <<>>]
  <2>1. Append(<<>>, d) = <<d>>
    OBVIOUS
  <2>2. c.update = [u EXCEPT !.removed = <<d>>, !.moved = moves]
    <3>1. u.removed = <<>> /\ u.moved = <<>> /\ b.update = u
      BY <1>1
    <3>2. c.update = [u EXCEPT !.removed = Append(u.removed, d), !.moved = u.moved \o moves]
      BY <1>6, <3>1
    <3> HIDE DEF u
    <3> QED BY <1>3, <2>1, <3>1, <3>2
  <2> HIDE DEF c
  <2> QED BY <2>2
<1>8. c.update # NoUpdate
  <2>1. c.update.removed = <<d>>
    BY <1>7
  <2>2. NoUpdate.removed = <<>>
    BY DEF NoUpdate
  <2>3. <<d>> # <<>>
    OBVIOUS
  <2> QED BY <2>1, <2>2, <2>3
<1> QED BY <1>6, <1>7, <1>8 DEF moves

(***************************************************************************)
(* The processor of a request that leaves is freed and swapped up behind   *)
(* the rows that stay.                                                     *)
(***************************************************************************)
LEMMA LeftProcessors ==
  ASSUME NEW b \in AlignedBatches, NEW n, n = NumReqs(b), n \in 1 .. MaxNumSeqs,
         NEW d \in 0 .. n - 1, NEW e, e = (IF n = MaxNumSeqs THEN MaxNumSeqs - 1 ELSE n),
         NEW rows, NEW update,
         update = [added |-> <<>>, removed |-> <<d>>, moved |-> Upwards(d, e)],
         \A k \in 1 .. n - 1 : rows[k] = IF k <= d THEN Rows(b)[k] ELSE Rows(b)[k + 1]
  PROVE  /\ UpdateState(b.procs, update) \in [0 .. MaxNumSeqs - 1 -> Processors]
         /\ \A i \in 0 .. MaxNumSeqs - 1 :
              UpdateState(b.procs, update)[i].req =
                IF i < n - 1 THEN rows[i + 1] ELSE NoRequest
<1> DEFINE D == 0 .. MaxNumSeqs - 1
           free == [req |-> NoRequest, fresh |-> TRUE]
           p == [b.procs EXCEPT ![d] = free]
           moved == WithMoved(p, Upwards(d, e))
           after == UpdateState(b.procs, update)
<1>1. /\ MaxNumSeqs \in Nat \ {0} /\ b.procs \in [D -> Processors]
      /\ e \in 0 .. MaxNumSeqs - 1 /\ d \in 0 .. e /\ d \in D
      /\ \A i \in D : b.procs[i].req = IF i < n THEN Rows(b)[i + 1] ELSE NoRequest
  <2>1. MaxNumSeqs \in Nat \ {0} /\ b.procs \in [D -> Processors]
    BY AlignedParts
  <2>2. ServedInOrder(b)
    BY AlignedParts
  <2> QED BY <2>1, <2>2 DEF ServedInOrder
<1>2. free \in Processors /\ free.req = NoRequest
  BY DEF Processors, Holders
<1>3. \A i \in D : /\ i \in Int /\ n \in Int /\ d \in Int /\ e \in Int /\ d <= n - 1
                   /\ n - 1 <= e /\ (e < i => n <= i) /\ (i < e => i + 1 \in D)
  BY <1>1
<1> HIDE DEF D, free
<1>4. /\ p \in [D -> Processors] /\ p[d] = free
      /\ \A i \in D : i # d => p[i] = b.procs[i]
  BY <1>1, <1>2
<1>5. InPlace(b.procs, update) = moved
  <2>1. WithAdded(b.procs, <<>>) = b.procs
    BY AddedFold
  <2>2. WithRemoved(b.procs, <<d>>) = p
    BY RemovedFold DEF Serve, free
  <2>3. update.added = <<>> /\ update.removed = <<d>> /\ update.moved = Upwards(d, e)
    OBVIOUS
  <2> HIDE DEF p
  <2> QED BY <2>1, <2>2, <2>3 DEF InPlace
<1> HIDE DEF p
<1>6. /\ moved \in [D -> Processors] /\ moved[e] = p[d]
      /\ \A j \in D : d <= j /\ j < e => moved[j] = p[j + 1]
      /\ \A j \in D : j < d \/ e < j => moved[j] = p[j]
  <2>1. MaxNumSeqs \in Nat /\ e \in 0 .. MaxNumSeqs - 1 /\ d \in 0 .. e
    BY <1>1
  <2>2. p \in [0 .. MaxNumSeqs - 1 -> Processors]
    BY <1>4 DEF D
  <2>3. moved \in [D -> Processors] /\ IsMovedUp(moved, p, d, e, D)
    BY <2>1, <2>2, SwappedUp DEF D
  <2> HIDE DEF moved
  <2> QED BY <2>3 DEF IsMovedUp
<1> HIDE DEF moved
<1>7. after \in [D -> Processors] /\ \A i \in D : after[i].req = moved[i].req
  <2>1. InPlace(b.procs, update) \in [D -> Processors] /\ b.procs \in [D -> Processors]
    BY ONLY <1>1, <1>5, <1>6
  <2> HIDE DEF after
  <2>2. /\ UpdateState(b.procs, update) \in [D -> Processors]
        /\ \A i \in D : UpdateState(b.procs, update)[i].req = InPlace(b.procs, update)[i].req
    BY ONLY <2>1, UpdatedProcessors
  <2> QED BY ONLY <1>5, <2>2 DEF after
<1>8. ASSUME NEW i \in D
      PROVE  moved[i].req = IF i < n - 1 THEN rows[i + 1] ELSE NoRequest
  <2>1. /\ i \in Int /\ n \in Int /\ d \in Int /\ e \in Int /\ d <= n - 1 /\ 0 <= i
        /\ n - 1 <= e /\ (e < i => n <= i) /\ (i < e => i + 1 \in D)
    BY <1>1, <1>3 DEF D
  <2>2. CASE i = e
    <3>1. ~(i < n - 1)
      BY <2>1, <2>2
    <3> QED BY <1>2, <1>4, <1>6, <2>2, <3>1
  <2>3. CASE i < d
    <3>1. i + 1 \in 1 .. n - 1 /\ i + 1 <= d /\ i < n - 1 /\ i # d /\ i < n
      BY <2>1, <2>3
    <3>2. moved[i] = b.procs[i]
      BY <1>4, <1>6, <2>3, <3>1
    <3>3. rows[i + 1] = Rows(b)[i + 1]
      BY <3>1
    <3> QED BY <1>1, <3>1, <3>2, <3>3
  <2>4. CASE d <= i /\ i < e
    <3> DEFINE k == i + 1
    <3>1. k \in D /\ k # d /\ (k < n <=> i < n - 1) /\ ~(k <= d) /\ (i < n - 1 => k \in 1 .. n - 1)
      BY <2>1, <2>4
    <3>2. moved[i] = p[k]
      BY <1>6, <2>4
    <3> HIDE DEF k
    <3>3. moved[i] = b.procs[k]
      BY <1>4, <3>1, <3>2
    <3>4. b.procs[k].req = IF i < n - 1 THEN Rows(b)[k + 1] ELSE NoRequest
      BY <1>1, <3>1
    <3>5. i < n - 1 => rows[k] = Rows(b)[k + 1]
      BY <3>1
    <3> QED BY <3>3, <3>4, <3>5 DEF k
  <2>5. CASE e < i
    <3>1. ~(i < n - 1) /\ i # d /\ ~(i < n)
      BY <2>1, <2>5
    <3> QED BY <1>1, <1>4, <1>6, <2>5, <3>1
  <2> QED BY <2>1, <2>2, <2>3, <2>4, <2>5
<1> QED BY <1>7, <1>8, ZenonT(60) DEF D

(***************************************************************************)
(* A refresh with nothing to report leaves requests and rows as they are.  *)
(***************************************************************************)
LEMMA RefreshKeepsAligned ==
  ASSUME NEW b \in AlignedBatches
  PROVE  RefreshMetadata(b) \in AlignedBatches /\ Members(RefreshMetadata(b)) = Members(b)
<1> DEFINE D == 0 .. MaxNumSeqs - 1
           c == RefreshMetadata(b)
           after == UpdateState(b.procs, b.update)
<1>1. /\ MaxNumSeqs \in Nat \ {0} /\ b \in Batches(MaxNumSeqs, MaxNumSeqs)
      /\ b.update = NoUpdate /\ b.procs \in [D -> Processors]
      /\ b.slots \in [D -> Holders] /\ b.bad_words \in [D -> Holders]
      /\ OneSlotEach(b) /\ b.outputs = Rows(b) /\ b.rows = Rows(b) /\ ServedInOrder(b)
  BY AlignedParts
<1>2. WithMoved(b.procs, <<>>) = b.procs
  <2>1. SwapsWithin(<<>>, 0, {b.procs})
    <3>1. DOMAIN <<>> = 1 .. 0 /\ \A k \in 1 .. 0 : FALSE
      OBVIOUS
    <3> QED BY <3>1 DEF SwapsWithin
  <2>2. b.procs \in {b.procs} /\ 0 \in Nat
    OBVIOUS
  <2>3. \E g \in [0 .. 0 -> {b.procs}] : SwapChain(g, 0, b.procs, <<>>)
    BY <2>1, <2>2, SwapFold
  <2> QED BY <2>3 DEF SwapChain
<1>3. InPlace(b.procs, b.update) = b.procs
  <2>1. b.update.added = <<>> /\ b.update.removed = <<>> /\ b.update.moved = <<>>
    BY <1>1 DEF NoUpdate
  <2>2. WithAdded(b.procs, <<>>) = b.procs
    BY AddedFold
  <2>3. WithRemoved(b.procs, <<>>) = b.procs
    BY RemovedFold
  <2> QED BY <1>2, <2>1, <2>2, <2>3 DEF InPlace
<1> HIDE DEF D
<1>4. after \in [D -> Processors] /\ \A i \in D : after[i].req = b.procs[i].req
  <2>1. InPlace(b.procs, b.update) \in [D -> Processors]
    BY <1>1, <1>3
  <2> HIDE DEF after
  <2>2. /\ UpdateState(b.procs, b.update) \in [D -> Processors]
        /\ \A i \in D : UpdateState(b.procs, b.update)[i].req = InPlace(b.procs, b.update)[i].req
    BY ONLY <1>1, <2>1, UpdatedProcessors
  <2> QED BY ONLY <1>3, <2>2 DEF after
<1>5. c = [slots |-> b.slots, bad_words |-> b.bad_words, outputs |-> b.outputs,
           update |-> NoUpdate, rows |-> Rows(b), procs |-> after]
  <2>1. DOMAIN b.procs # {}
    <3>1. DOMAIN b.procs = D
      BY <1>1
    <3>2. 0 \in D
      BY <1>1 DEF D
    <3> QED BY <3>1, <3>2
  <2>2. Metadata(b) = Rows(b)
    BY <1>1 DEF Metadata
  <2>3. c = [b EXCEPT !.procs = after, !.rows = Rows(b), !.update = NoUpdate]
    BY <2>1, <2>2 DEF RefreshMetadata
  <2> HIDE DEF after, c
  <2> QED BY <1>1, <2>3 DEF Batches
<1> HIDE DEF after, c
<1>6. \A i \in D : after[i].req = IF i < NumReqs(b) THEN Rows(b)[i + 1] ELSE NoRequest
  <2>1. \A i \in D : b.procs[i].req = IF i < NumReqs(b) THEN Rows(b)[i + 1] ELSE NoRequest
    BY <1>1 DEF ServedInOrder, D
  <2> QED BY <1>4, <2>1
<1>7. c \in AlignedBatches /\ Members(c) = Members(b)
  BY <1>1, <1>4, <1>5, <1>6, RefreshedAligned DEF D
<1> QED BY <1>7 DEF c

(***************************************************************************)
(* A request that leaves, or was not there.                                *)
(***************************************************************************)
LEMMA RemainKeepsAligned ==
  ASSUME NEW b \in AlignedBatches, NEW r
  PROVE  Remaining(b, r) \in AlignedBatches /\ Members(Remaining(b, r)) = Members(b) \ {r}
<1>1. CASE r \notin Members(b)
  <2>1. Remaining(b, r) = RefreshMetadata(b)
    BY <1>1 DEF Remaining, RemoveRequest
  <2>2. Members(b) \ {r} = Members(b)
    BY <1>1
  <2> QED BY <2>1, <2>2, RefreshKeepsAligned
<1>2. CASE r \in Members(b)
  <2> DEFINE left == RemoveRequest(b, r)
             c == RefreshMetadata(left)
             n == NumReqs(b)
             d == DenseIndex(b, SlotOf(b, r))
             e == IF n = MaxNumSeqs THEN MaxNumSeqs - 1 ELSE n
             after == UpdateState(b.procs, left.update)
  <2>1. /\ MaxNumSeqs \in Nat \ {0} /\ b \in Batches(MaxNumSeqs, MaxNumSeqs)
        /\ b.update = NoUpdate /\ b.procs \in [0 .. MaxNumSeqs - 1 -> Processors]
        /\ OneSlotEach(b) /\ b.outputs = Rows(b)
    BY AlignedParts
  <2>2. /\ n \in 1 .. MaxNumSeqs /\ d \in 0 .. n - 1
        /\ left.slots \in [0 .. MaxNumSeqs - 1 -> Holders]
        /\ left.bad_words \in [0 .. MaxNumSeqs - 1 -> Holders]
        /\ OneSlotEach(left) /\ Members(left) = Members(b) \ {r}
        /\ NumReqs(left) = n - 1
        /\ \A k \in 1 .. n - 1 :
             Rows(left)[k] = IF k <= d THEN Rows(b)[k] ELSE Rows(b)[k + 1]
        /\ left.outputs = Rows(left)
    <3>1. MaxNumSeqs \in Nat
      BY <2>1
    <3> QED BY <1>2, <2>1, <3>1, LeftRows
  <2>3. /\ left = [slots |-> left.slots, bad_words |-> left.bad_words,
                   outputs |-> left.outputs, update |-> left.update,
                   rows |-> left.rows, procs |-> left.procs]
        /\ left.update = [added |-> <<>>, removed |-> <<d>>, moved |-> Upwards(d, e)]
        /\ left.update # NoUpdate /\ left.procs = b.procs
    <3>1. MaxNumSeqs \in Nat
      BY <2>1
    <3> QED BY <1>2, <2>1, <2>2, <3>1, LeftRecord
  <2> HIDE DEF left, n, d
  <2>4. c = [slots |-> left.slots, bad_words |-> left.bad_words, outputs |-> left.outputs,
             update |-> NoUpdate, rows |-> Rows(left), procs |-> after]
    <3>1. MaxNumSeqs \in Nat /\ MaxNumSeqs # 0
      BY <2>1
    <3>2. left.procs \in [0 .. MaxNumSeqs - 1 -> Processors]
      BY <2>1, <2>3
    <3>3. RefreshMetadata(left) =
            [slots |-> left.slots, bad_words |-> left.bad_words, outputs |-> left.outputs,
             update |-> NoUpdate, rows |-> Rows(left),
             procs |-> IF MaxNumSeqs = 0 THEN left.procs
                       ELSE UpdateState(left.procs, left.update)]
      BY <2>3, <3>1, <3>2, RefreshedRecord
    <3> QED BY <2>3, <3>1, <3>3
  <2>5. /\ after \in [0 .. MaxNumSeqs - 1 -> Processors]
        /\ \A k \in 0 .. MaxNumSeqs - 1 :
             after[k].req = IF k < n - 1 THEN Rows(left)[k + 1] ELSE NoRequest
    <3>1. n = NumReqs(b) /\ e = (IF n = MaxNumSeqs THEN MaxNumSeqs - 1 ELSE n)
      BY DEF n
    <3> HIDE DEF e
    <3>2. \A k \in 1 .. n - 1 :
            Rows(left)[k] = IF k <= d THEN Rows(b)[k] ELSE Rows(b)[k + 1]
      BY <2>2
    <3> QED BY <2>2, <2>3, <3>1, <3>2, LeftProcessors, SMTT(60)
  <2> HIDE DEF after, c
  <2>6. c \in AlignedBatches /\ Members(c) = Members(left)
    <3>1. \A k \in 0 .. MaxNumSeqs - 1 :
            after[k].req = IF k < NumReqs(left) THEN Rows(left)[k + 1] ELSE NoRequest
      BY <2>2, <2>5
    <3> QED BY <2>2, <2>4, <2>5, <3>1, RefreshedAligned
  <2>7. Remaining(b, r) = c
    BY DEF Remaining, c, left
  <2> QED BY <2>2, <2>6, <2>7
<1> QED BY <1>1, <1>2

(***************************************************************************)
(* _update_batch takes out the finished requests, in whatever order.       *)
(***************************************************************************)
LEMMA UpdateKeepsAligned ==
  ASSUME input_batch \in AlignedBatches, NEW n \in Nat, NEW order, DOMAIN order = 1 .. n
  PROVE  /\ UpdateBatch(order) \in AlignedBatches
         /\ Members(UpdateBatch(order)) = Members(input_batch) \ ToSet(order)
<1>1. CASE order = <<>>
  <2>1. ToSet(order) = {}
    BY <1>1 DEF ToSet
  <2>2. UpdateBatch(order) = RefreshMetadata(input_batch)
    BY <1>1 DEF UpdateBatch
  <2> QED BY <2>1, <2>2, RefreshKeepsAligned
<1>2. CASE order # <<>>
  <2> DEFINE Gone(k) == {order[i] : i \in 1 .. k}
             Good(g, k) == Members(g[k]) = Members(input_batch) \ Gone(k)
  <2>1. RemovesWithin(order, n, AlignedBatches)
    BY RemainKeepsAligned DEF RemovesWithin
  <2>2. PICK g \in [0 .. n -> AlignedBatches] : RemovalChain(g, n, input_batch, order)
    BY <2>1, RemovalFold
  <2>3. /\ g[0] = input_batch
        /\ \A k \in 1 .. n : g[k] = Remaining(g[k - 1], order[k])
        /\ UpdateBatch(order) = g[n]
    BY <1>2, <2>2 DEF RemovalChain, UpdateBatch
  <2>4. \A k \in 0 .. n : Good(g, k)
    <3> DEFINE T == {k \in 0 .. n : Good(g, k)}
    <3>1. 0 \in T
      <4>1. Gone(0) = {}
        OBVIOUS
      <4> QED BY <2>3, <4>1
    <3>2. ASSUME NEW k \in 1 .. n, k - 1 \in T
          PROVE  k \in T
      <4>1. Members(g[k - 1]) = Members(input_batch) \ Gone(k - 1)
        BY <3>2
      <4>2. g[k - 1] \in AlignedBatches
        <5>1. k - 1 \in 0 .. n
          OBVIOUS
        <5> QED BY <5>1, <2>2
      <4>3. Members(g[k]) = Members(g[k - 1]) \ {order[k]}
        BY <2>3, <4>2, RemainKeepsAligned
      <4>4. Gone(k) = Gone(k - 1) \cup {order[k]}
        <5>1. 1 .. k = (1 .. k - 1) \cup {k}
          OBVIOUS
        <5> QED BY <5>1
      <4>5. k \in 0 .. n
        OBVIOUS
      <4> HIDE DEF Gone
      <4> QED BY <4>1, <4>3, <4>4, <4>5
    <3> HIDE DEF T
    <3>3. 0 .. n \subseteq T
      BY <3>1, <3>2, Steps
    <3> QED BY <3>3 DEF T
  <2>5. Gone(n) = ToSet(order)
    BY DEF ToSet
  <2>6. n \in 0 .. n /\ g[n] \in AlignedBatches
    BY <2>2
  <2> QED BY <2>3, <2>4, <2>5, <2>6
<1> QED BY <1>1, <1>2

(***************************************************************************)
(* The prefill batch with its one request.                                 *)
(***************************************************************************)
HoldsOnly(b, r) ==
  /\ b.slots[0] = r
  /\ b.outputs = <<r>>
  /\ b.update # NoUpdate

\* A batch of one slot has one row.
LEMMA RowOfOne ==
  ASSUME NEW b, b.slots \in [0 .. 0 -> Holders], NEW r \in Requests, b.slots[0] = r
  PROVE  Rows(b) = <<r>> /\ NumReqs(b) = 1
<1>1. r # NoRequest
  BY BatchAssumption
<1>2. Slots(b) = 0 .. 1 - 1 /\ Occupied(b) = {0}
  BY <1>1 DEF Slots, Occupied
<1>3. NumReqs(b) = 1
  BY <1>2, FS_Singleton DEF NumReqs
<1>4. Len(Rows(b)) = 1 /\ Rows(b)[1] = r
  <2>1. 1 \in Nat /\ 1 \in 1 .. NumReqs(b)
    BY <1>3
  <2>2. \E i \in Occupied(b) : Rows(b)[1] = b.slots[i]
    BY <1>2, <2>1, RowOfSlot
  <2>3. Len(Rows(b)) = NumReqs(b)
    BY <1>2, <2>1, RowOfSlot
  <2> QED BY <1>2, <1>3, <2>2, <2>3
<1>5. Rows(b) \in Seq(Requests)
  <2>1. 1 \in Nat /\ b.slots \in [0 .. 1 - 1 -> Holders]
    OBVIOUS
  <2> QED BY <2>1, RowsType
<1>6. <<r>> \in Seq(Requests) /\ Len(<<r>>) = 1 /\ <<r>>[1] = r
  OBVIOUS
<1>7. \A k \in 1 .. Len(Rows(b)) : Rows(b)[k] = <<r>>[k]
  BY <1>4, <1>6
<1>8. Rows(b) = <<r>>
  BY <1>4, <1>5, <1>6, <1>7, EqualSequences
<1> QED BY <1>3, <1>8

\* A new request in the prefill batch, which is cleared before.
LEMMA PrefillJoins ==
  ASSUME NEW b \in Batches(1, 0), NEW r \in Requests
  PROVE  LET c == AddRequest(ClearRequests(b), r)
         IN c \in Batches(1, 0) /\ HoldsOnly(c, r)
<1> DEFINE empty == ClearRequests(b)
           c == AddRequest(empty, r)
           i == AvailableIndex(empty)
<1>1. /\ b.slots \in [0 .. 0 -> Holders] /\ b.bad_words \in [0 .. 0 -> Holders]
      /\ b.rows \in Seq(Requests) /\ b.procs \in [0 .. 0 - 1 -> Processors]
  BY DEF Batches, Processors
<1>2. /\ empty = [slots |-> [k \in 0 .. 0 |-> NoRequest], bad_words |-> b.bad_words,
                  outputs |-> <<>>, update |-> NoUpdate, rows |-> b.rows, procs |-> b.procs]
  <2>1. empty = [b EXCEPT !.slots = [k \in 0 .. 0 |-> NoRequest],
                          !.outputs = <<>>, !.update = NoUpdate]
    <3>1. Slots(b) = 0 .. 0
      BY <1>1 DEF Slots
    <3> QED BY <3>1 DEF ClearRequests
  <2> HIDE DEF empty
  <2> QED BY <2>1 DEF Batches
<1>3. empty \in Batches(1, 0)
  <2>1. [k \in 0 .. 0 |-> NoRequest] \in [0 .. 1 - 1 -> Holders]
    BY DEF Holders
  <2>2. NoUpdate \in [added : Seq(Nat \X Requests), removed : Seq(Nat),
                      moved : Seq(Nat \X Nat)]
    BY DEF NoUpdate
  <2>3. <<>> \in Seq(Requests)
    OBVIOUS
  <2>4. b.bad_words \in [0 .. 1 - 1 -> Holders] /\ b.rows \in Seq(Requests)
        /\ b.procs \in [0 .. 0 - 1 -> [req : Holders, fresh : BOOLEAN]]
    BY <1>1 DEF Processors
  <2> HIDE DEF empty
  <2> QED BY <1>2, <2>1, <2>2, <2>3, <2>4 DEF Batches
<1>4. /\ empty.update = NoUpdate /\ empty.outputs = <<>>
      /\ empty.slots = [k \in 0 .. 0 |-> NoRequest]
      /\ empty.rows = b.rows /\ empty.procs = b.procs
  BY <1>2
<1> HIDE DEF empty
<1>5. /\ Slots(empty) = 0 .. 0 /\ Occupied(empty) = {} /\ Members(empty) = {}
      /\ NumReqs(empty) = 0 /\ OneSlotEach(empty) /\ empty.outputs = Rows(empty)
  <2>1. Slots(empty) = 0 .. 0 /\ Occupied(empty) = {}
    BY <1>4 DEF Slots, Occupied
  <2>2. Members(empty) = {} /\ OneSlotEach(empty)
    BY <2>1 DEF Members, OneSlotEach
  <2>3. NumReqs(empty) = 0
    BY <2>1, FS_EmptySet DEF NumReqs
  <2>4. Rows(empty) = <<>>
    <3>1. 1 \in Nat /\ empty.slots \in [0 .. 1 - 1 -> Holders]
      BY <1>4 DEF Holders
    <3>2. Rows(empty) \in Seq(Requests) /\ Len(Rows(empty)) = 0
      BY <2>3, <3>1, RowsType
    <3> QED BY <3>2
  <2> QED BY <1>4, <2>1, <2>2, <2>3, <2>4
<1>6. /\ i \in 0 .. 0 /\ DenseIndex(empty, i) = i
      /\ c.slots \in [0 .. 0 -> Holders] /\ c.bad_words \in [0 .. 0 -> Holders]
      /\ c.outputs = Rows(c)
  <2>1. 1 \in Nat /\ 0 \in Nat /\ NumReqs(empty) < 1 /\ r \notin Members(empty)
    BY <1>5
  <2>2. /\ i \in 0 .. NumReqs(empty) /\ DenseIndex(empty, i) = i
        /\ c.slots \in [0 .. 1 - 1 -> Holders] /\ c.bad_words \in [0 .. 1 - 1 -> Holders]
        /\ c.outputs = Rows(c)
    <3> DEFINE n == 1
               w == 0
    <3>1. /\ n \in Nat /\ w \in Nat /\ empty \in Batches(n, w) /\ NumReqs(empty) < n
      BY <1>3, <2>1
    <3>4. n - 1 = 1 - 1
      OBVIOUS
    <3> HIDE DEF n, w, c, i
    <3>2. /\ r \in Requests /\ OneSlotEach(empty) /\ empty.outputs = Rows(empty)
          /\ r \notin Members(empty)
      BY <1>5, <2>1
    <3>3. /\ i \in 0 .. NumReqs(empty) /\ DenseIndex(empty, i) = i
          /\ c.slots \in [0 .. n - 1 -> Holders] /\ c.bad_words \in [0 .. n - 1 -> Holders]
          /\ c.outputs = Rows(c)
      BY ONLY <3>1, <3>2, JoinedRows DEF c, i
    <3> QED BY <3>3, <3>4
  <2> QED BY <1>5, <2>2
<1>7. /\ c = [slots |-> c.slots, bad_words |-> c.bad_words, outputs |-> c.outputs,
              update |-> c.update, rows |-> c.rows, procs |-> c.procs]
      /\ c.update = [added |-> <<<<0, r>>>>, removed |-> <<>>, moved |-> Downwards(0, 0)]
      /\ c.update # NoUpdate
      /\ c.rows = b.rows /\ c.procs = b.procs
  <2>1. /\ 1 \in Nat /\ 0 \in Nat /\ NumReqs(empty) = 0 /\ NumReqs(empty) \in Nat
        /\ DenseIndex(empty, i) = 0 /\ DenseIndex(empty, i) \in 0 .. NumReqs(empty)
    BY <1>5, <1>6
  <2>2. /\ c = [slots |-> c.slots, bad_words |-> c.bad_words, outputs |-> c.outputs,
                update |-> c.update, rows |-> c.rows, procs |-> c.procs]
        /\ c.update = [added   |-> <<<<NumReqs(empty), r>>>>,
                       removed |-> <<>>,
                       moved   |-> Downwards(NumReqs(empty), DenseIndex(empty, i))]
        /\ c.update # NoUpdate
        /\ c.rows = empty.rows /\ c.procs = empty.procs
    BY <1>3, <1>4, <2>1, JoinedRecord
  <2> QED BY <1>4, <2>1, <2>2
<1>8. c.slots[0] = r
  <2>1. i = 0 /\ empty.slots \in [0 .. 0 -> Holders]
    BY <1>4, <1>6 DEF Holders
  <2>2. empty \in [slots : [0 .. 0 -> Holders], bad_words : [0 .. 0 -> Holders],
                   outputs : Seq(Requests), update : {empty.update},
                   rows : Seq(Requests), procs : {empty.procs}]
    BY <1>3 DEF Batches
  <2>3. c.slots = [empty.slots EXCEPT ![i] = r]
    BY <2>2 DEF AddRequest
  <2> QED BY <2>1, <2>3
<1> HIDE DEF c
<1>9. Rows(c) = <<r>>
  BY <1>6, <1>8, RowOfOne
<1>10. c \in Batches(1, 0)
  <2>1. Downwards(0, 0) = <<>>
    BY DEF Downwards
  <2>2. c.update \in [added : Seq(Nat \X Requests), removed : Seq(Nat),
                      moved : Seq(Nat \X Nat)]
    <3>1. <<<<0, r>>>> \in Seq(Nat \X Requests)
      OBVIOUS
    <3>2. <<>> \in Seq(Nat) /\ <<>> \in Seq(Nat \X Nat)
      OBVIOUS
    <3>3. c.update = [added |-> <<<<0, r>>>>, removed |-> <<>>, moved |-> <<>>]
      BY <1>7, <2>1
    <3> QED BY ONLY <3>1, <3>2, <3>3
  <2>3. c.outputs \in Seq(Requests)
    BY <1>6, <1>9
  <2>4. c.procs \in [0 .. 0 - 1 -> [req : Holders, fresh : BOOLEAN]] /\ c.rows \in Seq(Requests)
    BY <1>1, <1>7 DEF Processors
  <2>5. c.slots \in [0 .. 1 - 1 -> Holders] /\ c.bad_words \in [0 .. 1 - 1 -> Holders]
    BY <1>6
  <2>6. c = [slots |-> c.slots, bad_words |-> c.bad_words, outputs |-> c.outputs,
             update |-> c.update, rows |-> c.rows, procs |-> c.procs]
    BY <1>7
  <2> QED BY ONLY <2>2, <2>3, <2>4, <2>5, <2>6 DEF Batches
<1> QED BY <1>6, <1>7, <1>8, <1>9, <1>10 DEF HoldsOnly, c, empty

\* The metadata made for the first token has the request's row alone.
LEMMA PrefillRefreshes ==
  ASSUME NEW b \in Batches(1, 0), NEW r \in Requests, HoldsOnly(b, r)
  PROVE  LET c == RefreshMetadata(b)
         IN c \in Batches(1, 0) /\ Rows(c) = <<r>> /\ c.rows = <<r>> /\ c.outputs = <<r>>
<1> DEFINE c == RefreshMetadata(b)
<1>1. /\ b.slots \in [0 .. 0 -> Holders] /\ b.procs \in [0 .. 0 - 1 -> Processors]
      /\ b.slots[0] = r /\ b.outputs = <<r>> /\ b.update # NoUpdate
      /\ b = [slots |-> b.slots, bad_words |-> b.bad_words, outputs |-> b.outputs,
              update |-> b.update, rows |-> b.rows, procs |-> b.procs]
      /\ b.bad_words \in [0 .. 0 -> Holders]
  <2>1. b.slots[0] = r /\ b.outputs = <<r>> /\ b.update # NoUpdate
    BY DEF HoldsOnly
  <2>2. b = [slots |-> b.slots, bad_words |-> b.bad_words, outputs |-> b.outputs,
             update |-> b.update, rows |-> b.rows, procs |-> b.procs]
    BY DEF Batches
  <2>3. /\ b.slots \in [0 .. 1 - 1 -> Holders] /\ b.bad_words \in [0 .. 1 - 1 -> Holders]
        /\ b.procs \in [0 .. 0 - 1 -> Processors]
    BY DEF Batches, Processors
  <2> QED BY <2>1, <2>2, <2>3
<1>2. Rows(b) = <<r>>
  BY <1>1, RowOfOne
<1>3. c = [slots |-> b.slots, bad_words |-> b.bad_words, outputs |-> b.outputs,
           update |-> NoUpdate, rows |-> Rows(b), procs |-> b.procs]
  <2>1. 0 \in Nat
    OBVIOUS
  <2>2. c = [slots |-> b.slots, bad_words |-> b.bad_words, outputs |-> b.outputs,
             update |-> NoUpdate, rows |-> Rows(b),
             procs |-> IF 0 = 0 THEN b.procs ELSE UpdateState(b.procs, b.update)]
    BY <1>1, <2>1, RefreshedRecord
  <2> QED BY <2>2
<1> HIDE DEF c
<1>4. c.slots = b.slots /\ c.rows = <<r>> /\ c.outputs = <<r>>
  BY <1>1, <1>2, <1>3
<1>5. Rows(c) = <<r>>
  BY <1>2, <1>4, SlotsDecide
<1>6. c \in Batches(1, 0)
  <2>1. NoUpdate \in [added : Seq(Nat \X Requests), removed : Seq(Nat),
                      moved : Seq(Nat \X Nat)]
    BY DEF NoUpdate
  <2>2. <<r>> \in Seq(Requests)
    OBVIOUS
  <2>3. b.procs \in [0 .. 0 - 1 -> [req : Holders, fresh : BOOLEAN]]
        /\ b.slots \in [0 .. 1 - 1 -> Holders] /\ b.bad_words \in [0 .. 1 - 1 -> Holders]
    BY <1>1 DEF Processors
  <2>4. c = [slots |-> b.slots, bad_words |-> b.bad_words, outputs |-> <<r>>,
             update |-> NoUpdate, rows |-> <<r>>, procs |-> b.procs]
    BY <1>1, <1>2, <1>3
  <2> QED BY ONLY <2>1, <2>2, <2>3, <2>4 DEF Batches
<1> QED BY <1>4, <1>5, <1>6 DEF c

\* As many requests as slots they take.
LEMMA SizeOfMembers ==
  ASSUME NEW n \in Nat, NEW b, b.slots \in [0 .. n - 1 -> Holders], OneSlotEach(b)
  PROVE  /\ IsFiniteSet(Members(b)) /\ Cardinality(Members(b)) = NumReqs(b)
         /\ Members(b) \subseteq Requests
<1>1. IsFiniteSet(Occupied(b)) /\ Members(b) \subseteq Requests
  BY RowsType
<1> DEFINE f == [i \in Occupied(b) |-> b.slots[i]]
<1>2. f \in Bijection(Occupied(b), Members(b))
  <2>1. f \in [Occupied(b) -> Members(b)]
    BY DEF Members
  <2>2. \A i, j \in Occupied(b) : f[i] = f[j] => i = j
    BY DEF OneSlotEach
  <2>3. \A m \in Members(b) : \E i \in Occupied(b) : f[i] = m
    BY DEF Members
  <2> QED BY <2>1, <2>2, <2>3 DEF Bijection, Injection, IsInjective, Surjection
<1>3. ExistsBijection(Occupied(b), Members(b))
  BY <1>2 DEF ExistsBijection
<1> QED BY <1>1, <1>3, FS_Bijection DEF NumReqs
-----------------------------------------------------------------------------
(***************************************************************************)
(* The inductive invariant. The decode batch is aligned between steps, the *)
(* prefill batch has the request being prefilled and nobody else, whose    *)
(* metadata is still to be made, and the scheduler leaves it a slot.       *)
(***************************************************************************)
Prefilled(r) ==
  /\ prefilling = {r}
  /\ r \notin Members(input_batch)
  /\ HoldsOnly(prefill_batch, r)

Indices == [Wrappers -> {NoIndex} \cup 0 .. MaxNumSeqs - 1]

BatchesAligned ==
  /\ input_batch \in AlignedBatches
  /\ prefill_batch \in Batches(1, 0)
  /\ prefilling \subseteq Requests
  /\ \A r \in prefilling : Prefilled(r)
  /\ Cardinality(Alive) <= MaxNumSeqs

SampleAligned ==
  /\ prefill_index \in Indices /\ prefill_index["other"] = NoIndex
  /\ sample \in Samples
  /\ RowsAligned
  /\ ServedByOwn

Alignment == BatchesAligned /\ SampleAligned

\* The requests alive are finitely many.
LEMMA FewAlive ==
  ASSUME BatchesAligned
  PROVE  /\ IsFiniteSet(Members(input_batch)) /\ IsFiniteSet(Alive)
         /\ Members(input_batch) \subseteq Requests
<1>1. /\ MaxNumSeqs \in Nat /\ input_batch.slots \in [0 .. MaxNumSeqs - 1 -> Holders]
      /\ OneSlotEach(input_batch)
  BY AlignedParts DEF BatchesAligned
<1>2. IsFiniteSet(Members(input_batch)) /\ Members(input_batch) \subseteq Requests
  BY <1>1, SizeOfMembers
<1>3. CASE prefilling = {}
  <2>1. Alive = Members(input_batch)
    BY <1>3 DEF Alive
  <2> QED BY <1>2, <2>1
<1>4. CASE prefilling # {}
  <2>1. PICK r : prefilling = {r}
    BY <1>4 DEF BatchesAligned, Prefilled
  <2>2. Alive = Members(input_batch) \cup {r}
    BY <2>1 DEF Alive
  <2> QED BY <1>2, <2>2, FS_AddElement
<1> QED BY <1>3, <1>4

\* _update_batch in a step that tells of finished requests.
LEMMA UpdateStep ==
  ASSUME BatchesAligned, NEW ended \in SUBSET Alive, NEW order \in SetToSeqs(ended)
  PROVE  /\ UpdateBatch(order) \in AlignedBatches
         /\ Members(UpdateBatch(order)) = Members(input_batch) \ ToSet(order)
<1>1. IsFiniteSet(ended)
  BY FewAlive, FS_Subset
<1>2. Cardinality(ended) \in Nat
  BY <1>1, FS_CardinalityType
<1>3. DOMAIN order = 1 .. Cardinality(ended)
  BY DEF SetToSeqs
<1>4. input_batch \in AlignedBatches
  BY DEF BatchesAligned
<1> QED BY <1>2, <1>3, <1>4, UpdateKeepsAligned

\* A request that the scheduler may prefill finds a slot when it has ended.
LEMMA RoomForPrefill ==
  ASSUME BatchesAligned, NEW gone, NEW r, MayPrefill(r, gone)
  PROVE  LET left == Members(input_batch) \ gone
         IN r \notin left /\ Cardinality(left) < MaxNumSeqs
              /\ Cardinality(left \cup {r}) <= MaxNumSeqs
<1> DEFINE left == Members(input_batch) \ gone
           others == IF r \in prefilling THEN Alive \ {r} ELSE Alive \ gone
<1>1. MaxNumSeqs \in Nat /\ IsFiniteSet(Alive) /\ Cardinality(Alive) \in Nat
      /\ Cardinality(Alive) <= MaxNumSeqs
  BY FewAlive, FS_CardinalityType, BatchAssumption DEF BatchesAligned
<1>2. r \notin left
  <2>1. CASE r \in prefilling
    BY <2>1 DEF BatchesAligned, Prefilled
  <2>2. CASE r \notin prefilling
    BY <2>2 DEF MayPrefill, Alive
  <2> QED BY <2>1, <2>2
<1>3. IsFiniteSet(others) /\ Cardinality(others) < MaxNumSeqs
  <2>1. CASE r \in prefilling
    <3>1. r \in Alive
      BY <2>1 DEF Alive
    <3>2. IsFiniteSet(Alive \ {r}) /\ Cardinality(Alive \ {r}) = Cardinality(Alive) - 1
      BY <1>1, <3>1, FS_RemoveElement
    <3> QED BY <1>1, <2>1, <3>2
  <2>2. CASE r \notin prefilling
    <3>1. Cardinality(Alive \ gone) < MaxNumSeqs
      BY <2>2 DEF MayPrefill
    <3>2. Alive \ gone \in SUBSET Alive
      OBVIOUS
    <3>3. IsFiniteSet(Alive \ gone)
      BY <1>1, <3>2, FS_Subset
    <3> QED BY <2>2, <3>1, <3>3
  <2> QED BY <2>1, <2>2
<1>4. left \in SUBSET others
  BY <1>2 DEF Alive
<1>5. IsFiniteSet(left) /\ Cardinality(left) <= Cardinality(others)
  BY <1>3, <1>4, FS_Subset
<1>6. Cardinality(left) \in Nat /\ Cardinality(others) \in Nat
  BY <1>3, <1>5, FS_CardinalityType
<1>7. Cardinality(left \cup {r}) = Cardinality(left) + 1
  BY <1>2, <1>5, FS_AddElement
<1> QED BY <1>1, <1>2, <1>3, <1>5, <1>6, <1>7

\* New tokens make processors stale and change nothing else.
LEMMA TokensKeepAligned ==
  ASSUME NEW decode \in AlignedBatches, NEW rows
  PROVE  LET c == [decode EXCEPT !.procs = TokensAdded(@, rows)]
         IN c \in AlignedBatches /\ Members(c) = Members(decode)
<1> DEFINE D == 0 .. MaxNumSeqs - 1
           after == TokensAdded(decode.procs, rows)
           c == [decode EXCEPT !.procs = after]
<1>1. /\ decode \in Batches(MaxNumSeqs, MaxNumSeqs) /\ decode.update = NoUpdate
      /\ decode.slots \in [D -> Holders] /\ decode.bad_words \in [D -> Holders]
      /\ decode.procs \in [D -> Processors] /\ OneSlotEach(decode)
      /\ decode.outputs = Rows(decode) /\ decode.rows = Rows(decode)
      /\ ServedInOrder(decode)
  BY AlignedParts
<1> HIDE DEF D
<1>2. after \in [D -> Processors] /\ \A i \in D : after[i].req = decode.procs[i].req
  <2> DEFINE heard(i) == [decode.procs[i] EXCEPT
                            !.fresh = @ /\ decode.procs[i].req \notin ToSet(rows)]
  <2>1. \A i \in D : heard(i) \in Processors /\ heard(i).req = decode.procs[i].req
    <3>1. \A x \in Processors, v \in BOOLEAN :
            [x EXCEPT !.fresh = @ /\ v] \in Processors /\ [x EXCEPT !.fresh = @ /\ v].req = x.req
      BY DEF Processors
    <3>2. \A i \in D : decode.procs[i] \in Processors
      BY <1>1
    <3>3. \A i \in D : (decode.procs[i].req \notin ToSet(rows)) \in BOOLEAN
      OBVIOUS
    <3> QED BY <3>1, <3>2, <3>3
  <2>2. after = [i \in D |-> heard(i)]
    BY <1>1 DEF TokensAdded
  <2> HIDE DEF heard, after
  <2> QED BY <2>1, <2>2
<1> HIDE DEF after
<1>3. c = [slots |-> decode.slots, bad_words |-> decode.bad_words,
           outputs |-> decode.outputs, update |-> NoUpdate, rows |-> Rows(decode),
           procs |-> after]
  <2>1. decode = [slots |-> decode.slots, bad_words |-> decode.bad_words,
                  outputs |-> decode.outputs, update |-> NoUpdate, rows |-> Rows(decode),
                  procs |-> decode.procs]
    BY <1>1 DEF Batches
  <2> QED BY <2>1
<1> HIDE DEF c
<1>4. \A i \in D : after[i].req = IF i < NumReqs(decode) THEN Rows(decode)[i + 1] ELSE NoRequest
  <2>1. \A i \in D :
          decode.procs[i].req = IF i < NumReqs(decode) THEN Rows(decode)[i + 1] ELSE NoRequest
    BY <1>1 DEF ServedInOrder, D
  <2> QED BY <1>2, <2>1
<1>5. c \in AlignedBatches /\ Members(c) = Members(decode)
  BY <1>1, <1>2, <1>3, <1>4, RefreshedAligned DEF D
<1> QED BY <1>5 DEF c, after

(***************************************************************************)
(* A sampled step: b is the batch whose rows are sampled and `decode` the  *)
(* one whose processors serve them.                                        *)
(***************************************************************************)
Samplable(b, m) ==
  /\ Rows(b) \in Seq(Requests) /\ Len(Rows(b)) \in 0 .. m /\ m <= MaxNumSeqs
  /\ b.rows = Rows(b) /\ b.outputs = Rows(b)
  /\ b.bad_words \in [0 .. m - 1 -> Holders]

\* Such a step samples aligned rows and keeps the decode batch aligned.
LEMMA SampledStep ==
  ASSUME NEW kind \in {"prefill", "decode"}, NEW m \in Nat, NEW b, Samplable(b, m),
         NEW decode \in AlignedBatches, NEW index \in Indices,
         Served("other", decode.procs, index, Len(Rows(b))) = Rows(b),
         Sample(kind, b, decode, index)
  PROVE  /\ prefill_index' \in Indices /\ prefill_index'["other"] = NoIndex
         /\ sample' \in Samples /\ RowsAligned' /\ ServedByOwn'
         /\ input_batch' \in AlignedBatches /\ Members(input_batch)' = Members(decode)
<1> DEFINE n == Len(Rows(b))
           bad == [k \in 1 .. n |-> b.bad_words[k - 1]]
           stale == {i \in UsedRows(decode.procs, index, n) : ~decode.procs[i].fresh}
           serve(w) == IF Applies(w, b.rows) THEN Served(w, decode.procs, index, n) ELSE Rows(b)
           served == [w \in Wrappers |-> serve(w)]
<1>1. /\ n \in Nat /\ n \in 0 .. m /\ m <= MaxNumSeqs /\ MaxNumSeqs \in Nat
      /\ Rows(b) \in Seq(Requests) /\ b.rows = Rows(b) /\ b.outputs = Rows(b)
      /\ b.bad_words \in [0 .. m - 1 -> Holders]
  BY BatchAssumption DEF Samplable
<1>2. /\ sample' = [kind |-> kind, inputs |-> Rows(b), rows |-> Rows(b), outputs |-> Rows(b),
                    bad |-> bad, stale |-> stale, served |-> served]
      /\ prefill_index' = IndexAfter(index, b.rows)
      /\ input_batch' = [decode EXCEPT !.procs = TokensAdded(@, Rows(b))]
  BY <1>1 DEF Sample
<1>3. bad \in Seq(Holders)
  <2>1. \A k \in 1 .. n : k - 1 \in 0 .. m - 1
    BY <1>1
  <2>2. bad \in [1 .. n -> Holders]
    BY <1>1, <2>1
  <2> QED BY <1>1, <2>2
<1>4. stale \in SUBSET Nat
  <2>1. "other" \in Wrappers /\ index["other"] \in {NoIndex} \cup 0 .. MaxNumSeqs - 1
    BY DEF Wrappers, Indices
  <2>2. UsedRows(decode.procs, index, n) \subseteq Nat
    BY <1>1, <2>1 DEF UsedRows
  <2> QED BY <2>2
<1>5. \A w \in Wrappers : serve(w) \in Seq(Holders)
  <2> SUFFICES ASSUME NEW w \in Wrappers
               PROVE  serve(w) \in Seq(Holders)
    OBVIOUS
  <2>1. Rows(b) \in Seq(Holders)
    BY <1>1 DEF Holders
  <2>2. Served(w, decode.procs, index, n) \in Seq(Holders)
    <3>1. index[w] \in {NoIndex} \cup 0 .. MaxNumSeqs - 1
      BY DEF Indices
    <3>2. \A i \in 0 .. MaxNumSeqs - 1 : decode.procs[i].req \in Holders
      BY AlignedParts DEF Processors
    <3>3. \A k \in 1 .. n : (IF index[w] # NoIndex THEN index[w] ELSE k - 1) \in 0 .. MaxNumSeqs - 1
      BY <1>1, <3>1
    <3>4. Served(w, decode.procs, index, n) \in [1 .. n -> Holders]
      BY <3>2, <3>3 DEF Served
    <3> QED BY <1>1, <3>4
  <2> QED BY <2>1, <2>2
<1>6. served \in [Wrappers -> Seq(Holders)] /\ served["other"] = Rows(b)
  <2>1. "other" \in Wrappers /\ serve("other") = Rows(b)
    BY DEF Wrappers
  <2> HIDE DEF serve
  <2> QED BY <1>5, <2>1
<1> HIDE DEF bad, stale, served
<1>7. sample' \in Samples /\ RowsAligned' /\ ServedByOwn'
  <2>1. /\ sample'.inputs = Rows(b) /\ sample'.rows = Rows(b) /\ sample'.outputs = Rows(b)
        /\ sample'.served = served
    BY <1>2
  <2>2. sample' \in Samples
    BY <1>1, <1>2, <1>3, <1>4, <1>6 DEF Samples
  <2> QED BY <1>6, <2>1, <2>2 DEF RowsAligned, ServedByOwn
<1>8. prefill_index' \in Indices /\ prefill_index'["other"] = NoIndex
  <2>1. \A w \in Wrappers : index[w] \in {NoIndex} \cup 0 .. MaxNumSeqs - 1
    BY DEF Indices
  <2>2. "other" \in Wrappers /\ Applies("other", b.rows)
    BY DEF Wrappers, Applies
  <2> QED BY <1>2, <2>1, <2>2 DEF IndexAfter, Indices
<1>9. input_batch' \in AlignedBatches /\ Members(input_batch)' = Members(decode)
  <2>1. Members(input_batch)' = Members(input_batch')
    BY DEF Members, Occupied, Slots
  <2> QED BY <1>2, <2>1, TokensKeepAligned
<1> QED BY <1>7, <1>8, <1>9

\* A step without a sample.
LEMMA UnsampledStep ==
  ASSUME SampleAligned, NEW decode \in AlignedBatches, NothingSampled(decode)
  PROVE  /\ SampleAligned'
         /\ input_batch' \in AlignedBatches /\ Members(input_batch)' = Members(decode)
<1>1. sample' = NoSample /\ input_batch' = decode /\ prefill_index' = prefill_index
  BY DEF NothingSampled
<1>2. NoSample \in Samples
  <2>1. <<>> \in Seq(Requests) /\ <<>> \in Seq(Holders)
    OBVIOUS
  <2>2. [w \in Wrappers |-> <<>>] \in [Wrappers -> Seq(Holders)]
    BY <2>1
  <2> QED BY <2>1, <2>2 DEF NoSample, Samples
<1>3. /\ NoSample.inputs = <<>> /\ NoSample.rows = <<>> /\ NoSample.outputs = <<>>
      /\ NoSample.served["other"] = <<>>
  BY DEF NoSample, Wrappers
<1>4. Members(input_batch)' = Members(input_batch')
  BY DEF Members, Occupied, Slots
<1> QED BY <1>1, <1>2, <1>3, <1>4 DEF SampleAligned, RowsAligned, ServedByOwn, Indices

\* A decode step serves each row with the processor in its place.
LEMMA DecodeSamples ==
  ASSUME NEW b \in AlignedBatches, NEW index \in Indices, index["other"] = NoIndex
  PROVE  /\ Samplable(b, MaxNumSeqs)
         /\ Served("other", b.procs, index, Len(Rows(b))) = Rows(b)
<1>1. /\ MaxNumSeqs \in Nat /\ Rows(b) \in Seq(Requests) /\ Len(Rows(b)) = NumReqs(b)
      /\ NumReqs(b) \in 0 .. MaxNumSeqs /\ b.rows = Rows(b) /\ b.outputs = Rows(b)
      /\ b.bad_words \in [0 .. MaxNumSeqs - 1 -> Holders]
      /\ ServedInOrder(b)
  BY AlignedParts
<1>2. \A k \in 1 .. NumReqs(b) : b.procs[k - 1].req = Rows(b)[k]
  <2> SUFFICES ASSUME NEW k \in 1 .. NumReqs(b)
               PROVE  b.procs[k - 1].req = Rows(b)[k]
    OBVIOUS
  <2> DEFINE i == k - 1
  <2>1. i \in 0 .. MaxNumSeqs - 1 /\ i < NumReqs(b) /\ i + 1 = k
    BY <1>1
  <2> HIDE DEF i
  <2>2. b.procs[i].req = Rows(b)[k]
    BY <1>1, <2>1 DEF ServedInOrder
  <2> QED BY <2>2 DEF i
<1>3. Served("other", b.procs, index, NumReqs(b)) =
        [k \in 1 .. NumReqs(b) |-> b.procs[k - 1].req]
  BY DEF Served
<1>4. Rows(b) = [k \in 1 .. NumReqs(b) |-> Rows(b)[k]]
  BY <1>1
<1>5. [k \in 1 .. NumReqs(b) |-> b.procs[k - 1].req] = [k \in 1 .. NumReqs(b) |-> Rows(b)[k]]
  BY <1>2
<1>6. Samplable(b, MaxNumSeqs)
  BY <1>1 DEF Samplable
<1> QED BY <1>1, <1>3, <1>4, <1>5, <1>6

\* The requests told finished leave the rest of the invariant as it is.
LEMMA OthersStay ==
  ASSUME BatchesAligned, NEW gone,
         input_batch' \in AlignedBatches,
         Members(input_batch)' = Members(input_batch) \ gone,
         prefilling' = prefilling \ gone, prefill_batch' = prefill_batch
  PROVE  BatchesAligned'
<1>1. Alive' \in SUBSET Alive
  BY DEF Alive
<1>2. Cardinality(Alive') <= MaxNumSeqs
  <2>1. IsFiniteSet(Alive) /\ Cardinality(Alive') <= Cardinality(Alive) /\ IsFiniteSet(Alive')
    BY <1>1, FewAlive, FS_Subset
  <2>2. Cardinality(Alive) \in Nat /\ Cardinality(Alive') \in Nat /\ MaxNumSeqs \in Nat
    BY <2>1, FS_CardinalityType, BatchAssumption
  <2> QED BY <2>1, <2>2 DEF BatchesAligned
<1>3. ASSUME NEW r \in prefilling'
      PROVE  Prefilled(r)'
  <2>1. Prefilled(r) /\ r \notin gone
    BY <1>3 DEF BatchesAligned
  <2>2. prefilling' = {r}
    BY <2>1 DEF Prefilled
  <2> QED BY <2>1, <2>2 DEF Prefilled, HoldsOnly
<1> QED BY <1>2, <1>3 DEF BatchesAligned

\* The prefill batch of a chunk has the chunk's request.
LEMMA PrefillBatchHolds ==
  ASSUME BatchesAligned, NEW r \in Requests
  PROVE  PrefillBatch(r) \in Batches(1, 0) /\ HoldsOnly(PrefillBatch(r), r)
<1>1. CASE r \in prefilling
  BY <1>1 DEF PrefillBatch, BatchesAligned, Prefilled
<1>2. CASE r \notin prefilling
  <2>1. prefill_batch \in Batches(1, 0)
    BY DEF BatchesAligned
  <2> QED BY <1>2, <2>1, PrefillJoins DEF PrefillBatch
<1> QED BY <1>1, <1>2

\* A step that only tells of finished requests.
LEMMA EmptyStepAligned ==
  ASSUME Alignment, NEW ended \in SUBSET Alive, NEW order \in SetToSeqs(ended),
         EmptyStep(order)
  PROVE  Alignment'
<1>1. /\ UpdateBatch(order) \in AlignedBatches
      /\ Members(UpdateBatch(order)) = Members(input_batch) \ ToSet(order)
  BY UpdateStep DEF Alignment
<1>2. /\ SampleAligned' /\ input_batch' \in AlignedBatches
      /\ Members(input_batch)' = Members(UpdateBatch(order))
  BY <1>1, UnsampledStep DEF EmptyStep, Alignment
<1>3. BatchesAligned'
  BY <1>1, <1>2, OthersStay DEF EmptyStep, Alignment
<1> QED BY <1>2, <1>3 DEF Alignment

\* A decode step, after the finished requests have left.
LEMMA DecodeStepAligned ==
  ASSUME Alignment, NEW ended \in SUBSET Alive, NEW order \in SetToSeqs(ended),
         DecodeStep(order)
  PROVE  Alignment'
<1> DEFINE b == UpdateBatch(order)
<1>1. b \in AlignedBatches /\ Members(b) = Members(input_batch) \ ToSet(order)
  BY UpdateStep DEF Alignment
<1>2. /\ prefill_index \in Indices /\ Sample("decode", b, b, prefill_index)
      /\ prefilling' = prefilling \ ToSet(order) /\ prefill_batch' = prefill_batch
      /\ prefill_index["other"] = NoIndex
  BY DEF DecodeStep, Alignment, SampleAligned
<1> HIDE DEF b
<1>3. Samplable(b, MaxNumSeqs) /\ Served("other", b.procs, prefill_index, Len(Rows(b))) = Rows(b)
  BY <1>1, <1>2, DecodeSamples
<1>4. /\ prefill_index' \in Indices /\ prefill_index'["other"] = NoIndex
      /\ sample' \in Samples /\ RowsAligned' /\ ServedByOwn'
      /\ input_batch' \in AlignedBatches /\ Members(input_batch)' = Members(b)
  <2>1. MaxNumSeqs \in Nat /\ "decode" \in {"prefill", "decode"}
    BY BatchAssumption
  <2> QED BY <1>1, <1>2, <1>3, <2>1, SampledStep
<1>5. SampleAligned'
  BY <1>4 DEF SampleAligned, Indices
<1>6. BatchesAligned'
  BY <1>1, <1>2, <1>4, OthersStay DEF Alignment
<1> QED BY <1>5, <1>6 DEF Alignment

\* A chunk in the middle of a prompt.
LEMMA PrefillChunkAligned ==
  ASSUME Alignment, NEW ended \in SUBSET Alive, NEW order \in SetToSeqs(ended),
         NEW r \in Requests, PrefillChunk(order, r)
  PROVE  Alignment'
<1>1. /\ UpdateBatch(order) \in AlignedBatches
      /\ Members(UpdateBatch(order)) = Members(input_batch) \ ToSet(order)
  BY UpdateStep DEF Alignment
<1>2. /\ SampleAligned' /\ input_batch' \in AlignedBatches
      /\ Members(input_batch)' = Members(input_batch) \ ToSet(order)
  BY <1>1, UnsampledStep DEF PrefillChunk, Alignment
<1>3. /\ r \notin Members(input_batch)' /\ prefilling' = {r}
      /\ Cardinality(Members(input_batch)' \cup {r}) <= MaxNumSeqs
  BY <1>2, RoomForPrefill DEF PrefillChunk, Alignment
<1>4. prefill_batch' \in Batches(1, 0) /\ HoldsOnly(prefill_batch', r)
  BY PrefillBatchHolds DEF PrefillChunk, Alignment
<1>5. Alive' = Members(input_batch)' \cup {r}
  BY <1>3 DEF Alive
<1>6. \A s \in prefilling' : Prefilled(s)'
  BY <1>3, <1>4 DEF Prefilled, HoldsOnly
<1>7. BatchesAligned'
  BY <1>2, <1>3, <1>4, <1>5, <1>6 DEF BatchesAligned
<1> QED BY <1>2, <1>7 DEF Alignment

\* The last chunk: the request joins the decode batch, with its first token.
LEMMA LastChunkAligned ==
  ASSUME Alignment, NEW ended \in SUBSET Alive, NEW order \in SetToSeqs(ended),
         NEW r \in Requests, LastChunk(order, r)
  PROVE  Alignment'
<1> DEFINE b == UpdateBatch(order)
           joined == AddRequest(b, r)
           decode == RefreshMetadata(joined)
           prefill == RefreshMetadata(PrefillBatch(r))
           index == [w \in Wrappers |-> SlotOf(joined, r)]
<1>1. b \in AlignedBatches /\ Members(b) = Members(input_batch) \ ToSet(order)
  BY UpdateStep DEF Alignment
<1>2. /\ prefill_batch' = prefill /\ prefilling' = {}
      /\ Sample("prefill", prefill, decode, index) /\ MayPrefill(r, ToSet(order))
  BY DEF LastChunk
<1>3. /\ r \notin Members(b) /\ Cardinality(Members(b)) < MaxNumSeqs
      /\ Cardinality(Members(b) \cup {r}) <= MaxNumSeqs
  BY <1>1, <1>2, RoomForPrefill DEF Alignment
<1>4. NumReqs(b) < MaxNumSeqs
  <2>1. MaxNumSeqs \in Nat /\ b.slots \in [0 .. MaxNumSeqs - 1 -> Holders] /\ OneSlotEach(b)
    BY <1>1, AlignedParts
  <2> QED BY <1>3, <2>1, SizeOfMembers
<1> HIDE DEF b
<1>5. /\ decode \in AlignedBatches /\ Members(decode) = Members(b) \cup {r}
      /\ SlotOf(joined, r) \in 0 .. MaxNumSeqs - 1
      /\ decode.procs[SlotOf(joined, r)].req = r
  BY <1>1, <1>3, <1>4, JoinKeepsAligned
<1>6. /\ prefill \in Batches(1, 0) /\ Rows(prefill) = <<r>>
      /\ prefill.rows = <<r>> /\ prefill.outputs = <<r>>
  BY PrefillBatchHolds, PrefillRefreshes DEF Alignment
<1> HIDE DEF joined, decode, prefill
<1>7. index \in Indices /\ "other" \in Wrappers /\ index["other"] = SlotOf(joined, r)
  BY <1>5 DEF Indices, Wrappers
<1> HIDE DEF index
<1>8. Samplable(prefill, 1)
  <2>1. prefill.bad_words \in [0 .. 1 - 1 -> Holders]
    BY <1>6 DEF Batches
  <2>2. <<r>> \in Seq(Requests) /\ Len(<<r>>) = 1 /\ 1 <= MaxNumSeqs
    BY BatchAssumption
  <2> QED BY <1>6, <2>1, <2>2 DEF Samplable
<1>9. Served("other", decode.procs, index, Len(Rows(prefill))) = Rows(prefill)
  <2>1. Len(Rows(prefill)) = 1 /\ index["other"] # NoIndex
    BY <1>5, <1>6, <1>7 DEF NoIndex
  <2>2. Served("other", decode.procs, index, 1) = [k \in 1 .. 1 |-> r]
    BY <1>5, <1>7, <2>1 DEF Served
  <2>3. <<r>> = [k \in 1 .. 1 |-> r]
    OBVIOUS
  <2> QED BY <1>6, <2>1, <2>2, <2>3
<1>10. /\ prefill_index' \in Indices /\ prefill_index'["other"] = NoIndex
       /\ sample' \in Samples /\ RowsAligned' /\ ServedByOwn'
       /\ input_batch' \in AlignedBatches /\ Members(input_batch)' = Members(decode)
  <2>1. 1 \in Nat /\ "prefill" \in {"prefill", "decode"}
    OBVIOUS
  <2> QED BY <1>2, <1>5, <1>7, <1>8, <1>9, <2>1, SampledStep
<1>11. SampleAligned'
  BY <1>10 DEF SampleAligned, Indices
<1>12. BatchesAligned'
  <2>1. Alive' = Members(b) \cup {r}
    BY <1>2, <1>5, <1>10 DEF Alive
  <2> QED BY <1>2, <1>3, <1>6, <1>10, <2>1 DEF BatchesAligned
<1> QED BY <1>11, <1>12 DEF Alignment

\* Empty batches are aligned.
LEMMA FirstAligned ==
  ASSUME Init
  PROVE  Alignment
<1> DEFINE D == 0 .. MaxNumSeqs - 1
           b == input_batch
<1>1. /\ MaxNumSeqs \in Nat \ {0} /\ b = NewBatch(MaxNumSeqs, MaxNumSeqs)
      /\ prefill_batch = NewBatch(1, 0) /\ prefilling = {} /\ sample = NoSample
      /\ prefill_index = [w \in Wrappers |-> NoIndex]
  BY BatchAssumption DEF Init
<1>2. /\ <<>> \in Seq(Requests) /\ <<>> \in Seq(Holders)
      /\ NoUpdate \in [added : Seq(Nat \X Requests), removed : Seq(Nat),
                       moved : Seq(Nat \X Nat)]
  BY DEF NoUpdate
<1>3. \A n, w \in Nat : NewBatch(n, w) \in Batches(n, w)
  <2> SUFFICES ASSUME NEW n \in Nat, NEW w \in Nat
               PROVE  NewBatch(n, w) \in Batches(n, w)
    OBVIOUS
  <2>1. [i \in 0 .. n - 1 |-> NoRequest] \in [0 .. n - 1 -> Holders]
    BY DEF Holders
  <2>2. [i \in 0 .. w - 1 |-> [req |-> NoRequest, fresh |-> TRUE]]
          \in [0 .. w - 1 -> [req : Holders, fresh : BOOLEAN]]
    BY DEF Holders
  <2> QED BY <1>2, <2>1, <2>2 DEF NewBatch, Batches
<1>4. /\ b.slots = [i \in D |-> NoRequest] /\ b.outputs = <<>> /\ b.rows = <<>>
      /\ b.update = NoUpdate
      /\ b.procs = [i \in D |-> [req |-> NoRequest, fresh |-> TRUE]]
  BY <1>1 DEF NewBatch
<1> HIDE DEF b
<1>5. Occupied(b) = {} /\ NumReqs(b) = 0 /\ Members(b) = {} /\ OneSlotEach(b)
  <2>1. Occupied(b) = {}
    BY <1>4 DEF Occupied, Slots
  <2> QED BY <2>1, FS_EmptySet DEF NumReqs, Members, OneSlotEach
<1>6. Rows(b) = <<>>
  <2>1. MaxNumSeqs \in Nat /\ b.slots \in [0 .. MaxNumSeqs - 1 -> Holders]
    BY <1>1, <1>4 DEF Holders
  <2>2. Rows(b) \in Seq(Requests) /\ Len(Rows(b)) = 0
    BY <1>5, <2>1, RowsType
  <2> QED BY <2>2
<1>7. b \in AlignedBatches
  <2>1. \A i \in D : ~(i < 0) /\ b.procs[i].req = NoRequest
    BY <1>4
  <2>2. ServedInOrder(b)
    BY <1>5, <2>1 DEF ServedInOrder
  <2>3. b \in Batches(MaxNumSeqs, MaxNumSeqs)
    BY <1>1, <1>3
  <2> QED BY <1>4, <1>5, <1>6, <2>2, <2>3 DEF AlignedBatches, Aligned
<1>8. BatchesAligned
  <2>1. Alive = {}
    BY <1>1, <1>5 DEF Alive, b
  <2>2. prefill_batch \in Batches(1, 0)
    BY <1>1, <1>3
  <2>3. Cardinality(Alive) <= MaxNumSeqs
    BY <1>1, <2>1, FS_EmptySet
  <2> QED BY <1>1, <1>7, <2>2, <2>3 DEF BatchesAligned, b
<1>9. SampleAligned
  <2>1. [w \in Wrappers |-> <<>>] \in [Wrappers -> Seq(Holders)] /\ "other" \in Wrappers
    BY <1>2 DEF Wrappers
  <2>2. sample \in Samples
    BY <1>1, <1>2, <2>1 DEF NoSample, Samples
  <2>3. RowsAligned /\ ServedByOwn
    BY <1>1, <2>1 DEF RowsAligned, ServedByOwn, NoSample
  <2>4. prefill_index \in Indices /\ prefill_index["other"] = NoIndex
    BY <1>1, <2>1 DEF Indices
  <2> QED BY <2>2, <2>3, <2>4 DEF SampleAligned
<1> QED BY <1>8, <1>9 DEF Alignment

(***************************************************************************)
(* The alignment of batches, samples and prefill index is an invariant:    *)
(* each step of the runner keeps it, whoever it is told has finished.      *)
(***************************************************************************)
THEOREM AlignmentHolds == Spec => []Alignment
<1>1. Init => Alignment
  BY FirstAligned
<1>2. Alignment /\ [Next]_vars => Alignment'
  <2> SUFFICES ASSUME Alignment, [Next]_vars
               PROVE  Alignment'
    OBVIOUS
  <2>1. CASE Next
    <3>1. PICK ended \in SUBSET Alive : \E order \in SetToSeqs(ended) :
            \/ EmptyStep(order)
            \/ DecodeStep(order)
            \/ \E r \in Requests : PrefillChunk(order, r) \/ LastChunk(order, r)
      BY <2>1 DEF Next
    <3>2. PICK order \in SetToSeqs(ended) :
            \/ EmptyStep(order)
            \/ DecodeStep(order)
            \/ \E r \in Requests : PrefillChunk(order, r) \/ LastChunk(order, r)
      BY <3>1
    <3>3. CASE EmptyStep(order)
      BY <3>3, EmptyStepAligned
    <3>4. CASE DecodeStep(order)
      BY <3>4, DecodeStepAligned
    <3>5. ASSUME NEW r \in Requests, PrefillChunk(order, r)
          PROVE  Alignment'
      BY <3>5, PrefillChunkAligned
    <3>6. ASSUME NEW r \in Requests, LastChunk(order, r)
          PROVE  Alignment'
      BY <3>6, LastChunkAligned
    <3> QED BY <3>2, <3>3, <3>4, <3>5, <3>6
  <2>2. CASE UNCHANGED vars
    <3>1. BatchesAligned'
      BY <2>2 DEF vars, Alignment, BatchesAligned, Prefilled, Alive, Members, Occupied, Slots
    <3>2. SampleAligned'
      BY <2>2 DEF vars, Alignment, SampleAligned, RowsAligned, ServedByOwn
    <3> QED BY <3>1, <3>2 DEF Alignment
  <2> QED BY <2>1, <2>2 DEF vars
<1> QED BY <1>1, <1>2, PTL DEF Spec

(***************************************************************************)
(* The batches, the prefill index and what is sampled have their types,    *)
(* and no change of the decode batch waits for a refresh between steps.    *)
(***************************************************************************)
THEOREM BatchTypesHold == Spec => []BatchTypeOK
<1>1. Alignment => BatchTypeOK
  <2> SUFFICES ASSUME Alignment
               PROVE  BatchTypeOK
    OBVIOUS
  <2>1. input_batch \in Batches(MaxNumSeqs, MaxNumSeqs) /\ input_batch.update = NoUpdate
    BY AlignedParts DEF Alignment, BatchesAligned
  <2> QED BY <2>1 DEF Alignment, BatchesAligned, SampleAligned, Indices, BatchTypeOK
<1> QED BY <1>1, AlignmentHolds, PTL

(***************************************************************************)
(* Row by row, the model's input, the parameters in the sampling metadata  *)
(* and the list of output tokens belong to the same requests.              *)
(***************************************************************************)
THEOREM RowsAlignedHolds == Spec => []RowsAligned
<1>1. Alignment => RowsAligned
  BY DEF Alignment, SampleAligned
<1> QED BY <1>1, AlignmentHolds, PTL

(***************************************************************************)
(* Between steps the logits processors are those of the rows, in order,    *)
(* and the ones behind them are free, however often rows were moved.       *)
(***************************************************************************)
THEOREM ProcessorsAlignedHolds == Spec => []ProcessorsAligned
<1>1. Alignment => ProcessorsAligned
  <2> SUFFICES ASSUME Alignment
               PROVE  ProcessorsAligned
    OBVIOUS
  <2>1. /\ input_batch.procs \in [0 .. MaxNumSeqs - 1 -> Processors]
        /\ ServedInOrder(input_batch)
    BY AlignedParts DEF Alignment, BatchesAligned
  <2> QED BY <2>1 DEF ServedInOrder, ProcessorsAligned
<1> QED BY <1>1, AlignmentHolds, PTL

(***************************************************************************)
(* Every sampled row meets the processor of its own request, in a decode   *)
(* step by its row and in a prefill by the slot the request has taken.     *)
(***************************************************************************)
THEOREM ServedByOwnHolds == Spec => []ServedByOwn
<1>1. Alignment => ServedByOwn
  BY DEF Alignment, SampleAligned
<1> QED BY <1>1, AlignmentHolds, PTL
=============================================================================
