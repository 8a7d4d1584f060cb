---------------------------- MODULE StaggerProofs ----------------------------
(***************************************************************************)
(* Proofs about StaggerRegion, for every number of processes, every limit  *)
(* and every sequence of (nested) regions: the bound on the processes in a *)
(* body, the promise to return only when all are through, and the absence  *)
(* of deadlock.                                                            *)
(***************************************************************************)
EXTENDS StaggerRegion, FiniteSetTheorems, TLAPS

NumRounds == (WorldSize + Limit - 1) \div Limit

\* Barriers a rank calls before and after the body, in each nested region.
Before(r) == Cardinality(RoundsBefore(r))

After(r) == Cardinality(RoundsAfter(r))

(***************************************************************************)
(* Arithmetic of the sets: rank r is in set r \div Limit.                  *)
(***************************************************************************)
\* Euclidean division.
LEMMA DivLemma ==
  ASSUME NEW a \in Nat, NEW b \in Nat \ {0}
  PROVE  /\ a \div b \in Nat
         /\ (a \div b) * b <= a
         /\ a < ((a \div b) + 1) * b
  OBVIOUS

\* Multiplication by a positive number keeps the order.
LEMMA TimesLemma ==
  ASSUME NEW a \in Nat, NEW b \in Nat, NEW c \in Nat \ {0}
  PROVE  /\ c * a \in Nat
         /\ a <= b => c * a <= c * b
         /\ a < b => c * a < c * b
         /\ a * c = c * a
  OBVIOUS

\* The rounds a rank sits out before the body, and those after it.
LEMMA RoundsLemma ==
  ASSUME Staggered, NEW r \in Ranks
  PROVE  /\ r \div Limit \in Nat
         /\ r \div Limit < NumRounds
         /\ NumRounds \in Nat
         /\ RoundsBefore(r) = 0 .. (r \div Limit) - 1
         /\ RoundsAfter(r) = (r \div Limit) .. NumRounds - 1
<1>. DEFINE set == r \div Limit
<1>1. /\ Limit \in Nat \ {0} /\ WorldSize \in Nat \ {0}
      /\ r \in Nat /\ r < WorldSize /\ WorldSize + Limit - 1 \in Nat
  BY StaggerAssumption DEF Staggered, Ranks
<1>2. set \in Nat /\ set * Limit <= r /\ r < (set + 1) * Limit
  BY <1>1, DivLemma
<1>3. /\ NumRounds \in Nat
      /\ WorldSize + Limit - 1 < (NumRounds + 1) * Limit
  BY <1>1, DivLemma DEF NumRounds
<1>. HIDE DEF set
<1>4. r < NumRounds * Limit
  <2>1. (NumRounds + 1) * Limit = NumRounds * Limit + Limit
    BY <1>1, <1>3
  <2>2. NumRounds * Limit \in Nat
    BY <1>1, <1>3
  <2>. QED BY <1>1, <1>3, <2>1, <2>2
<1>5. set < NumRounds
  <2>1. SUFFICES ASSUME NumRounds <= set PROVE FALSE
    BY <1>2, <1>3
  <2>2. NumRounds * Limit <= set * Limit
    BY <1>1, <1>2, <1>3, <2>1, TimesLemma
  <2>3. NumRounds * Limit \in Nat /\ set * Limit \in Nat
    BY <1>1, <1>2, <1>3
  <2>. QED BY <1>1, <1>2, <1>4, <2>2, <2>3
<1>6. ASSUME NEW s \in Nat
      PROVE  r >= (s + 1) * Limit <=> s < set
  <2>1. (s + 1) * Limit \in Nat /\ set * Limit \in Nat /\ (set + 1) * Limit \in Nat
    BY <1>1, <1>2
  <2>2. CASE s < set
    <3>1. (s + 1) * Limit <= set * Limit
      BY <1>1, <1>2, <2>2, TimesLemma
    <3>. QED BY <1>1, <1>2, <2>1, <2>2, <3>1
  <2>3. CASE set <= s
    <3>1. (set + 1) * Limit <= (s + 1) * Limit
      BY <1>1, <1>2, <2>3, TimesLemma
    <3>. QED BY <1>1, <1>2, <2>1, <2>3, <3>1
  <2>. QED BY <1>2, <2>2, <2>3
<1>7. Rounds = 0 .. NumRounds - 1
  BY DEF Rounds, NumRounds
<1>8. RoundsBefore(r) = 0 .. set - 1
  <2>1. ASSUME NEW s PROVE s \in RoundsBefore(r) <=> s \in 0 .. set - 1
    BY <1>2, <1>3, <1>5, <1>6, <1>7 DEF RoundsBefore
  <2>. QED BY <2>1
<1>9. RoundsAfter(r) = set .. NumRounds - 1
  <2>1. ASSUME NEW s \in Nat PROVE r < (s + 1) * Limit <=> ~(s < set)
    <3>1. (s + 1) * Limit \in Nat
      BY <1>1
    <3>. QED BY <1>1, <1>6, <3>1
  <2>2. ASSUME NEW s PROVE s \in RoundsAfter(r) <=> s \in set .. NumRounds - 1
    BY <1>2, <1>3, <1>5, <1>7, <2>1 DEF RoundsAfter
  <2>. QED BY <2>2
<1>. QED
  BY <1>2, <1>3, <1>5, <1>8, <1>9 DEF set

\* The barriers of a rank: its set's number before, the rest after.
LEMMA CountLemma ==
  ASSUME Staggered, NEW r \in Ranks
  PROVE  /\ Before(r) = r \div Limit
         /\ Before(r) \in Nat
         /\ After(r) \in Nat \ {0}
         /\ Before(r) + After(r) = NumRounds
<1>1. /\ r \div Limit \in Nat
      /\ r \div Limit < NumRounds
      /\ NumRounds \in Nat
      /\ RoundsBefore(r) = 0 .. (r \div Limit) - 1
      /\ RoundsAfter(r) = (r \div Limit) .. NumRounds - 1
  BY RoundsLemma
<1>2. Before(r) = r \div Limit
  BY <1>1, FS_Interval DEF Before
<1>3. After(r) = NumRounds - (r \div Limit)
  BY <1>1, FS_Interval DEF After
<1>. QED
  BY <1>1, <1>2, <1>3
(***************************************************************************)
(* Where the barriers of a rank's region are.                              *)
(***************************************************************************)
InRegion(r) == returned[r] < Len(Depths)

\* A rank in its region stands at one of its barriers.
LEMMA PositionLemma ==
  ASSUME StaggerTypeOK, NEW r \in Ranks, InRegion(r)
  PROVE  /\ Depth(r) \in Nat \ {0}
         /\ BodyAt(r) = base[r] + Depth(r) * Before(r)
         /\ ReturnAt(r) = BodyAt(r) + Depth(r) * After(r)
         /\ BodyAt(r) \in Nat /\ ReturnAt(r) \in Nat
         /\ base[r] <= BodyAt(r) /\ BodyAt(r) <= ReturnAt(r)
         /\ Staggered => BodyAt(r) < ReturnAt(r)
         /\ ~Staggered => BodyAt(r) = base[r] /\ ReturnAt(r) = base[r]
<1>1. Depth(r) \in Nat \ {0}
  BY StaggerAssumption DEF Depth, InRegion, StaggerTypeOK
<1>2. base[r] \in Nat
  BY DEF StaggerTypeOK
<1>3. /\ BodyAt(r) = base[r] + Depth(r) * Before(r)
      /\ ReturnAt(r) = BodyAt(r) + Depth(r) * After(r)
  BY DEF BodyAt, ReturnAt, Before, After
<1>4. CASE Staggered
  <2>1. Before(r) \in Nat /\ After(r) \in Nat \ {0}
    BY <1>4, CountLemma
  <2>2. Depth(r) * Before(r) \in Nat
    BY <1>1, <2>1, TimesLemma
  <2>3. Depth(r) * After(r) \in Nat /\ Depth(r) * 0 < Depth(r) * After(r)
    BY <1>1, <2>1, TimesLemma
  <2>4. Depth(r) * 0 = 0
    BY <1>1
  <2>. QED BY <1>1, <1>2, <1>3, <1>4, <2>2, <2>3, <2>4
<1>5. CASE ~Staggered
  <2>1. Before(r) = 0 /\ After(r) = 0
    BY <1>5, FS_EmptySet DEF Before, After, RoundsBefore, RoundsAfter, Rounds
  <2>2. Depth(r) * 0 = 0
    BY <1>1
  <2>. QED BY <1>1, <1>2, <1>3, <1>5, <2>1, <2>2
<1>. QED BY <1>4, <1>5

\* Ranks in the same region return at the same barrier, and run its body after
\* the same barrier only if they are of the same set.
LEMMA SameRegionLemma ==
  ASSUME StaggerTypeOK, Staggered, NEW r \in Ranks, NEW q \in Ranks,
         InRegion(r), returned[r] = returned[q], base[r] = base[q]
  PROVE  /\ ReturnAt(r) = ReturnAt(q)
         /\ BodyAt(r) = BodyAt(q) => Before(r) = Before(q)
<1> DEFINE d == Depth(r)
           b == Before(r)
           c == Before(q)
           e == After(r)
           f == After(q)
<1>1. d \in Nat \ {0} /\ d = Depth(q)
  BY PositionLemma DEF Depth
<1>2. /\ BodyAt(r) = base[r] + d * b /\ ReturnAt(r) = BodyAt(r) + d * e
      /\ BodyAt(q) = base[r] + d * c /\ ReturnAt(q) = BodyAt(q) + d * f
  BY <1>1 DEF BodyAt, ReturnAt, Before, After
<1>3. b \in Nat /\ c \in Nat /\ e \in Nat /\ f \in Nat /\ b + e = c + f
  BY CountLemma
<1>4. base[r] \in Nat
  BY DEF StaggerTypeOK
<1>. HIDE DEF d, b, c, e, f
<1>5. d * b + d * e = d * c + d * f
  <2>1. d * b + d * e = d * (b + e) /\ d * c + d * f = d * (c + f)
    BY <1>1, <1>3
  <2>. QED BY <1>3, <2>1
<1>6. d * b \in Nat /\ d * c \in Nat /\ d * e \in Nat /\ d * f \in Nat
  BY <1>1, <1>3, TimesLemma
<1>7. ReturnAt(r) = ReturnAt(q)
  BY <1>2, <1>4, <1>5, <1>6
<1>8. ASSUME BodyAt(r) = BodyAt(q) PROVE b = c
  <2>1. d * b = d * c
    BY <1>2, <1>4, <1>6, <1>8
  <2>2. ~(b < c) /\ ~(c < b)
    BY <1>1, <1>3, <2>1, TimesLemma
  <2>. QED BY <1>3, <2>2
<1>. QED BY <1>7, <1>8 DEF b, c
(***************************************************************************)
(* The inductive invariant: what a rank's own counts say about where it    *)
(* is, and how far two ranks can be apart. They are in the same region, or *)
(* the one behind is leaving the region the other has just returned from.  *)
(***************************************************************************)
Local(r) ==
  /\ base[r] <= passed[r] /\ passed[r] <= arrived[r]
  /\ arrived[r] <= passed[r] + 1
  /\ place[r] # "outside" => InRegion(r)
  /\ place[r] = "outside" => arrived[r] = base[r]
  /\ place[r] = "entering" => arrived[r] <= BodyAt(r)
  /\ place[r] = "inside" => passed[r] = BodyAt(r) /\ arrived[r] = BodyAt(r)
  /\ place[r] = "leaving" => BodyAt(r) <= passed[r] /\ arrived[r] <= ReturnAt(r)
  /\ ~Staggered => base[r] = 0

Near(r, q) ==
  /\ returned[q] <= returned[r] + 1
  /\ returned[q] = returned[r] => base[q] = base[r]
  /\ returned[q] = returned[r] + 1 => place[r] = "leaving" /\ base[q] = ReturnAt(r)

Together(r, q) == passed[r] <= arrived[q] /\ (Staggered => Near(r, q))

IInv ==
  /\ StaggerTypeOK
  /\ \A r \in Ranks : Local(r)
  /\ \A r, q \in Ranks : Together(r, q)

\* It holds before any rank has entered.
LEMMA InitLemma == Init => IInv
<1>. SUFFICES ASSUME Init PROVE IInv
  OBVIOUS
<1>1. StaggerTypeOK
  BY StaggerAssumption DEF Init, StaggerTypeOK
<1>2. ASSUME NEW r \in Ranks PROVE Local(r)
  BY DEF Init, Local
<1>3. ASSUME NEW r \in Ranks, NEW q \in Ranks PROVE Together(r, q)
  BY DEF Init, Together, Near
<1>. QED BY <1>1, <1>2, <1>3 DEF IInv

\* Until a region returns, its barriers stay where they are.
LEMMA FrameLemma ==
  ASSUME UNCHANGED <<returned, base>>, NEW r \in Ranks
  PROVE  /\ BodyAt(r)' = BodyAt(r)
         /\ ReturnAt(r)' = ReturnAt(r)
         /\ InRegion(r)' <=> InRegion(r)
  BY DEF BodyAt, ReturnAt, Depth, InRegion

\* Ranks stay near each other as long as none returns.
LEMMA NearLemma ==
  ASSUME UNCHANGED <<returned, base>>, NEW r \in Ranks, NEW q \in Ranks,
         Near(r, q), place[r] = "leaving" => place'[r] = "leaving"
  PROVE  Near(r, q)'
  BY FrameLemma DEF Near

\* A rank comes to its next barrier.
LEMMA ArriveLemma ==
  ASSUME IInv, NEW r \in Ranks, Arrive(r)
  PROVE  IInv'
<1>1. StaggerTypeOK'
  BY DEF Arrive, IInv, StaggerTypeOK
<1>2. /\ StaggerTypeOK /\ \A q \in Ranks : Local(q)
      /\ \A p, q \in Ranks : Together(p, q)
      /\ UNCHANGED <<returned, base, place, passed>>
      /\ arrived' = [arrived EXCEPT ![r] = @ + 1]
  BY DEF IInv, Arrive
<1>3. ASSUME NEW q \in Ranks PROVE Local(q)'
  <2>1. /\ BodyAt(q)' = BodyAt(q) /\ ReturnAt(q)' = ReturnAt(q)
        /\ InRegion(q)' <=> InRegion(q)
    BY <1>2, FrameLemma
  <2>2. CASE q = r
    <3>1. /\ passed[r] = arrived[r] /\ arrived'[r] = arrived[r] + 1
          /\ place[r] # "outside"
      BY <1>2, SMTT(60) DEF Arrive, Waiting, Local, StaggerTypeOK
    <3>2. InRegion(r) /\ BodyAt(r) \in Nat /\ ReturnAt(r) \in Nat
      BY <1>2, <3>1, PositionLemma DEF Local
    <3>. QED
      BY <1>2, <2>1, <2>2, <3>1, <3>2 DEF Local, Arrive, StaggerTypeOK
  <2>3. CASE q # r
    BY <1>2, <2>1, <2>3 DEF Local, StaggerTypeOK
  <2>. QED BY <2>2, <2>3
<1>4. ASSUME NEW p \in Ranks, NEW q \in Ranks PROVE Together(p, q)'
  <2>1. passed'[p] <= arrived'[q]
    BY <1>2 DEF Together, StaggerTypeOK
  <2>2. Staggered => Near(p, q)'
    BY <1>2, NearLemma DEF Together
  <2>. QED BY <2>1, <2>2 DEF Together
<1>. QED BY <1>1, <1>3, <1>4 DEF IInv

\* A rank leaves the barrier it stood at.
LEMMA PassLemma ==
  ASSUME IInv, NEW r \in Ranks, Pass(r)
  PROVE  IInv'
<1>1. StaggerTypeOK'
  BY SMTT(60) DEF Pass, IInv, StaggerTypeOK
<1>2. /\ StaggerTypeOK /\ \A q \in Ranks : Local(q)
      /\ \A p, q \in Ranks : Together(p, q)
      /\ UNCHANGED <<returned, base, place, arrived>>
      /\ passed' = [passed EXCEPT ![r] = @ + 1]
  BY DEF IInv, Pass
<1>3. /\ passed'[r] = arrived[r] /\ passed[r] + 1 = arrived[r]
      /\ \A q \in Ranks : arrived[q] >= arrived[r]
  BY <1>2 DEF Pass, Waiting, Complete, Local, StaggerTypeOK
<1>4. ASSUME NEW q \in Ranks PROVE Local(q)'
  <2>1. /\ BodyAt(q)' = BodyAt(q) /\ ReturnAt(q)' = ReturnAt(q)
        /\ InRegion(q)' <=> InRegion(q)
    BY <1>2, FrameLemma
  <2>2. InRegion(q) => BodyAt(q) \in Nat /\ ReturnAt(q) \in Nat
    BY <1>2, PositionLemma
  <2>3. CASE q = r
    BY <1>2, <1>3, <2>1, <2>2, <2>3 DEF Local, StaggerTypeOK
  <2>4. CASE q # r
    BY <1>2, <2>1, <2>4 DEF Local, StaggerTypeOK
  <2>. QED BY <2>3, <2>4
<1>5. ASSUME NEW p \in Ranks, NEW q \in Ranks PROVE Together(p, q)'
  <2>1. passed'[p] <= arrived'[q]
    BY <1>2, <1>3 DEF Together, StaggerTypeOK
  <2>2. Staggered => Near(p, q)'
    BY <1>2, NearLemma DEF Together
  <2>. QED BY <2>1, <2>2 DEF Together
<1>. QED BY <1>1, <1>4, <1>5 DEF IInv

\* The body raises, or a barrier times out.
LEMMA FailLemma ==
  ASSUME IInv, NEW r \in Ranks, FailBody(r) \/ Timeout(r)
  PROVE  IInv'
<1>1. /\ UNCHANGED <<place, returned, base, arrived, passed>>
      /\ failed' = failed \cup {r}
  BY DEF FailBody, Timeout
<1>2. StaggerTypeOK'
  BY <1>1 DEF IInv, StaggerTypeOK
<1>3. ASSUME NEW q \in Ranks PROVE Local(q)'
  BY <1>1, FrameLemma DEF IInv, Local
<1>4. ASSUME NEW p \in Ranks, NEW q \in Ranks PROVE Together(p, q)'
  BY <1>1, NearLemma DEF IInv, Together
<1>. QED BY <1>2, <1>3, <1>4 DEF IInv

\* A rank goes on within its region, or enters the next one.
LEMMA MoveLemma ==
  ASSUME IInv, NEW r \in Ranks, Enter(r) \/ StartBody(r) \/ EndBody(r)
  PROVE  IInv'
<1>1. /\ StaggerTypeOK /\ \A q \in Ranks : Local(q)
      /\ \A p, q \in Ranks : Together(p, q)
      /\ UNCHANGED <<returned, base, arrived, passed, failed>>
      /\ \E to \in {"entering", "inside", "leaving"} :
           place' = [place EXCEPT ![r] = to]
      /\ place[r] # "leaving"
  BY DEF IInv, Enter, StartBody, EndBody, Moves
<1>2. StaggerTypeOK'
  BY <1>1 DEF StaggerTypeOK
<1>3. ASSUME NEW q \in Ranks PROVE Local(q)'
  <2>1. /\ BodyAt(q)' = BodyAt(q) /\ ReturnAt(q)' = ReturnAt(q)
        /\ InRegion(q)' <=> InRegion(q)
    BY <1>1, FrameLemma
  <2>2. CASE q # r
    BY <1>1, <2>1, <2>2 DEF Local, StaggerTypeOK
  <2>3. CASE q = r
    <3>1. InRegion(r)
      BY <1>1 DEF Enter, StartBody, EndBody, Moves, Local, InRegion
    <3>2. /\ BodyAt(r) \in Nat /\ ReturnAt(r) \in Nat
          /\ base[r] <= BodyAt(r) /\ BodyAt(r) <= ReturnAt(r)
      BY <1>1, <3>1, PositionLemma
    <3>3. CASE Enter(r)
      BY <1>1, <2>1, <2>3, <3>1, <3>2, <3>3 DEF Local, StaggerTypeOK, Enter, Moves
    <3>4. CASE StartBody(r)
      BY <1>1, <2>1, <2>3, <3>1, <3>2, <3>4
         DEF Local, StaggerTypeOK, StartBody, Moves
    <3>5. CASE EndBody(r)
      BY <1>1, <2>1, <2>3, <3>1, <3>2, <3>5
         DEF Local, StaggerTypeOK, EndBody, Moves
    <3>. QED BY <3>3, <3>4, <3>5
  <2>. QED BY <2>2, <2>3
<1>4. ASSUME NEW p \in Ranks, NEW q \in Ranks PROVE Together(p, q)'
  <2>1. place[p] = "leaving" => place'[p] = "leaving"
    BY <1>1 DEF StaggerTypeOK
  <2>. QED BY <1>1, <2>1, NearLemma DEF Together
<1>. QED BY <1>2, <1>3, <1>4 DEF IInv

(***************************************************************************)
(* A rank returns: every other rank is in the same region, or has already  *)
(* returned from it. It cannot be in the region before, where it would     *)
(* have called fewer barriers than the rank that returns has passed.       *)
(***************************************************************************)
LEMMA ReturnLemma ==
  ASSUME IInv, NEW r \in Ranks, Return(r)
  PROVE  IInv'
<1>1. /\ StaggerTypeOK /\ \A q \in Ranks : Local(q)
      /\ \A p, q \in Ranks : Together(p, q)
      /\ UNCHANGED <<arrived, passed, failed>>
      /\ place[r] = "leaving" /\ passed[r] = ReturnAt(r)
      /\ place' = [place EXCEPT ![r] = "outside"]
      /\ returned' = [returned EXCEPT ![r] = @ + 1]
      /\ base' = [base EXCEPT ![r] = passed[r]]
  BY DEF IInv, Return, Moves
<1>2. /\ InRegion(r) /\ ReturnAt(r) \in Nat
      /\ base[r] <= ReturnAt(r)
      /\ Staggered => base[r] < ReturnAt(r)
      /\ ~Staggered => ReturnAt(r) = 0
  BY <1>1, PositionLemma, SMTT(60) DEF Local, StaggerTypeOK
<1>3. arrived[r] = ReturnAt(r)
  BY <1>1, <1>2 DEF Local, StaggerTypeOK
<1>4. StaggerTypeOK'
  BY <1>1, <1>2 DEF StaggerTypeOK, InRegion
<1>5. ASSUME NEW q \in Ranks, q # r
      PROVE  /\ BodyAt(q)' = BodyAt(q) /\ ReturnAt(q)' = ReturnAt(q)
             /\ InRegion(q)' <=> InRegion(q)
  BY <1>1, <1>5 DEF BodyAt, ReturnAt, Depth, InRegion, StaggerTypeOK
<1>6. ASSUME NEW q \in Ranks PROVE Local(q)'
  <2>1. CASE q # r
    BY <1>1, <1>5, <2>1 DEF Local, StaggerTypeOK
  <2>2. CASE q = r
    BY <1>1, <1>2, <1>3, <2>2 DEF Local, StaggerTypeOK
  <2>. QED BY <2>1, <2>2
<1>7. ASSUME NEW q \in Ranks, Staggered
      PROVE  /\ returned[q] \in {returned[r], returned[r] + 1}
             /\ returned[q] = returned[r] => base[q] = base[r]
             /\ returned[q] = returned[r] + 1 => base[q] = ReturnAt(r)
  <2>1. returned[q] + 1 # returned[r]
    <3>1. SUFFICES ASSUME returned[q] + 1 = returned[r] PROVE FALSE
      OBVIOUS
    <3>2. base[r] = ReturnAt(q) /\ place[q] = "leaving"
      BY <1>1, <1>7, <3>1 DEF Together, Near, StaggerTypeOK
    <3>3. arrived[q] <= ReturnAt(q) /\ ReturnAt(q) \in Nat
      BY <1>1, <3>2, PositionLemma DEF Local
    <3>4. ReturnAt(r) <= arrived[q]
      BY <1>1 DEF Together
    <3>. QED BY <1>1, <1>2, <1>7, <3>2, <3>3, <3>4 DEF StaggerTypeOK
  <2>2. returned[q] <= returned[r] + 1 /\ returned[r] <= returned[q] + 1
    BY <1>1, <1>7 DEF Together, Near
  <2>3. returned[q] \in Nat /\ returned[r] \in Nat
    BY <1>1 DEF StaggerTypeOK
  <2>4. returned[q] \in {returned[r], returned[r] + 1}
    BY <2>1, <2>2, <2>3
  <2>. QED BY <1>1, <1>7, <2>4 DEF Together, Near
<1>8. ASSUME NEW q \in Ranks, q # r, Staggered
      PROVE  Near(r, q)' /\ Near(q, r)'
  <2>1. /\ returned'[r] = returned[r] + 1 /\ returned'[q] = returned[q]
        /\ base'[r] = ReturnAt(r) /\ base'[q] = base[q]
        /\ returned[r] \in Nat /\ returned[q] \in Nat
        /\ place'[q] = place[q]
    BY <1>1, <1>8 DEF StaggerTypeOK
  <2>2. Near(r, q)'
    BY <1>7, <1>8, <2>1 DEF Near
  <2>3. Near(q, r)'
    <3>1. CASE returned[q] = returned[r] + 1
      BY <1>7, <1>8, <2>1, <3>1 DEF Near
    <3>2. CASE returned[q] = returned[r]
      <4>1. base[q] = base[r] /\ InRegion(q)
        BY <1>2, <1>7, <1>8, <3>2 DEF InRegion
      <4>2. ReturnAt(q) = ReturnAt(r)
        BY <1>1, <1>2, <1>8, <3>2, <4>1, SameRegionLemma
      <4>3. place[q] = "leaving"
        <5>1. ReturnAt(r) <= arrived[q] /\ BodyAt(q) < ReturnAt(q)
          BY <1>1, <1>8, <4>1, PositionLemma DEF Together
        <5>2. BodyAt(q) \in Nat /\ ReturnAt(q) \in Nat
          BY <1>1, <4>1, PositionLemma
        <5>3. arrived[q] \in Nat /\ base[q] \in Nat /\ base[q] < ReturnAt(r)
          BY <1>1, <1>2, <1>8, <4>1 DEF StaggerTypeOK
        <5>4. BodyAt(q) < arrived[q] /\ base[q] < arrived[q]
          BY <1>2, <4>2, <5>1, <5>2, <5>3
        <5>5. place[q] \notin {"outside", "entering", "inside"}
          BY <1>1, <5>2, <5>3, <5>4 DEF Local
        <5>. QED BY <1>1, <5>5 DEF StaggerTypeOK
      <4>. QED BY <1>5, <1>8, <2>1, <3>2, <4>2, <4>3 DEF Near
    <3>. QED BY <1>7, <1>8, <3>1, <3>2
  <2>. QED BY <2>2, <2>3
<1>9. ASSUME NEW p \in Ranks, NEW q \in Ranks PROVE Together(p, q)'
  <2>1. passed'[p] <= arrived'[q]
    BY <1>1 DEF Together
  <2>2. ASSUME Staggered PROVE Near(p, q)'
    <3>1. CASE p = r /\ q = r
      BY <1>1, <3>1 DEF Near, StaggerTypeOK
    <3>2. CASE p = r /\ q # r
      BY <1>8, <2>2, <3>2
    <3>3. CASE p # r /\ q = r
      BY <1>8, <2>2, <3>3
    <3>4. CASE p # r /\ q # r
      BY <1>1, <1>5, <2>2, <3>4 DEF Together, Near, StaggerTypeOK
    <3>. QED BY <3>1, <3>2, <3>3, <3>4
  <2>. QED BY <2>1, <2>2 DEF Together
<1>. QED BY <1>4, <1>6, <1>9 DEF IInv

\* One case for each action.
LEMMA StepLemma == IInv /\ [Next]_vars => IInv'
<1>. SUFFICES ASSUME IInv, [Next]_vars PROVE IInv'
  OBVIOUS
<1>1. ASSUME NEW r \in Ranks, Proceed(r) PROVE IInv'
  <2>1. CASE Arrive(r)
    BY <2>1, ArriveLemma
  <2>2. CASE Pass(r)
    BY <2>2, PassLemma
  <2>3. CASE Enter(r) \/ StartBody(r) \/ EndBody(r)
    BY <2>3, MoveLemma
  <2>4. CASE Return(r)
    BY <2>4, ReturnLemma
  <2>. QED BY <1>1, <2>1, <2>2, <2>3, <2>4 DEF Proceed
<1>2. ASSUME NEW r \in Ranks, FailBody(r) \/ Timeout(r) PROVE IInv'
  BY <1>2, FailLemma
<1>3. ASSUME UNCHANGED vars PROVE IInv'
  <2>1. UNCHANGED <<place, returned, base, arrived, passed, failed>>
    BY <1>3 DEF vars
  <2>2. StaggerTypeOK'
    BY <2>1 DEF IInv, StaggerTypeOK
  <2>3. ASSUME NEW q \in Ranks PROVE Local(q)'
    BY <2>1, FrameLemma DEF IInv, Local
  <2>4. ASSUME NEW p \in Ranks, NEW q \in Ranks PROVE Together(p, q)'
    BY <2>1, NearLemma DEF IInv, Together
  <2>. QED BY <2>2, <2>3, <2>4 DEF IInv
<1>. QED BY <1>1, <1>2, <1>3 DEF Next, Settled

\* So it holds in every state.
LEMMA IInvLemma == Spec => []IInv
<1>. QED BY InitLemma, StepLemma, PTL DEF Spec

\* The values of all variables have their types.
THEOREM StaggerTypeCorrect == Spec => []StaggerTypeOK
<1>1. IInv => StaggerTypeOK
  BY DEF IInv
<1>. QED BY <1>1, IInvLemma, PTL

(***************************************************************************)
(* Two ranks inside bodies are in the same region, as the one that is      *)
(* behind would be leaving. Each has passed as many barriers as the other  *)
(* has called, so that their sets are the same.                            *)
(***************************************************************************)
LEMMA SameSetLemma ==
  ASSUME IInv, Staggered, NEW r \in Inside, NEW q \in Inside
  PROVE  r \div Limit = q \div Limit
<1>1. /\ StaggerTypeOK /\ r \in Ranks /\ q \in Ranks
      /\ place[r] = "inside" /\ place[q] = "inside"
      /\ Local(r) /\ Local(q) /\ Together(r, q) /\ Together(q, r)
  BY DEF IInv, Inside
<1>2. returned[r] = returned[q] /\ base[r] = base[q]
  <2>1. /\ returned[r] \in Nat /\ returned[q] \in Nat
        /\ returned[r] <= returned[q] + 1 /\ returned[q] <= returned[r] + 1
        /\ returned[r] # returned[q] + 1 /\ returned[q] # returned[r] + 1
    BY <1>1 DEF Together, Near, StaggerTypeOK
  <2>2. returned[r] = returned[q]
    BY <2>1
  <2>. QED BY <1>1, <2>2 DEF Together, Near
<1>3. InRegion(r) /\ InRegion(q)
  BY <1>1 DEF Local
<1>4. BodyAt(r) = BodyAt(q)
  <2>1. BodyAt(r) \in Nat /\ BodyAt(q) \in Nat
    BY <1>1, <1>3, PositionLemma
  <2>2. BodyAt(r) <= BodyAt(q) /\ BodyAt(q) <= BodyAt(r)
    BY <1>1 DEF Local, Together
  <2>. QED BY <2>1, <2>2
<1>5. Before(r) = Before(q)
  BY <1>1, <1>2, <1>3, <1>4, SameRegionLemma
<1>. QED BY <1>1, <1>5, CountLemma

\* No more than Limit processes run a body at the same time.
THEOREM ConcurrencyIsLimited == Spec => []ConcurrencyLimit
<1>1. IInv => ConcurrencyLimit
  <2>. SUFFICES ASSUME IInv, Limit > 0 PROVE Cardinality(Inside) <= Limit
    BY DEF ConcurrencyLimit
  <2>1. Limit \in Nat \ {0} /\ WorldSize \in Nat \ {0}
    BY StaggerAssumption
  <2>2. IsFiniteSet(Ranks) /\ Cardinality(Ranks) = WorldSize
    <3>1. 0 \in Int /\ WorldSize - 1 \in Int
      BY <2>1
    <3>. QED BY <2>1, <3>1, FS_Interval DEF Ranks
  <2>3. CASE ~Staggered
    <3>1. WorldSize <= Limit
      BY <2>1, <2>3 DEF Staggered
    <3>2. IsFiniteSet(Inside) /\ Cardinality(Inside) <= WorldSize
      BY <2>2, FS_Subset DEF Inside
    <3>3. Cardinality(Inside) \in Nat
      BY <3>2, FS_CardinalityType
    <3>. QED BY <2>1, <3>1, <3>2, <3>3
  <2>4. CASE Staggered /\ Inside = {}
    BY <2>1, <2>4, FS_EmptySet
  <2>5. CASE Staggered /\ Inside # {}
    <3>1. PICK q \in Inside : TRUE
      BY <2>5
    <3> DEFINE set == q \div Limit
    <3>2. set \in Nat
      BY <2>1, <3>1, DivLemma DEF Inside, Ranks
    <3>3. ASSUME NEW r \in Inside
          PROVE  r \in set * Limit .. set * Limit + Limit - 1
      <4>1. r \in Nat /\ r \div Limit = set
        BY <2>5, <3>1, SameSetLemma DEF Inside, Ranks
      <4>2. set * Limit <= r /\ r < (set + 1) * Limit
        BY <2>1, <4>1, DivLemma
      <4>3. (set + 1) * Limit = set * Limit + Limit /\ set * Limit \in Nat
        BY <2>1, <3>2
      <4>. QED BY <2>1, <4>1, <4>2, <4>3
    <3> DEFINE first == set * Limit
    <3>4. first \in Nat
      BY <2>1, <3>2
    <3>. HIDE DEF set, first
    <3>5. /\ IsFiniteSet(first .. first + Limit - 1)
          /\ Cardinality(first .. first + Limit - 1) = Limit
      <4>1. first \in Int /\ first + Limit - 1 \in Int
        BY <2>1, <3>4
      <4>. QED BY <2>1, <3>4, <4>1, FS_Interval
    <3>. QED BY <3>3, <3>5, FS_Subset, ZenonT(60) DEF first
  <2>. QED BY <2>3, <2>4, <2>5
<1>. QED BY <1>1, IInvLemma, PTL

\* A rank that is back from a region knows that all have run its body.
THEOREM ReturnsWhenComplete == Spec => []AllCompleteBeforeReturn
<1>1. IInv => AllCompleteBeforeReturn
  <2>. SUFFICES ASSUME IInv, Staggered, NEW r \in Ranks, NEW q \in Ranks
                PROVE  returned[r] <= Bodies(q)
    BY DEF AllCompleteBeforeReturn
  <2>1. /\ returned[r] \in Nat /\ returned[q] \in Nat
        /\ returned[r] <= returned[q] + 1
        /\ returned[r] = returned[q] + 1 => place[q] = "leaving"
    BY DEF IInv, Together, Near, StaggerTypeOK
  <2>. QED BY <2>1 DEF Bodies
<1>. QED BY <1>1, IInvLemma, PTL

(***************************************************************************)
(* If a rank waits in an incomplete barrier, one that has not called it    *)
(* runs, or waits in the barrier before, which is complete as the first    *)
(* rank has passed it. It cannot be through: the first one is not ahead.   *)
(***************************************************************************)
THEOREM BarriersNeverDeadlock == Spec => []NoDeadlock
<1>1. IInv => NoDeadlock
  <2>. SUFFICES ASSUME IInv, NEW r \in Ranks, ~Through(r),
                       Waiting(r), ~Complete(r)
                PROVE  \E q \in Ranks :
                         IF Waiting(q) THEN Complete(q) ELSE ~Through(q)
    BY DEF NoDeadlock
  <2>1. /\ StaggerTypeOK /\ \A p \in Ranks : Local(p)
        /\ \A p, q \in Ranks : Together(p, q)
    BY DEF IInv
  <2>2. PICK q \in Ranks : arrived[q] < arrived[r]
    BY <2>1 DEF Complete, StaggerTypeOK
  <2>3. passed[r] = arrived[q]
    BY <2>1, <2>2, SMTT(60) DEF Local, Together, StaggerTypeOK
  <2>4. CASE Waiting(q)
    <3>1. \A p \in Ranks : arrived[p] >= arrived[q]
      BY <2>1, <2>3 DEF Together, StaggerTypeOK
    <3>. QED BY <2>4, <3>1 DEF Complete
  <2>5. CASE ~Waiting(q) /\ Through(q)
    <3>1. Staggered
      <4>1. SUFFICES ASSUME ~Staggered PROVE FALSE
        OBVIOUS
      <4>2. place[r] # "outside" /\ InRegion(r)
        BY <2>1, SMTT(60) DEF Local, Waiting, StaggerTypeOK
      <4>3. BodyAt(r) = 0 /\ ReturnAt(r) = 0
        BY <2>1, <4>1, <4>2, PositionLemma DEF Local
      <4>4. /\ place[r] \in {"entering", "inside", "leaving"} /\ Local(r)
            /\ arrived[r] \in Nat /\ arrived[q] \in Nat
        BY <2>1, <4>2 DEF StaggerTypeOK
      <4>5. arrived[r] <= 0
        BY <4>3, <4>4 DEF Local
      <4>. QED BY <2>2, <4>4, <4>5
    <3>2. place[r] # "outside" /\ InRegion(r)
      BY <2>1 DEF Local, Waiting, StaggerTypeOK
    <3>3. returned[q] = returned[r] + 1 /\ base[q] = ReturnAt(r)
      BY <2>1, <2>5, <3>1, <3>2
         DEF Through, InRegion, Together, Near, StaggerTypeOK
    <3>4. arrived[r] <= ReturnAt(r) /\ arrived[q] = base[q]
      BY <2>1, <2>5, <3>1, <3>3 DEF Through, Together, Near, Local
    <3>5. ReturnAt(r) \in Nat
      BY <2>1, <3>2, PositionLemma
    <3>. QED BY <2>1, <2>2, <3>3, <3>4, <3>5 DEF StaggerTypeOK
  <2>6. CASE ~Waiting(q) /\ ~Through(q)
    BY <2>6
  <2>. QED BY <2>4, <2>5, <2>6
<1>. QED BY <1>1, IInvLemma, PTL
=============================================================================
