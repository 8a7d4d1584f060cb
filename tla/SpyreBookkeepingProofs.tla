------------------------ MODULE SpyreBookkeepingProofs ------------------------
(***************************************************************************)
(* The arithmetic of blocks that the proofs about the engine rest on, and  *)
(* the first of those proofs, for all values of the constants.             *)
(*                                                                         *)
(* The variables keep their types, and the scheduler's lists stay in step  *)
(* with each other and with the runner: at most one request prefills, it   *)
(* is a running one, and never more than max_num_seqs requests run. From   *)
(* this follows that scheduler and runner agree on each batch, and that    *)
(* the engine implements continuous batching.                              *)
(***************************************************************************)
EXTENDS SpyreEngine, SequenceLemmas

-----------------------------------------------------------------------------
(***************************************************************************)
(* Division by a block or a chunk stays within the integers, and within    *)
(* the natural numbers for counts of tokens.                               *)
(***************************************************************************)
LEMMA DivType ==
  ASSUME NEW a \in Int, NEW b \in Nat \ {0}
  PROVE  /\ a \div b \in Int
         /\ a >= 0 => a \div b \in Nat
         /\ a % b \in Int
OBVIOUS

\* A number of tokens takes a whole number of blocks.
LEMMA BlocksForType ==
  ASSUME NEW n \in Int
  PROVE  BlocksFor(n) \in Int
BY BlockAssumption, DivType DEF BlocksFor, CeilDiv

\* The chunk size is a positive number of tokens.
LEMMA ChunkSizeType == ChunkSize \in Nat \ {0}
BY BlockAssumption DEF ChunkSize

\* The larger and the smaller of two integers are integers.
LEMMA LargerType ==
  ASSUME NEW a \in Int, NEW b \in Int
  PROVE  Larger(a, b) \in Int /\ Smaller(a, b) \in Int
BY DEF Larger, Smaller

\* The multiples of b around a.
LEMMA DivBounds ==
  ASSUME NEW a \in Int, NEW b \in Nat \ {0}
  PROVE  (a \div b) * b <= a /\ a < (a \div b) * b + b
OBVIOUS

\* Fewer blocks hold fewer tokens.
LEMMA ProductMonotonic ==
  ASSUME NEW a \in Int, NEW b \in Int, NEW c \in Nat, a <= b
  PROVE  a * c <= b * c
<1>1. PICK d \in Nat : b = a + d
  <2>1. b - a \in Nat /\ b = a + (b - a)
    OBVIOUS
  <2> QED BY <2>1
<1>2. b * c = a * c + d * c
  BY <1>1
<1>3. a * c \in Int /\ d * c \in Nat
  BY <1>1
<1> QED BY <1>2, <1>3
-----------------------------------------------------------------------------
\* A quotient is known by the multiples around its dividend.
LEMMA DivUnique ==
  ASSUME NEW a \in Int, NEW b \in Nat \ {0}, NEW q \in Int,
         q * b <= a, a < q * b + b
  PROVE  a \div b = q
<1> DEFINE d == a \div b
<1>1. d \in Int /\ d * b <= a /\ a < d * b + b
  BY DivType, DivBounds
<1> HIDE DEF d
<1>2. d * b \in Int /\ q * b \in Int
  BY <1>1
<1>3. ~(d + 1 <= q)
  <2> SUFFICES ASSUME d + 1 <= q PROVE FALSE
    OBVIOUS
  <2>1. (d + 1) * b <= q * b
    BY <1>1, ProductMonotonic
  <2>2. (d + 1) * b = d * b + b
    BY <1>1
  <2> QED BY <1>1, <1>2, <2>1, <2>2
<1>4. ~(q + 1 <= d)
  <2> SUFFICES ASSUME q + 1 <= d PROVE FALSE
    OBVIOUS
  <2>1. (q + 1) * b <= d * b
    BY <1>1, ProductMonotonic
  <2>2. (q + 1) * b = q * b + b
    OBVIOUS
  <2> QED BY <1>1, <1>2, <2>1, <2>2
<1>5. d = q
  BY <1>1, <1>3, <1>4
<1> QED BY <1>5 DEF d

\* Larger dividends have larger quotients.
LEMMA DivMonotonic ==
  ASSUME NEW a \in Int, NEW c \in Int, NEW b \in Nat \ {0}, a <= c
  PROVE  a \div b <= c \div b
<1> DEFINE d == a \div b
           e == c \div b
<1>1. /\ d \in Int /\ d * b <= a /\ a < d * b + b
      /\ e \in Int /\ e * b <= c /\ c < e * b + b
  BY DivType, DivBounds
<1> HIDE DEF d, e
<1>2. d * b \in Int /\ e * b \in Int
  BY <1>1
<1>3. ~(e + 1 <= d)
  <2> SUFFICES ASSUME e + 1 <= d PROVE FALSE
    OBVIOUS
  <2>1. (e + 1) * b <= d * b
    BY <1>1, ProductMonotonic
  <2>2. (e + 1) * b = e * b + b
    BY <1>1
  <2> QED BY <1>1, <1>2, <2>1, <2>2
<1>4. d <= e
  BY <1>1, <1>3
<1> QED BY <1>4 DEF d, e

\* More tokens take more blocks.
LEMMA BlocksForMonotonic ==
  ASSUME NEW m \in Int, NEW n \in Int, m <= n
  PROVE  BlocksFor(m) <= BlocksFor(n)
<1>1. m + BlockSize - 1 <= n + BlockSize - 1
      /\ m + BlockSize - 1 \in Int /\ n + BlockSize - 1 \in Int
  BY BlockAssumption
<1> QED BY <1>1, BlockAssumption, DivMonotonic DEF BlocksFor, CeilDiv

\* The least number of blocks that hold n tokens.
LEMMA BlocksForBounds ==
  ASSUME NEW n \in Int
  PROVE  /\ BlocksFor(n) \in Int
         /\ BlocksFor(n) * BlockSize \in Int
         /\ n <= BlocksFor(n) * BlockSize
         /\ BlocksFor(n) * BlockSize <= n + BlockSize - 1
<1> DEFINE b == BlocksFor(n)
<1>1. BlockSize \in Nat \ {0} /\ n + BlockSize - 1 \in Int
  BY BlockAssumption
<1>2. b \in Int /\ b * BlockSize <= n + BlockSize - 1
      /\ n + BlockSize - 1 < b * BlockSize + BlockSize
  BY <1>1, BlocksForType, DivBounds DEF BlocksFor, CeilDiv
<1> HIDE DEF b
<1>3. b * BlockSize \in Int
  BY <1>1, <1>2
<1>4. n <= b * BlockSize
  BY <1>1, <1>2, <1>3
<1> QED BY <1>2, <1>3, <1>4 DEF b

\* Blocks between the right bounds are the blocks of n tokens.
LEMMA BlocksForUnique ==
  ASSUME NEW n \in Int, NEW b \in Int,
         n <= b * BlockSize, b * BlockSize <= n + BlockSize - 1
  PROVE  BlocksFor(n) = b
<1>1. BlockSize \in Nat \ {0} /\ n + BlockSize - 1 \in Int /\ b * BlockSize \in Int
  BY BlockAssumption
<1>2. n + BlockSize - 1 < b * BlockSize + BlockSize
  BY <1>1
<1> QED BY <1>1, <1>2, DivUnique DEF BlocksFor, CeilDiv

\* The token after n tokens falls into the last of n + 1 tokens' blocks.
LEMMA BlocksForNext ==
  ASSUME NEW n \in Int
  PROVE  BlocksFor(n + 1) = n \div BlockSize + 1
<1> DEFINE d == n \div BlockSize
<1>1. BlockSize \in Nat \ {0}
  BY BlockAssumption
<1>2. d \in Int /\ d * BlockSize <= n /\ n < d * BlockSize + BlockSize
  BY <1>1, DivType, DivBounds
<1> HIDE DEF d
<1>3. (d + 1) * BlockSize = d * BlockSize + BlockSize /\ d * BlockSize \in Int
  BY <1>1, <1>2
<1>4. n + 1 <= (d + 1) * BlockSize /\ (d + 1) * BlockSize <= (n + 1) + BlockSize - 1
  BY <1>1, <1>2, <1>3
<1>5. BlocksFor(n + 1) = d + 1
  BY <1>2, <1>4, BlocksForUnique
<1> QED BY <1>5 DEF d

\* Numbers of tokens take numbers of blocks, and no token takes none.
LEMMA BlocksForNat ==
  ASSUME NEW n \in Nat
  PROVE  BlocksFor(n) \in Nat /\ BlocksFor(0) = 0
<1>1. BlockSize \in Nat \ {0}
  BY BlockAssumption
<1>2. BlocksFor(0) = 0
  BY <1>1, BlocksForUnique
<1>3. BlocksFor(0) <= BlocksFor(n) /\ BlocksFor(n) \in Int
  BY BlocksForMonotonic, BlocksForType
<1> QED BY <1>2, <1>3

\* Tokens fit into b blocks if they need no more.
LEMMA WithinBlocks ==
  ASSUME NEW t \in Int, NEW b \in Int
  PROVE  t <= b * BlockSize <=> BlocksFor(t) <= b
<1>1. BlockSize \in Nat \ {0} /\ b * BlockSize \in Int
  BY BlockAssumption
<1>2. /\ BlocksFor(t) \in Int /\ BlocksFor(t) * BlockSize \in Int
      /\ t <= BlocksFor(t) * BlockSize
  BY BlocksForBounds
<1>3. ASSUME BlocksFor(t) <= b PROVE t <= b * BlockSize
  <2>1. BlocksFor(t) * BlockSize <= b * BlockSize
    BY <1>1, <1>2, <1>3, ProductMonotonic
  <2> QED BY <1>1, <1>2, <2>1
<1>4. ASSUME t <= b * BlockSize PROVE BlocksFor(t) <= b
  <2>1. BlocksFor(t) <= BlocksFor(b * BlockSize)
    BY <1>1, <1>4, BlocksForMonotonic
  <2>2. BlocksFor(b * BlockSize) = b
    BY <1>1, BlocksForUnique
  <2> QED BY <2>1, <2>2
<1> QED BY <1>3, <1>4
-----------------------------------------------------------------------------
\* What TypeOK says of types; its bound on the token counts is not among them.
Types ==
  /\ SchedTypeOK
  /\ RunnerTypeOK
  /\ OutputsTypeOK
  /\ phase \in Phases

\* The empty messages are messages.
LEMMA EmptyMessages ==
  /\ NoSchedulerOutput \in SchedulerOutputs
  /\ EmptyOutput \in ModelOutputs
BY DEF NoSchedulerOutput, SchedulerOutputs, EmptyOutput, ModelOutputs, Nothing

\* The initial values have their types.
LEMMA InitTypes == Init => Types
<1> SUFFICES ASSUME Init PROVE Types
  OBVIOUS
<1>1. SchedTypeOK
  <2>1. <<>> \in Seq(Requests)
    OBVIOUS
  <2>2. prev_prefill \in BOOLEAN
    BY Zenon DEF Init, SchedInit
  <2> QED BY <2>1, <2>2 DEF Init, SchedInit, SchedTypeOK
<1>2. RunnerTypeOK
  <2>1. Unknown \in RequestStates
    BY DEF Unknown, RequestStates
  <2>2. NoInput \in ModelInputs
    BY DEF NoInput, ModelInputs, Kinds
  <2>3. Nothing \in [Requests -> Int]
    BY DEF Nothing
  <2> QED BY <2>1, <2>2, <2>3 DEF Init, RunnerInit, RunnerTypeOK
<1>3. OutputsTypeOK /\ phase \in Phases
  BY EmptyMessages DEF Init, OutputsTypeOK, Phases
<1> QED BY <1>1, <1>2, <1>3 DEF Types
-----------------------------------------------------------------------------
\* Freeing requests keeps the types of what it changes.
LEMMA FreeTypes ==
  ASSUME SchedTypeOK, NEW gone \in SUBSET Requests, Free(gone)
  PROVE  /\ running' \in SUBSET Requests
         /\ finished_ids' \in SUBSET Requests
         /\ kv_blocks' \in [Requests -> Int]
BY DEF SchedTypeOK, Free

\* A request arrives.
LEMMA ArriveTypes ==
  ASSUME Types, NEW r \in Requests, NEW p \in PromptLens, NEW m \in OutputLens,
         Arrive(r, p, m)
  PROVE  Types'
<1>1. p \in Nat /\ m \in Nat
  BY WorkloadAssumption
<1>2. waiting' \in Seq(Requests)
  BY AppendProperties DEF Types, SchedTypeOK, Arrive, AddRequest
<1> QED
  BY <1>1, <1>2 DEF Types, SchedTypeOK, RunnerTypeOK, OutputsTypeOK, Arrive,
    AddRequest, kvVars, runnerVars

\* The queue without its i-th element is a queue.
LEMMA WaitingWithoutType ==
  ASSUME waiting \in Seq(Requests), NEW i \in 1 .. Len(waiting)
  PROVE  /\ WaitingWithout(i) \in Seq(Requests)
         /\ Len(WaitingWithout(i)) = Len(waiting) - 1
<1>1. Len(waiting) - 1 \in Nat
  BY LenProperties
<1>2. \A j \in 1 .. Len(waiting) - 1 : waiting[IF j < i THEN j ELSE j + 1] \in Requests
  BY <1>1, ElementOfSeq, LenProperties
<1>3. WaitingWithout(i) \in [1 .. Len(waiting) - 1 -> Requests]
  BY <1>2 DEF WaitingWithout
<1> QED
  BY <1>1, <1>3, IsASeq, LenProperties DEF WaitingWithout

\* A client gives up a request.
LEMMA AbortTypes ==
  ASSUME Types, NEW r \in Requests, Abort(r)
  PROVE  Types'
<1>1. waiting' \in Seq(Requests)
  BY WaitingWithoutType DEF Types, SchedTypeOK, Abort, FinishRequest
<1>2. ongoing' \in SUBSET Requests
  BY DEF Types, SchedTypeOK, Abort, FinishRequest, OngoingWithout
<1>3. Free({r}) /\ {r} \in SUBSET Requests
  BY DEF Abort, FinishRequest
<1> QED
  BY <1>1, <1>2, <1>3, FreeTypes
  DEF Types, SchedTypeOK, RunnerTypeOK, OutputsTypeOK, Abort, FinishRequest,
      requestVars, runnerVars
-----------------------------------------------------------------------------
\* The requests at the head of the queue are requests.
LEMMA ReleasedType ==
  ASSUME SchedTypeOK, NEW n \in 0 .. Len(waiting)
  PROVE  {waiting[i] : i \in 1 .. n} \subseteq Requests
BY ElementOfSeq, LenProperties DEF SchedTypeOK

\* A hit is a number of blocks.
LEMMA HitType ==
  ASSUME NEW released, NEW hit \in IF released = {} THEN {0}
                                   ELSE UNION {PossibleHits(r) : r \in released}
  PROVE  hit \in Nat
<1>1. CASE released = {}
  BY <1>1
<1>2. CASE released # {}
  <2>1. PICK r \in released : hit \in PossibleHits(r)
    BY <1>2
  <2>2. hit \in 0 .. (prompt_len[r] - 1) \div BlockSize
    BY <2>1 DEF PossibleHits
  <2> QED BY <2>2
<1> QED BY <1>1, <1>2

\* The tokens a step starts from and hands out are integers.
LEMMA StepTypes ==
  ASSUME SchedTypeOK, NEW seen, NEW released, NEW hit \in Nat
  PROVE  /\ StepStart(released, hit) \in [Requests -> Int]
         /\ StepTokens(seen, released, hit) \in [Requests -> Int]
<1>1. hit * BlockSize \in Int
  BY BlockAssumption
<1>2. StepStart(released, hit) \in [Requests -> Int]
  BY <1>1 DEF StepStart, SchedTypeOK
<1>3. \A r \in Requests :
        /\ prompt_len[r] - hit * BlockSize \in Int
        /\ prompt_len[r] + num_output[r] - num_computed[r] \in Int
  BY <1>1 DEF SchedTypeOK
<1>4. \A r \in Requests :
        /\ Smaller(prompt_len[r] - hit * BlockSize, ChunkSize) \in Int
        /\ RunningTokens(r) \in Int
  <2>1. ChunkSize \in Int
    BY ChunkSizeType
  <2>2. \A a \in Int : Smaller(a, ChunkSize) \in Int
    BY <2>1, LargerType
  <2> QED BY <1>3, <2>2 DEF RunningTokens
<1>5. StepTokens(seen, released, hit) \in [Requests -> Int]
  BY <1>4 DEF StepTokens
<1> QED BY <1>2, <1>5

\* What the base scheduler changes keeps its type.
LEMMA BaseScheduleTypes ==
  ASSUME SchedTypeOK, NEW seen \in SUBSET Requests, NEW released \in SUBSET Requests,
         NEW hit \in Nat, BaseSchedule(seen, released, hit)
  PROVE  /\ num_computed' \in [Requests -> Int]
         /\ running' \in SUBSET Requests
         /\ kv_blocks' \in [Requests -> Int]
         /\ cached' \in SUBSET Nat
         /\ finished_ids' \in SUBSET Requests
         /\ scheduler_output' \in SchedulerOutputs
<1> DEFINE start == StepStart(released, hit)
           tokens == StepTokens(seen, released, hit)
           scheduled == {r \in Requests : tokens[r] > 0}
<1>1. start \in [Requests -> Int] /\ tokens \in [Requests -> Int]
  BY StepTypes
<1>2. num_computed' = [r \in Requests |-> start[r] + tokens[r]]
  BY DEF BaseSchedule
<1>3. kv_blocks' = [r \in Requests |->
        IF r \in scheduled THEN Larger(kv_blocks[r], BlocksFor(start[r] + tokens[r]))
        ELSE kv_blocks[r]]
  BY DEF BaseSchedule
<1>4. cached' = IF PrefixCaching
        THEN cached \cup UNION {1 .. (start[r] + tokens[r]) \div BlockSize :
                                  r \in scheduled}
        ELSE cached
  BY DEF BaseSchedule
<1>5. scheduler_output' =
        [new        |-> released,
         prompt     |-> [r \in Requests |-> IF r \in released THEN prompt_len[r] ELSE 0],
         cached     |-> scheduled \ released,
         computed   |-> [r \in Requests |-> IF r \in scheduled THEN start[r] ELSE 0],
         tokens     |-> tokens,
         new_blocks |-> [r \in Requests |-> kv_blocks'[r] - kv_blocks[r]],
         finished   |-> finished_ids]
  BY DEF BaseSchedule
<1>6. running' = running \cup released /\ finished_ids' = {}
  BY DEF BaseSchedule
<1> HIDE DEF start, tokens
<1>7. \A r \in Requests : BlocksFor(start[r] + tokens[r]) \in Int
  BY <1>1, BlocksForType
<1>8. kv_blocks' \in [Requests -> Int]
  BY <1>3, <1>7, LargerType DEF SchedTypeOK
<1>9. cached' \in SUBSET Nat
  <2>1. \A r \in scheduled : 1 .. (start[r] + tokens[r]) \div BlockSize \subseteq Nat
    OBVIOUS
  <2> QED BY <1>4, <2>1 DEF SchedTypeOK
<1>10. scheduler_output' \in SchedulerOutputs
  <2>1. [r \in Requests |-> IF r \in released THEN prompt_len[r] ELSE 0]
          \in [Requests -> Nat]
    BY DEF SchedTypeOK
  <2>2. [r \in Requests |-> IF r \in scheduled THEN start[r] ELSE 0]
          \in [Requests -> Int]
    BY <1>1
  <2>3. [r \in Requests |-> kv_blocks'[r] - kv_blocks[r]] \in [Requests -> Int]
    BY <1>8 DEF SchedTypeOK
  <2>4. scheduled \ released \in SUBSET Requests /\ finished_ids \in SUBSET Requests
    BY DEF SchedTypeOK
  <2> QED BY <1>1, <1>5, <2>1, <2>2, <2>3, <2>4 DEF SchedulerOutputs
<1> QED BY <1>1, <1>2, <1>6, <1>8, <1>9, <1>10 DEF SchedTypeOK

\* A step is scheduled.
LEMMA ScheduleTypes ==
  ASSUME Types, ScheduleStep
  PROVE  Types'
<1>1. PICK n \in 0 .. Len(waiting) :
        LET released == {waiting[i] : i \in 1 .. n}
            hits     == IF released = {} THEN {0}
                        ELSE UNION {PossibleHits(r) : r \in released}
        IN /\ \E hit \in hits : BaseSchedule(Visible(n), released, hit)
           /\ waiting' = SubSeq(waiting, n + 1, Len(waiting))
           /\ ongoing' = IF ongoing = {} THEN released ELSE ongoing
           /\ prev_prefill' = SchedulesPrefill(n)
  BY Zenon DEF ScheduleStep, Schedule
<1> DEFINE released == {waiting[i] : i \in 1 .. n}
<1>2. released \in SUBSET Requests
  BY ReleasedType DEF Types
<1>3. PICK hit \in Nat : BaseSchedule(Visible(n), released, hit)
  BY <1>1, HitType
<1>4. Visible(n) \in SUBSET Requests
  BY DEF Visible, Decoding, Types, SchedTypeOK
<1>5. waiting' \in Seq(Requests)
  <2>1. \A i \in n + 1 .. Len(waiting) : waiting[i] \in Requests
    BY ElementOfSeq, LenProperties DEF Types, SchedTypeOK
  <2>2. n + 1 \in Int /\ Len(waiting) \in Int
    BY LenProperties DEF Types, SchedTypeOK
  <2> QED BY <1>1, <2>1, <2>2, SubSeqProperties
<1>6. ongoing' \in SUBSET Requests
  BY <1>1, <1>2 DEF Types, SchedTypeOK
<1>7. prev_prefill' \in BOOLEAN
  <2>1. SchedulesPrefill(n) \in BOOLEAN
    <3>1. CASE ongoing # {}
      BY <3>1, Zenon DEF SchedulesPrefill
    <3>2. CASE ongoing = {}
      BY <3>2 DEF SchedulesPrefill
    <3> QED BY <3>1, <3>2
  <2> QED BY <1>1, <2>1, Zenon
<1> HIDE DEF released
<1>8. /\ num_computed' \in [Requests -> Int]
      /\ running' \in SUBSET Requests
      /\ kv_blocks' \in [Requests -> Int]
      /\ cached' \in SUBSET Nat
      /\ finished_ids' \in SUBSET Requests
      /\ scheduler_output' \in SchedulerOutputs
  BY <1>2, <1>3, <1>4, BaseScheduleTypes DEF Types
<1>9. UNCHANGED <<prompt_len, max_tokens, num_output, tkv, model_output, runnerVars>>
  BY DEF ScheduleStep, Schedule
<1>10. phase' \in Phases
  BY DEF ScheduleStep, Phases
<1>11. SchedTypeOK'
  BY <1>5, <1>6, <1>7, <1>8, <1>9 DEF Types, SchedTypeOK
<1>12. RunnerTypeOK' /\ OutputsTypeOK'
  BY <1>8, <1>9 DEF Types, RunnerTypeOK, OutputsTypeOK, runnerVars
<1> QED BY <1>10, <1>11, <1>12 DEF Types
-----------------------------------------------------------------------------
\* The numbers of the chunk plan are integers.
LEMMA PlanTypes ==
  ASSUME NEW p \in Int, NEW hit \in Int
  PROVE  /\ ChunkCount(p) \in Int
         /\ PaddingBlocks(p) \in Int
         /\ UsableBlocks(p, hit) \in Int
<1>1. ChunkCount(p) \in Int
  <2>1. p + ChunkSize - 1 \in Int /\ ChunkSize \in Nat \ {0}
    BY ChunkSizeType
  <2> QED BY <2>1, DivType DEF ChunkCount, CeilDiv
<1>2. BlocksFor(p) \in Int
  BY BlocksForType
<1>3. PaddingBlocks(p) \in Int
  BY <1>1, <1>2, BlockAssumption DEF PaddingBlocks
<1>4. CachedChunks(p, hit) \in Int
  <2>1. (PaddingBlocks(p) + hit) \div ChunkBlocks \in Int
    BY <1>3, BlockAssumption, DivType
  <2> QED BY <2>1, <1>1 DEF CachedChunks
<1>5. CachedChunks(p, hit) * ChunkBlocks - PaddingBlocks(p) \in Int
  BY <1>3, <1>4, BlockAssumption
<1>6. UsableBlocks(p, hit) \in Int
  BY <1>5, LargerType DEF UsableBlocks
<1> QED BY <1>1, <1>3, <1>6

\* The state of a new request is a request state.
LEMMA NewRequestType ==
  ASSUME NEW p \in Nat, NEW computed \in Int, NEW blocks \in Int
  PROVE  NewRequest(p, computed, blocks) \in RequestStates
<1> DEFINE hit == IF PrefixCaching THEN computed \div BlockSize ELSE 0
<1>1. hit \in Int
  BY BlockAssumption, DivType
<1>2. p \in Int
  OBVIOUS
<1>3. NewRequest(p, computed, blocks) =
        [prompt_len |-> p, num_computed |-> computed, num_blocks |-> blocks,
         chunk_count |-> ChunkCount(p), padding_blocks |-> PaddingBlocks(p),
         usable_blocks |-> UsableBlocks(p, hit), total_hit |-> hit]
  BY DEF NewRequest
<1> HIDE DEF hit
<1> QED BY <1>1, <1>2, <1>3, PlanTypes DEF RequestStates

\* The numbers of a chunk's input are integers.
LEMMA PrefillInputType ==
  ASSUME NEW r \in Requests, NEW s \in RequestStates
  PROVE  PrefillInput(r, s) \in ModelInputs
<1>1. /\ s.prompt_len \in Int /\ s.num_computed \in Int /\ s.num_blocks \in Int
      /\ s.padding_blocks \in Int /\ s.usable_blocks \in Int /\ s.total_hit \in Int
  BY DEF RequestStates
<1>2. /\ BlockSize \in Int /\ ChunkSize \in Int /\ ChunkBlocks \in Int
      /\ ChunkBlocks \in Nat \ {0} /\ ChunkSize \in Nat \ {0}
  BY BlockAssumption, ChunkSizeType
<1>3. LeftPadding(s) \in Int
  BY <1>1, <1>2 DEF LeftPadding
<1>4. ChunkIndex(s) \in Int
  BY <1>1, <1>2, <1>3, DivType DEF ChunkIndex
<1>5. ChunkBase(s) \in Int
  BY <1>2, <1>3, <1>4 DEF ChunkBase
<1>6. BlocksToRecompute(s) \in Int
  BY <1>1 DEF BlocksToRecompute
<1>7. /\ ChunkBase(s) + BlocksToRecompute(s) * BlockSize \in Int
      /\ ChunkBase(s) + ChunkSize \in Int
      /\ s.padding_blocks + s.num_blocks \in Int
      /\ (ChunkIndex(s) + 1) * ChunkBlocks \in Int
  BY <1>1, <1>2, <1>4, <1>5, <1>6
<1>8. /\ Larger(0, ChunkBase(s) + BlocksToRecompute(s) * BlockSize) \in Int
      /\ Smaller(ChunkBase(s) + ChunkSize, s.prompt_len) \in Int
      /\ Smaller(s.padding_blocks + s.num_blocks, (ChunkIndex(s) + 1) * ChunkBlocks)
           \in Int
  <2>1. Larger(0, ChunkBase(s) + BlocksToRecompute(s) * BlockSize) \in Int
    BY <1>7, LargerType
  <2>2. Smaller(ChunkBase(s) + ChunkSize, s.prompt_len) \in Int
    BY <1>1, <1>7, LargerType
  <2>3. Smaller(s.padding_blocks + s.num_blocks, (ChunkIndex(s) + 1) * ChunkBlocks)
          \in Int
    BY <1>7, LargerType
  <2> QED BY <2>1, <2>2, <2>3
<1> QED BY <1>4, <1>5, <1>8 DEF PrefillInput, ModelInputs, Kinds

\* The tkv of the joint batch is an integer.
LEMMA JoinedTkvType ==
  ASSUME NEW p \in Int, NEW t \in Int
  PROVE  JoinedTkv(p, t) \in Int
<1> DEFINE base == (Larger(BlocksFor(p), BlocksFor(t)) - 1) * BlockSize
<1>1. Larger(BlocksFor(p), BlocksFor(t)) \in Int
  BY BlocksForType, LargerType
<1>2. base \in Int
  BY <1>1, BlockAssumption
<1>3. (p - 1) % BlockSize \in Int /\ (t - 1) % BlockSize \in Int
  BY BlockAssumption, DivType
<1> HIDE DEF base
<1>4. base + ((p - 1) % BlockSize) + 1 \in Int /\ base + ((t - 1) % BlockSize) + 1 \in Int
  BY <1>2, <1>3
<1> QED BY <1>4, LargerType DEF JoinedTkv, base

\* A state stays a state when its counts change.
LEMMA StateUpdateType ==
  ASSUME NEW s \in RequestStates, NEW c \in Int, NEW b \in Int
  PROVE  /\ [s EXCEPT !.num_computed = c, !.num_blocks = @ + b] \in RequestStates
         /\ [s EXCEPT !.padding_blocks = b] \in RequestStates
<1>1. s.num_blocks \in Int
  BY DEF RequestStates
<1>2. s.num_blocks + b \in Int
  BY <1>1
<1> QED BY <1>2 DEF RequestStates

\* The runner's states after _update_batch.
LEMMA UpdatedRequestsType ==
  ASSUME RunnerTypeOK, OutputsTypeOK
  PROVE  UpdatedRequests \in [Requests -> RequestStates]
<1>1. ASSUME NEW r \in Requests
      PROVE  [requests[r] EXCEPT
                !.num_computed = scheduler_output.computed[r],
                !.num_blocks   = @ + scheduler_output.new_blocks[r]] \in RequestStates
  <2>1. scheduler_output.computed[r] \in Int /\ scheduler_output.new_blocks[r] \in Int
    BY DEF OutputsTypeOK, SchedulerOutputs
  <2>2. requests[r] \in RequestStates
    BY DEF RunnerTypeOK
  <2> QED BY <2>1, <2>2, StateUpdateType
<1>2. \A r \in Requests : requests[r] \in RequestStates
  BY DEF RunnerTypeOK
<1> QED BY <1>1, <1>2 DEF UpdatedRequests

\* The padded states of a decode step.
LEMMA PaddedType ==
  ASSUME NEW states \in [Requests -> RequestStates], NEW batch \in SUBSET Requests,
         batch # {}
  PROVE  /\ MostBlocks(states, batch) \in Int
         /\ Padded(states, batch) \in [Requests -> RequestStates]
<1> DEFINE counts == {states[r].num_blocks : r \in batch}
<1>1. IsFiniteSet(counts)
  <2> DEFINE f == [r \in Requests |-> states[r].num_blocks]
  <2>1. counts = {f[r] : r \in batch}
    OBVIOUS
  <2>2. IsFiniteSet(batch)
    BY RequestsAssumption, FS_Subset
  <2>3. IsFiniteSet({f[r] : r \in batch})
    BY <2>2, ImageIsFinite
  <2> QED BY <2>1, <2>3
<1>2. counts \subseteq Int /\ counts # {}
  BY DEF RequestStates
<1>3. MostBlocks(states, batch) \in Int
  <2> HIDE DEF counts
  <2>1. Max(counts) \in Int
    BY <1>1, <1>2, MaxIsGreatest
  <2> QED BY <2>1 DEF MostBlocks, counts
<1>4. ASSUME NEW r \in Requests
      PROVE  [states[r] EXCEPT
                !.padding_blocks = MostBlocks(states, batch) - states[r].num_blocks]
                \in RequestStates
  <2>1. states[r] \in RequestStates
    OBVIOUS
  <2>2. MostBlocks(states, batch) - states[r].num_blocks \in Int
    BY <1>3, <2>1 DEF RequestStates
  <2> QED BY <2>1, <2>2, StateUpdateType
<1>5. Padded(states, batch) \in [Requests -> RequestStates]
  BY <1>4 DEF Padded
<1> QED BY <1>3, <1>5
-----------------------------------------------------------------------------
\* A step without tokens is executed.
LEMMA EmptyStepTypes ==
  ASSUME RunnerTypeOK, OutputsTypeOK, EmptyStep
  PROVE  RunnerTypeOK' /\ model_output' \in ModelOutputs
<1>1. requests' \in [Requests -> RequestStates]
  BY UpdatedRequestsType DEF EmptyStep
<1>2. input_batch' \in SUBSET Requests
  BY DEF EmptyStep, RemainingBatch, RunnerTypeOK
<1>3. UNCHANGED <<prefill_batch, runner_tkv, model_input, stored>>
  BY DEF EmptyStep
<1>4. model_output' \in ModelOutputs
  BY EmptyMessages DEF EmptyStep
<1> QED BY <1>1, <1>2, <1>3, <1>4 DEF RunnerTypeOK

\* The state is a state.
LEMMA StateForType ==
  ASSUME RunnerTypeOK, OutputsTypeOK, NEW r \in Requests
  PROVE  StateFor(r) \in RequestStates
<1>1. /\ scheduler_output.prompt[r] \in Nat
      /\ scheduler_output.computed[r] \in Int
      /\ scheduler_output.new_blocks[r] \in Int
  BY DEF OutputsTypeOK, SchedulerOutputs
<1>2. UpdatedRequests[r] \in RequestStates
  BY UpdatedRequestsType
<1> QED BY <1>1, <1>2, NewRequestType DEF StateFor

\* A chunk is prefilled.
LEMMA PrefillStepTypes ==
  ASSUME RunnerTypeOK, OutputsTypeOK, PrefillStep
  PROVE  RunnerTypeOK' /\ model_output' \in ModelOutputs
<1>1. PICK r \in Requests :
        Prefill(r, StateFor(r), PrefillInput(r, StateFor(r)))
  BY DEF PrefillStep
<1>2. StateFor(r) \in RequestStates
  BY StateForType
<1>3. requests' \in [Requests -> RequestStates]
  BY <1>1, <1>2, UpdatedRequestsType DEF Prefill
<1>4. prefill_batch' = BatchFor(r) /\ BatchFor(r) \in SUBSET Requests
  BY <1>1 DEF Prefill, BatchFor, RunnerTypeOK
<1>5. model_input' \in ModelInputs
  BY <1>1, <1>2, PrefillInputType DEF Prefill
<1>6. stored' \in [Requests -> Int]
  <2>1. PrefillInput(r, StateFor(r)).last \in Int
    BY <1>2, PrefillInputType DEF ModelInputs
  <2>2. StoredBefore(r) \in Int
    BY DEF StoredBefore, RunnerTypeOK, OutputsTypeOK, SchedulerOutputs
  <2>3. StoredAfter(StoredBefore(r), PrefillInput(r, StateFor(r))) \in Int
    BY <2>1, <2>2, LargerType DEF StoredAfter
  <2>4. stored' = [stored EXCEPT
                     ![r] = StoredAfter(StoredBefore(r), PrefillInput(r, StateFor(r)))]
    BY <1>1 DEF Prefill
  <2> QED BY <2>3, <2>4 DEF RunnerTypeOK
<1>7. input_batch' \in SUBSET Requests
  BY <1>1 DEF Prefill, RemainingBatch, RunnerTypeOK
<1>8. runner_tkv' \in Int
  <2>1. StateFor(r).prompt_len \in Int /\ StartFor(r) \in Int
    BY <1>2 DEF StartFor, RequestStates, RunnerTypeOK
  <2>2. JoinedTkv(StateFor(r).prompt_len, StartFor(r)) \in Int
    BY <2>1, JoinedTkvType
  <2> QED BY <1>1, <2>1, <2>2 DEF Prefill
<1>9. model_output' \in ModelOutputs
  <2>1. \A q \in Requests :
          /\ LeftPadding(requests'[q]) \in Int
          /\ requests'[q].usable_blocks * BlockSize \in Int
    BY <1>3, BlockAssumption DEF RequestStates, LeftPadding
  <2>2. /\ [q \in Requests |->
              IF q \in BatchFor(r) THEN LeftPadding(requests'[q]) ELSE 0]
             \in [Requests -> Int]
        /\ [q \in Requests |->
              IF q \in BatchFor(r) /\ IsIncomplete(r, StateFor(r))
                THEN requests'[q].usable_blocks * BlockSize ELSE 0]
             \in [Requests -> Int]
    BY <2>1
  <2>3. (IF IsIncomplete(r, StateFor(r)) THEN {} ELSE BatchFor(r)) \in SUBSET Requests
    BY <1>4
  <2> QED BY <1>1, <1>4, <1>8, <2>2, <2>3 DEF Prefill, ModelOutputs
<1> QED BY <1>3, <1>4, <1>5, <1>6, <1>7, <1>8, <1>9 DEF RunnerTypeOK

\* The input of a decode step is a model input.
LEMMA DecodeInputType ==
  ASSUME NEW b \in SUBSET Requests, NEW n \in Int
  PROVE  DecodeInput(b, n) \in ModelInputs
BY DEF DecodeInput, ModelInputs, Kinds

\* Every decoding request gets a token.
LEMMA DecodeStepTypes ==
  ASSUME RunnerTypeOK, OutputsTypeOK, DecodeStep
  PROVE  RunnerTypeOK' /\ model_output' \in ModelOutputs
<1> DEFINE states == Padded(UpdatedRequests, RemainingBatch)
<1>1. RemainingBatch \in SUBSET Requests /\ RemainingBatch # {}
  BY DEF DecodeStep, RemainingBatch, RunnerTypeOK
<1>2. /\ MostBlocks(UpdatedRequests, RemainingBatch) \in Int
      /\ states \in [Requests -> RequestStates]
  BY <1>1, UpdatedRequestsType, PaddedType
<1>3. /\ requests' = states
      /\ input_batch' = RemainingBatch
      /\ runner_tkv' = Max({RowTkv(states[r]) : r \in RemainingBatch})
      /\ model_input' = DecodeInput(RemainingBatch,
                                     MostBlocks(states, RemainingBatch))
      /\ UNCHANGED <<prefill_batch, stored>>
  BY DEF DecodeStep
<1>4. model_output' =
        [req_ids      |-> RemainingBatch,
         sampled      |-> RemainingBatch,
         tkv          |-> runner_tkv',
         left_padding |-> [r \in Requests |->
                             IF r \in RemainingBatch THEN LeftPadding(states[r]) ELSE 0],
         prefix_hit   |-> Nothing]
  BY DEF DecodeStep
<1> HIDE DEF states
<1>5. \A r \in Requests : LeftPadding(states[r]) \in Int /\ RowTkv(states[r]) \in Int
  BY <1>2, BlockAssumption DEF LeftPadding, RowTkv, RequestStates
<1>6. runner_tkv' \in Int
  <2> DEFINE f == [r \in Requests |-> RowTkv(states[r])]
             rows == {f[r] : r \in RemainingBatch}
  <2>1. rows = {RowTkv(states[r]) : r \in RemainingBatch}
    BY <1>1
  <2>2. IsFiniteSet(RemainingBatch)
    BY <1>1, RequestsAssumption, FS_Subset
  <2>3. IsFiniteSet(rows)
    BY <2>2, ImageIsFinite
  <2>4. rows # {} /\ rows \subseteq Int
    BY <1>1, <1>5
  <2> HIDE DEF rows
  <2>5. Max(rows) \in Int
    BY <2>3, <2>4, MaxIsGreatest
  <2> QED BY <1>3, <2>1, <2>5
<1>7. MostBlocks(states, RemainingBatch) \in Int
  BY <1>1, <1>2, PaddedType
<1>8. model_input' \in ModelInputs
  BY <1>1, <1>3, <1>7, DecodeInputType
<1>9. model_output' \in ModelOutputs
  <2>1. [r \in Requests |-> IF r \in RemainingBatch THEN LeftPadding(states[r]) ELSE 0]
          \in [Requests -> Int]
    BY <1>5
  <2>2. Nothing \in [Requests -> Int]
    BY DEF Nothing
  <2> QED BY <1>1, <1>4, <1>6, <2>1, <2>2 DEF ModelOutputs
<1> QED BY <1>1, <1>2, <1>3, <1>6, <1>8, <1>9 DEF RunnerTypeOK

\* The runner executes what was scheduled.
LEMMA ExecuteTypes ==
  ASSUME Types, ExecuteStep
  PROVE  Types'
<1>1. RunnerTypeOK' /\ model_output' \in ModelOutputs
  BY EmptyStepTypes, PrefillStepTypes, DecodeStepTypes
  DEF Types, ExecuteStep, ExecuteModel
<1>2. SchedTypeOK' /\ scheduler_output' \in SchedulerOutputs /\ phase' \in Phases
  BY DEF Types, ExecuteStep, SchedTypeOK, OutputsTypeOK, schedVars, requestVars,
         queueVars, kvVars, Phases
<1> QED BY <1>1, <1>2 DEF Types, OutputsTypeOK
-----------------------------------------------------------------------------
\* The scheduler takes in the output.
LEMMA UpdateTypes ==
  ASSUME Types, UpdateStep
  PROVE  Types'
<1> DEFINE sampled == {r \in running : /\ scheduler_output.tokens[r] > 0
                                       /\ r \in model_output.sampled}
<1>1. /\ num_computed' = [r \in Requests |-> ComputedAfter(r)]
      /\ ongoing' = {r \in ongoing : ComputedAfter(r) < prompt_len[r]}
      /\ tkv' = model_output.tkv
      /\ num_output' = [r \in Requests |-> IF r \in sampled THEN num_output[r] + 1
                                                            ELSE num_output[r]]
      /\ \E eos \in SUBSET sampled : Free(eos \cup {r \in sampled : AtLimit(r)})
      /\ UNCHANGED <<prompt_len, max_tokens, waiting, prev_prefill, cached>>
  BY DEF UpdateStep, UpdateFromOutput
<1>2. sampled \in SUBSET Requests
  BY DEF Types, SchedTypeOK
<1>3. PICK gone \in SUBSET Requests : Free(gone)
  BY <1>1, <1>2
<1>4. \A r \in Requests : ComputedAfter(r) \in Int
  <2>1. ASSUME NEW r \in Requests PROVE ComputedAfter(r) \in Int
    <3>1. /\ num_computed[r] \in Int
          /\ model_output.left_padding[r] \in Int
          /\ model_output.prefix_hit[r] \in Int
      BY DEF Types, SchedTypeOK, OutputsTypeOK, ModelOutputs
    <3> QED BY <3>1 DEF ComputedAfter, AdjustComputedTokens
  <2> QED BY <2>1
<1>5. SchedTypeOK'
  <2>1. running' \in SUBSET Requests /\ finished_ids' \in SUBSET Requests
        /\ kv_blocks' \in [Requests -> Int]
    BY <1>3, FreeTypes DEF Types
  <2>2. num_output' \in [Requests -> Nat]
    BY <1>1 DEF Types, SchedTypeOK
  <2>3. tkv' \in Int
    BY <1>1 DEF Types, OutputsTypeOK, ModelOutputs
  <2>4. num_computed' \in [Requests -> Int] /\ ongoing' \in SUBSET Requests
    BY <1>1, <1>4 DEF Types, SchedTypeOK
  <2> QED BY <1>1, <2>1, <2>2, <2>3, <2>4 DEF Types, SchedTypeOK
<1>6. RunnerTypeOK'
  BY DEF Types, UpdateStep, RunnerTypeOK, runnerVars
<1>7. OutputsTypeOK' /\ phase' \in Phases
  BY EmptyMessages DEF UpdateStep, OutputsTypeOK, Phases
<1> QED BY <1>5, <1>6, <1>7 DEF Types
-----------------------------------------------------------------------------
\* Every step keeps the types.
LEMMA NextTypes ==
  ASSUME Types, [Next]_vars
  PROVE  Types'
<1>1. ASSUME NEW r \in Requests, NEW p \in PromptLens, NEW m \in OutputLens,
             Arrive(r, p, m)
      PROVE  Types'
  BY <1>1, ArriveTypes
<1>2. ASSUME NEW r \in Abortable, Abort(r)
      PROVE  Types'
  BY <1>2, AbortTypes, WorkloadAssumption
<1>3. CASE ScheduleStep
  BY <1>3, ScheduleTypes
<1>4. CASE ExecuteStep
  BY <1>4, ExecuteTypes
<1>5. CASE UpdateStep
  BY <1>5, UpdateTypes
<1>6. CASE UNCHANGED vars
  BY <1>6 DEF vars, Types, SchedTypeOK, RunnerTypeOK, OutputsTypeOK, schedVars,
    requestVars, queueVars, kvVars, runnerVars
<1> QED
  BY <1>1, <1>2, <1>3, <1>4, <1>5, <1>6 DEF Next, EngineStep, Drained

(***************************************************************************)
(* All variables keep their types: SchedulerOutput, SpyreModelRunnerOutput *)
(* and the runner's request states are well formed in every step.          *)
(***************************************************************************)
THEOREM TypeCorrect == Spec => []Types
<1>1. Init => Types
  BY InitTypes
<1>2. Types /\ [Next]_vars => Types'
  BY NextTypes
<1> QED BY <1>1, <1>2, PTL DEF Spec

-----------------------------------------------------------------------------
(***************************************************************************)
(* AtMostOnePrefill and BatchWithinLimit are not inductive: whether an     *)
(* ongoing prefill is also a running request after an update depends on    *)
(* what the runner sampled, hence on the runner's copy of the prompt       *)
(* length, on the token counts in the messages and on which requests the   *)
(* decode batch holds. The parts below say what each side relies on.       *)
(***************************************************************************)
Unstarted(r) == prompt_len[r] = 0 \/ IsWaiting(r)

\* A request that has not started left no trace in scheduler or runner.
QueueInv ==
  /\ \A i, j \in 1 .. Len(waiting) : waiting[i] = waiting[j] => i = j
  /\ \A r \in Requests : prompt_len[r] = 0 => ~IsWaiting(r)
  /\ \A r \in Requests : Unstarted(r) =>
       /\ r \notin running
       /\ r \notin input_batch
       /\ num_computed[r] = 0
       /\ num_output[r] = 0

\* There is at most one prefill, of a running request.
PrefillInv ==
  /\ ongoing \subseteq running
  /\ \A q, r \in ongoing : q = r

\* Running requests are prefilling or have their whole prompt computed.
CountInv ==
  /\ \A r \in ongoing : num_output[r] = 0 /\ num_computed[r] <= prompt_len[r]
  /\ \A r \in Decoding : num_computed[r] >= prompt_len[r]

\* The scheduled tokens are those that bring the count to what it is.
ScheduledInv ==
  phase = "scheduled" =>
    /\ scheduler_output.new # {} => ongoing = scheduler_output.new
    /\ \A r \in scheduler_output.new : scheduler_output.prompt[r] = prompt_len[r]
    /\ scheduler_output.cached \subseteq running
    /\ \A r \in Requests :
         r \in scheduler_output.new \cup scheduler_output.cached
           <=> scheduler_output.tokens[r] > 0
    /\ \A r \in scheduler_output.new \cup scheduler_output.cached :
         scheduler_output.computed[r] + scheduler_output.tokens[r] = num_computed[r]
    /\ \A r \in scheduler_output.cached :
         r \notin ongoing => scheduler_output.computed[r] >= prompt_len[r]

\* The runner knows the prompt of every request it was told of.
KnownInv ==
  \A r \in running :
    ~(phase = "scheduled" /\ r \in scheduler_output.new) =>
      requests[r].prompt_len = prompt_len[r]

\* A prefill enters the decode batch, and is sampled, with its last token.
JoinInv ==
  \A r \in ongoing :
    /\ r \in input_batch =>
         phase = "executed" /\ num_computed[r] = prompt_len[r]
    /\ phase = "executed" /\ r \in model_output.sampled
         /\ scheduler_output.tokens[r] > 0 => num_computed[r] = prompt_len[r]

Lists ==
  /\ QueueInv
  /\ PrefillInv
  /\ BatchWithinLimit
  /\ CountInv
  /\ ScheduledInv
  /\ KnownInv
  /\ JoinInv

Bookkeeping == Types /\ Lists
-----------------------------------------------------------------------------
\* The bookkeeping is in order when the engine starts.
LEMMA InitBookkeeping == Init => Bookkeeping
<1> SUFFICES ASSUME Init PROVE Bookkeeping
  OBVIOUS
<1>1. Types
  BY InitTypes
<1>2. QueueInv /\ PrefillInv /\ CountInv /\ KnownInv /\ JoinInv /\ ScheduledInv
  <2>1. Len(waiting) = 0
    BY EmptySeq DEF Init, SchedInit
  <2> QED
    BY <2>1 DEF Init, SchedInit, RunnerInit, QueueInv, IsWaiting, PrefillInv,
      CountInv, Decoding, KnownInv, JoinInv, ScheduledInv
<1>3. BatchWithinLimit
  BY FS_EmptySet, LimitAssumption DEF Init, SchedInit, BatchWithinLimit
<1> QED BY <1>1, <1>2, <1>3 DEF Bookkeeping, Lists

\* A request that arrives is put behind the others and starts with nothing.
LEMMA ArriveBookkeeping ==
  ASSUME Bookkeeping, NEW r \in Requests, NEW p \in PromptLens, NEW m \in OutputLens,
         Arrive(r, p, m)
  PROVE  Lists'
<1>1. waiting \in Seq(Requests) /\ Len(waiting) \in Nat
  BY LenProperties DEF Bookkeeping, Lists, Types, SchedTypeOK
<1>2. /\ prompt_len[r] = 0
      /\ prompt_len' = [prompt_len EXCEPT ![r] = p]
      /\ waiting' = Append(waiting, r)
      /\ phase = "idle"
      /\ p >= 1
      /\ UNCHANGED <<num_computed, num_output, running, ongoing, input_batch, phase,
                     requests, scheduler_output, model_output>>
  BY DEF Arrive, AddRequest, ValidateRequest, runnerVars
<1>3. /\ Len(waiting') = Len(waiting) + 1
      /\ \A i \in 1 .. Len(waiting) : waiting'[i] = waiting[i]
      /\ waiting'[Len(waiting) + 1] = r
  BY <1>1, <1>2, AppendProperties
<1>4. ~IsWaiting(r) /\ r \notin running
  BY <1>2 DEF Bookkeeping, Lists, QueueInv, Unstarted
<1>5. \A q \in Requests : IsWaiting(q)' <=> IsWaiting(q) \/ q = r
  BY <1>1, <1>3 DEF IsWaiting
<1>6. prompt_len' \in [Requests -> Nat] /\ prompt_len \in [Requests -> Nat] /\ p \in Nat
  BY <1>2, WorkloadAssumption DEF Bookkeeping, Lists, Types, SchedTypeOK
<1>7. \A q \in running : prompt_len'[q] = prompt_len[q] /\ q \in Requests
  BY <1>2, <1>4, <1>6 DEF Bookkeeping, Lists, Types, SchedTypeOK
<1>8. QueueInv'
  <2>1. ASSUME NEW i \in 1 .. Len(waiting'), NEW j \in 1 .. Len(waiting'),
               waiting'[i] = waiting'[j]
        PROVE  i = j
    BY <1>1, <1>3, <1>4, <2>1 DEF IsWaiting, Bookkeeping, Lists, QueueInv
  <2>2. ASSUME NEW q \in Requests, prompt_len'[q] = 0
        PROVE  ~IsWaiting(q)'
    BY <1>2, <1>5, <1>6, <2>2 DEF Bookkeeping, Lists, QueueInv
  <2>3. ASSUME NEW q \in Requests, Unstarted(q)'
        PROVE  Unstarted(q)
    BY <1>2, <1>5, <1>6, <2>3 DEF Unstarted
  <2> QED BY <1>2, <2>1, <2>2, <2>3 DEF Bookkeeping, Lists, QueueInv
<1>9. PrefillInv' /\ BatchWithinLimit'
  BY <1>2 DEF Bookkeeping, Lists, PrefillInv, BatchWithinLimit
<1>10. CountInv' /\ KnownInv' /\ JoinInv'
  BY <1>2, <1>7 DEF Bookkeeping, Lists, PrefillInv, CountInv, Decoding, KnownInv, JoinInv
<1>11. ScheduledInv'
  BY <1>2 DEF ScheduledInv
<1> QED BY <1>8, <1>9, <1>10, <1>11 DEF Lists

\* An aborted request leaves the queue, or the running requests and the prefills.
LEMMA AbortBookkeeping ==
  ASSUME Bookkeeping, NEW r \in Requests, Abort(r)
  PROVE  Lists'
<1>1. /\ running' = running \ {r}
      /\ ongoing' = ongoing \ {r}
      /\ phase \in {"idle", "executed"}
      /\ UNCHANGED <<prompt_len, num_computed, num_output, input_batch, phase, requests,
                     scheduler_output, model_output>>
  BY DEF Abort, FinishRequest, Free, OngoingWithout, requestVars, runnerVars
<1>2. waiting \in Seq(Requests) /\ Len(waiting) \in Nat
  BY LenProperties DEF Bookkeeping, Lists, Types, SchedTypeOK
<1>3. QueueInv'
  <2>1. CASE UNCHANGED waiting
    BY <1>1, <2>1 DEF Bookkeeping, Lists, QueueInv, Unstarted, IsWaiting
  <2>2. CASE \E i \in 1 .. Len(waiting) : waiting[i] = r /\ waiting' = WaitingWithout(i)
    <3>1. PICK k \in 1 .. Len(waiting) : waiting[k] = r /\ waiting' = WaitingWithout(k)
      BY <2>2
    <3>2. Len(waiting') = Len(waiting) - 1
      BY <1>2, <3>1, WaitingWithoutType
    <3>3. \A j \in 1 .. Len(waiting) - 1 :
            waiting'[j] = waiting[IF j < k THEN j ELSE j + 1]
      BY <3>1 DEF WaitingWithout
    <3>4. ASSUME NEW i \in 1 .. Len(waiting'), NEW j \in 1 .. Len(waiting'),
                 waiting'[i] = waiting'[j]
          PROVE  i = j
      BY <1>2, <3>2, <3>3, <3>4 DEF Bookkeeping, Lists, QueueInv
    <3>5. ASSUME NEW q \in Requests, IsWaiting(q)'
          PROVE  IsWaiting(q)
      BY <1>2, <3>2, <3>3, <3>5 DEF IsWaiting
    <3> QED BY <1>1, <3>4, <3>5 DEF Bookkeeping, Lists, QueueInv, Unstarted
  <2> QED BY <2>1, <2>2 DEF Abort, FinishRequest
<1>4. PrefillInv'
  BY <1>1 DEF Bookkeeping, Lists, PrefillInv
<1>5. BatchWithinLimit'
  <2>1. IsFiniteSet(running)
    BY RequestsAssumption, FS_Subset DEF Bookkeeping, Lists, Types, SchedTypeOK
  <2>2. Cardinality(running') <= Cardinality(running) /\ IsFiniteSet(running')
    BY <1>1, <2>1, FS_Subset
  <2>3. Cardinality(running') \in Nat /\ Cardinality(running) \in Nat
    BY <2>1, <2>2, FS_CardinalityType
  <2> QED BY <2>2, <2>3, LimitAssumption DEF Bookkeeping, Lists, BatchWithinLimit
<1>6. CountInv' /\ ScheduledInv' /\ KnownInv' /\ JoinInv'
  BY <1>1 DEF Bookkeeping, Lists, PrefillInv, CountInv, Decoding, ScheduledInv, KnownInv, JoinInv
<1> QED BY <1>3, <1>4, <1>5, <1>6 DEF Lists
-----------------------------------------------------------------------------
\* Waiting requests are requests that left no trace.
LEMMA WaitingUnstarted ==
  ASSUME Bookkeeping, NEW i \in 1 .. Len(waiting)
  PROVE  /\ waiting[i] \in Requests
         /\ waiting[i] \notin running
         /\ waiting[i] \notin ongoing
         /\ waiting[i] \notin input_batch
         /\ num_computed[waiting[i]] = 0
         /\ num_output[waiting[i]] = 0
<1>1. waiting[i] \in Requests
  BY ElementOfSeq DEF Bookkeeping, Lists, Types, SchedTypeOK
<1>2. Unstarted(waiting[i])
  BY DEF Unstarted, IsWaiting
<1> QED BY <1>1, <1>2 DEF Bookkeeping, Lists, QueueInv, PrefillInv

\* The numbers of running and of ongoing requests are natural numbers.
LEMMA RunningCounts ==
  ASSUME Types
  PROVE  /\ IsFiniteSet(running) /\ Cardinality(running) \in Nat
         /\ IsFiniteSet(ongoing) /\ Cardinality(ongoing) \in Nat
         /\ Cardinality(running) = 0 => running = {}
         /\ Cardinality(ongoing) < 1 => ongoing = {}
<1>1. IsFiniteSet(running) /\ IsFiniteSet(ongoing)
  BY RequestsAssumption, FS_Subset DEF Types, SchedTypeOK
<1>2. Cardinality(running) \in Nat /\ Cardinality(ongoing) \in Nat
  BY <1>1, FS_CardinalityType
<1> QED BY <1>1, <1>2, FS_EmptySet

(***************************************************************************)
(* What the constraints on the first chunk achieve: schedule() releases at *)
(* most one request, only when nothing prefills, and only into a batch     *)
(* with room for it.                                                       *)
(***************************************************************************)
LEMMA ReleaseBound ==
  ASSUME Bookkeeping, NEW n \in 0 .. Len(waiting), Releases(n)
  PROVE  /\ n = 0 \/ n = 1
         /\ n = 1 => ongoing = {} /\ Cardinality(running) + 1 <= MaxNumSeqs
<1>1. Len(waiting) \in Nat
  BY LenProperties DEF Bookkeeping, Lists, Types, SchedTypeOK
<1>2. /\ Cardinality(running) \in Nat /\ Cardinality(ongoing) \in Nat
      /\ Cardinality(running) = 0 => running = {}
      /\ Cardinality(ongoing) < 1 => ongoing = {}
  BY RunningCounts DEF Bookkeeping, Lists
<1>3. ~(n >= 2)
  <2> SUFFICES ASSUME n >= 2 PROVE FALSE
    OBVIOUS
  <2>1. 2 \in 1 .. n /\ 2 \in 1 .. Len(waiting)
    BY <1>1
  <2>2. CanSchedulePrefill(waiting[2], 2 - 1)
    BY <2>1 DEF Releases
  <2>3. waiting[2] \notin ongoing
    BY <2>1, WaitingUnstarted
  <2> QED BY <1>2, <2>2, <2>3 DEF CanSchedulePrefill, HasSchedulingPriority
<1>4. ASSUME n = 1
      PROVE  ongoing = {} /\ Cardinality(running) + 1 <= MaxNumSeqs
  <2>1. 1 \in 1 .. n /\ 1 \in 1 .. Len(waiting)
    BY <1>1, <1>4
  <2>2. CanSchedulePrefill(waiting[1], 1 - 1)
    BY <2>1 DEF Releases
  <2>3. waiting[1] \notin ongoing /\ num_computed[waiting[1]] = 0
    BY <2>1, WaitingUnstarted
  <2>4. CASE Cardinality(running) + 0 = 0
    BY <1>2, <2>4, LimitAssumption DEF Bookkeeping, Lists, PrefillInv
  <2>5. CASE /\ HasSchedulingPriority(waiting[1], 0)
             /\ SatisfiesConstraints(waiting[1], 0)
    <3>1. ongoing = {}
      BY <1>2, <2>3, <2>5 DEF HasSchedulingPriority
    <3>2. SatisfiesFirstChunkConstraints(waiting[1], 0)
      BY <2>3, <2>5 DEF SatisfiesConstraints, IsFirstChunk
    <3> QED BY <1>2, <3>1, <3>2, LimitAssumption DEF SatisfiesFirstChunkConstraints
  <2> QED BY <2>2, <2>4, <2>5 DEF CanSchedulePrefill
<1> QED BY <1>1, <1>3, <1>4
-----------------------------------------------------------------------------
\* The last token of a prompt is never taken from the prefix cache.
LEMMA HitBound ==
  ASSUME Types, NEW r \in Requests, NEW hit \in PossibleHits(r)
  PROVE  hit \in Nat /\ hit * BlockSize < prompt_len[r]
<1>1. prompt_len[r] - 1 \in Int /\ prompt_len[r] \in Int
  BY DEF Types, SchedTypeOK
<1> DEFINE last == (prompt_len[r] - 1) \div BlockSize
<1>2. last \in Int /\ last * BlockSize <= prompt_len[r] - 1
  BY <1>1, BlockAssumption, DivType, DivBounds
<1>3. hit \in 0 .. last
  BY DEF PossibleHits
<1> HIDE DEF last
<1>4. hit \in Nat /\ hit <= last
  BY <1>2, <1>3
<1>5. hit * BlockSize <= last * BlockSize
  BY <1>2, <1>4, BlockAssumption, ProductMonotonic
<1>6. hit * BlockSize \in Int /\ last * BlockSize \in Int
  BY <1>2, <1>4, BlockAssumption
<1> QED BY <1>1, <1>2, <1>4, <1>5, <1>6

(***************************************************************************)
(* What a scheduled step comes to: it releases nothing or the head of the  *)
(* queue, and tokens go to the released request or to the visible ones.    *)
(***************************************************************************)
Releasing(n, released) ==
  \/ n = 0 /\ released = {}
  \/ /\ n = 1 /\ Len(waiting) >= 1 /\ released = {waiting[1]}
     /\ ongoing = {} /\ Cardinality(running) + 1 <= MaxNumSeqs

Counting(n, released, start, tokens) ==
  /\ start \in [Requests -> Int] /\ tokens \in [Requests -> Int]
  /\ \A r \in released :
       /\ 0 <= start[r] /\ start[r] < prompt_len[r]
       /\ tokens[r] = Smaller(prompt_len[r] - start[r], ChunkSize)
  /\ \A r \in Requests \ released :
       /\ start[r] = num_computed[r]
       /\ tokens[r] = IF r \in Visible(n) THEN RunningTokens(r) ELSE 0
  /\ num_computed' = [r \in Requests |-> start[r] + tokens[r]]

Messaging(released, start, tokens) ==
  LET scheduled == {r \in Requests : tokens[r] > 0}
  IN /\ scheduler_output'.new = released
     /\ scheduler_output'.prompt =
          [r \in Requests |-> IF r \in released THEN prompt_len[r] ELSE 0]
     /\ scheduler_output'.cached = scheduled \ released
     /\ scheduler_output'.computed =
          [r \in Requests |-> IF r \in scheduled THEN start[r] ELSE 0]
     /\ scheduler_output'.tokens = tokens
     /\ scheduler_output'.finished = finished_ids

\* What a step's tokens bring the counts to.
LEMMA StepCounts ==
  ASSUME SchedTypeOK, NEW n, NEW released, NEW start, NEW tokens,
         Counting(n, released, start, tokens), NEW r \in Requests
  PROVE  /\ r \in released => tokens[r] > 0 /\ start[r] + tokens[r] <= prompt_len[r]
         /\ r \notin released => start[r] = num_computed[r]
         /\ r \notin released \cup Visible(n) => tokens[r] = 0
         /\ r \notin released /\ num_output[r] = 0 /\ num_computed[r] <= prompt_len[r]
              => start[r] + tokens[r] <= prompt_len[r]
         /\ r \notin released /\ num_computed[r] >= prompt_len[r]
              => start[r] + tokens[r] >= prompt_len[r]
<1>1. /\ prompt_len[r] \in Nat /\ num_output[r] \in Nat /\ num_computed[r] \in Int
      /\ ChunkSize \in Nat \ {0}
  BY ChunkSizeType DEF SchedTypeOK
<1>2. start[r] \in Int
  BY DEF Counting
<1> QED BY <1>1, <1>2 DEF Counting, Smaller, RunningTokens

\* Every step of schedule() has this shape.
LEMMA ScheduleShape ==
  ASSUME Bookkeeping, ScheduleStep
  PROVE  \E n \in 0 .. 1, released \in SUBSET Requests,
            start \in [Requests -> Int], tokens \in [Requests -> Int] :
           /\ n <= Len(waiting)
           /\ Releasing(n, released)
           /\ Counting(n, released, start, tokens)
           /\ Messaging(released, start, tokens)
           /\ running' = running \cup released
           /\ ongoing' = IF ongoing = {} THEN released ELSE ongoing
           /\ waiting' = SubSeq(waiting, n + 1, Len(waiting))
           /\ finished_ids' = {}
<1> USE DEF Bookkeeping, Lists
<1>1. PICK n \in 0 .. Len(waiting) :
        LET released == {waiting[i] : i \in 1 .. n}
            hits     == IF released = {} THEN {0}
                        ELSE UNION {PossibleHits(r) : r \in released}
        IN /\ Releases(n)
           /\ \E hit \in hits : BaseSchedule(Visible(n), released, hit)
           /\ waiting' = SubSeq(waiting, n + 1, Len(waiting))
           /\ ongoing' = IF ongoing = {} THEN released ELSE ongoing
  BY Zenon DEF ScheduleStep, Schedule
<1> DEFINE released == {waiting[i] : i \in 1 .. n}
<1>2. /\ n = 0 \/ n = 1
      /\ n = 1 => ongoing = {} /\ Cardinality(running) + 1 <= MaxNumSeqs
  BY <1>1, ReleaseBound
<1>3. Len(waiting) \in Nat
  BY LenProperties DEF Types, SchedTypeOK
<1>4. released = IF n = 0 THEN {} ELSE {waiting[1]}
  BY <1>2
<1>5. released \in SUBSET Requests
  BY WaitingUnstarted
<1>6. PICK hit \in Nat :
        /\ BaseSchedule(Visible(n), released, hit)
        /\ \A r \in released : hit * BlockSize < prompt_len[r]
  <2>1. CASE released = {}
    BY <1>1, <2>1
  <2>2. CASE released # {}
    <3>1. PICK r \in released : released = {r}
      BY <1>4, <2>2
    <3>2. PICK hit \in PossibleHits(r) : BaseSchedule(Visible(n), released, hit)
      BY <1>1, <3>1
    <3> QED BY <1>5, <3>1, <3>2, HitBound
  <2> QED BY <2>1, <2>2
<1> DEFINE start == StepStart(released, hit)
           tokens == StepTokens(Visible(n), released, hit)
<1>7. start \in [Requests -> Int] /\ tokens \in [Requests -> Int]
  BY StepTypes DEF Types
<1>8. hit * BlockSize \in Nat
  BY BlockAssumption
<1>9. Messaging(released, start, tokens) /\ finished_ids' = {}
      /\ running' = running \cup released
      /\ num_computed' = [r \in Requests |-> start[r] + tokens[r]]
  BY <1>6 DEF BaseSchedule, Messaging
<1>10. Counting(n, released, start, tokens)
  <2>1. \A r \in Requests :
          /\ start[r] = IF r \in released THEN hit * BlockSize ELSE num_computed[r]
          /\ tokens[r] = IF r \in released
                           THEN Smaller(prompt_len[r] - hit * BlockSize, ChunkSize)
                           ELSE IF r \in Visible(n) THEN RunningTokens(r) ELSE 0
    BY DEF StepStart, StepTokens
  <2> HIDE DEF released, start, tokens
  <2>2. \A r \in released :
          /\ 0 <= start[r] /\ start[r] < prompt_len[r]
          /\ tokens[r] = Smaller(prompt_len[r] - start[r], ChunkSize)
    BY <1>5, <1>6, <1>8, <2>1
  <2> QED BY <1>7, <1>9, <2>1, <2>2 DEF Counting
<1>11. Releasing(n, released)
  BY <1>2, <1>3, <1>4 DEF Releasing
<1> HIDE DEF released, start, tokens
<1>12. n \in 0 .. 1 /\ n <= Len(waiting)
  BY <1>2, <1>3
<1>13. ongoing' = (IF ongoing = {} THEN released ELSE ongoing)
       /\ waiting' = SubSeq(waiting, n + 1, Len(waiting))
  BY <1>1 DEF released
<1> QED BY <1>5, <1>7, <1>9, <1>10, <1>11, <1>12, <1>13

\* A scheduled step starts at most one prefill and counts its tokens.
LEMMA ScheduleBookkeeping ==
  ASSUME Bookkeeping, ScheduleStep
  PROVE  Lists'
<1> USE DEF Bookkeeping, Lists
<1>1. PICK n \in 0 .. 1, released \in SUBSET Requests,
           start \in [Requests -> Int], tokens \in [Requests -> Int] :
        /\ n <= Len(waiting)
        /\ Releasing(n, released)
        /\ Counting(n, released, start, tokens)
        /\ Messaging(released, start, tokens)
        /\ running' = running \cup released
        /\ ongoing' = IF ongoing = {} THEN released ELSE ongoing
        /\ waiting' = SubSeq(waiting, n + 1, Len(waiting))
  BY ScheduleShape
<1> DEFINE scheduled == {r \in Requests : tokens[r] > 0}
<1>2. /\ n = 0 \/ n = 1
      /\ n = 1 => ongoing = {} /\ Cardinality(running) + 1 <= MaxNumSeqs
  BY <1>1 DEF Releasing
<1>3. Len(waiting) \in Nat /\ n <= Len(waiting) /\ waiting \in Seq(Requests)
  BY <1>1, LenProperties DEF Types, SchedTypeOK
<1>4. released = IF n = 0 THEN {} ELSE {waiting[1]}
  BY <1>1 DEF Releasing
<1>5. \A r \in released :
        /\ r \in Requests /\ r \notin running /\ r \notin ongoing /\ r \notin input_batch
        /\ num_computed[r] = 0 /\ num_output[r] = 0
  <2>1. n = 1 => 1 \in 1 .. Len(waiting)
    BY <1>1, <1>3
  <2> QED BY <1>4, <2>1, WaitingUnstarted
<1>6. \A r \in Requests :
        /\ r \in released => tokens[r] > 0 /\ start[r] + tokens[r] <= prompt_len[r]
        /\ r \notin released => start[r] = num_computed[r]
        /\ r \notin released \cup Visible(n) => tokens[r] = 0
        /\ r \notin released /\ num_output[r] = 0 /\ num_computed[r] <= prompt_len[r]
             => start[r] + tokens[r] <= prompt_len[r]
        /\ r \notin released /\ num_computed[r] >= prompt_len[r]
             => start[r] + tokens[r] >= prompt_len[r]
  BY <1>1, StepCounts DEF Counting, Types
<1>7. /\ num_computed' = [r \in Requests |-> start[r] + tokens[r]]
      /\ running' = running \cup released
      /\ scheduler_output'.new = released
      /\ scheduler_output'.prompt =
           [r \in Requests |-> IF r \in released THEN prompt_len[r] ELSE 0]
      /\ scheduler_output'.cached = scheduled \ released
      /\ scheduler_output'.computed =
           [r \in Requests |-> IF r \in scheduled THEN start[r] ELSE 0]
      /\ scheduler_output'.tokens = tokens
  BY <1>1 DEF Messaging, Counting
<1>8. /\ ongoing' = IF ongoing = {} THEN released ELSE ongoing
      /\ waiting' = SubSeq(waiting, n + 1, Len(waiting))
      /\ phase = "idle" /\ phase' = "scheduled"
      /\ UNCHANGED <<prompt_len, num_output, requests, input_batch>>
  BY <1>1 DEF ScheduleStep, Schedule, runnerVars
<1>9. Visible(n) \subseteq running /\ released \cap running = {}
  BY <1>5 DEF Visible, Decoding, PrefillInv
<1>10. running \subseteq Requests /\ ongoing \subseteq running
  BY DEF Types, SchedTypeOK, PrefillInv
<1>11. ongoing # {} => released = {}
  BY <1>2, <1>4
<1>12. QueueInv'
  <2>1. /\ Len(waiting') = Len(waiting) - n
        /\ \A i \in 1 .. Len(waiting') : waiting'[i] = waiting[n + i]
    <3>1. \A i \in n + 1 .. Len(waiting) : waiting[i] \in Requests
      BY <1>3, ElementOfSeq
    <3>2. n + 1 \in Int
      OBVIOUS
    <3> DEFINE rest == SubSeq(waiting, n + 1, Len(waiting))
    <3>3. Len(waiting) \in Nat /\ n \in Nat /\ n <= Len(waiting)
      BY ONLY <1>3
    <3>4. /\ Len(rest) = IF n + 1 <= Len(waiting) THEN Len(waiting) - (n + 1) + 1 ELSE 0
          /\ \A i \in 1 .. Len(waiting) - (n + 1) + 1 : rest[i] = waiting[n + 1 + i - 1]
      BY ONLY <3>1, <3>2, <3>3, SubSeqProperties, SMTT(60)
    <3> HIDE DEF rest
    <3>5. /\ Len(rest) = Len(waiting) - n
          /\ \A i \in 1 .. Len(rest) : rest[i] = waiting[n + i]
      BY ONLY <3>3, <3>4
    <3> QED BY ONLY <1>8, <3>5 DEF rest
  <2>2. ASSUME NEW i \in 1 .. Len(waiting'), NEW j \in 1 .. Len(waiting'),
               waiting'[i] = waiting'[j]
        PROVE  i = j
    <3>1. n + i \in 1 .. Len(waiting) /\ n + j \in 1 .. Len(waiting)
      BY <1>3, <2>1
    <3>2. n + i = n + j
      BY <2>1, <2>2, <3>1 DEF QueueInv
    <3> QED BY <1>3, <2>1, <3>2
  <2>3. ASSUME NEW r \in Requests, IsWaiting(r)'
        PROVE  IsWaiting(r) /\ r \notin released
    <3>1. PICK i \in 1 .. Len(waiting') : waiting'[i] = r
      BY <2>3 DEF IsWaiting
    <3>2. waiting[n + i] = r /\ n + i \in 1 .. Len(waiting)
      BY <1>3, <2>1, <3>1
    <3>3. IsWaiting(r)
      BY <3>2 DEF IsWaiting
    <3>4. r \notin released
      <4>1. n = 0 \/ (1 \in 1 .. Len(waiting) /\ n + i # 1)
        BY <1>2, <1>3, <3>2
      <4> QED BY <1>4, <3>2, <4>1 DEF QueueInv
    <3> QED BY <3>3, <3>4
  <2>4. ASSUME NEW r \in Requests, Unstarted(r)'
        PROVE  Unstarted(r) /\ r \notin released
    <3>1. CASE IsWaiting(r)'
      BY <2>3, <3>1 DEF Unstarted
    <3>2. CASE prompt_len'[r] = 0
      <4>1. prompt_len[r] = 0
        BY <1>8, <3>2
      <4>2. ~IsWaiting(r)
        BY <4>1 DEF QueueInv
      <4>3. r \notin released
        BY <1>3, <1>4, <4>2 DEF IsWaiting
      <4> QED BY <4>1, <4>3 DEF Unstarted
    <3> QED BY <2>4, <3>1, <3>2 DEF Unstarted
  <2>5. ASSUME NEW r \in Requests, Unstarted(r)'
        PROVE  /\ r \notin running' /\ r \notin input_batch'
               /\ num_computed'[r] = 0 /\ num_output'[r] = 0
    <3>1. /\ r \notin running /\ r \notin input_batch /\ num_computed[r] = 0
          /\ num_output[r] = 0 /\ r \notin released
      BY <2>4, <2>5 DEF QueueInv
    <3>2. start[r] = num_computed[r] /\ tokens[r] = 0
      BY <1>6, <1>9, <3>1
    <3> QED BY <1>7, <1>8, <3>1, <3>2
  <2>6. \A r \in Requests : prompt_len'[r] = 0 => ~IsWaiting(r)'
    BY <1>8, <2>3 DEF QueueInv
  <2> QED BY <2>2, <2>5, <2>6 DEF QueueInv
<1>13. PrefillInv'
  BY <1>4, <1>7, <1>8, <1>10 DEF PrefillInv
<1>14. BatchWithinLimit'
  <2>1. CASE n = 0
    BY <1>4, <1>7, <2>1 DEF BatchWithinLimit
  <2>2. CASE n = 1
    <3>1. IsFiniteSet(running) /\ Cardinality(running) \in Nat
      BY RunningCounts
    <3>2. running' = running \cup {waiting[1]}
      BY <1>4, <1>7, <2>2
    <3>3. Cardinality(running') = Cardinality(running)
          \/ Cardinality(running') = Cardinality(running) + 1
      BY <3>1, <3>2, FS_AddElement
    <3> QED BY <1>2, <2>2, <3>1, <3>3, LimitAssumption DEF BatchWithinLimit
  <2> QED BY <1>2, <2>1, <2>2
<1>15. CountInv'
  <2>1. ASSUME NEW r \in ongoing'
        PROVE  num_output'[r] = 0 /\ num_computed'[r] <= prompt_len'[r]
    BY <1>5, <1>6, <1>7, <1>8, <1>10, <1>11, <2>1 DEF CountInv
  <2>2. ASSUME NEW r \in Decoding'
        PROVE  num_computed'[r] >= prompt_len'[r]
    <3>1. r \in Decoding /\ r \notin released /\ r \in Requests
      BY <1>7, <1>8, <1>9, <1>10, <1>11, <2>2 DEF Decoding
    <3> QED BY <1>6, <1>7, <1>8, <3>1 DEF CountInv
  <2> QED BY <2>1, <2>2 DEF CountInv
<1>16. ScheduledInv'
  <2>1. scheduler_output'.new # {} => ongoing' = scheduler_output'.new
    BY <1>7, <1>8, <1>11
  <2>2. \A r \in released : tokens[r] > 0 /\ r \in Requests
    BY <1>5, <1>6
  <2>3. scheduled \subseteq released \cup running
    BY <1>1, <1>6, <1>9
  <2>4. \A r \in scheduled : start[r] + tokens[r] = num_computed'[r]
    BY <1>7
  <2>5. ASSUME NEW r \in scheduled \ released, r \notin ongoing'
        PROVE  start[r] >= prompt_len[r]
    <3>1. r \in Decoding /\ r \in Requests
      BY <1>8, <2>3, <2>5 DEF Decoding
    <3> QED BY <1>6, <2>5, <3>1 DEF CountInv
  <2> QED BY <1>7, <1>8, <2>1, <2>2, <2>3, <2>4, <2>5 DEF ScheduledInv
<1>17. KnownInv'
  BY <1>7, <1>8 DEF KnownInv
<1>18. JoinInv'
  BY <1>5, <1>7, <1>8, <1>11 DEF JoinInv
<1> QED BY <1>12, <1>13, <1>14, <1>15, <1>16, <1>17, <1>18 DEF Lists
-----------------------------------------------------------------------------
\* The runner keeps the prompt length of a request whose counts it updates.
LEMMA UpdateKeepsPrompt ==
  ASSUME RunnerTypeOK, NEW r \in Requests
  PROVE  UpdatedRequests[r].prompt_len = requests[r].prompt_len
<1>1. requests[r] \in RequestStates
  BY DEF RunnerTypeOK
<1> QED BY <1>1 DEF UpdatedRequests, RequestStates

\* Padding a decode batch changes no prompt length.
LEMMA PaddingKeepsPrompt ==
  ASSUME NEW states \in [Requests -> RequestStates], NEW batch, NEW r \in Requests
  PROVE  Padded(states, batch)[r].prompt_len = states[r].prompt_len
<1>1. states[r] \in RequestStates
  OBVIOUS
<1> QED BY <1>1 DEF Padded, RequestStates

(***************************************************************************)
(* What a step of the runner does to the decode batch and to its copies of *)
(* the prompts: a request that prefilled joins the batch, and is sampled,  *)
(* when the step was its last chunk.                                       *)
(***************************************************************************)
LEMMA PrefillJoins ==
  ASSUME Bookkeeping, phase = "scheduled", PrefillStep
  PROVE  /\ \A q \in running : requests'[q].prompt_len = prompt_len[q]
         /\ \A q \in ongoing :
              q \in input_batch' \/ (q \in model_output'.sampled
                                      /\ scheduler_output.tokens[q] > 0)
                => num_computed[q] = prompt_len[q]
<1> USE DEF Bookkeeping, Lists
<1> DEFINE so == scheduler_output
<1>1. PICK r \in Requests : Prefills(r) /\ Prefill(r, StateFor(r), PrefillInput(r, StateFor(r)))
  BY DEF PrefillStep
<1> DEFINE s == StateFor(r)
<1>2. /\ so.new # {} => ongoing = so.new
      /\ \A q \in so.new : so.prompt[q] = prompt_len[q]
      /\ \A q \in Requests : q \in so.new \cup so.cached <=> so.tokens[q] > 0
      /\ \A q \in so.new \cup so.cached : so.computed[q] + so.tokens[q] = num_computed[q]
      /\ \A q \in so.cached : q \notin ongoing => so.computed[q] >= prompt_len[q]
      /\ so.cached \subseteq running
  BY DEF ScheduledInv
<1>3. running \subseteq Requests /\ ongoing \subseteq running
  BY DEF Types, SchedTypeOK, PrefillInv
<1>4. \A q \in running : q \notin so.new => requests[q].prompt_len = prompt_len[q]
  BY DEF KnownInv
<1>5. r \in so.new \/ so.new = {}
  BY <1>1 DEF Prefills
<1>6. r \in running => s.prompt_len = prompt_len[r]
  <2>1. CASE r \in so.new
    BY <1>2, <2>1 DEF StateFor, NewRequest
  <2>2. CASE r \notin so.new
    BY <1>4, <2>2, UpdateKeepsPrompt DEF StateFor, Types
  <2> QED BY <2>1, <2>2
<1>7. \A q \in ongoing : q \notin input_batch
  BY DEF JoinInv
<1>8. /\ requests' = [UpdatedRequests EXCEPT ![r] = s]
      /\ IF IsIncomplete(r, s) THEN input_batch' = RemainingBatch
                               ELSE input_batch' = RemainingBatch \cup {r}
      /\ model_output'.sampled = IF IsIncomplete(r, s) THEN {} ELSE BatchFor(r)
  BY <1>1 DEF Prefill
<1> HIDE DEF s
<1>9. \A q \in running : q # r => q \notin so.new
  BY <1>1 DEF Prefills
<1>10. \A q \in running : requests'[q].prompt_len = prompt_len[q]
  <2>1. ASSUME NEW q \in running, q # r
        PROVE  requests'[q].prompt_len = prompt_len[q]
    <3>1. requests'[q] = UpdatedRequests[q]
      BY <1>3, <1>8, <2>1 DEF UpdatedRequests
    <3> QED BY <1>3, <1>4, <1>9, <2>1, <3>1, UpdateKeepsPrompt DEF Types
  <2>2. r \in running => requests'[r].prompt_len = prompt_len[r]
    BY <1>6, <1>8 DEF UpdatedRequests
  <2> QED BY <2>1, <2>2
<1>11. ASSUME r \in ongoing, ~IsIncomplete(r, s), so.tokens[r] > 0
       PROVE  num_computed[r] = prompt_len[r]
  <2>1. so.computed[r] + so.tokens[r] = num_computed[r]
    BY <1>2, <1>11
  <2>2. ~(num_computed[r] < prompt_len[r])
    BY <1>3, <1>6, <1>11, <2>1 DEF IsIncomplete
  <2>3. num_computed[r] <= prompt_len[r]
    BY <1>11 DEF CountInv
  <2>4. num_computed[r] \in Int /\ prompt_len[r] \in Int
    BY DEF Types, SchedTypeOK
  <2> QED BY <2>2, <2>3, <2>4
<1>12. so.tokens[r] > 0
  BY <1>1, <1>2 DEF Prefills
<1>13. ASSUME NEW q \in ongoing, q \in input_batch'
       PROVE  num_computed[q] = prompt_len[q]
  BY <1>7, <1>8, <1>11, <1>12, <1>13 DEF RemainingBatch
<1>14. ASSUME NEW q \in ongoing, q \in model_output'.sampled, so.tokens[q] > 0
       PROVE  num_computed[q] = prompt_len[q]
  <2>1. q \in so.new \cup so.cached
    BY <1>2, <1>3, <1>14
  <2>2. q = r
    BY <1>1, <1>2, <1>14, <2>1 DEF Prefills
  <2> QED BY <1>8, <1>11, <1>14, <2>2
<1> QED BY <1>10, <1>13, <1>14

\* A step of the runner, whatever its kind, keeps the bookkeeping in order.
LEMMA ExecuteBookkeeping ==
  ASSUME Bookkeeping, ExecuteStep
  PROVE  Lists'
<1> USE DEF Bookkeeping, Lists
<1>1. /\ UNCHANGED <<prompt_len, num_computed, num_output, waiting, running, ongoing,
                     scheduler_output>>
      /\ phase = "scheduled" /\ phase' = "executed"
  BY DEF ExecuteStep, schedVars, requestVars, queueVars
<1>2. running \subseteq Requests /\ ongoing \subseteq running
  BY DEF Types, SchedTypeOK, PrefillInv
<1>3. UpdatedRequests \in [Requests -> RequestStates]
  BY UpdatedRequestsType DEF Types
<1>4. \A q \in ongoing : q \notin input_batch
  BY <1>1 DEF JoinInv
<1>5. /\ \A q \in scheduler_output.new : HasTokens
      /\ \A q \in running : scheduler_output.new = {} => requests[q].prompt_len = prompt_len[q]
  <2>1. \A q \in scheduler_output.new : q \in Requests /\ scheduler_output.tokens[q] > 0
    BY <1>1, <1>2 DEF ScheduledInv
  <2> QED BY <1>1, <2>1 DEF HasTokens, KnownInv
<1>6. scheduler_output.new # {} => \E r \in Requests : scheduler_output.new = {r}
  BY <1>1, <1>2 DEF ScheduledInv, PrefillInv
<1>7. /\ \A q \in running : requests'[q].prompt_len = prompt_len[q]
      /\ \A q \in ongoing :
           q \in input_batch' \/ (q \in model_output'.sampled
                                   /\ scheduler_output.tokens[q] > 0)
             => num_computed[q] = prompt_len[q]
      /\ \A q \in input_batch' : q \in input_batch \/ q \in running
  <2>1. CASE EmptyStep
    <3>1. scheduler_output.new = {}
      BY <1>5, <2>1 DEF EmptyStep
    <3>2. requests' = UpdatedRequests /\ input_batch' \subseteq input_batch
          /\ model_output'.sampled = {}
      BY <2>1 DEF EmptyStep, RemainingBatch, EmptyOutput
    <3>3. \A q \in running : requests'[q].prompt_len = prompt_len[q]
      BY <1>2, <1>5, <3>1, <3>2, UpdateKeepsPrompt DEF Types
    <3> QED BY <1>4, <3>2, <3>3
  <2>2. CASE PrefillStep
    <3>1. PICK r \in Requests : Prefills(r) /\ Prefill(r, StateFor(r), PrefillInput(r, StateFor(r)))
      BY <2>2 DEF PrefillStep
    <3>2. r \in running
      BY <1>1, <1>2, <3>1 DEF Prefills, ScheduledInv
    <3>3. \A q \in input_batch' : q \in input_batch \/ q \in running
      BY <3>1, <3>2 DEF Prefill, RemainingBatch
    <3> QED BY <1>1, <2>2, <3>3, PrefillJoins
  <2>3. CASE DecodeStep
    <3>1. scheduler_output.new = {}
      BY <1>6, <2>3 DEF DecodeStep, Prefills
    <3>2. requests' = Padded(UpdatedRequests, RemainingBatch)
          /\ input_batch' = RemainingBatch
          /\ model_output'.sampled = RemainingBatch
      BY <2>3 DEF DecodeStep
    <3>3. \A q \in running : requests'[q].prompt_len = prompt_len[q]
      BY <1>2, <1>3, <1>5, <3>1, <3>2, UpdateKeepsPrompt, PaddingKeepsPrompt DEF Types
    <3> QED BY <1>4, <3>2, <3>3 DEF RemainingBatch
  <2> QED BY <2>1, <2>2, <2>3 DEF ExecuteStep, ExecuteModel
<1>8. QueueInv'
  BY <1>1, <1>7 DEF QueueInv, Unstarted, IsWaiting
<1>9. PrefillInv' /\ BatchWithinLimit' /\ CountInv' /\ ScheduledInv'
  BY <1>1 DEF PrefillInv, BatchWithinLimit, CountInv, Decoding, ScheduledInv
<1>10. KnownInv' /\ JoinInv'
  BY <1>1, <1>7 DEF KnownInv, JoinInv
<1> QED BY <1>8, <1>9, <1>10 DEF Lists
-----------------------------------------------------------------------------
\* A complete prefill, and only a complete one, is sampled and leaves the list.
LEMMA UpdateBookkeeping ==
  ASSUME Bookkeeping, UpdateStep
  PROVE  Lists'
<1> USE DEF Bookkeeping, Lists
<1> DEFINE sampled == {r \in running : /\ scheduler_output.tokens[r] > 0
                                       /\ r \in model_output.sampled}
<1>1. /\ num_computed' = [r \in Requests |-> ComputedAfter(r)]
      /\ ongoing' = {r \in ongoing : ComputedAfter(r) < prompt_len[r]}
      /\ num_output' = [r \in Requests |-> IF r \in sampled THEN num_output[r] + 1
                                                            ELSE num_output[r]]
      /\ \E eos \in SUBSET sampled : Free(eos \cup {r \in sampled : AtLimit(r)})
      /\ UNCHANGED <<prompt_len, waiting, requests, input_batch>>
      /\ phase = "executed" /\ phase' = "idle"
  BY DEF UpdateStep, UpdateFromOutput, runnerVars
<1>2. PICK gone \in SUBSET sampled : running' = running \ gone
  BY <1>1 DEF Free
<1>3. running \subseteq Requests /\ ongoing \subseteq running
  BY DEF Types, SchedTypeOK, PrefillInv
<1>4. \A r \in Requests : num_computed[r] \in Int /\ prompt_len[r] \in Nat
  BY DEF Types, SchedTypeOK
<1>5. \A r \in Requests : r \notin ongoing => ComputedAfter(r) = num_computed[r]
  BY DEF ComputedAfter
<1>6. ASSUME NEW r \in ongoing'
      PROVE  /\ r \in ongoing /\ r \notin sampled /\ r \notin input_batch
             /\ ComputedAfter(r) < prompt_len[r]
  <2>1. r \in ongoing /\ ComputedAfter(r) < prompt_len[r]
    BY <1>1, <1>6
  <2>2. num_computed[r] # prompt_len[r]
    BY <1>3, <1>4, <2>1 DEF ComputedAfter
  <2> QED BY <1>1, <2>1, <2>2 DEF JoinInv
<1> HIDE DEF sampled
<1>7. QueueInv'
  <2>1. ASSUME NEW r \in Requests, Unstarted(r)'
        PROVE  /\ r \notin running' /\ r \notin input_batch'
               /\ num_computed'[r] = 0 /\ num_output'[r] = 0
    <3>1. Unstarted(r)
      BY <1>1, <2>1 DEF Unstarted, IsWaiting
    <3>2. /\ r \notin running /\ r \notin input_batch /\ num_computed[r] = 0
          /\ num_output[r] = 0
      BY <3>1 DEF QueueInv
    <3>3. r \notin sampled /\ r \notin ongoing
      BY <1>3, <3>2 DEF sampled
    <3> QED BY <1>1, <1>2, <1>5, <3>2, <3>3
  <2> QED BY <1>1, <2>1 DEF QueueInv, IsWaiting
<1>8. PrefillInv'
  BY <1>2, <1>3, <1>6 DEF PrefillInv
<1>9. BatchWithinLimit'
  <2>1. IsFiniteSet(running) /\ Cardinality(running) \in Nat
    BY RunningCounts
  <2>2. Cardinality(running') <= Cardinality(running) /\ IsFiniteSet(running')
    BY <1>2, <2>1, FS_Subset
  <2>3. Cardinality(running') \in Nat
    BY <2>2, FS_CardinalityType
  <2> QED BY <2>1, <2>2, <2>3, LimitAssumption DEF BatchWithinLimit
<1>10. CountInv'
  <2>1. ASSUME NEW r \in ongoing'
        PROVE  num_output'[r] = 0 /\ num_computed'[r] <= prompt_len'[r]
    <3>1. ComputedAfter(r) \in Int
      BY <1>3, <1>6 DEF ComputedAfter, AdjustComputedTokens, Types, SchedTypeOK,
        OutputsTypeOK, ModelOutputs
    <3> QED BY <1>1, <1>3, <1>4, <1>6, <3>1 DEF CountInv
  <2>2. ASSUME NEW r \in Decoding'
        PROVE  num_computed'[r] >= prompt_len'[r]
    <3>1. r \in running /\ r \in Requests /\ r \notin ongoing'
      BY <1>2, <1>3, <2>2 DEF Decoding
    <3>2. CASE r \in ongoing
      <4>1. ~(ComputedAfter(r) < prompt_len[r])
        BY <1>1, <3>1, <3>2
      <4>2. ComputedAfter(r) \in Int
        BY <3>1 DEF ComputedAfter, AdjustComputedTokens, Types, SchedTypeOK,
          OutputsTypeOK, ModelOutputs
      <4> QED BY <1>1, <1>4, <3>1, <4>1, <4>2
    <3>3. CASE r \notin ongoing
      BY <1>1, <1>5, <3>1, <3>3 DEF CountInv, Decoding
    <3> QED BY <3>2, <3>3
  <2> QED BY <2>1, <2>2 DEF CountInv
<1>11. ScheduledInv' /\ JoinInv'
  BY <1>1, <1>6 DEF ScheduledInv, JoinInv
<1>12. KnownInv'
  BY <1>1, <1>2 DEF KnownInv
<1> QED BY <1>7, <1>8, <1>9, <1>10, <1>11, <1>12 DEF Lists
-----------------------------------------------------------------------------
\* Every step keeps the bookkeeping in order.
LEMMA NextBookkeeping ==
  ASSUME Bookkeeping, [Next]_vars
  PROVE  Bookkeeping'
<1>1. ASSUME NEW r \in Requests, NEW p \in PromptLens, NEW m \in OutputLens,
             Arrive(r, p, m)
      PROVE  Lists'
  BY <1>1, ArriveBookkeeping
<1>2. ASSUME NEW r \in Abortable, Abort(r)
      PROVE  Lists'
  BY <1>2, AbortBookkeeping, WorkloadAssumption
<1>3. ASSUME ScheduleStep PROVE Lists'
  BY <1>3, ScheduleBookkeeping
<1>4. ASSUME ExecuteStep PROVE Lists'
  BY <1>4, ExecuteBookkeeping
<1>5. ASSUME UpdateStep PROVE Lists'
  BY <1>5, UpdateBookkeeping
<1>6. ASSUME UNCHANGED vars PROVE Lists'
  BY <1>6 DEF Bookkeeping, Lists, QueueInv, Unstarted, IsWaiting, PrefillInv,
    BatchWithinLimit, CountInv, Decoding, ScheduledInv, KnownInv, JoinInv, vars,
    schedVars, requestVars, queueVars, runnerVars
<1>7. Types'
  BY NextTypes DEF Bookkeeping
<1>8. Lists'
  BY <1>1, <1>2, <1>3, <1>4, <1>5, <1>6 DEF Next, EngineStep, Drained
<1> QED BY <1>7, <1>8 DEF Bookkeeping

\* The bookkeeping is an invariant of the engine.
THEOREM BookkeepingHolds == Spec => []Bookkeeping
<1>1. Init => Bookkeeping
  BY InitBookkeeping
<1>2. Bookkeeping /\ [Next]_vars => Bookkeeping'
  BY NextBookkeeping
<1> QED BY <1>1, <1>2, PTL DEF Spec

(***************************************************************************)
(* The assertion of schedule() holds in every state: at most one request   *)
(* prefills, it is running, and it is the one that was just released, if   *)
(* one was.                                                                *)
(***************************************************************************)
THEOREM AtMostOnePrefillHolds == Spec => []AtMostOnePrefill
<1>1. Bookkeeping => AtMostOnePrefill
  <2> SUFFICES ASSUME Bookkeeping PROVE AtMostOnePrefill
    OBVIOUS
  <2>1. ongoing = {} \/ \E r \in ongoing : ongoing = {r}
    BY DEF Bookkeeping, Lists, PrefillInv
  <2>2. Cardinality(ongoing) <= 1
    BY <2>1, FS_EmptySet, FS_Singleton
  <2> QED BY <2>2 DEF Bookkeeping, Lists, PrefillInv, ScheduledInv, AtMostOnePrefill
<1> QED BY <1>1, BookkeepingHolds, PTL

(***************************************************************************)
(* max_num_seqs bounds the requests that run, although the base class sees *)
(* only those that schedule() shows it.                                    *)
(***************************************************************************)
THEOREM BatchWithinLimitHolds == Spec => []BatchWithinLimit
<1>1. Bookkeeping => BatchWithinLimit
  BY DEF Bookkeeping, Lists
<1> QED BY <1>1, BookkeepingHolds, PTL

\* Lists and counts have the types the proofs below work with.
LEMMA EngineTypes ==
  ASSUME Bookkeeping
  PROVE  /\ running \subseteq Requests /\ ongoing \subseteq running
         /\ Decoding \subseteq running
         /\ \A r \in Requests :
              /\ prompt_len[r] \in Nat /\ max_tokens[r] \in Nat
              /\ num_output[r] \in Nat /\ num_computed[r] \in Int
              /\ kv_blocks[r] \in Int
              /\ requests[r] \in RequestStates
              /\ requests[r].num_blocks \in Int
              /\ requests[r].num_computed \in Int
              /\ requests[r].prompt_len \in Nat
              /\ stored[r] \in Int
              /\ scheduler_output.tokens[r] \in Int
              /\ scheduler_output.computed[r] \in Int
              /\ scheduler_output.new_blocks[r] \in Int
              /\ scheduler_output.prompt[r] \in Nat
              /\ model_output.left_padding[r] \in Int
              /\ model_output.prefix_hit[r] \in Int
         /\ scheduler_output.new \subseteq Requests
         /\ scheduler_output.cached \subseteq Requests
<1>1. SchedTypeOK /\ RunnerTypeOK /\ OutputsTypeOK /\ PrefillInv
  BY DEF Bookkeeping, Lists, Types
<1>2. running \subseteq Requests /\ ongoing \subseteq running /\ Decoding \subseteq running
  BY <1>1 DEF SchedTypeOK, PrefillInv, Decoding
<1>3. \A r \in Requests :
        /\ prompt_len[r] \in Nat /\ max_tokens[r] \in Nat
        /\ num_output[r] \in Nat /\ num_computed[r] \in Int
        /\ kv_blocks[r] \in Int
  BY <1>1 DEF SchedTypeOK
<1>4. \A r \in Requests :
        /\ requests[r] \in RequestStates
        /\ requests[r].num_blocks \in Int /\ requests[r].num_computed \in Int
        /\ requests[r].prompt_len \in Nat /\ stored[r] \in Int
  BY <1>1 DEF RunnerTypeOK, RequestStates
<1>5. /\ \A r \in Requests :
           /\ scheduler_output.tokens[r] \in Int /\ scheduler_output.computed[r] \in Int
           /\ scheduler_output.new_blocks[r] \in Int /\ scheduler_output.prompt[r] \in Nat
      /\ scheduler_output.new \subseteq Requests
      /\ scheduler_output.cached \subseteq Requests
  BY <1>1 DEF OutputsTypeOK, SchedulerOutputs
<1>6. \A r \in Requests :
        model_output.left_padding[r] \in Int /\ model_output.prefix_hit[r] \in Int
  BY <1>1 DEF OutputsTypeOK, ModelOutputs
<1> QED BY <1>2, <1>3, <1>4, <1>5, <1>6
-----------------------------------------------------------------------------
(***************************************************************************)
(* The scheduler and the runner agree on the decode batch, although each   *)
(* derives it from its own view of the steps, and the output of a step     *)
(* covers what was scheduled, for all values of the constants.             *)
(*                                                                         *)
(* The last part is what clients see of it: the engine implements          *)
(* continuous batching. Every step of the engine is a step of              *)
(* ContinuousBatching, seen through StageOf, or changes nothing that a     *)
(* client could see.                                                       *)
(***************************************************************************)
\* A prefill between two of its chunks.
Parked(r) == 0 < num_computed[r] /\ num_computed[r] < prompt_len[r]

\* A decoding request whose last token has not been fed to the model.
Lacks(r) == num_computed[r] < prompt_len[r] + num_output[r]

(***************************************************************************)
(* The decode batch in the three phases of the engine loop. The runner     *)
(* learns of finished requests with the next step only, and a complete     *)
(* prefill is in its batch before the scheduler takes it off its list.     *)
(***************************************************************************)
BatchInv ==
  /\ phase = "idle" => input_batch \ finished_ids = Decoding
  /\ phase = "scheduled" => RemainingBatch = Decoding /\ finished_ids = {}
  /\ phase = "executed" =>
       /\ input_batch \ finished_ids \subseteq running
       /\ running \cap finished_ids = {}
       /\ \A r \in running :
            r \in input_batch <=> r \notin ongoing \/ num_computed[r] = prompt_len[r]

\* The prefill batch holds the ongoing prefill.
PrefillBatchInv ==
  \A r \in ongoing :
    ~(phase = "scheduled" /\ r \in scheduler_output.new) => prefill_batch = {r}

\* A scheduled chunk of the one prefill.
PrefillPlan(q) ==
  /\ ongoing = {q}
  /\ \/ scheduler_output.new = {q} /\ scheduler_output.cached = {}
     \/ /\ scheduler_output.new = {} /\ scheduler_output.cached = {q}
        /\ scheduler_output.computed[q] > 0
  /\ 0 <= scheduler_output.computed[q]
  /\ scheduler_output.computed[q] < prompt_len[q]
  /\ scheduler_output.tokens[q] =
       Smaller(prompt_len[q] - scheduler_output.computed[q], ChunkSize)
  /\ \A r \in Decoding : Lacks(r)

\* A scheduled step of all that decode.
DecodePlan ==
  /\ scheduler_output.new = {}
  /\ scheduler_output.cached = Decoding
  /\ \A r \in ongoing : Parked(r)
  /\ \A r \in Decoding : num_computed[r] <= prompt_len[r] + num_output[r]

\* The output of a prefill: sampled, or parked with a harmless correction.
PrefillOutput(r) ==
  \/ /\ num_computed[r] = prompt_len[r]
     /\ scheduler_output.tokens[r] > 0
     /\ r \in model_output.sampled
  \/ /\ Parked(r)
     /\ num_computed[r] <= ChunkSize =>
          /\ 0 <= model_output.left_padding[r]
          /\ model_output.left_padding[r] < num_computed[r]
          /\ model_output.prefix_hit[r] <= num_computed[r]

\* The output of a decoding request: a token, if it was fed its last one.
DecodeOutput(r) ==
  \/ Lacks(r)
  \/ /\ num_computed[r] <= prompt_len[r] + num_output[r]
     /\ scheduler_output.tokens[r] > 0
     /\ r \in model_output.sampled

StepInv ==
  /\ phase = "idle" =>
       (\A r \in ongoing : Parked(r)) /\ (\A r \in Decoding : Lacks(r))
  /\ phase = "scheduled" => (\E q \in Requests : PrefillPlan(q)) \/ DecodePlan
  /\ phase = "executed" =>
       /\ \A r \in ongoing : PrefillOutput(r)
       /\ \A r \in Decoding : DecodeOutput(r)

\* Counts of computed tokens are never negative.
TokenInv == \A r \in Requests : num_computed[r] >= 0

Agreement ==
  /\ BatchInv
  /\ PrefillBatchInv
  /\ StepInv
  /\ TokenInv
  /\ OutputCoversScheduled
-----------------------------------------------------------------------------
\* Running and ongoing requests are requests, with numbers for counts.
LEMMA AgreementTypes ==
  ASSUME Bookkeeping
  PROVE  /\ running \subseteq Requests /\ ongoing \subseteq running
         /\ \A r \in Requests :
              prompt_len[r] \in Nat /\ num_output[r] \in Nat /\ num_computed[r] \in Int
BY DEF Bookkeeping, Lists, Types, SchedTypeOK, PrefillInv

\* Nobody disagrees when the engine starts.
LEMMA InitAgreement == Init => Agreement
BY DEF Init, SchedInit, RunnerInit, Agreement, BatchInv, Decoding, PrefillBatchInv,
  StepInv, TokenInv, OutputCoversScheduled

\* Who waits in the queue has no part in a step.
LEMMA ArriveAgreement ==
  ASSUME Bookkeeping, Agreement, NEW r \in Requests, NEW p \in PromptLens,
         NEW m \in OutputLens, Arrive(r, p, m)
  PROVE  Agreement'
<1>1. /\ prompt_len[r] = 0
      /\ prompt_len' = [prompt_len EXCEPT ![r] = p]
      /\ phase = "idle" /\ phase' = phase
      /\ UNCHANGED <<num_computed, num_output, running, ongoing, finished_ids,
                     input_batch, prefill_batch, scheduler_output>>
  BY DEF Arrive, AddRequest, runnerVars
<1>2. r \notin running
  BY <1>1 DEF Bookkeeping, Lists, QueueInv, Unstarted
<1>3. \A q \in running : prompt_len'[q] = prompt_len[q]
  BY <1>1, <1>2, AgreementTypes DEF Bookkeeping, Types, SchedTypeOK
<1>4. Decoding' = Decoding /\ Decoding \subseteq running /\ ongoing \subseteq running
  BY <1>1, AgreementTypes DEF Decoding
<1>5. BatchInv' /\ PrefillBatchInv' /\ TokenInv' /\ OutputCoversScheduled'
  BY <1>1, <1>4
  DEF Agreement, BatchInv, PrefillBatchInv, TokenInv, OutputCoversScheduled
<1>6. StepInv'
  BY <1>1, <1>3, <1>4 DEF Agreement, StepInv, Parked, Lacks
<1> QED BY <1>5, <1>6 DEF Agreement

\* An aborted request is finished for both sides.
LEMMA AbortAgreement ==
  ASSUME Bookkeeping, Agreement, NEW r \in Requests, Abort(r)
  PROVE  Agreement'
<1>1. /\ running' = running \ {r}
      /\ ongoing' = ongoing \ {r}
      /\ finished_ids' = finished_ids \cup {r}
      /\ phase \in {"idle", "executed"} /\ phase' = phase
      /\ UNCHANGED <<prompt_len, num_computed, num_output, input_batch, prefill_batch,
                     scheduler_output, model_output>>
  BY DEF Abort, FinishRequest, Free, OngoingWithout, requestVars, runnerVars
<1>2. Decoding' = Decoding \ {r}
  BY <1>1 DEF Decoding
<1>3. BatchInv'
  <2>1. CASE phase = "idle"
    BY <1>1, <1>2, <2>1 DEF Agreement, BatchInv
  <2>2. CASE phase = "executed"
    BY <1>1, <2>2 DEF Agreement, BatchInv
  <2> QED BY <1>1, <2>1, <2>2
<1>4. PrefillBatchInv' /\ TokenInv' /\ OutputCoversScheduled'
  BY <1>1 DEF Agreement, PrefillBatchInv, TokenInv, OutputCoversScheduled
<1>5. StepInv'
  BY <1>1, <1>2 DEF Agreement, StepInv, Parked, Lacks, PrefillOutput, DecodeOutput
<1> QED BY <1>3, <1>4, <1>5 DEF Agreement
-----------------------------------------------------------------------------
\* A step is a chunk of one prefill, or a step of all requests that decode.
LEMMA ScheduleAgreement ==
  ASSUME Bookkeeping, Agreement, ScheduleStep
  PROVE  Agreement'
<1>1. PICK n \in 0 .. 1, released \in SUBSET Requests,
           start \in [Requests -> Int], tokens \in [Requests -> Int] :
        /\ n <= Len(waiting)
        /\ Releasing(n, released)
        /\ Counting(n, released, start, tokens)
        /\ Messaging(released, start, tokens)
        /\ running' = running \cup released
        /\ ongoing' = IF ongoing = {} THEN released ELSE ongoing
        /\ finished_ids' = {}
  BY ScheduleShape
<1>2. /\ phase = "idle" /\ phase' = "scheduled"
      /\ UNCHANGED <<prompt_len, num_output, requests, input_batch, prefill_batch>>
  BY DEF ScheduleStep, Schedule, runnerVars
<1>3. /\ running \subseteq Requests /\ ongoing \subseteq running
      /\ \A r \in Requests :
           prompt_len[r] \in Nat /\ num_output[r] \in Nat /\ num_computed[r] \in Int
      /\ ChunkSize \in Nat \ {0}
  BY AgreementTypes, ChunkSizeType
<1>4. /\ input_batch \ finished_ids = Decoding
      /\ \A r \in ongoing : Parked(r)
      /\ \A r \in Decoding : Lacks(r)
      /\ \A r \in Requests : num_computed[r] >= 0
      /\ \A r \in ongoing : num_output[r] = 0 /\ prefill_batch = {r}
  BY <1>2 DEF Agreement, BatchInv, StepInv, TokenInv, PrefillBatchInv, Bookkeeping,
    Lists, CountInv
<1>5. released \cap running = {} /\ (ongoing # {} => released = {})
  <2>1. ASSUME NEW r \in released PROVE r \notin running /\ ongoing = {}
    <3>1. 1 \in 1 .. Len(waiting) /\ r = waiting[1] /\ ongoing = {}
      BY <1>1, LenProperties DEF Releasing, Bookkeeping, Types, SchedTypeOK
    <3> QED BY <3>1, WaitingUnstarted
  <2> QED BY <2>1
<1>6. Decoding' = Decoding /\ Decoding \subseteq Requests
  BY <1>1, <1>3, <1>5 DEF Decoding
<1>7. \A r \in Requests :
        /\ r \in released =>
             /\ 0 <= start[r] /\ start[r] < prompt_len[r]
             /\ tokens[r] = Smaller(prompt_len[r] - start[r], ChunkSize)
        /\ r \notin released =>
             /\ start[r] = num_computed[r]
             /\ tokens[r] = IF r \in Visible(n) THEN RunningTokens(r) ELSE 0
        /\ num_computed'[r] = start[r] + tokens[r]
        /\ start[r] \in Int /\ tokens[r] \in Int
  BY <1>1 DEF Counting
<1> DEFINE scheduled == {r \in Requests : tokens[r] > 0}
<1>8. /\ scheduler_output'.new = released
      /\ scheduler_output'.cached = scheduled \ released
      /\ scheduler_output'.computed = [r \in Requests |-> IF r \in scheduled THEN start[r] ELSE 0]
      /\ scheduler_output'.tokens = tokens
      /\ scheduler_output'.finished = finished_ids
  BY <1>1 DEF Messaging
<1>9. BatchInv'
  BY <1>1, <1>2, <1>4, <1>6, <1>8 DEF BatchInv, RemainingBatch
<1>10. PrefillBatchInv'
  BY <1>1, <1>2, <1>4, <1>8 DEF PrefillBatchInv
<1>11. \A r \in Visible(n) \ released : tokens[r] > 0 /\ r \in Requests
  <2>1. ASSUME NEW r \in Visible(n) \ released PROVE tokens[r] > 0 /\ r \in Requests
    <3>1. r \in Requests /\ (r \in ongoing \/ r \in Decoding)
      BY <1>3 DEF Visible, Decoding
    <3>2. prompt_len[r] + num_output[r] - num_computed[r] > 0
      BY <1>3, <1>4, <3>1 DEF Parked, Lacks
    <3> QED BY <1>3, <1>7, <2>1, <3>1, <3>2 DEF RunningTokens, Smaller
  <2> QED BY <2>1
<1>12. scheduled = released \cup Visible(n)
  <2>1. \A r \in released : tokens[r] > 0
    BY <1>3, <1>7 DEF Smaller
  <2> QED BY <1>7, <1>11, <2>1
<1> HIDE DEF scheduled
<1>13. TokenInv'
  <2>1. ASSUME NEW r \in Requests PROVE num_computed'[r] >= 0
    <3>1. tokens[r] >= 0
      BY <1>7, <1>12 DEF scheduled
    <3> QED BY <1>4, <1>7, <3>1
  <2> QED BY <2>1 DEF TokenInv
<1>14. CASE released # {}
  <2>1. PICK q \in Requests : released = {q} /\ ongoing = {} /\ n = 1
    BY <1>1, <1>14 DEF Releasing
  <2>2. Visible(n) = {}
    BY <2>1 DEF Visible, SchedulesPrefill
  <2>3. \A r \in Decoding : num_computed'[r] = num_computed[r]
    BY <1>3, <1>5, <1>6, <1>7, <2>2 DEF Decoding
  <2>4. /\ ongoing' = {q}
        /\ scheduler_output'.new = {q} /\ scheduler_output'.cached = {}
        /\ scheduler_output'.computed[q] = start[q]
        /\ scheduler_output'.tokens[q] = tokens[q]
    BY <1>1, <1>8, <1>12, <2>1, <2>2
  <2>5. PrefillPlan(q)'
    BY <1>2, <1>4, <1>6, <1>7, <2>1, <2>3, <2>4 DEF PrefillPlan, Lacks
  <2> QED BY <1>2, <1>9, <1>10, <1>13, <2>5
          DEF Agreement, StepInv, OutputCoversScheduled
<1>15. CASE released = {} /\ Visible(n) = ongoing /\ ongoing # {}
  <2>1. PICK q \in Requests : ongoing = {q}
    BY <1>3, <1>15 DEF Bookkeeping, Lists, PrefillInv
  <2>2. \A r \in Decoding : num_computed'[r] = num_computed[r]
    BY <1>6, <1>7, <1>15 DEF Decoding
  <2>3. /\ ongoing' = {q}
        /\ scheduler_output'.new = {} /\ scheduler_output'.cached = {q}
        /\ scheduler_output'.computed[q] = num_computed[q]
        /\ scheduler_output'.tokens[q] = RunningTokens(q)
    BY <1>1, <1>7, <1>8, <1>12, <1>15, <2>1
  <2>4. RunningTokens(q) = Smaller(prompt_len[q] - num_computed[q], ChunkSize)
    BY <1>3, <1>4, <2>1 DEF RunningTokens
  <2>5. PrefillPlan(q)'
    BY <1>2, <1>3, <1>4, <1>6, <2>1, <2>2, <2>3, <2>4 DEF PrefillPlan, Lacks, Parked
  <2> QED BY <1>2, <1>9, <1>10, <1>13, <2>5
          DEF Agreement, StepInv, OutputCoversScheduled
<1>16. CASE released = {} /\ Visible(n) = Decoding
  <2>1. ongoing' = ongoing /\ scheduler_output'.new = {}
        /\ scheduler_output'.cached = Decoding
    BY <1>1, <1>8, <1>12, <1>16
  <2>2. \A r \in ongoing : num_computed'[r] = num_computed[r]
    BY <1>3, <1>7, <1>16 DEF Decoding
  <2>3. ASSUME NEW r \in Decoding
        PROVE  num_computed'[r] <= prompt_len[r] + num_output[r]
    <3>1. num_computed'[r] = num_computed[r] + RunningTokens(r)
      BY <1>6, <1>7, <1>16
    <3> QED BY <1>3, <1>6, <3>1, ChunkSizeType DEF RunningTokens, Smaller
  <2>4. DecodePlan'
    BY <1>2, <1>4, <1>6, <2>1, <2>2, <2>3 DEF DecodePlan, Parked
  <2> QED BY <1>2, <1>9, <1>10, <1>13, <2>4
          DEF Agreement, StepInv, OutputCoversScheduled
<1>17. released = {} => (Visible(n) = ongoing /\ ongoing # {}) \/ Visible(n) = Decoding
  BY <1>1 DEF Releasing, Visible, SchedulesPrefill
<1> QED BY <1>14, <1>15, <1>16, <1>17
-----------------------------------------------------------------------------
(***************************************************************************)
(* The padding of a prompt is less than a chunk: what is taken off the     *)
(* token count after the first chunk leaves at least one token of it.      *)
(***************************************************************************)
LEMMA PaddingBounds ==
  ASSUME NEW p \in Nat \ {0}
  PROVE  0 <= PaddingBlocks(p) /\ PaddingBlocks(p) < ChunkBlocks
<1> DEFINE c == ChunkCount(p)
           b == BlocksFor(p)
           d == c * ChunkBlocks
<1>1. /\ BlockSize \in Nat \ {0} /\ ChunkBlocks \in Nat \ {0}
      /\ ChunkSize \in Nat \ {0} /\ ChunkSize = ChunkBlocks * BlockSize
  BY BlockAssumption, ChunkSizeType DEF ChunkSize
<1>2. c \in Int /\ b \in Int
  BY PlanTypes, BlocksForType
<1>3. p <= c * ChunkSize /\ c * ChunkSize <= p + ChunkSize - 1
  <2>1. p + ChunkSize - 1 \in Int
    BY <1>1
  <2>2. c * ChunkSize <= p + ChunkSize - 1 /\ p + ChunkSize - 1 < c * ChunkSize + ChunkSize
    BY <1>1, <2>1, DivBounds DEF ChunkCount, CeilDiv
  <2>3. c * ChunkSize \in Int
    BY <1>1, <1>2
  <2> HIDE DEF c
  <2> QED BY <1>1, <2>2, <2>3
<1>4. p <= b * BlockSize /\ b * BlockSize <= p + BlockSize - 1
  <2>1. p + BlockSize - 1 \in Int
    BY <1>1
  <2>2. b * BlockSize <= p + BlockSize - 1 /\ p + BlockSize - 1 < b * BlockSize + BlockSize
    BY <1>1, <2>1, DivBounds DEF BlocksFor, CeilDiv
  <2>3. b * BlockSize \in Int
    BY <1>1, <1>2
  <2> HIDE DEF b
  <2> QED BY <1>1, <2>2, <2>3
<1>5. PaddingBlocks(p) = d - b
  BY DEF PaddingBlocks
<1> HIDE DEF c, b
<1>6. d \in Int /\ c * ChunkSize = d * BlockSize
  BY <1>1, <1>2
<1> HIDE DEF d
<1>7. b <= d
  <2> SUFFICES ASSUME d + 1 <= b PROVE FALSE
    BY <1>2, <1>6
  <2>1. (d + 1) * BlockSize <= b * BlockSize
    BY <1>1, <1>2, <1>6, ProductMonotonic
  <2>2. (d + 1) * BlockSize = d * BlockSize + BlockSize
    BY <1>1, <1>6
  <2>3. d * BlockSize \in Int /\ b * BlockSize \in Int
    BY <1>1, <1>2, <1>6
  <2> QED BY <1>1, <1>3, <1>4, <1>6, <2>1, <2>2, <2>3
<1>8. d - b < ChunkBlocks
  <2> SUFFICES ASSUME b <= d - ChunkBlocks PROVE FALSE
    BY <1>1, <1>2, <1>6
  <2>1. b * BlockSize <= (d - ChunkBlocks) * BlockSize
    BY <1>1, <1>2, <1>6, ProductMonotonic
  <2>2. (d - ChunkBlocks) * BlockSize = d * BlockSize - ChunkSize
    BY <1>1, <1>6
  <2>3. d * BlockSize \in Int /\ b * BlockSize \in Int
    BY <1>1, <1>2, <1>6
  <2> QED BY <1>1, <1>3, <1>4, <1>6, <2>1, <2>2, <2>3
<1> QED BY <1>2, <1>5, <1>6, <1>7, <1>8

\* A prompt of which nothing was cached has padding of less than a chunk, and
\* reports no prefix hit.
LEMMA NewRequestBounds ==
  ASSUME NEW p \in Nat \ {0}, NEW blocks \in Int
  PROVE  /\ 0 <= LeftPadding(NewRequest(p, 0, blocks))
         /\ LeftPadding(NewRequest(p, 0, blocks)) < ChunkSize
         /\ NewRequest(p, 0, blocks).usable_blocks * BlockSize = 0
<1>1. /\ BlockSize \in Nat \ {0} /\ ChunkBlocks \in Nat \ {0}
      /\ ChunkSize = ChunkBlocks * BlockSize
  BY BlockAssumption DEF ChunkSize
<1> DEFINE padding == PaddingBlocks(p)
<1>2. padding \in Int /\ 0 <= padding /\ padding < ChunkBlocks
  BY PaddingBounds, PlanTypes
<1>3. 0 \div BlockSize = 0
  BY <1>1
<1>4. /\ NewRequest(p, 0, blocks).padding_blocks = padding
      /\ NewRequest(p, 0, blocks).usable_blocks = UsableBlocks(p, 0)
  BY <1>3 DEF NewRequest
<1> HIDE DEF padding
<1>5. UsableBlocks(p, 0) = 0
  <2>1. (padding + 0) \div ChunkBlocks = 0
    BY <1>1, <1>2
  <2>2. CachedChunks(p, 0) = 0 \/ CachedChunks(p, 0) = 0 - 1
    BY <2>1 DEF CachedChunks, padding
  <2>3. CachedChunks(p, 0) * ChunkBlocks <= 0 /\ CachedChunks(p, 0) * ChunkBlocks \in Int
    BY <1>1, <2>2
  <2>4. UsableBlocks(p, 0) =
          IF PrefixCaching THEN Larger(0, CachedChunks(p, 0) * ChunkBlocks - padding) ELSE 0
    BY DEF UsableBlocks, padding
  <2>5. CachedChunks(p, 0) * ChunkBlocks - padding <= 0
        /\ CachedChunks(p, 0) * ChunkBlocks - padding \in Int
    BY <1>2, <2>3
  <2> QED BY <2>4, <2>5 DEF Larger
<1>6. 0 <= padding * BlockSize /\ padding * BlockSize < ChunkSize
  <2>1. padding + 1 <= ChunkBlocks /\ padding + 1 \in Int
    BY <1>1, <1>2
  <2>2. (padding + 1) * BlockSize <= ChunkBlocks * BlockSize
    BY <1>1, <2>1, ProductMonotonic
  <2>3. (padding + 1) * BlockSize = padding * BlockSize + BlockSize
    BY <1>1, <1>2
  <2>4. padding * BlockSize \in Nat /\ ChunkBlocks * BlockSize \in Nat
    BY <1>1, <1>2
  <2> QED BY <1>1, <2>2, <2>3, <2>4
<1> QED BY <1>1, <1>4, <1>5, <1>6 DEF LeftPadding
-----------------------------------------------------------------------------
\* A scheduled chunk of a prefill is one for the runner, and no other step is.
LEMMA PlannedPrefill ==
  ASSUME Bookkeeping, phase = "scheduled", NEW q \in Requests, PrefillPlan(q)
  PROVE  /\ HasTokens
         /\ \A r \in Requests : Prefills(r) <=> r = q
<1>1. /\ ongoing = {q} /\ q \in running
      /\ \/ scheduler_output.new = {q} /\ scheduler_output.cached = {}
         \/ scheduler_output.new = {} /\ scheduler_output.cached = {q}
      /\ scheduler_output.computed[q] < prompt_len[q]
  BY DEF PrefillPlan, Bookkeeping, Lists, PrefillInv
<1>2. scheduler_output.new = {} => requests[q].prompt_len = prompt_len[q]
  BY <1>1 DEF Bookkeeping, Lists, KnownInv
<1>3. scheduler_output.tokens[q] > 0
  BY <1>1 DEF Bookkeeping, Lists, ScheduledInv
<1> QED BY <1>1, <1>2, <1>3 DEF HasTokens, Prefills

\* A chunk is executed: the request joins the batch, or is parked.
LEMMA PrefillAgreement ==
  ASSUME Bookkeeping, Agreement, phase = "scheduled", NEW q \in Requests,
         PrefillPlan(q), Prefill(q, StateFor(q), PrefillInput(q, StateFor(q))),
         phase' = "executed",
         UNCHANGED <<prompt_len, num_computed, num_output, running, ongoing,
                     finished_ids, scheduler_output>>
  PROVE  Agreement'
<1> DEFINE so == scheduler_output
           s == StateFor(q)
<1>1. /\ running \subseteq Requests /\ ongoing \subseteq running
      /\ \A r \in Requests :
           prompt_len[r] \in Nat /\ num_output[r] \in Nat /\ num_computed[r] \in Int
      /\ ChunkSize \in Nat \ {0}
  BY AgreementTypes, ChunkSizeType
<1>2. /\ ongoing = {q} /\ q \in running
      /\ \/ so.new = {q} /\ so.cached = {}
         \/ so.new = {} /\ so.cached = {q} /\ so.computed[q] > 0
      /\ 0 <= so.computed[q] /\ so.computed[q] < prompt_len[q]
      /\ so.tokens[q] = Smaller(prompt_len[q] - so.computed[q], ChunkSize)
      /\ \A r \in Decoding : Lacks(r)
  BY <1>1 DEF PrefillPlan
<1>3. /\ so.computed[q] + so.tokens[q] = num_computed[q]
      /\ \A r \in Requests : so.tokens[r] > 0 <=> r = q
      /\ so.new = {q} => so.prompt[q] = prompt_len[q]
      /\ so.computed[q] \in Int /\ so.tokens[q] \in Int /\ so.new_blocks[q] \in Int
  BY <1>2 DEF Bookkeeping, Lists, ScheduledInv, Types, OutputsTypeOK, SchedulerOutputs
<1>4. s.prompt_len = prompt_len[q]
  <2>1. CASE so.new = {q}
    BY <1>3, <2>1 DEF StateFor, NewRequest
  <2>2. CASE so.new = {}
    BY <1>2, <2>2, UpdateKeepsPrompt DEF StateFor, Bookkeeping, Lists, KnownInv, Types
  <2> QED BY <1>2, <2>1, <2>2
<1>5. BatchFor(q) = {q}
  BY <1>2 DEF BatchFor, Agreement, PrefillBatchInv
<1>6. /\ requests'[q] = s
      /\ prefill_batch' = {q}
      /\ input_batch' = IF IsIncomplete(q, s) THEN RemainingBatch ELSE RemainingBatch \cup {q}
      /\ model_output'.req_ids = {q}
      /\ model_output'.sampled = IF IsIncomplete(q, s) THEN {} ELSE {q}
      /\ model_output'.left_padding =
           [r \in Requests |-> IF r \in {q} THEN LeftPadding(requests'[r]) ELSE 0]
      /\ model_output'.prefix_hit =
           [r \in Requests |-> IF r \in {q} /\ IsIncomplete(q, s)
                                 THEN requests'[r].usable_blocks * BlockSize ELSE 0]
  BY <1>5 DEF Prefill, UpdatedRequests
<1> HIDE DEF s
<1>7. IsIncomplete(q, s) <=> num_computed[q] < prompt_len[q]
  BY <1>3, <1>4 DEF IsIncomplete
<1>8. num_computed[q] <= prompt_len[q] /\ num_computed[q] > 0
      /\ (num_computed[q] < prompt_len[q] => num_computed[q] = so.computed[q] + ChunkSize)
  BY <1>1, <1>2, <1>3 DEF Smaller
<1>9. RemainingBatch = Decoding /\ finished_ids = {}
  BY DEF Agreement, BatchInv
<1>10. BatchInv'
  <2>1. input_batch' = IF num_computed[q] < prompt_len[q] THEN Decoding ELSE Decoding \cup {q}
    BY <1>6, <1>7, <1>9
  <2> QED BY <1>1, <1>2, <1>8, <1>9, <2>1 DEF BatchInv, Decoding
<1>11. PrefillBatchInv' /\ TokenInv' /\ OutputCoversScheduled'
  BY <1>1, <1>2, <1>3, <1>6 DEF PrefillBatchInv, TokenInv, OutputCoversScheduled, Agreement
<1>12. PrefillOutput(q)'
  <2>1. CASE num_computed[q] = prompt_len[q]
    BY <1>1, <1>3, <1>6, <1>7, <2>1 DEF PrefillOutput
  <2>2. CASE num_computed[q] < prompt_len[q] /\ num_computed[q] > ChunkSize
    BY <1>1, <1>8, <2>2 DEF PrefillOutput, Parked
  <2>3. CASE num_computed[q] < prompt_len[q] /\ num_computed[q] <= ChunkSize
    <3>1. so.computed[q] = 0 /\ num_computed[q] = ChunkSize
      BY <1>1, <1>2, <1>3, <1>8, <2>3
    <3>2. so.new = {q}
      BY <1>2, <3>1
    <3>3. s = NewRequest(prompt_len[q], 0, so.new_blocks[q])
      BY <1>3, <3>1, <3>2 DEF s, StateFor
    <3>4. prompt_len[q] \in Nat \ {0}
      BY <1>1, <1>2, <3>1
    <3>5. /\ 0 <= LeftPadding(s) /\ LeftPadding(s) < ChunkSize
          /\ s.usable_blocks * BlockSize = 0
      BY <1>3, <3>3, <3>4, NewRequestBounds
    <3>6. /\ model_output'.left_padding[q] = LeftPadding(s)
          /\ model_output'.prefix_hit[q] = 0
      <4>1. model_output'.left_padding[q] = LeftPadding(requests'[q])
        BY <1>6
      <4>2. model_output'.prefix_hit[q] = requests'[q].usable_blocks * BlockSize
        BY <1>6, <1>7, <2>3
      <4> QED BY <1>6, <3>5, <4>1, <4>2
    <3> QED BY <1>1, <1>8, <2>3, <3>1, <3>5, <3>6 DEF PrefillOutput, Parked
  <2> QED BY <1>1, <1>8, <2>1, <2>2, <2>3
<1>13. StepInv'
  BY <1>2, <1>12 DEF StepInv, DecodeOutput, Decoding, Lacks
<1> QED BY <1>10, <1>11, <1>13 DEF Agreement

\* A decode step, or an empty one when nothing decodes, is executed.
LEMMA DecodeAgreementStep ==
  ASSUME Bookkeeping, Agreement, phase = "scheduled", DecodePlan,
         EmptyStep \/ DecodeStep, phase' = "executed",
         UNCHANGED <<prompt_len, num_computed, num_output, running, ongoing,
                     finished_ids, scheduler_output>>
  PROVE  Agreement'
<1> DEFINE so == scheduler_output
<1>1. /\ running \subseteq Requests /\ ongoing \subseteq running
      /\ \A r \in Requests :
           prompt_len[r] \in Nat /\ num_output[r] \in Nat /\ num_computed[r] \in Int
  BY AgreementTypes
<1>2. /\ so.new = {} /\ so.cached = Decoding
      /\ \A r \in ongoing : Parked(r)
      /\ \A r \in Decoding : num_computed[r] <= prompt_len[r] + num_output[r]
  BY DEF DecodePlan
<1>3. \A r \in Requests : r \in Decoding <=> so.tokens[r] > 0
  BY <1>2 DEF Bookkeeping, Lists, ScheduledInv
<1>4. RemainingBatch = Decoding /\ finished_ids = {}
  BY DEF Agreement, BatchInv
<1>5. /\ input_batch' = Decoding /\ prefill_batch' = prefill_batch
      /\ Decoding \subseteq model_output'.sampled
      /\ Decoding \subseteq model_output'.req_ids
      /\ \A r \in ongoing : /\ model_output'.left_padding[r] = 0
                            /\ model_output'.prefix_hit[r] = 0
  <2>1. CASE EmptyStep
    <3>1. Decoding = {}
      BY <1>1, <1>3, <2>1 DEF EmptyStep, HasTokens, Decoding
    <3>2. model_output' = EmptyOutput /\ input_batch' = RemainingBatch
          /\ prefill_batch' = prefill_batch
      BY <2>1 DEF EmptyStep
    <3>3. \A r \in Requests : EmptyOutput.left_padding[r] = 0 /\ EmptyOutput.prefix_hit[r] = 0
      BY DEF EmptyOutput, Nothing
    <3> QED BY <1>1, <1>4, <3>1, <3>2, <3>3
  <2>2. CASE DecodeStep
    <3>1. /\ input_batch' = RemainingBatch /\ prefill_batch' = prefill_batch
          /\ model_output'.req_ids = RemainingBatch
          /\ model_output'.sampled = RemainingBatch
          /\ \A r \in Requests \ RemainingBatch : model_output'.left_padding[r] = 0
          /\ model_output'.prefix_hit = Nothing
      BY <2>2 DEF DecodeStep
    <3>2. \A r \in Requests : Nothing[r] = 0
      BY DEF Nothing
    <3> QED BY <1>1, <1>4, <3>1, <3>2 DEF Decoding
  <2> QED BY <2>1, <2>2
<1>6. BatchInv'
  BY <1>1, <1>2, <1>4, <1>5 DEF BatchInv, Decoding, Parked
<1>7. PrefillBatchInv'
  BY <1>2, <1>5 DEF PrefillBatchInv, Agreement
<1>8. TokenInv' /\ OutputCoversScheduled'
  BY <1>1, <1>3, <1>5 DEF TokenInv, OutputCoversScheduled, Agreement
<1>9. StepInv'
  <2>1. \A r \in ongoing' : PrefillOutput(r)'
    BY <1>1, <1>2, <1>5 DEF PrefillOutput, Parked
  <2>2. \A r \in Decoding' : DecodeOutput(r)'
    BY <1>1, <1>2, <1>3, <1>5 DEF DecodeOutput, Decoding
  <2> QED BY <2>1, <2>2 DEF StepInv
<1> QED BY <1>6, <1>7, <1>8, <1>9 DEF Agreement

\* The runner executes the kind of step that was scheduled.
LEMMA ExecuteAgreement ==
  ASSUME Bookkeeping, Agreement, ExecuteStep
  PROVE  Agreement'
<1>1. /\ phase = "scheduled" /\ phase' = "executed" /\ ExecuteModel
      /\ UNCHANGED <<prompt_len, num_computed, num_output, running, ongoing,
                     finished_ids, scheduler_output>>
  BY DEF ExecuteStep, schedVars, requestVars, queueVars
<1>2. ASSUME NEW q \in Requests, PrefillPlan(q)
      PROVE  Agreement'
  <2>1. HasTokens /\ \A r \in Requests : Prefills(r) <=> r = q
    BY <1>1, <1>2, PlannedPrefill
  <2>2. PrefillStep
    BY <1>1, <2>1 DEF ExecuteModel, EmptyStep, DecodeStep
  <2>3. Prefill(q, StateFor(q), PrefillInput(q, StateFor(q)))
    BY <2>1, <2>2 DEF PrefillStep
  <2> QED BY <1>1, <1>2, <2>3, PrefillAgreement
<1>3. ASSUME DecodePlan
      PROVE  Agreement'
  <2>1. ~PrefillStep
    <3> SUFFICES ASSUME NEW r \in Requests, Prefills(r) PROVE FALSE
      BY DEF PrefillStep
    <3>1. r \in Decoding /\ r \in scheduler_output.cached
          /\ scheduler_output.computed[r] < requests[r].prompt_len
      BY <1>3 DEF DecodePlan, Prefills
    <3>2. requests[r].prompt_len = prompt_len[r]
      BY <1>3, <3>1 DEF DecodePlan, Bookkeeping, Lists, KnownInv, Decoding
    <3>3. scheduler_output.computed[r] >= prompt_len[r]
      BY <1>1, <3>1 DEF Bookkeeping, Lists, ScheduledInv, Decoding
    <3>4. scheduler_output.computed[r] \in Int /\ prompt_len[r] \in Nat
      BY DEF Bookkeeping, Lists, Types, OutputsTypeOK, SchedulerOutputs, SchedTypeOK
    <3> QED BY <3>1, <3>2, <3>3, <3>4
  <2>2. EmptyStep \/ DecodeStep
    BY <1>1, <2>1 DEF ExecuteModel
  <2> QED BY <1>1, <1>3, <2>2, DecodeAgreementStep
<1>4. (\E q \in Requests : PrefillPlan(q)) \/ DecodePlan
  BY <1>1 DEF Agreement, StepInv
<1> QED BY <1>2, <1>3, <1>4
-----------------------------------------------------------------------------
\* The correction for padding leaves a parked prefill parked.
LEMMA ParkedStays ==
  ASSUME Bookkeeping, NEW r \in ongoing, PrefillOutput(r)
  PROVE  IF num_computed[r] = prompt_len[r]
           THEN ComputedAfter(r) = prompt_len[r]
           ELSE /\ ComputedAfter(r) \in Nat
                /\ 0 < ComputedAfter(r) /\ ComputedAfter(r) < prompt_len[r]
<1>1. /\ r \in Requests /\ prompt_len[r] \in Nat /\ num_computed[r] \in Int
      /\ ChunkSize \in Nat
  BY AgreementTypes, ChunkSizeType
<1>2. model_output.left_padding[r] \in Int /\ model_output.prefix_hit[r] \in Int
  BY <1>1 DEF Bookkeeping, Types, OutputsTypeOK, ModelOutputs
<1> QED
  BY <1>1, <1>2 DEF PrefillOutput, Parked, ComputedAfter, AdjustComputedTokens

\* After the update both sides have the same requests decode.
LEMMA UpdateAgreement ==
  ASSUME Bookkeeping, Agreement, UpdateStep
  PROVE  Agreement'
<1> DEFINE sampled == {r \in running : /\ scheduler_output.tokens[r] > 0
                                       /\ r \in model_output.sampled}
<1>1. /\ num_computed' = [r \in Requests |-> ComputedAfter(r)]
      /\ ongoing' = {r \in ongoing : ComputedAfter(r) < prompt_len[r]}
      /\ num_output' = [r \in Requests |-> IF r \in sampled THEN num_output[r] + 1
                                                            ELSE num_output[r]]
      /\ \E eos \in SUBSET sampled : Free(eos \cup {r \in sampled : AtLimit(r)})
      /\ UNCHANGED <<prompt_len, input_batch, prefill_batch>>
      /\ phase = "executed" /\ phase' = "idle"
  BY DEF UpdateStep, UpdateFromOutput, runnerVars
<1>2. PICK gone \in SUBSET sampled :
        running' = running \ gone /\ finished_ids' = finished_ids \cup gone
  BY <1>1 DEF Free
<1>3. /\ running \subseteq Requests /\ ongoing \subseteq running
      /\ \A r \in Requests :
           prompt_len[r] \in Nat /\ num_output[r] \in Nat /\ num_computed[r] \in Int
  BY AgreementTypes
<1>4. /\ input_batch \ finished_ids \subseteq running
      /\ running \cap finished_ids = {}
      /\ \A r \in running :
           r \in input_batch <=> r \notin ongoing \/ num_computed[r] = prompt_len[r]
      /\ \A r \in ongoing : PrefillOutput(r)
      /\ \A r \in Decoding : DecodeOutput(r)
  BY <1>1 DEF Agreement, BatchInv, StepInv
<1>5. \A r \in ongoing :
        IF num_computed[r] = prompt_len[r]
          THEN ComputedAfter(r) = prompt_len[r]
          ELSE /\ ComputedAfter(r) \in Nat
               /\ 0 < ComputedAfter(r) /\ ComputedAfter(r) < prompt_len[r]
  BY <1>4, ParkedStays
<1>6. \A r \in Requests : r \notin ongoing => ComputedAfter(r) = num_computed[r]
  BY DEF ComputedAfter
<1>7. ongoing' = {r \in ongoing : num_computed[r] # prompt_len[r]}
  BY <1>1, <1>3, <1>5
<1>8. Decoding' = (running \ gone) \ {r \in ongoing : num_computed[r] # prompt_len[r]}
  BY <1>2, <1>7 DEF Decoding
<1>9. BatchInv'
  <2>1. input_batch' \ finished_ids' = (input_batch \ finished_ids) \ gone
    BY <1>1, <1>2
  <2>2. input_batch \ finished_ids
          = {r \in running : r \notin ongoing \/ num_computed[r] = prompt_len[r]}
    BY <1>4
  <2> QED BY <1>1, <1>8, <2>1, <2>2 DEF BatchInv
<1>10. PrefillBatchInv'
  BY <1>1, <1>7 DEF PrefillBatchInv, Agreement
<1>11. TokenInv'
  <2>1. ASSUME NEW r \in Requests PROVE ComputedAfter(r) >= 0
    BY <1>3, <1>5, <1>6 DEF Agreement, TokenInv
  <2> QED BY <1>1, <2>1 DEF TokenInv
<1>12. StepInv'
  <2>1. ASSUME NEW r \in ongoing' PROVE Parked(r)'
    BY <1>1, <1>3, <1>5, <1>7, <2>1 DEF Parked
  <2>2. ASSUME NEW r \in Decoding' PROVE Lacks(r)'
    <3>1. r \in Requests /\ r \in running
          /\ (r \notin ongoing \/ num_computed[r] = prompt_len[r])
      BY <1>3, <1>8, <2>2
    <3>2. num_output'[r] = IF r \in sampled THEN num_output[r] + 1 ELSE num_output[r]
      BY <1>1, <3>1
    <3>3. CASE r \in ongoing
      <4>1. r \in sampled
        BY <1>3, <1>4, <3>1, <3>3 DEF PrefillOutput, Parked
      <4>2. num_computed'[r] = prompt_len[r] /\ prompt_len'[r] = prompt_len[r]
        BY <1>1, <1>5, <3>1, <3>3
      <4> QED BY <1>3, <3>1, <3>2, <4>1, <4>2 DEF Lacks
    <3>4. CASE r \notin ongoing
      <4>1. DecodeOutput(r)
        BY <1>4, <3>1, <3>4 DEF Decoding
      <4>2. num_computed'[r] = num_computed[r] /\ prompt_len'[r] = prompt_len[r]
        BY <1>1, <1>6, <3>1, <3>4
      <4> QED BY <1>3, <3>1, <3>2, <4>1, <4>2 DEF DecodeOutput, Lacks
    <3> QED BY <3>3, <3>4
  <2> QED BY <1>1, <2>1, <2>2 DEF StepInv
<1>13. OutputCoversScheduled'
  BY <1>1 DEF OutputCoversScheduled
<1> QED BY <1>9, <1>10, <1>11, <1>12, <1>13 DEF Agreement
-----------------------------------------------------------------------------
\* Every step keeps the agreement.
LEMMA NextAgreement ==
  ASSUME Bookkeeping, Agreement, [Next]_vars
  PROVE  Agreement'
<1>1. ASSUME NEW r \in Requests, NEW p \in PromptLens, NEW m \in OutputLens,
             Arrive(r, p, m)
      PROVE  Agreement'
  BY <1>1, ArriveAgreement
<1>2. ASSUME NEW r \in Abortable, Abort(r)
      PROVE  Agreement'
  BY <1>2, AbortAgreement, WorkloadAssumption
<1>3. CASE ScheduleStep
  BY <1>3, ScheduleAgreement
<1>4. CASE ExecuteStep
  BY <1>4, ExecuteAgreement
<1>5. CASE UpdateStep
  BY <1>5, UpdateAgreement
<1>6. CASE UNCHANGED vars
  <2>1. UNCHANGED <<prompt_len, num_output, num_computed, running, ongoing,
                    finished_ids, input_batch, prefill_batch, scheduler_output,
                    model_output, phase>>
    BY <1>6 DEF vars, schedVars, requestVars, queueVars, runnerVars
  <2>2. BatchInv' /\ PrefillBatchInv' /\ TokenInv' /\ OutputCoversScheduled'
    BY <2>1 DEF Agreement, BatchInv, Decoding, RemainingBatch, PrefillBatchInv,
      TokenInv, OutputCoversScheduled
  <2>3. StepInv'
    BY <2>1 DEF Agreement, StepInv, Decoding, Parked, Lacks, PrefillPlan, DecodePlan,
      PrefillOutput, DecodeOutput
  <2> QED BY <2>2, <2>3 DEF Agreement
<1> QED
  BY <1>1, <1>2, <1>3, <1>4, <1>5, <1>6 DEF Next, EngineStep, Drained

\* The agreement is an invariant of the engine.
THEOREM AgreementHolds == Spec => [](Bookkeeping /\ Agreement)
<1>1. Init => Bookkeeping /\ Agreement
  BY InitBookkeeping, InitAgreement
<1>2. Bookkeeping /\ Agreement /\ [Next]_vars => (Bookkeeping /\ Agreement)'
  BY NextBookkeeping, NextAgreement
<1> QED BY <1>1, <1>2, PTL DEF Spec

(***************************************************************************)
(* _prepare_decode only compares sizes. It could compare the requests: the *)
(* runner's decode batch, without the requests it is told have finished,   *)
(* is what the scheduler has decode, and every decode step is of them all. *)
(***************************************************************************)
THEOREM DecodeAgreementHolds == Spec => []DecodeAgreement
<1>1. Bookkeeping /\ Agreement => DecodeAgreement
  <2> SUFFICES ASSUME Bookkeeping, Agreement PROVE DecodeAgreement
    OBVIOUS
  <2>1. ASSUME phase = "scheduled", ~ \E r \in Requests : Prefills(r)
        PROVE  scheduler_output.cached = Decoding
    <3>1. \A q \in Requests : ~PrefillPlan(q)
      BY <2>1, PlannedPrefill
    <3> QED BY <2>1, <3>1 DEF Agreement, StepInv, DecodePlan
  <2> QED BY <2>1 DEF Agreement, BatchInv, DecodeAgreement
<1> QED BY <1>1, AgreementHolds, PTL

(***************************************************************************)
(* update_from_output finds the output row of every request that was       *)
(* scheduled and is still alive.                                           *)
(***************************************************************************)
THEOREM OutputCoversScheduledHolds == Spec => []OutputCoversScheduled
<1>1. Bookkeeping /\ Agreement => OutputCoversScheduled
  BY DEF Agreement
<1> QED BY <1>1, AgreementHolds, PTL

(***************************************************************************)
(* All variables keep their types, and the counts of computed tokens stay  *)
(* natural numbers although update_from_output takes the padding off them. *)
(***************************************************************************)
THEOREM TypeOKHolds == Spec => []TypeOK
<1>1. Bookkeeping /\ Agreement => TypeOK
  BY DEF Bookkeeping, Agreement, Types, TokenInv, TypeOK
<1> QED BY <1>1, AgreementHolds, PTL

-----------------------------------------------------------------------------
(***************************************************************************)
(* How a scheduled step moves the lists and counts, said of the message it *)
(* sends: the new requests are taken from the queue, the others go on from *)
(* where they were.                                                        *)
(***************************************************************************)
LEMMA ScheduleMoves ==
  ASSUME Bookkeeping, Agreement, Bookkeeping', ScheduleStep
  PROVE  /\ phase = "idle" /\ phase' = "scheduled"
         /\ UNCHANGED <<prompt_len, max_tokens, num_output, tkv, model_output, runnerVars>>
         /\ \A r \in scheduler_output'.new :
              /\ r \in Requests /\ r \notin running /\ IsWaiting(r)
              /\ num_output[r] = 0
         /\ scheduler_output'.new # {} => ongoing = {}
         /\ running' = running \cup scheduler_output'.new
         /\ ongoing' = ongoing \cup scheduler_output'.new
         /\ Decoding' = Decoding
         /\ finished_ids' = {} /\ scheduler_output'.finished = finished_ids
         /\ \A r \in Requests \ scheduler_output'.new :
              num_computed'[r] = num_computed[r] + scheduler_output'.tokens[r]
         /\ \A r \in Decoding :
              scheduler_output'.tokens[r] > 0 =>
                scheduler_output'.tokens[r] = RunningTokens(r)
<1>1. PICK n \in 0 .. 1, released \in SUBSET Requests,
           start \in [Requests -> Int], tokens \in [Requests -> Int] :
        /\ n <= Len(waiting)
        /\ Releasing(n, released)
        /\ Counting(n, released, start, tokens)
        /\ Messaging(released, start, tokens)
        /\ running' = running \cup released
        /\ ongoing' = IF ongoing = {} THEN released ELSE ongoing
        /\ finished_ids' = {}
  BY ScheduleShape
<1>2. /\ phase = "idle" /\ phase' = "scheduled"
      /\ UNCHANGED <<prompt_len, max_tokens, num_output, tkv, model_output, runnerVars>>
  BY DEF ScheduleStep, Schedule
<1>3. /\ scheduler_output'.new = released /\ scheduler_output'.tokens = tokens
      /\ scheduler_output'.finished = finished_ids
  BY <1>1 DEF Messaging
<1>4. \A r \in released :
        /\ r \in Requests /\ r \notin running /\ IsWaiting(r) /\ ongoing = {}
        /\ num_output[r] = 0
  <2>1. ASSUME NEW r \in released
        PROVE  /\ r \in Requests /\ r \notin running /\ IsWaiting(r) /\ ongoing = {}
               /\ num_output[r] = 0
    <3>1. 1 \in 1 .. Len(waiting) /\ r = waiting[1] /\ ongoing = {}
      BY <1>1, LenProperties, SMTT(60) DEF Releasing, Bookkeeping, Types, SchedTypeOK
    <3> QED BY <3>1, WaitingUnstarted DEF IsWaiting
  <2> QED BY <2>1
<1>5. ongoing' = ongoing \cup released
  BY <1>1, <1>4
<1>6. Decoding' = Decoding /\ Decoding \subseteq Requests /\ ongoing \subseteq running
  BY <1>1, <1>4, <1>5, EngineTypes DEF Decoding
<1>7. \A r \in Requests \ released :
        /\ num_computed'[r] = num_computed[r] + tokens[r]
        /\ tokens[r] = IF r \in Visible(n) THEN RunningTokens(r) ELSE 0
  BY <1>1 DEF Counting
<1>8. \A r \in Decoding : r \notin released
  BY <1>4 DEF Decoding
<1> QED BY <1>1, <1>2, <1>3, <1>4, <1>5, <1>6, <1>7, <1>8

(***************************************************************************)
(* The three kinds of step the runner carries out: nothing, the scheduled  *)
(* chunk of a prefill, or a decode step of all that decode.                *)
(***************************************************************************)
Idles ==
  /\ EmptyStep
  /\ scheduler_output.new = {} /\ scheduler_output.cached = {}
  /\ Decoding = {}
  /\ requests' = requests

Chunks(q) ==
  /\ PrefillPlan(q)
  /\ Prefill(q, StateFor(q), PrefillInput(q, StateFor(q)))

Decodes ==
  /\ DecodeStep
  /\ RemainingBatch = Decoding
  /\ scheduler_output.new = {} /\ scheduler_output.cached = Decoding
  /\ Decoding # {}

\* execute_model does one or the other, or nothing.
LEMMA ExecuteMoves ==
  ASSUME Bookkeeping, Agreement, ExecuteStep
  PROVE  /\ phase = "scheduled" /\ phase' = "executed"
         /\ UNCHANGED <<schedVars, scheduler_output>>
         /\ Idles \/ (\E q \in Requests : Chunks(q)) \/ Decodes
<1>1. /\ phase = "scheduled" /\ phase' = "executed" /\ ExecuteModel
      /\ UNCHANGED <<schedVars, scheduler_output>>
  BY DEF ExecuteStep
<1>2. RemainingBatch = Decoding
  BY <1>1 DEF Agreement, BatchInv
<1>3. \A r \in Requests : r \in scheduler_output.new \cup scheduler_output.cached
                            <=> scheduler_output.tokens[r] > 0
  BY <1>1 DEF Bookkeeping, Lists, ScheduledInv
<1>4. ASSUME NEW q \in Requests, PrefillPlan(q)
      PROVE  Chunks(q)
  <2>1. HasTokens /\ \A r \in Requests : Prefills(r) <=> r = q
    BY <1>1, <1>4, PlannedPrefill
  <2>2. PrefillStep
    BY <1>1, <2>1 DEF ExecuteModel, EmptyStep, DecodeStep
  <2> QED BY <1>4, <2>1, <2>2 DEF PrefillStep, Chunks
<1>5. ASSUME DecodePlan
      PROVE  Idles \/ Decodes
  <2>1. scheduler_output.new = {} /\ scheduler_output.cached = Decoding
    BY <1>5 DEF DecodePlan
  <2>2. ~PrefillStep
    <3> SUFFICES ASSUME NEW r \in Requests, Prefills(r) PROVE FALSE
      BY DEF PrefillStep
    <3>1. r \in Decoding /\ r \in scheduler_output.cached
          /\ scheduler_output.computed[r] < requests[r].prompt_len
      BY <2>1 DEF Prefills
    <3>2. requests[r].prompt_len = prompt_len[r]
      BY <2>1, <3>1 DEF Bookkeeping, Lists, KnownInv, Decoding
    <3>3. scheduler_output.computed[r] >= prompt_len[r]
      BY <1>1, <3>1 DEF Bookkeeping, Lists, ScheduledInv, Decoding
    <3> QED BY <3>1, <3>2, <3>3, EngineTypes
  <2>3. CASE EmptyStep
    <3>1. Decoding = {}
      BY <1>3, <2>1, <2>3, EngineTypes DEF EmptyStep, HasTokens
    <3>2. requests' = UpdatedRequests /\ requests \in [Requests -> RequestStates]
      BY <2>3 DEF EmptyStep, Bookkeeping, Types, RunnerTypeOK
    <3>3. \A r \in Requests : UpdatedRequests[r] = requests[r]
      BY <2>1, <3>1 DEF UpdatedRequests
    <3>4. UpdatedRequests = [r \in Requests |-> requests[r]]
      BY <2>1, <3>1 DEF UpdatedRequests
    <3>5. requests' = requests
      BY <3>2, <3>4
    <3> QED BY <2>1, <2>3, <3>1, <3>5 DEF Idles
  <2>4. CASE DecodeStep
    <3>1. Decoding # {}
      BY <1>2, <2>4 DEF DecodeStep
    <3> QED BY <1>2, <2>1, <2>4, <3>1 DEF Decodes
  <2> QED BY <1>1, <2>2, <2>3, <2>4 DEF ExecuteModel
<1>6. (\E q \in Requests : PrefillPlan(q)) \/ DecodePlan
  BY <1>1 DEF Agreement, StepInv
<1> QED BY <1>1, <1>4, <1>5, <1>6

\* Blocks the runner will have listed for r once it has been told.
Listed(r) ==
  IF phase = "scheduled" /\ r \in scheduler_output.new
    THEN scheduler_output.new_blocks[r]
  ELSE IF phase = "scheduled" /\ r \in scheduler_output.cached
    THEN requests[r].num_blocks + scheduler_output.new_blocks[r]
  ELSE requests[r].num_blocks

\* The state of a request whose chunk is prefilled.
LEMMA ChunkState ==
  ASSUME Bookkeeping, phase = "scheduled", NEW q \in Requests, PrefillPlan(q)
  PROVE  /\ StateFor(q) \in RequestStates
         /\ StateFor(q).prompt_len = prompt_len[q]
         /\ StateFor(q).num_computed = scheduler_output.computed[q]
         /\ StateFor(q).num_blocks = Listed(q)
<1>1. \/ scheduler_output.new = {q} /\ scheduler_output.cached = {}
      \/ scheduler_output.new = {} /\ scheduler_output.cached = {q}
  BY DEF PrefillPlan
<1>2. StateFor(q) \in RequestStates
  BY StateForType DEF Bookkeeping, Types
<1>3. CASE scheduler_output.new = {q}
  <2>1. scheduler_output.prompt[q] = prompt_len[q]
    BY <1>3 DEF Bookkeeping, Lists, ScheduledInv
  <2> QED BY <1>2, <1>3, <2>1 DEF StateFor, NewRequest, Listed
<1>4. CASE scheduler_output.new = {} /\ scheduler_output.cached = {q}
  <2>1. requests[q] \in RequestStates
    BY EngineTypes
  <2>2. /\ UpdatedRequests[q].num_computed = scheduler_output.computed[q]
        /\ UpdatedRequests[q].num_blocks = requests[q].num_blocks + scheduler_output.new_blocks[q]
    BY <1>4, <2>1 DEF UpdatedRequests, RequestStates
  <2>3. UpdatedRequests[q].prompt_len = prompt_len[q]
    BY <1>4, UpdateKeepsPrompt DEF PrefillPlan, Bookkeeping, Lists, KnownInv, Types, PrefillInv
  <2> QED BY <1>2, <1>4, <2>2, <2>3 DEF StateFor, Listed
<1> QED BY <1>1, <1>3, <1>4

-----------------------------------------------------------------------------
(***************************************************************************)
(* What clients see: the stage of each request and its tokens.             *)
(***************************************************************************)
Stage == [r \in Requests |-> StageOf(r)]

\* The requests update_from_output appends a token to.
Sampled ==
  {r \in running : scheduler_output.tokens[r] > 0 /\ r \in model_output.sampled}

\* Prefilling are those without a token.
FirstTokenInv == \A r \in running : num_output[r] = 0 <=> r \in ongoing

\* A step yields the first token of the one prefill, or a token of all that
\* decode, or nothing; an abort takes the request out of both sides.
YieldInv ==
  phase = "executed" =>
    \/ Sampled = {}
    \/ Sampled = ongoing /\ \A r \in ongoing : num_computed[r] = prompt_len[r]
    \/ Sampled = Decoding

Yields == FirstTokenInv /\ YieldInv
-----------------------------------------------------------------------------
\* Nobody has a token when the engine starts.
LEMMA InitYields == Init => Yields
BY DEF Init, SchedInit, Yields, FirstTokenInv, YieldInv

\* Who waits in the queue has no part in a step.
LEMMA ArriveYields ==
  ASSUME Yields, NEW r \in Requests, NEW p \in PromptLens, NEW m \in OutputLens,
         Arrive(r, p, m)
  PROVE  Yields'
BY DEF Yields, FirstTokenInv, YieldInv, Arrive, AddRequest

\* An aborted request gets no token from the step under way.
LEMMA AbortYields ==
  ASSUME Yields, NEW r \in Requests, Abort(r)
  PROVE  Yields'
<1>1. /\ running' = running \ {r}
      /\ ongoing' = ongoing \ {r}
      /\ UNCHANGED <<prompt_len, num_computed, num_output, scheduler_output,
                     model_output, phase>>
  BY DEF Abort, FinishRequest, Free, OngoingWithout, requestVars, runnerVars
<1>2. Sampled' = Sampled \ {r} /\ Decoding' = Decoding \ {r}
  BY <1>1 DEF Sampled, Decoding
<1> QED BY <1>1, <1>2 DEF Yields, FirstTokenInv, YieldInv

\* A released request has no token yet.
LEMMA ScheduleYields ==
  ASSUME Bookkeeping, Agreement, Yields, Bookkeeping', ScheduleStep
  PROVE  Yields'
<1>1. /\ phase' = "scheduled"
      /\ \A r \in scheduler_output'.new : r \notin running /\ num_output[r] = 0
      /\ running' = running \cup scheduler_output'.new
      /\ ongoing' = ongoing \cup scheduler_output'.new
      /\ UNCHANGED num_output
  BY ScheduleMoves
<1> QED BY <1>1 DEF Yields, FirstTokenInv, YieldInv

\* The runner samples a complete prompt or its whole decode batch.
LEMMA ExecuteYields ==
  ASSUME Bookkeeping, Agreement, Yields, ExecuteStep
  PROVE  Yields'
<1>1. /\ phase = "scheduled" /\ phase' = "executed"
      /\ UNCHANGED <<prompt_len, num_computed, num_output, running, ongoing,
                     scheduler_output>>
      /\ Idles \/ (\E q \in Requests : Chunks(q)) \/ Decodes
  BY ExecuteMoves DEF schedVars, requestVars, queueVars
<1>2. FirstTokenInv'
  BY <1>1 DEF Yields, FirstTokenInv
<1>3. /\ running \subseteq Requests /\ ongoing \subseteq running
      /\ Decoding \subseteq running
      /\ \A r \in Requests :
           r \in scheduler_output.new \cup scheduler_output.cached
             <=> scheduler_output.tokens[r] > 0
  BY <1>1, EngineTypes DEF Bookkeeping, Lists, ScheduledInv
<1>4. Decoding' = Decoding
  BY <1>1 DEF Decoding
<1>5. CASE Idles
  <2>1. model_output'.sampled = {}
    BY <1>5 DEF Idles, EmptyStep, EmptyOutput
  <2>2. Sampled' = {}
    BY <2>1 DEF Sampled
  <2> QED BY <1>2, <2>2 DEF Yields, YieldInv
<1>6. ASSUME NEW q \in Requests, Chunks(q)
      PROVE  Yields'
  <2>1. /\ ongoing = {q} /\ q \in running
        /\ scheduler_output.new \cup scheduler_output.cached = {q}
        /\ scheduler_output.new = {q} \/ (scheduler_output.new = {} /\ prefill_batch = {q})
    BY <1>1, <1>3, <1>6 DEF Chunks, PrefillPlan, Agreement, PrefillBatchInv
  <2>2. BatchFor(q) = {q}
    BY <2>1 DEF BatchFor
  <2>3. model_output'.sampled = IF IsIncomplete(q, StateFor(q)) THEN {} ELSE {q}
    BY <1>6, <2>2 DEF Chunks, Prefill
  <2>4. \A r \in running : scheduler_output.tokens[r] > 0 <=> r = q
    BY <1>3, <2>1
  <2>5. Sampled' = IF IsIncomplete(q, StateFor(q)) THEN {} ELSE {q}
    BY <1>1, <2>1, <2>3, <2>4 DEF Sampled
  <2>6. CASE IsIncomplete(q, StateFor(q))
    BY <1>2, <2>5, <2>6 DEF Yields, YieldInv
  <2>7. CASE ~IsIncomplete(q, StateFor(q))
    <3>1. StateFor(q).prompt_len = prompt_len[q]
      BY <1>1, <1>6, ChunkState DEF Chunks
    <3>2. scheduler_output.computed[q] + scheduler_output.tokens[q] = num_computed[q]
      BY <1>1, <2>1 DEF Bookkeeping, Lists, ScheduledInv
    <3>3. num_computed[q] <= prompt_len[q]
      BY <2>1 DEF Bookkeeping, Lists, CountInv
    <3>4. num_computed[q] \in Int /\ prompt_len[q] \in Nat
      BY EngineTypes
    <3>5. num_computed[q] = prompt_len[q]
      BY <2>7, <3>1, <3>2, <3>3, <3>4 DEF IsIncomplete
    <3> QED BY <1>1, <1>2, <2>1, <2>5, <2>7, <3>5 DEF Yields, YieldInv
  <2> QED BY <2>6, <2>7
<1>7. CASE Decodes
  <2>1. model_output'.sampled = Decoding /\ scheduler_output.cached = Decoding
    BY <1>7 DEF Decodes, DecodeStep
  <2>2. \A r \in Decoding : r \in running' /\ scheduler_output'.tokens[r] > 0
    BY <1>1, <1>3, <2>1
  <2>3. Sampled' = Decoding'
    BY <1>1, <1>3, <1>4, <2>1, <2>2 DEF Sampled
  <2> QED BY <1>2, <2>3 DEF Yields, YieldInv
<1> QED BY <1>1, <1>5, <1>6, <1>7

\* The first token and the end of the prefill come with the same update.
LEMMA UpdateYields ==
  ASSUME Bookkeeping, Agreement, Yields, UpdateStep
  PROVE  Yields'
<1>1. /\ phase = "executed" /\ phase' = "idle"
      /\ ongoing' = {r \in ongoing : ComputedAfter(r) < prompt_len[r]}
      /\ num_output' = [r \in Requests |-> IF r \in Sampled THEN num_output[r] + 1
                                                            ELSE num_output[r]]
      /\ running' \subseteq running
  BY DEF UpdateStep, UpdateFromOutput, Sampled, Free
<1>2. /\ running \subseteq Requests /\ ongoing \subseteq running
      /\ \A r \in Requests :
           prompt_len[r] \in Nat /\ num_output[r] \in Nat /\ num_computed[r] \in Int
  BY EngineTypes
<1>3. \A r \in ongoing : PrefillOutput(r)
  BY <1>1 DEF Agreement, StepInv
<1>4. \A r \in ongoing :
        IF num_computed[r] = prompt_len[r]
          THEN ComputedAfter(r) = prompt_len[r]
          ELSE /\ ComputedAfter(r) \in Nat
               /\ 0 < ComputedAfter(r) /\ ComputedAfter(r) < prompt_len[r]
  BY <1>3, ParkedStays
<1>5. \A r \in ongoing : r \in Sampled <=> num_computed[r] = prompt_len[r]
  BY <1>1, <1>2, <1>3 DEF PrefillOutput, Parked, Sampled, Bookkeeping, Lists, JoinInv
<1>6. \A r \in ongoing : r \in ongoing' <=> r \notin Sampled
  BY <1>1, <1>2, <1>4, <1>5
<1>7. \A r \in running : num_output[r] = 0 <=> r \in ongoing
  BY DEF Yields, FirstTokenInv
<1>8. ASSUME NEW r \in running'
      PROVE  num_output'[r] = 0 <=> r \in ongoing'
  <2>1. r \in Requests /\ r \in running
    BY <1>1, <1>2
  <2>2. num_output'[r] = 0 <=> num_output[r] = 0 /\ r \notin Sampled
    BY <1>1, <1>2, <2>1
  <2> QED BY <1>1, <1>6, <1>7, <2>1, <2>2
<1> QED BY <1>1, <1>8 DEF Yields, FirstTokenInv, YieldInv

\* Every step keeps the tokens in step with the prefills.
LEMMA NextYields ==
  ASSUME Bookkeeping, Agreement, Yields, [Next]_vars
  PROVE  Yields'
<1>1. ASSUME NEW r \in Requests, NEW p \in PromptLens, NEW m \in OutputLens,
             Arrive(r, p, m)
      PROVE  Yields'
  BY <1>1, ArriveYields
<1>2. ASSUME NEW r \in Abortable, Abort(r)
      PROVE  Yields'
  BY <1>2, AbortYields, WorkloadAssumption
<1>3. CASE ScheduleStep
  BY <1>3, NextBookkeeping, ScheduleYields
<1>4. CASE ExecuteStep
  BY <1>4, ExecuteYields
<1>5. CASE UpdateStep
  BY <1>5, UpdateYields
<1>6. CASE UNCHANGED vars
  BY <1>6 DEF vars, schedVars, requestVars, queueVars, Yields, FirstTokenInv, YieldInv,
    Sampled, Decoding
<1> QED
  BY <1>1, <1>2, <1>3, <1>4, <1>5, <1>6 DEF Next, EngineStep, Drained

-----------------------------------------------------------------------------
\* The stage of a request in terms of the scheduler's lists.
StagesTell ==
  \A r \in Requests :
    /\ StageOf(r) = "absent" <=> prompt_len[r] = 0
    /\ StageOf(r) = "prefilling" <=> r \in ongoing
    /\ StageOf(r) = "decoding" <=> r \in Decoding
    /\ StageOf(r) = "waiting" <=> IsWaiting(r)
    /\ StageOf(r) \in {"absent", "waiting", "prefilling", "decoding", "done"}

\* The five stages cover the scheduler's states, and no two overlap.
LEMMA StageValues == Bookkeeping /\ Yields => StagesTell
<1> SUFFICES ASSUME Bookkeeping, Yields, NEW r \in Requests
             PROVE  /\ StageOf(r) = "absent" <=> prompt_len[r] = 0
                    /\ StageOf(r) = "prefilling" <=> r \in ongoing
                    /\ StageOf(r) = "decoding" <=> r \in Decoding
                    /\ StageOf(r) = "waiting" <=> IsWaiting(r)
                    /\ StageOf(r) \in {"absent", "waiting", "prefilling", "decoding",
                                       "done"}
  BY DEF StagesTell
<1>1. /\ ongoing \subseteq running
      /\ prompt_len[r] = 0 \/ IsWaiting(r) => r \notin running
      /\ prompt_len[r] = 0 => ~IsWaiting(r)
      /\ num_output[r] \in Nat
  BY EngineTypes DEF Bookkeeping, Lists, QueueInv, Unstarted
<1>2. r \in running => (num_output[r] = 0 <=> r \in ongoing)
  BY DEF Yields, FirstTokenInv
<1>3. num_output[r] > 0 <=> num_output[r] # 0
  BY <1>1
<1>4. CASE prompt_len[r] = 0
  BY <1>1, <1>4 DEF StageOf, Decoding
<1>5. CASE prompt_len[r] # 0 /\ r \in running
  BY <1>1, <1>2, <1>3, <1>5 DEF StageOf, Decoding
<1>6. CASE prompt_len[r] # 0 /\ r \notin running
  BY <1>1, <1>6 DEF StageOf, Decoding
<1> QED BY <1>4, <1>5, <1>6

\* The same after a step.
LEMMA NextStageValues == Bookkeeping' /\ Yields' => StagesTell'
BY StageValues, PTL

\* A request has the stage it had if the lists it is read from have not changed.
LEMMA SameStage ==
  ASSUME Bookkeeping, Yields, Bookkeeping', Yields', NEW r \in Requests,
         prompt_len'[r] = 0 <=> prompt_len[r] = 0,
         r \in ongoing' <=> r \in ongoing,
         r \in Decoding' <=> r \in Decoding,
         IsWaiting(r)' <=> IsWaiting(r)
  PROVE  StageOf(r)' = StageOf(r)
BY StageValues, NextStageValues DEF StagesTell

\* An engine that starts has seen no request.
LEMMA InitRefines == Init => Batching!Init
<1> SUFFICES ASSUME Init PROVE Batching!Init
  OBVIOUS
<1>1. \A r \in Requests : prompt_len[r] = 0 /\ num_output[r] = 0
  BY DEF Init, SchedInit
<1>2. \A r \in Requests : StageOf(r) = "absent"
  BY <1>1, StageValues, InitBookkeeping, InitYields DEF StagesTell
<1> QED BY <1>2 DEF Init, SchedInit, Batching!Init

\* A request that arrives is submitted.
LEMMA ArriveRefines ==
  ASSUME Bookkeeping, Yields, Bookkeeping', Yields', NEW r \in Requests,
         NEW p \in PromptLens, NEW m \in OutputLens, Arrive(r, p, m)
  PROVE  Batching!Submit(r)
<1>1. /\ prompt_len[r] = 0
      /\ prompt_len' = [prompt_len EXCEPT ![r] = p]
      /\ waiting' = Append(waiting, r)
      /\ p >= 1
      /\ UNCHANGED <<num_output, running, ongoing>>
  BY DEF Arrive, AddRequest, ValidateRequest
<1>2. waiting \in Seq(Requests) /\ Len(waiting) \in Nat /\ prompt_len \in [Requests -> Nat]
  BY LenProperties DEF Bookkeeping, Types, SchedTypeOK
<1>3. /\ Len(waiting') = Len(waiting) + 1
      /\ \A i \in 1 .. Len(waiting) : waiting'[i] = waiting[i]
      /\ waiting'[Len(waiting) + 1] = r
  BY <1>1, <1>2, AppendProperties
<1>4. \A q \in Requests : IsWaiting(q)' <=> IsWaiting(q) \/ q = r
  BY <1>2, <1>3, SMTT(60) DEF IsWaiting
<1>5. StageOf(r) = "absent" /\ StageOf(r)' = "waiting"
  BY <1>1, <1>4, StageValues, NextStageValues DEF StagesTell
<1>6. ASSUME NEW q \in Requests, q # r
      PROVE  StageOf(q)' = StageOf(q)
  BY <1>1, <1>2, <1>4, <1>6, SameStage DEF Decoding
<1>7. Stage' = [Stage EXCEPT ![r] = "waiting"]
  BY <1>5, <1>6 DEF Stage
<1> QED BY <1>1, <1>5, <1>7 DEF Stage, Batching!Submit, Batching!Move

\* A client gives up a request that has not come to its end.
LEMMA AbortRefines ==
  ASSUME Bookkeeping, Yields, Bookkeeping', Yields', NEW r \in Requests, Abort(r)
  PROVE  Batching!Abort(r)
<1>1. /\ running' = running \ {r}
      /\ ongoing' = ongoing \ {r}
      /\ UNCHANGED <<prompt_len, num_output>>
      /\ \/ r \in running /\ UNCHANGED waiting
         \/ \E i \in 1 .. Len(waiting) : waiting[i] = r /\ waiting' = WaitingWithout(i)
  BY DEF Abort, FinishRequest, Free, OngoingWithout, requestVars
<1>2. waiting \in Seq(Requests) /\ Len(waiting) \in Nat
  BY LenProperties DEF Bookkeeping, Types, SchedTypeOK
<1>3. /\ \A q \in Requests : q # r => (IsWaiting(q)' <=> IsWaiting(q))
      /\ ~IsWaiting(r)'
      /\ r \in running \/ IsWaiting(r)
  <2>1. CASE r \in running /\ UNCHANGED waiting
    BY <2>1 DEF IsWaiting, Bookkeeping, Lists, QueueInv, Unstarted
  <2>2. ASSUME NEW k \in 1 .. Len(waiting), waiting[k] = r, waiting' = WaitingWithout(k)
        PROVE  /\ \A q \in Requests : q # r => (IsWaiting(q)' <=> IsWaiting(q))
               /\ ~IsWaiting(r)'
               /\ r \in running \/ IsWaiting(r)
    <3>1. /\ Len(waiting') = Len(waiting) - 1
          /\ \A j \in 1 .. Len(waiting) - 1 :
               waiting'[j] = waiting[IF j < k THEN j ELSE j + 1]
      BY <1>2, <2>2, WaitingWithoutType DEF WaitingWithout
    <3>2. \A i, j \in 1 .. Len(waiting) : waiting[i] = waiting[j] => i = j
      BY DEF Bookkeeping, Lists, QueueInv
    <3>3. ASSUME NEW q \in Requests, q # r, IsWaiting(q)
          PROVE  IsWaiting(q)'
      <4>1. PICK i \in 1 .. Len(waiting) : waiting[i] = q
        BY <3>3 DEF IsWaiting
      <4>2. i # k
        BY <2>2, <3>3, <4>1
      <4>3. CASE i < k
        <5>1. i \in 1 .. Len(waiting) - 1
          BY <1>2, <4>3
        <5> QED BY <3>1, <4>1, <4>3, <5>1 DEF IsWaiting
      <4>4. CASE i > k
        <5>1. i - 1 \in 1 .. Len(waiting) - 1 /\ ~(i - 1 < k) /\ (i - 1) + 1 = i
          BY <1>2, <4>4
        <5>2. waiting'[i - 1] = q
          BY <3>1, <4>1, <5>1
        <5> QED BY <3>1, <5>1, <5>2 DEF IsWaiting
      <4> QED BY <4>2, <4>3, <4>4
    <3>4. ASSUME NEW q \in Requests, IsWaiting(q)'
          PROVE  IsWaiting(q) /\ q # r
      <4>1. PICK j \in 1 .. Len(waiting) - 1 : waiting'[j] = q
        BY <3>1, <3>4 DEF IsWaiting
      <4> DEFINE i == IF j < k THEN j ELSE j + 1
      <4>2. i \in 1 .. Len(waiting) /\ i # k /\ waiting[i] = q
        BY <1>2, <3>1, <4>1
      <4> QED BY <2>2, <3>2, <4>2 DEF IsWaiting
    <3> QED BY <2>2, <3>3, <3>4 DEF IsWaiting
  <2> QED BY <1>1, <2>1, <2>2
<1>4. /\ StageOf(r) \in {"waiting", "prefilling", "decoding"}
      /\ StageOf(r)' = "done"
  <2>1. prompt_len[r] # 0
    BY <1>3 DEF Bookkeeping, Lists, QueueInv, Unstarted
  <2>2. prompt_len'[r] # 0 /\ r \notin ongoing' /\ r \notin Decoding'
    BY <1>1, <2>1 DEF Decoding
  <2>3. r \in ongoing \/ r \in Decoding \/ IsWaiting(r)
    BY <1>3 DEF Decoding
  <2> QED BY <1>3, <2>2, <2>3, StageValues, NextStageValues DEF StagesTell
<1>5. ASSUME NEW q \in Requests, q # r
      PROVE  StageOf(q)' = StageOf(q)
  BY <1>1, <1>3, <1>5, SameStage DEF Decoding
<1>6. Stage' = [Stage EXCEPT ![r] = "done"]
  BY <1>4, <1>5 DEF Stage
<1> QED BY <1>1, <1>4, <1>6 DEF Stage, Batching!Abort, Batching!Move

\* Stages and tokens together are all that a client can see.
Unseen == Stage' = Stage /\ UNCHANGED num_output

\* The requests in a stage, as lists of the scheduler.
LEMMA StageSets ==
  ASSUME Bookkeeping, Yields
  PROVE  Batching!At("prefilling") = ongoing /\ Batching!At("decoding") = Decoding
BY StageValues, EngineTypes DEF StagesTell, Batching!At

\* A released request starts its prefill; no other schedule can be seen.
LEMMA ScheduleRefines ==
  ASSUME Bookkeeping, Agreement, Yields, Bookkeeping', Yields', ScheduleStep
  PROVE  Unseen \/ \E r \in Requests : Batching!StartPrefill(r)
<1>1. PICK n \in 0 .. 1, released \in SUBSET Requests,
           start \in [Requests -> Int], tokens \in [Requests -> Int] :
        /\ n <= Len(waiting)
        /\ Releasing(n, released)
        /\ running' = running \cup released
        /\ ongoing' = IF ongoing = {} THEN released ELSE ongoing
        /\ waiting' = SubSeq(waiting, n + 1, Len(waiting))
  BY ScheduleShape
<1>2. UNCHANGED <<prompt_len, num_output>> /\ Decoding' = Decoding
  BY ScheduleMoves
<1>3. waiting \in Seq(Requests) /\ Len(waiting) \in Nat
  BY LenProperties DEF Bookkeeping, Types, SchedTypeOK
<1>4. CASE n = 0
  <2>1. released = {}
    BY <1>1, <1>4 DEF Releasing
  <2>2. waiting' = waiting
    BY <1>1, <1>3, <1>4, SubSeqFull
  <2>3. \A r \in Requests : StageOf(r)' = StageOf(r)
    BY <1>1, <1>2, <2>1, <2>2, SameStage DEF IsWaiting
  <2> QED BY <1>2, <2>3 DEF Unseen, Stage
<1>5. CASE n = 1
  <2>1. PICK q \in Requests :
          /\ q = waiting[1] /\ q \notin running
          /\ 1 \in 1 .. Len(waiting) /\ released = {q}
          /\ ongoing = {} /\ Cardinality(running) + 1 <= MaxNumSeqs
    <3>1. /\ 1 \in 1 .. Len(waiting) /\ released = {waiting[1]}
          /\ ongoing = {} /\ Cardinality(running) + 1 <= MaxNumSeqs
      BY <1>1, <1>3, <1>5 DEF Releasing
    <3> QED BY <3>1, WaitingUnstarted
  <2>2. waiting' = SubSeq(waiting, 2, Len(waiting))
    BY <1>1, <1>5
  <2>3. ongoing' = {q}
    BY <1>1, <2>1
  <2>4. PICK k \in Nat :
          /\ Len(waiting) = k + 1 /\ Len(waiting') = k
          /\ \A i \in 1 .. k : waiting'[i] = waiting[i + 1]
    <3> DEFINE len == Len(waiting)
               rest == SubSeq(waiting, 2, len)
    <3>1. \A i \in 2 .. len : waiting[i] \in Requests
      BY <1>3, ElementOfSeq
    <3>2. len \in Int /\ 2 \in Int /\ len >= 1
      BY <1>3, <2>1
    <3> HIDE DEF len
    <3>3. /\ Len(rest) = IF 2 <= len THEN len - 2 + 1 ELSE 0
          /\ \A i \in 1 .. len - 2 + 1 : rest[i] = waiting[2 + i - 1]
      BY <3>1, <3>2, SubSeqProperties
    <3> HIDE DEF rest
    <3>4. Len(rest) = len - 1
      BY <3>2, <3>3
    <3>5. \A i \in 1 .. len - 1 : rest[i] = waiting[i + 1]
      <4>1. ASSUME NEW i \in 1 .. len - 1 PROVE rest[i] = waiting[i + 1]
        <5>1. i \in 1 .. len - 2 + 1 /\ 2 + i - 1 = i + 1
          BY <3>2
        <5> QED BY <3>3, <5>1
      <4> QED BY <4>1
    <3>6. waiting' = rest /\ len = Len(waiting)
      BY <2>2 DEF rest, len
    <3>7. len - 1 \in Nat /\ len = (len - 1) + 1
      BY <3>2
    <3> QED BY <3>4, <3>5, <3>6, <3>7
  <2>5. ASSUME NEW r \in Requests, IsWaiting(r)'
        PROVE  IsWaiting(r)
    <3>1. PICK i \in 1 .. Len(waiting') : waiting'[i] = r
      BY <2>5 DEF IsWaiting
    <3>2. i + 1 \in 1 .. Len(waiting) /\ waiting[i + 1] = r
      BY <2>4, <3>1
    <3> QED BY <3>2 DEF IsWaiting
  <2>6. ASSUME NEW r \in Requests, r # q, IsWaiting(r)
        PROVE  IsWaiting(r)'
    <3>1. PICK i \in 1 .. Len(waiting) : waiting[i] = r
      BY <2>6 DEF IsWaiting
    <3>2. i # 1
      BY <2>1, <2>6, <3>1
    <3>3. i - 1 \in 1 .. Len(waiting') /\ (i - 1) + 1 = i
      BY <2>4, <3>2
    <3>4. waiting'[i - 1] = r
      BY <2>4, <3>1, <3>3
    <3> QED BY <3>3, <3>4 DEF IsWaiting
  <2>7. \A r \in Requests : r # q => StageOf(r)' = StageOf(r)
    BY <1>2, <2>1, <2>3, <2>5, <2>6, SameStage
  <2>8. StageOf(q) = "waiting" /\ StageOf(q)' = "prefilling"
    <3>1. IsWaiting(q)
      BY <2>1 DEF IsWaiting
    <3> QED BY <2>3, <3>1, StageValues, NextStageValues DEF StagesTell
  <2>9. Batching!At("prefilling") = {} /\ Batching!At("decoding") = running
    BY <2>1, StageSets DEF Decoding
  <2>10. Cardinality(running) < MaxNumSeqs
    <3>1. Cardinality(running) \in Nat /\ MaxNumSeqs \in Nat
      BY RunningCounts, LimitAssumption DEF Bookkeeping
    <3> QED BY <2>1, <3>1
  <2>11. Stage' = [Stage EXCEPT ![q] = "prefilling"]
    BY <2>7, <2>8 DEF Stage
  <2>12. Batching!StartPrefill(q)
    <3>1. Stage[q] = "waiting"
      BY <2>8 DEF Stage
    <3>2. Batching!Move(q, "prefilling")
      BY <2>11 DEF Stage, Batching!Move
    <3>3. Batching!Cardinality(Batching!At("decoding")) < MaxNumSeqs
      BY <2>9, <2>10 DEF Cardinality, Batching!Cardinality
    <3>4. Batching!At("prefilling") = {} /\ UNCHANGED num_output
      BY <1>2, <2>9
    <3> QED BY <3>1, <3>2, <3>3, <3>4 DEF Stage, Batching!StartPrefill
  <2> QED BY <2>12
<1> QED BY <1>1, <1>4, <1>5

\* What the runner does is not seen before the update.
LEMMA ExecuteRefines ==
  ASSUME Bookkeeping, Yields, Bookkeeping', Yields', ExecuteStep
  PROVE  Unseen
<1>1. UNCHANGED <<prompt_len, num_output, running, ongoing, waiting>>
  BY DEF ExecuteStep, schedVars, requestVars, queueVars
<1>2. \A r \in Requests : StageOf(r)' = StageOf(r)
  BY <1>1, SameStage DEF Decoding, IsWaiting
<1> QED BY <1>1, <1>2 DEF Unseen, Stage

(***************************************************************************)
(* The update hands out the tokens of the step: none, the first one of the *)
(* prefill, or one for every decoding request, and ends some of those that *)
(* got one.                                                                *)
(***************************************************************************)
LEMMA UpdateRefines ==
  ASSUME Bookkeeping, Agreement, Yields, Bookkeeping', Yields', UpdateStep
  PROVE  \/ Unseen
         \/ \E r \in Requests : Batching!FinishPrefill(r)
         \/ Batching!DecodeStep
<1>1. /\ phase = "executed"
      /\ num_output' = [r \in Requests |-> IF r \in Sampled THEN num_output[r] + 1
                                                            ELSE num_output[r]]
      /\ \E eos \in SUBSET Sampled : Free(eos \cup {r \in Sampled : AtLimit(r)})
      /\ UNCHANGED <<prompt_len, waiting>>
  BY DEF UpdateStep, UpdateFromOutput, Sampled
<1>2. PICK gone \in SUBSET Sampled : running' = running \ gone
  BY <1>1 DEF Free
<1>3. /\ running \subseteq Requests /\ ongoing \subseteq running
      /\ Sampled \subseteq running
      /\ \A r \in Requests : num_output[r] \in Nat
  BY EngineTypes DEF Sampled
<1>4. num_output \in [Requests -> Nat]
  BY DEF Bookkeeping, Types, SchedTypeOK
<1>5. \A r \in running : num_output[r] = 0 <=> r \in ongoing
  BY DEF Yields, FirstTokenInv
<1>6. \A r \in running' : num_output'[r] = 0 <=> r \in ongoing'
  BY DEF Yields, FirstTokenInv
<1>7. ongoing' \subseteq running'
  BY DEF Bookkeeping, Lists, PrefillInv
<1>8. ASSUME NEW r \in Requests
      PROVE  /\ r \notin Sampled => StageOf(r)' = StageOf(r)
             /\ r \in Sampled /\ r \in gone => StageOf(r)' = "done"
             /\ r \in Sampled /\ r \notin gone => StageOf(r)' = "decoding"
  <2>1. r \notin Sampled => (r \in running' <=> r \in running)
                            /\ num_output'[r] = num_output[r]
    BY <1>1, <1>2
  <2>2. CASE r \notin Sampled
    <3>1. r \in ongoing' <=> r \in ongoing
      BY <1>3, <1>5, <1>6, <1>7, <2>1, <2>2
    <3> QED BY <1>1, <2>1, <2>2, <3>1, SameStage DEF Decoding, IsWaiting
  <2>3. CASE r \in Sampled /\ r \in gone
    <3>1. r \notin running' /\ r \notin ongoing'
      BY <1>2, <1>7, <2>3
    <3>2. prompt_len[r] # 0 /\ ~IsWaiting(r)
      BY <1>3, <2>3 DEF Bookkeeping, Lists, QueueInv, Unstarted
    <3>3. prompt_len'[r] # 0 /\ ~IsWaiting(r)'
      BY <1>1, <3>2 DEF IsWaiting
    <3> QED BY <2>3, <3>1, <3>3, NextStageValues DEF StagesTell, Decoding
  <2>4. CASE r \in Sampled /\ r \notin gone
    <3>1. r \in running' /\ num_output'[r] = num_output[r] + 1
      BY <1>1, <1>2, <1>3, <2>4
    <3>2. r \in Decoding'
      BY <1>3, <1>6, <3>1 DEF Decoding
    <3> QED BY <2>4, <3>2, NextStageValues DEF StagesTell
  <2> QED BY <2>2, <2>3, <2>4
<1>9. CASE Sampled = {}
  <2>1. num_output' = num_output
    BY <1>1, <1>4, <1>9
  <2> QED BY <1>8, <1>9, <2>1 DEF Unseen, Stage
<1>10. CASE Sampled # {} /\ Sampled = ongoing
  <2>1. PICK q \in Requests : Sampled = {q} /\ ongoing = {q}
    BY <1>3, <1>10 DEF Bookkeeping, Lists, PrefillInv
  <2>2. StageOf(q) = "prefilling" /\ num_output[q] = 0
    BY <1>3, <1>5, <2>1, StageValues DEF StagesTell
  <2>3. num_output' = [num_output EXCEPT ![q] = 1]
    <3>1. \A r \in Requests : num_output'[r] = IF r = q THEN 1 ELSE num_output[r]
      BY <1>1, <2>1, <2>2
    <3> QED BY <1>1, <1>4, <3>1
  <2>4. \E to \in {"decoding", "done"} : Stage' = [Stage EXCEPT ![q] = to]
    <3>1. StageOf(q)' \in {"decoding", "done"}
      BY <1>8, <2>1
    <3>2. Stage' = [Stage EXCEPT ![q] = StageOf(q)']
      BY <1>8, <2>1 DEF Stage
    <3> QED BY <3>1, <3>2
  <2>5. Batching!FinishPrefill(q)
    BY <2>2, <2>3, <2>4 DEF Stage, Batching!FinishPrefill, Batching!Move
  <2> QED BY <2>5
<1>11. CASE Sampled # {} /\ Sampled = Decoding
  <2>1. Batching!At("decoding") = Decoding
    BY StageSets
  <2>2. \A r \in Requests : StageOf(r) = "decoding" <=> r \in Sampled
    BY <1>11, StageValues DEF StagesTell
  <2>3. num_output' = [r \in Requests |-> IF Stage[r] = "decoding" THEN num_output[r] + 1
                                                                   ELSE num_output[r]]
    BY <1>1, <2>2 DEF Stage
  <2>4. Stage' = [r \in Requests |-> IF r \in gone THEN "done" ELSE Stage[r]]
    BY <1>8, <2>2 DEF Stage
  <2>5. Batching!DecodeStep
    BY <1>11, <2>1, <2>3, <2>4 DEF Stage, Batching!DecodeStep
  <2> QED BY <2>5
<1> QED BY <1>1, <1>9, <1>10, <1>11 DEF Yields, YieldInv
-----------------------------------------------------------------------------
\* Every step of the engine is one of continuous batching or cannot be seen.
LEMMA NextRefines ==
  ASSUME Bookkeeping, Agreement, Yields, Bookkeeping', Yields', [Next]_vars
  PROVE  [Batching!Next]_<<Stage, num_output>>
<1>1. ASSUME NEW r \in Requests, NEW p \in PromptLens, NEW m \in OutputLens,
             Arrive(r, p, m)
      PROVE  Batching!Next
  BY <1>1, ArriveRefines DEF Batching!Next
<1>2. ASSUME NEW r \in Abortable, Abort(r)
      PROVE  Batching!Next
  BY <1>2, AbortRefines, WorkloadAssumption DEF Batching!Next
<1>3. CASE ScheduleStep
  BY <1>3, ScheduleRefines DEF Unseen, Batching!Next
<1>4. CASE ExecuteStep
  BY <1>4, ExecuteRefines DEF Unseen
<1>5. CASE UpdateStep
  BY <1>5, UpdateRefines DEF Unseen, Batching!Next
<1>6. CASE UNCHANGED vars
  <2>1. UNCHANGED <<prompt_len, num_output, running, ongoing, waiting>>
    BY <1>6 DEF vars, schedVars, requestVars, queueVars
  <2>2. \A r \in Requests : StageOf(r)' = StageOf(r)
    BY <2>1, SameStage DEF Decoding, IsWaiting
  <2> QED BY <2>1, <2>2 DEF Stage
<1> QED
  BY <1>1, <1>2, <1>3, <1>4, <1>5, <1>6 DEF Next, EngineStep, Drained

(***************************************************************************)
(* The engine implements continuous batching: one prefill at a time, at    *)
(* most max_num_seqs requests, a first token when a prefill completes, and *)
(* in every other step with a result a token for all decoding requests.    *)
(***************************************************************************)
THEOREM RefinementHolds == Spec => ImplementsBatching
<1>1. Init => Bookkeeping /\ Agreement /\ Yields
  BY InitBookkeeping, InitAgreement, InitYields
<1>2. Bookkeeping /\ Agreement /\ Yields /\ [Next]_vars
        => (Bookkeeping /\ Agreement /\ Yields)'
  BY NextBookkeeping, NextAgreement, NextYields
<1>3. Init => Batching!Init
  BY InitRefines
<1>4. /\ Bookkeeping /\ Agreement /\ Yields
      /\ (Bookkeeping /\ Agreement /\ Yields)'
      /\ [Next]_vars
      => [Batching!Next]_<<Stage, num_output>>
  BY NextRefines
<1> QED BY <1>1, <1>2, <1>3, <1>4, PTL DEF Spec, ImplementsBatching, Batching!Spec, Stage
=============================================================================
