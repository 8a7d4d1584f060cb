---------------------------- MODULE SpyreBlockProofs ----------------------------
(***************************************************************************)
(* The blocks of the KV cache. The KV manager allocates what a step needs, *)
(* the runner appends the increments it is told of to its own lists, and   *)
(* nothing is reserved: both must come to the same, no request may hold    *)
(* more than its share of the pool, and a token is written into the block  *)
(* its position falls into. The tkv, admission and the volume come next,   *)
(* and the last part is about the chunks that fill the blocks and the      *)
(* prefix cache that shares them.                                          *)
(***************************************************************************)
EXTENDS SpyreBookkeepingProofs

\* Only requests that fit the model's context were let in.
LengthInv ==
  \A r \in Requests :
    prompt_len[r] # 0 => ValidateRequest(prompt_len[r], max_tokens[r])

\* A running request has tokens to come.
OutputInv == \A r \in running : num_output[r] < max_tokens[r]

\* The step under way computes tokens of r.
Fed(r) == phase # "idle" /\ scheduler_output.tokens[r] > 0

\* A decoding request has all its tokens computed but the last one, which the
\* step under way may be computing.
ExactInv ==
  \A r \in Decoding :
    /\ num_computed[r] =
         prompt_len[r] + num_output[r] - (IF Fed(r) THEN 0 ELSE 1)
    /\ Fed(r) => scheduler_output.tokens[r] = 1

(***************************************************************************)
(* What the KV manager holds. The count of an ongoing prefill is corrected *)
(* downwards for padding, so its blocks may be ahead of its tokens, but    *)
(* never of its prompt.                                                    *)
(***************************************************************************)
HeldInv ==
  \A r \in Requests :
    /\ r \notin running => kv_blocks[r] = 0
    /\ r \in Decoding => kv_blocks[r] = BlocksFor(num_computed[r])
    /\ r \in ongoing => /\ BlocksFor(num_computed[r]) <= kv_blocks[r]
                        /\ kv_blocks[r] <= BlocksFor(prompt_len[r])

CopyInv == \A r \in running : Listed(r) = kv_blocks[r]

\* The rows of the last decode step: nothing but a step changes them, and a
\* step that runs nothing leaves them alone.
SlotInv ==
  model_input.kind = "decode" =>
    \A r \in model_input.reqs :
      requests[r].num_blocks = requests[r].num_computed \div BlockSize + 1

\* Blocks are published only when prefix caching is enabled.
CacheInv == cached # {} => PrefixCaching

Blocks ==
  /\ LengthInv
  /\ OutputInv
  /\ ExactInv
  /\ HeldInv
  /\ CopyInv
  /\ SlotInv
  /\ CacheInv
-----------------------------------------------------------------------------
\* Nothing is held when the engine starts.
LEMMA InitBlocks == Init => Blocks
BY DEF Init, SchedInit, RunnerInit, NoInput, Blocks, LengthInv, OutputInv, ExactInv, HeldInv,
  Decoding, CopyInv, SlotInv, CacheInv

\* A request that arrives holds no blocks; it fits the model's context.
LEMMA ArriveBlocks ==
  ASSUME Bookkeeping, Blocks, NEW r \in Requests, NEW p \in PromptLens,
         NEW m \in OutputLens, Arrive(r, p, m)
  PROVE  Blocks'
<1>1. /\ prompt_len[r] = 0 /\ ValidateRequest(p, m)
      /\ prompt_len' = [prompt_len EXCEPT ![r] = p]
      /\ max_tokens' = [max_tokens EXCEPT ![r] = m]
      /\ phase = "idle" /\ phase' = phase
      /\ UNCHANGED <<num_computed, num_output, running, ongoing, kv_blocks, cached,
                     requests, model_input, scheduler_output>>
  BY DEF Arrive, AddRequest, runnerVars, kvVars
<1>2. r \notin running /\ running \subseteq Requests /\ ongoing \subseteq running
  BY <1>1, EngineTypes DEF Bookkeeping, Lists, QueueInv, Unstarted
<1>3. prompt_len \in [Requests -> Nat] /\ max_tokens \in [Requests -> Nat]
  BY DEF Bookkeeping, Types, SchedTypeOK
<1>4. \A q \in Requests : q # r =>
        prompt_len'[q] = prompt_len[q] /\ max_tokens'[q] = max_tokens[q]
  BY <1>1, <1>3
<1>5. Decoding' = Decoding /\ Decoding \subseteq running
  BY <1>1 DEF Decoding
<1>6. LengthInv'
  <2>1. prompt_len'[r] = p /\ max_tokens'[r] = m
    BY <1>1, <1>3
  <2> QED BY <1>1, <1>4, <2>1 DEF Blocks, LengthInv, ValidateRequest
<1>7. OutputInv' /\ ExactInv' /\ HeldInv'
  BY <1>1, <1>2, <1>4, <1>5 DEF Blocks, OutputInv, ExactInv, HeldInv, Fed
<1>8. CopyInv' /\ SlotInv' /\ CacheInv'
  BY <1>1 DEF Blocks, CopyInv, SlotInv, CacheInv, Listed
<1> QED BY <1>6, <1>7, <1>8 DEF Blocks

\* An aborted request gives its blocks back.
LEMMA AbortBlocks ==
  ASSUME Bookkeeping, Blocks, NEW r \in Requests, Abort(r)
  PROVE  Blocks'
<1>1. /\ running' = running \ {r}
      /\ ongoing' = ongoing \ {r}
      /\ kv_blocks' = [q \in Requests |-> IF q \in {r} THEN 0 ELSE kv_blocks[q]]
      /\ phase \in {"idle", "executed"} /\ phase' = phase
      /\ UNCHANGED <<prompt_len, max_tokens, num_computed, num_output, cached, requests,
                     model_input, scheduler_output>>
  BY DEF Abort, FinishRequest, Free, OngoingWithout, requestVars, runnerVars
<1>2. Decoding' = Decoding \ {r}
  BY <1>1 DEF Decoding
<1>3. running \subseteq Requests /\ ongoing \subseteq running /\ Decoding \subseteq running
  BY EngineTypes
<1>4. LengthInv' /\ OutputInv' /\ ExactInv' /\ SlotInv' /\ CacheInv'
  BY <1>1, <1>2 DEF Blocks, LengthInv, OutputInv, ExactInv, SlotInv, CacheInv, Fed
<1>5. HeldInv'
  BY <1>1, <1>2, <1>3 DEF Blocks, HeldInv
<1>6. CopyInv'
  BY <1>1, <1>3 DEF Blocks, CopyInv, Listed
<1> QED BY <1>4, <1>5, <1>6 DEF Blocks
-----------------------------------------------------------------------------
\* The blocks a step allocates are those its tokens need.
LEMMA ScheduleAllocates ==
  ASSUME Bookkeeping, ScheduleStep
  PROVE  /\ \A r \in Requests :
              /\ kv_blocks'[r] =
                   IF scheduler_output'.tokens[r] > 0
                     THEN Larger(kv_blocks[r], BlocksFor(num_computed'[r]))
                     ELSE kv_blocks[r]
              /\ scheduler_output'.new_blocks[r] = kv_blocks'[r] - kv_blocks[r]
         /\ ~PrefixCaching => cached' = cached
<1>1. PICK n \in 0 .. Len(waiting) :
        LET released == {waiting[i] : i \in 1 .. n}
            hits     == IF released = {} THEN {0}
                        ELSE UNION {PossibleHits(r) : r \in released}
        IN \E hit \in hits : BaseSchedule(Visible(n), released, hit)
  BY Zenon DEF ScheduleStep, Schedule
<1>2. PICK released, hit : BaseSchedule(Visible(n), released, hit)
  BY <1>1
<1> DEFINE start == StepStart(released, hit)
           tokens == StepTokens(Visible(n), released, hit)
<1>3. /\ num_computed' = [r \in Requests |-> start[r] + tokens[r]]
      /\ kv_blocks' = [r \in Requests |->
           IF r \in {q \in Requests : tokens[q] > 0}
             THEN Larger(kv_blocks[r], BlocksFor(start[r] + tokens[r]))
             ELSE kv_blocks[r]]
      /\ scheduler_output'.tokens = tokens
      /\ scheduler_output'.new_blocks = [r \in Requests |-> kv_blocks'[r] - kv_blocks[r]]
      /\ ~PrefixCaching => cached' = cached
  BY <1>2 DEF BaseSchedule
<1> HIDE DEF start, tokens
<1> QED BY <1>3

(***************************************************************************)
(* What a scheduled step starts from: cached blocks for a new request, the *)
(* count it had for an ongoing one. The hits are published blocks.         *)
(***************************************************************************)
LEMMA ScheduleStarts ==
  ASSUME Bookkeeping, Agreement, ScheduleStep
  PROVE  /\ \A r \in scheduler_output'.new :
              \E h \in Nat : /\ scheduler_output'.computed[r] = h * BlockSize
                             /\ h * BlockSize < prompt_len[r]
                             /\ 1 .. h \subseteq cached
         /\ \A r \in ongoing : scheduler_output'.tokens[r] >= 0
<1>1. PICK n \in 0 .. Len(waiting) :
        LET released == {waiting[i] : i \in 1 .. n}
            hits     == IF released = {} THEN {0}
                        ELSE UNION {PossibleHits(r) : r \in released}
        IN \E hit \in hits : Releases(n) /\ BaseSchedule(Visible(n), released, hit)
  BY Zenon DEF ScheduleStep, Schedule
<1> DEFINE released == {waiting[i] : i \in 1 .. n}
           hits == IF released = {} THEN {0}
                   ELSE UNION {PossibleHits(r) : r \in released}
<1>2. PICK hit \in hits : BaseSchedule(Visible(n), released, hit)
  BY <1>1
<1> DEFINE start == StepStart(released, hit)
           tokens == StepTokens(Visible(n), released, hit)
<1>3. /\ scheduler_output'.new = released
      /\ scheduler_output'.tokens = tokens
      /\ scheduler_output'.computed =
           [r \in Requests |-> IF r \in {q \in Requests : tokens[q] > 0}
                                 THEN start[r] ELSE 0]
  BY <1>2 DEF BaseSchedule
<1>4. /\ running \subseteq Requests /\ ongoing \subseteq running
      /\ \A r \in Requests : /\ prompt_len[r] \in Nat /\ num_output[r] \in Nat
                             /\ num_computed[r] \in Int
      /\ ChunkSize \in Nat \ {0}
  BY EngineTypes, ChunkSizeType
<1>5. n \in 0 .. 1 /\ \A r \in released : r \in Requests /\ r \notin running
  <2>1. n = 0 \/ n = 1
    BY <1>1, ReleaseBound
  <2> QED BY <2>1, WaitingUnstarted
<1>6. ASSUME NEW r \in released
      PROVE  /\ hit \in Nat /\ hit * BlockSize < prompt_len[r]
             /\ 1 .. hit \subseteq cached
             /\ scheduler_output'.computed[r] = hit * BlockSize
  <2>1. r \in Requests /\ released = {r}
    BY <1>5
  <2>2. hits = PossibleHits(r)
    BY <2>1
  <2>3. hit \in PossibleHits(r)
    BY <2>2
  <2>4. hit \in Nat /\ hit * BlockSize < prompt_len[r]
    BY <2>1, <2>3, HitBound DEF Bookkeeping
  <2>5. 1 .. hit \subseteq cached
    BY <2>3 DEF PossibleHits
  <2>6. hit * BlockSize \in Nat
    BY <2>4, BlockAssumption
  <2>7. start[r] = hit * BlockSize /\ tokens[r] = Smaller(prompt_len[r] - hit * BlockSize, ChunkSize)
    BY <2>1 DEF StepStart, StepTokens
  <2>8. tokens[r] > 0
    BY <1>4, <2>1, <2>4, <2>6, <2>7 DEF Smaller
  <2> HIDE DEF start, tokens, hits, released
  <2> QED BY <1>3, <2>1, <2>4, <2>5, <2>7, <2>8
<1>7. ASSUME NEW r \in ongoing
      PROVE  tokens[r] >= 0
  <2>1. r \in Requests /\ r \notin released /\ num_computed[r] < prompt_len[r]
    BY <1>4, <1>5 DEF Agreement, StepInv, Parked, ScheduleStep
  <2>2. tokens[r] = IF r \in Visible(n) THEN RunningTokens(r) ELSE 0
    BY <2>1 DEF StepTokens
  <2>3. RunningTokens(r) >= 0
    BY <1>4, <2>1 DEF RunningTokens, Smaller
  <2> HIDE DEF tokens
  <2> QED BY <2>2, <2>3
<1> HIDE DEF released, start, tokens, hits
<1> QED BY <1>3, <1>6, <1>7

\* A step allocates what it needs, and the runner will be told of all of it.
LEMMA ScheduleBlocks ==
  ASSUME Bookkeeping, Agreement, Blocks, Bookkeeping', ScheduleStep
  PROVE  Blocks'
<1> DEFINE so == scheduler_output'
<1>1. /\ phase = "idle" /\ phase' = "scheduled"
      /\ UNCHANGED <<prompt_len, max_tokens, num_output, requests, model_input>>
      /\ \A r \in so.new :
           /\ r \in Requests /\ r \notin running /\ IsWaiting(r)
           /\ num_output[r] = 0
      /\ running' = running \cup so.new
      /\ ongoing' = ongoing \cup so.new
      /\ Decoding' = Decoding
      /\ \A r \in Requests \ so.new :
           num_computed'[r] = num_computed[r] + so.tokens[r]
      /\ \A r \in Decoding : so.tokens[r] > 0 => so.tokens[r] = RunningTokens(r)
  BY ScheduleMoves DEF runnerVars
<1>2. \A r \in Requests :
        /\ kv_blocks'[r] = IF so.tokens[r] > 0
                             THEN Larger(kv_blocks[r], BlocksFor(num_computed'[r]))
                             ELSE kv_blocks[r]
        /\ so.new_blocks[r] = kv_blocks'[r] - kv_blocks[r]
  BY ScheduleAllocates
<1>3. \A r \in Requests : r \in so.new \cup so.cached <=> so.tokens[r] > 0
  BY <1>1 DEF Bookkeeping, Lists, ScheduledInv
<1>4. so.cached \subseteq running'
  BY <1>1 DEF Bookkeeping, Lists, ScheduledInv
<1>5. /\ running \subseteq Requests /\ ongoing \subseteq running
      /\ Decoding \subseteq running
      /\ \A r \in Requests :
           /\ prompt_len[r] \in Nat /\ num_output[r] \in Nat /\ max_tokens[r] \in Nat
           /\ num_computed[r] \in Int /\ kv_blocks[r] \in Int
           /\ requests[r].num_blocks \in Int
  BY EngineTypes
<1>6. \A r \in Requests :
        /\ num_computed'[r] \in Int /\ so.tokens[r] \in Int /\ kv_blocks'[r] \in Int
        /\ BlocksFor(num_computed'[r]) \in Int /\ BlocksFor(num_computed[r]) \in Int
        /\ so.new_blocks[r] \in Int
  BY <1>5, BlocksForType DEF Bookkeeping, Types, SchedTypeOK, OutputsTypeOK, SchedulerOutputs
<1>7. LengthInv'
  BY <1>1 DEF Blocks, LengthInv
<1>8. OutputInv'
  <2>1. ASSUME NEW r \in so.new PROVE num_output[r] < max_tokens[r]
    <3>1. prompt_len[r] # 0
      BY <1>1 DEF Bookkeeping, Lists, QueueInv
    <3>2. max_tokens[r] >= 1
      BY <1>1, <3>1 DEF Blocks, LengthInv, ValidateRequest
    <3> QED BY <1>1, <1>5, <3>2
  <2> QED BY <1>1, <2>1 DEF Blocks, OutputInv
<1>9. ExactInv'
  <2>1. ASSUME NEW r \in Decoding, r \notin so.new
        PROVE  /\ num_computed'[r] = prompt_len[r] + num_output[r]
                                      - (IF so.tokens[r] > 0 THEN 0 ELSE 1)
               /\ so.tokens[r] > 0 => so.tokens[r] = 1
    <3>1. r \in Requests
      BY <1>5
    <3>2. num_computed[r] = prompt_len[r] + num_output[r] - 1
      BY <1>1 DEF Blocks, ExactInv, Fed
    <3>3. RunningTokens(r) = 1
      BY <1>5, <3>1, <3>2, ChunkSizeType DEF RunningTokens, Smaller
    <3>4. so.tokens[r] > 0 \/ so.tokens[r] = 0
      <4>1. \/ so.tokens[r] > 0
            \/ \E n \in 0 .. 1 : so.tokens[r] = IF r \in Visible(n) THEN RunningTokens(r) ELSE 0
        <5>1. PICK n \in 0 .. 1, released \in SUBSET Requests,
                   start \in [Requests -> Int], tokens \in [Requests -> Int] :
                /\ Counting(n, released, start, tokens)
                /\ Messaging(released, start, tokens)
          BY ScheduleShape
        <5> QED BY <2>1, <3>1, <5>1 DEF Counting, Messaging
      <4> QED BY <3>3, <4>1
    <3> QED BY <1>1, <1>5, <1>6, <2>1, <3>1, <3>2, <3>3, <3>4
  <2>2. \A r \in Decoding : r \notin so.new
    BY <1>1, <1>5
  <2> QED BY <1>1, <2>1, <2>2 DEF ExactInv, Fed
<1>10. HeldInv'
  <2>1. ASSUME NEW r \in Requests, r \notin running' PROVE kv_blocks'[r] = 0
    BY <1>1, <1>2, <1>3, <1>4, <2>1 DEF Blocks, HeldInv
  <2>2. ASSUME NEW r \in Decoding PROVE kv_blocks'[r] = BlocksFor(num_computed'[r])
    <3>1. r \in Requests \ so.new
      BY <1>1, <1>5
    <3>2. kv_blocks[r] = BlocksFor(num_computed[r])
      BY <1>5 DEF Blocks, HeldInv
    <3>3. num_computed'[r] = num_computed[r] + so.tokens[r]
          /\ (so.tokens[r] > 0 \/ so.tokens[r] = 0)
      <4>1. num_computed'[r] = prompt_len[r] + num_output[r] - (IF so.tokens[r] > 0 THEN 0 ELSE 1)
        BY <1>1, <1>9 DEF ExactInv, Fed
      <4>2. num_computed[r] = prompt_len[r] + num_output[r] - 1
        BY <1>1 DEF Blocks, ExactInv, Fed
      <4> QED BY <1>1, <1>5, <1>6, <3>1, <4>1, <4>2
    <3>4. CASE so.tokens[r] > 0
      <4>1. BlocksFor(num_computed[r]) <= BlocksFor(num_computed'[r])
        BY <1>5, <1>6, <3>1, <3>3, <3>4, BlocksForMonotonic
      <4> QED BY <1>2, <1>6, <3>1, <3>2, <3>4, <4>1 DEF Larger
    <3>5. CASE so.tokens[r] = 0
      <4>1. num_computed'[r] = num_computed[r]
        BY <1>5, <3>1, <3>3, <3>5
      <4> QED BY <1>2, <3>1, <3>2, <3>5, <4>1
    <3> QED BY <3>3, <3>4, <3>5
  <2>3. ASSUME NEW r \in ongoing'
        PROVE  BlocksFor(num_computed'[r]) <= kv_blocks'[r]
               /\ kv_blocks'[r] <= BlocksFor(prompt_len[r])
    <3>1. r \in Requests
      BY <1>1, <1>5
    <3>2. num_computed'[r] <= prompt_len[r]
      BY <1>1, <2>3 DEF Bookkeeping, Lists, CountInv
    <3>3. BlocksFor(num_computed'[r]) <= BlocksFor(prompt_len[r])
          /\ BlocksFor(prompt_len[r]) \in Int /\ BlocksFor(prompt_len[r]) >= 0
      BY <1>5, <1>6, <3>1, <3>2, BlocksForMonotonic, BlocksForNat
    <3>4. kv_blocks[r] <= BlocksFor(prompt_len[r])
      BY <1>1, <2>3, <3>1, <3>3 DEF Blocks, HeldInv
    <3>5. CASE so.tokens[r] > 0
      BY <1>2, <1>5, <1>6, <3>1, <3>3, <3>4, <3>5 DEF Larger
    <3>6. CASE ~(so.tokens[r] > 0)
      <4>1. r \in ongoing /\ r \notin so.new
        BY <1>1, <1>3, <2>3, <3>1, <3>6
      <4>2. num_computed'[r] <= num_computed[r]
        BY <1>1, <1>5, <1>6, <3>1, <3>6, <4>1
      <4>3. BlocksFor(num_computed'[r]) <= BlocksFor(num_computed[r])
        BY <1>5, <1>6, <3>1, <4>2, BlocksForMonotonic
      <4>4. BlocksFor(num_computed[r]) <= kv_blocks[r]
        BY <3>1, <4>1 DEF Blocks, HeldInv
      <4> QED BY <1>2, <1>5, <1>6, <3>1, <3>4, <3>6, <4>3, <4>4
    <3> QED BY <3>5, <3>6
  <2> QED BY <1>1, <2>1, <2>2, <2>3 DEF HeldInv
<1>11. CopyInv'
  <2>1. ASSUME NEW r \in running' PROVE Listed(r)' = kv_blocks'[r]
    <3>1. r \in Requests
      BY <1>1, <1>5, <2>1
    <3>2. CASE r \in so.new
      <4>1. kv_blocks[r] = 0
        BY <1>1, <3>1, <3>2 DEF Blocks, HeldInv
      <4> QED BY <1>1, <1>2, <1>6, <3>1, <3>2, <4>1 DEF Listed
    <3>3. CASE r \notin so.new
      <4>1. requests[r].num_blocks = kv_blocks[r]
        BY <1>1, <2>1, <3>3 DEF Blocks, CopyInv, Listed
      <4>2. CASE r \in so.cached
        BY <1>1, <1>2, <1>5, <1>6, <3>1, <3>3, <4>1, <4>2 DEF Listed
      <4>3. CASE r \notin so.cached
        BY <1>1, <1>2, <1>3, <3>1, <3>3, <4>1, <4>3 DEF Listed
      <4> QED BY <4>2, <4>3
    <3> QED BY <3>2, <3>3
  <2> QED BY <2>1 DEF CopyInv
<1>12. SlotInv' /\ CacheInv'
  BY <1>1, ScheduleAllocates DEF Blocks, SlotInv, CacheInv
<1> QED BY <1>7, <1>8, <1>9, <1>10, <1>11, <1>12 DEF Blocks

-----------------------------------------------------------------------------
\* The states of the requests whose chunk it is not stay what they are.
LEMMA ChunkOthers ==
  ASSUME Bookkeeping, phase = "scheduled", NEW q \in Requests, Chunks(q)
  PROVE  /\ requests'[q] = StateFor(q)
         /\ \A r \in Requests : r # q => requests'[r] = requests[r]
<1>1. \/ scheduler_output.new = {q} /\ scheduler_output.cached = {}
      \/ scheduler_output.new = {} /\ scheduler_output.cached = {q}
  BY DEF Chunks, PrefillPlan
<1>2. requests' = [UpdatedRequests EXCEPT ![q] = StateFor(q)]
  BY DEF Chunks, Prefill
<1> QED BY <1>1, <1>2 DEF UpdatedRequests

\* The rows of a decode step: token counts and blocks as in the message.
LEMMA DecodeRows ==
  ASSUME Bookkeeping, Agreement, phase = "scheduled", Decodes
  PROVE  \A r \in Requests :
           IF r \in Decoding
             THEN /\ requests'[r].num_computed = scheduler_output.computed[r]
                  /\ requests'[r].num_blocks = Listed(r)
             ELSE requests'[r] = requests[r]
<1>1. /\ scheduler_output.new = {} /\ scheduler_output.cached = Decoding
      /\ requests' = Padded(UpdatedRequests, Decoding)
  BY DEF Decodes, DecodeStep
<1>2. UpdatedRequests \in [Requests -> RequestStates]
  BY UpdatedRequestsType DEF Bookkeeping, Types
<1> SUFFICES ASSUME NEW r \in Requests
             PROVE  IF r \in Decoding
                      THEN /\ requests'[r].num_computed = scheduler_output.computed[r]
                           /\ requests'[r].num_blocks = Listed(r)
                      ELSE requests'[r] = requests[r]
  OBVIOUS
<1>3. CASE r \in Decoding
  <2>1. /\ requests'[r].num_computed = UpdatedRequests[r].num_computed
        /\ requests'[r].num_blocks = UpdatedRequests[r].num_blocks
    <3>1. UpdatedRequests[r] \in RequestStates
      BY <1>2
    <3> QED BY <1>1, <1>3, <3>1 DEF Padded, RequestStates
  <2>2. requests[r] \in RequestStates
    BY EngineTypes
  <2>3. /\ UpdatedRequests[r].num_computed = scheduler_output.computed[r]
        /\ UpdatedRequests[r].num_blocks = requests[r].num_blocks + scheduler_output.new_blocks[r]
    BY <1>1, <1>3, <2>2 DEF UpdatedRequests, RequestStates
  <2> QED BY <1>1, <1>3, <2>1, <2>3 DEF Listed
<1>4. CASE r \notin Decoding
  BY <1>1, <1>4 DEF Padded, UpdatedRequests
<1> QED BY <1>3, <1>4

\* The runner has listed what it was told of, and writes into the right block.
LEMMA ExecuteBlocks ==
  ASSUME Bookkeeping, Agreement, Blocks, ExecuteStep
  PROVE  Blocks'
<1>1. /\ phase = "scheduled" /\ phase' = "executed"
      /\ UNCHANGED <<prompt_len, max_tokens, num_computed, num_output, running, ongoing,
                     kv_blocks, cached, scheduler_output>>
      /\ Idles \/ (\E q \in Requests : Chunks(q)) \/ Decodes
  BY ExecuteMoves DEF schedVars, requestVars, queueVars, kvVars
<1>2. running \subseteq Requests /\ Decoding \subseteq running
  BY EngineTypes
<1>3. LengthInv' /\ OutputInv' /\ ExactInv' /\ HeldInv' /\ CacheInv'
  BY <1>1 DEF Blocks, LengthInv, OutputInv, ExactInv, HeldInv, CacheInv, Decoding, Fed
<1>4. \A r \in running : Listed(r)' = requests'[r].num_blocks
  BY <1>1 DEF Listed
<1>5. \A r \in running : Listed(r) = kv_blocks[r]
  BY DEF Blocks, CopyInv
<1>6. CASE Idles
  <2>1. \A r \in running : Listed(r) = requests[r].num_blocks
    BY <1>6 DEF Idles, Listed
  <2>2. CopyInv'
    BY <1>1, <1>4, <1>5, <1>6, <2>1 DEF Idles, CopyInv
  <2>3. SlotInv'
    BY <1>6 DEF Idles, EmptyStep, Blocks, SlotInv
  <2> QED BY <1>3, <2>2, <2>3 DEF Blocks
<1>7. ASSUME NEW q \in Requests, Chunks(q) PROVE Blocks'
  <2>1. requests'[q] = StateFor(q) /\ \A r \in Requests : r # q => requests'[r] = requests[r]
    BY <1>1, <1>7, ChunkOthers
  <2>2. StateFor(q).num_blocks = Listed(q)
    BY <1>1, <1>7, ChunkState DEF Chunks
  <2>3. \A r \in Requests : r # q => Listed(r) = requests[r].num_blocks
    BY <1>7 DEF Chunks, PrefillPlan, Listed
  <2>4. CopyInv'
    BY <1>1, <1>2, <1>4, <1>5, <2>1, <2>2, <2>3 DEF CopyInv
  <2>5. model_input'.kind = "prefill"
    BY <1>7 DEF Chunks, Prefill, PrefillInput
  <2> QED BY <1>3, <2>4, <2>5 DEF Blocks, SlotInv
<1>8. CASE Decodes
  <2>1. \A r \in Requests :
           IF r \in Decoding
             THEN /\ requests'[r].num_computed = scheduler_output.computed[r]
                  /\ requests'[r].num_blocks = Listed(r)
             ELSE requests'[r] = requests[r]
    BY <1>1, <1>8, DecodeRows
  <2>2. \A r \in Requests : r \notin Decoding => Listed(r) = requests[r].num_blocks
    BY <1>8 DEF Decodes, Listed
  <2>3. CopyInv'
    BY <1>1, <1>2, <1>4, <1>5, <2>1, <2>2 DEF CopyInv
  <2>4. model_input'.reqs = Decoding
    BY <1>8 DEF Decodes, DecodeStep, DecodeInput
  <2>5. ASSUME NEW r \in Decoding
        PROVE  requests'[r].num_blocks = requests'[r].num_computed \div BlockSize + 1
    <3>1. r \in Requests /\ r \in running
      BY <1>2
    <3>2. /\ scheduler_output.computed[r] + scheduler_output.tokens[r] = num_computed[r]
          /\ scheduler_output.tokens[r] > 0
      BY <1>1, <1>8, <3>1 DEF Decodes, Bookkeeping, Lists, ScheduledInv
    <3>3. scheduler_output.tokens[r] = 1
      BY <1>1, <3>2 DEF Blocks, ExactInv, Fed
    <3>4. num_computed[r] = scheduler_output.computed[r] + 1
          /\ scheduler_output.computed[r] \in Int
      BY <3>1, <3>2, <3>3, EngineTypes
    <3>5. kv_blocks[r] = BlocksFor(num_computed[r])
      BY <3>1 DEF Blocks, HeldInv
    <3>6. requests'[r].num_blocks = BlocksFor(scheduler_output.computed[r] + 1)
      BY <1>5, <2>1, <3>1, <3>4, <3>5
    <3> QED BY <2>1, <3>1, <3>4, <3>6, BlocksForNext
  <2>6. SlotInv'
    BY <2>4, <2>5 DEF SlotInv
  <2> QED BY <1>3, <2>3, <2>6 DEF Blocks
<1> QED BY <1>1, <1>6, <1>7, <1>8

\* Corrections and finished requests: the counts and blocks stay together.
LEMMA UpdateBlocks ==
  ASSUME Bookkeeping, Agreement, Blocks, UpdateStep
  PROVE  Blocks'
<1> DEFINE sampled == {r \in running : /\ scheduler_output.tokens[r] > 0
                                       /\ r \in model_output.sampled}
<1>1. /\ num_computed' = [r \in Requests |-> ComputedAfter(r)]
      /\ ongoing' = {r \in ongoing : ComputedAfter(r) < prompt_len[r]}
      /\ num_output' = [r \in Requests |-> IF r \in sampled THEN num_output[r] + 1
                                                            ELSE num_output[r]]
      /\ \E eos \in SUBSET sampled : Free(eos \cup {r \in sampled : AtLimit(r)})
      /\ UNCHANGED <<prompt_len, max_tokens, cached, requests, model_input>>
      /\ phase = "executed" /\ phase' = "idle"
  BY DEF UpdateStep, UpdateFromOutput, runnerVars
<1>2. PICK gone \in SUBSET sampled :
        /\ running' = running \ gone
        /\ kv_blocks' = [r \in Requests |-> IF r \in gone THEN 0 ELSE kv_blocks[r]]
        /\ {r \in sampled : AtLimit(r)} \subseteq gone
  BY <1>1 DEF Free
<1>3. /\ running \subseteq Requests /\ ongoing \subseteq running
      /\ Decoding \subseteq running
      /\ \A r \in Requests :
           /\ prompt_len[r] \in Nat /\ num_output[r] \in Nat /\ max_tokens[r] \in Nat
           /\ num_computed[r] \in Int /\ kv_blocks[r] \in Int
           /\ scheduler_output.tokens[r] \in Int
  BY EngineTypes
<1>4. /\ \A r \in ongoing : PrefillOutput(r)
      /\ \A r \in Decoding : DecodeOutput(r)
      /\ \A r \in ongoing : num_output[r] = 0
  BY <1>1 DEF Agreement, StepInv, Bookkeeping, Lists, CountInv
<1>5. \A r \in ongoing :
        IF num_computed[r] = prompt_len[r]
          THEN ComputedAfter(r) = prompt_len[r]
          ELSE /\ ComputedAfter(r) \in Nat
               /\ 0 < ComputedAfter(r) /\ ComputedAfter(r) < prompt_len[r]
  BY <1>4, ParkedStays
<1>6. \A r \in Requests : r \notin ongoing => ComputedAfter(r) = num_computed[r]
  BY DEF ComputedAfter
<1>7. ongoing' = {r \in ongoing : num_computed[r] # prompt_len[r]}
  BY <1>1, <1>3, <1>5
<1>8. \A r \in Decoding' : r \in Decoding \/ (r \in ongoing /\ num_computed[r] = prompt_len[r])
  BY <1>2, <1>7 DEF Decoding
<1>9. LengthInv'
  BY <1>1 DEF Blocks, LengthInv
<1>10. OutputInv'
  <2>1. ASSUME NEW r \in running' PROVE num_output'[r] < max_tokens[r]
    <3>1. r \in Requests /\ r \in running /\ r \notin gone
      BY <1>2, <1>3, <2>1
    <3>2. CASE r \in sampled
      <4>1. ~(num_output[r] + 1 >= max_tokens[r])
        BY <1>2, <3>1, <3>2 DEF AtLimit
      <4> QED BY <1>1, <1>3, <3>1, <3>2, <4>1
    <3>3. CASE r \notin sampled
      BY <1>1, <3>1, <3>3 DEF Blocks, OutputInv
    <3> QED BY <3>2, <3>3
  <2> QED BY <1>1, <2>1 DEF OutputInv
<1>11. ExactInv'
  <2>1. ASSUME NEW r \in Decoding'
        PROVE  num_computed'[r] = prompt_len[r] + num_output'[r] - 1
    <3>1. r \in Requests /\ r \in running
      BY <1>3, <1>8, <2>1
    <3>2. CASE r \in Decoding
      <4>1. num_computed'[r] = num_computed[r]
        BY <1>1, <1>6, <3>1, <3>2 DEF Decoding
      <4>2. num_computed[r] = prompt_len[r] + num_output[r] - (IF Fed(r) THEN 0 ELSE 1)
        BY <3>2 DEF Blocks, ExactInv
      <4>3. Fed(r) <=> scheduler_output.tokens[r] > 0
        BY <1>1 DEF Fed
      <4>4. r \in sampled <=> scheduler_output.tokens[r] > 0
        BY <1>3, <1>4, <3>1, <3>2, <4>2, <4>3 DEF DecodeOutput, Lacks
      <4> HIDE DEF sampled
      <4> QED BY <1>1, <1>3, <3>1, <4>1, <4>2, <4>3, <4>4
    <3>3. CASE r \in ongoing /\ num_computed[r] = prompt_len[r]
      <4>1. r \in sampled
        BY <1>3, <1>4, <3>1, <3>3 DEF PrefillOutput, Parked
      <4>2. num_computed'[r] = prompt_len[r]
        BY <1>1, <1>5, <3>1, <3>3
      <4>3. num_output'[r] = num_output[r] + 1 /\ num_output[r] = 0
        BY <1>1, <1>4, <3>1, <3>3, <4>1
      <4> QED BY <1>3, <3>1, <4>2, <4>3
    <3> QED BY <1>8, <2>1, <3>2, <3>3
  <2> QED BY <1>1, <2>1 DEF ExactInv, Fed
<1>12. HeldInv'
  <2>1. ASSUME NEW r \in Requests, r \notin running' PROVE kv_blocks'[r] = 0
    BY <1>2, <2>1 DEF Blocks, HeldInv
  <2>2. \A r \in running' : r \in Requests /\ kv_blocks'[r] = kv_blocks[r]
    BY <1>2, <1>3
  <2>3. ASSUME NEW r \in Decoding' PROVE kv_blocks'[r] = BlocksFor(num_computed'[r])
    <3>1. r \in running' /\ r \in Requests
      BY <2>2, <2>3 DEF Decoding
    <3>2. CASE r \in Decoding
      BY <1>1, <1>6, <2>2, <3>1, <3>2 DEF Blocks, HeldInv, Decoding
    <3>3. CASE r \in ongoing /\ num_computed[r] = prompt_len[r]
      <4>1. BlocksFor(prompt_len[r]) <= kv_blocks[r] /\ kv_blocks[r] <= BlocksFor(prompt_len[r])
        BY <3>1, <3>3 DEF Blocks, HeldInv
      <4>2. kv_blocks[r] = BlocksFor(prompt_len[r])
        BY <1>3, <3>1, <4>1, BlocksForType
      <4> QED BY <1>1, <1>5, <2>2, <3>1, <3>3, <4>2
    <3> QED BY <1>8, <2>3, <3>2, <3>3
  <2>4. ASSUME NEW r \in ongoing', r \in running'
        PROVE  /\ BlocksFor(num_computed'[r]) <= kv_blocks'[r]
               /\ kv_blocks'[r] <= BlocksFor(prompt_len[r])
    <3>1. r \in Requests /\ r \in ongoing /\ num_computed[r] # prompt_len[r]
      BY <1>3, <1>7, <2>4
    <3>2. ComputedAfter(r) <= num_computed[r]
      BY <1>3, <1>4, <3>1, EngineTypes
      DEF PrefillOutput, ComputedAfter, AdjustComputedTokens
    <3>3. ComputedAfter(r) \in Int
      BY <1>5, <3>1
    <3>4. BlocksFor(ComputedAfter(r)) <= BlocksFor(num_computed[r])
      BY <1>3, <3>1, <3>2, <3>3, BlocksForMonotonic
    <3>5. /\ BlocksFor(num_computed[r]) <= kv_blocks[r]
          /\ kv_blocks[r] <= BlocksFor(prompt_len[r])
      BY <3>1 DEF Blocks, HeldInv
    <3>6. BlocksFor(ComputedAfter(r)) <= kv_blocks[r]
      BY <1>3, <3>1, <3>3, <3>4, <3>5, BlocksForType
    <3> QED BY <1>1, <2>2, <2>4, <3>1, <3>5, <3>6
  <2>5. ongoing' \subseteq running'
    <3>1. ASSUME NEW r \in ongoing' PROVE r \notin gone
      <4>1. r \in ongoing /\ num_computed[r] # prompt_len[r]
        BY <1>7, <3>1
      <4> QED BY <1>1, <4>1 DEF Bookkeeping, Lists, JoinInv
    <3> QED BY <1>2, <1>3, <1>7, <3>1
  <2> QED BY <1>1, <2>1, <2>3, <2>4, <2>5 DEF HeldInv
<1>13. CopyInv'
  <2>1. ASSUME NEW r \in running' PROVE requests[r].num_blocks = kv_blocks'[r]
    <3>1. r \in running /\ r \in Requests /\ kv_blocks'[r] = kv_blocks[r]
      BY <1>2, <1>3, <2>1
    <3> QED BY <1>1, <3>1 DEF Blocks, CopyInv, Listed
  <2> QED BY <1>1, <2>1 DEF CopyInv, Listed
<1>14. SlotInv' /\ CacheInv'
  BY <1>1 DEF Blocks, SlotInv, CacheInv
<1> QED BY <1>9, <1>10, <1>11, <1>12, <1>13, <1>14 DEF Blocks

-----------------------------------------------------------------------------
\* Every step keeps the books on the blocks.
LEMMA NextBlocks ==
  ASSUME Bookkeeping, Agreement, Blocks, [Next]_vars
  PROVE  Blocks'
<1>1. ASSUME NEW r \in Requests, NEW p \in PromptLens, NEW m \in OutputLens,
             Arrive(r, p, m)
      PROVE  Blocks'
  BY <1>1, ArriveBlocks
<1>2. ASSUME NEW r \in Abortable, Abort(r)
      PROVE  Blocks'
  BY <1>2, AbortBlocks, WorkloadAssumption
<1>3. CASE ScheduleStep
  <2>1. Bookkeeping'
    BY NextBookkeeping
  <2> QED BY <1>3, <2>1, ScheduleBlocks
<1>4. CASE ExecuteStep
  BY <1>4, ExecuteBlocks
<1>5. CASE UpdateStep
  BY <1>5, UpdateBlocks
<1>6. CASE UNCHANGED vars
  BY <1>6 DEF vars, schedVars, requestVars, queueVars, kvVars, runnerVars, Blocks, LengthInv,
    OutputInv, ExactInv, HeldInv, CopyInv, SlotInv, CacheInv, Decoding, Fed, Listed
<1> QED
  BY <1>1, <1>2, <1>3, <1>4, <1>5, <1>6 DEF Next, EngineStep, Drained

(***************************************************************************)
(* The books on the blocks are an invariant of the engine, with those on   *)
(* the requests they rest on.                                              *)
(***************************************************************************)
THEOREM BlocksHold == Spec => [](Bookkeeping /\ Agreement /\ Blocks)
<1>1. Init => Bookkeeping /\ Agreement /\ Blocks
  BY InitBookkeeping, InitAgreement, InitBlocks
<1>2. Bookkeeping /\ Agreement /\ Blocks /\ [Next]_vars
        => (Bookkeeping /\ Agreement /\ Blocks)'
  BY NextBookkeeping, NextAgreement, NextBlocks
<1> QED BY <1>1, <1>2, PTL DEF Spec

(***************************************************************************)
(* The runner's list of blocks, a copy that only ever grows by increments, *)
(* is as long as what the KV manager holds: no step, skipped or empty,     *)
(* loses an increment, and none is told twice.                             *)
(***************************************************************************)
THEOREM BlockAgreementHolds == Spec => []BlockAgreement
<1>1. Blocks => BlockAgreement
  BY DEF Blocks, CopyInv, Listed, BlockAgreement
<1> QED BY <1>1, BlocksHold, PTL

(***************************************************************************)
(* _prepare_decode writes each token into the last block of its row, which *)
(* is the block the token's position falls into.                           *)
(***************************************************************************)
THEOREM DecodeSlotHolds == Spec => []DecodeSlotInLastBlock
<1>1. Blocks => DecodeSlotInLastBlock
  BY DEF Blocks, SlotInv, DecodeSlotInLastBlock
<1> QED BY <1>1, BlocksHold, PTL
-----------------------------------------------------------------------------
\* Blocks of a request that fills the model's context but for its last token,
\* which is never fed back to the model.
ContextBlocks == BlocksFor(MaxModelLen - 1)

\* No request holds more blocks than the model's context takes.
LEMMA HeldWithinContext ==
  ASSUME Bookkeeping, Blocks, NEW r \in running
  PROVE  kv_blocks[r] <= ContextBlocks
<1>1. /\ r \in Requests /\ prompt_len[r] \in Nat /\ max_tokens[r] \in Nat
      /\ num_output[r] \in Nat /\ num_computed[r] \in Int /\ kv_blocks[r] \in Int
  BY EngineTypes
<1>2. prompt_len[r] # 0
  BY <1>1 DEF Bookkeeping, Lists, QueueInv, Unstarted
<1>3. ValidateRequest(prompt_len[r], max_tokens[r])
  BY <1>1, <1>2 DEF Blocks, LengthInv
<1>4. /\ prompt_len[r] <= BlocksFor(prompt_len[r]) * BlockSize
      /\ BlocksFor(prompt_len[r]) * BlockSize \in Int
  BY <1>1, BlocksForBounds
<1>5. prompt_len[r] + max_tokens[r] <= MaxModelLen /\ max_tokens[r] >= 1
  BY <1>1, <1>3, <1>4, LimitAssumption DEF ValidateRequest
<1>6. MaxModelLen - 1 \in Int /\ ContextBlocks \in Int
  BY LimitAssumption, BlocksForType DEF ContextBlocks
<1>7. CASE r \in Decoding
  <2>1. num_output[r] < max_tokens[r]
    BY DEF Blocks, OutputInv
  <2>2. num_computed[r] <= prompt_len[r] + num_output[r]
    BY <1>1, <1>7 DEF Blocks, ExactInv
  <2>3. num_computed[r] <= MaxModelLen - 1
    BY <1>1, <1>5, <2>1, <2>2, LimitAssumption
  <2>4. BlocksFor(num_computed[r]) <= ContextBlocks
    BY <1>1, <1>6, <2>3, BlocksForMonotonic DEF ContextBlocks
  <2> QED BY <1>1, <1>7, <2>4 DEF Blocks, HeldInv
<1>8. CASE r \in ongoing
  <2>1. prompt_len[r] <= MaxModelLen - 1
    BY <1>1, <1>5, LimitAssumption
  <2>2. BlocksFor(prompt_len[r]) <= ContextBlocks /\ BlocksFor(prompt_len[r]) \in Int
    BY <1>1, <1>6, <2>1, BlocksForMonotonic, BlocksForType DEF ContextBlocks
  <2>3. kv_blocks[r] <= BlocksFor(prompt_len[r])
    BY <1>1, <1>8 DEF Blocks, HeldInv
  <2> QED BY <1>1, <1>6, <2>2, <2>3
<1> QED BY <1>7, <1>8 DEF Decoding

\* The blocks in use are no more than those of a full batch of long requests.
LEMMA InUseBound ==
  ASSUME Bookkeeping, Blocks
  PROVE  /\ Cardinality(BlocksInUse) \in Nat
         /\ Cardinality(BlocksInUse) <= MaxNumSeqs * ContextBlocks
<1>1. /\ IsFiniteSet(running) /\ Cardinality(running) \in Nat
      /\ Cardinality(running) <= MaxNumSeqs
  BY RunningCounts DEF Bookkeeping, Lists, BatchWithinLimit
<1>2. ContextBlocks \in Nat
  <2>1. MaxModelLen - 1 \in Nat
    BY LimitAssumption
  <2> QED BY <2>1, BlocksForNat DEF ContextBlocks
<1> DEFINE places == 1 .. ContextBlocks
<1>3. IsFiniteSet(places) /\ Cardinality(places) = ContextBlocks
  BY <1>2, FS_Interval
<1>4. BlocksInUse \in SUBSET (running \X places)
  <2> SUFFICES ASSUME NEW r \in Requests, NEW i \in 1 .. kv_blocks[r]
               PROVE  r \in running /\ i \in places
    BY DEF BlocksInUse
  <2>1. kv_blocks[r] \in Int /\ kv_blocks[r] # 0
    BY EngineTypes
  <2>2. r \in running
    BY <2>1 DEF Blocks, HeldInv
  <2> QED BY <1>2, <2>1, <2>2, HeldWithinContext
<1> HIDE DEF places
<1>5. /\ IsFiniteSet(running \X places)
      /\ Cardinality(running \X places) = Cardinality(running) * ContextBlocks
  BY <1>1, <1>3, FS_Product
<1>6. Cardinality(BlocksInUse) <= Cardinality(running) * ContextBlocks
  BY <1>4, <1>5, FS_Subset
<1>7. Cardinality(running) * ContextBlocks <= MaxNumSeqs * ContextBlocks
  BY <1>1, <1>2, LimitAssumption, ProductMonotonic
<1>8. /\ Cardinality(BlocksInUse) \in Nat
      /\ Cardinality(running) * ContextBlocks \in Nat
      /\ MaxNumSeqs * ContextBlocks \in Nat
  BY <1>1, <1>2, <1>4, <1>5, FS_Subset, FS_CardinalityType, LimitAssumption
<1> QED BY <1>6, <1>7, <1>8

(***************************************************************************)
(* The KV manager never runs out of blocks, hence never preempts, when the *)
(* pool holds a full batch of requests that fill the model's context: no   *)
(* constraint of the scheduler is needed for it.                           *)
(***************************************************************************)
THEOREM PoolSufficesHolds ==
  ASSUME MaxNumSeqs * ContextBlocks + 1 <= NumBlocks
  PROVE  Spec => []PoolSuffices
<1>1. NumBlocks \in Int
  <2>1. FullBatchBlocks \in Int
    BY BlockAssumption, LimitAssumption, DivType DEF FullBatchBlocks
  <2>2. CeilDiv(FullBatchBlocks + 1, MaxNumSeqs) \in Int /\ BlocksOverride \div MaxNumSeqs \in Int
    BY <2>1, LimitAssumption, DivType DEF CeilDiv
  <2> QED BY <2>2, LimitAssumption DEF NumBlocks
<1>2. Bookkeeping /\ Agreement /\ Blocks => PoolSuffices
  <2> SUFFICES ASSUME Bookkeeping, Blocks PROVE PoolSuffices
    OBVIOUS
  <2>1. /\ Cardinality(BlocksInUse) \in Nat
        /\ Cardinality(BlocksInUse) <= MaxNumSeqs * ContextBlocks
    BY InUseBound
  <2>2. MaxNumSeqs * ContextBlocks \in Int
    BY LimitAssumption, BlocksForType DEF ContextBlocks
  <2> QED BY <1>1, <2>1, <2>2 DEF PoolSuffices
<1> QED BY <1>2, BlocksHold, PTL

(***************************************************************************)
(* The pool that get_total_spyre_blocks chooses is such a pool, provided   *)
(* that the model's context is a whole number of blocks: the method rounds *)
(* the blocks of a context down.                                           *)
(***************************************************************************)
THEOREM DefaultPoolSuffices ==
  ASSUME BlocksOverride = 0, MaxModelLen % BlockSize = 0
  PROVE  Spec => []PoolSuffices
<1> DEFINE k == MaxModelLen \div BlockSize
           full == FullBatchBlocks
<1>1. BlockSize \in Nat \ {0} /\ MaxModelLen \in Nat \ {0} /\ MaxNumSeqs \in Nat \ {0}
  BY BlockAssumption, LimitAssumption
<1>2. k \in Int /\ MaxModelLen = k * BlockSize
  BY <1>1
<1>3. full = MaxNumSeqs * k /\ full \in Int
  BY <1>1, <1>2 DEF FullBatchBlocks
<1>4. NumBlocks >= full + 1
  <2> DEFINE c == CeilDiv(full + 1, MaxNumSeqs)
  <2>1. NumBlocks = MaxNumSeqs * c
    BY DEF NumBlocks
  <2>2. full + 1 + MaxNumSeqs - 1 \in Int
    BY <1>1, <1>3
  <2>3. c \in Int /\ full + 1 + MaxNumSeqs - 1 < c * MaxNumSeqs + MaxNumSeqs
    BY <1>1, <2>2, DivType, DivBounds DEF CeilDiv
  <2> HIDE DEF c, full
  <2>4. c * MaxNumSeqs \in Int /\ MaxNumSeqs * c = c * MaxNumSeqs
    BY <1>1, <2>3
  <2> QED BY <1>1, <1>3, <2>1, <2>3, <2>4
<1> HIDE DEF k, full
<1>5. ContextBlocks <= k
  <2>1. BlocksFor(MaxModelLen - 1) <= BlocksFor(MaxModelLen)
    BY <1>1, BlocksForMonotonic
  <2>2. BlocksFor(MaxModelLen) = k
    BY <1>1, <1>2, BlocksForUnique
  <2> QED BY <2>1, <2>2 DEF ContextBlocks
<1>6. ContextBlocks \in Int
  BY <1>1, BlocksForType DEF ContextBlocks
<1>7. MaxNumSeqs * ContextBlocks <= full
  <2>1. ContextBlocks * MaxNumSeqs <= k * MaxNumSeqs
    BY <1>1, <1>2, <1>5, <1>6, ProductMonotonic
  <2>2. /\ ContextBlocks * MaxNumSeqs = MaxNumSeqs * ContextBlocks
        /\ k * MaxNumSeqs = MaxNumSeqs * k
    BY <1>1, <1>2, <1>6
  <2> QED BY <1>3, <2>1, <2>2
<1>8. NumBlocks \in Int
  <2>1. CeilDiv(full + 1, MaxNumSeqs) \in Int
    BY <1>1, <1>3, DivType, SMTT(60) DEF CeilDiv
  <2> QED BY <1>1, <2>1 DEF NumBlocks, full
<1>9. MaxNumSeqs * ContextBlocks + 1 <= NumBlocks
  BY <1>1, <1>3, <1>4, <1>6, <1>7, <1>8
<1> QED BY <1>9, PoolSufficesHolds
-----------------------------------------------------------------------------
(***************************************************************************)
(* The tkv: the length of the longest row of the batch, padding included,  *)
(* that the runner derives from its rows and the scheduler decides with.   *)
(* It covers every row for as long as the row is in the batch, and it does *)
(* not leave the model's context, rounded up to whole blocks.              *)
(*                                                                         *)
(* Admission rests on it: whether a prompt may join the batch is asked     *)
(* with a tkv of an earlier step and, without interleaving, steps before   *)
(* the prompt does join. The volume of the batch rests on admission.       *)
(***************************************************************************)
\* Slots left in the last block of n tokens.
Spare(n) == BlocksFor(n) * BlockSize - n

(***************************************************************************)
(* A row of n tokens, padded to the blocks of t tokens, ends by token t:   *)
(* padding is whole blocks, so it is the last block that tells.            *)
(***************************************************************************)
Aligned(n, t) ==
  /\ BlocksFor(n) <= BlocksFor(t)
  /\ Spare(t) <= Spare(n)

\* Tokens of r when the runner last set the tkv: a token that is scheduled but
\* not executed is not in yet.
Shown(r) ==
  IF phase = "scheduled" /\ Fed(r) THEN num_computed[r] - 1 ELSE num_computed[r]

\* The rows of the batch: a complete prefill has joined it before the scheduler
\* takes it off its list.
Joined(r) ==
  r \notin ongoing \/ (phase = "executed" /\ num_computed[r] = prompt_len[r])

(***************************************************************************)
(* TkvCoversBatch is about the tkv the scheduler holds between two steps.  *)
(* What is inductive is the same of the runner's tkv, in every phase, and  *)
(* for the whole blocks of that tkv in place of the longest row's.         *)
(***************************************************************************)
RowsInv == \A r \in running : Joined(r) => Aligned(Shown(r), runner_tkv)

\* A step that reports no tkv had no rows: an empty step is no news.
ReportInv ==
  /\ phase = "executed" /\ (\E r \in running : Joined(r)) =>
       model_output.tkv = runner_tkv
  /\ phase = "idle" /\ Decoding # {} => tkv = runner_tkv

ContextInv == runner_tkv <= BlocksFor(MaxModelLen) * BlockSize

Covered ==
  /\ RowsInv
  /\ ReportInv
  /\ ContextInv

-----------------------------------------------------------------------------
\* There is less than a block to spare.
LEMMA SpareBounds ==
  ASSUME NEW n \in Int
  PROVE  Spare(n) \in Int /\ 0 <= Spare(n) /\ Spare(n) < BlockSize
BY BlocksForBounds, BlockAssumption DEF Spare

\* b blocks with s slots to spare.
LEMMA SpareUnique ==
  ASSUME NEW b \in Int, NEW s \in Int, 0 <= s, s < BlockSize
  PROVE  /\ b * BlockSize - s \in Int
         /\ BlocksFor(b * BlockSize - s) = b
         /\ Spare(b * BlockSize - s) = s
<1> DEFINE m == b * BlockSize
<1>1. BlockSize \in Nat \ {0} /\ m \in Int
  BY BlockAssumption
<1>2. m - s \in Int /\ m - s <= m /\ m <= (m - s) + BlockSize - 1
  <2> HIDE DEF m
  <2> QED BY <1>1
<1>3. BlocksFor(m - s) = b
  BY <1>1, <1>2, BlocksForUnique
<1>4. Spare(m - s) = m - (m - s)
  BY <1>3 DEF Spare
<1>5. m - (m - s) = s
  <2> HIDE DEF m
  <2> QED BY <1>1
<1> QED BY <1>2, <1>3, <1>4, <1>5

\* The position of the last token in its block.
LEMMA LastPosition ==
  ASSUME NEW n \in Int
  PROVE  ((n - 1) % BlockSize) + 1 = BlockSize - Spare(n)
<1> DEFINE d == (n - 1) \div BlockSize
           e == (n - 1) % BlockSize
<1>1. BlockSize \in Nat \ {0}
  BY BlockAssumption
<1>2. d \in Int /\ e \in Int /\ n - 1 = d * BlockSize + e
  BY <1>1
<1>3. BlocksFor(n) = d + 1
  <2>1. BlocksFor((n - 1) + 1) = d + 1
    BY BlocksForNext
  <2> QED BY <2>1
<1> HIDE DEF d, e
<1>4. BlocksFor(n) * BlockSize = d * BlockSize + BlockSize /\ d * BlockSize \in Int
  BY <1>1, <1>2, <1>3
<1>5. e + 1 = BlockSize - (BlocksFor(n) * BlockSize - n)
  BY <1>1, <1>2, <1>4
<1> QED BY <1>5 DEF Spare, e

(***************************************************************************)
(* _maybe_prepare_last_prefill: the joint tkv covers the prompt that joins *)
(* and every row that the tkv before covered.                              *)
(***************************************************************************)
LEMMA JoinAligns ==
  ASSUME NEW p \in Int, NEW t \in Int
  PROVE  /\ JoinedTkv(p, t) \in Int
         /\ BlocksFor(JoinedTkv(p, t)) = Larger(BlocksFor(p), BlocksFor(t))
         /\ Aligned(p, JoinedTkv(p, t))
         /\ \A n \in Int : Aligned(n, t) => Aligned(n, JoinedTkv(p, t))
<1> DEFINE b == Larger(BlocksFor(p), BlocksFor(t))
           base == (b - 1) * BlockSize
           s == Smaller(Spare(p), Spare(t))
<1>1. BlockSize \in Nat \ {0}
  BY BlockAssumption
<1>2. /\ BlocksFor(p) \in Int /\ BlocksFor(t) \in Int /\ b \in Int
      /\ BlocksFor(p) <= b /\ BlocksFor(t) <= b
  BY BlocksForType DEF Larger
<1>3. /\ Spare(p) \in Int /\ 0 <= Spare(p) /\ Spare(p) < BlockSize
      /\ Spare(t) \in Int /\ 0 <= Spare(t) /\ Spare(t) < BlockSize
  BY SpareBounds
<1>4. /\ s \in Int /\ 0 <= s /\ s < BlockSize /\ s <= Spare(p) /\ s <= Spare(t)
  BY <1>3 DEF Smaller
<1>5. base \in Int /\ b * BlockSize = base + BlockSize /\ b * BlockSize \in Int
  <2> HIDE DEF b
  <2> QED BY <1>1, <1>2
<1>6. JoinedTkv(p, t) = Larger(base + ((p - 1) % BlockSize) + 1, base + ((t - 1) % BlockSize) + 1)
  BY DEF JoinedTkv
<1>7. /\ ((p - 1) % BlockSize) + 1 = BlockSize - Spare(p)
      /\ ((t - 1) % BlockSize) + 1 = BlockSize - Spare(t)
      /\ (p - 1) % BlockSize \in Int /\ (t - 1) % BlockSize \in Int
  <2>1. p - 1 \in Int /\ t - 1 \in Int
    OBVIOUS
  <2> QED BY <1>1, <2>1, LastPosition, DivType
<1> HIDE DEF base
<1>8. JoinedTkv(p, t) = base + BlockSize - s
  <2>1. base + ((p - 1) % BlockSize) + 1 = base + BlockSize - Spare(p)
    BY <1>1, <1>3, <1>5, <1>7
  <2>2. base + ((t - 1) % BlockSize) + 1 = base + BlockSize - Spare(t)
    BY <1>1, <1>3, <1>5, <1>7
  <2> QED BY <1>1, <1>3, <1>5, <1>6, <2>1, <2>2 DEF Larger, Smaller
<1>9. JoinedTkv(p, t) = b * BlockSize - s
  <2> HIDE DEF b, s
  <2> QED BY <1>1, <1>4, <1>5, <1>8
<1> HIDE DEF b, s
<1>10. /\ JoinedTkv(p, t) \in Int /\ BlocksFor(JoinedTkv(p, t)) = b
       /\ Spare(JoinedTkv(p, t)) = s
  BY <1>2, <1>4, <1>9, SpareUnique
<1>11. ASSUME NEW n \in Int, Aligned(n, t) PROVE Aligned(n, JoinedTkv(p, t))
  BY <1>2, <1>3, <1>4, <1>10, <1>11, BlocksForType, SpareBounds DEF Aligned
<1>12. Aligned(p, JoinedTkv(p, t))
  BY <1>2, <1>3, <1>4, <1>10 DEF Aligned
<1> QED BY <1>10, <1>11, <1>12 DEF b

\* The greatest value of a function on a non-empty set of requests.
LEMMA MaxOverRequests ==
  ASSUME NEW S \in SUBSET Requests, S # {}, NEW f \in [Requests -> Int]
  PROVE  /\ Max({f[r] : r \in S}) \in Int
         /\ \E m \in S : Max({f[r] : r \in S}) = f[m]
         /\ \A r \in S : f[r] <= Max({f[q] : q \in S})
<1> DEFINE T == {f[r] : r \in S}
<1>1. IsFiniteSet(S)
  BY RequestsAssumption, FS_Subset
<1>2. IsFiniteSet(T)
  BY <1>1, ImageIsFinite
<1>3. T \subseteq Int /\ T # {}
  OBVIOUS
<1>4. \A r \in S : f[r] \in T
  OBVIOUS
<1> HIDE DEF T
<1>5. Max(T) \in T /\ \A y \in T : y <= Max(T)
  BY <1>2, <1>3, MaxIsGreatest
<1>6. \E m \in S : Max(T) = f[m]
  BY <1>5 DEF T
<1> QED BY <1>3, <1>4, <1>5, <1>6 DEF T

-----------------------------------------------------------------------------
\* A decode step is of the one token that each request lacks.
LEMMA DecodedToken ==
  ASSUME Bookkeeping, Blocks, phase = "scheduled", Decodes, NEW r \in Decoding
  PROVE  /\ r \in Requests /\ r \in running /\ Fed(r)
         /\ scheduler_output.computed[r] = num_computed[r] - 1
         /\ kv_blocks[r] = BlocksFor(num_computed[r])
<1>1. r \in Requests /\ r \in running
  BY EngineTypes
<1>2. /\ scheduler_output.computed[r] + scheduler_output.tokens[r] = num_computed[r]
      /\ scheduler_output.tokens[r] > 0
  BY <1>1 DEF Decodes, Bookkeeping, Lists, ScheduledInv
<1>3. Fed(r) /\ scheduler_output.tokens[r] = 1
  BY <1>2 DEF Blocks, ExactInv, Fed
<1>4. scheduler_output.computed[r] = num_computed[r] - 1
  BY <1>1, <1>2, <1>3, EngineTypes
<1> QED BY <1>1, <1>3, <1>4 DEF Blocks, HeldInv

\* The tkv of a row that is padded to m blocks.
LEMMA RowOfState ==
  ASSUME Bookkeeping, Blocks, phase = "scheduled", Decodes, NEW r \in Decoding,
         NEW states \in [Requests -> RequestStates],
         states = Padded(UpdatedRequests, Decoding)
  PROVE  RowTkv(states[r])
           = MostBlocks(UpdatedRequests, Decoding) * BlockSize - Spare(num_computed[r])
<1> DEFINE m == MostBlocks(UpdatedRequests, Decoding)
           n == num_computed[r]
<1>1. /\ r \in Requests /\ n \in Int /\ UpdatedRequests \in [Requests -> RequestStates]
      /\ Decoding \in SUBSET Requests
  BY DecodedToken, EngineTypes, UpdatedRequestsType DEF Bookkeeping, Types
<1>2. UpdatedRequests[r] \in RequestStates /\ requests[r] \in RequestStates
      /\ scheduler_output.cached = Decoding /\ scheduler_output.new = {}
  BY <1>1, EngineTypes DEF Decodes
<1>3. /\ UpdatedRequests[r].num_computed = scheduler_output.computed[r]
      /\ UpdatedRequests[r].num_blocks = Listed(r)
  BY <1>1, <1>2 DEF UpdatedRequests, RequestStates, Listed
<1>4. /\ states[r].num_computed = UpdatedRequests[r].num_computed
      /\ states[r].padding_blocks = m - UpdatedRequests[r].num_blocks
  BY <1>1, <1>2 DEF Padded, RequestStates
<1>5. /\ states[r].num_computed = n - 1
      /\ states[r].padding_blocks = m - BlocksFor(n)
  BY <1>1, <1>3, <1>4, DecodedToken DEF Blocks, CopyInv
<1>6. m \in Int
  BY <1>1, PaddedType
<1>7. BlocksFor(n) \in Int /\ BlockSize \in Nat
  BY <1>1, BlocksForType, BlockAssumption
<1> HIDE DEF m, n
<1>8. (m - BlocksFor(n)) * BlockSize = m * BlockSize - BlocksFor(n) * BlockSize
      /\ m * BlockSize \in Int /\ BlocksFor(n) * BlockSize \in Int
  BY <1>6, <1>7
<1>9. RowTkv(states[r]) = (m - BlocksFor(n)) * BlockSize + (n - 1) + 1
  BY <1>5 DEF RowTkv, LeftPadding
<1>10. RowTkv(states[r]) = m * BlockSize - Spare(n)
  BY <1>1, <1>8, <1>9 DEF Spare
<1> QED BY <1>10 DEF m, n

\* The tkv of a decode step covers all rows, and is as long as the longest.
LEMMA DecodeAligns ==
  ASSUME Bookkeeping, Blocks, phase = "scheduled", Decodes
  PROVE  /\ runner_tkv' \in Int
         /\ BlocksFor(runner_tkv') <= ContextBlocks
         /\ \A r \in Decoding : Aligned(num_computed[r], runner_tkv')
         /\ \E r \in Decoding : BlocksFor(runner_tkv') = BlocksFor(num_computed[r])
<1> DEFINE states == Padded(UpdatedRequests, Decoding)
           m == MostBlocks(UpdatedRequests, Decoding)
<1>1. /\ Decoding \in SUBSET Requests /\ Decoding # {}
      /\ UpdatedRequests \in [Requests -> RequestStates]
      /\ \A r \in Decoding : r \in Requests /\ num_computed[r] \in Int
  BY EngineTypes, UpdatedRequestsType DEF Decodes, Bookkeeping, Types
<1>2. m \in Int /\ states \in [Requests -> RequestStates]
  BY <1>1, PaddedType
<1>3. runner_tkv' = Max({RowTkv(states[r]) : r \in Decoding})
  BY DEF Decodes, DecodeStep
<1>4. \A r \in Decoding : RowTkv(states[r]) = m * BlockSize - Spare(num_computed[r])
  BY <1>2, RowOfState
<1>5. \A r \in Decoding : UpdatedRequests[r].num_blocks = BlocksFor(num_computed[r])
  <2>1. ASSUME NEW r \in Decoding
        PROVE  UpdatedRequests[r].num_blocks = BlocksFor(num_computed[r])
    <3>1. requests[r] \in RequestStates /\ r \in Requests
          /\ scheduler_output.cached = Decoding /\ scheduler_output.new = {}
      BY <1>1, EngineTypes DEF Decodes
    <3>2. UpdatedRequests[r].num_blocks = Listed(r)
      BY <3>1 DEF UpdatedRequests, RequestStates, Listed
    <3> QED BY <3>2, DecodedToken DEF Blocks, CopyInv
  <2> QED BY <2>1
<1>6. /\ \E q \in Decoding : m = BlocksFor(num_computed[q])
      /\ \A r \in Decoding : BlocksFor(num_computed[r]) <= m
  <2> DEFINE f == [r \in Requests |-> UpdatedRequests[r].num_blocks]
  <2>1. f \in [Requests -> Int]
    BY <1>1 DEF RequestStates
  <2>2. m = Max({f[r] : r \in Decoding})
    <3>1. {f[r] : r \in Decoding} = {UpdatedRequests[r].num_blocks : r \in Decoding}
      BY <1>1
    <3> QED BY <3>1 DEF MostBlocks
  <2>3. /\ \E q \in Decoding : m = f[q]
        /\ \A r \in Decoding : f[r] <= m
    <3> HIDE DEF f, m
    <3> QED BY <1>1, <2>1, <2>2, MaxOverRequests
  <2>4. \A r \in Decoding : f[r] = BlocksFor(num_computed[r])
    BY <1>1, <1>5
  <2> QED BY <2>3, <2>4
<1>7. m <= ContextBlocks
  <2>1. PICK q \in Decoding : m = BlocksFor(num_computed[q])
    BY <1>6
  <2>2. kv_blocks[q] = BlocksFor(num_computed[q]) /\ q \in running
    BY DecodedToken
  <2> QED BY <2>1, <2>2, HeldWithinContext
<1> HIDE DEF states, m
<1>8. m * BlockSize \in Int
  BY <1>2, BlockAssumption
<1>9. /\ \E q \in Decoding : runner_tkv' = m * BlockSize - Spare(num_computed[q])
      /\ \A r \in Decoding : m * BlockSize - Spare(num_computed[r]) <= runner_tkv'
  <2> DEFINE f == [r \in Requests |-> IF r \in Decoding THEN RowTkv(states[r]) ELSE 0]
  <2>1. f \in [Requests -> Int]
    <3>1. \A r \in Decoding : RowTkv(states[r]) \in Int
      BY <1>1, <1>4, <1>8, SpareBounds
    <3> QED BY <3>1
  <2>2. {f[r] : r \in Decoding} = {RowTkv(states[r]) : r \in Decoding}
    BY <1>1
  <2>3. /\ \E q \in Decoding : runner_tkv' = f[q]
        /\ \A r \in Decoding : f[r] <= runner_tkv'
    <3> HIDE DEF f
    <3> QED BY <1>1, <1>3, <2>1, <2>2, MaxOverRequests
  <2>4. \A r \in Decoding : f[r] = m * BlockSize - Spare(num_computed[r])
    BY <1>1, <1>4
  <2> QED BY <2>3, <2>4
<1>10. PICK q \in Decoding : runner_tkv' = m * BlockSize - Spare(num_computed[q])
  BY <1>9
<1>11. /\ Spare(num_computed[q]) \in Int /\ 0 <= Spare(num_computed[q])
       /\ Spare(num_computed[q]) < BlockSize
  BY <1>1, SpareBounds
<1>12. /\ runner_tkv' \in Int /\ BlocksFor(runner_tkv') = m
       /\ Spare(runner_tkv') = Spare(num_computed[q])
  BY <1>2, <1>10, <1>11, SpareUnique
<1>13. ASSUME NEW r \in Decoding PROVE Aligned(num_computed[r], runner_tkv')
  <2>1. Spare(num_computed[r]) \in Int
    BY <1>1, SpareBounds
  <2>2. Spare(num_computed[q]) <= Spare(num_computed[r])
    BY <1>8, <1>9, <1>10, <1>11, <2>1
  <2> QED BY <1>6, <1>12, <2>2 DEF Aligned
<1> QED BY <1>6, <1>7, <1>12, <1>13

-----------------------------------------------------------------------------
\* Nothing to cover when the engine starts.
LEMMA InitCovered == Init => Covered
<1> SUFFICES ASSUME Init PROVE Covered
  OBVIOUS
<1>1. running = {} /\ phase = "idle" /\ runner_tkv = 0 /\ Decoding = {}
  BY DEF Init, SchedInit, RunnerInit, Decoding
<1>2. ContextInv
  <2>1. BlocksFor(0) <= BlocksFor(MaxModelLen) /\ BlocksFor(0) = 0
    BY LimitAssumption, BlocksForMonotonic, BlocksForNat
  <2> QED BY <1>1, <2>1, WithinBlocks, LimitAssumption, BlocksForType DEF ContextInv
<1> QED BY <1>1, <1>2 DEF Covered, RowsInv, ReportInv

\* Arrivals and aborts leave the tkv alone, and no row is added.
AddsNoRow ==
  /\ UNCHANGED <<num_computed, runner_tkv, tkv, model_output, scheduler_output, phase>>
  /\ phase # "scheduled"
  /\ running' \subseteq running /\ ongoing' = ongoing \cap running'
  /\ \A r \in running : prompt_len'[r] = prompt_len[r] /\ max_tokens'[r] = max_tokens[r]

\* Arrivals and aborts are such steps.
LEMMA ClientAddsNoRow ==
  ASSUME Bookkeeping,
         \/ \E r \in Requests, p \in PromptLens, m \in OutputLens : Arrive(r, p, m)
         \/ \E r \in Requests : Abort(r)
  PROVE  AddsNoRow
<1>1. ASSUME NEW r \in Requests, NEW p \in PromptLens, NEW m \in OutputLens,
             Arrive(r, p, m)
      PROVE  AddsNoRow
  <2>1. /\ prompt_len[r] = 0 /\ phase = "idle"
        /\ prompt_len' = [prompt_len EXCEPT ![r] = p]
        /\ max_tokens' = [max_tokens EXCEPT ![r] = m]
        /\ UNCHANGED <<num_computed, running, ongoing, runner_tkv, tkv, model_output,
                       scheduler_output, phase>>
    BY <1>1 DEF Arrive, AddRequest, runnerVars
  <2>2. r \notin running /\ running \subseteq Requests /\ ongoing \subseteq running
    BY <2>1, EngineTypes DEF Bookkeeping, Lists, QueueInv, Unstarted
  <2> QED BY <2>1, <2>2 DEF Bookkeeping, Types, SchedTypeOK, AddsNoRow
<1>2. ASSUME NEW r \in Requests, Abort(r)
      PROVE  AddsNoRow
  <2>1. /\ running' = running \ {r} /\ ongoing' = ongoing \ {r}
        /\ phase \in {"idle", "executed"}
        /\ UNCHANGED <<prompt_len, max_tokens, num_computed, runner_tkv, tkv,
                       model_output, scheduler_output, phase>>
    BY <1>2 DEF Abort, FinishRequest, Free, OngoingWithout, requestVars, runnerVars
  <2>2. ongoing \subseteq running
    BY EngineTypes
  <2> QED BY <2>1, <2>2 DEF AddsNoRow
<1> QED BY <1>1, <1>2

\* So the rows stay covered when a client acts.
LEMMA ClientCovered ==
  ASSUME Bookkeeping, Covered,
         \/ \E r \in Requests, p \in PromptLens, m \in OutputLens : Arrive(r, p, m)
         \/ \E r \in Requests : Abort(r)
  PROVE  Covered'
<1>1. AddsNoRow
  BY ClientAddsNoRow
<1>2. \A r \in running' : (Joined(r)' <=> Joined(r)) /\ Shown(r)' = Shown(r)
  BY <1>1 DEF AddsNoRow, Joined, Shown, Fed
<1>3. RowsInv'
  BY <1>1, <1>2 DEF AddsNoRow, Covered, RowsInv
<1>4. Decoding' \subseteq Decoding
  BY <1>1 DEF AddsNoRow, Decoding
<1>5. ReportInv'
  BY <1>1, <1>2, <1>4 DEF AddsNoRow, Covered, ReportInv
<1>6. ContextInv'
  BY <1>1 DEF AddsNoRow, Covered, ContextInv
<1> QED BY <1>3, <1>5, <1>6 DEF Covered

\* A token that is scheduled is not in its row yet.
LEMMA ScheduleCovered ==
  ASSUME Bookkeeping, Agreement, Blocks, Covered, Bookkeeping', Blocks', ScheduleStep
  PROVE  Covered'
<1>1. /\ phase = "idle" /\ phase' = "scheduled"
      /\ UNCHANGED <<prompt_len, num_output, runner_tkv>>
      /\ running' = running \cup scheduler_output'.new
      /\ ongoing' = ongoing \cup scheduler_output'.new
      /\ Decoding' = Decoding
  BY ScheduleMoves DEF runnerVars
<1>2. ASSUME NEW r \in running', Joined(r)'
      PROVE  Aligned(Shown(r)', runner_tkv')
  <2>1. r \in Decoding /\ r \in Decoding' /\ r \in running /\ Joined(r)
    BY <1>1, <1>2 DEF Joined, Decoding
  <2>2. r \in Requests /\ num_computed'[r] \in Int /\ num_computed[r] \in Int
        /\ prompt_len[r] \in Nat /\ num_output[r] \in Nat
    BY <2>1, EngineTypes DEF Bookkeeping, Types, SchedTypeOK
  <2>3. num_computed[r] = prompt_len[r] + num_output[r] - 1
    BY <1>1, <2>1 DEF Blocks, ExactInv, Fed
  <2>4. num_computed'[r] = prompt_len[r] + num_output[r] - (IF Fed(r)' THEN 0 ELSE 1)
    BY <1>1, <2>1 DEF Blocks, ExactInv
  <2>5. Shown(r)' = num_computed[r]
    BY <1>1, <2>2, <2>3, <2>4 DEF Shown
  <2>6. Shown(r) = num_computed[r]
    BY <1>1 DEF Shown
  <2> QED BY <1>1, <2>1, <2>5, <2>6 DEF Covered, RowsInv
<1>3. RowsInv' /\ ReportInv' /\ ContextInv'
  BY <1>1, <1>2 DEF RowsInv, ReportInv, Covered, ContextInv
<1> QED BY <1>3 DEF Covered

\* A chunk keeps the tkv, starts one in an empty batch, or joins its prompt's.
LEMMA ChunkCovered ==
  ASSUME Bookkeeping, Agreement, Blocks, Covered, NEW q \in Requests, Chunks(q),
         phase = "scheduled", phase' = "executed",
         UNCHANGED <<schedVars, scheduler_output>>
  PROVE  Covered'
<1> DEFINE p == prompt_len[q]
           t == StartFor(q)
<1>1. UNCHANGED <<prompt_len, num_computed, running, ongoing>>
  BY DEF schedVars, requestVars, queueVars
<1>2. /\ ongoing = {q} /\ q \in running /\ p \in Nat /\ num_computed[q] \in Int
      /\ num_computed[q] <= p
      /\ scheduler_output.new \cup scheduler_output.cached = {q}
  BY EngineTypes DEF Chunks, PrefillPlan, Bookkeeping, Lists, CountInv
<1>3. \A r \in Requests : scheduler_output.tokens[r] > 0 <=> r = q
  BY <1>2 DEF Bookkeeping, Lists, ScheduledInv
<1>4. RemainingBatch = Decoding
  BY DEF Agreement, BatchInv
<1>5. /\ StateFor(q).prompt_len = p
      /\ IsIncomplete(q, StateFor(q)) <=> num_computed[q] < p
  <2>1. StateFor(q).prompt_len = p
    BY ChunkState DEF Chunks
  <2>2. scheduler_output.computed[q] + scheduler_output.tokens[q] = num_computed[q]
    BY <1>2 DEF Bookkeeping, Lists, ScheduledInv
  <2> QED BY <2>1, <2>2 DEF IsIncomplete
<1>6. /\ runner_tkv' = IF num_computed[q] < p THEN t ELSE JoinedTkv(p, t)
      /\ model_output'.tkv = runner_tkv'
  BY <1>5 DEF Chunks, Prefill
<1>7. t = runner_tkv \/ (t = p /\ Decoding = {})
  BY <1>4, <1>5 DEF StartFor
<1>8. runner_tkv \in Int /\ t \in Int /\ BlocksFor(MaxModelLen) \in Int
  BY <1>2, <1>7, LimitAssumption, BlocksForType DEF Bookkeeping, Types, RunnerTypeOK
<1>9. BlocksFor(p) <= BlocksFor(MaxModelLen) /\ BlocksFor(t) <= BlocksFor(MaxModelLen)
  <2>1. p # 0
    BY <1>2 DEF Bookkeeping, Lists, QueueInv, Unstarted
  <2>2. ValidateRequest(p, max_tokens[q])
    BY <2>1 DEF Blocks, LengthInv
  <2>3. /\ p <= BlocksFor(p) * BlockSize /\ BlocksFor(p) * BlockSize \in Int
        /\ max_tokens[q] \in Nat
    BY <1>2, BlocksForBounds, EngineTypes
  <2>4. p <= MaxModelLen
    BY <1>2, <2>2, <2>3, LimitAssumption DEF ValidateRequest
  <2>5. BlocksFor(p) <= BlocksFor(MaxModelLen)
    BY <1>2, <2>4, LimitAssumption, BlocksForMonotonic
  <2>6. BlocksFor(runner_tkv) <= BlocksFor(MaxModelLen)
    BY <1>8, WithinBlocks DEF Covered, ContextInv
  <2> QED BY <1>7, <2>5, <2>6
<1>10. \A r \in Decoding :
         r \in running /\ r \in Requests /\ r # q /\ Joined(r) /\ Shown(r) = num_computed[r]
  BY <1>2, <1>3, EngineTypes DEF Decoding, Joined, Shown, Fed
<1>11. \A r \in Decoding : Aligned(num_computed[r], t)
  BY <1>7, <1>10 DEF Covered, RowsInv
<1>12. \A r \in running : Joined(r)' => r \in Decoding \/ (r = q /\ num_computed[q] = p)
  BY <1>1, <1>2 DEF Joined, Decoding
<1>13. \A r \in running : Shown(r)' = num_computed[r]
  BY <1>1 DEF Shown
<1> HIDE DEF t
<1>14. ReportInv'
  BY <1>6 DEF ReportInv
<1>15. CASE num_computed[q] < p
  <2>1. RowsInv'
    <3>1. \A r \in running : Joined(r)' => r \in Decoding
      BY <1>2, <1>12, <1>15
    <3>2. runner_tkv' = t
      BY <1>6, <1>15
    <3> QED BY <1>1, <1>11, <1>13, <3>1, <3>2 DEF RowsInv
  <2>2. ContextInv'
    BY <1>6, <1>8, <1>9, <1>15, WithinBlocks DEF ContextInv
  <2> QED BY <1>14, <2>1, <2>2 DEF Covered
<1>16. CASE num_computed[q] = p
  <2>1. /\ runner_tkv' \in Int
        /\ BlocksFor(runner_tkv') = Larger(BlocksFor(p), BlocksFor(t))
        /\ Aligned(p, runner_tkv')
        /\ \A n \in Int : Aligned(n, t) => Aligned(n, runner_tkv')
    <3>1. runner_tkv' = JoinedTkv(p, t)
      BY <1>2, <1>6, <1>16
    <3>2. p \in Int
      BY <1>2
    <3> HIDE DEF p
    <3> QED BY <1>8, <3>1, <3>2, JoinAligns
  <2>2. \A r \in Decoding : num_computed[r] \in Int
    BY <1>10, EngineTypes
  <2>3. RowsInv'
    BY <1>1, <1>11, <1>12, <1>13, <1>16, <2>1, <2>2 DEF RowsInv
  <2>4. BlocksFor(runner_tkv') <= BlocksFor(MaxModelLen)
    BY <1>9, <2>1 DEF Larger
  <2>5. ContextInv'
    BY <1>8, <2>1, <2>4, WithinBlocks DEF ContextInv
  <2> QED BY <1>14, <2>3, <2>5 DEF Covered
<1> QED BY <1>2, <1>15, <1>16

\* After a step of the runner the tkv covers the batch it leaves behind.
LEMMA ExecuteCovered ==
  ASSUME Bookkeeping, Agreement, Blocks, Covered, Agreement', ExecuteStep
  PROVE  Covered'
<1>1. /\ phase = "scheduled" /\ phase' = "executed"
      /\ UNCHANGED <<schedVars, scheduler_output>>
      /\ Idles \/ (\E q \in Requests : Chunks(q)) \/ Decodes
  BY ExecuteMoves
<1>2. /\ UNCHANGED <<prompt_len, num_computed, running, ongoing, scheduler_output>>
      /\ Decoding' = Decoding
  BY <1>1 DEF schedVars, requestVars, queueVars, Decoding
<1>3. running \subseteq Requests /\ ongoing \subseteq running
      /\ \A r \in Requests : num_computed[r] \in Int /\ prompt_len[r] \in Nat
  BY EngineTypes
<1>4. ASSUME Idles \/ Decodes, NEW r \in running, Joined(r)'
      PROVE  r \in Decoding
  <2> SUFFICES ASSUME r \in ongoing PROVE FALSE
    BY DEF Decoding
  <2>1. num_computed[r] = prompt_len[r] /\ r \in Requests
    BY <1>2, <1>3, <1>4 DEF Joined
  <2>2. PrefillOutput(r)'
    BY <1>1, <1>2 DEF Agreement, StepInv
  <2>3. scheduler_output.tokens[r] > 0
    BY <1>2, <1>3, <2>1, <2>2 DEF PrefillOutput, Parked
  <2>4. r \in scheduler_output.new \cup scheduler_output.cached
    BY <1>1, <2>1, <2>3 DEF Bookkeeping, Lists, ScheduledInv
  <2> QED BY <1>4, <2>4 DEF Idles, Decodes, Decoding
<1>5. CASE Idles
  <2>1. \A r \in running : ~Joined(r)'
    BY <1>4, <1>5 DEF Idles
  <2>2. runner_tkv' = runner_tkv
    BY <1>5 DEF Idles, EmptyStep
  <2> QED BY <1>1, <1>2, <2>1, <2>2 DEF Covered, RowsInv, ReportInv, ContextInv
<1>6. CASE \E q \in Requests : Chunks(q)
  BY <1>1, <1>6, ChunkCovered
<1>7. CASE Decodes
  <2>1. /\ runner_tkv' \in Int
        /\ BlocksFor(runner_tkv') <= ContextBlocks
        /\ \A r \in Decoding : Aligned(num_computed[r], runner_tkv')
    BY <1>1, <1>7, DecodeAligns
  <2>2. RowsInv'
    BY <1>1, <1>2, <1>4, <1>7, <2>1 DEF RowsInv, Shown
  <2>3. ReportInv'
    BY <1>1, <1>7 DEF Decodes, DecodeStep, ReportInv
  <2>4. ContextInv'
    <3>1. ContextBlocks <= BlocksFor(MaxModelLen) /\ ContextBlocks \in Int
          /\ BlocksFor(MaxModelLen) \in Int
      BY LimitAssumption, BlocksForMonotonic, BlocksForType DEF ContextBlocks
    <3>2. BlocksFor(runner_tkv') <= BlocksFor(MaxModelLen)
      BY <2>1, <3>1, BlocksForType
    <3> QED BY <2>1, <3>1, <3>2, WithinBlocks DEF ContextInv
  <2> QED BY <2>2, <2>3, <2>4 DEF Covered
<1> QED BY <1>1, <1>5, <1>6, <1>7

\* The scheduler takes over the tkv of the batch it is left with.
LEMMA UpdateCovered ==
  ASSUME Bookkeeping, Agreement, Blocks, Covered, UpdateStep
  PROVE  Covered'
<1>1. /\ num_computed' = [r \in Requests |-> ComputedAfter(r)]
      /\ ongoing' = {r \in ongoing : ComputedAfter(r) < prompt_len[r]}
      /\ tkv' = model_output.tkv
      /\ running' \subseteq running
      /\ UNCHANGED <<prompt_len, runner_tkv>>
      /\ phase = "executed" /\ phase' = "idle"
  BY DEF UpdateStep, UpdateFromOutput, Free, runnerVars
<1>2. running \subseteq Requests /\ ongoing \subseteq running
      /\ \A r \in Requests : num_computed[r] \in Int /\ prompt_len[r] \in Nat
  BY EngineTypes
<1>3. ASSUME NEW r \in running', r \notin ongoing'
      PROVE  Joined(r) /\ num_computed'[r] = num_computed[r]
  <2>1. r \in running /\ r \in Requests
    BY <1>1, <1>2
  <2>2. CASE r \in ongoing
    <3>1. PrefillOutput(r)
      BY <1>1, <2>2 DEF Agreement, StepInv
    <3>2. IF num_computed[r] = prompt_len[r]
            THEN ComputedAfter(r) = prompt_len[r]
            ELSE ComputedAfter(r) < prompt_len[r]
      BY <2>2, <3>1, ParkedStays
    <3> QED BY <1>1, <1>3, <2>1, <2>2, <3>2 DEF Joined
  <2>3. CASE r \notin ongoing
    BY <1>1, <2>1, <2>3 DEF Joined, ComputedAfter
  <2> QED BY <2>2, <2>3
<1>4. RowsInv'
  BY <1>1, <1>3 DEF Covered, RowsInv, Joined, Shown
<1>5. ReportInv'
  BY <1>1, <1>3 DEF Covered, ReportInv, Decoding
<1>6. ContextInv'
  BY <1>1 DEF Covered, ContextInv
<1> QED BY <1>4, <1>5, <1>6 DEF Covered
-----------------------------------------------------------------------------
\* Every step keeps the rows covered.
LEMMA NextCovered ==
  ASSUME Bookkeeping, Agreement, Blocks, Covered, [Next]_vars
  PROVE  Covered'
<1>1. Bookkeeping' /\ Agreement' /\ Blocks'
  BY NextBookkeeping, NextAgreement, NextBlocks
<1>2. ASSUME NEW r \in Requests, NEW p \in PromptLens, NEW m \in OutputLens,
             Arrive(r, p, m)
      PROVE  Covered'
  BY <1>2, ClientCovered
<1>3. ASSUME NEW r \in Abortable, Abort(r)
      PROVE  Covered'
  BY <1>3, ClientCovered, WorkloadAssumption
<1>4. CASE ScheduleStep
  BY <1>1, <1>4, ScheduleCovered
<1>5. CASE ExecuteStep
  BY <1>1, <1>5, ExecuteCovered
<1>6. CASE UpdateStep
  BY <1>6, UpdateCovered
<1>7. CASE UNCHANGED vars
  BY <1>7 DEF vars, schedVars, requestVars, queueVars, runnerVars, Covered, RowsInv,
    ReportInv, ContextInv, Joined, Shown, Fed, Decoding
<1> QED
  BY <1>2, <1>3, <1>4, <1>5, <1>6, <1>7 DEF Next, EngineStep, Drained

\* The rows are covered in every state.
THEOREM CoveredHolds == Spec => [](Bookkeeping /\ Agreement /\ Blocks /\ Covered)
<1>1. Init => Bookkeeping /\ Agreement /\ Blocks /\ Covered
  BY InitBookkeeping, InitAgreement, InitBlocks, InitCovered
<1>2. Bookkeeping /\ Agreement /\ Blocks /\ Covered /\ [Next]_vars
        => (Bookkeeping /\ Agreement /\ Blocks /\ Covered)'
  BY NextBookkeeping, NextAgreement, NextBlocks, NextCovered
<1> QED BY <1>1, <1>2, PTL DEF Spec

(***************************************************************************)
(* The tkv the scheduler decides with is a bound on every row, although    *)
(* rows leave, join and are padded anew, and although an empty step makes  *)
(* the scheduler forget the tkv.                                           *)
(***************************************************************************)
THEOREM TkvCoversBatchHolds == Spec => []TkvCoversBatch
<1>1. Bookkeeping /\ Agreement /\ Blocks /\ Covered => TkvCoversBatch
  <2> SUFFICES ASSUME Bookkeeping, Covered, phase = "idle", NEW r \in Decoding
               PROVE  PaddedTokens(r) <= tkv
    BY DEF TkvCoversBatch
  <2>1. /\ Decoding \in SUBSET Requests /\ Decoding # {} /\ r \in Requests
        /\ \A d \in Decoding : d \in running /\ num_computed[d] \in Int
    BY EngineTypes
  <2>2. tkv = runner_tkv /\ runner_tkv \in Int
    BY <2>1 DEF Covered, ReportInv, Bookkeeping, Types, RunnerTypeOK
  <2>3. \A d \in Decoding : Aligned(num_computed[d], runner_tkv)
    BY <2>1 DEF Covered, RowsInv, Joined, Shown, Decoding
  <2> DEFINE f == [d \in Requests |-> IF d \in Decoding THEN BlocksFor(num_computed[d]) ELSE 0]
  <2>4. f \in [Requests -> Int]
    BY <2>1, BlocksForType
  <2>5. LongestRow = Max({f[d] : d \in Decoding})
    <3>1. {f[d] : d \in Decoding} = {BlocksFor(num_computed[d]) : d \in Decoding}
      BY <2>1
    <3> QED BY <3>1 DEF LongestRow
  <2>6. LongestRow \in Int /\ \E d \in Decoding : LongestRow = f[d]
    <3> HIDE DEF f
    <3> QED BY <2>1, <2>4, <2>5, MaxOverRequests
  <2>7. LongestRow <= BlocksFor(runner_tkv)
    BY <2>1, <2>3, <2>6 DEF Aligned
  <2> DEFINE n == num_computed[r]
             b == BlocksFor(n)
             c == BlocksFor(runner_tkv)
  <2>8. /\ n \in Int /\ b \in Int /\ c \in Int
        /\ b * BlockSize \in Int /\ c * BlockSize \in Int
        /\ LongestRow * BlockSize \in Int
        /\ BlockSize \in Nat
    BY <2>1, <2>2, <2>6, BlocksForBounds, BlockAssumption
  <2>9. c * BlockSize - runner_tkv <= b * BlockSize - n
    BY <2>3 DEF Aligned, Spare
  <2>10. PaddedTokens(r) = (LongestRow - b) * BlockSize + n
    BY DEF PaddedTokens
  <2> HIDE DEF n, b, c
  <2>11. LongestRow * BlockSize <= c * BlockSize
    BY <2>6, <2>7, <2>8, ProductMonotonic DEF c
  <2>12. (LongestRow - b) * BlockSize = LongestRow * BlockSize - b * BlockSize
    BY <2>6, <2>8
  <2>13. PaddedTokens(r) <= runner_tkv
    BY <2>2, <2>8, <2>9, <2>10, <2>11, <2>12
  <2> QED BY <2>2, <2>13
<1> QED BY <1>1, CoveredHolds, PTL

(***************************************************************************)
(* The tkv of a step never leaves the model's context, provided that the   *)
(* context is a whole number of blocks: the padding of the shorter rows    *)
(* then never pushes any of them past its end.                             *)
(***************************************************************************)
THEOREM TkvWithinContextHolds ==
  ASSUME MaxModelLen % BlockSize = 0
  PROVE  Spec => []TkvWithinContext
<1>1. BlocksFor(MaxModelLen) * BlockSize = MaxModelLen
  <2> DEFINE k == MaxModelLen \div BlockSize
  <2>1. BlockSize \in Nat \ {0} /\ MaxModelLen \in Nat /\ k \in Int
        /\ MaxModelLen = k * BlockSize
    BY BlockAssumption, LimitAssumption
  <2> HIDE DEF k
  <2>2. BlocksFor(MaxModelLen) = k
    BY <2>1, BlocksForUnique
  <2> QED BY <2>1, <2>2
<1>2. Covered => TkvWithinContext
  BY <1>1 DEF Covered, ContextInv, TkvWithinContext
<1> QED BY <1>2, CoveredHolds, PTL

-----------------------------------------------------------------------------
(***************************************************************************)
(* Admission. The scheduler asks once whether a prompt may join the batch, *)
(* and acts on the answer when the prompt joins, chunks later. Without     *)
(* interleaving nothing happens to the batch in between, except that rows  *)
(* leave it, so what held for the first chunk holds for the last.          *)
(***************************************************************************)
\* Fewer rows satisfy the volumetric test if more of them do.
LEMMA LimitKept ==
  ASSUME NEW S, IsFiniteSet(S), NEW T \in SUBSET S,
         NEW f \in [S -> Int], NEW g \in [T -> Int], \A d \in T : g[d] = f[d],
         NEW end \in Int, NEW limit \in Nat, CheckBatchTkvLimit(f, end, limit)
  PROVE  CheckBatchTkvLimit(g, end, limit)
<1>1. DOMAIN f = S /\ DOMAIN g = T
  OBVIOUS
<1>2. ASSUME NEW e \in Int
      PROVE  /\ BatchLeftAt(f, e) \in Nat /\ BatchLeftAt(g, e) \in Nat
             /\ BatchLeftAt(g, e) <= BatchLeftAt(f, e)
  <2> DEFINE before == {d \in S : f[d] < e}
             after == S \ before
             less == {d \in T : g[d] < e}
             more == T \ less
  <2>1. before \in SUBSET S /\ less \in SUBSET T /\ more \subseteq after
    OBVIOUS
  <2>2. IsFiniteSet(T) /\ IsFiniteSet(before) /\ IsFiniteSet(after)
    BY <2>1, FS_Subset
  <2>3. IsFiniteSet(less)
    BY <2>1, <2>2, FS_Subset
  <2>4. BatchLeftAt(f, e) = Cardinality(S) + 1 - Cardinality(before)
        /\ BatchLeftAt(g, e) = Cardinality(T) + 1 - Cardinality(less)
    BY <1>1 DEF BatchLeftAt
  <2>5. S \cap before = before /\ T \cap less = less
    BY <2>1
  <2> HIDE DEF before, less
  <2>6. Cardinality(after) = Cardinality(S) - Cardinality(before)
    BY <2>2, <2>5, FS_Difference, ZenonT(120)
  <2>7. Cardinality(more) = Cardinality(T) - Cardinality(less)
    BY <2>2, <2>5, FS_Difference, ZenonT(60)
  <2>8. Cardinality(more) <= Cardinality(after)
    BY <2>1, <2>2, FS_Subset
  <2>9. /\ Cardinality(S) \in Nat /\ Cardinality(T) \in Nat /\ Cardinality(before) \in Nat
        /\ Cardinality(less) \in Nat /\ Cardinality(after) \in Nat
    BY <2>2, <2>3, FS_CardinalityType
  <2>10. Cardinality(more) \in Nat
    BY <2>2, FS_Difference, FS_CardinalityType
  <2> QED BY <2>4, <2>6, <2>7, <2>8, <2>9, <2>10
<1>3. ASSUME NEW e \in Int, BatchLeftAt(f, e) * e <= limit
      PROVE  BatchLeftAt(g, e) * e <= limit
  <2> DEFINE a == BatchLeftAt(g, e)
             b == BatchLeftAt(f, e)
  <2>1. a \in Nat /\ b \in Nat /\ a <= b
    BY <1>2
  <2> DEFINE x == a * e
             y == b * e
  <2>2. x \in Int /\ y \in Int /\ y <= limit
    BY <1>3, <2>1
  <2>3. ASSUME e >= 0 PROVE x <= limit
    <3>1. x <= y
      <4> HIDE DEF a, b
      <4> QED BY <2>1, <2>3, ProductMonotonic
    <3> HIDE DEF x, y
    <3> QED BY <2>2, <3>1
  <2>4. ASSUME e < 0 PROVE x <= limit
    <3> HIDE DEF a, b
    <3>1. 0 * a <= (0 - e) * a
      BY <2>1, <2>4, ProductMonotonic
    <3>2. (0 - e) * a = 0 - x /\ 0 * a = 0
      BY <2>1
    <3> HIDE DEF x
    <3> QED BY <2>2, <3>1, <3>2
  <2> QED BY <2>3, <2>4
<1> QED BY <1>1, <1>3 DEF CheckBatchTkvLimit

\* The joint tkv and where its rows end are numbers.
LEMMA JoinTypes ==
  ASSUME Types, NEW r \in Requests
  PROVE  /\ NewReqTkv(r) \in Int /\ NewReqMaxTkv(r) \in Int
         /\ \A d \in Requests : DecReqTkv(r, d) \in Int /\ DecReqMaxTkv(r, d) \in Int
<1>1. ASSUME NEW p \in Int, NEW s \in Int
      PROVE  JoinTkv(p, s) \in Int
  <2>1. tkv \in Int /\ Larger(tkv, p) \in Int
    BY LargerType DEF Types, SchedTypeOK
  <2>2. JoinBlocks(p) \in Int /\ s % BlockSize \in Int
    BY <2>1, BlockAssumption, DivType DEF JoinBlocks
  <2> QED BY <2>2, BlockAssumption DEF JoinTkv
<1>2. \A d \in Requests :
        prompt_len[d] \in Int /\ num_computed[d] \in Int /\ max_tokens[d] \in Int
  BY DEF Types, SchedTypeOK
<1>3. NewReqTkv(r) \in Int /\ \A d \in Requests : DecReqTkv(r, d) \in Int
  BY <1>1, <1>2 DEF NewReqTkv, DecReqTkv
<1> QED
  BY <1>2, <1>3 DEF NewReqMaxTkv, DecReqMaxTkv, TokensRemaining, Generated

\* A prompt that is alone in the engine, at its own tkv, satisfies them all.
AloneMayJoin ==
  \A r \in Requests :
    ValidateRequest(prompt_len[r], max_tokens[r]) /\ Decoding = {} /\ tkv = prompt_len[r]
      => SatisfiesLastChunkConstraints(r, 0)

\* The limits on the length of a request see to that.
LEMMA AloneSatisfies == Types => AloneMayJoin
<1> SUFFICES ASSUME Types, NEW r \in Requests,
                    ValidateRequest(prompt_len[r], max_tokens[r]),
                    Decoding = {}, tkv = prompt_len[r]
             PROVE  SatisfiesLastChunkConstraints(r, 0)
  BY DEF AloneMayJoin
<1> DEFINE p == prompt_len[r]
<1>1. p \in Nat /\ max_tokens[r] \in Nat /\ BlockSize \in Nat \ {0}
      /\ MaxModelLen \in Nat /\ MaxNumSeqs \in Nat \ {0}
  BY BlockAssumption, LimitAssumption DEF Types, SchedTypeOK
<1>2. NewReqTkv(r) = p
  <2>1. NewReqTkv(r) = (p \div BlockSize) * BlockSize + (p % BlockSize)
    BY <1>1 DEF NewReqTkv, JoinTkv, JoinBlocks, Larger
  <2> HIDE DEF p
  <2> QED BY <1>1, <2>1
<1>3. FitsContext(r)
  <2>1. p <= BlocksFor(p) * BlockSize /\ BlocksFor(p) * BlockSize \in Int
    BY <1>1, BlocksForBounds
  <2>2. max_tokens[r] - 1 <= MaxModelLen - p
    BY <1>1, <2>1 DEF ValidateRequest
  <2> QED BY <1>2, <2>2 DEF FitsContext
<1>4. CheckBatchTkvLimit(DecReqMaxTkvs(r), NewReqMaxTkv(r), MaxBatchTkvLimit)
  BY DEF CheckBatchTkvLimit, DecReqMaxTkvs
<1>5. Cardinality(Decoding) + 0 < MaxNumSeqs
  BY <1>1, FS_EmptySet
<1> QED BY <1>3, <1>4, <1>5 DEF SatisfiesLastChunkConstraints

\* What the constraints on r are about: rows may leave, nothing else changes.
SameRows(r) ==
  /\ tkv' = tkv
  /\ Decoding' \subseteq Decoding
  /\ \A d \in Decoding' \cup {r} :
       prompt_len'[d] = prompt_len[d] /\ max_tokens'[d] = max_tokens[d]
  /\ \A d \in Decoding' : num_computed'[d] = num_computed[d]

\* The last chunk's constraints are kept when rows leave.
LEMMA ConstraintsKept ==
  ASSUME Bookkeeping, NEW r \in Requests, SatisfiesLastChunkConstraints(r, 0), SameRows(r)
  PROVE  SatisfiesLastChunkConstraints(r, 0)'
<1>1. /\ Decoding \subseteq Requests /\ IsFiniteSet(Decoding)
      /\ Decoding' \in SUBSET Decoding
      /\ MaxNumSeqs \in Nat /\ MaxBatchTkvLimit \in Nat
  BY EngineTypes, RequestsAssumption, FS_Subset, LimitAssumption DEF SameRows
<1>2. Cardinality(Decoding') + 0 < MaxNumSeqs
  <2>1. Cardinality(Decoding') <= Cardinality(Decoding) /\ IsFiniteSet(Decoding')
    BY <1>1, FS_Subset
  <2>2. Cardinality(Decoding') \in Nat /\ Cardinality(Decoding) \in Nat
    BY <1>1, <2>1, FS_CardinalityType
  <2> QED BY <1>1, <2>1, <2>2 DEF SatisfiesLastChunkConstraints
<1>3. /\ NewReqTkv(r)' = NewReqTkv(r) /\ NewReqMaxTkv(r)' = NewReqMaxTkv(r)
      /\ \A d \in Decoding' :
           /\ DecReqTkv(r, d)' = DecReqTkv(r, d)
           /\ TokensRemaining(d)' = TokensRemaining(d)
           /\ DecReqMaxTkv(r, d)' = DecReqMaxTkv(r, d)
  BY DEF SameRows, NewReqTkv, NewReqMaxTkv, DecReqTkv, DecReqMaxTkv, JoinTkv, JoinBlocks,
    TokensRemaining, Generated
<1>4. FitsContext(r)'
  BY <1>1, <1>3 DEF SatisfiesLastChunkConstraints, FitsContext, SameRows
<1>5. CheckBatchTkvLimit(DecReqMaxTkvs(r), NewReqMaxTkv(r), MaxBatchTkvLimit)'
  <2> DEFINE f == [d \in Decoding |-> DecReqMaxTkv(r, d)]
             g == [d \in Decoding' |-> DecReqMaxTkv(r, d)']
             end == NewReqMaxTkv(r)
  <2>1. f \in [Decoding -> Int] /\ g \in [Decoding' -> Int] /\ end \in Int
    BY <1>1, <1>3, JoinTypes DEF Bookkeeping
  <2>2. \A d \in Decoding' : g[d] = f[d]
    BY <1>1, <1>3
  <2>3. CheckBatchTkvLimit(f, end, MaxBatchTkvLimit)
    BY DEF SatisfiesLastChunkConstraints, DecReqMaxTkvs
  <2>4. DecReqMaxTkvs(r)' = g /\ NewReqMaxTkv(r)' = end
    BY <1>3 DEF DecReqMaxTkvs
  <2> HIDE DEF f, g, end
  <2>5. CheckBatchTkvLimit(g, end, MaxBatchTkvLimit)
    BY <1>1, <2>1, <2>2, <2>3, LimitKept
  <2> QED BY <2>4, <2>5 DEF CheckBatchTkvLimit
<1> QED BY <1>2, <1>4, <1>5 DEF SatisfiesLastChunkConstraints

(***************************************************************************)
(* What schedule() has decided when it gives a prefill tokens.             *)
(***************************************************************************)
LEMMA ScheduleAdmits ==
  ASSUME Bookkeeping, Agreement, ScheduleStep
  PROVE  /\ \A r \in scheduler_output'.new : running # {} => SatisfiesConstraints(r, 0)
         /\ \A r \in ongoing :
              /\ scheduler_output'.tokens[r] > 0 => SatisfiesConstraints(r, 0)
              /\ ~Interleave => scheduler_output'.tokens[r] > 0
<1>1. PICK n \in 0 .. Len(waiting) :
        LET released == {waiting[i] : i \in 1 .. n}
            hits     == IF released = {} THEN {0}
                        ELSE UNION {PossibleHits(r) : r \in released}
        IN \E hit \in hits : Releases(n) /\ BaseSchedule(Visible(n), released, hit)
  BY Zenon DEF ScheduleStep, Schedule
<1> DEFINE released == {waiting[i] : i \in 1 .. n}
<1>2. PICK hit : BaseSchedule(Visible(n), released, hit)
  BY <1>1
<1>3. /\ scheduler_output'.new = released
      /\ scheduler_output'.tokens = StepTokens(Visible(n), released, hit)
  BY <1>2 DEF BaseSchedule
<1>4. Releases(n)
  BY <1>1
<1>5. /\ n = 0 \/ n = 1
      /\ n = 1 => ongoing = {}
  BY <1>4, ReleaseBound
<1>6. /\ Cardinality(running) \in Nat
      /\ running # {} => Cardinality(running) # 0
  BY RunningCounts DEF Bookkeeping
<1>7. ASSUME NEW r \in released, running # {}
      PROVE  SatisfiesConstraints(r, 0)
  <2>1. r = waiting[1] /\ 1 \in 1 .. n
    BY <1>5
  <2>2. CanSchedulePrefill(r, 1 - 1)
    BY <1>4, <2>1 DEF Releases
  <2> QED BY <1>6, <1>7, <2>2 DEF CanSchedulePrefill
<1>8. ASSUME NEW r \in ongoing
      PROVE  /\ r \in Requests /\ r \in running /\ r \notin Decoding /\ n = 0
             /\ ongoing = {r} /\ Parked(r)
             /\ scheduler_output'.tokens[r] = IF r \in Visible(n) THEN RunningTokens(r) ELSE 0
  <2>1. /\ r \in Requests /\ r \in running /\ r \notin Decoding /\ n = 0
        /\ ongoing = {r} /\ released = {}
    BY <1>5, EngineTypes DEF Decoding, Bookkeeping, Lists, PrefillInv
  <2>2. Parked(r)
    BY DEF Agreement, StepInv, ScheduleStep
  <2> QED BY <1>3, <2>1, <2>2 DEF StepTokens
<1>9. ASSUME NEW r \in ongoing, scheduler_output'.tokens[r] > 0
      PROVE  SatisfiesConstraints(r, 0)
  <2>1. r \in Visible(n)
    BY <1>8, <1>9
  <2>2. CanSchedulePrefill(r, 0)
    BY <1>8, <2>1 DEF Visible, SchedulesPrefill
  <2>3. Cardinality(running) + 0 # 0
    BY <1>6, <1>8
  <2> QED BY <2>2, <2>3 DEF CanSchedulePrefill
<1>10. ASSUME NEW r \in ongoing, ~Interleave
       PROVE  scheduler_output'.tokens[r] > 0
  <2>1. SatisfiesConstraints(r, 0)
    BY <1>8, <1>10, EngineTypes DEF SatisfiesConstraints, IsFirstChunk, Parked
  <2>2. HasSchedulingPriority(r, 0)
    BY <1>10 DEF HasSchedulingPriority
  <2>3. r \in Visible(n)
    BY <1>8, <2>1, <2>2 DEF CanSchedulePrefill, Visible, SchedulesPrefill
  <2>4. prompt_len[r] + num_output[r] - num_computed[r] > 0
    BY <1>8, EngineTypes DEF Parked
  <2> QED BY <1>8, <2>3, <2>4, ChunkSizeType DEF RunningTokens, Smaller
<1> QED BY <1>3, <1>7, <1>9, <1>10

-----------------------------------------------------------------------------
(***************************************************************************)
(* The scheduler decides with the tkv it was told, the runner starts a new *)
(* tkv with a prompt that finds no rows. Until that is reported, it is the *)
(* emptiness of the batch that says that the prompt may join.              *)
(***************************************************************************)
Fresh(r) ==
  /\ Decoding = {}
  /\ \/ phase = "scheduled" /\ scheduler_output.new = {r}
     \/ phase = "executed" /\ runner_tkv = prompt_len[r]

\* r has joined the batch, and is about to be taken off the list.
Complete(r) == phase = "executed" /\ num_computed[r] = prompt_len[r]

MayJoin(r) == tkv = runner_tkv /\ SatisfiesLastChunkConstraints(r, 0)

JoinsInv == \A r \in ongoing : ~Complete(r) => Fresh(r) \/ MayJoin(r)

\* A prompt that is not complete has its tkv reported.
ParkedReportInv ==
  phase = "executed" => \A r \in ongoing : ~Complete(r) => model_output.tkv = runner_tkv

\* A prefill that was started goes on: no step is for the others.
GoesOnInv ==
  phase = "scheduled" /\ ongoing # {} => \E q \in Requests : PrefillPlan(q)

Admitted == ~Interleave => JoinsInv /\ ParkedReportInv /\ GoesOnInv

\* Nobody has been admitted when the engine starts.
LEMMA InitAdmitted == Init => Admitted
BY DEF Init, SchedInit, Admitted, JoinsInv, ParkedReportInv, GoesOnInv

\* Clients add no rows and start no prefill.
LEMMA ClientAdmitted ==
  ASSUME Bookkeeping, Admitted,
         \/ \E r \in Requests, p \in PromptLens, m \in OutputLens : Arrive(r, p, m)
         \/ \E r \in Requests : Abort(r)
  PROVE  Admitted'
<1>1. AddsNoRow
  BY ClientAddsNoRow
<1>2. /\ Decoding' \subseteq Decoding /\ Decoding \subseteq running
      /\ ongoing' \subseteq ongoing /\ ongoing \subseteq running
      /\ running \subseteq Requests
  BY <1>1, EngineTypes DEF AddsNoRow, Decoding
<1>3. ASSUME ~Interleave, NEW r \in ongoing', ~Complete(r)'
      PROVE  /\ Fresh(r)' \/ MayJoin(r)'
             /\ phase = "executed" => model_output'.tkv = runner_tkv'
  <2>1. ~Complete(r) /\ r \in ongoing /\ r \in Requests
    BY <1>1, <1>2, <1>3 DEF AddsNoRow, Complete
  <2>2. Fresh(r) => Fresh(r)'
    BY <1>1, <1>2, <2>1 DEF AddsNoRow, Fresh
  <2>3. SameRows(r)
    BY <1>1, <1>2, <2>1 DEF AddsNoRow, SameRows
  <2>4. MayJoin(r) => MayJoin(r)'
    BY <1>1, <2>1, <2>3, ConstraintsKept DEF AddsNoRow, MayJoin
  <2> QED BY <1>1, <1>3, <2>1, <2>2, <2>4 DEF AddsNoRow, Admitted, JoinsInv, ParkedReportInv
<1> QED BY <1>1, <1>3 DEF AddsNoRow, Admitted, JoinsInv, ParkedReportInv, GoesOnInv

\* A prompt is admitted by the test, or into an engine without rows.
LEMMA ScheduleAdmitted ==
  ASSUME Bookkeeping, Agreement, Blocks, Covered, Admitted, Bookkeeping', Agreement',
         Blocks', ScheduleStep
  PROVE  Admitted'
<1> SUFFICES ASSUME ~Interleave PROVE JoinsInv' /\ ParkedReportInv' /\ GoesOnInv'
  BY DEF Admitted
<1> DEFINE so == scheduler_output'
<1>1. /\ phase = "idle" /\ phase' = "scheduled"
      /\ UNCHANGED <<prompt_len, max_tokens, num_output, tkv, runner_tkv>>
      /\ \A r \in so.new : r \in Requests /\ r \notin running /\ IsWaiting(r)
      /\ so.new # {} => ongoing = {}
      /\ running' = running \cup so.new
      /\ ongoing' = ongoing \cup so.new
      /\ Decoding' = Decoding
  BY ScheduleMoves DEF runnerVars
<1>2. /\ \A r \in so.new : running # {} => SatisfiesConstraints(r, 0)
      /\ \A r \in ongoing : so.tokens[r] > 0
  BY ScheduleAdmits
<1>3. /\ \A r \in Requests : r \in so.new \cup so.cached <=> so.tokens[r] > 0
      /\ so.new # {} => ongoing' = so.new
      /\ running \subseteq Requests /\ ongoing \subseteq running
  BY <1>1, EngineTypes DEF Bookkeeping, Lists, ScheduledInv
<1>4. GoesOnInv'
  <2> SUFFICES ASSUME ongoing' # {}, DecodePlan' PROVE FALSE
    BY <1>1 DEF GoesOnInv, Agreement, StepInv
  <2>1. so.new = {} /\ so.cached = Decoding' /\ ongoing' = ongoing
    BY <1>1 DEF DecodePlan
  <2>2. PICK q \in ongoing : so.tokens[q] > 0 /\ q \in Requests
    BY <1>2, <1>3, <2>1
  <2> QED BY <1>1, <1>3, <2>1, <2>2 DEF Decoding
<1>5. ASSUME ongoing' # {}, NEW d \in Decoding
      PROVE  num_computed'[d] = num_computed[d]
  <2>1. PICK q \in Requests : PrefillPlan(q)'
    BY <1>1, <1>4, <1>5 DEF GoesOnInv
  <2>2. d \in Requests /\ d \notin so.new \cup so.cached
    BY <1>1, <2>1, EngineTypes DEF PrefillPlan, Decoding
  <2>3. ~Fed(d)' /\ ~Fed(d)
    BY <1>1, <1>3, <2>2 DEF Fed
  <2> QED BY <1>1, <2>3 DEF Blocks, ExactInv
<1>6. ASSUME NEW r \in ongoing'
      PROVE  Fresh(r)' \/ MayJoin(r)'
  <2>1. r \in Requests
    BY <1>1, <1>3, <1>6
  <2>2. ASSUME MayJoin(r) PROVE MayJoin(r)'
    <3>1. SameRows(r)
      BY <1>1, <1>5, <1>6 DEF SameRows
    <3> QED BY <1>1, <2>1, <2>2, <3>1, ConstraintsKept DEF MayJoin
  <2>3. CASE r \in ongoing
    <3>1. MayJoin(r)
      BY <1>1, <2>3 DEF Admitted, JoinsInv, Fresh, Complete
    <3> QED BY <2>2, <3>1
  <2>4. CASE r \in so.new
    <3>1. so.new = {r} /\ ongoing = {} /\ Decoding = running
      BY <1>1, <1>3, <2>4 DEF Decoding, Bookkeeping, Lists, PrefillInv
    <3>2. CASE running = {}
      BY <1>1, <3>1, <3>2 DEF Fresh
    <3>3. CASE running # {}
      <4>1. num_computed[r] = 0
        BY <1>1, <2>1, <2>4 DEF Bookkeeping, Lists, QueueInv, Unstarted
      <4>2. SatisfiesLastChunkConstraints(r, 0)
        BY <1>2, <2>4, <3>3, <4>1 DEF SatisfiesConstraints, IsFirstChunk
      <4>3. tkv = runner_tkv
        BY <1>1, <3>1, <3>3 DEF Covered, ReportInv
      <4> QED BY <2>2, <4>2, <4>3 DEF MayJoin
    <3> QED BY <3>2, <3>3
  <2> QED BY <1>1, <1>6, <2>3, <2>4
<1> QED BY <1>1, <1>4, <1>6 DEF JoinsInv, ParkedReportInv

\* A chunk that is not the last one keeps the tkv, or starts one without rows.
LEMMA ExecuteAdmitted ==
  ASSUME Bookkeeping, Agreement, Admitted, ExecuteStep
  PROVE  Admitted'
<1> SUFFICES ASSUME ~Interleave PROVE JoinsInv' /\ ParkedReportInv' /\ GoesOnInv'
  BY DEF Admitted
<1>1. /\ phase = "scheduled" /\ phase' = "executed"
      /\ UNCHANGED <<prompt_len, max_tokens, num_computed, running, ongoing, tkv,
                     scheduler_output>>
      /\ Decoding' = Decoding
      /\ Idles \/ (\E q \in Requests : Chunks(q)) \/ Decodes
  BY ExecuteMoves DEF schedVars, requestVars, queueVars, Decoding
<1>2. ASSUME NEW r \in ongoing, ~Complete(r)'
      PROVE  /\ Fresh(r)' \/ MayJoin(r)'
             /\ model_output'.tkv = runner_tkv'
  <2>1. r \in Requests /\ prompt_len[r] \in Int /\ num_computed[r] \in Int
        /\ num_computed[r] <= prompt_len[r] /\ num_computed[r] # prompt_len[r]
    BY <1>1, <1>2, EngineTypes DEF Complete, Bookkeeping, Lists, CountInv
  <2>2. PICK p \in Requests : PrefillPlan(p)
    BY <1>1, <1>2 DEF Admitted, GoesOnInv
  <2>3. /\ ongoing = {r} /\ PrefillPlan(r)
        /\ scheduler_output.new \cup scheduler_output.cached = {r}
    BY <1>2, <2>2 DEF PrefillPlan
  <2>4. Chunks(r)
    <3>1. ~Idles
      BY <2>3 DEF Idles
    <3>2. ~Decodes
      BY <1>2, <2>3 DEF Decodes, Decoding
    <3>3. PICK q \in Requests : Chunks(q)
      BY <1>1, <3>1, <3>2
    <3> QED BY <2>3, <3>3 DEF Chunks, PrefillPlan
  <2>5. /\ StateFor(r).prompt_len = prompt_len[r]
        /\ IsIncomplete(r, StateFor(r))
    <3>1. StateFor(r).prompt_len = prompt_len[r]
      BY <1>1, <2>1, <2>3, ChunkState
    <3>2. scheduler_output.computed[r] + scheduler_output.tokens[r] = num_computed[r]
      BY <1>1, <2>3 DEF Bookkeeping, Lists, ScheduledInv
    <3> QED BY <2>1, <3>1, <3>2 DEF IsIncomplete
  <2>6. runner_tkv' = StartFor(r) /\ model_output'.tkv = runner_tkv'
    BY <2>4, <2>5 DEF Chunks, Prefill
  <2>7. RemainingBatch = Decoding
    BY <1>1 DEF Agreement, BatchInv
  <2>8. CASE r \in scheduler_output.new /\ Decoding = {}
    BY <1>1, <2>5, <2>6, <2>7, <2>8 DEF StartFor, Fresh
  <2>9. CASE ~(r \in scheduler_output.new /\ Decoding = {})
    <3>1. MayJoin(r)
      BY <1>1, <1>2, <2>9 DEF Admitted, JoinsInv, Fresh, Complete
    <3>2. SameRows(r) /\ runner_tkv' = runner_tkv
      BY <1>1, <2>6, <2>7, <2>9 DEF SameRows, StartFor
    <3> QED BY <1>1, <2>1, <2>6, <3>1, <3>2, ConstraintsKept DEF MayJoin
  <2> QED BY <2>6, <2>8, <2>9
<1> QED BY <1>1, <1>2 DEF JoinsInv, ParkedReportInv, GoesOnInv

\* The scheduler learns of the tkv a prompt has started, while rows leave.
LEMMA UpdateAdmitted ==
  ASSUME Bookkeeping, Agreement, Blocks, Admitted, Bookkeeping', UpdateStep
  PROVE  Admitted'
<1> SUFFICES ASSUME ~Interleave PROVE JoinsInv' /\ ParkedReportInv' /\ GoesOnInv'
  BY DEF Admitted
<1>1. /\ num_computed' = [r \in Requests |-> ComputedAfter(r)]
      /\ ongoing' = {r \in ongoing : ComputedAfter(r) < prompt_len[r]}
      /\ tkv' = model_output.tkv
      /\ running' \subseteq running
      /\ UNCHANGED <<prompt_len, max_tokens, runner_tkv>>
      /\ phase = "executed" /\ phase' = "idle"
  BY DEF UpdateStep, UpdateFromOutput, Free, runnerVars
<1>2. ASSUME NEW r \in ongoing'
      PROVE  MayJoin(r)'
  <2>1. r \in ongoing /\ r \in Requests /\ ongoing = {r} /\ ongoing' = {r}
        /\ ComputedAfter(r) < prompt_len[r]
    BY <1>1, <1>2, EngineTypes DEF Bookkeeping, Lists, PrefillInv
  <2>2. PrefillOutput(r)
    BY <1>1, <2>1 DEF Agreement, StepInv
  <2>3. ~Complete(r)
    BY <2>1, <2>2, ParkedStays, EngineTypes DEF Complete
  <2>4. /\ Fresh(r) \/ MayJoin(r)
        /\ tkv' = runner_tkv'
    BY <1>1, <2>1, <2>3 DEF Admitted, JoinsInv, ParkedReportInv
  <2>5. Decoding' \subseteq Decoding
    BY <1>1, <2>1 DEF Decoding
  <2>6. CASE Fresh(r)
    <3>1. Types' /\ Decoding' = {} /\ tkv' = prompt_len'[r]
      BY <1>1, <2>4, <2>5, <2>6 DEF Fresh, Bookkeeping
    <3>2. ValidateRequest(prompt_len'[r], max_tokens'[r])
      <4>1. prompt_len[r] # 0
        BY <2>1, EngineTypes DEF Bookkeeping, Lists, QueueInv, Unstarted
      <4> QED BY <1>1, <2>1, <4>1 DEF Blocks, LengthInv
    <3>3. AloneMayJoin'
      BY <3>1, AloneSatisfies, PTL
    <3>4. SatisfiesLastChunkConstraints(r, 0)'
      BY <2>1, <3>1, <3>2, <3>3 DEF AloneMayJoin
    <3> QED BY <2>4, <3>4 DEF MayJoin
  <2>7. CASE MayJoin(r)
    <3>1. \A d \in Decoding' : num_computed'[d] = num_computed[d]
      BY <1>1, <2>5, EngineTypes DEF Decoding, ComputedAfter
    <3>2. SameRows(r)
      BY <1>1, <2>4, <2>5, <2>7, <3>1 DEF SameRows, MayJoin
    <3> QED BY <2>1, <2>4, <2>7, <3>2, ConstraintsKept DEF MayJoin
  <2> QED BY <2>4, <2>6, <2>7
<1> QED BY <1>1, <1>2 DEF JoinsInv, ParkedReportInv, GoesOnInv
-----------------------------------------------------------------------------
\* Every step leaves the prompt under way admitted.
LEMMA NextAdmitted ==
  ASSUME Bookkeeping, Agreement, Blocks, Covered, Admitted, [Next]_vars
  PROVE  Admitted'
<1>1. Bookkeeping' /\ Agreement' /\ Blocks'
  BY NextBookkeeping, NextAgreement, NextBlocks
<1>2. ASSUME NEW r \in Requests, NEW p \in PromptLens, NEW m \in OutputLens,
             Arrive(r, p, m)
      PROVE  Admitted'
  BY <1>2, ClientAdmitted
<1>3. ASSUME NEW r \in Abortable, Abort(r)
      PROVE  Admitted'
  BY <1>3, ClientAdmitted, WorkloadAssumption
<1>4. CASE ScheduleStep
  BY <1>1, <1>4, ScheduleAdmitted
<1>5. CASE ExecuteStep
  BY <1>5, ExecuteAdmitted
<1>6. CASE UpdateStep
  BY <1>1, <1>6, UpdateAdmitted
<1>7. CASE UNCHANGED vars
  <2>1. /\ UNCHANGED <<phase, tkv, runner_tkv, prompt_len, max_tokens, num_computed,
                       num_output, running, ongoing, scheduler_output, model_output>>
        /\ Decoding' = Decoding
    BY <1>7 DEF vars, schedVars, requestVars, queueVars, runnerVars, Decoding
  <2>2. \A r \in ongoing : SameRows(r) /\ r \in Requests
    BY <2>1, EngineTypes DEF SameRows
  <2>3. \A r \in ongoing : MayJoin(r) => MayJoin(r)'
    BY <2>1, <2>2, ConstraintsKept DEF MayJoin
  <2> QED BY <2>1, <2>3 DEF Admitted, JoinsInv, ParkedReportInv, GoesOnInv, PrefillPlan,
            Fresh, Complete, Lacks
<1> QED
  BY <1>2, <1>3, <1>4, <1>5, <1>6, <1>7 DEF Next, EngineStep, Drained

\* The prompt under way stays admitted in every state.
THEOREM AdmittedHolds ==
  Spec => [](Bookkeeping /\ Agreement /\ Blocks /\ Covered /\ Admitted)
<1> DEFINE I == Bookkeeping /\ Agreement /\ Blocks /\ Covered /\ Admitted
<1>1. Init => I
  BY InitBookkeeping, InitAgreement, InitBlocks, InitCovered, InitAdmitted
<1>2. I /\ [Next]_vars => I'
  BY NextBookkeeping, NextAgreement, NextBlocks, NextCovered, NextAdmitted
<1> QED BY <1>1, <1>2, PTL DEF Spec

(***************************************************************************)
(* Without interleaving no step is empty while a request runs: what keeps  *)
(* the others waiting is always a chunk that is computed.                  *)
(***************************************************************************)
THEOREM NoEmptyStepHolds ==
  ASSUME ~Interleave
  PROVE  Spec => []NoEmptyStep
<1>1. Bookkeeping /\ Agreement /\ Admitted => NoEmptyStep
  <2> SUFFICES ASSUME Bookkeeping, Agreement, Admitted, phase = "scheduled", running # {}
               PROVE  HasTokens
    BY DEF NoEmptyStep
  <2>1. CASE \E q \in Requests : PrefillPlan(q)
    BY <2>1, PlannedPrefill
  <2>2. CASE ~ \E q \in Requests : PrefillPlan(q)
    <3>1. ongoing = {}
      BY <2>2 DEF Admitted, GoesOnInv
    <3>2. scheduler_output.cached = running
      BY <2>2, <3>1 DEF Agreement, StepInv, DecodePlan, Decoding
    <3>3. PICK d \in running : d \in Requests /\ scheduler_output.tokens[d] > 0
      BY <3>2, EngineTypes DEF Bookkeeping, Lists, ScheduledInv
    <3> QED BY <3>3 DEF HasTokens
  <2> QED BY <2>1, <2>2
<1> QED BY <1>1, AdmittedHolds, PTL

\* The chunk that completes a prompt is one that the constraints were asked for.
LEMMA LastChunkAdmitted ==
  ASSUME ~Interleave \/ ~PrefixCaching,
         Bookkeeping, Agreement, Blocks, Admitted, Bookkeeping', Agreement',
         ScheduleStep, running # {}, NEW r \in Requests,
         scheduler_output'.tokens[r] > 0, scheduler_output'.computed[r] < prompt_len[r],
         num_computed'[r] >= prompt_len[r]
  PROVE  SatisfiesLastChunkConstraints(r, 0)
<1> DEFINE so == scheduler_output'
<1>1. /\ phase = "idle" /\ phase' = "scheduled" /\ prompt_len' = prompt_len
      /\ \A q \in so.new : q \in Requests /\ q \notin running /\ IsWaiting(q)
      /\ ongoing' = ongoing \cup so.new
      /\ \A q \in Requests \ so.new : num_computed'[q] = num_computed[q] + so.tokens[q]
  BY ScheduleMoves
<1>2. /\ num_computed[r] \in Int /\ prompt_len[r] \in Int /\ num_computed'[r] \in Int
      /\ so.computed[r] \in Int /\ so.tokens[r] \in Int
  BY DEF Bookkeeping, Types, SchedTypeOK, OutputsTypeOK, SchedulerOutputs
<1>3. /\ r \in so.new \cup so.cached
      /\ so.computed[r] + so.tokens[r] = num_computed'[r]
      /\ r \in ongoing'
  <2>1. ScheduledInv'
    BY DEF Bookkeeping, Lists
  <2>2. r \in so.new \cup so.cached
    BY <1>1, <2>1 DEF ScheduledInv
  <2>3. so.computed[r] + so.tokens[r] = num_computed'[r]
    BY <1>1, <2>1, <2>2 DEF ScheduledInv
  <2>4. ~(so.computed[r] >= prompt_len'[r])
    BY <1>1, <1>2
  <2>5. r \in ongoing'
    BY <1>1, <2>1, <2>2, <2>4 DEF ScheduledInv
  <2> QED BY <2>2, <2>3, <2>5
<1>4. SatisfiesConstraints(r, 0)
  BY <1>1, <1>3, ScheduleAdmits
<1>5. r \in so.new => num_computed[r] = 0
  BY <1>1 DEF Bookkeeping, Lists, QueueInv, Unstarted
<1>6. CASE ~Interleave
  <2>1. CASE r \in so.new
    BY <1>4, <1>5, <1>6, <2>1 DEF SatisfiesConstraints, IsFirstChunk
  <2>2. CASE r \notin so.new
    BY <1>1, <1>3, <1>6, <2>2 DEF Admitted, JoinsInv, Fresh, Complete, MayJoin
  <2> QED BY <2>1, <2>2
<1>7. CASE Interleave /\ ~PrefixCaching
  <2>1. PrefillPlan(r)'
    <3>1. ~DecodePlan'
      BY <1>1, <1>3 DEF DecodePlan, Decoding
    <3>2. PICK q \in Requests : PrefillPlan(q)'
      BY <1>1, <3>1 DEF Agreement, StepInv
    <3> QED BY <1>3, <3>2 DEF PrefillPlan
  <2>2. so.computed[r] = num_computed[r]
    <3>1. CASE r \in so.new
      <4>1. PICK h \in Nat : so.computed[r] = h * BlockSize /\ 1 .. h \subseteq cached
        BY <3>1, ScheduleStarts
      <4>2. cached = {}
        BY <1>7 DEF Blocks, CacheInv
      <4>3. h = 0
        BY <4>1, <4>2
      <4> QED BY <1>5, <3>1, <4>1, <4>3, BlockAssumption
    <3>2. CASE r \notin so.new
      BY <1>1, <1>3, <1>2, <3>2
    <3> QED BY <3>1, <3>2
  <2>3. so.tokens[r] = Smaller(prompt_len[r] - so.computed[r], ChunkSize)
    BY <1>1, <2>1 DEF PrefillPlan
  <2>4. IsLastChunk(r)
    BY <1>3, <1>2, <2>2, <2>3, ChunkSizeType DEF IsLastChunk, Smaller
  <2> QED BY <1>4, <1>7, <2>4 DEF SatisfiesConstraints
<1> QED BY <1>6, <1>7

(***************************************************************************)
(* A prompt joins the rows of the batch only if the constraints on all of  *)
(* them hold when its last chunk is scheduled. Without interleaving they   *)
(* were asked for with its first chunk, steps before; without the prefix   *)
(* cache a chunk is the last one exactly if it looks like it.              *)
(***************************************************************************)
THEOREM LastChunkConstrainedHolds ==
  ASSUME ~Interleave \/ ~PrefixCaching
  PROVE  Spec => LastChunkConstrained
<1> DEFINE I == Bookkeeping /\ Agreement /\ Blocks /\ Covered /\ Admitted
<1>1. ASSUME I, I', [Next]_vars
      PROVE  [ScheduleStep /\ running # {} =>
                \A r \in Requests :
                  /\ scheduler_output'.tokens[r] > 0
                  /\ scheduler_output'.computed[r] < prompt_len[r]
                  /\ num_computed'[r] >= prompt_len[r]
                  => SatisfiesLastChunkConstraints(r, 0)]_vars
  BY <1>1, LastChunkAdmitted
<1>2. Spec => []I
  BY AdmittedHolds
<1> QED BY <1>1, <1>2, PTL DEF Spec, LastChunkConstrained

-----------------------------------------------------------------------------
(***************************************************************************)
(* The volume of the batch. The slack is no invariant by itself: what the  *)
(* test promises is about the ends of the rows, steps ahead, and about the *)
(* batch that is left then. So the invariant is about every set of rows:   *)
(* when some row of the set ends, the set is within the limit, up to a     *)
(* block for each row. A decode step adds a token to every row and takes   *)
(* one from what remains of each, so that the sums stay; rows that leave   *)
(* leave fewer sets; and a prompt joins after the test.                    *)
(***************************************************************************)
\* The rows of the batch, and the complete prompt that is to be one.
Rows == {r \in running : num_computed[r] >= prompt_len[r]}

\* The tokens of row a when row d has generated its last one, less a block.
Extent(a, d) == num_computed[a] + TokensRemaining(d) - BlockSize

\* Rows that end within the limit, whichever of them is the longest.
Room(S) ==
  \A a \in S : \E d \in S : Cardinality(S) * Extent(a, d) <= MaxBatchTkvLimit

RoomInv == \A S \in SUBSET Rows : Room(S)

Bounded == RoomInv /\ VolumeWithinSlack

\* A smaller factor keeps a product within a limit.
LEMMA SmallerVolume ==
  ASSUME NEW n \in Nat, NEW k \in Int, n <= k, NEW x \in Int, NEW y \in Int, x <= y,
         NEW limit \in Nat, k * y <= limit
  PROVE  n * x <= limit
<1>1. k \in Nat
  OBVIOUS
<1>2. n * x \in Int /\ n * y \in Int /\ k * y \in Int
  BY <1>1
<1>3. x * n <= y * n
  BY ProductMonotonic
<1>4. CASE y >= 0
  <2>1. n * y <= k * y
    BY <1>1, <1>4, ProductMonotonic
  <2>2. x * n = n * x /\ y * n = n * y
    OBVIOUS
  <2> QED BY <1>2, <1>3, <2>1, <2>2
<1>5. CASE ~(y >= 0)
  <2>1. 0 * n <= (0 - y) * n
    BY <1>5, ProductMonotonic
  <2>2. 0 * n = 0 /\ (0 - y) * n = 0 - n * y /\ x * n = n * x /\ y * n = n * y
    OBVIOUS
  <2> QED BY <1>2, <1>3, <2>1, <2>2
<1> QED BY <1>4, <1>5

\* The least value of a function on a non-empty set of requests.
LEMMA LeastOverRequests ==
  ASSUME NEW S \in SUBSET Requests, S # {}, NEW f \in [Requests -> Int]
  PROVE  \E m \in S : \A r \in S : f[m] <= f[r]
<1> DEFINE g == [r \in Requests |-> 0 - f[r]]
<1>1. g \in [Requests -> Int] /\ \A r \in S : g[r] = 0 - f[r] /\ f[r] \in Int
  OBVIOUS
<1> HIDE DEF g
<1>2. PICK m \in S : Max({g[r] : r \in S}) = g[m]
  BY <1>1, MaxOverRequests
<1>3. \A r \in S : g[r] <= g[m]
  BY <1>1, <1>2, MaxOverRequests
<1> QED BY <1>1, <1>3

\* Rows that are not gone at `end` are part of the batch left at it.
LEMMA BatchLeft ==
  ASSUME NEW D \in SUBSET Requests, NEW T \in SUBSET D, NEW f \in [D -> Int],
         NEW end \in Int, \A d \in T : end <= f[d]
  PROVE  /\ BatchLeftAt(f, end) \in Int /\ Cardinality(T) \in Nat
         /\ Cardinality(T) + 1 <= BatchLeftAt(f, end)
<1> DEFINE before == {d \in D : f[d] < end}
           after == D \ before
<1>1. before \in SUBSET D /\ after \in SUBSET D /\ D \cap before = before
  OBVIOUS
<1>2. T \in SUBSET after
  OBVIOUS
<1>3. IsFiniteSet(D) /\ IsFiniteSet(before) /\ IsFiniteSet(after) /\ IsFiniteSet(T)
  BY <1>1, RequestsAssumption, FS_Subset
<1>4. BatchLeftAt(f, end) = Cardinality(D) + 1 - Cardinality(before)
  <2>1. DOMAIN f = D
    OBVIOUS
  <2> QED BY <2>1 DEF BatchLeftAt
<1> HIDE DEF before
<1>5. Cardinality(after) = Cardinality(D) - Cardinality(before)
  BY <1>1, <1>3, FS_Difference, ZenonT(60)
<1>6. Cardinality(T) <= Cardinality(after)
  BY <1>2, <1>3, FS_Subset
<1>7. /\ Cardinality(D) \in Nat /\ Cardinality(before) \in Nat
      /\ Cardinality(after) \in Nat /\ Cardinality(T) \in Nat
  BY <1>3, FS_CardinalityType
<1> QED BY <1>4, <1>5, <1>6, <1>7

(***************************************************************************)
(* The volumetric test, from the first to end of some rows and the one     *)
(* that joins: one of them is charged with all of them at its end.         *)
(***************************************************************************)
LEMMA FirstIsCharged ==
  ASSUME NEW D \in SUBSET Requests, NEW T \in SUBSET D, T # {}, NEW f \in [D -> Int],
         NEW end \in Int, CheckBatchTkvLimit(f, end, MaxBatchTkvLimit)
  PROVE  \/ (Cardinality(T) + 1) * end <= MaxBatchTkvLimit
         \/ \E d \in T : (Cardinality(T) + 1) * f[d] <= MaxBatchTkvLimit
<1> DEFINE g == [r \in Requests |-> IF r \in D THEN f[r] ELSE 0]
<1>1. g \in [Requests -> Int] /\ \A d \in T : g[d] = f[d] /\ f[d] \in Int /\ d \in D
  OBVIOUS
<1> HIDE DEF g
<1>2. T \in SUBSET Requests
  OBVIOUS
<1>3. PICK m \in T : \A d \in T : g[m] <= g[d]
  BY <1>1, <1>2, LeastOverRequests
<1>4. f[m] \in Int /\ \A d \in T : f[m] <= f[d]
  BY <1>1, <1>3
<1>5. MaxBatchTkvLimit \in Nat /\ DOMAIN f = D
  BY LimitAssumption
<1>6. CASE f[m] < end
  <2>1. BatchLeftAt(f, f[m]) * f[m] <= MaxBatchTkvLimit
    BY <1>1, <1>5, <1>6 DEF CheckBatchTkvLimit
  <2>2. /\ BatchLeftAt(f, f[m]) \in Int /\ Cardinality(T) \in Nat
        /\ Cardinality(T) + 1 <= BatchLeftAt(f, f[m])
    BY <1>4, BatchLeft
  <2> DEFINE k == BatchLeftAt(f, f[m])
             n == Cardinality(T) + 1
  <2>3. k \in Int /\ n \in Nat /\ n <= k /\ k * f[m] <= MaxBatchTkvLimit
    BY <2>1, <2>2
  <2> HIDE DEF k, n
  <2>4. n * f[m] <= MaxBatchTkvLimit
    BY <1>4, <1>5, <2>3, SmallerVolume
  <2> QED BY <2>4 DEF n
<1>7. CASE ~(f[m] < end)
  <2>1. \A d \in T : end <= f[d]
    BY <1>1, <1>4, <1>7
  <2>2. BatchLeftAt(f, end) * end <= MaxBatchTkvLimit
    BY <1>1, <1>5, <2>1 DEF CheckBatchTkvLimit
  <2>3. /\ BatchLeftAt(f, end) \in Int /\ Cardinality(T) \in Nat
        /\ Cardinality(T) + 1 <= BatchLeftAt(f, end)
    BY <2>1, BatchLeft
  <2> DEFINE k == BatchLeftAt(f, end)
             n == Cardinality(T) + 1
  <2>4. k \in Int /\ n \in Nat /\ n <= k /\ k * end <= MaxBatchTkvLimit
    BY <2>2, <2>3
  <2> HIDE DEF k, n
  <2>5. n * end <= MaxBatchTkvLimit
    BY <1>5, <2>4, SmallerVolume
  <2> QED BY <2>5 DEF n
<1> QED BY <1>6, <1>7

\* A row that is covered by a tkv is no longer than it.
LEMMA AlignedWithin ==
  ASSUME NEW n \in Int, NEW t \in Int, Aligned(n, t)
  PROVE  n <= t
<1> DEFINE b == BlocksFor(n)
           c == BlocksFor(t)
<1>1. /\ b \in Int /\ c \in Int /\ b <= c /\ BlockSize \in Nat
      /\ b * BlockSize \in Int /\ c * BlockSize \in Int
  BY BlocksForBounds, BlockAssumption DEF Aligned
<1>2. c * BlockSize - t <= b * BlockSize - n
  BY DEF Aligned, Spare
<1> HIDE DEF b, c
<1>3. b * BlockSize <= c * BlockSize
  BY <1>1, ProductMonotonic
<1> QED BY <1>1, <1>2, <1>3

\* The joint tkv rounds down to blocks: it is less than one below any row.
LEMMA JoinCovers ==
  ASSUME Types, NEW p \in Int, NEW s \in Int, NEW c \in Int, c <= Larger(tkv, p)
  PROVE  JoinTkv(p, s) \in Int /\ c - BlockSize + 1 <= JoinTkv(p, s)
<1> DEFINE t == Larger(tkv, p)
           b == t \div BlockSize
<1>1. tkv \in Int /\ t \in Int /\ BlockSize \in Nat \ {0} /\ b \in Int
  BY LargerType, BlockAssumption, DivType DEF Types, SchedTypeOK
<1>2. b * BlockSize <= t /\ t < b * BlockSize + BlockSize /\ b * BlockSize \in Int
  <2>1. b * BlockSize <= t /\ t < b * BlockSize + BlockSize
    <3> HIDE DEF t
    <3> QED BY <1>1, DivBounds
  <2>2. b * BlockSize \in Int
    <3> HIDE DEF b
    <3> QED BY <1>1
  <2> QED BY <2>1, <2>2
<1>3. s % BlockSize \in Int /\ 0 <= s % BlockSize
  BY <1>1
<1>4. JoinTkv(p, s) = b * BlockSize + (s % BlockSize)
  BY DEF JoinTkv, JoinBlocks
<1> HIDE DEF b
<1> QED BY <1>1, <1>2, <1>3, <1>4

\* A prompt that passes the test leaves room for every set of rows it joins.
LEMMA JoinRoom ==
  ASSUME Bookkeeping, Covered, phase = "idle", NEW r \in Requests, r \notin Decoding,
         SatisfiesLastChunkConstraints(r, 0), UNCHANGED <<prompt_len, max_tokens>>,
         num_computed'[r] = prompt_len[r],
         \A d \in Decoding : num_computed'[d] = num_computed[d],
         NEW T \in SUBSET Decoding, T # {}
  PROVE  Room(T \cup {r})'
<1> DEFINE S == T \cup {r}
           p == prompt_len[r]
<1>1. /\ Decoding \in SUBSET Requests /\ Types /\ BlockSize \in Nat /\ p \in Int
      /\ \A d \in Requests :
           /\ prompt_len[d] \in Int /\ max_tokens[d] \in Int /\ num_computed[d] \in Int
  BY EngineTypes, BlockAssumption DEF Bookkeeping
<1>2. \A a \in S : num_computed'[a] \in Int /\ num_computed'[a] <= Larger(tkv, p)
  <2>1. tkv \in Int
    BY <1>1 DEF Types, SchedTypeOK
  <2>2. ASSUME NEW a \in T PROVE num_computed[a] <= tkv
    <3>1. a \in Decoding /\ a \in running /\ a \notin ongoing
      BY DEF Decoding
    <3>2. tkv = runner_tkv
      BY <3>1 DEF Covered, ReportInv
    <3>3. Aligned(num_computed[a], tkv)
      BY <3>1, <3>2 DEF Covered, RowsInv, Joined, Shown
    <3> QED BY <1>1, <2>1, <3>1, <3>3, AlignedWithin
  <2>3. ASSUME NEW a \in S PROVE num_computed'[a] \in Int /\ num_computed'[a] <= Larger(tkv, p)
    <3>1. CASE a = r
      BY <1>1, <2>1, <3>1 DEF Larger
    <3>2. CASE a \in T
      <4>1. num_computed'[a] = num_computed[a] /\ num_computed[a] \in Int
        BY <1>1, <3>2
      <4> QED BY <1>1, <2>1, <2>2, <3>2, <4>1 DEF Larger
    <3> QED BY <3>1, <3>2
  <2> QED BY <2>3
<1>3. Cardinality(S) = Cardinality(T) + 1 /\ Cardinality(S) \in Nat
  <2>1. IsFiniteSet(T) /\ r \notin T
    BY <1>1, RequestsAssumption, FS_Subset
  <2> QED BY <2>1, FS_AddElement, FS_CardinalityType
<1> DEFINE End(d) == JoinTkv(p, num_computed'[d]) + TokensRemaining(d)' - 1
<1>4. \A d \in S : TokensRemaining(d)' \in Int /\ End(d) \in Int
  <2> TAKE d \in S
  <2>1. TokensRemaining(d)' \in Int
    BY <1>1, <1>2 DEF TokensRemaining, Generated
  <2> QED BY <1>1, <1>2, <2>1, JoinCovers
<1>5. PICK d \in S : Cardinality(S) * End(d) <= MaxBatchTkvLimit
  <2> DEFINE f == DecReqMaxTkvs(r)
             end == NewReqMaxTkv(r)
  <2>1. /\ f \in [Decoding -> Int] /\ end \in Int
        /\ CheckBatchTkvLimit(f, end, MaxBatchTkvLimit)
    BY <1>1, JoinTypes DEF DecReqMaxTkvs, SatisfiesLastChunkConstraints
  <2>2. end = End(r)
    BY <1>1 DEF NewReqMaxTkv, NewReqTkv, TokensRemaining, Generated
  <2>3. \A d \in T : f[d] = End(d)
    BY <1>1 DEF DecReqMaxTkvs, DecReqMaxTkv, DecReqTkv, TokensRemaining, Generated
  <2> HIDE DEF f, end, End
  <2>4. \/ (Cardinality(T) + 1) * end <= MaxBatchTkvLimit
        \/ \E d \in T : (Cardinality(T) + 1) * f[d] <= MaxBatchTkvLimit
    BY <1>1, <2>1, FirstIsCharged
  <2> QED BY <1>3, <2>2, <2>3, <2>4
<1>6. ASSUME NEW a \in S
      PROVE  Cardinality(S) * Extent(a, d)' <= MaxBatchTkvLimit
  <2>1. num_computed'[a] - BlockSize + 1 <= JoinTkv(p, num_computed'[d])
        /\ JoinTkv(p, num_computed'[d]) \in Int
    BY <1>1, <1>2, JoinCovers
  <2>2. Extent(a, d)' = num_computed'[a] + TokensRemaining(d)' - BlockSize
    BY DEF Extent
  <2>3. Extent(a, d)' \in Int /\ Extent(a, d)' <= End(d)
    BY <1>1, <1>2, <1>4, <2>1, <2>2
  <2> HIDE DEF End, S
  <2>4. MaxBatchTkvLimit \in Nat /\ Cardinality(S) <= Cardinality(S) /\ End(d) \in Int
    BY <1>3, <1>4, LimitAssumption
  <2> QED BY <1>3, <1>5, <2>3, <2>4, SmallerVolume
<1> QED BY <1>6 DEF Room

-----------------------------------------------------------------------------
\* No rows, and nothing has been run.
LEMMA InitBounded == Init => Bounded
<1> SUFFICES ASSUME Init PROVE Bounded
  OBVIOUS
<1>1. running = {} /\ model_input.kind = "none"
  BY DEF Init, SchedInit, RunnerInit, NoInput
<1>2. \A S \in SUBSET Rows : Room(S)
  BY <1>1 DEF Rows, Room
<1> QED BY <1>1, <1>2 DEF Bounded, RoomInv, VolumeWithinSlack

\* Rows leave, the others stay as they are.
FewerRows ==
  /\ Rows' \subseteq Rows
  /\ \A r \in Rows' :
       /\ num_computed'[r] = num_computed[r]
       /\ prompt_len'[r] = prompt_len[r] /\ max_tokens'[r] = max_tokens[r]

\* What is left of a batch with room has it too.
LEMMA FewerHaveRoom ==
  ASSUME RoomInv, FewerRows
  PROVE  RoomInv'
<1> SUFFICES ASSUME NEW S \in SUBSET Rows', NEW a \in S
             PROVE  \E d \in S : Cardinality(S) * Extent(a, d)' <= MaxBatchTkvLimit
  BY DEF RoomInv, Room
<1>1. S \in SUBSET Rows
  BY DEF FewerRows
<1>2. PICK d \in S : Cardinality(S) * Extent(a, d) <= MaxBatchTkvLimit
  BY <1>1 DEF RoomInv, Room
<1>3. Extent(a, d)' = Extent(a, d)
  BY DEF FewerRows, Extent, TokensRemaining, Generated
<1> QED BY <1>2, <1>3

\* A client adds no row, and does not touch the runner.
LEMMA ClientBounded ==
  ASSUME Bookkeeping, Bounded,
         \/ \E r \in Requests, p \in PromptLens, m \in OutputLens : Arrive(r, p, m)
         \/ \E r \in Requests : Abort(r)
  PROVE  Bounded'
<1>1. AddsNoRow
  BY ClientAddsNoRow
<1>2. FewerRows
  BY <1>1 DEF AddsNoRow, FewerRows, Rows
<1>3. UNCHANGED <<model_input, runner_tkv>>
  BY DEF Arrive, Abort, runnerVars
<1>4. VolumeWithinSlack'
  BY <1>3 DEF Bounded, VolumeWithinSlack, Volume
<1> QED BY <1>2, <1>4, FewerHaveRoom DEF Bounded

\* A request that is alone fits the context, and so the limit.
LEMMA AloneHasRoom ==
  ASSUME MaxModelLen <= MaxBatchTkvLimit, Bookkeeping', Blocks', NEW r \in running',
         num_computed'[r] = prompt_len'[r]
  PROVE  Room({r})'
<1> DEFINE p == prompt_len'[r]
           m == max_tokens'[r]
<1>1. r \in Requests /\ p \in Nat /\ m \in Nat /\ p # 0
  BY DEF Bookkeeping, Types, SchedTypeOK, Lists, QueueInv, Unstarted
<1>2. BlocksFor(p) * BlockSize + m <= MaxModelLen
  BY <1>1 DEF Blocks, LengthInv, ValidateRequest
<1>3. p <= BlocksFor(p) * BlockSize /\ BlocksFor(p) * BlockSize \in Int
  BY <1>1, BlocksForBounds
<1>4. Extent(r, r)' = p + (m - (p - p)) - BlockSize
  BY DEF Extent, TokensRemaining, Generated
<1> HIDE DEF p, m
<1>5. Extent(r, r)' \in Int /\ Extent(r, r)' <= MaxBatchTkvLimit
  BY <1>1, <1>2, <1>3, <1>4, BlockAssumption, LimitAssumption
<1>6. Cardinality({r}) = 1
  BY FS_Singleton
<1>7. Cardinality({r}) * Extent(r, r)' <= MaxBatchTkvLimit
  BY <1>5, <1>6
<1> QED BY <1>7 DEF Room

\* A decode step adds a token to each row and takes it from what remains.
LEMMA DecodeKeepsRoom ==
  ASSUME Bookkeeping, RoomInv, UNCHANGED <<prompt_len, max_tokens>>,
         Rows' \subseteq Decoding, \A d \in Decoding : num_computed'[d] = num_computed[d] + 1
  PROVE  RoomInv'
<1> SUFFICES ASSUME NEW S \in SUBSET Rows', NEW a \in S
             PROVE  \E d \in S : Cardinality(S) * Extent(a, d)' <= MaxBatchTkvLimit
  BY DEF RoomInv, Room
<1>1. Decoding \subseteq Rows
  BY DEF Bookkeeping, Lists, CountInv, Rows, Decoding
<1>2. PICK d \in S : Cardinality(S) * Extent(a, d) <= MaxBatchTkvLimit
  BY <1>1 DEF RoomInv, Room
<1>3. a \in Decoding /\ d \in Decoding
  OBVIOUS
<1>4. /\ \A q \in {a, d} : /\ num_computed[q] \in Int /\ prompt_len[q] \in Int
                           /\ max_tokens[q] \in Int
      /\ BlockSize \in Int
  BY <1>3, EngineTypes, BlockAssumption
<1>5. Extent(a, d)' = Extent(a, d)
  <2>1. /\ num_computed'[a] = num_computed[a] + 1 /\ num_computed'[d] = num_computed[d] + 1
        /\ prompt_len'[d] = prompt_len[d] /\ max_tokens'[d] = max_tokens[d]
    BY <1>3
  <2>2. Extent(a, d) = num_computed[a] + (max_tokens[d] - (num_computed[d] - prompt_len[d]))
                         - BlockSize
    BY DEF Extent, TokensRemaining, Generated
  <2>3. Extent(a, d)' = (num_computed[a] + 1)
                          + (max_tokens[d] - ((num_computed[d] + 1) - prompt_len[d])) - BlockSize
    BY <2>1 DEF Extent, TokensRemaining, Generated
  <2> QED BY <1>4, <2>2, <2>3
<1> QED BY <1>2, <1>5

\* A step that is scheduled completes a prompt only after the test.
LEMMA ScheduleBounded ==
  ASSUME MaxModelLen <= MaxBatchTkvLimit, ~Interleave \/ ~PrefixCaching,
         Bookkeeping, Agreement, Blocks, Covered, Admitted, Bounded,
         Bookkeeping', Agreement', Blocks', ScheduleStep
  PROVE  Bounded'
<1> DEFINE so == scheduler_output'
<1>1. /\ phase = "idle" /\ phase' = "scheduled" /\ Decoding' = Decoding
      /\ UNCHANGED <<prompt_len, max_tokens, num_output, runnerVars>>
      /\ running' = running \cup so.new /\ ongoing' = ongoing \cup so.new
      /\ \A q \in so.new : q \in Requests /\ q \notin running
      /\ \A q \in Requests \ so.new : num_computed'[q] = num_computed[q] + so.tokens[q]
  BY ScheduleMoves
<1>2. VolumeWithinSlack'
  BY <1>1 DEF Bounded, VolumeWithinSlack, Volume, runnerVars
<1>3. /\ Decoding \subseteq Requests /\ Decoding \subseteq running
      /\ \A q \in Requests :
           /\ num_computed[q] \in Int /\ prompt_len[q] \in Nat /\ num_output[q] \in Nat
           /\ num_computed'[q] \in Int /\ so.tokens[q] \in Int /\ so.computed[q] \in Int
      /\ running' \subseteq Requests /\ ongoing' \subseteq running'
  BY EngineTypes DEF Bookkeeping, Types, SchedTypeOK, OutputsTypeOK, SchedulerOutputs, Lists,
    PrefillInv
<1>4. ScheduledInv'
  BY DEF Bookkeeping, Lists
<1>5. CASE DecodePlan'
  <2>1. so.new = {} /\ so.cached = Decoding /\ \A q \in ongoing' : Parked(q)'
    BY <1>1, <1>5 DEF DecodePlan
  <2>2. ASSUME NEW d \in Decoding PROVE num_computed'[d] = num_computed[d] + 1
    <3>1. so.tokens[d] > 0
      BY <1>1, <1>3, <1>4, <2>1 DEF ScheduledInv
    <3>2. Fed(d)'
      BY <1>1, <3>1 DEF Fed
    <3>3. so.tokens[d] = 1
      BY <1>1, <3>2 DEF Blocks, ExactInv
    <3> QED BY <1>1, <1>3, <2>1, <3>3
  <2>3. Rows' \subseteq Decoding
    <3>1. \A q \in ongoing' : q \notin Rows'
      BY <1>1, <1>3, <2>1 DEF Parked, Rows
    <3> QED BY <1>1, <3>1 DEF Rows, Decoding
  <2>4. RoomInv'
    BY <1>1, <2>2, <2>3, DecodeKeepsRoom DEF Bounded
  <2> QED BY <1>2, <2>4 DEF Bounded
<1>6. ASSUME NEW q \in Requests, PrefillPlan(q)'
      PROVE  RoomInv'
  <2>1. /\ ongoing' = {q} /\ so.new \cup so.cached = {q}
        /\ so.computed[q] < prompt_len[q]
    BY <1>1, <1>6 DEF PrefillPlan
  <2>2. q \notin Decoding /\ q \in running' /\ so.tokens[q] > 0
    BY <1>1, <1>3, <1>4, <2>1 DEF Decoding, ScheduledInv
  <2>3. ASSUME NEW d \in Decoding PROVE num_computed'[d] = num_computed[d] /\ d # q
    <3>1. d \in Requests /\ d \notin so.new /\ d \notin so.cached
      BY <1>1, <1>3, <2>1, <2>2
    <3>2. ~(so.tokens[d] > 0)
      BY <1>1, <1>4, <3>1 DEF ScheduledInv
    <3>3. num_computed'[d] = prompt_len[d] + num_output[d] - 1
      BY <1>1, <3>2 DEF Blocks, ExactInv, Fed
    <3>4. num_computed[d] = prompt_len[d] + num_output[d] - 1
      BY <1>1 DEF Blocks, ExactInv, Fed
    <3> QED BY <2>2, <3>3, <3>4
  <2>4. Rows' \subseteq Decoding \cup {q}
    BY <1>1, <1>3, <2>1 DEF Rows, Decoding
  <2>5. Decoding \subseteq Rows
    BY DEF Bookkeeping, Lists, CountInv, Rows, Decoding
  <2>6. ASSUME NEW S \in SUBSET Rows', q \notin S
        PROVE  Room(S)'
    <3>1. S \subseteq Decoding /\ Room(S)
      BY <2>4, <2>5, <2>6 DEF Bounded, RoomInv
    <3>2. \A a \in S, d \in S : Extent(a, d)' = Extent(a, d)
      BY <1>1, <2>3, <3>1 DEF Extent, TokensRemaining, Generated
    <3> QED BY <3>1, <3>2 DEF Room
  <2>7. ASSUME NEW S \in SUBSET Rows', q \in S
        PROVE  Room(S)'
    <3>1. num_computed'[q] >= prompt_len[q] /\ num_computed'[q] = prompt_len[q]
      <4>1. num_computed'[q] >= prompt_len'[q]
        BY <2>7 DEF Rows
      <4>2. num_computed'[q] <= prompt_len'[q]
        BY <2>1 DEF Bookkeeping, Lists, CountInv
      <4> QED BY <1>1, <1>3, <4>1, <4>2
    <3>2. CASE S = {q}
      <4>1. num_computed'[q] = prompt_len'[q]
        BY <1>1, <3>1
      <4>2. Room({q})'
        BY <2>2, <4>1, AloneHasRoom
      <4> QED BY <3>2, <4>2
    <3>3. CASE S # {q}
      <4> DEFINE T == S \ {q}
      <4>1. T \in SUBSET Decoding /\ T # {} /\ S = T \cup {q}
        BY <2>4, <2>7, <3>3
      <4>2. running # {}
        BY <1>3, <4>1
      <4>3. SatisfiesLastChunkConstraints(q, 0)
        BY <2>1, <2>2, <3>1, <4>2, LastChunkAdmitted
      <4> HIDE DEF T
      <4>4. Room(T \cup {q})'
        BY <1>1, <2>2, <2>3, <3>1, <4>1, <4>3, JoinRoom
      <4> QED BY <4>1, <4>4
    <3> QED BY <3>2, <3>3
  <2> QED BY <2>6, <2>7 DEF RoomInv
<1>7. (\E q \in Requests : PrefillPlan(q)') \/ DecodePlan'
  BY <1>1 DEF Agreement, StepInv
<1> QED BY <1>2, <1>5, <1>6, <1>7 DEF Bounded

-----------------------------------------------------------------------------
\* A decode step is as long as the blocks of its longest row.
LEMMA DecodeVolume ==
  ASSUME Bookkeeping, Blocks, RoomInv, phase = "scheduled", Decodes
  PROVE  VolumeWithinSlack'
<1> DEFINE n == Cardinality(Decoding)
           slack == 2 * (BlockSize - 1)
<1>1. Decoding \subseteq Requests /\ BlockSize \in Nat \ {0} /\ MaxBatchTkvLimit \in Nat
      /\ \A r \in Requests : /\ num_computed[r] \in Int /\ prompt_len[r] \in Nat
                             /\ num_output[r] \in Nat /\ max_tokens[r] \in Nat
  BY EngineTypes, BlockAssumption, LimitAssumption
<1>2. n \in Nat
  BY <1>1, RequestsAssumption, FS_Subset, FS_CardinalityType
<1>3. model_input'.reqs = Decoding
  BY DEF Decodes, DecodeStep, DecodeInput
<1>4. PICK a \in Decoding : BlocksFor(runner_tkv') = BlocksFor(num_computed[a])
  BY DecodeAligns
<1>5. runner_tkv' \in Int /\ num_computed[a] \in Int
  BY <1>1, DecodeAligns
<1>6. runner_tkv' <= num_computed[a] + BlockSize - 1
  <2>1. /\ BlocksFor(runner_tkv') * BlockSize \in Int
        /\ runner_tkv' <= BlocksFor(runner_tkv') * BlockSize
        /\ BlocksFor(num_computed[a]) * BlockSize <= num_computed[a] + BlockSize - 1
    BY <1>5, BlocksForBounds
  <2> QED BY <1>1, <1>4, <1>5, <2>1
<1>7. PICK d \in Decoding : n * Extent(a, d) <= MaxBatchTkvLimit
  <2>1. Decoding \in SUBSET Rows
    BY DEF Bookkeeping, Lists, CountInv, Rows, Decoding
  <2> QED BY <2>1 DEF RoomInv, Room
<1>8. TokensRemaining(d) \in Int /\ TokensRemaining(d) >= 1
  <2>1. d \in Requests /\ d \in running /\ Fed(d)
    BY DecodedToken
  <2>2. num_computed[d] = prompt_len[d] + num_output[d] - 0
    BY <2>1 DEF Blocks, ExactInv
  <2>3. num_output[d] < max_tokens[d]
    BY <2>1 DEF Blocks, OutputInv
  <2> QED BY <1>1, <2>1, <2>2, <2>3 DEF TokensRemaining, Generated
<1>9. runner_tkv' - slack \in Int /\ Extent(a, d) \in Int
      /\ runner_tkv' - slack <= Extent(a, d)
  BY <1>1, <1>5, <1>6, <1>8 DEF Extent
<1> DEFINE over == runner_tkv' - slack
           most == Extent(a, d)
<1>10. n * over <= MaxBatchTkvLimit
  <2>1. over \in Int /\ most \in Int /\ over <= most /\ n * most <= MaxBatchTkvLimit
    BY <1>7, <1>9
  <2> HIDE DEF over, most, n
  <2> QED BY <1>1, <1>2, <2>1, SmallerVolume
<1>11. n * runner_tkv' <= MaxBatchTkvLimit + n * slack
  <2>1. slack \in Int
    BY <1>1
  <2> HIDE DEF slack, n
  <2>2. n * over = n * runner_tkv' - n * slack
    BY <1>2, <1>5, <2>1
  <2>3. n * runner_tkv' \in Int /\ n * slack \in Int
    BY <1>2, <1>5, <2>1
  <2> HIDE DEF over
  <2> QED BY <1>1, <1>10, <2>2, <2>3
<1>12. n * slack = n * 2 * (BlockSize - 1)
  <2> HIDE DEF n
  <2> QED BY <1>1, <1>2
<1> QED BY <1>3, <1>11, <1>12 DEF VolumeWithinSlack, Volume

\* Only a decode step has a volume.
LEMMA ExecuteBounded ==
  ASSUME Bookkeeping, Agreement, Blocks, Bounded, ExecuteStep
  PROVE  Bounded'
<1>1. /\ phase = "scheduled" /\ UNCHANGED <<schedVars, scheduler_output>>
      /\ Idles \/ (\E q \in Requests : Chunks(q)) \/ Decodes
  BY ExecuteMoves
<1>2. FewerRows
  BY <1>1 DEF FewerRows, Rows, schedVars, requestVars, queueVars
<1>3. ASSUME Idles PROVE VolumeWithinSlack'
  BY <1>3 DEF Bounded, VolumeWithinSlack, Volume, Idles, EmptyStep
<1>4. ASSUME NEW q \in Requests, Chunks(q) PROVE VolumeWithinSlack'
  <2>1. model_input'.kind = "prefill"
    BY <1>4 DEF Chunks, Prefill, PrefillInput
  <2> QED BY <2>1 DEF VolumeWithinSlack
<1>5. ASSUME Decodes PROVE VolumeWithinSlack'
  BY <1>1, <1>5, DecodeVolume DEF Bounded
<1>6. VolumeWithinSlack'
  BY <1>1, <1>3, <1>4, <1>5 DEF Bounded
<1> QED BY <1>2, <1>6, FewerHaveRoom DEF Bounded

\* The output corrects no count of a row, and rows only leave.
LEMMA UpdateBounded ==
  ASSUME Bookkeeping, Agreement, Bounded, UpdateStep
  PROVE  Bounded'
<1>1. /\ num_computed' = [r \in Requests |-> ComputedAfter(r)]
      /\ running' \subseteq running /\ phase = "executed"
      /\ UNCHANGED <<prompt_len, max_tokens, model_input, runner_tkv>>
  BY DEF UpdateStep, UpdateFromOutput, Free, runnerVars
<1>2. ASSUME NEW r \in Rows'
      PROVE  r \in Rows /\ num_computed'[r] = num_computed[r]
  <2>1. /\ r \in running /\ r \in Requests
        /\ ComputedAfter(r) >= prompt_len[r] /\ num_computed'[r] = ComputedAfter(r)
    BY <1>1, EngineTypes DEF Rows
  <2>2. CASE r \in ongoing
    <3>1. PrefillOutput(r)
      BY <1>1, <2>2 DEF Agreement, StepInv
    <3>2. IF num_computed[r] = prompt_len[r]
            THEN ComputedAfter(r) = prompt_len[r]
            ELSE ComputedAfter(r) \in Nat /\ ComputedAfter(r) < prompt_len[r]
      BY <2>2, <3>1, ParkedStays
    <3>3. prompt_len[r] \in Nat
      BY <2>1, EngineTypes
    <3>4. num_computed[r] = prompt_len[r]
      BY <2>1, <3>2, <3>3
    <3> QED BY <2>1, <3>2, <3>3, <3>4 DEF Rows
  <2>3. CASE r \notin ongoing
    BY <2>1, <2>3 DEF ComputedAfter, Rows
  <2> QED BY <2>2, <2>3
<1>3. FewerRows
  BY <1>1, <1>2 DEF FewerRows
<1>4. VolumeWithinSlack'
  BY <1>1 DEF Bounded, VolumeWithinSlack, Volume
<1> QED BY <1>3, <1>4, FewerHaveRoom DEF Bounded

\* Every step leaves the rows their room.
LEMMA NextBounded ==
  ASSUME MaxModelLen <= MaxBatchTkvLimit, ~Interleave \/ ~PrefixCaching,
         Bookkeeping, Agreement, Blocks, Covered, Admitted, Bounded, [Next]_vars
  PROVE  Bounded'
<1>1. Bookkeeping' /\ Agreement' /\ Blocks'
  BY NextBookkeeping, NextAgreement, NextBlocks
<1>2. ASSUME NEW r \in Requests, NEW p \in PromptLens, NEW m \in OutputLens,
             Arrive(r, p, m)
      PROVE  Bounded'
  BY <1>2, ClientBounded
<1>3. ASSUME NEW r \in Abortable, Abort(r)
      PROVE  Bounded'
  BY <1>3, ClientBounded, WorkloadAssumption
<1>4. CASE ScheduleStep
  BY <1>1, <1>4, ScheduleBounded
<1>5. CASE ExecuteStep
  BY <1>5, ExecuteBounded
<1>6. CASE UpdateStep
  BY <1>6, UpdateBounded
<1>7. CASE UNCHANGED vars
  <2>1. FewerRows /\ UNCHANGED <<model_input, runner_tkv>>
    BY <1>7 DEF vars, schedVars, requestVars, queueVars, runnerVars, FewerRows, Rows
  <2> QED BY <2>1, FewerHaveRoom DEF Bounded, VolumeWithinSlack, Volume
<1> QED
  BY <1>2, <1>3, <1>4, <1>5, <1>6, <1>7 DEF Next, EngineStep, Drained

(***************************************************************************)
(* The batch times the tkv of a decode step exceeds the limit by less than *)
(* two blocks for each row, provided that a request alone is within it and *)
(* that each prompt is tested with its last chunk.                         *)
(***************************************************************************)
THEOREM VolumeWithinSlackHolds ==
  ASSUME MaxModelLen <= MaxBatchTkvLimit, ~Interleave \/ ~PrefixCaching
  PROVE  Spec => []VolumeWithinSlack
<1> DEFINE I == Bookkeeping /\ Agreement /\ Blocks /\ Covered /\ Admitted
<1>1. Init => Bounded
  BY InitBounded
<1>2. I /\ Bounded /\ [Next]_vars => Bounded'
  BY NextBounded
<1>3. Bounded => VolumeWithinSlack
  BY DEF Bounded
<1>4. Spec => []I
  BY AdmittedHolds
<1> QED BY <1>1, <1>2, <1>3, <1>4, PTL DEF Spec

(***************************************************************************)
(* Chunked prefill. The scheduler counts tokens, and publishes and hides   *)
(* requests by that count; the runner works in chunks of left-padded       *)
(* prompts and derives from the count which chunk it is at. Its chunks     *)
(* follow on one another without a gap, and the count reaches the end of   *)
(* the prompt exactly with the last of them.                               *)
(*                                                                         *)
(* Other prompts find the blocks in the prefix cache from the moment they  *)
(* are scheduled: the last part is about what has been written by then.    *)
(***************************************************************************)

\* The chunk that block k of a prompt of p tokens falls into.
ChunkOf(p, k) == (PaddingBlocks(p) + k) \div ChunkBlocks

\* The prompt token chunk c starts with.
ChunkStart(p, c) == (c * ChunkBlocks - PaddingBlocks(p)) * BlockSize

\* h blocks of a prompt of p tokens were found in the prefix cache.
PossibleHit(p, h) ==
  h \in Nat /\ h * BlockSize < p /\ (h > 0 => PrefixCaching)

\* What the runner plans in the state s of a prompt of p tokens. It stands until
\* the prompt is done.
Plan(s, p) ==
  /\ s.padding_blocks = PaddingBlocks(p)
  /\ s.chunk_count = ChunkCount(p)
  /\ PossibleHit(p, s.total_hit)
  /\ s.usable_blocks = UsableBlocks(p, s.total_hit)

Planned(r) == Plan(requests[r], prompt_len[r])

(***************************************************************************)
(* A count of n tokens is one of whole blocks, not always at the edge of a *)
(* chunk. The runner has written all chunks before the one the next block  *)
(* is in, and is past the chunk in which the cached blocks end.            *)
(***************************************************************************)
Reached(r, n) ==
  \E k \in Nat :
    /\ n = k * BlockSize
    /\ ChunkOf(prompt_len[r], requests[r].total_hit) < ChunkOf(prompt_len[r], k)
    /\ stored[r] = ChunkStart(prompt_len[r], ChunkOf(prompt_len[r], k))

PlanInv ==
  \A r \in ongoing : ~(phase = "scheduled" /\ r \in scheduler_output.new) => Planned(r)

StartInv ==
  phase = "scheduled" =>
    \A r \in scheduler_output.new :
      \E h \in Nat : /\ scheduler_output.computed[r] = h * BlockSize
                     /\ PossibleHit(prompt_len[r], h)

ReachInv ==
  \A r \in ongoing :
    /\ phase = "idle" => Reached(r, num_computed[r])
    /\ phase = "scheduled" /\ r \notin scheduler_output.new =>
         Reached(r, IF r \in scheduler_output.cached THEN scheduler_output.computed[r]
                                                     ELSE num_computed[r])
    /\ phase = "executed" => IF num_computed[r] = prompt_len[r]
                               THEN stored[r] = prompt_len[r]
                               ELSE Reached(r, ComputedAfter(r))

\* ChunkWellFormed stays true of the last chunk until the next input.
InputInv ==
  model_input.kind = "prefill" =>
    \A r \in model_input.reqs :
      /\ model_input.chunk < requests[r].chunk_count
      /\ model_input.table = (model_input.chunk + 1) * ChunkBlocks
      /\ model_input.first < model_input.last
      /\ model_input.write >= requests[r].total_hit * BlockSize

Chunked ==
  /\ PlanInv
  /\ StartInv
  /\ ReachInv
  /\ PrefillComplete
  /\ InputInv

-----------------------------------------------------------------------------
(***************************************************************************)
(* The arithmetic of chunk plans. Products of variables are beyond the     *)
(* provers: every multiple of a block or a chunk is a step of its own.     *)
(***************************************************************************)
\* The last chunk of a padded prompt is full of blocks.
LEMMA PlanBlocks ==
  ASSUME NEW p \in Nat \ {0}
  PROVE  /\ ChunkCount(p) \in Int /\ ChunkCount(p) * ChunkBlocks \in Int
         /\ PaddingBlocks(p) \in Nat /\ PaddingBlocks(p) < ChunkBlocks
         /\ BlocksFor(p) \in Nat
         /\ PaddingBlocks(p) + BlocksFor(p) = ChunkCount(p) * ChunkBlocks
<1>1. ChunkCount(p) \in Int /\ PaddingBlocks(p) \in Int /\ BlocksFor(p) \in Nat
  BY PlanTypes, BlocksForNat
<1>2. 0 <= PaddingBlocks(p) /\ PaddingBlocks(p) < ChunkBlocks
  BY PaddingBounds
<1>3. ChunkCount(p) * ChunkBlocks \in Int
  BY <1>1, BlockAssumption
<1>4. PaddingBlocks(p) = ChunkCount(p) * ChunkBlocks - BlocksFor(p)
  BY DEF PaddingBlocks
<1> QED BY <1>1, <1>2, <1>3, <1>4

\* k blocks are full before token p if p tokens need more of them.
LEMMA BlocksBefore ==
  ASSUME NEW p \in Int, NEW k \in Int
  PROVE  k * BlockSize \in Int /\ (k * BlockSize < p <=> k < BlocksFor(p))
<1>1. k * BlockSize \in Int /\ BlocksFor(p) \in Int
  BY BlockAssumption, BlocksForType
<1>2. p <= k * BlockSize <=> BlocksFor(p) <= k
  BY WithinBlocks
<1> QED BY <1>1, <1>2

(***************************************************************************)
(* The chunk of a block of the prompt is one of the prompt's chunks, the   *)
(* last one if no more than a chunk of blocks is left.                     *)
(***************************************************************************)
LEMMA ChunkPlace ==
  ASSUME NEW p \in Nat \ {0}, NEW k \in Nat, k < BlocksFor(p)
  PROVE  /\ ChunkOf(p, k) \in Nat /\ ChunkOf(p, k) * ChunkBlocks \in Nat
         /\ ChunkOf(p, k) * ChunkBlocks <= PaddingBlocks(p) + k
         /\ PaddingBlocks(p) + k < ChunkOf(p, k) * ChunkBlocks + ChunkBlocks
         /\ ChunkOf(p, k) < ChunkCount(p)
         /\ ChunkOf(p, k) + 1 = ChunkCount(p) <=> BlocksFor(p) <= k + ChunkBlocks
<1> DEFINE c == ChunkOf(p, k)
           n == ChunkCount(p)
           full == c * ChunkBlocks
           all == n * ChunkBlocks
<1>1. /\ n \in Int /\ all \in Int /\ BlocksFor(p) \in Nat
      /\ PaddingBlocks(p) \in Nat /\ PaddingBlocks(p) < ChunkBlocks
      /\ PaddingBlocks(p) + BlocksFor(p) = all
      /\ ChunkBlocks \in Nat \ {0}
  BY PlanBlocks, BlockAssumption
<1>2. PaddingBlocks(p) + k \in Nat
  BY <1>1
<1>3. c \in Nat /\ full <= PaddingBlocks(p) + k /\ PaddingBlocks(p) + k < full + ChunkBlocks
  <2> DEFINE a == PaddingBlocks(p) + k
  <2>1. a \in Nat
    BY <1>2
  <2>2. c = a \div ChunkBlocks
    BY DEF ChunkOf
  <2> HIDE DEF a
  <2>3. c \in Nat /\ full <= a /\ a < full + ChunkBlocks
    BY <1>1, <2>1, <2>2, DivType, DivBounds
  <2> QED BY <2>3 DEF a
<1> HIDE DEF c, n
<1>4. full \in Nat
  BY <1>1, <1>3
<1>5. (c + 1) * ChunkBlocks = full + ChunkBlocks
      /\ (c + 2) * ChunkBlocks = full + ChunkBlocks + ChunkBlocks
  BY <1>1, <1>3
<1>6. c < n
  <2> SUFFICES ASSUME n <= c PROVE FALSE
    BY <1>1, <1>3
  <2>1. all <= full
    BY <1>1, <1>3, ProductMonotonic
  <2> HIDE DEF all, full
  <2> QED BY <1>1, <1>3, <1>4, <2>1
<1>7. ASSUME c + 1 = n PROVE BlocksFor(p) <= k + ChunkBlocks
  <2>1. all = full + ChunkBlocks
    BY <1>5, <1>7
  <2> HIDE DEF all, full
  <2> QED BY <1>1, <1>3, <1>4, <2>1
<1>8. ASSUME BlocksFor(p) <= k + ChunkBlocks PROVE c + 1 = n
  <2> SUFFICES ASSUME c + 2 <= n PROVE FALSE
    BY <1>1, <1>3, <1>6
  <2>1. (c + 2) * ChunkBlocks <= all
    BY <1>1, <1>3, ProductMonotonic
  <2>2. full + ChunkBlocks + ChunkBlocks <= all
    BY <1>5, <2>1
  <2> HIDE DEF all, full
  <2> QED BY <1>1, <1>3, <1>4, <1>8, <2>2
<1> QED BY <1>3, <1>4, <1>6, <1>7, <1>8 DEF c, n, full

(***************************************************************************)
(* Chunks follow on one another; every one of them starts within the       *)
(* prompt, and the last one ends it.                                       *)
(***************************************************************************)
LEMMA ChunkEdges ==
  ASSUME NEW p \in Nat \ {0}, NEW c \in Nat, c < ChunkCount(p)
  PROVE  /\ ChunkStart(p, c) \in Int
         /\ ChunkStart(p, c) = c * ChunkSize - PaddingBlocks(p) * BlockSize
         /\ ChunkStart(p, c + 1) = ChunkStart(p, c) + ChunkSize
         /\ ChunkStart(p, c) < p
         /\ c + 1 = ChunkCount(p) <=> p <= ChunkStart(p, c + 1)
         /\ ChunkStart(p, 0) <= 0
         /\ c > 0 => ChunkStart(p, c) > 0
<1> DEFINE n == ChunkCount(p)
           full == c * ChunkBlocks
           all == n * ChunkBlocks
           pad == PaddingBlocks(p)
<1>1. /\ n \in Int /\ all \in Int /\ BlocksFor(p) \in Nat
      /\ pad \in Nat /\ pad < ChunkBlocks /\ pad + BlocksFor(p) = all
      /\ ChunkBlocks \in Nat \ {0} /\ BlockSize \in Nat \ {0}
      /\ ChunkSize = ChunkBlocks * BlockSize /\ ChunkSize \in Nat \ {0}
  BY PlanBlocks, BlockAssumption, ChunkSizeType DEF ChunkSize
<1> HIDE DEF n, pad
<1>2. /\ full \in Nat /\ (c + 1) * ChunkBlocks = full + ChunkBlocks
      /\ c * ChunkSize = full * BlockSize
  BY <1>1
<1>3. full + ChunkBlocks <= all
  <2>1. (c + 1) * ChunkBlocks <= all
    BY <1>1, ProductMonotonic DEF n
  <2> QED BY <1>2, <2>1
<1>4. c + 1 = n <=> all <= full + ChunkBlocks
  <2>1. c + 1 = n => all = full + ChunkBlocks
    BY <1>2
  <2>2. ASSUME c + 2 <= n PROVE full + ChunkBlocks < all
    <3>1. (c + 2) * ChunkBlocks <= all
      BY <1>1, <2>2, ProductMonotonic
    <3>2. (c + 2) * ChunkBlocks = full + ChunkBlocks + ChunkBlocks
      BY <1>1
    <3> HIDE DEF all, full
    <3> QED BY <1>1, <1>2, <3>1, <3>2
  <2>3. c + 1 = n \/ c + 2 <= n
    BY <1>1 DEF n
  <2> HIDE DEF all, full
  <2> QED BY <1>1, <1>2, <2>1, <2>2, <2>3
<1>5. c > 0 => ChunkBlocks <= full
  <2>1. c > 0 => 1 * ChunkBlocks <= full
    BY <1>1, ProductMonotonic
  <2> QED BY <1>1, <2>1
<1>6. /\ ChunkStart(p, c) = (full - pad) * BlockSize
      /\ ChunkStart(p, c + 1) = (full + ChunkBlocks - pad) * BlockSize
      /\ ChunkStart(p, 0) = (0 - pad) * BlockSize
  <2>1. ChunkStart(p, c) = (full - pad) * BlockSize
    BY DEF ChunkStart, pad
  <2>2. ChunkStart(p, c + 1) = (full + ChunkBlocks - pad) * BlockSize
    <3> DEFINE edge == (c + 1) * ChunkBlocks
    <3>1. ChunkStart(p, c + 1) = (edge - pad) * BlockSize
      BY DEF ChunkStart, pad
    <3>2. edge = full + ChunkBlocks
      BY <1>2
    <3> HIDE DEF edge, full
    <3>3. edge - pad = full + ChunkBlocks - pad
      BY <1>1, <1>2, <3>2
    <3> QED BY <3>1, <3>3
  <2>3. 0 * ChunkBlocks = 0
    BY <1>1
  <2>4. ChunkStart(p, 0) = (0 - pad) * BlockSize
    BY <2>3 DEF ChunkStart, pad
  <2> QED BY <2>1, <2>2, <2>4
<1> HIDE DEF all, full
<1>7. /\ (full - pad) * BlockSize = full * BlockSize - pad * BlockSize
      /\ (full + ChunkBlocks - pad) * BlockSize
           = full * BlockSize - pad * BlockSize + ChunkBlocks * BlockSize
      /\ (0 - pad) * BlockSize = 0 - pad * BlockSize
      /\ full * BlockSize \in Int /\ pad * BlockSize \in Nat
      /\ (full - pad) * BlockSize \in Int
  BY <1>1, <1>2
<1>8. (full - pad) * BlockSize < p
  <2>1. full - pad < BlocksFor(p) /\ full - pad \in Int
    BY <1>1, <1>2, <1>3
  <2> QED BY <2>1, BlocksBefore
<1>9. c + 1 = n <=> p <= (full + ChunkBlocks - pad) * BlockSize
  <2>1. full + ChunkBlocks - pad \in Int
    BY <1>1, <1>2
  <2>2. p <= (full + ChunkBlocks - pad) * BlockSize <=> BlocksFor(p) <= full + ChunkBlocks - pad
    BY <2>1, WithinBlocks
  <2> QED BY <1>1, <1>2, <1>4, <2>2
<1>10. c > 0 => (full - pad) * BlockSize > 0
  <2>1. ASSUME c > 0 PROVE (full - pad) * BlockSize > 0
    <3>1. 1 <= full - pad /\ full - pad \in Int
      BY <1>1, <1>2, <1>5, <2>1
    <3>2. 1 * BlockSize <= (full - pad) * BlockSize
      BY <1>1, <3>1, ProductMonotonic
    <3> QED BY <1>1, <1>7, <3>2
  <2> QED BY <2>1
<1> QED BY <1>1, <1>2, <1>6, <1>7, <1>8, <1>9, <1>10 DEF n, pad

(***************************************************************************)
(* A step gives a prefill what its prompt lacks, up to a chunk of tokens.  *)
(* The scheduler counts from block k on, the runner from the start of its  *)
(* chunk; they agree on whether the prompt is done.                        *)
(***************************************************************************)
LEMMA ChunkEnd ==
  ASSUME NEW p \in Nat \ {0}, NEW k \in Nat, k * BlockSize < p
  PROVE  LET c     == ChunkOf(p, k)
             count == k * BlockSize + Smaller(p - k * BlockSize, ChunkSize)
         IN /\ c \in Nat /\ c < ChunkCount(p)
            /\ count < p <=> c + 1 < ChunkCount(p)
            /\ count < p => /\ count = (k + ChunkBlocks) * BlockSize
                            /\ ChunkOf(p, k + ChunkBlocks) = c + 1
                            /\ ChunkStart(p, c + 1) < p
            /\ ~(count < p) => /\ count = p
                               /\ p <= ChunkStart(p, c + 1)
<1> DEFINE c == ChunkOf(p, k)
           edge == (k + ChunkBlocks) * BlockSize
           here == k * BlockSize
           n == ChunkCount(p)
<1>1. /\ ChunkBlocks \in Nat \ {0} /\ ChunkSize \in Nat \ {0} /\ BlockSize \in Nat \ {0}
      /\ ChunkSize = ChunkBlocks * BlockSize
  BY BlockAssumption, ChunkSizeType DEF ChunkSize
<1>2. here \in Nat /\ edge \in Nat /\ edge = here + ChunkSize
  BY <1>1
<1>3. k < BlocksFor(p) /\ BlocksFor(p) \in Nat
  BY BlocksBefore, PlanBlocks
<1>4. /\ c \in Nat /\ c < n /\ n \in Int
      /\ c + 1 = n <=> BlocksFor(p) <= k + ChunkBlocks
  BY <1>3, ChunkPlace, PlanBlocks
<1>5. p <= edge <=> BlocksFor(p) <= k + ChunkBlocks
  BY <1>1, WithinBlocks
<1>6. /\ c + 1 = n <=> p <= ChunkStart(p, c + 1)
      /\ c + 1 \in Nat
      /\ c + 1 < n => ChunkStart(p, c + 1) < p
  BY <1>4, ChunkEdges
<1>7. ChunkOf(p, k + ChunkBlocks) = c + 1
  <2> DEFINE a == PaddingBlocks(p) + k
  <2>1. a \in Nat
    BY PlanBlocks
  <2>2. (a + ChunkBlocks) \div ChunkBlocks = a \div ChunkBlocks + 1
    <3> DEFINE d == a \div ChunkBlocks
    <3>1. d \in Nat /\ d * ChunkBlocks <= a /\ a < d * ChunkBlocks + ChunkBlocks
      BY <1>1, <2>1, DivType, DivBounds
    <3> HIDE DEF a, d
    <3>2. (d + 1) * ChunkBlocks = d * ChunkBlocks + ChunkBlocks /\ d * ChunkBlocks \in Nat
      BY <1>1, <3>1
    <3>3. /\ (d + 1) * ChunkBlocks <= a + ChunkBlocks
          /\ a + ChunkBlocks < (d + 1) * ChunkBlocks + ChunkBlocks
      BY <1>1, <2>1, <3>1, <3>2
    <3>4. (a + ChunkBlocks) \div ChunkBlocks = d + 1
      BY <1>1, <2>1, <3>1, <3>3, DivUnique
    <3> QED BY <3>4 DEF d
  <2>3. PaddingBlocks(p) + (k + ChunkBlocks) = a + ChunkBlocks
    BY <1>1, PlanBlocks
  <2> QED BY <2>2, <2>3 DEF ChunkOf
<1> HIDE DEF c, edge, here, n
<1>8. here + Smaller(p - here, ChunkSize) = IF p <= edge THEN p ELSE edge
  BY <1>1, <1>2 DEF Smaller
<1> QED BY <1>1, <1>2, <1>4, <1>5, <1>6, <1>7, <1>8 DEF c, edge, here, n

(***************************************************************************)
(* The cached blocks of a prompt end in one of its chunks. The chunks      *)
(* before that one are those the runner skips.                             *)
(***************************************************************************)
LEMMA CachedPlan ==
  ASSUME NEW p \in Nat \ {0}, NEW h, PossibleHit(p, h)
  PROVE  LET f == ChunkOf(p, h)
         IN /\ f \in Nat /\ f < ChunkCount(p)
            /\ h > 0 =>
                 UsableBlocks(p, h) =
                   IF f = 0 THEN 0 ELSE f * ChunkBlocks - PaddingBlocks(p)
            /\ UsableBlocks(p, h) \in Nat /\ UsableBlocks(p, h) <= h
            /\ h = 0 => f = 0 /\ UsableBlocks(p, h) = 0
<1> DEFINE f == ChunkOf(p, h)
           full == f * ChunkBlocks
           pad == PaddingBlocks(p)
<1>1. h \in Nat /\ h * BlockSize < p /\ (h > 0 => PrefixCaching)
  BY DEF PossibleHit
<1>2. h < BlocksFor(p)
  BY <1>1, BlocksBefore
<1>3. /\ f \in Nat /\ full \in Nat /\ full <= pad + h
      /\ pad + h < full + ChunkBlocks /\ f < ChunkCount(p)
  BY <1>1, <1>2, ChunkPlace
<1>4. pad \in Nat /\ pad < ChunkBlocks /\ ChunkBlocks \in Nat \ {0} /\ ChunkCount(p) \in Int
  BY PlanBlocks, BlockAssumption
<1>5. CachedChunks(p, h) = f
  BY <1>3, <1>4 DEF CachedChunks, ChunkOf
<1>6. UsableBlocks(p, h) = IF PrefixCaching THEN Larger(0, full - pad) ELSE 0
  BY <1>5 DEF UsableBlocks
<1> HIDE DEF f, pad
<1>7. f > 0 => ChunkBlocks <= full
  <2>1. f > 0 => 1 * ChunkBlocks <= full
    BY <1>3, <1>4, ProductMonotonic
  <2> QED BY <1>4, <2>1
<1>8. f = 0 => full = 0
  BY <1>4
<1>9. h = 0 => f = 0
  <2> SUFFICES ASSUME h = 0, f > 0 PROVE FALSE
    BY <1>3
  <2> HIDE DEF full
  <2> QED BY <1>3, <1>4, <1>7
<1> HIDE DEF full
<1>10. Larger(0, full - pad) = IF f = 0 THEN 0 ELSE full - pad
  BY <1>3, <1>4, <1>7, <1>8 DEF Larger
<1>11. /\ h > 0 => UsableBlocks(p, h) = IF f = 0 THEN 0 ELSE full - pad
       /\ UsableBlocks(p, h) \in Nat /\ UsableBlocks(p, h) <= h
       /\ h = 0 => f = 0 /\ UsableBlocks(p, h) = 0
  BY <1>1, <1>3, <1>4, <1>6, <1>7, <1>9, <1>10
<1> QED BY <1>3, <1>11 DEF f, full, pad

\* A block lies in its chunk, and later chunks start later.
LEMMA ChunkHolds ==
  ASSUME NEW p \in Nat \ {0}, NEW k \in Nat, k * BlockSize < p
  PROVE  LET c == ChunkOf(p, k)
         IN /\ ChunkStart(p, c) <= k * BlockSize
            /\ k * BlockSize < ChunkStart(p, c + 1)
            /\ \A d \in Nat : c < d => k * BlockSize < ChunkStart(p, d)
<1> DEFINE c == ChunkOf(p, k)
           full == c * ChunkBlocks
           pad == PaddingBlocks(p)
<1>1. /\ c \in Nat /\ full \in Nat /\ full <= pad + k /\ pad + k < full + ChunkBlocks
      /\ pad \in Nat /\ ChunkBlocks \in Nat \ {0} /\ BlockSize \in Nat \ {0}
  BY BlocksBefore, ChunkPlace, PlanBlocks, BlockAssumption
<1> HIDE DEF c, pad
<1>2. ChunkStart(p, c) <= k * BlockSize
  <2>1. full - pad <= k /\ full - pad \in Int
    BY <1>1
  <2>2. ChunkStart(p, c) = (full - pad) * BlockSize
    BY DEF ChunkStart, pad
  <2> QED BY <1>1, <2>1, <2>2, ProductMonotonic
<1>3. ASSUME NEW d \in Nat, c < d
      PROVE  k * BlockSize < ChunkStart(p, d)
  <2> DEFINE then == d * ChunkBlocks
  <2>1. (c + 1) * ChunkBlocks <= then
    BY <1>1, <1>3, ProductMonotonic
  <2>2. (c + 1) * ChunkBlocks = full + ChunkBlocks
    BY <1>1
  <2>3. then \in Nat /\ full + ChunkBlocks <= then
    BY <1>1, <2>1, <2>2
  <2>4. ChunkStart(p, d) = (then - pad) * BlockSize
    BY DEF ChunkStart, pad
  <2> HIDE DEF full, then
  <2>5. k + 1 <= then - pad /\ then - pad \in Int
    BY <1>1, <2>3
  <2>6. (k + 1) * BlockSize <= (then - pad) * BlockSize
    BY <1>1, <2>5, ProductMonotonic
  <2>7. (k + 1) * BlockSize = k * BlockSize + BlockSize /\ k * BlockSize \in Nat
        /\ (then - pad) * BlockSize \in Int
    BY <1>1, <2>5
  <2> QED BY <1>1, <2>4, <2>6, <2>7
<1>4. c + 1 \in Nat /\ c < c + 1
  BY <1>1
<1> QED BY <1>2, <1>3, <1>4 DEF c

-----------------------------------------------------------------------------
(***************************************************************************)
(* What the runner makes of a plan. Its state is s, for a prompt of p      *)
(* tokens of which k blocks are counted as computed.                       *)
(***************************************************************************)
Counts(s, p, k) ==
  /\ s \in RequestStates
  /\ p \in Nat \ {0} /\ k \in Nat /\ k * BlockSize < p
  /\ s.prompt_len = p
  /\ s.num_computed = k * BlockSize
  /\ Plan(s, p)

\* The chunk the runner picks is that of the next block.
LEMMA PickedChunk ==
  ASSUME NEW s, NEW p, NEW k, Counts(s, p, k)
  PROVE  /\ ChunkIndex(s) = ChunkOf(p, k)
         /\ ChunkBase(s) = ChunkStart(p, ChunkOf(p, k))
<1> DEFINE c == ChunkOf(p, k)
           full == c * ChunkBlocks
           pad == PaddingBlocks(p)
<1>1. /\ c \in Nat /\ full \in Nat /\ full <= pad + k /\ pad + k < full + ChunkBlocks
      /\ pad \in Nat /\ ChunkBlocks \in Nat \ {0} /\ BlockSize \in Nat \ {0}
      /\ k \in Nat /\ c < ChunkCount(p)
      /\ ChunkSize \in Nat \ {0} /\ ChunkSize = ChunkBlocks * BlockSize
  <2>1. p \in Nat \ {0} /\ k \in Nat /\ k < BlocksFor(p)
    BY BlocksBefore DEF Counts
  <2>2. ChunkSize \in Nat \ {0} /\ ChunkSize = ChunkBlocks * BlockSize
    BY ChunkSizeType DEF ChunkSize
  <2> QED BY <2>1, <2>2, ChunkPlace, PlanBlocks, BlockAssumption
<1>2. ChunkStart(p, c) = c * ChunkSize - pad * BlockSize
  BY <1>1, ChunkEdges DEF Counts
<1>3. LeftPadding(s) = pad * BlockSize /\ s.num_computed = k * BlockSize
  BY DEF Counts, Plan, LeftPadding
<1> HIDE DEF c, pad
<1>4. /\ pad * BlockSize + k * BlockSize = (pad + k) * BlockSize
      /\ (pad + k) * BlockSize \in Nat
      /\ c * ChunkSize = full * BlockSize /\ full * BlockSize \in Nat
      /\ (full + ChunkBlocks) * BlockSize = full * BlockSize + ChunkSize
      /\ (pad + k + 1) * BlockSize = (pad + k) * BlockSize + BlockSize
  BY <1>1
<1> HIDE DEF full
<1>5. full * BlockSize <= (pad + k) * BlockSize
  BY <1>1, ProductMonotonic
<1>6. (pad + k + 1) * BlockSize <= (full + ChunkBlocks) * BlockSize
  <2>1. /\ pad + k + 1 <= full + ChunkBlocks
        /\ pad + k + 1 \in Int /\ full + ChunkBlocks \in Int
    BY <1>1
  <2> QED BY <1>1, <2>1, ProductMonotonic
<1>7. (pad + k) * BlockSize < c * ChunkSize + ChunkSize
  BY <1>1, <1>4, <1>6
<1>8. ((pad + k) * BlockSize) \div ChunkSize = c
  BY <1>1, <1>4, <1>5, <1>7, DivUnique
<1>9. ChunkIndex(s) = c
  BY <1>3, <1>4, <1>8 DEF ChunkIndex
<1> QED BY <1>2, <1>3, <1>9 DEF ChunkBase, c

\* The chunk in which the cached blocks end, as the runner finds it.
LEMMA CachedChunk ==
  ASSUME NEW s, NEW p, NEW k, Counts(s, p, k), s.total_hit > 0
  PROVE  ChunksFromCache(s) = ChunkOf(p, s.total_hit)
<1> DEFINE h == s.total_hit
           f == ChunkOf(p, h)
           full == f * ChunkBlocks
           pad == PaddingBlocks(p)
<1>1. /\ p \in Nat \ {0} /\ PossibleHit(p, h)
      /\ s.padding_blocks = pad /\ s.usable_blocks = UsableBlocks(p, h)
  BY DEF Counts, Plan
<1>2. f \in Nat /\ s.usable_blocks = IF f = 0 THEN 0 ELSE full - pad
  BY <1>1, CachedPlan
<1>3. pad \in Nat /\ pad < ChunkBlocks /\ ChunkBlocks \in Nat \ {0}
  BY <1>1, PlanBlocks, BlockAssumption
<1> HIDE DEF f, pad, h
<1>4. full \in Nat
  BY <1>2, <1>3
<1>5. CASE f = 0
  BY <1>2, <1>5 DEF ChunksFromCache, f, h
<1>6. CASE f > 0
  <2>1. 1 * ChunkBlocks <= full
    BY <1>2, <1>3, <1>6, ProductMonotonic
  <2>2. pad + (full - pad) = full /\ full - pad > 0
    <3> HIDE DEF full
    <3> QED BY <1>3, <1>4, <2>1
  <2>3. full \div ChunkBlocks = f
    BY <1>2, <1>3, DivUnique
  <2>4. f # 0
    BY <1>6
  <2> HIDE DEF full
  <2>5. s.usable_blocks = full - pad /\ s.usable_blocks # 0
    BY <1>2, <1>3, <1>4, <2>2, <2>4
  <2>6. ChunksFromCache(s) = (pad + (full - pad)) \div ChunkBlocks
    BY <1>1, <2>5 DEF ChunksFromCache
  <2> QED BY <2>2, <2>3, <2>6 DEF f, h
<1> QED BY <1>2, <1>5, <1>6

(***************************************************************************)
(* The first chunk writes from where the cached blocks end, whatever part  *)
(* of it is padding, and a later one from where it starts.                 *)
(***************************************************************************)
LEMMA WriteStart ==
  ASSUME NEW r, NEW s, NEW p, NEW k, Counts(s, p, k)
  PROVE  /\ k = s.total_hit => PrefillInput(r, s).write = k * BlockSize
         /\ ChunkOf(p, s.total_hit) < ChunkOf(p, k) =>
              PrefillInput(r, s).write = ChunkStart(p, ChunkOf(p, k))
<1> DEFINE h == s.total_hit
           c == ChunkOf(p, k)
           f == ChunkOf(p, h)
           pad == PaddingBlocks(p)
           usable == UsableBlocks(p, h)
           recomputed == BlocksToRecompute(s)
<1>1. /\ p \in Nat \ {0} /\ k \in Nat /\ k * BlockSize < p
      /\ PossibleHit(p, h) /\ h \in Nat
      /\ s.padding_blocks = pad /\ s.usable_blocks = usable
      /\ BlockSize \in Nat \ {0}
  BY BlockAssumption DEF Counts, Plan, PossibleHit
<1>2. /\ f \in Nat /\ f < ChunkCount(p)
      /\ h > 0 => usable = IF f = 0 THEN 0 ELSE f * ChunkBlocks - pad
      /\ usable \in Nat /\ usable <= h
      /\ h = 0 => f = 0
  BY <1>1, CachedPlan
<1>3. c \in Nat /\ c < ChunkCount(p)
  BY <1>1, ChunkEnd
<1>4. ChunkIndex(s) = c /\ ChunkBase(s) = ChunkStart(p, c)
  BY PickedChunk
<1>5. h > 0 => ChunksFromCache(s) = f
  BY CachedChunk
<1>6. recomputed = IF h > 0 /\ c = f
                     THEN h - usable + (IF c = 0 THEN pad ELSE 0) ELSE 0
  BY <1>1, <1>4, <1>5 DEF BlocksToRecompute
<1>7. PrefillInput(r, s).write = Larger(0, ChunkStart(p, c) + recomputed * BlockSize)
  BY <1>4 DEF PrefillInput
<1>8. /\ ChunkStart(p, c) \in Int
      /\ ChunkStart(p, 0) <= 0 /\ (c > 0 => ChunkStart(p, c) > 0)
  BY <1>1, <1>3, ChunkEdges
<1>9. pad \in Nat /\ ChunkBlocks \in Nat
  BY <1>1, PlanBlocks, BlockAssumption
<1> HIDE DEF h, c, f, pad, usable, recomputed
<1>10. ASSUME k = h
       PROVE  PrefillInput(r, s).write = k * BlockSize
  <2>1. c = f
    BY <1>10 DEF c, f, h
  <2>2. CASE h = 0
    <3>1. recomputed = 0 /\ c = 0
      BY <1>2, <1>6, <2>1, <2>2
    <3>2. ChunkStart(p, c) + recomputed * BlockSize <= 0
          /\ ChunkStart(p, c) + recomputed * BlockSize \in Int
      BY <1>1, <1>8, <3>1
    <3>3. Larger(0, ChunkStart(p, c) + recomputed * BlockSize) = 0
      BY <3>2 DEF Larger
    <3>4. k * BlockSize = 0
      BY <1>1, <1>10, <2>2
    <3> QED BY <1>7, <3>3, <3>4
  <2>3. CASE h > 0
    <3> DEFINE full == c * ChunkBlocks
    <3>1. full \in Nat /\ ChunkStart(p, c) = (full - pad) * BlockSize
      BY <1>3, <1>9 DEF ChunkStart, pad
    <3>2. (full - pad) + recomputed = h
      <4>1. CASE c = 0
        <5>1. usable = 0 /\ recomputed = h - usable + pad
          BY <1>2, <1>6, <2>1, <2>3, <4>1
        <5>2. full = 0
          BY <1>9, <4>1
        <5> HIDE DEF full
        <5> QED BY <1>1, <1>9, <5>1, <5>2
      <4>2. CASE c # 0
        <5>1. usable = full - pad /\ recomputed = h - usable + 0
          BY <1>2, <1>6, <2>1, <2>3, <4>2
        <5> HIDE DEF full
        <5> QED BY <1>1, <1>9, <3>1, <5>1
      <4> QED BY <4>1, <4>2
    <3> HIDE DEF full
    <3>3. recomputed \in Int
      BY <1>1, <1>2, <1>6, <1>9
    <3>4. (full - pad) * BlockSize + recomputed * BlockSize = h * BlockSize
      <4>1. (full - pad) * BlockSize + recomputed * BlockSize
              = ((full - pad) + recomputed) * BlockSize
        BY <1>1, <1>9, <3>1, <3>3
      <4> QED BY <3>2, <4>1
    <3>5. Larger(0, h * BlockSize) = h * BlockSize
      <4>1. h * BlockSize \in Nat
        BY <1>1
      <4> QED BY <4>1 DEF Larger
    <3> QED BY <1>7, <1>10, <3>1, <3>4, <3>5
  <2> QED BY <1>1, <2>2, <2>3
<1>11. ASSUME f < c
       PROVE  PrefillInput(r, s).write = ChunkStart(p, c)
  <2>1. recomputed = 0 /\ c > 0
    BY <1>2, <1>3, <1>6, <1>11
  <2>2. ChunkStart(p, c) + recomputed * BlockSize = ChunkStart(p, c)
    BY <1>1, <1>8, <2>1
  <2> QED BY <1>7, <1>8, <2>1, <2>2 DEF Larger
<1> QED BY <1>10, <1>11 DEF h, c, f

\* Tokens counted once the step that starts at block k is scheduled.
CountAfter(p, k) == k * BlockSize + Smaller(p - k * BlockSize, ChunkSize)

\* `have` tokens are stored: those of the cached blocks, when the prefill starts,
\* or the chunks before that of the next block.
Stores(s, p, k, have) ==
  \/ k = s.total_hit /\ have = k * BlockSize
  \/ /\ ChunkOf(p, s.total_hit) < ChunkOf(p, k)
     /\ have = ChunkStart(p, ChunkOf(p, k))

(***************************************************************************)
(* The chunk of a first step, or of a later one that is past the cached    *)
(* blocks, is well formed, and what is stored grows by it without a gap:   *)
(* to its end, or to the end of the prompt when the scheduler counts that. *)
(***************************************************************************)
LEMMA ChunkInput ==
  ASSUME NEW r, NEW s, NEW p, NEW k, Counts(s, p, k), NEW have, Stores(s, p, k, have)
  PROVE  LET input == PrefillInput(r, s)
         IN /\ input.kind = "prefill" /\ input.reqs = {r}
            /\ input.chunk = ChunkOf(p, k) /\ input.chunk < s.chunk_count
            /\ input.first < input.last
            /\ input.write >= s.total_hit * BlockSize
            /\ BlocksFor(CountAfter(p, k)) <= s.num_blocks =>
                 input.table = (input.chunk + 1) * ChunkBlocks
            /\ StoredAfter(have, input) =
                 IF CountAfter(p, k) < p THEN ChunkStart(p, ChunkOf(p, k) + 1) ELSE p
<1> DEFINE h == s.total_hit
           c == ChunkOf(p, k)
           input == PrefillInput(r, s)
           count == CountAfter(p, k)
           here == k * BlockSize
           pad == PaddingBlocks(p)
           start == ChunkStart(p, c)
           end == ChunkStart(p, c + 1)
<1>1. /\ p \in Nat \ {0} /\ k \in Nat /\ here < p /\ here \in Nat
      /\ h \in Nat /\ h * BlockSize < p /\ h * BlockSize \in Nat
      /\ s.padding_blocks = pad /\ s.chunk_count = ChunkCount(p)
      /\ s.prompt_len = p /\ s.num_blocks \in Int
      /\ BlockSize \in Nat \ {0} /\ ChunkBlocks \in Nat \ {0} /\ ChunkSize \in Nat \ {0}
  BY BlockAssumption, ChunkSizeType DEF Counts, Plan, PossibleHit, RequestStates
<1>2. /\ c \in Nat /\ c < ChunkCount(p)
      /\ count < p <=> c + 1 < ChunkCount(p)
      /\ count < p => count = (k + ChunkBlocks) * BlockSize /\ end < p
      /\ ~(count < p) => count = p /\ p <= end
  BY <1>1, ChunkEnd DEF CountAfter
<1>3. /\ start \in Int /\ end = start + ChunkSize /\ end \in Int /\ start < p
      /\ c > 0 => start > 0
      /\ ChunkStart(p, 0) <= 0
  BY <1>1, <1>2, ChunkEdges
<1>4. /\ start <= here /\ here < end
      /\ ChunkOf(p, h) < c => h * BlockSize < start
  BY <1>1, <1>2, ChunkHolds
<1>5. ChunkIndex(s) = c /\ ChunkBase(s) = start
  BY PickedChunk
<1>6. /\ input.kind = "prefill" /\ input.reqs = {r} /\ input.chunk = c
      /\ input.first = IF c = 0 THEN 0 ELSE start
      /\ input.last = Smaller(end, p)
      /\ input.table = Smaller(pad + s.num_blocks, (c + 1) * ChunkBlocks)
  BY <1>1, <1>3, <1>5 DEF PrefillInput
<1>7. \/ k = h /\ have = here /\ input.write = here
      \/ ChunkOf(p, h) < c /\ have = start /\ input.write = start
  BY WriteStart DEF Stores
<1>8. input.last = IF count < p THEN end ELSE p
  BY <1>1, <1>2, <1>3, <1>6 DEF Smaller
<1>9. BlocksFor(count) <= s.num_blocks => input.table = (c + 1) * ChunkBlocks
  <2> DEFINE full == c * ChunkBlocks
  <2>1. /\ pad \in Nat /\ pad + BlocksFor(p) = ChunkCount(p) * ChunkBlocks
        /\ BlocksFor(p) \in Nat /\ ChunkCount(p) \in Int
    BY <1>1, PlanBlocks
  <2>2. full \in Nat /\ full <= pad + k /\ (c + 1) * ChunkBlocks = full + ChunkBlocks
    BY <1>1, <1>2, BlocksBefore, ChunkPlace
  <2>3. pad + BlocksFor(count) >= (c + 1) * ChunkBlocks /\ BlocksFor(count) \in Int
    <3>1. CASE count < p
      <4>1. BlocksFor(count) = k + ChunkBlocks
        <5>1. k + ChunkBlocks \in Int /\ count = (k + ChunkBlocks) * BlockSize
              /\ (k + ChunkBlocks) * BlockSize \in Int
          BY <1>1, <1>2, <3>1
        <5>2. BlocksFor((k + ChunkBlocks) * BlockSize) = k + ChunkBlocks
          BY <1>1, <5>1, BlocksForUnique
        <5> QED BY <5>1, <5>2
      <4> HIDE DEF full, pad, count, c
      <4> QED BY <1>1, <2>1, <2>2, <4>1
    <3>2. CASE ~(count < p)
      <4>1. count = p /\ (c + 1) * ChunkBlocks <= ChunkCount(p) * ChunkBlocks
        BY <1>1, <1>2, <2>1, <3>2, ProductMonotonic
      <4>2. (c + 1) * ChunkBlocks \in Int
        BY <1>1, <1>2
      <4> HIDE DEF full, pad, count, c
      <4> QED BY <2>1, <4>1, <4>2
    <3> QED BY <3>1, <3>2
  <2> DEFINE room == (c + 1) * ChunkBlocks
             held == s.num_blocks
             needed == BlocksFor(count)
  <2>4. room \in Int /\ held \in Int
    BY <1>1, <1>2
  <2>5. input.table = Smaller(pad + held, room)
    BY <1>6
  <2>6. pad + needed >= room /\ needed \in Int /\ pad \in Int
    BY <2>1, <2>3
  <2> HIDE DEF room, held, needed, pad, input
  <2>7. needed <= held => input.table = room
    BY <2>4, <2>5, <2>6 DEF Smaller
  <2> QED BY <2>7 DEF room, held, needed
<1> HIDE DEF h, c, input, count, here, start, end
<1>10. input.first < input.last
  BY <1>1, <1>2, <1>3, <1>4, <1>6, <1>8
<1>11. input.write >= h * BlockSize
  BY <1>1, <1>3, <1>4, <1>7 DEF here
<1>12. StoredAfter(have, input) = IF count < p THEN end ELSE p
  <2>1. have = input.write /\ have \in Int /\ have <= input.last /\ input.last \in Int
    BY <1>1, <1>2, <1>3, <1>4, <1>7, <1>8
  <2> QED BY <1>1, <1>8, <2>1 DEF StoredAfter, Larger
<1> QED BY <1>1, <1>2, <1>6, <1>9, <1>10, <1>11, <1>12 DEF h, c, input, count, end

(***************************************************************************)
(* The correction for padding applies to the first chunk of a prompt whose *)
(* cached blocks were none; every other chunk but the last ends where the  *)
(* scheduler counts that it does. Either way the next block counted is in  *)
(* the next chunk.                                                         *)
(***************************************************************************)
LEMMA NextCount ==
  ASSUME NEW s, NEW p, NEW k, Counts(s, p, k), CountAfter(p, k) < p,
         k = s.total_hit \/ ChunkOf(p, s.total_hit) < ChunkOf(p, k)
  PROVE  LET n    == CountAfter(p, k)
             next == IF n <= ChunkSize
                       THEN AdjustComputedTokens(n, LeftPadding(s),
                                                 s.usable_blocks * BlockSize)
                       ELSE n
         IN \E j \in Nat : /\ next = j * BlockSize
                           /\ ChunkOf(p, s.total_hit) < ChunkOf(p, j)
                           /\ ChunkOf(p, j) = ChunkOf(p, k) + 1
<1> DEFINE h == s.total_hit
           c == ChunkOf(p, k)
           n == CountAfter(p, k)
           pad == PaddingBlocks(p)
           next == IF n <= ChunkSize
                     THEN AdjustComputedTokens(n, LeftPadding(s),
                                               s.usable_blocks * BlockSize)
                     ELSE n
           Follows(j) == /\ next = j * BlockSize
                         /\ ChunkOf(p, h) < ChunkOf(p, j)
                         /\ ChunkOf(p, j) = c + 1
<1>1. /\ p \in Nat \ {0} /\ k \in Nat /\ k * BlockSize < p /\ PossibleHit(p, h)
      /\ s.padding_blocks = pad /\ s.usable_blocks = UsableBlocks(p, h)
  BY DEF Counts, Plan
<1>2. c \in Nat /\ n = (k + ChunkBlocks) * BlockSize /\ ChunkOf(p, k + ChunkBlocks) = c + 1
  BY <1>1, ChunkEnd DEF CountAfter
<1>3. /\ ChunkOf(p, h) \in Nat
      /\ h \in Nat
      /\ h = 0 => ChunkOf(p, h) = 0 /\ UsableBlocks(p, h) = 0
  BY <1>1, CachedPlan DEF PossibleHit
<1>4. pad \in Nat /\ pad < ChunkBlocks /\ BlockSize \in Nat \ {0} /\ ChunkBlocks \in Nat \ {0}
  BY <1>1, PlanBlocks, BlockAssumption
<1>5. ChunkOf(p, h) <= c
  <2>1. k = h \/ ChunkOf(p, h) < c
    OBVIOUS
  <2> HIDE DEF h, c
  <2> QED BY <1>2, <1>3, <2>1 DEF c
<1> HIDE DEF c, h, pad
<1>6. ASSUME n > ChunkSize PROVE \E j \in Nat : Follows(j)
  <2>1. next = (k + ChunkBlocks) * BlockSize
    <3>1. n \in Int
      BY <1>1, <1>2, <1>4
    <3> HIDE DEF n
    <3>2. ~(n <= ChunkSize)
      BY <1>6, <3>1, ChunkSizeType
    <3> QED BY <1>2, <3>2
  <2>2. k + ChunkBlocks \in Nat
    BY <1>1, <1>4
  <2> HIDE DEF next, n
  <2> QED BY <1>2, <1>3, <1>5, <2>1, <2>2
<1>7. ASSUME n <= ChunkSize PROVE \E j \in Nat : Follows(j)
  <2>1. k = 0
    <3>1. (k + ChunkBlocks) * BlockSize = k * BlockSize + ChunkSize
      BY <1>1, <1>4 DEF ChunkSize
    <3>2. k > 0 => k * BlockSize >= BlockSize
      BY <1>1, <1>4
    <3>3. k * BlockSize \in Int
      BY <1>1, <1>4
    <3> QED BY <1>1, <1>2, <1>4, <1>7, <3>1, <3>2, <3>3, ChunkSizeType
  <2>2. c = 0
    <3>1. pad \div ChunkBlocks = 0
      BY <1>4, DivUnique
    <3> QED BY <1>4, <2>1, <3>1 DEF c, ChunkOf, pad
  <2>3. h = 0
    BY <1>2, <1>3, <2>1, <2>2 DEF h, c
  <2>4. s.usable_blocks * BlockSize = 0 /\ LeftPadding(s) = pad * BlockSize
    BY <1>1, <1>3, <1>4, <2>3 DEF LeftPadding
  <2>5. n = ChunkBlocks * BlockSize /\ n \in Nat /\ pad * BlockSize \in Int
    BY <1>2, <1>4, <2>1
  <2>6. next = ChunkBlocks * BlockSize - pad * BlockSize
    BY <1>7, <2>4, <2>5 DEF AdjustComputedTokens
  <2>7. ChunkBlocks - pad \in Nat
        /\ ChunkBlocks * BlockSize - pad * BlockSize = (ChunkBlocks - pad) * BlockSize
    BY <1>4
  <2>8. ChunkOf(p, ChunkBlocks - pad) = 1
    <3>1. pad + (ChunkBlocks - pad) = ChunkBlocks /\ ChunkBlocks \div ChunkBlocks = 1
      BY <1>4, DivUnique
    <3> QED BY <3>1 DEF ChunkOf, pad
  <2>9. ChunkOf(p, h) < ChunkOf(p, ChunkBlocks - pad)
    BY <1>3, <2>3, <2>8
  <2> HIDE DEF next, n
  <2> QED BY <2>2, <2>6, <2>7, <2>8, <2>9
<1>8. n \in Int
  BY <1>1, <1>2, <1>4
<1> HIDE DEF n, next, Follows
<1>9. \E j \in Nat : Follows(j)
  BY <1>6, <1>7, <1>8, ChunkSizeType
<1> QED BY <1>9 DEF h, c, n, next, Follows

-----------------------------------------------------------------------------
\* There is no prefill when the engine starts.
LEMMA InitChunked == Init => Chunked
BY DEF Init, SchedInit, RunnerInit, NoInput, Chunked, PlanInv, StartInv, ReachInv,
  PrefillComplete, InputInv

\* A request that arrives is not the one that prefills.
LEMMA ArriveChunked ==
  ASSUME Bookkeeping, Chunked, NEW r \in Requests, NEW p \in PromptLens,
         NEW m \in OutputLens, Arrive(r, p, m)
  PROVE  Chunked'
<1>1. /\ prompt_len' = [prompt_len EXCEPT ![r] = p] /\ prompt_len[r] = 0
      /\ phase = "idle" /\ phase' = phase
      /\ UNCHANGED <<num_computed, ongoing, cached, requests, input_batch, stored,
                     model_input, scheduler_output>>
  BY DEF Arrive, AddRequest, runnerVars, kvVars
<1>2. \A q \in ongoing : q \in Requests /\ q # r
  BY <1>1, EngineTypes DEF Bookkeeping, Lists, QueueInv, Unstarted
<1>3. \A q \in ongoing : prompt_len'[q] = prompt_len[q]
  BY <1>1, <1>2 DEF Bookkeeping, Types, SchedTypeOK
<1>4. PlanInv'
  BY <1>1, <1>3 DEF Chunked, PlanInv, Planned
<1>5. ReachInv'
  BY <1>1, <1>3 DEF Chunked, ReachInv, Reached
<1> QED BY <1>1, <1>4, <1>5 DEF Chunked, StartInv, PrefillComplete, InputInv

\* An aborted prefill leaves the list; the runner's inputs stay what they were.
LEMMA AbortChunked ==
  ASSUME Chunked, NEW r \in Requests, Abort(r)
  PROVE  Chunked'
<1>1. /\ ongoing' = ongoing \ {r}
      /\ phase \in {"idle", "executed"} /\ phase' = phase
      /\ UNCHANGED <<prompt_len, num_computed, cached, requests, input_batch, stored,
                     model_input, model_output, scheduler_output>>
  BY DEF Abort, FinishRequest, Free, OngoingWithout, requestVars, runnerVars
<1>2. \A q \in ongoing' : q \in ongoing /\ ComputedAfter(q)' = ComputedAfter(q)
  BY <1>1 DEF ComputedAfter
<1>3. PlanInv'
  BY <1>1 DEF Chunked, PlanInv, Planned
<1>4. ReachInv'
  BY <1>1, <1>2 DEF Chunked, ReachInv, Reached
<1> QED BY <1>1, <1>3, <1>4 DEF Chunked, StartInv, PrefillComplete, InputInv

\* A step starts new prefills at whole blocks and goes on with the others.
LEMMA ScheduleChunked ==
  ASSUME Bookkeeping, Agreement, Blocks, Chunked, Bookkeeping', ScheduleStep
  PROVE  Chunked'
<1> DEFINE so == scheduler_output'
<1>1. /\ phase = "idle" /\ phase' = "scheduled"
      /\ UNCHANGED <<prompt_len, requests, input_batch, stored, model_input>>
      /\ ongoing' = ongoing \cup so.new
      /\ \A r \in Requests \ so.new : num_computed'[r] = num_computed[r] + so.tokens[r]
  BY ScheduleMoves DEF runnerVars
<1>2. /\ \A r \in so.new :
           \E h \in Nat : /\ so.computed[r] = h * BlockSize
                          /\ h * BlockSize < prompt_len[r]
                          /\ 1 .. h \subseteq cached
      /\ \A r \in ongoing : so.tokens[r] >= 0
  BY ScheduleStarts
<1>3. PlanInv'
  BY <1>1 DEF Chunked, PlanInv, Planned
<1>4. StartInv'
  <2>1. ASSUME NEW r \in so.new, NEW h \in Nat, h * BlockSize < prompt_len[r],
               1 .. h \subseteq cached
        PROVE  PossibleHit(prompt_len[r], h)
    <3>1. h > 0 => 1 \in cached
      BY <2>1
    <3> QED BY <2>1, <3>1 DEF PossibleHit, Blocks, CacheInv
  <2> QED BY <1>1, <1>2, <2>1 DEF StartInv
<1>5. ReachInv'
  <2>1. ASSUME NEW r \in ongoing', r \notin so.new
        PROVE  /\ Reached(r, num_computed[r])
               /\ (IF r \in so.cached THEN so.computed[r] ELSE num_computed'[r])
                    = num_computed[r]
    <3>1. r \in ongoing /\ r \in Requests
      BY <1>1, <2>1, EngineTypes
    <3>2. Reached(r, num_computed[r])
      BY <1>1, <3>1 DEF Chunked, ReachInv
    <3>3. /\ r \in so.new \cup so.cached <=> so.tokens[r] > 0
          /\ r \in so.cached => so.computed[r] + so.tokens[r] = num_computed'[r]
      BY <1>1, <3>1 DEF Bookkeeping, Lists, ScheduledInv
    <3>4. num_computed'[r] = num_computed[r] + so.tokens[r] /\ so.tokens[r] >= 0
      BY <1>1, <1>2, <2>1, <3>1
    <3>5. num_computed[r] \in Int /\ so.tokens[r] \in Int /\ so.computed[r] \in Int
      BY <3>1 DEF Bookkeeping, Types, SchedTypeOK, OutputsTypeOK, SchedulerOutputs
    <3> QED BY <2>1, <3>2, <3>3, <3>4, <3>5
  <2> HIDE DEF so
  <2>2. ASSUME NEW r \in ongoing', r \notin so.new
        PROVE  \E k \in Nat :
                 /\ (IF r \in so.cached THEN so.computed[r] ELSE num_computed'[r])
                      = k * BlockSize
                 /\ ChunkOf(prompt_len'[r], requests'[r].total_hit)
                      < ChunkOf(prompt_len'[r], k)
                 /\ stored'[r] = ChunkStart(prompt_len'[r], ChunkOf(prompt_len'[r], k))
    BY <1>1, <2>1, <2>2 DEF Reached
  <2> QED BY <1>1, <2>2 DEF ReachInv, Reached, so
<1> QED BY <1>1, <1>3, <1>4, <1>5 DEF Chunked, PrefillComplete, InputInv

(***************************************************************************)
(* The state a prefill works with: a new request starts behind its cached  *)
(* blocks, an ongoing one where its last chunk ended.                      *)
(***************************************************************************)
LEMMA ChunkCounts ==
  ASSUME Bookkeeping, Agreement, Chunked, phase = "scheduled",
         NEW q \in Requests, PrefillPlan(q)
  PROVE  \E k \in Nat :
           /\ Counts(StateFor(q), prompt_len[q], k)
           /\ num_computed[q] = CountAfter(prompt_len[q], k)
           /\ Stores(StateFor(q), prompt_len[q], k, StoredBefore(q))
<1> DEFINE p == prompt_len[q]
           so == scheduler_output
<1>1. /\ ongoing = {q}
      /\ \/ so.new = {q} /\ so.cached = {}
         \/ so.new = {} /\ so.cached = {q}
      /\ so.computed[q] < p
      /\ so.tokens[q] = Smaller(p - so.computed[q], ChunkSize)
      /\ 0 <= so.computed[q]
  BY DEF PrefillPlan
<1>2. p \in Nat \ {0} /\ so.computed[q] \in Int
  BY <1>1, EngineTypes
<1>3. /\ StateFor(q) \in RequestStates /\ StateFor(q).prompt_len = p
      /\ StateFor(q).num_computed = so.computed[q]
  BY ChunkState
<1>4. so.computed[q] + so.tokens[q] = num_computed[q]
  BY <1>1 DEF Bookkeeping, Lists, ScheduledInv
<1>5. ASSUME NEW k \in Nat, so.computed[q] = k * BlockSize, Plan(StateFor(q), p)
      PROVE  /\ Counts(StateFor(q), p, k)
             /\ num_computed[q] = CountAfter(p, k)
  <2>1. k * BlockSize < p
    BY <1>1, <1>5
  <2>2. num_computed[q] = k * BlockSize + Smaller(p - k * BlockSize, ChunkSize)
    BY <1>1, <1>4, <1>5
  <2> HIDE DEF p, so
  <2> QED BY <1>2, <1>3, <1>5, <2>1, <2>2 DEF Counts, CountAfter
<1>6. CASE so.new = {q}
  <2>1. PICK h \in Nat : so.computed[q] = h * BlockSize /\ PossibleHit(p, h)
    BY <1>6 DEF Chunked, StartInv
  <2>2. StateFor(q) = NewRequest(so.prompt[q], so.computed[q], so.new_blocks[q])
        /\ so.prompt[q] = p
    BY <1>6 DEF StateFor, Bookkeeping, Lists, ScheduledInv
  <2>3. (IF PrefixCaching THEN so.computed[q] \div BlockSize ELSE 0) = h
    <3>1. so.computed[q] \div BlockSize = h
      <4>1. h * BlockSize \in Int /\ BlockSize \in Nat \ {0}
        BY BlockAssumption
      <4> QED BY <2>1, <4>1, DivUnique
    <3> QED BY <2>1, <3>1 DEF PossibleHit
  <2> HIDE DEF p, so
  <2>4. Plan(StateFor(q), p) /\ StateFor(q).total_hit = h
    BY <2>1, <2>2, <2>3 DEF NewRequest, Plan
  <2>5. StoredBefore(q) = h * BlockSize
    BY <1>6, <2>1 DEF StoredBefore, so
  <2> QED BY <1>5, <2>1, <2>4, <2>5 DEF p, Stores
<1>7. CASE so.new = {} /\ so.cached = {q}
  <2>1. Reached(q, so.computed[q]) /\ Planned(q)
    BY <1>1, <1>7 DEF Chunked, ReachInv, PlanInv
  <2>2. PICK k \in Nat :
          /\ so.computed[q] = k * BlockSize
          /\ ChunkOf(p, requests[q].total_hit) < ChunkOf(p, k)
          /\ stored[q] = ChunkStart(p, ChunkOf(p, k))
    BY <2>1 DEF Reached
  <2>3. requests[q] \in RequestStates
    BY EngineTypes
  <2>4. /\ StateFor(q).padding_blocks = requests[q].padding_blocks
        /\ StateFor(q).chunk_count = requests[q].chunk_count
        /\ StateFor(q).usable_blocks = requests[q].usable_blocks
        /\ StateFor(q).total_hit = requests[q].total_hit
    BY <1>7, <2>3 DEF StateFor, UpdatedRequests, RequestStates
  <2>5. Plan(StateFor(q), p) /\ StoredBefore(q) = stored[q]
    BY <1>7, <2>1, <2>4 DEF Planned, Plan, StoredBefore
  <2> HIDE DEF p, so
  <2> QED BY <1>5, <2>2, <2>4, <2>5 DEF p, Stores
<1> QED BY <1>1, <1>6, <1>7

\* What a prefill leaves behind for the next chunk, or for the first decode step.
LEMMA ChunkMoves ==
  ASSUME Bookkeeping, Agreement, Blocks, Chunked, phase = "scheduled",
         NEW q \in Requests, Chunks(q),
         UNCHANGED <<prompt_len, num_computed, ongoing, scheduler_output>>
  PROVE  /\ requests'[q].prompt_len = prompt_len[q]
         /\ Plan(requests'[q], prompt_len[q])
         /\ InputInv'
         /\ \A r \in Requests : r # q => stored'[r] = stored[r]
         /\ num_computed[q] = prompt_len[q] => stored'[q] = prompt_len[q]
         /\ num_computed[q] # prompt_len[q] => Reached(q, ComputedAfter(q))'
<1> DEFINE p == prompt_len[q]
           s == StateFor(q)
           input == PrefillInput(q, s)
           have == StoredBefore(q)
<1>1. PICK k \in Nat :
        /\ Counts(s, p, k)
        /\ num_computed[q] = CountAfter(p, k)
        /\ Stores(s, p, k, have)
  BY ChunkCounts DEF Chunks
<1>2. /\ ongoing = {q} /\ q \in running
      /\ requests'[q] = s
      /\ model_input' = input
      /\ stored' = [stored EXCEPT ![q] = StoredAfter(have, input)]
  BY ChunkOthers, EngineTypes DEF Chunks, Prefill, PrefillPlan
<1>3. stored' = [r \in Requests |-> IF r = q THEN StoredAfter(have, input) ELSE stored[r]]
  BY <1>2 DEF Bookkeeping, Types, RunnerTypeOK
<1>4. BlocksFor(num_computed[q]) <= s.num_blocks
  <2>1. s.num_blocks = Listed(q)
    BY ChunkState DEF Chunks
  <2>2. Listed(q) = kv_blocks[q] /\ BlocksFor(num_computed[q]) <= kv_blocks[q]
    BY <1>2 DEF Blocks, CopyInv, HeldInv
  <2> QED BY <2>1, <2>2
<1>5. /\ model_output'.left_padding[q] = LeftPadding(s)
      /\ num_computed[q] < p => model_output'.prefix_hit[q] = s.usable_blocks * BlockSize
  <2>1. q \in BatchFor(q)
    BY <1>2 DEF BatchFor, Agreement, PrefillBatchInv
  <2>2. IsIncomplete(q, s) <=> num_computed[q] < p
    <3>1. scheduler_output.computed[q] + scheduler_output.tokens[q] = num_computed[q]
      BY DEF Chunks, PrefillPlan, Bookkeeping, Lists, ScheduledInv
    <3>2. s.prompt_len = p
      BY ChunkState DEF Chunks
    <3> QED BY <3>1, <3>2 DEF IsIncomplete
  <2> HIDE DEF s
  <2>3. /\ model_output'.left_padding =
             [r \in Requests |-> IF r \in BatchFor(q) THEN LeftPadding(requests'[r]) ELSE 0]
        /\ model_output'.prefix_hit =
             [r \in Requests |-> IF r \in BatchFor(q) /\ IsIncomplete(q, s)
                                   THEN requests'[r].usable_blocks * BlockSize ELSE 0]
    BY DEF Chunks, Prefill, s
  <2> QED BY <1>2, <2>1, <2>2, <2>3
<1>6. s.prompt_len = p /\ Plan(s, p) /\ p \in Nat \ {0} /\ k * BlockSize < p
  BY <1>1 DEF Counts
<1> HIDE DEF s, have, p
<1>7. /\ input.kind = "prefill" /\ input.reqs = {q}
      /\ input.chunk < s.chunk_count
      /\ input.first < input.last
      /\ input.write >= s.total_hit * BlockSize
      /\ input.table = (input.chunk + 1) * ChunkBlocks
      /\ StoredAfter(have, input) =
           IF CountAfter(p, k) < p THEN ChunkStart(p, ChunkOf(p, k) + 1) ELSE p
  <2>1. BlocksFor(CountAfter(p, k)) <= s.num_blocks
    BY <1>1, <1>4
  <2> QED BY <1>1, <2>1, ChunkInput
<1>8. CountAfter(p, k) < p \/ CountAfter(p, k) = p
  BY <1>6, ChunkEnd DEF CountAfter
<1> HIDE DEF input
<1>9. InputInv'
  BY <1>2, <1>7 DEF InputInv
<1>10. ASSUME num_computed[q] < p
       PROVE  Reached(q, ComputedAfter(q))'
  <2> DEFINE n == CountAfter(p, k)
             next == IF n <= ChunkSize
                       THEN AdjustComputedTokens(n, LeftPadding(s), s.usable_blocks * BlockSize)
                       ELSE n
  <2>1. PICK j \in Nat : /\ next = j * BlockSize
                         /\ ChunkOf(p, s.total_hit) < ChunkOf(p, j)
                         /\ ChunkOf(p, j) = ChunkOf(p, k) + 1
    BY <1>1, <1>10, NextCount DEF Stores
  <2>2. num_computed[q] # p /\ num_computed[q] = n
    BY <1>1, <1>6, <1>10, EngineTypes
  <2> HIDE DEF next, n
  <2>3. ComputedAfter(q)' = next
    BY <1>2, <1>5, <1>10, <2>2 DEF ComputedAfter, next, p
  <2>4. stored'[q] = ChunkStart(p, ChunkOf(p, j))
    BY <1>1, <1>3, <1>7, <1>10, <2>1
  <2>5. requests'[q].total_hit = s.total_hit /\ prompt_len'[q] = p
    BY <1>2 DEF p
  <2> QED BY <2>1, <2>3, <2>4, <2>5 DEF Reached
<1>11. num_computed[q] = p => stored'[q] = p
  BY <1>1, <1>3, <1>6, <1>7
<1> QED BY <1>1, <1>2, <1>3, <1>6, <1>8, <1>9, <1>10, <1>11 DEF p

\* The chunk that was scheduled is computed, or a parked prefill stays parked.
LEMMA ExecuteChunked ==
  ASSUME Bookkeeping, Agreement, Blocks, Chunked, Bookkeeping', Agreement', ExecuteStep
  PROVE  Chunked'
<1>1. /\ phase = "scheduled" /\ phase' = "executed"
      /\ UNCHANGED <<prompt_len, num_computed, running, ongoing, cached, scheduler_output>>
      /\ Idles \/ (\E q \in Requests : Chunks(q)) \/ Decodes
  BY ExecuteMoves DEF schedVars, requestVars, queueVars, kvVars
<1>2. /\ StartInv'
      /\ \A r \in running : r \in Requests
      /\ \A r \in ongoing : r \in running /\ r \notin Decoding
      /\ RemainingBatch = Decoding
  BY <1>1, EngineTypes DEF StartInv, Chunked, Decoding, Agreement, BatchInv
<1>3. ASSUME stored' = stored,
             \A r \in Requests \ Decoding : requests'[r] = requests[r],
             scheduler_output.new = {}, scheduler_output.cached \subseteq Decoding,
             input_batch' = Decoding, model_input'.kind = "decode" \/ UNCHANGED model_input,
             \A r \in Requests : /\ model_output'.left_padding[r] = 0 \/ r \in Decoding
                                 /\ model_output'.prefix_hit[r] = 0,
             model_input'.kind = "decode" \/ Decoding = {}
      PROVE  Chunked'
  <2>1. \A r \in ongoing : requests'[r] = requests[r] /\ Planned(r)
    BY <1>1, <1>2, <1>3 DEF Chunked, PlanInv
  <2>2. PlanInv'
    BY <1>1, <2>1 DEF PlanInv, Planned
  <2>3. ASSUME NEW r \in ongoing
        PROVE  Reached(r, num_computed[r]) /\ ComputedAfter(r)' = num_computed[r]
               /\ num_computed[r] # prompt_len[r]
    <3>1. r \in Requests /\ r \notin scheduler_output.cached /\ r \notin scheduler_output.new
      BY <1>2, <1>3, <2>3
    <3>2. Reached(r, num_computed[r])
      BY <1>1, <2>3, <3>1 DEF Chunked, ReachInv
    <3>3. model_output'.left_padding[r] = 0 /\ model_output'.prefix_hit[r] = 0
      BY <1>2, <1>3, <2>3, <3>1
    <3>4. num_computed[r] \in Int /\ num_computed[r] >= 0
      BY <3>1, EngineTypes DEF Agreement, TokenInv
    <3>5. num_computed[r] # prompt_len[r]
      <4>1. scheduler_output.tokens[r] = 0 \/ scheduler_output.tokens[r] < 0
        BY <1>1, <3>1, EngineTypes DEF Bookkeeping, Lists, ScheduledInv
      <4>2. PrefillOutput(r)'
        BY <1>1, <2>3 DEF Agreement, StepInv
      <4> QED BY <1>1, <3>1, <3>4, <4>1, <4>2, EngineTypes DEF PrefillOutput, Parked
    <3>6. ComputedAfter(r)' = num_computed[r]
      BY <1>1, <3>3, <3>4 DEF ComputedAfter, AdjustComputedTokens
    <3> QED BY <3>2, <3>5, <3>6
  <2>4. ReachInv'
    BY <1>1, <1>3, <2>1, <2>3 DEF ReachInv, Reached
  <2>5. PrefillComplete'
    <3>1. ASSUME NEW r \in Decoding
          PROVE  stored[r] = requests'[r].prompt_len
      <4>1. r \in running /\ r \in input_batch
        BY <1>2, <3>1 DEF Decoding, RemainingBatch
      <4>2. stored[r] = requests[r].prompt_len
        BY <4>1 DEF Chunked, PrefillComplete
      <4>3. requests[r].prompt_len = prompt_len[r] /\ requests'[r].prompt_len = prompt_len[r]
        BY <1>1, <1>3, <4>1 DEF Bookkeeping, Lists, KnownInv
      <4> QED BY <4>2, <4>3
    <3> QED BY <1>3, <3>1 DEF PrefillComplete
  <2>6. InputInv'
    <3>1. CASE model_input'.kind = "decode"
      BY <3>1 DEF InputInv
    <3>2. CASE Decoding = {} /\ UNCHANGED model_input
      <4>1. ASSUME model_input.kind = "prefill", NEW r \in model_input.reqs
            PROVE  requests'[r] = requests[r]
        <5>1. r \in Requests
          BY <4>1 DEF Bookkeeping, Types, RunnerTypeOK, ModelInputs
        <5> QED BY <1>3, <3>2, <5>1
      <4> QED BY <3>2, <4>1 DEF Chunked, InputInv
    <3> QED BY <1>3, <3>1, <3>2
  <2> QED BY <1>2, <2>2, <2>4, <2>5, <2>6 DEF Chunked
<1>4. CASE Idles
  <2>1. /\ stored' = stored /\ requests' = requests /\ model_input' = model_input
        /\ scheduler_output.new = {} /\ scheduler_output.cached = {} /\ Decoding = {}
        /\ input_batch' = Decoding /\ model_output' = EmptyOutput
    BY <1>2, <1>4 DEF Idles, EmptyStep
  <2>2. \A r \in Requests : EmptyOutput.left_padding[r] = 0 /\ EmptyOutput.prefix_hit[r] = 0
    BY DEF EmptyOutput, Nothing
  <2> QED BY <1>3, <2>1, <2>2
<1>5. CASE Decodes
  <2>1. \A r \in Requests \ Decoding : requests'[r] = requests[r]
    BY <1>1, <1>5, DecodeRows
  <2>2. /\ stored' = stored /\ input_batch' = Decoding /\ model_input'.kind = "decode"
        /\ scheduler_output.new = {} /\ scheduler_output.cached = Decoding
        /\ \A r \in Requests : /\ model_output'.left_padding[r] = 0 \/ r \in Decoding
                               /\ model_output'.prefix_hit[r] = 0
    BY <1>5 DEF Decodes, DecodeStep, DecodeInput, Nothing
  <2> QED BY <1>3, <2>1, <2>2
<1>6. ASSUME NEW q \in Requests, Chunks(q) PROVE Chunked'
  <2>1. /\ requests'[q].prompt_len = prompt_len[q]
        /\ Plan(requests'[q], prompt_len[q])
        /\ InputInv'
        /\ \A r \in Requests : r # q => stored'[r] = stored[r]
        /\ num_computed[q] = prompt_len[q] => stored'[q] = prompt_len[q]
        /\ num_computed[q] # prompt_len[q] => Reached(q, ComputedAfter(q))'
    BY <1>1, <1>6, ChunkMoves
  <2>2. ongoing' = {q} /\ ongoing = {q}
    BY <1>1, <1>6 DEF Chunks, PrefillPlan
  <2>3. PlanInv'
    BY <1>1, <2>1, <2>2 DEF PlanInv, Planned
  <2>4. ReachInv'
    BY <1>1, <2>1, <2>2 DEF ReachInv
  <2>5. PrefillComplete'
    <3>1. ASSUME NEW r \in input_batch', r # q
          PROVE  stored'[r] = requests'[r].prompt_len
      <4>1. r \in input_batch /\ r \in Requests
        BY <1>6, <3>1 DEF Chunks, Prefill, RemainingBatch, Bookkeeping, Types, RunnerTypeOK
      <4>2. requests'[r] = requests[r]
        BY <1>1, <1>6, <3>1, <4>1, ChunkOthers
      <4> QED BY <2>1, <3>1, <4>1, <4>2 DEF Chunked, PrefillComplete
    <3>2. q \in input_batch' => num_computed[q] = prompt_len[q]
      BY <1>1, <2>2 DEF Bookkeeping, Lists, JoinInv
    <3> QED BY <2>1, <3>1, <3>2 DEF PrefillComplete
  <2> QED BY <1>2, <2>1, <2>3, <2>4, <2>5 DEF Chunked
<1> QED BY <1>1, <1>4, <1>5, <1>6

\* The corrected count is where the next chunk starts; a complete prefill leaves.
LEMMA UpdateChunked ==
  ASSUME Bookkeeping, Agreement, Chunked, UpdateStep
  PROVE  Chunked'
<1>1. /\ num_computed' = [r \in Requests |-> ComputedAfter(r)]
      /\ ongoing' = {r \in ongoing : ComputedAfter(r) < prompt_len[r]}
      /\ UNCHANGED <<prompt_len, cached, requests, input_batch, stored, model_input>>
      /\ phase = "executed" /\ phase' = "idle"
  BY DEF UpdateStep, UpdateFromOutput, runnerVars
<1>2. ASSUME NEW r \in ongoing'
      PROVE  /\ r \in Requests /\ r \in ongoing
             /\ Reached(r, ComputedAfter(r))
             /\ num_computed'[r] = ComputedAfter(r)
  <2>1. r \in ongoing /\ r \in Requests /\ ComputedAfter(r) < prompt_len[r]
    BY <1>1, <1>2, EngineTypes
  <2>2. num_computed[r] # prompt_len[r]
    BY <2>1, EngineTypes DEF ComputedAfter
  <2>3. Reached(r, ComputedAfter(r))
    BY <1>1, <2>1, <2>2 DEF Chunked, ReachInv
  <2> QED BY <1>1, <2>1, <2>3
<1>3. PlanInv'
  BY <1>1, <1>2 DEF Chunked, PlanInv, Planned
<1>4. ReachInv'
  BY <1>1, <1>2 DEF ReachInv, Reached
<1> QED BY <1>1, <1>3, <1>4 DEF Chunked, StartInv, PrefillComplete, InputInv
-----------------------------------------------------------------------------
\* Every step keeps the chunks in their places.
LEMMA NextChunked ==
  ASSUME Bookkeeping, Agreement, Blocks, Chunked, [Next]_vars
  PROVE  Chunked'
<1>1. Bookkeeping' /\ Agreement'
  BY NextBookkeeping, NextAgreement
<1>2. ASSUME NEW r \in Requests, NEW p \in PromptLens, NEW m \in OutputLens,
             Arrive(r, p, m)
      PROVE  Chunked'
  BY <1>2, ArriveChunked
<1>3. ASSUME NEW r \in Abortable, Abort(r)
      PROVE  Chunked'
  BY <1>3, AbortChunked, WorkloadAssumption
<1>4. CASE ScheduleStep
  BY <1>1, <1>4, ScheduleChunked
<1>5. CASE ExecuteStep
  BY <1>1, <1>5, ExecuteChunked
<1>6. CASE UpdateStep
  BY <1>6, UpdateChunked
<1>7. CASE UNCHANGED vars
  BY <1>7 DEF vars, schedVars, requestVars, queueVars, kvVars, runnerVars, Chunked,
    PlanInv, Planned, StartInv, ReachInv, Reached, ComputedAfter, PrefillComplete,
    InputInv
<1> QED
  BY <1>2, <1>3, <1>4, <1>5, <1>6, <1>7 DEF Next, EngineStep, Drained

(***************************************************************************)
(* The places of the chunks are an invariant of the engine, with the books *)
(* they rest on.                                                           *)
(***************************************************************************)
THEOREM ChunkedHolds == Spec => [](Bookkeeping /\ Agreement /\ Blocks /\ Chunked)
<1>1. Init => Bookkeeping /\ Agreement /\ Blocks /\ Chunked
  BY InitBookkeeping, InitAgreement, InitBlocks, InitChunked
<1>2. Bookkeeping /\ Agreement /\ Blocks /\ Chunked /\ [Next]_vars
        => (Bookkeeping /\ Agreement /\ Blocks /\ Chunked)'
  BY NextBookkeeping, NextAgreement, NextBlocks, NextChunked
<1> QED BY <1>1, <1>2, PTL DEF Spec

(***************************************************************************)
(* A request is in the decode batch only with the KV of its whole prompt   *)
(* in the cache: the runner's chunks leave no gap, though the scheduler's  *)
(* count, which decides when the prefill is over, knows nothing of them.   *)
(***************************************************************************)
THEOREM PrefillCompleteHolds == Spec => []PrefillComplete
<1>1. Chunked => PrefillComplete
  BY DEF Chunked
<1> QED BY <1>1, ChunkedHolds, PTL

(***************************************************************************)
(* The chunk the runner derives from the count is one of the prompt's, has *)
(* all its blocks in the table, holds tokens to compute and overwrites     *)
(* nothing that came from the prefix cache.                                *)
(***************************************************************************)
THEOREM ChunkWellFormedHolds == Spec => []ChunkWellFormed
<1>1. Chunked => ChunkWellFormed
  BY DEF Chunked, InputInv, ChunkWellFormed
<1> QED BY <1>1, ChunkedHolds, PTL

-----------------------------------------------------------------------------
(***************************************************************************)
(* The prefix cache. A block is published when it is scheduled, and never  *)
(* taken back: not when the request that was to fill it is aborted, nor    *)
(* when a left-padded chunk fills fewer blocks than were published.        *)
(***************************************************************************)
\* The runner has not heard of r: nothing can have been written for it.
Untold(r) == requests[r].prompt_len = 0 /\ stored[r] = 0

ToldInv ==
  /\ \A r \in Requests : Untold(r) \/ num_computed[r] > 0
  /\ phase = "scheduled" => \A r \in scheduler_output.new : Untold(r)

\* The runner's count is that of the last step: the scheduler's is ahead of it.
BehindInv ==
  \A r \in running : ~(phase = "scheduled" /\ r \in scheduler_output.new) =>
    /\ r \in ongoing => requests[r].num_computed < prompt_len[r]
    /\ r \in Decoding => requests[r].num_computed < num_computed[r]

(***************************************************************************)
(* What stands behind block b of the cache: a prefill under way that is    *)
(* going to write it, a request that has written it, or a decoding one     *)
(* whose step is scheduled.                                                *)
(***************************************************************************)
Backed(b) ==
  \/ \E q \in ongoing : b * BlockSize <= prompt_len[q]
  \/ \E q \in Requests \ ongoing : Written(q) >= b * BlockSize
  \/ /\ phase = "scheduled"
     /\ \E q \in scheduler_output.cached \cap Decoding : b * BlockSize <= num_computed[q]

BackedInv ==
  (\E q \in Requests : Abandoned(q)) \/ \A b \in cached : b > 0 /\ Backed(b)

Cached ==
  /\ ToldInv
  /\ BehindInv
  /\ BackedInv
  /\ HitsWrittenUnlessAbandoned

\* The cache is empty when the engine starts.
LEMMA InitCached == Init => Cached
BY DEF Init, SchedInit, RunnerInit, Unknown, Nothing, Cached, ToldInv, Untold, BehindInv,
  BackedInv, HitsWrittenUnlessAbandoned, HitsWereWritten

\* What has been written for q includes what has been stored.
LEMMA WrittenType ==
  ASSUME Bookkeeping, NEW q \in Requests
  PROVE  Written(q) \in Int /\ Written(q) >= stored[q]
<1>1. stored[q] \in Int /\ requests[q].num_computed + 1 \in Int
  BY EngineTypes
<1> QED BY <1>1 DEF Written, Larger

\* Clients change neither what was published nor what was written.
LEMMA ArriveCached ==
  ASSUME Bookkeeping, Cached, NEW r \in Requests, NEW p \in PromptLens,
         NEW m \in OutputLens, Arrive(r, p, m)
  PROVE  Cached'
<1>1. /\ prompt_len' = [prompt_len EXCEPT ![r] = p] /\ prompt_len[r] = 0
      /\ phase = "idle" /\ phase' = phase
      /\ UNCHANGED <<num_computed, running, ongoing, cached, requests, stored,
                     scheduler_output>>
  BY DEF Arrive, AddRequest, runnerVars, kvVars
<1>2. \A q \in running : q \in Requests /\ q # r
  BY <1>1, EngineTypes DEF Bookkeeping, Lists, QueueInv, Unstarted
<1>3. \A q \in running : prompt_len'[q] = prompt_len[q]
  BY <1>1, <1>2 DEF Bookkeeping, Types, SchedTypeOK
<1>4. ongoing \subseteq running
  BY EngineTypes
<1>5. ToldInv' /\ BehindInv'
  BY <1>1, <1>3 DEF Cached, ToldInv, Untold, BehindInv, Decoding
<1>6. \A q \in Requests : Written(q)' = Written(q) /\ (Abandoned(q) => Abandoned(q)')
  BY <1>1 DEF Written, Abandoned
<1>7. BackedInv'
  BY <1>1, <1>3, <1>4, <1>6 DEF Cached, BackedInv, Backed
<1> QED BY <1>1, <1>5, <1>7 DEF Cached, HitsWrittenUnlessAbandoned, HitsWereWritten

(***************************************************************************)
(* An aborted prefill had either written its prompt or is abandoned with   *)
(* blocks that nobody is going to write.                                   *)
(***************************************************************************)
LEMMA AbortCached ==
  ASSUME Bookkeeping, Cached, NEW r \in Requests, Abort(r)
  PROVE  Cached'
<1>1. /\ running' = running \ {r} /\ ongoing' = ongoing \ {r}
      /\ phase \in {"idle", "executed"} /\ phase' = phase
      /\ UNCHANGED <<prompt_len, num_computed, cached, requests, stored, scheduler_output>>
  BY DEF Abort, FinishRequest, Free, OngoingWithout, requestVars, runnerVars
<1>2. ToldInv' /\ BehindInv'
  BY <1>1 DEF Cached, ToldInv, Untold, BehindInv, Decoding
<1>3. \A q \in Requests : Written(q)' = Written(q) /\ (Abandoned(q) => Abandoned(q)')
  BY <1>1 DEF Written, Abandoned
<1>4. BackedInv'
  <2>1. CASE \E q \in Requests : Abandoned(q)'
    BY <2>1 DEF BackedInv
  <2>2. CASE ~ \E q \in Requests : Abandoned(q)'
    <3>1. r \in ongoing => Written(r) >= prompt_len[r]
      <4> SUFFICES ASSUME r \in ongoing PROVE Written(r) >= prompt_len[r]
        OBVIOUS
      <4>1. r \in running /\ requests[r].prompt_len = prompt_len[r] /\ prompt_len[r] # 0
        BY <1>1, EngineTypes DEF Bookkeeping, Lists, KnownInv, QueueInv, Unstarted
      <4>2. ~(stored[r] < prompt_len[r])
        BY <1>1, <2>2, <4>1 DEF Abandoned
      <4> QED BY <4>2, WrittenType, EngineTypes
    <3>2. ASSUME NEW b \in cached PROVE b > 0 /\ Backed(b)'
      <4>1. b > 0 /\ Backed(b) /\ b * BlockSize \in Int
        BY <1>3, <2>2, BlockAssumption DEF Cached, BackedInv, Bookkeeping, Types, SchedTypeOK
      <4>2. ASSUME NEW q \in ongoing, b * BlockSize <= prompt_len[q]
            PROVE  Backed(b)'
        <5>1. CASE q = r
          <6>1. Written(r) >= b * BlockSize
            BY <3>1, <4>1, <4>2, <5>1, WrittenType, EngineTypes
          <6> QED BY <1>1, <1>3, <6>1 DEF Backed
        <5>2. CASE q # r
          BY <1>1, <4>2, <5>2 DEF Backed
        <5> QED BY <5>1, <5>2
      <4>3. ASSUME NEW q \in Requests \ ongoing, Written(q) >= b * BlockSize
            PROVE  Backed(b)'
        BY <1>1, <1>3, <4>3 DEF Backed
      <4> QED BY <1>1, <4>1, <4>2, <4>3 DEF Backed
    <3> QED BY <1>1, <3>2 DEF BackedInv
  <2> QED BY <2>1, <2>2
<1> QED BY <1>1, <1>2, <1>4 DEF Cached, HitsWrittenUnlessAbandoned, HitsWereWritten

\* Steps publish the blocks that their tokens are going to fill, no more, and
\* take tokens away from nobody.
LEMMA SchedulePublishes ==
  ASSUME Bookkeeping, Agreement, Blocks, Bookkeeping', ScheduleStep
  PROVE  /\ \A b \in cached' \ cached :
              b > 0 /\ \E q \in Requests : /\ scheduler_output'.tokens[q] > 0
                                           /\ b * BlockSize <= num_computed'[q]
         /\ \A q \in Requests \ scheduler_output'.new : num_computed'[q] >= num_computed[q]
<1> DEFINE so == scheduler_output'
<1>1. \A b \in cached' \ cached :
        b > 0 /\ \E q \in Requests : so.tokens[q] > 0 /\ b * BlockSize <= num_computed'[q]
  <2>1. PICK n \in 0 .. Len(waiting) :
          LET released == {waiting[i] : i \in 1 .. n}
              hits     == IF released = {} THEN {0}
                          ELSE UNION {PossibleHits(r) : r \in released}
          IN \E hit \in hits : BaseSchedule(Visible(n), released, hit)
    BY Zenon DEF ScheduleStep, Schedule
  <2>2. PICK released, hit : BaseSchedule(Visible(n), released, hit)
    BY <2>1
  <2> DEFINE start == StepStart(released, hit)
             tokens == StepTokens(Visible(n), released, hit)
  <2>3. /\ num_computed' = [r \in Requests |-> start[r] + tokens[r]]
        /\ so.tokens = tokens
        /\ cached' = IF PrefixCaching
             THEN cached \cup UNION {1 .. (start[r] + tokens[r]) \div BlockSize :
                                       r \in {q \in Requests : tokens[q] > 0}}
             ELSE cached
    BY <2>2 DEF BaseSchedule
  <2> HIDE DEF start, tokens
  <2>4. ASSUME NEW b \in cached' \ cached
        PROVE  b > 0 /\ \E q \in Requests : so.tokens[q] > 0
                                            /\ b * BlockSize <= num_computed'[q]
    <3>1. PICK q \in Requests : /\ tokens[q] > 0
                                /\ b \in 1 .. (start[q] + tokens[q]) \div BlockSize
      BY <2>3, <2>4
    <3>2. num_computed'[q] = start[q] + tokens[q] /\ num_computed'[q] \in Int
      BY <2>3 DEF Bookkeeping, Types, SchedTypeOK
    <3>3. b \in 1 .. num_computed'[q] \div BlockSize
      BY <3>1, <3>2
    <3>4. num_computed'[q] \div BlockSize \in Int /\ b \in Int /\ b > 0
          /\ b <= num_computed'[q] \div BlockSize
      BY <3>2, <3>3, DivType, BlockAssumption
    <3>5. b * BlockSize <= (num_computed'[q] \div BlockSize) * BlockSize
      BY <3>4, ProductMonotonic, BlockAssumption
    <3>6. (num_computed'[q] \div BlockSize) * BlockSize <= num_computed'[q]
      BY <3>2, DivBounds, BlockAssumption
    <3>7. b * BlockSize <= num_computed'[q]
      BY <3>2, <3>4, <3>5, <3>6, BlockAssumption
    <3> QED BY <2>3, <3>1, <3>4, <3>7
  <2> QED BY <2>4
<1>2. ASSUME NEW q \in Requests \ so.new
      PROVE  num_computed'[q] >= num_computed[q]
  <2>1. /\ phase = "idle" /\ Decoding' = Decoding
        /\ num_computed'[q] = num_computed[q] + so.tokens[q]
    BY ScheduleMoves
  <2>2. num_computed[q] \in Int /\ so.tokens[q] \in Int
    BY EngineTypes DEF Bookkeeping, Types, OutputsTypeOK, SchedulerOutputs
  <2>3. so.tokens[q] >= 0
    <3>1. PICK n \in 0 .. 1, released \in SUBSET Requests,
               start \in [Requests -> Int], tokens \in [Requests -> Int] :
            /\ Counting(n, released, start, tokens)
            /\ Messaging(released, start, tokens)
      BY ScheduleShape
    <3>2. so.tokens[q] = IF q \in Visible(n) THEN RunningTokens(q) ELSE 0
      BY <3>1 DEF Counting, Messaging
    <3>3. q \in Visible(n) => q \in ongoing \/ q \in Decoding
      BY EngineTypes DEF Visible, Decoding
    <3>4. q \in ongoing => so.tokens[q] >= 0
      BY ScheduleStarts
    <3>5. q \in Decoding => RunningTokens(q) = 1
      BY <2>1, EngineTypes, ChunkSizeType
        DEF Blocks, ExactInv, Fed, RunningTokens, Smaller
    <3> QED BY <3>2, <3>3, <3>4, <3>5
  <2> QED BY <2>1, <2>2, <2>3
<1> QED BY <1>1, <1>2

(***************************************************************************)
(* What a new request finds in the cache has been written by others, as no *)
(* prefill is under way and nobody has been given up; what its step        *)
(* publishes is going to be written.                                       *)
(***************************************************************************)
LEMMA ScheduleCached ==
  ASSUME Bookkeeping, Agreement, Blocks, Cached, Bookkeeping', Agreement', ScheduleStep
  PROVE  Cached'
<1> DEFINE so == scheduler_output'
<1>1. /\ phase = "idle" /\ phase' = "scheduled"
      /\ UNCHANGED <<prompt_len, requests, stored>>
      /\ \A r \in so.new : r \in Requests /\ r \notin running /\ IsWaiting(r)
      /\ so.new # {} => ongoing = {}
      /\ running' = running \cup so.new
      /\ ongoing' = ongoing \cup so.new
      /\ Decoding' = Decoding
  BY ScheduleMoves DEF runnerVars
<1>2. \A r \in so.new : Untold(r)
  BY <1>1 DEF Cached, ToldInv, Bookkeeping, Lists, QueueInv, Unstarted
<1>3. /\ \A b \in cached' \ cached :
           b > 0 /\ \E q \in Requests : so.tokens[q] > 0 /\ b * BlockSize <= num_computed'[q]
      /\ \A q \in Requests \ so.new : num_computed'[q] >= num_computed[q]
  BY SchedulePublishes
<1>4. \A q \in Requests : /\ num_computed[q] \in Int /\ num_computed'[q] \in Int
                          /\ requests[q].num_computed \in Int /\ prompt_len[q] \in Nat
  BY EngineTypes DEF Bookkeeping, Types, SchedTypeOK
<1>5. running \subseteq Requests /\ ongoing \subseteq running
  BY EngineTypes
<1>6. ToldInv'
  <2>1. ASSUME NEW q \in Requests PROVE Untold(q)' \/ num_computed'[q] > 0
    <3>1. Untold(q) \/ num_computed[q] > 0
      BY DEF Cached, ToldInv
    <3> QED BY <1>1, <1>2, <1>3, <1>4, <3>1 DEF Untold
  <2> QED BY <1>1, <1>2, <2>1 DEF ToldInv, Untold
<1>7. BehindInv'
  BY <1>1, <1>3, <1>4, <1>5 DEF Cached, BehindInv, Decoding
<1>8. \A q \in Requests : Written(q)' = Written(q) /\ (Abandoned(q) => Abandoned(q)')
  BY <1>1, <1>2 DEF Written, Abandoned, Untold
<1>9. \A r \in so.new : Written(r) = 0
  BY <1>2 DEF Written, Untold
<1>10. \A b \in cached : b \in Nat /\ b * BlockSize \in Nat
  BY BlockAssumption DEF Bookkeeping, Types, SchedTypeOK
<1>11. \A b \in cached : b > 0 => b * BlockSize > 0
  BY <1>10, BlockAssumption
<1>12. ASSUME ~ \E q \in Requests : Abandoned(q), NEW b \in cached
       PROVE  /\ b > 0
              /\ \/ \E q \in ongoing : b * BlockSize <= prompt_len[q]
                 \/ \E q \in Requests \ ongoing' : Written(q) >= b * BlockSize
  <2>1. b > 0 /\ Backed(b)
    BY <1>12 DEF Cached, BackedInv
  <2>2. ASSUME NEW q \in Requests \ ongoing, Written(q) >= b * BlockSize
        PROVE  q \notin so.new
    BY <1>9, <1>10, <1>11, <2>1, <2>2
  <2> QED BY <1>1, <2>1, <2>2 DEF Backed
<1>13. BackedInv'
  <2>1. CASE \E q \in Requests : Abandoned(q)
    BY <1>8, <2>1 DEF BackedInv
  <2>2. ASSUME ~ \E q \in Requests : Abandoned(q), NEW b \in cached'
        PROVE  b > 0 /\ Backed(b)'
    <3>1. CASE b \in cached
      BY <1>1, <1>8, <1>12, <2>2, <3>1 DEF Backed
    <3>2. CASE b \notin cached
      <4>1. PICK q \in Requests : so.tokens[q] > 0 /\ b * BlockSize <= num_computed'[q]
        BY <1>3, <2>2, <3>2
      <4>2. q \in so.new \cup so.cached /\ so.cached \subseteq running'
        BY <1>1, <4>1 DEF Bookkeeping, Lists, ScheduledInv
      <4>3. CASE q \in ongoing'
        <5>1. num_computed'[q] <= prompt_len[q]
          BY <1>1, <4>3 DEF Bookkeeping, Lists, CountInv
        <5>2. b * BlockSize \in Int
          BY <1>3, <2>2, <3>2, BlockAssumption DEF Bookkeeping, Types, SchedTypeOK
        <5>3. b * BlockSize <= prompt_len[q]
          BY <1>4, <4>1, <5>1, <5>2
        <5> QED BY <1>1, <1>3, <2>2, <3>2, <4>3, <5>3 DEF Backed
      <4>4. CASE q \notin ongoing'
        <5>1. q \in so.cached /\ q \in Decoding'
          BY <1>1, <4>2, <4>4 DEF Decoding
        <5> QED BY <1>1, <1>3, <2>2, <3>2, <4>1, <5>1 DEF Backed
      <4> QED BY <4>3, <4>4
    <3> QED BY <3>1, <3>2
  <2> QED BY <2>1, <2>2 DEF BackedInv
<1>14. HitsWrittenUnlessAbandoned'
  <2>1. CASE \E q \in Requests : Abandoned(q)
    BY <1>8, <2>1 DEF HitsWrittenUnlessAbandoned
  <2>2. ASSUME ~ \E q \in Requests : Abandoned(q), NEW r \in so.new,
               NEW b \in 1 .. so.computed[r] \div BlockSize
        PROVE  \E q \in Requests \ {r} : Written(q)' >= b * BlockSize
    <3>1. PICK h \in Nat : so.computed[r] = h * BlockSize /\ 1 .. h \subseteq cached
      BY ScheduleStarts
    <3>2. so.computed[r] \div BlockSize = h
      BY <3>1, BlockAssumption
    <3>3. b \in cached
      BY <3>1, <3>2
    <3>4. PICK q \in Requests \ ongoing' : Written(q) >= b * BlockSize
      BY <1>1, <1>12, <2>2, <3>3
    <3> QED BY <1>1, <1>8, <3>4
  <2> QED BY <2>1, <2>2 DEF HitsWrittenUnlessAbandoned, HitsWereWritten
<1> QED BY <1>6, <1>7, <1>13, <1>14 DEF Cached

(***************************************************************************)
(* The step computes what its tokens are for: the rows that decode have    *)
(* written the token that was published, and more than before.             *)
(***************************************************************************)
LEMMA ExecuteCached ==
  ASSUME Bookkeeping, Agreement, Blocks, Chunked, Cached, Bookkeeping', ExecuteStep
  PROVE  Cached'
<1>1. /\ phase = "scheduled" /\ phase' = "executed"
      /\ UNCHANGED <<prompt_len, num_computed, running, ongoing, cached, scheduler_output>>
      /\ Idles \/ (\E q \in Requests : Chunks(q)) \/ Decodes
  BY ExecuteMoves DEF schedVars, requestVars, queueVars, kvVars
<1>2. /\ running \subseteq Requests /\ ongoing \subseteq running
      /\ Decoding' = Decoding
      /\ \A q \in Requests : /\ num_computed[q] \in Int /\ prompt_len[q] \in Nat
                             /\ requests[q].num_computed \in Int /\ stored[q] \in Int
                             /\ requests'[q].num_computed \in Int
  BY <1>1, EngineTypes DEF Decoding, Bookkeeping, Types, RunnerTypeOK, RequestStates
<1>3. \A b \in cached : b * BlockSize \in Int
  BY BlockAssumption DEF Bookkeeping, Types, SchedTypeOK
<1>4. CASE Idles
  <2>1. /\ requests' = requests /\ stored' = stored
        /\ scheduler_output.new = {} /\ scheduler_output.cached = {}
    BY <1>4 DEF Idles, EmptyStep
  <2>2. \A q \in Requests : Written(q)' = Written(q) /\ (Abandoned(q) => Abandoned(q)')
    BY <1>1, <2>1 DEF Written, Abandoned
  <2>3. ToldInv' /\ BehindInv'
    BY <1>1, <2>1 DEF Cached, ToldInv, Untold, BehindInv, Decoding
  <2>4. BackedInv'
    BY <1>1, <2>1, <2>2 DEF Cached, BackedInv, Backed
  <2> QED BY <1>1, <2>3, <2>4 DEF Cached, HitsWrittenUnlessAbandoned, HitsWereWritten
<1>5. ASSUME NEW r \in Requests, Chunks(r) PROVE Cached'
  <2>1. /\ ongoing = {r} /\ requests'[r].num_computed < prompt_len[r]
        /\ num_computed[r] > 0
        /\ scheduler_output.new \cup scheduler_output.cached = {r}
    <3>1. /\ ongoing = {r}
          /\ \/ scheduler_output.new = {r} /\ scheduler_output.cached = {}
             \/ scheduler_output.new = {} /\ scheduler_output.cached = {r}
          /\ 0 <= scheduler_output.computed[r] /\ scheduler_output.computed[r] < prompt_len[r]
      BY <1>5 DEF Chunks, PrefillPlan
    <3>2. requests'[r] = StateFor(r) /\ StateFor(r).num_computed = scheduler_output.computed[r]
      BY <1>1, <1>5, ChunkOthers, ChunkState DEF Chunks
    <3>3. /\ scheduler_output.tokens[r] > 0
          /\ scheduler_output.computed[r] + scheduler_output.tokens[r] = num_computed[r]
      BY <1>1, <3>1 DEF Bookkeeping, Lists, ScheduledInv
    <3> QED BY <3>1, <3>2, <3>3, EngineTypes
  <2>2. \A q \in Requests : q # r => requests'[q] = requests[q] /\ stored'[q] = stored[q]
    BY <1>1, <1>5, ChunkOthers, ChunkMoves
  <2>3. \A q \in Requests :
          /\ q # r => Written(q)' = Written(q)
          /\ Abandoned(q) => Abandoned(q)'
    BY <1>1, <1>2, <2>1, <2>2 DEF Written, Abandoned
  <2>4. ToldInv'
    BY <1>1, <2>1, <2>2 DEF Cached, ToldInv, Untold
  <2>5. BehindInv'
    BY <1>1, <1>2, <2>1, <2>2 DEF Cached, BehindInv, Decoding
  <2>6. BackedInv'
    BY <1>1, <2>1, <2>3 DEF Cached, BackedInv, Backed, Decoding
  <2> QED BY <1>1, <2>4, <2>5, <2>6 DEF Cached, HitsWrittenUnlessAbandoned, HitsWereWritten
<1>6. CASE Decodes
  <2>1. /\ stored' = stored /\ scheduler_output.new = {}
        /\ scheduler_output.cached = Decoding /\ RemainingBatch = Decoding
    BY <1>6 DEF Decodes, DecodeStep
  <2>2. \A q \in Requests \ Decoding : requests'[q] = requests[q]
    BY <1>1, <1>6, DecodeRows
  <2>3. ASSUME NEW q \in Decoding
        PROVE  /\ q \in Requests /\ q \in running
               /\ requests'[q].num_computed = num_computed[q] - 1
               /\ requests[q].num_computed < num_computed[q]
               /\ requests[q].prompt_len = prompt_len[q]
               /\ requests'[q].prompt_len = prompt_len[q]
               /\ prompt_len[q] # 0 /\ stored[q] = prompt_len[q]
    <3>1. q \in Requests /\ q \in running
      BY <1>2, <2>3 DEF Decoding
    <3>2. requests'[q].num_computed = scheduler_output.computed[q]
      BY <1>1, <1>6, <2>3, <3>1, DecodeRows
    <3>3. /\ scheduler_output.tokens[q] > 0
          /\ scheduler_output.computed[q] + scheduler_output.tokens[q] = num_computed[q]
      BY <1>1, <2>1, <2>3, <3>1 DEF Bookkeeping, Lists, ScheduledInv
    <3>4. scheduler_output.tokens[q] = 1
      BY <1>1, <2>3, <3>3 DEF Blocks, ExactInv, Fed
    <3>5. requests[q].num_computed < num_computed[q]
      BY <1>1, <2>1, <2>3, <3>1 DEF Cached, BehindInv
    <3>6. requests[q].prompt_len = prompt_len[q] /\ requests'[q].prompt_len = prompt_len[q]
      BY <1>1, <2>1, <3>1 DEF Bookkeeping, Lists, KnownInv
    <3>7. prompt_len[q] # 0
      BY <3>1 DEF Bookkeeping, Lists, QueueInv, Unstarted
    <3>8. stored[q] = prompt_len[q]
      BY <2>1, <2>3, <3>6 DEF RemainingBatch, Chunked, PrefillComplete
    <3> QED BY <3>1, <3>2, <3>3, <3>4, <3>5, <3>6, <3>7, <3>8, EngineTypes
  <2>4. ASSUME NEW q \in Decoding
        PROVE  Written(q)' >= num_computed[q] /\ Written(q)' >= Written(q)
               /\ Written(q) \in Int /\ Written(q)' \in Int
    <3>1. Written(q) = Larger(prompt_len[q], requests[q].num_computed + 1)
      BY <2>3 DEF Written
    <3>2. Written(q)' = Larger(prompt_len[q], num_computed[q])
      <4>1. requests'[q].num_computed + 1 = num_computed[q]
        BY <1>2, <2>3
      <4> QED BY <2>1, <2>3, <4>1 DEF Written
    <3> QED BY <1>2, <2>3, <3>1, <3>2 DEF Larger
  <2>5. \A q \in Requests :
          /\ q \notin Decoding => Written(q)' = Written(q)
          /\ Abandoned(q) => Abandoned(q)'
    BY <1>1, <1>2, <2>1, <2>2 DEF Written, Abandoned, Decoding
  <2>6. ToldInv'
    <3>1. ASSUME NEW q \in Requests PROVE Untold(q)' \/ num_computed[q] > 0
      BY <2>1, <2>2, <2>3 DEF Cached, ToldInv, Untold
    <3> QED BY <1>1, <3>1 DEF ToldInv
  <2>7. BehindInv'
    BY <1>1, <1>2, <2>1, <2>2, <2>3 DEF Cached, BehindInv, Decoding
  <2>8. ASSUME NEW b \in cached, Backed(b) PROVE Backed(b)'
    <3>1. ASSUME NEW q \in Requests \ ongoing, Written(q) >= b * BlockSize
          PROVE  Written(q)' >= b * BlockSize
      BY <1>3, <2>4, <2>5, <3>1
    <3>2. ASSUME NEW q \in Decoding, b * BlockSize <= num_computed[q]
          PROVE  q \in Requests \ ongoing /\ Written(q)' >= b * BlockSize
      BY <1>2, <1>3, <2>3, <2>4, <3>2 DEF Decoding
    <3> QED BY <1>1, <2>1, <2>8, <3>1, <3>2 DEF Backed
  <2>9. BackedInv'
    BY <1>1, <2>5, <2>8 DEF Cached, BackedInv
  <2> QED BY <1>1, <2>6, <2>7, <2>9 DEF Cached, HitsWrittenUnlessAbandoned, HitsWereWritten
<1> QED BY <1>1, <1>4, <1>5, <1>6

\* A prefill that is over has its whole prompt written.
LEMMA UpdateCached ==
  ASSUME Bookkeeping, Agreement, Chunked, Cached, Bookkeeping', UpdateStep
  PROVE  Cached'
<1>1. /\ num_computed' = [r \in Requests |-> ComputedAfter(r)]
      /\ ongoing' = {r \in ongoing : ComputedAfter(r) < prompt_len[r]}
      /\ UNCHANGED <<prompt_len, cached, requests, stored>>
      /\ running' \subseteq running
      /\ phase = "executed" /\ phase' = "idle"
  BY DEF UpdateStep, UpdateFromOutput, Free, runnerVars
<1>2. running \subseteq Requests /\ ongoing \subseteq running
  BY EngineTypes
<1>3. \A r \in Requests : r \notin ongoing => num_computed'[r] = num_computed[r]
  BY <1>1 DEF ComputedAfter
<1>4. ASSUME NEW r \in ongoing
      PROVE  /\ num_computed'[r] > 0 /\ num_computed'[r] \in Int
             /\ r \notin ongoing' =>
                  /\ num_computed'[r] >= prompt_len[r]
                  /\ stored[r] = prompt_len[r]
  <2>1. /\ r \in Requests /\ num_computed'[r] = ComputedAfter(r)
        /\ PrefillOutput(r) /\ prompt_len[r] # 0
    BY <1>1, <1>2 DEF Agreement, StepInv, Bookkeeping, Lists, QueueInv, Unstarted
  <2>2. /\ prompt_len[r] \in Nat /\ num_computed[r] \in Int
        /\ model_output.left_padding[r] \in Int /\ model_output.prefix_hit[r] \in Int
    BY <2>1, EngineTypes
  <2>3. CASE num_computed[r] = prompt_len[r]
    <3>1. num_computed'[r] = prompt_len[r]
      BY <2>1, <2>3 DEF ComputedAfter
    <3>2. stored[r] = prompt_len[r]
      BY <1>1, <2>3 DEF Chunked, ReachInv
    <3> QED BY <2>1, <2>2, <3>1, <3>2
  <2>4. CASE num_computed[r] # prompt_len[r]
    <3>1. /\ 0 < num_computed[r] /\ num_computed[r] < prompt_len[r]
          /\ num_computed[r] <= ChunkSize =>
               /\ 0 <= model_output.left_padding[r]
               /\ model_output.left_padding[r] < num_computed[r]
               /\ model_output.prefix_hit[r] <= num_computed[r]
      BY <2>1, <2>4 DEF PrefillOutput, Parked
    <3>2. 0 < num_computed'[r] /\ num_computed'[r] < prompt_len[r] /\ num_computed'[r] \in Int
      BY <2>1, <2>2, <3>1 DEF ComputedAfter, AdjustComputedTokens
    <3> QED BY <1>1, <2>1, <3>2
  <2> QED BY <2>3, <2>4
<1>5. ToldInv'
  <2>1. ASSUME NEW q \in Requests PROVE Untold(q)' \/ num_computed'[q] > 0
    BY <1>1, <1>3, <1>4 DEF Cached, ToldInv, Untold
  <2> QED BY <1>1, <2>1 DEF ToldInv
<1>6. BehindInv'
  <2>1. ASSUME NEW q \in running'
        PROVE  /\ q \in ongoing' => requests[q].num_computed < prompt_len[q]
               /\ q \in Decoding' => requests[q].num_computed < num_computed'[q]
    <3>1. /\ q \in running /\ q \in Requests /\ prompt_len[q] \in Nat
          /\ requests[q].num_computed \in Int
      BY <1>1, <1>2, <2>1, EngineTypes
    <3>2. q \in ongoing' => q \in ongoing
      BY <1>1
    <3>3. /\ q \in ongoing => requests[q].num_computed < prompt_len[q]
          /\ q \in Decoding => requests[q].num_computed < num_computed[q]
      BY <1>1, <3>1 DEF Cached, BehindInv
    <3> QED BY <1>3, <1>4, <3>1, <3>2, <3>3 DEF Decoding
  <2> QED BY <1>1, <2>1 DEF BehindInv
<1>7. \A q \in Requests : Written(q)' = Written(q) /\ (Abandoned(q) => Abandoned(q)')
  BY <1>1 DEF Written, Abandoned
<1>8. ASSUME NEW b \in cached, Backed(b) PROVE Backed(b)'
  <2>1. b * BlockSize \in Int
    BY <1>8, BlockAssumption DEF Bookkeeping, Types, SchedTypeOK
  <2>2. ASSUME NEW q \in ongoing, b * BlockSize <= prompt_len[q], q \notin ongoing'
        PROVE  q \in Requests \ ongoing' /\ Written(q)' >= b * BlockSize
    <3>1. Written(q) >= prompt_len[q] /\ q \in Requests /\ Written(q) \in Int
      BY <1>2, <1>4, <2>2, WrittenType
    <3> QED BY <1>7, <2>1, <2>2, <3>1, EngineTypes
  <2>3. ASSUME NEW q \in Requests \ ongoing, Written(q) >= b * BlockSize
        PROVE  q \in Requests \ ongoing' /\ Written(q)' >= b * BlockSize
    BY <1>1, <1>7, <2>3
  <2> QED BY <1>1, <1>8, <2>2, <2>3 DEF Backed
<1>9. BackedInv'
  BY <1>1, <1>7, <1>8 DEF Cached, BackedInv
<1> QED BY <1>1, <1>5, <1>6, <1>9 DEF Cached, HitsWrittenUnlessAbandoned, HitsWereWritten

\* Every step keeps the blocks of the cache backed.
LEMMA NextCached ==
  ASSUME Bookkeeping, Agreement, Blocks, Chunked, Cached, [Next]_vars
  PROVE  Cached'
<1>1. Bookkeeping' /\ Agreement'
  BY NextBookkeeping, NextAgreement
<1>2. ASSUME NEW r \in Requests, NEW p \in PromptLens, NEW m \in OutputLens,
             Arrive(r, p, m)
      PROVE  Cached'
  BY <1>2, ArriveCached
<1>3. ASSUME NEW r \in Abortable, Abort(r)
      PROVE  Cached'
  BY <1>3, AbortCached, WorkloadAssumption
<1>4. CASE ScheduleStep
  BY <1>1, <1>4, ScheduleCached
<1>5. CASE ExecuteStep
  BY <1>1, <1>5, ExecuteCached
<1>6. CASE UpdateStep
  BY <1>1, <1>6, UpdateCached
<1>7. CASE UNCHANGED vars
  BY <1>7 DEF vars, schedVars, requestVars, queueVars, kvVars, runnerVars, Cached, ToldInv,
    Untold, BehindInv, BackedInv, Backed, Decoding, Written, Abandoned,
    HitsWrittenUnlessAbandoned, HitsWereWritten
<1> QED
  BY <1>2, <1>3, <1>4, <1>5, <1>6, <1>7 DEF Next, EngineStep, Drained

(***************************************************************************)
(* The runner finds a cached block before its content only if a client has *)
(* given a request up in the middle of its prompt: no chunk plan, padding, *)
(* recomputation or parked prefill alone can bring that about.             *)
(***************************************************************************)
THEOREM HitsWrittenUnlessAbandonedHolds == Spec => []HitsWrittenUnlessAbandoned
<1> DEFINE I == Bookkeeping /\ Agreement /\ Blocks /\ Chunked /\ Cached
<1>1. Init => I
  BY InitBookkeeping, InitAgreement, InitBlocks, InitChunked, InitCached
<1>2. I /\ [Next]_vars => I'
  BY NextBookkeeping, NextAgreement, NextBlocks, NextChunked, NextCached
<1>3. I => HitsWrittenUnlessAbandoned
  BY DEF Cached
<1> QED BY <1>1, <1>2, <1>3, PTL DEF Spec

=============================================================================
