-------------------------- MODULE SpyreWorkerProofs --------------------------
(***************************************************************************)
(* The warmup of a decoder: whatever the length of its prompts and the     *)
(* sizes of blocks and chunks, the requests the worker makes up pass       *)
(* through the runner's batches and leave it as it was, write each token   *)
(* into its block, and find their blocks in the KV cache.                  *)
(***************************************************************************)
EXTENDS SpyreWorker, FiniteSetTheorems, TLAPS

\* The labels between the start of a warmup request and the next.
BeforeDecode == {"prefill", "prefilled", "decode"}
InContext == BeforeDecode \cup {"decoded", "cleanup", "cleaned"}
Deploying == {"deploy", "deployed", "cleanup_deploy", "cleaned_deploy"}

TypesInv ==
  /\ quantized \in {q \in BOOLEAN : Accepted(q)}
  /\ warmup_len \in WarmupLens
  /\ requests \in [Requests -> RequestStates]
  /\ pc[1] \in {"start"} \cup InContext \cup Deploying \cup {"complete", "ready"}
  /\ pc = <<pc[1], pc[2]>> /\ pc[2] \in Nat

\* The flags and the KV cache follow the worker's course.
CourseInv ==
  /\ pool = IF At("start") THEN 0 ELSE NumBlocks
  /\ warmup_mode <=> ~At("ready")
  /\ inside_warmup <=> pc[1] \in InContext
  /\ (At("prefill") \/ At("prefilled")) => pc[2] \in WarmupRequests

\* The ids that have been given out: for all prompts first, then for a token of
\* each request that decodes.
IdsInv ==
  warmup_block_ids =
    IF At("start") THEN 1
    ELSE IF pc[1] \in BeforeDecode THEN 1 + ReqCount * PromptBlocks
    ELSE 1 + ReqCount * PromptBlocks + (ReqCount - 1) * DecodeBlocks

\* Warmup requests whose prompt has been run.
Begun == IF pc[1] \in {"prefill", "prefilled"} THEN 0 .. pc[2] - 1 ELSE WarmupRequests

(***************************************************************************)
(* The decode batch holds the warmup requests from their prefill to the    *)
(* step without work that says they are finished.                          *)
(***************************************************************************)
RowsInv ==
  /\ pc[1] \in InContext => input_batch = Begun
  /\ pc[1] \in {"start", "deploy", "deployed", "complete", "ready"} => input_batch = {}
  /\ pc[1] \in {"cleanup_deploy", "cleaned_deploy"} => input_batch = {DeployRequest}

\* The message that the runner is about to carry out.
MessageInv ==
  /\ At("prefilled") => scheduler_output = NewRequestOutput(pc[2])
  /\ At("decoded") => scheduler_output = DecodeOutput(WarmupRequests)
  /\ At("cleaned") => scheduler_output = FinishedOutput(WarmupRequests)
  /\ At("deployed") => scheduler_output = NewRequestOutput(DeployRequest)
  /\ At("cleaned_deploy") => scheduler_output = FinishedOutput({DeployRequest})

\* What the runner knows of the warmup requests, before and after they decode.
StatesInv ==
  /\ pc[1] \in BeforeDecode \cup {"decoded"} =>
       \A r \in Begun : /\ requests[r].prompt_len = warmup_len
                        /\ requests[r].num_blocks = PromptBlocks
  /\ At("cleanup") =>
       \A r \in WarmupRequests :
         /\ requests[r].num_computed = warmup_len
         /\ requests[r].num_blocks = PromptBlocks + DecodeBlocks

ResetInv ==
  /\ At("complete") \/ At("ready") => runner_tkv = 0
  /\ At("ready") => stored = Nothing

Warmup ==
  /\ TypesInv
  /\ CourseInv
  /\ IdsInv
  /\ RowsInv
  /\ MessageInv
  /\ StatesInv
  /\ ResetInv
-----------------------------------------------------------------------------

\* Quotients of integers by positive numbers are integers, between multiples.
LEMMA Quotient ==
  ASSUME NEW a \in Int, NEW b \in Nat \ {0}
  PROVE  /\ a \div b \in Int
         /\ (a \div b) * b <= a /\ a < (a \div b) * b + b
         /\ a = (a \div b) * b + (a % b)
OBVIOUS

\* Quotients are known by those multiples.
LEMMA QuotientUnique ==
  ASSUME NEW a \in Int, NEW b \in Nat \ {0}, NEW q \in Int,
         q * b <= a, a < q * b + b
  PROVE  a \div b = q
<1> DEFINE d == a \div b
<1>1. d \in Int /\ d * b <= a /\ a < d * b + b
  BY Quotient
<1> HIDE DEF d
<1>2. ASSUME NEW m \in Int, NEW n \in Int, m + 1 <= n, a < m * b + b, n * b <= a
      PROVE  FALSE
  <2>1. PICK k \in Nat : n = m + 1 + k
    <3>1. n - m - 1 \in Nat /\ n = m + 1 + (n - m - 1)
      BY <1>2
    <3> QED BY <3>1
  <2>2. n * b = m * b + b + k * b
    BY <2>1
  <2>3. k * b \in Nat /\ m * b \in Int
    BY <2>1
  <2> QED BY <1>2, <2>2, <2>3
<1>3. d = q
  BY <1>1, <1>2
<1> QED BY <1>3 DEF d

\* There are two or three requests, of which the last one is for the deployment.
LEMMA Crew ==
  ASSUME TypesInv
  PROVE  /\ ReqCount \in 2 .. 3 /\ DeployRequest = ReqCount - 1
         /\ WarmupRequests \subseteq Requests /\ 0 \in WarmupRequests
         /\ DeployRequest \in Requests /\ DeployRequest \notin WarmupRequests
         /\ IsFiniteSet(WarmupRequests) /\ Cardinality(WarmupRequests) = ReqCount - 1
<1>1. ReqCount \in 2 .. 3
  BY DEF ReqCount
<1>2. IsFiniteSet(WarmupRequests) /\ Cardinality(WarmupRequests) = ReqCount - 1
  BY <1>1, FS_Interval DEF WarmupRequests
<1> QED BY <1>1, <1>2, WarmupAssumption DEF WarmupRequests, DeployRequest

(***************************************************************************)
(* The blocks of a prompt and of the token after it are those up to the    *)
(* block that token falls into.                                            *)
(***************************************************************************)
LEMMA TokenBlock ==
  ASSUME TypesInv
  PROVE  /\ warmup_len \in Nat \ {0} /\ PromptBlocks \in Nat /\ DecodeBlocks \in 0 .. 1
         /\ PromptBlocks + DecodeBlocks = warmup_len \div BlockSize + 1
<1> DEFINE q == warmup_len \div BlockSize
           m == warmup_len % BlockSize
<1>1. warmup_len \in Nat \ {0} /\ BlockSize \in Nat \ {0}
  BY WarmupAssumption, LimitAssumption, BlockAssumption DEF TypesInv
<1>2. /\ q \in Nat /\ m \in 0 .. BlockSize - 1 /\ q * BlockSize \in Int
      /\ warmup_len = q * BlockSize + m
  BY <1>1
<1>3. DecodeBlocks = IF m = 0 THEN 1 ELSE 0
  BY DEF DecodeBlocks
<1> HIDE DEF q, m
<1>4. CASE m = 0
  <2>1. (warmup_len + BlockSize - 1) \div BlockSize = q
    BY <1>1, <1>2, <1>4, QuotientUnique
  <2> QED BY <1>1, <1>2, <1>3, <1>4, <2>1 DEF PromptBlocks, BlocksFor, CeilDiv, q
<1>5. CASE m # 0
  <2>1. (q + 1) * BlockSize = q * BlockSize + BlockSize
    BY <1>1, <1>2
  <2>2. (warmup_len + BlockSize - 1) \div BlockSize = q + 1
    BY <1>1, <1>2, <1>5, <2>1, QuotientUnique
  <2> QED BY <1>1, <1>2, <1>3, <1>5, <2>2 DEF PromptBlocks, BlocksFor, CeilDiv, q
<1> QED BY <1>4, <1>5

\* The state that add_new_request makes has the runner's type.
LEMMA NewState ==
  ASSUME NEW p \in Nat, NEW b \in Int
  PROVE  NewRequest(p, 0, b) \in RequestStates
<1> DEFINE hit == IF PrefixCaching THEN 0 \div BlockSize ELSE 0
<1>1. BlockSize \in Nat \ {0} /\ ChunkBlocks \in Nat \ {0} /\ ChunkSize \in Nat \ {0}
  BY BlockAssumption DEF ChunkSize
<1>2. hit \in Int
  BY <1>1, Quotient
<1>3. ChunkCount(p) \in Int /\ BlocksFor(p) \in Int
  BY <1>1, Quotient DEF ChunkCount, BlocksFor, CeilDiv
<1>4. PaddingBlocks(p) \in Int
  BY <1>1, <1>3 DEF PaddingBlocks
<1>5. CachedChunks(p, hit) \in Int
  <2>1. (PaddingBlocks(p) + hit) \div ChunkBlocks \in Int
    BY <1>1, <1>2, <1>4, Quotient
  <2> QED BY <1>3, <2>1 DEF CachedChunks
<1>6. UsableBlocks(p, hit) \in Int
  BY <1>1, <1>4, <1>5 DEF UsableBlocks, Larger
<1>7. NewRequest(p, 0, b) =
        [prompt_len |-> p, num_computed |-> 0, num_blocks |-> b,
         chunk_count |-> ChunkCount(p), padding_blocks |-> PaddingBlocks(p),
         usable_blocks |-> UsableBlocks(p, hit), total_hit |-> hit]
  BY DEF NewRequest
<1> HIDE DEF hit
<1> QED BY <1>2, <1>3, <1>4, <1>6, <1>7 DEF RequestStates

-----------------------------------------------------------------------------
\* The worker starts with a runner that has seen nothing.
LEMMA InitWarmup == Init => Warmup
<1> SUFFICES ASSUME Init PROVE Warmup
  OBVIOUS
<1>1. /\ requests = [r \in Requests |-> Unknown] /\ Unknown \in RequestStates
      /\ input_batch = {} /\ pc = <<"start", 0>>
      /\ quantized \in {q \in BOOLEAN : Accepted(q)} /\ warmup_len \in WarmupLens
      /\ warmup_block_ids = 1 /\ pool = 0 /\ warmup_mode = TRUE /\ inside_warmup = FALSE
  BY DEF Init, RunnerInit, WorkerInit, Unknown, RequestStates
<1>2. TypesInv /\ CourseInv /\ IdsInv
  BY <1>1 DEF TypesInv, CourseInv, IdsInv, At, InContext, BeforeDecode
<1>3. RowsInv /\ MessageInv /\ StatesInv /\ ResetInv
  BY <1>1 DEF RowsInv, MessageInv, StatesInv, ResetInv, At, InContext, BeforeDecode
<1> QED BY <1>2, <1>3 DEF Warmup

\* What the worker makes up depends on the prompts and on their number alone.
LEMMA SameCrew ==
  ASSUME UNCHANGED <<quantized, warmup_len>>
  PROVE  /\ UNCHANGED <<ReqCount, WarmupRequests, DeployRequest, PromptBlocks, DecodeBlocks>>
         /\ \A r : NewRequestOutput(r)' = NewRequestOutput(r)
         /\ \A batch : DecodeOutput(batch)' = DecodeOutput(batch)
<1>1. UNCHANGED <<ReqCount, PromptBlocks, DecodeBlocks>>
  BY DEF ReqCount, PromptBlocks, DecodeBlocks
<1>2. UNCHANGED <<WarmupRequests, DeployRequest>>
  BY <1>1 DEF WarmupRequests, DeployRequest
<1>3. \A r : NewRequestOutput(r)' = NewRequestOutput(r)
  BY <1>1 DEF NewRequestOutput
<1>4. \A batch : DecodeOutput(batch)' = DecodeOutput(batch)
  BY <1>1 DEF DecodeOutput
<1> QED BY <1>1, <1>2, <1>3, <1>4

\* A warmup prompt is prefilled in one step, and its request joins the batch.
LEMMA RunPrompt ==
  ASSUME TypesInv, NEW r \in Requests, scheduler_output = NewRequestOutput(r), ExecuteModel
  PROVE  /\ requests' = [requests EXCEPT ![r] = NewRequest(warmup_len, 0, PromptBlocks)]
         /\ input_batch' = input_batch \cup {r}
<1>1. warmup_len \in Nat \ {0} /\ PromptBlocks \in Nat
  BY TokenBlock
<1>2. /\ scheduler_output.new = {r} /\ scheduler_output.cached = {}
      /\ scheduler_output.finished = {}
      /\ scheduler_output.prompt[r] = warmup_len /\ scheduler_output.tokens[r] = warmup_len
      /\ scheduler_output.computed[r] = 0 /\ scheduler_output.new_blocks[r] = PromptBlocks
  BY DEF NewRequestOutput, NoSchedulerOutput, Nothing
<1>3. HasTokens /\ Prefills(r) /\ \A q : Prefills(q) => q = r
  BY <1>1, <1>2 DEF HasTokens, Prefills
<1>4. Prefill(r, StateFor(r), PrefillInput(r, StateFor(r)))
  BY <1>3 DEF ExecuteModel, EmptyStep, DecodeStep, PrefillStep
<1>5. StateFor(r) = NewRequest(warmup_len, 0, PromptBlocks)
  BY <1>2 DEF StateFor
<1>6. UpdatedRequests = requests
  <2>1. UpdatedRequests = [q \in Requests |-> requests[q]]
    BY <1>2 DEF UpdatedRequests
  <2> QED BY <2>1 DEF TypesInv
<1>7. ~IsIncomplete(r, StateFor(r))
  <2>1. StateFor(r).prompt_len = warmup_len
    BY <1>5 DEF NewRequest
  <2> QED BY <1>1, <1>2, <2>1 DEF IsIncomplete
<1>8. RemainingBatch = input_batch
  BY <1>2 DEF RemainingBatch
<1> QED BY <1>4, <1>5, <1>6, <1>7, <1>8 DEF Prefill

\* A state with another padding is a state of the same counts.
LEMMA PaddedState ==
  ASSUME NEW s \in RequestStates, NEW t, NEW n \in Int,
         t = [s EXCEPT !.padding_blocks = n]
  PROVE  t \in RequestStates /\ t.num_computed = s.num_computed /\ t.num_blocks = s.num_blocks
BY DEF RequestStates

\* The decode step of the warmup takes all of its requests one token further.
LEMMA RunToken ==
  ASSUME TypesInv, scheduler_output = DecodeOutput(WarmupRequests),
         input_batch = WarmupRequests,
         \A r \in WarmupRequests : /\ requests[r].prompt_len = warmup_len
                                   /\ requests[r].num_blocks = PromptBlocks,
         ExecuteModel
  PROVE  /\ requests' \in [Requests -> RequestStates]
         /\ input_batch' = WarmupRequests
         /\ \A r \in WarmupRequests :
              /\ requests'[r].num_computed = warmup_len
              /\ requests'[r].num_blocks = PromptBlocks + DecodeBlocks
<1> DEFINE states == UpdatedRequests
           most == PromptBlocks + DecodeBlocks
<1>1. /\ warmup_len \in Nat \ {0} /\ PromptBlocks \in Nat /\ DecodeBlocks \in 0 .. 1
      /\ WarmupRequests \subseteq Requests /\ 0 \in WarmupRequests
  BY TokenBlock, Crew
<1>2. /\ scheduler_output.new = {} /\ scheduler_output.cached = WarmupRequests
      /\ scheduler_output.finished = {}
      /\ \A r \in WarmupRequests :
           /\ scheduler_output.tokens[r] = 1 /\ scheduler_output.computed[r] = warmup_len
           /\ scheduler_output.new_blocks[r] = DecodeBlocks
  BY <1>1 DEF DecodeOutput, NoSchedulerOutput, Nothing
<1>3. HasTokens
  BY <1>1, <1>2 DEF HasTokens
<1>4. ~ \E r \in Requests : Prefills(r)
  BY <1>1, <1>2 DEF Prefills
<1>5. DecodeStep
  BY <1>3, <1>4 DEF ExecuteModel, EmptyStep, PrefillStep
<1>6. RemainingBatch = WarmupRequests
  BY <1>2 DEF RemainingBatch
<1>7. /\ states \in [Requests -> RequestStates]
      /\ \A r \in WarmupRequests : /\ states[r].num_computed = warmup_len
                                   /\ states[r].num_blocks = most
  <2>1. \A r \in Requests : requests[r] \in RequestStates
    BY DEF TypesInv
  <2>2. \A r \in WarmupRequests :
          states[r] = [requests[r] EXCEPT !.num_computed = warmup_len, !.num_blocks = most]
    BY <1>1, <1>2 DEF UpdatedRequests
  <2>3. \A r \in Requests \ WarmupRequests : states[r] = requests[r]
    BY <1>2 DEF UpdatedRequests
  <2>4. most \in Int /\ warmup_len \in Int
    BY <1>1
  <2>5. states = [r \in Requests |-> states[r]]
    BY DEF UpdatedRequests
  <2> HIDE DEF most, states
  <2>6. \A r \in WarmupRequests :
          /\ states[r] \in RequestStates
          /\ states[r].num_computed = warmup_len /\ states[r].num_blocks = most
    <3> SUFFICES ASSUME NEW r \in WarmupRequests
                 PROVE  /\ states[r] \in RequestStates
                        /\ states[r].num_computed = warmup_len /\ states[r].num_blocks = most
      OBVIOUS
    <3>1. requests[r] \in RequestStates
      BY <1>1, <2>1
    <3>2. states[r] = [requests[r] EXCEPT !.num_computed = warmup_len, !.num_blocks = most]
      BY <2>2
    <3> QED BY ONLY <2>4, <3>1, <3>2 DEF RequestStates
  <2>7. \A r \in Requests : states[r] \in RequestStates
    BY <2>1, <2>3, <2>6
  <2> QED BY <2>5, <2>6, <2>7
<1>8. MostBlocks(states, WarmupRequests) = most
  <2>1. {states[r].num_blocks : r \in WarmupRequests} = {most}
    BY <1>1, <1>7
  <2>2. most \in Int
    BY <1>1
  <2> HIDE DEF most
  <2> QED BY <2>1, <2>2 DEF MostBlocks, Max
<1>9. requests' = Padded(states, WarmupRequests) /\ input_batch' = WarmupRequests
  BY <1>5, <1>6 DEF DecodeStep
<1> HIDE DEF states
<1>10. \A r \in WarmupRequests : requests'[r] = [states[r] EXCEPT !.padding_blocks = 0]
  <2>1. \A r \in WarmupRequests :
          requests'[r] = [states[r] EXCEPT !.padding_blocks = most - most]
    BY <1>1, <1>7, <1>8, <1>9 DEF Padded
  <2>2. most - most = 0
    BY <1>1
  <2> HIDE DEF most
  <2> QED BY <2>1, <2>2
<1>11. \A r \in Requests \ WarmupRequests : requests'[r] = states[r]
  BY <1>9 DEF Padded
<1>12. DOMAIN requests' = Requests /\ requests' = [r \in Requests |-> requests'[r]]
  BY <1>9 DEF Padded
<1> HIDE DEF most
<1>13. \A r \in WarmupRequests :
         /\ requests'[r] \in RequestStates
         /\ requests'[r].num_computed = warmup_len /\ requests'[r].num_blocks = most
  <2> SUFFICES ASSUME NEW r \in WarmupRequests
               PROVE  /\ requests'[r] \in RequestStates
                      /\ requests'[r].num_computed = warmup_len
                      /\ requests'[r].num_blocks = most
    OBVIOUS
  <2>1. states[r] \in RequestStates /\ requests'[r] = [states[r] EXCEPT !.padding_blocks = 0]
    BY <1>1, <1>7, <1>10
  <2>2. 0 \in Int
    OBVIOUS
  <2>3. /\ requests'[r] \in RequestStates
        /\ requests'[r].num_computed = states[r].num_computed
        /\ requests'[r].num_blocks = states[r].num_blocks
    BY ONLY <2>1, <2>2, PaddedState
  <2> QED BY <1>7, <2>3
<1>14. \A r \in Requests : requests'[r] \in RequestStates
  BY <1>7, <1>11, <1>13
<1> QED BY <1>9, <1>12, <1>13, <1>14 DEF most

-----------------------------------------------------------------------------
\* All prompts get their blocks before the first one is run.
LEMMA PreWarmupKeeps ==
  ASSUME Warmup, PreWarmup
  PROVE  Warmup'
<1>1. /\ At("start") /\ pc' = <<"prefill", 0>> /\ pool' = NumBlocks /\ inside_warmup' = TRUE
      /\ warmup_block_ids' = warmup_block_ids + ReqCount * PromptBlocks
      /\ UNCHANGED <<requests, input_batch, quantized, warmup_len, warmup_mode>>
  BY DEF PreWarmup, GoTo, runnerVars
<1>2. /\ UNCHANGED <<ReqCount, WarmupRequests, PromptBlocks>>
      /\ 0 \in WarmupRequests
  BY <1>1, SameCrew, Crew DEF Warmup
<1>3. 0 .. 0 - 1 = {}
  OBVIOUS
<1>4. TypesInv'
  BY <1>1 DEF Warmup, TypesInv, InContext, BeforeDecode
<1>5. CourseInv'
  BY <1>1, <1>2 DEF Warmup, CourseInv, InContext, BeforeDecode, At
<1>6. IdsInv'
  BY <1>1, <1>2 DEF Warmup, IdsInv, BeforeDecode, At
<1>7. RowsInv' /\ MessageInv' /\ StatesInv' /\ ResetInv'
  BY <1>1, <1>3 DEF Warmup, RowsInv, MessageInv, StatesInv, ResetInv, At, Begun,
    InContext, BeforeDecode
<1> QED BY <1>4, <1>5, <1>6, <1>7 DEF Warmup

(***************************************************************************)
(* Sending a step changes nothing but the message, and the ids that a      *)
(* decode step gives out.                                                  *)
(***************************************************************************)
LEMMA SendKeeps ==
  ASSUME Warmup, SendPrefill \/ SendDecode \/ SendCleanup \/ SendDeploy \/ SendDeployCleanup
  PROVE  Warmup'
<1>1. /\ pc'[2] = pc[2] /\ pc' = <<pc'[1], pc'[2]>>
      /\ UNCHANGED <<requests, input_batch, runner_tkv, stored, quantized, warmup_len, pool,
                     warmup_mode, inside_warmup>>
      /\ \/ /\ pc[1] = "prefill" /\ pc'[1] = "prefilled"
            /\ scheduler_output' = NewRequestOutput(pc[2])
            /\ UNCHANGED warmup_block_ids
         \/ /\ pc[1] = "decode" /\ pc'[1] = "decoded"
            /\ scheduler_output' = DecodeOutput(WarmupRequests)
            /\ warmup_block_ids' =
                 warmup_block_ids + Cardinality(WarmupRequests) * DecodeBlocks
         \/ /\ pc[1] = "cleanup" /\ pc'[1] = "cleaned"
            /\ scheduler_output' = FinishedOutput(WarmupRequests)
            /\ UNCHANGED warmup_block_ids
         \/ /\ pc[1] = "deploy" /\ pc'[1] = "deployed"
            /\ scheduler_output' = NewRequestOutput(DeployRequest)
            /\ UNCHANGED warmup_block_ids
         \/ /\ pc[1] = "cleanup_deploy" /\ pc'[1] = "cleaned_deploy"
            /\ scheduler_output' = FinishedOutput({DeployRequest})
            /\ UNCHANGED warmup_block_ids
  BY DEF SendPrefill, SendDecode, SendCleanup, SendDeploy, SendDeployCleanup, Sends, At,
    GoTo, runnerVars
<1>2. /\ UNCHANGED <<ReqCount, WarmupRequests, DeployRequest, PromptBlocks, DecodeBlocks>>
      /\ \A r : NewRequestOutput(r)' = NewRequestOutput(r)
      /\ \A batch : DecodeOutput(batch)' = DecodeOutput(batch)
  BY <1>1, SameCrew
<1>3. \A gone : FinishedOutput(gone)' = FinishedOutput(gone)
  BY DEF FinishedOutput
<1>4. TypesInv'
  BY <1>1 DEF Warmup, TypesInv, InContext, BeforeDecode, Deploying
<1>5. CourseInv'
  BY <1>1, <1>2 DEF Warmup, CourseInv, InContext, BeforeDecode, At
<1>6. IdsInv'
  <2>1. Cardinality(WarmupRequests) = ReqCount - 1
    BY Crew DEF Warmup
  <2> QED BY <1>1, <1>2, <2>1 DEF Warmup, IdsInv, BeforeDecode, At
<1>7. RowsInv'
  BY <1>1, <1>2 DEF Warmup, RowsInv, Begun, InContext, BeforeDecode
<1>8. MessageInv'
  BY <1>1, <1>2, <1>3 DEF Warmup, MessageInv, At
<1>9. StatesInv'
  BY <1>1, <1>2 DEF Warmup, StatesInv, Begun, BeforeDecode, At
<1>10. ResetInv'
  BY <1>1 DEF Warmup, ResetInv, At
<1> QED BY <1>4, <1>5, <1>6, <1>7, <1>8, <1>9, <1>10 DEF Warmup

-----------------------------------------------------------------------------
\* A warmup request joins those before it.
LEMMA PrefilledKeeps ==
  ASSUME Warmup, RunStep, At("prefilled")
  PROVE  Warmup'
<1> DEFINE i == pc[2]
<1>1. /\ i \in WarmupRequests /\ i \in Requests /\ scheduler_output = NewRequestOutput(i)
      /\ input_batch = 0 .. i - 1 /\ i \in Nat
  BY Crew DEF Warmup, TypesInv, CourseInv, RowsInv, MessageInv, Begun, At, InContext,
    BeforeDecode
<1>2. /\ requests' = [requests EXCEPT ![i] = NewRequest(warmup_len, 0, PromptBlocks)]
      /\ input_batch' = input_batch \cup {i}
  BY <1>1, RunPrompt DEF Warmup, RunStep
<1>3. /\ UNCHANGED <<quantized, warmup_len, warmup_block_ids, pool, warmup_mode, inside_warmup>>
      /\ \/ i + 1 \in WarmupRequests /\ pc' = <<"prefill", i + 1>>
         \/ i + 1 \notin WarmupRequests /\ pc' = <<"decode", 0>>
  BY DEF RunStep, Continue, At, GoTo
<1>4. UNCHANGED <<ReqCount, WarmupRequests, DeployRequest, PromptBlocks, DecodeBlocks>>
  BY <1>3, SameCrew
<1>5. Begun' = Begun \cup {i} /\ Begun = 0 .. i - 1
  <2>1. Begun = 0 .. i - 1
    BY DEF Begun, At
  <2>2. CASE pc' = <<"prefill", i + 1>>
    BY <1>1, <2>1, <2>2 DEF Begun
  <2>3. CASE i + 1 \notin WarmupRequests /\ pc' = <<"decode", 0>>
    <3>1. ReqCount \in Int
      BY Crew DEF Warmup
    <3>2. WarmupRequests = 0 .. i
      BY <1>1, <2>3, <3>1 DEF WarmupRequests
    <3>3. Begun' = WarmupRequests
      BY <1>4, <2>3 DEF Begun
    <3> QED BY <1>1, <2>1, <3>2, <3>3
  <2> QED BY <1>3, <2>2, <2>3
<1>6. requests' \in [Requests -> RequestStates]
  <2>1. NewRequest(warmup_len, 0, PromptBlocks) \in RequestStates
    BY TokenBlock, NewState DEF Warmup
  <2> QED BY <1>2, <2>1 DEF Warmup, TypesInv
<1>7. TypesInv'
  BY <1>1, <1>3, <1>6 DEF Warmup, TypesInv, InContext, BeforeDecode
<1>8. CourseInv'
  BY <1>3, <1>4 DEF Warmup, CourseInv, InContext, BeforeDecode, At
<1>9. IdsInv'
  BY <1>3, <1>4 DEF Warmup, IdsInv, BeforeDecode, At
<1>10. RowsInv'
  BY <1>1, <1>2, <1>3, <1>5 DEF Warmup, RowsInv, InContext, BeforeDecode
<1>11. StatesInv'
  <2>1. \A r \in Begun : requests'[r].prompt_len = warmup_len
                         /\ requests'[r].num_blocks = PromptBlocks
    <3>1. \A r \in Begun : r # i
      BY <1>1, <1>5
    <3> QED BY <1>2, <3>1 DEF Warmup, StatesInv, TypesInv, At, BeforeDecode
  <2>2. requests'[i].prompt_len = warmup_len /\ requests'[i].num_blocks = PromptBlocks
    BY <1>1, <1>2 DEF NewRequest, Warmup, TypesInv
  <2> QED BY <1>3, <1>4, <1>5, <2>1, <2>2 DEF StatesInv, At
<1>12. MessageInv' /\ ResetInv'
  BY <1>3 DEF MessageInv, ResetInv, At
<1> QED BY <1>7, <1>8, <1>9, <1>10, <1>11, <1>12 DEF Warmup

\* All warmup requests decode their token.
LEMMA DecodedKeeps ==
  ASSUME Warmup, RunStep, At("decoded")
  PROVE  Warmup'
<1>1. /\ input_batch = WarmupRequests /\ scheduler_output = DecodeOutput(WarmupRequests)
      /\ \A r \in WarmupRequests : /\ requests[r].prompt_len = warmup_len
                                   /\ requests[r].num_blocks = PromptBlocks
  BY DEF Warmup, RowsInv, MessageInv, StatesInv, Begun, At, InContext
<1>2. /\ requests' \in [Requests -> RequestStates]
      /\ input_batch' = WarmupRequests
      /\ \A r \in WarmupRequests :
           /\ requests'[r].num_computed = warmup_len
           /\ requests'[r].num_blocks = PromptBlocks + DecodeBlocks
  BY <1>1, RunToken DEF Warmup, RunStep
<1>3. /\ UNCHANGED <<quantized, warmup_len, warmup_block_ids, pool, warmup_mode, inside_warmup>>
      /\ pc' = <<"cleanup", 0>>
  BY DEF RunStep, Continue, At, GoTo
<1>4. UNCHANGED <<ReqCount, WarmupRequests, DeployRequest, PromptBlocks, DecodeBlocks>>
  BY <1>3, SameCrew
<1>5. TypesInv' /\ CourseInv'
  BY <1>2, <1>3, <1>4 DEF Warmup, TypesInv, CourseInv, InContext, BeforeDecode, At
<1>6. IdsInv'
  BY <1>3, <1>4 DEF Warmup, IdsInv, BeforeDecode, At
<1>7. RowsInv' /\ MessageInv' /\ StatesInv' /\ ResetInv'
  BY <1>2, <1>3, <1>4 DEF RowsInv, MessageInv, StatesInv, ResetInv, Begun, At, BeforeDecode
<1> QED BY <1>5, <1>6, <1>7 DEF Warmup

\* The request for the deployment is alone in its batch.
LEMMA DeployedKeeps ==
  ASSUME Warmup, RunStep, At("deployed")
  PROVE  Warmup'
<1>1. /\ DeployRequest \in Requests /\ scheduler_output = NewRequestOutput(DeployRequest)
      /\ input_batch = {}
  BY Crew DEF Warmup, RowsInv, MessageInv, At
<1>2. /\ requests' =
           [requests EXCEPT ![DeployRequest] = NewRequest(warmup_len, 0, PromptBlocks)]
      /\ input_batch' = {DeployRequest}
  BY <1>1, RunPrompt DEF Warmup, RunStep
<1>3. /\ UNCHANGED <<quantized, warmup_len, warmup_block_ids, pool, warmup_mode, inside_warmup>>
      /\ pc' = <<"cleanup_deploy", 0>>
  BY DEF RunStep, Continue, At, GoTo
<1>4. UNCHANGED <<ReqCount, WarmupRequests, DeployRequest, PromptBlocks, DecodeBlocks>>
  BY <1>3, SameCrew
<1>5. requests' \in [Requests -> RequestStates]
  <2>1. NewRequest(warmup_len, 0, PromptBlocks) \in RequestStates
    BY TokenBlock, NewState DEF Warmup
  <2> QED BY <1>2, <2>1 DEF Warmup, TypesInv
<1>6. TypesInv' /\ CourseInv'
  BY <1>3, <1>4, <1>5 DEF Warmup, TypesInv, CourseInv, InContext, BeforeDecode, Deploying, At
<1>7. IdsInv'
  BY <1>3, <1>4 DEF Warmup, IdsInv, BeforeDecode, At
<1>8. RowsInv' /\ MessageInv' /\ StatesInv' /\ ResetInv'
  BY <1>2, <1>3, <1>4 DEF RowsInv, MessageInv, StatesInv, ResetInv, At, InContext, BeforeDecode
<1> QED BY <1>6, <1>7, <1>8 DEF Warmup

\* The step without work takes the finished requests out of the batch, which
\* then is as empty as it was.
LEMMA CleanupKeeps ==
  ASSUME Warmup, RunCleanup
  PROVE  Warmup'
<1>1. /\ At("cleaned") \/ At("cleaned_deploy")
      /\ requests' = UpdatedRequests /\ input_batch' = RemainingBatch /\ runner_tkv' = 0
      /\ inside_warmup' = FALSE
      /\ UNCHANGED <<stored, quantized, warmup_len, warmup_block_ids, pool, warmup_mode>>
      /\ pc' = IF At("cleaned") THEN <<"deploy", 0>> ELSE <<"complete", 0>>
  BY DEF RunCleanup, CleanTkv, GoTo
<1>2. scheduler_output.cached = {} /\ input_batch = scheduler_output.finished
  BY <1>1 DEF Warmup, MessageInv, RowsInv, FinishedOutput, NoSchedulerOutput, Begun, At,
    InContext, BeforeDecode
<1>3. input_batch' = {}
  BY <1>1, <1>2 DEF RemainingBatch
<1>4. requests' = requests
  <2>1. requests' = [r \in Requests |-> requests[r]]
    BY <1>1, <1>2 DEF UpdatedRequests
  <2> QED BY <2>1 DEF Warmup, TypesInv
<1>5. UNCHANGED <<ReqCount, WarmupRequests, DeployRequest, PromptBlocks, DecodeBlocks>>
  BY <1>1, SameCrew
<1>6. TypesInv'
  BY <1>1, <1>4 DEF Warmup, TypesInv, Deploying
<1>7. CourseInv'
  BY <1>1 DEF Warmup, CourseInv, InContext, BeforeDecode, At
<1>8. IdsInv'
  BY <1>1, <1>5 DEF Warmup, IdsInv, BeforeDecode, At
<1>9. RowsInv' /\ MessageInv' /\ StatesInv' /\ ResetInv'
  BY <1>1, <1>3 DEF RowsInv, MessageInv, StatesInv, ResetInv, At, InContext, BeforeDecode
<1> QED BY <1>6, <1>7, <1>8, <1>9 DEF Warmup

\* The KV cache is emptied before the first request is served.
LEMMA CompleteKeeps ==
  ASSUME Warmup, CompleteWarmup
  PROVE  Warmup'
<1>1. /\ At("complete") /\ pc' = <<"ready", 0>> /\ warmup_mode' = FALSE /\ pool' = NumBlocks
      /\ stored' = Nothing
      /\ UNCHANGED <<requests, input_batch, runner_tkv, quantized, warmup_len,
                     warmup_block_ids, inside_warmup>>
  BY DEF CompleteWarmup, GoTo
<1>2. UNCHANGED <<ReqCount, WarmupRequests, DeployRequest, PromptBlocks, DecodeBlocks>>
  BY <1>1, SameCrew
<1>3. TypesInv'
  BY <1>1 DEF Warmup, TypesInv
<1>4. CourseInv'
  BY <1>1 DEF Warmup, CourseInv, InContext, BeforeDecode, At
<1>5. IdsInv'
  BY <1>1, <1>2 DEF Warmup, IdsInv, BeforeDecode, At
<1>6. RowsInv' /\ MessageInv' /\ StatesInv' /\ ResetInv'
  BY <1>1 DEF Warmup, RowsInv, MessageInv, StatesInv, ResetInv, At, InContext, BeforeDecode
<1> QED BY <1>3, <1>4, <1>5, <1>6 DEF Warmup

\* No step of the worker or of the runner leads out of the script.
LEMMA NextKeeps ==
  ASSUME Warmup, [Next]_vars
  PROVE  Warmup'
<1>1. CASE PreWarmup
  BY <1>1, PreWarmupKeeps
<1>2. CASE SendPrefill \/ SendDecode \/ SendCleanup \/ SendDeploy \/ SendDeployCleanup
  BY <1>2, SendKeeps
<1>3. CASE RunStep
  <2>1. At("prefilled") \/ At("decoded") \/ At("deployed")
    BY <1>3 DEF RunStep, Continue
  <2> QED BY <1>3, <2>1, PrefilledKeeps, DecodedKeeps, DeployedKeeps
<1>4. CASE RunCleanup
  BY <1>4, CleanupKeeps
<1>5. CASE CompleteWarmup
  BY <1>5, CompleteKeeps
<1>6. CASE UNCHANGED vars
  <2>1. UNCHANGED <<pc, quantized, warmup_len, warmup_block_ids, pool, warmup_mode,
                    inside_warmup, requests, input_batch, runner_tkv, stored,
                    scheduler_output>>
    BY <1>6 DEF vars, runnerVars, workerVars
  <2>2. /\ UNCHANGED <<ReqCount, WarmupRequests, DeployRequest, PromptBlocks, DecodeBlocks>>
        /\ \A r : NewRequestOutput(r)' = NewRequestOutput(r)
        /\ \A batch : DecodeOutput(batch)' = DecodeOutput(batch)
    BY <2>1, SameCrew
  <2>3. TypesInv' /\ CourseInv' /\ IdsInv'
    BY <2>1, <2>2 DEF Warmup, TypesInv, CourseInv, IdsInv, At
  <2>4. Begun' = Begun
    BY <2>1, <2>2 DEF Begun
  <2>5. RowsInv' /\ StatesInv' /\ ResetInv'
    BY <2>1, <2>2, <2>4 DEF Warmup, RowsInv, StatesInv, ResetInv, At
  <2>6. MessageInv'
    BY <2>1, <2>2 DEF Warmup, MessageInv, At, FinishedOutput
  <2> QED BY <2>3, <2>5, <2>6 DEF Warmup
<1> QED BY <1>1, <1>2, <1>3, <1>4, <1>5, <1>6 DEF Next, Ready

\* The worker's script in every state: the inductive invariant.
THEOREM WarmupHolds == Spec => []Warmup
<1>1. Init => Warmup
  BY InitWarmup
<1>2. Warmup /\ [Next]_vars => Warmup'
  BY NextKeeps
<1> QED BY <1>1, <1>2, PTL DEF Spec

(***************************************************************************)
(* The runner serves its first request as if it had run nothing: the       *)
(* worker has told it of the end of every request it had made up, and has  *)
(* reset what no step resets.                                              *)
(***************************************************************************)
THEOREM CleanAfterWarmupHolds == Spec => []CleanAfterWarmup
<1>1. Warmup => CleanAfterWarmup
  BY DEF Warmup, CleanAfterWarmup, RowsInv, ResetInv, CourseInv, At, InContext, BeforeDecode
<1> QED BY <1>1, WarmupHolds, PTL

\* The token that the warmup decodes is written into the last of the blocks
\* the worker has given out for it, wherever in a block the prompt ends.
THEOREM WarmupDecodeSlotHolds == Spec => []WarmupDecodeSlot
<1>1. Warmup => WarmupDecodeSlot
  <2> SUFFICES ASSUME Warmup, At("cleanup"), NEW r \in WarmupRequests
               PROVE  requests[r].num_blocks = requests[r].num_computed \div BlockSize + 1
    BY DEF WarmupDecodeSlot
  <2>1. /\ requests[r].num_computed = warmup_len
        /\ requests[r].num_blocks = PromptBlocks + DecodeBlocks
    BY DEF Warmup, StatesInv
  <2> QED BY <2>1, TokenBlock DEF Warmup
<1> QED BY <1>1, WarmupHolds, PTL

\* The default pool has the whole blocks of a context for every request of a
\* batch, and the padding block.
LEMMA DefaultPoolBlocks ==
  ASSUME BlocksOverride = 0
  PROVE  /\ NumBlocks \in Int /\ MaxModelLen \div BlockSize \in Nat
         /\ MaxNumSeqs * (MaxModelLen \div BlockSize) + 1 <= NumBlocks
<1> DEFINE k == MaxModelLen \div BlockSize
           full == MaxNumSeqs * k
           c == CeilDiv(full + 1, MaxNumSeqs)
<1>1. BlockSize \in Nat \ {0} /\ MaxModelLen \in Nat \ {0} /\ MaxNumSeqs \in Nat \ {0}
  BY BlockAssumption, LimitAssumption
<1>2. k \in Nat
  BY <1>1
<1>3. full \in Int /\ FullBatchBlocks = full
  BY <1>1, <1>2 DEF FullBatchBlocks
<1>4. NumBlocks = MaxNumSeqs * c
  BY <1>3 DEF NumBlocks
<1> HIDE DEF full, k
<1>5. c \in Int /\ full + 1 + MaxNumSeqs - 1 < c * MaxNumSeqs + MaxNumSeqs
  <2>1. full + 1 + MaxNumSeqs - 1 \in Int
    BY <1>1, <1>3
  <2> QED BY <1>1, <2>1, Quotient DEF CeilDiv
<1> HIDE DEF c
<1>6. MaxNumSeqs * c \in Int /\ c * MaxNumSeqs = MaxNumSeqs * c
  BY <1>1, <1>5
<1>7. full + 1 <= NumBlocks
  BY <1>1, <1>3, <1>4, <1>5, <1>6
<1> QED BY <1>2, <1>4, <1>6, <1>7 DEF full, k

(***************************************************************************)
(* The ids that the worker counts up are those of blocks in the KV cache,  *)
(* in the default pool and if the model's context has room for two warmup  *)
(* prompts with the token they decode. Nobody checks them otherwise.       *)
(***************************************************************************)
THEOREM WarmupBlocksHold ==
  ASSUME BlocksOverride = 0,
         \A n \in WarmupLens : 2 * (n \div BlockSize + 1) <= MaxModelLen \div BlockSize
  PROVE  Spec => []WarmupBlocksExist
<1>1. Warmup => WarmupBlocksExist
  <2> SUFFICES ASSUME Warmup, ~At("start")
               PROVE  warmup_block_ids <= NumBlocks
    BY DEF Warmup, CourseInv, WarmupBlocksExist
  <2> DEFINE k == MaxModelLen \div BlockSize
             t == warmup_len \div BlockSize + 1
             b == PromptBlocks
             d == DecodeBlocks
  <2>1. NumBlocks \in Int /\ k \in Nat /\ MaxNumSeqs * k + 1 <= NumBlocks
    BY DefaultPoolBlocks
  <2>2. b \in Nat /\ d \in 0 .. 1 /\ b + d = t /\ 2 * t <= k
    BY TokenBlock DEF Warmup, TypesInv
  <2>3. MaxNumSeqs \in Nat \ {0} /\ ReqCount \in 2 .. 3
    BY LimitAssumption, Crew DEF Warmup
  <2>4. \/ warmup_block_ids = 1 + ReqCount * b
        \/ warmup_block_ids = 1 + ReqCount * b + (ReqCount - 1) * d
    BY DEF Warmup, IdsInv
  <2> HIDE DEF k, t, b, d
  <2>5. t \in Int
    BY <2>2
  <2>6. warmup_block_ids <= 1 + ReqCount * t
    <3>1. CASE ReqCount = 2
      BY <2>2, <2>4, <2>5, <3>1
    <3>2. CASE ReqCount = 3
      BY <2>2, <2>4, <2>5, <3>2
    <3> QED BY <2>3, <3>1, <3>2
  <2>7. warmup_block_ids \in Int
    BY <2>2, <2>3, <2>4
  <2>8. CASE ReqCount = 2
    <3>1. k <= MaxNumSeqs * k
      <4>1. PICK m \in Nat : MaxNumSeqs = 1 + m
        <5>1. MaxNumSeqs - 1 \in Nat /\ MaxNumSeqs = 1 + (MaxNumSeqs - 1)
          BY <2>3
        <5> QED BY <5>1
      <4>2. MaxNumSeqs * k = k + m * k /\ m * k \in Nat
        BY <2>1, <4>1
      <4> QED BY <2>1, <4>2
    <3>2. MaxNumSeqs * k \in Int
      BY <2>1, <2>3
    <3> QED BY <2>1, <2>2, <2>5, <2>6, <2>7, <2>8, <3>1, <3>2
  <2>9. CASE ReqCount = 3
    <3>1. MaxNumSeqs > 1
      BY <2>9 DEF Warmup, TypesInv, Accepted, ReqCount
    <3>2. 2 * k <= MaxNumSeqs * k
      <4>1. PICK m \in Nat : MaxNumSeqs = 2 + m
        <5>1. MaxNumSeqs - 2 \in Nat /\ MaxNumSeqs = 2 + (MaxNumSeqs - 2)
          BY <2>3, <3>1
        <5> QED BY <5>1
      <4>2. MaxNumSeqs * k = 2 * k + m * k /\ m * k \in Nat
        BY <2>1, <4>1
      <4> QED BY <2>1, <4>2
    <3>3. MaxNumSeqs * k \in Int
      BY <2>1, <2>3
    <3> QED BY <2>1, <2>2, <2>5, <2>6, <2>7, <2>9, <3>2, <3>3
  <2> QED BY <2>3, <2>8, <2>9
<1> QED BY <1>1, WarmupHolds, PTL
=============================================================================
