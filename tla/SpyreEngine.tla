----------------------------- MODULE SpyreEngine -----------------------------
(***************************************************************************)
(* The engine core with the chunked prefill scheduler and the model        *)
(* runner. One thread runs the loop of vLLM's EngineCore.step(): schedule, *)
(* execute, update. Requests arrive between steps. A client may abort a    *)
(* request between steps, and while the model runs, in which case the      *)
(* scheduler learns of it before it sees the step's output.                *)
(***************************************************************************)
EXTENDS ChunkedPrefillScheduler, ChunkedPrefillModelRunner

CONSTANTS
  PromptLens,   \* prompt lengths clients send
  OutputLens,   \* values of max_tokens clients ask for
  Abortable     \* requests whose client may give up

ASSUME WorkloadAssumption ==
  /\ PromptLens \subseteq Nat
  /\ OutputLens \subseteq Nat
  /\ Abortable \subseteq Requests

VARIABLE phase  \* where the engine loop is

vars == <<schedVars, runnerVars, scheduler_output, model_output, phase>>

Phases == {"idle", "scheduled", "executed"}

Init ==
  /\ SchedInit
  /\ RunnerInit
  /\ scheduler_output = NoSchedulerOutput
  /\ model_output = EmptyOutput
  /\ phase = "idle"

\* Types of all variables. Counts of computed tokens are corrected downwards
\* for padding, but never below zero.
TypeOK ==
  /\ SchedTypeOK
  /\ RunnerTypeOK
  /\ OutputsTypeOK
  /\ phase \in Phases
  /\ \A r \in Requests : num_computed[r] >= 0
-----------------------------------------------------------------------------
Arrive(r, p, m) ==
  /\ phase = "idle"
  /\ AddRequest(r, p, m)
  /\ UNCHANGED <<runnerVars, scheduler_output, model_output, phase>>

Abort(r) ==
  /\ phase \in {"idle", "executed"}
  /\ FinishRequest(r)
  /\ UNCHANGED <<runnerVars, scheduler_output, model_output, phase>>

\* has_requests: unfinished ones, or finished ones the runner must be told of.
HasRequests == waiting # <<>> \/ running # {} \/ finished_ids # {}

ScheduleStep ==
  /\ phase = "idle"
  /\ HasRequests
  /\ Schedule
  /\ phase' = "scheduled"
  /\ UNCHANGED runnerVars

ExecuteStep ==
  /\ phase = "scheduled"
  /\ ExecuteModel
  /\ phase' = "executed"
  /\ UNCHANGED <<schedVars, scheduler_output>>

UpdateStep ==
  /\ phase = "executed"
  /\ UpdateFromOutput
  /\ scheduler_output' = NoSchedulerOutput
  /\ model_output' = EmptyOutput
  /\ phase' = "idle"
  /\ UNCHANGED runnerVars

\* Every request came and went: the engine waits for the next client.
Drained ==
  /\ phase = "idle"
  /\ ~HasRequests
  /\ \A r \in Requests : prompt_len[r] # 0
  /\ UNCHANGED vars

EngineStep == ScheduleStep \/ ExecuteStep \/ UpdateStep

Next ==
  \/ \E r \in Requests, p \in PromptLens, m \in OutputLens : Arrive(r, p, m)
  \/ \E r \in Abortable : Abort(r)
  \/ EngineStep
  \/ Drained

Spec == Init /\ [][Next]_vars

\* The engine's thread keeps going round its loop.
FairSpec == Spec /\ WF_vars(EngineStep)
-----------------------------------------------------------------------------
(***************************************************************************)
(* Safety of the scheduler's bookkeeping.                                  *)
(***************************************************************************)
\* schedule() asserts it: one prefill at a time, and only of a running
\* request; a release never meets an ongoing prefill. The aborts and the
\* completed prefills in between must keep the list in step.
AtMostOnePrefill ==
  /\ Cardinality(ongoing) <= 1
  /\ ongoing \subseteq running
  /\ phase = "scheduled" /\ scheduler_output.new # {} =>
       ongoing = scheduler_output.new

\* The base class checks max_num_seqs only against the running requests it
\* can see, and schedule() hides them: the plugin's own test must hold the
\* batch to its size.
BatchWithinLimit == Cardinality(running) <= MaxNumSeqs

(***************************************************************************)
(* Agreement of the scheduler and the runner, which never compare notes:   *)
(* each derives the decode batch from its own view of the same steps.      *)
(***************************************************************************)
\* _prepare_decode asserts only the sizes equal. The rows it builds are its
\* own input_batch: they must be the very requests the scheduler chose.
DecodeAgreement ==
  /\ phase = "idle" => input_batch \ finished_ids = Decoding
  /\ phase = "scheduled" => RemainingBatch = Decoding
  /\ phase = "scheduled" /\ HasTokens /\ (~ \E r \in Requests : Prefills(r)) =>
       scheduler_output.cached = Decoding

\* update_from_output of the base class looks up the output row of every
\* request that was scheduled and is still alive.
OutputCoversScheduled ==
  phase = "executed" =>
    \A r \in running : scheduler_output.tokens[r] > 0 => r \in model_output.req_ids

\* The runner's list of blocks is a copy grown by increments: it must be as
\* long as what the KV manager holds for the request.
BlockAgreement ==
  phase = "idle" =>
    \A r \in running : requests[r].num_blocks = kv_blocks[r]

\* _prepare_decode writes a token's KV into the last block of its row, which
\* must be the block the token's position falls into.
DecodeSlotInLastBlock ==
  model_input.kind = "decode" /\ phase = "executed" =>
    \A r \in model_input.reqs :
      requests[r].num_blocks = requests[r].num_computed \div BlockSize + 1

(***************************************************************************)
(* Chunked prefill.                                                        *)
(***************************************************************************)
\* A request decodes only once the KV of its whole prompt is in the cache,
\* whatever was cached, padded, skipped, parked or aborted on the way.
PrefillComplete ==
  \A r \in input_batch : stored[r] = requests[r].prompt_len

\* The chunk the runner picks exists, has its full share of blocks, and does
\* not write into the blocks that came from the prefix cache.
ChunkWellFormed ==
  model_input.kind = "prefill" =>
    \A r \in model_input.reqs :
      /\ model_input.chunk < requests[r].chunk_count
      /\ phase = "executed" =>
           model_input.table = (model_input.chunk + 1) * ChunkBlocks
      /\ model_input.first < model_input.last
      /\ model_input.write >= requests[r].total_hit * BlockSize

\* Tokens of q whose KV the runner has written: the prompt up to where it has
\* come, and the generated ones with it once the prompt is complete.
Written(q) ==
  IF requests[q].prompt_len # 0 /\ stored[q] = requests[q].prompt_len
    THEN Larger(stored[q], requests[q].num_computed + 1) ELSE stored[q]

\* The runner takes the cached blocks of a new request at their word, and
\* points the slots of its padding block at them: every one of them must have
\* been written for some other request. The base scheduler publishes blocks
\* when it schedules them, and counts a left-padded chunk as full.
HitsWereWritten ==
  phase = "scheduled" =>
    \A r \in scheduler_output.new :
      \A b \in 1 .. scheduler_output.computed[r] \div BlockSize :
        \E q \in Requests \ {r} : Written(q) >= b * BlockSize

\* A request whose client gave up before the runner had written its prompt.
Abandoned(q) ==
  requests[q].prompt_len # 0 /\ q \notin running /\ stored[q] < requests[q].prompt_len

\* Only an abort can bring that about: no chunk plan, recomputation or parked
\* prefill publishes a block that another request finds before its content.
HitsWrittenUnlessAbandoned == (\E q \in Requests : Abandoned(q)) \/ HitsWereWritten

(***************************************************************************)
(* What the scheduling constraints are for.                                *)
(***************************************************************************)
\* The tkv of a step never leaves the model's context: the runner aligns the
\* rows of a batch by padding, which must not push any of them past its end.
TkvWithinContext == model_input.kind # "none" => runner_tkv <= MaxModelLen

\* Blocks of the longest row, and a row's tokens with the padding that makes
\* its blocks as many.
LongestRow == Max({BlocksFor(num_computed[d]) : d \in Decoding})

PaddedTokens(r) ==
  (LongestRow - BlocksFor(num_computed[r])) * BlockSize + num_computed[r]

\* The scheduler decides with the tkv the runner last reported, which it calls
\* a conservative upper bound: no row of the batch may be longer, though rows
\* come, go, and are padded anew in every step.
TkvCoversBatch ==
  phase = "idle" => \A r \in Decoding : PaddedTokens(r) <= tkv

Volume == Cardinality(model_input.reqs) * runner_tkv

\* check_batch_tkv_limit_cp: batch size times tkv must not exceed the limit in
\* any decode step.
VolumeWithinLimit ==
  model_input.kind = "decode" => Volume <= MaxBatchTkvLimit

\* What the test does achieve. It charges a request with its own tkv, not with
\* the longest in the batch, and takes the padding of the others as constant:
\* both are off by less than a block for each row.
VolumeWithinSlack ==
  model_input.kind = "decode" =>
    Volume <= MaxBatchTkvLimit
                + Cardinality(model_input.reqs) * 2 * (BlockSize - 1)

\* The blocks that are given out, each by its request and its place there.
BlocksInUse == UNION {{r} \X (1 .. kv_blocks[r]) : r \in Requests}

\* The base scheduler never runs out of blocks, so it never preempts, which
\* neither the scheduler nor the runner is prepared for. Block 0 is padding.
PoolSuffices == Cardinality(BlocksInUse) + 1 <= NumBlocks

(***************************************************************************)
(* Scheduling policy.                                                      *)
(***************************************************************************)
\* A prompt enters the decode batch only if the constraints on the whole batch
\* held when its last chunk was scheduled. The first request of an empty
\* engine needs no test.
LastChunkConstrained ==
  [][ScheduleStep /\ running # {} =>
       \A r \in Requests :
         /\ scheduler_output'.tokens[r] > 0
         /\ scheduler_output'.computed[r] < prompt_len[r]
         /\ num_computed'[r] >= prompt_len[r]
         => SatisfiesLastChunkConstraints(r, 0)]_vars

\* A prefill step that the constraints prevent is replaced by a decode step:
\* no step is empty while a request runs.
NoEmptyStep == phase = "scheduled" /\ running # {} => HasTokens

\* Every request comes to its end: no constraint keeps it waiting for ever.
Finished(r) == prompt_len[r] # 0 /\ r \notin running /\ ~IsWaiting(r)

EveryRequestFinishes ==
  \A r \in Requests : prompt_len[r] # 0 ~> Finished(r)
-----------------------------------------------------------------------------
(***************************************************************************)
(* Refinement. A running request decodes once it has its first token.      *)
(***************************************************************************)
StageOf(r) ==
  CASE prompt_len[r] = 0                       -> "absent"
    [] r \in running /\ num_output[r] = 0      -> "prefilling"
    [] r \in running /\ num_output[r] > 0      -> "decoding"
    [] r \notin running /\ IsWaiting(r)        -> "waiting"
    [] OTHER                                   -> "done"

Batching == INSTANCE ContinuousBatching WITH
  Requests  <- Requests,
  BatchSize <- MaxNumSeqs,
  stage     <- [r \in Requests |-> StageOf(r)],
  tokens    <- num_output

\* The engine implements continuous batching: steps of chunks, empty steps and
\* the phases of the loop are invisible to the clients.
ImplementsBatching == Batching!Spec
=============================================================================
