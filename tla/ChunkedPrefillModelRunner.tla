---------------------- MODULE ChunkedPrefillModelRunner ----------------------
(***************************************************************************)
(* ChunkedPrefillModelRunner: carries out the step the scheduler chose. It *)
(* keeps its own copy of what it needs of each request, plans the chunks   *)
(* of a prompt, builds the model's inputs and reports the batch's tkv.     *)
(* Token and block ids are abstracted to counts: the leading blocks of a   *)
(* request hold its leading tokens, so a count says which they are.        *)
(***************************************************************************)
EXTENDS SpyreOutputs, FiniteSetsExt

VARIABLES
  requests,       \* the cached SamplingRequestState of the requests seen
  input_batch,    \* requests in the decode batch
  prefill_batch,  \* the request in the prefill batch, if any
  runner_tkv,     \* tkv
  model_input,    \* the last inputs given to the model
  stored          \* leading prompt tokens of each request in the KV cache

runnerVars ==
  <<requests, input_batch, prefill_batch, runner_tkv, model_input, stored>>

RequestStates ==
  [prompt_len     : Nat,   \* len(prompt_token_ids)
   num_computed   : Int,   \* num_computed_tokens
   num_blocks     : Int,   \* len(block_ids)
   chunk_count    : Int,
   padding_blocks : Int,
   usable_blocks  : Int,
   total_hit      : Int]   \* total_hit_blocks

\* A request id that is not a key of the runner's dictionary.
Unknown ==
  [prompt_len |-> 0, num_computed |-> 0, num_blocks |-> 0, chunk_count |-> 0,
   padding_blocks |-> 0, usable_blocks |-> 0, total_hit |-> 0]

Kinds == {"none", "prefill", "decode"}

ModelInputs ==
  [kind  : Kinds,
   reqs  : SUBSET Requests, \* the rows of the batch
   chunk : Int,             \* index of the prefilled chunk
   first : Int,             \* first prompt token of the chunk (chunk_start)
   write : Int,             \* first prompt token whose KV is written
   last  : Int,             \* end of the chunk's tokens (chunk_end)
   table : Int]             \* length of the (rectangular) block table

NoInput ==
  [kind |-> "none", reqs |-> {}, chunk |-> 0, first |-> 0, write |-> 0,
   last |-> 0, table |-> 0]

RunnerInit ==
  /\ requests = [r \in Requests |-> Unknown]
  /\ input_batch = {}
  /\ prefill_batch = {}
  /\ runner_tkv = 0
  /\ model_input = NoInput
  /\ stored = Nothing

RunnerTypeOK ==
  /\ requests \in [Requests -> RequestStates]
  /\ input_batch \in SUBSET Requests
  /\ prefill_batch \in SUBSET Requests
  /\ runner_tkv \in Int
  /\ model_input \in ModelInputs
  /\ stored \in [Requests -> Int]
-----------------------------------------------------------------------------
(***************************************************************************)
(* _plan_chunking. A prompt of p tokens is padded on the left by whole     *)
(* blocks so that its last chunk is full of blocks. Chunks entirely found  *)
(* in the prefix cache are skipped, except the last one of the prompt.     *)
(***************************************************************************)
ChunkCount(p) == CeilDiv(p, ChunkSize)

PaddingBlocks(p) == ChunkCount(p) * ChunkBlocks - BlocksFor(p)

CachedChunks(p, hit) ==
  LET full == (PaddingBlocks(p) + hit) \div ChunkBlocks
  IN IF full = ChunkCount(p) THEN full - 1 ELSE full

UsableBlocks(p, hit) ==
  IF PrefixCaching
    THEN Larger(0, CachedChunks(p, hit) * ChunkBlocks - PaddingBlocks(p))
    ELSE 0

\* The state add_new_request makes of a NewRequestData.
NewRequest(p, computed, blocks) ==
  LET hit == IF PrefixCaching THEN computed \div BlockSize ELSE 0
  IN [prompt_len |-> p, num_computed |-> computed, num_blocks |-> blocks,
      chunk_count |-> ChunkCount(p), padding_blocks |-> PaddingBlocks(p),
      usable_blocks |-> UsableBlocks(p, hit), total_hit |-> hit]
-----------------------------------------------------------------------------
(***************************************************************************)
(* _prepare_chunked_prefill, for a request in state s.                     *)
(***************************************************************************)
LeftPadding(s) == s.padding_blocks * BlockSize

ChunkIndex(s) == (LeftPadding(s) + s.num_computed) \div ChunkSize

ChunksFromCache(s) ==
  IF s.usable_blocks = 0
    THEN 0 ELSE (s.padding_blocks + s.usable_blocks) \div ChunkBlocks

\* A bug that forgets the padding blocks of the first chunk.
BugBlocksToRecompute(s) ==
  IF s.total_hit > 0 /\ ChunkIndex(s) = ChunksFromCache(s)
    THEN s.total_hit - s.usable_blocks ELSE 0

\* A bug that skips the padding blocks in every chunk.
BugRecomputes(s) ==
  IF s.total_hit > 0 /\ ChunkIndex(s) = ChunksFromCache(s)
    THEN s.total_hit - s.usable_blocks + s.padding_blocks ELSE 0

(***************************************************************************)
(* Blocks at the start of the chunk that the cache already holds. They     *)
(* are computed again for their place in the chunk, but their slots are    *)
(* those of the padding block: shared blocks must not be overwritten.      *)
(***************************************************************************)
BlocksToRecompute(s) ==
  IF s.total_hit > 0 /\ ChunkIndex(s) = ChunksFromCache(s)
    THEN s.total_hit - s.usable_blocks
           + (IF ChunkIndex(s) = 0 THEN s.padding_blocks ELSE 0)
    ELSE 0

\* Prompt token at the chunk's first position, were it not padding.
ChunkBase(s) == ChunkIndex(s) * ChunkSize - LeftPadding(s)

PrefillInput(r, s) ==
  [kind  |-> "prefill",
   reqs  |-> {r},
   chunk |-> ChunkIndex(s),
   first |-> IF ChunkIndex(s) = 0 THEN 0 ELSE ChunkBase(s),
   write |-> Larger(0, ChunkBase(s) + BlocksToRecompute(s) * BlockSize),
   last  |-> Smaller(ChunkBase(s) + ChunkSize, s.prompt_len),
   table |-> Smaller(s.padding_blocks + s.num_blocks,
                     (ChunkIndex(s) + 1) * ChunkBlocks)]

\* The KV cache after the chunk: nothing counts that lies behind a gap.
StoredAfter(have, input) ==
  IF input.write <= have THEN Larger(have, input.last) ELSE have

\* A bug: the tkv becomes that of the prompt that joins.
BugJoinedTkv(p, t) == p

\* _maybe_prepare_last_prefill: tkv when a prompt of p tokens joins at tkv t.
JoinedTkv(p, t) ==
  LET base == (Larger(BlocksFor(p), BlocksFor(t)) - 1) * BlockSize
  IN Larger(base + ((p - 1) % BlockSize) + 1, base + ((t - 1) % BlockSize) + 1)
-----------------------------------------------------------------------------
\* A bug that replaces the list of blocks instead of extending it.
BugReplacesBlocks ==
  [r \in Requests |->
     IF r \in scheduler_output.cached
       THEN [requests[r] EXCEPT
               !.num_computed = scheduler_output.computed[r],
               !.num_blocks   = scheduler_output.new_blocks[r]]
       ELSE requests[r]]

\* A bug that forgets to take over the token count.
BugKeepsComputed ==
  [r \in Requests |->
     IF r \in scheduler_output.cached
       THEN [requests[r] EXCEPT !.num_blocks = @ + scheduler_output.new_blocks[r]]
       ELSE requests[r]]

(***************************************************************************)
(* _update_batch: new blocks and token counts of the scheduled requests,   *)
(* and the requests that finished leave the decode batch.                  *)
(***************************************************************************)
UpdatedRequests ==
  [r \in Requests |->
     IF r \in scheduler_output.cached
       THEN [requests[r] EXCEPT
               !.num_computed = scheduler_output.computed[r],
               !.num_blocks   = @ + scheduler_output.new_blocks[r]]
       ELSE requests[r]]

\* A bug that removes finished requests only once their batch is empty.
BugRemainingBatch ==
  IF input_batch \subseteq scheduler_output.finished THEN {} ELSE input_batch

RemainingBatch == input_batch \ scheduler_output.finished

HasTokens == \E r \in Requests : scheduler_output.tokens[r] # 0

\* What get_empty_output would report if it kept the tkv.
BugEmptyStep ==
  /\ ~HasTokens
  /\ requests' = UpdatedRequests
  /\ input_batch' = RemainingBatch
  /\ model_output' = [EmptyOutput EXCEPT !.tkv = runner_tkv]
  /\ UNCHANGED <<prefill_batch, runner_tkv, model_input, stored>>

EmptyStep ==
  /\ ~HasTokens
  /\ requests' = UpdatedRequests
  /\ input_batch' = RemainingBatch
  /\ model_output' = EmptyOutput
  /\ UNCHANGED <<prefill_batch, runner_tkv, model_input, stored>>
-----------------------------------------------------------------------------
(***************************************************************************)
(* A prefill is a step of one request: a new one, or a known one whose     *)
(* prompt is longer than what was computed when the step was scheduled.    *)
(***************************************************************************)
Prefills(r) ==
  \/ scheduler_output.new = {r}
  \/ /\ scheduler_output.new = {}
     /\ scheduler_output.cached = {r}
     /\ scheduler_output.computed[r] < requests[r].prompt_len

\* A bug that adds the request to the decode batch with its first chunk.
BugIsIncomplete(r, s) == FALSE

\* A bug that asks for the chunk computed and not for the tokens scheduled.
BugChunkIncomplete(r, s) == ChunkIndex(s) + 1 < s.chunk_count

\* Tokens in the KV cache for r before the step.
StoredBefore(r) ==
  IF r \in scheduler_output.new THEN scheduler_output.computed[r] ELSE stored[r]

IsIncomplete(r, s) ==
  scheduler_output.computed[r] + scheduler_output.tokens[r] < s.prompt_len

\* The state the step works with: add_new_request makes that of a new request.
StateFor(r) ==
  IF r \in scheduler_output.new
    THEN NewRequest(scheduler_output.prompt[r], scheduler_output.computed[r],
                    scheduler_output.new_blocks[r])
    ELSE UpdatedRequests[r]

\* A new request replaces what the prefill batch held.
BatchFor(r) == IF r \in scheduler_output.new THEN {r} ELSE prefill_batch

\* A new request in an empty decode batch starts a new tkv.
StartFor(r) ==
  IF r \in scheduler_output.new /\ RemainingBatch = {}
    THEN StateFor(r).prompt_len ELSE runner_tkv

Prefill(r, state, input) ==
  /\ requests' = [UpdatedRequests EXCEPT ![r] = state]
  /\ prefill_batch' = BatchFor(r)
  /\ model_input' = input
  /\ stored' = [stored EXCEPT ![r] = StoredAfter(StoredBefore(r), input)]
  /\ IF IsIncomplete(r, state)
       THEN /\ input_batch' = RemainingBatch
            /\ runner_tkv' = StartFor(r)
       ELSE /\ input_batch' = RemainingBatch \cup {r}
            /\ runner_tkv' = JoinedTkv(state.prompt_len, StartFor(r))
  /\ model_output' =
       [req_ids      |-> BatchFor(r),
        sampled      |-> IF IsIncomplete(r, state) THEN {} ELSE BatchFor(r),
        tkv          |-> runner_tkv',
        left_padding |-> [q \in Requests |->
                            IF q \in BatchFor(r) THEN LeftPadding(requests'[q])
                                                 ELSE 0],
        prefix_hit   |-> [q \in Requests |->
                            IF q \in BatchFor(r) /\ IsIncomplete(r, state)
                              THEN requests'[q].usable_blocks * BlockSize
                              ELSE 0]]

PrefillStep ==
  /\ HasTokens
  /\ \E r \in Requests :
       /\ Prefills(r)
       /\ Prefill(r, StateFor(r), PrefillInput(r, StateFor(r)))
-----------------------------------------------------------------------------
(***************************************************************************)
(* _prepare_decode: one row per request of the decode batch. Rows with     *)
(* fewer blocks are padded on the left by whole blocks, so their tkv is    *)
(* what they would have with the padding. The guard on the batch is the    *)
(* method's assertion: where it fails, the engine stops.                   *)
(***************************************************************************)
MostBlocks(states, batch) == Max({states[r].num_blocks : r \in batch})

\* A bug: the padding of the prefill is kept in decode steps.
BugPadded(states, batch) == states

Padded(states, batch) ==
  [r \in Requests |->
     IF r \in batch
       THEN [states[r] EXCEPT
               !.padding_blocks = MostBlocks(states, batch) - states[r].num_blocks]
       ELSE states[r]]

RowTkv(s) == LeftPadding(s) + s.num_computed + 1

\* A decode step has no chunk; its block table is as long as its longest row.
DecodeInput(batch, table) ==
  [kind |-> "decode", reqs |-> batch, chunk |-> 0, first |-> 0, write |-> 0,
   last |-> 0, table |-> table]

DecodeStep ==
  LET batch  == RemainingBatch
      states == Padded(UpdatedRequests, batch)
  IN /\ HasTokens
     /\ ~ \E r \in Requests : Prefills(r)
     /\ batch # {} /\ Cardinality(batch) = Cardinality(scheduler_output.cached)
     /\ requests' = states
     /\ input_batch' = batch
     /\ runner_tkv' = Max({RowTkv(states[r]) : r \in batch})
     /\ model_input' = DecodeInput(batch, MostBlocks(states, batch))
     /\ model_output' =
          [req_ids      |-> batch,
           sampled      |-> batch,
           tkv          |-> runner_tkv',
           left_padding |-> [r \in Requests |->
                               IF r \in batch THEN LeftPadding(states[r]) ELSE 0],
           prefix_hit   |-> Nothing]
     /\ UNCHANGED <<prefill_batch, stored>>

ExecuteModel == EmptyStep \/ PrefillStep \/ DecodeStep
=============================================================================
