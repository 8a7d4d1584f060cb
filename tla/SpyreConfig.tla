----------------------------- MODULE SpyreConfig -----------------------------
(***************************************************************************)
(* The configuration every component of the plugin reads, and the token    *)
(* and block arithmetic they share.                                        *)
(***************************************************************************)
EXTENDS Integers, FiniteSets

CONSTANTS
  Requests,          \* request ids; each is submitted at most once
  BlockSize,         \* tokens in a KV cache block (SpyrePlatform._block_size)
  ChunkBlocks,       \* blocks in a prefill chunk (chunk_blocks_count)
  MaxModelLen,       \* model_config.max_model_len, in tokens
  MaxNumSeqs,        \* scheduler_config.max_num_seqs
  MaxBatchTkvLimit,  \* VLLM_DT_MAX_BATCH_TKV_LIMIT, in tokens
  BlocksOverride,    \* num_gpu_blocks_override, 0 for None
  Interleave,        \* VLLM_SPYRE_CP_INTERLEAVE_STEPS
  PrefixCaching      \* cache_config.enable_prefix_caching

(***************************************************************************)
(* check_and_update_config asserts that the chunk is a whole number of     *)
(* blocks. A chunk of at least MaxNumSeqs tokens lets one decode step      *)
(* carry a token of every running request, which the shipped settings      *)
(* (chunks of 1024 tokens, batches of at most 32) satisfy.                 *)
(***************************************************************************)
ASSUME RequestsAssumption == IsFiniteSet(Requests)

ASSUME BlockAssumption ==
  /\ BlockSize \in Nat \ {0}
  /\ ChunkBlocks \in Nat \ {0}
  /\ ChunkBlocks * BlockSize \in Nat \ {0}

ASSUME LimitAssumption ==
  /\ MaxModelLen \in Nat \ {0}
  /\ MaxNumSeqs \in Nat \ {0}
  /\ MaxNumSeqs <= ChunkBlocks * BlockSize
  /\ MaxBatchTkvLimit \in Nat
  /\ BlocksOverride \in Nat

ASSUME FlagAssumption ==
  /\ Interleave \in BOOLEAN
  /\ PrefixCaching \in BOOLEAN
-----------------------------------------------------------------------------
ChunkSize == ChunkBlocks * BlockSize

Larger(a, b) == IF a >= b THEN a ELSE b

Smaller(a, b) == IF a <= b THEN a ELSE b

\* math.ceil(a / b)
CeilDiv(a, b) == (a + b - 1) \div b

BlocksFor(n) == CeilDiv(n, BlockSize)

\* Blocks of a batch of MaxNumSeqs requests that fill the model's context.
FullBatchBlocks == MaxNumSeqs * (MaxModelLen \div BlockSize)

(***************************************************************************)
(* get_total_spyre_blocks: the KV cache blocks, block 0 for padding among  *)
(* them, rounded to a multiple of the batch size. The engine refuses to    *)
(* start with fewer than MinBlocks.                                        *)
(***************************************************************************)
NumBlocks ==
  MaxNumSeqs * (IF BlocksOverride > 0
                  THEN BlocksOverride \div MaxNumSeqs
                  ELSE CeilDiv(FullBatchBlocks + 1, MaxNumSeqs))

MinBlocks == Smaller(FullBatchBlocks, MaxBatchTkvLimit \div BlockSize) + 1

ASSUME PoolAssumption == NumBlocks >= MinBlocks

(***************************************************************************)
(* validate_request: a prompt of p tokens that asks for m more is accepted *)
(* when the prompt, padded to whole blocks, and the output fit the model.  *)
(* Structured output is stripped there, so that no request reaches the     *)
(* scheduler in the status WAITING_FOR_FSM.                                *)
(***************************************************************************)
ValidateRequest(p, m) ==
  /\ p >= 1
  /\ m >= 1
  /\ BlocksFor(p) * BlockSize + m <= MaxModelLen
=============================================================================
