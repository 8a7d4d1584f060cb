------------------------------ MODULE SpyreWorker ------------------------------
(***************************************************************************)
(* compile_or_warm_up_model of the worker of a decoder: it plays scheduler *)
(* for the model runner, which takes warmup requests for real ones. They   *)
(* have to pass through the runner's batches, find blocks in its KV cache, *)
(* and leave no trace in the state that serves the first request.          *)
(*                                                                         *)
(* The warmup requests are numbered as in their ids, "warmup-0" and so on. *)
(* Every execute_model of the worker is two steps here: the output that    *)
(* the worker makes up, and what the runner does with it.                  *)
(***************************************************************************)
EXTENDS ChunkedPrefillModelRunner

CONSTANTS
  WarmupLens  \* lengths a warmup prompt may have: 42, or that of an image

ASSUME WarmupAssumption ==
  /\ WarmupLens \subseteq 1 .. MaxModelLen - 1
  /\ Requests \subseteq Nat /\ 0 .. 2 \subseteq Requests

VARIABLES
  quantized,         \* model_config.quantization is not None
  warmup_len,        \* tokens of each warmup prompt
  warmup_block_ids,  \* the next block id to give out
  pool,              \* blocks of past_key_value_states
  warmup_mode,       \* the runner's flag, off when it serves
  inside_warmup,     \* _inside_warmup_mode
  pc                 \* <<where the worker is, index of the warmup request>>

workerVars ==
  <<quantized, warmup_len, warmup_block_ids, pool, warmup_mode, inside_warmup, pc>>

vars == <<runnerVars, scheduler_output, model_output, workerVars>>

\* "we need 2 requests for warmup on FP8+CB", and one to deploy.
ReqCount == IF quantized THEN 3 ELSE 2

WarmupRequests == 0 .. ReqCount - 2

DeployRequest == ReqCount - 1

\* check_and_update_config: batch size 1 is not supported for quantized models.
Accepted(q) == q => MaxNumSeqs > 1

WorkerInit ==
  /\ quantized \in {q \in BOOLEAN : Accepted(q)}
  /\ warmup_len \in WarmupLens
  /\ warmup_block_ids = 1
  /\ pool = 0
  /\ warmup_mode = TRUE
  /\ inside_warmup = FALSE
  /\ pc = <<"start", 0>>

Init ==
  /\ RunnerInit
  /\ scheduler_output = NoSchedulerOutput
  /\ model_output = EmptyOutput
  /\ WorkerInit

\* Types of the worker's and the runner's variables.
WorkerTypeOK ==
  /\ RunnerTypeOK
  /\ OutputsTypeOK
  /\ quantized \in BOOLEAN
  /\ warmup_len \in WarmupLens
  /\ warmup_block_ids \in Nat \ {0}
  /\ pool \in Nat
  /\ warmup_mode \in BOOLEAN
  /\ inside_warmup \in BOOLEAN
  /\ pc \in {"start", "prefill", "prefilled", "decode", "decoded", "cleanup",
             "cleaned", "deploy", "deployed", "cleanup_deploy",
             "cleaned_deploy", "complete", "ready"} \X Nat
-----------------------------------------------------------------------------
At(label) == pc[1] = label

GoTo(label, i) == pc' = <<label, i>>

\* Blocks that the decode step adds: a token that starts a block needs a new
\* one.
BugDecodeBlocks == 0

DecodeBlocks == IF warmup_len % BlockSize = 0 THEN 1 ELSE 0

\* A bug: the prompts get blocks for the padding of their chunks as well.
BugPromptBlocks == ChunkCount(warmup_len) * ChunkBlocks

\* _gen_warmup_block_ids: as many as the tokens of the prompt fill.
PromptBlocks == BlocksFor(warmup_len)

(***************************************************************************)
(* The requests are built first, which gives out the blocks of their       *)
(* prompts. pre_warmup allocates a KV cache of all blocks, and             *)
(* _maybe_warmup_context is entered.                                       *)
(***************************************************************************)
PreWarmup ==
  /\ At("start")
  /\ warmup_block_ids' = warmup_block_ids + ReqCount * PromptBlocks
  /\ pool' = NumBlocks
  /\ inside_warmup' = TRUE
  /\ GoTo("prefill", 0)
  /\ UNCHANGED <<runnerVars, scheduler_output, model_output, quantized, warmup_len,
                 warmup_mode>>

\* A SchedulerOutput with one new request and its whole prompt.
NewRequestOutput(r) ==
  [NoSchedulerOutput EXCEPT
     !.new = {r},
     !.prompt[r] = warmup_len,
     !.tokens[r] = warmup_len,
     !.new_blocks[r] = PromptBlocks]

\* A SchedulerOutput with a decode step of `batch`.
DecodeOutput(batch) ==
  LET Each(n) == [r \in Requests |-> IF r \in batch THEN n ELSE 0]
  IN [NoSchedulerOutput EXCEPT
        !.cached = batch,
        !.computed = Each(warmup_len),
        !.tokens = Each(1),
        !.new_blocks = Each(DecodeBlocks)]

\* _cleanup_model_runner: a SchedulerOutput without work.
FinishedOutput(gone) == [NoSchedulerOutput EXCEPT !.finished = gone]

\* The worker makes up a scheduler output and calls execute_model.
Sends(from, output, to) ==
  /\ At(from)
  /\ scheduler_output' = output
  /\ GoTo(to, pc[2])
  /\ UNCHANGED <<runnerVars, model_output, quantized, warmup_len, pool, warmup_mode,
                 inside_warmup>>

\* _dynamic_warmup: a prefill for each of the requests but the last, ...
SendPrefill ==
  /\ Sends("prefill", NewRequestOutput(pc[2]), "prefilled")
  /\ inside_warmup
  /\ UNCHANGED warmup_block_ids

\* ... a decode step of them all, ...
SendDecode ==
  /\ Sends("decode", DecodeOutput(WarmupRequests), "decoded")
  /\ warmup_block_ids' = warmup_block_ids + Cardinality(WarmupRequests) * DecodeBlocks

\* ... and the end of them.
SendCleanup ==
  /\ Sends("cleanup", FinishedOutput(WarmupRequests), "cleaned")
  /\ UNCHANGED warmup_block_ids

\* After the context, the last request is prefilled for the deployment.
SendDeploy ==
  /\ Sends("deploy", NewRequestOutput(DeployRequest), "deployed")
  /\ UNCHANGED warmup_block_ids

SendDeployCleanup ==
  /\ Sends("cleanup_deploy", FinishedOutput({DeployRequest}), "cleaned_deploy")
  /\ UNCHANGED warmup_block_ids

\* Where the worker goes on when execute_model returns.
Continue ==
  \/ /\ At("prefilled")
     /\ IF pc[2] + 1 \in WarmupRequests THEN GoTo("prefill", pc[2] + 1)
                                        ELSE GoTo("decode", 0)
     /\ UNCHANGED inside_warmup
  \/ At("decoded") /\ GoTo("cleanup", 0) /\ UNCHANGED inside_warmup
  \/ At("deployed") /\ GoTo("cleanup_deploy", 0) /\ UNCHANGED inside_warmup

\* The runner carries the step out.
RunStep ==
  /\ ExecuteModel
  /\ Continue
  /\ UNCHANGED <<scheduler_output, quantized, warmup_len, warmup_block_ids, pool,
                 warmup_mode>>

\* A bug: the tkv of the warmup stays behind.
BugCleanTkv == runner_tkv

\* _cleanup_model_runner resets the tkv.
CleanTkv == 0

\* The step without work, and the reset; after the first one the worker leaves
\* the warmup context, where the model is compiled.
RunCleanup ==
  /\ At("cleaned") \/ At("cleaned_deploy")
  /\ ~HasTokens
  /\ requests' = UpdatedRequests
  /\ input_batch' = RemainingBatch
  /\ model_output' = EmptyOutput
  /\ runner_tkv' = CleanTkv
  /\ IF At("cleaned") THEN GoTo("deploy", 0) ELSE GoTo("complete", 0)
  /\ inside_warmup' = FALSE
  /\ UNCHANGED <<prefill_batch, model_input, stored, scheduler_output, quantized,
                 warmup_len, warmup_block_ids, pool, warmup_mode>>

\* complete_warmup: the KV cache is allocated once more, emptied.
CompleteWarmup ==
  /\ At("complete")
  /\ warmup_mode' = FALSE
  /\ pool' = NumBlocks
  /\ stored' = Nothing
  /\ GoTo("ready", 0)
  /\ UNCHANGED <<requests, input_batch, prefill_batch, runner_tkv, model_input,
                 scheduler_output, model_output, quantized, warmup_len,
                 warmup_block_ids, inside_warmup>>

Ready == At("ready") /\ UNCHANGED vars

Next ==
  \/ PreWarmup
  \/ SendPrefill \/ SendDecode \/ SendCleanup \/ SendDeploy \/ SendDeployCleanup
  \/ RunStep \/ RunCleanup
  \/ CompleteWarmup
  \/ Ready

Spec == Init /\ [][Next]_vars /\ WF_vars(Next)
-----------------------------------------------------------------------------
\* The runner takes its first request with empty batches and no tkv, as if it
\* had run nothing: the warmup requests are gone from every batch a step reads.
\* (The prefill batch keeps the last one until a new prefill clears it.)
CleanAfterWarmup ==
  At("ready") =>
    /\ input_batch = {} /\ runner_tkv = 0
    /\ stored = Nothing /\ pool = NumBlocks
    /\ ~warmup_mode /\ ~inside_warmup

\* Block ids of the warmup are counted up by the worker, nobody checks them
\* against the size of the KV cache the runner has allocated. (They exceed it
\* if the context is hardly longer than the prompts of the warmup.)
WarmupBlocksExist == pool # 0 => warmup_block_ids <= pool

\* The decode step of the warmup writes into the block of the token's position.
WarmupDecodeSlot ==
  At("cleanup") =>
    \A r \in WarmupRequests :
      requests[r].num_blocks = requests[r].num_computed \div BlockSize + 1

\* No assertion of the runner stops the worker on its way.
WarmupCompletes == <>At("ready")
=============================================================================
