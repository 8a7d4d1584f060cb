# vllm-spyre: a TLA+ verification project

vllm-spyre is the vLLM plugin for IBM Spyre. vLLM's engine core loads the
plugin's platform, scheduler, worker and model runner and drives them in its
loop. This project models the parts of the plugin in which steps interact: the
chunked prefill scheduler and model runner under the engine loop, the batch and
the logits processors they sample with, the pooling scheduler and runner, the
warmup that comes before serving, the barriers between worker processes, and
the configuration of one engine after the other in a process. They are checked
with TLC. With TLAPS are proved: that the engine implements the abstract
specification of what clients see, and the safety properties of the engine, of
the warmup of decoders, of the sampling batch, of the barriers, of pooling and
of the configuration. Liveness is model-checked.

Paths below are relative to `src/`; `scheduler.py` stands for
`vllm_spyre/v1/core/scheduler.py`, `runner.py` for
`vllm_spyre/v1/worker/spyre_model_runner.py`, `batch.py` for
`vllm_spyre/v1/worker/spyre_input_batch.py`, `worker.py` for
`vllm_spyre/v1/worker/spyre_worker.py`, `logitsproc.py` for
`vllm_spyre/v1/sample/spyre_logits_processor.py`, and `platform.py`,
`utils.py`, `envs.py` and `config/` for those in `vllm_spyre/`.

## 1. Inventory

| component | state | operations | what makes it correct | status |
|---|---|---|---|---|
| Chunked prefill scheduler (`scheduler.py:134`) | `waiting`, `running`, `ongoing_prefills`, `previous_step_was_prefill`, `tkv`, token counts of the requests | `schedule`, `can_schedule_prefill` and its constraints, `update_from_output`, `finish_requests` | one prefill at a time; batch, context and volume limits hold in every step; nobody starves; no step is empty | modelled |
| Chunked prefill model runner (`runner.py:686`) | `requests`, `input_batch`, `prefill_batch`, `tkv`, the KV cache | `update_states`, `add_new_request`, chunk plan, prefill and decode inputs, outputs | decodes the requests the scheduler means; prompts end up wholly in the cache; cached blocks are not overwritten | modelled but for tensors |
| Engine loop (vLLM, external) | where the loop is, the two messages | add, abort, schedule, execute, update | the two sides agree whatever is aborted when | modelled |
| Platform configuration (`platform.py`) | `os.environ`, class attributes, the engine's configuration | `check_and_update_config` and its stages, `get_total_spyre_blocks`, `validate_request` | checking again changes nothing; an earlier engine leaves nothing a later one takes for the user's; pool size is enough for every admitted batch | modelled but for names and the compile-only backend |
| Sampling input batch, logits processors (`batch.py:213`, `logitsproc.py:45`) | slots, per-request tables, pending changes, metadata, processors and their prefill index | add, remove, clear, refresh, `update_state`, `apply` | tables, metadata and processors stay aligned with the rows | modelled |
| Pooling scheduler (`scheduler.py:35`) | waiting queue, holdback and skip queue | `schedule` over warmup shapes | a shape for every batch, order kept, nobody skipped for ever | modelled |
| Pooling model runner and batch (`runner.py:260`, `batch.py:676`) | the rows of the batch and four tables about them, the shapes compiled | `update_states`, padding to a shape, pooling, warmup of each shape | each request is pooled from its own row; every shape is compiled before serving | modelled but for tensors |
| Worker, warmup (`worker.py:417`) | warmup requests, block ids, warmup flags | prefills, decode and cleanup made up by hand, `complete_warmup` | the runner's assertions hold; the runner is clean afterwards | warmup modelled, set-up of devices not |
| `stagger_region` (`utils.py:11`, `worker.py:75`) | barriers between processes | enter, body, leave, time-out | bounded concurrency, nobody returns early, no deadlock | modelled |
| Environment cache (`envs.py`) | the variables and the cached settings | look-up, `override`, `clear_env_cache` | a setting is the user's last choice | modelled |
| Registry, matcher, configurator (`config/`) | the entries | match by pattern, look up runtime parameters, apply a device configuration | the most specific model; no silent conflict in strict mode | modelled but for the file |
| Threading set-up, compilation helpers (`platform.py:485`, `compilation_utils.py`) | environment | compute, set or refuse | | partly, inside the platform |
| Golden token injector | one request's tokens | a logits processor of the tests | | not modelled |
| Metrics | sums of times | | nothing reads them back | not modelled |
| Model loader, multimodal utilities, compilation helpers, `vllm_spyre_next` | tensors, files | | data, no control | not modelled |

How they interact. `EngineCore.step()` calls `schedule()`, sends the
`SchedulerOutput` to the runner's `execute_model()`, and hands the returned
`SpyreModelRunnerOutput` to `update_from_output()`. Scheduler and runner share
no state: the scheduler learns `tkv`, the left padding and the prefix hits from
the output, the runner learns of new requests, new blocks, token counts and
finished requests from the next step's message. Before the loop starts, the
platform fixes the limits, worker processes load and compile in sets kept
apart by barriers, and the worker plays scheduler for the runner's warmup. The scheduler works by hiding:
`schedule()` empties the waiting queue and part of `running` so that the base
class schedules what the plugin wants, and restores what it hid.

What is hard. Both sides keep their own idea of the decode batch, updated at
different moments; a client's abort arrives between any two steps and also
while the model runs; `tkv` is a value from the previous step; the constraints
are arithmetic over left-padded rows that move as blocks are added; prefix
cache hits change what "first" and "last" chunk mean. Barriers count nothing:
that at most `Limit` processes are inside a region follows from how many
barriers each rank calls before and after. The environment is input and output
of the configuration at once. PROJECT.json lists these as hazards with their
lines.

## 2. Modules

| module | models | state and actions |
|---|---|---|
| `SpyreConfig` | configuration, token and block arithmetic, `validate_request`, `get_total_spyre_blocks` | constants only, with the named assumptions |
| `SpyreOutputs` | `SchedulerOutput`, `SpyreModelRunnerOutput` | the two messages of a step |
| `BatchTkvLimit` | `check_batch_tkv_limit_cp` | a predicate on the ends of the rows; the module needs no state |
| `ChunkedPrefillScheduler` | the scheduler class, and the base scheduler as far as the class relies on it | `Schedule` (release loop, hiding, base `schedule()`), `AddRequest`, `FinishRequest`, `UpdateFromOutput` |
| `ChunkedPrefillModelRunner` | the runner class | `EmptyStep`, `PrefillStep`, `DecodeStep` |
| `SpyreEngine` | the composition, and all properties | `Arrive`, `Abort`, `ScheduleStep`, `ExecuteStep`, `UpdateStep` |
| `ContinuousBatching` | abstract: what clients are promised | `Submit`, `StartPrefill`, `FinishPrefill`, `DecodeStep`, `Abort` |
| `MCSpyreEngine` | symmetry, and the loop of the volume test as a reference | |
| `SamplingInputBatch` | `SamplingInputBatch` and `LogitProcessorWrapper.update_state` | operators on a record: slots, tables, pending changes, metadata, processors |
| `SamplingSteps` | what a step does to the decode and the prefill batch, and what each sampled row meets | `EmptyStep`, `DecodeStep`, `PrefillChunk`, `LastChunk` |
| `PoolingScheduler` | `PoolingSpyreScheduler`, warmup shapes, `_get_padded_batch_size` | `Schedule`, `AddRequest`, `FinishRequest`, `UpdateFromOutput` |
| `PoolingInputBatch` | `PoolingInputBatch` over `BaseInputBatch` | operators on a record: the index of rows, the counter, the rows, the parameters |
| `PoolingModelRunner` | `SpyrePoolingModelRunner` | `ExecuteModel` |
| `PoolingEngine` | the warmup, then the loop with the pooling scheduler and runner | `WarmupPass`, `CompleteWarmup`, `Arrive`, `Abort`, `ScheduleStep`, `ExecuteStep`, `UpdateStep` |
| `MCPoolingEngine` | the warmup shapes of the instance | |
| `SpyreWorker` | `compile_or_warm_up_model` for decoders, on top of `ChunkedPrefillModelRunner` | `PreWarmup`, `SendPrefill`, `SendDecode`, `SendCleanup`, `SendDeploy`, `SendDeployCleanup`, `RunStep`, `RunCleanup`, `CompleteWarmup` |
| `StaggerRegion` | `stagger_region` among all ranks, region after region | `Enter`, `Arrive`, `Pass`, `StartBody`, `EndBody`, `Return`, `FailBody`, `Timeout` |
| `MCStaggerRegion` | the regions of a start with two warmup shapes | |
| `EnvCache` | `envs.py` | operators on the record of a process |
| `ModelRegistry` | registry, matcher and the checks of an entry | operators on the entries |
| `ModelConfigurator` | the configurator | operators on the record of a process |
| `SpyrePlatform` | `check_and_update_config` and its stages, and the user between two engines | `Configure`, `SetVariable`, `OverrideSetting`, `ClearCache` |
| `MCSpyrePlatform` | a registry of three models, nine configurations, ten choices of the user | |
| `SequenceLemmas` | facts on `Max`, division, sequences and folds that the proofs share | |
| `SpyreBookkeepingProofs` | the proofs about the scheduler's lists, and about its agreement with the runner; the refinement | |
| `SpyreBlockProofs` | on top of those: blocks, the tkv, admission, the volume, then chunks and the prefix cache | |
| `SpyreWorkerProofs` | the proofs about the warmup | |
| `SamplingProofs` | the proofs about slots, rows and processors | |
| `StaggerProofs` | the proofs about the barriers | |
| `PoolingProofs` | the proofs about the batches of pooling | |
| `PlatformProofs` | the proofs about the registry and the check of a configuration | |

Correspondence to the code.

* One action per handler. `ScheduleStep` is the whole of
  `ChunkedPrefillSpyreScheduler.schedule()` with the base class's step inside;
  `ExecuteStep` is `execute_model()` with the state updates, the plan, the
  inputs, the sampling and the output; `UpdateStep` is `update_from_output()`
  with the base class's handling of sampled tokens and stops.
* An abort may come when the loop is idle and after the model has run, before
  the output is looked at: vLLM drains its abort queue there. It may not come
  between `schedule()` and `execute_model()`.
* `running` and `ongoing_prefills` are lists in the code whose order nothing
  depends on; they are sets. `waiting` is a sequence.
* Token and block ids are counts. A request's blocks hold its tokens in order,
  so the number of blocks says which they are. `stored` is what the KV cache
  really holds of a prompt, a variable the code does not have: it grows only by
  what a chunk writes without leaving a gap behind.
* The base scheduler and its KV manager are external. Modelled are the token
  budget, the blocks a step allocates, the prefix cache (published when a step
  is scheduled, with the number of hits of a new prompt left open below what
  was ever published, which covers eviction and prompts that differ), the
  finished ids told with the next step, and the stops at `max_tokens`, at the
  end of the context or at an end-of-sequence token, which may be sampled at
  any step.
* The `released` argument of the constraints is `len(self.waiting)` inside the
  release loop of `schedule()`, which has emptied that queue beforehand.
* The assertions of `schedule()` are `AtMostOnePrefill`. The assertion on the
  size of the batch in `_prepare_decode` is a guard of `DecodeStep`: where it
  fails the engine has no step, which TLC reports as a deadlock. No run
  disables the deadlock check; `Drained` is the loop waiting for clients.
* The engine modules keep the decode batch as a set of requests.
  `SamplingSteps` looks inside: slots, rows, processors. Its steps are those
  the scheduler may send (one prefill at a time, at most `max_num_seqs`
  requests), with any requests finished in any order before any step, since
  `finished_req_ids` is a set. The parameters of a request are abstracted to
  the request itself: a table holds whose parameters it holds. Tables that are
  all copied through the slot mask in `_make_sampling_metadata` are one table;
  the output tokens and the bad words, handed over by reference, are apart.
  The sampler is external: it leaves out processors that cannot change the
  greedy choice when all rows are greedy.
* In the pooling modules requests are numbered by arrival. The base scheduler
  is external and schedules all it is shown, since the platform sets
  `max_num_batched_tokens` to what a full batch needs. The requests of the
  warmup have the same ids for every shape, as in the code; here they are
  negative numbers. The four tables about a row (the rows of the model's input,
  the arrays by index, the dictionary of indices in the order its keys were
  set, and the parameters) are kept apart because the code fills them apart.
* `SpyreWorker` uses the runner's own `ExecuteModel`: every output the worker
  makes up passes through the guards that are the runner's assertions. Sending
  and running are two steps, which lets the invariants look at both. `NumBlocks`
  is the KV cache the runner allocates, the same number the platform computes.
* `StaggerRegion` has barriers that know nothing of regions: a rank calls a
  barrier and may pass once every rank has called as many. `RoundsBefore` and
  `RoundsAfter` are the iterations of the two loops of `stagger_region` in which
  a rank calls one. `Depths` says how many regions are nested around a body:
  `_maybe_warmup_context` replaces `warmup_context.__exit__` by a wrapper of
  what it finds there, so that the n-th warmup goes through n regions.
* In `SpyrePlatform` a process is a record, and each stage of
  `check_and_update_config` an operator from a process to a process; an
  exception is the field `error`, which ends the method and leaves what was
  set. Values in the environment are the values the code parses from them.
  `user` and `unseen` are history variables: the environment as the user alone
  made it, and the settings he changed behind the cache's back.

## 3. Runs

All engine runs use blocks of 2 tokens. That is the smallest size with a last
block that may be partly full, and the arithmetic of the code depends on block
size only through whole blocks and remainders.

| run | instance | shows |
|---|---|---|
| `EngineInterleaved` | 3 requests, 2 at a time, chunks of 3 blocks, context of 16, interleaving, prefix caching, prompts of 1, 10, 13 tokens, all may be aborted; 4.4 million states | scheduler and runner agree on the decode batch, on rows and on blocks; chunks are well formed and fill the prompt without a gap; the reported tkv bounds every row and stays in the context; the default pool suffices |
| `EngineConsecutive` | 3 requests, 3 at a time, chunks of 2 blocks, no interleaving, prefix caching, limit 14, prompts of 2, 5, 8; 2.6 million states | the constraints do their work where they are all tested at once: volume up to rounding, no empty step, no join without a test; cached blocks are written blocks unless their owner was aborted; the predicate of `BatchTkvLimit` is the code's sorted loop with its early exit |
| `EngineLiveness` | 3 requests, 3 at a time, interleaving, limit 14, no prefix caching, prompts of 3, 8; 152 thousand states | the engine implements `ContinuousBatching`, every request ends |
| `SamplingAlignment` | 4 requests, 3 slots, two of them greedy, one with bad words; 6.5 thousand states | input, metadata, output tokens and processors agree row by row, whoever ends when |
| `PoolingBatches` | 4 requests of any of 3 lengths, 4 shapes, of which three do not cover each other and one is a special case; 37 thousand states | every shape is compiled by its warmup; batches fit a shape, order is kept, the oldest request runs, every request leaves the queue and is pooled from its own row |
| `StaggeredRegions` | 5 processes, 2 at a time, three regions, the third one nested twice; 121 thousand states | at most two inside, nobody returns early, no deadlock, nobody hangs |
| `WarmUp` | blocks of 4, chunks of 2 blocks, context of 16, warmup prompts of 1 to 9 tokens, quantized or not; 252 states | the worker gets through the warmup, within the KV cache, and leaves the runner clean |
| `Configurations` | nine configurations, three models, any engine after any other, two choices of the user; 241 thousand states | checking again changes nothing, strict mode means what it says, history is forgotten |
| `VolumeLimit`, `UnwrittenHits` | the smallest instances that show them | the findings of section 5 about the engine |
| `StalePrefillIndex`, `SlotBadWords` | 3 requests, 3 slots | the findings of section 5 about sampling |

Why the bounds are enough. The prompt lengths give one-token prompts, prompts
with and without left padding, of one chunk and of several, and ones that end
on and off a block boundary. `max_tokens` of 1 ends with the prefill, larger
ones decode over a block boundary. Two requests running and one waiting is the
smallest instance with a prefill beside a decode and a queue behind them; the
runs about the whole batch use three rows. A chunk of three blocks can hold
padding, cached and fresh blocks together, the case `_prepare_chunked_prefill`
computes most carefully. Nothing else bounds the engine runs: every request is
submitted at most once, so the state space is finite by itself.

Three slots are the fewest in which a row in the middle leaves and rows behind
it move, with and without an unused row at the end, and a slot is filled
before an occupied one. Sampling runs never end: an id that has ended may be
used again. For pooling, shapes of batch sizes 3, 2 and 1 with growing lengths
give every mix of a request that fits, one that is skipped and a batch that is
full; the fourth shape is one the warmup of a larger one could be mistaken
for. `MaxRequests` bounds the arrivals and lets a second and a third batch
form out of what the first left.

Five processes two at a time are the smallest number with a first, a middle
and a last set that is not full. Three regions, one nested, are what a start
with two warmup shapes goes through. Prompts of 1 to 9 tokens end in every
position of a block of 4, at and beyond the end of a chunk of 8 and of the
first block of the second chunk. In `Configurations` any number of engines
follow each other; `MaxChanges` bounds what the user does to the environment.
Two choices are enough for one that is made behind the cache's back and one
that clears it, or for the two lists that have to be of the same length. The
configurations are known and unknown ones, with and without an override of the
blocks, quantized with batch sizes 1 and 2, pooling, a chunk that is no
multiple of the block, and a runner the platform does not support.

The type invariants `BatchTypeOK`, `PoolingTypeOK` and `WorkerTypeOK` are
stated in their modules and listed in no run (the first one is proved, section
4); they can be added to `SamplingAlignment.cfg`, `PoolingBatches.cfg` and `WarmUp.cfg`.

Symmetry permutes request ids in safety runs with all requests alike. No run
with a temporal property uses it.

Fairness. `FairSpec` asks weak fairness of `EngineStep`: the engine's thread
goes round its loop as long as `has_requests()` holds, and a model step ends.
Nothing is asked of clients, who may never send or abort anything, nor of the
end-of-sequence token. `PoolingEngine` asks the same of the thread that goes
through the warmup and then the loop, and `SpyreWorker` of the worker.
`StaggerRegion` asks it of each rank apart: a process runs, a body comes to an
end, a barrier that is complete lets everyone pass. A barrier that stays
incomplete raises an exception after the time-out that `init_device` gives the
process group (`worker.py:353`); without it `NobodyHangs` fails once a process
dies.

Properties and what they are about:

* `DecodeAgreement`: the runner asserts only that both sides have the same
  number of rows. It follows from finished ids that are told one step late, on
  whatever step comes next, be it a prefill or an empty one.
* `OutputCoversScheduled`: the base class looks up an output row for every
  request that was scheduled and is still alive.
* `BlockAgreement`, `DecodeSlotInLastBlock`: the runner's copy of blocks and
  counts grows by increments through steps that skip the request.
* `PrefillComplete`, `ChunkWellFormed`: padding, hits, recomputed blocks and
  the correction of `num_computed_tokens` in `update_from_output`.
* `TkvCoversBatch`: the constraints call the last reported tkv "a conservative
  upper bound", while rows joined, left and were padded anew.
* `TkvWithinContext`: no row is pushed past the context, if that is a whole
  number of blocks. It holds even if the
  context test of the last chunk is dropped, because `_prepare_decode` chooses
  the padding anew in every step and pads only to the longest row's blocks.
* `AgreesWithLoop`: the volume test sorts, leaves its loop early and counts the
  batch down; the model and its proofs use a predicate instead.
* `VolumeWithinSlack`: what the volume test achieves, see section 5.
* `PoolSuffices`: chunked prefill reserves no blocks. The default pool holds a
  full batch where the context is a whole number of blocks, so the base
  scheduler never preempts, which neither side handles.
* `LastChunkConstrained`, `NoEmptyStep`: the policy in the
  class comment of the scheduler.
* `HitsWereWritten`, `HitsWrittenUnlessAbandoned`: the base scheduler publishes
  blocks when it schedules them, the runner writes them when it executes, and a
  padded first chunk writes fewer than were published. A block must be written
  before another prompt reuses it. The first fails (section 5), the second is
  what holds: only an abort leaves published blocks unwritten.
* `EveryRequestFinishes`: no constraint keeps a request out for ever.
* `RowsAligned`: model input, sampling metadata and output tokens are indexed
  by slot, by a snapshot and by dense insertion, and must name the same
  request in each row.
* `ProcessorsAligned`: processors move by swaps alone, built up while requests
  are removed and inserted; between steps each row has its own request's
  processor, and the unused ones are clean. The comment in `_update_batch`
  warns that this fails with several removals in one refresh.
* `ServedByOwn`: the processor of a prefill is found by a slot although
  processors are kept by row. It works because the first free slot is taken:
  all slots before it are occupied.
* `ShapeForEveryBatch`: the runner's assertion, from the scheduler's pruning.
* `ArrivalOrder`, `OldestRuns`, `EveryRequestRuns`: skipping ahead in the queue
  costs nobody more than the batches of those before him.
* `PooledOwnPrompt`: the output row a request is given comes from its own
  hidden states, prompt length and parameters, though warmup requests and
  requests that ended used the same rows, and requests are removed from the
  batch just before it is cleared.
* `EveryShapeCompiled`: the runner pads a warmup batch to the fastest shape that
  fits, as it would any other. That this is the shape being warmed up follows
  from the order of the shapes.
* `ConcurrencyLimit`, `AllCompleteBeforeReturn`, `NoDeadlock`: the docstring of
  `stagger_region`, across several regions, nested ones and dead processes.
* `NobodyHangs`: a process that dies leaves the barriers after the `yield`
  uncalled, since there is no `finally`.
* `CleanAfterWarmup`, `WarmupBlocksExist`, `WarmupDecodeSlot`,
  `WarmupCompletes`: the worker gives out block ids, token counts and finished
  requests in place of the scheduler, and resets by hand what is left over.
* `CheckedTwice`: vLLM checks a configuration for every copy it makes; the
  second time the check meets its own block count, limit and lengths where the
  first time it met the user's.
* `StrictMeansKnown`: in strict mode an accepted engine has what the registry
  says, in the environment and in the configuration, whatever was there before.
* `MostSpecificModel`: counting fields prefers a pattern to one it refines.
* `ForgetsHistory`: an engine is configured as in a new process.
* `ImplementsBatching`: clients see a continuous batch; chunks, empty steps
  and the phases of the loop are stutters.

## 4. Proofs

TLAPS proves of the engine, for every finite set of requests, every block and
chunk size, every limit, both flags and every workload; of the warmup, for every
block and chunk size and every length of its prompts; of the sampling batch, for
every number of slots and every set of requests; of the staggered regions,
for every number of processes, every limit and every sequence of regions; of
pooling, for every set of warmup shapes and any number of requests; and of the
configuration, for every registry, any engines and any changes of the environment:

| theorem | statement |
|---|---|
| `SpyreBookkeepingProofs!TypeCorrect` | every variable keeps its type, the messages included |
| `SpyreBookkeepingProofs!BookkeepingHolds` | the inductive invariant of the scheduler's lists |
| `SpyreBookkeepingProofs!AtMostOnePrefillHolds` | the assertions of `schedule()` |
| `SpyreBookkeepingProofs!BatchWithinLimitHolds` | `running` stays within `max_num_seqs` |
| `SpyreBookkeepingProofs!AgreementHolds` | the inductive invariant that ties the runner to the scheduler |
| `SpyreBookkeepingProofs!DecodeAgreementHolds` | the rows decoded are those chosen |
| `SpyreBookkeepingProofs!OutputCoversScheduledHolds` | every scheduled, living request has an output row |
| `SpyreBookkeepingProofs!TypeOKHolds` | the type invariant, no token count corrected below zero |
| `SpyreBookkeepingProofs!RefinementHolds` | the engine implements `ContinuousBatching` |
| `SpyreBlockProofs!BlocksHold` | the inductive invariant of the books on blocks |
| `SpyreBlockProofs!BlockAgreementHolds` | the runner's lists of blocks are those of the KV manager |
| `SpyreBlockProofs!DecodeSlotHolds` | a token is written into the block its position falls into |
| `SpyreBlockProofs!PoolSufficesHolds` | a pool of `MaxNumSeqs * ContextBlocks + 1` blocks is never exhausted |
| `SpyreBlockProofs!DefaultPoolSuffices` | the default pool is one, if the context is a whole number of blocks |
| `SpyreBlockProofs!CoveredHolds` | the inductive invariant of the tkv |
| `SpyreBlockProofs!TkvCoversBatchHolds` | the tkv the scheduler decides with bounds every row |
| `SpyreBlockProofs!TkvWithinContextHolds` | no row is padded past the context, if that is a whole number of blocks |
| `SpyreBlockProofs!AdmittedHolds` | the inductive invariant of admission without interleaving |
| `SpyreBlockProofs!NoEmptyStepHolds` | without interleaving, no step of a busy engine is empty |
| `SpyreBlockProofs!LastChunkConstrainedHolds` | without interleaving or without the prefix cache, the constraints of the last chunk hold when it is scheduled |
| `SpyreBlockProofs!VolumeWithinSlackHolds` | under the same condition, and if one request alone fits the limit, batch size times tkv exceeds it by less than two blocks a row |
| `SpyreBlockProofs!ChunkedHolds` | the inductive invariant of chunked prefill |
| `SpyreBlockProofs!PrefillCompleteHolds` | what decodes has its whole prompt in the cache |
| `SpyreBlockProofs!ChunkWellFormedHolds` | a chunk exists, has its blocks, computes a token and overwrites no cached block |
| `SpyreBlockProofs!HitsWrittenUnlessAbandonedHolds` | a block is found in the cache before it is written only after an abort in mid-prompt |
| `SpyreWorkerProofs!WarmupHolds` | the inductive invariant of the warmup |
| `SpyreWorkerProofs!CleanAfterWarmupHolds` | the runner serves its first request as if it had run nothing |
| `SpyreWorkerProofs!WarmupDecodeSlotHolds` | the warmup's token is written into the last block given out |
| `SpyreWorkerProofs!WarmupBlocksHold` | the block ids of the warmup exist, if the context has room for two warmup prompts and their tokens |
| `SamplingProofs!AlignmentHolds` | the inductive invariant of the two batches and of what is sampled |
| `SamplingProofs!BatchTypesHold` | the type invariant; no change waits for a refresh between steps |
| `SamplingProofs!RowsAlignedHolds` | input, metadata and output tokens name the same request in each row |
| `SamplingProofs!ProcessorsAlignedHolds` | the processors are in the order of the rows, the unused ones are free |
| `SamplingProofs!ServedByOwnHolds` | each sampled row meets its own request's processor, in a prefill too |
| `StaggerProofs!StaggerTypeCorrect` | every variable keeps its type |
| `StaggerProofs!ConcurrencyIsLimited` | at most `Limit` processes are inside |
| `StaggerProofs!ReturnsWhenComplete` | nobody returns before all have completed the body |
| `StaggerProofs!BarriersNeverDeadlock` | while nobody has died, somebody can go on |
| `PoolingProofs!PoolingInvariant` | the inductive invariant of queue, batch, rows and warmup |
| `PoolingProofs!PoolingTypes` | the type invariant; nobody waits who runs or has finished |
| `PoolingProofs!WaitInOrder` | the queue stays in order of arrival |
| `PoolingProofs!BatchesHaveShapes` | the runner finds a shape for every batch |
| `PoolingProofs!RowsArePooledApart` | each request is pooled from its own prompt and parameters |
| `PoolingProofs!WarmupCoversShapes` | every shape is compiled before the engine serves |
| `PoolingProofs!HeadIsTaken` | a batch contains the oldest waiting request |
| `PlatformProofs!PlatformInvHolds` | the inductive invariant of the process and its last configuration |
| `PlatformProofs!CheckedTwiceHolds` | checking an accepted configuration again changes nothing |
| `PlatformProofs!StrictMeansKnownHolds` | in strict mode an accepted engine has what the registry says |
| `PlatformProofs!MostSpecificModelHolds` | no pattern is taken where one that refines it matches |
| `PlatformProofs!ForgetsHistoryHolds` | an engine is configured as in a new process |

Assumptions: `RequestsAssumption` (finitely many requests), `BlockAssumption`
(positive sizes), `LimitAssumption` (a chunk has at least `max_num_seqs`
tokens, so that one step decodes the whole batch), `FlagAssumption` and
`WorkloadAssumption`. The pool's assumption is not used. Seven theorems have
a hypothesis of their own, which the table names. None is there for the proof's
sake: without it the property fails, and section 5 has the counterexamples. Two
are sufficient rather than exact: that of `WarmupBlocksHold` has to serve the
smallest batch, and `VolumeWithinSlackHolds` asks that the context is within the
volume limit, where a block more would do. A request that finds the engine
empty is not tested, so the limit has to have room for it; the default limit,
a full batch of full contexts, has.
The warmup needs `WarmupAssumption` besides: its prompts are not empty and the
ids of its requests are requests. Sampling needs `BatchAssumption` alone: at
least one slot, and a mark for a free one that is no request; the requests may be
infinitely many. The regions need `StaggerAssumption` alone: at
least one process, and positive depths. Pooling needs `ShapesAssumption`
(finitely many shapes, at least one, each with a positive length and size) and
`PromptAssumption` (prompts are not empty); its requests are numbered as they
arrive and have no bound but the one the workload sets.

The configuration needs more, as its inputs are a file and whatever a user
types. `ModelsAssumption`: the registry is a list of entries with the fields
that `ModelConfig.from_dict` gives them, patterns are finite, and no entry has
two configurations for the same runtime, which loading refuses. `DevicesAssumption`:
device configurations are lists of variables, none of which the plugin reads
as a setting or sets whatever it was; those of `config/model_configs.yaml` are `VLLM_DT_MAX_BATCH_TKV_LIMIT` and
the `FLEX_HDMA` sizes. `RequestsAssumption`: an engine comes with the
numbers vLLM has checked, and a list of warmup lengths is not empty, since
`envs.py` splits a string. `DecodersAssumption`: an entry with
configurations for pooling does not match a decoder. In the file
generating models have `continuous_batching_configs` alone and embedding models
`static_batching_configs` alone. With both in one entry a decoder that follows
a pooling engine would look for the shapes that this engine left. `MaxChanges` is
used nowhere: the user may make as many changes as he likes.

The argument. `Types` is inductive by itself. `AtMostOnePrefill` and
`BatchWithinLimit` are not: whether an ongoing prefill is still running after
`update_from_output` depends on whether its prompt is complete, and that on
what the runner sampled and on the correction for padding. `Bookkeeping` adds

* `QueueInv`: a request that has not started has left no trace, and the queue
  has no duplicates (so a released request is new to the batch);
* `PrefillInv`: at most one ongoing prefill, a running one;
* `CountInv`: an ongoing prefill has at most its prompt computed, a decoding
  request at least its prompt;
* `ScheduledInv`: the token counts in the message are those the scheduler
  already added;
* `KnownInv`: the runner's copy of a running prompt's length is right;
* `JoinInv`: a prefilled request is sampled only by the step that scheduled
  its last token.

The lemmas that carry it are `ReleaseBound` (the loop of `schedule()` releases
at most one request, and only without an ongoing prefill), `HitBound` (a hit
leaves at least one token to compute), `ScheduleShape` (a step is a prefill of
one request, a decode of all that decode, or empty) and `PrefillJoins`.

`Agreement` follows the decode batch round the loop on top of `Bookkeeping`:
what the runner holds is what decodes plus the finished ids on their way
(`BatchInv`), the prefill batch holds at most the request being prefilled
(`PrefillBatchInv`), and between the phases the plan and the output are those
of the step that was scheduled (`StepInv`). `TokenInv` says that the correction
for padding leaves at least one token of the prompt computed and one to go;
`PaddingBounds` (padding is less than a chunk), `NewRequestBounds` (without a
hit no cached block counts as usable) and `ParkedStays` prove it. Every
strengthened invariant, here and below, was model-checked on instances with
chunks of two and of three blocks before it was proved.

`Blocks` goes through the books on blocks. `BlockAgreement` is a statement
between two steps; what is inductive is that a request's list at the runner and
the increment on its way add up to what the KV manager holds (`CopyInv`), and
which count of tokens that is for: exactly the tokens of a decoding request,
while the blocks of a prompt may be ahead of a count that was corrected for
padding, though never of the prompt (`HeldInv`). `ExactInv` says that a decoding
request lacks exactly its last token, so that a step adds a block exactly when
that token begins one. `LengthInv` and `OutputInv` bound the tokens of a request
by the context, `InUseBound` sums the blocks over the batch.

`Covered` is about the tkv. The scheduler holds an old one, reported by the last
step that had rows (`ReportInv`); the inductive part is about the runner's own.
`RowsInv` says that each row, padded by whole blocks to the blocks of the tkv,
ends at or before it (`Aligned`): two facts about each row, not more blocks and
not less left over in the last one, which survive that the longest row leaves
and that all others are padded anew. `Shown` and `Joined` say which tokens and
rows are in it in which phase. `ContextInv` rounds the context up to whole
blocks, which is all that holds in general.

`Admitted` explains why no step is empty and no prompt joins untested when
prefills are not interleaved. Neither property is inductive. The last chunk may
come many steps after the constraints were asked with the first one; the answer
stays right because no other step comes in between, so that rows leave and none
grows or joins (`ConstraintsKept`), and the tkv is the same. One case is apart:
a prompt that finds the batch empty is tested with a tkv of an earlier batch and
starts a new one, which the scheduler learns a step later. Until then it is the
empty batch that lets it join (`Fresh`). With interleaving rows grow between the
chunks, so `NoEmptyStep` fails; `LastChunkConstrained` then rests on the test
with the last chunk, which a hit in the prefix cache evades, so one of the two
has to be off.

`Bounded` carries that over to the volume. The test is about the ends of the rows,
steps ahead, and about the batch that is left then, so `VolumeWithinSlack` is not
inductive. `RoomInv` is about every set of rows that may be left: whichever of
them is the longest, there is one whose end it reaches within the limit, taken
times the size of the set and up to a block a row (`Extent`). A decode step adds a
token to each row and takes it from what remains, so the sums stay; rows that end
or are aborted leave fewer sets (`FewerHaveRoom`). For a set that a prompt joins,
the first of it to end is charged by `check_batch_tkv_limit_cp` with at least
that set (`FirstIsCharged`), and the end it is charged with is no more than a block
below that of the longest row, as the joint tkv is rounded down to blocks
(`JoinCovers`). In a decode step every row has a token to come, and its
tkv is within the blocks of the longest row (`DecodeVolume`): that is the second block.

`Chunked` says where the runner is, from nothing but the scheduler's count.
`PrefillComplete` is not inductive: the runner derives its chunk from the count
by dividing, and the count is not always at the edge of a chunk, as the first
chunk of a padded prompt is counted in full until the output corrects it, and
hits may end within a chunk. `Reached` says that the count is a number of whole
blocks, that the block it falls on is in a chunk past the one in which the hits
end, and that the cache holds exactly the chunks before; `PlanInv` that the
plan is still the one made from the prompt and the hits, `StartInv` which hits a
new request can come with. From these each step's chunk begins where the cache
ends (`ChunkWellFormed`), and the last one ends with the prompt.

`Cached` adds the prefix cache. `BackedInv` names what stands behind every
published block while no prompt has been abandoned: the prefill under way that
is going to write it, a request that has written it, or a decoding request whose
step is scheduled. A request is released only when no prefill is under way, so
its hits are blocks that were written, which is
`HitsWrittenUnlessAbandoned`. Blocks stand on what requests have done, so nothing may be
taken for done too early: `BehindInv` says that the runner's count is that of
the last step, `ToldInv` that nothing is written for a request the runner has
not heard of.

`RefinementHolds` maps the engine to `ContinuousBatching` by `StageOf`, which
reads a request's stage off the scheduler's lists. `Arrive` is `Submit`, a
release in `ScheduleStep` is `StartPrefill`, an abort is `Abort`; `UpdateStep`
is `FinishPrefill` if the prefill has been sampled and `DecodeStep` if the
others have; all else stutters. That one step never does both, and that it
gives a token to all that decode or to none, is `YieldInv`, which follows the
output from the step it was planned in past aborts. `FirstTokenInv` makes the
first token the end of the prefill.

`Warmup` says of each label of the worker's script what the runner holds: which
warmup requests have been run (`Begun`), the message on its way, how many block
ids have been given out. Two things in it are not a matter of following the
script. That the deployment's request leaves the batch as the others do rests on
`Begun` never containing it (`Crew`). And the token of the decode step lands in
the last block because the blocks of a prompt, rounded up, and the one the
worker adds if and only if the prompt ends with a block, add up to the block of
the token (`TokenBlock`).

`Alignment` says of the decode batch that rows, output tokens and processors
follow its slots, of the prefill batch that it holds the request under way and no
other and has yet to make its metadata, and that those alive fit the slots. The
code keeps three orders by three means, and most of the proof shows that each
keeps up. Rows are the occupied slots in their order, so that a request in one
more slot is put between those before and after it (`OneMoreSlot`); the list of
outputs is inserted into and cut at the same place (`JoinedRows`, `LeftRows`);
processors are moved by chains of swaps, which rotate the part behind the row
(`SwappedDown`, `SwappedUp`), including the last move of a removal, which is
left out when all slots are taken. A request that joins takes the first free
slot, all slots before it are occupied, and so its slot is its row (`FirstFree`):
that is why the prefill index may be a slot. The folds that go through the
requests and moves of a step are recursive functions on sets; `FoldExists`
proves by a least counterexample that the recursion has a solution, `SwapFold`
and `RemovalFold` that it is the chain of single steps.

`StaggerProofs` counts barriers. `RoundsLemma` counts the iterations of the two
loops: rank `r` calls `r \div Limit` barriers before the body and as many after
it as make up the number of rounds (`CountLemma`), so all ranks call equally
many for a region. The inductive invariant `IInv` says of each rank, dead ones
included, where its count of barriers lies between the start of its region and
the end, that the start is the same number for all ranks that have returned
from equally many regions, and that nobody has passed a barrier that somebody
has not called. Two ranks inside at the same time are then in the same region
(`SameRegionLemma`) and have passed equally many barriers, so they belong to the
same set of at most `Limit` ranks (`SameSetLemma`); a rank that has returned has
passed all barriers of the region, which the others can only have called by
completing the body; and of the ranks with the fewest barriers called, one can
go on.

`PoolingInv` has a part for each of those that take turns. `QueueInv`: the
waiting list is in order of arrival, and nobody on it runs or has finished.
`StepInv`: what has been scheduled fits some shape, and those that run are among
it; not all of it runs, as clients leave while the model does. `RowsInv`: the runner's
batch, cleared and filled anew for each step, is tidy, that is, its index and its
rows name each other and rows are used from the first on, and while there
is an output its rows are those of the prompts it was computed from. `WarmupInv`: of every two
passes of the warmup one compiles the next shape in the order of the configuration.

The loop of `schedule()` is a fold, and `LoopInv` is the invariant of its
iterations: batch, skipped and held-back requests come from the queue up to here
and keep its order; whoever is skipped is older than whoever is held back; the shapes left
have room for the whole batch, although each was tested against one
request at a time; some shape is left, and the head of the queue has been taken.
`ChainOfFold` turns a fold into the chain of its intermediate results, so that an
invariant of one iteration (`LoopStep`) becomes one of the loop (`SortedQueue`);
the same lemma serves the rows that are filled request by request
(`FilledBatch`). The runner picks its shape by a rule of its own, the fastest of
those large enough; since the scheduler has left one, there is one
(`NewRequests`), and for the prompts of a shape's warmup it is that shape
(`OwnShape`), so that going through the configuration's order
(`AllShapesListed`) compiles them all. `PooledRows` ends the argument: outputs
and parameters are in the order of the rows, and the index of a request is its
row.

`PlatformInv` says of a configuration that was accepted, and of the process around
it, what each stage of `check_and_update_config` leaves behind: `RunnerChecked`,
`Threaded`, `Moded`, `RunnerConfigured`, `Registered`, `Cached`, `Compiled`,
`Disabled`. The proof has three facts for each stage: it establishes its condition unless it
raises an exception, it changes nothing where the condition holds
already, and it writes only the variables and fields of its frame (`Frame`), so
that the conditions of the stages before stay. The second is `CheckedTwice`, stage
after stage. The order matters: the registry compares with a number of blocks
that `SetDecoderCache` sets only if nobody else has, and with the limit that
`SetTkvLimit` sets if it is missing, so that both are met again
by the second check as they were left. `StrictMeansKnown` is `Registered` where nothing is
relaxed. The registry's variables are set one by one and each may meet
a conflict; that an accepted device configuration is wholly in place is an induction along the list.

For `MostSpecificModel` the search is a fold over the entries that keeps the
better of two. `FindsBest` makes it the first entry with the most fields
among those that match, and `RefiningCountsMore` shows that a pattern that
refines another one has more of them: the sum over the nested fields grows with
the set and with each summand.

`ForgetsHistory` compares two runs of the check, in the process as it is and in
a new one with the user's environment. `UserInv` says what any history leaves
intact: a setting reads as in the user's environment unless he changed it behind
the cache's back, and his own variables, the limit and the registry's
among them, are as he set them. So the two processes agree on what the check reads
(`Alike`), the variables that are overwritten and the leftovers apart, and each stage
keeps them alike or fails in both with the same error (`Follows`). The set of
variables on which they agree grows as stages overwrite variables, and at the
end it contains all that `Outcome` looks at. For a pooling engine the shapes are
made anew from the settings and the registry has no device configuration, so that nothing of
the leftovers is read.

The facts on `Max`, division, sequences and folds that all of these share are
in `SequenceLemmas`.

Only model-checked:

* liveness: no prover for fairness here;
* `AgreesWithLoop`, whose reference is a recursive loop.

## 5. What the checks found

Each of these is a run in which TLC violates a sentence of the repository.

* `VolumeLimit`. `check_batch_tkv_limit_cp` must keep batch size times tkv
  within the limit (`scheduler.py:476`). It charges each request with its own
  tkv instead of the longest row's, and takes the padding of the others as
  constant. Without interleaving the excess is below two blocks per row
  (`VolumeWithinSlack`).
* `UnwrittenHits`. The runner calls the cached blocks of a new request reusable
  (`runner.py:1178`). The base scheduler publishes blocks when it schedules
  them and knows nothing of left padding: of the blocks it publishes for the
  first chunk, the runner writes fewer, and the rest with the next chunk. If
  the request is aborted in between, a longer prompt with the same text hits
  blocks that no step has written.
* `StalePrefillIndex`. The prefill index is set on the wrapper of every
  processor and reset only when that wrapper is applied
  (`logitsproc.py:106`). In a greedy prefill the sampler leaves min_p out; its
  index survives, and the next step with a random row applies the processor of
  that one request to all rows. `test_logits_processors.py:63` tests the switch
  between prefill and decode, with a processor that is always applied.
* `SlotBadWords`. Sampling parameters are dense (`batch.py:329`, and the test of
  the metadata expects bad words to be, `test_spyre_input_batch.py:91`), but
  `bad_words_token_ids` is kept and handed over by slot.

Seen with the same modules, without a run of their own. Properties named here
are defined; add them to the run's cfg to see the counterexample.

* `NoEmptyStep` in `EngineLiveness`: with interleaving the promise of no empty
  step (`scheduler.py:149`) fails. `self.tkv` is only renewed by an output; when
  the last decoding request ends, the tkv it left can fail the last-chunk test
  of a parked prefill, and `schedule()` returns an empty step. The empty output
  resets tkv to 0 and the next step goes on, so `EveryRequestFinishes` holds:
  the empty step is what resolves the situation.
* `LastChunkConstrained` in `EngineInterleaved`: all constraints are meant to be
  tested at the last chunk (`scheduler.py:160`). `_satisfies_constraints` asks
  `num_computed_tokens`, which is 0 for a waiting request, before the base
  scheduler looks into the prefix cache. A prompt of several chunks whose first
  ones are cached completes in its first step, with only the first chunk's
  constraints tested. `VolumeWithinSlack` fails in consequence where the limit
  is tight (`EngineConsecutive.cfg` with `Interleave = TRUE`).
* `ProcessorsUpdated` in `SamplingAlignment`: `update_state` must be called on
  each processor in each step (`logitsproc.py:72`). The chained assignment at
  line 95 puts the processors themselves into `update_called`; they count as
  true, and those that moved are not called in a step that removes a request
  before them.
* `clear_requests` resets every table of parameters but `bad_words_token_ids`
  (`batch.py:453`). The prefill batch is reused for every prompt, so that a
  request without bad words gets an earlier one's for its first token.
* The branch of `adjust_computed_tokens` that returns the prefix cache length
  (`scheduler.py:241`) is never taken, whatever the constants are
  (`PrefillOutput`, part of the proved `Agreement`): a count within the first
  chunk belongs to a prompt without hits (`NextCount`).
* A context that is not a whole number of blocks, which nothing in
  `platform.py` refuses. `get_total_spyre_blocks` wants the "number of blocks
  required for a full-sized batch" (`platform.py:99`) and divides
  `max_model_len` by the block size rounding down (`platform.py:110`): with
  blocks of 4, a context of 7 and two requests of 4 tokens that output 3 each,
  the pool has 4 blocks and the requests need 2 each, beside the padding block.
  `PoolSuffices` fails, and `TkvWithinContext` does too: rows of 5 and 4 tokens
  are padded to 8. That is why the theorems about the two ask for whole blocks.
* The smallest pool accepted at start-up (`platform.py:136`) can be too small:
  it divides the volume limit by the block size once for the whole batch, each
  request rounds up by itself, and padding needs block 0. `BlocksOverride`
  gives the model such a pool, and `PoolSuffices` then fails. `PoolSuffices` is
  checked for the default pool.
* `ForgetsHistory` holds for a decoder only while nothing of an earlier engine
  is left over, which `Leftovers` says. Three things stay: the default of
  `VLLM_DT_MAX_BATCH_TKV_LIMIT`, which a later, larger engine takes for the
  user's (`platform.py:335`); the warmup shapes of a pooling engine, which make
  the registry look for static batching when a decoder follows
  (`platform.py:249`); and what the configurator put into the environment. Not
  part of `Outcome`, because they are compared with nothing, are
  `DISABLE_COMPILATION` and the thread counts, which stay as well.
* `WarmupBlocksExist` depends on the configuration: where the context is hardly
  longer than the warmup prompts, the ids exceed the KV cache.
* The worker reads `if tok := config.get("bos_token_id") is not None`
  (`worker.py:400`), which binds the comparison: `restricted_tokens` is `[1, 1]`
  whatever the ids are, and the warmup avoids token 1. Tokens are not modelled.

## 6. Not modelled, and the plan

Left out because it is data: tensor contents, the choice of tokens, multimodal
embeddings, the model loader and the FMS model, the pooler. Left out because
nothing reads it back: the statistics of `make_stats`, the metrics, logging and
the warnings, among them the comparison of precompiled configurations and the
registry's hints on shapes. Left out because it is external or trivial: the
set-up of devices and processes, signals, class names, the choice of the
configuration file, the compile-only backend, `FLEX_DEVICE`, the golden token
injector of the tests, and `vllm_spyre_next`, which inherits its behaviour.

Preemption is not modelled: `PoolSuffices` shows it does not occur with the
default pool and a context of whole blocks, and the runner has no code for it. `finish_requests` is modelled
for one request at a time, as the engine aborts them one after the other; a
request id is used once. Where the number of CPUs comes from is one constant,
and `OMP_NUM_THREADS` stands for all thread variables.

What would come next, in order of importance:

1. Identities of blocks. `HitsWereWritten` compares counts, which suffices for
   prompts that share their text; evicted blocks that are given to another
   prompt would need a module of their own.
2. An abstract specification of the batch, one row with its own parameters per
   request, refined by `SamplingSteps` where the findings of section 5 permit.
