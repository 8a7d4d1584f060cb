----------------------------- MODULE SpyrePlatform -----------------------------
(***************************************************************************)
(* check_and_update_config: what it takes from the environment, what it    *)
(* writes into the configuration of an engine, and what it leaves behind   *)
(* in the process (environment, class attributes, cached settings) for the *)
(* next engine that is configured there.                                   *)
(*                                                                         *)
(* The state of the process is a record p. A stage of the method is an     *)
(* operator from p to p; an exception is p.error, and ends it with all     *)
(* that has been set so far. Log messages are left out.                    *)
(***************************************************************************)
EXTENDS ModelRegistry, ModelConfigurator

CONSTANTS
  DetectedCpus,      \* CPUs that the process finds, 0 for none
  PrecompiledCache,  \* TORCH_SENDNN_CACHE_DIR is enabled and holds a model
  Configs,           \* configurations that engines are asked for
  Changes,           \* <<variable, value>> pairs the user may set
  MaxChanges         \* bound: how often the user sets or unsets one

ASSUME PlatformAssumption ==
  /\ DetectedCpus \in Nat
  /\ PrecompiledCache \in BOOLEAN
  /\ MaxChanges \in Nat

VARIABLES
  environ,  \* os.environ
  cache,    \* envs._cache
  shapes,   \* SpyrePlatform._warmup_shapes as a set, {} for None
  config,   \* the configuration that was checked last, and updated
  error,    \* what checking it raised, "none" if it was accepted
  user,     \* the environment as the user made it
  unseen,   \* settings changed since they were cached
  changes,  \* how often the user changed a variable
  settled   \* nothing was changed since the last configuration

vars == <<environ, cache, shapes, config, error, user, unseen, changes, settled>>

BlockSize == 64

NoConfig == [runner |-> "none"]

Process ==
  [environ |-> environ, cache |-> cache, shapes |-> shapes,
   config |-> config, error |-> error]

\* A new process with the environment e.
FreshProcess(e) ==
  [environ |-> e, cache |-> <<>>, shapes |-> {}, config |-> NoConfig, error |-> "none"]

IsDecoder(c) == c.runner = "generate"

Larger(a, b) == IF a >= b THEN a ELSE b

CeilDiv(a, b) == (a + b - 1) \div b
-----------------------------------------------------------------------------
(***************************************************************************)
(* The stages, in their order.                                             *)
(***************************************************************************)
CheckRunner(p) ==
  IF "VLLM_USE_V1" \in DOMAIN p.environ /\ ~p.environ["VLLM_USE_V1"]
    THEN Fail(p, "v0")
  ELSE IF p.config.runner \notin {"generate", "pooling"} THEN Fail(p, "runner")
  ELSE p

\* _check_threading_config. OMP_NUM_THREADS stands for all THREADING_ENVS.
CheckThreading(p) ==
  LET q    == Read(p, {"VLLM_SPYRE_NUM_CPUS", "VLLM_SPYRE_UPDATE_THREAD_CONFIG"})
      set  == Setting(p, "VLLM_SPYRE_NUM_CPUS")
      cpus == IF set > 0 THEN set ELSE DetectedCpus
  IN IF ~Setting(p, "VLLM_SPYRE_UPDATE_THREAD_CONFIG") THEN q
     ELSE IF cpus = 0 THEN Fail(q, "cpus")
     ELSE SetEnv(q, "OMP_NUM_THREADS", CeilDiv(cpus, p.config.world_size))

\* The backend is read here to be logged, and cached thereby.
SetCompilationMode(p) ==
  SetEnv(Read(p, {"VLLM_SPYRE_DYNAMO_BACKEND"}), "COMPILATION_MODE",
         IF IsDecoder(p.config) THEN "offline_decoder" ELSE "offline")

CheckDecoder(p) ==
  IF p.config.quantized /\ p.config.max_num_seqs = 1 THEN Fail(p, "fp8") ELSE p

\* A bug: shapes that are there are used again.
BugForgetShapes(p) == p

\* cls._warmup_shapes = None
ForgetShapes(p) == [p EXCEPT !.shapes = {}]

\* get_warmup_shapes: <<prompt length, batch size>> pairs, unless cached.
GetWarmupShapes(p) ==
  LET q     == Read(p, {"VLLM_SPYRE_WARMUP_PROMPT_LENS"})
      lens  == Setting(p, "VLLM_SPYRE_WARMUP_PROMPT_LENS")
      both  == Read(q, {"VLLM_SPYRE_WARMUP_BATCH_SIZES"})
      sizes == Setting(p, "VLLM_SPYRE_WARMUP_BATCH_SIZES")
  IN IF p.shapes # {} THEN p
     ELSE IF \E i \in DOMAIN lens : lens[i] % 64 # 0 THEN Fail(q, "prompt_lens")
     ELSE IF Len(lens) # Len(sizes) THEN Fail(both, "lists")
     ELSE [both EXCEPT !.shapes = {<<lens[i], sizes[i]>> : i \in DOMAIN lens}]

\* A pooling engine is as large as its largest shapes, within its model.
ApplyShapes(p) ==
  LET max_seq_len    == Max({s[1] : s \in p.shapes})
      max_batch_size == Max({s[2] : s \in p.shapes})
  IN IF max_seq_len > p.config.max_position_embeddings THEN Fail(p, "max_len")
     ELSE [p EXCEPT !.config.max_model_len = max_seq_len,
                    !.config.max_num_seqs = max_batch_size]

CheckRunnerConfig(p) ==
  IF IsDecoder(p.config) THEN CheckDecoder(p)
  ELSE Then(GetWarmupShapes(ForgetShapes(p)), ApplyShapes)

\* The registry is asked on Spyre only, with whatever shapes the class has.
ApplyRegistry(p) ==
  LET q       == Read(p, {"VLLM_SPYRE_DYNAMO_BACKEND"})
      devices == DevicesForRuntime(p.config, p.shapes)
      strict  == Read(q, {"VLLM_SPYRE_REQUIRE_KNOWN_CONFIG"})
  IN IF Setting(p, "VLLM_SPYRE_DYNAMO_BACKEND") # "sendnn" THEN q
     ELSE IF devices = {NoDevice} THEN q
     ELSE IF devices # {} THEN ConfigureDevice(q, CHOOSE d \in devices : TRUE)
     ELSE IF Setting(strict, "VLLM_SPYRE_REQUIRE_KNOWN_CONFIG")
       THEN Fail(strict, "unknown") ELSE strict

TkvLimit == "VLLM_DT_MAX_BATCH_TKV_LIMIT"

(***************************************************************************)
(* get_total_spyre_blocks without an override: blocks of a full batch and  *)
(* one for padding, rounded up to a multiple of the batch size.            *)
(***************************************************************************)
FullBatchBlocks(c) == c.max_num_seqs * (c.max_model_len \div BlockSize)

TotalBlocks(c) ==
  CeilDiv(FullBatchBlocks(c) + 1, c.max_num_seqs) * c.max_num_seqs

MinBlocks(p) ==
  LET full == FullBatchBlocks(p.config)
  IN 1 + IF TkvLimit \in DOMAIN p.environ
           THEN Min({full, p.environ[TkvLimit] \div BlockSize}) ELSE full

SetDecoderCache(p) ==
  LET c == p.config
      q == SetEnv([p EXCEPT !.config.block_size = BlockSize],
                  "VLLM_DT_CHUNK_LEN", c.max_num_batched_tokens)
  IN IF c.max_num_batched_tokens % BlockSize # 0 THEN Fail(q, "chunk")
     ELSE IF c.num_gpu_blocks # NoBlocks THEN q
     ELSE IF TotalBlocks(c) < MinBlocks(p) THEN Fail(q, "pool")
     ELSE [q EXCEPT !.config.num_gpu_blocks = TotalBlocks(c)]

SetPoolingCache(p) ==
  [p EXCEPT !.config.block_size = p.config.max_model_len,
            !.config.max_num_batched_tokens =
               p.config.max_model_len * p.config.max_num_seqs]

SetCache(p) == IF IsDecoder(p.config) THEN SetDecoderCache(p) ELSE SetPoolingCache(p)

\* A bug: the default replaces a limit that is there.
BugSetTkvLimit(p) ==
  SetEnv(p, TkvLimit, p.config.max_model_len * p.config.max_num_seqs)

\* The largest batch x tkv the compiler has to support, unless it is set.
SetTkvLimit(p) ==
  IF TkvLimit \in DOMAIN p.environ THEN p
  ELSE SetEnv(p, TkvLimit, p.config.max_model_len * p.config.max_num_seqs)

SetCompilerVars(p) ==
  SetTkvLimit(
    SetEnv(SetEnv(p, "VLLM_DT_MAX_CONTEXT_LEN", p.config.max_model_len),
           "VLLM_DT_MAX_BATCH_SIZE", Larger(p.config.max_num_seqs, 2)))

\* handle_disable_compilation. Configurations that were not precompiled are
\* only warned of.
DisableCompilation(p) ==
  LET q == Read(p, {"VLLM_SPYRE_REQUIRE_PRECOMPILED_DECODERS"})
      d == SetEnv(q, "DISABLE_COMPILATION", TRUE)
  IN IF ~Setting(p, "VLLM_SPYRE_REQUIRE_PRECOMPILED_DECODERS") THEN q
     ELSE IF ~IsDecoder(p.config) THEN q
     ELSE IF PrecompiledCache THEN d ELSE Fail(d, "precompiled")

\* Variables that are set whatever they were.
Overwritten ==
  {"OMP_NUM_THREADS", "COMPILATION_MODE", "VLLM_DT_CHUNK_LEN", "VLLM_DT_MAX_CONTEXT_LEN",
   "VLLM_DT_MAX_BATCH_SIZE", "DISABLE_COMPILATION"}

\* The device configurations of the registry, and the variables they set.
Devices ==
  {cb.device : cb \in UNION {ToSet(m.continuous) : m \in ToSet(Models)}} \ {NoDevice}

DeviceVariables == UNION {{e[1] : e \in ToSet(d.env_vars)} : d \in Devices}

CheckAndUpdateConfig(p, c) ==
  LET started   == CheckRunner([p EXCEPT !.config = c, !.error = "none"])
      threading == Then(started, CheckThreading)
      runner    == Then(Then(threading, SetCompilationMode), CheckRunnerConfig)
      registry  == Then(runner, ApplyRegistry)
      sized     == Then(Then(registry, SetCache), SetCompilerVars)
  IN Then(sized, DisableCompilation)
-----------------------------------------------------------------------------
(***************************************************************************)
(* The registry's variables, limits and sizes of transfers, are neither    *)
(* settings of the plugin nor among those that the check sets itself.      *)
(***************************************************************************)
ASSUME DevicesAssumption ==
  /\ \A d \in Devices : d.env_vars \in Seq(ToSet(d.env_vars))
  /\ DeviceVariables \cap (Settings \cup Overwritten \cup {"VLLM_USE_V1"}) = {}

IsConfig(c) ==
  c \in [runner : {c.runner}, hf : {c.hf}, quantized : BOOLEAN,
         world_size : Nat \ {0}, max_position_embeddings : Nat, max_model_len : Nat,
         max_num_seqs : Nat \ {0}, max_num_batched_tokens : Nat,
         num_gpu_blocks : Nat \cup {NoBlocks}, block_size : Nat]

\* The user's values are read by int(), and a list of lengths has one at least.
ASSUME RequestsAssumption ==
  /\ \A c \in Configs : IsConfig(c)
  /\ \A change \in Changes :
       change[1] = "VLLM_SPYRE_WARMUP_PROMPT_LENS" => DOMAIN change[2] # {}

\* The models that decoders are taken for have no configurations for pooling.
ASSUME DecodersAssumption ==
  \A c \in Configs, m \in ToSet(Models) :
    IsDecoder(c) /\ Matches(c.hf, m.architecture) => m.static = <<>>

Init ==
  /\ environ = <<>>
  /\ cache = <<>>
  /\ shapes = {}
  /\ config = NoConfig
  /\ error = "none"
  /\ user = <<>>
  /\ unseen = {}
  /\ changes = 0
  /\ settled = FALSE

\* Continue as process p.
Becomes(p) ==
  /\ environ' = p.environ
  /\ cache' = p.cache
  /\ shapes' = p.shapes
  /\ config' = p.config
  /\ error' = p.error

\* vLLM makes the configuration of an engine and has the platform check it.
Configure(c) ==
  /\ Becomes(CheckAndUpdateConfig(Process, c))
  /\ settled' = TRUE
  /\ UNCHANGED <<user, unseen, changes>>

UserChanges ==
  /\ changes < MaxChanges
  /\ changes' = changes + 1
  /\ settled' = FALSE

\* os.environ[n] = v, whatever has been cached.
SetVariable(n, v) ==
  /\ UserChanges
  /\ Becomes(SetEnv(Process, n, v))
  /\ user' = With(user, n, v)
  /\ unseen' = IF n \in DOMAIN cache /\ cache[n] # v THEN unseen \cup {n}
                                                    ELSE unseen \ {n}

\* envs.override(n, v)
OverrideSetting(n, v) ==
  /\ UserChanges
  /\ n \in Settings
  /\ Becomes(Override(Process, n, v))
  /\ user' = With(user, n, v)
  /\ unseen' = unseen \ {n}

\* envs.clear_env_cache()
ClearCache ==
  /\ UserChanges
  /\ Becomes(ClearEnvCache(Process))
  /\ unseen' = {}
  /\ UNCHANGED user

Next ==
  \/ \E c \in Configs : Configure(c)
  \/ \E change \in Changes :
       \/ SetVariable(change[1], change[2])
       \/ OverrideSetting(change[1], change[2])
  \/ ClearCache

Spec == Init /\ [][Next]_vars
-----------------------------------------------------------------------------
Accepted == config # NoConfig /\ error = "none"

\* vLLM checks a configuration again for every copy it makes of it. The check
\* then finds its own values where it looked for the user's: in the
\* environment, in the override of the blocks, in the lengths.
CheckedTwice == Accepted /\ settled => CheckAndUpdateConfig(Process, config) = Process

(***************************************************************************)
(* "When this flag is enabled, the engine will raise a RuntimeError if the *)
(* model cannot be matched to a known configuration": an accepted one has, *)
(* after all stages, what the registry says, in the environment and in the *)
(* configuration.                                                          *)
(***************************************************************************)
StrictMeansKnown ==
  ( /\ Accepted
    /\ settled
    /\ Setting(Process, "VLLM_SPYRE_REQUIRE_KNOWN_CONFIG")
    /\ Setting(Process, "VLLM_SPYRE_DYNAMO_BACKEND") = "sendnn" ) =>
      \E device \in DevicesForRuntime(config, IF IsDecoder(config) THEN {} ELSE shapes) :
        device # NoDevice =>
          /\ \A e \in ToSet(device.env_vars) : environ[e[1]] = e[2]
          /\ DeviceBlocks(device) \in {NoBlocks, config.num_gpu_blocks}

\* A pattern that refines another one that matches is preferred to it, whatever
\* the order of the file.
MostSpecificModel ==
  config # NoConfig =>
    LET found == FindMatchingModel(config.hf)
    IN \A m \in ToSet(Models) :
         Matches(config.hf, m.architecture) =>
           /\ found # NoModel
           /\ ~Refines(m.architecture, found.architecture)

\* What earlier engines leave that later decoders depend on: shapes, and
\* variables that are taken for the user's.
Leftovers ==
  \/ shapes # {}
  \/ (DOMAIN environ \ DOMAIN user) \cap ({TkvLimit} \cup DeviceVariables) # {}

\* What an engine takes from its check: the configuration or the error, and the
\* variables for the compiler.
Outcome(p) ==
  IF p.error # "none" THEN <<p.error>>
  ELSE <<p.config,
         Restrict(p.environ,
                  DOMAIN p.environ \cap
                    ({"COMPILATION_MODE", "VLLM_DT_MAX_CONTEXT_LEN", "VLLM_DT_MAX_BATCH_SIZE"}
                      \cup IF IsDecoder(p.config) THEN {"VLLM_DT_CHUNK_LEN", TkvLimit}
                                                  ELSE {}))>>

(***************************************************************************)
(* The next engine is configured as in a new process with the environment  *)
(* of the user: the cache holds what the user set, provided that he uses   *)
(* override or clears it, and a pooling engine is not affected by anything *)
(* that engines before it left. A decoder is, by the Leftovers.            *)
(***************************************************************************)
ForgetsHistory ==
  \A c \in Configs :
    unseen = {} /\ (IsDecoder(c) => ~Leftovers) =>
      Outcome(CheckAndUpdateConfig(Process, c)) =
        Outcome(CheckAndUpdateConfig(FreshProcess(user), c))
=============================================================================
