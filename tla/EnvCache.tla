------------------------------- MODULE EnvCache -------------------------------
(***************************************************************************)
(* envs.py: the settings of the plugin, read from the environment at the   *)
(* time they are first used and from a cache ever after. Both live in the  *)
(* record p of a process: p.environ holds the variables that are set,      *)
(* p.cache the settings that have been read.                               *)
(***************************************************************************)
EXTENDS Integers, Functions

\* The settings that the start of an engine depends on. A list of prompt
\* lengths and one of batch sizes are sequences, flags are Booleans.
Defaults ==
  [VLLM_SPYRE_WARMUP_PROMPT_LENS          |-> <<64>>,
   VLLM_SPYRE_WARMUP_BATCH_SIZES          |-> <<1>>,
   VLLM_SPYRE_DYNAMO_BACKEND              |-> "sendnn",
   VLLM_SPYRE_UPDATE_THREAD_CONFIG        |-> TRUE,
   VLLM_SPYRE_NUM_CPUS                    |-> 0,
   VLLM_SPYRE_REQUIRE_KNOWN_CONFIG        |-> FALSE,
   VLLM_SPYRE_REQUIRE_PRECOMPILED_DECODERS |-> FALSE]

Settings == DOMAIN Defaults

\* The mapping f with v for n.
With(f, n, v) == [m \in DOMAIN f \cup {n} |-> IF m = n THEN v ELSE f[m]]

\* os.environ[n] = v
SetEnv(p, n, v) == [p EXCEPT !.environ = With(@, n, v)]

\* environment_variables[n]()
Evaluated(environ, n) ==
  IF n \in DOMAIN environ THEN environ[n] ELSE Defaults[n]

\* The value of envs.n ...
Setting(p, n) ==
  IF n \in DOMAIN p.cache THEN p.cache[n] ELSE Evaluated(p.environ, n)

\* ... and what reading the settings in S leaves in the cache.
Read(p, S) == [p EXCEPT !.cache = [n \in S \cup DOMAIN @ |-> Setting(p, n)]]

\* A bug: a setting that has been read keeps its cached value.
BugOverride(p, n, v) == SetEnv(p, n, v)

Override(p, n, v) == [SetEnv(p, n, v) EXCEPT !.cache = With(@, n, v)]

ClearEnvCache(p) == [p EXCEPT !.cache = <<>>]
=============================================================================
