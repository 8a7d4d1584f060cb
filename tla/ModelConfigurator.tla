--------------------------- MODULE ModelConfigurator ---------------------------
(***************************************************************************)
(* ModelConfigurator: puts the device configuration of a known model into  *)
(* the environment and into the engine's configuration, p.config, without  *)
(* overriding what is there. A conflict is an error if the user asked for  *)
(* known configurations only; what was set before it stays.                *)
(***************************************************************************)
EXTENDS EnvCache, SequencesExt

CONSTANT
  OldSendnn  \* torch_sendnn is older than 1.0.3

ASSUME SendnnAssumption == OldSendnn \in BOOLEAN

\* num_gpu_blocks_override is None.
NoBlocks == -1

Fail(p, reason) == [p EXCEPT !.error = reason]

\* Continue unless an exception was raised.
Then(p, Stage(_)) == IF p.error = "none" THEN Stage(p) ELSE p

\* A bug: the value that is there is never compared.
BugValidateConfigOverride(p, default, applied) == p

\* _validate_config_override: a warning, or an exception.
ValidateConfigOverride(p, default, applied) ==
  IF default = applied THEN p
  ELSE LET q == Read(p, {"VLLM_SPYRE_REQUIRE_KNOWN_CONFIG"})
       IN IF Setting(q, "VLLM_SPYRE_REQUIRE_KNOWN_CONFIG")
            THEN Fail(q, "conflict") ELSE q

\* set_env_var, not overriding.
SetEnvVar(p, n, v) ==
  IF n \in DOMAIN p.environ THEN ValidateConfigOverride(p, v, p.environ[n])
  ELSE SetEnv(p, n, v)

\* _parse_device_config_gpu_blocks: num_blocks is a function from the versions
\* that the entry tells apart.
DeviceBlocks(device) ==
  LET version == IF OldSendnn THEN "torch_sendnn_lt_1_0_3" ELSE "default"
  IN IF version \in DOMAIN device.num_blocks THEN device.num_blocks[version]
     ELSE NoBlocks

ConfigureGpuBlocks(p, device) ==
  LET blocks == DeviceBlocks(device)
      user   == p.config.num_gpu_blocks
  IN IF blocks = NoBlocks THEN p
     ELSE IF user = NoBlocks THEN [p EXCEPT !.config.num_gpu_blocks = blocks]
     ELSE ValidateConfigOverride(p, blocks, user)

\* configure: device.env_vars is the list of <<variable, value>> pairs.
ConfigureDevice(p, device) ==
  Then(FoldLeft(LAMBDA q, e : Then(q, LAMBDA s : SetEnvVar(s, e[1], e[2])),
                p, device.env_vars),
       LAMBDA q : ConfigureGpuBlocks(q, device))
=============================================================================
