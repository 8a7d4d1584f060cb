---------------------------- MODULE MCSpyrePlatform ----------------------------
(***************************************************************************)
(* A registry of three models, as in model_configs.yaml: a decoder, its    *)
(* quantized variant, which comes later and has one nested field more, and *)
(* an embedding model. One of the decoder's configurations has a device    *)
(* configuration, whose limit is below a full batch.                       *)
(***************************************************************************)
EXTENDS SpyrePlatform

Decoder == [model_type |-> "granite", plain |-> {<<"layers", 40>>}, nested |-> <<>>]

Quantized == [Decoder EXCEPT !.nested = [quantization_config |-> {<<"format", 8>>}]]

Embedding == [model_type |-> "roberta", plain |-> {<<"layers", 12>>}, nested |-> <<>>]

Device ==
  [env_vars   |-> <<<<TkvLimit, 256>>, <<"FLEX_HDMA_P2PSIZE", 256>>>>,
   num_blocks |-> [torch_sendnn_lt_1_0_3 |-> 7, default |-> 10]]

Entry(name, architecture, static, continuous) ==
  [name |-> name, architecture |-> architecture,
   static |-> static, continuous |-> continuous]

Runtime(tp_size, max_model_len, max_num_seqs, device) ==
  [tp_size |-> tp_size, max_model_len |-> max_model_len,
   max_num_seqs |-> max_num_seqs, device |-> device]

ThreeModels ==
  <<Entry("granite", Decoder, <<>>,
          <<Runtime(1, 128, 2, NoDevice), Runtime(4, 256, 2, Device)>>),
    Entry("granite-FP8", Quantized, <<>>, <<Runtime(1, 128, 2, NoDevice)>>),
    Entry("embedding", Embedding,
          <<[tp_size |-> 1, shapes |-> {<<64, 1>>, <<64, 2>>, <<128, 1>>}]>>, <<>>)>>

Engine(runner, hf, world_size, len, seqs) ==
  [runner |-> runner, hf |-> hf, quantized |-> "quantization_config" \in DOMAIN hf.nested,
   world_size |-> world_size, max_position_embeddings |-> 256,
   max_model_len |-> len, max_num_seqs |-> seqs, max_num_batched_tokens |-> 128,
   num_gpu_blocks |-> NoBlocks, block_size |-> 0]

Engines ==
  LET known == Engine("generate", Decoder, 4, 256, 2)
  IN {known,
      [known EXCEPT !.num_gpu_blocks = 9],
      Engine("generate", Decoder, 1, 128, 2),
      [Engine("generate", Decoder, 1, 192, 3) EXCEPT !.max_num_batched_tokens = 100],
      Engine("generate", Quantized, 1, 128, 2),
      Engine("generate", Quantized, 1, 128, 1),
      Engine("generate", Decoder, 2, 192, 3),
      Engine("pooling", Embedding, 1, 512, 8),
      Engine("draft", Decoder, 1, 128, 2)}

UserChoices ==
  {<<TkvLimit, 64>>,
   <<"VLLM_USE_V1", FALSE>>,
   <<"VLLM_SPYRE_REQUIRE_KNOWN_CONFIG", TRUE>>,
   <<"VLLM_SPYRE_REQUIRE_PRECOMPILED_DECODERS", TRUE>>,
   <<"VLLM_SPYRE_DYNAMO_BACKEND", "eager">>,
   <<"VLLM_SPYRE_NUM_CPUS", 6>>,
   <<"VLLM_SPYRE_UPDATE_THREAD_CONFIG", FALSE>>,
   <<"VLLM_SPYRE_WARMUP_PROMPT_LENS", <<64, 128>>>>,
   <<"VLLM_SPYRE_WARMUP_PROMPT_LENS", <<100>>>>,
   <<"VLLM_SPYRE_WARMUP_BATCH_SIZES", <<2, 1>>>>}
=============================================================================
