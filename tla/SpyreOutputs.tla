---------------------------- MODULE SpyreOutputs ----------------------------
(***************************************************************************)
(* The two messages of an engine step: the SchedulerOutput the scheduler   *)
(* hands to the model runner, and the SpyreModelRunnerOutput it gets back. *)
(***************************************************************************)
EXTENDS SpyreConfig

VARIABLES
  scheduler_output,
  model_output

Nothing == [r \in Requests |-> 0]

\* The fields of vLLM's SchedulerOutput that the runner reads.
SchedulerOutputs ==
  [new        : SUBSET Requests,       \* scheduled_new_reqs
   prompt     : [Requests -> Nat],     \* prompt length of the new requests
   cached     : SUBSET Requests,       \* scheduled_cached_reqs
   computed   : [Requests -> Int],     \* num_computed_tokens of those
   tokens     : [Requests -> Int],     \* num_scheduled_tokens
   new_blocks : [Requests -> Int],     \* blocks allocated in this step
   finished   : SUBSET Requests]       \* finished_req_ids

NoSchedulerOutput ==
  [new |-> {}, prompt |-> Nothing, cached |-> {}, computed |-> Nothing,
   tokens |-> Nothing, new_blocks |-> Nothing, finished |-> {}]

\* The fields of SpyreModelRunnerOutput that the scheduler reads.
ModelOutputs ==
  [req_ids      : SUBSET Requests,     \* the keys of req_id_to_index
   sampled      : SUBSET Requests,     \* those with a sampled token
   tkv          : Int,
   left_padding : [Requests -> Int],   \* in tokens, 0 for a missing key
   prefix_hit   : [Requests -> Int]]   \* prefix_cache_hit_len, likewise

\* get_empty_output: no requests, and a tkv of 0.
EmptyOutput ==
  [req_ids |-> {}, sampled |-> {}, tkv |-> 0, left_padding |-> Nothing,
   prefix_hit |-> Nothing]

OutputsTypeOK ==
  /\ scheduler_output \in SchedulerOutputs
  /\ model_output \in ModelOutputs
=============================================================================
