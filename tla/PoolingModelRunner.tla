-------------------------- MODULE PoolingModelRunner --------------------------
(***************************************************************************)
(* SpyrePoolingModelRunner: pads a batch of prompts to a warmup shape,     *)
(* runs the model, and pools the hidden states of each prompt.             *)
(***************************************************************************)
EXTENDS PoolingScheduler, PoolingInputBatch

VARIABLES
  input_batch,   \* the runner's batch
  requests,      \* the request states the runner keeps
  padded,        \* the shape of the last model input
  model_input,   \* its rows: the prompts, in the order they were scheduled
  pooler_output, \* what each row of the output was made of
  warmup_mode,   \* the runner's flag, off when it serves
  compiled       \* shapes of inputs with tensors marked for compilation

runnerVars ==
  <<input_batch, requests, padded, model_input, pooler_output, warmup_mode, compiled>>

\* The platform sets max_num_seqs to the largest batch.
MaxNumReqs == Max({s.batch_size : s \in Shapes})

RunnerInit ==
  /\ input_batch = NewBatch(MaxNumReqs)
  /\ requests = {}
  /\ padded = {}
  /\ model_input = <<>>
  /\ pooler_output = <<>>
  /\ warmup_mode = TRUE
  /\ compiled = {}

RunnerTypeOK ==
  /\ input_batch.items \in Seq([req : Int, index : 1 .. MaxNumReqs])
  /\ input_batch.num \in 0 .. MaxNumReqs
  /\ input_batch.rows \in [1 .. MaxNumReqs -> Prompts]
  /\ requests \subseteq Int
  /\ padded \subseteq Shapes
  /\ model_input \in Seq(Prompts)
  /\ warmup_mode \in BOOLEAN
  /\ compiled \subseteq Shapes
-----------------------------------------------------------------------------
\* _get_padded_batch_size: the shapes the runner may pad the batch to.
ApplicableShapes(prompts) ==
  {s \in Shapes :
     /\ Len(prompts) <= s.batch_size
     /\ \A p \in ToSet(prompts) : p.len <= s.prompt_length}

\* A bug: the last shape that applies, the slowest, is taken.
BugPaddedShape(prompts) ==
  CHOOSE s \in ApplicableShapes(prompts) :
    \A other \in ApplicableShapes(prompts) \ {s} : Faster(other, s)

\* The first in the order of the warmup shapes.
PaddedShape(prompts) ==
  CHOOSE s \in ApplicableShapes(prompts) :
    \A other \in ApplicableShapes(prompts) \ {s} : Faster(s, other)

Smaller(a, b) == IF a <= b THEN a ELSE b

\* update_states, told of the requests that finished.
UpdatedBatch(gone) ==
  FoldLeft(RemoveFromBatch, input_batch, SetToSeq(gone))

\* The batch _prepare_prompt builds: whatever update_states left is cleared.
PreparedBatch(prompts, gone) ==
  FoldLeft(AddToBatch, ClearRequests(UpdatedBatch(gone)), prompts)

(***************************************************************************)
(* What the pooler gets for a row: the hidden states of the model's row,   *)
(* of which the last as many as the metadata's prompt length are taken,    *)
(* and the parameters of the metadata's request.                           *)
(***************************************************************************)
Pooled(batch, prompts) ==
  [i \in 1 .. Smaller(batch.num, Len(prompts)) |->
     [hidden   |-> prompts[i].req,
      metadata |-> PoolingMetadata(batch)[i]]]

(***************************************************************************)
(* execute_model. The guards on the shapes, the batch and its parameters   *)
(* are assertions of the methods: where one fails, the engine stops.       *)
(***************************************************************************)
ExecuteModel(prompts, gone) ==
  IF prompts = <<>>
    THEN /\ input_batch' = UpdatedBatch(gone)
         /\ requests' = requests \ gone
         /\ pooler_output' = <<>>
         /\ UNCHANGED <<padded, model_input, compiled>>
    ELSE /\ ApplicableShapes(prompts) # {}
         /\ \E shape \in {PaddedShape(prompts)} :
              /\ padded' = {shape}
              /\ compiled' = IF warmup_mode THEN compiled \cup {shape} ELSE compiled
         /\ \E batch \in {PreparedBatch(prompts, gone)} :
              /\ batch.num <= MaxNumReqs
              /\ MetadataDefined(batch)
              /\ input_batch' = batch
              /\ pooler_output' = Pooled(batch, prompts)
         /\ requests' = {p.req : p \in ToSet(prompts)}
         /\ model_input' = prompts
-----------------------------------------------------------------------------
\* The prompts of _warmup_spyre_fixed_size: as many and as long as the shape
\* has room for, under the ids "warmup_0" and so on, the same for all shapes.
WarmupPrompts(shape) ==
  [i \in 1 .. shape.batch_size |-> [req |-> -i, len |-> shape.prompt_length]]
=============================================================================
