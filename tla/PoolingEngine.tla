---------------------------- MODULE PoolingEngine ----------------------------
(***************************************************************************)
(* The worker's warmup of the pooling model runner, and then the engine    *)
(* loop with the pooling scheduler: schedule a batch, pad it to a warmup   *)
(* shape, run it, and take its requests as finished. Aborts come between   *)
(* steps and while the model runs.                                         *)
(***************************************************************************)
EXTENDS PoolingModelRunner

CONSTANTS
  PromptLens,   \* prompt lengths clients send
  MaxRequests   \* bound: requests that arrive

\* A prompt has a token at least.
ASSUME PromptAssumption == PromptLens \subseteq Nat \ {0}

VARIABLES
  warmups,  \* forward passes of the warmup so far
  phase     \* where the engine loop is

vars == <<schedVars, runnerVars, warmups, phase>>

Init ==
  /\ SchedInit
  /\ RunnerInit
  /\ warmups = 0
  /\ phase = "warmup"
-----------------------------------------------------------------------------
(***************************************************************************)
(* compile_or_warm_up_model: two forward passes for every warmup shape,    *)
(* the first to compile, the second to deploy. Nobody tells the runner     *)
(* that the requests of a pass have finished.                              *)
(***************************************************************************)
PassesDone == warmups = 2 * Cardinality(Shapes)

WarmupPass ==
  /\ phase = "warmup"
  /\ ~PassesDone
  /\ ExecuteModel(WarmupPrompts(WarmupShapes[warmups \div 2 + 1]), {})
  /\ warmups' = warmups + 1
  /\ UNCHANGED <<schedVars, warmup_mode, phase>>

CompleteWarmup ==
  /\ phase = "warmup"
  /\ PassesDone
  /\ warmup_mode' = FALSE
  /\ phase' = "idle"
  /\ UNCHANGED <<schedVars, input_batch, requests, padded, model_input, pooler_output,
                 compiled, warmups>>
-----------------------------------------------------------------------------
HasRequests == waiting # <<>> \/ running # {} \/ finished_ids # {}

Arrive(len) ==
  /\ phase = "idle"
  /\ Len(prompt_len) < MaxRequests
  /\ AddRequest(len)
  /\ UNCHANGED <<runnerVars, warmups, phase>>

Abort(r) ==
  /\ phase \in {"idle", "executed"}
  /\ FinishRequest(r)
  /\ UNCHANGED <<runnerVars, warmups, phase>>

ScheduleStep ==
  /\ phase = "idle"
  /\ HasRequests
  /\ Schedule
  /\ phase' = "scheduled"
  /\ UNCHANGED <<runnerVars, warmups>>

\* scheduled_new_reqs as the runner reads them.
ScheduledPrompts ==
  [i \in DOMAIN scheduled |-> [req |-> scheduled[i], len |-> prompt_len[scheduled[i]]]]

ExecuteStep ==
  /\ phase = "scheduled"
  /\ ExecuteModel(ScheduledPrompts, told)
  /\ phase' = "executed"
  /\ UNCHANGED <<schedVars, warmup_mode, warmups>>

UpdateStep ==
  /\ phase = "executed"
  /\ UpdateFromOutput
  /\ phase' = "idle"
  /\ UNCHANGED <<runnerVars, warmups>>

\* Every request came and went: the engine waits for the next client.
Drained ==
  /\ phase = "idle"
  /\ ~HasRequests
  /\ Len(prompt_len) = MaxRequests
  /\ UNCHANGED vars

EngineStep == ScheduleStep \/ ExecuteStep \/ UpdateStep

Next ==
  \/ WarmupPass \/ CompleteWarmup
  \/ \E len \in PromptLens : Arrive(len)
  \/ \E r \in Arrived : Abort(r)
  \/ EngineStep
  \/ Drained

Spec == Init /\ [][Next]_vars

\* The worker's start and then the engine's loop are one thread that goes on.
FairSpec == Spec /\ WF_vars(WarmupPass \/ CompleteWarmup \/ EngineStep)
-----------------------------------------------------------------------------
\* Types; a request is in one place only.
PoolingTypeOK ==
  /\ RunnerTypeOK
  /\ prompt_len \in Seq(1 .. MaxModelLen)
  /\ waiting \in Seq(Arrived \ (running \cup finished_ids))
  /\ running \subseteq ToSet(scheduled)
  /\ finished_ids \subseteq Arrived
  /\ told \subseteq Arrived
  /\ warmups \in 0 .. 2 * Cardinality(Shapes)
  /\ phase \in {"warmup", "idle", "scheduled", "executed"}

\* Skipping and holding back preserve priority: whatever was skipped, held
\* back or aborted, the waiting requests stay in the order of their arrival.
ArrivalOrder ==
  \A i, j \in DOMAIN waiting : i < j => waiting[i] < waiting[j]

\* The runner's assertion "No shapes available to run prefill batch": the
\* runner looks for a shape for the whole batch, the scheduler pruned shapes
\* request by request.
ShapeForEveryBatch ==
  phase = "scheduled" /\ scheduled # <<>> => ApplicableShapes(ScheduledPrompts) # {}

\* update_from_output gives a request the output at its index. That row must
\* have been pooled from the hidden states of its own prompt, all of them and
\* no padding, with its own parameters: four tables that are filled apart, and
\* that the warmup and finished or aborted requests have used before.
PooledOwnPrompt ==
  phase = "executed" =>
    \A r \in running :
      pooler_output[IndexOf(input_batch, r)] =
        [hidden |-> r, metadata |-> [len |-> prompt_len[r], params |-> r]]

\* Each shape is compiled by its own warmup, although the runner chooses the
\* shape of a warmup batch as it does for any other and could find a faster
\* one. Otherwise the first batch of that shape would be compiled when served.
EveryShapeCompiled == phase # "warmup" => compiled = Shapes

\* The oldest waiting request is in the next batch, so a request is passed
\* over at most once for each one that came before it.
OldestRuns ==
  [][ScheduleStep /\ waiting # <<>> => Head(waiting) \in ToSet(scheduled')]_vars

\* A request that does not fit the shapes of one batch after the other is not
\* put off for ever.
EveryRequestRuns ==
  \A r \in 1 .. MaxRequests :
    r \in Arrived ~> r \in Arrived /\ r \notin ToSet(waiting)
=============================================================================
