--------------------------- MODULE PoolingScheduler ---------------------------
(***************************************************************************)
(* PoolingSpyreScheduler, for models that answer a prompt in one step. A   *)
(* batch must fit one of the warmup shapes the model was compiled for.     *)
(* Requests are numbered in the order of their arrival.                    *)
(***************************************************************************)
EXTENDS Integers, SequencesExt

CONSTANT Shapes  \* the warmup shapes, records of prompt_length and batch_size

ASSUME ShapesAssumption ==
  /\ Shapes # {}
  /\ IsFiniteSet(Shapes)
  /\ Shapes \subseteq [prompt_length : Nat \ {0}, batch_size : Nat \ {0}]

VARIABLES
  prompt_len,    \* num_prompt_tokens of the requests so far, by arrival
  waiting,       \* the waiting queue
  running,       \* the requests of the step
  finished_ids,  \* told to the runner with the next step
  scheduled,     \* scheduled_new_reqs of the step
  told           \* finished_req_ids of the step

schedVars == <<prompt_len, waiting, running, finished_ids, scheduled, told>>

Arrived == DOMAIN prompt_len

SchedInit ==
  /\ prompt_len = <<>>
  /\ waiting = <<>>
  /\ running = {}
  /\ finished_ids = {}
  /\ scheduled = <<>>
  /\ told = {}

\* The platform sets max_model_len to the longest shape; vLLM turns longer
\* prompts away.
MaxModelLen == Max({s.prompt_length : s \in Shapes})

\* get_warmup_shapes: sorted by "speed".
Faster(s, t) ==
  \/ s.batch_size < t.batch_size
  \/ s.batch_size = t.batch_size /\ s.prompt_length < t.prompt_length

WarmupShapes ==
  CHOOSE order \in [1 .. Cardinality(Shapes) -> Shapes] :
    \A i, j \in 1 .. Cardinality(Shapes) : i < j => Faster(order[i], order[j])
-----------------------------------------------------------------------------
\* An off-by-one in the size of the batch.
BugBatchMatching(r, shapes, n) ==
  {s \in shapes : prompt_len[r] <= s.prompt_length /\ n <= s.batch_size}

\* An off-by-one in the length of the prompt.
BugLengthMatching(r, shapes, n) ==
  {s \in shapes : prompt_len[r] < s.prompt_length /\ n < s.batch_size}

\* _get_matching_warmup_shapes, for request r and a batch of n others.
Matching(r, shapes, n) ==
  {s \in shapes : prompt_len[r] <= s.prompt_length /\ n < s.batch_size}

(***************************************************************************)
(* The loop of schedule() over the queue it holds back: a request goes to  *)
(* the batch if a common shape remains, is skipped if the batch may still  *)
(* grow without it, and otherwise ends the loop.                           *)
(***************************************************************************)
Placed(s, r) ==
  CASE s.full ->
         [s EXCEPT !.heldback = Append(@, r)]
    [] ~s.full /\ Matching(r, s.shapes, Len(s.batch)) # {} ->
         [s EXCEPT !.batch  = Append(@, r),
                   !.shapes = Matching(r, @, Len(s.batch))]
    [] ~s.full /\ Matching(r, s.shapes, Len(s.batch)) = {} ->
         IF \E shape \in s.shapes : Len(s.batch) < shape.batch_size
           THEN [s EXCEPT !.skipped = Append(@, r)]
           ELSE [s EXCEPT !.heldback = Append(@, r), !.full = TRUE]

EmptyBatch ==
  [batch |-> <<>>, skipped |-> <<>>, heldback |-> <<>>, shapes |-> Shapes, full |-> FALSE]

Sorted(queue) == FoldLeft(Placed, EmptyBatch, queue)

\* A bug: the skipped requests go to the end of the queue.
BugLeftWaiting(s) == s.heldback \o s.skipped

\* The waiting queue after the step: first the skipped requests.
LeftWaiting(s) == s.skipped \o s.heldback

(***************************************************************************)
(* schedule(). The base class has tokens and blocks for every request of   *)
(* a batch: max_num_batched_tokens is max_num_seqs prompts of full length, *)
(* and a block holds a whole prompt. It never sees requests while others   *)
(* run.                                                                    *)
(***************************************************************************)
Schedule ==
  /\ running = {}
  /\ scheduled' = Sorted(waiting).batch
  /\ waiting' = LeftWaiting(Sorted(waiting))
  /\ running' = ToSet(scheduled')
  /\ told' = finished_ids
  /\ finished_ids' = {}
  /\ UNCHANGED prompt_len

AddRequest(len) ==
  /\ len <= MaxModelLen
  /\ prompt_len' = Append(prompt_len, len)
  /\ waiting' = Append(waiting, Len(prompt_len'))
  /\ UNCHANGED <<running, finished_ids, scheduled, told>>

\* finish_requests of the base class, for a request its client gave up: it is
\* taken off the list it is in.
FinishRequest(r) ==
  /\ \/ /\ r \in running
        /\ running' = running \ {r}
        /\ UNCHANGED waiting
     \/ \E i \in DOMAIN waiting :
          /\ waiting[i] = r
          /\ waiting' = RemoveAt(waiting, i)
          /\ UNCHANGED running
  /\ finished_ids' = finished_ids \cup {r}
  /\ UNCHANGED <<prompt_len, scheduled, told>>

\* update_from_output of the base class: a pooled request is done.
UpdateFromOutput ==
  /\ running' = {}
  /\ finished_ids' = finished_ids \cup running
  /\ scheduled' = <<>>
  /\ told' = {}
  /\ UNCHANGED <<prompt_len, waiting>>
=============================================================================
