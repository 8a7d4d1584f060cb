----------------------- MODULE ChunkedPrefillScheduler -----------------------
(***************************************************************************)
(* ChunkedPrefillSpyreScheduler: which requests the next engine step runs. *)
(* The class narrows what the base vLLM scheduler sees (it hides waiting   *)
(* and running requests), lets it schedule, and restores what it hid. The  *)
(* base scheduler and its KV cache manager are external: they are modelled *)
(* from what this class and the model runner rely on.                      *)
(*                                                                         *)
(* running and ongoing_prefills are lists in the code; their order never   *)
(* matters, so they are sets here. waiting is served in arrival order.     *)
(***************************************************************************)
EXTENDS SpyreOutputs, BatchTkvLimit, Sequences

VARIABLES
  prompt_len,      \* Request.num_prompt_tokens, 0 before the request arrives
  max_tokens,      \* Request.max_tokens
  num_computed,    \* Request.num_computed_tokens
  num_output,      \* output tokens appended to the request so far
  waiting,         \* the waiting queue
  running,         \* the running requests, prefilling or decoding
  ongoing,         \* ongoing_prefills
  prev_prefill,    \* previous_step_was_prefill
  tkv,             \* the tkv the model runner last reported
  finished_ids,    \* finished_req_ids, told to the runner by the next step
  kv_blocks,       \* KV manager: blocks held by each request
  cached           \* KV manager: positions of the blocks in the prefix cache

requestVars == <<prompt_len, max_tokens, num_computed, num_output>>
queueVars == <<waiting, running, ongoing, finished_ids>>
kvVars == <<kv_blocks, cached>>
schedVars == <<requestVars, queueVars, prev_prefill, tkv, kvVars>>

SchedInit ==
  /\ prompt_len = [r \in Requests |-> 0]
  /\ max_tokens = [r \in Requests |-> 0]
  /\ num_computed = [r \in Requests |-> 0]
  /\ num_output = [r \in Requests |-> 0]
  /\ waiting = <<>>
  /\ running = {}
  /\ ongoing = {}
  /\ prev_prefill = FALSE
  /\ tkv = 0
  /\ finished_ids = {}
  /\ kv_blocks = [r \in Requests |-> 0]
  /\ cached = {}

SchedTypeOK ==
  /\ prompt_len \in [Requests -> Nat]
  /\ max_tokens \in [Requests -> Nat]
  /\ num_computed \in [Requests -> Int]
  /\ num_output \in [Requests -> Nat]
  /\ waiting \in Seq(Requests)
  /\ running \in SUBSET Requests
  /\ ongoing \in SUBSET Requests
  /\ prev_prefill \in BOOLEAN
  /\ tkv \in Int
  /\ finished_ids \in SUBSET Requests
  /\ kv_blocks \in [Requests -> Int]
  /\ cached \in SUBSET Nat
-----------------------------------------------------------------------------
(***************************************************************************)
(* The constraints. In all of them `released` is the number of requests    *)
(* the loop of schedule() has put back into the waiting queue, which that  *)
(* loop finds in len(self.waiting) because it emptied the queue first.     *)
(***************************************************************************)
Decoding == running \ ongoing

\* Tokens a decoding request has generated in decode steps.
Generated(r) == num_computed[r] - prompt_len[r]

\* Blocks before the last one, once a prompt of p tokens joins the batch.
JoinBlocks(p) == Larger(tkv, p) \div BlockSize

\* tkv of request r, p of whose tokens are stored, when the join happened.
JoinTkv(p, stored) == (JoinBlocks(p) * BlockSize) + (stored % BlockSize)

NewReqTkv(r) == JoinTkv(prompt_len[r], prompt_len[r])

DecReqTkv(r, d) == JoinTkv(prompt_len[r], num_computed[d])

TokensRemaining(d) == max_tokens[d] - Generated(d)

NewReqMaxTkv(r) == NewReqTkv(r) + max_tokens[r] - 1

DecReqMaxTkv(r, d) == DecReqTkv(r, d) + TokensRemaining(d) - 1

\* Where each decoding request ends if r joins; its max_tokens are the limit.
DecReqMaxTkvs(r) == [d \in Decoding |-> DecReqMaxTkv(r, d)]

\* An off-by-one in the size of the batch.
BugSatisfiesFirstChunkConstraints(r, released) ==
  /\ Cardinality(running) + released <= MaxNumSeqs
  /\ released < 1

SatisfiesFirstChunkConstraints(r, released) ==
  /\ Cardinality(running) + released < MaxNumSeqs
  /\ released < 1

\* Room left in the model's context for every request of the joint batch.
FitsContext(r) ==
  /\ max_tokens[r] - 1 <= MaxModelLen - NewReqTkv(r)
  /\ \A d \in Decoding :
       TokensRemaining(d) - 1 <= MaxModelLen - DecReqTkv(r, d)

SatisfiesLastChunkConstraints(r, released) ==
  /\ Cardinality(Decoding) + released < MaxNumSeqs
  /\ FitsContext(r)
  /\ CheckBatchTkvLimit(DecReqMaxTkvs(r), NewReqMaxTkv(r), MaxBatchTkvLimit)

IsFirstChunk(r) == num_computed[r] = 0

IsLastChunk(r) == prompt_len[r] - num_computed[r] <= ChunkSize

\* A bug: without interleaving, the last chunk's constraints are forgotten.
BugNoLastChunkTest(r, released) ==
  \/ /\ ~Interleave
     /\ IsFirstChunk(r) => SatisfiesFirstChunkConstraints(r, released)
  \/ /\ Interleave
     /\ IsFirstChunk(r) => SatisfiesFirstChunkConstraints(r, released)
     /\ IsLastChunk(r) => SatisfiesLastChunkConstraints(r, released)

\* A bug: each chunk waits for its constraints, whatever the mode.
BugAlwaysPerChunk(r, released) ==
  /\ IsFirstChunk(r) => SatisfiesFirstChunkConstraints(r, released)
  /\ IsLastChunk(r) => SatisfiesLastChunkConstraints(r, released)

(***************************************************************************)
(* Without interleaving, the prefill runs to its end with no decode step   *)
(* in between, so the first chunk has to satisfy every constraint. With    *)
(* it, each constraint waits for the chunk it is about.                    *)
(***************************************************************************)
SatisfiesConstraints(r, released) ==
  \/ /\ ~Interleave
     /\ IsFirstChunk(r) => /\ SatisfiesFirstChunkConstraints(r, released)
                           /\ SatisfiesLastChunkConstraints(r, released)
  \/ /\ Interleave
     /\ IsFirstChunk(r) => SatisfiesFirstChunkConstraints(r, released)
     /\ IsLastChunk(r) => SatisfiesLastChunkConstraints(r, released)

\* A bug that starts a prefill without asking whether one is under way.
BugConcurrentPrefills(r, released) ==
  /\ ~(Interleave /\ prev_prefill /\ Decoding # {})
  /\ r \in ongoing \/ released < 1

HasSchedulingPriority(r, released) ==
  /\ ~(Interleave /\ prev_prefill /\ Decoding # {})
  /\ r \in ongoing \/ released + Cardinality(ongoing) < 1

CanSchedulePrefill(r, released) ==
  \/ Cardinality(running) + released = 0
  \/ HasSchedulingPriority(r, released) /\ SatisfiesConstraints(r, released)
-----------------------------------------------------------------------------
(***************************************************************************)
(* The base scheduler, on the running and waiting requests it can see.     *)
(***************************************************************************)
\* Tokens a running request gets: what it lacks, up to the token budget.
RunningTokens(r) ==
  Smaller(prompt_len[r] + num_output[r] - num_computed[r], ChunkSize)

(***************************************************************************)
(* Leading blocks a new prompt finds in the prefix cache: at most those    *)
(* before the block of its last token, which is always computed. How much  *)
(* of the cached text prompts share, and whether it was evicted since, is  *)
(* left open.                                                              *)
(***************************************************************************)
PossibleHits(r) ==
  {h \in 0 .. (prompt_len[r] - 1) \div BlockSize : 1 .. h \subseteq cached}

\* Tokens computed when the step starts: the cached ones for a new request.
StepStart(released, hit) ==
  [r \in Requests |-> IF r \in released THEN hit * BlockSize ELSE num_computed[r]]

StepTokens(seen, released, hit) ==
  [r \in Requests |->
     IF r \in released THEN Smaller(prompt_len[r] - hit * BlockSize, ChunkSize)
     ELSE IF r \in seen THEN RunningTokens(r)
     ELSE 0]

(***************************************************************************)
(* The base schedule() with `seen` running and `released` waiting: it      *)
(* gives out tokens, counts them as computed, allocates the blocks they    *)
(* need and, with prefix caching, publishes the blocks they will fill.     *)
(***************************************************************************)
BaseSchedule(seen, released, hit) ==
  LET start  == StepStart(released, hit)
      tokens == StepTokens(seen, released, hit)
      scheduled == {r \in Requests : tokens[r] > 0}
  IN /\ num_computed' = [r \in Requests |-> start[r] + tokens[r]]
     /\ running' = running \cup released
     /\ kv_blocks' = [r \in Requests |->
          IF r \in scheduled
            THEN Larger(kv_blocks[r], BlocksFor(start[r] + tokens[r]))
            ELSE kv_blocks[r]]
     /\ cached' = IF PrefixCaching
          THEN cached \cup UNION {1 .. (start[r] + tokens[r]) \div BlockSize :
                                    r \in scheduled}
          ELSE cached
     /\ finished_ids' = {}
     /\ scheduler_output' =
          [new        |-> released,
           prompt     |-> [r \in Requests |->
                             IF r \in released THEN prompt_len[r] ELSE 0],
           cached     |-> scheduled \ released,
           computed   |-> [r \in Requests |->
                             IF r \in scheduled THEN start[r] ELSE 0],
           tokens     |-> tokens,
           new_blocks |-> [r \in Requests |-> kv_blocks'[r] - kv_blocks[r]],
           finished   |-> finished_ids]

\* A bug that forgets to give the blocks back.
BugFree(gone) ==
  /\ running' = running \ gone
  /\ finished_ids' = finished_ids \cup gone
  /\ UNCHANGED kv_blocks

\* _free_request: the blocks are given back, and the next step tells the runner.
Free(gone) ==
  /\ running' = running \ gone
  /\ finished_ids' = finished_ids \cup gone
  /\ kv_blocks' = [r \in Requests |-> IF r \in gone THEN 0 ELSE kv_blocks[r]]
-----------------------------------------------------------------------------
\* The loop of schedule() puts back the first n waiting requests and stops.
Releases(n) ==
  /\ \A i \in 1 .. n : CanSchedulePrefill(waiting[i], i - 1)
  /\ n < Len(waiting) => ~CanSchedulePrefill(waiting[n + 1], n)

\* The step is a prefill: of the ongoing request, or of a released one.
SchedulesPrefill(n) ==
  IF ongoing # {} THEN \E r \in ongoing : CanSchedulePrefill(r, n) ELSE n > 0

\* A bug that lets decoding requests into a prefill step.
BugVisible(n) ==
  IF SchedulesPrefill(n) THEN running ELSE Decoding

\* The running requests that schedule() leaves visible to the base class.
Visible(n) ==
  IF SchedulesPrefill(n) THEN ongoing ELSE Decoding

Schedule ==
  \E n \in 0 .. Len(waiting) :
    LET released == {waiting[i] : i \in 1 .. n}
        hits     == IF released = {} THEN {0}
                    ELSE UNION {PossibleHits(r) : r \in released}
    IN /\ Releases(n)
       /\ \E hit \in hits : BaseSchedule(Visible(n), released, hit)
       /\ waiting' = SubSeq(waiting, n + 1, Len(waiting))
       /\ ongoing' = IF ongoing = {} THEN released ELSE ongoing
       /\ prev_prefill' = SchedulesPrefill(n)
       /\ UNCHANGED <<prompt_len, max_tokens, num_output, tkv, model_output>>
-----------------------------------------------------------------------------
(***************************************************************************)
(* A request arrives, with p prompt tokens and m tokens to generate. The   *)
(* platform rejects it before the scheduler sees it if it cannot fit.      *)
(***************************************************************************)
AddRequest(r, p, m) ==
  /\ prompt_len[r] = 0
  /\ ValidateRequest(p, m)
  /\ prompt_len' = [prompt_len EXCEPT ![r] = p]
  /\ max_tokens' = [max_tokens EXCEPT ![r] = m]
  /\ waiting' = Append(waiting, r)
  /\ UNCHANGED <<num_computed, num_output, running, ongoing, prev_prefill, tkv,
                 finished_ids, kvVars>>

IsWaiting(r) == \E i \in 1 .. Len(waiting) : waiting[i] = r

\* The waiting queue when the i-th request is taken out of it.
WaitingWithout(i) ==
  [j \in 1 .. Len(waiting) - 1 |-> waiting[IF j < i THEN j ELSE j + 1]]

\* A bug in finish_requests: an aborted request stays in ongoing_prefills.
BugOngoingWithout(gone) == ongoing

\* Requests still ongoing when `gone` are finished from outside.
OngoingWithout(gone) == ongoing \ gone

(***************************************************************************)
(* finish_requests for one request the client gave up: the base class      *)
(* takes it out of its queues and frees it, then it leaves the ongoing     *)
(* prefills.                                                               *)
(***************************************************************************)
FinishRequest(r) ==
  /\ \/ r \in running /\ UNCHANGED waiting
     \/ \E i \in 1 .. Len(waiting) : waiting[i] = r /\ waiting' = WaitingWithout(i)
  /\ Free({r})
  /\ ongoing' = OngoingWithout({r})
  /\ UNCHANGED <<requestVars, prev_prefill, tkv, cached>>
-----------------------------------------------------------------------------
(***************************************************************************)
(* adjust_computed_tokens: the first chunk of a left padded prompt holds   *)
(* fewer prompt tokens than the base scheduler counted for it.             *)
(***************************************************************************)
AdjustComputedTokens(computed, left_padding, prefix_hit) ==
  IF prefix_hit > computed THEN prefix_hit ELSE computed - left_padding

\* A bug: a prompt that is one chunk long is corrected for its padding too.
BugComputedAfter(r) ==
  IF r \in ongoing /\ num_computed[r] <= ChunkSize
    THEN AdjustComputedTokens(num_computed[r], model_output.left_padding[r],
                              model_output.prefix_hit[r])
    ELSE num_computed[r]

\* num_computed_tokens of r once the output of its step is in.
ComputedAfter(r) ==
  IF r \in ongoing /\ num_computed[r] <= ChunkSize /\ num_computed[r] # prompt_len[r]
    THEN AdjustComputedTokens(num_computed[r], model_output.left_padding[r],
                              model_output.prefix_hit[r])
    ELSE num_computed[r]

\* check_stop: the request has all it asked for, or ran out of context.
AtLimit(r) ==
  \/ num_output[r] + 1 >= max_tokens[r]
  \/ prompt_len[r] + num_output[r] + 1 >= MaxModelLen

(***************************************************************************)
(* update_from_output: correct the counts of the ongoing prefill, drop it  *)
(* once it is complete, take over the tkv, then let the base class append  *)
(* the sampled tokens and stop requests. Requests aborted while the step   *)
(* ran are no longer running and are skipped. `eos` are the requests that  *)
(* happened to sample an end-of-sequence token.                            *)
(***************************************************************************)
UpdateFromOutput ==
  LET sampled == {r \in running : /\ scheduler_output.tokens[r] > 0
                                  /\ r \in model_output.sampled}
  IN /\ num_computed' = [r \in Requests |-> ComputedAfter(r)]
     /\ ongoing' = {r \in ongoing : ComputedAfter(r) < prompt_len[r]}
     /\ tkv' = model_output.tkv
     /\ num_output' = [r \in Requests |-> IF r \in sampled THEN num_output[r] + 1
                                                           ELSE num_output[r]]
     /\ \E eos \in SUBSET sampled :
          Free(eos \cup {r \in sampled : AtLimit(r)})
     /\ UNCHANGED <<prompt_len, max_tokens, waiting, prev_prefill, cached>>
=============================================================================
