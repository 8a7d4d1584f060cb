---------------------------- MODULE SamplingSteps ----------------------------
(***************************************************************************)
(* What a step of the chunked prefill model runner does to its two batches *)
(* and which parameters each sampled row meets: _update_batch removes the  *)
(* finished requests one by one, a new request goes to the prefill batch,  *)
(* and its last chunk puts it into the decode batch, which samples with    *)
(* one logits processor for each row.                                      *)
(*                                                                         *)
(* The steps that may come are those the scheduler sends: one prefill at a *)
(* time, MaxNumSeqs requests in all, any of them ended at any step. An id  *)
(* that has ended may stand for a later request.                           *)
(***************************************************************************)
EXTENDS SamplingInputBatch

CONSTANTS
  MaxNumSeqs,  \* scheduler_config.max_num_seqs, the slots of the decode batch
  Greedy       \* requests that sample with temperature 0

ASSUME BatchAssumption ==
  /\ MaxNumSeqs \in Nat \ {0}
  /\ NoRequest \notin Requests
  /\ BadWords \subseteq Requests
  /\ Greedy \subseteq Requests

VARIABLES
  input_batch,    \* the decode batch
  prefill_batch,  \* the batch of the request being prefilled
  prefilling,     \* the request the scheduler has an ongoing prefill for
  prefill_index,  \* _prefill_index of the wrappers of each kind
  sample          \* what the last sampled step saw

vars == <<input_batch, prefill_batch, prefilling, prefill_index, sample>>

\* Wrappers of processors that cannot change the greedy choice (min_p), and
\* of all others (min_tokens, logit_bias, custom ones).
Wrappers == {"argmax_invariant", "other"}

NoIndex == -1

Samples ==
  [kind    : {"none", "prefill", "decode"},
   inputs  : Seq(Requests),      \* the rows of the model's input
   rows    : Seq(Requests),      \* whose parameters each row met
   outputs : Seq(Requests),      \* whose output tokens each row met
   bad     : Seq(Holders),       \* whose bad words each row met
   stale   : SUBSET Nat,         \* rows whose processors missed an update
   served  : [Wrappers -> Seq(Holders)]] \* whose processor served each row

NoSample ==
  [kind |-> "none", inputs |-> <<>>, rows |-> <<>>, outputs |-> <<>>,
   bad |-> <<>>, stale |-> {}, served |-> [w \in Wrappers |-> <<>>]]

Init ==
  /\ input_batch = NewBatch(MaxNumSeqs, MaxNumSeqs)
  /\ prefill_batch = NewBatch(1, 0)
  /\ prefilling = {}
  /\ prefill_index = [w \in Wrappers |-> NoIndex]
  /\ sample = NoSample

\* Types. The decode batch has no pending changes between steps.
BatchTypeOK ==
  /\ input_batch \in Batches(MaxNumSeqs, MaxNumSeqs)
  /\ input_batch.update = NoUpdate
  /\ prefill_batch \in Batches(1, 0)
  /\ prefilling \in SUBSET Requests
  /\ prefill_index \in [Wrappers -> {NoIndex} \cup 0 .. MaxNumSeqs - 1]
  /\ sample \in Samples

Alive == Members(input_batch) \cup prefilling
-----------------------------------------------------------------------------
(***************************************************************************)
(* The sampler. Processors that cannot change the greedy choice are left   *)
(* out if all rows are greedy. A wrapper applies the processor of its      *)
(* prefill index to all rows, and forgets the index; without an index it   *)
(* applies the processor of each row.                                      *)
(***************************************************************************)
Applies(w, rows) == w = "other" \/ ~(ToSet(rows) \subseteq Greedy)

\* The requests whose processors wrapper w uses on n rows.
Served(w, procs, index, n) ==
  [k \in 1 .. n |->
     procs[IF index[w] # NoIndex THEN index[w] ELSE k - 1].req]

\* The processor rows of a wrapper that serves n rows.
UsedRows(procs, index, n) ==
  IF index["other"] # NoIndex THEN {index["other"]} ELSE 0 .. n - 1

IndexAfter(index, rows) ==
  [w \in Wrappers |-> IF Applies(w, rows) THEN NoIndex ELSE index[w]]

\* Every request of the step has a token its processors have not seen.
TokensAdded(procs, rows) ==
  [i \in DOMAIN procs |->
     [procs[i] EXCEPT !.fresh = @ /\ procs[i].req \notin ToSet(rows)]]

(***************************************************************************)
(* Sample the rows of batch b with the processors of `decode`, both as     *)
(* they are after their refresh.                                           *)
(***************************************************************************)
Sample(kind, b, decode, index) ==
  LET inputs == Rows(b)
      n      == Len(inputs)
  IN /\ sample' =
          [kind    |-> kind,
           inputs  |-> inputs,
           rows    |-> b.rows,
           outputs |-> b.outputs,
           bad     |-> [k \in 1 .. n |-> b.bad_words[k - 1]],
           stale   |-> {i \in UsedRows(decode.procs, index, n) :
                          ~decode.procs[i].fresh},
           served  |-> [w \in Wrappers |->
                          IF Applies(w, b.rows)
                            THEN Served(w, decode.procs, index, n) ELSE inputs]]
     /\ prefill_index' = IndexAfter(index, b.rows)
     /\ input_batch' = [decode EXCEPT !.procs = TokensAdded(@, inputs)]

NothingSampled(decode) ==
  /\ input_batch' = decode
  /\ sample' = NoSample
  /\ UNCHANGED prefill_index
-----------------------------------------------------------------------------
\* _update_batch, the finished requests in any order: one refresh for each
\* removal, or a single one if none finished.
UpdateBatch(order) ==
  IF order = <<>> THEN RefreshMetadata(input_batch)
  ELSE FoldLeft(LAMBDA b, r : RefreshMetadata(RemoveRequest(b, r)),
                input_batch, order)

\* No tokens scheduled: the step only brings finished requests.
EmptyStep(order) ==
  /\ NothingSampled(UpdateBatch(order))
  /\ prefilling' = prefilling \ ToSet(order)
  /\ UNCHANGED prefill_batch

DecodeStep(order) ==
  /\ Members(UpdateBatch(order)) # {}
  /\ Sample("decode", UpdateBatch(order), UpdateBatch(order), prefill_index)
  /\ prefilling' = prefilling \ ToSet(order)
  /\ UNCHANGED prefill_batch

\* Whether the scheduler may send a chunk of r when `ended` are told finished.
MayPrefill(r, ended) ==
  \/ r \in prefilling \ ended
  \/ /\ prefilling \subseteq ended
     /\ r \notin Alive
     /\ Cardinality(Alive \ ended) < MaxNumSeqs

\* The prefill batch: add_new_request clears it for a new request.
PrefillBatch(r) ==
  IF r \in prefilling THEN prefill_batch
  ELSE AddRequest(ClearRequests(prefill_batch), r)

\* A chunk that is not the prompt's last one: nothing is sampled.
PrefillChunk(order, r) ==
  /\ MayPrefill(r, ToSet(order))
  /\ NothingSampled(UpdateBatch(order))
  /\ prefill_batch' = PrefillBatch(r)
  /\ prefilling' = {r}

\* _maybe_prepare_last_prefill, and the first token: the prefill index is the
\* slot that add_request returns.
LastChunk(order, r) ==
  /\ MayPrefill(r, ToSet(order))
  /\ LET joined  == AddRequest(UpdateBatch(order), r)
         decode  == RefreshMetadata(joined)
         prefill == RefreshMetadata(PrefillBatch(r))
     IN /\ prefill_batch' = prefill
        /\ Sample("prefill", prefill, decode, [w \in Wrappers |-> SlotOf(joined, r)])
  /\ prefilling' = {}

Next ==
  \E ended \in SUBSET Alive : \E order \in SetToSeqs(ended) :
    \/ EmptyStep(order)
    \/ DecodeStep(order)
    \/ \E r \in Requests : PrefillChunk(order, r) \/ LastChunk(order, r)

Spec == Init /\ [][Next]_vars
-----------------------------------------------------------------------------
(***************************************************************************)
(* Alignment.                                                              *)
(***************************************************************************)
\* Row k of the model's input, of the parameters in the metadata and of the
\* list of output tokens belong to the same request, though the three are kept
\* by slot, by snapshot and by dense insertion.
RowsAligned == sample.rows = sample.inputs /\ sample.outputs = sample.inputs

\* The processors follow the rows through swaps alone: between steps each row
\* has its own request's and the unused ones are free of former requests.
ProcessorsAligned ==
  \A i \in DOMAIN input_batch.procs :
    input_batch.procs[i].req =
      IF i < NumReqs(input_batch) THEN Rows(input_batch)[i + 1] ELSE NoRequest

\* Each sampled row met its own request's processor. In a prefill it is found
\* by the request's slot although processors are kept by row.
ServedByOwn == sample.served["other"] = sample.inputs

(***************************************************************************)
(* What comments and tests say, and the code does not keep.                *)
(***************************************************************************)
\* Min_p and its like serve each row by its own request too.
InvariantServedByOwn == sample.served["argmax_invariant"] = sample.inputs

\* Every processor's update_state is called between two tokens of its request.
ProcessorsUpdated == sample.stale = {}

\* bad_words_token_ids is dense, like the other parameters of a decode step.
DecodeBadWords ==
  sample.kind = "decode" =>
    sample.bad = [k \in DOMAIN sample.inputs |->
                    IF sample.inputs[k] \in BadWords THEN sample.inputs[k]
                                                     ELSE NoRequest]
=============================================================================
