--------------------------- MODULE PoolingInputBatch ---------------------------
(***************************************************************************)
(* PoolingInputBatch over BaseInputBatch: the rows of a batch of pooling   *)
(* requests. A batch is a record of the object's attributes; its methods   *)
(* are operators from a batch to the batch they leave. Requests are added  *)
(* at the index that counts them, removed ones leave a hole, and the       *)
(* arrays keep what was written to a row that is no longer in use.         *)
(***************************************************************************)
EXTENDS Integers, SequencesExt

\* A row of num_prompt_tokens and token_ids_cpu: whose prompt, and how long.
Prompts == [req : Int, len : Nat]

NoPrompt == [req |-> 0, len |-> 0]

NewBatch(max_num_reqs) ==
  [items  |-> <<>>,  \* req_id_to_index: its items in the order of insertion
   num    |-> 0,     \* _num_requests
   rows   |-> [i \in 1 .. max_num_reqs |-> NoPrompt],
   params |-> {}]    \* keys of pooling_params

\* A dict keeps the place of a key that is set again. Indices count from 1.
SetItem(items, r, i) ==
  IF \E k \in DOMAIN items : items[k].req = r
    THEN [k \in DOMAIN items |-> IF items[k].req = r THEN [req |-> r, index |-> i]
                                                    ELSE items[k]]
    ELSE Append(items, [req |-> r, index |-> i])

\* add_request, at get_available_index.
AddToBatch(batch, prompt) ==
  [batch EXCEPT !.items = SetItem(@, prompt.req, batch.num + 1),
                !.num = @ + 1,
                !.rows[batch.num + 1] = prompt,
                !.params = @ \cup {prompt.req}]

\* A bug: clear_requests resets the counter and nothing else.
BugClearRequests(batch) == [batch EXCEPT !.num = 0]

ClearRequests(batch) == [batch EXCEPT !.items = <<>>, !.num = 0, !.params = {}]

\* The place of a key in the dict.
PlaceOf(batch, r) == CHOOSE k \in DOMAIN batch.items : batch.items[k].req = r

\* remove_request, for a request that may not be there.
RemoveFromBatch(batch, r) ==
  IF \E k \in DOMAIN batch.items : batch.items[k].req = r
    THEN [batch EXCEPT !.items  = RemoveAt(@, PlaceOf(batch, r)),
                       !.num    = @ - 1,
                       !.params = @ \ {r}]
    ELSE batch

\* req_id_to_index[r]
IndexOf(batch, r) == (CHOOSE item \in ToSet(batch.items) : item.req = r).index

\* The assertion of make_pooling_metadata.
MetadataDefined(batch) == Len(batch.items) = Cardinality(batch.params)

\* make_pooling_metadata: the rows' prompt lengths by index, and the requests'
\* parameters in the order of the keys.
PoolingMetadata(batch) ==
  [i \in 1 .. batch.num |-> [len |-> batch.rows[i].len, params |-> batch.items[i].req]]
=============================================================================
