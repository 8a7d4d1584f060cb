-------------------------- MODULE SamplingInputBatch --------------------------
(***************************************************************************)
(* SamplingInputBatch and the LogitProcessorWrapper it drives, as          *)
(* operators on a record. A request sits in a slot (request index) until   *)
(* it is removed, and everything the sampler sees is dense: row k is the   *)
(* k-th occupied slot. Slots and rows count from 0, as in the code.        *)
(*                                                                         *)
(* The parameters of a request are abstracted to the request: a table that *)
(* holds r's parameters holds r. All tables copied through the slot mask   *)
(* at the same moment (temperature, top_p, penalties, ...) are one, `rows`;*)
(* bad_words_token_ids is kept apart, it is handed over by reference.      *)
(***************************************************************************)
EXTENDS Integers, SequencesExt

CONSTANTS
  Requests,   \* request ids
  NoRequest,  \* the content of a free slot
  BadWords    \* the requests that come with bad words

Holders == Requests \cup {NoRequest}

\* What BatchUpdateBuilder has collected since it was last reset.
NoUpdate == [added |-> <<>>, removed |-> <<>>, moved |-> <<>>]

(***************************************************************************)
(* A batch of n slots and the logits processors of each of `wrapped` rows: *)
(* which request one serves, and whether update_state was called on it     *)
(* since that request's last token.                                        *)
(***************************************************************************)
NewBatch(n, wrapped) ==
  [slots     |-> [i \in 0 .. n - 1 |-> NoRequest],  \* _req_ids
   bad_words |-> [i \in 0 .. n - 1 |-> NoRequest],  \* bad_words_token_ids
   outputs   |-> <<>>,                              \* req_output_token_ids
   update    |-> NoUpdate,                          \* batch_update_builder
   rows      |-> <<>>,                              \* sampling_metadata
   procs     |-> [i \in 0 .. wrapped - 1 |-> [req |-> NoRequest, fresh |-> TRUE]]]

Batches(n, wrapped) ==
  [slots     : [0 .. n - 1 -> Holders],
   bad_words : [0 .. n - 1 -> Holders],
   outputs   : Seq(Requests),
   update    : [added   : Seq(Nat \X Requests),   \* row, request
                removed : Seq(Nat),
                moved   : Seq(Nat \X Nat)],
   rows      : Seq(Requests),
   procs     : [0 .. wrapped - 1 -> [req : Holders, fresh : BOOLEAN]]]
-----------------------------------------------------------------------------
Slots(b) == DOMAIN b.slots

\* req_indices_mask
Occupied(b) == {i \in Slots(b) : b.slots[i] # NoRequest}

Members(b) == {b.slots[i] : i \in Occupied(b)}

NumReqs(b) == Cardinality(Occupied(b))

SlotOf(b, r) == CHOOSE i \in Slots(b) : b.slots[i] = r

\* req_idx_to_dense_index: occupied slots before slot i.
DenseIndex(b, i) == Cardinality({j \in Occupied(b) : j < i})

\* A bug that takes the last free slot.
BugAvailableIndex(b) == Max(Slots(b) \ Occupied(b))

\* get_available_index: the first free slot.
AvailableIndex(b) == Min(Slots(b) \ Occupied(b))

\* The slot of row k: the k-th occupied one.
SlotOfRow(b, k) == CHOOSE i \in Occupied(b) : DenseIndex(b, i) = k - 1

\* The requests in the order of their slots, which is that of the rows.
Rows(b) == [k \in 1 .. NumReqs(b) |-> b.slots[SlotOfRow(b, k)]]

(***************************************************************************)
(* add_request: the processors learn of the request at the end of the rows *)
(* and swap it down to its place.                                          *)
(***************************************************************************)
AddRequest(b, r) ==
  LET i == AvailableIndex(b)
      d == DenseIndex(b, i)
      n == NumReqs(b)
  IN [b EXCEPT
        !.slots[i]       = r,
        !.bad_words[i]   = IF r \in BadWords THEN r ELSE @,
        !.outputs        = InsertAt(@, d + 1, r),
        !.update.added   = Append(@, <<n, r>>),
        !.update.moved   = @ \o [k \in 1 .. n - d |-> <<n - k + 1, n - k>>]]

\* A bug: the output list is indexed by slots.
BugOutputsWithout(b, i) == RemoveAt(b.outputs, i + 1)

\* req_output_token_ids without the request in slot i.
OutputsWithout(b, i) == RemoveAt(b.outputs, DenseIndex(b, i) + 1)

\* A bug that leaves the rows behind a removed one where they are.
BugRemovalMoves(b, d) == <<>>

\* Moves that take the processors of row d behind those of the other rows.
\* The last one touches an unused row when there is one.
RemovalMoves(b, d) ==
  LET end == Min({NumReqs(b), Cardinality(Slots(b)) - 1})
  IN [k \in 1 .. end - d |-> <<d + k - 1, d + k>>]

\* remove_request: nothing happens for a request that is not in the batch.
RemoveRequest(b, r) ==
  IF r \notin Members(b) THEN b
  ELSE LET i == SlotOf(b, r)
           d == DenseIndex(b, i)
       IN [b EXCEPT
             !.slots[i]       = NoRequest,
             !.bad_words[i]   = NoRequest,
             !.outputs        = OutputsWithout(b, i),
             !.update.removed = Append(@, d),
             !.update.moved   = @ \o RemovalMoves(b, d)]

\* clear_requests: all but bad_words_token_ids and the metadata start anew.
ClearRequests(b) ==
  [b EXCEPT !.slots   = [i \in Slots(b) |-> NoRequest],
            !.outputs = <<>>,
            !.update  = NoUpdate]
-----------------------------------------------------------------------------
(***************************************************************************)
(* LogitProcessorWrapper.update_state, with one processor for each row. It *)
(* goes through what was added, removed and moved, and at last updates the *)
(* processors not called so far. A move marks both its rows as called: the *)
(* chained assignment writes the processors themselves into update_called, *)
(* and an object counts as true.                                           *)
(***************************************************************************)
Serve(procs, i, r) == [procs EXCEPT ![i] = [req |-> r, fresh |-> TRUE]]

Swap(procs, a, c) == [procs EXCEPT ![a] = procs[c], ![c] = procs[a]]

Called(update) ==
  {u[1] : u \in ToSet(update.added)} \cup ToSet(update.removed)
    \cup UNION {{m[1], m[2]} : m \in ToSet(update.moved)}

UpdateState(procs, update) ==
  LET added   == FoldLeft(LAMBDA p, u : Serve(p, u[1], u[2]), procs, update.added)
      removed == FoldLeft(LAMBDA p, i : Serve(p, i, NoRequest), added, update.removed)
      moved   == FoldLeft(LAMBDA p, m : Swap(p, m[1], m[2]), removed, update.moved)
  IN [i \in DOMAIN procs |->
        IF i \in Called(update) THEN moved[i] ELSE [moved[i] EXCEPT !.fresh = TRUE]]

\* sampling_metadata is made again only if the batch changed.
Metadata(b) == IF b.update = NoUpdate THEN b.rows ELSE Rows(b)

\* refresh_metadata. A batch without processors (the prefill batch) has
\* nothing to update but its metadata.
RefreshMetadata(b) ==
  [b EXCEPT !.procs  = IF DOMAIN @ = {} THEN @ ELSE UpdateState(@, b.update),
            !.rows   = Metadata(b),
            !.update = NoUpdate]
=============================================================================
