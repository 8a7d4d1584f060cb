-------------------------- MODULE ContinuousBatching --------------------------
(***************************************************************************)
(* What the engine promises its clients, without chunks, blocks or tkv: at *)
(* most one request is being prefilled, at most BatchSize requests run, a  *)
(* prefill yields the first token, and from then on every decode step      *)
(* yields one more token for every decoding request together.              *)
(***************************************************************************)
EXTENDS Naturals, FiniteSets

CONSTANTS Requests, BatchSize

VARIABLES
  stage,   \* how far each request has come
  tokens   \* output tokens it has been given

Stages == {"absent", "waiting", "prefilling", "decoding", "done"}

At(s) == {r \in Requests : stage[r] = s}

Init ==
  /\ stage = [r \in Requests |-> "absent"]
  /\ tokens = [r \in Requests |-> 0]

Move(r, to) == stage' = [stage EXCEPT ![r] = to]

Submit(r) ==
  /\ stage[r] = "absent"
  /\ Move(r, "waiting")
  /\ UNCHANGED tokens

StartPrefill(r) ==
  /\ stage[r] = "waiting"
  /\ At("prefilling") = {}
  /\ Cardinality(At("decoding")) < BatchSize
  /\ Move(r, "prefilling")
  /\ UNCHANGED tokens

FinishPrefill(r) ==
  /\ stage[r] = "prefilling"
  /\ \E to \in {"decoding", "done"} : Move(r, to)
  /\ tokens' = [tokens EXCEPT ![r] = 1]

DecodeStep ==
  /\ At("decoding") # {}
  /\ tokens' = [r \in Requests |-> IF stage[r] = "decoding" THEN tokens[r] + 1
                                                             ELSE tokens[r]]
  /\ \E ended \in SUBSET At("decoding") :
       stage' = [r \in Requests |-> IF r \in ended THEN "done" ELSE stage[r]]

Abort(r) ==
  /\ stage[r] \in {"waiting", "prefilling", "decoding"}
  /\ Move(r, "done")
  /\ UNCHANGED tokens

Next ==
  \/ \E r \in Requests :
       Submit(r) \/ StartPrefill(r) \/ FinishPrefill(r) \/ Abort(r)
  \/ DecodeStep

Spec == Init /\ [][Next]_<<stage, tokens>>
=============================================================================
