---------------------------- MODULE MCSpyreEngine ----------------------------
(***************************************************************************)
(* Instances of SpyreEngine small enough for TLC. Blocks of 2 tokens and   *)
(* chunks of 2 blocks keep every case of the arithmetic: prompts that end  *)
(* within, at and after a block or a chunk, with and without padding.      *)
(***************************************************************************)
EXTENDS SpyreEngine, TLC

Seqs == INSTANCE SequencesExt

Symmetry == Permutations(Requests)

(***************************************************************************)
(* The loop of check_batch_tkv_limit_cp: through the ends in ascending     *)
(* order, up to the first request that outlives the new one.               *)
(***************************************************************************)
LoopVolume(ends, new_end) ==
  LET sorted == Seqs!SetToSortSeq(DOMAIN ends, LAMBDA d, e : ends[d] < ends[e])
  IN Seqs!FoldLeft(LAMBDA s, d :
       IF s.done THEN s
       ELSE [volume |-> Max({s.volume, s.batch * Min({new_end, ends[d]})}),
             batch  |-> s.batch - 1,
             done   |-> new_end <= ends[d]],
       [volume |-> 0, batch |-> Cardinality(DOMAIN ends) + 1, done |-> FALSE],
       sorted).volume

(***************************************************************************)
(* The largest volume the code's loop with its early exit meets is the     *)
(* least limit at which the predicate of the model admits a request, in    *)
(* every state in which the scheduler may ask.                             *)
(***************************************************************************)
AgreesWithLoop ==
  phase = "idle" =>
    \A r \in Seqs!ToSet(waiting) \cup ongoing :
      LET ends    == DecReqMaxTkvs(r)
          new_end == NewReqMaxTkv(r)
          volume  == LoopVolume(ends, new_end)
      IN /\ CheckBatchTkvLimit(ends, new_end, volume)
         /\ volume > 0 => ~CheckBatchTkvLimit(ends, new_end, volume - 1)
=============================================================================
