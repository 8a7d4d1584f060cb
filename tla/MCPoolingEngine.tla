--------------------------- MODULE MCPoolingEngine ---------------------------
(***************************************************************************)
(* Warmup shapes of which three do not cover each other: long prompts need *)
(* a small batch, and the longest has to run alone. The last one is a      *)
(* special case of two others.                                             *)
(***************************************************************************)
EXTENDS PoolingEngine

FourShapes ==
  {[prompt_length |-> 1, batch_size |-> 3],
   [prompt_length |-> 2, batch_size |-> 2],
   [prompt_length |-> 3, batch_size |-> 1],
   [prompt_length |-> 2, batch_size |-> 1]}
=============================================================================
