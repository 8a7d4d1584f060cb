---------------------------- MODULE BatchTkvLimit ----------------------------
(***************************************************************************)
(* check_batch_tkv_limit_cp, the volumetric test of the scheduler, as a    *)
(* predicate on numbers: `ends` gives the tkv each decoding request will   *)
(* end with, new_end that of the request that wants to join.               *)
(***************************************************************************)
EXTENDS Integers, FiniteSets

(***************************************************************************)
(* The code sorts the ends and walks up to the first decoding request that *)
(* outlives the new one. Every request it passes has left the batch, so a  *)
(* decoding request that ends before the new one is charged with the batch *)
(* that is left at its end, and the new one with the batch left at its own *)
(* end, provided that some decoding request outlives it. Of requests that  *)
(* end together, the first to be visited is charged with the most.         *)
(***************************************************************************)
BatchLeftAt(ends, end) ==
  Cardinality(DOMAIN ends) + 1 - Cardinality({d \in DOMAIN ends : ends[d] < end})

\* A bug that lets every request through.
BugCheckBatchTkvLimit(ends, new_end, limit) == TRUE

\* A bug that stops at a request that ends with the new one, uncharged.
BugStopsEarly(ends, new_end, limit) ==
  \A d \in DOMAIN ends :
    ends[d] < new_end => BatchLeftAt(ends, ends[d]) * ends[d] <= limit

CheckBatchTkvLimit(ends, new_end, limit) ==
  /\ \A d \in DOMAIN ends :
       ends[d] < new_end => BatchLeftAt(ends, ends[d]) * ends[d] <= limit
  /\ (\E d \in DOMAIN ends : new_end <= ends[d]) =>
       BatchLeftAt(ends, new_end) * new_end <= limit
=============================================================================
