---------------------------- MODULE MCStaggerRegion ----------------------------
(***************************************************************************)
(* Five processes in three sets go through the regions of a pooling model's *)
(* start: the load of the weights and the warmups of two shapes, whose     *)
(* second is two regions nested in each other.                             *)
(***************************************************************************)
EXTENDS StaggerRegion

LoadAndWarmups == <<1, 1, 2>>
=============================================================================
