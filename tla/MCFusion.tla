------------------------------ MODULE MCFusion ------------------------------
(***************************************************************************)
(* Model checking of Fusion: three tracks for a table of two entries, two  *)
(* persons in a detection, eviction after two misses, two distances.       *)
(***************************************************************************)
EXTENDS Fusion
=============================================================================
