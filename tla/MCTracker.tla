------------------------------ MODULE MCTracker ------------------------------
(***************************************************************************)
(* Model checking of Tracker: two detections in a frame, hence four boxes; *)
(* one person handed on; limits of one to three frames; five tracks.  The  *)
(* boxes are interchangeable, and the run checks invariants only.          *)
(***************************************************************************)
EXTENDS Tracker, TLC

Symmetry == Permutations(Boxes)
=============================================================================
