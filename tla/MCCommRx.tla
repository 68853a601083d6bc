------------------------------ MODULE MCCommRx ------------------------------
(***************************************************************************)
(* Model checking of CommRx: a ring that holds less than one frame, so     *)
(* that it overflows at any place, and two frames.                         *)
(***************************************************************************)
EXTENDS CommRx
=============================================================================
