---------------------------- MODULE MCRcuBuffer ----------------------------
(***************************************************************************)
(* Model checking of RcuBuffer with its three slots and the three readers  *)
(* the depth grid has: fusion, host logging and the suspendable UI thread. *)
(***************************************************************************)
EXTENDS RcuBuffer
=============================================================================
