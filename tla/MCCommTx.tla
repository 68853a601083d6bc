------------------------------ MODULE MCCommTx ------------------------------
(***************************************************************************)
(* Model checking of CommTx: the two threads that send (comm_rx answers    *)
(* commands, comm_log streams results) and a ring of two slots, which they *)
(* overfill.                                                               *)
(***************************************************************************)
EXTENDS CommTx
=============================================================================
