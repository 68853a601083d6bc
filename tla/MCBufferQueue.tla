--------------------------- MODULE MCBufferQueue ---------------------------
(***************************************************************************)
(* Model checking of BufferQueue with the three buffers the NN input queue *)
(* has (nn_thread.c:323).                                                  *)
(***************************************************************************)
EXTENDS BufferQueue
=============================================================================
