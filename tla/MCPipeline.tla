----------------------------- MODULE MCPipeline -----------------------------
(***************************************************************************)
(* Model checking of Pipeline with the firmware's buffer counts: three     *)
(* input buffers, two output buffers, three slots.  With five frames every *)
(* queue fills, the NN thread skips a frame, the camera overwrites one,    *)
(* and both readers can pin old versions.                                  *)
(***************************************************************************)
EXTENDS Pipeline
=============================================================================
