-------------------------- MODULE MCRuntimeConfig --------------------------
(***************************************************************************)
(* Model checking of RuntimeConfig: three fields, so that a copy can stop  *)
(* before, between and after two of them, and three requests.              *)
(***************************************************************************)
EXTENDS RuntimeConfig
=============================================================================
