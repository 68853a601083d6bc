-------------------------- MODULE MCDisplayControl --------------------------
(***************************************************************************)
(* Model checking of DisplayControl by itself: any number of commands, no  *)
(* bound is needed.                                                        *)
(***************************************************************************)
EXTENDS DisplayControl
=============================================================================
