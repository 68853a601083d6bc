----------------------------- MODULE MCHostLink -----------------------------
(***************************************************************************)
(* Model checking of HostLink, and with it of DisplayControl: three        *)
(* commands, off and on again around any third one, and one reconnection.  *)
(***************************************************************************)
EXTENDS HostLink
=============================================================================
