---------------------------- MODULE MCLightControl ----------------------------
(***************************************************************************)
(* An instance of LightControl for TLC.  A light has three alarms at most,  *)
(* so that the pool is never full.                                          *)
(***************************************************************************)
EXTENDS LightControl
=============================================================================
