----------------------------- MODULE MCSumpMotor -----------------------------
(***************************************************************************)
(* An instance of SumpMotor for TLC.  Only two alarms are ever created.     *)
(***************************************************************************)
EXTENDS SumpMotor
=============================================================================
