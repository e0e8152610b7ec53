----------------------------- MODULE MCSunAlarms ------------------------------
(***************************************************************************)
(* An instance of SunAlarms for TLC.  The program's pool has twelve slots,  *)
(* of which the queue of uploads keeps four: eight are left.  The           *)
(* controller may not know the time of sunrise, which it then answers by 0; *)
(* the code for the two suns is the same.                                   *)
(***************************************************************************)
EXTENDS SunAlarms

SunsetIsKnown == [sunrise |-> {DEFAULT_SUNRISE_SUNSET_TIME, SunTime}, sunset |-> {SunTime}]
=============================================================================
