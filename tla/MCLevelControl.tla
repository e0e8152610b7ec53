---------------------------- MODULE MCLevelControl ----------------------------
(***************************************************************************)
(* An instance of LevelControl for TLC, with one alarm that reads the       *)
(* switch.                                                                  *)
(***************************************************************************)
EXTENDS LevelControl

OnePoll == <<"checkFloatSensors">>
=============================================================================
