--------------------------------- MODULE MCLCD ---------------------------------
(***************************************************************************)
(* An instance of LCD for TLC, with a pool that is full with one reading    *)
(* when the heartbeat and the request have their alarms.                    *)
(***************************************************************************)
EXTENDS LCD
=============================================================================
