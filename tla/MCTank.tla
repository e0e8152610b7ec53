-------------------------------- MODULE MCTank --------------------------------
(***************************************************************************)
(* Instances of Tank for TLC.  The alarms behind the heartbeat are one that *)
(* reads the switches, and for Tank02 one that repeats the values too; the  *)
(* pools leave them the slots that four repeating alarms leave of the six.  *)
(***************************************************************************)
EXTENDS Tank

OnePoll == <<"checkFloatSensors">>
Tank02Handlers == <<"checkFloatSensors", "updateSensorValues">>
=============================================================================
