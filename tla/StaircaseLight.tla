---------------------------- MODULE StaircaseLight ----------------------------
(***************************************************************************)
(* The node of the staircase light.  It does what a status says, whoever    *)
(* sends it, and asks the balcony light for its status: at first until one  *)
(* has come, thirty times at most, and every half hour for good.            *)
(*                                                                          *)
(* Nothing in the sketch waits for messages: a step is a turn of loop(), a  *)
(* message or an alarm, and when an alarm is due is left open.  Left out    *)
(* are prevLightStatus, which is what the relay is and spares the cloud     *)
(* node a message, and the count of requests: any one may be the thirtieth. *)
(***************************************************************************)
EXTENDS TimeAlarms

VARIABLES
    alarms,
    setupDone,
    lit,                        \* the relay
    sendLightStatusRequest,
    lightStatusReceived,
    lightStatusTimer

request == <<sendLightStatusRequest, lightStatusReceived, lightStatusTimer>>
vars == <<alarms, setupDone, lit, request>>

Handlers == {"sendHeartbeat", "requestLightStatus", "checkLightStatusRequest"}

TypeOK ==
    /\ alarms \in [Slots -> AlarmsOf(Handlers, 0)]
    /\ {setupDone, lit, sendLightStatusRequest, lightStatusReceived} \subseteq BOOLEAN
    /\ lightStatusTimer \in Slots \cup {dtINVALID_ALARM_ID}

Init ==
    /\ alarms = [s \in Slots |-> NotAllocated]
    /\ setupDone = FALSE
    /\ lit = FALSE
    /\ sendLightStatusRequest = FALSE
    /\ lightStatusReceived = FALSE
    /\ lightStatusTimer = 0

setupPollOnce ==
    /\ ~setupDone
    /\ setupDone' = TRUE
    /\ lit' = FALSE
    /\ sendLightStatusRequest' = TRUE
    /\ lightStatusReceived' = FALSE
    /\ alarms' = timerOnce(timerRepeat(alarms, "sendHeartbeat"), 0, "requestLightStatus")
    /\ UNCHANGED lightStatusTimer

setup ==
    /\ ~setupDone
    /\ setupDone' = TRUE
    /\ lit' = FALSE
    /\ sendLightStatusRequest' = TRUE
    /\ lightStatusReceived' = FALSE
    /\ alarms' = timerRepeat(timerRepeat(alarms, "sendHeartbeat"), "requestLightStatus")
    /\ UNCHANGED lightStatusTimer

\* loop(): the balcony light is asked.
AskFirst ==
    /\ setupDone
    /\ sendLightStatusRequest
    /\ sendLightStatusRequest' = FALSE
    /\ lightStatusTimer' = createdId(alarms)
    /\ \/ /\ alarms' = timerOnce(alarms, 0, "checkLightStatusRequest")
          /\ UNCHANGED lightStatusReceived
       \/ /\ lightStatusReceived' = TRUE
          /\ UNCHANGED alarms
    /\ UNCHANGED <<setupDone, lit>>

ReceiveStatus(on) ==
    /\ lit' = on
    /\ \/ /\ ~lightStatusReceived
          /\ lightStatusReceived' = TRUE
          /\ alarms' = free(alarms, lightStatusTimer)
          /\ sendLightStatusRequest' = FALSE
       \/ /\ lightStatusReceived
          /\ UNCHANGED <<alarms, lightStatusReceived, sendLightStatusRequest>>
    /\ UNCHANGED <<setupDone, lightStatusTimer>>

checkLightStatusRequest(s) ==
    /\ alarms[s].handler = "checkLightStatusRequest"
    /\ MayTrigger(alarms, s)
    /\ alarms' = Trigger(alarms, s)
    /\ sendLightStatusRequest' = (sendLightStatusRequest \/ ~lightStatusReceived)
    /\ UNCHANGED <<setupDone, lit, lightStatusReceived, lightStatusTimer>>

\* The half-hourly alarm: the balcony light is asked.
requestLightStatus(s) ==
    /\ alarms[s].handler = "requestLightStatus"
    /\ MayTrigger(alarms, s)
    /\ alarms' = Trigger(alarms, s)
    /\ UNCHANGED <<setupDone, lit, request>>

Restart ==
    /\ alarms' = [s \in Slots |-> NotAllocated]
    /\ setupDone' = FALSE
    /\ lit' = FALSE
    /\ sendLightStatusRequest' = FALSE
    /\ lightStatusReceived' = FALSE
    /\ lightStatusTimer' = 0
=============================================================================
