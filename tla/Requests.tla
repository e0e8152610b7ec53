------------------------------- MODULE Requests -------------------------------
(***************************************************************************)
(* How a sketch gets its settings from the controller.  For each setting    *)
(* there is a flag that makes loop() send a request, an alarm that raises   *)
(* the flag again if no answer has come, and a flag that says that one has. *)
(* The settings are asked for one after the other: the first answer to one  *)
(* raises the flag of the next.  They all keep the id of their alarm in     *)
(* requestTimer, and an answer frees whatever alarm has that id.            *)
(*                                                                          *)
(* Check is the function that gives for each setting the handler of its     *)
(* alarm.  The count of requests is left out: any request may be the tenth, *)
(* behind which loop() sends a default and waits, and what is handled in    *)
(* that wait can be handled behind the turn of loop().                      *)
(***************************************************************************)
EXTENDS Runtime

VARIABLES
    sendRequest,        \* the settings whose flag to be asked for is up
    received,           \* the settings that have been answered
    requestTimer,
    cancelled           \* not in the program: the settings whose last request has lost its
                        \* alarm to an id that was not that alarm's, or has got none

requests == <<sendRequest, received, requestTimer, cancelled>>

RequestsTypeOK(Settings) ==
    /\ sendRequest \subseteq Settings
    /\ received \subseteq Settings
    /\ requestTimer \in Slots \cup {dtINVALID_ALARM_ID}
    /\ cancelled \subseteq Settings

\* The globals are zero.
RequestsInit ==
    /\ sendRequest = {}
    /\ received = {}
    /\ requestTimer = 0
    /\ cancelled = {}

\* In setup(): requestTimer keeps what it has.
RequestsSetUp(raised) ==
    /\ sendRequest' = raised
    /\ received' = {}
    /\ cancelled' = {}
    /\ UNCHANGED requestTimer

\* In loop().
Ask(Check, setting) ==
    /\ sendRequest' = sendRequest \ {setting}
    /\ requestTimer' = createdId(alarms)
    /\ alarms' = timerOnce(alarms, 1, Check[setting])
    /\ cancelled' = IF Full(alarms) THEN cancelled \cup {setting} ELSE cancelled \ {setting}
    /\ UNCHANGED received

\* The settings, one or none, whose request has its alarm in slot id.
RequestAt(Check, pool, id) ==
    {setting \in DOMAIN Check :
        isAllocated(pool, id) /\ pool[id].handler = Check[setting]}

FirstAnswerForgotten(Check, setting, raised) ==
    /\ sendRequest' = raised
    /\ alarms' = free(alarms, requestTimer)
    /\ cancelled' = cancelled \cup (RequestAt(Check, alarms, requestTimer) \ {setting})
    /\ UNCHANGED <<received, requestTimer>>

\* The first answer; `raised` are the flags that are up behind it.
FirstAnswer(Check, setting, raised) ==
    /\ received' = received \cup {setting}
    /\ sendRequest' = raised
    /\ alarms' = free(alarms, requestTimer)
    /\ cancelled' = cancelled \cup (RequestAt(Check, alarms, requestTimer) \ {setting})
    /\ UNCHANGED requestTimer

checkIfReceived(setting) ==
    /\ sendRequest' = sendRequest \cup ({setting} \cap received)
    /\ UNCHANGED <<received, requestTimer, cancelled>>

\* The handler of a request's alarm.
checkRequestStatus(setting) ==
    /\ sendRequest' = sendRequest \cup ({setting} \ received)
    /\ UNCHANGED <<received, requestTimer, cancelled>>

\* The settings `begun` are asked for until they are answered, but for those cancelled.
AskedOn(Check, begun) ==
    \A setting \in begun \ received :
        setting \in sendRequest \cup cancelled \/ Pending(Check[setting])
=============================================================================
