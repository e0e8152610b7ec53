---------------------------------- MODULE LCD ----------------------------------
(***************************************************************************)
(* The backlight of the display node.  Every reading that arrives lights    *)
(* the display and asks for a one-shot alarm that puts it out again a       *)
(* minute later, unless lcdBackLightFlag says that it stays on.  The flag   *)
(* is the controller's: the node asks for it until it gets it, by an alarm  *)
(* it frees, by the id in backlightTimer, when the answer is there.         *)
(*                                                                          *)
(* The readings and where they are shown are left out, and so is the count  *)
(* of requests, of which only a message to the controller depends.          *)
(***************************************************************************)
EXTENDS Runtime

CONSTANTS
    ONE_MINUTE,         \* ticks until the light goes out
    REQUEST_INTERVAL    \* ticks until the flag is asked for again

\* Of three alarms one is neither the heartbeat nor the one request.
ASSUME PoolSizeAssumption == dtNBR_ALARMS >= 3

ASSUME IntervalsAssumption ==
    /\ ONE_MINUTE \in Nat \ {0}
    /\ REQUEST_INTERVAL \in 1 .. ONE_MINUTE

VARIABLES
    setupDone,                  \* setup() has run
    lit,                        \* the backlight
    lcdBackLightFlag,
    sendBackLightFlagRequest,
    lcdBackLightFlagReceived,
    backlightTimer,             \* the alarm id
    asked,                      \* not in the program: a request has been sent
    unheard                     \* not in the program: no alarm was to be had for the
                                \* last request

flags == <<lcdBackLightFlag, sendBackLightFlagRequest, lcdBackLightFlagReceived,
           backlightTimer, asked, unheard>>
vars == <<alarms, stack, setupDone, lit, flags>>

Handlers == {"sendHeartbeat", "checkBackLightFlagRequestStatus", "turnOffLCDLight"}

Points == CorePoints

TypeOK ==
    /\ alarms \in [Slots -> AlarmsOf(Handlers, ONE_MINUTE)]
    /\ stack \in Seq(Frames(Points))
    /\ setupDone \in BOOLEAN
    /\ lit \in BOOLEAN
    /\ lcdBackLightFlag \in BOOLEAN
    /\ sendBackLightFlagRequest \in BOOLEAN
    /\ lcdBackLightFlagReceived \in BOOLEAN
    /\ backlightTimer \in Slots \cup {dtINVALID_ALARM_ID}
    /\ asked \in BOOLEAN
    /\ unheard \in BOOLEAN

\* The globals are zero, backlightTimer too; begin() leaves the light out.
Init ==
    /\ alarms = [s \in Slots |-> NotAllocated]
    /\ stack = <<Frame("config")>>
    /\ setupDone = FALSE
    /\ lit = FALSE
    /\ lcdBackLightFlag = FALSE
    /\ sendBackLightFlagRequest = FALSE
    /\ lcdBackLightFlagReceived = FALSE
    /\ backlightTimer = 0
    /\ asked = FALSE
    /\ unheard = FALSE

-----------------------------------------------------------------------------
(* loop() and receive() *)

SendRequestIdLost ==
    /\ sendBackLightFlagRequest' = FALSE
    /\ alarms' = timerOnce(alarms, REQUEST_INTERVAL, "checkBackLightFlagRequestStatus")
    /\ asked' = TRUE
    /\ unheard' = Full(alarms)
    /\ UNCHANGED <<lcdBackLightFlag, lcdBackLightFlagReceived, backlightTimer>>

SendRequest ==
    /\ sendBackLightFlagRequest' = FALSE
    /\ backlightTimer' = createdId(alarms)
    /\ alarms' = timerOnce(alarms, REQUEST_INTERVAL, "checkBackLightFlagRequestStatus")
    /\ asked' = TRUE
    /\ unheard' = Full(alarms)
    /\ UNCHANGED <<lcdBackLightFlag, lcdBackLightFlagReceived>>

loop ==
    /\ Idle
    /\ \/ sendBackLightFlagRequest /\ SendRequest
       \/ ~sendBackLightFlagRequest /\ UNCHANGED <<alarms, flags>>
    /\ stack' = Call("delay")
    /\ UNCHANGED <<setupDone, lit>>

DelayEnds ==
    /\ At("delay")
    /\ stack' = Return
    /\ UNCHANGED <<alarms, setupDone, lit, flags>>

\* V_WATT, V_KWH, V_VOLTAGE and V_VOLUME.
ReceiveReading ==
    /\ CanReceive
    /\ lit' = TRUE
    /\ alarms' = timerOnce(alarms, ONE_MINUTE, "turnOffLCDLight")
    /\ UNCHANGED <<stack, setupDone, flags>>

\* A later answer, or a command, finds lcdBackLightFlagReceived set and frees nothing.
ReceiveFlagLightAsIs(on) ==
    /\ CanReceive
    /\ lcdBackLightFlag' = on
    /\ \/ /\ ~lcdBackLightFlagReceived
          /\ lcdBackLightFlagReceived' = TRUE
          /\ alarms' = free(alarms, backlightTimer)
          /\ sendBackLightFlagRequest' = FALSE
       \/ /\ lcdBackLightFlagReceived
          /\ UNCHANGED <<alarms, sendBackLightFlagRequest, lcdBackLightFlagReceived>>
    /\ lit' = (lit \/ on)
    /\ UNCHANGED <<stack, setupDone, backlightTimer, asked, unheard>>

ReceiveFlag(on) ==
    /\ CanReceive
    /\ lcdBackLightFlag' = on
    /\ \/ /\ ~lcdBackLightFlagReceived
          /\ lcdBackLightFlagReceived' = TRUE
          /\ alarms' = free(alarms, backlightTimer)
          /\ sendBackLightFlagRequest' = FALSE
       \/ /\ lcdBackLightFlagReceived
          /\ UNCHANGED <<alarms, sendBackLightFlagRequest, lcdBackLightFlagReceived>>
    /\ lit' = on
    /\ UNCHANGED <<stack, setupDone, backlightTimer, asked, unheard>>

-----------------------------------------------------------------------------
(* Alarm handlers *)

checkIfReceived ==
    /\ sendBackLightFlagRequest' = (sendBackLightFlagRequest \/ lcdBackLightFlagReceived)
    /\ UNCHANGED <<lit, lcdBackLightFlag, lcdBackLightFlagReceived, backlightTimer, asked,
                   unheard>>

checkBackLightFlagRequestStatus ==
    /\ sendBackLightFlagRequest' = (sendBackLightFlagRequest \/ ~lcdBackLightFlagReceived)
    /\ UNCHANGED <<lit, lcdBackLightFlag, lcdBackLightFlagReceived, backlightTimer, asked,
                   unheard>>

turnOffWantedLight ==
    /\ lit' = (lit /\ ~lcdBackLightFlag)
    /\ UNCHANGED flags

turnOffLCDLight ==
    /\ lit' = (lit /\ lcdBackLightFlag)
    /\ UNCHANGED flags

RunAlarm(s) ==
    /\ PassReaches(s)
    /\ \/ alarms[s].handler = "sendHeartbeat" /\ UNCHANGED <<lit, flags>>
       \/ /\ alarms[s].handler = "checkBackLightFlagRequestStatus"
          /\ checkBackLightFlagRequestStatus
       \/ alarms[s].handler = "turnOffLCDLight" /\ turnOffLCDLight
    /\ alarms' = Trigger(alarms, s)
    /\ stack' = Advance(s)
    /\ UNCHANGED setupDone

-----------------------------------------------------------------------------
(* presentNode() and setup() *)

ReceivePresentationRequest ==
    /\ CanReceive
    /\ stack' = Call("config")
    /\ UNCHANGED <<alarms, setupDone, lit, flags>>

PresentationEnds ==
    /\ At("present")
    /\ stack' = IF setupDone \/ Len(stack) > 1 THEN Return ELSE Goto("register")
    /\ UNCHANGED <<alarms, setupDone, lit, flags>>

setup ==
    /\ At("register")
    /\ stack' = Return
    /\ setupDone' = TRUE
    /\ lcdBackLightFlag' = TRUE
    /\ lcdBackLightFlagReceived' = FALSE
    /\ sendBackLightFlagRequest' = TRUE
    /\ alarms' = timerRepeat(alarms, "sendHeartbeat")
    /\ UNCHANGED <<lit, backlightTimer, asked, unheard>>

sketch == <<setupDone, lit, flags>>

SecondPasses   == Second /\ UNCHANGED sketch
PassBegins     == ServiceAlarms({"delay", "present"}) /\ UNCHANGED sketch
PassEnds       == EndPass /\ UNCHANGED sketch
PresentingNode == ConfigWaitEnds /\ UNCHANGED sketch

WaitEnds == DelayEnds \/ PresentingNode \/ PresentationEnds \/ setup

Next ==
    \/ loop
    \/ ReceiveReading
    \/ \E on \in BOOLEAN : ReceiveFlag(on)
    \/ ReceivePresentationRequest
    \/ WaitEnds
    \/ PassBegins \/ PassEnds
    \/ \E s \in Slots : RunAlarm(s)
    \/ SecondPasses

Spec == Init /\ [][Next]_vars

\* main() calls loop() over and over, whatever arrives between two calls, and in each call
\* the alarms that are due are run; waits are over in time; the clock ticks.
Fairness ==
    /\ WF_vars(SecondPasses)
    /\ SF_vars(loop)
    /\ SF_vars(At("delay") /\ PassBegins)
    /\ WF_vars(PassEnds)
    /\ \A s \in Slots : WF_vars(RunAlarm(s))
    /\ \A depth \in 1 .. MaxDepth + 1 : SF_vars(Len(stack) = depth /\ WaitEnds)

FairSpec == Spec /\ Fairness

-----------------------------------------------------------------------------
(* The inductive strengthening of LightHasEnd and HeartbeatGoesOn *)

BootInv == BootOrder(stack, setupDone)

\* The heartbeat is the alarm that repeats; there is one of it, and one request at a time.
\* backlightTimer is stale when the alarm is gone, but never the heartbeat's.
PoolInv ==
    /\ \A s \in Slots : alarms[s].isOneShot <=>
           alarms[s].handler \in {"checkBackLightFlagRequestStatus", "turnOffLCDLight"}
    /\ \A s, t \in Slots :
           /\ alarms[s].handler = alarms[t].handler
           /\ alarms[s].handler \in {"sendHeartbeat", "checkBackLightFlagRequestStatus"}
           => s = t
    /\ sendBackLightFlagRequest => ~Pending("checkBackLightFlagRequestStatus")
    /\ ~setupDone =>
           ~ (asked \/ Pending("sendHeartbeat") \/ Pending("checkBackLightFlagRequestStatus"))
    /\ asked /\ backlightTimer \in Slots => alarms[backlightTimer].handler # "sendHeartbeat"

-----------------------------------------------------------------------------
(* Properties *)

\* A light that the controller does not want on has an alarm coming that puts it out: no
\* reading finds the pool so full that none is pending, and the alarm that the stale id in
\* backlightTimer may free is not missed, as the light is then set by the flag.
LightHasEnd ==
    setupDone /\ lit /\ ~lcdBackLightFlag => Pending("turnOffLCDLight")

\* A node that has not got its flag is about to ask for it or has the alarm that makes it
\* ask again, unless that alarm was not to be had when it asked last.
AsksOn ==
    setupDone /\ ~lcdBackLightFlagReceived =>
        \/ sendBackLightFlagRequest \/ unheard
        \/ Pending("checkBackLightFlagRequestStatus")

\* Once the node has asked for its flag, the id it frees is not the heartbeat's, however
\* long the answer takes and whoever has got the slot since.  (Before that it is 0, the
\* heartbeat's slot.)
HeartbeatGoesOn ==
    [][asked /\ Pending("sendHeartbeat") => Pending("sendHeartbeat")']_vars

\* A light the controller does not want on goes out, or the controller comes to want it.
LightGoesOut ==
    setupDone /\ lit /\ ~lcdBackLightFlag ~> (~lit \/ lcdBackLightFlag)
=============================================================================
