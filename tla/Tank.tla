--------------------------------- MODULE Tank ---------------------------------
(***************************************************************************)
(* The node on Tank01 that tells the borewell motor node when the water is  *)
(* at a low or at a high level, and the one on Tank02 that tells the sump   *)
(* motor node.  Repeating alarms read the two float switches and flag what  *)
(* is to be reported; loop() reports it, first to the controller and then   *)
(* to the motor node, and sets an alarm that flags the report again if the  *)
(* motor node has not answered it by then.                                  *)
(*                                                                          *)
(* The two differ in the second of their three repeating alarms: that of    *)
(* Tank02 repeats the values to the controller and reads no switch.         *)
(*                                                                          *)
(* Not in the program: `atLevel`, the water, and `told` and `crowded`,      *)
(* which are history.                                                       *)
(***************************************************************************)
EXTENDS Runtime, FiniteSets

CONSTANTS
    Sensors,                    \* the float switches of the tank
    RepeatingHandlers,          \* of the repeating alarms behind the heartbeat's, in the
                                \* order in which setup() asks for them
    ONE_MINUTE, TWENTY_SECS     \* ticks until a report is flagged again

ASSUME SensorsAssumption == Sensors \subseteq {"TANK_LOW_LEVEL_ID", "TANK_HIGH_LEVEL_ID"}
ASSUME RepeatingAssumption ==
    RepeatingHandlers \in Seq({"checkFloatSensors", "updateSensorValues"})
ASSUME IntervalAssumption ==
    /\ ONE_MINUTE \in Nat \ {0}
    /\ TWENTY_SECS \in 1 .. ONE_MINUTE

VARIABLES
    setupDone,          \* setup() has run
    atLevel,            \* the switches that are closed: the water is at their level
    tankAt,             \* tankAtLowLevel, tankAtHighLevel: the closed ones when last read
    sendSensorUpdate,   \* the switches flagged for a report
    acked,              \* tankLowLevelAck, tankHighLevelAck
    told,               \* what the last report to the motor node said of each switch,
                        \* since the node was started
    crowded             \* the switches whose last report got no alarm to be repeated by
                        \* and no answer

readings == <<tankAt, sendSensorUpdate>>
reports == <<acked, told, crowded>>
vars == <<alarms, stack, setupDone, atLevel, readings, reports>>

Low == "TANK_LOW_LEVEL_ID"
High == "TANK_HIGH_LEVEL_ID"

CheckAck(sensor) == IF sensor = Low THEN "checkLowLevelAck" ELSE "checkHighLevelAck"

AckInterval(sensor) == IF sensor = Low THEN ONE_MINUTE ELSE TWENTY_SECS

Handlers == {"sendHeartbeat", "checkFloatSensors", "updateSensorValues",
             "checkLowLevelAck", "checkHighLevelAck"}

\* In loop(): lowSent and highSent are the waits behind the message to the controller,
\* lowTold and highTold those behind the one to the motor node.
SentPoint(sensor) == IF sensor = Low THEN "lowSent" ELSE "highSent"
ToldPoint(sensor) == IF sensor = Low THEN "lowTold" ELSE "highTold"
LoopPoints == UNION {{SentPoint(sensor), ToldPoint(sensor)} : sensor \in Sensors}
Points == CorePoints \cup LoopPoints

\* LOW_LEVEL or HIGH_LEVEL, and NOT_LOW_LEVEL or NOT_HIGH_LEVEL; nothing before the
\* first report.
Reports == {"nothing", "level", "notLevel"}
Report(isAtLevel) == IF isAtLevel THEN "level" ELSE "notLevel"

TypeOK ==
    /\ alarms \in [Slots -> AlarmsOf(Handlers, ONE_MINUTE)]
    /\ stack \in Seq(Frames(Points))
    /\ setupDone \in BOOLEAN
    /\ \A set \in {atLevel, tankAt, sendSensorUpdate, acked, crowded} :
           set \in SUBSET Sensors
    /\ told \in [Sensors -> Reports]

Init ==
    /\ alarms = [s \in Slots |-> NotAllocated]
    /\ stack = <<Frame("config")>>
    /\ setupDone = FALSE
    /\ atLevel \in SUBSET Sensors
    /\ tankAt = {}
    /\ sendSensorUpdate = {}
    /\ acked = {}
    /\ told = [sensor \in Sensors |-> "nothing"]
    /\ crowded = {}

-----------------------------------------------------------------------------
(* loop() *)

Enter(point) == IF Idle THEN Call(point) ELSE Goto(point)

\* The flag is taken down and the controller told.
SendUpdate(sensor) ==
    /\ sensor \in sendSensorUpdate
    /\ sendSensorUpdate' = sendSensorUpdate \ {sensor}
    /\ acked' = acked \ {sensor}
    /\ stack' = Enter(SentPoint(sensor))
    /\ UNCHANGED <<tankAt, told>>

\* The second half of loop(), and Alarm.delay().
HighLevelPart ==
    \/ SendUpdate(High)
    \/ /\ High \notin sendSensorUpdate
       /\ stack' = Enter("delay")
       /\ UNCHANGED <<readings, acked, told>>

loop ==
    /\ Idle
    /\ \/ SendUpdate(Low)
       \/ Low \notin sendSensorUpdate /\ HighLevelPart
    /\ UNCHANGED <<alarms, setupDone, atLevel, crowded>>

\* The motor node is told what the level is by now.
SentWaitEnds(sensor) ==
    /\ At(SentPoint(sensor))
    /\ told' = [told EXCEPT ![sensor] = Report(sensor \in tankAt)]
    /\ stack' = Goto(ToldPoint(sensor))
    /\ UNCHANGED <<alarms, setupDone, atLevel, readings, acked, crowded>>

CheckAckAlarm(sensor) ==
    /\ alarms' = timerOnce(alarms, AckInterval(sensor), CheckAck(sensor))
    /\ crowded' = IF Full(alarms) /\ sensor \notin acked
                  THEN crowded \cup {sensor} ELSE crowded \ {sensor}

HighToldWaitEndsClearing ==
    /\ At("highTold")
    /\ CheckAckAlarm(High)
    /\ stack' = Goto("delay")
    /\ sendSensorUpdate' = sendSensorUpdate \ {High}
    /\ UNCHANGED <<setupDone, atLevel, tankAt, acked, told>>

LowToldWaitEnds ==
    /\ At("lowTold")
    /\ CheckAckAlarm(Low)
    /\ HighLevelPart
    /\ UNCHANGED <<setupDone, atLevel>>

HighToldWaitEnds ==
    /\ At("highTold")
    /\ CheckAckAlarm(High)
    /\ stack' = Goto("delay")
    /\ UNCHANGED <<setupDone, atLevel, readings, acked, told>>

DelayEnds ==
    /\ At("delay")
    /\ stack' = Return
    /\ UNCHANGED <<alarms, setupDone, atLevel, readings, reports>>

-----------------------------------------------------------------------------
(* receive() *)

\* V_TRIPPED: the motor node answers a report, it does not say which.
ReceiveAck(sensor) ==
    /\ CanReceive
    /\ acked' = acked \cup {sensor}
    /\ crowded' = crowded \ {sensor}
    /\ UNCHANGED <<alarms, stack, setupDone, atLevel, readings, told>>

\* V_STATUS: passed on to the motor node or the controller, and waited for.
ReceiveStatus ==
    /\ CanReceive
    /\ stack' = Call("tail")
    /\ UNCHANGED <<alarms, setupDone, atLevel, readings, reports>>

-----------------------------------------------------------------------------
(* Alarm handlers *)

checkFloatSensorsIfClosed ==
    /\ tankAt' = atLevel
    /\ sendSensorUpdate' = sendSensorUpdate \cup atLevel
    /\ UNCHANGED reports

checkFloatSensorsOnChange ==
    /\ tankAt' = atLevel
    /\ sendSensorUpdate' = sendSensorUpdate
           \cup {s \in Sensors : (s \in atLevel) # (s \in tankAt)}
    /\ UNCHANGED reports

\* lowLevelSensor() and highLevelSensor().  Between samples nothing of the sketch runs:
\* Alarm.delay() in an alarm handler receives nothing and triggers nothing.
checkFloatSensors ==
    /\ tankAt' = atLevel
    /\ sendSensorUpdate' = sendSensorUpdate
           \cup {s \in Sensors : s \in atLevel \/ (s \in atLevel) # (s \in tankAt)}
    /\ UNCHANGED reports

checkAckInverted(sensor) ==
    /\ sendSensorUpdate' = sendSensorUpdate \cup ({sensor} \cap acked)
    /\ UNCHANGED <<tankAt, reports>>

checkAck(sensor) ==
    /\ sendSensorUpdate' = sendSensorUpdate \cup ({sensor} \ acked)
    /\ UNCHANGED <<tankAt, reports>>

\* updateSensorValues() waits and changes no state.
RunAlarm(s) ==
    /\ PassReaches(s)
    /\ \/ /\ alarms[s].handler \in {"sendHeartbeat", "updateSensorValues"}
          /\ UNCHANGED <<readings, reports>>
       \/ alarms[s].handler = "checkFloatSensors" /\ checkFloatSensors
       \/ \E sensor \in Sensors : alarms[s].handler = CheckAck(sensor) /\ checkAck(sensor)
    /\ alarms' = Trigger(alarms, s)
    /\ stack' = IF alarms[s].handler = "updateSensorValues"
                THEN AdvanceAndCall(s, "tail") ELSE Advance(s)
    /\ UNCHANGED <<setupDone, atLevel>>

-----------------------------------------------------------------------------
(* presentNode() and setup(), the water, and the steps of the runtime *)

ReceivePresentationRequest ==
    /\ CanReceive
    /\ stack' = Call("config")
    /\ UNCHANGED <<alarms, setupDone, atLevel, readings, reports>>

\* Each presentation leaves an alarm behind that reads the sensors.
PresentationEnds ==
    /\ At("present")
    /\ stack' = IF setupDone \/ Len(stack) > 1 THEN Return ELSE Goto("register")
    /\ alarms' = timerOnce(alarms, ONE_MINUTE, "checkFloatSensors")
    /\ UNCHANGED <<setupDone, atLevel, readings, reports>>

\* The lowest free slots go to the heartbeat and then to the other repeating alarms, as far
\* as there are any.
withRepeating ==
    [s \in Slots |->
        LET lower == Cardinality({t \in Unallocated(alarms) : t < s})
            repeating(h) == [handler |-> h, isOneShot |-> FALSE, left |-> 0]
        IN  IF isAllocated(alarms, s) THEN alarms[s]
            ELSE IF lower = 0 THEN repeating("sendHeartbeat")
            ELSE IF lower \in DOMAIN RepeatingHandlers THEN repeating(RepeatingHandlers[lower])
            ELSE NotAllocated]

setup ==
    /\ At("register")
    /\ stack' = Return
    /\ setupDone' = TRUE
    /\ sendSensorUpdate' = {}
    /\ acked' = {}
    /\ alarms' = withRepeating
    /\ UNCHANGED <<atLevel, tankAt, told, crowded>>

\* The node loses its power and is started again.
Restart ==
    /\ alarms' = [s \in Slots |-> NotAllocated]
    /\ stack' = <<Frame("config")>>
    /\ setupDone' = FALSE
    /\ tankAt' = {}
    /\ sendSensorUpdate' = {}
    /\ acked' = {}
    /\ told' = [sensor \in Sensors |-> "nothing"]
    /\ crowded' = {}
    /\ UNCHANGED atLevel

WaterMoves(sensor) ==
    /\ atLevel' = IF sensor \in atLevel THEN atLevel \ {sensor} ELSE atLevel \cup {sensor}
    /\ UNCHANGED <<alarms, stack, setupDone, readings, reports>>

sketch == <<setupDone, atLevel, readings, reports>>

SecondPasses   == Second /\ UNCHANGED sketch
PassBegins     == ServiceAlarms({"delay", "present"}) /\ UNCHANGED sketch
PassEnds       == EndPass /\ UNCHANGED sketch
TailWaitEnds   == TailReturns /\ UNCHANGED sketch
PresentingNode == ConfigWaitEnds /\ UNCHANGED sketch

WaitEnds ==
    \/ \E sensor \in Sensors : SentWaitEnds(sensor)
    \/ LowToldWaitEnds \/ HighToldWaitEnds \/ DelayEnds
    \/ TailWaitEnds \/ PresentingNode \/ PresentationEnds \/ setup

Next ==
    \/ loop
    \/ \E sensor \in Sensors : ReceiveAck(sensor)
    \/ ReceiveStatus
    \/ ReceivePresentationRequest
    \/ WaitEnds
    \/ PassBegins \/ PassEnds
    \/ \E s \in Slots : RunAlarm(s)
    \/ SecondPasses
    \/ \E sensor \in Sensors : WaterMoves(sensor)
    \/ Restart

Spec == Init /\ [][Next]_vars

RepeatingCheck(s) == alarms[s].handler = "checkFloatSensors" /\ ~alarms[s].isOneShot

\* As for LCD; and the sensors are read again and again.  At some time the power stays on.
Fairness ==
    /\ <>[][~Restart]_vars
    /\ SF_vars(loop)
    /\ SF_vars(At("delay") /\ PassBegins)
    /\ WF_vars(PassEnds)
    /\ WF_vars(\E s \in Slots : RunAlarm(s))
    /\ SF_vars(\E s \in Slots : RepeatingCheck(s) /\ RunAlarm(s))
    /\ \A depth \in 1 .. MaxDepth + 1 : SF_vars(Len(stack) = depth /\ WaitEnds)

FairSpec == Spec /\ Fairness

-----------------------------------------------------------------------------
(* Properties *)

\* Whenever the node is idle, what it has told the motor node about a switch is what it
\* has read last, or the switch is flagged: a reading that is taken while a report is
\* under way is not lost.
ReportIsCurrent ==
    Idle => \A sensor \in Sensors \ sendSensorUpdate :
                told[sensor] \in {"nothing", Report(sensor \in tankAt)}

\* Whenever the node is idle, a report that is not answered will be repeated, unless the
\* pool was full when it was made.
RetryComes ==
    Idle => \A sensor \in Sensors \ (acked \cup sendSensorUpdate \cup crowded) :
                told[sensor] # "nothing" => Pending(CheckAck(sensor))

\* What the two rest on.  Nothing is reported before setup().  A report that is under way
\* stands for what it is going to tell, and for the alarm it is going to ask for.
ReportUnderWay(sensor) == InProgress({SentPoint(sensor)})
AlarmToCome(sensor) == InProgress({SentPoint(sensor), ToldPoint(sensor)})

StartInv ==
    /\ ~setupDone => /\ stack # <<>>
                     /\ stack[1].at \in {"config", "present", "register"}
                     /\ ~InProgress(LoopPoints)
                     /\ \A sensor \in Sensors : told[sensor] = "nothing"
    /\ \A i \in DOMAIN stack : stack[i].at = "register" => i = 1 /\ ~setupDone

CurrentInv ==
    \A sensor \in Sensors :
        \/ told[sensor] \in {"nothing", Report(sensor \in tankAt)}
        \/ sensor \in sendSensorUpdate
        \/ ReportUnderWay(sensor)

RetryInv ==
    \A sensor \in Sensors :
        \/ told[sensor] = "nothing"
        \/ sensor \in acked \cup sendSensorUpdate \cup crowded
        \/ Pending(CheckAck(sensor))
        \/ AlarmToCome(sensor)

\* A node that reads its sensors tells the motor node of a changed level, or the level
\* changes back.  (To have told nothing is to have told that it is not at the level: that
\* is what the motor node starts with.)
Unaware(sensor) ==
    /\ \E s \in Slots : RepeatingCheck(s)
    /\ (sensor \in atLevel) # (told[sensor] = "level")

LevelGetsTold == \A sensor \in Sensors : Unaware(sensor) ~> ~Unaware(sensor)
=============================================================================
