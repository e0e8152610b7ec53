------------------------------ MODULE SumpMotor ------------------------------
(***************************************************************************)
(* The sump motor node.  It pumps from the sump, Tank03, into Tank02, and   *)
(* drives the motor through one relay, which it switches at once; but the   *)
(* flag sumpMotorOn, on which every guard is built, follows only after two  *)
(* waits, in which other commands and level reports are handled.            *)
(*                                                                          *)
(* `anomalies` is not in the program: it says what was handled inside a     *)
(* switch.                                                                  *)
(***************************************************************************)
EXTENDS Runtime

CONSTANT Sensors        \* the sensors of Tank02 and Tank03 that report

ASSUME SensorsAssumption ==
    Sensors \subseteq {"TANK02_LOW_LEVEL_ID", "TANK02_HIGH_LEVEL_ID",
                       "TANK03_LOW_LEVEL_ID", "TANK03_HIGH_LEVEL_ID"}

VARIABLES
    setupDone,          \* setup() has run
    relay,              \* RELAY_PIN
    sumpMotorOn,        \* the flag, and MOTOR_STATUS_PIN, always written together
    tripped,            \* the sensors whose last report was that they tripped: the
                        \* flags tank02LowLevel .. tank03HighLevel
    told,               \* what the controller was last told of the motor: neither
                        \* sumpMotorRelayMessage nor tank02Message has a destination, so
                        \* both go there, and both are of SUMP_MOTOR_RELAY_ID
    anomalies           \* see Anomalies

vars == <<alarms, stack, setupDone, relay, sumpMotorOn, tripped, told, anomalies>>

tank02LowLevel  == "TANK02_LOW_LEVEL_ID" \in tripped
tank02HighLevel == "TANK02_HIGH_LEVEL_ID" \in tripped
tank03LowLevel  == "TANK03_LOW_LEVEL_ID" \in tripped

Handlers == {"sendHeartbeat", "sendUpdate"}

\* turnOn, turnOff: in the waits of turnOnSumpMotor(), turnOffSumpMotor(), called by a
\* command or a key; trippedOn, trippedOff: called by the tests behind a level report.
\* ack: the report is stored and answered, the tests are still to come.  toldOn: in the
\* wait after the second test.
Switches == {"turnOn", "trippedOn", "turnOff", "trippedOff"}
Points == CorePoints \cup {"ack", "toldOn"} \cup Switches

\* overlap: the last switch began inside another.  blind: the last level report came
\* inside a turnOn no test comes after.  misled: what was told last was told by a report
\* inside a switch, by the presentation of a running motor, or before setup() switched
\* the motor off.
Anomalies == {"overlap", "blind", "misled"}

TypeOK ==
    /\ alarms \in [Slots -> AlarmsOf(Handlers, 0)]
    /\ stack \in Seq(Frames(Points))
    /\ setupDone \in BOOLEAN
    /\ relay \in BOOLEAN
    /\ sumpMotorOn \in BOOLEAN
    /\ tripped \in SUBSET Sensors
    /\ told \in BOOLEAN
    /\ anomalies \in SUBSET Anomalies

Init ==
    /\ alarms = [s \in Slots |-> NotAllocated]
    /\ stack = <<Frame("config")>>
    /\ setupDone = FALSE
    /\ relay = FALSE
    /\ sumpMotorOn = FALSE
    /\ tripped = {}
    /\ told = FALSE
    /\ anomalies = {}

-----------------------------------------------------------------------------
\* Adds the anomaly to the set or takes it out.
Mark(set, anomaly, holds) == IF holds THEN set \cup {anomaly} ELSE set \ {anomaly}

\* turnOnSumpMotor() and turnOffSumpMotor() up to their waits, and behind them.
SwitchRelay(on) ==
    /\ relay' = on
    /\ told' = on
    /\ anomalies' = Mark(anomalies, "overlap", InProgress(Switches)) \ {"misled"}
    /\ UNCHANGED <<alarms, sumpMotorOn>>

SwitchForgotten(on) ==
    /\ sumpMotorOn' = (sumpMotorOn \/ on)
    /\ UNCHANGED <<alarms, setupDone, relay, tripped>>

SwitchEnds(on) ==
    /\ sumpMotorOn' = on
    /\ UNCHANGED <<alarms, setupDone, relay, tripped>>

-----------------------------------------------------------------------------
(* receive(), a V_STATUS command, and keypadEvent() *)

MayStart == ~tank02HighLevel /\ ~tank03LowLevel /\ ~sumpMotorOn

CommandOnUnguarded ==
    /\ CanReceive
    /\ ~tank02HighLevel /\ ~sumpMotorOn
    /\ SwitchRelay(TRUE)
    /\ stack' = Call("turnOn")
    /\ UNCHANGED <<setupDone, tripped>>

\* Commands are read by _process(), in any wait; keys by loop() only, where a command may
\* come too, so that the two are one action.
CommandOn ==
    /\ CanReceive
    /\ MayStart
    /\ SwitchRelay(TRUE)
    /\ stack' = Call("turnOn")
    /\ UNCHANGED <<setupDone, tripped>>

CommandOff ==
    /\ CanReceive
    /\ sumpMotorOn
    /\ SwitchRelay(FALSE)
    /\ stack' = Call("turnOff")
    /\ UNCHANGED <<setupDone, tripped>>

CommandEnds ==
    /\ \/ At("turnOn") /\ SwitchEnds(TRUE)
       \/ At("turnOff") /\ SwitchEnds(FALSE)
    /\ stack' = Return
    /\ UNCHANGED <<told, anomalies>>

-----------------------------------------------------------------------------
(* receive(), a V_TRIPPED report, and the four tests behind the answer *)

\* A switch is in progress below the running call.
InsideSwitch == \E i \in 1 .. Len(stack) - 1 : stack[i].at \in Switches

Tell(on, point) ==
    /\ told' = on
    /\ anomalies' = Mark(anomalies, "misled", InsideSwitch)
    /\ stack' = Goto(point)

Leave ==
    /\ stack' = Return
    /\ UNCHANGED <<told, anomalies>>

ReceiveLevel(sensor, level) ==
    /\ CanReceive
    /\ tripped' = IF level THEN tripped \cup {sensor} ELSE tripped \ {sensor}
    /\ anomalies' = Mark(anomalies, "blind", InProgress({"turnOn"}))
    /\ stack' = Call("ack")
    /\ UNCHANGED <<alarms, setupDone, relay, sumpMotorOn, told>>

\* The second test fails with the flag down, and then so does the third.
AckWaitEnds ==
    /\ At("ack")
    /\ \/ /\ tank02LowLevel /\ ~tank03LowLevel /\ ~sumpMotorOn
          /\ SwitchRelay(TRUE)
          /\ stack' = Goto("trippedOn")
       \/ /\ ~ (tank02LowLevel /\ ~tank03LowLevel /\ ~sumpMotorOn)
          /\ IF sumpMotorOn THEN Tell(TRUE, "toldOn") ELSE Tell(FALSE, "tail")
          /\ UNCHANGED <<alarms, relay, sumpMotorOn>>
    /\ UNCHANGED <<setupDone, tripped>>

TrippedOnEnds ==
    /\ At("trippedOn")
    /\ SwitchEnds(TRUE)
    /\ Tell(TRUE, "toldOn")

ToldOnWaitEndsHighOnly ==
    /\ At("toldOn")
    /\ \/ /\ tank02HighLevel /\ sumpMotorOn
          /\ SwitchRelay(FALSE)
          /\ stack' = Goto("trippedOff")
       \/ /\ ~ (tank02HighLevel /\ sumpMotorOn)
          /\ IF sumpMotorOn THEN Leave ELSE Tell(FALSE, "tail")
          /\ UNCHANGED <<alarms, relay, sumpMotorOn>>
    /\ UNCHANGED <<setupDone, tripped>>

ToldOnWaitEnds ==
    /\ At("toldOn")
    /\ \/ /\ (tank02HighLevel \/ tank03LowLevel) /\ sumpMotorOn
          /\ SwitchRelay(FALSE)
          /\ stack' = Goto("trippedOff")
       \/ /\ ~ ((tank02HighLevel \/ tank03LowLevel) /\ sumpMotorOn)
          /\ IF sumpMotorOn THEN Leave ELSE Tell(FALSE, "tail")
          /\ UNCHANGED <<alarms, relay, sumpMotorOn>>
    /\ UNCHANGED <<setupDone, tripped>>

TrippedOffEnds ==
    /\ At("trippedOff")
    /\ SwitchEnds(FALSE)
    /\ Tell(FALSE, "tail")

-----------------------------------------------------------------------------
(* Alarms, presentation, and the steps of the runtime *)

sketch == <<setupDone, relay, sumpMotorOn, tripped, told, anomalies>>

RunReportOfFlag(s) ==
    /\ PassReaches(s)
    /\ \/ /\ alarms[s].handler = "sendHeartbeat"
          /\ stack' = Advance(s)
          /\ UNCHANGED <<told, anomalies>>
       \/ /\ alarms[s].handler = "sendUpdate"
          /\ stack' = AdvanceAndCall(s, "tail")
          /\ told' = sumpMotorOn
          /\ anomalies' = Mark(anomalies, "misled", FALSE)
    /\ alarms' = Trigger(alarms, s)
    /\ UNCHANGED <<setupDone, relay, sumpMotorOn, tripped>>

\* sendHeartbeat() changes no state; sendUpdate() reads the relay's pin, tells, and waits.
RunReport(s) ==
    /\ PassReaches(s)
    /\ \/ /\ alarms[s].handler = "sendHeartbeat"
          /\ stack' = Advance(s)
          /\ UNCHANGED <<told, anomalies>>
       \/ /\ alarms[s].handler = "sendUpdate"
          /\ stack' = AdvanceAndCall(s, "tail")
          /\ told' = relay
          /\ anomalies' = Mark(anomalies, "misled", FALSE)
    /\ alarms' = Trigger(alarms, s)
    /\ UNCHANGED <<setupDone, relay, sumpMotorOn, tripped>>

ReceivePresentationRequest ==
    /\ CanReceive
    /\ stack' = Call("config")
    /\ UNCHANGED <<alarms, sketch>>

\* presentation() says OFF, whatever the motor does.
PresentationTellsOff ==
    /\ At("present")
    /\ told' = FALSE
    /\ anomalies' = Mark(anomalies, "misled", relay)
    /\ stack' = Goto("presented")
    /\ UNCHANGED <<alarms, setupDone, relay, sumpMotorOn, tripped>>

PresentationEnds ==
    /\ At("presented")
    /\ stack' = IF setupDone \/ Len(stack) > 1 THEN Return ELSE Goto("register")
    /\ UNCHANGED <<alarms, sketch>>

setup ==
    /\ At("register")
    /\ stack' = Return
    /\ setupDone' = TRUE
    /\ relay' = FALSE
    /\ sumpMotorOn' = FALSE
    /\ tripped' = {}
    /\ anomalies' = Mark({}, "misled", relay \/ anomalies # {})
    /\ alarms' = timerRepeat(timerRepeat(alarms, "sendHeartbeat"), "sendUpdate")
    /\ UNCHANGED told

SecondPasses   == Second /\ UNCHANGED sketch
PassBegins     == ServiceAlarms({"loop", "present", "presented"}) /\ UNCHANGED sketch
PassEnds       == EndPass /\ UNCHANGED sketch
TailWaitEnds   == TailReturns /\ UNCHANGED sketch
PresentingNode == ConfigWaitEnds /\ UNCHANGED sketch

WaitEnds ==
    \/ CommandEnds \/ AckWaitEnds \/ TrippedOnEnds \/ ToldOnWaitEnds \/ TrippedOffEnds
    \/ TailWaitEnds \/ PresentingNode \/ PresentationTellsOff \/ PresentationEnds \/ setup

Next ==
    \/ CommandOn \/ CommandOff
    \/ \E sensor \in Sensors, level \in BOOLEAN : ReceiveLevel(sensor, level)
    \/ ReceivePresentationRequest
    \/ WaitEnds
    \/ PassBegins \/ PassEnds
    \/ \E s \in Slots : RunReport(s)
    \/ SecondPasses

Spec == Init /\ [][Next]_vars

UpdateRuns == \E s \in Slots : alarms[s].handler = "sendUpdate" /\ RunReport(s)

\* As for every sketch: each wait is over in time, whatever is handled in it, and loop()
\* makes its service passes.  The alarm of sendUpdate() is due every quarter of an hour.
Fairness ==
    /\ SF_vars(PassBegins)
    /\ WF_vars(PassEnds)
    /\ SF_vars(UpdateRuns)
    /\ \A depth \in 1 .. MaxDepth + 1 : SF_vars(Len(stack) = depth /\ WaitEnds)

FairSpec == Spec /\ Fairness

-----------------------------------------------------------------------------
(* The inductive strengthening of the invariants below *)

BootInv == BootOrder(stack, setupDone)

\* Where no switch was begun inside another, the one in progress is the one that has
\* switched the relay.
SwitchInv ==
    "overlap" \notin anomalies =>
        \A i \in DOMAIN stack : stack[i].at \in Switches =>
            /\ relay <=> stack[i].at \in {"turnOn", "trippedOn"}
            /\ \A j \in DOMAIN stack : stack[j].at \in Switches => j = i

MustStop == tank02HighLevel \/ tank03LowLevel

\* A command starts no motor that must stop: the report came inside.
BlindInv == MustStop /\ InProgress({"turnOn"}) => "blind" \in anomalies

\* A motor that must stop is about to be stopped.
StopInv ==
    relay /\ MustStop /\ anomalies \cap {"blind", "overlap"} = {} =>
        InProgress({"ack", "trippedOn", "toldOn"})

-----------------------------------------------------------------------------
(* Properties *)

\* With no switch in progress the flag is what the relay is, unless a switch was begun
\* inside another one: then the outer switch, ending last, sets the flag to the state the
\* inner one has left.
FlagFollowsRelay ==
    ~InProgress(Switches) /\ "overlap" \notin anomalies => sumpMotorOn = relay

\* When no handler is left the motor does not fill a full Tank02 or empty a low sump,
\* unless the report that said so was handled inside a turnOnSumpMotor() that a command
\* had called (the flag was still down, so nothing was cut off), or switches overlapped.
PumpProtected ==
    Idle /\ MustStop /\ anomalies \cap {"blind", "overlap"} = {} => ~relay

\* At any point of any handler the controller was last told what the relay is, whether a
\* switch, a report or the update told it, unless switches overlapped, or a report inside a
\* switch or the presentation of a running motor has misled it.
ToldFollowsRelay == anomalies \cap {"overlap", "misled"} = {} => told = relay

\* Whatever has misled the controller, overlapping switches among it, it is told in the end
\* what the relay is: sendUpdate() reads the pin and not the flag.
ControllerLearns == told # relay ~> told = relay

\* A motor that must stop does, or what it must stop for goes away, with the exceptions
\* of PumpProtected.
PumpStops ==
    MustStop /\ relay ~> (~relay \/ ~MustStop \/ anomalies \cap {"blind", "overlap"} # {})
=============================================================================
