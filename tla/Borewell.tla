------------------------------- MODULE Borewell -------------------------------
(***************************************************************************)
(* The borewell motor node.  The motor hangs on a latching starter: a pulse *)
(* of the ON relay starts it, a pulse of the OFF relay stops it.  A pulse   *)
(* is begun by turnOnBorewell()/turnOffBorewell() and ended two seconds     *)
(* later by a one-shot alarm; only then does borewellOn change.  Commands   *)
(* come from the cloud node, from two keys, and from the level sensors of   *)
(* Tank01, whose reports are answered and acted on.                         *)
(*                                                                          *)
(* `pulse` and `anomalies` are not in the program: the relay pulsed last,   *)
(* which is what the starter goes by, and what went wrong on the way.       *)
(***************************************************************************)
EXTENDS Runtime

CONSTANTS
    RELAY_TRIGGER_INTERVAL,     \* ticks from the start of a pulse to its end
    Sensors                     \* the sensors of Tank01 that report

ASSUME IntervalAssumption == RELAY_TRIGGER_INTERVAL \in Nat \ {0}
ASSUME SensorsAssumption == Sensors \subseteq {"TANK_LOW_LEVEL_ID", "TANK_HIGH_LEVEL_ID"}

VARIABLES
    setupDone,          \* setup() has run
    onRelay, offRelay,  \* BORE_ON_RELAY_PIN and BORE_OFF_RELAY_PIN
    borewellOn,         \* the flag, and MOTOR_STATUS_PIN, always written together
    tank01LowLevel, tank01HighLevel,
    tank01Message,      \* what tank01Message was last sent with; it has no destination and
                        \* goes to the controller
    pulse,              \* "on" or "off": the relay energised last
    anomalies           \* see Anomalies

relays == <<onRelay, offRelay, pulse, anomalies>>
levels == <<tank01LowLevel, tank01HighLevel>>
belief == <<borewellOn, tank01Message>>
vars == <<alarms, stack, setupDone, relays, levels, belief>>

Toggles == {"toggleOnRelay", "toggleOffRelay"}
Handlers == {"sendHeartbeat", "sendUpdate"} \cup Toggles

\* ack: receive() has stored a level and answered it; the four tests are still to come.
\* trippedOn, toldOn, trippedOff: in the waits after the first, second and third test.
\* A toggle's name: in its waits before it sets borewellOn.
Points == CorePoints \cup {"ack", "trippedOn", "toldOn", "trippedOff"} \cup Toggles

\* early: a pulse began before setup(), or the pump ran on over a restart.  overlap: a
\* pulse began while another was not over.  onStuck, offStuck: no alarm could be had to
\* end the pulse.
Anomalies == {"early", "overlap", "onStuck", "offStuck"}

TypeOK ==
    /\ alarms \in [Slots -> AlarmsOf(Handlers, RELAY_TRIGGER_INTERVAL)]
    /\ stack \in Seq(Frames(Points))
    /\ setupDone \in BOOLEAN
    /\ onRelay \in BOOLEAN /\ offRelay \in BOOLEAN
    /\ borewellOn \in BOOLEAN
    /\ tank01LowLevel \in BOOLEAN /\ tank01HighLevel \in BOOLEAN
    /\ tank01Message \in BOOLEAN
    /\ pulse \in {"on", "off"}
    /\ anomalies \in SUBSET Anomalies

Init ==
    /\ alarms = [s \in Slots |-> NotAllocated]
    /\ stack = <<Frame("config")>>
    /\ setupDone = FALSE
    /\ onRelay = FALSE /\ offRelay = FALSE
    /\ borewellOn = FALSE
    /\ tank01LowLevel = FALSE /\ tank01HighLevel = FALSE
    /\ tank01Message = FALSE
    /\ pulse = "off"
    /\ anomalies = {}

-----------------------------------------------------------------------------
(* The starter *)

PulseInFlight ==
    \/ onRelay \/ offRelay
    \/ \E h \in Toggles : Pending(h)
    \/ InProgress(Toggles)

PulseBegins(stuck) ==
    anomalies' = anomalies \cup (IF setupDone THEN {} ELSE {"early"})
                           \cup (IF PulseInFlight THEN {"overlap"} ELSE {})
                           \cup (IF Full(alarms) THEN {stuck} ELSE {})

turnOnBorewellWrongToggle ==
    /\ onRelay' = TRUE
    /\ alarms' = timerOnce(alarms, RELAY_TRIGGER_INTERVAL, "toggleOffRelay")
    /\ pulse' = "on"
    /\ PulseBegins("onStuck")
    /\ UNCHANGED <<offRelay, belief>>

\* The calls up to their wait(); the caller says where that wait returns to.
turnOnBorewell ==
    /\ onRelay' = TRUE
    /\ alarms' = timerOnce(alarms, RELAY_TRIGGER_INTERVAL, "toggleOnRelay")
    /\ pulse' = "on"
    /\ PulseBegins("onStuck")
    /\ UNCHANGED <<offRelay, belief>>

turnOffBorewell ==
    /\ offRelay' = TRUE
    /\ alarms' = timerOnce(alarms, RELAY_TRIGGER_INTERVAL, "toggleOffRelay")
    /\ pulse' = "off"
    /\ PulseBegins("offStuck")
    /\ UNCHANGED <<onRelay, belief>>

toggleOnRelay ==
    /\ onRelay' = FALSE
    /\ anomalies' = anomalies \ {"onStuck"}
    /\ UNCHANGED <<offRelay, pulse>>

toggleOffRelay ==
    /\ offRelay' = FALSE
    /\ anomalies' = anomalies \ {"offStuck"}
    /\ UNCHANGED <<onRelay, pulse>>

-----------------------------------------------------------------------------
(* receive(), a V_STATUS command, and keypadEvent(); keys are read by loop() only *)

ReceiveBoreOn ==
    /\ CanReceive
    /\ ~tank01HighLevel /\ ~borewellOn
    /\ turnOnBorewell
    /\ stack' = Call("tail")
    /\ UNCHANGED <<setupDone, levels>>

ReceiveBoreOff ==
    /\ CanReceive
    /\ borewellOn
    /\ turnOffBorewell
    /\ stack' = Call("tail")
    /\ UNCHANGED <<setupDone, levels>>

KeyOn ==
    /\ Idle
    /\ ~tank01HighLevel /\ ~borewellOn
    /\ turnOnBorewell
    /\ stack' = Call("tail")
    /\ UNCHANGED <<setupDone, levels>>

KeyOff ==
    /\ Idle
    /\ turnOffBorewell
    /\ stack' = Call("tail")
    /\ UNCHANGED <<setupDone, levels>>

-----------------------------------------------------------------------------
(* receive(), a V_TRIPPED report.  After the answer come four tests, each   *)
(* made when the wait of the one before it is over.                         *)

Tell(on, point) ==
    /\ tank01Message' = on
    /\ stack' = Goto(point)
    /\ UNCHANGED <<alarms, relays, borewellOn>>

Leave ==
    /\ stack' = Return
    /\ UNCHANGED <<alarms, relays, belief>>

TellIfOff ==
    \/ ~borewellOn /\ Tell(FALSE, "tail")
    \/ borewellOn /\ Leave

\* The guard the sketch has commented out.
CutOffIfRunning ==
    \/ /\ tank01HighLevel /\ borewellOn
       /\ turnOffBorewell
       /\ stack' = Goto("trippedOff")
    \/ ~(tank01HighLevel /\ borewellOn) /\ TellIfOff

CutOffIfHigh ==
    \/ /\ tank01HighLevel
       /\ turnOffBorewell
       /\ stack' = Goto("trippedOff")
    \/ ~tank01HighLevel /\ TellIfOff

TellIfOn ==
    \/ borewellOn /\ Tell(TRUE, "toldOn")
    \/ ~borewellOn /\ CutOffIfHigh

StartIfLow ==
    \/ /\ tank01LowLevel /\ ~borewellOn
       /\ turnOnBorewell
       /\ stack' = Goto("trippedOn")
    \/ ~(tank01LowLevel /\ ~borewellOn) /\ TellIfOn

ReceiveLevel(sensor, level) ==
    /\ CanReceive
    /\ \/ /\ sensor = "TANK_LOW_LEVEL_ID"
          /\ tank01LowLevel' = level
          /\ UNCHANGED tank01HighLevel
       \/ /\ sensor = "TANK_HIGH_LEVEL_ID"
          /\ tank01HighLevel' = level
          /\ UNCHANGED tank01LowLevel
    /\ stack' = Call("ack")
    /\ UNCHANGED <<alarms, setupDone, relays, belief>>

AckWaitEnds        == At("ack") /\ StartIfLow /\ UNCHANGED <<setupDone, levels>>
TrippedOnWaitEnds  == At("trippedOn") /\ TellIfOn /\ UNCHANGED <<setupDone, levels>>
ToldOnWaitEnds     == At("toldOn") /\ CutOffIfHigh /\ UNCHANGED <<setupDone, levels>>
TrippedOffWaitEnds == At("trippedOff") /\ TellIfOff /\ UNCHANGED <<setupDone, levels>>

-----------------------------------------------------------------------------
(* Alarm handlers *)

RunToggle(s) ==
    /\ PassReaches(s)
    /\ \/ alarms[s].handler = "toggleOnRelay" /\ toggleOnRelay
       \/ alarms[s].handler = "toggleOffRelay" /\ toggleOffRelay
    /\ alarms' = Trigger(alarms, s)
    /\ stack' = AdvanceAndCall(s, alarms[s].handler)
    /\ UNCHANGED <<setupDone, levels, belief>>

\* sendHeartbeat() and sendUpdate() change no state; sendUpdate() waits.
RunReport(s) ==
    /\ PassReaches(s)
    /\ \/ /\ alarms[s].handler = "sendHeartbeat"
          /\ stack' = Advance(s)
       \/ /\ alarms[s].handler = "sendUpdate"
          /\ stack' = AdvanceAndCall(s, "tail")
    /\ alarms' = Trigger(alarms, s)
    /\ UNCHANGED <<setupDone, relays, levels, belief>>

ToggleSetsQuietly(on) ==
    /\ borewellOn' = on
    /\ UNCHANGED tank01Message

ToggleSetsNoFlag(on) ==
    /\ UNCHANGED borewellOn
    /\ tank01Message' = on

\* The last part of a toggle: the flag is set and tank01Message sent in one go.
ToggleSets(on) ==
    /\ borewellOn' = on
    /\ tank01Message' = on

ToggleWaitEnds ==
    /\ \/ At("toggleOnRelay") /\ ToggleSets(TRUE)
       \/ At("toggleOffRelay") /\ ToggleSets(FALSE)
    /\ stack' = Goto("tail")
    /\ UNCHANGED <<alarms, setupDone, relays, levels>>

-----------------------------------------------------------------------------
(* presentNode(), before setup() and again when the controller asks for it *)

ReceivePresentationRequest ==
    /\ CanReceive
    /\ stack' = Call("config")
    /\ UNCHANGED <<alarms, setupDone, relays, levels, belief>>

PresentationEnds ==
    /\ At("present")
    /\ stack' = IF setupDone \/ Len(stack) > 1 THEN Return ELSE Goto("register")
    /\ UNCHANGED <<alarms, setupDone, relays, levels, belief>>

setup ==
    /\ At("register")
    /\ stack' = Return
    /\ setupDone' = TRUE
    /\ borewellOn' = FALSE
    /\ tank01LowLevel' = FALSE /\ tank01HighLevel' = FALSE
    /\ onRelay' = FALSE /\ offRelay' = FALSE
    /\ anomalies' = anomalies \ {"onStuck", "offStuck"}
    /\ alarms' = timerRepeat(timerRepeat(alarms, "sendHeartbeat"), "sendUpdate")
    /\ UNCHANGED <<pulse, tank01Message>>

\* The node loses its power and is started again.  The relays are released, the starter
\* stays as it is.
Restart ==
    /\ alarms' = [s \in Slots |-> NotAllocated]
    /\ stack' = <<Frame("config")>>
    /\ setupDone' = FALSE
    /\ onRelay' = FALSE /\ offRelay' = FALSE
    /\ borewellOn' = FALSE
    /\ tank01LowLevel' = FALSE /\ tank01HighLevel' = FALSE
    /\ tank01Message' = FALSE
    /\ anomalies' = IF pulse = "on" THEN {"early"} ELSE {}
    /\ UNCHANGED pulse

-----------------------------------------------------------------------------
sketch == <<setupDone, relays, levels, belief>>

SecondPasses   == Second /\ UNCHANGED sketch
PassBegins     == ServiceAlarms({"loop", "present"}) /\ UNCHANGED sketch
PassEnds       == EndPass /\ UNCHANGED sketch
TailWaitEnds   == TailReturns /\ UNCHANGED sketch
PresentingNode == ConfigWaitEnds /\ UNCHANGED sketch

Commands == ReceiveBoreOn \/ ReceiveBoreOff \/ KeyOn \/ KeyOff

WaitEnds ==
    \/ AckWaitEnds \/ TrippedOnWaitEnds \/ ToldOnWaitEnds \/ TrippedOffWaitEnds
    \/ ToggleWaitEnds \/ TailWaitEnds
    \/ PresentingNode \/ PresentationEnds \/ setup

Next ==
    \/ Commands
    \/ \E sensor \in Sensors, level \in BOOLEAN : ReceiveLevel(sensor, level)
    \/ ReceivePresentationRequest
    \/ WaitEnds
    \/ PassBegins \/ PassEnds
    \/ \E s \in Slots : RunToggle(s) \/ RunReport(s)
    \/ SecondPasses
    \/ Restart

Spec == Init /\ [][Next]_vars

(***************************************************************************)
(* Every wait() is bounded in time, and the time goes by while nested       *)
(* handlers run, so no wait is starved by the messages that arrive in it:   *)
(* strong fairness at each depth of the stack.  loop() makes a service pass *)
(* in every turn, whatever arrives between two turns, and the clock ticks.  *)
(* At some time the power stays on.                                         *)
(***************************************************************************)
Fairness ==
    /\ WF_vars(SecondPasses)
    /\ SF_vars(PassBegins)
    /\ WF_vars(PassEnds)
    /\ \A s \in Slots : WF_vars(RunToggle(s))
    /\ <>[][~Restart]_vars
    /\ \A depth \in 1 .. MaxDepth + 1 : SF_vars(Len(stack) = depth /\ WaitEnds)

FairSpec == Spec /\ Fairness

-----------------------------------------------------------------------------
(* The inductive strengthening of the invariants below *)

Clean == anomalies \cap {"early", "overlap"} = {}

BootInv == BootOrder(stack, setupDone)

\* A toggle is not repeated.
OneShotInv == \A s \in Slots : alarms[s].handler \in Toggles => alarms[s].isOneShot

\* Nothing but an early pulse disturbs what setup() is going to write.
EarlyInv ==
    ~setupDone /\ "early" \notin anomalies =>
        ~PulseInFlight /\ pulse = "off" /\ ~borewellOn

\* A pump that is on under a full tank is about to be stopped.
CutOffInv ==
    tank01HighLevel /\ pulse = "on" => InProgress({"ack", "trippedOn", "toldOn"})

ToggleOf(p) == IF p = "on" THEN "toggleOnRelay" ELSE "toggleOffRelay"

\* Without an overlap one toggle at a time is pending or running, that of the last pulse.
ToggleInv ==
    Clean =>
        /\ \A s \in Slots : alarms[s].handler \in Toggles =>
              /\ alarms[s].handler = ToggleOf(pulse)
              /\ ~InProgress(Toggles)
              /\ \A t \in Slots : alarms[t].handler \in Toggles => t = s
        /\ \A i \in DOMAIN stack : stack[i].at \in Toggles =>
              /\ stack[i].at = ToggleOf(pulse)
              /\ \A j \in DOMAIN stack : stack[j].at \in Toggles => j = i

\* tank01Message is sent with the flag, and the flag set in the step that sends it, but for
\* setup(), which may wipe it after a pulse.
MessageInv == "early" \notin anomalies => tank01Message = borewellOn

-----------------------------------------------------------------------------
(* Properties *)

\* The node seen from outside.
Guard == INSTANCE PumpGuard
             WITH settled <- setupDone, resting <- Idle, full <- tank01HighLevel,
                  running <- pulse = "on"

\* The node does what a motor node owes to its tank: with handlers in handlers it begins
\* no start under a full tank, comes to rest with the pump stopped, and comes to rest.
ImplementsPumpGuard == Guard!FairSpec

\* Whatever commands, keys and reports were handled inside one another, when no handler
\* is left and the node holds Tank01 for full, the relay pulsed last is the OFF relay:
\* a pump that was started from inside a nested handler has been stopped again.
OverflowCutOff == Idle /\ tank01HighLevel => pulse = "off"

\* An energised relay has its end coming, an alarm that will release it, except where
\* the pool was full when the pulse began (timerOnce()'s result is not looked at).
RelayHasToggle ==
    /\ onRelay => \/ "onStuck" \in anomalies
                  \/ Pending("toggleOnRelay")
    /\ offRelay => \/ "offStuck" \in anomalies
                   \/ Pending("toggleOffRelay")

\* Between pulses the flag says what the starter was last told, provided that no pulse
\* was begun before the one before it was over, or before setup().
FlagFollowsPulse ==
    ~PulseInFlight /\ Clean => borewellOn = (pulse = "on")

\* Between pulses tank01Message, which toggles and reports send, handled inside one another,
\* was last sent with what the starter was last told, with the exceptions of FlagFollowsPulse.
MessageFollowsPulse ==
    ~PulseInFlight /\ Clean => tank01Message = (pulse = "on")

\* A relay that is energised is released in the end, or it had no alarm to release it.
RelaysReleased ==
    /\ onRelay ~> (~onRelay \/ "onStuck" \in anomalies)
    /\ offRelay ~> (~offRelay \/ "offStuck" \in anomalies)
=============================================================================
