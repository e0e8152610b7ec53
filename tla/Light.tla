-------------------------------- MODULE Light ---------------------------------
(***************************************************************************)
(* The nodes of the balcony light and the gate light.  A node switches its  *)
(* relay when the cloud node or the controller says so, and then tells the  *)
(* controller, the cloud node and the staircase light.  Two settings are    *)
(* asked for, the status the light should have and then a duration; the     *)
(* duration itself nothing in the sketch reads.                             *)
(*                                                                          *)
(* The first status is obeyed only behind a wait, and then read from the    *)
(* buffer into which every message is received.                             *)
(*                                                                          *)
(* The two nodes differ in two messages to the staircase light, which only  *)
(* the balcony sends: LightControl has them.  Waits with nothing but        *)
(* messages between them are one wait, and those behind which nothing is    *)
(* done are left out: what is handled in them can be handled behind them.   *)
(* No handler of an alarm waits, so a service pass has no frame: due alarms *)
(* run one by one in Alarm.delay().                                         *)
(***************************************************************************)
EXTENDS Requests

VARIABLES
    setupDone,          \* setup() has run
    lit,                \* the relay
    heard,              \* what message.getInt() tests for in the buffer, while the first
                        \* status waits to be read from it
    ordered,            \* not in the program: the last status received
    blurred             \* not in the program: behind it another message came into the
                        \* buffer before it was read

sketch == <<setupDone, lit, heard, ordered, blurred>>
vars == <<alarms, stack, requests, sketch>>

Settings == {"status", "duration"}

Check == [status |-> "checkLightRelayStatusRequest", duration |-> "checkLightOnDurationRequest"]

Handlers == {"sendHeartbeat"} \cup {Check[setting] : setting \in Settings}

\* In turnOnLights() and turnOffLights(), before the staircase light is told.
Told(on) == IF on THEN "on told" ELSE "off told"

\* status: the first status has been received but not read.  default: in the wait behind a
\* first duration that is out of range.
Points == CorePoints \cup {"status", "default"} \cup {Told(on) : on \in BOOLEAN}

TypeOK ==
    /\ alarms \in [Slots -> AlarmsOf(Handlers, 1)]
    /\ stack \in Seq(Frames(Points))
    /\ {setupDone, lit, heard, ordered, blurred} \subseteq BOOLEAN
    /\ RequestsTypeOK(Settings)

Init ==
    /\ alarms = [s \in Slots |-> NotAllocated]
    /\ stack = <<Frame("register")>>
    /\ setupDone = FALSE
    /\ lit = FALSE
    /\ heard = FALSE
    /\ ordered = FALSE
    /\ blurred = FALSE
    /\ RequestsInit

-----------------------------------------------------------------------------
(* loop() *)

loop ==
    /\ Idle
    /\ \/ \E setting \in sendRequest :
             /\ setting = "duration" => "status" \notin sendRequest
             /\ Ask(Check, setting)
             /\ UNCHANGED stack
       \/ /\ sendRequest = {}
          /\ stack' = Call("delay")
          /\ UNCHANGED <<alarms, requests>>
    /\ UNCHANGED sketch

-----------------------------------------------------------------------------
(* receive() *)

\* A message that is no status overwrites the one that waits to be read.
Overhear(value) ==
    /\ IF InProgress({"status"})
       THEN heard' = value /\ blurred' = TRUE
       ELSE UNCHANGED <<heard, blurred>>
    /\ UNCHANGED <<setupDone, lit, ordered>>

Obey(on) ==
    /\ lit' = on
    /\ heard' = (on /\ InProgress({"status"}))
    /\ ordered' = on
    /\ blurred' = FALSE
    /\ UNCHANGED setupDone

\* From the cloud node; from others too, behind the first status.
ReceiveStatus(on) ==
    /\ CanReceive
    /\ Obey(on)
    /\ stack' = Call(Told(on))
    /\ UNCHANGED <<alarms, requests>>

ReceiveFirstStatus(on) ==
    /\ CanReceive
    /\ "status" \notin received
    /\ FirstAnswer(Check, "status", sendRequest)
    /\ heard' = on
    /\ ordered' = on
    /\ blurred' = FALSE
    /\ stack' = Call("status")
    /\ UNCHANGED <<setupDone, lit>>

StatusWaitEnds ==
    /\ At("status")
    /\ sendRequest' = sendRequest \cup {"duration"}
    /\ lit' = heard
    /\ heard' = FALSE
    /\ stack' = Goto(Told(heard))
    /\ UNCHANGED <<alarms, received, requestTimer, cancelled, setupDone, ordered, blurred>>

ToldWaitEndsSwitching(on) ==
    /\ At(Told(on))
    /\ stack' = Return
    /\ lit' = on
    /\ UNCHANGED <<alarms, requests, setupDone, heard, ordered, blurred>>

\* turnOnLights() and turnOffLights() tell the staircase light and end.
ToldWaitEnds(on) ==
    /\ At(Told(on))
    /\ stack' = Return
    /\ UNCHANGED <<alarms, requests, sketch>>

\* In range is 1 to 600; out of range may be 0.
ReceiveDuration(inRange, value) ==
    /\ CanReceive
    /\ inRange => value
    /\ \/ /\ "duration" \in received
          /\ UNCHANGED <<alarms, stack, requests>>
       \/ /\ "duration" \notin received
          /\ inRange
          /\ FirstAnswer(Check, "duration", sendRequest)
          /\ UNCHANGED stack
       \/ /\ "duration" \notin received
          /\ ~inRange
          /\ stack' = Call("default")
          /\ UNCHANGED <<alarms, requests>>
    /\ Overhear(value)

DefaultWaitEnds ==
    /\ At("default")
    /\ FirstAnswer(Check, "duration", sendRequest)
    /\ stack' = Return
    /\ UNCHANGED sketch

\* The staircase light asks for the status; its message is empty.
ReceiveStaircase ==
    /\ CanReceive
    /\ Overhear(FALSE)
    /\ UNCHANGED <<alarms, stack, requests>>

-----------------------------------------------------------------------------
(* Alarms, presentation, setup *)

RunAlarm(s) ==
    /\ Top.at \in {"delay", "present"}
    /\ MayTrigger(alarms, s)
    /\ alarms' = Trigger(alarms, s)
    /\ \E setting \in Settings :
          /\ alarms[s].handler = Check[setting]
          /\ checkRequestStatus(setting)
    /\ UNCHANGED <<stack, sketch>>

\* Due alarms have run.
DelayEnds(point) ==
    /\ At(point)
    /\ \A s \in Slots : ~MustTrigger(alarms, s)
    /\ stack' = Return
    /\ UNCHANGED <<alarms, requests, sketch>>

ReceivePresentationRequest ==
    /\ CanReceive
    /\ stack' = Call("present")
    /\ Overhear(FALSE)
    /\ UNCHANGED <<alarms, requests>>

setup ==
    /\ At("register")
    /\ stack' = Return
    /\ setupDone' = TRUE
    /\ lit' = FALSE
    /\ alarms' = timerRepeat(alarms, "sendHeartbeat")
    /\ RequestsSetUp({"status"})
    /\ ordered' = FALSE
    /\ blurred' = FALSE
    /\ UNCHANGED heard

\* The power fails and comes back.
Restart ==
    /\ alarms' = [s \in Slots |-> NotAllocated]
    /\ stack' = <<Frame("register")>>
    /\ setupDone' = FALSE
    /\ lit' = FALSE
    /\ heard' = FALSE
    /\ ordered' = FALSE
    /\ blurred' = FALSE
    /\ sendRequest' = {} /\ received' = {} /\ requestTimer' = 0 /\ cancelled' = {}

SecondPasses == Second /\ UNCHANGED <<requests, sketch>>

Next ==
    \/ loop
    \/ \E on \in BOOLEAN : ReceiveStatus(on) \/ ReceiveFirstStatus(on) \/ ToldWaitEnds(on)
    \/ \E inRange, value \in BOOLEAN : ReceiveDuration(inRange, value)
    \/ ReceiveStaircase \/ ReceivePresentationRequest
    \/ StatusWaitEnds \/ DefaultWaitEnds \/ setup
    \/ \E point \in {"delay", "present"} : DelayEnds(point)
    \/ \E s \in Slots : RunAlarm(s)
    \/ SecondPasses
    \/ Restart

Spec == Init /\ [][Next]_vars

-----------------------------------------------------------------------------
(* Properties *)

\* A setting that has not been received is asked for again, once its turn has come: its
\* flag is up or its alarm is pending, unless the answer to the other one freed that alarm.
AsksOn ==
    setupDone /\ ~InProgress({"status"}) =>
        AskedOn(Check, IF "status" \in received THEN Settings ELSE {"status"})

\* The relay is what the last status said, however the handlers that switch it and tell
\* about it were nested; but for a first status that another message overwrote.
RelayObeysLast == setupDone /\ ~InProgress({"status"}) => lit = ordered \/ blurred

\* What the two rest on.  The first status that has been received is read once.
StatusInv ==
    /\ InProgress({"status"}) => "status" \in received
    /\ \A i, j \in DOMAIN stack : stack[i].at = "status" /\ stack[j].at = "status" => i = j
    /\ \A i \in DOMAIN stack : stack[i].at = "register" => i = 1

\* While it waits to be read it is the buffer that says what the last status was.
RelayInv == (IF InProgress({"status"}) THEN heard ELSE lit) = ordered \/ blurred
=============================================================================
