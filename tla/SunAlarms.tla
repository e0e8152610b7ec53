------------------------------- MODULE SunAlarms -------------------------------
(***************************************************************************)
(* The cloud node's clock.  It asks the controller for the time of day, of  *)
(* sunrise and of sunset, and has daily alarms a quarter of an hour past    *)
(* sunrise and sunset and one late at night, which switch the outdoor       *)
(* lights.  Sunset is asked for when sunrise is known.  Each request has an *)
(* alarm that makes the node ask again; both ids are kept in requestTimer.  *)
(*                                                                          *)
(* A time of the sun is a number: 0 where the program has 0, 1 for a time   *)
(* the controller sent, and one more for each quarter of an hour added.     *)
(* The alarms of the queue of uploads are left out: they keep their slots   *)
(* for good.  Waits with nothing but messages between them are one wait,    *)
(* and those behind which nothing is done are left out, but in a service    *)
(* pass: what is handled in them can be handled behind them.  So the first  *)
(* presentation is part of the wait for the registration; and later ones,   *)
(* which only send and wait, do not show.                                   *)
(***************************************************************************)
EXTENDS Requests

CONSTANT Answers        \* for each sun the times the controller may answer

Suns == {"sunrise", "sunset"}

DEFAULT_SUNRISE_SUNSET_TIME == 0
SunTime == 1
QUATER_HOUR_OFFSET == 1

ASSUME AnswersAssumption ==
    Answers \in [Suns -> SUBSET {DEFAULT_SUNRISE_SUNSET_TIME, SunTime}]

\* The handlers of a sun's alarms, and its wait: behind the messages that confirm an
\* answer.
Check == [sunrise |-> "checkSunRiseRequestStatus", sunset |-> "checkSunSetRequestStatus"]
TriggerOf == [sunrise |-> "sunriseTriggerMessage", sunset |-> "sunsetTriggerMessage"]
Told == [sunrise |-> "sunrise told", sunset |-> "sunset told"]

VARIABLES
    setupDone,          \* setup() has run
    clockSet,           \* the time is later than January 1971
    firstTime,          \* the clock has not been set since setup()
    seconds,            \* sunriseSeconds and sunsetSeconds
    sunTimer,           \* sunriseTimer and sunsetTimer
    due,                \* the times at which the trigger alarms were created to go off
    overlapped          \* not in the program: the suns of which an answer came while
                        \* the one before was being handled

times == <<seconds, sunTimer, due, overlapped>>
sketch == <<setupDone, clockSet, firstTime, requests, times>>
vars == <<alarms, stack, sketch>>

Each(names) == {names[sun] : sun \in Suns}

Handlers == {"heartbeat", "nightTriggerMessage"} \cup Each(Check) \cup Each(TriggerOf)

\* clock: in the wait of receiveTime().
Points == CorePoints \cup {"clock"} \cup Each(Told)

\* Offsets can be added as often as answers are handled inside one another.
TimesOfSun == 0 .. SunTime + QUATER_HOUR_OFFSET * (MaxDepth + 1)

TypeOK ==
    /\ alarms \in [Slots -> AlarmsOf(Handlers, 1)]
    /\ stack \in Seq(Frames(Points))
    /\ {setupDone, clockSet, firstTime} \subseteq BOOLEAN
    /\ seconds \in [Suns -> TimesOfSun]
    /\ due \in [Suns -> TimesOfSun]
    /\ sunTimer \in [Suns -> Slots \cup {dtINVALID_ALARM_ID}]
    /\ overlapped \subseteq Suns
    /\ RequestsTypeOK(Suns)

\* The globals are zero, the alarm ids too.
Init ==
    /\ alarms = [s \in Slots |-> NotAllocated]
    /\ stack = <<Frame("register")>>
    /\ setupDone = FALSE
    /\ clockSet = FALSE
    /\ firstTime = FALSE
    /\ seconds = [sun \in Suns |-> 0]
    /\ sunTimer = [sun \in Suns |-> 0]
    /\ due = [sun \in Suns |-> 0]
    /\ overlapped = {}
    /\ RequestsInit

-----------------------------------------------------------------------------
(* loop() *)

loop ==
    /\ Idle
    /\ \/ \E sun \in sendRequest :
             /\ sun = "sunset" => "sunrise" \notin sendRequest
             /\ Ask(Check, sun)
             /\ UNCHANGED stack
       \/ /\ sendRequest = {}
          /\ stack' = Call("delay")
          /\ UNCHANGED <<alarms, requests>>
    /\ UNCHANGED <<setupDone, clockSet, firstTime, times>>

DelayEnds ==
    /\ At("delay")
    /\ stack' = Return
    /\ UNCHANGED <<alarms, sketch>>

-----------------------------------------------------------------------------
(* receive(): V_VAR1 is the time of sunrise, V_VAR2 that of sunset.  They come as answers *)
(* and when somebody sets them.                                                           *)

HandlingOf(sun) == InProgress({Told[sun]})

StoredOnce(sun, time) ==
    IF sun \in received THEN seconds ELSE [seconds EXCEPT ![sun] = time]

StoredAdded(sun, time) == [seconds EXCEPT ![sun] = @ + time]

Stored(sun, time) == [seconds EXCEPT ![sun] = time]

ReceiveTime(sun, time) ==
    /\ CanReceive
    /\ seconds' = Stored(sun, time)
    /\ \/ /\ sun \notin received
          /\ FirstAnswer(Check, sun, sendRequest \cup ({"sunset"} \ {sun}))
       \/ /\ sun \in received
          /\ UNCHANGED <<alarms, requests>>
    /\ stack' = Call(Told[sun])
    /\ overlapped' = IF HandlingOf(sun) THEN overlapped \cup {sun}
                     ELSE IF time = 0 THEN overlapped ELSE overlapped \ {sun}
    /\ UNCHANGED <<setupDone, clockSet, firstTime, sunTimer, due>>

SetTriggerFirstOnly(sun) ==
    LET later == [seconds EXCEPT ![sun] = @ + QUATER_HOUR_OFFSET]
    IN  /\ seconds' = later
        /\ sunTimer' = [sunTimer EXCEPT ![sun] = dailyId(alarms, clockSet)]
        /\ alarms' = IF Pending(TriggerOf[sun]) THEN alarms
                     ELSE alarmRepeat(alarms, clockSet, TriggerOf[sun])
        /\ due' = IF Pending(TriggerOf[sun]) THEN due
                  ELSE [due EXCEPT ![sun] = later[sun]]

\* The offset is added to what the variable holds now.
SetTrigger(sun) ==
    LET later == [seconds EXCEPT ![sun] = @ + QUATER_HOUR_OFFSET]
        freed == free(alarms, sunTimer[sun])
    IN  /\ seconds' = later
        /\ sunTimer' = [sunTimer EXCEPT ![sun] = dailyId(freed, clockSet)]
        /\ alarms' = alarmRepeat(freed, clockSet, TriggerOf[sun])
        /\ due' = [due EXCEPT ![sun] = later[sun]]

ToldWaitEnds(sun) ==
    /\ At(Told[sun])
    /\ stack' = Return
    /\ \/ /\ seconds[sun] # 0
          /\ SetTrigger(sun)
          /\ cancelled' = cancelled \cup RequestAt(Check, alarms, sunTimer[sun])
       \/ /\ seconds[sun] = 0
          /\ UNCHANGED <<alarms, seconds, sunTimer, due, cancelled>>
    /\ UNCHANGED <<setupDone, clockSet, firstTime, sendRequest, received, requestTimer,
                   overlapped>>

-----------------------------------------------------------------------------
(* receiveTime() *)

\* The clock starts in 1970: when it is set, every one-shot is due.
ReceiveClock ==
    /\ CanReceive
    /\ clockSet' = TRUE
    /\ alarms' = IF clockSet THEN alarms ELSE [s \in Slots |-> [alarms[s] EXCEPT !.left = 0]]
    /\ stack' = Call("clock")
    /\ UNCHANGED <<setupDone, firstTime, requests, times>>

ClockWaitEndsAlways ==
    /\ At("clock")
    /\ stack' = Return
    /\ firstTime' = FALSE
    /\ alarms' = alarmRepeat(alarms, clockSet, "nightTriggerMessage")
    /\ UNCHANGED <<setupDone, clockSet, requests, times>>

ClockWaitEnds ==
    /\ At("clock")
    /\ stack' = Return
    /\ firstTime' = FALSE
    /\ alarms' = IF firstTime THEN alarmRepeat(alarms, clockSet, "nightTriggerMessage")
                 ELSE alarms
    /\ UNCHANGED <<setupDone, clockSet, requests, times>>

-----------------------------------------------------------------------------
(* Alarm handlers *)

RunHandler(s, handler) ==
    /\ PassReaches(s)
    /\ alarms[s].handler = handler
    /\ alarms' = Trigger(alarms, s)

checkTime(s, sun) ==
    /\ RunHandler(s, Check[sun])
    /\ checkRequestStatus(sun)
    /\ stack' = Advance(s)
    /\ UNCHANGED <<setupDone, clockSet, firstTime, times>>

\* The lights and the relay are told, and then the controller the time in seconds.
triggerMessage(s) ==
    /\ \E handler \in Each(TriggerOf) \cup {"nightTriggerMessage"} : RunHandler(s, handler)
    /\ stack' = AdvanceAndCall(s, "tail")
    /\ UNCHANGED sketch

heartbeat(s) ==
    /\ RunHandler(s, "heartbeat")
    /\ stack' = Advance(s)
    /\ UNCHANGED sketch

RunAlarm(s) ==
    \/ \E sun \in Suns : checkTime(s, sun)
    \/ triggerMessage(s)
    \/ heartbeat(s)

-----------------------------------------------------------------------------
(* Setup *)

\* The alarm ids keep what answers that came too early have left in them.
setup ==
    /\ At("register")
    /\ stack' = Return
    /\ setupDone' = TRUE
    /\ alarms' = timerRepeat(alarms, "heartbeat")
    /\ RequestsSetUp({"sunrise"})
    /\ seconds' = [sun \in Suns |-> DEFAULT_SUNRISE_SUNSET_TIME]
    /\ firstTime' = TRUE
    /\ UNCHANGED <<clockSet, sunTimer, due, overlapped>>

SecondPasses == Second /\ UNCHANGED sketch
PassBegins   == ServiceAlarms({"delay"}) /\ UNCHANGED sketch
PassEnds     == EndPass /\ UNCHANGED sketch
TailWaitEnds == TailReturns /\ UNCHANGED sketch

WaitEnds ==
    \/ \E sun \in Suns : ToldWaitEnds(sun)
    \/ ClockWaitEnds \/ TailWaitEnds \/ DelayEnds \/ setup

Next ==
    \/ loop
    \/ \E sun \in Suns : \E time \in Answers[sun] : ReceiveTime(sun, time)
    \/ ReceiveClock
    \/ WaitEnds
    \/ PassBegins \/ PassEnds
    \/ \E s \in Slots : RunAlarm(s)
    \/ SecondPasses

Spec == Init /\ [][Next]_vars

-----------------------------------------------------------------------------
(* Properties *)

\* A time that has not been received is asked for again, once its turn has come: its flag
\* is up or its alarm is pending, unless that alarm was freed by an id that was not its own:
\* the other answer's use of requestTimer, or a trigger id that is still 0.
AsksOn ==
    setupDone => AskedOn(Check, IF "sunrise" \in received THEN Suns ELSE {"sunrise"})

\* A trigger alarm goes off one quarter of an hour past the time that was received, unless
\* two answers were handled inside one another, when the offset can be added twice.
QuarterPast ==
    \A sun \in Suns :
        Pending(TriggerOf[sun]) /\ ~HandlingOf(sun) =>
            due[sun] = SunTime + QUATER_HOUR_OFFSET \/ sun \in overlapped

\* When a trigger tells the controller its time again it takes the offset from the very
\* time the alarm was set for, however answers were nested; but for an answer 0, which
\* leaves the alarm and lets the difference wrap around.
TriggerTellsItsTime ==
    \A sun \in Suns :
        setupDone /\ Pending(TriggerOf[sun]) /\ ~HandlingOf(sun) => seconds[sun] \in {0, due[sun]}

\* The pool is never full, so that every request has its alarm and every trigger too.
AlarmsSuffice == ~Full(alarms)

\* A sun whose trigger time was sent, and whose alarm was created, has its alarm, at least
\* when a request has been made, so that no answer frees by the 0 requestTimer began with.
TriggerTimeStands ==
    setupDone /\ requestTimer # 0 =>
        \A sun \in received :
            due[sun] # 0 /\ sunTimer[sun] \in Slots /\ ~HandlingOf(sun) => Pending(TriggerOf[sun])

-----------------------------------------------------------------------------
(* What they rest on *)

BootInv == BootOrder(stack, setupDone)

\* The offset, which is 1, is added once for each answer that is being handled, and those
\* are no more than the calls there is room for.
SecondsInv ==
    \A sun \in Suns :
        /\ seconds[sun] <= SunTime + MaxDepth
        /\ \A i \in DOMAIN stack :
              stack[i].at = Told[sun] => seconds[sun] + i <= SunTime + MaxDepth

\* Where no two answers overlap there is one time, as the controller sent it, to add the
\* offset to.
QuarterInv ==
    \A sun \in Suns \ overlapped :
        /\ \A i, j \in DOMAIN stack :
              stack[i].at = Told[sun] /\ stack[j].at = Told[sun] => i = j
        /\ HandlingOf(sun) => seconds[sun] \in {0, SunTime}
        /\ Pending(TriggerOf[sun]) /\ ~ (HandlingOf(sun) /\ seconds[sun] = SunTime) =>
              due[sun] = SunTime + QUATER_HOUR_OFFSET

\* No handler has two alarms: a trigger's is where sunTimer says, and freed before the next
\* one is created; a request is made when the one before has had its alarm, and for sunset
\* not before sunrise is known; the heartbeat and the night trigger are created once.
PoolInv ==
    /\ \A s \in Slots : \A sun \in Suns :
          /\ alarms[s].handler = Check[sun] => alarms[s].isOneShot
          /\ alarms[s].handler = TriggerOf[sun] => s = sunTimer[sun]
    /\ \A s, t \in Slots :
          /\ alarms[s].handler = alarms[t].handler
          /\ alarms[s].handler \in {"heartbeat", "nightTriggerMessage"} \cup Each(Check)
          => s = t
    /\ \A sun \in sendRequest : ~Pending(Check[sun])
    /\ "sunrise" \notin received =>
          ~Pending(Check["sunset"]) /\ (setupDone => "sunset" \notin sendRequest)
    /\ ~setupDone =>
          ~ (firstTime \/ Pending("heartbeat") \/ \E sun \in Suns : Pending(Check[sun]))
    /\ ~setupDone \/ firstTime => ~Pending("nightTriggerMessage")
=============================================================================
