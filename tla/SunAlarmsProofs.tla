---------------------------- MODULE SunAlarmsProofs ----------------------------
(***************************************************************************)
(* Invariants of the cloud node's clock, for every pool of alarms, every    *)
(* nesting depth and whatever times the controller answers; and that seven  *)
(* alarms are enough.                                                       *)
(***************************************************************************)
EXTENDS SunAlarms, FiniteSetTheorems, RuntimeProofs

PoolType == [Slots -> AlarmsOf(Handlers, 1)]

LEMMA PointNames ==
    /\ "loop" \notin Points
    /\ {"register", "present", "delay", "pass", "clock", "tail"} \subseteq Points
    /\ {"delay", "pass", "clock", "tail"} \subseteq Points \ StartPoints
    /\ \A sun \in Suns : Told[sun] \in Points \ StartPoints
    /\ \A sun \in Suns : Told[sun] \notin {"register", "delay", "pass", "clock", "tail"}
    /\ \A sun, other \in Suns : Told[sun] = Told[other] => sun = other
<1>1. Told["sunrise"] = "sunrise told" /\ Told["sunset"] = "sunset told"
  BY DEF Told
<1>2. Each(Told) = {"sunrise told", "sunset told"}
  BY <1>1 DEF Each, Suns
<1> QED
  BY <1>1, <1>2 DEF Points, CorePoints, StartPoints, Suns

LEMMA HandlerNames ==
    /\ {"heartbeat", "nightTriggerMessage"} \subseteq Handlers
    /\ \A sun \in Suns : Check[sun] \in Handlers /\ TriggerOf[sun] \in Handlers
    /\ \A sun, other \in Suns : /\ Check[sun] = Check[other] => sun = other
                                /\ TriggerOf[sun] = TriggerOf[other] => sun = other
                                /\ Check[sun] # TriggerOf[other]
    /\ \A sun \in Suns : /\ Check[sun] \notin {NoHandler, "heartbeat", "nightTriggerMessage"}
                         /\ TriggerOf[sun] \notin {NoHandler, "heartbeat", "nightTriggerMessage"}
    /\ "heartbeat" # NoHandler /\ "nightTriggerMessage" # NoHandler
    /\ "heartbeat" # "nightTriggerMessage"
    /\ NoHandler \notin Handlers
    /\ DOMAIN Check = Suns
BY DEF Handlers, Check, TriggerOf, Suns, Each, NoHandler

LEMMA Numbers ==
    /\ 1 \in Nat /\ 0 \in 0 .. 1 /\ 1 \in 0 .. 1
    /\ MaxDepth \in Nat
    /\ \A sun \in Suns : Answers[sun] \subseteq {0, 1}
BY DepthAssumption, AnswersAssumption DEF DEFAULT_SUNRISE_SUNSET_TIME, SunTime

-----------------------------------------------------------------------------
(* Steps *)

\* The steps that change the pool or a variable of the sketch.
LEMMA SketchSteps ==
    ASSUME TypeOK, [Next]_vars
    PROVE  \/ UNCHANGED <<alarms, sketch>>
           \/ \E sun \in Suns :
                 /\ Idle /\ sun \in sendRequest /\ Ask(Check, sun)
                 /\ UNCHANGED <<stack, setupDone, clockSet, firstTime, times>>
           \/ \E sun \in Suns : ToldWaitEnds(sun) \/ \E time \in Answers[sun] : ReceiveTime(sun, time)
           \/ ReceiveClock \/ ClockWaitEnds \/ setup
           \/ \E s \in Slots : RunAlarm(s)
           \/ SecondPasses
<1>1. CASE loop
  <2>1. sendRequest \subseteq Suns
    BY DEF TypeOK, RequestsTypeOK
  <2>2. \/ UNCHANGED <<alarms, sketch>>
        \/ \E sun \in sendRequest :
              /\ Idle /\ Ask(Check, sun)
              /\ UNCHANGED <<stack, setupDone, clockSet, firstTime, times>>
    BY <1>1 DEF loop, sketch
  <2> QED
    BY <2>1, <2>2
<1>2. CASE DelayEnds \/ TailWaitEnds
  BY <1>2 DEF DelayEnds, TailWaitEnds, TailReturns
<1>3. CASE PassBegins \/ PassEnds \/ UNCHANGED vars
  BY <1>3 DEF PassBegins, ServiceAlarms, PassEnds, EndPass, vars
<1> QED
  BY <1>1, <1>2, <1>3 DEF Next, WaitEnds

\* The steps of the stack, but for setup() and for the handlers whose calls are not looked at.
LEMMA StackSteps ==
    ASSUME [Next]_vars, NEW from, NEW to,
           {"delay", "pass", "clock", "tail"} \subseteq from \cap to
    PROVE  \/ StackStep(from, to) /\ UNCHANGED setupDone
           \/ \E sun \in Suns :
                 /\ Told[sun] \notin from \cap to
                 /\ ToldWaitEnds(sun) \/ \E time \in Answers[sun] : ReceiveTime(sun, time)
           \/ setup
<1> DEFINE Step == StackStep(from, to) /\ UNCHANGED setupDone
<1>1. CASE loop
  BY <1>1 DEF loop, StackStep
<1>2. ASSUME NEW sun \in Suns, NEW time \in Answers[sun], ReceiveTime(sun, time),
             Told[sun] \in from \cap to
      PROVE  Step
  BY <1>2 DEF ReceiveTime, StackStep
<1>3. ASSUME NEW sun \in Suns, ToldWaitEnds(sun), Told[sun] \in from \cap to
      PROVE  Step
  BY <1>3 DEF ToldWaitEnds, StackStep
<1>4. CASE ReceiveClock \/ ClockWaitEnds \/ DelayEnds
  BY <1>4 DEF ReceiveClock, ClockWaitEnds, DelayEnds, StackStep, sketch
<1>5. CASE TailWaitEnds \/ PassBegins \/ PassEnds
  BY <1>5 DEF TailWaitEnds, TailReturns, PassBegins, ServiceAlarms, PassEnds, EndPass,
              StackStep, sketch
<1>6. ASSUME NEW s \in Slots, RunAlarm(s) PROVE Step
  <2>1. CASE \E sun \in Suns : checkTime(s, sun)
    BY <2>1 DEF checkTime, RunHandler, PassReaches, StackStep
  <2>2. CASE triggerMessage(s) \/ heartbeat(s)
    BY <2>2 DEF triggerMessage, heartbeat, RunHandler, PassReaches, StackStep, sketch
  <2> QED
    BY <1>6, <2>1, <2>2 DEF RunAlarm
<1>7. CASE SecondPasses \/ UNCHANGED vars
  BY <1>7 DEF SecondPasses, Second, StackStep, sketch, vars
<1> QED
  BY <1>1, <1>2, <1>3, <1>4, <1>5, <1>6, <1>7 DEF Next, WaitEnds

-----------------------------------------------------------------------------
(* The pool *)

\* The handlers of the one pool are some of those of the other, and those of an alarm with
\* handler h at id.
Grown(new, pool, h, once, id) ==
    \A t \in Slots :
        \/ new[t].handler = NoHandler
        \/ new[t].handler = pool[t].handler /\ new[t].isOneShot = pool[t].isOneShot
        \/ t = id /\ new[t].handler = h /\ new[t].isOneShot = once

Shrunk(new, pool) ==
    \A t \in Slots :
        \/ new[t].handler = NoHandler
        \/ new[t].handler = pool[t].handler /\ new[t].isOneShot = pool[t].isOneShot

\* Nothing that has an alarm loses it.
Kept(new, pool) ==
    \A t \in Slots : pool[t].handler = NoHandler \/ new[t].handler = pool[t].handler

LEMMA AskGrows ==
    ASSUME NEW pool \in PoolType, NEW h \in Handlers
    PROVE  /\ timerOnce(pool, 1, h) \in PoolType
           /\ createdId(pool) \in Slots \cup {dtINVALID_ALARM_ID}
           /\ Grown(timerOnce(pool, 1, h), pool, h, TRUE, createdId(pool))
           /\ Kept(timerOnce(pool, 1, h), pool)
<1> DEFINE new == timerOnce(pool, 1, h)
<1>1. new \in PoolType /\ HasCreated(new, pool, h, TRUE)
  BY Numbers, TimerOnceFillsOneSlot DEF PoolType
<1> HIDE DEF new
<1>2. /\ createdId(pool) \in Slots \cup {dtINVALID_ALARM_ID}
      /\ \A s \in Slots :
            \/ new[s] = pool[s]
            \/ /\ s = createdId(pool) /\ pool[s].handler = NoHandler
               /\ new[s].handler = h /\ new[s].isOneShot = TRUE
  BY <1>1, Zenon DEF HasCreated
<1>3. Grown(new, pool, h, TRUE, createdId(pool)) /\ Kept(new, pool)
  BY <1>2 DEF Grown, Kept
<1> QED
  BY <1>1, <1>2, <1>3 DEF new

LEMMA RepeatGrows ==
    ASSUME NEW pool \in PoolType, NEW h \in Handlers
    PROVE  /\ timerRepeat(pool, h) \in PoolType
           /\ createdId(pool) \in Slots \cup {dtINVALID_ALARM_ID}
           /\ Grown(timerRepeat(pool, h), pool, h, FALSE, createdId(pool))
           /\ Kept(timerRepeat(pool, h), pool)
<1> DEFINE new == timerRepeat(pool, h)
<1>1. new \in PoolType /\ HasCreated(new, pool, h, FALSE)
  BY Numbers, TimerRepeatFillsOneSlot DEF PoolType
<1> HIDE DEF new
<1>2. /\ createdId(pool) \in Slots \cup {dtINVALID_ALARM_ID}
      /\ \A s \in Slots :
            \/ new[s] = pool[s]
            \/ /\ s = createdId(pool) /\ pool[s].handler = NoHandler
               /\ new[s].handler = h /\ new[s].isOneShot = FALSE
  BY <1>1, Zenon DEF HasCreated
<1>3. Grown(new, pool, h, FALSE, createdId(pool)) /\ Kept(new, pool)
  BY <1>2 DEF Grown, Kept
<1> QED
  BY <1>1, <1>2, <1>3 DEF new

\* A daily alarm is created as a repeating one is, if the clock is set.
LEMMA DailyGrows ==
    ASSUME NEW pool \in PoolType, NEW h \in Handlers
    PROVE  /\ alarmRepeat(pool, clockSet, h) \in PoolType
           /\ dailyId(pool, clockSet) \in Slots \cup {dtINVALID_ALARM_ID}
           /\ Grown(alarmRepeat(pool, clockSet, h), pool, h, FALSE, dailyId(pool, clockSet))
           /\ Kept(alarmRepeat(pool, clockSet, h), pool)
<1>1. CASE clockSet
  <2>1. alarmRepeat(pool, clockSet, h) = timerRepeat(pool, h)
    BY <1>1 DEF alarmRepeat, timerRepeat
  <2>2. dailyId(pool, clockSet) = createdId(pool)
    BY <1>1 DEF dailyId
  <2> QED
    BY <2>1, <2>2, RepeatGrows
<1>2. CASE ~clockSet
  <2>1. alarmRepeat(pool, clockSet, h) = pool /\ dailyId(pool, clockSet) = dtINVALID_ALARM_ID
    BY <1>2 DEF alarmRepeat, dailyId
  <2> QED
    BY <2>1 DEF Grown, Kept
<1> QED
  BY <1>1, <1>2

\* A trigger's alarm is freed and created again.
LEMMA TriggerIsReplaced ==
    ASSUME TypeOK, NEW id, NEW h \in Handlers
    PROVE  LET freed == free(alarms, id)
               new == alarmRepeat(freed, clockSet, h)
           IN  /\ freed \in PoolType /\ new \in PoolType
               /\ dailyId(freed, clockSet) \in Slots \cup {dtINVALID_ALARM_ID}
               /\ Shrunk(freed, alarms)
               /\ \A t \in Slots : t # id => freed[t] = alarms[t]
               /\ id \in Slots => freed[id].handler = NoHandler
               /\ Grown(new, freed, h, FALSE, dailyId(freed, clockSet))
               /\ Kept(new, freed)
<1> DEFINE freed == free(alarms, id)
<1>1. /\ freed \in PoolType
      /\ \A t \in Slots : t # id => freed[t] = alarms[t]
      /\ id \in Slots => freed[id].handler = NoHandler
  <2>1. NotAllocated \in AlarmsOf(Handlers, 1) /\ NotAllocated.handler = NoHandler
    BY DEF NotAllocated, AlarmsOf
  <2> QED
    BY <2>1 DEF TypeOK, PoolType, free, isAllocated
<1>2. Shrunk(freed, alarms)
  BY <1>1 DEF Shrunk
<1> HIDE DEF freed
<1>3. /\ alarmRepeat(freed, clockSet, h) \in PoolType
      /\ dailyId(freed, clockSet) \in Slots \cup {dtINVALID_ALARM_ID}
      /\ Grown(alarmRepeat(freed, clockSet, h), freed, h, FALSE, dailyId(freed, clockSet))
      /\ Kept(alarmRepeat(freed, clockSet, h), freed)
  BY <1>1, DailyGrows
<1> QED
  BY <1>1, <1>2, <1>3 DEF freed

\* An answer frees an alarm, a slot that triggers may, and time and the clock change no
\* handler.
LEMMA OthersShrink ==
    ASSUME TypeOK
    PROVE  /\ \A id : free(alarms, id) \in PoolType /\ Shrunk(free(alarms, id), alarms)
           /\ \A s \in Slots : /\ Trigger(alarms, s) \in PoolType
                               /\ Shrunk(Trigger(alarms, s), alarms)
           /\ Elapse(alarms) \in PoolType /\ Shrunk(Elapse(alarms), alarms)
           /\ Kept(Elapse(alarms), alarms)
           /\ LET due0 == [s \in Slots |-> [alarms[s] EXCEPT !.left = 0]]
              IN  due0 \in PoolType /\ Shrunk(due0, alarms) /\ Kept(due0, alarms)
<1>0. alarms \in [Slots -> AlarmsOf(Handlers, 1)]
  BY DEF TypeOK
<1>1. ASSUME NEW id PROVE free(alarms, id) \in PoolType /\ Shrunk(free(alarms, id), alarms)
  <2>1. NotAllocated \in AlarmsOf(Handlers, 1) /\ NotAllocated.handler = NoHandler
    BY DEF NotAllocated, AlarmsOf
  <2> QED
    BY <1>0, <2>1 DEF PoolType, free, isAllocated, Shrunk
<1>2. ASSUME NEW s \in Slots
      PROVE  Trigger(alarms, s) \in PoolType /\ Shrunk(Trigger(alarms, s), alarms)
  BY <1>0, <1>1 DEF Trigger, PoolType, Shrunk
<1>3. Elapse(alarms) \in PoolType /\ Shrunk(Elapse(alarms), alarms) /\ Kept(Elapse(alarms), alarms)
  BY <1>0, Numbers, ElapseKeepsHandlers DEF PoolType, Shrunk, Kept
<1>4. LET due0 == [s \in Slots |-> [alarms[s] EXCEPT !.left = 0]]
      IN  due0 \in PoolType /\ Shrunk(due0, alarms) /\ Kept(due0, alarms)
  BY <1>0 DEF PoolType, AlarmsOf, Shrunk, Kept
<1> QED
  BY <1>1, <1>2, <1>3, <1>4

-----------------------------------------------------------------------------
(* Types *)

LEMMA PoolStays ==
    ASSUME TypeOK, [Next]_vars
    PROVE  alarms' \in PoolType /\ RequestsTypeOK(Suns)' /\ overlapped' \subseteq Suns
<1> DEFINE Types == alarms' \in PoolType /\ RequestsTypeOK(Suns)' /\ overlapped' \subseteq Suns
<1>0. alarms \in PoolType /\ RequestsTypeOK(Suns) /\ overlapped \subseteq Suns
  BY DEF TypeOK, PoolType
<1>1. CASE UNCHANGED <<alarms, sketch>>
  BY <1>0, <1>1 DEF sketch, requests, times, RequestsTypeOK
<1>2. ASSUME NEW sun \in Suns, Ask(Check, sun), UNCHANGED times PROVE Types
  <2>1. alarms' \in PoolType /\ createdId(alarms) \in Slots \cup {dtINVALID_ALARM_ID}
    BY <1>0, <1>2, AskGrows, HandlerNames DEF Ask
  <2>2. requestTimer' = createdId(alarms)
    BY <1>2 DEF Ask
  <2>3. sendRequest' \subseteq Suns /\ received' \subseteq Suns /\ cancelled' \subseteq Suns
    BY <1>0, <1>2 DEF Ask, RequestsTypeOK
  <2> QED
    BY <1>0, <1>2, <2>1, <2>2, <2>3 DEF RequestsTypeOK, times
<1>3. ASSUME NEW sun \in Suns, NEW time \in Answers[sun], ReceiveTime(sun, time) PROVE Types
  <2>1. overlapped' \subseteq Suns
    BY <1>0, <1>3 DEF ReceiveTime
  <2>2. CASE UNCHANGED <<alarms, requests>>
    BY <1>0, <2>1, <2>2 DEF requests, RequestsTypeOK
  <2>3. CASE FirstAnswer(Check, sun, sendRequest \cup ({"sunset"} \ {sun}))
    <3>1. alarms' \in PoolType
      BY <2>3, OthersShrink DEF FirstAnswer
    <3>2. RequestAt(Check, alarms, requestTimer) \subseteq Suns /\ "sunset" \in Suns
      BY HandlerNames DEF RequestAt, Suns
    <3>3. RequestsTypeOK(Suns)'
      BY <1>0, <2>3, <3>2 DEF FirstAnswer, RequestsTypeOK
    <3> QED
      BY <2>1, <3>1, <3>3
  <2> QED
    BY <1>3, <2>2, <2>3 DEF ReceiveTime
<1>4. ASSUME NEW sun \in Suns, ToldWaitEnds(sun) PROVE Types
  <2>1. alarms' \in PoolType
    <3>1. \/ alarms' = alarms
          \/ alarms' = alarmRepeat(free(alarms, sunTimer[sun]), clockSet, TriggerOf[sun])
      BY <1>4 DEF ToldWaitEnds, SetTrigger
    <3>2. alarmRepeat(free(alarms, sunTimer[sun]), clockSet, TriggerOf[sun]) \in PoolType
      BY TriggerIsReplaced, HandlerNames
    <3> QED
      BY <1>0, <3>1, <3>2
  <2>2. cancelled' \subseteq Suns
    BY <1>0, <1>4, HandlerNames DEF ToldWaitEnds, RequestAt, RequestsTypeOK
  <2>3. UNCHANGED <<sendRequest, received, requestTimer, overlapped>>
    BY <1>4 DEF ToldWaitEnds
  <2> QED
    BY <1>0, <2>1, <2>2, <2>3 DEF RequestsTypeOK
<1>5. CASE ReceiveClock
  <2>1. alarms' \in PoolType
    BY <1>0, <1>5, OthersShrink DEF ReceiveClock
  <2> QED
    BY <1>0, <1>5, <2>1 DEF ReceiveClock, requests, times, RequestsTypeOK
<1>6. CASE ClockWaitEnds
  <2>1. alarms' \in PoolType
    BY <1>0, <1>6, DailyGrows, HandlerNames DEF ClockWaitEnds
  <2> QED
    BY <1>0, <1>6, <2>1 DEF ClockWaitEnds, requests, times, RequestsTypeOK
<1>7. CASE setup
  <2>1. alarms' \in PoolType
    BY <1>0, <1>7, RepeatGrows, HandlerNames DEF setup
  <2> QED
    BY <1>0, <1>7, <2>1 DEF setup, RequestsSetUp, RequestsTypeOK, Suns
<1>8. ASSUME NEW s \in Slots, RunAlarm(s) PROVE Types
  <2>1. alarms' = Trigger(alarms, s)
    BY <1>8 DEF RunAlarm, checkTime, triggerMessage, heartbeat, RunHandler
  <2>2. alarms' \in PoolType
    BY <2>1, OthersShrink
  <2>3. overlapped' = overlapped
    BY <1>8 DEF RunAlarm, checkTime, triggerMessage, heartbeat, sketch, times
  <2>4. RequestsTypeOK(Suns)'
    BY <1>0, <1>8 DEF RunAlarm, checkTime, checkRequestStatus, triggerMessage, heartbeat, sketch,
                      requests, RequestsTypeOK
  <2> QED
    BY <1>0, <2>2, <2>3, <2>4
<1>9. CASE SecondPasses
  BY <1>0, <1>9, OthersShrink DEF SecondPasses, Second, sketch, requests, times, RequestsTypeOK
<1> QED
  BY <1>1, <1>2, <1>3, <1>4, <1>5, <1>6, <1>7, <1>8, <1>9, SketchSteps

LEMMA StackStays ==
    ASSUME TypeOK, [Next]_vars
    PROVE  stack' \in Seq(Frames(Points))
<1>0. stack \in Seq(Frames(Points))
  BY DEF TypeOK
<1>1. CASE StackStep(Points, Points)
  BY <1>0, <1>1, StackStepEffects, PointNames
<1>2. CASE setup
  BY <1>0, <1>2, TopIsPoint, ReturnRemovesTop, PointNames DEF setup
<1>3. \A sun \in Suns : Told[sun] \in Points
  BY PointNames
<1> QED
  BY <1>1, <1>2, <1>3, StackSteps, PointNames

LEMMA FlagTypes ==
    ASSUME TypeOK, [Next]_vars
    PROVE  {setupDone, clockSet, firstTime}' \subseteq BOOLEAN
<1>0. {setupDone, clockSet, firstTime} \subseteq BOOLEAN
  BY DEF TypeOK
<1>1. CASE UNCHANGED sketch \/ UNCHANGED <<setupDone, clockSet, firstTime>>
  BY <1>0, <1>1 DEF sketch
<1>2. ASSUME NEW sun \in Suns, ToldWaitEnds(sun) \/ \E time \in Answers[sun] : ReceiveTime(sun, time)
      PROVE  UNCHANGED <<setupDone, clockSet, firstTime>>
  BY <1>2 DEF ToldWaitEnds, ReceiveTime
<1>3. CASE ReceiveClock \/ ClockWaitEnds \/ setup
  BY <1>0, <1>3 DEF ReceiveClock, ClockWaitEnds, setup
<1>4. ASSUME NEW s \in Slots, RunAlarm(s)
      PROVE  UNCHANGED <<setupDone, clockSet, firstTime>>
  BY <1>4 DEF RunAlarm, checkTime, triggerMessage, heartbeat, sketch
<1>5. CASE SecondPasses
  BY <1>1, <1>5 DEF SecondPasses
<1> QED
  BY <1>1, <1>2, <1>3, <1>4, <1>5, SketchSteps

\* The values the times may have.
LEMMA Bounds ==
    /\ TimesOfSun = 0 .. MaxDepth + 2
    /\ QUATER_HOUR_OFFSET = 1 /\ SunTime = 1 /\ DEFAULT_SUNRISE_SUNSET_TIME = 0
    /\ \A n : n \in TimesOfSun <=> n \in Nat /\ n <= MaxDepth + 2
    /\ \A n \in Nat : n <= 1 + MaxDepth => n \in TimesOfSun /\ n + 1 \in TimesOfSun
    /\ {0, 1} \subseteq TimesOfSun
BY DepthAssumption DEF TimesOfSun, QUATER_HOUR_OFFSET, SunTime, DEFAULT_SUNRISE_SUNSET_TIME

\* What a handler of an answer does to the sun's variables behind its wait.
LEMMA ToldEffects ==
    ASSUME TypeOK, NEW sun \in Suns, ToldWaitEnds(sun)
    PROVE  \/ seconds[sun] = 0 /\ UNCHANGED <<alarms, seconds, sunTimer, due, cancelled>>
           \/ /\ seconds[sun] # 0
              /\ seconds' \in [Suns -> Nat] /\ seconds'[sun] = seconds[sun] + 1
              /\ due' = [due EXCEPT ![sun] = seconds[sun] + 1]
              /\ sunTimer' = [sunTimer EXCEPT ![sun] = dailyId(free(alarms, sunTimer[sun]), clockSet)]
              /\ alarms' = alarmRepeat(free(alarms, sunTimer[sun]), clockSet, TriggerOf[sun])
              /\ cancelled' = cancelled \cup RequestAt(Check, alarms, sunTimer[sun])
              /\ \A other \in Suns \ {sun} : seconds'[other] = seconds[other]
<1>1. seconds \in [Suns -> Nat]
  BY Bounds DEF TypeOK
<1>2. CASE seconds[sun] # 0
  <2> DEFINE later == [seconds EXCEPT ![sun] = @ + QUATER_HOUR_OFFSET]
  <2>1. /\ later \in [Suns -> Nat] /\ later[sun] = seconds[sun] + 1
        /\ \A other \in Suns \ {sun} : later[other] = seconds[other]
    BY <1>1, Bounds
  <2>2. /\ seconds' = later /\ due' = [due EXCEPT ![sun] = later[sun]]
        /\ sunTimer' = [sunTimer EXCEPT ![sun] = dailyId(free(alarms, sunTimer[sun]), clockSet)]
        /\ alarms' = alarmRepeat(free(alarms, sunTimer[sun]), clockSet, TriggerOf[sun])
        /\ cancelled' = cancelled \cup RequestAt(Check, alarms, sunTimer[sun])
    BY <1>2 DEF ToldWaitEnds, SetTrigger
  <2> HIDE DEF later
  <2> QED
    BY <1>2, <2>1, <2>2
<1>3. CASE seconds[sun] = 0
  BY <1>3 DEF ToldWaitEnds
<1> QED
  BY <1>2, <1>3

\* The other steps that change the times set them to what has been received, or to nothing.
LEMMA TimeSteps ==
    ASSUME TypeOK, [Next]_vars
    PROVE  \/ UNCHANGED <<seconds, sunTimer, due>>
           \/ \E sun \in Suns : \E time \in Answers[sun] :
                 /\ ReceiveTime(sun, time)
                 /\ seconds' = [seconds EXCEPT ![sun] = time] /\ UNCHANGED <<sunTimer, due>>
           \/ \E sun \in Suns : ToldWaitEnds(sun)
           \/ setup /\ seconds' = [sun \in Suns |-> 0] /\ UNCHANGED <<sunTimer, due>>
<1>1. CASE UNCHANGED sketch \/ UNCHANGED times
  BY <1>1 DEF sketch, times
<1>2. ASSUME NEW sun \in Suns, NEW time \in Answers[sun], ReceiveTime(sun, time)
      PROVE  seconds' = [seconds EXCEPT ![sun] = time] /\ UNCHANGED <<sunTimer, due>>
  BY <1>2 DEF ReceiveTime, Stored
<1>3. CASE ReceiveClock \/ ClockWaitEnds
  BY <1>1, <1>3 DEF ReceiveClock, ClockWaitEnds
<1>4. CASE setup
  BY <1>4, Bounds DEF setup
<1>5. ASSUME NEW s \in Slots, RunAlarm(s) PROVE UNCHANGED times
  BY <1>5 DEF RunAlarm, checkTime, triggerMessage, heartbeat, sketch
<1>6. CASE SecondPasses
  BY <1>1, <1>6 DEF SecondPasses
<1> QED
  BY <1>1, <1>2, <1>3, <1>4, <1>5, <1>6, SketchSteps

\* A call of the handler that is on top returns; those below it stay.
LEMMA ToldReturns ==
    ASSUME TypeOK, NEW sun \in Suns, ToldWaitEnds(sun)
    PROVE  /\ Len(stack) \in Nat \ {0} /\ stack[Len(stack)].at = Told[sun]
           /\ DOMAIN stack = 1 .. Len(stack) /\ Len(stack) \in DOMAIN stack
           /\ DOMAIN stack' = 1 .. Len(stack) - 1
           /\ \A i \in DOMAIN stack' : i \in DOMAIN stack /\ i # Len(stack) /\ stack'[i] = stack[i]
<1>1. /\ stack \in Seq(Frames(Points)) /\ stack' = Return /\ stack # <<>>
      /\ Len(stack) \in 1 .. Len(stack) /\ stack[Len(stack)].at = Told[sun]
  BY TopIsPoint, PointNames DEF TypeOK, ToldWaitEnds
<1>2. /\ stack' \in Seq(Frames(Points)) /\ Len(stack') = Len(stack) - 1
      /\ \A i \in 1 .. Len(stack) - 1 : stack'[i] = stack[i]
  BY <1>1, ReturnRemovesTop
<1>3. /\ Len(stack) \in Nat \ {0} /\ DOMAIN stack = 1 .. Len(stack)
      /\ DOMAIN stack' = 1 .. Len(stack) - 1
  BY <1>1, <1>2, LenProperties, EmptySeq
<1> QED
  BY <1>1, <1>2, <1>3

\* An answer puts its handler on the stack, for which there was room.
LEMMA AnswerCalls ==
    ASSUME TypeOK, NEW sun \in Suns, NEW time, ReceiveTime(sun, time)
    PROVE  /\ Len(stack) \in Nat /\ Len(stack) + 1 <= MaxDepth
           /\ DOMAIN stack = 1 .. Len(stack) /\ DOMAIN stack' = 1 .. Len(stack) + 1
           /\ \A i \in DOMAIN stack : stack'[i] = stack[i]
           /\ stack'[Len(stack) + 1].at = Told[sun]
<1>1. stack \in Seq(Frames(Points)) /\ stack' = Call(Told[sun]) /\ Len(stack) < MaxDepth
  BY DEF TypeOK, ReceiveTime, CanReceive, CanNest
<1>2. /\ stack' \in Seq(Frames(Points)) /\ Len(stack') = Len(stack) + 1
      /\ \A i \in 1 .. Len(stack) : stack'[i] = stack[i]
      /\ stack'[Len(stack) + 1].at = Told[sun]
  BY <1>1, CallAddsFrame, PointNames
<1>3. /\ Len(stack) \in Nat /\ DOMAIN stack = 1 .. Len(stack)
      /\ DOMAIN stack' = 1 .. Len(stack) + 1
  BY <1>1, <1>2, LenProperties
<1>4. Len(stack) + 1 <= MaxDepth
  BY <1>1, <1>3, Numbers
<1> QED
  BY <1>2, <1>3, <1>4

\* Where the handler of a sun neither is called nor returns, its calls are the same.
LEMMA HandlerStays ==
    ASSUME TypeOK, NEW sun \in Suns, [Next]_vars, ~ToldWaitEnds(sun), ~setup,
           \A time \in Answers[sun] : ~ReceiveTime(sun, time)
    PROVE  /\ UNCHANGED setupDone
           /\ HandlingOf(sun)' <=> HandlingOf(sun)
           /\ \A i \in DOMAIN stack' : stack'[i].at = Told[sun] =>
                 i \in DOMAIN stack /\ stack[i].at = Told[sun]
<1> DEFINE Others == Points \ {"register", Told[sun]}
<1>1. /\ {"delay", "pass", "clock", "tail"} \subseteq Others
      /\ \A other \in Suns \ {sun} : Told[other] \in Others
      /\ Others \subseteq Points /\ "loop" \notin Others /\ Told[sun] \notin Others
  BY PointNames
<1> HIDE DEF Others
<1>2. StackStep(Others, Others) /\ UNCHANGED setupDone
  BY <1>1, StackSteps
<1>3. {Told[sun]} \cap Others = {} /\ stack \in Seq(Frames(Points)) /\ "loop" \notin Points
  BY <1>1, PointNames DEF TypeOK
<1>4. HandlingOf(sun)' <=> HandlingOf(sun)
  BY <1>1, <1>2, <1>3, StackStepProgress DEF HandlingOf
<1>5. \A i \in DOMAIN stack' : \/ i \in DOMAIN stack /\ stack'[i].at = stack[i].at
                               \/ stack'[i].at \in Others
  BY <1>1, <1>2, <1>3, StackStepEffects
<1> QED
  BY <1>1, <1>2, <1>4, <1>5

LEMMA BootInvariantStep ==
    ASSUME TypeOK, BootInv, [Next]_vars
    PROVE  BootInv'
<1> DEFINE from == Points \ StartPoints
           to == Points \ {"register"}
<1>1. /\ {"delay", "pass", "clock", "tail"} \subseteq from \cap to
      /\ \A sun \in Suns : Told[sun] \in from \cap to
      /\ "loop" \notin Points /\ "present" \in Points /\ "register" \in Points
  BY PointNames DEF StartPoints
<1>2. CASE StackStep(from, to) /\ UNCHANGED setupDone
  <2>1. BootOrder(stack', setupDone)
    BY <1>1, <1>2, BootStays DEF TypeOK, BootInv
  <2> QED
    BY <1>2, <2>1 DEF BootInv
<1>3. CASE setup
  <2>1. stack' = <<>> /\ setupDone' = TRUE
    BY <1>1, <1>3, SetupAtBottom DEF setup, TypeOK, BootInv
  <2> QED
    BY <2>1 DEF BootInv, BootOrder
<1> HIDE DEF from, to
<1> QED
  BY <1>1, <1>2, <1>3, StackSteps

LEMMA OtherTimesStay ==
    ASSUME TypeOK, NEW sun \in Suns, [Next]_vars, ~ToldWaitEnds(sun), ~setup,
           \A time \in Answers[sun] : ~ReceiveTime(sun, time)
    PROVE  /\ seconds'[sun] = seconds[sun] /\ due'[sun] = due[sun]
           /\ sunTimer'[sun] = sunTimer[sun]
<1>0. /\ seconds \in [Suns -> TimesOfSun] /\ due \in [Suns -> TimesOfSun]
      /\ sunTimer \in [Suns -> Slots \cup {dtINVALID_ALARM_ID}]
  BY DEF TypeOK
<1> DEFINE Same == /\ seconds'[sun] = seconds[sun] /\ due'[sun] = due[sun]
                   /\ sunTimer'[sun] = sunTimer[sun]
<1>1. ASSUME NEW other \in Suns, ToldWaitEnds(other), other # sun PROVE Same
  <2>1. CASE UNCHANGED <<seconds, sunTimer, due>>
    BY <2>1
  <2>2. ASSUME NEW n, NEW id, due' = [due EXCEPT ![other] = n], sunTimer' = [sunTimer EXCEPT ![other] = id],
               seconds'[sun] = seconds[sun]
        PROVE  Same
    BY <1>0, <1>1, <2>2
  <2> QED
    BY <1>1, <2>1, <2>2, ToldEffects
<1>2. ASSUME NEW other \in Suns, NEW time, seconds' = [seconds EXCEPT ![other] = time], other # sun,
             UNCHANGED <<sunTimer, due>>
      PROVE  Same
  BY <1>0, <1>2
<1>3. CASE UNCHANGED <<seconds, sunTimer, due>>
  BY <1>3
<1> QED
  BY <1>1, <1>2, <1>3, TimeSteps

LEMMA SecondsAreBounded ==
    ASSUME TypeOK, BootInv, SecondsInv, [Next]_vars
    PROVE  SecondsInv'
<1> DEFINE Bounded(sun) ==
      /\ seconds[sun] <= 1 + MaxDepth
      /\ \A i \in DOMAIN stack : stack[i].at = Told[sun] => seconds[sun] + i <= 1 + MaxDepth
<1>0. /\ SecondsInv <=> \A sun \in Suns : Bounded(sun)
      /\ SecondsInv' <=> \A sun \in Suns : Bounded(sun)'
  BY Bounds DEF SecondsInv
<1> SUFFICES ASSUME NEW sun \in Suns PROVE Bounded(sun)'
  BY <1>0
<1>1. /\ seconds \in [Suns -> Nat] /\ MaxDepth \in Nat
      /\ Bounded(sun) /\ \A i \in DOMAIN stack : i \in Nat
  BY <1>0, Bounds, Numbers, LenProperties DEF TypeOK
<1>2. ASSUME NEW time \in Answers[sun], ReceiveTime(sun, time) PROVE Bounded(sun)'
  <2>1. seconds'[sun] = time /\ time \in {0, 1}
    BY <1>1, <1>2, Numbers DEF ReceiveTime, Stored
  <2>2. \A i \in DOMAIN stack' : i \in Nat /\ i <= MaxDepth
    BY <1>1, <1>2, AnswerCalls
  <2> QED
    BY <1>1, <2>1, <2>2
<1>3. CASE ToldWaitEnds(sun)
  <2>1. /\ Len(stack) \in Nat \ {0} /\ seconds[sun] + Len(stack) <= 1 + MaxDepth
        /\ \A i \in DOMAIN stack' : i \in Nat /\ i <= Len(stack) - 1
    BY <1>1, <1>3, ToldReturns
  <2>2. seconds'[sun] \in {seconds[sun], seconds[sun] + 1}
    BY <1>3, ToldEffects
  <2>3. /\ seconds'[sun] <= 1 + MaxDepth
        /\ \A i \in Nat : i <= Len(stack) - 1 => seconds'[sun] + i <= 1 + MaxDepth
    BY <1>1, <2>1, <2>2
  <2> QED
    BY <2>1, <2>3
<1>4. CASE setup
  <2>1. stack' = <<>>
    BY <1>4, SetupAtBottom, PointNames DEF setup, TypeOK, BootInv
  <2>2. seconds'[sun] = 0
    BY <1>4, Bounds DEF setup
  <2> QED
    BY <1>1, <2>1, <2>2
<1>5. CASE ~ToldWaitEnds(sun) /\ ~setup /\ \A time \in Answers[sun] : ~ReceiveTime(sun, time)
  <2>1. \A i \in DOMAIN stack' : stack'[i].at = Told[sun] => i \in DOMAIN stack /\ stack[i].at = Told[sun]
    BY <1>5, HandlerStays
  <2>2. seconds'[sun] = seconds[sun]
    BY <1>5, OtherTimesStay
  <2> QED
    BY <1>1, <2>1, <2>2
<1> QED
  BY <1>2, <1>3, <1>4, <1>5

LEMMA TimesKeepTypes ==
    ASSUME TypeOK, SecondsInv, [Next]_vars
    PROVE  /\ seconds' \in [Suns -> TimesOfSun]
           /\ due' \in [Suns -> TimesOfSun]
           /\ sunTimer' \in [Suns -> Slots \cup {dtINVALID_ALARM_ID}]
<1>0. /\ seconds \in [Suns -> TimesOfSun] /\ due \in [Suns -> TimesOfSun]
      /\ sunTimer \in [Suns -> Slots \cup {dtINVALID_ALARM_ID}]
  BY DEF TypeOK
<1>1. CASE UNCHANGED <<seconds, sunTimer, due>>
  BY <1>0, <1>1
<1>2. ASSUME NEW sun \in Suns, NEW time \in Answers[sun],
             seconds' = [seconds EXCEPT ![sun] = time], UNCHANGED <<sunTimer, due>>
      PROVE  seconds' \in [Suns -> TimesOfSun]
  BY <1>0, <1>2, Numbers, Bounds
<1>3. ASSUME NEW sun \in Suns, ToldWaitEnds(sun), seconds[sun] # 0
      PROVE  /\ seconds' \in [Suns -> TimesOfSun]
             /\ due' \in [Suns -> TimesOfSun]
             /\ sunTimer' \in [Suns -> Slots \cup {dtINVALID_ALARM_ID}]
  <2>1. /\ seconds' \in [Suns -> Nat] /\ seconds'[sun] = seconds[sun] + 1
        /\ \A other \in Suns \ {sun} : seconds'[other] = seconds[other]
        /\ due' = [due EXCEPT ![sun] = seconds[sun] + 1]
        /\ sunTimer' = [sunTimer EXCEPT ![sun] = dailyId(free(alarms, sunTimer[sun]), clockSet)]
    BY <1>3, ToldEffects
  <2>2. seconds[sun] + 1 \in TimesOfSun
    <3>1. seconds[sun] \in Nat /\ seconds[sun] <= 1 + MaxDepth
      BY <1>0, Bounds DEF SecondsInv
    <3> QED
      BY <3>1, Bounds
  <2>3. dailyId(free(alarms, sunTimer[sun]), clockSet) \in Slots \cup {dtINVALID_ALARM_ID}
    BY TriggerIsReplaced, HandlerNames
  <2>4. \A other \in Suns : seconds'[other] \in TimesOfSun
    BY <1>0, <2>1, <2>2
  <2> QED
    BY <1>0, <2>1, <2>2, <2>3, <2>4
<1>4. ASSUME NEW sun \in Suns, ToldWaitEnds(sun), seconds[sun] = 0
      PROVE  UNCHANGED <<seconds, sunTimer, due>>
  BY <1>4, ToldEffects
<1>5. ASSUME seconds' = [sun \in Suns |-> 0] PROVE seconds' \in [Suns -> TimesOfSun]
  BY <1>5, Bounds
<1> QED
  BY <1>0, <1>1, <1>2, <1>3, <1>4, <1>5, TimeSteps

TypeInv == TypeOK /\ BootInv /\ SecondsInv

LEMMA TypeInvariant == Spec => []TypeInv
<1>1. Init => TypeInv
  <2> SUFFICES ASSUME Init PROVE TypeInv
    OBVIOUS
  <2>1. /\ NotAllocated \in AlarmsOf(Handlers, 1) /\ 0 \in Slots
        /\ Frame("register") \in Frames(Points)
    BY PoolAssumption, PointNames DEF NotAllocated, AlarmsOf, Slots, Frame, Frames
  <2>2. alarms \in [Slots -> AlarmsOf(Handlers, 1)] /\ stack \in Seq(Frames(Points))
    BY <2>1 DEF Init
  <2>3. /\ {setupDone, clockSet, firstTime} \subseteq BOOLEAN /\ overlapped \subseteq Suns
        /\ seconds \in [Suns -> TimesOfSun] /\ due \in [Suns -> TimesOfSun]
        /\ sunTimer \in [Suns -> Slots \cup {dtINVALID_ALARM_ID}]
    BY <2>1, Bounds DEF Init
  <2>4. RequestsTypeOK(Suns)
    BY <2>1 DEF Init, RequestsInit, RequestsTypeOK
  <2>5. BootInv
    BY DEF Init, BootInv, BootOrder, Frame
  <2>6. SecondsInv
    <3>1. /\ DOMAIN stack = {1} /\ stack[1].at = "register"
          /\ \A sun \in Suns : seconds[sun] = 0
      BY DEF Init, Frame
    <3> QED
      BY <3>1, Bounds, Numbers, PointNames DEF SecondsInv
  <2> QED
    BY <2>2, <2>3, <2>4, <2>5, <2>6 DEF TypeInv, TypeOK
<1>2. TypeInv /\ [Next]_vars => TypeInv'
  <2> SUFFICES ASSUME TypeInv, [Next]_vars PROVE TypeInv'
    OBVIOUS
  <2>1. TypeOK /\ BootInv /\ SecondsInv
    BY DEF TypeInv
  <2>2. /\ alarms' \in [Slots -> AlarmsOf(Handlers, 1)] /\ RequestsTypeOK(Suns)'
        /\ overlapped' \subseteq Suns /\ stack' \in Seq(Frames(Points))
        /\ {setupDone, clockSet, firstTime}' \subseteq BOOLEAN
    BY <2>1, PoolStays, StackStays, FlagTypes DEF PoolType
  <2>3. /\ seconds' \in [Suns -> TimesOfSun] /\ due' \in [Suns -> TimesOfSun]
        /\ sunTimer' \in [Suns -> Slots \cup {dtINVALID_ALARM_ID}]
    BY <2>1, TimesKeepTypes
  <2>4. TypeOK'
    BY <2>2, <2>3 DEF TypeOK
  <2> QED
    BY <2>1, <2>4, BootInvariantStep, SecondsAreBounded DEF TypeInv
<1> QED
  BY <1>1, <1>2, PTL DEF Spec

\* Every variable of the clock keeps its type; in particular the times stay within the offsets
\* that answers handled inside one another can add.
THEOREM TypeCorrect == Spec => []TypeOK
<1>1. TypeInv => TypeOK
  BY DEF TypeInv
<1> QED
  BY <1>1, TypeInvariant, PTL

-----------------------------------------------------------------------------
(* The times are asked for *)

LEMMA PendingKept ==
    ASSUME NEW g, g # NoHandler, Kept(alarms', alarms), Pending(g)
    PROVE  Pending(g)'
BY DEF Kept, Pending

LEMMA PendingShrinks ==
    ASSUME NEW g \in Handlers, Shrunk(alarms', alarms), Pending(g)'
    PROVE  Pending(g)
BY HandlerNames DEF Shrunk, Pending

LEMMA PendingGrows ==
    ASSUME NEW g \in Handlers, NEW h, g # h, NEW once, NEW id,
           Grown(alarms', alarms, h, once, id), Pending(g)'
    PROVE  Pending(g)
BY HandlerNames DEF Grown, Pending

\* A request of this one or of the other.
AsksFor(sun) == sun \in sendRequest \cup cancelled \/ Pending(Check[sun])

LEMMA AskingAsks ==
    ASSUME TypeOK, NEW asked \in Suns, NEW sun \in Suns, Ask(Check, asked), AsksFor(sun)
    PROVE  AsksFor(sun)'
<1>1. /\ sendRequest' = sendRequest \ {asked} /\ alarms' = timerOnce(alarms, 1, Check[asked])
      /\ cancelled' = IF Full(alarms) THEN cancelled \cup {asked} ELSE cancelled \ {asked}
  BY DEF Ask
<1>2. /\ \A g : g # NoHandler /\ Pending(g) => Pending(g)'
      /\ Full(alarms) \/ Pending(Check[asked])'
  BY <1>1, Numbers, HandlerNames, TimerOncePends DEF TypeOK
<1>3. CASE asked = sun
  BY <1>1, <1>2, <1>3 DEF AsksFor
<1>4. CASE asked # sun
  <2>1. Pending(Check[sun]) => Pending(Check[sun])'
    BY <1>2, HandlerNames
  <2> QED
    BY <1>1, <1>4, <2>1 DEF AsksFor
<1> QED
  BY <1>3, <1>4

\* An alarm that is freed is counted among those cancelled.
LEMMA FreeingAsks ==
    ASSUME TypeOK, NEW sun \in Suns, NEW id, NEW freed, freed = free(alarms, id),
           Kept(alarms', freed),
           sendRequest \subseteq sendRequest', cancelled \subseteq cancelled',
           sun \in RequestAt(Check, alarms, id) => sun \in cancelled',
           AsksFor(sun)
    PROVE  AsksFor(sun)'
<1>1. CASE isAllocated(alarms, id) /\ alarms[id].handler = Check[sun]
  BY <1>1, HandlerNames DEF RequestAt, AsksFor
<1>2. CASE ~ (isAllocated(alarms, id) /\ alarms[id].handler = Check[sun])
  <2>1. ASSUME NEW t \in Slots, alarms[t].handler = Check[sun] PROVE freed[t].handler = Check[sun]
    BY <1>2, <2>1 DEF free
  <2>2. \A t \in Slots : freed[t].handler = Check[sun] => alarms'[t].handler = Check[sun]
    BY HandlerNames DEF Kept
  <2>3. Pending(Check[sun]) => Pending(Check[sun])'
    BY <2>1, <2>2 DEF Pending
  <2> QED
    BY <2>3 DEF AsksFor
<1> QED
  BY <1>1, <1>2

\* An alarm that runs is a request's, which asks again, or none.
LEMMA RunningAsks ==
    ASSUME TypeOK, NEW s \in Slots, RunAlarm(s), NEW sun \in Suns, sun \notin received, AsksFor(sun)
    PROVE  AsksFor(sun)'
<1>1. alarms' = Trigger(alarms, s)
  BY DEF RunAlarm, checkTime, triggerMessage, heartbeat, RunHandler
<1>2. CASE alarms[s].handler = Check[sun]
  <2>1. PICK other \in Suns : checkTime(s, other)
    <3>1. ASSUME triggerMessage(s) \/ heartbeat(s) PROVE FALSE
      <4>1. alarms[s].handler \in Each(TriggerOf) \cup {"nightTriggerMessage", "heartbeat"}
        BY <3>1 DEF triggerMessage, heartbeat, RunHandler
      <4> QED
        BY <1>2, <4>1, HandlerNames DEF Each
    <3> QED
      BY <3>1 DEF RunAlarm
  <2>2. other = sun
    BY <1>2, <2>1, HandlerNames DEF checkTime, RunHandler
  <2>3. sendRequest' = sendRequest \cup ({sun} \ received)
    BY <2>1, <2>2 DEF checkTime, checkRequestStatus
  <2> QED
    BY <2>3 DEF AsksFor
<1>3. CASE alarms[s].handler # Check[sun]
  <2>1. Pending(Check[sun]) => Pending(Check[sun])'
    BY <1>1, <1>3, Numbers, TriggerKeepsOthers DEF TypeOK
  <2>2. sendRequest \subseteq sendRequest' /\ cancelled' = cancelled
    BY DEF RunAlarm, checkTime, checkRequestStatus, triggerMessage, heartbeat, sketch, requests
  <2> QED
    BY <2>1, <2>2 DEF AsksFor
<1> QED
  BY <1>2, <1>3

\* A time that has not been received is asked for again, once its turn has come: its flag is up
\* or its alarm is pending, unless that alarm was freed by an id that was not its own.
THEOREM TimesAreAskedFor == Spec => []AsksOn
<1> DEFINE Begun == IF "sunrise" \in received THEN Suns ELSE {"sunrise"}
<1>0. /\ AsksOn <=> (setupDone => \A sun \in Begun \ received : AsksFor(sun))
      /\ AsksOn' <=> (setupDone' => \A sun \in Begun' \ received' : AsksFor(sun)')
  BY DEF AsksOn, AskedOn, AsksFor
<1>1. Init => AsksOn
  BY DEF Init, AsksOn
<1>2. TypeOK /\ AsksOn /\ [Next]_vars => AsksOn'
  <2> SUFFICES ASSUME TypeOK, AsksOn, [Next]_vars, setupDone',
                      NEW sun \in Begun' \ received'
               PROVE  AsksFor(sun)'
    BY <1>0
  <2>0. sun \in Suns
    BY DEF Suns
  <2>1. ASSUME setupDone, sun \in Begun \ received PROVE AsksFor(sun)
    BY <1>0, <2>1
  <2>2. ASSUME UNCHANGED <<requests, setupDone>>, Kept(alarms', alarms) PROVE AsksFor(sun)'
    <3>1. AsksFor(sun)
      BY <2>1, <2>2 DEF requests
    <3> QED
      BY <2>0, <2>2, <3>1, PendingKept, HandlerNames DEF AsksFor, requests
  <2>3. CASE UNCHANGED <<alarms, sketch>>
    BY <2>2, <2>3 DEF sketch, Kept
  <2>4. ASSUME NEW asked \in Suns, Ask(Check, asked), UNCHANGED setupDone PROVE AsksFor(sun)'
    <3>1. received' = received
      BY <2>4 DEF Ask
    <3> QED
      BY <2>0, <2>1, <2>4, <3>1, AskingAsks
  <2>5. ASSUME NEW answered \in Suns, NEW time \in Answers[answered], ReceiveTime(answered, time)
        PROVE  AsksFor(sun)'
    <3> DEFINE raised == sendRequest \cup ({"sunset"} \ {answered})
    <3>0. setupDone' = setupDone
      BY <2>5 DEF ReceiveTime
    <3>1. CASE UNCHANGED <<alarms, requests>>
      BY <2>2, <3>0, <3>1 DEF Kept
    <3>2. CASE FirstAnswer(Check, answered, raised)
      <4>1. /\ received' = received \cup {answered} /\ sendRequest' = raised
            /\ alarms' = free(alarms, requestTimer)
            /\ cancelled' = cancelled \cup (RequestAt(Check, alarms, requestTimer) \ {answered})
        BY <3>2 DEF FirstAnswer
      <4>2. sun # answered /\ sun \notin received
        BY <4>1
      <4>3. CASE sun = "sunset"
        BY <4>1, <4>2, <4>3 DEF AsksFor
      <4>4. CASE sun = "sunrise"
        <5>1. AsksFor(sun)
          BY <2>1, <3>0, <4>2, <4>4 DEF Suns
        <5>2. Kept(alarms', free(alarms, requestTimer))
          BY <4>1 DEF Kept
        <5>3. /\ sendRequest \subseteq sendRequest' /\ cancelled \subseteq cancelled'
              /\ sun \in RequestAt(Check, alarms, requestTimer) => sun \in cancelled'
          BY <4>1, <4>2
        <5> QED
          BY <2>0, <5>1, <5>2, <5>3, FreeingAsks
      <4> QED
        BY <2>0, <4>3, <4>4 DEF Suns
    <3> QED
      BY <2>5, <3>1, <3>2 DEF ReceiveTime
  <2>6. ASSUME NEW told \in Suns, ToldWaitEnds(told) PROVE AsksFor(sun)'
    <3>1. UNCHANGED <<setupDone, sendRequest, received, requestTimer>>
      BY <2>6 DEF ToldWaitEnds
    <3>2. CASE UNCHANGED <<alarms, cancelled>>
      BY <2>2, <3>1, <3>2 DEF Kept, requests
    <3>3. CASE /\ alarms' = alarmRepeat(free(alarms, sunTimer[told]), clockSet, TriggerOf[told])
               /\ cancelled' = cancelled \cup RequestAt(Check, alarms, sunTimer[told])
      <4>1. AsksFor(sun)
        BY <2>1, <3>1
      <4>2. Kept(alarms', free(alarms, sunTimer[told]))
        BY <3>3, TriggerIsReplaced, HandlerNames
      <4> QED
        BY <2>0, <3>1, <3>3, <4>1, <4>2, FreeingAsks
    <3> QED
      BY <2>6, <3>2, <3>3, ToldEffects
  <2>7. CASE ReceiveClock
    <3>1. Kept(alarms', alarms)
      <4>1. CASE clockSet
        BY <2>7, <4>1 DEF ReceiveClock, Kept
      <4>2. CASE ~clockSet
        BY <2>7, <4>2, OthersShrink DEF ReceiveClock
      <4> QED
        BY <4>1, <4>2
    <3> QED
      BY <2>2, <2>7, <3>1 DEF ReceiveClock
  <2>8. CASE ClockWaitEnds
    <3>1. Kept(alarms', alarms)
      <4>1. CASE firstTime
        BY <2>8, <4>1, DailyGrows, HandlerNames DEF ClockWaitEnds, TypeOK, PoolType
      <4>2. CASE ~firstTime
        BY <2>8, <4>2 DEF ClockWaitEnds, Kept
      <4> QED
        BY <4>1, <4>2
    <3> QED
      BY <2>2, <2>8, <3>1 DEF ClockWaitEnds
  <2>9. CASE setup
    <3>1. received' = {} /\ sendRequest' = {"sunrise"}
      BY <2>9 DEF setup, RequestsSetUp
    <3> QED
      BY <3>1 DEF AsksFor
  <2>10. ASSUME NEW s \in Slots, RunAlarm(s) PROVE AsksFor(sun)'
    <3>1. received' = received /\ setupDone' = setupDone
      BY <2>10 DEF RunAlarm, checkTime, checkRequestStatus, triggerMessage, heartbeat, sketch,
                   requests
    <3> QED
      BY <2>0, <2>1, <2>10, <3>1, RunningAsks
  <2>11. CASE SecondPasses
    BY <2>2, <2>11, OthersShrink DEF SecondPasses, Second, sketch
  <2> QED
    BY <2>3, <2>4, <2>5, <2>6, <2>7, <2>8, <2>9, <2>10, <2>11, SketchSteps
<1> QED
  BY <1>1, <1>2, TypeCorrect, PTL DEF Spec

-----------------------------------------------------------------------------
(* The triggers' times *)

\* A trigger's alarm is created by the handler of an answer, behind its wait, and by nothing
\* else.
LEMMA TriggerIsCreated ==
    ASSUME TypeOK, NEW sun \in Suns, [Next]_vars, ~ToldWaitEnds(sun), Pending(TriggerOf[sun])'
    PROVE  Pending(TriggerOf[sun])
<1> DEFINE h == TriggerOf[sun]
<1>0. /\ h \in Handlers /\ h \notin {"heartbeat", "nightTriggerMessage"}
      /\ \A other \in Suns : Check[other] # h /\ (TriggerOf[other] = h => other = sun)
      /\ \A other \in Suns : Check[other] \in Handlers /\ TriggerOf[other] \in Handlers
      /\ {"heartbeat", "nightTriggerMessage"} \subseteq Handlers
  BY HandlerNames
<1> HIDE DEF h
<1> SUFFICES ASSUME Pending(h)' PROVE Pending(h)
  BY DEF h
<1>p. alarms \in PoolType
  BY DEF TypeOK, PoolType
<1>1. CASE UNCHANGED <<alarms, sketch>>
  BY <1>1 DEF Pending
<1>2. ASSUME NEW other \in Suns, Ask(Check, other) PROVE Pending(h)
  <2>1. Grown(alarms', alarms, Check[other], TRUE, createdId(alarms))
    BY <1>0, <1>2, <1>p, AskGrows DEF Ask
  <2> QED
    BY <1>0, <2>1, PendingGrows
<1>3. ASSUME NEW other \in Suns, NEW time \in Answers[other], ReceiveTime(other, time) PROVE Pending(h)
  <2>1. Shrunk(alarms', alarms)
    <3>1. alarms' = alarms \/ alarms' = free(alarms, requestTimer)
      BY <1>3 DEF ReceiveTime, FirstAnswer
    <3> QED
      BY <3>1, OthersShrink DEF Shrunk
  <2> QED
    BY <1>0, <2>1, PendingShrinks
<1>4. ASSUME NEW other \in Suns, ToldWaitEnds(other) PROVE Pending(h)
  <2>0. TriggerOf[other] # h
    BY <1>0, <1>4 DEF h
  <2> DEFINE freed == free(alarms, sunTimer[other])
             id == dailyId(freed, clockSet)
  <2>1. /\ Shrunk(freed, alarms)
        /\ Grown(alarmRepeat(freed, clockSet, TriggerOf[other]), freed, TriggerOf[other], FALSE, id)
    BY <1>0, TriggerIsReplaced
  <2>2. alarms' = alarms \/ alarms' = alarmRepeat(freed, clockSet, TriggerOf[other])
    BY <1>4, ToldEffects
  <2> HIDE DEF freed, id
  <2>3. alarms' = alarms \/ Grown(alarms', alarms, TriggerOf[other], FALSE, id)
    BY <2>1, <2>2 DEF Grown, Shrunk
  <2>4. ASSUME alarms' = alarms PROVE Pending(h)
    BY <2>4 DEF Pending
  <2> QED
    BY <1>0, <2>0, <2>3, <2>4, PendingGrows
<1>5. CASE ReceiveClock
  <2>1. Shrunk(alarms', alarms)
    <3>1. CASE clockSet
      BY <1>5, <3>1 DEF ReceiveClock, Shrunk
    <3>2. CASE ~clockSet
      BY <1>5, <3>2, OthersShrink DEF ReceiveClock
    <3> QED
      BY <3>1, <3>2
  <2> QED
    BY <1>0, <2>1, PendingShrinks
<1>6. CASE ClockWaitEnds
  <2>1. CASE firstTime
    BY <1>0, <1>6, <1>p, <2>1, DailyGrows, PendingGrows DEF ClockWaitEnds
  <2>2. CASE ~firstTime
    BY <1>6, <2>2 DEF ClockWaitEnds, Pending
  <2> QED
    BY <2>1, <2>2
<1>7. CASE setup
  <2>1. Grown(alarms', alarms, "heartbeat", FALSE, createdId(alarms))
    BY <1>0, <1>7, <1>p, RepeatGrows DEF setup
  <2> QED
    BY <1>0, <2>1, PendingGrows
<1>8. ASSUME NEW s \in Slots, RunAlarm(s) PROVE Pending(h)
  <2>1. alarms' = Trigger(alarms, s)
    BY <1>8 DEF RunAlarm, checkTime, triggerMessage, heartbeat, RunHandler
  <2> QED
    BY <1>0, <2>1, OthersShrink, PendingShrinks
<1>9. CASE SecondPasses
  BY <1>0, <1>9, OthersShrink, PendingShrinks DEF SecondPasses, Second
<1> QED
  BY <1>1, <1>2, <1>3, <1>4, <1>5, <1>6, <1>7, <1>8, <1>9, SketchSteps

\* setup() and the call for an answer are not the return of one.
LEMMA OneAtATime ==
    ASSUME TypeOK, NEW sun \in Suns, ToldWaitEnds(sun)
    PROVE  /\ ~setup
           /\ \A other \in Suns : \A time \in Answers[other] : ~ReceiveTime(other, time)
<1>1. ~setup
  BY PointNames DEF setup, At, ToldWaitEnds
<1>2. ASSUME NEW other \in Suns, NEW time \in Answers[other], ReceiveTime(other, time) PROVE FALSE
  <2>1. Len(stack) \in Nat /\ DOMAIN stack' = 1 .. Len(stack) + 1 /\ DOMAIN stack' = 1 .. Len(stack) - 1
    BY <1>2, AnswerCalls, ToldReturns
  <2>2. Len(stack) + 1 \in 1 .. Len(stack) + 1 /\ Len(stack) + 1 \notin 1 .. Len(stack) - 1
    BY <2>1
  <2> QED
    BY <2>1, <2>2
<1> QED
  BY <1>1, <1>2

\* When a trigger tells the controller its time again it takes the offset from the very time
\* the alarm was set for, however answers were nested; but for an answer 0.
THEOREM TriggersAreTrue == Spec => []TriggerTellsItsTime
<1>1. Init => TriggerTellsItsTime
  BY DEF Init, TriggerTellsItsTime
<1>2. TypeOK /\ TriggerTellsItsTime /\ [Next]_vars => TriggerTellsItsTime'
  <2> SUFFICES ASSUME TypeOK, TriggerTellsItsTime, [Next]_vars, NEW sun \in Suns,
                      setupDone', Pending(TriggerOf[sun])', ~HandlingOf(sun)'
               PROVE  seconds'[sun] \in {0, due'[sun]}
    BY DEF TriggerTellsItsTime
  <2>1. ASSUME NEW time \in Answers[sun], ReceiveTime(sun, time) PROVE FALSE
    BY <2>1, AnswerCalls DEF HandlingOf, InProgress
  <2>2. CASE ToldWaitEnds(sun)
    <3>1. CASE seconds[sun] = 0
      BY <2>2, <3>1, ToldEffects
    <3>2. CASE seconds[sun] # 0
      <4>1. due \in [Suns -> TimesOfSun]
        BY DEF TypeOK
      <4>2. seconds'[sun] = seconds[sun] + 1 /\ due' = [due EXCEPT ![sun] = seconds[sun] + 1]
        BY <2>2, <3>2, ToldEffects
      <4> QED
        BY <4>1, <4>2
    <3> QED
      BY <3>1, <3>2
  <2>3. CASE setup
    BY <2>3, Bounds DEF setup
  <2>4. CASE ~ToldWaitEnds(sun) /\ ~setup /\ \A time \in Answers[sun] : ~ReceiveTime(sun, time)
    <3>1. setupDone /\ ~HandlingOf(sun)
      BY <2>4, HandlerStays
    <3>2. Pending(TriggerOf[sun])
      BY <2>4, TriggerIsCreated
    <3>3. seconds[sun] \in {0, due[sun]}
      BY <3>1, <3>2 DEF TriggerTellsItsTime
    <3> QED
      BY <2>4, <3>3, OtherTimesStay
  <2> QED
    BY <2>1, <2>2, <2>3, <2>4
<1> QED
  BY <1>1, <1>2, TypeCorrect, PTL DEF Spec

LEMMA OverlapStays ==
    ASSUME TypeOK, NEW sun \in Suns, [Next]_vars,
           \A time \in Answers[sun] : ~ReceiveTime(sun, time)
    PROVE  sun \in overlapped' <=> sun \in overlapped
<1>1. CASE UNCHANGED overlapped
  BY <1>1
<1>2. ASSUME NEW other \in Suns, NEW time \in Answers[other], ReceiveTime(other, time), other # sun
      PROVE  sun \in overlapped' <=> sun \in overlapped
  BY <1>2 DEF ReceiveTime
<1>3. ASSUME NEW other \in Suns, ToldWaitEnds(other) PROVE UNCHANGED overlapped
  BY <1>3 DEF ToldWaitEnds
<1>4. CASE ReceiveClock \/ ClockWaitEnds \/ setup
  BY <1>4 DEF ReceiveClock, ClockWaitEnds, setup, times
<1>5. ASSUME NEW s \in Slots, RunAlarm(s) PROVE UNCHANGED overlapped
  BY <1>5 DEF RunAlarm, checkTime, triggerMessage, heartbeat, sketch, times
<1>6. CASE SecondPasses \/ UNCHANGED sketch \/ UNCHANGED times
  BY <1>6 DEF SecondPasses, sketch, times
<1> QED
  BY <1>1, <1>2, <1>3, <1>4, <1>5, <1>6, SketchSteps

LEMMA QuarterInvariant == Spec => []QuarterInv
<1> DEFINE Quarter(sun) ==
      /\ \A i, j \in DOMAIN stack : stack[i].at = Told[sun] /\ stack[j].at = Told[sun] => i = j
      /\ HandlingOf(sun) => seconds[sun] \in {0, 1}
      /\ Pending(TriggerOf[sun]) /\ ~ (HandlingOf(sun) /\ seconds[sun] = 1) => due[sun] = 2
<1>0. /\ QuarterInv <=> \A sun \in Suns \ overlapped : Quarter(sun)
      /\ QuarterInv' <=> \A sun \in Suns \ overlapped' : Quarter(sun)'
  <2>1. SunTime = 1 /\ SunTime + QUATER_HOUR_OFFSET = 2
    BY Bounds
  <2> QED
    BY <2>1 DEF QuarterInv
<1>1. Init => QuarterInv
  <2> SUFFICES ASSUME Init, NEW sun \in Suns PROVE Quarter(sun)
    BY <1>0
  <2>1. /\ DOMAIN stack = {1} /\ seconds[sun] = 0
        /\ \A s \in Slots : alarms[s].handler = NoHandler
    BY DEF Init, Frame, NotAllocated
  <2>2. ~Pending(TriggerOf[sun])
    BY <2>1, HandlerNames DEF Pending
  <2> QED
    BY <2>1, <2>2
<1>2. TypeOK /\ BootInv /\ QuarterInv /\ [Next]_vars => QuarterInv'
  <2> SUFFICES ASSUME TypeOK, BootInv, QuarterInv, [Next]_vars, NEW sun \in Suns, sun \notin overlapped'
               PROVE  Quarter(sun)'
    BY <1>0
  <2>0. sun \notin overlapped => Quarter(sun)
    BY <1>0
  <2>1. ASSUME NEW time \in Answers[sun], ReceiveTime(sun, time) PROVE Quarter(sun)'
    <3>1. ~HandlingOf(sun) /\ (time = 0 => sun \notin overlapped)
      BY <2>1 DEF ReceiveTime
    <3>2. \A i \in DOMAIN stack : stack[i].at # Told[sun]
      BY <3>1 DEF HandlingOf, InProgress
    <3>3. \A i \in DOMAIN stack' : stack'[i].at = Told[sun] => i = Len(stack) + 1
      BY <2>1, <3>2, AnswerCalls
    <3>4. seconds'[sun] = time /\ time \in {0, 1} /\ due' = due
      BY <2>1, Numbers DEF ReceiveTime, Stored, TypeOK
    <3>5. HandlingOf(sun)'
      BY <2>1, AnswerCalls DEF HandlingOf, InProgress
    <3>6. Pending(TriggerOf[sun])' => Pending(TriggerOf[sun])
      BY <2>1, OneAtATime, TriggerIsCreated
    <3>7. time = 0 /\ Pending(TriggerOf[sun]) => due[sun] = 2
      BY <2>0, <3>1
    <3> QED
      BY <3>3, <3>4, <3>5, <3>6, <3>7
  <2>2. CASE ToldWaitEnds(sun)
    <3>1. Quarter(sun)
      BY <2>0, <2>2, OneAtATime, OverlapStays
    <3>2. \A i \in DOMAIN stack' : stack'[i].at # Told[sun]
      BY <2>2, <3>1, ToldReturns
    <3>3. HandlingOf(sun) /\ ~HandlingOf(sun)'
      BY <2>2, <3>2, ToldReturns DEF HandlingOf, InProgress
    <3>4. Pending(TriggerOf[sun])' => due'[sun] = 2
      <4>1. CASE seconds[sun] = 0
        <5>1. alarms' = alarms /\ due' = due
          BY <2>2, <4>1, ToldEffects
        <5> QED
          BY <3>1, <4>1, <5>1 DEF Pending
      <4>2. CASE seconds[sun] # 0
        <5>1. seconds[sun] = 1
          BY <3>1, <3>3, <4>2
        <5>2. due' = [due EXCEPT ![sun] = seconds[sun] + 1] /\ due \in [Suns -> TimesOfSun]
          BY <2>2, <4>2, ToldEffects DEF TypeOK
        <5> QED
          BY <5>1, <5>2
      <4> QED
        BY <4>1, <4>2
    <3> QED
      BY <3>2, <3>3, <3>4
  <2>3. CASE setup
    <3>1. stack' = <<>> /\ DOMAIN stack = {1} /\ stack[1].at = "register"
      BY <2>3, SetupAtBottom, PointNames DEF setup, TypeOK, BootInv
    <3>2. ~HandlingOf(sun) /\ ~HandlingOf(sun)' /\ DOMAIN stack' = {}
      BY <3>1, PointNames DEF HandlingOf, InProgress
    <3>3. Quarter(sun) /\ due' = due
      BY <2>0, <2>3 DEF setup
    <3>4. Pending(TriggerOf[sun])' => Pending(TriggerOf[sun])
      BY <2>3, OneAtATime, TriggerIsCreated
    <3> QED
      BY <3>2, <3>3, <3>4
  <2>4. CASE ~ToldWaitEnds(sun) /\ ~setup /\ \A time \in Answers[sun] : ~ReceiveTime(sun, time)
    <3>1. Quarter(sun)
      BY <2>0, <2>4, OverlapStays
    <3>2. /\ HandlingOf(sun)' <=> HandlingOf(sun)
          /\ \A i \in DOMAIN stack' : stack'[i].at = Told[sun] => i \in DOMAIN stack /\ stack[i].at = Told[sun]
      BY <2>4, HandlerStays
    <3>3. Pending(TriggerOf[sun])' => Pending(TriggerOf[sun])
      BY <2>4, TriggerIsCreated
    <3>4. seconds'[sun] = seconds[sun] /\ due'[sun] = due[sun]
      BY <2>4, OtherTimesStay
    <3> QED
      BY <3>1, <3>2, <3>3, <3>4
  <2> QED
    BY <2>1, <2>2, <2>3, <2>4
<1>3. TypeInv => TypeOK /\ BootInv
  BY DEF TypeInv
<1> QED
  BY <1>1, <1>2, <1>3, TypeInvariant, PTL DEF Spec

\* A trigger alarm goes off one quarter of an hour past the time that was received, unless two
\* answers were handled inside one another, when the offset can be added twice.
THEOREM TriggersAreQuarterPast == Spec => []QuarterPast
<1>1. QuarterInv => QuarterPast
  BY DEF QuarterInv, QuarterPast
<1> QED
  BY <1>1, QuarterInvariant, PTL
-----------------------------------------------------------------------------
(* Seven alarms are enough *)

Singles == {"heartbeat", "nightTriggerMessage"} \cup Each(Check)

Unique(pool) ==
    \A s, t \in Slots : pool[s].handler = pool[t].handler /\ pool[s].handler \in Singles => s = t

OneShots(pool) == \A s \in Slots : \A sun \in Suns : pool[s].handler = Check[sun] => pool[s].isOneShot

AtTimers(pool, timer) ==
    \A s \in Slots : \A sun \in Suns : pool[s].handler = TriggerOf[sun] => s = timer[sun]

Sorted(pool, timer) == Unique(pool) /\ OneShots(pool) /\ AtTimers(pool, timer)

\* The requests are made one after the other, and the alarms of setup() and of the first time
\* are created once.
InOrder ==
    /\ \A sun \in sendRequest : ~Pending(Check[sun])
    /\ "sunrise" \notin received =>
          ~Pending(Check["sunset"]) /\ (setupDone => "sunset" \notin sendRequest)
    /\ ~setupDone =>
          ~ (firstTime \/ Pending("heartbeat") \/ \E sun \in Suns : Pending(Check[sun]))
    /\ ~setupDone \/ firstTime => ~Pending("nightTriggerMessage")

LEMMA PoolInvParts == /\ PoolInv <=> Sorted(alarms, sunTimer) /\ InOrder
                      /\ PoolInv' <=> Sorted(alarms', sunTimer') /\ InOrder'
BY Zenon DEF PoolInv, Sorted, Unique, OneShots, AtTimers, Singles, InOrder

LEMMA SingleNames ==
    /\ \A sun \in Suns : Check[sun] \in Singles /\ TriggerOf[sun] \notin Singles
    /\ {"heartbeat", "nightTriggerMessage"} \subseteq Singles
    /\ NoHandler \notin Singles /\ Singles \subseteq Handlers
    /\ \A h \in Singles : \A sun \in Suns : h # TriggerOf[sun]
BY HandlerNames DEF Singles, Each

LEMMA ShrunkSorted ==
    ASSUME NEW pool, NEW new, NEW timer, Sorted(pool, timer), Shrunk(new, pool)
    PROVE  Sorted(new, timer)
<1>1. Unique(new)
  BY SingleNames DEF Sorted, Unique, Shrunk
<1>2. OneShots(new) /\ AtTimers(new, timer)
  BY HandlerNames DEF Sorted, OneShots, AtTimers, Shrunk
<1> QED
  BY <1>1, <1>2 DEF Sorted

\* A handler that may have one alarm only is given one when it has none.
LEMMA GrownSorted ==
    ASSUME NEW pool, NEW new, NEW timer, Sorted(pool, timer),
           NEW h \in Singles, NEW once, NEW id, Grown(new, pool, h, once, id),
           \A t \in Slots : pool[t].handler # h,
           once \/ \A sun \in Suns : Check[sun] # h
    PROVE  Sorted(new, timer)
<1>1. Unique(new)
  BY SingleNames DEF Sorted, Unique, Grown
<1>2. OneShots(new)
  BY HandlerNames DEF Sorted, OneShots, Grown
<1>3. AtTimers(new, timer)
  BY HandlerNames, SingleNames DEF Sorted, AtTimers, Grown
<1> QED
  BY <1>1, <1>2, <1>3 DEF Sorted

LEMMA TriggerSorted ==
    ASSUME NEW pool, NEW new, Sorted(pool, sunTimer), TypeOK,
           NEW sun \in Suns, NEW once, NEW id, Grown(new, pool, TriggerOf[sun], once, id),
           \A t \in Slots : pool[t].handler # TriggerOf[sun]
    PROVE  Sorted(new, [sunTimer EXCEPT ![sun] = id])
<1>1. Unique(new)
  BY SingleNames DEF Sorted, Unique, Grown
<1>2. OneShots(new)
  BY HandlerNames DEF Sorted, OneShots, Grown
<1>3. AtTimers(new, [sunTimer EXCEPT ![sun] = id])
  <2> DEFINE timer == [sunTimer EXCEPT ![sun] = id]
  <2>1. timer[sun] = id /\ \A other \in Suns \ {sun} : timer[other] = sunTimer[other]
    BY DEF TypeOK
  <2> HIDE DEF timer
  <2> SUFFICES ASSUME NEW s \in Slots, NEW other \in Suns, new[s].handler = TriggerOf[other]
               PROVE  s = timer[other]
    BY DEF AtTimers, timer
  <2>2. CASE other = sun
    <3>1. s = id
      BY <2>2, HandlerNames DEF Grown
    <3> QED
      BY <2>1, <2>2, <3>1
  <2>3. CASE other # sun
    <3>1. pool[s].handler = TriggerOf[other]
      BY <2>3, HandlerNames DEF Grown
    <3> QED
      BY <2>1, <2>3, <3>1 DEF Sorted, AtTimers
  <2> QED
    BY <2>2, <2>3
<1> QED
  BY <1>1, <1>2, <1>3 DEF Sorted

\* Nothing gets an alarm, and what is to be asked for has none.
LEMMA OrderStays ==
    ASSUME InOrder, Shrunk(alarms', alarms), UNCHANGED <<setupDone, firstTime>>,
           received \subseteq received',
           \A sun \in sendRequest' : sun \in sendRequest \/ ~Pending(Check[sun])',
           "sunset" \in sendRequest' => "sunset" \in sendRequest \/ "sunrise" \in received',
           sendRequest' \subseteq Suns
    PROVE  InOrder'
<1>1. \A g \in Handlers : ~Pending(g) => ~Pending(g)'
  BY PendingShrinks
<1>2. /\ \A sun \in Suns : ~Pending(Check[sun]) => ~Pending(Check[sun])'
      /\ ~Pending("heartbeat") => ~Pending("heartbeat")'
      /\ ~Pending("nightTriggerMessage") => ~Pending("nightTriggerMessage")'
  BY <1>1, HandlerNames
<1>3. "sunset" \in Suns
  BY DEF Suns
<1>4. \A sun \in sendRequest' : ~Pending(Check[sun])'
  BY <1>2 DEF InOrder
<1>5. "sunrise" \notin received' =>
          ~Pending(Check["sunset"])' /\ (setupDone' => "sunset" \notin sendRequest')
  BY <1>2, <1>3 DEF InOrder
<1>6. ~setupDone' =>
          ~ (firstTime' \/ Pending("heartbeat")' \/ \E sun \in Suns : Pending(Check[sun])')
  BY <1>2 DEF InOrder
<1>7. ~setupDone' \/ firstTime' => ~Pending("nightTriggerMessage")'
  BY <1>2 DEF InOrder
<1> QED
  BY <1>4, <1>5, <1>6, <1>7 DEF InOrder

LEMMA IdleAfterSetup ==
    ASSUME TypeOK, BootInv, Idle
    PROVE  setupDone
<1>1. stack = <<>>
  BY TopIsPoint, PointNames DEF TypeOK
<1> QED
  BY <1>1 DEF BootInv, BootOrder

LEMMA AskIsSorted ==
    ASSUME TypeOK, BootInv, PoolInv, NEW sun \in Suns, Idle, sun \in sendRequest, Ask(Check, sun),
           UNCHANGED <<setupDone, firstTime, sunTimer>>
    PROVE  PoolInv'
<1>0. Sorted(alarms, sunTimer) /\ InOrder /\ setupDone
  BY PoolInvParts, IdleAfterSetup
<1>1. /\ Grown(alarms', alarms, Check[sun], TRUE, createdId(alarms))
      /\ sendRequest' = sendRequest \ {sun} /\ received' = received
  BY AskGrows, HandlerNames DEF Ask, TypeOK, PoolType
<1>2. ~Pending(Check[sun])
  BY <1>0 DEF InOrder
<1>3. Sorted(alarms', sunTimer')
  <2>1. \A t \in Slots : alarms[t].handler # Check[sun]
    BY <1>2 DEF Pending
  <2> QED
    BY <1>0, <1>1, <2>1, GrownSorted, SingleNames
<1>4. \A g \in Handlers : g # Check[sun] /\ ~Pending(g) => ~Pending(g)'
  BY <1>1, PendingGrows
<1>5. InOrder'
  <2>1. \A other \in sendRequest' : ~Pending(Check[other])'
    <3>1. sendRequest' \subseteq Suns
      BY <1>1 DEF TypeOK, RequestsTypeOK
    <3> QED
      BY <1>0, <1>1, <1>4, <3>1, HandlerNames DEF InOrder
  <2>2. "sunrise" \notin received' =>
            ~Pending(Check["sunset"])' /\ (setupDone' => "sunset" \notin sendRequest')
    <3>1. "sunset" \in Suns
      BY DEF Suns
    <3> QED
      BY <1>0, <1>1, <1>4, <3>1, HandlerNames DEF InOrder
  <2>3. ~setupDone' \/ firstTime' => ~Pending("nightTriggerMessage")'
    BY <1>0, <1>4, HandlerNames DEF InOrder
  <2> QED
    BY <1>0, <2>1, <2>2, <2>3 DEF InOrder
<1> QED
  BY <1>3, <1>5, PoolInvParts

LEMMA AnswerIsSorted ==
    ASSUME TypeOK, PoolInv, NEW sun \in Suns, NEW time, ReceiveTime(sun, time)
    PROVE  PoolInv'
<1>0. /\ Sorted(alarms, sunTimer) /\ InOrder /\ sendRequest \subseteq Suns
      /\ UNCHANGED <<setupDone, firstTime, sunTimer>>
  BY PoolInvParts DEF ReceiveTime, TypeOK, RequestsTypeOK
<1>1. CASE UNCHANGED <<alarms, requests>>
  <2>1. Shrunk(alarms', alarms) /\ UNCHANGED <<sendRequest, received>>
    BY <1>1 DEF Shrunk, requests
  <2> QED
    BY <1>0, <2>1, OrderStays, ShrunkSorted, PoolInvParts
<1>2. CASE sun \notin received /\ FirstAnswer(Check, sun, sendRequest \cup ({"sunset"} \ {sun}))
  <2>1. /\ received' = received \cup {sun} /\ sendRequest' = sendRequest \cup ({"sunset"} \ {sun})
        /\ Shrunk(alarms', alarms)
    BY <1>2, OthersShrink DEF FirstAnswer
  <2>2. CASE sun = "sunrise"
    <3>1. ~Pending(Check["sunset"]) /\ "sunset" \in Suns
      BY <1>0, <1>2, <2>2 DEF InOrder, Suns
    <3>2. ~Pending(Check["sunset"])'
      BY <2>1, <3>1, PendingShrinks, HandlerNames
    <3>3. InOrder'
      BY <1>0, <2>1, <2>2, <3>1, <3>2, OrderStays
    <3> QED
      BY <1>0, <2>1, <3>3, ShrunkSorted, PoolInvParts
  <2>3. CASE sun = "sunset"
    <3>1. sendRequest' = sendRequest
      BY <2>1, <2>3
    <3>2. InOrder'
      BY <1>0, <2>1, <3>1, OrderStays
    <3> QED
      BY <1>0, <2>1, <3>2, ShrunkSorted, PoolInvParts
  <2> QED
    BY <2>2, <2>3 DEF Suns
<1> QED
  BY <1>1, <1>2 DEF ReceiveTime

LEMMA ToldIsSorted ==
    ASSUME TypeOK, PoolInv, NEW sun \in Suns, ToldWaitEnds(sun)
    PROVE  PoolInv'
<1>0. /\ Sorted(alarms, sunTimer) /\ InOrder /\ sendRequest \subseteq Suns
      /\ UNCHANGED <<setupDone, firstTime, sendRequest, received>>
  BY PoolInvParts DEF ToldWaitEnds, TypeOK, RequestsTypeOK
<1>1. CASE UNCHANGED <<alarms, sunTimer>>
  <2>1. Shrunk(alarms', alarms)
    BY <1>1 DEF Shrunk
  <2> QED
    BY <1>0, <1>1, <2>1, OrderStays, PoolInvParts
<1>2. CASE /\ sunTimer' = [sunTimer EXCEPT ![sun] = dailyId(free(alarms, sunTimer[sun]), clockSet)]
           /\ alarms' = alarmRepeat(free(alarms, sunTimer[sun]), clockSet, TriggerOf[sun])
  <2> DEFINE freed == free(alarms, sunTimer[sun])
             id == dailyId(freed, clockSet)
  <2>1. /\ Shrunk(freed, alarms) /\ \A t \in Slots : t # sunTimer[sun] => freed[t] = alarms[t]
        /\ sunTimer[sun] \in Slots => freed[sunTimer[sun]].handler = NoHandler
        /\ Grown(alarms', freed, TriggerOf[sun], FALSE, id)
    BY <1>2, TriggerIsReplaced, HandlerNames
  <2>2. sunTimer' = [sunTimer EXCEPT ![sun] = id]
    BY <1>2
  <2> HIDE DEF freed, id
  <2>3. \A t \in Slots : freed[t].handler # TriggerOf[sun]
    BY <1>0, <2>1, HandlerNames DEF Sorted, AtTimers
  <2>4. Sorted(alarms', sunTimer')
    BY <1>0, <2>1, <2>2, <2>3, ShrunkSorted, TriggerSorted
  <2>5. Grown(alarms', alarms, TriggerOf[sun], FALSE, id)
    BY <2>1 DEF Grown, Shrunk
  <2>6. \A g \in Handlers : g # TriggerOf[sun] /\ ~Pending(g) => ~Pending(g)'
    BY <2>5, PendingGrows
  <2>7. /\ \A other \in Suns : ~Pending(Check[other]) => ~Pending(Check[other])'
        /\ ~Pending("heartbeat") => ~Pending("heartbeat")'
        /\ ~Pending("nightTriggerMessage") => ~Pending("nightTriggerMessage")'
    BY <2>6, HandlerNames
  <2>8. \A other \in sendRequest' : ~Pending(Check[other])'
    BY <1>0, <2>7 DEF InOrder
  <2>9. "sunrise" \notin received' =>
            ~Pending(Check["sunset"])' /\ (setupDone' => "sunset" \notin sendRequest')
    <3>1. "sunset" \in Suns
      BY DEF Suns
    <3> QED
      BY <1>0, <2>7, <3>1 DEF InOrder
  <2>10. /\ ~setupDone' =>
               ~ (firstTime' \/ Pending("heartbeat")' \/ \E other \in Suns : Pending(Check[other])')
         /\ ~setupDone' \/ firstTime' => ~Pending("nightTriggerMessage")'
    BY <1>0, <2>7 DEF InOrder
  <2>11. InOrder'
    BY <2>8, <2>9, <2>10 DEF InOrder
  <2> QED
    BY <2>4, <2>11, PoolInvParts
<1> QED
  BY <1>1, <1>2, ToldEffects

\* A request's alarm that runs is gone when its flag goes up.
LEMMA RunIsSorted ==
    ASSUME TypeOK, PoolInv, NEW s \in Slots, RunAlarm(s)
    PROVE  PoolInv'
<1>0. /\ Sorted(alarms, sunTimer) /\ InOrder /\ sendRequest \subseteq Suns
      /\ alarms' = Trigger(alarms, s) /\ Shrunk(alarms', alarms)
      /\ UNCHANGED <<setupDone, firstTime, sunTimer>>
  <2>1. alarms' = Trigger(alarms, s) /\ UNCHANGED <<setupDone, firstTime, sunTimer>>
    BY DEF RunAlarm, checkTime, triggerMessage, heartbeat, RunHandler, sketch, times
  <2> QED
    BY <2>1, OthersShrink, PoolInvParts DEF TypeOK, RequestsTypeOK
<1>1. Sorted(alarms', sunTimer')
  BY <1>0, ShrunkSorted
<1>2. ASSUME NEW sun \in Suns, checkTime(s, sun) PROVE InOrder'
  <2>1. /\ alarms[s].handler = Check[sun]
        /\ sendRequest' = sendRequest \cup ({sun} \ received) /\ received' = received
    BY <1>2 DEF checkTime, checkRequestStatus, RunHandler
  <2>2. alarms[s].isOneShot /\ \A t \in Slots : alarms[t].handler = Check[sun] => t = s
    BY <1>0, <2>1, SingleNames DEF Sorted, OneShots, Unique
  <2>3. alarms'[s].handler = NoHandler
    BY <1>0, <2>1, <2>2, Numbers, HandlerNames, TriggerFreesOneSlot DEF TypeOK
  <2>4. ~Pending(Check[sun])'
    BY <1>0, <2>2, <2>3, HandlerNames DEF Pending, Shrunk
  <2>5. sun = "sunset" => "sunrise" \in received
    BY <1>0, <2>1 DEF InOrder, Pending
  <2> QED
    BY <1>0, <2>1, <2>4, <2>5, OrderStays
<1>3. ASSUME triggerMessage(s) \/ heartbeat(s) PROVE InOrder'
  <2>1. UNCHANGED <<sendRequest, received>>
    BY <1>3 DEF triggerMessage, heartbeat, sketch, requests
  <2> QED
    BY <1>0, <2>1, OrderStays
<1> QED
  BY <1>1, <1>2, <1>3, PoolInvParts DEF RunAlarm

\* setup() creates the heartbeat, and the first time the night trigger, when they have no alarm.
LEMMA StartIsSorted ==
    ASSUME TypeOK, BootInv, PoolInv, setup \/ ClockWaitEnds
    PROVE  PoolInv'
<1>0. Sorted(alarms, sunTimer) /\ InOrder /\ sendRequest \subseteq Suns /\ alarms \in PoolType
  BY PoolInvParts DEF TypeOK, RequestsTypeOK, PoolType
<1>1. CASE setup
  <2>1. /\ ~setupDone /\ sendRequest' = {"sunrise"} /\ received' = {} /\ sunTimer' = sunTimer
        /\ setupDone' = TRUE /\ alarms' = timerRepeat(alarms, "heartbeat")
    BY <1>1, SetupAtBottom, PointNames DEF setup, RequestsSetUp, TypeOK, BootInv
  <2>2. /\ ~Pending("heartbeat") /\ ~Pending("nightTriggerMessage")
        /\ \A sun \in Suns : ~Pending(Check[sun])
        /\ Grown(alarms', alarms, "heartbeat", FALSE, createdId(alarms))
    <3>1. /\ ~Pending("heartbeat") /\ ~Pending("nightTriggerMessage")
          /\ \A sun \in Suns : ~Pending(Check[sun])
      BY <1>0, <2>1 DEF InOrder
    <3>2. Grown(alarms', alarms, "heartbeat", FALSE, createdId(alarms))
      BY <1>0, <2>1, RepeatGrows, HandlerNames
    <3> QED
      BY <3>1, <3>2
  <2>3. Sorted(alarms', sunTimer')
    <3>1. \A t \in Slots : alarms[t].handler # "heartbeat"
      BY <2>2 DEF Pending
    <3>2. Sorted(alarms', sunTimer)
      BY <1>0, <2>2, <3>1, GrownSorted, SingleNames, HandlerNames
    <3> QED
      BY <2>1, <3>2
  <2>4. \A g \in Handlers : g # "heartbeat" /\ ~Pending(g) => ~Pending(g)'
    BY <2>2, PendingGrows
  <2>5. /\ \A sun \in Suns : ~Pending(Check[sun])'
        /\ ~Pending("nightTriggerMessage")'
    BY <2>2, <2>4, HandlerNames
  <2>6. InOrder'
    BY <2>1, <2>5 DEF InOrder, Suns
  <2> QED
    BY <2>3, <2>6, PoolInvParts
<1>2. CASE ClockWaitEnds
  <2>0. UNCHANGED <<setupDone, sendRequest, received, sunTimer>> /\ firstTime' = FALSE
    BY <1>2 DEF ClockWaitEnds, requests, times
  <2>1. CASE ~firstTime
    <3>1. Shrunk(alarms', alarms)
      BY <1>2, <2>1 DEF ClockWaitEnds, Shrunk
    <3>2. UNCHANGED firstTime
      BY <2>0, <2>1 DEF TypeOK
    <3>3. InOrder'
      BY <1>0, <2>0, <3>1, <3>2, OrderStays
    <3> QED
      BY <1>0, <2>0, <3>1, <3>3, ShrunkSorted, PoolInvParts
  <2>2. CASE firstTime
    <3>1. /\ Grown(alarms', alarms, "nightTriggerMessage", FALSE, dailyId(alarms, clockSet))
          /\ setupDone /\ ~Pending("nightTriggerMessage")
      BY <1>0, <1>2, <2>2, DailyGrows, HandlerNames DEF ClockWaitEnds, InOrder
    <3>2. Sorted(alarms', sunTimer)
      <4>1. \A t \in Slots : alarms[t].handler # "nightTriggerMessage"
        BY <3>1 DEF Pending
      <4> QED
        BY <1>0, <3>1, <4>1, GrownSorted, SingleNames, HandlerNames
    <3>3. \A g \in Handlers : g # "nightTriggerMessage" /\ ~Pending(g) => ~Pending(g)'
      BY <3>1, PendingGrows
    <3>4. \A sun \in Suns : ~Pending(Check[sun]) => ~Pending(Check[sun])'
      BY <3>3, HandlerNames
    <3>5. InOrder'
      <4>1. "sunset" \in Suns
        BY DEF Suns
      <4> QED
        BY <1>0, <2>0, <3>1, <3>4, <4>1 DEF InOrder
    <3> QED
      BY <2>0, <3>2, <3>5, PoolInvParts
  <2> QED
    BY <2>1, <2>2
<1> QED
  BY <1>1, <1>2

LEMMA PoolInvariant == Spec => []PoolInv
<1>1. Init => PoolInv
  <2> SUFFICES ASSUME Init PROVE PoolInv
    OBVIOUS
  <2>1. \A s \in Slots : alarms[s].handler = NoHandler
    BY DEF Init, NotAllocated
  <2>2. \A h \in Handlers : ~Pending(h)
    BY <2>1, HandlerNames DEF Pending
  <2>3. Sorted(alarms, sunTimer)
    BY <2>1, SingleNames, HandlerNames DEF Sorted, Unique, OneShots, AtTimers
  <2>4. InOrder
    <3>1. "sunset" \in Suns
      BY DEF Suns
    <3> QED
      BY <2>2, <3>1, HandlerNames DEF InOrder, Init, RequestsInit
  <2> QED
    BY <2>3, <2>4, PoolInvParts
<1>2. TypeOK /\ BootInv /\ PoolInv /\ [Next]_vars => PoolInv'
  <2> SUFFICES ASSUME TypeOK, BootInv, PoolInv, [Next]_vars PROVE PoolInv'
    OBVIOUS
  <2>0. Sorted(alarms, sunTimer) /\ InOrder /\ sendRequest \subseteq Suns
    BY PoolInvParts DEF TypeOK, RequestsTypeOK
  <2>1. ASSUME Shrunk(alarms', alarms), UNCHANGED <<setupDone, firstTime, sendRequest, received, sunTimer>>
        PROVE  PoolInv'
    <3>1. InOrder' /\ Sorted(alarms', sunTimer)
      BY <2>0, <2>1, OrderStays, ShrunkSorted
    <3> QED
      BY <2>1, <3>1, PoolInvParts
  <2>2. CASE UNCHANGED <<alarms, sketch>>
    BY <2>1, <2>2 DEF sketch, requests, times, Shrunk
  <2>3. ASSUME NEW sun \in Suns, Idle, sun \in sendRequest, Ask(Check, sun),
               UNCHANGED <<stack, setupDone, clockSet, firstTime, times>>
        PROVE  PoolInv'
    BY <2>3, AskIsSorted DEF times
  <2>4. ASSUME NEW sun \in Suns, ToldWaitEnds(sun) \/ \E time \in Answers[sun] : ReceiveTime(sun, time)
        PROVE  PoolInv'
    BY <2>4, ToldIsSorted, AnswerIsSorted
  <2>5. CASE ReceiveClock
    <3>1. Shrunk(alarms', alarms)
      <4>1. CASE clockSet
        BY <2>5, <4>1 DEF ReceiveClock, Shrunk
      <4>2. CASE ~clockSet
        BY <2>5, <4>2, OthersShrink DEF ReceiveClock
      <4> QED
        BY <4>1, <4>2
    <3> QED
      BY <2>1, <2>5, <3>1 DEF ReceiveClock, requests, times
  <2>6. CASE ClockWaitEnds \/ setup
    BY <2>6, StartIsSorted
  <2>7. ASSUME NEW s \in Slots, RunAlarm(s) PROVE PoolInv'
    BY <2>7, RunIsSorted
  <2>8. CASE SecondPasses
    BY <2>1, <2>8, OthersShrink DEF SecondPasses, Second, sketch, requests, times
  <2> QED
    BY <2>2, <2>3, <2>4, <2>5, <2>6, <2>7, <2>8, SketchSteps
<1>3. TypeInv => TypeOK /\ BootInv
  BY DEF TypeInv
<1> QED
  BY <1>1, <1>2, <1>3, TypeInvariant, PTL DEF Spec

\* In a full pool each handler has one alarm, and there are six handlers.
LEMMA SevenAreNotFull ==
    ASSUME dtNBR_ALARMS >= 7, TypeOK, PoolInv, Full(alarms)
    PROVE  FALSE
<1> DEFINE seven == 0 .. 6
           handlerAt == [s \in seven |-> alarms[s].handler]
<1>1. seven \subseteq Slots
  BY PoolAssumption DEF Slots
<1>2. \A s \in Slots : alarms[s].handler \in Handlers
  BY DEF Full, Unallocated, isAllocated, TypeOK, AlarmsOf
<1>3. handlerAt \in [seven -> Handlers]
  BY <1>1, <1>2
<1>4. \A s, t \in Slots : alarms[s].handler = alarms[t].handler => s = t
  <2> SUFFICES ASSUME NEW s \in Slots, NEW t \in Slots, alarms[s].handler = alarms[t].handler
               PROVE  s = t
    OBVIOUS
  <2>1. Sorted(alarms, sunTimer)
    BY PoolInvParts
  <2>2. CASE alarms[s].handler \in Singles
    BY <2>1, <2>2 DEF Sorted, Unique
  <2>3. CASE alarms[s].handler \in Each(TriggerOf)
    <3>1. PICK sun \in Suns : alarms[s].handler = TriggerOf[sun]
      BY <2>3 DEF Each
    <3> QED
      BY <2>1, <3>1 DEF Sorted, AtTimers
  <2> QED
    BY <1>2, <2>2, <2>3 DEF Handlers, Singles
<1>5. IsFiniteSet(Handlers) /\ Cardinality(Handlers) <= 6
  <2> DEFINE AtMost(S, n) == IsFiniteSet(S) /\ Cardinality(S) \in 0 .. n
             more(S, x) == S \cup {x}
  <2>1. \A S, x : \A n \in Nat : AtMost(S, n) => AtMost(more(S, x), n + 1)
    BY FS_AddElement
  <2>2. AtMost({}, 0)
    BY FS_EmptySet
  <2>3. Handlers = more(more(more(more(more(more({}, "heartbeat"), "nightTriggerMessage"),
                        Check["sunrise"]), Check["sunset"]), TriggerOf["sunrise"]), TriggerOf["sunset"])
    BY DEF Handlers, Each, Suns
  <2>4. \A S : AtMost(S, 6) => IsFiniteSet(S) /\ Cardinality(S) <= 6
    OBVIOUS
  <2> HIDE DEF AtMost, more
  <2>5. /\ 0 + 1 = 1 /\ 1 + 1 = 2 /\ 2 + 1 = 3 /\ 3 + 1 = 4 /\ 4 + 1 = 5 /\ 5 + 1 = 6
        /\ {0, 1, 2, 3, 4, 5} \subseteq Nat
    OBVIOUS
  <2>6. AtMost(Handlers, 6)
    BY <2>1, <2>2, <2>3, <2>5
  <2> QED
    BY <2>4, <2>6
<1>6. IsFiniteSet(seven) /\ Cardinality(seven) = 7
  <2>1. \A n \in Nat : IsFiniteSet(0 .. n) /\ Cardinality(0 .. n) = n + 1
    BY FS_Interval
  <2>2. 6 + 1 = 7 /\ 6 \in Nat
    OBVIOUS
  <2> QED
    BY <2>1, <2>2
<1>7. Cardinality(Handlers) < Cardinality(seven)
  BY <1>5, <1>6, FS_CardinalityType
<1> HIDE DEF seven
<1>8. \E s, t \in seven : s # t /\ handlerAt[s] = handlerAt[t]
  <2> HIDE DEF handlerAt
  <2> QED
    BY <1>3, <1>5, <1>6, <1>7, FS_PigeonHole
<1> QED
  BY <1>1, <1>4, <1>8

\* In a pool of seven alarms or more, every request and every trigger has its alarm, whatever
\* comes in and whenever.
THEOREM SevenAlarmsSuffice ==
    ASSUME dtNBR_ALARMS >= 7
    PROVE  Spec => []AlarmsSuffice
<1>1. TypeOK /\ PoolInv => AlarmsSuffice
  BY SevenAreNotFull DEF AlarmsSuffice
<1> QED
  BY <1>1, TypeCorrect, PoolInvariant, PTL
=============================================================================
