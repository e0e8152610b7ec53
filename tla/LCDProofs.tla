------------------------------ MODULE LCDProofs ------------------------------
(***************************************************************************)
(* Invariants of the display node's backlight, for every pool of at least   *)
(* three alarms, every nesting depth and all intervals.                     *)
(***************************************************************************)
EXTENDS LCD, RuntimeProofs

PoolType == [Slots -> AlarmsOf(Handlers, ONE_MINUTE)]

LEMMA PointNames ==
    /\ {"pass", "present", "config", "register", "delay"} \subseteq Points
    /\ {"config", "delay", "pass"} \subseteq Points \ {"register"}
    /\ {"delay", "pass"} \subseteq Points \ StartPoints
    /\ "loop" \notin Points
BY DEF Points, CorePoints, StartPoints

LEMMA Intervals ==
    /\ ONE_MINUTE \in Nat /\ 0 \in 0 .. ONE_MINUTE
    /\ ONE_MINUTE \in 0 .. ONE_MINUTE /\ REQUEST_INTERVAL \in 0 .. ONE_MINUTE
BY IntervalsAssumption

-----------------------------------------------------------------------------
(* Steps *)

\* The steps that change the pool or a variable of the sketch.
LEMMA SketchSteps ==
    ASSUME [Next]_vars
    PROVE  \/ UNCHANGED <<alarms, sketch>>
           \/ /\ Idle /\ sendBackLightFlagRequest /\ SendRequest
              /\ UNCHANGED <<setupDone, lit>>
           \/ ReceiveReading
           \/ \E on \in BOOLEAN : ReceiveFlag(on)
           \/ setup
           \/ \E s \in Slots : RunAlarm(s)
           \/ SecondPasses
<1>1. CASE loop \/ DelayEnds \/ ReceivePresentationRequest \/ PresentingNode \/ PresentationEnds
  BY <1>1 DEF loop, DelayEnds, ReceivePresentationRequest, PresentingNode, ConfigWaitEnds,
              PresentationEnds, sketch
<1>2. CASE PassBegins \/ PassEnds \/ UNCHANGED vars
  BY <1>2 DEF PassBegins, ServiceAlarms, PassEnds, EndPass, vars, sketch
<1> QED
  BY <1>1, <1>2 DEF Next, WaitEnds

\* The steps of the stack.
LEMMA StackSteps ==
    ASSUME [Next]_vars
    PROVE  \/ /\ StackStep(Points \ StartPoints, Points \ {"register"})
              /\ UNCHANGED setupDone
           \/ PresentingNode \/ PresentationEnds \/ setup
<1> DEFINE Step == /\ StackStep(Points \ StartPoints, Points \ {"register"})
                   /\ UNCHANGED setupDone
<1>1. CASE loop \/ ReceivePresentationRequest \/ PassBegins
  BY <1>1, PointNames DEF loop, ReceivePresentationRequest, PassBegins, ServiceAlarms,
                          StackStep, sketch
<1>2. CASE DelayEnds \/ PassEnds
  BY <1>2, PointNames DEF DelayEnds, PassEnds, EndPass, StackStep, sketch
<1>3. ASSUME NEW s \in Slots, RunAlarm(s) PROVE Step
  BY <1>3 DEF RunAlarm, PassReaches, StackStep
<1>4. CASE ReceiveReading \/ SecondPasses \/ UNCHANGED vars
  BY <1>4 DEF ReceiveReading, SecondPasses, Second, vars, StackStep, sketch
<1>5. CASE \E on \in BOOLEAN : ReceiveFlag(on)
  BY <1>5 DEF ReceiveFlag, StackStep
<1> QED
  BY <1>1, <1>2, <1>3, <1>4, <1>5 DEF Next, WaitEnds

-----------------------------------------------------------------------------
(* The pool *)

\* A new one-shot changes the slot it gets and no other.
LEMMA OneShotIsAdded ==
    ASSUME TypeOK, NEW h \in {"checkBackLightFlagRequestStatus", "turnOffLCDLight"},
           NEW ticks \in 0 .. ONE_MINUTE, alarms' = timerOnce(alarms, ticks, h)
    PROVE  /\ alarms' \in PoolType
           /\ \A t \in Slots :
                 \/ alarms'[t] = alarms[t] /\ t # createdId(alarms)
                 \/ /\ t = createdId(alarms) /\ alarms[t].handler = NoHandler
                    /\ alarms'[t].handler = h /\ alarms'[t].isOneShot = TRUE
           /\ createdId(alarms) \in Slots \cup {dtINVALID_ALARM_ID}
<1>1. alarms \in PoolType /\ h \in Handlers /\ ONE_MINUTE \in Nat
  BY Intervals DEF TypeOK, PoolType, Handlers
<1> DEFINE new == timerOnce(alarms, ticks, h)
<1>2. new \in PoolType /\ HasCreated(new, alarms, h, TRUE)
  BY <1>1, TimerOnceFillsOneSlot DEF PoolType
<1> HIDE DEF new
<1> QED
  BY <1>2, Zenon DEF HasCreated, new

\* An alarm that is freed or triggers, or is let alone.
LEMMA FreeEmptiesSlot ==
    ASSUME TypeOK, NEW id
    PROVE  /\ free(alarms, id) \in PoolType
           /\ \A t \in Slots : \/ free(alarms, id)[t] = alarms[t]
                               \/ t = id /\ free(alarms, id)[t] = NotAllocated
BY Intervals, FreeEmptiesOneSlot DEF TypeOK, PoolType

LEMMA PoolStays ==
    ASSUME TypeOK, [Next]_vars
    PROVE  alarms' \in PoolType
<1>1. alarms \in PoolType /\ ONE_MINUTE \in Nat
  BY Intervals DEF TypeOK, PoolType
<1>2. CASE UNCHANGED <<alarms, sketch>>
  BY <1>1, <1>2
<1>3. CASE SendRequest
  BY <1>3, OneShotIsAdded, Intervals DEF SendRequest
<1>4. CASE ReceiveReading
  BY <1>4, OneShotIsAdded, Intervals DEF ReceiveReading
<1>5. CASE \E on \in BOOLEAN : ReceiveFlag(on)
  BY <1>1, <1>5, FreeEmptiesSlot DEF ReceiveFlag
<1>6. CASE setup
  <2>1. "sendHeartbeat" \in Handlers /\ FALSE \in BOOLEAN /\ 0 \in 0 .. ONE_MINUTE
    BY Intervals DEF Handlers
  <2>2. create(alarms, "sendHeartbeat", FALSE, 0) \in PoolType
    BY <1>1, <2>1, CreateFillsOneSlot, Zenon DEF PoolType
  <2> QED
    BY <1>6, <2>2 DEF setup, timerRepeat
<1>7. ASSUME NEW s \in Slots, RunAlarm(s) PROVE alarms' \in PoolType
  <2>1. Trigger(alarms, s) \in PoolType
    BY <1>1, TriggerFreesOneSlot, Zenon DEF PoolType
  <2> QED
    BY <1>7, <2>1 DEF RunAlarm
<1>8. CASE SecondPasses
  <2>1. Elapse(alarms) \in PoolType
    BY <1>1, ElapseKeepsHandlers, Zenon DEF PoolType
  <2> QED
    BY <1>8, <2>1 DEF SecondPasses, Second
<1> QED
  BY <1>2, <1>3, <1>4, <1>5, <1>6, <1>7, <1>8, SketchSteps

-----------------------------------------------------------------------------
(* Types and starts *)

\* Every variable holds a value of its type, in every reachable state.
THEOREM TypeCorrect == Spec => []TypeOK
<1>1. Init => TypeOK
  <2> SUFFICES ASSUME Init PROVE TypeOK
    OBVIOUS
  <2>1. NotAllocated \in AlarmsOf(Handlers, ONE_MINUTE)
    BY Intervals DEF NotAllocated, AlarmsOf
  <2>2. <<Frame("config")>> \in Seq(Frames(Points))
    <3>1. Frame("config") \in Frames(Points)
      BY PointNames, PoolAssumption DEF Frame, Frames
    <3> QED
      BY <3>1
  <2>3. 0 \in Slots
    BY PoolAssumption DEF Slots
  <2> QED
    BY <2>1, <2>2, <2>3 DEF Init, TypeOK
<1>2. TypeOK /\ [Next]_vars => TypeOK'
  <2> SUFFICES ASSUME TypeOK, [Next]_vars PROVE TypeOK'
    OBVIOUS
  <2>1. stack' \in Seq(Frames(Points))
    <3>1. StackStep(Points, Points)
      <4>1. CASE StackStep(Points \ StartPoints, Points \ {"register"})
        BY <4>1 DEF StackStep
      <4>2. CASE PresentingNode \/ PresentationEnds \/ setup
        BY <4>2, PointNames
        DEF PresentingNode, ConfigWaitEnds, PresentationEnds, setup, StackStep
      <4> QED
        BY <4>1, <4>2, StackSteps
    <3> QED
      BY <3>1, StackStepEffects, PointNames DEF TypeOK
  <2>2. alarms' \in [Slots -> AlarmsOf(Handlers, ONE_MINUTE)]
    BY PoolStays DEF PoolType
  <2>3. backlightTimer' \in Slots \cup {dtINVALID_ALARM_ID}
    <3>1. CASE SendRequest
      BY <3>1, OneShotIsAdded, Intervals DEF SendRequest
    <3>2. CASE ~SendRequest
      BY <3>2, SketchSteps
      DEF TypeOK, ReceiveReading, ReceiveFlag, setup, RunAlarm, SecondPasses,
          checkBackLightFlagRequestStatus, turnOffLCDLight, sketch, flags
    <3> QED
      BY <3>1, <3>2
  <2>4. {setupDone', lit', lcdBackLightFlag', sendBackLightFlagRequest',
         lcdBackLightFlagReceived', asked', unheard'} \subseteq BOOLEAN
    BY SketchSteps
    DEF TypeOK, SendRequest, ReceiveReading, ReceiveFlag, setup, RunAlarm, SecondPasses,
        checkBackLightFlagRequestStatus, turnOffLCDLight, sketch, flags, Full
  <2> QED
    BY <2>1, <2>2, <2>3, <2>4 DEF TypeOK
<1> QED
  BY <1>1, <1>2, PTL DEF Spec

LEMMA BootInvariant == Spec => []BootInv
<1>1. Init => BootInv
  BY DEF Init, BootInv, BootOrder, Frame
<1>2. TypeOK /\ BootInv /\ [Next]_vars => BootInv'
  <2> SUFFICES ASSUME TypeOK, BootInv, [Next]_vars PROVE BootInv'
    OBVIOUS
  <2>1. /\ stack \in Seq(Frames(Points)) /\ BootOrder(stack, setupDone)
        /\ "loop" \notin Points /\ {"present", "register"} \subseteq Points
    BY PointNames DEF TypeOK, BootInv
  <2>2. CASE setup
    <3>1. stack' = <<>> /\ setupDone'
      BY <2>1, <2>2, SetupAtBottom DEF setup
    <3> QED
      BY <3>1 DEF BootInv, BootOrder
  <2>3. CASE PresentingNode
    <3>1. At("config") /\ stack' = Goto("present")
      BY <2>3 DEF PresentingNode, ConfigWaitEnds
    <3>2. BootOrder(stack', setupDone)
      BY <2>1, <3>1, BootStays
    <3> QED
      BY <2>3, <3>2 DEF BootInv, PresentingNode, sketch
  <2>4. CASE PresentationEnds
    <3>1. /\ At("present")
          /\ stack' = IF setupDone \/ Len(stack) > 1 THEN Return ELSE Goto("register")
      BY <2>4 DEF PresentationEnds
    <3>2. BootOrder(stack', setupDone)
      BY <2>1, <3>1, BootPresentationEnds
    <3> QED
      BY <2>4, <3>2 DEF BootInv, PresentationEnds
  <2>5. CASE /\ StackStep(Points \ StartPoints, Points \ {"register"})
             /\ UNCHANGED setupDone
    <3>1. BootOrder(stack', setupDone)
      BY <2>1, <2>5, BootStays
    <3> QED
      BY <2>5, <3>1 DEF BootInv
  <2> QED
    BY <2>2, <2>3, <2>4, <2>5, StackSteps
<1> QED
  BY <1>1, <1>2, TypeCorrect, PTL DEF Spec

-----------------------------------------------------------------------------
(* Who is in the pool *)

OneShots == {"checkBackLightFlagRequestStatus", "turnOffLCDLight"}

\* Alarms that stay, tick or go.
LEMMA PoolShrinks ==
    ASSUME TypeOK, PoolInv, setupDone' = setupDone, asked' = asked,
           backlightTimer' = backlightTimer,
           \A t \in Slots : \/ /\ alarms'[t].handler = alarms[t].handler
                               /\ alarms'[t].isOneShot = alarms[t].isOneShot
                            \/ alarms'[t] = NotAllocated,
           sendBackLightFlagRequest' =>
               sendBackLightFlagRequest \/ ~Pending("checkBackLightFlagRequestStatus")'
    PROVE  PoolInv'
<1>1. \A t \in Slots : alarms'[t].handler # NoHandler =>
         /\ alarms'[t].handler = alarms[t].handler
         /\ alarms'[t].isOneShot = alarms[t].isOneShot
  BY DEF NotAllocated
<1>2. \A t \in Slots : alarms'[t].isOneShot <=> alarms'[t].handler \in OneShots
  BY <1>1 DEF PoolInv, NotAllocated, OneShots, NoHandler
<1>3. \A h : h # NoHandler /\ Pending(h)' => Pending(h)
  BY <1>1 DEF Pending
<1>4. \A s, t \in Slots :
         /\ alarms'[s].handler = alarms'[t].handler
         /\ alarms'[s].handler \in {"sendHeartbeat", "checkBackLightFlagRequestStatus"}
         => s = t
  BY <1>1 DEF PoolInv, NoHandler
<1>5. asked' /\ backlightTimer' \in Slots => alarms'[backlightTimer'].handler # "sendHeartbeat"
  BY <1>1 DEF PoolInv, NoHandler
<1> QED
  BY <1>2, <1>3, <1>4, <1>5 DEF PoolInv, OneShots, NoHandler

\* One more one-shot: another request only when there is none.
LEMMA PoolGrows ==
    ASSUME TypeOK, PoolInv, NEW h \in OneShots, NEW ticks \in 0 .. ONE_MINUTE,
           alarms' = timerOnce(alarms, ticks, h)
    PROVE  /\ \A t \in Slots : alarms'[t].isOneShot <=> alarms'[t].handler \in OneShots
           /\ \A s, t \in Slots :
                 /\ alarms'[s].handler = alarms'[t].handler
                 /\ alarms'[s].handler \in {"sendHeartbeat", "checkBackLightFlagRequestStatus"}
                 /\ h = "turnOffLCDLight" \/ ~Pending("checkBackLightFlagRequestStatus")
                 => s = t
           /\ \A g : Pending(g)' => Pending(g) \/ g = h
           /\ \A t \in Slots : alarms'[t].handler = "sendHeartbeat" =>
                                   alarms[t].handler = "sendHeartbeat"
<1>1. \A t \in Slots :
         \/ alarms'[t] = alarms[t] /\ t # createdId(alarms)
         \/ /\ t = createdId(alarms) /\ alarms[t].handler = NoHandler
            /\ alarms'[t].handler = h /\ alarms'[t].isOneShot = TRUE
  BY OneShotIsAdded DEF OneShots
<1>2. \A t \in Slots : alarms'[t].isOneShot <=> alarms'[t].handler \in OneShots
  BY <1>1 DEF PoolInv, OneShots
<1>3. ASSUME NEW s \in Slots, NEW t \in Slots,
             alarms'[s].handler = alarms'[t].handler,
             alarms'[s].handler \in {"sendHeartbeat", "checkBackLightFlagRequestStatus"},
             h = "turnOffLCDLight" \/ ~Pending("checkBackLightFlagRequestStatus")
      PROVE  s = t
  <2>1. CASE h = "turnOffLCDLight"
    BY <1>1, <1>3, <2>1 DEF PoolInv
  <2>2. CASE h = "checkBackLightFlagRequestStatus" /\ ~Pending("checkBackLightFlagRequestStatus")
    BY <1>1, <1>3, <2>2 DEF PoolInv, Pending
  <2> QED
    BY <1>3, <2>1, <2>2 DEF OneShots
<1> QED
  BY <1>1, <1>2, <1>3 DEF Pending, OneShots

LEMMA PoolInvariant == Spec => []PoolInv
<1>1. Init => PoolInv
  BY DEF Init, PoolInv, NotAllocated, NoHandler, Pending
<1>2. TypeOK /\ BootInv /\ PoolInv /\ [Next]_vars => PoolInv'
  <2> SUFFICES ASSUME TypeOK, BootInv, PoolInv, [Next]_vars PROVE PoolInv'
    OBVIOUS
  <2>1. CASE UNCHANGED <<alarms, sketch>>
    BY <2>1, PoolShrinks DEF sketch, flags
  <2>2. CASE /\ Idle /\ sendBackLightFlagRequest /\ SendRequest
             /\ UNCHANGED <<setupDone, lit>>
    <3> DEFINE h == "checkBackLightFlagRequestStatus"
    <3>1. setupDone
      <4>1. stack = <<>>
        BY <2>2, PointNames, TopIsPoint DEF TypeOK
      <4> QED
        BY <4>1 DEF BootInv, BootOrder
    <3>2. /\ alarms' = timerOnce(alarms, REQUEST_INTERVAL, h)
          /\ backlightTimer' = createdId(alarms)
          /\ sendBackLightFlagRequest' = FALSE /\ setupDone' = setupDone
      BY <2>2 DEF SendRequest
    <3>3. h \in OneShots /\ ~Pending(h)
      BY <2>2 DEF PoolInv, OneShots
    <3>4. backlightTimer' \in Slots => alarms'[backlightTimer'].handler # "sendHeartbeat"
      BY <3>2, OneShotIsAdded, Intervals
    <3> QED
      BY <3>1, <3>2, <3>3, <3>4, PoolGrows, Intervals DEF PoolInv, OneShots
  <2>3. CASE ReceiveReading
    <3> DEFINE h == "turnOffLCDLight"
    <3>1. /\ alarms' = timerOnce(alarms, ONE_MINUTE, h) /\ h \in OneShots
          /\ UNCHANGED <<setupDone, sendBackLightFlagRequest, asked, backlightTimer>>
      BY <2>3 DEF ReceiveReading, flags, OneShots
    <3> QED
      BY <3>1, PoolGrows, Intervals DEF PoolInv, OneShots
  <2>4. ASSUME NEW on \in BOOLEAN, ReceiveFlag(on) PROVE PoolInv'
    <3>1. /\ alarms' \in {alarms, free(alarms, backlightTimer)}
          /\ UNCHANGED <<setupDone, asked, backlightTimer>>
          /\ sendBackLightFlagRequest' => sendBackLightFlagRequest
      BY <2>4 DEF ReceiveFlag
    <3> QED
      BY <3>1, FreeEmptiesSlot, PoolShrinks
  <2>5. CASE setup
    <3>1. ~setupDone
      BY <2>5, SetupAtBottom, PointNames DEF setup, BootInv, TypeOK
    <3>2. /\ alarms' = create(alarms, "sendHeartbeat", FALSE, 0)
          /\ setupDone' /\ ~asked' /\ asked = FALSE
      BY <2>5, <3>1 DEF setup, PoolInv, timerRepeat, TypeOK
    <3>3. \A t \in Slots :
             \/ alarms'[t] = alarms[t]
             \/ t = createdId(alarms) /\ alarms'[t] = [handler |-> "sendHeartbeat",
                                                       isOneShot |-> FALSE, left |-> 0]
      <4>1. /\ alarms \in PoolType /\ "sendHeartbeat" \in Handlers /\ FALSE \in BOOLEAN
            /\ 0 \in 0 .. ONE_MINUTE /\ ONE_MINUTE \in Nat
        BY Intervals DEF TypeOK, PoolType, Handlers
      <4>2. CASE Full(alarms)
        BY <3>2, <4>2 DEF create
      <4>3. CASE ~Full(alarms)
        BY <3>2, <4>1, <4>3 DEF create, PoolType
      <4> QED
        BY <4>2, <4>3
    <3>4. \A t \in Slots : /\ alarms[t].handler # "sendHeartbeat"
                           /\ alarms[t].handler # "checkBackLightFlagRequestStatus"
      BY <3>1 DEF PoolInv, Pending
    <3>5. \A t \in Slots : alarms'[t].isOneShot <=> alarms'[t].handler \in OneShots
      BY <3>3 DEF PoolInv, OneShots
    <3>6. \A t \in Slots : /\ alarms'[t].handler # "checkBackLightFlagRequestStatus"
                           /\ alarms'[t].handler = "sendHeartbeat" => t = createdId(alarms)
      BY <3>3, <3>4
    <3> QED
      BY <3>2, <3>5, <3>6 DEF PoolInv, Pending, OneShots
  <2>6. ASSUME NEW s \in Slots, RunAlarm(s) PROVE PoolInv'
    <3>1. /\ alarms' = Trigger(alarms, s)
          /\ UNCHANGED <<setupDone, asked, backlightTimer>>
          /\ sendBackLightFlagRequest' =>
                \/ sendBackLightFlagRequest
                \/ alarms[s].handler = "checkBackLightFlagRequestStatus"
      BY <2>6 DEF RunAlarm, flags, checkBackLightFlagRequestStatus, turnOffLCDLight
    <3>2. \A t \in Slots : \/ alarms'[t] = alarms[t]
                           \/ t = s /\ alarms'[t] = NotAllocated
      BY <3>1, FreeEmptiesSlot DEF Trigger
    <3>3. ASSUME alarms[s].handler = "checkBackLightFlagRequestStatus"
          PROVE  ~Pending("checkBackLightFlagRequestStatus")'
      <4>1. alarms[s].isOneShot
        BY <3>3 DEF PoolInv
      <4>2. alarms'[s] = NotAllocated
        BY <3>1, <3>3, <4>1 DEF Trigger, free, isAllocated, NoHandler, TypeOK
      <4> QED
        BY <3>2, <3>3, <4>2 DEF PoolInv, Pending, NotAllocated, NoHandler
    <3> QED
      BY <3>1, <3>2, <3>3, PoolShrinks
  <2>7. CASE SecondPasses
    <3>1. \A t \in Slots : /\ alarms'[t].handler = alarms[t].handler
                           /\ alarms'[t].isOneShot = alarms[t].isOneShot
      BY <2>7, ElapseKeepsHandlers, Intervals DEF SecondPasses, Second, TypeOK
    <3> QED
      BY <2>7, <3>1, PoolShrinks DEF SecondPasses, sketch, flags
  <2> QED
    BY <2>1, <2>2, <2>3, <2>4, <2>5, <2>6, <2>7, SketchSteps
<1> QED
  BY <1>1, <1>2, TypeCorrect, BootInvariant, PTL DEF Spec

-----------------------------------------------------------------------------
(* The light goes out, the flag is asked for, the heartbeat goes on *)

\* A pool without a free slot has an alarm that puts the light out: one of three alarms is
\* neither the heartbeat nor the request.
LEMMA FullPoolEndsLight ==
    ASSUME TypeOK, PoolInv, Full(alarms)
    PROVE  Pending("turnOffLCDLight")
<1>1. {0, 1, 2} \subseteq Slots
  BY PoolAssumption, PoolSizeAssumption DEF Slots
<1>2. \A s \in Slots : alarms[s].handler \in Handlers
  <2>1. \A s \in Slots : alarms[s].handler \in Handlers \cup {NoHandler}
    BY DEF TypeOK, AlarmsOf
  <2>2. \A s \in Slots : alarms[s].handler # NoHandler
    BY DEF Full, Unallocated, isAllocated
  <2> QED
    BY <2>1, <2>2
<1>3. \E s \in {0, 1, 2} :
         alarms[s].handler \notin {"sendHeartbeat", "checkBackLightFlagRequestStatus"}
  <2> SUFFICES ASSUME \A s \in {0, 1, 2} :
                         alarms[s].handler \in {"sendHeartbeat", "checkBackLightFlagRequestStatus"}
               PROVE  FALSE
    OBVIOUS
  <2>1. \A s, t \in {0, 1, 2} : alarms[s].handler = alarms[t].handler => s = t
    BY <1>1 DEF PoolInv
  <2> QED
    BY <2>1
<1> QED
  BY <1>1, <1>2, <1>3 DEF Handlers, Pending

\* A light that the controller does not want on has an alarm coming that puts it out, for
\* every pool of three alarms or more.
THEOREM LightWillGoOut == Spec => []LightHasEnd
<1> DEFINE Off == Pending("turnOffLCDLight")
<1>1. Init => LightHasEnd
  BY DEF Init, LightHasEnd
<1>2. TypeOK /\ PoolInv /\ LightHasEnd /\ [Next]_vars => LightHasEnd'
  <2> SUFFICES ASSUME TypeOK, PoolInv, LightHasEnd, [Next]_vars,
                      setupDone', lit', ~lcdBackLightFlag'
               PROVE  Off'
    BY DEF LightHasEnd
  <2>0. /\ alarms \in [Slots -> AlarmsOf(Handlers, ONE_MINUTE)] /\ ONE_MINUTE \in Nat
        /\ "turnOffLCDLight" # NoHandler /\ "turnOffLCDLight" \in Handlers
        /\ "checkBackLightFlagRequestStatus" \in Handlers
        /\ setupDone /\ lit /\ ~lcdBackLightFlag => Off
    BY Intervals DEF TypeOK, LightHasEnd, NoHandler, Handlers
  <2>1. CASE UNCHANGED <<alarms, sketch>>
    BY <2>0, <2>1 DEF sketch, flags, Pending
  <2>2. CASE SendRequest /\ UNCHANGED <<setupDone, lit>>
    <3>1. Off /\ alarms' = timerOnce(alarms, REQUEST_INTERVAL, "checkBackLightFlagRequestStatus")
      BY <2>0, <2>2 DEF SendRequest
    <3> QED
      BY <2>0, <3>1, TimerOncePends, Intervals
  <2>3. CASE ReceiveReading
    <3>1. alarms' = timerOnce(alarms, ONE_MINUTE, "turnOffLCDLight")
      BY <2>3 DEF ReceiveReading
    <3>2. Full(alarms) => Off
      BY FullPoolEndsLight
    <3> QED
      BY <2>0, <3>1, <3>2, TimerOncePends, Intervals
  <2>4. ASSUME NEW on \in BOOLEAN, ReceiveFlag(on) PROVE FALSE
    BY <2>4 DEF ReceiveFlag
  <2>5. CASE setup
    BY <2>5 DEF setup
  <2>6. ASSUME NEW s \in Slots, RunAlarm(s) PROVE Off'
    <3>1. /\ alarms' = Trigger(alarms, s) /\ setupDone' = setupDone
          /\ lcdBackLightFlag' = lcdBackLightFlag
      BY <2>6 DEF RunAlarm, checkBackLightFlagRequestStatus, turnOffLCDLight, flags
    <3>2. alarms[s].handler # "turnOffLCDLight" /\ lit
      <4>1. /\ alarms[s].handler = "turnOffLCDLight" => turnOffLCDLight
            /\ lit' = lit \/ turnOffLCDLight
        BY <2>6 DEF RunAlarm, checkBackLightFlagRequestStatus
      <4> QED
        BY <3>1, <4>1 DEF turnOffLCDLight
    <3> QED
      BY <2>0, <3>1, <3>2, TriggerKeepsOthers
  <2>7. CASE SecondPasses
    <3>1. Off /\ alarms' = Elapse(alarms)
      BY <2>0, <2>7 DEF SecondPasses, Second, sketch, flags
    <3> QED
      BY <2>0, <3>1, TimeKeepsPending
  <2> QED
    BY <2>1, <2>2, <2>3, <2>4, <2>5, <2>6, <2>7, SketchSteps
<1> QED
  BY <1>1, <1>2, TypeCorrect, PoolInvariant, PTL DEF Spec

\* A node that has not got its flag is about to ask for it or has the alarm that makes it ask
\* again, unless that alarm was not to be had when it asked last.
THEOREM FlagIsAskedFor == Spec => []AsksOn
<1> DEFINE Asks == Pending("checkBackLightFlagRequestStatus")
<1>1. Init => AsksOn
  BY DEF Init, AsksOn
<1>2. TypeOK /\ AsksOn /\ [Next]_vars => AsksOn'
  <2> SUFFICES ASSUME TypeOK, AsksOn, [Next]_vars, setupDone', ~lcdBackLightFlagReceived',
                      ~sendBackLightFlagRequest', ~unheard'
               PROVE  Asks'
    BY DEF AsksOn
  <2>0. /\ alarms \in [Slots -> AlarmsOf(Handlers, ONE_MINUTE)] /\ ONE_MINUTE \in Nat
        /\ "checkBackLightFlagRequestStatus" # NoHandler
        /\ "checkBackLightFlagRequestStatus" \in Handlers /\ "turnOffLCDLight" \in Handlers
        /\ setupDone /\ ~lcdBackLightFlagReceived /\ ~sendBackLightFlagRequest /\ ~unheard => Asks
    BY Intervals DEF TypeOK, AsksOn, NoHandler, Handlers
  <2>1. CASE UNCHANGED <<alarms, sketch>>
    BY <2>0, <2>1 DEF sketch, flags, Pending
  <2>2. CASE SendRequest
    <3>1. /\ alarms' = timerOnce(alarms, REQUEST_INTERVAL, "checkBackLightFlagRequestStatus")
          /\ ~Full(alarms)
      BY <2>2 DEF SendRequest
    <3> QED
      BY <2>0, <3>1, TimerOncePends, Intervals
  <2>3. CASE ReceiveReading
    <3>1. Asks /\ alarms' = timerOnce(alarms, ONE_MINUTE, "turnOffLCDLight")
      BY <2>0, <2>3 DEF ReceiveReading, flags
    <3> QED
      BY <2>0, <3>1, TimerOncePends, Intervals
  <2>4. ASSUME NEW on \in BOOLEAN, ReceiveFlag(on) PROVE FALSE
    BY <2>4 DEF ReceiveFlag
  <2>5. CASE setup
    BY <2>5 DEF setup
  <2>6. ASSUME NEW s \in Slots, RunAlarm(s) PROVE Asks'
    <3>1. /\ alarms' = Trigger(alarms, s) /\ UNCHANGED <<setupDone, unheard>>
          /\ UNCHANGED lcdBackLightFlagReceived
      BY <2>6 DEF RunAlarm, checkBackLightFlagRequestStatus, turnOffLCDLight, flags
    <3>2. alarms[s].handler # "checkBackLightFlagRequestStatus" /\ ~sendBackLightFlagRequest
      <4>1. \/ /\ alarms[s].handler # "checkBackLightFlagRequestStatus"
               /\ UNCHANGED sendBackLightFlagRequest
            \/ checkBackLightFlagRequestStatus
        BY <2>6 DEF RunAlarm, turnOffLCDLight, flags
      <4>2. ~checkBackLightFlagRequestStatus
        <5>1. ASSUME checkBackLightFlagRequestStatus
              PROVE  /\ sendBackLightFlagRequest' = (sendBackLightFlagRequest \/ ~lcdBackLightFlagReceived)
                     /\ lcdBackLightFlagReceived' = lcdBackLightFlagReceived
          BY <5>1, Zenon DEF checkBackLightFlagRequestStatus
        <5>2. sendBackLightFlagRequest \in BOOLEAN /\ lcdBackLightFlagReceived \in BOOLEAN
          BY DEF TypeOK
        <5> QED
          BY <5>1, <5>2
      <4> QED
        BY <4>1, <4>2
    <3> QED
      BY <2>0, <3>1, <3>2, TriggerKeepsOthers
  <2>7. CASE SecondPasses
    <3>1. Asks /\ alarms' = Elapse(alarms)
      BY <2>0, <2>7 DEF SecondPasses, Second, sketch, flags
    <3> QED
      BY <2>0, <3>1, TimeKeepsPending
  <2> QED
    BY <2>1, <2>2, <2>3, <2>4, <2>5, <2>6, <2>7, SketchSteps
<1> QED
  BY <1>1, <1>2, TypeCorrect, PTL DEF Spec

\* Once the node has asked for its flag, the id it frees is not the heartbeat's, however long
\* the answer takes and whoever has got the slot since.
THEOREM HeartbeatIsNotFreed == Spec => HeartbeatGoesOn
<1> DEFINE Beat == Pending("sendHeartbeat")
<1>1. TypeOK /\ BootInv /\ PoolInv /\ [Next]_vars => [asked /\ Beat => Beat']_vars
  <2> SUFFICES ASSUME TypeOK, BootInv, PoolInv, [Next]_vars, asked, Beat PROVE Beat'
    OBVIOUS
  <2>0. /\ alarms \in [Slots -> AlarmsOf(Handlers, ONE_MINUTE)] /\ ONE_MINUTE \in Nat
        /\ "sendHeartbeat" # NoHandler /\ "turnOffLCDLight" \in Handlers
        /\ "checkBackLightFlagRequestStatus" \in Handlers
    BY Intervals DEF TypeOK, NoHandler, Handlers
  <2>1. CASE UNCHANGED <<alarms, sketch>>
    BY <2>1 DEF Pending
  <2>2. CASE SendRequest
    BY <2>0, <2>2, TimerOncePends, Intervals DEF SendRequest
  <2>3. CASE ReceiveReading
    BY <2>0, <2>3, TimerOncePends, Intervals DEF ReceiveReading
  <2>4. ASSUME NEW on \in BOOLEAN, ReceiveFlag(on) PROVE Beat'
    <3>1. PICK s \in Slots : alarms[s].handler = "sendHeartbeat"
      BY DEF Pending
    <3>2. s # backlightTimer
      BY <3>1 DEF PoolInv
    <3>3. alarms'[s] = alarms[s]
      BY <2>4, <3>2, FreeEmptiesSlot DEF ReceiveFlag
    <3> QED
      BY <3>1, <3>3 DEF Pending
  <2>5. CASE setup
    <3>1. ~setupDone
      BY <2>5, SetupAtBottom, PointNames DEF setup, BootInv, TypeOK
    <3> QED
      BY <3>1 DEF PoolInv
  <2>6. ASSUME NEW s \in Slots, RunAlarm(s) PROVE Beat'
    <3>1. alarms' = Trigger(alarms, s)
      BY <2>6 DEF RunAlarm
    <3>2. CASE alarms[s].handler = "sendHeartbeat"
      <4>1. ~alarms[s].isOneShot
        BY <3>2 DEF PoolInv
      <4> QED
        BY <3>1, <3>2, <4>1 DEF Trigger, Pending
    <3>3. CASE alarms[s].handler # "sendHeartbeat"
      BY <2>0, <3>1, <3>3, TriggerKeepsOthers
    <3> QED
      BY <3>2, <3>3
  <2>7. CASE SecondPasses
    BY <2>0, <2>7, TimeKeepsPending DEF SecondPasses, Second
  <2> QED
    BY <2>1, <2>2, <2>3, <2>4, <2>5, <2>6, <2>7, SketchSteps
<1>2. Spec => [][asked /\ Beat => Beat']_vars
  BY <1>1, TypeCorrect, BootInvariant, PoolInvariant, PTL DEF Spec
<1> QED
  BY <1>2 DEF HeartbeatGoesOn
=============================================================================
