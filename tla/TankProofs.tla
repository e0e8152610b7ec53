------------------------------ MODULE TankProofs ------------------------------
(***************************************************************************)
(* Invariants of the tank node, for every size of the alarm pool, every     *)
(* nesting depth, every number of repeating alarms and every interval; and  *)
(* what it and the motor node know of each other, whatever the radio does.  *)
(***************************************************************************)
EXTENDS LevelControl, RuntimeProofs

PoolType == [Slots -> AlarmsOf(Handlers, ONE_MINUTE)]
StackType == Seq(Frames(Points))

-----------------------------------------------------------------------------
(* Types *)

\* The alarms a report, a presentation, setup(), time and a service pass leave behind are a
\* pool again.
LEMMA PoolTypes ==
    ASSUME TypeOK
    PROVE  /\ \A sensor \in Sensors :
                 timerOnce(alarms, AckInterval(sensor), CheckAck(sensor)) \in PoolType
           /\ timerOnce(alarms, ONE_MINUTE, "checkFloatSensors") \in PoolType
           /\ withRepeating \in PoolType
           /\ Elapse(alarms) \in PoolType
           /\ \A s \in Slots : Trigger(alarms, s) \in PoolType
<1> USE DEF PoolType
<1>1. alarms \in PoolType /\ ONE_MINUTE \in Nat
  BY IntervalAssumption DEF TypeOK
<1>2. /\ "checkFloatSensors" \in Handlers /\ "sendHeartbeat" \in Handlers
      /\ \A i \in DOMAIN RepeatingHandlers : RepeatingHandlers[i] \in Handlers
      /\ ONE_MINUTE \in 0 .. ONE_MINUTE /\ 0 \in 0 .. ONE_MINUTE
      /\ TRUE \in BOOLEAN
      /\ \A sensor \in Sensors : CheckAck(sensor) \in Handlers /\ AckInterval(sensor) \in 0 .. ONE_MINUTE
  BY IntervalAssumption, RepeatingAssumption DEF Handlers, CheckAck, AckInterval
<1>3. ASSUME NEW sensor \in Sensors
      PROVE  timerOnce(alarms, AckInterval(sensor), CheckAck(sensor)) \in PoolType
  BY <1>1, <1>2, CreateFillsOneSlot, Zenon DEF timerOnce
<1>4. timerOnce(alarms, ONE_MINUTE, "checkFloatSensors") \in PoolType
  BY <1>1, <1>2, CreateFillsOneSlot, Zenon DEF timerOnce
<1>5. withRepeating \in PoolType
  BY <1>1, <1>2 DEF withRepeating, AlarmsOf, NotAllocated
<1>6. Elapse(alarms) \in PoolType
  BY <1>1, ElapseKeepsHandlers, Zenon
<1>7. ASSUME NEW s \in Slots PROVE Trigger(alarms, s) \in PoolType
  BY <1>1, TriggerFreesOneSlot, Zenon
<1> QED
  BY <1>3, <1>4, <1>5, <1>6, <1>7

LEMMA PointNames ==
    /\ {"tail", "config", "register", "present", "pass", "delay"} \subseteq Points \ LoopPoints
    /\ LoopPoints \subseteq Points
    /\ \A sensor \in Sensors :
           SentPoint(sensor) \in LoopPoints /\ ToldPoint(sensor) \in LoopPoints
    /\ \A q \in Points : q # "loop"
BY DEF Points, CorePoints, LoopPoints, SentPoint, ToldPoint

\* A point at which the running call stands is one of the node's, and a point of loop()
\* is that of a sensor it has.
LEMMA AtPoints ==
    ASSUME TypeOK
    PROVE  /\ \A point : At(point) /\ point # "loop" => point \in Points
           /\ At("lowTold") => Low \in Sensors
           /\ At("highTold") => High \in Sensors
<1>1. ASSUME NEW point, At(point), point # "loop" PROVE point \in Points
  <2>1. stack \in Seq(Frames(Points)) /\ Len(stack) \in 1 .. Len(stack) /\ stack[Len(stack)].at = point
    BY <1>1, AtIsTop DEF TypeOK
  <2>2. stack[Len(stack)] \in Frames(Points)
    BY <2>1, ElementOfSeq
  <2> QED
    BY <2>1, <2>2 DEF Frames
<1>2. /\ "lowTold" \in Points => Low \in Sensors
      /\ "highTold" \in Points => High \in Sensors
  BY SensorsAssumption DEF Points, CorePoints, LoopPoints, SentPoint, ToldPoint, Low, High
<1> QED
  BY <1>1, <1>2

\* main() is in its loop only when no call is in progress.
LEMMA IdleIsEmpty ==
    ASSUME TypeOK, Idle
    PROVE  stack = <<>>
<1> SUFFICES ASSUME stack # <<>> PROVE FALSE
  OBVIOUS
<1>1. stack \in Seq(Frames(Points)) /\ Len(stack) \in 1 .. Len(stack)
  BY EmptySeq DEF TypeOK
<1>2. stack[Len(stack)] \in Frames(Points)
  BY <1>1, ElementOfSeq
<1>3. Top.at \in Points
  BY <1>2 DEF Top, Frames
<1> QED
  BY <1>3, PointNames DEF Idle, At

\* The stacks the steps leave behind are stacks again.
LEMMA StackTypes ==
    ASSUME TypeOK
    PROVE  /\ \A p \in Points : Call(p) \in StackType
           /\ \A p \in Points, q \in Points : At(q) => Goto(p) \in StackType
           /\ \A q \in Points : At(q) => Return \in StackType
           /\ \A s \in Slots : At("pass") =>
                  Advance(s) \in StackType /\ AdvanceAndCall(s, "tail") \in StackType
           /\ \A p \in Points, q \in Points : At(q) \/ Idle => Enter(p) \in StackType
<1> USE DEF StackType
<1>1. stack \in Seq(Frames(Points))
  BY DEF TypeOK
<1>2. \A q \in Points : At(q) => stack # <<>>
  <2>1. \A q \in Points : q # "loop"
    BY PointNames
  <2> QED
    BY <1>1, <2>1, AtIsTop
<1>3. "pass" \in Points
  BY DEF Points, CorePoints
<1>4. \A p \in Points : Call(p) \in StackType
  BY <1>1, CallAddsFrame, Zenon
<1>5. \A p \in Points, q \in Points : At(q) => Goto(p) \in StackType
  BY <1>1, <1>2, GotoReplacesTop, Zenon
<1> QED
  BY <1>1, <1>2, <1>3, <1>4, <1>5, ReturnRemovesTop, AdvanceKeepsPoints,
     AdvanceAndCallAddsFrame, PointNames, Zenon DEF Enter

\* A node that has just been started is in an initial state, wherever the water is.
LEMMA RestartIsInit ==
    ASSUME TypeOK, Restart
    PROVE  Init'
BY DEF TypeOK, Restart, Init

\* Every variable holds a value of its type, in every reachable state.
THEOREM TypeCorrect == Spec => []TypeOK
<1>1. Init => TypeOK
  <2> SUFFICES ASSUME Init PROVE TypeOK
    OBVIOUS
  <2>1. alarms \in PoolType
    <3>1. 0 \in 0 .. ONE_MINUTE
      BY IntervalAssumption
    <3>2. NotAllocated \in AlarmsOf(Handlers, ONE_MINUTE)
      BY <3>1 DEF NotAllocated, AlarmsOf
    <3> QED
      BY <3>2 DEF Init, PoolType
  <2>2. stack \in StackType
    BY PoolAssumption DEF Init, StackType, Frames, Frame, Points, CorePoints
  <2> QED
    BY <2>1, <2>2 DEF Init, TypeOK, PoolType, StackType, Reports
<1>2. Init' => TypeOK'
  BY <1>1, PTL
<1>3. TypeOK /\ [Next]_vars => TypeOK'
  <2> SUFFICES ASSUME TypeOK, [Next]_vars PROVE TypeOK'
    OBVIOUS
  <2> USE DEF StackType, PoolType
  <2>1. CASE loop
    <3>1. /\ Low \in sendSensorUpdate => SentPoint(Low) \in Points
          /\ High \in sendSensorUpdate => SentPoint(High) \in Points
      BY PointNames DEF TypeOK
    <3>2. \/ stack' = Enter("delay")
          \/ Low \in sendSensorUpdate /\ stack' = Enter(SentPoint(Low))
          \/ High \in sendSensorUpdate /\ stack' = Enter(SentPoint(High))
      BY <2>1 DEF loop, SendUpdate, HighLevelPart
    <3>3. stack' \in StackType
      BY <2>1, <3>1, <3>2, StackTypes, PointNames DEF loop
    <3> QED
      BY <2>1, <3>3 DEF loop, SendUpdate, HighLevelPart, TypeOK, readings
  <2>2. ASSUME NEW sensor \in Sensors, SentWaitEnds(sensor) PROVE TypeOK'
    <3>1. stack' \in StackType
      BY <2>2, StackTypes, PointNames DEF SentWaitEnds
    <3> QED
      BY <2>2, <3>1 DEF SentWaitEnds, Report, Reports, TypeOK, readings
  <2>3. CASE LowToldWaitEnds \/ HighToldWaitEnds
    <3>1. stack' \in StackType
      BY <2>3, StackTypes, PointNames, AtPoints, SensorsAssumption
      DEF LowToldWaitEnds, HighToldWaitEnds, SendUpdate, HighLevelPart, TypeOK
    <3>2. alarms' \in PoolType /\ crowded' \in SUBSET Sensors
      BY <2>3, AtPoints, PoolTypes
      DEF LowToldWaitEnds, HighToldWaitEnds, CheckAckAlarm, TypeOK
    <3> QED
      BY <2>3, <3>1, <3>2
      DEF LowToldWaitEnds, HighToldWaitEnds, SendUpdate, HighLevelPart, TypeOK, readings
  <2>4. CASE DelayEnds \/ TailWaitEnds \/ PresentingNode \/ PassEnds
    <3>1. stack' \in StackType
      BY <2>4, StackTypes, PointNames
      DEF DelayEnds, TailWaitEnds, TailReturns, PresentingNode, ConfigWaitEnds, PassEnds, EndPass
    <3> QED
      BY <2>4, <3>1
      DEF DelayEnds, TailWaitEnds, TailReturns, PresentingNode, ConfigWaitEnds, PassEnds,
          EndPass, TypeOK, sketch, readings, reports
  <2>5. ASSUME NEW sensor \in Sensors, ReceiveAck(sensor) PROVE TypeOK'
    BY <2>5 DEF ReceiveAck, TypeOK, readings
  <2>6. CASE ReceiveStatus \/ ReceivePresentationRequest \/ PassBegins
    <3>1. stack' \in StackType
      BY <2>6, StackTypes, PointNames
      DEF ReceiveStatus, ReceivePresentationRequest, PassBegins, ServiceAlarms
    <3> QED
      BY <2>6, <3>1
      DEF ReceiveStatus, ReceivePresentationRequest, PassBegins, ServiceAlarms, TypeOK,
          sketch, readings, reports
  <2>7. CASE PresentationEnds
    <3>1. stack' \in StackType /\ alarms' \in PoolType
      BY <2>7, StackTypes, PoolTypes, PointNames DEF PresentationEnds
    <3> QED
      BY <2>7, <3>1 DEF PresentationEnds, TypeOK, readings, reports
  <2>8. CASE setup
    <3>1. stack' \in StackType /\ alarms' \in PoolType
      BY <2>8, StackTypes, PoolTypes, PointNames DEF setup
    <3> QED
      BY <2>8, <3>1 DEF setup, TypeOK
  <2>9. ASSUME NEW s \in Slots, RunAlarm(s) PROVE TypeOK'
    <3>1. stack' \in StackType /\ alarms' \in PoolType
      BY <2>9, StackTypes, PoolTypes DEF RunAlarm, PassReaches
    <3>2. tankAt' \in SUBSET Sensors /\ sendSensorUpdate' \in SUBSET Sensors /\ UNCHANGED reports
      BY <2>9 DEF RunAlarm, checkFloatSensors, checkAck, TypeOK, readings
    <3> QED
      BY <2>9, <3>1, <3>2 DEF RunAlarm, TypeOK, reports
  <2>10. CASE SecondPasses
    BY <2>10, PoolTypes DEF SecondPasses, Second, TypeOK, sketch, readings, reports
  <2>11. ASSUME NEW sensor \in Sensors, WaterMoves(sensor) PROVE TypeOK'
    BY <2>11 DEF WaterMoves, TypeOK, readings, reports
  <2>12. CASE Restart
    BY <1>2, <2>12, RestartIsInit
  <2>13. CASE UNCHANGED vars
    BY <2>13 DEF vars, TypeOK, readings, reports
  <2> QED
    BY <2>1, <2>2, <2>3, <2>4, <2>5, <2>6, <2>7, <2>8, <2>9, <2>10, <2>11, <2>12, <2>13
    DEF Next, WaitEnds
<1> QED
  BY <1>1, <1>3, PTL DEF Spec

-----------------------------------------------------------------------------
(* Before setup() *)

\* A call on top of what is in progress.
LEMMA StartCall ==
    ASSUME TypeOK, StartInv, NEW p \in Points \ {"register"}, stack' = Call(p),
           setupDone \/ p \notin LoopPoints,
           UNCHANGED setupDone, setupDone \/ UNCHANGED told
    PROVE  StartInv'
<1>1. stack \in Seq(Frames(Points)) /\ Len(stack) \in Nat
  BY LenProperties DEF TypeOK
<1>2. /\ stack' \in Seq(Frames(Points)) /\ Len(stack') = Len(stack) + 1
      /\ \A i \in 1 .. Len(stack) : stack'[i] = stack[i]
      /\ stack'[Len(stack) + 1].at = p
  BY <1>1, CallAddsFrame
<1>3. ASSUME NEW i \in DOMAIN stack', stack'[i].at = "register" PROVE i = 1 /\ ~setupDone
  BY <1>1, <1>2, <1>3 DEF StartInv
<1>4. ASSUME ~setupDone
      PROVE  /\ stack' # <<>>
             /\ stack'[1].at \in {"config", "present", "register"}
             /\ ~InProgress(LoopPoints)'
             /\ \A sensor \in Sensors : told'[sensor] = "nothing"
  <2>1. stack # <<>> /\ 1 \in 1 .. Len(stack)
    BY <1>1, <1>4, EmptySeq DEF StartInv
  <2>2. InProgress(LoopPoints)' <=> InProgress(LoopPoints) \/ p \in LoopPoints
    BY <1>1, InProgressAfterCall
  <2> QED
    BY <1>1, <1>2, <1>4, <2>1, <2>2 DEF StartInv
<1> QED
  BY <1>3, <1>4 DEF StartInv

\* The running call goes on to another point.
LEMMA StartGoto ==
    ASSUME TypeOK, StartInv, \E q \in Points : At(q),
           NEW p \in Points, stack' = Goto(p),
           \/ setupDone /\ p # "register" /\ UNCHANGED setupDone
           \/ p \in {"present", "register"} /\ UNCHANGED <<setupDone, told>>,
           p = "register" => ~setupDone /\ Len(stack) = 1
    PROVE  StartInv'
<1>1. stack \in Seq(Frames(Points)) /\ stack # <<>> /\ Len(stack) \in 1 .. Len(stack)
  BY AtIsTop, PointNames DEF TypeOK
<1>2. /\ stack' \in Seq(Frames(Points)) /\ Len(stack') = Len(stack)
      /\ \A i \in 1 .. Len(stack) - 1 : stack'[i] = stack[i]
      /\ stack'[Len(stack)].at = p
  BY <1>1, GotoReplacesTop
<1>3. ASSUME NEW i \in DOMAIN stack', stack'[i].at = "register" PROVE i = 1 /\ ~setupDone
  <2>1. i \in 1 .. Len(stack) /\ DOMAIN stack = 1 .. Len(stack)
    BY <1>1, <1>2, LenProperties
  <2>2. CASE i = Len(stack)
    BY <1>2, <1>3, <2>2
  <2>3. CASE i # Len(stack)
    <3>1. i \in 1 .. Len(stack) - 1
      BY <2>1, <2>3
    <3> QED
      BY <1>2, <1>3, <2>1, <3>1 DEF StartInv
  <2> QED
    BY <2>2, <2>3
<1>4. ASSUME ~setupDone
      PROVE  /\ stack' # <<>>
             /\ stack'[1].at \in {"config", "present", "register"}
             /\ ~InProgress(LoopPoints)'
             /\ \A sensor \in Sensors : told'[sensor] = "nothing"
  <2>1. ~InProgress(LoopPoints)'
    BY <1>1, <1>4, InProgressAfterGoto, PointNames DEF StartInv
  <2>2. stack'[1].at \in {"config", "present", "register"}
    <3>1. CASE Len(stack) = 1
      BY <1>2, <1>4, <3>1
    <3>2. CASE Len(stack) # 1
      <4>1. 1 \in 1 .. Len(stack) - 1
        BY <1>1, <3>2
      <4> QED
        BY <1>2, <1>4, <4>1 DEF StartInv
    <3> QED
      BY <3>1, <3>2
  <2>3. stack' # <<>>
    BY <1>1, <1>2, EmptySeq
  <2> QED
    BY <1>4, <2>1, <2>2, <2>3 DEF StartInv
<1> QED
  BY <1>3, <1>4 DEF StartInv

\* A service pass moves on.
LEMMA StartAdvance ==
    ASSUME TypeOK, StartInv, At("pass"), NEW s \in Slots, stack' = Advance(s),
           UNCHANGED <<setupDone, told>>
    PROVE  StartInv'
<1>1. stack \in Seq(Frames(Points)) /\ stack # <<>> /\ Len(stack) \in 1 .. Len(stack)
  BY AtIsTop, PointNames DEF TypeOK
<1>2. /\ stack' \in Seq(Frames(Points)) /\ Len(stack') = Len(stack)
      /\ \A i \in 1 .. Len(stack) : stack'[i].at = stack[i].at
  BY <1>1, AdvanceKeepsPoints
<1>3. DOMAIN stack' = 1 .. Len(stack) /\ DOMAIN stack = 1 .. Len(stack) /\ 1 \in 1 .. Len(stack)
  BY <1>1, <1>2, LenProperties
<1>4. stack' # <<>>
  BY <1>1, <1>2, EmptySeq
<1>5. InProgress(LoopPoints)' <=> InProgress(LoopPoints)
  BY <1>1, InProgressAfterAdvance
<1> QED
  BY <1>2, <1>3, <1>4, <1>5 DEF StartInv

\* A service pass moves on and runs a handler that waits.
LEMMA StartAdvanceAndCall ==
    ASSUME TypeOK, StartInv, At("pass"), NEW s \in Slots,
           stack' = AdvanceAndCall(s, "tail"), UNCHANGED <<setupDone, told>>
    PROVE  StartInv'
<1>1. stack \in Seq(Frames(Points)) /\ stack # <<>> /\ Len(stack) \in 1 .. Len(stack)
  BY AtIsTop, PointNames DEF TypeOK
<1>2. "tail" \in Points \ LoopPoints
  BY PointNames
<1>3. /\ stack' \in Seq(Frames(Points)) /\ Len(stack') = Len(stack) + 1
      /\ \A i \in 1 .. Len(stack) : stack'[i].at = stack[i].at
      /\ stack'[Len(stack) + 1].at = "tail"
  BY <1>1, <1>2, AdvanceAndCallAddsFrame
<1>4. /\ DOMAIN stack' = 1 .. Len(stack) + 1 /\ DOMAIN stack = 1 .. Len(stack)
      /\ 1 \in 1 .. Len(stack)
  BY <1>1, <1>3, LenProperties
<1>5. stack' # <<>>
  BY <1>1, <1>3, EmptySeq
<1>6. InProgress(LoopPoints)' <=> InProgress(LoopPoints)
  BY <1>1, <1>2, InProgressAfterAdvanceAndCall
<1>7. ASSUME NEW i \in DOMAIN stack', stack'[i].at = "register" PROVE i = 1 /\ ~setupDone
  <2>1. i \in DOMAIN stack
    BY <1>1, <1>3, <1>4, <1>7
  <2> QED
    BY <1>3, <1>4, <1>7, <2>1 DEF StartInv
<1> QED
  BY <1>3, <1>4, <1>5, <1>6, <1>7 DEF StartInv

\* The running call returns; before setup() the outermost does not.
LEMMA StartReturn ==
    ASSUME TypeOK, StartInv, NEW q \in Points, At(q), stack' = Return,
           setupDone \/ Len(stack) > 1 \/ q \notin {"config", "present", "register"},
           UNCHANGED <<setupDone, told>>
    PROVE  StartInv'
<1>1. /\ stack \in Seq(Frames(Points)) /\ stack # <<>> /\ Len(stack) \in 1 .. Len(stack)
      /\ stack[Len(stack)].at = q
  BY AtIsTop, PointNames DEF TypeOK
<1>2. /\ stack' \in Seq(Frames(Points)) /\ Len(stack') = Len(stack) - 1
      /\ \A i \in 1 .. Len(stack) - 1 : stack'[i] = stack[i]
  BY <1>1, ReturnRemovesTop
<1>3. ASSUME NEW i \in DOMAIN stack', stack'[i].at = "register" PROVE i = 1 /\ ~setupDone
  <2>1. i \in 1 .. Len(stack) - 1 /\ i \in DOMAIN stack
    BY <1>1, <1>2, LenProperties
  <2> QED
    BY <1>2, <1>3, <2>1 DEF StartInv
<1>4. ASSUME ~setupDone
      PROVE  /\ stack' # <<>>
             /\ stack'[1].at \in {"config", "present", "register"}
             /\ ~InProgress(LoopPoints)'
  <2>1. ~InProgress(LoopPoints)'
    BY <1>1, <1>4, InProgressAfterReturn DEF StartInv
  <2>2. Len(stack) # 1
    BY <1>1, <1>4 DEF StartInv
  <2>3. 1 \in 1 .. Len(stack) - 1
    BY <1>1, <2>2, LenProperties
  <2>4. stack' # <<>>
    <3>1. Len(stack') # 0
      BY <1>1, <1>2, <2>2
    <3> QED
      BY <3>1, EmptySeq
  <2>5. stack'[1].at = stack[1].at
    BY <1>2, <2>3
  <2> QED
    BY <1>4, <2>1, <2>4, <2>5 DEF StartInv
<1> QED
  BY <1>3, <1>4 DEF StartInv

\* Nothing of loop() is in progress before setup().
LEMMA LoopIsLater ==
    ASSUME TypeOK, StartInv
    PROVE  /\ Idle => setupDone
           /\ \A q \in LoopPoints : At(q) => setupDone
           /\ At("delay") \/ At("tail") \/ At("pass") => setupDone \/ Len(stack) > 1
<1>1. Idle => setupDone
  BY IdleIsEmpty DEF StartInv
<1>2. ASSUME NEW q \in LoopPoints, At(q) PROVE setupDone
  <2>1. Len(stack) \in 1 .. Len(stack) /\ stack[Len(stack)].at = q /\ stack \in Seq(Frames(Points))
    BY <1>2, AtIsTop, PointNames DEF TypeOK
  <2>2. InProgress(LoopPoints)
    BY <2>1, LenProperties DEF InProgress
  <2> QED
    BY <2>2 DEF StartInv
<1>3. ASSUME At("delay") \/ At("tail") \/ At("pass") PROVE setupDone \/ Len(stack) > 1
  <2>1. Len(stack) \in 1 .. Len(stack) /\ stack[Len(stack)].at \in {"delay", "tail", "pass"}
    BY <1>3, AtIsTop DEF TypeOK
  <2> QED
    BY <2>1 DEF StartInv
<1> QED
  BY <1>1, <1>2, <1>3

\* Nothing is reported before setup().
LEMMA StartInvariant == Spec => []StartInv
<1>1. Init => StartInv
  BY DEF Init, StartInv, Frame, InProgress, LoopPoints, SentPoint, ToldPoint
<1>2. Init' => StartInv'
  BY <1>1, PTL
<1>3. TypeOK /\ StartInv /\ [Next]_vars => StartInv'
  <2> SUFFICES ASSUME TypeOK, StartInv, [Next]_vars PROVE StartInv'
    OBVIOUS
  <2>1. CASE loop
    <3>1. setupDone /\ UNCHANGED setupDone
      BY <2>1, LoopIsLater DEF loop
    <3>2. \E p \in Points \ {"register"} : stack' = Call(p)
      BY <2>1, PointNames DEF loop, SendUpdate, HighLevelPart, Enter, TypeOK
    <3> QED
      BY <3>1, <3>2, StartCall
  <2>2. ASSUME NEW sensor \in Sensors, SentWaitEnds(sensor) PROVE StartInv'
    <3>1. setupDone /\ UNCHANGED setupDone
      BY <2>2, LoopIsLater, PointNames DEF SentWaitEnds
    <3>2. /\ At(SentPoint(sensor)) /\ stack' = Goto(ToldPoint(sensor))
          /\ SentPoint(sensor) \in Points /\ ToldPoint(sensor) \in Points
          /\ ToldPoint(sensor) # "register"
      BY <2>2, PointNames DEF SentWaitEnds, ToldPoint
    <3> QED
      BY <3>1, <3>2, StartGoto
  <2>3. CASE LowToldWaitEnds \/ HighToldWaitEnds
    <3>1. \E q \in LoopPoints : At(q)
      BY <2>3, AtPoints, PointNames DEF LowToldWaitEnds, HighToldWaitEnds, ToldPoint, Low, High
    <3>2. setupDone /\ UNCHANGED setupDone
      BY <2>3, <3>1, LoopIsLater DEF LowToldWaitEnds, HighToldWaitEnds
    <3>3. ~Idle
      BY <3>1, PointNames DEF Idle, At
    <3>4. \E p \in Points \ {"register"} : stack' = Goto(p)
      BY <2>3, <3>3, PointNames
      DEF LowToldWaitEnds, HighToldWaitEnds, SendUpdate, HighLevelPart, Enter, TypeOK
    <3>5. \E q \in Points : At(q)
      BY <3>1, PointNames
    <3> QED
      BY <3>2, <3>4, <3>5, StartGoto
  <2>4. CASE DelayEnds \/ TailWaitEnds \/ PassEnds
    BY <2>4, StartReturn, PointNames
    DEF DelayEnds, TailWaitEnds, TailReturns, PassEnds, EndPass, sketch, reports
  <2>5. CASE PresentingNode
    <3>1. At("config") /\ stack' = Goto("present") /\ UNCHANGED <<setupDone, told>>
      BY <2>5 DEF PresentingNode, ConfigWaitEnds, sketch, reports
    <3>2. "config" \in Points /\ "present" \in Points
      BY PointNames
    <3> QED
      BY <3>1, <3>2, StartGoto
  <2>6. CASE PresentationEnds
    <3>1. At("present") /\ "present" \in Points /\ "register" \in Points
      BY <2>6, PointNames DEF PresentationEnds
    <3>2. CASE setupDone \/ Len(stack) > 1
      <4>1. stack' = Return /\ UNCHANGED <<setupDone, told>>
        BY <2>6, <3>2 DEF PresentationEnds, reports
      <4> QED
        BY <3>1, <3>2, <4>1, StartReturn
    <3>3. CASE ~ (setupDone \/ Len(stack) > 1)
      <4>1. stack' = Goto("register") /\ UNCHANGED <<setupDone, told>>
        BY <2>6, <3>3 DEF PresentationEnds, reports
      <4>2. Len(stack) \in Nat \ {0}
        <5>1. stack \in Seq(Frames(Points)) /\ stack # <<>>
          BY <3>1, AtIsTop DEF TypeOK
        <5> QED
          BY <5>1, EmptySeq
      <4>3. Len(stack) = 1
        <5>1. ~ (Len(stack) > 1)
          BY <3>3
        <5>2. \A n \in Nat \ {0} : ~ (n > 1) => n = 1
          OBVIOUS
        <5> QED
          BY <4>2, <5>1, <5>2
      <4> QED
        BY <3>1, <3>3, <4>1, <4>3, StartGoto
    <3> QED
      BY <3>2, <3>3
  <2>7. CASE setup
    <3>1. /\ Len(stack) \in 1 .. Len(stack) /\ stack[Len(stack)].at = "register"
          /\ stack \in Seq(Frames(Points)) /\ stack # <<>>
      BY <2>7, AtIsTop DEF setup, TypeOK
    <3>2. Len(stack) = 1
      BY <3>1, LenProperties DEF StartInv
    <3>3. stack' \in Seq(Frames(Points)) /\ Len(stack') = 0
      BY <2>7, <3>1, <3>2, ReturnRemovesTop DEF setup
    <3>4. DOMAIN stack' = {}
      BY <3>3, LenProperties
    <3> QED
      BY <2>7, <3>4 DEF setup, StartInv
  <2>8. CASE ReceiveStatus \/ ReceivePresentationRequest \/ PassBegins
    <3>1. \E p \in {"tail", "config", "pass"} : stack' = Call(p) /\ UNCHANGED <<setupDone, told>>
      BY <2>8 DEF ReceiveStatus, ReceivePresentationRequest, PassBegins, ServiceAlarms,
                  sketch, reports
    <3> QED
      BY <3>1, StartCall, PointNames
  <2>9. ASSUME NEW s \in Slots, RunAlarm(s) PROVE StartInv'
    <3>1. /\ At("pass") /\ UNCHANGED <<setupDone, told>>
          /\ stack' = Advance(s) \/ stack' = AdvanceAndCall(s, "tail")
      BY <2>9 DEF RunAlarm, PassReaches, checkFloatSensors, checkAck, reports
    <3> QED
      BY <3>1, StartAdvance, StartAdvanceAndCall
  <2>10. CASE UNCHANGED <<stack, setupDone, told>>
    BY <2>10 DEF StartInv, InProgress
  <2>11. \/ SecondPasses \/ (\E sensor \in Sensors : ReceiveAck(sensor) \/ WaterMoves(sensor))
         \/ UNCHANGED vars
         => UNCHANGED <<stack, setupDone, told>>
    BY DEF SecondPasses, Second, ReceiveAck, WaterMoves, vars, sketch, reports
  <2>12. CASE Restart
    BY <1>2, <2>12, RestartIsInit
  <2> QED
    BY <2>1, <2>2, <2>3, <2>4, <2>5, <2>6, <2>7, <2>8, <2>9, <2>10, <2>11, <2>12
    DEF Next, WaitEnds
<1> QED
  BY <1>1, <1>3, TypeCorrect, PTL DEF Spec

-----------------------------------------------------------------------------
(* Reports are current *)

\* A call that begins, goes on or returns leaves what is in progress below it.
LEMMA OthersStayInProgress ==
    ASSUME TypeOK, NEW Q, InProgress(Q),
           \/ \E p \in Points : stack' = Call(p)
           \/ \E q \in Points \ Q : At(q) /\ (stack' = Return \/ \E p \in Points : stack' = Goto(p))
           \/ At("pass") /\ \E s \in Slots : \/ stack' = Advance(s)
                                             \/ stack' = AdvanceAndCall(s, "tail")
           \/ stack' = stack
    PROVE  InProgress(Q)'
<1>1. stack \in Seq(Frames(Points))
  BY DEF TypeOK
<1>2. ASSUME NEW p \in Points, stack' = Call(p) PROVE InProgress(Q)'
  BY <1>1, <1>2, InProgressAfterCall
<1>3. ASSUME NEW q \in Points \ Q, At(q), stack' = Return PROVE InProgress(Q)'
  BY <1>1, <1>3, PointNames, AtIsTop, InProgressAfterReturn
<1>4. ASSUME NEW q \in Points \ Q, At(q), NEW p \in Points, stack' = Goto(p)
      PROVE  InProgress(Q)'
  <2>1. stack # <<>> /\ stack[Len(stack)].at \notin Q
    BY <1>1, <1>4, PointNames, AtIsTop
  <2> QED
    BY <1>1, <1>4, <2>1, InProgressAfterGoto
<1>5. ASSUME At("pass"), NEW s \in Slots, stack' = Advance(s) PROVE InProgress(Q)'
  BY <1>1, <1>5, PointNames, AtIsTop, InProgressAfterAdvance
<1>6. ASSUME At("pass"), NEW s \in Slots, stack' = AdvanceAndCall(s, "tail")
      PROVE  InProgress(Q)'
  BY <1>1, <1>6, PointNames, AtIsTop, InProgressAfterAdvanceAndCall
<1>7. CASE stack' = stack
  BY <1>7 DEF InProgress
<1> QED
  BY <1>2, <1>3, <1>4, <1>5, <1>6, <1>7

\* loop() enters a point: it is in progress, and what was before still is.
LEMMA EnterBegins ==
    ASSUME TypeOK, NEW p \in Points, stack' = Enter(p),
           NEW q \in Points, At(q) \/ Idle
    PROVE  /\ \A Q : p \in Q => InProgress(Q)'
           /\ \A Q : InProgress(Q) /\ (Idle \/ q \notin Q) => InProgress(Q)'
<1>1. stack \in Seq(Frames(Points))
  BY DEF TypeOK
<1>2. ASSUME Idle, NEW Q
      PROVE  InProgress(Q)' <=> InProgress(Q) \/ p \in Q
  BY <1>1, <1>2, InProgressAfterCall DEF Enter
<1>3. ASSUME ~Idle, NEW Q
      PROVE  /\ p \in Q => InProgress(Q)'
             /\ InProgress(Q) /\ q \notin Q => InProgress(Q)'
  <2>1. stack # <<>> /\ stack[Len(stack)].at = q /\ stack' = Goto(p)
    BY <1>1, <1>3, PointNames, AtIsTop DEF Enter
  <2> QED
    BY <1>1, <2>1, InProgressAfterGoto
<1> QED
  BY <1>2, <1>3

\* No two sensors share a point or an alarm.
LEMMA SensorsApart ==
    \A x \in Sensors, y \in Sensors :
        /\ SentPoint(x) # ToldPoint(y)
        /\ x # y => /\ SentPoint(x) # SentPoint(y)
                    /\ ToldPoint(x) # ToldPoint(y)
                    /\ CheckAck(x) # CheckAck(y)
BY SensorsAssumption DEF SentPoint, ToldPoint, CheckAck, Low, High

\* At the point where setup() comes nothing has been reported.
LEMMA NothingToldBeforeSetup ==
    ASSUME TypeOK, StartInv, At("register")
    PROVE  \A sensor \in Sensors : told[sensor] = "nothing"
<1>1. /\ Len(stack) \in 1 .. Len(stack) /\ stack[Len(stack)].at = "register"
      /\ stack \in Seq(Frames(Points))
  BY AtIsTop DEF TypeOK
<1>2. Len(stack) \in DOMAIN stack
  BY <1>1, LenProperties
<1> QED
  BY <1>1, <1>2 DEF StartInv

\* The steps that neither read a sensor nor take down a flag nor begin or end a report.
QuietStep ==
    \/ DelayEnds \/ TailWaitEnds \/ PresentingNode \/ PassEnds \/ PresentationEnds
    \/ ReceiveStatus \/ ReceivePresentationRequest \/ PassBegins
    \/ \E sensor \in Sensors : ReceiveAck(sensor) \/ WaterMoves(sensor)
    \/ SecondPasses \/ UNCHANGED vars

LEMMA QuietSteps ==
    ASSUME TypeOK, QuietStep
    PROVE  /\ UNCHANGED <<readings, told>>
           /\ \A Q \in SUBSET LoopPoints : InProgress(Q) => InProgress(Q)'
<1>1. UNCHANGED <<readings, told>>
  BY DEF QuietStep, DelayEnds, TailWaitEnds, TailReturns, PresentingNode, ConfigWaitEnds,
         PassEnds, EndPass, PresentationEnds, ReceiveStatus, ReceivePresentationRequest,
         PassBegins, ServiceAlarms, ReceiveAck, WaterMoves, SecondPasses, Second, vars,
         sketch, reports, readings
<1>2. \/ \E p \in {"tail", "config", "pass"} : stack' = Call(p)
      \/ \E q \in {"delay", "tail", "config", "pass", "present"} :
            /\ At(q)
            /\ stack' = Return \/ \E p \in {"present", "register"} : stack' = Goto(p)
      \/ stack' = stack
  BY DEF QuietStep, DelayEnds, TailWaitEnds, TailReturns, PresentingNode, ConfigWaitEnds,
         PassEnds, EndPass, PresentationEnds, ReceiveStatus, ReceivePresentationRequest,
         PassBegins, ServiceAlarms, ReceiveAck, WaterMoves, SecondPasses, Second, vars
<1>3. ASSUME NEW Q \in SUBSET LoopPoints, InProgress(Q) PROVE InProgress(Q)'
  <2>1. \/ \E p \in Points : stack' = Call(p)
        \/ \E q \in Points \ Q :
              At(q) /\ (stack' = Return \/ \E p \in Points : stack' = Goto(p))
        \/ stack' = stack
    BY <1>2, PointNames
  <2> QED
    BY <1>3, <2>1, OthersStayInProgress
<1> QED
  BY <1>1, <1>3

\* Whatever arrives while a report is under way, an idle node has told the motor node what
\* it has read last, or is about to.
THEOREM NoReadingLost == Spec => []ReportIsCurrent
<1>1. Init => CurrentInv
  BY DEF Init, CurrentInv
<1>2. Init' => CurrentInv'
  BY <1>1, PTL
<1>3. TypeOK /\ StartInv /\ CurrentInv /\ [Next]_vars => CurrentInv'
  <2> SUFFICES ASSUME TypeOK, StartInv, CurrentInv, [Next]_vars, NEW x \in Sensors
               PROVE  \/ told'[x] \in {"nothing", Report(x \in tankAt')}
                      \/ x \in sendSensorUpdate'
                      \/ ReportUnderWay(x)'
    BY DEF CurrentInv
  <2> DEFINE Kept == \/ told'[x] \in {"nothing", Report(x \in tankAt')}
                     \/ x \in sendSensorUpdate'
                     \/ ReportUnderWay(x)'
  <2> DEFINE Q == {SentPoint(x)}
  <2>1. \/ told[x] \in {"nothing", Report(x \in tankAt)}
        \/ x \in sendSensorUpdate
        \/ InProgress(Q)
    BY DEF CurrentInv, ReportUnderWay
  <2>2. Q \in SUBSET LoopPoints /\ "pass" \notin Q
    BY PointNames
  <2>3. ASSUME NEW sensor \in Sensors, SendUpdate(sensor),
               NEW q \in Points, At(q) \/ Idle, Idle \/ q \notin Q
        PROVE  Kept
    <3>1. stack' = Enter(SentPoint(sensor)) /\ SentPoint(sensor) \in Points
      BY <2>3, PointNames DEF SendUpdate
    <3>2. CASE sensor = x
      BY <2>3, <3>1, <3>2, EnterBegins DEF ReportUnderWay
    <3>3. CASE sensor # x
      <4>1. InProgress(Q) => InProgress(Q)'
        BY <2>3, <3>1, EnterBegins
      <4> QED
        BY <2>1, <2>3, <3>3, <4>1 DEF SendUpdate, ReportUnderWay
    <3> QED
      BY <3>2, <3>3
  <2>4. ASSUME HighLevelPart, NEW q \in Points, At(q) \/ Idle, Idle \/ q \notin Q
        PROVE  Kept
    <3>1. CASE SendUpdate(High)
      BY <2>3, <2>4, <3>1 DEF SendUpdate, TypeOK
    <3>2. CASE stack' = Enter("delay") /\ UNCHANGED <<readings, acked, told>>
      <4>1. InProgress(Q) => InProgress(Q)'
        BY <2>4, <3>2, EnterBegins, PointNames
      <4> QED
        BY <2>1, <3>2, <4>1 DEF readings, ReportUnderWay
    <3> QED
      BY <2>4, <3>1, <3>2 DEF HighLevelPart
  <2>5. CASE loop
    <3>1. "pass" \in Points
      BY PointNames
    <3> QED
      BY <2>3, <2>4, <2>5, <3>1 DEF loop, SendUpdate, TypeOK
  <2>6. ASSUME NEW sensor \in Sensors, SentWaitEnds(sensor) PROVE Kept
    <3>1. CASE sensor = x
      BY <2>6, <3>1 DEF SentWaitEnds, TypeOK, readings
    <3>2. CASE sensor # x
      <4>1. /\ At(SentPoint(sensor)) /\ SentPoint(sensor) \in Points \ Q
            /\ stack' = Goto(ToldPoint(sensor)) /\ ToldPoint(sensor) \in Points
        BY <2>6, <3>2, PointNames, SensorsApart DEF SentWaitEnds
      <4>2. InProgress(Q) => InProgress(Q)'
        BY <4>1, OthersStayInProgress
      <4> QED
        BY <2>1, <2>6, <3>2, <4>2 DEF SentWaitEnds, TypeOK, readings, ReportUnderWay
    <3> QED
      BY <3>1, <3>2
  <2>7. CASE LowToldWaitEnds
    <3>1. "lowTold" \in Points /\ At("lowTold") /\ "lowTold" \notin Q
      BY <2>7, AtPoints DEF LowToldWaitEnds, SentPoint
    <3> QED
      BY <2>4, <2>7, <3>1 DEF LowToldWaitEnds
  <2>8. CASE HighToldWaitEnds
    <3>1. /\ "highTold" \in Points \ Q /\ At("highTold")
          /\ stack' = Goto("delay") /\ "delay" \in Points
      BY <2>8, AtPoints, PointNames DEF HighToldWaitEnds, SentPoint
    <3>2. InProgress(Q) => InProgress(Q)'
      BY <3>1, OthersStayInProgress
    <3> QED
      BY <2>1, <2>8, <3>2 DEF HighToldWaitEnds, readings, ReportUnderWay
  <2>9. CASE QuietStep
    BY <2>1, <2>2, <2>9, QuietSteps DEF readings, ReportUnderWay
  <2>10. CASE setup
    BY <2>10, NothingToldBeforeSetup DEF setup
  <2>11. ASSUME NEW s \in Slots, RunAlarm(s) PROVE Kept
    <3>1. InProgress(Q) => InProgress(Q)'
      BY <2>11, OthersStayInProgress DEF RunAlarm, PassReaches
    <3>2. told' = told /\ (x \in sendSensorUpdate => x \in sendSensorUpdate')
      BY <2>11 DEF RunAlarm, checkFloatSensors, checkAck, readings, reports
    <3>3. (x \in tankAt') = (x \in tankAt) \/ x \in sendSensorUpdate'
      BY <2>11 DEF RunAlarm, checkFloatSensors, checkAck, readings, reports
    <3> QED
      BY <2>1, <3>1, <3>2, <3>3 DEF ReportUnderWay
  <2>12. CASE Restart
    <3>1. CurrentInv'
      BY <1>2, <2>12, RestartIsInit
    <3> QED
      BY <3>1 DEF CurrentInv
  <2> QED
    BY <2>5, <2>6, <2>7, <2>8, <2>9, <2>10, <2>11, <2>12 DEF Next, WaitEnds, QuietStep
<1>4. TypeOK /\ CurrentInv => ReportIsCurrent
  <2> SUFFICES ASSUME TypeOK, CurrentInv, Idle PROVE ReportIsCurrent
    BY DEF ReportIsCurrent
  <2>1. \A Q : ~InProgress(Q)
    BY IdleIsEmpty DEF InProgress
  <2> QED
    BY <2>1 DEF CurrentInv, ReportUnderWay, ReportIsCurrent
<1> QED
  BY <1>1, <1>3, <1>4, TypeCorrect, StartInvariant, PTL DEF Spec

-----------------------------------------------------------------------------
(* Reports are repeated *)

\* An alarm asked for is pending unless the pool was full, and no other is lost.
LEMMA AlarmsStay ==
    ASSUME TypeOK, NEW x \in Sensors
    PROVE  /\ \A sensor \in Sensors : CheckAckAlarm(sensor) =>
                  /\ Full(alarms) \/ Pending(CheckAck(sensor))'
                  /\ Pending(CheckAck(x)) => Pending(CheckAck(x))'
           /\ alarms' = timerOnce(alarms, ONE_MINUTE, "checkFloatSensors") =>
                  (Pending(CheckAck(x)) => Pending(CheckAck(x))')
           /\ alarms' = Elapse(alarms) => (Pending(CheckAck(x)) => Pending(CheckAck(x))')
           /\ alarms' = alarms => (Pending(CheckAck(x)) => Pending(CheckAck(x))')
<1>1. alarms \in [Slots -> AlarmsOf(Handlers, ONE_MINUTE)] /\ ONE_MINUTE \in Nat
  BY IntervalAssumption DEF TypeOK
<1>2. /\ "checkFloatSensors" \in Handlers /\ ONE_MINUTE \in 0 .. ONE_MINUTE
      /\ \A sensor \in Sensors : /\ CheckAck(sensor) \in Handlers
                                 /\ AckInterval(sensor) \in 0 .. ONE_MINUTE
                                 /\ CheckAck(sensor) # NoHandler
  BY IntervalAssumption DEF Handlers, CheckAck, AckInterval, NoHandler
<1>3. ASSUME NEW sensor \in Sensors, CheckAckAlarm(sensor)
      PROVE  /\ Full(alarms) \/ Pending(CheckAck(sensor))'
             /\ Pending(CheckAck(x)) => Pending(CheckAck(x))'
  BY <1>1, <1>2, <1>3, TimerOncePends DEF CheckAckAlarm
<1>4. ASSUME alarms' = timerOnce(alarms, ONE_MINUTE, "checkFloatSensors"), Pending(CheckAck(x))
      PROVE  Pending(CheckAck(x))'
  BY <1>1, <1>2, <1>4, TimerOncePends
<1>5. ASSUME alarms' = Elapse(alarms), Pending(CheckAck(x)) PROVE Pending(CheckAck(x))'
  BY <1>1, <1>5, TimeKeepsPending
<1> QED
  BY <1>3, <1>4, <1>5 DEF Pending

\* A report that is not answered will be repeated, unless the pool was full when it was
\* made; no presentation, pass or other report takes the alarm away.
THEOREM UnansweredIsRepeated == Spec => []RetryComes
<1>1. Init => RetryInv
  BY DEF Init, RetryInv
<1>2. Init' => RetryInv'
  BY <1>1, PTL
<1>3. TypeOK /\ StartInv /\ RetryInv /\ [Next]_vars => RetryInv'
  <2> SUFFICES ASSUME TypeOK, StartInv, RetryInv, [Next]_vars, NEW x \in Sensors
               PROVE  \/ told'[x] = "nothing"
                      \/ x \in acked' \cup sendSensorUpdate' \cup crowded'
                      \/ Pending(CheckAck(x))'
                      \/ AlarmToCome(x)'
    BY DEF RetryInv
  <2> DEFINE Kept == \/ told'[x] = "nothing"
                     \/ x \in acked' \cup sendSensorUpdate' \cup crowded'
                     \/ Pending(CheckAck(x))'
                     \/ AlarmToCome(x)'
  <2> DEFINE Q == {SentPoint(x), ToldPoint(x)}
  <2>1. \/ told[x] = "nothing"
        \/ x \in acked \cup sendSensorUpdate \cup crowded
        \/ Pending(CheckAck(x))
        \/ InProgress(Q)
    BY DEF RetryInv, AlarmToCome
  <2>2. Q \in SUBSET LoopPoints /\ "pass" \notin Q
    BY PointNames
  <2>3. ASSUME NEW sensor \in Sensors, SendUpdate(sensor),
               NEW q \in Points, At(q) \/ Idle, Idle \/ q \notin Q,
               x \in crowded => x \in crowded',
               Pending(CheckAck(x)) => Pending(CheckAck(x))'
        PROVE  Kept
    <3>1. stack' = Enter(SentPoint(sensor)) /\ SentPoint(sensor) \in Points
      BY <2>3, PointNames DEF SendUpdate
    <3>2. CASE sensor = x
      BY <2>3, <3>1, <3>2, EnterBegins DEF AlarmToCome
    <3>3. CASE sensor # x
      <4>1. InProgress(Q) => InProgress(Q)'
        BY <2>3, <3>1, EnterBegins
      <4> QED
        BY <2>1, <2>3, <3>3, <4>1 DEF SendUpdate, AlarmToCome
    <3> QED
      BY <3>2, <3>3
  <2>4. ASSUME HighLevelPart, NEW q \in Points, At(q) \/ Idle, Idle \/ q \notin Q,
               x \in crowded => x \in crowded',
               Pending(CheckAck(x)) => Pending(CheckAck(x))'
        PROVE  Kept
    <3>1. CASE SendUpdate(High)
      BY <2>3, <2>4, <3>1 DEF SendUpdate, TypeOK
    <3>2. CASE stack' = Enter("delay") /\ UNCHANGED <<readings, acked, told>>
      <4>1. InProgress(Q) => InProgress(Q)'
        BY <2>4, <3>2, EnterBegins, PointNames
      <4> QED
        BY <2>1, <2>4, <3>2, <4>1 DEF readings, AlarmToCome
    <3> QED
      BY <2>4, <3>1, <3>2 DEF HighLevelPart
  <2>5. CASE loop
    <3>1. /\ "pass" \in Points /\ UNCHANGED crowded
          /\ Pending(CheckAck(x)) => Pending(CheckAck(x))'
      BY <2>5, PointNames, AlarmsStay DEF loop
    <3> QED
      BY <2>3, <2>4, <2>5, <3>1 DEF loop, SendUpdate, TypeOK
  <2>6. ASSUME NEW sensor \in Sensors, SentWaitEnds(sensor) PROVE Kept
    <3>1. /\ At(SentPoint(sensor)) /\ SentPoint(sensor) \in Points
          /\ stack' = Goto(ToldPoint(sensor)) /\ ToldPoint(sensor) \in Points
      BY <2>6, PointNames DEF SentWaitEnds
    <3>2. CASE sensor = x
      <4>1. stack \in Seq(Frames(Points)) /\ stack # <<>>
        BY <3>1, PointNames, AtIsTop DEF TypeOK
      <4>2. InProgress(Q)'
        BY <3>1, <3>2, <4>1, InProgressAfterGoto
      <4> QED
        BY <4>2 DEF AlarmToCome
    <3>3. CASE sensor # x
      <4>1. InProgress(Q) => InProgress(Q)'
        <5>1. SentPoint(sensor) \notin Q
          BY <3>3, SensorsApart
        <5> QED
          BY <3>1, <5>1, OthersStayInProgress
      <4>2. Pending(CheckAck(x)) => Pending(CheckAck(x))'
        BY <2>6, AlarmsStay DEF SentWaitEnds
      <4> QED
        BY <2>1, <2>6, <3>3, <4>1, <4>2 DEF SentWaitEnds, TypeOK, readings, AlarmToCome
    <3> QED
      BY <3>2, <3>3
  <2>7. CASE LowToldWaitEnds
    <3>1. "lowTold" \in Points /\ At("lowTold") /\ Low \in Sensors
      BY <2>7, AtPoints DEF LowToldWaitEnds
    <3>2. /\ Full(alarms) \/ Pending(CheckAck(Low))'
          /\ Pending(CheckAck(x)) => Pending(CheckAck(x))'
      BY <2>7, <3>1, AlarmsStay DEF LowToldWaitEnds
    <3>3. CASE x = Low
      <4>1. Low \in acked => Low \in acked'
        BY <2>7 DEF LowToldWaitEnds, HighLevelPart, SendUpdate, Low, High
      <4> QED
        BY <2>7, <3>2, <3>3, <4>1 DEF LowToldWaitEnds, CheckAckAlarm
    <3>4. CASE x # Low
      <4>1. x \in crowded => x \in crowded'
        BY <2>7, <3>4 DEF LowToldWaitEnds, CheckAckAlarm
      <4>2. "lowTold" \notin Q
        BY <3>4, SensorsAssumption DEF SentPoint, ToldPoint
      <4> QED
        BY <2>4, <2>7, <3>1, <3>2, <4>1, <4>2 DEF LowToldWaitEnds
    <3> QED
      BY <3>3, <3>4
  <2>8. CASE HighToldWaitEnds
    <3>1. /\ "highTold" \in Points /\ At("highTold") /\ High \in Sensors
          /\ stack' = Goto("delay") /\ "delay" \in Points
      BY <2>8, AtPoints, PointNames DEF HighToldWaitEnds
    <3>2. /\ Full(alarms) \/ Pending(CheckAck(High))'
          /\ Pending(CheckAck(x)) => Pending(CheckAck(x))'
      BY <2>8, <3>1, AlarmsStay DEF HighToldWaitEnds
    <3>3. CASE x = High
      BY <2>8, <3>2, <3>3 DEF HighToldWaitEnds, CheckAckAlarm
    <3>4. CASE x # High
      <4>1. x \in crowded => x \in crowded'
        BY <2>8, <3>4 DEF HighToldWaitEnds, CheckAckAlarm
      <4>2. "highTold" \notin Q
        BY <3>4, SensorsAssumption DEF SentPoint, ToldPoint, Low, High
      <4>3. InProgress(Q) => InProgress(Q)'
        BY <3>1, <4>2, OthersStayInProgress
      <4> QED
        BY <2>1, <2>8, <3>2, <4>1, <4>3 DEF HighToldWaitEnds, readings, AlarmToCome
    <3> QED
      BY <3>3, <3>4
  <2>9. CASE QuietStep
    <3>1. UNCHANGED <<readings, told>> /\ (InProgress(Q) => InProgress(Q)')
      BY <2>2, <2>9, QuietSteps
    <3>2. x \in acked \cup crowded => x \in acked' \cup crowded'
      BY <2>9
      DEF QuietStep, DelayEnds, TailWaitEnds, TailReturns, PresentingNode, ConfigWaitEnds,
          PassEnds, EndPass, PresentationEnds, ReceiveStatus, ReceivePresentationRequest,
          PassBegins, ServiceAlarms, ReceiveAck, WaterMoves, SecondPasses, Second, vars,
          sketch, reports
    <3>3. \/ alarms' = timerOnce(alarms, ONE_MINUTE, "checkFloatSensors")
          \/ alarms' = Elapse(alarms) \/ alarms' = alarms
      BY <2>9
      DEF QuietStep, DelayEnds, TailWaitEnds, TailReturns, PresentingNode, ConfigWaitEnds,
          PassEnds, EndPass, PresentationEnds, ReceiveStatus, ReceivePresentationRequest,
          PassBegins, ServiceAlarms, ReceiveAck, WaterMoves, SecondPasses, Second, vars
    <3>4. Pending(CheckAck(x)) => Pending(CheckAck(x))'
      BY <3>3, AlarmsStay
    <3> QED
      BY <2>1, <3>1, <3>2, <3>4 DEF readings, AlarmToCome
  <2>10. CASE setup
    BY <2>10, NothingToldBeforeSetup DEF setup
  <2>11. ASSUME NEW s \in Slots, RunAlarm(s) PROVE Kept
    <3>1. InProgress(Q) => InProgress(Q)'
      BY <2>11, OthersStayInProgress DEF RunAlarm, PassReaches
    <3>2. /\ UNCHANGED reports
          /\ x \in sendSensorUpdate => x \in sendSensorUpdate'
          /\ alarms' = Trigger(alarms, s)
      BY <2>11 DEF RunAlarm, checkFloatSensors, checkAck, readings, reports
    <3>3. CASE alarms[s].handler = CheckAck(x)
      <4>1. checkAck(x)
        BY <2>11, <3>3, SensorsApart DEF RunAlarm, CheckAck
      <4> QED
        BY <4>1 DEF checkAck, reports
    <3>4. CASE alarms[s].handler # CheckAck(x)
      <4>1. Pending(CheckAck(x)) => Pending(CheckAck(x))'
        BY <3>2, <3>4, TriggerKeepsOthers, IntervalAssumption DEF TypeOK
      <4> QED
        BY <2>1, <3>1, <3>2, <4>1 DEF reports, AlarmToCome
    <3> QED
      BY <3>3, <3>4
  <2>12. CASE Restart
    <3>1. RetryInv'
      BY <1>2, <2>12, RestartIsInit
    <3> QED
      BY <3>1 DEF RetryInv
  <2> QED
    BY <2>5, <2>6, <2>7, <2>8, <2>9, <2>10, <2>11, <2>12 DEF Next, WaitEnds, QuietStep
<1>4. TypeOK /\ RetryInv => RetryComes
  <2> SUFFICES ASSUME TypeOK, RetryInv, Idle PROVE RetryComes
    BY DEF RetryComes
  <2>1. \A Q : ~InProgress(Q)
    BY IdleIsEmpty DEF InProgress
  <2> QED
    BY <2>1 DEF RetryInv, AlarmToCome, RetryComes
<1> QED
  BY <1>1, <1>3, <1>4, TypeCorrect, StartInvariant, PTL DEF Spec

-----------------------------------------------------------------------------
(* The tank node and the motor node *)

\* Put together, each node still does only what it does by itself: the tank node what Tank
\* allows, the motor node what PumpGuard allows.
THEOREM NodesKeepTheirSpecs ==
    ASSUME High \in Sensors
    PROVE  ControlSpec => Spec /\ Motor!Spec
<1>1. ControlInit => Init /\ Motor!Init
  BY DEF ControlInit
<1>2. [ControlNext]_controlVars => [Next]_vars
  <2> SUFFICES ASSUME [ControlNext]_controlVars PROVE Next \/ UNCHANGED vars
    OBVIOUS
  <2>1. ASSUME NEW arrives \in BOOLEAN, ReportIsSent(arrives) PROVE Next
    BY <2>1 DEF ReportIsSent, Next, WaitEnds
  <2>2. CASE TankHearsAnswer
    BY <2>2 DEF TankHearsAnswer, Next
  <2>3. CASE TankWorks
    BY <2>3 DEF TankWorks, Next, WaitEnds
  <2>4. CASE TankRestarts
    BY <2>4 DEF TankRestarts, Next
  <2>5. ASSUME NEW answered \in BOOLEAN, MotorHears(answered) PROVE UNCHANGED vars
    BY <2>5 DEF MotorHears, tankNode
  <2>6. CASE MotorWorks \/ MotorSettlesIn \/ MotorRestarts
    BY <2>6 DEF MotorWorks, MotorSettlesIn, MotorRestarts, tankNode
  <2>7. CASE UNCHANGED controlVars
    BY <2>7 DEF controlVars, tankNode
  <2> QED
    BY <2>1, <2>2, <2>3, <2>4, <2>5, <2>6, <2>7 DEF ControlNext
<1>3. [ControlNext]_controlVars => [Motor!Next]_(Motor!vars)
  BY DEF ControlNext, controlVars, ReportIsSent, MotorHears, TankHearsAnswer, TankWorks,
         MotorWorks, MotorSettlesIn, TankRestarts, MotorRestarts, motorNode, Motor!Next,
         Motor!vars
<1> QED
  BY <1>1, <1>2, <1>3, PTL DEF ControlSpec, Spec, Motor!Spec

\* Every variable of the two nodes and the radio holds a value of its type.
THEOREM ControlTypeCorrect ==
    ASSUME High \in Sensors
    PROVE  ControlSpec => []ControlTypeOK
<1> DEFINE Rest == /\ Motor!TypeOK
                   /\ report \in Reports
                   /\ {answer, astray} \subseteq BOOLEAN
<1>1. ControlInit => Rest
  BY DEF ControlInit, Motor!Init, Motor!TypeOK, Silence, Reports
<1>2. TypeOK' /\ Rest /\ [ControlNext]_controlVars => Rest'
  <2> SUFFICES ASSUME TypeOK', Rest, [ControlNext]_controlVars PROVE Rest'
    OBVIOUS
  <2>1. ASSUME NEW arrives \in BOOLEAN, ReportIsSent(arrives) PROVE Rest'
    BY <2>1 DEF ReportIsSent, motorNode, Motor!TypeOK, TypeOK
  <2>2. ASSUME NEW answered \in BOOLEAN, MotorHears(answered) PROVE Rest'
    BY <2>2 DEF MotorHears, Motor!Hear, Motor!TypeOK, Silence, Reports
  <2>3. CASE TankHearsAnswer
    BY <2>3 DEF TankHearsAnswer, motorNode, Motor!TypeOK
  <2>4. CASE TankWorks \/ TankRestarts \/ UNCHANGED controlVars
    BY <2>4 DEF TankWorks, TankRestarts, controlVars, motorNode, radio, Motor!TypeOK
  <2>5. CASE MotorWorks
    BY <2>5 DEF MotorWorks, Motor!SetOut, Motor!Work, Motor!ComeToRest, radio, Motor!TypeOK
  <2>6. CASE MotorSettlesIn \/ MotorRestarts
    BY <2>6 DEF MotorSettlesIn, MotorRestarts, Motor!SettleIn, Motor!Restart, radio, Motor!TypeOK
  <2> QED
    BY <2>1, <2>2, <2>3, <2>4, <2>5, <2>6 DEF ControlNext
<1>3. TypeOK /\ Rest => ControlTypeOK
  BY DEF ControlTypeOK
<1>4. ControlSpec => []TypeOK
  BY NodesKeepTheirSpecs, TypeCorrect, PTL
<1> QED
  BY <1>1, <1>2, <1>3, <1>4, PTL DEF ControlSpec

\* In all that the tank node does but hear an answer and report, what has been told is kept
\* or forgotten in a restart, and no answer comes to be held for one.
LEMMA TankWorkKeepsAnswers ==
    ASSUME TankWorks
    PROVE  told' = told /\ acked' \subseteq acked
BY DEF TankWorks, loop, SendUpdate, HighLevelPart, HighToldWaitEnds, DelayEnds, PresentingNode,
       ConfigWaitEnds, PresentationEnds, setup, PassBegins, ServiceAlarms, PassEnds, EndPass,
       RunAlarm, checkFloatSensors, checkAck, SecondPasses, WaterMoves, sketch, readings, reports

\* Where the two differ while the tank node is idle, the last report is on its way or is
\* going to be made again, whatever the radio loses, doubles and delays.
THEOREM DifferencesAreMended ==
    ASSUME High \in Sensors
    PROVE  ControlSpec => []DifferenceIsMended
<1>1. ControlInit => AnswerInv
  BY DEF ControlInit, Init, AnswerInv
<1>2. ControlTypeOK /\ AnswerInv /\ [ControlNext]_controlVars => AnswerInv'
  <2> SUFFICES ASSUME ControlTypeOK, AnswerInv, [ControlNext]_controlVars PROVE AnswerInv'
    OBVIOUS
  <2>1. ASSUME NEW arrives \in BOOLEAN, ReportIsSent(arrives) PROVE AnswerInv'
    BY <2>1 DEF ReportIsSent, SentWaitEnds, AnswerInv
  <2>2. ASSUME NEW answered \in BOOLEAN, MotorHears(answered) PROVE AnswerInv'
    BY <2>2 DEF MotorHears, Motor!Hear, tankNode, vars, reports, AnswerInv
  <2>3. CASE TankHearsAnswer
    BY <2>3
    DEF TankHearsAnswer, ReceiveAck, motorNode, ControlTypeOK, AnswerInv
  <2>4. CASE TankWorks
    BY <2>4, TankWorkKeepsAnswers DEF TankWorks, motorNode, radio, AnswerInv
  <2>5. CASE MotorWorks
    BY <2>5
    DEF MotorWorks, Motor!SetOut, Motor!Work, Motor!ComeToRest, tankNode, vars, reports, radio,
        AnswerInv
  <2>6. CASE MotorSettlesIn
    BY <2>6
    DEF MotorSettlesIn, Motor!SettleIn, tankNode, vars, reports, radio, AnswerInv,
        ControlTypeOK, Motor!TypeOK
  <2>7. CASE TankRestarts \/ MotorRestarts
    BY <2>7 DEF TankRestarts, MotorRestarts, AnswerInv
  <2>8. CASE UNCHANGED controlVars
    BY <2>8 DEF controlVars, tankNode, motorNode, vars, reports, radio, AnswerInv
  <2> QED
    BY <2>1, <2>2, <2>3, <2>4, <2>5, <2>6, <2>7, <2>8 DEF ControlNext
<1>3. AnswerInv /\ RetryComes => DifferenceIsMended
  BY DEF AnswerInv, RetryComes, DifferenceIsMended, Silence
<1>4. ControlSpec => []RetryComes
  BY NodesKeepTheirSpecs, UnansweredIsRepeated, PTL
<1> QED
  BY <1>1, <1>2, <1>3, <1>4, ControlTypeCorrect, PTL DEF ControlSpec
=============================================================================
