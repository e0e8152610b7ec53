---------------------------- MODULE BorewellProofs ----------------------------
(***************************************************************************)
(* What holds of the borewell node for every size of the alarm pool, every  *)
(* nesting depth and every pulse length: its invariants, and that it does   *)
(* to the pump what PumpGuard allows.  (That it comes to rest, PumpGuard's  *)
(* fairness, is model-checked.)                                             *)
(***************************************************************************)
EXTENDS Borewell, RuntimeProofs

PoolType == [Slots -> AlarmsOf(Handlers, RELAY_TRIGGER_INTERVAL)]

LEMMA PointNames ==
    /\ {"tail", "ack", "config", "register", "present", "pass", "trippedOn", "toldOn",
        "trippedOff"} \subseteq Points \ Toggles
    /\ {"tail", "ack", "pass", "trippedOn", "toldOn", "trippedOff"} \cup Toggles
          \subseteq Points \ StartPoints
    /\ {"tail", "ack", "config", "pass", "trippedOn", "toldOn", "trippedOff"} \cup Toggles
          \subseteq Points \ {"register"}
    /\ "loop" \notin Points
BY DEF Points, CorePoints, Toggles, StartPoints

\* main() is in its loop exactly when no call is in progress.
LEMMA IdleIsEmpty ==
    /\ TypeOK => (Idle <=> stack = <<>>)
    /\ TypeOK' => (Idle' <=> stack' = <<>>)
<1>1. \A calls \in Seq(Frames(Points)) :
         (IF calls = <<>> THEN Frame("loop") ELSE calls[Len(calls)]).at = "loop" <=> calls = <<>>
  <2> TAKE calls \in Seq(Frames(Points))
  <2>1. CASE calls = <<>>
    BY <2>1 DEF Frame
  <2>2. CASE calls # <<>>
    <3>1. calls[Len(calls)] \in Frames(Points)
      BY <2>2, EmptySeq, ElementOfSeq
    <3>2. calls[Len(calls)].at \in Points
      BY <3>1 DEF Frames
    <3> QED
      BY <2>2, <3>2, PointNames
  <2> QED
    BY <2>1, <2>2
<1>2. TypeOK => stack \in Seq(Frames(Points))
  BY DEF TypeOK
<1>3. TypeOK' => stack' \in Seq(Frames(Points))
  BY DEF TypeOK
<1> QED
  BY <1>1, <1>2, <1>3 DEF Idle, At, Top

\* At a point of a handler there is a stack with that point on top.
LEMMA AtPoint ==
    ASSUME TypeOK, NEW q \in Points, At(q)
    PROVE  /\ stack \in Seq(Frames(Points)) /\ stack # <<>>
           /\ Len(stack) \in 1 .. Len(stack) /\ stack[Len(stack)].at = q
BY AtIsTop, PointNames DEF TypeOK

LEMMA Interval ==
    /\ RELAY_TRIGGER_INTERVAL \in Nat
    /\ {0, RELAY_TRIGGER_INTERVAL} \subseteq 0 .. RELAY_TRIGGER_INTERVAL
BY IntervalAssumption

-----------------------------------------------------------------------------
(* Steps *)

TestWaitEnds == AckWaitEnds \/ TrippedOnWaitEnds \/ ToldOnWaitEnds \/ TrippedOffWaitEnds

\* Behind a wait of a level report a pulse begins, tank01Message is sent, or nothing is
\* left to be done.
LEMMA TestSteps ==
    ASSUME TestWaitEnds
    PROVE  /\ \E q \in {"ack", "trippedOn", "toldOn", "trippedOff"} : At(q)
           /\ UNCHANGED <<setupDone, levels>>
           /\ \/ turnOnBorewell /\ stack' = Goto("trippedOn")
              \/ turnOffBorewell /\ stack' = Goto("trippedOff")
              \/ borewellOn /\ Tell(TRUE, "toldOn")
              \/ ~borewellOn /\ Tell(FALSE, "tail")
              \/ Leave
<1>1. /\ \E q \in {"ack", "trippedOn", "toldOn", "trippedOff"} : At(q)
      /\ UNCHANGED <<setupDone, levels>>
      /\ StartIfLow \/ TellIfOn \/ CutOffIfHigh \/ TellIfOff
  BY DEF TestWaitEnds, AckWaitEnds, TrippedOnWaitEnds, ToldOnWaitEnds, TrippedOffWaitEnds
<1> QED
  BY <1>1 DEF StartIfLow, TellIfOn, CutOffIfHigh, TellIfOff

\* The steps that are none of a start.
LEMMA HandlerSteps ==
    ASSUME [Next]_vars
    PROVE  \/ /\ StackStep(Points \ StartPoints, Points \ {"register"})
              /\ UNCHANGED setupDone
           \/ PresentingNode \/ PresentationEnds \/ setup \/ Restart
<1> DEFINE Step == /\ StackStep(Points \ StartPoints, Points \ {"register"})
                   /\ UNCHANGED setupDone
<1>1. CASE \/ Commands \/ ReceivePresentationRequest \/ PassBegins
           \/ \E sensor \in Sensors, level \in BOOLEAN : ReceiveLevel(sensor, level)
  BY <1>1, PointNames
  DEF Commands, ReceiveBoreOn, ReceiveBoreOff, KeyOn, KeyOff, ReceiveLevel,
      ReceivePresentationRequest, PassBegins, ServiceAlarms, StackStep, sketch
<1>2. CASE TestWaitEnds
  BY <1>2, TestSteps, PointNames DEF Tell, Leave, StackStep
<1>3. CASE ToggleWaitEnds \/ TailWaitEnds \/ PassEnds
  BY <1>3, PointNames
  DEF ToggleWaitEnds, Toggles, TailWaitEnds, TailReturns, PassEnds, EndPass, StackStep, sketch
<1>4. ASSUME NEW s \in Slots, RunToggle(s) \/ RunReport(s) PROVE Step
  <2>1. RunToggle(s) => alarms[s].handler \in Points \ {"register"}
    BY PointNames DEF RunToggle, Toggles
  <2> QED
    BY <1>4, <2>1, PointNames DEF RunToggle, RunReport, PassReaches, StackStep
<1>5. CASE SecondPasses \/ UNCHANGED vars
  BY <1>5 DEF SecondPasses, Second, sketch, vars, StackStep
<1> QED
  BY <1>1, <1>2, <1>3, <1>4, <1>5 DEF Next, WaitEnds, TestWaitEnds

-----------------------------------------------------------------------------
(* Types *)

\* What each action does to the pool.
LEMMA PoolStays ==
    ASSUME TypeOK, [Next]_vars
    PROVE  alarms' \in PoolType
<1> USE DEF PoolType
<1>1. alarms \in PoolType /\ Toggles \cup {"sendHeartbeat", "sendUpdate"} \subseteq Handlers
  BY DEF TypeOK, Handlers
<1>2. \A h \in Toggles : timerOnce(alarms, RELAY_TRIGGER_INTERVAL, h) \in PoolType
  BY <1>1, Interval, TimerOnceFillsOneSlot
<1>3. timerRepeat(timerRepeat(alarms, "sendHeartbeat"), "sendUpdate") \in PoolType
  <2>1. timerRepeat(alarms, "sendHeartbeat") \in PoolType
    BY <1>1, Interval, TimerRepeatFillsOneSlot
  <2> QED
    BY <1>1, <2>1, Interval, TimerRepeatFillsOneSlot
<1>4. Elapse(alarms) \in PoolType /\ \A s \in Slots : Trigger(alarms, s) \in PoolType
  BY <1>1, Interval, ElapseKeepsHandlers, TriggerFreesOneSlot, Zenon
<1>5. [s \in Slots |-> NotAllocated] \in PoolType
  BY Interval DEF NotAllocated, AlarmsOf
<1>6. TestWaitEnds =>
         alarms' = alarms \/ \E h \in Toggles : alarms' = timerOnce(alarms, RELAY_TRIGGER_INTERVAL, h)
  BY TestSteps DEF turnOnBorewell, turnOffBorewell, Tell, Leave, Toggles
<1>7. Commands => \E h \in Toggles : alarms' = timerOnce(alarms, RELAY_TRIGGER_INTERVAL, h)
  BY DEF Commands, ReceiveBoreOn, ReceiveBoreOff, KeyOn, KeyOff, turnOnBorewell,
         turnOffBorewell, Toggles
<1>8. \/ alarms' \in {alarms, Elapse(alarms), [s \in Slots |-> NotAllocated]}
      \/ \E s \in Slots : alarms' = Trigger(alarms, s)
      \/ alarms' = timerRepeat(timerRepeat(alarms, "sendHeartbeat"), "sendUpdate")
      \/ Commands \/ TestWaitEnds
  BY DEF Next, WaitEnds, TestWaitEnds, ReceiveLevel, ReceivePresentationRequest,
         ToggleWaitEnds, TailWaitEnds, TailReturns, PresentingNode, ConfigWaitEnds,
         PresentationEnds, setup, PassBegins, ServiceAlarms, PassEnds, EndPass, RunToggle,
         RunReport, SecondPasses, Second, Restart, vars
<1> QED
  BY <1>1, <1>2, <1>3, <1>4, <1>5, <1>6, <1>7, <1>8

\* Every variable holds a value of its type, in every reachable state.
THEOREM TypeCorrect == Spec => []TypeOK
<1>1. [s \in Slots |-> NotAllocated] \in PoolType
  BY Interval DEF NotAllocated, AlarmsOf, PoolType
<1>2. <<Frame("config")>> \in Seq(Frames(Points))
  <2>1. Frame("config") \in Frames(Points)
    BY PointNames, PoolAssumption DEF Frame, Frames
  <2> QED
    BY <2>1
<1>3. Init => TypeOK
  BY <1>1, <1>2 DEF Init, TypeOK, PoolType
<1>4. TypeOK /\ [Next]_vars => TypeOK'
  <2> SUFFICES ASSUME TypeOK, [Next]_vars PROVE TypeOK'
    OBVIOUS
  <2>1. stack' \in Seq(Frames(Points))
    <3>1. CASE Restart
      BY <1>2, <3>1 DEF Restart
    <3>2. CASE ~Restart
      <4>1. StackStep(Points, Points)
        <5>1. CASE StackStep(Points \ StartPoints, Points \ {"register"})
          BY <5>1 DEF StackStep
        <5>2. CASE PresentingNode \/ PresentationEnds \/ setup
          BY <5>2, PointNames
          DEF PresentingNode, ConfigWaitEnds, PresentationEnds, setup, StackStep
        <5> QED
          BY <3>2, <5>1, <5>2, HandlerSteps
      <4> QED
        BY <4>1, StackStepEffects, PointNames DEF TypeOK
    <3> QED
      BY <3>1, <3>2
  <2>2. alarms' \in [Slots -> AlarmsOf(Handlers, RELAY_TRIGGER_INTERVAL)]
    BY PoolStays DEF PoolType
  <2> DEFINE Rest == /\ setupDone' \in BOOLEAN
                     /\ onRelay' \in BOOLEAN /\ offRelay' \in BOOLEAN
                     /\ borewellOn' \in BOOLEAN
                     /\ tank01LowLevel' \in BOOLEAN /\ tank01HighLevel' \in BOOLEAN
                     /\ tank01Message' \in BOOLEAN
                     /\ pulse' \in {"on", "off"}
                     /\ anomalies' \in SUBSET Anomalies
  <2>3. CASE Commands \/ TestWaitEnds
    <3>1. /\ UNCHANGED <<setupDone, levels>>
          /\ \/ turnOnBorewell \/ turnOffBorewell
             \/ Tell(TRUE, "toldOn") \/ Tell(FALSE, "tail") \/ Leave
      BY <2>3, TestSteps DEF Commands, ReceiveBoreOn, ReceiveBoreOff, KeyOn, KeyOff
    <3>2. Rest
      BY <3>1 DEF TypeOK, levels, turnOnBorewell, turnOffBorewell, PulseBegins, Anomalies,
                  Tell, Leave, relays, belief
    <3> QED
      BY <2>1, <2>2, <3>2 DEF TypeOK
  <2>4. CASE ToggleWaitEnds \/ \E q \in Slots : RunToggle(q)
    <3>1. Rest
      BY <2>4 DEF TypeOK, ToggleWaitEnds, ToggleSets, RunToggle, toggleOnRelay, toggleOffRelay,
                  Anomalies, levels, relays, belief
    <3> QED
      BY <2>1, <2>2, <3>1 DEF TypeOK
  <2>5. CASE \E sensor \in Sensors, level \in BOOLEAN : ReceiveLevel(sensor, level)
    <3>1. Rest
      BY <2>5 DEF TypeOK, ReceiveLevel, levels, relays, belief
    <3> QED
      BY <2>1, <2>2, <3>1 DEF TypeOK
  <2>6. CASE setup \/ Restart
    <3>1. Rest
      BY <2>6 DEF TypeOK, setup, Restart, Anomalies
    <3> QED
      BY <2>1, <2>2, <3>1 DEF TypeOK
  <2>7. CASE \/ ReceivePresentationRequest \/ TailWaitEnds \/ PresentingNode \/ PresentationEnds
             \/ PassBegins \/ PassEnds \/ SecondPasses \/ UNCHANGED vars
             \/ \E q \in Slots : RunReport(q)
    <3>1. Rest
      BY <2>7
      DEF TypeOK, ReceivePresentationRequest, TailWaitEnds, PresentingNode, PresentationEnds,
          PassBegins, PassEnds, RunReport, SecondPasses, sketch, relays, levels, belief, vars
    <3> QED
      BY <2>1, <2>2, <3>1 DEF TypeOK
  <2> QED
    BY <2>3, <2>4, <2>5, <2>6, <2>7 DEF Next, WaitEnds, TestWaitEnds
<1> QED
  BY <1>3, <1>4, PTL DEF Spec

-----------------------------------------------------------------------------
(* Starts *)

\* setup() is called from the bottom of the stack and leaves none.
LEMMA SetupEndsStart ==
    ASSUME TypeOK, BootInv, setup
    PROVE  ~setupDone /\ stack' = <<>>
BY SetupAtBottom, PointNames DEF TypeOK, BootInv, setup

LEMMA BootInvariant == Spec => []BootInv
<1>1. Init => BootInv
  BY DEF Init, BootInv, BootOrder, Frame
<1>2. TypeOK /\ BootInv /\ [Next]_vars => BootInv'
  <2> SUFFICES ASSUME TypeOK, BootInv, [Next]_vars PROVE BootInv'
    OBVIOUS
  <2>1. /\ stack \in Seq(Frames(Points)) /\ BootOrder(stack, setupDone)
        /\ "loop" \notin Points /\ {"pass", "present", "register"} \subseteq Points
    BY PointNames DEF TypeOK, BootInv
  <2>2. CASE setup
    <3>1. stack' = <<>> /\ setupDone'
      BY <2>2, SetupEndsStart DEF setup
    <3> QED
      BY <3>1 DEF BootInv, BootOrder
  <2>3. CASE PresentingNode
    <3>1. At("config") /\ stack' = Goto("present")
      BY <2>3 DEF PresentingNode, ConfigWaitEnds
    <3>2. BootOrder(stack', setupDone)
      BY <2>1, <3>1, BootStays
    <3> QED
      BY <2>3, <3>2 DEF BootInv, PresentingNode, sketch
  <2>4. CASE PresentationEnds
    <3>1. /\ At("present")
          /\ stack' = IF setupDone \/ Len(stack) > 1 THEN Return ELSE Goto("register")
      BY <2>4 DEF PresentationEnds
    <3>2. BootOrder(stack', setupDone)
      BY <2>1, <3>1, BootPresentationEnds
    <3> QED
      BY <2>4, <3>2 DEF BootInv, PresentationEnds
  <2>5. CASE /\ StackStep(Points \ StartPoints, Points \ {"register"})
             /\ UNCHANGED setupDone
    <3>1. BootOrder(stack', setupDone)
      BY <2>1, <2>5, BootStays
    <3> QED
      BY <2>5, <3>1 DEF BootInv
  <2>6. CASE Restart
    BY <2>6 DEF Restart, BootInv, BootOrder, Frame
  <2> QED
    BY <2>2, <2>3, <2>4, <2>5, <2>6, HandlerSteps
<1> QED
  BY <1>1, <1>2, TypeCorrect, PTL DEF Spec

-----------------------------------------------------------------------------
(* Which steps touch a pulse *)

\* The alarms of toggles stay in the pool, and none is added.
TogglesStayPending ==
    \A s \in Slots : alarms[s].handler \in Toggles \/ alarms'[s].handler \in Toggles =>
        /\ alarms'[s].handler = alarms[s].handler
        /\ alarms'[s].isOneShot = alarms[s].isOneShot

\* The calls of toggles too.
TogglesStayCalled == StackStep(Points \ Toggles, Points \ Toggles)

QuietStep ==
    /\ TogglesStayCalled /\ TogglesStayPending
    /\ UNCHANGED <<setupDone, relays, borewellOn>>
    /\ tank01Message' \in {tank01Message, borewellOn}

PulseStep ==
    /\ turnOnBorewell \/ turnOffBorewell
    /\ TogglesStayCalled
    /\ UNCHANGED setupDone

LEMMA TogglesStay ==
    ASSUME TypeOK, TogglesStayCalled
    PROVE  /\ \A i \in DOMAIN stack : stack[i].at \in Toggles =>
                  i \in DOMAIN stack' /\ stack'[i].at = stack[i].at
           /\ \A i \in DOMAIN stack' : stack'[i].at \in Toggles =>
                  i \in DOMAIN stack /\ stack[i].at = stack'[i].at
           /\ InProgress(Toggles)' <=> InProgress(Toggles)
<1>1. /\ stack \in Seq(Frames(Points)) /\ "loop" \notin Points
      /\ Points \ Toggles \subseteq Points /\ "loop" \notin Points \ Toggles
      /\ Toggles \cap (Points \ Toggles) = {}
  BY PointNames DEF TypeOK
<1>2. StackStep(Points \ Toggles, Points \ Toggles)
  BY DEF TogglesStayCalled
<1>3. InProgress(Toggles)' <=> InProgress(Toggles)
  BY <1>1, <1>2, StackStepProgress
<1> QED
  BY <1>1, <1>2, <1>3, StackStepEffects

\* Time and a pass that triggers no toggle.
LEMMA PassKeepsToggles ==
    ASSUME TypeOK,
           \/ alarms' = Elapse(alarms)
           \/ \E s \in Slots : alarms[s].handler \notin Toggles /\ alarms' = Trigger(alarms, s)
           \/ alarms' = alarms
    PROVE  TogglesStayPending
<1>1. alarms \in [Slots -> AlarmsOf(Handlers, RELAY_TRIGGER_INTERVAL)]
  BY DEF TypeOK
<1>2. CASE alarms' = Elapse(alarms)
  BY <1>1, <1>2, Interval, ElapseKeepsHandlers DEF TogglesStayPending
<1>3. ASSUME NEW s \in Slots, alarms[s].handler \notin Toggles, alarms' = Trigger(alarms, s)
      PROVE  TogglesStayPending
  <2>1. /\ \A t \in Slots : t # s => alarms'[t] = alarms[t]
        /\ alarms'[s] = alarms[s] \/ alarms'[s].handler = NoHandler
    BY <1>1, <1>3, Interval, TriggerFreesOneSlot
  <2>2. NoHandler \notin Toggles
    BY DEF NoHandler, Toggles
  <2> QED
    BY <1>3, <2>1, <2>2 DEF TogglesStayPending
<1>4. CASE alarms' = alarms
  BY <1>4 DEF TogglesStayPending
<1> QED
  BY <1>2, <1>3, <1>4

\* A step is quiet, begins a pulse, ends one, or starts the node.
LEMMA StepKinds ==
    ASSUME TypeOK, [Next]_vars
    PROVE  \/ QuietStep \/ PulseStep
           \/ \E s \in Slots : RunToggle(s)
           \/ ToggleWaitEnds \/ setup \/ Restart
<1>1. alarms' = alarms => TogglesStayPending
  BY PassKeepsToggles
<1>2. CASE Commands
  BY <1>2, PointNames
  DEF Commands, ReceiveBoreOn, ReceiveBoreOff, KeyOn, KeyOff, PulseStep, TogglesStayCalled,
      StackStep
<1>3. CASE \/ \E sensor \in Sensors, level \in BOOLEAN : ReceiveLevel(sensor, level)
           \/ ReceivePresentationRequest \/ PassBegins
  <2>1. TogglesStayCalled
    BY <1>3, PointNames
    DEF ReceiveLevel, ReceivePresentationRequest, PassBegins, ServiceAlarms, TogglesStayCalled,
        StackStep
  <2>2. UNCHANGED <<alarms, setupDone, relays, belief>>
    BY <1>3 DEF ReceiveLevel, ReceivePresentationRequest, PassBegins, ServiceAlarms, sketch
  <2> QED
    BY <1>1, <2>1, <2>2 DEF QuietStep, belief
<1>4. CASE TestWaitEnds
  <2>1. /\ UNCHANGED setupDone
        /\ \/ turnOnBorewell /\ stack' = Goto("trippedOn")
           \/ turnOffBorewell /\ stack' = Goto("trippedOff")
           \/ borewellOn /\ Tell(TRUE, "toldOn")
           \/ ~borewellOn /\ Tell(FALSE, "tail")
           \/ Leave
    BY <1>4, TestSteps
  <2>2. TogglesStayCalled
    BY <1>4, <2>1, TestSteps, PointNames DEF Tell, Leave, TogglesStayCalled, StackStep
  <2>3. \/ turnOnBorewell \/ turnOffBorewell
        \/ /\ UNCHANGED <<alarms, relays, borewellOn>>
           /\ tank01Message' \in {tank01Message, borewellOn}
    BY <2>1 DEF Tell, Leave, belief, TypeOK
  <2> QED
    BY <1>1, <2>1, <2>2, <2>3 DEF QuietStep, PulseStep
<1>5. CASE TailWaitEnds \/ PresentingNode \/ PresentationEnds \/ PassEnds
  <2>1. TogglesStayCalled
    BY <1>5, PointNames
    DEF TailWaitEnds, TailReturns, PresentingNode, ConfigWaitEnds, PresentationEnds,
        PassEnds, EndPass, TogglesStayCalled, StackStep
  <2>2. UNCHANGED <<alarms, setupDone, relays, belief>>
    BY <1>5 DEF TailWaitEnds, TailReturns, PresentingNode, ConfigWaitEnds, PresentationEnds,
                PassEnds, EndPass, sketch
  <2> QED
    BY <1>1, <2>1, <2>2 DEF QuietStep, belief
<1>6. ASSUME NEW s \in Slots, RunReport(s) PROVE QuietStep
  <2>1. TogglesStayCalled
    BY <1>6, PointNames DEF RunReport, PassReaches, TogglesStayCalled, StackStep
  <2>2. TogglesStayPending
    BY <1>6, PassKeepsToggles DEF RunReport, Toggles
  <2> QED
    BY <1>6, <2>1, <2>2 DEF RunReport, QuietStep, belief
<1>7. CASE SecondPasses \/ UNCHANGED vars
  <2>1. TogglesStayCalled /\ TogglesStayPending
    BY <1>7, PassKeepsToggles DEF SecondPasses, Second, vars, TogglesStayCalled, StackStep
  <2> QED
    BY <1>7, <2>1 DEF SecondPasses, sketch, vars, QuietStep, belief
<1> QED
  BY <1>2, <1>3, <1>4, <1>5, <1>6, <1>7 DEF Next, WaitEnds, TestWaitEnds

\* What a pulse's alarm does to the pool.
LEMMA PulseAlarm ==
    ASSUME TypeOK, NEW h \in Toggles, alarms' = timerOnce(alarms, RELAY_TRIGGER_INTERVAL, h)
    PROVE  \A s \in Slots :
               \/ alarms'[s] = alarms[s]
               \/ s = createdId(alarms) /\ alarms'[s].handler = h /\ alarms'[s].isOneShot
<1>1. /\ alarms \in [Slots -> AlarmsOf(Handlers, RELAY_TRIGGER_INTERVAL)] /\ h \in Handlers
      /\ RELAY_TRIGGER_INTERVAL \in 0 .. RELAY_TRIGGER_INTERVAL
  BY Interval DEF TypeOK, Handlers
<1> DEFINE new == timerOnce(alarms, RELAY_TRIGGER_INTERVAL, h)
<1>2. HasCreated(new, alarms, h, TRUE)
  BY <1>1, Interval, TimerOnceFillsOneSlot
<1> HIDE DEF new
<1> QED
  BY <1>2, Zenon DEF HasCreated, new

-----------------------------------------------------------------------------
(* An energised relay is going to be released *)

\* The beginning of a pulse keeps both relays' ends coming.
LEMMA PulseHasToggle ==
    ASSUME TypeOK, RelayHasToggle, turnOnBorewell \/ turnOffBorewell
    PROVE  RelayHasToggle'
<1>1. ASSUME NEW h \in Toggles, alarms' = timerOnce(alarms, RELAY_TRIGGER_INTERVAL, h)
      PROVE  /\ \A g \in Toggles : Pending(g) => Pending(g)'
             /\ Full(alarms) \/ Pending(h)'
  <2>1. h \in Handlers /\ \A g \in Toggles : g # NoHandler
    BY DEF Handlers, NoHandler, Toggles
  <2> QED
    BY <1>1, <2>1, Interval, TimerOncePends DEF TypeOK
<1>2. "toggleOnRelay" \in Toggles /\ "toggleOffRelay" \in Toggles
  BY DEF Toggles
<1>3. CASE turnOnBorewell
  <2>1. /\ Full(alarms) \/ Pending("toggleOnRelay")'
        /\ Pending("toggleOffRelay") => Pending("toggleOffRelay")'
    BY <1>1, <1>2, <1>3 DEF turnOnBorewell
  <2> QED
    BY <1>3, <2>1 DEF turnOnBorewell, PulseBegins, Pending, RelayHasToggle
<1>4. CASE turnOffBorewell
  <2>1. /\ Full(alarms) \/ Pending("toggleOffRelay")'
        /\ Pending("toggleOnRelay") => Pending("toggleOnRelay")'
    BY <1>1, <1>2, <1>4 DEF turnOffBorewell
  <2> QED
    BY <1>4, <2>1 DEF turnOffBorewell, PulseBegins, Pending, RelayHasToggle
<1> QED
  BY <1>3, <1>4

\* An energised relay has an alarm pending that releases it, unless the pool was full when
\* its pulse began; no interleaving of pulses, passes and restarts loses that alarm.
THEOREM RelayEndComes == Spec => []RelayHasToggle
<1>1. Init => RelayHasToggle
  BY DEF Init, RelayHasToggle
<1>2. TypeOK /\ RelayHasToggle /\ [Next]_vars => RelayHasToggle'
  <2> SUFFICES ASSUME TypeOK, RelayHasToggle, [Next]_vars PROVE RelayHasToggle'
    OBVIOUS
  <2>1. "toggleOnRelay" \in Toggles /\ "toggleOffRelay" \in Toggles
    BY DEF Toggles
  <2>2. CASE QuietStep
    <3>1. \A h \in Toggles : Pending(h) => Pending(h)'
      BY <2>2 DEF QuietStep, TogglesStayPending, Pending
    <3> QED
      BY <2>1, <2>2, <3>1 DEF QuietStep, RelayHasToggle, relays
  <2>3. CASE PulseStep
    BY <2>3, PulseHasToggle DEF PulseStep
  <2>4. ASSUME NEW s \in Slots, RunToggle(s) PROVE RelayHasToggle'
    <3>1. \A h \in Toggles : alarms[s].handler # h /\ Pending(h) => Pending(h)'
      BY <2>4, Interval, TriggerKeepsOthers DEF RunToggle, TypeOK
    <3>2. CASE alarms[s].handler = "toggleOnRelay" /\ toggleOnRelay
      BY <2>1, <3>1, <3>2 DEF toggleOnRelay, RelayHasToggle
    <3>3. CASE alarms[s].handler = "toggleOffRelay" /\ toggleOffRelay
      BY <2>1, <3>1, <3>3 DEF toggleOffRelay, RelayHasToggle
    <3> QED
      BY <2>4, <3>2, <3>3 DEF RunToggle
  <2>5. CASE ToggleWaitEnds
    BY <2>5 DEF ToggleWaitEnds, RelayHasToggle, relays, Pending
  <2>6. CASE setup \/ Restart
    BY <2>6 DEF setup, Restart, RelayHasToggle
  <2> QED
    BY <2>2, <2>3, <2>4, <2>5, <2>6, StepKinds
<1> QED
  BY <1>1, <1>2, TypeCorrect, PTL DEF Spec

-----------------------------------------------------------------------------
(* The full tank stops the pump *)

PreCheck == {"ack", "trippedOn", "toldOn"}

LEMMA PreCheckNames ==
    /\ PreCheck \subseteq Points
    /\ {"trippedOff", "tail", "config", "register", "present", "pass"} \cup Toggles
          \subseteq Points \ PreCheck
BY DEF PreCheck, Points, CorePoints, Toggles

\* A step that neither starts the pump nor stores a level nor ends a wait before the last
\* test leaves a pump under a full tank with that test still to come.
LEMMA CutOffStays ==
    ASSUME TypeOK, CutOffInv, UNCHANGED <<tank01HighLevel, pulse>>,
           StackStep(Points \ PreCheck, Points)
    PROVE  CutOffInv'
<1>1. InProgress(PreCheck) => InProgress(PreCheck)'
  BY StackStepProgress, PointNames DEF TypeOK
<1> QED
  BY <1>1 DEF CutOffInv, PreCheck

\* A handler that goes to a point before the last level test is in front of that test.
LEMMA GotoPreCheck ==
    ASSUME TypeOK, NEW q, q # "loop", At(q), NEW p \in PreCheck, stack' = Goto(p)
    PROVE  InProgress(PreCheck)'
<1>1. stack \in Seq(Frames(Points)) /\ stack # <<>> /\ p \in Points
  BY TopIsPoint, PointNames, PreCheckNames DEF TypeOK
<1> QED
  BY <1>1, InProgressAfterGoto

\* The tests up to the third: a pump under a full tank is stopped by them, or is going to be.
LEMMA TestsCutOff ==
    ASSUME TypeOK, AckWaitEnds \/ TrippedOnWaitEnds \/ ToldOnWaitEnds
    PROVE  CutOffInv'
<1>1. /\ \E q \in PreCheck : At(q) /\ q # "loop"
      /\ UNCHANGED levels
      /\ StartIfLow \/ TellIfOn \/ CutOffIfHigh
      /\ {"toldOn", "trippedOn"} \subseteq PreCheck
  BY DEF AckWaitEnds, TrippedOnWaitEnds, ToldOnWaitEnds, PreCheck
<1>2. CASE stack' = Goto("trippedOn") \/ stack' = Goto("toldOn")
  <2>1. InProgress(PreCheck)'
    BY <1>1, <1>2, GotoPreCheck
  <2> QED
    BY <2>1 DEF CutOffInv, PreCheck
<1>3. CASE CutOffIfHigh
  BY <1>1, <1>3 DEF CutOffIfHigh, turnOffBorewell, CutOffInv, levels
<1> QED
  BY <1>1, <1>2, <1>3 DEF StartIfLow, TellIfOn, Tell

\* However the handlers nest, when none is left a node that holds Tank01 for full has
\* pulsed the OFF relay last.
THEOREM OverflowSafe == Spec => []OverflowCutOff
<1>1. Init => CutOffInv
  BY DEF Init, CutOffInv
<1>2. TypeOK /\ CutOffInv /\ [Next]_vars => CutOffInv'
  <2> SUFFICES ASSUME TypeOK, CutOffInv, [Next]_vars PROVE CutOffInv'
    OBVIOUS
  <2>1. CASE Commands
    BY <2>1 DEF Commands, ReceiveBoreOn, ReceiveBoreOff, KeyOn, KeyOff, turnOnBorewell,
                turnOffBorewell, CutOffInv, levels
  <2>2. ASSUME NEW sensor \in Sensors, NEW level \in BOOLEAN, ReceiveLevel(sensor, level)
        PROVE  CutOffInv'
    <3>1. /\ stack' = Call("ack") /\ stack \in Seq(Frames(Points))
          /\ "ack" \in PreCheck /\ "ack" \in Points
      BY <2>2, PointNames DEF ReceiveLevel, TypeOK, PreCheck
    <3>2. InProgress(PreCheck)'
      BY <3>1, InProgressAfterCall
    <3> QED
      BY <3>2 DEF CutOffInv, PreCheck
  <2>3. CASE AckWaitEnds \/ TrippedOnWaitEnds \/ ToldOnWaitEnds
    BY <2>3, TestsCutOff
  <2>4. CASE TrippedOffWaitEnds \/ ToggleWaitEnds
    BY <2>4, PreCheckNames, CutOffStays
    DEF TrippedOffWaitEnds, TellIfOff, Tell, Leave, ToggleWaitEnds, Toggles, relays, levels,
        StackStep
  <2>5. CASE \/ ReceivePresentationRequest \/ PassBegins
             \/ TailWaitEnds \/ PresentingNode \/ PassEnds \/ PresentationEnds
             \/ SecondPasses \/ UNCHANGED vars
    <3>1. UNCHANGED <<tank01HighLevel, pulse>>
      BY <2>5 DEF ReceivePresentationRequest, PassBegins, TailWaitEnds, PresentingNode,
                  PassEnds, PresentationEnds, SecondPasses, sketch, vars, relays, levels
    <3>2. StackStep(Points \ PreCheck, Points)
      BY <2>5, PreCheckNames
      DEF ReceivePresentationRequest, PassBegins, ServiceAlarms, TailWaitEnds, TailReturns,
          PresentingNode, ConfigWaitEnds, PassEnds, EndPass, PresentationEnds, SecondPasses,
          Second, vars, StackStep
    <3> QED
      BY <3>1, <3>2, CutOffStays
  <2>6. CASE setup \/ Restart
    BY <2>6 DEF setup, Restart, CutOffInv
  <2>7. ASSUME NEW s \in Slots, RunToggle(s) \/ RunReport(s) PROVE CutOffInv'
    <3>1. UNCHANGED <<tank01HighLevel, pulse>>
      BY <2>7 DEF RunToggle, RunReport, toggleOnRelay, toggleOffRelay, relays, levels
    <3>2. RunToggle(s) => alarms[s].handler \in Points
      BY PointNames DEF RunToggle, Toggles
    <3>3. StackStep(Points \ PreCheck, Points)
      BY <2>7, <3>2, PointNames DEF RunToggle, RunReport, PassReaches, StackStep
    <3> QED
      BY <3>1, <3>3, CutOffStays
  <2> QED
    BY <2>1, <2>2, <2>3, <2>4, <2>5, <2>6, <2>7 DEF Next, WaitEnds
<1>3. TypeOK /\ CutOffInv => OverflowCutOff
  <2> SUFFICES ASSUME TypeOK, CutOffInv, Idle PROVE ~ (tank01HighLevel /\ pulse = "on")
    BY DEF OverflowCutOff, TypeOK
  <2>1. stack = <<>>
    BY TopIsPoint, PointNames DEF TypeOK
  <2> QED
    BY <2>1 DEF CutOffInv, InProgress
<1> QED
  BY <1>1, <1>2, <1>3, TypeCorrect, PTL DEF Spec

-----------------------------------------------------------------------------
(* The refinement *)

\* A step that leaves the flag of setup() and of the full tank alone is one that PumpGuard
\* allows, if it begins a pulse only as the step of a handler, or to stop the pump, or for
\* a tank that is not full.
LEMMA WorkIsAllowed ==
    ASSUME TypeOK, TypeOK', BootInv', OverflowCutOff',
           UNCHANGED <<setupDone, tank01HighLevel>>,
           \/ pulse' = pulse
           \/ /\ stack' # <<>>
              /\ ~Idle \/ pulse' = "off" \/ ~tank01HighLevel
    PROVE  Guard!Next \/ UNCHANGED Guard!vars
<1>1. (Idle <=> stack = <<>>) /\ (Idle' <=> stack' = <<>>)
  BY IdleIsEmpty
<1>2. (pulse = "on") \in BOOLEAN /\ (pulse' = "on") \in BOOLEAN
  OBVIOUS
<1>3. CASE Idle /\ Idle'
  BY <1>1, <1>3 DEF Guard!vars
<1>4. CASE Idle /\ ~Idle'
  <2>1. Guard!SetOut
    BY <1>1, <1>2, <1>4 DEF Guard!SetOut
  <2> QED
    BY <2>1 DEF Guard!Next
<1>5. CASE ~Idle /\ ~Idle'
  <2>1. Guard!Work
    <3>1. Idle' = Idle
      BY <1>5 DEF Idle, At
    <3> QED
      BY <1>2, <1>5, <3>1 DEF Guard!Work
  <2> QED
    BY <2>1 DEF Guard!Next
<1>6. CASE ~Idle /\ Idle'
  <2>1. setupDone
    BY <1>1, <1>6 DEF BootInv, BootOrder
  <2>2. tank01HighLevel => pulse' # "on"
    BY <1>6 DEF OverflowCutOff
  <2>3. Guard!ComeToRest
    BY <1>1, <1>6, <2>1, <2>2 DEF Guard!ComeToRest
  <2> QED
    BY <2>3 DEF Guard!Next
<1> QED
  BY <1>3, <1>4, <1>5, <1>6

\* However its handlers nest and whenever it is restarted, the node does to the pump only
\* what PumpGuard allows: it does not set out to start it under a full tank, and it comes
\* to rest with it stopped.
THEOREM KeepsPumpGuard == Spec => Guard!Spec
<1>1. Init => Guard!Init
  BY DEF Init, Guard!Init, Idle, At, Top, Frame
<1>2. TypeOK /\ TypeOK' /\ BootInv /\ BootInv' /\ OverflowCutOff' /\ [Next]_vars =>
          [Guard!Next]_(Guard!vars)
  <2> SUFFICES ASSUME TypeOK, TypeOK', BootInv, BootInv', OverflowCutOff', [Next]_vars
               PROVE  Guard!Next \/ UNCHANGED Guard!vars
    OBVIOUS
  <2>1. /\ \A p \in Points : Call(p) # <<>>
        /\ \A q \in Points : At(q) => ~Idle /\ \A p \in Points : Goto(p) # <<>>
    <3>1. ASSUME NEW p \in Points PROVE Call(p) # <<>>
      <4>1. stack \in Seq(Frames(Points)) /\ Len(stack) \in Nat
        BY LenProperties DEF TypeOK
      <4>2. Call(p) \in Seq(Frames(Points)) /\ Len(Call(p)) # 0
        BY <4>1, CallAddsFrame
      <4> QED
        BY <4>2, EmptySeq
    <3>2. ASSUME NEW q \in Points, At(q), NEW p \in Points PROVE Goto(p) # <<>>
      <4>1. Goto(p) \in Seq(Frames(Points)) /\ Len(Goto(p)) # 0
        BY <3>2, AtPoint, GotoReplacesTop
      <4> QED
        BY <4>1, EmptySeq
    <3>3. \A q \in Points : At(q) => ~Idle
      BY PointNames DEF Idle, At
    <3> QED
      BY <3>1, <3>2, <3>3
  <2>2. CASE Commands
    BY <2>1, <2>2, WorkIsAllowed, PointNames
    DEF Commands, ReceiveBoreOn, ReceiveBoreOff, KeyOn, KeyOff, turnOnBorewell,
        turnOffBorewell, levels
  <2>3. ASSUME NEW sensor \in Sensors, NEW level \in BOOLEAN, ReceiveLevel(sensor, level)
        PROVE  Guard!Next \/ UNCHANGED Guard!vars
    <3>1. stack' # <<>> /\ UNCHANGED <<setupDone, pulse>>
      BY <2>1, <2>3, PointNames DEF ReceiveLevel, relays
    <3>2. CASE tank01HighLevel' = level
      <4>1. ~Idle'
        BY <3>1, IdleIsEmpty
      <4>2. Guard!Hear(level)
        BY <3>1, <3>2, <4>1 DEF Guard!Hear
      <4> QED
        BY <4>2 DEF Guard!Next
    <3>3. CASE UNCHANGED tank01HighLevel
      BY <3>1, <3>3, WorkIsAllowed
    <3> QED
      BY <2>3, <3>2, <3>3 DEF ReceiveLevel
  <2>4. CASE AckWaitEnds \/ TrippedOnWaitEnds \/ ToldOnWaitEnds \/ TrippedOffWaitEnds
    <3>1. \E q \in Points : At(q)
      BY <2>4, PointNames
      DEF AckWaitEnds, TrippedOnWaitEnds, ToldOnWaitEnds, TrippedOffWaitEnds
    <3>2. ~Idle /\ \A p \in Points : Goto(p) # <<>>
      BY <2>1, <3>1
    <3>3. UNCHANGED <<setupDone, tank01HighLevel>> /\ (pulse' = pulse \/ stack' # <<>>)
      BY <2>4, <3>2, PointNames
      DEF AckWaitEnds, TrippedOnWaitEnds, ToldOnWaitEnds, TrippedOffWaitEnds, StartIfLow,
          TellIfOn, CutOffIfHigh, TellIfOff, Tell, Leave, relays, levels
    <3> QED
      BY <3>2, <3>3, WorkIsAllowed
  <2>5. CASE setup
    <3>1. ~setupDone /\ Idle' /\ ~Idle
      <4>1. "register" \in Points
        BY PointNames
      <4> QED
        BY <2>1, <2>5, <4>1, SetupEndsStart, IdleIsEmpty DEF setup
    <3>2. Guard!SettleIn
      BY <2>5, <3>1 DEF setup, Guard!SettleIn
    <3> QED
      BY <3>2 DEF Guard!Next
  <2>6. CASE Restart
    <3>1. ~Idle'
      BY <2>6 DEF Restart, Idle, At, Top, Frame
    <3>2. Guard!Restart
      BY <2>6, <3>1 DEF Restart, Guard!Restart
    <3> QED
      BY <3>2 DEF Guard!Next
  <2>7. CASE \/ ToggleWaitEnds \/ TailWaitEnds \/ PresentingNode \/ PresentationEnds
             \/ ReceivePresentationRequest \/ PassBegins \/ PassEnds \/ SecondPasses
             \/ UNCHANGED vars
    <3>1. UNCHANGED <<setupDone, tank01HighLevel, pulse>>
      BY <2>7
      DEF ToggleWaitEnds, TailWaitEnds, PresentingNode, PresentationEnds,
          ReceivePresentationRequest, PassBegins, PassEnds, SecondPasses, vars, sketch,
          relays, levels
    <3> QED
      BY <3>1, WorkIsAllowed
  <2>8. ASSUME NEW s \in Slots, RunToggle(s) \/ RunReport(s)
        PROVE  Guard!Next \/ UNCHANGED Guard!vars
    <3>1. UNCHANGED <<setupDone, tank01HighLevel, pulse>>
      BY <2>8 DEF RunToggle, RunReport, toggleOnRelay, toggleOffRelay, relays, levels
    <3> QED
      BY <3>1, WorkIsAllowed
  <2> QED
    BY <2>2, <2>3, <2>4, <2>5, <2>6, <2>7, <2>8 DEF Next, WaitEnds
<1> QED
  BY <1>1, <1>2, TypeCorrect, BootInvariant, OverflowSafe, PTL DEF Spec, Guard!Spec

-----------------------------------------------------------------------------
(* Flag and starter *)

FlagInv == OneShotInv /\ EarlyInv /\ ToggleInv /\ FlagFollowsPulse

\* What disturbs no pulse keeps what is known of it.
LEMMA QuietKeepsFlag ==
    ASSUME TypeOK, FlagInv, QuietStep
    PROVE  FlagInv'
<1>1. \A h \in Toggles : Pending(h)' <=> Pending(h)
  BY DEF QuietStep, TogglesStayPending, Pending
<1>2. /\ InProgress(Toggles)' <=> InProgress(Toggles)
      /\ \A i \in DOMAIN stack' : stack'[i].at \in Toggles =>
            i \in DOMAIN stack /\ stack[i].at = stack'[i].at
  BY TogglesStay DEF QuietStep
<1>3. PulseInFlight' <=> PulseInFlight
  BY <1>1, <1>2 DEF QuietStep, PulseInFlight, relays
<1>4. OneShotInv'
  BY DEF FlagInv, OneShotInv, QuietStep, TogglesStayPending
<1>5. EarlyInv' /\ FlagFollowsPulse'
  BY <1>3 DEF FlagInv, EarlyInv, FlagFollowsPulse, QuietStep, relays, Clean
<1>6. ToggleInv'
  BY <1>2 DEF FlagInv, ToggleInv, QuietStep, TogglesStayPending, relays, Clean
<1> QED
  BY <1>4, <1>5, <1>6 DEF FlagInv

\* The beginning of a pulse.
LEMMA PulseKeepsFlag ==
    ASSUME TypeOK, FlagInv, PulseStep
    PROVE  FlagInv'
<1>1. PICK h \in Toggles :
         /\ alarms' = timerOnce(alarms, RELAY_TRIGGER_INTERVAL, h)
         /\ h = ToggleOf(pulse')
  BY DEF PulseStep, turnOnBorewell, turnOffBorewell, Toggles, ToggleOf
<1>2. \A s \in Slots :
         \/ alarms'[s] = alarms[s]
         \/ s = createdId(alarms) /\ alarms'[s].handler = h /\ alarms'[s].isOneShot
  BY <1>1, PulseAlarm
<1>3. OneShotInv'
  BY <1>2 DEF OneShotInv, FlagInv
<1>4. EarlyInv' /\ FlagFollowsPulse'
  BY DEF PulseStep, turnOnBorewell, turnOffBorewell, PulseBegins, EarlyInv, FlagFollowsPulse,
         PulseInFlight
<1>5. ToggleInv'
  <2> SUFFICES ASSUME Clean' PROVE ToggleInv'
    BY DEF ToggleInv
  <2>1. ~PulseInFlight
    BY DEF PulseStep, turnOnBorewell, turnOffBorewell, PulseBegins, Clean
  <2>2. ~InProgress(Toggles)'
    BY <2>1, TogglesStay DEF PulseInFlight, PulseStep
  <2>3. \A s \in Slots : alarms[s].handler \notin Toggles
    BY <2>1 DEF PulseInFlight, Pending
  <2> QED
    BY <1>1, <1>2, <2>2, <2>3 DEF ToggleInv, InProgress
<1> QED
  BY <1>3, <1>4, <1>5 DEF FlagInv

\* The alarm that ends a pulse triggers.
LEMMA ToggleKeepsFlag ==
    ASSUME TypeOK, FlagInv, NEW s \in Slots, RunToggle(s)
    PROVE  FlagInv'
<1> DEFINE h == alarms[s].handler
<1>1. /\ h \in Toggles /\ h \in Points /\ At("pass")
      /\ alarms' = Trigger(alarms, s) /\ stack' = AdvanceAndCall(s, h)
      /\ UNCHANGED <<setupDone, pulse, borewellOn>>
      /\ anomalies' \in {anomalies \ {"onStuck"}, anomalies \ {"offStuck"}}
  BY PointNames DEF RunToggle, Toggles, PassReaches, toggleOnRelay, toggleOffRelay, belief
<1>2. /\ stack \in Seq(Frames(Points)) /\ stack # <<>> /\ Len(stack) \in Nat
      /\ DOMAIN stack = 1 .. Len(stack) /\ "pass" \in Points
  BY <1>1, AtPoint, PointNames, LenProperties DEF TypeOK
<1>3. /\ DOMAIN stack' = 1 .. Len(stack) + 1 /\ stack'[Len(stack) + 1].at = h
      /\ \A i \in 1 .. Len(stack) : stack'[i].at = stack[i].at
  <2>1. /\ AdvanceAndCall(s, h) \in Seq(Frames(Points))
        /\ Len(AdvanceAndCall(s, h)) = Len(stack) + 1
        /\ \A i \in 1 .. Len(stack) : AdvanceAndCall(s, h)[i].at = stack[i].at
        /\ AdvanceAndCall(s, h)[Len(stack) + 1].at = h
    BY <1>1, <1>2, AdvanceAndCallAddsFrame
  <2> QED
    BY <1>1, <2>1, LenProperties
<1>4. /\ \A t \in Slots : t # s => alarms'[t] = alarms[t]
      /\ alarms'[s].handler = NoHandler
  <2>1. /\ alarms \in [Slots -> AlarmsOf(Handlers, RELAY_TRIGGER_INTERVAL)]
        /\ RELAY_TRIGGER_INTERVAL \in Nat
    BY IntervalAssumption DEF TypeOK
  <2>2. alarms[s].isOneShot
    BY <1>1 DEF FlagInv, OneShotInv
  <2> QED
    BY <1>1, <2>1, <2>2, TriggerFreesOneSlot
<1>5. NoHandler \notin Toggles
  BY DEF NoHandler, Toggles
<1>6. Pending(h) /\ PulseInFlight
  BY <1>1 DEF Pending, PulseInFlight
<1> HIDE DEF h
<1>7. OneShotInv'
  BY <1>4, <1>5 DEF FlagInv, OneShotInv
<1>8. InProgress(Toggles)'
  BY <1>1, <1>2, <1>3 DEF InProgress
<1>9. EarlyInv' /\ FlagFollowsPulse'
  BY <1>1, <1>6, <1>8 DEF FlagInv, EarlyInv, FlagFollowsPulse, PulseInFlight
<1>10. ToggleInv'
  <2> SUFFICES ASSUME Clean' PROVE ToggleInv'
    BY DEF ToggleInv
  <2>1. Clean
    BY <1>1 DEF Clean
  <2>2. /\ h = ToggleOf(pulse) /\ ~InProgress(Toggles)
        /\ \A t \in Slots : alarms[t].handler \in Toggles => t = s
    BY <1>1, <2>1 DEF FlagInv, ToggleInv, h
  <2>3. \A t \in Slots : alarms'[t].handler \notin Toggles
    BY <1>4, <1>5, <2>2
  <2>4. \A i \in DOMAIN stack' : stack'[i].at \in Toggles => i = Len(stack) + 1
    BY <1>2, <1>3, <2>2 DEF InProgress
  <2> QED
    BY <1>1, <1>3, <2>2, <2>3, <2>4 DEF ToggleInv
<1> QED
  BY <1>7, <1>9, <1>10 DEF FlagInv

\* The last wait of a toggle ends: the flag is set.
LEMMA ToggleSetsFlag ==
    ASSUME TypeOK, FlagInv, ToggleWaitEnds
    PROVE  FlagInv'
<1>1. PICK h \in Toggles :
         /\ At(h) /\ h \in Points
         /\ borewellOn' = (h = "toggleOnRelay")
         /\ stack' = Goto("tail") /\ UNCHANGED <<alarms, setupDone, relays>>
  BY PointNames DEF ToggleWaitEnds, ToggleSets, Toggles
<1>2. /\ stack \in Seq(Frames(Points)) /\ stack # <<>> /\ Len(stack) \in 1 .. Len(stack)
      /\ DOMAIN stack = 1 .. Len(stack) /\ stack[Len(stack)].at = h
      /\ "tail" \in Points /\ "tail" \notin Toggles
  BY <1>1, AtPoint, LenProperties, PointNames DEF Toggles
<1>3. /\ DOMAIN stack' = 1 .. Len(stack) /\ stack'[Len(stack)].at = "tail"
      /\ \A i \in 1 .. Len(stack) - 1 : stack'[i] = stack[i]
  BY <1>1, <1>2, GotoReplacesTop, LenProperties
<1>4. PulseInFlight
  BY <1>1, <1>2 DEF PulseInFlight, InProgress
<1>5. OneShotInv' /\ EarlyInv'
  BY <1>1, <1>4 DEF FlagInv, OneShotInv, EarlyInv, relays
<1>6. ASSUME Clean
      PROVE  /\ h = ToggleOf(pulse)
             /\ \A i \in DOMAIN stack : stack[i].at \in Toggles => i = Len(stack)
             /\ \A s \in Slots : alarms[s].handler \notin Toggles
  <2>1. /\ h = ToggleOf(pulse)
        /\ \A i \in DOMAIN stack : stack[i].at \in Toggles => i = Len(stack)
    BY <1>1, <1>2, <1>6 DEF FlagInv, ToggleInv
  <2>2. InProgress(Toggles)
    BY <1>1, <1>2 DEF InProgress
  <2>3. \A s \in Slots : alarms[s].handler \notin Toggles
    BY <1>6, <2>2 DEF FlagInv, ToggleInv
  <2> QED
    BY <2>1, <2>3
<1>7. ToggleInv'
  <2> SUFFICES ASSUME Clean PROVE ToggleInv'
    BY <1>1 DEF ToggleInv, Clean, relays
  <2>1. \A i \in DOMAIN stack' : stack'[i].at \notin Toggles
    BY <1>2, <1>3, <1>6
  <2> QED
    BY <1>1, <1>6, <2>1 DEF ToggleInv
<1>8. FlagFollowsPulse'
  BY <1>1, <1>6 DEF FlagFollowsPulse, Clean, relays, ToggleOf, TypeOK
<1> QED
  BY <1>5, <1>7, <1>8 DEF FlagInv

\* setup() disturbs no pulse but an early one.
LEMMA SetupKeepsFlag ==
    ASSUME TypeOK, BootInv, FlagInv, setup
    PROVE  FlagInv'
<1>1. ~setupDone /\ stack' = <<>>
  BY SetupEndsStart
<1>2. ASSUME NEW s \in Slots, alarms'[s].handler \in Toggles
      PROVE  alarms'[s] = alarms[s]
  <2>1. /\ alarms \in [Slots -> AlarmsOf(Handlers, RELAY_TRIGGER_INTERVAL)]
        /\ {"sendHeartbeat", "sendUpdate"} \subseteq Handlers \ Toggles
    BY DEF TypeOK, Handlers, Toggles
  <2> DEFINE first == timerRepeat(alarms, "sendHeartbeat")
             second == timerRepeat(first, "sendUpdate")
  <2>2. /\ first \in [Slots -> AlarmsOf(Handlers, RELAY_TRIGGER_INTERVAL)]
        /\ HasCreated(first, alarms, "sendHeartbeat", FALSE)
    BY <2>1, Interval, TimerRepeatFillsOneSlot
  <2> HIDE DEF first
  <2>3. HasCreated(second, first, "sendUpdate", FALSE)
    BY <2>1, <2>2, Interval, TimerRepeatFillsOneSlot
  <2> HIDE DEF second
  <2>4. alarms' = second
    BY DEF setup, second, first
  <2> QED
    BY <1>2, <2>1, <2>2, <2>3, <2>4 DEF HasCreated
<1>3. OneShotInv'
  BY <1>2 DEF FlagInv, OneShotInv
<1>4. EarlyInv'
  BY DEF setup, EarlyInv
<1>5. ASSUME "early" \in anomalies PROVE ToggleInv' /\ FlagFollowsPulse'
  BY <1>5 DEF setup, ToggleInv, FlagFollowsPulse, Clean
<1>6. ASSUME "early" \notin anomalies PROVE ToggleInv' /\ FlagFollowsPulse'
  <2>1. pulse' = "off" /\ ~borewellOn' /\ \A s \in Slots : alarms[s].handler \notin Toggles
    BY <1>1, <1>6 DEF FlagInv, EarlyInv, PulseInFlight, Pending, setup
  <2>2. \A s \in Slots : alarms'[s].handler \notin Toggles
    BY <1>2, <2>1
  <2>3. DOMAIN stack' = {}
    BY <1>1
  <2> QED
    BY <2>1, <2>2, <2>3 DEF ToggleInv, FlagFollowsPulse, setup
<1>7. ToggleInv' /\ FlagFollowsPulse'
  BY <1>5, <1>6
<1> QED
  BY <1>3, <1>4, <1>7 DEF FlagInv

\* A node that is started again has begun no pulse, but an earlier one may go on.
LEMMA RestartKeepsFlag ==
    ASSUME TypeOK, Restart
    PROVE  FlagInv'
<1>1. /\ \A s \in Slots : alarms'[s].handler \notin Toggles
      /\ \A i \in DOMAIN stack' : stack'[i].at \notin Toggles
  BY DEF Restart, NotAllocated, NoHandler, Toggles, Frame
<1>2. ~PulseInFlight'
  BY <1>1 DEF Restart, PulseInFlight, Pending, InProgress
<1> QED
  BY <1>1, <1>2
  DEF Restart, FlagInv, OneShotInv, EarlyInv, ToggleInv, FlagFollowsPulse, Clean, TypeOK

LEMMA FlagInvariant == Spec => []FlagInv
<1>1. Init => FlagInv
  <2> SUFFICES ASSUME Init PROVE FlagInv
    OBVIOUS
  <2>1. /\ \A s \in Slots : alarms[s].handler \notin Toggles
        /\ \A i \in DOMAIN stack : stack[i].at \notin Toggles
    BY DEF Init, NotAllocated, NoHandler, Toggles, Frame
  <2>2. ~PulseInFlight
    BY <2>1 DEF Init, PulseInFlight, Pending, InProgress
  <2> QED
    BY <2>1, <2>2 DEF Init, FlagInv, OneShotInv, EarlyInv, ToggleInv, FlagFollowsPulse
<1>2. TypeOK /\ BootInv /\ FlagInv /\ [Next]_vars => FlagInv'
  BY StepKinds, QuietKeepsFlag, PulseKeepsFlag, ToggleKeepsFlag, ToggleSetsFlag,
     SetupKeepsFlag, RestartKeepsFlag
<1> QED
  BY <1>1, <1>2, TypeCorrect, BootInvariant, PTL DEF Spec

\* Between pulses borewellOn says what the starter was last told, whatever commands, keys
\* and reports began the pulses, as long as none was begun during another or before setup().
THEOREM FlagIsTrue == Spec => []FlagFollowsPulse
<1>1. FlagInv => FlagFollowsPulse
  BY DEF FlagInv
<1> QED
  BY <1>1, FlagInvariant, PTL

LEMMA MessageInvariant == Spec => []MessageInv
<1>1. Init => MessageInv
  BY DEF Init, MessageInv
<1>2. TypeOK /\ BootInv /\ FlagInv /\ MessageInv /\ [Next]_vars => MessageInv'
  <2> SUFFICES ASSUME TypeOK, BootInv, FlagInv, MessageInv, [Next]_vars
               PROVE  MessageInv'
    OBVIOUS
  <2>1. CASE QuietStep
    BY <2>1 DEF QuietStep, MessageInv, relays
  <2>2. CASE PulseStep
    BY <2>2 DEF PulseStep, turnOnBorewell, turnOffBorewell, PulseBegins, MessageInv, belief
  <2>3. ASSUME NEW s \in Slots, RunToggle(s) PROVE MessageInv'
    BY <2>3 DEF RunToggle, toggleOnRelay, toggleOffRelay, MessageInv, belief
  <2>4. CASE ToggleWaitEnds
    <3>1. \E on \in BOOLEAN : borewellOn' = on /\ tank01Message' = on
      BY <2>4 DEF ToggleWaitEnds, ToggleSets
    <3>2. tank01Message' = borewellOn'
      BY <3>1, Zenon
    <3> QED
      BY <3>2, Zenon DEF MessageInv
  <2>5. CASE setup
    <3>1. /\ borewellOn' = FALSE /\ tank01Message' = tank01Message
          /\ "early" \in anomalies' <=> "early" \in anomalies
      BY <2>5 DEF setup
    <3>2. "early" \notin anomalies => borewellOn = FALSE
      BY <2>5, SetupEndsStart DEF FlagInv, EarlyInv, TypeOK
    <3> QED
      BY <3>1, <3>2 DEF MessageInv
  <2>6. CASE Restart
    BY <2>6 DEF Restart, MessageInv
  <2> QED
    BY <2>1, <2>2, <2>3, <2>4, <2>5, <2>6, StepKinds
<1> QED
  BY <1>1, <1>2, TypeCorrect, BootInvariant, FlagInvariant, PTL DEF Spec

\* Between pulses tank01Message was last sent with what the starter was last told, unless
\* pulses overlapped or one began before setup().
THEOREM MessageIsTrue == Spec => []MessageFollowsPulse
<1>1. MessageInv /\ FlagFollowsPulse => MessageFollowsPulse
  BY DEF MessageInv, FlagFollowsPulse, MessageFollowsPulse, Clean
<1> QED
  BY <1>1, MessageInvariant, FlagIsTrue, PTL
=============================================================================
