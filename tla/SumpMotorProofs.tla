--------------------------- MODULE SumpMotorProofs ---------------------------
(***************************************************************************)
(* Invariants of the sump motor node, for every size of the alarm pool and  *)
(* every nesting depth, whichever sensors report.                           *)
(***************************************************************************)
EXTENDS SumpMotor, RuntimeProofs

PoolType == [Slots -> AlarmsOf(Handlers, 0)]

OnSwitches == {"turnOn", "trippedOn"}

LEMMA PointNames ==
    /\ {"pass", "present", "presented", "config", "register", "tail", "ack", "toldOn"}
         \subseteq Points \ Switches
    /\ Switches \subseteq Points
    /\ "loop" \notin Points
    /\ OnSwitches \subseteq Switches
BY DEF Points, CorePoints, Switches, OnSwitches

-----------------------------------------------------------------------------
(* Steps *)

\* The steps that are none of a start.
LEMMA HandlerSteps ==
    ASSUME TypeOK, [Next]_vars
    PROVE  \/ /\ StackStep(Points \ StartPoints, Points \ {"register"})
              /\ UNCHANGED setupDone
           \/ PresentingNode \/ PresentationTellsOff \/ PresentationEnds \/ setup
<1> DEFINE Step == /\ StackStep(Points \ StartPoints, Points \ {"register"})
                   /\ UNCHANGED setupDone
<1>1. /\ {"pass", "tail", "ack", "toldOn"} \cup Switches \subseteq Points \ StartPoints
      /\ {"config", "tail", "ack", "toldOn", "pass"} \cup Switches \subseteq Points \ {"register"}
  BY DEF Points, CorePoints, Switches, StartPoints
<1>2. CASE \/ CommandOn \/ CommandOff
           \/ \E sensor \in Sensors, level \in BOOLEAN : ReceiveLevel(sensor, level)
           \/ ReceivePresentationRequest \/ PassBegins
  BY <1>1, <1>2
  DEF CommandOn, CommandOff, ReceiveLevel, ReceivePresentationRequest, PassBegins,
      ServiceAlarms, StackStep, Switches, sketch
<1>3. CASE CommandEnds \/ AckWaitEnds \/ TrippedOnEnds \/ ToldOnWaitEnds \/ TrippedOffEnds
  <2>1. \E q \in Switches \cup {"ack", "toldOn"} : At(q)
    BY <1>3 DEF CommandEnds, AckWaitEnds, TrippedOnEnds, ToldOnWaitEnds, TrippedOffEnds, Switches
  <2>2. \/ stack' = Return
        \/ \E p \in Switches \cup {"tail", "toldOn"} : stack' = Goto(p)
    BY <1>3 DEF CommandEnds, AckWaitEnds, TrippedOnEnds, ToldOnWaitEnds, TrippedOffEnds,
                Tell, Leave, Switches
  <2>3. UNCHANGED setupDone
    BY <1>3 DEF CommandEnds, AckWaitEnds, TrippedOnEnds, ToldOnWaitEnds, TrippedOffEnds, SwitchEnds
  <2> QED
    BY <1>1, <2>1, <2>2, <2>3 DEF StackStep
<1>4. CASE TailWaitEnds \/ PassEnds
  BY <1>1, <1>4 DEF TailWaitEnds, TailReturns, PassEnds, EndPass, StackStep, sketch
<1>5. ASSUME NEW s \in Slots, RunReport(s) PROVE Step
  BY <1>1, <1>5 DEF RunReport, PassReaches, StackStep, sketch
<1>6. CASE SecondPasses \/ UNCHANGED vars
  BY <1>6 DEF SecondPasses, Second, vars, StackStep, sketch
<1> QED
  BY <1>2, <1>3, <1>4, <1>5, <1>6 DEF Next, WaitEnds

\* Every step is a step of the stack.
LEMMA Steps ==
    ASSUME TypeOK, [Next]_vars
    PROVE  StackStep(Points, Points)
<1>1. CASE StackStep(Points \ StartPoints, Points \ {"register"})
  BY <1>1 DEF StackStep
<1>2. CASE PresentingNode \/ PresentationTellsOff \/ PresentationEnds \/ setup
  BY <1>2, PointNames
  DEF PresentingNode, ConfigWaitEnds, PresentationTellsOff, PresentationEnds, setup, StackStep
<1> QED
  BY <1>1, <1>2, HandlerSteps

-----------------------------------------------------------------------------
(* Types *)

\* What each action does to the pool.
LEMMA PoolStays ==
    ASSUME TypeOK, [Next]_vars
    PROVE  alarms' \in PoolType
<1> USE DEF PoolType
<1>1. alarms \in PoolType /\ 0 \in Nat /\ 0 \in 0 .. 0 /\ FALSE \in BOOLEAN
  BY DEF TypeOK
<1>2. \A pool \in PoolType, h \in Handlers : timerRepeat(pool, h) \in PoolType
  BY <1>1, CreateFillsOneSlot, Zenon DEF timerRepeat
<1>3. Elapse(alarms) \in PoolType
  BY <1>1, ElapseKeepsHandlers, Zenon
<1>4. \A s \in Slots : Trigger(alarms, s) \in PoolType
  BY <1>1, TriggerFreesOneSlot, Zenon
<1>5. timerRepeat(timerRepeat(alarms, "sendHeartbeat"), "sendUpdate") \in PoolType
  BY <1>1, <1>2 DEF Handlers
<1>6. \/ alarms' \in {alarms, Elapse(alarms)}
      \/ \E s \in Slots : alarms' = Trigger(alarms, s)
      \/ alarms' = timerRepeat(timerRepeat(alarms, "sendHeartbeat"), "sendUpdate")
  BY DEF Next, WaitEnds, CommandOn, CommandOff, SwitchRelay, ReceiveLevel,
         ReceivePresentationRequest, CommandEnds, SwitchEnds, AckWaitEnds, TrippedOnEnds,
         ToldOnWaitEnds, TrippedOffEnds, TailWaitEnds, TailReturns, PresentingNode,
         ConfigWaitEnds, PresentationTellsOff, PresentationEnds, setup, PassBegins,
         ServiceAlarms, PassEnds,
         EndPass, RunReport, SecondPasses, Second, vars
<1> QED
  BY <1>1, <1>3, <1>4, <1>5, <1>6

\* Every variable holds a value of its type, in every reachable state.
THEOREM TypeCorrect == Spec => []TypeOK
<1>1. Init => TypeOK
  <2> SUFFICES ASSUME Init PROVE TypeOK
    OBVIOUS
  <2>1. NotAllocated \in AlarmsOf(Handlers, 0)
    BY DEF NotAllocated, AlarmsOf
  <2>2. <<Frame("config")>> \in Seq(Frames(Points))
    <3>1. Frame("config") \in Frames(Points)
      BY PointNames, PoolAssumption DEF Frame, Frames
    <3> QED
      BY <3>1
  <2> QED
    BY <2>1, <2>2 DEF Init, TypeOK, Anomalies
<1>2. TypeOK /\ [Next]_vars => TypeOK'
  <2> SUFFICES ASSUME TypeOK, [Next]_vars PROVE TypeOK'
    OBVIOUS
  <2>1. stack' \in Seq(Frames(Points))
    BY Steps, StackStepEffects, PointNames DEF TypeOK
  <2>2. alarms' \in [Slots -> AlarmsOf(Handlers, 0)]
    BY PoolStays DEF PoolType
  <2>3. /\ {setupDone', relay', sumpMotorOn', told'} \subseteq BOOLEAN
        /\ tripped' \in SUBSET Sensors
        /\ anomalies' \in SUBSET Anomalies
    BY DEF TypeOK, Next, WaitEnds, CommandOn, CommandOff, SwitchRelay, ReceiveLevel,
           ReceivePresentationRequest, CommandEnds, SwitchEnds, AckWaitEnds, TrippedOnEnds,
           ToldOnWaitEnds, TrippedOffEnds, Tell, Leave, Mark, Anomalies, TailWaitEnds,
           PresentingNode, PresentationTellsOff, PresentationEnds, setup, PassBegins,
           PassEnds, RunReport,
           SecondPasses, sketch, vars
  <2> QED
    BY <2>1, <2>2, <2>3 DEF TypeOK
<1> QED
  BY <1>1, <1>2, PTL DEF Spec
-----------------------------------------------------------------------------
(* Starts *)

LEMMA BootInvariant == Spec => []BootInv
<1>1. Init => BootInv
  BY DEF Init, BootInv, BootOrder, Frame
<1>2. TypeOK /\ BootInv /\ [Next]_vars => BootInv'
  <2> SUFFICES ASSUME TypeOK, BootInv, [Next]_vars PROVE BootInv'
    OBVIOUS
  <2>1. /\ stack \in Seq(Frames(Points)) /\ BootOrder(stack, setupDone)
        /\ "loop" \notin Points
        /\ {"pass", "present", "presented", "register"} \subseteq Points
    BY PointNames DEF TypeOK, BootInv
  <2>2. CASE setup
    <3>1. stack' = <<>> /\ setupDone'
      BY <2>1, <2>2, SetupAtBottom DEF setup
    <3> QED
      BY <3>1 DEF BootInv, BootOrder
  <2>3. CASE PresentingNode
    <3>1. At("config") /\ stack' = Goto("present")
      BY <2>3 DEF PresentingNode, ConfigWaitEnds
    <3>2. BootOrder(stack', setupDone)
      BY <2>1, <3>1, BootStays
    <3> QED
      BY <2>3, <3>2 DEF BootInv, PresentingNode, sketch
  <2>4. CASE PresentationEnds
    <3>1. /\ At("presented")
          /\ stack' = IF setupDone \/ Len(stack) > 1 THEN Return ELSE Goto("register")
      BY <2>4 DEF PresentationEnds
    <3>2. BootOrder(stack', setupDone)
      BY <2>1, <3>1, BootPresentationEnds
    <3> QED
      BY <2>4, <3>2 DEF BootInv, PresentationEnds, sketch
  <2>6. CASE PresentationTellsOff
    <3>1. At("present") /\ stack' = Goto("presented")
      BY <2>6 DEF PresentationTellsOff
    <3>2. BootOrder(stack', setupDone)
      BY <2>1, <3>1, BootStays
    <3> QED
      BY <2>6, <3>2 DEF BootInv, PresentationTellsOff
  <2>5. CASE /\ StackStep(Points \ StartPoints, Points \ {"register"})
             /\ UNCHANGED setupDone
    <3>1. BootOrder(stack', setupDone)
      BY <2>1, <2>5, BootStays
    <3> QED
      BY <2>5, <3>1 DEF BootInv
  <2> QED
    BY <2>2, <2>3, <2>4, <2>5, <2>6, HandlerSteps
<1> QED
  BY <1>1, <1>2, TypeCorrect, PTL DEF Spec

-----------------------------------------------------------------------------
(* The flag and the relay *)

FlagInv == SwitchInv /\ FlagFollowsRelay

\* The steps that call, end and go on to no handler of the motor, those that tell nothing
\* and those that do.
QuietStep ==
    \/ ReceivePresentationRequest \/ TailWaitEnds \/ PresentingNode \/ PresentationEnds
    \/ PassBegins \/ PassEnds \/ SecondPasses \/ UNCHANGED vars

RuntimeStep ==
    \/ QuietStep
    \/ PresentationTellsOff
    \/ \E s \in Slots : RunReport(s)

MotorPoints == Switches \cup {"ack", "toldOn"}

LEMMA MotorPointNames ==
    /\ {"config", "present", "presented", "pass", "tail"} \subseteq Points \ MotorPoints
    /\ MotorPoints \subseteq Points /\ Switches \subseteq MotorPoints
    /\ OnSwitches \subseteq MotorPoints
    /\ "loop" \notin Points
BY DEF Points, CorePoints, Switches, MotorPoints, OnSwitches

\* What they leave alone.
Unswitched ==
    /\ UNCHANGED <<relay, sumpMotorOn, tripped>>
    /\ \A a \in {"overlap", "blind"} : a \in anomalies' <=> a \in anomalies

LEMMA RuntimeSteps ==
    ASSUME TypeOK, RuntimeStep
    PROVE  StackStep(Points \ MotorPoints, Points \ MotorPoints) /\ Unswitched
<1> DEFINE Step == StackStep(Points \ MotorPoints, Points \ MotorPoints) /\ Unswitched
<1>1. {"config", "present", "presented", "pass", "tail", "register"} \subseteq Points \ MotorPoints
  BY DEF Points, CorePoints, Switches, MotorPoints
<1>2. UNCHANGED sketch => Unswitched
  BY DEF sketch, Unswitched
<1>3. CASE ReceivePresentationRequest \/ PassBegins
  BY <1>1, <1>2, <1>3 DEF ReceivePresentationRequest, PassBegins, ServiceAlarms, StackStep
<1>4. CASE TailWaitEnds \/ PassEnds
  BY <1>1, <1>2, <1>4 DEF TailWaitEnds, TailReturns, PassEnds, EndPass, StackStep
<1>5. CASE PresentingNode \/ PresentationEnds
  BY <1>1, <1>2, <1>5 DEF PresentingNode, ConfigWaitEnds, PresentationEnds, StackStep
<1>6. CASE PresentationTellsOff
  BY <1>1, <1>6 DEF PresentationTellsOff, Mark, Unswitched, StackStep
<1>7. CASE SecondPasses \/ UNCHANGED vars
  BY <1>2, <1>7 DEF SecondPasses, Second, vars, sketch, StackStep
<1>8. ASSUME NEW s \in Slots, RunReport(s) PROVE Step
  <2>1. StackStep(Points \ MotorPoints, Points \ MotorPoints)
    BY <1>1, <1>8 DEF RunReport, PassReaches, StackStep
  <2>2. Unswitched
    BY <1>8 DEF RunReport, Mark, Unswitched
  <2> QED
    BY <2>1, <2>2
<1> QED
  BY <1>3, <1>4, <1>5, <1>6, <1>7, <1>8 DEF RuntimeStep, QuietStep

\* A step that begins and ends no switch.
LEMMA FlagStays ==
    ASSUME TypeOK, FlagInv, StackStep(Points \ Switches, Points \ Switches),
           UNCHANGED <<relay, sumpMotorOn>>,
           "overlap" \in anomalies' <=> "overlap" \in anomalies
    PROVE  FlagInv'
<1>1. /\ stack \in Seq(Frames(Points)) /\ "loop" \notin Points
      /\ Points \ Switches \subseteq Points /\ "loop" \notin Points \ Switches
  BY PointNames DEF TypeOK
<1>2. /\ \A i \in DOMAIN stack' : stack'[i].at \in Switches =>
            i \in DOMAIN stack /\ stack[i].at = stack'[i].at
  BY <1>1, StackStepEffects
<1>3. InProgress(Switches) => InProgress(Switches)'
  BY <1>1, StackStepProgress
<1>4. SwitchInv'
  BY <1>2 DEF FlagInv, SwitchInv
<1> QED
  BY <1>3, <1>4 DEF FlagInv, FlagFollowsRelay

\* A switch begins: it is the only one in progress, or one was begun inside another.
LEMMA FlagSwitchBegins ==
    ASSUME TypeOK, NEW to \in Switches, NEW on \in BOOLEAN, on <=> to \in OnSwitches,
           SwitchRelay(on), StackStep(Points \ Switches, {to}), InProgress(Switches)'
    PROVE  FlagInv'
<1>1. /\ stack \in Seq(Frames(Points)) /\ "loop" \notin Points
      /\ {to} \subseteq Points /\ "loop" \notin Points \ Switches
  BY PointNames DEF TypeOK
<1>2. \A i \in DOMAIN stack' :
         \/ i \in DOMAIN stack /\ stack'[i].at = stack[i].at
         \/ i = Len(stack') /\ stack'[i].at = to
  BY <1>1, StackStepEffects
<1>3. "overlap" \notin anomalies' => ~InProgress(Switches)
  BY DEF SwitchRelay, Mark
<1>4. ASSUME "overlap" \notin anomalies', NEW i \in DOMAIN stack', stack'[i].at \in Switches
      PROVE  i = Len(stack') /\ stack'[i].at = to
  BY <1>2, <1>3, <1>4 DEF InProgress
<1>5. SwitchInv'
  <2> SUFFICES ASSUME "overlap" \notin anomalies', NEW i \in DOMAIN stack',
                      stack'[i].at \in Switches
               PROVE  /\ relay' <=> stack'[i].at \in {"turnOn", "trippedOn"}
                      /\ \A j \in DOMAIN stack' : stack'[j].at \in Switches => j = i
    BY DEF SwitchInv
  <2> QED
    BY <1>4 DEF SwitchRelay, OnSwitches
<1> QED
  BY <1>5 DEF FlagInv, FlagFollowsRelay

\* A switch ends and sets the flag to what it has switched the relay to, unless one was
\* begun inside another.
LEMMA FlagSwitchEnds ==
    ASSUME TypeOK, FlagInv, NEW q \in Switches, At(q), StackStep({q}, Points \ Switches),
           sumpMotorOn' = (q \in OnSwitches), relay' = relay,
           "overlap" \in anomalies' <=> "overlap" \in anomalies
    PROVE  FlagInv'
<1>1. /\ stack \in Seq(Frames(Points)) /\ "loop" \notin Points /\ q # "loop"
      /\ Points \ Switches \subseteq Points /\ "loop" \notin {q}
  BY PointNames DEF TypeOK
<1>2. /\ \A i \in DOMAIN stack' : stack'[i].at \in Switches =>
            i \in DOMAIN stack /\ stack[i].at = stack'[i].at
  BY <1>1, StackStepEffects
<1>3. SwitchInv'
  BY <1>2 DEF FlagInv, SwitchInv
<1>4. Len(stack) \in DOMAIN stack /\ stack[Len(stack)].at = q
  BY <1>1, TopIsPoint, LenProperties
<1>5. "overlap" \notin anomalies => (relay <=> q \in OnSwitches)
  BY <1>4 DEF FlagInv, SwitchInv, OnSwitches
<1> QED
  BY <1>3, <1>5 DEF FlagInv, FlagFollowsRelay, TypeOK

\* What the steps of the motor do to the stack, and which of them switch.
LEMMA MotorSteps ==
    ASSUME TypeOK, [Next]_vars
    PROVE  \/ RuntimeStep
           \/ setup
           \/ \E sensor \in Sensors, level \in BOOLEAN : ReceiveLevel(sensor, level)
           \/ CommandOn \/ CommandOff \/ CommandEnds
           \/ AckWaitEnds \/ TrippedOnEnds \/ ToldOnWaitEnds \/ TrippedOffEnds
BY DEF Next, WaitEnds, RuntimeStep, QuietStep

LEMMA CommandSwitches ==
    ASSUME TypeOK, NEW to \in Switches, stack' = Call(to)
    PROVE  StackStep(Points \ Switches, {to}) /\ InProgress(Switches)'
<1>1. InProgress(Switches)' <=> InProgress(Switches) \/ to \in Switches
  BY InProgressAfterCall, PointNames DEF TypeOK
<1> QED
  BY <1>1 DEF StackStep

LEMMA TestSwitches ==
    ASSUME TypeOK, NEW to \in Switches, NEW q \in {"ack", "toldOn"}, At(q), stack' = Goto(to)
    PROVE  StackStep(Points \ Switches, {to}) /\ InProgress(Switches)'
<1>1. stack \in Seq(Frames(Points)) /\ stack # <<>>
  BY PointNames, TopIsPoint DEF TypeOK
<1>2. to \in Switches => InProgress(Switches)'
  BY <1>1, InProgressAfterGoto, PointNames
<1>3. q \in Points \ Switches
  BY PointNames
<1> QED
  BY <1>2, <1>3 DEF StackStep

LEMMA FlagInvariant == Spec => []FlagInv
<1>1. Init => FlagInv
  <2> SUFFICES ASSUME Init PROVE FlagInv
    OBVIOUS
  <2>1. \A i \in DOMAIN stack : stack[i].at = "config"
    BY DEF Init, Frame
  <2> QED
    BY <2>1 DEF Init, FlagInv, SwitchInv, FlagFollowsRelay, Switches
<1>2. TypeOK /\ BootInv /\ FlagInv /\ [Next]_vars => FlagInv'
  <2> SUFFICES ASSUME TypeOK, BootInv, FlagInv, [Next]_vars PROVE FlagInv'
    OBVIOUS
  <2> USE DEF OnSwitches
  <2>0. /\ {"turnOn", "trippedOn", "turnOff", "trippedOff"} \subseteq Switches
        /\ {"ack", "toldOn", "tail"} \subseteq Points \ Switches
    BY PointNames DEF Switches
  <2>1. CASE RuntimeStep
    <3>1. StackStep(Points \ MotorPoints, Points \ MotorPoints) /\ Unswitched
      BY <2>1, RuntimeSteps
    <3>2. StackStep(Points \ Switches, Points \ Switches)
      BY <3>1, MotorPointNames DEF StackStep
    <3> QED
      BY <3>1, <3>2, FlagStays DEF Unswitched
  <2>2. CASE setup
    <3>1. stack' = <<>>
      BY <2>2, SetupAtBottom, PointNames DEF setup, TypeOK, BootInv
    <3>2. DOMAIN stack' = {}
      BY <3>1
    <3> QED
      BY <2>2, <3>2 DEF setup, FlagInv, SwitchInv, FlagFollowsRelay
  <2>3. CASE \E sensor \in Sensors, level \in BOOLEAN : ReceiveLevel(sensor, level)
    <3>1. StackStep(Points \ Switches, Points \ Switches)
      BY <2>0, <2>3 DEF ReceiveLevel, StackStep
    <3> QED
      BY <2>3, <3>1, FlagStays DEF ReceiveLevel, Mark
  <2>4. CASE CommandOn
    <3>1. StackStep(Points \ Switches, {"turnOn"}) /\ InProgress(Switches)'
      BY <2>0, <2>4, CommandSwitches DEF CommandOn
    <3> QED
      BY <2>0, <2>4, <3>1, FlagSwitchBegins DEF CommandOn
  <2>5. CASE CommandOff
    <3>1. StackStep(Points \ Switches, {"turnOff"}) /\ InProgress(Switches)'
      BY <2>0, <2>5, CommandSwitches DEF CommandOff
    <3> QED
      BY <2>0, <2>5, <3>1, FlagSwitchBegins DEF CommandOff
  <2>6. CASE CommandEnds \/ TrippedOnEnds \/ TrippedOffEnds
    <3> DEFINE Ends(q, on) == /\ At(q) /\ sumpMotorOn' = on
                              /\ stack' = Return \/ \E p \in {"toldOn", "tail"} : stack' = Goto(p)
    <3>1. relay' = relay /\ ("overlap" \in anomalies' <=> "overlap" \in anomalies)
      BY <2>6 DEF CommandEnds, TrippedOnEnds, TrippedOffEnds, SwitchEnds, Tell, Mark
    <3>2. ASSUME NEW q \in Switches, NEW on \in BOOLEAN, on = (q \in OnSwitches), Ends(q, on)
          PROVE  FlagInv'
      <4>1. StackStep({q}, Points \ Switches)
        BY <2>0, <3>2 DEF StackStep
      <4> QED
        BY <3>1, <3>2, <4>1, FlagSwitchEnds
    <3>3. \/ Ends("turnOn", TRUE) \/ Ends("turnOff", FALSE)
          \/ Ends("trippedOn", TRUE) \/ Ends("trippedOff", FALSE)
      BY <2>6 DEF CommandEnds, TrippedOnEnds, TrippedOffEnds, SwitchEnds, Tell
    <3>4. /\ TRUE = ("turnOn" \in OnSwitches) /\ TRUE = ("trippedOn" \in OnSwitches)
          /\ FALSE = ("turnOff" \in OnSwitches) /\ FALSE = ("trippedOff" \in OnSwitches)
      OBVIOUS
    <3>5. /\ "turnOn" \in Switches /\ "trippedOn" \in Switches
          /\ "turnOff" \in Switches /\ "trippedOff" \in Switches
          /\ TRUE \in BOOLEAN /\ FALSE \in BOOLEAN
      BY <2>0
    <3> HIDE DEF Ends, OnSwitches
    <3> QED
      BY <3>2, <3>3, <3>4, <3>5, Zenon
  <2>7. CASE AckWaitEnds
    <3>1. CASE SwitchRelay(TRUE) /\ stack' = Goto("trippedOn")
      <4>1. StackStep(Points \ Switches, {"trippedOn"}) /\ InProgress(Switches)'
        BY <2>0, <2>7, <3>1, TestSwitches DEF AckWaitEnds
      <4> QED
        BY <2>0, <3>1, <4>1, FlagSwitchBegins
    <3>2. CASE /\ Tell(TRUE, "toldOn") \/ Tell(FALSE, "tail")
               /\ UNCHANGED <<alarms, relay, sumpMotorOn>>
      <4>1. StackStep(Points \ Switches, Points \ Switches)
        BY <2>0, <2>7, <3>2 DEF AckWaitEnds, Tell, StackStep
      <4> QED
        BY <3>2, <4>1, FlagStays DEF Tell, Mark
    <3> QED
      BY <2>7, <3>1, <3>2 DEF AckWaitEnds
  <2>8. CASE ToldOnWaitEnds
    <3>1. CASE SwitchRelay(FALSE) /\ stack' = Goto("trippedOff")
      <4>1. StackStep(Points \ Switches, {"trippedOff"}) /\ InProgress(Switches)'
        BY <2>0, <2>8, <3>1, TestSwitches DEF ToldOnWaitEnds
      <4> QED
        BY <2>0, <3>1, <4>1, FlagSwitchBegins
    <3>2. CASE /\ Leave \/ Tell(FALSE, "tail")
               /\ UNCHANGED <<alarms, relay, sumpMotorOn>>
      <4>1. StackStep(Points \ Switches, Points \ Switches)
        BY <2>0, <2>8, <3>2 DEF ToldOnWaitEnds, Leave, Tell, StackStep
      <4> QED
        BY <3>2, <4>1, FlagStays DEF Leave, Tell, Mark
    <3> QED
      BY <2>8, <3>1, <3>2 DEF ToldOnWaitEnds
  <2> QED
    BY <2>1, <2>2, <2>3, <2>4, <2>5, <2>6, <2>7, <2>8, MotorSteps
<1> QED
  BY <1>1, <1>2, TypeCorrect, BootInvariant, PTL DEF Spec

\* With no switch in progress, and none begun inside another, the flag is what the relay is.
THEOREM FlagTellsTheRelay == Spec => []FlagFollowsRelay
<1>1. FlagInv => FlagFollowsRelay
  BY DEF FlagInv
<1> QED
  BY <1>1, FlagInvariant, PTL

-----------------------------------------------------------------------------
(* The motor stops *)

PreCheck == {"ack", "trippedOn", "toldOn"}

GuardInv == BlindInv /\ StopInv

\* What a step that calls no test and takes no report leaves to be shown: it begins no
\* turnOn and ends no test.
LEMMA GuardStays ==
    ASSUME TypeOK, GuardInv, StackStep(Points \ PreCheck, Points \ {"turnOn"}),
           relay' => relay, tripped' = tripped,
           "blind" \in anomalies' <=> "blind" \in anomalies,
           "overlap" \in anomalies => "overlap" \in anomalies'
    PROVE  GuardInv'
<1>1. /\ stack \in Seq(Frames(Points)) /\ "loop" \notin Points
      /\ Points \ {"turnOn"} \subseteq Points /\ "loop" \notin Points \ PreCheck
  BY PointNames DEF TypeOK
<1>2. /\ InProgress(PreCheck) => InProgress(PreCheck)'
      /\ InProgress({"turnOn"})' => InProgress({"turnOn"})
  <2>1. PreCheck \cap (Points \ PreCheck) = {} /\ {"turnOn"} \cap (Points \ {"turnOn"}) = {}
    OBVIOUS
  <2> QED
    BY <1>1, <2>1, StackStepProgress
<1> QED
  BY <1>2 DEF GuardInv, BlindInv, StopInv, MustStop, tank02HighLevel, tank03LowLevel, PreCheck

\* The report was answered, or ON was told, and the flag is down although the
\* motor runs: then the test before it has just begun to switch it on.
LEMMA FlagIsLate ==
    ASSUME TypeOK, FlagInv, GuardInv, relay, MustStop, ~sumpMotorOn,
           anomalies \cap {"blind", "overlap"} = {}
    PROVE  InProgress({"trippedOn"})
<1>1. PICK i \in DOMAIN stack : stack[i].at \in Switches
  BY DEF FlagInv, FlagFollowsRelay, InProgress, TypeOK
<1>2. stack[i].at \in {"turnOn", "trippedOn"}
  BY <1>1 DEF FlagInv, SwitchInv
<1>3. stack[i].at # "turnOn"
  BY <1>1 DEF GuardInv, BlindInv, InProgress
<1> QED
  BY <1>1, <1>2, <1>3 DEF InProgress

\* A test ends that switches nothing, and says that the flag is down.
LEMMA GuardAtTest ==
    ASSUME TypeOK, FlagInv, GuardInv, NEW q \in {"ack", "toldOn"}, At(q), stack' = Goto("tail"),
           sumpMotorOn = FALSE, UNCHANGED <<relay, tripped>>,
           anomalies' = Mark(anomalies, "misled", InsideSwitch)
    PROVE  GuardInv'
<1>1. /\ stack \in Seq(Frames(Points)) /\ "loop" \notin Points
      /\ {"tail"} \subseteq Points /\ "loop" \notin {q}
  BY PointNames DEF TypeOK
<1>2. StackStep({q}, {"tail"})
  BY DEF StackStep
<1>3. /\ InProgress({"trippedOn"}) => InProgress({"trippedOn"})'
      /\ InProgress({"turnOn"})' => InProgress({"turnOn"})
  <2>1. {"trippedOn"} \cap {q} = {} /\ {"turnOn"} \cap {"tail"} = {}
    OBVIOUS
  <2> QED
    BY <1>1, <1>2, <2>1, StackStepProgress
<1>4. MustStop' = MustStop
  BY DEF MustStop, tank02HighLevel, tank03LowLevel
<1>5. BlindInv'
  BY <1>3, <1>4 DEF GuardInv, BlindInv, Mark
<1>6. ASSUME relay', MustStop', anomalies' \cap {"blind", "overlap"} = {}
      PROVE  InProgress(PreCheck)'
  <2>1. anomalies \cap {"blind", "overlap"} = {}
    BY <1>6 DEF Mark
  <2>2. InProgress({"trippedOn"})'
    BY <1>3, <1>4, <1>6, <2>1, FlagIsLate
  <2> QED
    BY <2>2 DEF InProgress, PreCheck
<1> QED
  BY <1>5, <1>6 DEF GuardInv, StopInv, PreCheck

\* A call or a test goes on to a point at which a test is to come.
LEMMA GuardAhead ==
    ASSUME TypeOK, NEW p \in PreCheck, InProgress({p})'
    PROVE  StopInv'
BY DEF StopInv, InProgress, PreCheck

\* Nothing but a command begins a turnOn, and nothing but a report changes the levels.
LEMMA BlindStays ==
    ASSUME TypeOK, GuardInv, StackStep(Points, Points \ {"turnOn"}), tripped' = tripped,
           "blind" \in anomalies' <=> "blind" \in anomalies
    PROVE  BlindInv'
<1>1. /\ stack \in Seq(Frames(Points)) /\ "loop" \notin Points
      /\ Points \ {"turnOn"} \subseteq Points
  BY PointNames DEF TypeOK
<1>2. InProgress({"turnOn"})' => InProgress({"turnOn"})
  <2>1. {"turnOn"} \cap (Points \ {"turnOn"}) = {}
    OBVIOUS
  <2> QED
    BY <1>1, <2>1, StackStepProgress
<1> QED
  BY <1>2 DEF GuardInv, BlindInv, MustStop, tank02HighLevel, tank03LowLevel

LEMMA GuardInvariant == Spec => []GuardInv
<1>1. Init => GuardInv
  BY DEF Init, GuardInv, BlindInv, StopInv, MustStop, tank02HighLevel, tank03LowLevel
<1>2. TypeOK /\ BootInv /\ FlagInv /\ GuardInv /\ [Next]_vars => GuardInv'
  <2> SUFFICES ASSUME TypeOK, BootInv, FlagInv, GuardInv, [Next]_vars PROVE GuardInv'
    OBVIOUS
  <2>0. /\ stack \in Seq(Frames(Points))
        /\ {"turnOn", "turnOff", "ack", "trippedOn", "toldOn", "trippedOff", "tail"} \subseteq Points
        /\ PreCheck \subseteq MotorPoints /\ "turnOn" \in MotorPoints
    BY DEF TypeOK, Points, CorePoints, Switches, MotorPoints, PreCheck
  <2>1. CASE RuntimeStep
    <3>1. StackStep(Points \ MotorPoints, Points \ MotorPoints) /\ Unswitched
      BY <2>1, RuntimeSteps
    <3>2. StackStep(Points \ PreCheck, Points \ {"turnOn"})
      BY <2>0, <3>1 DEF StackStep
    <3> QED
      BY <3>1, <3>2, GuardStays DEF Unswitched
  <2>2. CASE setup
    <3>1. stack' = <<>>
      BY <2>2, SetupAtBottom, PointNames DEF setup, TypeOK, BootInv
    <3>2. DOMAIN stack' = {}
      BY <3>1
    <3> QED
      BY <2>2, <3>2 DEF setup, GuardInv, BlindInv, StopInv, InProgress
  <2>3. ASSUME NEW sensor \in Sensors, NEW level \in BOOLEAN, ReceiveLevel(sensor, level)
        PROVE  GuardInv'
    <3>1. /\ InProgress({"turnOn"})' <=> InProgress({"turnOn"})
          /\ InProgress({"ack"})'
      BY <2>0, <2>3, InProgressAfterCall DEF ReceiveLevel
    <3>2. "blind" \in anomalies' <=> InProgress({"turnOn"})
      BY <2>3 DEF ReceiveLevel, Mark
    <3>3. BlindInv'
      BY <3>1, <3>2 DEF BlindInv
    <3> QED
      BY <3>1, <3>3, GuardAhead DEF GuardInv, PreCheck
  <2>4. CASE CommandOn
    BY <2>4 DEF CommandOn, MayStart, GuardInv, BlindInv, StopInv, MustStop,
                tank02HighLevel, tank03LowLevel
  <2>5. CASE CommandOff
    <3>1. StackStep(Points, Points \ {"turnOn"})
      BY <2>0, <2>5 DEF CommandOff, StackStep
    <3>2. BlindInv'
      BY <2>5, <3>1, BlindStays DEF CommandOff, SwitchRelay, Mark
    <3> QED
      BY <2>5, <3>2 DEF CommandOff, SwitchRelay, GuardInv, StopInv
  <2>6. CASE CommandEnds \/ TrippedOffEnds
    <3>1. StackStep(Points \ PreCheck, Points \ {"turnOn"})
      BY <2>0, <2>6 DEF CommandEnds, TrippedOffEnds, Tell, StackStep, PreCheck
    <3> QED
      BY <2>6, <3>1, GuardStays DEF CommandEnds, TrippedOffEnds, SwitchEnds, Tell, Mark
  <2>7. CASE TrippedOnEnds
    <3>1. StackStep(Points, Points \ {"turnOn"})
      BY <2>0, <2>7 DEF TrippedOnEnds, Tell, StackStep
    <3>2. BlindInv'
      BY <2>7, <3>1, BlindStays DEF TrippedOnEnds, SwitchEnds, Tell, Mark
    <3>3. InProgress({"toldOn"})'
      BY <2>0, <2>7, PointNames, TopIsPoint, InProgressAfterGoto DEF TrippedOnEnds, Tell
    <3> QED
      BY <3>2, <3>3, GuardAhead DEF GuardInv, PreCheck
  <2>8. CASE AckWaitEnds
    <3>1. At("ack") /\ stack # <<>> /\ tripped' = tripped
      BY <2>0, <2>8, PointNames, TopIsPoint DEF AckWaitEnds
    <3>2. ASSUME NEW p \in {"trippedOn", "toldOn"}, stack' = Goto(p),
                 "blind" \in anomalies' <=> "blind" \in anomalies
          PROVE  GuardInv'
      <4>1. StackStep(Points, Points \ {"turnOn"})
        BY <2>0, <3>1, <3>2 DEF StackStep
      <4>2. InProgress({p})'
        BY <2>0, <3>1, <3>2, InProgressAfterGoto
      <4> QED
        BY <3>1, <3>2, <4>1, <4>2, BlindStays, GuardAhead DEF GuardInv, PreCheck
    <3>3. CASE SwitchRelay(TRUE) /\ stack' = Goto("trippedOn")
      BY <3>2, <3>3 DEF SwitchRelay, Mark
    <3>4. CASE Tell(TRUE, "toldOn")
      BY <3>2, <3>4 DEF Tell, Mark
    <3>5. CASE ~sumpMotorOn /\ Tell(FALSE, "tail") /\ UNCHANGED <<alarms, relay, sumpMotorOn>>
      BY <3>1, <3>5, GuardAtTest DEF Tell, TypeOK
    <3> QED
      BY <2>8, <3>3, <3>4, <3>5 DEF AckWaitEnds
  <2>9. CASE ToldOnWaitEnds
    <3>1. At("toldOn") /\ stack # <<>> /\ tripped' = tripped
      BY <2>0, <2>9, PointNames, TopIsPoint DEF ToldOnWaitEnds
    <3>2. ASSUME stack' = Return \/ \E p \in {"trippedOff", "tail"} : stack' = Goto(p),
                 "blind" \in anomalies' <=> "blind" \in anomalies
          PROVE  BlindInv'
      <4>1. StackStep(Points, Points \ {"turnOn"})
        BY <2>0, <3>1, <3>2 DEF StackStep
      <4> QED
        BY <3>1, <3>2, <4>1, BlindStays
    <3>3. CASE SwitchRelay(FALSE) /\ stack' = Goto("trippedOff")
      BY <3>2, <3>3 DEF SwitchRelay, Mark, GuardInv, StopInv
    <3>4. CASE /\ ~ (MustStop /\ sumpMotorOn) /\ sumpMotorOn
               /\ Leave /\ UNCHANGED <<alarms, relay, sumpMotorOn>>
      BY <3>1, <3>2, <3>4
      DEF Leave, GuardInv, StopInv, MustStop, tank02HighLevel, tank03LowLevel
    <3>5. CASE ~sumpMotorOn /\ Tell(FALSE, "tail") /\ UNCHANGED <<alarms, relay, sumpMotorOn>>
      BY <3>1, <3>5, GuardAtTest DEF Tell, TypeOK
    <3> QED
      BY <2>9, <3>3, <3>4, <3>5 DEF ToldOnWaitEnds, MustStop
  <2> QED
    BY <2>1, <2>2, <2>3, <2>4, <2>5, <2>6, <2>7, <2>8, <2>9, MotorSteps
<1> QED
  BY <1>1, <1>2, TypeCorrect, BootInvariant, FlagInvariant, PTL DEF Spec

\* When no handler is left the motor does not fill a full Tank02 or empty a low sump, unless
\* the report that said so was handled inside a command's turnOnSumpMotor(), or switches
\* overlapped.
THEOREM MotorIsStopped == Spec => []PumpProtected
<1>1. TypeOK /\ GuardInv => PumpProtected
  <2> SUFFICES ASSUME TypeOK, GuardInv, Idle PROVE PumpProtected
    BY DEF PumpProtected
  <2>1. stack = <<>>
    BY PointNames, TopIsPoint DEF TypeOK
  <2>2. DOMAIN stack = {}
    BY <2>1
  <2> QED
    BY <2>2 DEF GuardInv, StopInv, PumpProtected, InProgress
<1> QED
  BY <1>1, TypeCorrect, GuardInvariant, PTL

-----------------------------------------------------------------------------
(* What the controller is told *)

\* A test that finds the flag at `on` tells the truth, unless a switch is in progress below.
LEMMA TellsTheFlag ==
    ASSUME TypeOK, FlagInv, NEW q \in Points \ Switches, At(q),
           ~InsideSwitch, "overlap" \notin anomalies
    PROVE  sumpMotorOn = relay
<1>1. Len(stack) \in 1 .. Len(stack) /\ stack[Len(stack)].at = q /\ Len(stack) \in Nat
  BY PointNames, TopIsPoint, LenProperties DEF TypeOK
<1>2. DOMAIN stack = 1 .. Len(stack)
  BY LenProperties DEF TypeOK
<1>3. ASSUME NEW i \in DOMAIN stack, stack[i].at \in Switches PROVE FALSE
  <2>1. i # Len(stack)
    BY <1>1, <1>3
  <2>2. i \in 1 .. Len(stack) - 1
    BY <1>1, <1>2, <2>1
  <2> QED
    BY <1>3, <2>2 DEF InsideSwitch
<1> QED
  BY <1>3 DEF FlagInv, FlagFollowsRelay, InProgress

\* A test's switch that ends tells what it has switched the relay to.
LEMMA TellsTheSwitch ==
    ASSUME TypeOK, FlagInv, NEW q \in Switches, At(q), "overlap" \notin anomalies
    PROVE  relay <=> q \in OnSwitches
<1>1. Len(stack) \in 1 .. Len(stack) /\ stack[Len(stack)].at = q
  BY PointNames, TopIsPoint DEF TypeOK
<1>2. Len(stack) \in DOMAIN stack
  BY <1>1, LenProperties DEF TypeOK
<1> QED
  BY <1>1, <1>2 DEF FlagInv, SwitchInv, OnSwitches

\* At any point of any handler the controller was last told what the relay is, unless
\* switches overlapped, or a report inside a switch or a presentation has misled it: every
\* test that tells the flag finds it at what the relay is.
THEOREM ControllerIsTold == Spec => []ToldFollowsRelay
<1>1. Init => ToldFollowsRelay
  BY DEF Init, ToldFollowsRelay
<1>2. TypeOK /\ FlagInv /\ ToldFollowsRelay /\ [Next]_vars => ToldFollowsRelay'
  <2> SUFFICES ASSUME TypeOK, FlagInv, ToldFollowsRelay, [Next]_vars,
                      "overlap" \notin anomalies', "misled" \notin anomalies'
               PROVE  told' = relay'
    BY DEF ToldFollowsRelay
  <2>0. ASSUME UNCHANGED <<told, relay>>,
               \A a \in {"overlap", "misled"} : a \in anomalies' <=> a \in anomalies
        PROVE  told' = relay'
    BY <2>0 DEF ToldFollowsRelay
  <2>1. CASE RuntimeStep
    <3>1. CASE QuietStep
      <4>1. UNCHANGED sketch
        BY <3>1 DEF QuietStep, ReceivePresentationRequest, TailWaitEnds, PresentingNode,
                    PresentationEnds, PassBegins, PassEnds, SecondPasses, vars, sketch
      <4> QED
        BY <2>0, <4>1 DEF sketch
    <3>2. CASE PresentationTellsOff
      BY <3>2 DEF PresentationTellsOff, Mark, TypeOK
    <3>3. ASSUME NEW s \in Slots, RunReport(s) PROVE told' = relay'
      BY <2>0, <3>3 DEF RunReport
    <3> QED
      BY <2>1, <3>1, <3>2, <3>3 DEF RuntimeStep
  <2>2. CASE setup
    <3>1. ~relay /\ anomalies = {} /\ UNCHANGED told /\ relay' = FALSE
      BY <2>2 DEF setup, Mark
    <3> QED
      BY <3>1 DEF ToldFollowsRelay, TypeOK
  <2>3. ASSUME NEW on \in BOOLEAN, SwitchRelay(on) PROVE told' = relay'
    BY <2>3 DEF SwitchRelay
  <2>4. CASE \E sensor \in Sensors, level \in BOOLEAN : ReceiveLevel(sensor, level)
    BY <2>0, <2>4 DEF ReceiveLevel, Mark
  <2>5. CASE CommandOn \/ CommandOff
    BY <2>3, <2>5 DEF CommandOn, CommandOff
  <2>6. CASE CommandEnds
    BY <2>0, <2>6 DEF CommandEnds, SwitchEnds
  <2>7. CASE TrippedOnEnds \/ TrippedOffEnds
    <3>1. /\ {"trippedOn", "trippedOff"} \subseteq Switches
          /\ "trippedOn" \in OnSwitches /\ "trippedOff" \notin OnSwitches
          /\ "overlap" \notin anomalies
      BY <2>7 DEF TrippedOnEnds, TrippedOffEnds, Tell, Mark, Switches, OnSwitches
    <3>2. CASE TrippedOnEnds
      <4>1. relay = TRUE
        BY <3>1, <3>2, TellsTheSwitch DEF TrippedOnEnds, TypeOK
      <4> QED
        BY <3>2, <4>1 DEF TrippedOnEnds, SwitchEnds, Tell
    <3>3. CASE TrippedOffEnds
      <4>1. relay = FALSE
        BY <3>1, <3>3, TellsTheSwitch DEF TrippedOffEnds, TypeOK
      <4> QED
        BY <3>3, <4>1 DEF TrippedOffEnds, SwitchEnds, Tell
    <3> QED
      BY <2>7, <3>2, <3>3
  <2>8. ASSUME NEW q \in {"ack", "toldOn"}, At(q), NEW on \in BOOLEAN, on = sumpMotorOn,
               NEW p \in Points, Tell(on, p), relay' = relay
        PROVE  told' = relay'
    <3>1. ~InsideSwitch /\ "overlap" \notin anomalies /\ q \in Points \ Switches
      BY <2>8, PointNames DEF Tell, Mark
    <3> QED
      BY <2>8, <3>1, TellsTheFlag DEF Tell
  <2>9. CASE AckWaitEnds \/ ToldOnWaitEnds
    <3>1. \/ \E on \in BOOLEAN : SwitchRelay(on)
          \/ Leave /\ relay' = relay
          \/ /\ \E on \in BOOLEAN, p \in Points : on = sumpMotorOn /\ Tell(on, p)
             /\ relay' = relay
      <4>1. sumpMotorOn \in BOOLEAN /\ "toldOn" \in Points /\ "tail" \in Points
        BY PointNames DEF TypeOK
      <4>2. CASE sumpMotorOn = TRUE
        BY <2>9, <4>1, <4>2, Zenon DEF AckWaitEnds, ToldOnWaitEnds
      <4>3. CASE sumpMotorOn = FALSE
        BY <2>9, <4>1, <4>3, Zenon DEF AckWaitEnds, ToldOnWaitEnds
      <4> QED
        BY <4>1, <4>2, <4>3
    <3>2. \E q \in {"ack", "toldOn"} : At(q)
      BY <2>9 DEF AckWaitEnds, ToldOnWaitEnds
    <3>3. CASE Leave /\ relay' = relay
      BY <2>0, <3>3 DEF Leave
    <3> QED
      BY <2>3, <2>8, <3>1, <3>2, <3>3
  <2> QED
    BY <2>1, <2>2, <2>4, <2>5, <2>6, <2>7, <2>9, MotorSteps
<1> QED
  BY <1>1, <1>2, TypeCorrect, FlagInvariant, PTL DEF Spec
=============================================================================
