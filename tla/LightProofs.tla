------------------------------ MODULE LightProofs ------------------------------
(***************************************************************************)
(* Invariants of the balcony light, alone and with the staircase light that *)
(* follows it, for every pool of alarms and every nesting depth.            *)
(***************************************************************************)
EXTENDS LightControl, RuntimeProofs

PoolType == [Slots -> AlarmsOf(Handlers, 1)]

\* The points of all handlers but the two whose order matters.
Others == Points \ {"register", "status"}

LEMMA PointNames ==
    /\ "loop" \notin Points /\ {"register", "status"} \subseteq Points
    /\ {"delay", "present", "default"} \subseteq Others
    /\ \A on \in BOOLEAN : Told(on) \in Others
    /\ "loop" \notin Others /\ Others \subseteq Points
BY DEF Points, Others, CorePoints, Told

LEMMA CheckNames ==
    /\ \A x \in Settings : Check[x] \in Handlers /\ Check[x] # NoHandler
    /\ \A x, y \in Settings : Check[x] = Check[y] => x = y
    /\ DOMAIN Check = Settings
    /\ "sendHeartbeat" \in Handlers
BY DEF Settings, Check, Handlers, NoHandler

-----------------------------------------------------------------------------
(* Steps *)

\* What a step does to the stack and to the relay, the buffer and the status: nothing, or it
\* obeys a later status, or another message comes into the buffer; but for the first status,
\* setup() and a restart.
LEMMA SketchSteps ==
    ASSUME [Next]_vars
    PROVE  \/ /\ StackStep(Others, Others) /\ UNCHANGED setupDone
              /\ received \subseteq received'
              /\ \/ UNCHANGED sketch
                 \/ \E on \in BOOLEAN : Obey(on)
                 \/ \E value \in BOOLEAN : Overhear(value)
           \/ \E on \in BOOLEAN : ReceiveFirstStatus(on)
           \/ StatusWaitEnds \/ setup \/ Restart
<1> DEFINE Step == /\ StackStep(Others, Others) /\ UNCHANGED setupDone
                   /\ received \subseteq received'
                   /\ \/ UNCHANGED sketch
                      \/ \E on \in BOOLEAN : Obey(on)
                      \/ \E value \in BOOLEAN : Overhear(value)
<1>1. CASE loop
  BY <1>1, PointNames DEF loop, Ask, StackStep, requests, sketch
<1>2. ASSUME NEW on \in BOOLEAN, ReceiveStatus(on) PROVE Step
  BY <1>2, PointNames DEF ReceiveStatus, Obey, StackStep, requests
<1>3. ASSUME NEW on \in BOOLEAN, ToldWaitEnds(on) PROVE Step
  BY <1>3, PointNames DEF ToldWaitEnds, StackStep, requests, sketch
<1>4. ASSUME NEW inRange \in BOOLEAN, NEW value \in BOOLEAN, ReceiveDuration(inRange, value)
      PROVE  Step
  <2>1. StackStep(Others, Others) /\ received \subseteq received'
    BY <1>4, PointNames DEF ReceiveDuration, FirstAnswer, StackStep, requests
  <2>2. Overhear(value)
    BY <1>4 DEF ReceiveDuration
  <2> QED
    BY <2>1, <2>2 DEF Overhear
<1>5. CASE ReceiveStaircase \/ ReceivePresentationRequest
  <2>1. StackStep(Others, Others) /\ received \subseteq received'
    BY <1>5, PointNames DEF ReceiveStaircase, ReceivePresentationRequest, StackStep, requests
  <2>2. Overhear(FALSE)
    BY <1>5 DEF ReceiveStaircase, ReceivePresentationRequest
  <2>3. \E value \in BOOLEAN : Overhear(value)
    BY <2>2, Zenon
  <2> QED
    BY <2>1, <2>2, <2>3 DEF Overhear
<1>6. CASE DefaultWaitEnds
  BY <1>6, PointNames DEF DefaultWaitEnds, FirstAnswer, StackStep, sketch
<1>7. ASSUME NEW point \in {"delay", "present"}, DelayEnds(point) PROVE Step
  BY <1>7, PointNames DEF DelayEnds, StackStep, requests, sketch
<1>8. ASSUME NEW s \in Slots, RunAlarm(s) PROVE Step
  BY <1>8 DEF RunAlarm, checkRequestStatus, StackStep, sketch
<1>9. CASE SecondPasses \/ UNCHANGED vars
  BY <1>9 DEF SecondPasses, Second, StackStep, requests, sketch, vars
<1> QED
  BY <1>1, <1>2, <1>3, <1>4, <1>5, <1>6, <1>7, <1>8, <1>9 DEF Next

\* The steps that change the pool or the requests.
LEMMA RequestSteps ==
    ASSUME TypeOK, [Next]_vars
    PROVE  \/ UNCHANGED <<alarms, requests>>
           \/ \E setting \in Settings : Ask(Check, setting)
           \/ FirstAnswer(Check, "duration", sendRequest)
           \/ \E on \in BOOLEAN : ReceiveFirstStatus(on)
           \/ StatusWaitEnds \/ setup \/ Restart
           \/ \E s \in Slots : RunAlarm(s)
           \/ SecondPasses
<1> DEFINE Step == \/ UNCHANGED <<alarms, requests>>
                   \/ \E setting \in Settings : Ask(Check, setting)
                   \/ FirstAnswer(Check, "duration", sendRequest)
<1>1. CASE loop
  <2>1. sendRequest \subseteq Settings
    BY DEF TypeOK, RequestsTypeOK
  <2>2. \/ UNCHANGED <<alarms, requests>>
        \/ \E setting \in sendRequest : Ask(Check, setting)
    BY <1>1 DEF loop
  <2> QED
    BY <2>1, <2>2
<1>2. ASSUME NEW on \in BOOLEAN, ReceiveStatus(on) \/ ToldWaitEnds(on) PROVE Step
  BY <1>2 DEF ReceiveStatus, ToldWaitEnds
<1>3. ASSUME NEW inRange \in BOOLEAN, NEW value \in BOOLEAN, ReceiveDuration(inRange, value)
      PROVE  Step
  BY <1>3 DEF ReceiveDuration
<1>4. CASE ReceiveStaircase \/ ReceivePresentationRequest \/ DefaultWaitEnds
  BY <1>4 DEF ReceiveStaircase, ReceivePresentationRequest, DefaultWaitEnds
<1>5. ASSUME NEW point \in {"delay", "present"}, DelayEnds(point) PROVE Step
  BY <1>5 DEF DelayEnds
<1>6. CASE UNCHANGED vars
  BY <1>6 DEF vars
<1> QED
  BY <1>1, <1>2, <1>3, <1>4, <1>5, <1>6 DEF Next

-----------------------------------------------------------------------------
(* Types *)

LEMMA AskKeepsType ==
    ASSUME TypeOK, NEW setting \in Settings, Ask(Check, setting)
    PROVE  alarms' \in PoolType /\ RequestsTypeOK(Settings)'
<1> DEFINE new == timerOnce(alarms, 1, Check[setting])
<1>1. alarms \in [Slots -> AlarmsOf(Handlers, 1)] /\ Check[setting] \in Handlers
  BY CheckNames DEF TypeOK
<1>2. new \in PoolType /\ HasCreated(new, alarms, Check[setting], TRUE)
  <2>1. 1 \in Nat /\ 1 \in 0 .. 1
    OBVIOUS
  <2> QED
    BY <1>1, <2>1, TimerOnceFillsOneSlot DEF PoolType
<1> HIDE DEF new
<1>3. createdId(alarms) \in Slots \cup {dtINVALID_ALARM_ID}
  BY <1>2, Zenon DEF HasCreated
<1>4. alarms' = new /\ requestTimer' = createdId(alarms) /\ received' = received
  BY DEF Ask, new
<1>5. sendRequest' \subseteq Settings /\ cancelled' \subseteq Settings
  BY DEF Ask, TypeOK, RequestsTypeOK
<1> QED
  BY <1>2, <1>3, <1>4, <1>5 DEF TypeOK, RequestsTypeOK

LEMMA AnswerKeepsType ==
    ASSUME TypeOK, NEW setting \in Settings, FirstAnswer(Check, setting, sendRequest)
    PROVE  alarms' \in PoolType /\ RequestsTypeOK(Settings)'
<1>1. alarms' \in PoolType
  BY FreeEmptiesOneSlot DEF TypeOK, PoolType, FirstAnswer
<1>2. RequestAt(Check, alarms, requestTimer) \subseteq Settings
  BY CheckNames DEF RequestAt
<1> QED
  BY <1>1, <1>2 DEF FirstAnswer, TypeOK, RequestsTypeOK

LEMMA PoolStays ==
    ASSUME TypeOK, [Next]_vars
    PROVE  alarms' \in PoolType /\ RequestsTypeOK(Settings)'
<1> DEFINE Types == alarms' \in PoolType /\ RequestsTypeOK(Settings)'
<1>0. alarms \in [Slots -> AlarmsOf(Handlers, 1)] /\ RequestsTypeOK(Settings)
  BY DEF TypeOK
<1>1. CASE UNCHANGED <<alarms, requests>>
  BY <1>0, <1>1 DEF requests, RequestsTypeOK, PoolType
<1>2. ASSUME NEW setting \in Settings, Ask(Check, setting) PROVE Types
  BY <1>2, AskKeepsType
<1>3. CASE FirstAnswer(Check, "duration", sendRequest)
  BY <1>3, AnswerKeepsType DEF Settings
<1>4. ASSUME NEW on \in BOOLEAN, ReceiveFirstStatus(on) PROVE Types
  BY <1>4, AnswerKeepsType DEF Settings, ReceiveFirstStatus
<1>5. CASE StatusWaitEnds
  BY <1>0, <1>5 DEF StatusWaitEnds, RequestsTypeOK, PoolType, Settings
<1>6. CASE setup
  <2>1. alarms' \in PoolType
    BY <1>0, <1>6, CheckNames, TimerRepeatFillsOneSlot DEF setup, PoolType
  <2> QED
    BY <1>0, <1>6, <2>1 DEF setup, RequestsSetUp, RequestsTypeOK, Settings
<1>7. CASE Restart
  <2>1. NotAllocated \in AlarmsOf(Handlers, 1)
    BY DEF NotAllocated, AlarmsOf
  <2>2. 0 \in Slots
    BY PoolAssumption DEF Slots
  <2> QED
    BY <1>7, <2>1, <2>2 DEF Restart, RequestsTypeOK, PoolType
<1>8. ASSUME NEW s \in Slots, RunAlarm(s) PROVE Types
  <2>1. alarms' \in PoolType
    BY <1>0, <1>8, TriggerFreesOneSlot DEF RunAlarm, PoolType
  <2> QED
    BY <1>0, <1>8, <2>1 DEF RunAlarm, checkRequestStatus, RequestsTypeOK
<1>9. CASE SecondPasses
  BY <1>0, <1>9, ElapseKeepsHandlers DEF SecondPasses, Second, PoolType, requests, RequestsTypeOK
<1> QED
  BY <1>1, <1>2, <1>3, <1>4, <1>5, <1>6, <1>7, <1>8, <1>9, RequestSteps

LEMMA SketchTypeStays ==
    ASSUME TypeOK, [Next]_vars
    PROVE  {setupDone, lit, heard, ordered, blurred}' \subseteq BOOLEAN
<1>0. {setupDone, lit, heard, ordered, blurred} \subseteq BOOLEAN
  BY DEF TypeOK
<1>1. CASE UNCHANGED sketch
  BY <1>0, <1>1 DEF sketch
<1>2. ASSUME NEW on \in BOOLEAN, Obey(on), UNCHANGED setupDone
      PROVE  {setupDone, lit, heard, ordered, blurred}' \subseteq BOOLEAN
  <2>1. heard' \in BOOLEAN
    BY <1>2, Zenon DEF Obey
  <2> QED
    BY <1>0, <1>2, <2>1 DEF Obey
<1>3. ASSUME NEW value \in BOOLEAN, Overhear(value), UNCHANGED setupDone
      PROVE  {setupDone, lit, heard, ordered, blurred}' \subseteq BOOLEAN
  BY <1>0, <1>3 DEF Overhear
<1>4. ASSUME NEW on \in BOOLEAN, ReceiveFirstStatus(on)
      PROVE  {setupDone, lit, heard, ordered, blurred}' \subseteq BOOLEAN
  BY <1>0, <1>4 DEF ReceiveFirstStatus
<1>5. CASE StatusWaitEnds \/ setup \/ Restart
  BY <1>0, <1>5 DEF StatusWaitEnds, setup, Restart
<1> QED
  BY <1>1, <1>2, <1>3, <1>4, <1>5, SketchSteps

LEMMA StackStays ==
    ASSUME TypeOK, [Next]_vars
    PROVE  stack' \in Seq(Frames(Points))
<1>0. stack \in Seq(Frames(Points)) /\ heard \in BOOLEAN
  BY DEF TypeOK
<1>1. CASE StackStep(Others, Others)
  BY <1>0, <1>1, StackStepEffects, PointNames
<1>2. ASSUME NEW on \in BOOLEAN, ReceiveFirstStatus(on) PROVE stack' \in Seq(Frames(Points))
  BY <1>0, <1>2, CallAddsFrame, PointNames DEF ReceiveFirstStatus
<1>3. CASE StatusWaitEnds
  BY <1>0, <1>3, TopIsPoint, GotoReplacesTop, PointNames DEF StatusWaitEnds
<1>4. CASE setup
  BY <1>0, <1>4, TopIsPoint, ReturnRemovesTop, PointNames DEF setup
<1>5. CASE Restart
  <2>1. Frame("register") \in Frames(Points)
    BY PointNames, PoolAssumption DEF Frame, Frames
  <2> QED
    BY <1>5, <2>1 DEF Restart
<1> QED
  BY <1>1, <1>2, <1>3, <1>4, <1>5, SketchSteps

\* Every variable of the node keeps its type: the stack holds only points of the handlers, the
\* pool only their alarms, requestTimer is a slot or the id that is none.
THEOREM TypeCorrect == Spec => []TypeOK
<1>1. Init => TypeOK
  <2> SUFFICES ASSUME Init PROVE TypeOK
    OBVIOUS
  <2>1. NotAllocated \in AlarmsOf(Handlers, 1) /\ 0 \in Slots
    BY PoolAssumption DEF NotAllocated, AlarmsOf, Slots
  <2>2. Frame("register") \in Frames(Points)
    BY PointNames, PoolAssumption DEF Frame, Frames
  <2>3. /\ alarms \in [Slots -> AlarmsOf(Handlers, 1)]
        /\ stack \in Seq(Frames(Points))
    BY <2>1, <2>2 DEF Init
  <2>4. {setupDone, lit, heard, ordered, blurred} \subseteq BOOLEAN
    BY DEF Init
  <2>5. RequestsTypeOK(Settings)
    BY <2>1 DEF Init, RequestsInit, RequestsTypeOK
  <2> QED
    BY <2>3, <2>4, <2>5 DEF TypeOK
<1>2. TypeOK /\ [Next]_vars => TypeOK'
  <2> SUFFICES ASSUME TypeOK, [Next]_vars PROVE TypeOK'
    OBVIOUS
  <2>1. /\ alarms' \in [Slots -> AlarmsOf(Handlers, 1)] /\ RequestsTypeOK(Settings)'
        /\ {setupDone, lit, heard, ordered, blurred}' \subseteq BOOLEAN
        /\ stack' \in Seq(Frames(Points))
    BY PoolStays, SketchTypeStays, StackStays DEF PoolType
  <2> QED
    BY <2>1 DEF TypeOK
<1> QED
  BY <1>1, <1>2, PTL DEF Spec

-----------------------------------------------------------------------------
(* The first status *)

\* While nothing but other handlers' calls come and go, the first status waits or does not as
\* before.
LEMMA OthersKeepStatus ==
    ASSUME TypeOK, StackStep(Others, Others)
    PROVE  InProgress({"status"})' <=> InProgress({"status"})
<1>1. {"status"} \cap Others = {}
  BY DEF Others
<1> QED
  BY <1>1, StackStepProgress, PointNames DEF TypeOK

\* The handler of the first status puts it in progress.
LEMMA FirstStatusWaits ==
    ASSUME TypeOK, NEW on, ReceiveFirstStatus(on)
    PROVE  InProgress({"status"})'
BY InProgressAfterCall, PointNames DEF TypeOK, ReceiveFirstStatus

\* There is one of it, and when it goes on it is in progress no more.
LEMMA StatusIsRead ==
    ASSUME TypeOK, StatusInv, StatusWaitEnds
    PROVE  /\ ~InProgress({"status"})' /\ InProgress({"status"})
           /\ \A i \in DOMAIN stack' :
                 /\ stack'[i].at # "status"
                 /\ stack'[i].at = "register" => i \in DOMAIN stack /\ stack[i].at = "register"
<1> DEFINE p == Told(heard)
<1>1. p \in Others /\ p \in Points
  BY PointNames DEF TypeOK
<1>2. /\ stack # <<>> /\ Len(stack) \in 1 .. Len(stack) /\ stack[Len(stack)].at = "status"
      /\ stack' = Goto(p) /\ stack \in Seq(Frames(Points))
  BY TopIsPoint, PointNames DEF TypeOK, StatusWaitEnds
<1>3. p # "status" /\ p # "register"
  BY <1>1 DEF Others
<1> HIDE DEF p
<1>4. /\ stack' \in Seq(Frames(Points)) /\ Len(stack') = Len(stack)
      /\ \A i \in 1 .. Len(stack) - 1 : stack'[i] = stack[i]
      /\ stack'[Len(stack)].at = p
  BY <1>1, <1>2, GotoReplacesTop
<1>5. DOMAIN stack = 1 .. Len(stack) /\ DOMAIN stack' = 1 .. Len(stack) /\ Len(stack) \in Nat
  BY <1>2, <1>4, LenProperties
<1>6. \A i \in DOMAIN stack' : i = Len(stack) \/ (i # Len(stack) /\ stack'[i] = stack[i])
  BY <1>4, <1>5
<1>7. \A i \in DOMAIN stack' : stack'[i].at # "status"
  BY <1>2, <1>3, <1>4, <1>5, <1>6 DEF StatusInv
<1>8. \A i \in DOMAIN stack' :
         stack'[i].at = "register" => i \in DOMAIN stack /\ stack[i].at = "register"
  BY <1>3, <1>4, <1>5, <1>6
<1>9. ~InProgress({"status"})' /\ InProgress({"status"})
  BY <1>2, <1>5, <1>7 DEF InProgress
<1> QED
  BY <1>7, <1>8, <1>9

LEMMA StatusInvariant == Spec => []StatusInv
<1>1. Init => StatusInv
  BY DEF Init, StatusInv, InProgress, Frame
<1>2. TypeOK /\ StatusInv /\ [Next]_vars => StatusInv'
  <2> SUFFICES ASSUME TypeOK, StatusInv, [Next]_vars PROVE StatusInv'
    OBVIOUS
  <2>0. stack \in Seq(Frames(Points)) /\ DOMAIN stack = 1 .. Len(stack) /\ Len(stack) \in Nat
    BY LenProperties DEF TypeOK
  <2>1. CASE StackStep(Others, Others) /\ received \subseteq received'
    <3>1. \A i \in DOMAIN stack' : \/ i \in DOMAIN stack /\ stack'[i].at = stack[i].at
                                   \/ stack'[i].at \notin {"status", "register"}
      <4>1. \A i \in DOMAIN stack' : \/ i \in DOMAIN stack /\ stack'[i].at = stack[i].at
                                     \/ i = Len(stack') /\ stack'[i].at \in Others
        BY <2>0, <2>1, StackStepEffects, PointNames
      <4> QED
        BY <4>1 DEF Others
    <3> QED
      BY <2>1, <3>1, OthersKeepStatus DEF StatusInv
  <2>2. ASSUME NEW on \in BOOLEAN, ReceiveFirstStatus(on) PROVE StatusInv'
    <3>1. "status" \in received' /\ "status" \notin received /\ stack' = Call("status")
      BY <2>2 DEF ReceiveFirstStatus, FirstAnswer
    <3>2. \A i \in DOMAIN stack : stack[i].at # "status"
      BY <3>1 DEF StatusInv, InProgress
    <3>3. /\ Len(stack') = Len(stack) + 1 /\ stack' \in Seq(Frames(Points))
          /\ \A i \in 1 .. Len(stack) : stack'[i] = stack[i]
          /\ stack'[Len(stack) + 1].at = "status"
      BY <2>0, <3>1, CallAddsFrame, PointNames
    <3>4. DOMAIN stack' = 1 .. Len(stack) + 1
      BY <3>3, LenProperties
    <3>5. \A i \in DOMAIN stack' : \/ i = Len(stack) + 1 /\ stack'[i].at = "status"
                                   \/ i \in DOMAIN stack /\ stack'[i] = stack[i]
      BY <2>0, <3>3, <3>4
    <3> QED
      BY <3>1, <3>2, <3>5 DEF StatusInv
  <2>3. CASE StatusWaitEnds
    BY <2>3, StatusIsRead DEF StatusInv
  <2>4. CASE setup
    <3>1. stack' = <<>>
      BY <2>0, <2>4, RegisterAtBottom, PointNames DEF setup, StatusInv
    <3> QED
      BY <3>1 DEF StatusInv, InProgress
  <2>5. CASE Restart
    BY <2>5 DEF Restart, StatusInv, InProgress, Frame
  <2> QED
    BY <2>1, <2>2, <2>3, <2>4, <2>5, SketchSteps
<1> QED
  BY <1>1, <1>2, TypeCorrect, PTL DEF Spec

-----------------------------------------------------------------------------
(* The relay *)

LEMMA RelayInvariant == Spec => []RelayInv
<1>1. Init => RelayInv
  BY DEF Init, RelayInv, InProgress, Frame
<1>2. TypeOK /\ StatusInv /\ RelayInv /\ [Next]_vars => RelayInv'
  <2> SUFFICES ASSUME TypeOK, StatusInv, RelayInv, [Next]_vars PROVE RelayInv'
    OBVIOUS
  <2> DEFINE Waits == InProgress({"status"})
  <2>0. /\ Waits => heard = ordered \/ blurred
        /\ ~Waits => lit = ordered \/ blurred
    BY DEF RelayInv
  <2>1. ASSUME \/ Waits' /\ (heard' = ordered' \/ blurred')
               \/ ~Waits' /\ (lit' = ordered' \/ blurred')
        PROVE  RelayInv'
    BY <2>1 DEF RelayInv
  <2>2. ASSUME NEW on \in BOOLEAN, ReceiveFirstStatus(on) PROVE RelayInv'
    <3>1. Waits'
      BY <2>2, FirstStatusWaits
    <3>2. heard' = on /\ ordered' = on
      BY <2>2 DEF ReceiveFirstStatus
    <3> QED
      BY <2>1, <3>1, <3>2
  <2>3. CASE StatusWaitEnds
    <3>1. ~Waits' /\ Waits
      BY <2>3, StatusIsRead
    <3>2. lit' = heard /\ ordered' = ordered /\ blurred' = blurred
      BY <2>3 DEF StatusWaitEnds
    <3> QED
      BY <2>0, <2>1, <3>1, <3>2
  <2>4. CASE setup
    <3>1. stack' = <<>>
      BY <2>4, RegisterAtBottom, PointNames DEF setup, StatusInv, TypeOK
    <3>2. ~Waits' /\ lit' = FALSE /\ ordered' = FALSE
      BY <2>4, <3>1 DEF setup, InProgress
    <3> QED
      BY <2>1, <3>2
  <2>5. CASE Restart
    <3>1. ~Waits' /\ lit' = FALSE /\ ordered' = FALSE
      BY <2>5 DEF Restart, InProgress, Frame
    <3> QED
      BY <2>1, <3>1
  <2>6. CASE StackStep(Others, Others)
    <3>1. Waits' <=> Waits
      BY <2>6, OthersKeepStatus
    <3>2. ASSUME UNCHANGED sketch PROVE RelayInv'
      BY <2>0, <2>1, <3>1, <3>2 DEF sketch
    <3>3. ASSUME NEW on \in BOOLEAN, Obey(on) PROVE RelayInv'
      <4>1. lit' = on /\ ordered' = on /\ heard' = (on /\ Waits)
        BY <3>3, Zenon DEF Obey
      <4>2. Waits => heard' = on
        BY <3>3, <4>1
      <4> QED
        BY <2>1, <3>1, <4>1, <4>2
    <3>4. ASSUME NEW value \in BOOLEAN, Overhear(value) PROVE RelayInv'
      <4>1. /\ Waits => blurred' = TRUE
            /\ ~Waits => blurred' = blurred
            /\ lit' = lit /\ ordered' = ordered
        BY <3>4 DEF Overhear
      <4> QED
        BY <2>0, <2>1, <3>1, <4>1
    <3> QED
      BY <2>2, <2>3, <2>4, <2>5, <3>2, <3>3, <3>4, SketchSteps
  <2> QED
    BY <2>2, <2>3, <2>4, <2>5, <2>6, SketchSteps
<1> QED
  BY <1>1, <1>2, TypeCorrect, StatusInvariant, PTL DEF Spec

\* The relay is what the last status said, however the handlers that switch it and tell about
\* it are nested; but for a first status that another message overwrote.
THEOREM RelayIsObedient == Spec => []RelayObeysLast
<1>1. RelayInv => RelayObeysLast
  BY DEF RelayInv, RelayObeysLast
<1> QED
  BY <1>1, RelayInvariant, PTL

-----------------------------------------------------------------------------
(* The settings are asked for *)

LEMMA AnswerAsksOn ==
    ASSUME TypeOK, NEW answered \in Settings, NEW setting \in Settings, setting # answered,
           NEW raised, setting \in sendRequest => setting \in raised,
           FirstAnswer(Check, answered, raised),
           setting \in sendRequest \cup cancelled \/ Pending(Check[setting])
    PROVE  setting \in sendRequest' \cup cancelled' \/ Pending(Check[setting])'
<1>1. /\ sendRequest' = raised /\ alarms' = free(alarms, requestTimer)
      /\ cancelled' = cancelled \cup (RequestAt(Check, alarms, requestTimer) \ {answered})
  BY DEF FirstAnswer
<1>2. CASE isAllocated(alarms, requestTimer) /\ alarms[requestTimer].handler = Check[setting]
  BY <1>1, <1>2, CheckNames DEF RequestAt
<1>3. CASE ~ (isAllocated(alarms, requestTimer) /\ alarms[requestTimer].handler = Check[setting])
  <2>1. Pending(Check[setting]) => Pending(Check[setting])'
    BY <1>1, <1>3, CheckNames, FreeKeepsOthers DEF TypeOK
  <2> QED
    BY <1>1, <2>1
<1> QED
  BY <1>2, <1>3

LEMMA AskingAsksOn ==
    ASSUME TypeOK, NEW x \in Settings, NEW setting \in Settings, Ask(Check, x),
           setting \in sendRequest \cup cancelled \/ Pending(Check[setting])
    PROVE  setting \in sendRequest' \cup cancelled' \/ Pending(Check[setting])'
<1>1. /\ sendRequest' = sendRequest \ {x} /\ alarms' = timerOnce(alarms, 1, Check[x])
      /\ cancelled' = IF Full(alarms) THEN cancelled \cup {x} ELSE cancelled \ {x}
  BY DEF Ask
<1>2. /\ \A g : g # NoHandler /\ Pending(g) => Pending(g)'
      /\ Full(alarms) \/ Pending(Check[x])'
  <2>1. 1 \in Nat /\ 1 \in 0 .. 1 /\ Check[x] \in Handlers
    BY CheckNames
  <2> QED
    BY <1>1, <2>1, TimerOncePends DEF TypeOK
<1>3. CASE x = setting
  BY <1>1, <1>2, <1>3
<1>4. CASE x # setting
  <2>1. Pending(Check[setting]) => Pending(Check[setting])'
    BY <1>2, CheckNames
  <2> QED
    BY <1>1, <1>4, <2>1
<1> QED
  BY <1>3, <1>4

\* A setting that has not been received is asked for again, once its turn has come: its flag is
\* up or its alarm is pending, unless the answer to the other one freed that alarm.
THEOREM SettingsAreAskedFor == Spec => []AsksOn
<1> DEFINE Asks(setting) == setting \in sendRequest \cup cancelled \/ Pending(Check[setting])
           Begun == IF "status" \in received THEN Settings ELSE {"status"}
<1>1. Init => AsksOn
  BY DEF Init, AsksOn
<1>2. TypeOK /\ StatusInv /\ AsksOn /\ [Next]_vars => AsksOn'
  <2> SUFFICES ASSUME TypeOK, StatusInv, AsksOn, [Next]_vars, setupDone', ~InProgress({"status"})',
                      NEW setting \in Begun' \ received'
               PROVE  Asks(setting)'
    BY DEF AsksOn, AskedOn
  <2>0. setting \in Settings /\ (setting = "duration" => "status" \in received')
    BY DEF Settings
  <2>1. ASSUME StackStep(Others, Others), UNCHANGED setupDone, setting \in Begun \ received
        PROVE  Asks(setting)
    <3>1. setupDone /\ ~InProgress({"status"})
      BY <2>1, OthersKeepStatus
    <3> QED
      BY <2>1, <3>1 DEF AsksOn, AskedOn
  <2>2. ASSUME NEW on \in BOOLEAN, ReceiveFirstStatus(on) PROVE FALSE
    BY <2>2, FirstStatusWaits
  <2>3. CASE StatusWaitEnds
    <3>1. "status" \in received /\ received' = received /\ "duration" \in sendRequest'
      BY <2>3, StatusIsRead DEF StatusWaitEnds, StatusInv
    <3> QED
      BY <2>0, <3>1 DEF Settings
  <2>4. CASE setup
    <3>1. received' = {} /\ sendRequest' = {"status"}
      BY <2>4 DEF setup, RequestsSetUp
    <3> QED
      BY <3>1
  <2>5. CASE Restart
    BY <2>5 DEF Restart
  <2>6. CASE StackStep(Others, Others) /\ UNCHANGED setupDone
    <3>1. CASE UNCHANGED <<alarms, requests>>
      BY <2>1, <2>6, <3>1 DEF requests, Pending
    <3>2. ASSUME NEW x \in Settings, Ask(Check, x) PROVE Asks(setting)'
      <4>1. received' = received
        BY <3>2 DEF Ask
      <4>2. Asks(setting)
        BY <2>1, <2>6, <4>1
      <4> QED
        BY <2>0, <3>2, <4>2, AskingAsksOn
    <3>3. CASE FirstAnswer(Check, "duration", sendRequest)
      <4>1. received' = received \cup {"duration"} /\ setting = "status" /\ setting \notin received
        BY <2>0, <3>3 DEF FirstAnswer, Settings
      <4>2. Asks(setting)
        BY <2>1, <2>6, <4>1
      <4> QED
        BY <3>3, <4>1, <4>2, AnswerAsksOn DEF Settings
    <3>4. ASSUME NEW s \in Slots, RunAlarm(s) PROVE Asks(setting)'
      <4>1. PICK x \in Settings : alarms[s].handler = Check[x] /\ checkRequestStatus(x)
        BY <3>4 DEF RunAlarm
      <4>2. /\ received' = received /\ cancelled' = cancelled
            /\ sendRequest' = sendRequest \cup ({x} \ received)
            /\ alarms' = Trigger(alarms, s)
        BY <3>4, <4>1 DEF RunAlarm, checkRequestStatus
      <4>3. Asks(setting)
        BY <2>1, <2>6, <4>2
      <4>4. CASE x = setting
        BY <4>2, <4>4
      <4>5. CASE x # setting
        <5>1. alarms[s].handler # Check[setting]
          BY <2>0, <4>1, <4>5, CheckNames
        <5>2. Pending(Check[setting]) => Pending(Check[setting])'
          BY <4>2, <5>1, TriggerKeepsOthers DEF TypeOK
        <5> QED
          BY <4>2, <4>3, <5>2
      <4> QED
        BY <4>4, <4>5
    <3>5. CASE SecondPasses
      <4>1. UNCHANGED requests /\ alarms' = Elapse(alarms)
        BY <3>5 DEF SecondPasses, Second
      <4>2. Asks(setting)
        BY <2>1, <2>6, <4>1 DEF requests
      <4>3. Pending(Check[setting]) => Pending(Check[setting])'
        BY <4>1, TimeKeepsPending DEF TypeOK
      <4> QED
        BY <4>1, <4>2, <4>3 DEF requests
    <3> QED
      BY <2>2, <2>3, <2>4, <2>5, <3>1, <3>2, <3>3, <3>4, <3>5, RequestSteps
  <2> QED
    BY <2>2, <2>3, <2>4, <2>5, <2>6, SketchSteps
<1> QED
  BY <1>1, <1>2, TypeCorrect, StatusInvariant, PTL DEF Spec

-----------------------------------------------------------------------------
(* The staircase light, and the two together *)

\* The staircase light has a pool of its own, which the same operators work on.
LEMMA StairPool ==
    /\ Stair!Slots = Slots /\ Stair!dtINVALID_ALARM_ID = dtINVALID_ALARM_ID
    /\ Stair!NotAllocated = NotAllocated
    /\ \A H, longest : Stair!AlarmsOf(H, longest) = AlarmsOf(H, longest)
    /\ \A pool : Stair!createdId(pool) = createdId(pool)
    /\ \A pool, h : Stair!timerRepeat(pool, h) = timerRepeat(pool, h)
    /\ \A pool, ticks, h : Stair!timerOnce(pool, ticks, h) = timerOnce(pool, ticks, h)
    /\ \A pool, id : Stair!free(pool, id) = free(pool, id)
    /\ \A pool, s : Stair!Trigger(pool, s) = Trigger(pool, s)
<1>1. /\ Stair!Slots = Slots /\ Stair!dtINVALID_ALARM_ID = dtINVALID_ALARM_ID
      /\ Stair!NotAllocated = NotAllocated /\ Stair!NoHandler = NoHandler
  BY DEF Stair!Slots, Slots, Stair!dtINVALID_ALARM_ID, dtINVALID_ALARM_ID,
         Stair!NotAllocated, NotAllocated, Stair!NoHandler, NoHandler
<1>2. \A H, longest : Stair!AlarmsOf(H, longest) = AlarmsOf(H, longest)
  BY <1>1, Zenon DEF Stair!AlarmsOf, AlarmsOf
<1>3. \A pool, id : Stair!isAllocated(pool, id) = isAllocated(pool, id)
  BY <1>1, Zenon DEF Stair!isAllocated, isAllocated
<1>4. \A pool : Stair!Unallocated(pool) = Unallocated(pool)
  BY <1>1, <1>3, Zenon DEF Stair!Unallocated, Unallocated
<1>5. \A S : Stair!Lowest(S) = Lowest(S)
  BY Zenon DEF Stair!Lowest, Lowest
<1>6. \A pool : Stair!Full(pool) = Full(pool)
  BY <1>4, Zenon DEF Stair!Full, Full
<1>7. \A pool : Stair!createdId(pool) = createdId(pool)
  BY <1>1, <1>4, <1>5, <1>6, Zenon DEF Stair!createdId, createdId
<1>8. \A pool, h, once, ticks : Stair!create(pool, h, once, ticks) = create(pool, h, once, ticks)
  BY <1>6, <1>7, Zenon DEF Stair!create, create
<1>9. \A pool, id : Stair!free(pool, id) = free(pool, id)
  BY <1>1, <1>3, Zenon DEF Stair!free, free
<1> QED
  BY <1>1, <1>2, <1>7, <1>8, <1>9, Zenon DEF Stair!timerRepeat, timerRepeat, Stair!timerOnce,
     timerOnce, Stair!Trigger, Trigger

\* What a node does in the two together is what it may do alone.
LEMMA BalconySteps ==
    ASSUME [ControlNext]_controlVars
    PROVE  [Next]_vars
<1>1. CASE SwitchIsTold \/ PresentationIsTold
  BY <1>1 DEF SwitchIsTold, PresentationIsTold, Next
<1>2. CASE \E arrives \in BOOLEAN : QuestionComes(arrives)
  BY <1>2 DEF QuestionComes, Next
<1>3. CASE StatusIsReceived
  BY <1>3 DEF StatusIsReceived, Next
<1>4. CASE DurationIsReceived
  BY <1>4 DEF DurationIsReceived, Next
<1>5. CASE PresentationIsAsked \/ LightGoesOn \/ AlarmRuns \/ LightWorks
  BY <1>5 DEF PresentationIsAsked, LightGoesOn, AlarmRuns, LightWorks, Next
<1>6. CASE Restarts
  BY <1>6 DEF Restarts, Next, balcony
<1>7. CASE \/ \E arrives \in BOOLEAN : StairAsks(arrives)
           \/ StatusComes \/ OthersTell \/ StairWorks \/ UNCHANGED controlVars
  BY <1>7 DEF StairAsks, StatusComes, OthersTell, StairWorks, controlVars, balcony
<1> QED
  BY <1>1, <1>2, <1>3, <1>4, <1>5, <1>6, <1>7 DEF ControlNext

\* Whatever the staircase light asks and whatever the radio loses, the balcony light does
\* what its own module says; so what is proved of it alone holds here too.
THEOREM BalconyKeepsItsSpec == ControlSpec => Spec
<1>1. ControlInit => Init
  BY DEF ControlInit
<1>2. [ControlNext]_controlVars => [Next]_vars
  BY BalconySteps
<1> QED
  BY <1>1, <1>2, PTL DEF ControlSpec, Spec

THEOREM LightIsObedient == ControlSpec => [](AsksOn /\ RelayObeysLast)
BY BalconyKeepsItsSpec, SettingsAreAskedFor, RelayIsObedient, PTL

LEMMA StairSteps ==
    ASSUME [ControlNext]_controlVars, told \subseteq BOOLEAN
    PROVE  \/ UNCHANGED staircase
           \/ \E on \in BOOLEAN : Stair!ReceiveStatus(on)
           \/ Stair!AskFirst \/ Stair!setup \/ Stair!Restart
           \/ \E s \in Stair!Slots : \/ Stair!requestLightStatus(s)
                                     \/ Stair!checkLightStatusRequest(s)
<1>1. CASE SwitchIsTold \/ PresentationIsTold
  BY <1>1 DEF SwitchIsTold, PresentationIsTold
<1>2. CASE \E arrives \in BOOLEAN : QuestionComes(arrives) \/ StairAsks(arrives)
  BY <1>2 DEF QuestionComes, StairAsks
<1>3. CASE StatusComes \/ OthersTell
  BY <1>3 DEF StatusComes, OthersTell
<1>4. CASE StatusIsReceived \/ DurationIsReceived \/ PresentationIsAsked
  BY <1>4 DEF StatusIsReceived, DurationIsReceived, PresentationIsAsked
<1>5. CASE LightGoesOn \/ AlarmRuns \/ LightWorks
  BY <1>5 DEF LightGoesOn, AlarmRuns, LightWorks
<1>6. CASE StairWorks \/ Restarts \/ UNCHANGED controlVars
  BY <1>6 DEF StairWorks, Restarts, controlVars
<1> QED
  BY <1>1, <1>2, <1>3, <1>4, <1>5, <1>6 DEF ControlNext

LEMMA StairTypeStays ==
    ASSUME Stair!TypeOK, [ControlNext]_controlVars, told \subseteq BOOLEAN
    PROVE  Stair!TypeOK'
<1> DEFINE StairPoolType == [Slots -> AlarmsOf(Stair!Handlers, 0)]
           RestOK == /\ {stairSetUp, stairLit, sendLightStatusRequest, lightStatusReceived}
                          \subseteq BOOLEAN
                     /\ lightStatusTimer \in Slots \cup {dtINVALID_ALARM_ID}
<1>0. /\ Stair!TypeOK <=> stairAlarms \in StairPoolType /\ RestOK
      /\ Stair!TypeOK' <=> stairAlarms' \in StairPoolType /\ RestOK'
  BY StairPool DEF Stair!TypeOK
<1>1. stairAlarms \in [Slots -> AlarmsOf(Stair!Handlers, 0)] /\ RestOK
  BY <1>0
<1>2. /\ "sendHeartbeat" \in Stair!Handlers /\ "requestLightStatus" \in Stair!Handlers
      /\ "checkLightStatusRequest" \in Stair!Handlers
      /\ 0 \in Nat /\ 0 \in 0 .. 0
  BY DEF Stair!Handlers
<1>3. \A id : free(stairAlarms, id) \in StairPoolType
  BY <1>1, <1>2, FreeEmptiesOneSlot
<1>4. \A s \in Slots : Trigger(stairAlarms, s) \in StairPoolType
  BY <1>1, <1>2, TriggerFreesOneSlot
<1>5. CASE UNCHANGED staircase
  BY <1>0, <1>1, <1>5 DEF staircase
<1>6. ASSUME NEW on \in BOOLEAN, Stair!ReceiveStatus(on) PROVE Stair!TypeOK'
  <2>1. stairAlarms' \in StairPoolType
    BY <1>1, <1>3, <1>6, StairPool DEF Stair!ReceiveStatus
  <2>2. RestOK'
    BY <1>1, <1>6 DEF Stair!ReceiveStatus
  <2> QED
    BY <1>0, <2>1, <2>2
<1>7. CASE Stair!AskFirst
  <2> DEFINE new == timerOnce(stairAlarms, 0, "checkLightStatusRequest")
  <2>1. new \in StairPoolType /\ HasCreated(new, stairAlarms, "checkLightStatusRequest", TRUE)
    BY <1>1, <1>2, TimerOnceFillsOneSlot
  <2> HIDE DEF new
  <2>2. createdId(stairAlarms) \in Slots \cup {dtINVALID_ALARM_ID}
    BY <2>1, Zenon DEF HasCreated
  <2>3. stairAlarms' \in {stairAlarms, new}
    BY <1>7, StairPool DEF Stair!AskFirst, new
  <2>4. /\ lightStatusTimer' = createdId(stairAlarms)
        /\ {stairSetUp, stairLit, sendLightStatusRequest, lightStatusReceived}' \subseteq BOOLEAN
    BY <1>1, <1>7, StairPool DEF Stair!AskFirst
  <2> QED
    BY <1>0, <1>1, <2>1, <2>2, <2>3, <2>4
<1>8. CASE Stair!setup
  <2> DEFINE first == timerRepeat(stairAlarms, "sendHeartbeat")
  <2>1. first \in [Slots -> AlarmsOf(Stair!Handlers, 0)]
    BY <1>1, <1>2, TimerRepeatFillsOneSlot
  <2> HIDE DEF first
  <2>2. timerRepeat(first, "requestLightStatus") \in StairPoolType
    BY <1>2, <2>1, TimerRepeatFillsOneSlot
  <2>3. stairAlarms' = timerRepeat(first, "requestLightStatus")
    BY <1>8, StairPool DEF Stair!setup, first
  <2>4. RestOK'
    BY <1>1, <1>8 DEF Stair!setup
  <2> QED
    BY <1>0, <2>2, <2>3, <2>4
<1>9. CASE Stair!Restart
  <2>1. NotAllocated \in AlarmsOf(Stair!Handlers, 0) /\ 0 \in Slots
    BY PoolAssumption DEF NotAllocated, AlarmsOf, Slots
  <2>2. stairAlarms' \in StairPoolType
    BY <1>9, <2>1, StairPool DEF Stair!Restart
  <2>3. RestOK'
    BY <1>9, <2>1 DEF Stair!Restart
  <2> QED
    BY <1>0, <2>2, <2>3
<1>10. ASSUME NEW s \in Stair!Slots, Stair!requestLightStatus(s) \/ Stair!checkLightStatusRequest(s)
       PROVE  Stair!TypeOK'
  <2>1. stairAlarms' \in StairPoolType
    BY <1>4, <1>10, StairPool DEF Stair!requestLightStatus, Stair!checkLightStatusRequest
  <2>2. sendLightStatusRequest' \in BOOLEAN
    BY <1>1, <1>10 DEF Stair!requestLightStatus, Stair!checkLightStatusRequest, Stair!request
  <2>3. UNCHANGED <<stairSetUp, stairLit, lightStatusReceived, lightStatusTimer>>
    BY <1>10 DEF Stair!requestLightStatus, Stair!checkLightStatusRequest, Stair!request
  <2> QED
    BY <1>0, <1>1, <2>1, <2>2, <2>3
<1> QED
  BY <1>5, <1>6, <1>7, <1>8, <1>9, <1>10, StairSteps

LEMMA RadioSteps ==
    ASSUME [ControlNext]_controlVars
    PROVE  \/ UNCHANGED radio
           \/ SwitchIsTold \/ PresentationIsTold \/ StatusComes
           \/ \E arrives \in BOOLEAN : QuestionComes(arrives) \/ StairAsks(arrives)
<1>1. CASE OthersTell \/ StatusIsReceived \/ DurationIsReceived \/ PresentationIsAsked
  BY <1>1 DEF OthersTell, StatusIsReceived, DurationIsReceived, PresentationIsAsked
<1>2. CASE LightGoesOn \/ AlarmRuns \/ LightWorks \/ StairWorks \/ Restarts
  BY <1>2 DEF LightGoesOn, AlarmRuns, LightWorks, StairWorks, Restarts
<1>3. CASE UNCHANGED controlVars
  BY <1>3 DEF controlVars
<1> QED
  BY <1>1, <1>2, <1>3 DEF ControlNext

\* The two nodes and what is on its way between them keep their types.
THEOREM ControlTypeCorrect == ControlSpec => []ControlTypeOK
<1> DEFINE RadioOK == asked \in BOOLEAN /\ told \in {{}, {TRUE}, {FALSE}}
<1>1. ControlInit => Stair!TypeOK /\ RadioOK
  <2> SUFFICES ASSUME ControlInit PROVE Stair!TypeOK /\ RadioOK
    OBVIOUS
  <2>1. Stair!NotAllocated \in Stair!AlarmsOf(Stair!Handlers, 0) /\ 0 \in Stair!Slots
    BY PoolAssumption DEF Stair!NotAllocated, Stair!AlarmsOf, Stair!Slots, Stair!NoHandler
  <2> QED
    BY <2>1 DEF ControlInit, Stair!Init, Stair!TypeOK
<1>2. TypeOK /\ Stair!TypeOK /\ RadioOK /\ [ControlNext]_controlVars
        => Stair!TypeOK' /\ RadioOK'
  <2> SUFFICES ASSUME TypeOK, Stair!TypeOK, RadioOK, [ControlNext]_controlVars
               PROVE  Stair!TypeOK' /\ RadioOK'
    OBVIOUS
  <2>1. Stair!TypeOK'
    BY StairTypeStays
  <2>2. told' \in {{}, {TRUE}, {FALSE}}
    <3>1. \A on \in BOOLEAN : Tell(on) => told' \in {{}, {TRUE}, {FALSE}}
      BY DEF Tell
    <3>2. CASE SwitchIsTold \/ PresentationIsTold
      BY <3>1, <3>2 DEF SwitchIsTold, PresentationIsTold
    <3>3. CASE \E arrives \in BOOLEAN : QuestionComes(arrives) \/ StairAsks(arrives)
      <4>1. lit \in BOOLEAN
        BY DEF TypeOK
      <4> QED
        BY <3>3, <4>1 DEF QuestionComes, StairAsks
    <3>4. CASE StatusComes \/ UNCHANGED radio
      BY <3>4 DEF StatusComes, radio
    <3> QED
      BY <3>2, <3>3, <3>4, RadioSteps
  <2>3. asked' \in BOOLEAN
    <3>1. ASSUME NEW arrives \in BOOLEAN, StairAsks(arrives) PROVE asked' \in BOOLEAN
      BY <3>1, Zenon DEF StairAsks
    <3>2. ASSUME NEW arrives \in BOOLEAN, QuestionComes(arrives) PROVE asked' \in BOOLEAN
      BY <3>2, Zenon DEF QuestionComes
    <3>3. CASE SwitchIsTold \/ PresentationIsTold \/ StatusComes \/ UNCHANGED radio
      BY <3>3 DEF SwitchIsTold, PresentationIsTold, StatusComes, radio
    <3> QED
      BY <3>1, <3>2, <3>3, RadioSteps
  <2> QED
    BY <2>1, <2>2, <2>3
<1>3. TypeOK /\ Stair!TypeOK /\ RadioOK <=> ControlTypeOK
  BY DEF ControlTypeOK
<1> QED
  BY <1>1, <1>2, <1>3, BalconyKeepsItsSpec, TypeCorrect, PTL DEF ControlSpec
=============================================================================
