--------------------------- MODULE ThingspeakProofs ---------------------------
(***************************************************************************)
(* Invariants of the cloud node's queue, for every number of channels and   *)
(* of commands, every size of the alarm pool and every nesting depth.       *)
(***************************************************************************)
EXTENDS Thingspeak, RuntimeProofs, FiniteSetTheorems

PoolType == [Slots -> AlarmsOf(Handlers, 1)]

LEMMA PointNames ==
    /\ {"config", "presentation", "register", "pass", "tail", "command"} \subseteq Points
    /\ "loop" \notin Points
BY DEF Points, CorePoints

LEMMA KindNames ==
    /\ Fetch \in Kinds /\ Channels \subseteq Kinds
    /\ DEFAULT_QUEUE_VALUE \notin Kinds /\ Fetch \notin Channels
    /\ "SEND_STATIC_DATA" \in Channels
    /\ \A channel \in Channels : KindOf(channel) \in Channels
    /\ \A channel \in Channels \ {"SEND_WATER_LEVEL_DATA"} : KindOf(channel) = channel
BY ChannelsAssumption DEF Kinds, KindOf, Fetch, DEFAULT_QUEUE_VALUE

-----------------------------------------------------------------------------
(* Positions *)

\* There is a slot for every kind.
LEMMA SlotForEveryKind ==
    /\ TYPES_OF_DATA \in Nat \ {0}
    /\ IsFiniteSet(Kinds) /\ IsFiniteSet(Positions)
    /\ Cardinality(Positions) = TYPES_OF_DATA
    /\ \A kind \in Kinds : /\ IsFiniteSet(Kinds \ {kind})
                           /\ Cardinality(Kinds \ {kind}) < Cardinality(Positions)
<1>1. IsFiniteSet(Kinds)
  BY ChannelsAssumption, FS_AddElement DEF Kinds
<1>2. Cardinality(Kinds) \in Nat /\ Cardinality(Kinds) # 0
  BY <1>1, FS_CardinalityType, FS_EmptySet, KindNames
<1>3. IsFiniteSet(Positions) /\ Cardinality(Positions) = TYPES_OF_DATA
  <2> DEFINE T == TYPES_OF_DATA
  <2>1. T \in Nat \ {0}
    BY <1>2 DEF TYPES_OF_DATA
  <2> HIDE DEF T
  <2>2. IsFiniteSet(0 .. T - 1) /\ Cardinality(0 .. T - 1) = T
    BY <2>1, FS_Interval
  <2> QED
    BY <2>2 DEF T, Positions
<1>4. \A kind \in Kinds : /\ IsFiniteSet(Kinds \ {kind})
                          /\ Cardinality(Kinds \ {kind}) = Cardinality(Kinds) - 1
  BY <1>1, FS_RemoveElement
<1> QED
  BY <1>1, <1>2, <1>3, <1>4 DEF TYPES_OF_DATA

LEMMA Modulo ==
    ASSUME NEW T \in Nat \ {0}, NEW a \in Nat
    PROVE  a % T \in 0 .. T - 1
OBVIOUS

LEMMA NotWrapped ==
    ASSUME NEW T \in Nat \ {0}, NEW a \in 0 .. T - 1
    PROVE  a % T = a
OBVIOUS

LEMMA WrappedOnce ==
    ASSUME NEW T \in Nat \ {0}, NEW a \in T .. 2 * T - 1
    PROVE  a % T = a - T
OBVIOUS

LEMMA AheadByThatMany ==
    ASSUME NEW T \in Nat \ {0}, NEW h \in 0 .. T - 1, NEW n \in 0 .. T - 1, NEW t,
           t = (h + n) % T
    PROVE  (T + t - h) % T = n
BY NotWrapped, WrappedOnce

LEMMA FollowingIsPosition ==
    ASSUME NEW position \in Positions
    PROVE  Following(position) \in Positions
<1>1. TYPES_OF_DATA \in Nat \ {0} /\ position + 1 \in Nat
  BY SlotForEveryKind DEF Positions
<1> QED
  BY <1>1, Modulo DEF Following, Positions

\* A position n places behind the head is n places ahead of it, and all are if n is not
\* short of the whole queue.
LEMMA TailIsAhead ==
    ASSUME processQueueHead \in Positions, NEW n \in 0 .. TYPES_OF_DATA,
           processQueueTail = (processQueueHead + n) % TYPES_OF_DATA
    PROVE  /\ n < TYPES_OF_DATA => Ahead(processQueueTail) = n
           /\ n = TYPES_OF_DATA => \A i \in Positions : Ahead(i) < n
<1> DEFINE T == TYPES_OF_DATA
           h == processQueueHead
<1>1. T \in Nat \ {0} /\ h \in 0 .. T - 1 /\ n \in 0 .. T
  BY SlotForEveryKind DEF Positions
<1> HIDE DEF T, h
<1>2. n < T /\ processQueueTail = (h + n) % T => (T + processQueueTail - h) % T = n
  <2>1. n < T => n \in 0 .. T - 1
    BY <1>1
  <2> QED
    BY <1>1, <2>1, AheadByThatMany
<1>3. \A i \in 0 .. T - 1 : (T + i - h) % T < T
  <2>1. \A i \in 0 .. T - 1 : T + i - h \in Nat
    BY <1>1
  <2> QED
    BY <1>1, <2>1, Modulo
<1> QED
  BY <1>2, <1>3 DEF Ahead, Positions, T, h

-----------------------------------------------------------------------------
(* The queue *)

\* A kind that is put in is queued behind it, and another one stays or is overwritten.
LEMMA InsertKeepsKinds ==
    ASSUME TypeOK, NEW kind \in Kinds, insertQueue(kind)
    PROVE  /\ processQueue' \in [Positions -> Kinds \cup {DEFAULT_QUEUE_VALUE}]
           /\ processQueueTail' \in Positions
           /\ dropped' \in SUBSET Kinds
           /\ Queued(kind)'
           /\ \A k \in Kinds : Queued(k) \/ k \in dropped => Queued(k)' \/ k \in dropped'
<1>1. CASE Queued(kind)
  <2>1. UNCHANGED <<processQueue, processQueueTail, dropped>>
    BY <1>1 DEF insertQueue
  <2> QED
    BY <1>1, <2>1 DEF TypeOK, Queued
<1>2. CASE ~Queued(kind)
  <2> DEFINE tail == processQueueTail
  <2>1. /\ processQueue' = [processQueue EXCEPT ![tail] = kind]
        /\ processQueueTail' = Following(tail)
        /\ dropped' = (dropped \cup {processQueue[tail]}) \ {kind, DEFAULT_QUEUE_VALUE}
    BY <1>2 DEF insertQueue
  <2>2. /\ tail \in Positions /\ dropped \subseteq Kinds
        /\ processQueue \in [Positions -> Kinds \cup {DEFAULT_QUEUE_VALUE}]
    BY DEF TypeOK
  <2>3. processQueueTail' \in Positions
    BY <2>1, <2>2, FollowingIsPosition
  <2> HIDE DEF tail
  <2>4. processQueue'[tail] = kind /\ \A i \in Positions \ {tail} : processQueue'[i] = processQueue[i]
    BY <2>1, <2>2
  <2>5. ASSUME NEW k \in Kinds, Queued(k) \/ k \in dropped
        PROVE  Queued(k)' \/ k \in dropped'
    <3>1. CASE k = kind
      BY <2>2, <2>4, <3>1 DEF Queued
    <3>2. CASE k # kind /\ k \in dropped
      BY <2>1, <3>2, KindNames
    <3>3. CASE k # kind /\ Queued(k)
      BY <2>1, <2>2, <2>4, <3>3, KindNames DEF Queued
    <3> QED
      BY <2>5, <3>1, <3>2, <3>3
  <2> QED
    BY <2>1, <2>2, <2>3, <2>4, <2>5 DEF Queued
<1> QED
  BY <1>1, <1>2

\* What is taken from the head was served, or is among the dropped behind it.
LEMMA RemoveKeepsKinds ==
    ASSUME TypeOK, NEW served, NEW failed \in SUBSET Kinds, RemoveHead(served, failed)
    PROVE  /\ processQueue' \in [Positions -> Kinds \cup {DEFAULT_QUEUE_VALUE}]
           /\ processQueueHead' \in Positions /\ processQueueTail' \in Positions
           /\ dropped' \in SUBSET Kinds
           /\ failed \subseteq dropped'
           /\ \A k \in Kinds \ {served} :
                 Queued(k) \/ k \in dropped => Queued(k)' \/ k \in dropped'
<1> DEFINE head == processQueueHead
<1>1. /\ processQueue' = [processQueue EXCEPT ![head] = DEFAULT_QUEUE_VALUE]
      /\ processQueueHead' = Following(head) /\ processQueueTail' = processQueueTail
      /\ dropped' = (dropped \cup failed \cup ({processQueue[head]} \ {served}))
                        \ {DEFAULT_QUEUE_VALUE}
  BY DEF RemoveHead
<1>2. /\ head \in Positions /\ processQueueTail \in Positions /\ dropped \subseteq Kinds
      /\ processQueue \in [Positions -> Kinds \cup {DEFAULT_QUEUE_VALUE}]
  BY DEF TypeOK
<1>3. processQueueHead' \in Positions
  BY <1>1, <1>2, FollowingIsPosition
<1> HIDE DEF head
<1>4. \A i \in Positions \ {head} : processQueue'[i] = processQueue[i]
  BY <1>1, <1>2
<1>5. ASSUME NEW k \in Kinds \ {served}, Queued(k) \/ k \in dropped
      PROVE  Queued(k)' \/ k \in dropped'
  BY <1>1, <1>2, <1>4, <1>5, KindNames DEF Queued
<1> QED
  BY <1>1, <1>2, <1>3, <1>5, KindNames

-----------------------------------------------------------------------------
(* Steps *)

\* The steps that change what is queued or what it is queued for.
LEMMA QueueSteps ==
    ASSUME [Next]_vars
    PROVE  \/ setup
           \/ UNCHANGED sketch
           \/ \E channel \in Channels : ReceiveReading(channel)
           \/ \E s \in Slots : Upload(s) \/ insertFetchAndProcessDataRequest(s)
           \/ CommandWaitEnds
BY DEF Next, WaitEnds, ReceivePresentationRequest, TailWaitEnds, PresentingNode,
       PresentationEnds, PassBegins, PassEnds, processThingspeakData, SendFirstCommand,
       heartbeatOrTime, SecondPasses, vars, sketch, queue

\* The steps of the stack.
LEMMA StackSteps ==
    ASSUME [Next]_vars
    PROVE  \/ /\ StackStep(Points \ {"register"}, Points \ {"register"})
              /\ UNCHANGED setupDone
           \/ PresentationEnds
           \/ setup
<1> DEFINE Step == /\ StackStep(Points \ {"register"}, Points \ {"register"})
                   /\ UNCHANGED setupDone
<1>1. {"config", "presentation", "pass", "tail", "command"} \subseteq Points \ {"register"}
  BY PointNames
<1>2. CASE \/ \E channel \in Channels : ReceiveReading(channel)
           \/ ReceivePresentationRequest \/ PassBegins
  BY <1>1, <1>2 DEF ReceiveReading, ReceivePresentationRequest, PassBegins, ServiceAlarms,
                    StackStep, sketch
<1>3. CASE CommandWaitEnds \/ TailWaitEnds \/ PresentingNode \/ PassEnds
  BY <1>1, <1>3 DEF CommandWaitEnds, TailWaitEnds, TailReturns, PresentingNode, PassEnds,
                    EndPass, StackStep, sketch
<1>4. ASSUME NEW s \in Slots,
             processThingspeakData(s) \/ insertFetchAndProcessDataRequest(s) \/ heartbeatOrTime(s)
      PROVE  Step
  BY <1>1, <1>4 DEF processThingspeakData, Upload, SendFirstCommand, heartbeatOrTime,
                    insertFetchAndProcessDataRequest, RunHandler, PassReaches, StackStep
<1>5. CASE SecondPasses \/ UNCHANGED vars
  BY <1>5 DEF SecondPasses, Second, vars, StackStep, sketch
<1> QED
  BY <1>2, <1>3, <1>4, <1>5 DEF Next, WaitEnds

-----------------------------------------------------------------------------
(* Types *)

LEMMA PoolStays ==
    ASSUME TypeOK, [Next]_vars
    PROVE  alarms' \in PoolType
<1> USE DEF PoolType
<1>1. alarms \in PoolType /\ 1 \in Nat /\ 0 \in 0 .. 1 /\ 1 \in 0 .. 1 /\ {TRUE, FALSE} \subseteq BOOLEAN
  BY DEF TypeOK
<1>2. \A pool \in PoolType, h \in Handlers :
         timerRepeat(pool, h) \in PoolType /\ timerOnce(pool, 1, h) \in PoolType
  BY <1>1, CreateFillsOneSlot, Zenon DEF timerRepeat, timerOnce
<1>3. Elapse(alarms) \in PoolType
  BY <1>1, ElapseKeepsHandlers, Zenon
<1>4. \A s \in Slots : Trigger(alarms, s) \in PoolType
  BY <1>1, TriggerFreesOneSlot, Zenon
<1>5. CASE setup
  <2> HIDE DEF PoolType
  <2>1. {"heartbeat", "processThingspeakData", "insertFetchAndProcessDataRequest",
         "getTimeFromGateway"} \subseteq Handlers
    BY DEF Handlers
  <2> QED
    BY <1>1, <1>2, <1>5, <2>1 DEF setup
<1>6. CASE alarms' \in {alarms, Elapse(alarms)} \/ \E s \in Slots : alarms' = Trigger(alarms, s)
  BY <1>1, <1>3, <1>4, <1>6
<1> QED
  BY <1>5, <1>6
  DEF Next, WaitEnds, ReceiveReading, ReceivePresentationRequest, CommandWaitEnds,
      TailWaitEnds, TailReturns, PresentingNode, PresentationEnds, PassBegins, ServiceAlarms,
      PassEnds, EndPass, processThingspeakData, Upload, SendFirstCommand, heartbeatOrTime,
      insertFetchAndProcessDataRequest, RunHandler, SecondPasses, Second, vars

LEMMA StackStays ==
    ASSUME TypeOK, [Next]_vars
    PROVE  stack' \in Seq(Frames(Points))
<1>1. stack \in Seq(Frames(Points)) /\ "loop" \notin Points /\ "register" \in Points
  BY PointNames DEF TypeOK
<1>2. StackStep(Points, Points)
  <2>1. CASE StackStep(Points \ {"register"}, Points \ {"register"})
    BY <2>1 DEF StackStep
  <2>2. CASE PresentationEnds \/ setup
    BY <2>2, PointNames DEF PresentationEnds, setup, StackStep
  <2> QED
    BY <2>1, <2>2, StackSteps
<1> QED
  BY <1>1, <1>2, StackStepEffects

\* Every variable holds a value of its type, in every reachable state.
THEOREM TypeCorrect == Spec => []TypeOK
<1>1. Init => TypeOK
  <2> SUFFICES ASSUME Init PROVE TypeOK
    OBVIOUS
  <2>1. NotAllocated \in AlarmsOf(Handlers, 1)
    BY DEF NotAllocated, AlarmsOf
  <2>2. <<Frame("config")>> \in Seq(Frames(Points))
    <3>1. Frame("config") \in Frames(Points)
      BY PointNames, PoolAssumption DEF Frame, Frames
    <3> QED
      BY <3>1
  <2>3. 0 \in Positions
    BY SlotForEveryKind DEF Positions
  <2> QED
    BY <2>1, <2>2, <2>3, KindNames DEF Init, TypeOK
<1>2. TypeOK /\ [Next]_vars => TypeOK'
  <2> SUFFICES ASSUME TypeOK, [Next]_vars PROVE TypeOK'
    OBVIOUS
  <2> DEFINE Data == /\ setupDone' \in BOOLEAN
                     /\ processQueue' \in [Positions -> Kinds \cup {DEFAULT_QUEUE_VALUE}]
                     /\ processQueueHead' \in Positions
                     /\ processQueueTail' \in Positions
                     /\ channelData' \in SUBSET Channels
                     /\ incoming' \in SUBSET Fields
                     /\ dropped' \in SUBSET Kinds
  <2> SUFFICES Data
    BY PoolStays, StackStays DEF TypeOK, PoolType
  <2>1. CASE setup
    <3>1. 0 \in Positions
      BY SlotForEveryKind DEF Positions
    <3> QED
      BY <2>1, <3>1 DEF setup
  <2>2. CASE UNCHANGED sketch
    BY <2>2 DEF sketch, queue, TypeOK
  <2>3. ASSUME NEW channel \in Channels, ReceiveReading(channel) PROVE Data
    <3>1. KindOf(channel) \in Kinds /\ insertQueue(KindOf(channel))
      BY <2>3, KindNames DEF ReceiveReading
    <3> QED
      BY <2>3, <3>1, InsertKeepsKinds DEF ReceiveReading, TypeOK
  <2>4. ASSUME NEW s \in Slots, Upload(s) PROVE Data
    <3> DEFINE kind == processQueue[processQueueHead]
    <3>1. \E failed \in SUBSET Kinds : RemoveHead(kind, failed)
      <4>1. RemoveHead(kind, {}) \/ (kind \in channelData /\ RemoveHead(kind, {kind}))
        BY <2>4 DEF Upload
      <4>2. {} \in SUBSET Kinds /\ (kind \in channelData => {kind} \in SUBSET Kinds)
        BY KindNames DEF TypeOK
      <4> HIDE DEF kind
      <4> QED
        BY <4>1, <4>2
    <3>2. channelData' \in SUBSET Channels /\ UNCHANGED <<setupDone, incoming>>
      BY <2>4 DEF Upload, TypeOK
    <3> HIDE DEF kind
    <3> QED
      BY <3>1, <3>2, RemoveKeepsKinds DEF TypeOK
  <2>5. ASSUME NEW s \in Slots, insertFetchAndProcessDataRequest(s) PROVE Data
    <3>1. insertQueue(Fetch) \/ UNCHANGED <<processQueue, processQueueTail, dropped>>
      BY <2>5 DEF insertFetchAndProcessDataRequest
    <3>2. incoming' \in SUBSET Fields /\ UNCHANGED <<setupDone, processQueueHead, channelData>>
      BY <2>5 DEF insertFetchAndProcessDataRequest, TypeOK
    <3> QED
      BY <3>1, <3>2, InsertKeepsKinds, KindNames DEF TypeOK
  <2>6. CASE CommandWaitEnds
    <3>1. \/ UNCHANGED <<processQueue, processQueueHead, processQueueTail, dropped>>
          \/ RemoveHead(Fetch, {})
      BY <2>6 DEF CommandWaitEnds, queue
    <3>2. incoming' \in SUBSET Fields /\ UNCHANGED <<setupDone, channelData>>
      BY <2>6 DEF CommandWaitEnds, TypeOK
    <3> QED
      BY <3>1, <3>2, RemoveKeepsKinds DEF TypeOK
  <2> QED
    BY <2>1, <2>2, <2>3, <2>4, <2>5, <2>6, QueueSteps
<1> QED
  BY <1>1, <1>2, PTL DEF Spec

-----------------------------------------------------------------------------
(* What waits is queued *)

\* Data that waits for its upload has its entry in the queue, but for the levels, whose kind
\* is never queued, and for what was dropped.
THEOREM DataHasItsEntry == Spec => []DataIsQueued
<1>1. Init => DataIsQueued
  BY DEF Init, DataIsQueued
<1>2. TypeOK /\ DataIsQueued /\ [Next]_vars => DataIsQueued'
  <2> SUFFICES ASSUME TypeOK, DataIsQueued, [Next]_vars, setupDone',
                      NEW c \in channelData' \ {"SEND_WATER_LEVEL_DATA"}
               PROVE  Queued(c)' \/ c \in dropped'
    BY DEF DataIsQueued
  <2>0. /\ c \in channelData /\ setupDone => c \in Kinds /\ (Queued(c) \/ c \in dropped)
        /\ channelData \subseteq Channels
    BY KindNames DEF DataIsQueued, TypeOK
  <2>1. CASE setup
    BY <2>1 DEF setup
  <2>2. CASE UNCHANGED sketch
    BY <2>0, <2>2 DEF sketch, queue, Queued
  <2>3. ASSUME NEW channel \in Channels, ReceiveReading(channel)
        PROVE  Queued(c)' \/ c \in dropped'
    <3>1. /\ KindOf(channel) \in Kinds /\ insertQueue(KindOf(channel)) /\ setupDone
          /\ c \in channelData \/ c = channel
      BY <2>3, KindNames DEF ReceiveReading
    <3>2. CASE c = channel
      BY <3>1, <3>2, InsertKeepsKinds, KindNames
    <3>3. CASE c \in channelData
      BY <2>0, <3>1, <3>3, InsertKeepsKinds
    <3> QED
      BY <3>1, <3>2, <3>3
  <2>4. ASSUME NEW s \in Slots, Upload(s)
        PROVE  Queued(c)' \/ c \in dropped'
    <3> DEFINE kind == processQueue[processQueueHead]
    <3>1. c \in channelData /\ c \in Kinds /\ (Queued(c) \/ c \in dropped)
      BY <2>0, <2>4 DEF Upload
    <3>2. CASE channelData' = channelData \ {kind} /\ RemoveHead(kind, {})
      BY <3>1, <3>2, RemoveKeepsKinds
    <3>3. CASE kind \in channelData /\ RemoveHead(kind, {kind})
      <4>1. {kind} \in SUBSET Kinds
        BY <2>0, <3>3, KindNames
      <4> HIDE DEF kind
      <4> QED
        BY <3>1, <3>3, <4>1, RemoveKeepsKinds
    <3> QED
      BY <2>4, <3>2, <3>3 DEF Upload
  <2>5. ASSUME NEW s \in Slots, insertFetchAndProcessDataRequest(s)
        PROVE  Queued(c)' \/ c \in dropped'
    <3>1. /\ insertQueue(Fetch) \/ UNCHANGED <<processQueue, processQueueTail, dropped>>
          /\ UNCHANGED <<setupDone, channelData>>
      BY <2>5 DEF insertFetchAndProcessDataRequest
    <3>2. CASE insertQueue(Fetch)
      BY <2>0, <3>1, <3>2, InsertKeepsKinds, KindNames
    <3>3. CASE UNCHANGED <<processQueue, processQueueTail, dropped>>
      BY <2>0, <3>1, <3>3 DEF Queued
    <3> QED
      BY <3>1, <3>2, <3>3
  <2>6. CASE CommandWaitEnds
    <3>1. UNCHANGED <<setupDone, channelData>>
      BY <2>6 DEF CommandWaitEnds
    <3>2. CASE UNCHANGED <<queue, dropped>>
      BY <2>0, <3>1, <3>2 DEF queue, Queued
    <3>3. CASE RemoveHead(Fetch, {})
      BY <2>0, <3>1, <3>3, RemoveKeepsKinds, KindNames
    <3> QED
      BY <2>6, <3>2, <3>3 DEF CommandWaitEnds, queue
  <2> QED
    BY <2>1, <2>2, <2>3, <2>4, <2>5, <2>6, QueueSteps
<1> QED
  BY <1>1, <1>2, TypeCorrect, PTL DEF Spec

\* A command fetched from the cloud waits with the fetching queued for it, through all of
\* its waits for other commands, unless that entry was overwritten.
THEOREM CommandHasItsEntry == Spec => []CommandIsQueued
<1>1. Init => CommandIsQueued
  BY DEF Init, CommandIsQueued
<1>2. TypeOK /\ CommandIsQueued /\ [Next]_vars => CommandIsQueued'
  <2> SUFFICES ASSUME TypeOK, CommandIsQueued, [Next]_vars, setupDone', incoming' # {}
               PROVE  Queued(Fetch)' \/ Fetch \in dropped'
    BY DEF CommandIsQueued
  <2>0. setupDone /\ incoming # {} => Queued(Fetch) \/ Fetch \in dropped
    BY DEF CommandIsQueued
  <2>1. CASE setup
    BY <2>1 DEF setup
  <2>2. CASE UNCHANGED sketch
    BY <2>0, <2>2 DEF sketch, queue, Queued
  <2>3. ASSUME NEW channel \in Channels, ReceiveReading(channel)
        PROVE  Queued(Fetch)' \/ Fetch \in dropped'
    <3>1. KindOf(channel) \in Kinds /\ insertQueue(KindOf(channel))
      BY <2>3, KindNames DEF ReceiveReading
    <3>2. Queued(Fetch) \/ Fetch \in dropped
      BY <2>0, <2>3 DEF ReceiveReading
    <3> QED
      BY <3>1, <3>2, InsertKeepsKinds, KindNames
  <2>4. ASSUME NEW s \in Slots, Upload(s)
        PROVE  Queued(Fetch)' \/ Fetch \in dropped'
    <3> DEFINE kind == processQueue[processQueueHead]
    <3>1. /\ kind # Fetch /\ (Queued(Fetch) \/ Fetch \in dropped)
          /\ RemoveHead(kind, {}) \/ (kind \in channelData /\ RemoveHead(kind, {kind}))
      BY <2>0, <2>4 DEF Upload
    <3>2. kind \in channelData => {kind} \in SUBSET Kinds
      BY KindNames DEF TypeOK
    <3> HIDE DEF kind
    <3> QED
      BY <3>1, <3>2, RemoveKeepsKinds, KindNames
  <2>5. ASSUME NEW s \in Slots, insertFetchAndProcessDataRequest(s)
        PROVE  Queued(Fetch)' \/ Fetch \in dropped'
    BY <2>5, InsertKeepsKinds, KindNames DEF insertFetchAndProcessDataRequest
  <2>6. CASE CommandWaitEnds
    <3>1. incoming # {} /\ setupDone /\ UNCHANGED <<queue, dropped>>
      BY <2>6 DEF CommandWaitEnds
    <3> QED
      BY <2>0, <3>1 DEF queue, Queued
  <2> QED
    BY <2>1, <2>2, <2>3, <2>4, <2>5, <2>6, QueueSteps
<1> QED
  BY <1>1, <1>2, TypeCorrect, PTL DEF Spec

-----------------------------------------------------------------------------
(* An entry leaves the queue only by being served *)

LEMMA RegisterInvariant == Spec => []RegisterInv
<1>1. Init => RegisterInv
  <2> SUFFICES ASSUME Init PROVE RegisterInv
    OBVIOUS
  <2>1. \A i \in DOMAIN stack : stack[i].at = "config"
    BY DEF Init, Frame
  <2> QED
    BY <2>1 DEF RegisterInv
<1>2. TypeOK /\ RegisterInv /\ [Next]_vars => RegisterInv'
  <2> SUFFICES ASSUME TypeOK, RegisterInv, [Next]_vars PROVE RegisterInv'
    OBVIOUS
  <2>0. stack \in Seq(Frames(Points)) /\ "loop" \notin Points
    BY PointNames DEF TypeOK
  <2>1. CASE StackStep(Points \ {"register"}, Points \ {"register"}) /\ UNCHANGED setupDone
    <3>1. \A i \in DOMAIN stack' : stack'[i].at = "register" =>
             i \in DOMAIN stack /\ stack[i].at = "register"
      <4>1. Points \ {"register"} \subseteq Points /\ "loop" \notin Points \ {"register"}
        BY <2>0
      <4> QED
        BY <2>0, <2>1, <4>1, StackStepEffects
    <3> QED
      BY <2>1, <3>1 DEF RegisterInv
  <2>2. CASE PresentationEnds
    <3>1. At("presentation") /\ UNCHANGED setupDone
      BY <2>2 DEF PresentationEnds, sketch
    <3>2. stack # <<>> /\ Len(stack) \in 1 .. Len(stack)
      BY <2>0, <3>1, TopIsPoint
    <3>3. CASE setupDone \/ Len(stack) > 1
      <4>1. stack' = Return
        BY <2>2, <3>3 DEF PresentationEnds
      <4>2. \A i \in DOMAIN stack' : i \in DOMAIN stack /\ stack'[i] = stack[i]
        <5>1. /\ stack' \in Seq(Frames(Points)) /\ Len(stack') = Len(stack) - 1
              /\ \A i \in 1 .. Len(stack) - 1 : stack'[i] = stack[i]
          BY <2>0, <3>2, <4>1, ReturnRemovesTop
        <5>2. /\ DOMAIN stack' = 1 .. Len(stack) - 1 /\ DOMAIN stack = 1 .. Len(stack)
              /\ Len(stack) \in Nat
          BY <2>0, <5>1, LenProperties
        <5> QED
          BY <5>1, <5>2
      <4> QED
        BY <3>1, <4>2 DEF RegisterInv
    <3>4. CASE ~ (setupDone \/ Len(stack) > 1)
      <4>1. stack' = Goto("register")
        BY <2>2, <3>4 DEF PresentationEnds
      <4>2. Len(stack') = Len(stack) /\ stack' \in Seq(Frames(Points))
        BY <2>0, <3>2, <4>1, GotoReplacesTop, PointNames
      <4>3. \A n \in Nat : n \in 1 .. n /\ ~ (n > 1) => \A i \in 1 .. n : i = 1
        OBVIOUS
      <4>4. \A i \in DOMAIN stack' : i = 1
        BY <2>0, <3>2, <3>4, <4>2, <4>3, LenProperties
      <4> QED
        BY <3>1, <3>4, <4>4 DEF RegisterInv
    <3> QED
      BY <3>3, <3>4
  <2>3. CASE setup
    <3>1. stack # <<>> /\ Len(stack) \in 1 .. Len(stack) /\ stack[Len(stack)].at = "register"
      BY <2>0, <2>3, TopIsPoint DEF setup
    <3>2. Len(stack) = 1
      BY <2>0, <3>1, LenProperties DEF RegisterInv
    <3>3. stack' \in Seq(Frames(Points)) /\ Len(stack') = 0
      BY <2>0, <2>3, <3>1, <3>2, ReturnRemovesTop DEF setup
    <3>4. DOMAIN stack' = {}
      BY <3>3, EmptySeq
    <3> QED
      BY <3>4 DEF RegisterInv
  <2> QED
    BY <2>1, <2>2, <2>3, StackSteps
<1> QED
  BY <1>1, <1>2, TypeCorrect, PTL DEF Spec

LEMMA SetupRunsOnce ==
    ASSUME TypeOK, RegisterInv, setup
    PROVE  ~setupDone
<1>1. Len(stack) \in DOMAIN stack /\ stack[Len(stack)].at = "register"
  BY PointNames, TopIsPoint, LenProperties DEF setup, TypeOK
<1> QED
  BY <1>1 DEF RegisterInv

\* What can happen to the queue: a kind that is not in it is put in, or the head is removed.
LEMMA QueueChanges ==
    ASSUME TypeOK, RegisterInv, setupDone, [Next]_vars
    PROVE  /\ setupDone'
           /\ \/ UNCHANGED queue
              \/ \E kind \in Kinds : ~Queued(kind) /\ insertQueue(kind) /\ UNCHANGED processQueueHead
              \/ \E served, failed : RemoveHead(served, failed)
<1>1. ~setup
  BY SetupRunsOnce
<1>2. CASE UNCHANGED sketch
  BY <1>2 DEF sketch, queue
<1>3. ASSUME NEW kind \in Kinds, insertQueue(kind), UNCHANGED processQueueHead
      PROVE  \/ UNCHANGED queue
             \/ ~Queued(kind) /\ insertQueue(kind) /\ UNCHANGED processQueueHead
  BY <1>3 DEF insertQueue, queue
<1>4. ASSUME NEW channel \in Channels, ReceiveReading(channel)
      PROVE  /\ KindOf(channel) \in Kinds /\ insertQueue(KindOf(channel))
             /\ UNCHANGED <<setupDone, processQueueHead>>
  BY <1>4, KindNames DEF ReceiveReading
<1>5. ASSUME NEW s \in Slots, insertFetchAndProcessDataRequest(s)
      PROVE  /\ UNCHANGED queue \/ (insertQueue(Fetch) /\ UNCHANGED processQueueHead)
             /\ UNCHANGED setupDone
  BY <1>5 DEF insertFetchAndProcessDataRequest, queue
<1>6. ASSUME NEW s \in Slots, Upload(s)
      PROVE  UNCHANGED setupDone /\ \E served, failed : RemoveHead(served, failed)
  BY <1>6 DEF Upload
<1>7. CASE CommandWaitEnds
  BY <1>7 DEF CommandWaitEnds
<1> QED
  BY <1>1, <1>2, <1>3, <1>4, <1>5, <1>6, <1>7, QueueSteps, KindNames

LEMMA SingleEntriesInvariant == Spec => []SingleEntries
<1>1. Init => SingleEntries
  BY DEF Init, SingleEntries
<1>2. TypeOK /\ RegisterInv /\ SingleEntries /\ [Next]_vars => SingleEntries'
  <2> SUFFICES ASSUME TypeOK, RegisterInv, SingleEntries, [Next]_vars PROVE SingleEntries'
    OBVIOUS
  <2>0. /\ processQueue \in [Positions -> Kinds \cup {DEFAULT_QUEUE_VALUE}]
        /\ processQueueHead \in Positions /\ processQueueTail \in Positions
    BY DEF TypeOK
  <2>1. CASE setupDone
    <3>1. CASE UNCHANGED queue
      BY <2>1, <3>1 DEF queue, SingleEntries
    <3>2. ASSUME NEW kind \in Kinds, ~Queued(kind), insertQueue(kind) PROVE SingleEntries'
      <4> DEFINE tail == processQueueTail
      <4>1. processQueue' = [processQueue EXCEPT ![tail] = kind]
        BY <3>2 DEF insertQueue
      <4> HIDE DEF tail
      <4> QED
        BY <2>0, <2>1, <3>2, <4>1 DEF SingleEntries, Queued, tail
    <3>3. ASSUME NEW served, NEW failed, RemoveHead(served, failed) PROVE SingleEntries'
      BY <2>0, <2>1, <3>3 DEF RemoveHead, SingleEntries
    <3> QED
      BY <2>1, <3>1, <3>2, <3>3, QueueChanges
  <2>2. CASE ~setupDone /\ setup
    BY <2>2 DEF setup, SingleEntries
  <2>3. CASE ~setupDone /\ ~setup
    <3>1. ~setupDone'
      BY <2>3, StackSteps DEF PresentationEnds, sketch
    <3> QED
      BY <3>1 DEF SingleEntries
  <2> QED
    BY <2>1, <2>2, <2>3
<1> QED
  BY <1>1, <1>2, TypeCorrect, RegisterInvariant, PTL DEF Spec

\* A queue whose slots all hold an entry, no two the same, has an entry for every kind.
LEMMA FullQueueHasAll ==
    ASSUME TypeOK, SingleEntries, setupDone,
           \A i \in Positions : processQueue[i] # DEFAULT_QUEUE_VALUE,
           NEW kind \in Kinds
    PROVE  Queued(kind)
<1> SUFFICES ASSUME ~Queued(kind) PROVE FALSE
  OBVIOUS
<1> DEFINE Others == Kinds \ {kind}
<1>1. processQueue \in [Positions -> Others]
  BY DEF TypeOK, Queued
<1>2. /\ IsFiniteSet(Positions) /\ IsFiniteSet(Others)
      /\ Cardinality(Others) < Cardinality(Positions)
  BY SlotForEveryKind
<1> HIDE DEF Others
<1>3. \E i, j \in Positions : i # j /\ processQueue[i] = processQueue[j]
  BY <1>1, <1>2, FS_PigeonHole
<1> QED
  BY <1>3 DEF SingleEntries

\* In a queue whose entries are those from the head up to the tail, a kind that is not in it
\* finds the slot at the tail free.
LEMMA TailIsFree ==
    ASSUME TypeOK, SingleEntries, setupDone, Aligned, NEW kind \in Kinds, ~Queued(kind)
    PROVE  processQueue[processQueueTail] = DEFAULT_QUEUE_VALUE
<1>1. PICK n \in 0 .. TYPES_OF_DATA :
         /\ processQueueTail = (processQueueHead + n) % TYPES_OF_DATA
         /\ \A i \in Positions : processQueue[i] # DEFAULT_QUEUE_VALUE <=> Ahead(i) < n
  BY DEF Aligned
<1>2. processQueueHead \in Positions /\ processQueueTail \in Positions
  BY DEF TypeOK
<1>3. CASE n = TYPES_OF_DATA
  <2>1. \A i \in Positions : processQueue[i] # DEFAULT_QUEUE_VALUE
    BY <1>1, <1>2, <1>3, TailIsAhead
  <2> QED
    BY <2>1, FullQueueHasAll
<1>4. CASE n < TYPES_OF_DATA
  <2>1. Ahead(processQueueTail) = n
    BY <1>1, <1>2, <1>4, TailIsAhead
  <2>2. ~ (n < n)
    OBVIOUS
  <2> QED
    BY <1>1, <1>2, <2>1, <2>2
<1>5. n = TYPES_OF_DATA \/ n < TYPES_OF_DATA
  BY SlotForEveryKind
<1> QED
  BY <1>3, <1>4, <1>5

\* As long as the head has not run past the tail an entry leaves the queue only by being
\* served, whatever comes in and whenever, for every number of kinds.
THEOREM AlignedQueueLosesNothing == Spec => AlignedLosesNothing
<1> DEFINE Leaves == \A kind \in Kinds :
                        Queued(kind) /\ ~Queued(kind)' =>
                            /\ processQueue[processQueueHead] = kind
                            /\ processQueueHead' = Following(processQueueHead)
<1>1. TypeOK /\ RegisterInv /\ SingleEntries /\ [Next]_vars =>
         [setupDone /\ Aligned => Leaves]_vars
  <2> SUFFICES ASSUME TypeOK, RegisterInv, SingleEntries, [Next]_vars, setupDone, Aligned,
                      NEW kind \in Kinds, Queued(kind), ~Queued(kind)'
               PROVE  /\ processQueue[processQueueHead] = kind
                      /\ processQueueHead' = Following(processQueueHead)
    OBVIOUS
  <2>0. /\ processQueue \in [Positions -> Kinds \cup {DEFAULT_QUEUE_VALUE}]
        /\ processQueueHead \in Positions /\ processQueueTail \in Positions
    BY DEF TypeOK
  <2>1. PICK i \in Positions : processQueue[i] = kind
    BY DEF Queued
  <2>2. CASE UNCHANGED queue
    BY <2>2 DEF queue, Queued
  <2>3. ASSUME NEW new \in Kinds, ~Queued(new), insertQueue(new) PROVE FALSE
    <3>1. processQueue' = [processQueue EXCEPT ![processQueueTail] = new]
      BY <2>3 DEF insertQueue
    <3>2. i # processQueueTail
      BY <2>1, <2>3, TailIsFree, KindNames
    <3>3. processQueue'[i] = kind
      BY <2>0, <2>1, <3>1, <3>2
    <3> QED
      BY <3>3 DEF Queued
  <2>4. ASSUME NEW served, NEW failed, RemoveHead(served, failed)
        PROVE  /\ processQueue[processQueueHead] = kind
               /\ processQueueHead' = Following(processQueueHead)
    <3>1. /\ processQueue' = [processQueue EXCEPT ![processQueueHead] = DEFAULT_QUEUE_VALUE]
          /\ processQueueHead' = Following(processQueueHead)
      BY <2>4 DEF RemoveHead
    <3>2. processQueue'[i] # kind
      BY DEF Queued
    <3>3. i = processQueueHead
      BY <2>0, <2>1, <3>1, <3>2
    <3> QED
      BY <2>1, <3>1, <3>3
  <2> QED
    BY <2>2, <2>3, <2>4, QueueChanges
<1>2. Spec => [][setupDone /\ Aligned => Leaves]_vars
  BY <1>1, TypeCorrect, RegisterInvariant, SingleEntriesInvariant, PTL DEF Spec
<1> QED
  BY <1>2 DEF AlignedLosesNothing
=============================================================================
