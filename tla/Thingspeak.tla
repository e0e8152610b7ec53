------------------------------ MODULE Thingspeak ------------------------------
(***************************************************************************)
(* The cloud node's queue of uploads.  A reading that arrives is stored in  *)
(* the data of a channel, and the kind of upload it calls for is put into   *)
(* processQueue, unless it is there; once a minute processThingspeakData()  *)
(* serves the slot at the head.  The commands people have left in the cloud *)
(* are fetched every five minutes and wait in the same queue to be sent.    *)
(*                                                                          *)
(* The head moves on whether there was an entry in its slot or not, and the *)
(* tail does not wait for it.                                               *)
(*                                                                          *)
(* A channel either has data or has not; a field of the incoming channel    *)
(* either holds a command, one that is sent to a node, or does not.  The    *)
(* sun alarms and the clock are left out.                                   *)
(***************************************************************************)
EXTENDS Runtime, FiniteSets

CONSTANTS
    Channels,           \* the channels data is uploaded to, by the kind of upload
    Fields              \* the fields of the incoming channel that hold commands

Fetch == "FETCH_AND_PROCESS_DATA"

DEFAULT_QUEUE_VALUE == "empty"

\* The kinds are numbered 0 to 8 and the fetching is one of them; an empty slot holds 127.
ASSUME ChannelsAssumption ==
    /\ {"SEND_STATIC_DATA", "SEND_WATER_LEVEL_DATA"} \subseteq Channels
    /\ Channels \cap {Fetch, DEFAULT_QUEUE_VALUE} = {}
    /\ IsFiniteSet(Channels)

ASSUME FieldsAssumption == Fields \subseteq Nat /\ IsFiniteSet(Fields)

Kinds == Channels \cup {Fetch}

TYPES_OF_DATA == Cardinality(Kinds)

VARIABLES
    setupDone,                  \* setup() has run
    processQueue, processQueueHead, processQueueTail,
    channelData,                \* the channels with data to upload
    incoming,                   \* the fields of incomingChannelData with a command
    dropped                     \* not in the program: the kinds whose last entry was
                                \* overwritten, or whose last upload failed

queue == <<processQueue, processQueueHead, processQueueTail>>
vars == <<alarms, stack, setupDone, queue, channelData, incoming, dropped>>

Positions == 0 .. TYPES_OF_DATA - 1

Handlers == {"heartbeat", "processThingspeakData", "insertFetchAndProcessDataRequest",
             "getTimeFromGateway"}

\* presentation: in a wait() of presentation().  command: in the wait of
\* processIncomingData() behind a command.
Points == CorePoints \cup {"presentation", "command"}

TypeOK ==
    /\ alarms \in [Slots -> AlarmsOf(Handlers, 1)]
    /\ stack \in Seq(Frames(Points))
    /\ setupDone \in BOOLEAN
    /\ processQueue \in [Positions -> Kinds \cup {DEFAULT_QUEUE_VALUE}]
    /\ processQueueHead \in Positions
    /\ processQueueTail \in Positions
    /\ channelData \in SUBSET Channels
    /\ incoming \in SUBSET Fields
    /\ dropped \in SUBSET Kinds

\* The globals are zero, which in the queue is SEND_STATIC_DATA.
Init ==
    /\ alarms = [s \in Slots |-> NotAllocated]
    /\ stack = <<Frame("config")>>
    /\ setupDone = FALSE
    /\ processQueue = [i \in Positions |-> "SEND_STATIC_DATA"]
    /\ processQueueHead = 0
    /\ processQueueTail = 0
    /\ channelData = Channels
    /\ incoming = {}
    /\ dropped = {}

-----------------------------------------------------------------------------
(* The queue *)

Queued(kind) == \E i \in Positions : processQueue[i] = kind

FollowingUnwrapped(position) == position + 1

Following(position) == (position + 1) % TYPES_OF_DATA

insertQueueUnchecked(kind) ==
    /\ processQueue' = [processQueue EXCEPT ![processQueueTail] = kind]
    /\ processQueueTail' = Following(processQueueTail)
    /\ dropped' = (dropped \cup {processQueue[processQueueTail]})
                      \ {kind, DEFAULT_QUEUE_VALUE}

insertQueue(kind) ==
    \/ /\ ~Queued(kind)
       /\ processQueue' = [processQueue EXCEPT ![processQueueTail] = kind]
       /\ processQueueTail' = Following(processQueueTail)
       /\ dropped' = (dropped \cup {processQueue[processQueueTail]})
                         \ {kind, DEFAULT_QUEUE_VALUE}
    \/ /\ Queued(kind)
       /\ UNCHANGED <<processQueue, processQueueTail, dropped>>

\* The last two lines of processThingspeakData().  `served` is what was at the head when
\* it began, which is no longer there if a reading came in a wait and found the tail at
\* the head.
HeadStaysOnFailure(served, failed) ==
    /\ \/ /\ failed = {}
          /\ processQueue' = [processQueue EXCEPT ![processQueueHead] = DEFAULT_QUEUE_VALUE]
          /\ processQueueHead' = Following(processQueueHead)
       \/ /\ failed # {}
          /\ UNCHANGED <<processQueue, processQueueHead>>
    /\ UNCHANGED <<processQueueTail, dropped>>

RemoveHead(served, failed) ==
    /\ processQueue' = [processQueue EXCEPT ![processQueueHead] = DEFAULT_QUEUE_VALUE]
    /\ processQueueHead' = Following(processQueueHead)
    /\ dropped' = (dropped \cup failed \cup ({processQueue[processQueueHead]} \ {served}))
                      \ {DEFAULT_QUEUE_VALUE}
    /\ UNCHANGED processQueueTail

-----------------------------------------------------------------------------
(* receive() *)

KindOfStatic(channel) == "SEND_STATIC_DATA"

\* A level is stored for its own channel, but static data is what it queues.
KindOf(channel) ==
    IF channel = "SEND_WATER_LEVEL_DATA" THEN "SEND_STATIC_DATA" ELSE channel

\* Voltages and powers are passed on to the display, with a wait behind.
ReceiveReading(channel) ==
    /\ CanReceive
    /\ channelData' = channelData \cup {channel}
    /\ insertQueue(KindOf(channel))
    /\ stack' \in {stack, Call("tail")}
    /\ UNCHANGED <<alarms, setupDone, processQueueHead, incoming>>

-----------------------------------------------------------------------------
(* Alarm handlers *)

RunHandler(s, handler) ==
    /\ PassReaches(s)
    /\ alarms[s].handler = handler
    /\ alarms' = Trigger(alarms, s)

\* Nothing to upload, or an upload that the cloud takes or does not take.
Upload(s) ==
    /\ RunHandler(s, "processThingspeakData")
    /\ LET kind == processQueue[processQueueHead] IN
          /\ kind = Fetch => incoming = {}
          /\ \/ /\ channelData' = channelData \ {kind}
                /\ RemoveHead(kind, {})
             \/ /\ kind \in channelData
                /\ UNCHANGED channelData
                /\ RemoveHead(kind, {kind})
    /\ stack' = Advance(s)
    /\ UNCHANGED <<setupDone, incoming>>

\* processIncomingData() sends the first command and waits.
SendFirstCommand(s) ==
    /\ RunHandler(s, "processThingspeakData")
    /\ processQueue[processQueueHead] = Fetch
    /\ incoming # {}
    /\ stack' = AdvanceAndCall(s, "command")
    /\ UNCHANGED <<setupDone, queue, channelData, incoming, dropped>>

CommandWaitEndsFirstOnly ==
    /\ At("command")
    /\ incoming' = incoming \ {Lowest(incoming)}
    /\ stack' = Return
    /\ RemoveHead(Fetch, {})
    /\ UNCHANGED <<alarms, setupDone, channelData>>

\* Behind the wait the command is cleared; the next one is sent, or the queue moves on.
CommandWaitEnds ==
    /\ At("command")
    /\ incoming' = incoming \ {Lowest(incoming)}
    /\ \/ /\ incoming' # {}
          /\ UNCHANGED <<stack, queue, dropped>>
       \/ /\ incoming' = {}
          /\ stack' = Return
          /\ RemoveHead(Fetch, {})
    /\ UNCHANGED <<alarms, setupDone, channelData>>

\* The fields without a command are read, of which some have one now.
insertFetchAndProcessDataRequest(s) ==
    /\ RunHandler(s, "insertFetchAndProcessDataRequest")
    /\ \E read \in SUBSET Fields : incoming' = incoming \cup read
    /\ \/ incoming' # {} /\ insertQueue(Fetch)
       \/ incoming' = {} /\ UNCHANGED <<processQueue, processQueueTail, dropped>>
    /\ stack' = Advance(s)
    /\ UNCHANGED <<setupDone, processQueueHead, channelData>>

heartbeatOrTime(s) ==
    /\ \E handler \in {"heartbeat", "getTimeFromGateway"} : RunHandler(s, handler)
    /\ stack' = Advance(s)
    /\ UNCHANGED <<setupDone, queue, channelData, incoming, dropped>>

-----------------------------------------------------------------------------
(* Presentation and setup.  This sketch waits, and receives, in presentation(). *)

sketch == <<setupDone, queue, channelData, incoming, dropped>>

ReceivePresentationRequest ==
    /\ CanReceive
    /\ stack' = Call("config")
    /\ UNCHANGED <<alarms, sketch>>

PresentingNode ==
    /\ At("config")
    /\ stack' = Goto("presentation")
    /\ UNCHANGED <<alarms, sketch>>

PresentationEnds ==
    /\ At("presentation")
    /\ stack' = IF setupDone \/ Len(stack) > 1 THEN Return ELSE Goto("register")
    /\ UNCHANGED <<alarms, sketch>>

setup ==
    /\ At("register")
    /\ stack' = Return
    /\ setupDone' = TRUE
    /\ LET beat  == timerRepeat(alarms, "heartbeat")
           every == timerRepeat(beat, "processThingspeakData")
           fetch == timerRepeat(every, "insertFetchAndProcessDataRequest")
           once  == timerOnce(fetch, 1, "insertFetchAndProcessDataRequest")
       IN  alarms' = timerRepeat(once, "getTimeFromGateway")
    /\ processQueue' = [i \in Positions |-> DEFAULT_QUEUE_VALUE]
    /\ processQueueHead' = 0
    /\ processQueueTail' = 0
    /\ channelData' = {}
    /\ incoming' = {}
    /\ dropped' = {}

SecondPasses == Second /\ UNCHANGED sketch
PassBegins   == ServiceAlarms({"loop"}) /\ UNCHANGED sketch
PassEnds     == EndPass /\ UNCHANGED sketch
TailWaitEnds == TailReturns /\ UNCHANGED sketch

WaitEnds == CommandWaitEnds \/ TailWaitEnds \/ PresentingNode \/ PresentationEnds \/ setup

processThingspeakData(s) == Upload(s) \/ SendFirstCommand(s)

Next ==
    \/ \E channel \in Channels : ReceiveReading(channel)
    \/ ReceivePresentationRequest
    \/ WaitEnds
    \/ PassBegins \/ PassEnds
    \/ \E s \in Slots : \/ processThingspeakData(s)
                        \/ insertFetchAndProcessDataRequest(s)
                        \/ heartbeatOrTime(s)
    \/ SecondPasses

Spec == Init /\ [][Next]_vars

\* As for every sketch waits are over in time and loop() makes a service pass in every
\* turn; the alarms that repeat are due again and again.
Fairness ==
    /\ WF_vars(SecondPasses)
    /\ SF_vars(PassBegins)
    /\ WF_vars(PassEnds)
    /\ SF_vars(\E s \in Slots : processThingspeakData(s))
    /\ SF_vars(\E s \in Slots : insertFetchAndProcessDataRequest(s))
    /\ \A depth \in 1 .. MaxDepth + 1 : SF_vars(Len(stack) = depth /\ WaitEnds)

FairSpec == Spec /\ Fairness

-----------------------------------------------------------------------------
(* The inductive strengthening of AlignedLosesNothing *)

\* setup() runs once, from the bottom of the stack.
RegisterInv == \A i \in DOMAIN stack : stack[i].at = "register" => i = 1 /\ ~setupDone

\* A kind has one entry in the queue, or none.
SingleEntries ==
    setupDone =>
        \A i, j \in Positions :
            processQueue[i] = processQueue[j] /\ processQueue[i] # DEFAULT_QUEUE_VALUE => i = j

-----------------------------------------------------------------------------
(* Properties *)

\* Data that waits for its upload has its entry in the queue, but for the levels, whose
\* kind is never queued, and for what was dropped: data whose upload failed, or whose
\* entry was overwritten, waits for the next reading.
DataIsQueued ==
    setupDone =>
        \A channel \in channelData \ {"SEND_WATER_LEVEL_DATA"} :
            Queued(channel) \/ channel \in dropped

\* How many places a position is ahead of the head.
Ahead(position) == (TYPES_OF_DATA + position - processQueueHead) % TYPES_OF_DATA

\* The entries are those from the head up to the tail.
Aligned ==
    \E n \in 0 .. TYPES_OF_DATA :
        /\ processQueueTail = (processQueueHead + n) % TYPES_OF_DATA
        /\ \A i \in Positions : processQueue[i] # DEFAULT_QUEUE_VALUE <=> Ahead(i) < n

\* As long as the head has not run past the tail an entry leaves the queue only by being
\* served, whatever comes in and whenever: there is a slot for every kind.
AlignedLosesNothing ==
    [][setupDone /\ Aligned =>
         \A kind \in Kinds :
            Queued(kind) /\ ~Queued(kind)' =>
                /\ processQueue[processQueueHead] = kind
                /\ processQueueHead' = Following(processQueueHead)]_vars

\* Every entry comes to the head and is served, or is overwritten: the head does not stop.
EntryComesUp ==
    \A kind \in Kinds : setupDone /\ Queued(kind) ~> ~Queued(kind)

\* A command fetched from the cloud waits with the fetching queued for it, all of its
\* waits for other commands long, unless that entry was overwritten.
CommandIsQueued ==
    setupDone /\ incoming # {} => Queued(Fetch) \/ Fetch \in dropped

\* The data of the water level channel is waiting to be logged: its upload is queued.
WaterLevelQueued ==
    setupDone /\ "SEND_WATER_LEVEL_DATA" \in channelData \ dropped =>
        Queued("SEND_WATER_LEVEL_DATA")
=============================================================================
