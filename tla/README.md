# A verification project for mycode_v2.1.1

The repository is a home automation network of Arduino and ESP8266 nodes built on
MySensors: motors that fill tanks, level sensors, lights, meters, a display, and a node
that talks to the ThingSpeak cloud. These modules model the nodes' own code (the `.ino`
sketches) on top of the two pieces of library that decide in which order it runs.

## How a sketch runs

Every sketch has one thread and no preemption other than interrupt handlers, yet nearly
all of its difficulties are those of concurrency, since handlers nest:

* `main()` (`MyMainDefault.cpp`) calls `_process()` and `loop()` in turn; `_process()`
  calls `receive()` for each message that has come.
* `wait()`, which follows almost every `send()`, calls `_process()` until its time is over
  (`MySensorsCore.cpp:480`). So `receive()` is entered again in the middle of a handler,
  of itself too, and the handler goes on with state that others have changed.
* `Alarm.delay()` (`TimeAlarms.cpp:189`) runs the alarms that are due but receives nothing.
  The pass over the alarms is not reentrant; the handlers it calls may wait, and receive.
* `create()` takes the lowest free slot of six (twelve on the ESP8266). In a full pool it
  returns an id that is none, which no sketch looks at. `free()` frees whatever is in the
  slot. Ids are zero before they are set, and zero is a slot.
* Presentation and registration come before `setup()`, with waits, in which messages are
  handled by a sketch that is not set up.

## Inventory

| component | state | operations | talks to | properties that make it correct |
|---|---|---|---|---|
| Alarm pool (`TimeAlarms`) | slots | create, free, service pass | every sketch | one owner for a slot, due alarms run, a full pool harms nobody |
| Call structure (`MySensors` core) | the C stack | main, wait, presentation, registration | every sketch | waits end, passes are not restarted |
| Borewell motor | two pulsed relays, `borewellOn`, two level flags | commands, keys, level reports, pulse ends | Tank 01, cloud node, gateway | full tank stops the pump, no relay stays energised, flag = starter |
| Sump motor | relay, `sumpMotorOn`, four level flags | commands, keys, level reports | Tanks 02 and 03, cloud node, gateway | no overflow, no dry sump, flag = relay |
| LCD | backlight, its flag, handshake | readings, flag, two alarms | controller, cloud node, voltage nodes, meters | the light goes out, the node asks until answered |
| Cloud node (`Thingspeak`) | upload queue, channel data, commands, sun alarms | readings, uploads, fetch and send commands, sunrise, sunset and night alarms | every node that reports, lights, motors, LCD | what is stored is uploaded, commands are sent, lights switch with the sun |
| Tank 01, Tank 02 (polling; interrupt versions) | levels, report flags, acknowledgements | poll or interrupt, report, acknowledge, retry, ad hoc switch | motor nodes, controller | the motor node comes to know the level |
| Tank 03 | none | heartbeat | | |
| Balcony, gate light | relay, duration, two-stage handshake | switch, request, retry | cloud node, staircase light | the last command wins, both stages end |
| Staircase light | relay, handshake | follow the balcony light, ask at most 30 times | balcony light | follows |
| Battery, solar voltage; test sensor | divider values, handshake of up to five stages, peers | request, retry, measure | each other, LCD, cloud node | every stage ends, each measurement alarm exists once |
| Inverter meters | pulse count, totals | interrupt, restore, report, reset | controller, LCD, cloud node | no pulse lost or counted twice |
| Soil sensor | threshold, valve, sensor power | measure, switch | controller | the valve follows the threshold |
| Temperature node, repeaters, gateway, firmware, bench sketches, tap motor | none of interest | | | |
| `MyNodes.h` | constants | | | |
| MySensors transport and other libraries | vendored | | | routing recovers |

Hard behaviour, component by component, is listed with its line in `PROJECT.json` under
`hazards`; for those that no property covers a note says why.

## Modules

    TimeAlarms ─┬─ Runtime ─┬─ Borewell ───┬─ MCBorewell
                │           │              └─ BorewellProofs
                │           ├─ SumpMotor ──┬─ MCSumpMotor
                │           │              └─ SumpMotorProofs
                │           ├─ LCD ────────┬─ MCLCD
                │           │              └─ LCDProofs
                │           ├─ Thingspeak ─┬─ MCThingspeak
                │           │              └─ ThingspeakProofs
                │           ├─ Tank ───────┬─ MCTank
                │           │              └─ LevelControl ─┬─ MCLevelControl
                │           │                               └─ TankProofs
                │           └─ Requests ─┬─ SunAlarms ─┬─ MCSunAlarms
                │                        │             └─ SunAlarmsProofs
                │                        └─ Light ── LightControl ─┬─ MCLightControl
                │                                                  └─ LightProofs
                ├─ StaircaseLight
                └─ RuntimeProofs (used by all the other proofs)

    PumpGuard     implemented by Borewell: INSTANCE ... WITH a refinement mapping
    LevelControl  Tank, extended by PumpGuard (an INSTANCE) and the radio
    LightControl  Light, extended by StaircaseLight (an INSTANCE) and the radio

LevelControl and LightControl extend the module of the node whose stack they need, and
their own initial states, steps and types have names that begin with `Control`; so an
invariant of the node is an invariant of the composition, by one theorem for each.

**TimeAlarms** has the methods of the alarm library as functions from a pool to a pool:
`create`, `free`, `timerOnce`, `timerRepeat`, and what may and must trigger. One-shots
count down. When a repeating alarm is due is left open, since its period is long against
all else, which allows every real schedule and some that are not. So a safety property
holds whatever the periods are, and liveness gets what a period gives by fairness.

**Runtime** is the call structure. `stack` holds a frame for each call that has not
returned, and a frame says at which wait it stands. One action takes a handler from one
wait to the next. Messages come where `CanReceive` says: on top of any wait but not in
`Alarm.delay()`. `PassReaches(s)` is the service pass that comes to slot `s`: alarms that
must trigger cannot be skipped, repeating ones may.

**Borewell**: `turnOnBorewell` and `turnOffBorewell` are the functions up to their wait;
`toggleOnRelay` and `toggleOffRelay` end a pulse and `ToggleSets` is their last part. The
four tests behind a level report are `StartIfLow`, `TellIfOn`, `CutOffIfHigh` and
`TellIfOff`: each ends at a wait or falls through to the next, and the `...WaitEnds`
actions go on from there. Two variables are not in the program: `pulse`, the relay
energised last, which is what a latching starter goes by, and `anomalies`, the places
where the code itself gives up a property: a pulse before `setup()`, a pulse during
another, a pulse with no alarm to end it. `Restart` is a loss of power at any point: all
is forgotten but what the starter does.

**PumpGuard** is what a motor node owes to its tank, with four Booleans for its state: it
begins no work by starting the pump under a tank it holds for full, holds the tank for
what it was told last, comes to rest only with the pump stopped if the tank is full, and
does come to rest. `ImplementsPumpGuard` in Borewell is the refinement: `resting` is that no
handler is in progress, `running` that the ON relay was pulsed last.

**SumpMotor**: `SwitchRelay` and `SwitchEnds` are the two halves of `turnOnSumpMotor()`
and `turnOffSumpMotor()`, with both waits between them. `tripped` stands for the four level
flags. `told` is what the controller was last told of the motor: `sumpMotorRelayMessage`
and `tank02Message` both go to it, as neither is given a destination, and have the same
sensor. `anomalies` records switches inside a switch, reports handled inside a commanded
switch, and what has misled the controller: a report inside a switch, which tells the flag
while the relay is ahead of it, the presentation of a running motor, and what was told
before `setup()`.

**LCD** has the backlight and the handshake for `lcdBackLightFlag`. `asked` and `unheard`
are history: a request was sent, and the last one got no alarm. Readings are not told
apart, and the count of requests, which only decides about a message to the controller,
is left out.

**Thingspeak** has the queue of uploads. A channel has data or has not; a field holds a
command or does not. `insertQueue` and `RemoveHead` are the queue as written: the tail
overwrites what it meets and the head advances over empty slots. `dropped` is history.
This sketch waits with `wait()` in `presentation()`, so it receives there. The sun alarms
and the clock are in SunAlarms; the cloud's own copy of the commands is left out.

**Tank** is the polling node on Tank 01. `loop` goes from wait to wait: `SendUpdate` takes a
flag down and tells the controller, `SentWaitEnds` tells the motor node what the level is
by then, and `LowToldWaitEnds` and `HighToldWaitEnds` set the alarm that asks for the
answer (`CheckAckAlarm`). A level report is abstracted to whether the switch is at its
level. Not in the program are `atLevel`, the water, which moves at any time, and the
history `told` and `crowded`: what the last report said, and which reports found the pool
full. `withRepeating` has the `timerRepeat()` calls of `setup()` as one function of
the pool, so that it can be proved about. The messages for a switch of the motor that the
node passes on are left out, and so is `borewellOn`, which nothing in the sketch reads.
The node on Tank 02 is the same sketch but for one repeating alarm, which repeats the
values to the controller and waits: `RepeatingHandlers` has the handlers of these alarms.

**LevelControl** puts Tank, with its high level switch, and PumpGuard together. `report` is
the level report on its way, a later one takes its place; `answer` says that an answer is
on its way, which carries the level it answers, but the tank node does not look at that.
Messages are lost when sent, come late, and come again. `astray` is history: the tank node
has taken an answer for that of a later report, or a node has restarted since.

**Requests** is how a sketch gets its settings from the controller: for each a flag that
makes `loop()` ask, an alarm that raises the flag again, and all of them with their
alarm's id in one `requestTimer`. `cancelled` is history: settings whose alarm was freed by
that id while it was not theirs. `Check` gives a setting the handler of its alarm.

**SunAlarms** is the other half of the cloud node's sketch: the clock, the times of sunrise
and sunset and the daily alarms. A time is a number of quarters of an hour past what the
controller sent; so an offset that is added twice shows. `due` is history: the time for
which a trigger alarm was created; `overlapped`, that answers were handled inside one
another. The slots that the queue of uploads has for good are left out of the pool.

**Light** is the balcony light and the gate light, which differ in two messages that
LightControl has. `heard` is what stands in the buffer of received messages while the
first status waits to be read from it; `ordered` and `blurred` are history: the last
status, and whether another message has overwritten it.

**StaircaseLight** receives only in its main loop, so that it needs no stack.
**LightControl** puts it together with Light and a radio as in LevelControl: `asked` is a
question on its way, `told` a status. The gate light and the controller tell the staircase
light too.

`MC*` modules are what TLC runs on; the `.cfg` files give the constants.

## Runs

| run | constants | shows |
|---|---|---|
| `borewell` | 3 slots, 2 nested calls, pulses of one tick, both sensors | the node implements PumpGuard; relays have an end and are released; flag, starter and messages agree |
| `sump_motor` | 2 slots, 3 nested calls, four sensors | flag = relay, pump protected, the pump stops; the controller is told what the relay is, and learns it in the end whatever has misled it |
| `lcd` | 3 slots, 3 nested calls, light of two ticks, retry after one | the light has an end and goes out, the node keeps asking, the heartbeat stays |
| `thingspeak` | 5 slots, 3 nested calls, 3 channels, 2 fields | data and commands that wait have their entry, nothing is lost while head and tail are in order |
| `thingspeak_live` | 3 slots, 3 nested calls, 2 channels, 1 field | every entry leaves the queue |
| `thingspeak_levels` | as `thingspeak` | the first finding below |
| `tank` | 3 slots, 2 nested calls, the low level switch | a report without an answer is repeated, unless the pool was full; the motor node is told of a changed level |
| `tank02` | 4 slots, 3 nested calls, the high level switch, one alarm that repeats the values | no reading is lost, also of those made inside a report |
| `level_control` | 3 slots, 2 nested calls, the high level switch | the pump stops over a full tank; the two nodes come to agree, apart from answers gone astray |
| `sun_alarms` | 8 slots, 2 nested calls, sunrise may be answered by 0 | the times are asked for, trigger alarms are set for the right time and tell it, the pool suffices |
| `sun_triggers` | as `sun_alarms` | the second finding below |
| `lights` | 3 slots, 2 nested calls | the relay is what was said last, settings are asked for, the staircase light follows |

Bounds. `MaxDepth` bounds the frames on the stack when a new call begins; an alarm's
handler that waits adds one. Two let a handler be entered within a handler, with another
behind it when the first has returned; three within an alarm handler too.
`borewell` was also run at three for its invariants, and `sump_motor` at four; the
theorems hold for every depth. In the motor nodes two slots are held by repeating alarms,
so with three the pool is full at the second pulse, as it is at the fifth with six:
nothing in the code counts slots. The LCD needs three: its heartbeat, its request, and one
more (`PoolSizeAssumption`; with two, the light may stay on). The queue of the cloud node
uses five slots in `setup()`; with three the last two, on which the queue does not
depend, are not had. Three channels and the fetching make four kinds for four slots of the
queue, of which one kind is never queued, as in the program with nine. The tank node has
one alarm that reads its switches for the program's two or three, so that its repeating
alarms leave one or two slots of three or four; the program has two. Its two intervals are
one tick each: which of two alarms is first is open anyway. In `tank` one switch stands for
both, since each has variables, an alarm and a part of `loop()` of its own and what the
other does is a wait to it; the theorems are for both. A reading is taken inside a report's
wait only if a presentation is handled there and the pass of its `Alarm.delay()` runs the
alarm, which is why `tank02` is three deep. `sun_alarms` has the twelve slots of the ESP8266
without the four of the queue. A light has three alarms at most. Ticks are bounded by the
one-shots' lengths, times of the sun by the depth (`TimesOfSun`), and there is no other
counter.

Fairness. The clock ticks. Every wait ends, since it is bounded in time and the time goes
by while nested handlers run: strong fairness for each depth of the stack. `loop()` makes a
service pass in each turn of `main()`, whatever arrives in between: strong fairness for
its beginning; weak fairness for its end. In the cloud node alarms that repeat are due
again and again, and in the tank node the one that reads the switches: strong fairness.
In the sump motor node the alarm of `sendUpdate()` is due every quarter of an hour: strong
fairness for its running. In the tank node a turn of `loop()` begins again and again
whatever arrives: strong fairness for `loop`. Where nodes restart, at some time the power stays on. Of messages,
keys and uploads nothing is assumed within a node. In the compositions the radio is fair to
what is sent again and again: a report (`level_control`; of the answers nothing is
assumed), a question and its answer (`lights`). What the code does to deserve it are the
retry alarm and the polling in the tank node, and in the staircase light the half-hourly
question. `StaircaseFollows` moreover assumes that the gate light and the controller, which
tell the staircase light on their own, stop at some time, and that requests for a
presentation do, for in it the balcony light tells OFF.

Deadlock is checked in every run.

## What the runs found

* `thingspeak_levels`: readings of the tanks are stored in `waterLevelChannelData`, but
  `Thingspeak.ino:327`, `:331` and `:335` queue `SEND_STATIC_DATA`, and nothing ever queues
  `SEND_WATER_LEVEL_DATA`. The channel of the comment "water level logging channel"
  (`:40`) is never written.
* `sun_triggers`: `requestTimer`, `sunriseTimer` and `sunsetTimer` are 0 before their first
  alarm, and 0 is a slot. At an ordinary start the answer for sunrise finds
  `isAllocated(sunriseTimer)` true of the heartbeat, frees it and gets its slot; the answer
  for sunset then finds the same of `sunsetTimer` and frees the sunrise alarm. Until the
  controller sends the time of sunrise again the lights are not switched off at sunrise,
  and there is no heartbeat.
* Exceptions that properties had to be given, each reached by a short trace when it is
  taken out:
  - `FlagFollowsPulse`: an OFF pulse begun before the ON pulse is over leaves the order of
    the two toggles, not of the pulses, to decide about `borewellOn`; so does a pulse before
    `setup()`, which clears the flag. `MessageFollowsPulse` has the same exceptions.
  - `FlagFollowsRelay`: a switch begun inside another one leaves it to the outer one, which
    ends last, to set the flag.
  - `ToldFollowsRelay`: what misleads the controller (see SumpMotor above), and switches
    inside a switch. `ControllerLearns` has no exception.
  - `RelayHasToggle`: a pulse begun with a full pool leaves its relay energised.
  - `PumpProtected`: the report of a full tank that comes inside a commanded
    `turnOnSumpMotor()` does not stop the motor; the next report does. Nor need it stop when
    switches overlap, where the flag that the test goes by is not the relay. `PumpStops` has
    the same exceptions.
  - `DataIsQueued`: after a failed upload, or when the tail has overwritten the entry, data
    waits for the next reading of its channel. The head runs past the tail in the first
    minute in which the queue is empty, so this is the normal state of the queue, and
    `AlignedLosesNothing` speaks of the time before. `CommandIsQueued` has the exception too.
  - `RetryComes`: a report whose alarm found the pool full is not repeated. One that says
    "at the level" is, since the node flags it at each reading; one that says "no longer"
    is lost for good if the radio loses it.
  - `LevelGetsTold`: presentations asked for before `setup()` leave an alarm each, and
    `setup()` may find no slot for the ones that read the switches.
  - `NotFullIsLearnt`: an answer to the report before, come late, is taken for the answer to
    the last report; if that was lost, and said "no longer full", the motor node goes on
    holding the tank for full and refuses to start. "Full" itself is flagged at each
    reading, which is why `FullTankStopsPump` has no exception.
  - `AsksOn` of the cloud node and the lights: an answer frees the alarm whose id is in
    `requestTimer`, be it the other request's; then nobody asks again.
  - `QuarterPast`: two answers for one sun handled inside one another add the offset twice.
  - `TriggerTellsItsTime`: an answer 0 leaves the alarm as it is, and when that goes off the
    sketch subtracts the offset from 0.
  - `RelayObeysLast`: the first status is read from the receive buffer behind a wait; if a
    message was received in that wait the light does what that message happens to say.
  - `AsksOn` of the display: a request that found the pool full has no alarm to repeat it.
  - `DifferenceIsMended`: as for `NotFullIsLearnt`, a report that found the pool full, and
    a node that has restarted since.
  - `HeartbeatGoesOn`: a flag that arrives before the first request frees slot 0, the
    heartbeat.

## Proofs

All the invariants the runs check, and the two action properties, are theorems: for every
size of the pool, every depth of nesting and every set of sensors, channels or answers that
the assumptions allow. With them go the safety part of the refinement of PumpGuard and the
two theorems that a node put together with others does only what it may do alone.

`RuntimeProofs` has the lemmas they share.

* The pool: `create` fills the lowest free slot and touches no other (`HasCreated`), `free`
  and `Trigger` empty one slot at most, time changes no handler; an alarm just made is
  pending, and nothing takes the alarm of a handler that it does not run or free.
* The stack: what a call, a return, a change of the running frame and a service pass leave
  of the frames below. Most handlers only move frames, and `StackStep(from, to)` is any such
  step, which takes frames off the points `from` and puts new ones at the points `to`; of it
  is shown once what stays typed, what stays in progress, and that it keeps the order of
  starting (`BootStays`). A proof then looks at the few steps that its own points appear in.
* Starting: `SetupAtBottom` says that where `BootOrder` holds `setup()` runs once, with an
  empty stack behind it.

`BorewellProofs`:

* `TypeCorrect` is inductive as it stands.
* `OverflowSafe` is not: the property speaks of the idle node only. `CutOffInv` says what
  holds in between: if the tank is full and the relay pulsed last is ON, somewhere on the
  stack a report stands at a wait after which the test for the full tank is still to come.
  The guards of commands and keys make it inductive together with the types. Starting at a
  low level is no exception: that frame then stands before the test. When the last frame
  returns nobody is left to carry the obligation, so the pulse was OFF.
* `RelayEndComes`: an energised relay keeps its toggle through allocations, since `create`
  takes free slots only, and through a service pass, which frees no alarm but the one it
  runs; a toggle that runs releases its relay in the same step.
* `FlagIsTrue`, from `BootInv`, `OneShotInv`, `EarlyInv` and `ToggleInv`: as long as no pulse
  overlapped another, one toggle at a time is pending or running, and it is that of the last
  pulse; so when none is, the flag was set by the right one. `EarlyInv` and `BootInv` carry
  this over `setup()`, which clears the flag and the relays. `MessageIsTrue` rests on it:
  `MessageInv` says that `tank01Message` is sent with what the flag is and the flag set where
  it is sent, so that between pulses it has said what the starter was told.
* `KeepsPumpGuard`, `Spec => Guard!Spec`: each action of the node is mapped to an action of
  PumpGuard. A report is a `Hear`; a command or a key a `SetOut`; what is done with frames
  left is `Work` or a stutter; a step that takes the last frame is `ComeToRest`, which is
  where `OverflowCutOff` is needed. The fairness of PumpGuard, that the node comes to rest,
  is checked by TLC.

`SumpMotorProofs`:

* `FlagTellsTheRelay`: between the relay and the flag lie two waits. `SwitchInv` says that,
  unless a switch was begun in another, one frame is between them and the relay is as that
  frame has left it; its return sets the flag to the same.
* `MotorIsStopped`: `StopInv` says that a running motor that must stop has a frame that
  stands before the test which stops it, or the switch begun by such a test. What a
  command begins is `BlindInv`'s: a motor that must stop while a command is starting it is
  the named exception. Reports put their own frame on the stack, so that it is there when
  the flags change.
* `ControllerIsTold`: a switch tells what it does to the relay, but the tests behind a report
  tell the flag. A test that finds no switch below it on the stack finds the flag at what the
  relay is (`FlagInv`), and one whose own switch ends finds the relay where `SwitchInv` has
  it. `TypeCorrect` is inductive as it stands.

`LCDProofs`: `PoolInv` says who is in the pool. The heartbeat repeats and has one alarm, the
request has at most one, and whatever else is there puts the light out. So a pool of three
that is full has an alarm that puts the light out: hence `LightWillGoOut` with
`PoolSizeAssumption`. The stale `backlightTimer` may be the id of another light's alarm but
never of the heartbeat's, which gives the action property `HeartbeatIsNotFreed`.
`FlagIsAskedFor` follows with it.

`ThingspeakProofs`: `DataHasItsEntry` and `CommandHasItsEntry` are inductive with the types:
what leaves the queue is served, dropped or overwritten. `AlignedQueueLosesNothing` is about
the positions of a ring of any size: `SingleEntries` and `RegisterInv` give one entry for each
kind, so that a queue with no free slot holds every kind (a pigeonhole); then a kind that is
inserted finds one, and where entries lie from head to tail that is the slot at the tail.
That this is so needs the slots to be as many as the kinds, as `TYPES_OF_DATA` is, and each
kind to differ from the value of an empty slot (`Thingspeak.ino:135`).

`TankProofs` is about Tank and LevelControl:

* `TypeCorrect` needs `TypeOK` only; `StartInv`: before `setup()`, which clears the flags and
  the answers, no report is under way and nothing has been told.
* `NoReadingLost`: between the flag that is taken down and the second message nobody has been
  told. `CurrentInv` adds what stands for the reading in between: a frame of the report on
  the stack that has not sent its second message (`ReportUnderWay`). Every step that changes
  `tankAt` flags the switch, and the step that takes the frame off that point tells the
  current value.
* `UnansweredIsRepeated`: `RetryInv` adds the report that has not set its alarm
  (`AlarmToCome`). An alarm that runs either finds the answer or flags the report, and no
  step of another handler frees it.
* `NodesKeepTheirSpecs`: a step of the composition is one of Tank or leaves its variables,
  and is one of PumpGuard or leaves its own. So what was proved of Tank holds in it.
* `DifferencesAreMended`: `AnswerInv` says that an answer
  to the last report shows that the motor node heard that report and that no older one is
  on its way; where there is no answer `RetryComes` has the alarm or the flag.

`LightProofs` is about Light and LightControl:

* `RelayIsObedient`: `StatusInv` says that the first status is read by one frame at most, and
  `RelayInv` that while that waits the buffer stands for the relay.
* `SettingsAreAskedFor`: an answer frees the alarm that has the id in `requestTimer`; what it
  frees that is another setting's is counted in `cancelled`, and nothing else loses an alarm.
  It needs `StatusInv`, since between the answer and its reading nothing is asked for.
* `BalconyKeepsItsSpec` carries both over to LightControl (`LightIsObedient`), and
  `ControlTypeCorrect` has the types of all three parts. The staircase light's pool is that
  of an instance; `StairPool` shows that its operators are the same functions.

`SunAlarmsProofs`:

* `TypeCorrect` is more than it seems: a time grows by one offset whenever a handler of an
  answer returns. `SecondsInv` bounds it by the place of the frames: a frame of a sun's answer
  at place i of the stack leaves room for i more offsets, and a new frame is at place
  `MaxDepth` at most, with a fresh time.
* `TriggersAreQuarterPast`: `QuarterInv` says that of a sun whose answers did not overlap one
  frame is on the stack at most, and that its alarm is right or that frame is about to
  create it anew.
* `TriggersAreTrue` is inductive with the types: the offset is added, the alarm created and
  the id kept in one step, and what changes the time otherwise is an answer being handled
  or zero.
* `TimesAreAskedFor`: as in `LightProofs`, but a trigger's stale id may free a request's alarm
  as well, and the settings begin at `setup()`.
* `SevenAlarmsSuffice`, for every pool of seven slots or more: `PoolInv` says that no handler
  has two alarms. A trigger's alarm is where `sunTimer` says, which is freed before the next
  one is created; a request's flag goes up when its alarm is gone; sunset's flag goes up in
  one more place, when sunrise is known, but before that it has no alarm; the heartbeat is created in `setup()` and the night trigger once behind it. There
  are six handlers.

The assumptions are those of the constants, each named in the module that declares it and
evaluated by TLC in the runs: at least one slot and one call (`PoolAssumption`,
`DepthAssumption`), intervals of one tick or more, sensors and handlers among those of the
sketch, three slots for the LCD, finitely many channels and fields. Two kinds of theorems
have one more, stated with them: those of LevelControl that its tank has a high level switch
(`High \in Sensors`), and `SevenAlarmsSuffice`. The node has twelve slots less the four of the
queue of uploads.

Only model-checked is liveness: `RelaysReleased`, `PumpStops`, `ControllerLearns`, `LightGoesOut`,
`EntryComesUp`, `LevelGetsTold`, `FullTankStopsPump`, `NotFullIsLearnt`, `StaircaseFollows`
and the fairness in `ImplementsPumpGuard`. Liveness under fairness, `ENABLED`, and induction
over data are out of the prover's reach; no module uses a `RECURSIVE` operator, so that each
can be proved about. Strengthened invariants were checked by TLC before they were proved, on
the constants of the run of their component (`PoolInv` of SunAlarms with seven slots).

## Not modelled

* Most of the repository's lines are libraries kept beside the sketches: MySensors with its
  drivers and examples, FastLED, UIPEthernet, the ThingSpeak client, displays, radios. The
  sketches are under six thousand lines, many of them versions of one another. What decides
  the order in which sketches run is modelled from the libraries; what moves bytes is not.
* Battery and solar voltage nodes. Four handshakes over one `requestTimer` with two more
  alarm ids in a pool of six have more than eight million states at a depth of two, and
  what would have to be cut away, stale ids and the arrangement of the pool, is what is in
  question. The handshake is `Requests`, which is checked for two and two settings.
* Inverter meters: an interrupt handler adds to a count of four bytes that other code reads
  and writes byte by byte. Any value may come of it.
* Tank nodes with interrupts: older versions, in which the level is toggled at each edge and
  never read; which edges are missed is the hardware's.
* Soil sensor, temperature node, Tank 03, repeaters, gateway, firmware: no state in which
  one handler could disturb another. `TapMotor.ino` does not compile.
* The placing and formatting of readings on the LCD, the values of settings that nothing
  reads, and messages that only inform the controller, but for `tank01Message` and what the
  sump motor node tells of its motor.
* The cloud's own copy of the commands, which is a server's.

## What is left

1. A refinement for the sump motor node, which implements less than PumpGuard: a report
   handled inside a commanded switch stops nothing. With it the composition of the second
   tank with its motor node.
2. That LightControl is a refinement of a light and its follower, as far as safety goes: what
   the staircase light was told last is what the balcony light was at some time.
3. The state machine of the transport, should the network's own recovery be of interest.
