------------------------------- MODULE Runtime -------------------------------
(***************************************************************************)
(* How a sketch runs.  There is one thread: main() calls loop(), which ends *)
(* in Alarm.delay(), and then _process(), which calls receive().  But       *)
(* handlers nest: MySensors' wait() keeps calling _process(), so a message  *)
(* that arrives while a handler waits is handled on top of it, and the      *)
(* handler goes on only when the nested one has returned; Alarm.delay()     *)
(* runs due alarms but receives nothing.                                    *)
(*                                                                          *)
(* The C stack is `stack`: a frame for each call that has not returned,     *)
(* the running one last, with the point at which it waits.  A handler runs  *)
(* from one wait to the next in one step.                                   *)
(***************************************************************************)
EXTENDS TimeAlarms, Sequences

CONSTANT MaxDepth       \* bound: frames on the stack when a new call begins

ASSUME DepthAssumption == MaxDepth \in Nat \ {0}

VARIABLES
    alarms,             \* the alarm pool
    stack               \* the calls in progress

\* The points all sketches share.  pass: in serviceAlarms(), before slot `slot`.
\* present: in an Alarm.delay() of presentation(); presented: in one behind the message
\* that says the motor is off, where a sketch's model is about that.  delay: in the one
\* of loop(), where it is told from the turn of main() that led to it.  config: in the
\* wait for the controller's configuration, before presentation().  register: in the
\* wait for the registration response, after it.  tail: in a wait after which nothing is
\* left to do.
CorePoints == {"pass", "present", "presented", "delay", "config", "register", "tail"}

Frame(point) == [at |-> point, slot |-> 0]

Frames(Points) == [at : Points, slot : 0 .. dtNBR_ALARMS]

\* With no call in progress main() is in its loop.
Top == IF stack = <<>> THEN Frame("loop") ELSE stack[Len(stack)]
At(point) == Top.at = point
Idle == At("loop")
InProgress(Points) == \E i \in DOMAIN stack : stack[i].at \in Points

Call(point) == Append(stack, Frame(point))
Goto(point) == [stack EXCEPT ![Len(stack)] = Frame(point)]
Return == SubSeq(stack, 1, Len(stack) - 1)

CanNest == Len(stack) < MaxDepth

\* _process() runs between two loop()s and in every wait(), never in Alarm.delay().
CanReceive == CanNest /\ Top.at \notin {"pass", "present", "presented", "delay"}

\* main() comes to its loop behind setup(); the node registers once, below all other calls.
BootOrder(calls, setUp) ==
    /\ ~setUp => calls # <<>> /\ calls[1].at \in {"config", "present", "presented", "register"}
    /\ \A i \in DOMAIN calls : calls[i].at = "register" => i = 1 /\ ~setUp

\* An alarm with handler h is in the pool.
Pending(h) == \E s \in Slots : alarms[s].handler = h

-----------------------------------------------------------------------------
Second ==
    /\ alarms' = Elapse(alarms)
    /\ UNCHANGED stack

\* Alarm.delay() starts a pass over the slots, unless one is under way below.
ServiceAlarms(Delays) ==
    /\ CanNest
    /\ Top.at \in Delays
    /\ ~InProgress({"pass"})
    /\ stack' = Call("pass")
    /\ UNCHANGED alarms

PassMissesLast(s) ==
    /\ At("pass")
    /\ s >= Top.slot
    /\ s < dtNBR_ALARMS - 1
    /\ MayTrigger(alarms, s)
    /\ \A t \in Slots : Top.slot <= t /\ t < s => ~MustTrigger(alarms, t)

\* The pass has come to slot s, having found nothing that must trigger before it.
PassReaches(s) ==
    /\ At("pass")
    /\ s >= Top.slot
    /\ MayTrigger(alarms, s)
    /\ \A t \in Slots : Top.slot <= t /\ t < s => ~MustTrigger(alarms, t)

AdvanceTwice(s) == [stack EXCEPT ![Len(stack)].slot = s + 2]

\* The pass goes on behind slot s, at once or when the handler's wait at `point` is over.
Advance(s) == [stack EXCEPT ![Len(stack)].slot = s + 1]
AdvanceAndCall(s, point) == Append(Advance(s), Frame(point))

EndPass ==
    /\ At("pass")
    /\ \A t \in Slots : Top.slot <= t => ~MustTrigger(alarms, t)
    /\ stack' = Return
    /\ UNCHANGED alarms

TailReturns ==
    /\ At("tail")
    /\ stack' = Return
    /\ UNCHANGED alarms

\* presentNode(): the answer to the configuration request came or did not come, and
\* presentation() starts.
ConfigWaitEnds ==
    /\ At("config")
    /\ stack' = Goto("present")
    /\ UNCHANGED alarms
=============================================================================
