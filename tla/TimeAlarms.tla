------------------------------ MODULE TimeAlarms ------------------------------
(***************************************************************************)
(* The alarm pool of libraries/TimeAlarms, the scheduler every sketch uses. *)
(* A pool is a function from slot numbers to alarms; the operators are the  *)
(* library's methods, written as functions from a pool to the next pool.    *)
(*                                                                          *)
(* One-shot alarms count down in ticks of the seconds clock.  A repeating   *)
(* alarm has a period of minutes, long against everything else that happens *)
(* in a sketch, so when it is due is left open: it may trigger in any       *)
(* service pass, or not.                                                    *)
(***************************************************************************)
EXTENDS Naturals

CONSTANT dtNBR_ALARMS   \* slots in the pool: 6 on AVR, 12 on the ESP8266

ASSUME PoolAssumption == dtNBR_ALARMS \in Nat \ {0}

Slots == 0 .. dtNBR_ALARMS - 1

\* The id create() returns when it has no slot to give: 255 in the library, here
\* the first number that is not a slot.
dtINVALID_ALARM_ID == dtNBR_ALARMS

NoHandler == "none"

\* A slot of type dtNotAllocated.
NotAllocated == [handler |-> NoHandler, isOneShot |-> FALSE, left |-> 0]

\* An alarm whose handler is in H and whose time to go is at most `longest` ticks.
AlarmsOf(H, longest) ==
    [handler : H \cup {NoHandler}, isOneShot : BOOLEAN, left : 0 .. longest]

-----------------------------------------------------------------------------
isAllocated(pool, id) == id \in Slots /\ pool[id].handler # NoHandler

Unallocated(pool) == {s \in Slots : ~isAllocated(pool, s)}

Full(pool) == Unallocated(pool) = {}

Lowest(S) == CHOOSE s \in S : \A t \in S : s <= t

\* create(): the lowest free slot, and no slot at all in a full pool.
createdId(pool) == IF Full(pool) THEN dtINVALID_ALARM_ID ELSE Lowest(Unallocated(pool))

create(pool, handler, isOneShot, ticks) ==
    IF Full(pool) THEN pool
    ELSE [pool EXCEPT ![createdId(pool)] =
              [handler |-> handler, isOneShot |-> isOneShot, left |-> ticks]]

timerOnce(pool, ticks, handler) == create(pool, handler, TRUE, ticks)

timerRepeat(pool, handler) == create(pool, handler, FALSE, 0)

\* A daily alarm is not created before the clock has been set.
dailyId(pool, clockSet) == IF clockSet THEN createdId(pool) ELSE dtINVALID_ALARM_ID

alarmRepeat(pool, clockSet, handler) ==
    IF clockSet THEN create(pool, handler, FALSE, 0) ELSE pool

\* free(): ids that are not allocated, dtINVALID_ALARM_ID among them, are ignored;
\* nothing checks who created the alarm.
free(pool, id) == IF isAllocated(pool, id) THEN [pool EXCEPT ![id] = NotAllocated] ELSE pool

-----------------------------------------------------------------------------
ElapseUnchecked(pool) == [s \in Slots |-> [pool[s] EXCEPT !.left = @ - 1]]

\* One second passes.
Elapse(pool) ==
    [s \in Slots |-> IF pool[s].left = 0 THEN pool[s] ELSE [pool[s] EXCEPT !.left = @ - 1]]

\* now() >= nextTrigger: a one-shot whose time has come must trigger when the service
\* pass looks at its slot; a repeating alarm may.
MustTrigger(pool, s) == isAllocated(pool, s) /\ pool[s].isOneShot /\ pool[s].left = 0

MayTrigger(pool, s) == isAllocated(pool, s) /\ (pool[s].isOneShot => pool[s].left = 0)

\* What serviceAlarms() does to a slot before it calls the handler.
Trigger(pool, s) == IF pool[s].isOneShot THEN free(pool, s) ELSE pool
=============================================================================
