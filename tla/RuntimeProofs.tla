---------------------------- MODULE RuntimeProofs ----------------------------
(***************************************************************************)
(* What the proofs about the sketches need to know of the alarm pool and of *)
(* the stack of calls.                                                      *)
(***************************************************************************)
EXTENDS Runtime, SequenceTheorems, WellFoundedInduction, TLAPS

\* A non-empty set of numbers has a least element, the slot create() picks.
LEMMA LowestIsLeast ==
    ASSUME NEW S, S \subseteq Nat, S # {}
    PROVE  Lowest(S) \in S /\ \A t \in S : Lowest(S) <= t
<1> DEFINE Below == {ss \in Nat \X Nat : ss[1] < ss[2]}
<1>1. IsWellFoundedOn(Below, Nat)
  BY NatLessThanWellFounded, Zenon DEF OpToRel
<1>2. \E x \in S : \A y \in S : ~ (<<y, x>> \in Below)
  <2> HIDE DEF Below
  <2> QED BY <1>1, WFMin, Zenon
<1>3. PICK x \in S : \A y \in S : ~ (<<y, x>> \in Below)
  BY <1>2
<1>4. ASSUME NEW y \in S
      PROVE  x <= y
  <2>1. x \in Nat /\ y \in Nat
    OBVIOUS
  <2>2. ~ (y < x)
    BY <1>3, <2>1
  <2> QED
    BY <2>1, <2>2
<1> QED
  BY <1>4 DEF Lowest

-----------------------------------------------------------------------------
(* The pool *)

\* create() fills the slot it returns and leaves the others as they are.
LEMMA CreateFillsOneSlot ==
    ASSUME NEW H, NEW longest \in Nat,
           NEW pool \in [Slots -> AlarmsOf(H, longest)],
           NEW h \in H, NEW once \in BOOLEAN, NEW ticks \in 0 .. longest
    PROVE  /\ create(pool, h, once, ticks) \in [Slots -> AlarmsOf(H, longest)]
           /\ Full(pool) => create(pool, h, once, ticks) = pool
           /\ ~Full(pool) =>
                /\ createdId(pool) \in Slots
                /\ pool[createdId(pool)].handler = NoHandler
                /\ create(pool, h, once, ticks)[createdId(pool)] =
                     [handler |-> h, isOneShot |-> once, left |-> ticks]
           /\ \A s \in Slots : s # createdId(pool) =>
                create(pool, h, once, ticks)[s] = pool[s]
<1>1. CASE Full(pool)
  BY <1>1 DEF create, createdId
<1>2. CASE ~Full(pool)
  <2> DEFINE id == createdId(pool)
  <2>1. id \in Unallocated(pool)
    <3>1. Unallocated(pool) \subseteq Nat
      BY DEF Unallocated, Slots
    <3>2. Unallocated(pool) # {}
      BY <1>2 DEF Full
    <3> QED
      BY <1>2, <3>1, <3>2, LowestIsLeast DEF createdId
  <2>2. id \in Slots /\ pool[id].handler = NoHandler
    BY <2>1 DEF Unallocated, isAllocated
  <2>3. [handler |-> h, isOneShot |-> once, left |-> ticks] \in AlarmsOf(H, longest)
    BY DEF AlarmsOf
  <2> HIDE DEF id
  <2>4. create(pool, h, once, ticks) =
          [pool EXCEPT ![id] = [handler |-> h, isOneShot |-> once, left |-> ticks]]
    BY <1>2 DEF create, id
  <2> QED
    BY <1>2, <2>2, <2>3, <2>4 DEF id
<1> QED
  BY <1>1, <1>2

\* What becomes of a pool in which an alarm is created: nothing if it is full, and else one
\* slot that was empty has the alarm.
HasCreated(new, pool, h, once) ==
    /\ createdId(pool) \in Slots \cup {dtINVALID_ALARM_ID}
    /\ Full(pool) => new = pool
    /\ \A s \in Slots :
          \/ new[s] = pool[s] /\ s # createdId(pool)
          \/ /\ s = createdId(pool) /\ ~Full(pool) /\ pool[s].handler = NoHandler
             /\ new[s].handler = h /\ new[s].isOneShot = once

LEMMA TimerFillsOneSlot ==
    ASSUME NEW H, NEW longest \in Nat,
           NEW pool \in [Slots -> AlarmsOf(H, longest)],
           NEW h \in H, NEW ticks \in 0 .. longest, NEW once \in BOOLEAN
    PROVE  /\ create(pool, h, once, ticks) \in [Slots -> AlarmsOf(H, longest)]
           /\ HasCreated(create(pool, h, once, ticks), pool, h, once)
<1> DEFINE new == create(pool, h, once, ticks)
<1>1. /\ new \in [Slots -> AlarmsOf(H, longest)]
      /\ Full(pool) => new = pool
      /\ ~Full(pool) =>
           /\ createdId(pool) \in Slots
           /\ pool[createdId(pool)].handler = NoHandler
           /\ new[createdId(pool)] = [handler |-> h, isOneShot |-> once, left |-> ticks]
      /\ \A s \in Slots : s # createdId(pool) => new[s] = pool[s]
  BY CreateFillsOneSlot
<1> HIDE DEF new
<1>2. CASE Full(pool)
  <2>1. createdId(pool) = dtINVALID_ALARM_ID /\ dtINVALID_ALARM_ID \notin Slots
    BY <1>2, PoolAssumption DEF createdId, dtINVALID_ALARM_ID, Slots
  <2> QED
    BY <1>1, <1>2, <2>1 DEF HasCreated, new
<1>3. CASE ~Full(pool)
  BY <1>1, <1>3 DEF HasCreated, new
<1> QED
  BY <1>2, <1>3

LEMMA TimerOnceFillsOneSlot ==
    ASSUME NEW H, NEW longest \in Nat,
           NEW pool \in [Slots -> AlarmsOf(H, longest)],
           NEW h \in H, NEW ticks \in 0 .. longest
    PROVE  /\ timerOnce(pool, ticks, h) \in [Slots -> AlarmsOf(H, longest)]
           /\ HasCreated(timerOnce(pool, ticks, h), pool, h, TRUE)
<1> DEFINE Fills(once) == /\ create(pool, h, once, ticks) \in [Slots -> AlarmsOf(H, longest)]
                          /\ HasCreated(create(pool, h, once, ticks), pool, h, once)
<1>1. ASSUME NEW once \in BOOLEAN PROVE Fills(once)
  BY TimerFillsOneSlot
<1>2. Fills(TRUE)
  <2> HIDE DEF Fills
  <2> QED
    BY <1>1
<1> QED
  BY <1>2 DEF timerOnce

LEMMA TimerRepeatFillsOneSlot ==
    ASSUME NEW H, NEW longest \in Nat,
           NEW pool \in [Slots -> AlarmsOf(H, longest)], NEW h \in H
    PROVE  /\ timerRepeat(pool, h) \in [Slots -> AlarmsOf(H, longest)]
           /\ HasCreated(timerRepeat(pool, h), pool, h, FALSE)
<1> DEFINE Fills(once) == /\ create(pool, h, once, 0) \in [Slots -> AlarmsOf(H, longest)]
                          /\ HasCreated(create(pool, h, once, 0), pool, h, once)
<1>1. 0 \in 0 .. longest
  OBVIOUS
<1>2. ASSUME NEW once \in BOOLEAN PROVE Fills(once)
  BY <1>1, TimerFillsOneSlot
<1>3. Fills(FALSE)
  <2> HIDE DEF Fills
  <2> QED
    BY <1>2
<1> QED
  BY <1>3 DEF timerRepeat

\* An alarm that is freed leaves its slot empty; an id that is none frees nothing.
LEMMA FreeEmptiesOneSlot ==
    ASSUME NEW H, NEW longest \in Nat,
           NEW pool \in [Slots -> AlarmsOf(H, longest)], NEW id
    PROVE  /\ free(pool, id) \in [Slots -> AlarmsOf(H, longest)]
           /\ \A s \in Slots : \/ free(pool, id)[s] = pool[s] /\ (s = id => pool[s].handler = NoHandler)
                               \/ s = id /\ free(pool, id)[s] = NotAllocated
<1>1. NotAllocated \in AlarmsOf(H, longest)
  BY DEF NotAllocated, AlarmsOf
<1> QED
  BY <1>1 DEF free, isAllocated

\* Time changes no handler.
LEMMA ElapseKeepsHandlers ==
    ASSUME NEW H, NEW longest \in Nat,
           NEW pool \in [Slots -> AlarmsOf(H, longest)]
    PROVE  /\ Elapse(pool) \in [Slots -> AlarmsOf(H, longest)]
           /\ \A s \in Slots : /\ Elapse(pool)[s].handler = pool[s].handler
                               /\ Elapse(pool)[s].isOneShot = pool[s].isOneShot
BY DEF Elapse, AlarmsOf

\* A slot that triggers either stays as it is or is free afterwards.
LEMMA TriggerFreesOneSlot ==
    ASSUME NEW H, NEW longest \in Nat,
           NEW pool \in [Slots -> AlarmsOf(H, longest)], NEW s \in Slots
    PROVE  /\ Trigger(pool, s) \in [Slots -> AlarmsOf(H, longest)]
           /\ \A t \in Slots : t # s => Trigger(pool, s)[t] = pool[t]
           /\ \/ Trigger(pool, s)[s] = pool[s] /\ ~pool[s].isOneShot
              \/ Trigger(pool, s)[s].handler = NoHandler
<1>1. NotAllocated \in AlarmsOf(H, longest) /\ NotAllocated.handler = NoHandler
  BY DEF NotAllocated, AlarmsOf
<1>2. CASE ~pool[s].isOneShot
  BY <1>2 DEF Trigger
<1>3. CASE pool[s].isOneShot
  <2>1. Trigger(pool, s) = free(pool, s)
    BY <1>3 DEF Trigger
  <2> QED
    BY <1>1, <2>1 DEF free, isAllocated
<1> QED
  BY <1>2, <1>3

\* A new one-shot is in the pool, unless that was full, and takes no alarm out.
LEMMA TimerOncePends ==
    ASSUME NEW H, NEW longest \in Nat, alarms \in [Slots -> AlarmsOf(H, longest)],
           NEW h \in H, NEW ticks \in 0 .. longest,
           alarms' = timerOnce(alarms, ticks, h)
    PROVE  /\ \A g : g # NoHandler /\ Pending(g) => Pending(g)'
           /\ Full(alarms) \/ Pending(h)'
<1> DEFINE Filled(once) ==
             LET new == create(alarms, h, once, ticks)
             IN  /\ Full(alarms) => new = alarms
                 /\ ~Full(alarms) =>
                      /\ createdId(alarms) \in Slots
                      /\ alarms[createdId(alarms)].handler = NoHandler
                      /\ new[createdId(alarms)].handler = h
                 /\ \A s \in Slots : s # createdId(alarms) => new[s] = alarms[s]
<1>1. Filled(TRUE)
  <2>1. ASSUME NEW once \in BOOLEAN PROVE Filled(once)
    <3> DEFINE new == create(alarms, h, once, ticks)
    <3>1. /\ Full(alarms) => new = alarms
          /\ ~Full(alarms) =>
               /\ createdId(alarms) \in Slots
               /\ alarms[createdId(alarms)].handler = NoHandler
               /\ new[createdId(alarms)] =
                    [handler |-> h, isOneShot |-> once, left |-> ticks]
          /\ \A s \in Slots : s # createdId(alarms) => new[s] = alarms[s]
      BY CreateFillsOneSlot
    <3> QED
      BY <3>1
  <2> HIDE DEF Filled
  <2> QED BY <2>1
<1>2. alarms' = create(alarms, h, TRUE, ticks)
  BY DEF timerOnce
<1>3. ASSUME ~Full(alarms) PROVE Pending(h)'
  BY <1>1, <1>2, <1>3 DEF Pending
<1>4. ASSUME NEW g, g # NoHandler, NEW s \in Slots, alarms[s].handler = g
      PROVE  Pending(g)'
  <2>1. Full(alarms) \/ s # createdId(alarms)
    BY <1>1, <1>4
  <2>2. alarms'[s] = alarms[s]
    BY <1>1, <1>2, <2>1
  <2> QED
    BY <1>4, <2>2 DEF Pending
<1> QED
  BY <1>3, <1>4 DEF Pending

\* A slot that triggers takes no other handler's alarm out of the pool.
LEMMA TriggerKeepsOthers ==
    ASSUME NEW H, NEW longest \in Nat, alarms \in [Slots -> AlarmsOf(H, longest)],
           NEW s \in Slots, alarms' = Trigger(alarms, s),
           NEW h, alarms[s].handler # h, Pending(h)
    PROVE  Pending(h)'
<1>1. \A t \in Slots : t # s => Trigger(alarms, s)[t] = alarms[t]
  BY TriggerFreesOneSlot
<1> QED
  BY <1>1 DEF Pending

\* Time takes no alarm out of the pool.
LEMMA TimeKeepsPending ==
    ASSUME NEW H, NEW longest \in Nat, alarms \in [Slots -> AlarmsOf(H, longest)],
           alarms' = Elapse(alarms), NEW h, Pending(h)
    PROVE  Pending(h)'
<1>1. \A s \in Slots : Elapse(alarms)[s].handler = alarms[s].handler
  BY ElapseKeepsHandlers
<1> QED
  BY <1>1 DEF Pending

\* An alarm is pending still when an id that is not its own is freed.
LEMMA FreeKeepsOthers ==
    ASSUME NEW H, NEW longest \in Nat, alarms \in [Slots -> AlarmsOf(H, longest)],
           NEW h, h # NoHandler, NEW id, alarms' = free(alarms, id),
           ~ (isAllocated(alarms, id) /\ alarms[id].handler = h)
    PROVE  Pending(h) => Pending(h)'
BY DEF free, isAllocated, Pending, NotAllocated

-----------------------------------------------------------------------------
(* The stack *)

\* Call() adds a frame on top.
LEMMA CallAddsFrame ==
    ASSUME NEW P, NEW point \in P, stack \in Seq(Frames(P))
    PROVE  /\ Call(point) \in Seq(Frames(P))
           /\ Len(Call(point)) = Len(stack) + 1
           /\ \A i \in 1 .. Len(stack) : Call(point)[i] = stack[i]
           /\ Call(point)[Len(stack) + 1].at = point
<1>1. Frame(point) \in Frames(P) /\ Frame(point).at = point
  BY PoolAssumption DEF Frame, Frames
<1> QED
  BY <1>1 DEF Call

\* Goto() replaces the top frame.
LEMMA GotoReplacesTop ==
    ASSUME NEW P, NEW point \in P, stack \in Seq(Frames(P)), stack # <<>>
    PROVE  /\ Goto(point) \in Seq(Frames(P))
           /\ Len(Goto(point)) = Len(stack)
           /\ \A i \in 1 .. Len(stack) - 1 : Goto(point)[i] = stack[i]
           /\ Goto(point)[Len(stack)].at = point
<1>1. Frame(point) \in Frames(P) /\ Frame(point).at = point
  BY PoolAssumption DEF Frame, Frames
<1>2. Len(stack) \in 1 .. Len(stack)
  BY EmptySeq
<1> QED
  BY <1>1, <1>2, ExceptSeq DEF Goto

\* Return removes the top frame.
LEMMA ReturnRemovesTop ==
    ASSUME NEW P, stack \in Seq(Frames(P)), stack # <<>>
    PROVE  /\ Return \in Seq(Frames(P))
           /\ Len(Return) = Len(stack) - 1
           /\ \A i \in 1 .. Len(stack) - 1 : Return[i] = stack[i]
<1>1. Len(stack) \in Nat \ {0}
  BY EmptySeq
<1> DEFINE n == Len(stack) - 1
<1>2. n \in Nat /\ \A i \in 1 .. n : stack[i] \in Frames(P)
  BY <1>1, ElementOfSeq
<1>3. /\ SubSeq(stack, 1, n) \in Seq(Frames(P))
      /\ Len(SubSeq(stack, 1, n)) = IF 1 <= n THEN n - 1 + 1 ELSE 0
      /\ \A i \in 1 .. n - 1 + 1 : SubSeq(stack, 1, n)[i] = stack[1 + i - 1]
  <2> HIDE DEF n
  <2> QED BY <1>2, SubSeqProperties
<1>4. Return = SubSeq(stack, 1, n)
  BY DEF Return
<1>5. Len(Return) = n
  <2>1. (IF 1 <= n THEN n - 1 + 1 ELSE 0) = n
    <3> HIDE DEF n
    <3> QED BY <1>2
  <2> QED
    BY <1>3, <1>4, <2>1, Zenon
<1>6. ASSUME NEW i \in 1 .. n
      PROVE  Return[i] = stack[i]
  <2>1. i \in 1 .. n - 1 + 1 /\ 1 + i - 1 = i
    BY <1>2
  <2> QED
    BY <1>3, <1>4, <2>1, Zenon
<1> QED
  BY <1>3, <1>4, <1>5, <1>6, Zenon

\* Advance() moves the pass on top to another slot.
LEMMA AdvanceKeepsPoints ==
    ASSUME NEW P, stack \in Seq(Frames(P)), stack # <<>>, NEW s \in Slots
    PROVE  /\ Advance(s) \in Seq(Frames(P))
           /\ Len(Advance(s)) = Len(stack)
           /\ \A i \in 1 .. Len(stack) : Advance(s)[i].at = stack[i].at
<1> DEFINE top == stack[Len(stack)]
           moved == [top EXCEPT !.slot = s + 1]
<1>1. Len(stack) \in 1 .. Len(stack)
  BY EmptySeq
<1>2. top \in Frames(P)
  BY <1>1, ElementOfSeq
<1>3. moved \in Frames(P) /\ moved.at = top.at
  <2>1. s + 1 \in 0 .. dtNBR_ALARMS
    BY PoolAssumption DEF Slots
  <2> QED
    BY <1>2, <2>1 DEF Frames
<1>4. Advance(s) = [stack EXCEPT ![Len(stack)] = moved]
  BY DEF Advance
<1> HIDE DEF moved
<1> QED
  BY <1>1, <1>3, <1>4, ExceptSeq

\* AdvanceAndCall() adds a frame above the pass it moves.
LEMMA AdvanceAndCallAddsFrame ==
    ASSUME NEW P, NEW point \in P, stack \in Seq(Frames(P)), stack # <<>>, NEW s \in Slots
    PROVE  /\ AdvanceAndCall(s, point) \in Seq(Frames(P))
           /\ Len(AdvanceAndCall(s, point)) = Len(stack) + 1
           /\ \A i \in 1 .. Len(stack) : AdvanceAndCall(s, point)[i].at = stack[i].at
           /\ AdvanceAndCall(s, point)[Len(stack) + 1].at = point
<1>1. Frame(point) \in Frames(P) /\ Frame(point).at = point
  BY PoolAssumption DEF Frame, Frames
<1>2. /\ Advance(s) \in Seq(Frames(P))
      /\ Len(Advance(s)) = Len(stack)
      /\ \A i \in 1 .. Len(stack) : Advance(s)[i].at = stack[i].at
  BY AdvanceKeepsPoints
<1> QED
  BY <1>1, <1>2 DEF AdvanceAndCall

\* At a point of a handler the stack is not empty, and the point is that of its top.
LEMMA AtIsTop ==
    ASSUME NEW P, stack \in Seq(Frames(P)), NEW point, point # "loop", At(point)
    PROVE  /\ stack # <<>>
           /\ Len(stack) \in 1 .. Len(stack)
           /\ stack[Len(stack)].at = point
<1>1. stack # <<>>
  BY DEF At, Top, Frame
<1> QED
  BY <1>1, EmptySeq DEF At, Top

-----------------------------------------------------------------------------
(* Which handlers are in progress *)

\* A call puts its own point in progress and takes none out.
LEMMA InProgressAfterCall ==
    ASSUME NEW P, NEW Q, NEW point \in P, stack \in Seq(Frames(P)), stack' = Call(point)
    PROVE  InProgress(Q)' <=> InProgress(Q) \/ point \in Q
<1>1. /\ Len(stack') = Len(stack) + 1
      /\ \A i \in 1 .. Len(stack) : stack'[i] = stack[i]
      /\ stack'[Len(stack) + 1].at = point
      /\ stack' \in Seq(Frames(P))
  BY CallAddsFrame
<1> QED
  BY <1>1 DEF InProgress

\* A service pass that runs a handler puts the handler in progress and takes none out.
LEMMA InProgressAfterAdvanceAndCall ==
    ASSUME NEW P, NEW Q, NEW point \in P, stack \in Seq(Frames(P)), stack # <<>>,
           NEW s \in Slots, stack' = AdvanceAndCall(s, point)
    PROVE  InProgress(Q)' <=> InProgress(Q) \/ point \in Q
<1>1. /\ Len(stack') = Len(stack) + 1
      /\ \A i \in 1 .. Len(stack) : stack'[i].at = stack[i].at
      /\ stack'[Len(stack) + 1].at = point
      /\ stack' \in Seq(Frames(P))
  BY AdvanceAndCallAddsFrame
<1> QED
  BY <1>1 DEF InProgress

\* A pass that only moves on leaves everything in progress as it is.
LEMMA InProgressAfterAdvance ==
    ASSUME NEW P, NEW Q, stack \in Seq(Frames(P)), stack # <<>>,
           NEW s \in Slots, stack' = Advance(s)
    PROVE  InProgress(Q)' <=> InProgress(Q)
<1>1. /\ Len(stack') = Len(stack)
      /\ \A i \in 1 .. Len(stack) : stack'[i].at = stack[i].at
      /\ stack' \in Seq(Frames(P))
  BY AdvanceKeepsPoints
<1> QED
  BY <1>1 DEF InProgress

\* A handler that goes on to another point changes nothing below itself.
LEMMA InProgressAfterGoto ==
    ASSUME NEW P, NEW Q, NEW point \in P, stack \in Seq(Frames(P)), stack # <<>>,
           stack' = Goto(point)
    PROVE  /\ InProgress(Q)' => InProgress(Q) \/ point \in Q
           /\ point \in Q => InProgress(Q)'
           /\ InProgress(Q) /\ stack[Len(stack)].at \notin Q => InProgress(Q)'
<1>1. /\ Len(stack') = Len(stack)
      /\ \A i \in 1 .. Len(stack) - 1 : stack'[i] = stack[i]
      /\ stack'[Len(stack)].at = point
      /\ stack' \in Seq(Frames(P))
  BY GotoReplacesTop
<1>2. Len(stack) \in Nat \ {0}
  BY EmptySeq
<1> QED
  BY <1>1, <1>2 DEF InProgress

\* A handler that returns takes only itself out of progress.
LEMMA InProgressAfterReturn ==
    ASSUME NEW P, NEW Q, stack \in Seq(Frames(P)), stack # <<>>, stack' = Return
    PROVE  /\ InProgress(Q)' => InProgress(Q)
           /\ InProgress(Q) /\ stack[Len(stack)].at \notin Q => InProgress(Q)'
<1>1. /\ Len(stack') = Len(stack) - 1
      /\ \A i \in 1 .. Len(stack) - 1 : stack'[i] = stack[i]
      /\ stack' \in Seq(Frames(P))
  BY ReturnRemovesTop
<1>2. Len(stack) \in Nat \ {0}
  BY EmptySeq
<1> QED
  BY <1>1, <1>2 DEF InProgress

-----------------------------------------------------------------------------
(* The order of a start *)

\* A call on top of another keeps the order.
LEMMA BootCall ==
    ASSUME NEW P, stack \in Seq(Frames(P)), NEW setUp, BootOrder(stack, setUp),
           NEW p \in P \ {"register"}
    PROVE  BootOrder(Call(p), setUp)
<1>1. /\ Len(stack) \in Nat /\ DOMAIN stack = 1 .. Len(stack)
      /\ DOMAIN Call(p) = 1 .. Len(stack) + 1
      /\ \A i \in 1 .. Len(stack) : Call(p)[i] = stack[i]
      /\ Call(p)[Len(stack) + 1].at = p
  BY CallAddsFrame, LenProperties
<1>2. stack # <<>> => 1 \in DOMAIN stack
  BY <1>1, EmptySeq
<1>3. Call(p) # <<>>
  BY <1>1, CallAddsFrame, EmptySeq
<1>4. ASSUME NEW i \in DOMAIN Call(p), Call(p)[i].at = "register" PROVE i = 1 /\ ~setUp
  <2>1. i \in DOMAIN stack
    BY <1>1, <1>4
  <2> QED
    BY <1>1, <1>4, <2>1 DEF BootOrder
<1> HIDE DEF Call
<1> QED
  BY <1>1, <1>2, <1>3, <1>4 DEF BootOrder

\* A pass that moves on, and may run a handler, keeps it.
LEMMA BootAdvance ==
    ASSUME NEW P, stack \in Seq(Frames(P)), stack # <<>>, NEW setUp,
           BootOrder(stack, setUp), NEW s \in Slots
    PROVE  /\ BootOrder(Advance(s), setUp)
           /\ \A p \in P \ {"register"} : BootOrder(AdvanceAndCall(s, p), setUp)
<1>1. /\ Len(stack) \in Nat /\ DOMAIN stack = 1 .. Len(stack) /\ 1 \in DOMAIN stack
  BY LenProperties, EmptySeq
<1>2. /\ Advance(s) \in Seq(Frames(P)) /\ DOMAIN Advance(s) = 1 .. Len(stack)
      /\ \A i \in 1 .. Len(stack) : Advance(s)[i].at = stack[i].at
  BY AdvanceKeepsPoints, LenProperties
<1>3. Advance(s) # <<>>
  BY <1>1, <1>2, EmptySeq
<1>4. BootOrder(Advance(s), setUp)
  BY <1>1, <1>2, <1>3 DEF BootOrder
<1>5. ASSUME NEW p \in P \ {"register"} PROVE BootOrder(AdvanceAndCall(s, p), setUp)
  <2>1. /\ DOMAIN AdvanceAndCall(s, p) = 1 .. Len(stack) + 1
        /\ \A i \in 1 .. Len(stack) : AdvanceAndCall(s, p)[i].at = stack[i].at
        /\ AdvanceAndCall(s, p)[Len(stack) + 1].at = p
    BY AdvanceAndCallAddsFrame, LenProperties
  <2>2. AdvanceAndCall(s, p) # <<>>
    BY <1>1, AdvanceAndCallAddsFrame, EmptySeq
  <2>3. ASSUME NEW i \in DOMAIN AdvanceAndCall(s, p), AdvanceAndCall(s, p)[i].at = "register"
        PROVE  i = 1 /\ ~setUp
    <3>1. i \in DOMAIN stack
      BY <1>1, <2>1, <2>3
    <3> QED
      BY <1>1, <2>1, <2>3, <3>1 DEF BootOrder
  <2> QED
    BY <1>1, <2>1, <2>2, <2>3 DEF BootOrder
<1> QED
  BY <1>4, <1>5

\* A call that goes on to another point keeps it, unless it is the outermost one of a start.
LEMMA BootGoto ==
    ASSUME NEW P, stack \in Seq(Frames(P)), stack # <<>>, NEW setUp,
           BootOrder(stack, setUp), NEW p \in P,
           p = "register" => ~setUp /\ Len(stack) = 1,
           \/ setUp \/ p \in {"present", "presented", "register"}
           \/ stack[Len(stack)].at \notin {"config", "present", "presented", "register"}
    PROVE  BootOrder(Goto(p), setUp)
<1>1. Len(stack) \in 1 .. Len(stack) /\ DOMAIN stack = 1 .. Len(stack) /\ 1 \in DOMAIN stack
  BY LenProperties, EmptySeq
<1>2. /\ DOMAIN Goto(p) = 1 .. Len(stack) /\ Goto(p) # <<>>
      /\ \A i \in 1 .. Len(stack) - 1 : Goto(p)[i] = stack[i]
      /\ Goto(p)[Len(stack)].at = p
  BY <1>1, GotoReplacesTop, LenProperties, EmptySeq
<1>3. \A i \in 1 .. Len(stack) : i # Len(stack) => i \in 1 .. Len(stack) - 1
  <2>1. \A n \in Nat : \A i \in 1 .. n : i # n => i \in 1 .. n - 1
    OBVIOUS
  <2>2. Len(stack) \in Nat
    BY LenProperties
  <2> QED
    BY <2>1, <2>2
<1>4. ASSUME NEW i \in DOMAIN Goto(p), Goto(p)[i].at = "register" PROVE i = 1 /\ ~setUp
  <2>1. CASE i = Len(stack)
    BY <1>2, <1>4, <2>1
  <2>2. CASE i # Len(stack)
    BY <1>1, <1>2, <1>3, <1>4, <2>2 DEF BootOrder
  <2> QED
    BY <2>1, <2>2
<1>5. ASSUME ~setUp PROVE Goto(p)[1].at \in {"config", "present", "presented", "register"}
  <2>1. CASE Len(stack) = 1
    BY <1>2, <1>5, <2>1 DEF BootOrder
  <2>2. CASE Len(stack) # 1
    BY <1>1, <1>2, <1>3, <1>5, <2>2 DEF BootOrder
  <2> QED
    BY <2>1, <2>2
<1> QED
  BY <1>2, <1>4, <1>5 DEF BootOrder

\* A call that returns keeps it, unless it is the outermost one of a start.
LEMMA BootReturn ==
    ASSUME NEW P, stack \in Seq(Frames(P)), stack # <<>>, NEW setUp,
           BootOrder(stack, setUp),
           \/ setUp \/ Len(stack) > 1
           \/ stack[Len(stack)].at \notin {"config", "present", "presented", "register"}
    PROVE  /\ BootOrder(Return, setUp)
           /\ ~setUp => Return # <<>>
<1>1. Len(stack) \in Nat \ {0} /\ DOMAIN stack = 1 .. Len(stack)
  BY LenProperties, EmptySeq
<1>2. /\ Return \in Seq(Frames(P)) /\ Len(Return) = Len(stack) - 1
      /\ DOMAIN Return = 1 .. Len(stack) - 1
      /\ \A i \in 1 .. Len(stack) - 1 : Return[i] = stack[i]
  BY <1>1, ReturnRemovesTop, LenProperties
<1>3. \A i \in DOMAIN Return : i \in DOMAIN stack
  BY <1>1, <1>2
<1>4. ASSUME ~setUp
      PROVE  Return # <<>> /\ Return[1].at \in {"config", "present", "presented", "register"}
  <2>1. Len(stack) # 1
    BY <1>4 DEF BootOrder
  <2>2. 1 \in 1 .. Len(stack) - 1 /\ Len(Return) # 0
    BY <1>1, <1>2, <2>1
  <2>3. Return # <<>>
    BY <2>2, <1>2, EmptySeq
  <2> QED
    BY <1>2, <1>4, <2>2, <2>3 DEF BootOrder
<1>5. \A i \in DOMAIN Return : Return[i].at = "register" => i = 1 /\ ~setUp
  BY <1>2, <1>3 DEF BootOrder
<1> QED
  BY <1>4, <1>5 DEF BootOrder
-----------------------------------------------------------------------------
(* The steps of the handlers, all at once *)

\* main() is in its loop exactly when no call is in progress; at any other point there is
\* a call with that point on top.
LEMMA TopIsPoint ==
    ASSUME NEW P, "loop" \notin P, stack \in Seq(Frames(P))
    PROVE  /\ Idle <=> stack = <<>>
           /\ \A q : q # "loop" /\ At(q) =>
                 /\ q \in P /\ stack # <<>>
                 /\ Len(stack) \in 1 .. Len(stack) /\ stack[Len(stack)].at = q
<1>1. ASSUME stack # <<>>
      PROVE  Len(stack) \in 1 .. Len(stack) /\ Top = stack[Len(stack)] /\ Top.at \in P
  <2>1. Len(stack) \in 1 .. Len(stack)
    BY <1>1, EmptySeq
  <2>2. stack[Len(stack)] \in Frames(P)
    BY <2>1, ElementOfSeq
  <2> QED
    BY <1>1, <2>1, <2>2 DEF Top, Frames
<1>2. ASSUME stack = <<>> PROVE Top.at = "loop"
  BY <1>2 DEF Top, Frame
<1> QED
  BY <1>1, <1>2 DEF Idle, At

\* What one step of the handlers does to the stack: one of `to` is called, or one of `from`
\* returns or goes on as one of `to`, or the pass moves on and may call one of `to`.
StackStep(from, to) ==
    \/ \E p \in to : stack' = Call(p)
    \/ \E q \in from : At(q) /\ (stack' = Return \/ \E p \in to : stack' = Goto(p))
    \/ At("pass") /\ \E s \in Slots : \/ stack' = Advance(s)
                                      \/ \E p \in to : stack' = AdvanceAndCall(s, p)
    \/ stack' = stack

\* A call stays as it was but for the top one, if that was one of `from`; and of the calls
\* behind the step none is new but the top one, if that is one of `to`.
LEMMA StackStepEffects ==
    ASSUME NEW P, "loop" \notin P, stack \in Seq(Frames(P)),
           NEW from, NEW to, to \subseteq P, "loop" \notin from, StackStep(from, to)
    PROVE  /\ stack' \in Seq(Frames(P))
           /\ \A i \in DOMAIN stack :
                 \/ i \in DOMAIN stack' /\ stack'[i].at = stack[i].at
                 \/ i = Len(stack) /\ stack[i].at \in from
           /\ \A i \in DOMAIN stack' :
                 \/ i \in DOMAIN stack /\ stack'[i].at = stack[i].at
                 \/ i = Len(stack') /\ stack'[i].at \in to
<1> DEFINE Effects ==
      /\ stack' \in Seq(Frames(P))
      /\ \A i \in DOMAIN stack :
            \/ i \in DOMAIN stack' /\ stack'[i].at = stack[i].at
            \/ i = Len(stack) /\ stack[i].at \in from
      /\ \A i \in DOMAIN stack' :
            \/ i \in DOMAIN stack /\ stack'[i].at = stack[i].at
            \/ i = Len(stack') /\ stack'[i].at \in to
<1>1. Len(stack) \in Nat /\ DOMAIN stack = 1 .. Len(stack)
  BY LenProperties
<1>2. \A q : q # "loop" /\ At(q) =>
         stack # <<>> /\ Len(stack) \in 1 .. Len(stack) /\ stack[Len(stack)].at = q
  BY TopIsPoint
<1>3. ASSUME NEW p \in to, stack' = Call(p) PROVE Effects
  <2>1. /\ stack' \in Seq(Frames(P)) /\ Len(stack') = Len(stack) + 1
        /\ \A i \in 1 .. Len(stack) : stack'[i] = stack[i]
        /\ stack'[Len(stack) + 1].at = p
    BY <1>3, CallAddsFrame
  <2>2. DOMAIN stack' = 1 .. Len(stack) + 1
    BY <2>1, LenProperties
  <2> QED
    BY <1>1, <2>1, <2>2
<1>4. ASSUME NEW q \in from, At(q), stack' = Return PROVE Effects
  <2>1. /\ stack' \in Seq(Frames(P)) /\ Len(stack') = Len(stack) - 1
        /\ \A i \in 1 .. Len(stack) - 1 : stack'[i] = stack[i]
    BY <1>2, <1>4, ReturnRemovesTop
  <2>2. DOMAIN stack' = 1 .. Len(stack) - 1 /\ stack[Len(stack)].at \in from
    BY <1>2, <1>4, <2>1, LenProperties
  <2> QED
    BY <1>1, <2>1, <2>2
<1>5. ASSUME NEW q \in from, At(q), NEW p \in to, stack' = Goto(p) PROVE Effects
  <2>1. /\ stack' \in Seq(Frames(P)) /\ Len(stack') = Len(stack)
        /\ \A i \in 1 .. Len(stack) - 1 : stack'[i] = stack[i]
        /\ stack'[Len(stack)].at = p
    BY <1>2, <1>5, GotoReplacesTop
  <2>2. DOMAIN stack' = 1 .. Len(stack) /\ stack[Len(stack)].at \in from
    BY <1>2, <1>5, <2>1, LenProperties
  <2> QED
    BY <1>1, <2>1, <2>2
<1>6. ASSUME At("pass"), NEW s \in Slots, stack' = Advance(s) PROVE Effects
  <2>1. /\ stack' \in Seq(Frames(P)) /\ Len(stack') = Len(stack)
        /\ \A i \in 1 .. Len(stack) : stack'[i].at = stack[i].at
    BY <1>2, <1>6, AdvanceKeepsPoints
  <2>2. DOMAIN stack' = 1 .. Len(stack)
    BY <2>1, LenProperties
  <2> QED
    BY <1>1, <2>1, <2>2
<1>7. ASSUME At("pass"), NEW s \in Slots, NEW p \in to, stack' = AdvanceAndCall(s, p)
      PROVE  Effects
  <2>1. /\ stack' \in Seq(Frames(P)) /\ Len(stack') = Len(stack) + 1
        /\ \A i \in 1 .. Len(stack) : stack'[i].at = stack[i].at
        /\ stack'[Len(stack) + 1].at = p
    BY <1>2, <1>7, AdvanceAndCallAddsFrame
  <2>2. DOMAIN stack' = 1 .. Len(stack) + 1
    BY <2>1, LenProperties
  <2> QED
    BY <1>1, <2>1, <2>2
<1>8. CASE stack' = stack
  BY <1>8
<1> QED
  BY <1>3, <1>4, <1>5, <1>6, <1>7, <1>8 DEF StackStep

\* So a call that is none of `from` is in progress still, and one that is none of `to` was
\* in progress before.
LEMMA StackStepProgress ==
    ASSUME NEW P, "loop" \notin P, stack \in Seq(Frames(P)),
           NEW from, NEW to, to \subseteq P, "loop" \notin from, StackStep(from, to), NEW Q
    PROVE  /\ Q \cap from = {} /\ InProgress(Q) => InProgress(Q)'
           /\ Q \cap to = {} /\ InProgress(Q)' => InProgress(Q)
BY StackStepEffects DEF InProgress

-----------------------------------------------------------------------------
(* Starts *)

StartPoints == {"config", "present", "presented", "register"}

\* The handlers keep the order of a start, and so does the first half of a presentation.
LEMMA BootStays ==
    ASSUME NEW P, "loop" \notin P, "present" \in P,
           stack \in Seq(Frames(P)), NEW setUp, BootOrder(stack, setUp),
           \/ StackStep(P \ StartPoints, P \ {"register"})
           \/ At("config") /\ stack' = Goto("present")
           \/ At("present") /\ "presented" \in P /\ stack' = Goto("presented")
    PROVE  BootOrder(stack', setUp)
<1>1. \A q : q # "loop" /\ At(q) =>
         stack # <<>> /\ Len(stack) \in 1 .. Len(stack) /\ stack[Len(stack)].at = q
  BY TopIsPoint
<1>2. ASSUME NEW p \in P \ {"register"}, stack' = Call(p) PROVE BootOrder(stack', setUp)
  BY <1>2, BootCall
<1>3. ASSUME NEW q \in P \ StartPoints, At(q), stack' = Return PROVE BootOrder(stack', setUp)
  BY <1>1, <1>3, BootReturn DEF StartPoints
<1>4. ASSUME NEW q \in P \ StartPoints, At(q), NEW p \in P \ {"register"}, stack' = Goto(p)
      PROVE  BootOrder(stack', setUp)
  BY <1>1, <1>4, BootGoto DEF StartPoints
<1>5. ASSUME At("pass"), NEW s \in Slots,
             \/ stack' = Advance(s)
             \/ \E p \in P \ {"register"} : stack' = AdvanceAndCall(s, p)
      PROVE  BootOrder(stack', setUp)
  BY <1>1, <1>5, BootAdvance
<1>6. ASSUME At("config"), stack' = Goto("present") PROVE BootOrder(stack', setUp)
  BY <1>1, <1>6, BootGoto
<1>7. ASSUME At("present"), "presented" \in P, stack' = Goto("presented")
      PROVE  BootOrder(stack', setUp)
  BY <1>1, <1>7, BootGoto
<1>8. CASE stack' = stack
  BY <1>8
<1> QED
  BY <1>2, <1>3, <1>4, <1>5, <1>6, <1>7, <1>8 DEF StackStep

\* And so does the second half, behind which setup() follows unless it has run, or the
\* presentation was asked for inside another.
LEMMA BootPresentationEnds ==
    ASSUME NEW P, "loop" \notin P, "register" \in P,
           stack \in Seq(Frames(P)), NEW setUp, BootOrder(stack, setUp),
           At("present") \/ At("presented"),
           stack' = IF setUp \/ Len(stack) > 1 THEN Return ELSE Goto("register")
    PROVE  BootOrder(stack', setUp)
<1>1. stack # <<>> /\ Len(stack) \in 1 .. Len(stack)
  BY TopIsPoint
<1>2. CASE setUp \/ Len(stack) > 1
  BY <1>1, <1>2, BootReturn
<1>3. CASE ~ (setUp \/ Len(stack) > 1)
  <2>1. \A n \in Nat : n \in 1 .. n /\ ~ (n > 1) => n = 1
    OBVIOUS
  <2>2. Len(stack) = 1
    BY <1>1, <1>3, <2>1, LenProperties
  <2> QED
    BY <1>1, <1>3, <2>2, BootGoto
<1> QED
  BY <1>2, <1>3

\* Where the node registers at the bottom of the stack only, setup() leaves nothing on it.
LEMMA RegisterAtBottom ==
    ASSUME NEW P, "loop" \notin P, stack \in Seq(Frames(P)), At("register"), stack' = Return,
           \A i \in DOMAIN stack : stack[i].at = "register" => i = 1
    PROVE  stack' = <<>> /\ DOMAIN stack = {1} /\ stack[1].at = "register"
<1>1. stack # <<>> /\ Len(stack) \in 1 .. Len(stack) /\ stack[Len(stack)].at = "register"
  BY TopIsPoint
<1>2. Len(stack) \in DOMAIN stack /\ DOMAIN stack = 1 .. Len(stack)
  BY <1>1, LenProperties
<1>3. Len(stack) = 1
  BY <1>1, <1>2
<1>4. stack' \in Seq(Frames(P)) /\ Len(stack') = 0
  BY <1>1, <1>3, ReturnRemovesTop
<1> QED
  BY <1>1, <1>2, <1>3, <1>4, EmptySeq

\* setup() is called from the bottom of the stack, once, and leaves nothing on it.
LEMMA SetupAtBottom ==
    ASSUME NEW P, "loop" \notin P, stack \in Seq(Frames(P)), NEW setUp,
           BootOrder(stack, setUp), At("register"), stack' = Return
    PROVE  ~setUp /\ stack' = <<>> /\ DOMAIN stack = {1} /\ stack[1].at = "register"
<1>1. \A i \in DOMAIN stack : stack[i].at = "register" => i = 1 /\ ~setUp
  BY DEF BootOrder
<1>2. stack' = <<>> /\ DOMAIN stack = {1} /\ stack[1].at = "register"
  BY <1>1, RegisterAtBottom
<1> QED
  BY <1>1, <1>2
=============================================================================
