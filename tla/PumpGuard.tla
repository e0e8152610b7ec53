------------------------------- MODULE PumpGuard -------------------------------
(***************************************************************************)
(* What a motor node owes to its tank, whatever it does inside: it rests or *)
(* it is at work.  At work it may start and stop the pump as it likes.  But *)
(* it begins no work by starting the pump for a tank it holds for full, it  *)
(* holds the tank for full or not full as it was told last, it comes to     *)
(* rest only with the pump stopped if the tank is full, and it does come to *)
(* rest.  A restart makes it forget; the pump goes on as it was.            *)
(***************************************************************************)
VARIABLES
    settled,    \* it has been at rest since it was started
    resting,    \* no handler is in progress
    full,       \* the node holds the tank for full
    running     \* the pump

vars == <<settled, resting, full, running>>

TypeOK == {settled, resting, full, running} \subseteq BOOLEAN

Init == settled = FALSE /\ resting = FALSE /\ full = FALSE /\ running = FALSE

Hear(level) ==
    /\ resting' = FALSE
    /\ full' = level
    /\ UNCHANGED <<settled, running>>

SetOut ==
    /\ resting
    /\ resting' = FALSE
    /\ running' \in BOOLEAN
    /\ full /\ running' => running
    /\ UNCHANGED <<settled, full>>

Work ==
    /\ ~resting
    /\ running' \in BOOLEAN
    /\ UNCHANGED <<settled, resting, full>>

ComeToRest ==
    /\ settled
    /\ ~resting
    /\ full => ~running
    /\ resting' = TRUE
    /\ UNCHANGED <<settled, full, running>>

\* The end of a start: no report that was heard before it is remembered.
SettleIn ==
    /\ ~settled
    /\ settled' = TRUE
    /\ resting' = TRUE
    /\ full' = FALSE
    /\ UNCHANGED running

Restart ==
    /\ settled' = FALSE
    /\ resting' = FALSE
    /\ full' = FALSE
    /\ UNCHANGED running

Next ==
    \/ \E level \in BOOLEAN : Hear(level)
    \/ SetOut \/ Work \/ ComeToRest \/ SettleIn
    \/ Restart

Spec == Init /\ [][Next]_vars

Fairness == SF_vars(ComeToRest \/ SettleIn)

FairSpec == Spec /\ Fairness
=============================================================================
