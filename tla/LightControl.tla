----------------------------- MODULE LightControl -----------------------------
(***************************************************************************)
(* The balcony light and the staircase light that follows it, with the      *)
(* radio between them: questions one way, statuses the other.  A message    *)
(* may be lost when it is sent, it may be late, and it may be delivered     *)
(* more than once; a later one takes its place.  The gate light and the     *)
(* controller send statuses to the staircase light too, and either node may *)
(* restart at any time.                                                     *)
(***************************************************************************)
EXTENDS Light

VARIABLES
    stairAlarms, stairSetUp, stairLit,
    sendLightStatusRequest, lightStatusReceived, lightStatusTimer,
    asked,      \* a question is on its way to the balcony light
    told        \* the status on its way to the staircase light, if there is one

balcony == vars
staircase == <<stairAlarms, stairSetUp, stairLit,
               sendLightStatusRequest, lightStatusReceived, lightStatusTimer>>
radio == <<asked, told>>
controlVars == <<balcony, staircase, radio>>

Stair == INSTANCE StaircaseLight WITH
    alarms <- stairAlarms, setupDone <- stairSetUp, lit <- stairLit

ControlTypeOK ==
    /\ TypeOK
    /\ Stair!TypeOK
    /\ asked \in BOOLEAN
    /\ told \in {{}, {TRUE}, {FALSE}}

ControlInit ==
    /\ Init
    /\ Stair!Init
    /\ asked = FALSE
    /\ told = {}

-----------------------------------------------------------------------------
(* Messages *)

\* The balcony light sends a status to the staircase light, which may arrive.
Tell(on) == told' \in {told, {on}}

SwitchIsTold ==
    /\ \E on \in BOOLEAN : ToldWaitEnds(on) /\ Tell(on)
    /\ UNCHANGED <<staircase, asked>>

\* presentation() tells it off, lit or not.  The presentation at a start is taken for one
\* that is asked for while the node registers.
PresentationIsTold ==
    /\ DelayEnds("present")
    /\ Tell(FALSE)
    /\ UNCHANGED <<staircase, asked>>

\* No question is answered before the duration is known.
QuestionComes(answerArrives) ==
    /\ asked
    /\ ReceiveStaircase
    /\ told' = IF answerArrives /\ "duration" \in received THEN {lit} ELSE told
    /\ asked' \in BOOLEAN
    /\ UNCHANGED staircase

StatusComes ==
    /\ \E on \in told : Stair!ReceiveStatus(on)
    /\ told' \in {told, {}}
    /\ UNCHANGED <<balcony, asked>>

\* The gate light, or the controller.
OthersTell ==
    /\ \E on \in BOOLEAN : Stair!ReceiveStatus(on)
    /\ UNCHANGED <<balcony, radio>>

StairAsks(arrives) ==
    /\ \/ Stair!AskFirst
       \/ \E s \in Stair!Slots : Stair!requestLightStatus(s)
    /\ asked' = (asked \/ arrives)
    /\ UNCHANGED <<balcony, told>>

-----------------------------------------------------------------------------
(* What a node does without the other *)

StatusIsReceived ==
    /\ \E on \in BOOLEAN : ReceiveStatus(on) \/ ReceiveFirstStatus(on)
    /\ UNCHANGED <<staircase, radio>>

DurationIsReceived ==
    /\ \E inRange, value \in BOOLEAN : ReceiveDuration(inRange, value)
    /\ UNCHANGED <<staircase, radio>>

PresentationIsAsked ==
    /\ ReceivePresentationRequest
    /\ UNCHANGED <<staircase, radio>>

LightGoesOn ==
    /\ StatusWaitEnds \/ DefaultWaitEnds \/ DelayEnds("delay") \/ setup
    /\ UNCHANGED <<staircase, radio>>

AlarmRuns ==
    /\ \E s \in Slots : RunAlarm(s)
    /\ UNCHANGED <<staircase, radio>>

LightWorks ==
    /\ loop \/ SecondPasses
    /\ UNCHANGED <<staircase, radio>>

StairWorks ==
    /\ \/ Stair!setup
       \/ \E s \in Stair!Slots : Stair!checkLightStatusRequest(s)
    /\ UNCHANGED <<balcony, radio>>

Restarts ==
    /\ \/ Restart /\ UNCHANGED staircase
       \/ Stair!Restart /\ UNCHANGED balcony
    /\ UNCHANGED radio

ControlNext ==
    \/ SwitchIsTold \/ PresentationIsTold
    \/ \E arrives \in BOOLEAN : QuestionComes(arrives) \/ StairAsks(arrives)
    \/ StatusComes \/ OthersTell
    \/ StatusIsReceived \/ DurationIsReceived \/ PresentationIsAsked
    \/ LightGoesOn \/ AlarmRuns \/ LightWorks \/ StairWorks
    \/ Restarts

ControlSpec == ControlInit /\ [][ControlNext]_controlVars

(***************************************************************************)
(* Waits end and due alarms run.  The half-hourly alarm is due again and    *)
(* again; of the questions asked again and again some arrive, and so do     *)
(* some of the answers.  At some time the balcony light is not asked to     *)
(* present itself any more, and nobody else tells the staircase light       *)
(* anything.                                                                *)
(***************************************************************************)
ControlFairness ==
    /\ <>[][~(OthersTell \/ PresentationIsAsked)]_controlVars
    /\ SF_controlVars(LightGoesOn \/ AlarmRuns \/ SwitchIsTold \/ PresentationIsTold)
    /\ SF_controlVars((\E s \in Stair!Slots : Stair!requestLightStatus(s)) /\ StairAsks(TRUE))
    /\ SF_controlVars(QuestionComes(TRUE))
    /\ WF_controlVars(StatusComes)

FairControlSpec == ControlSpec /\ ControlFairness

-----------------------------------------------------------------------------
(* Properties *)

\* When the balcony light stays on or stays off, and knows its duration, the staircase light
\* comes to be the same and stays so, if it keeps its power too: whatever older status a
\* handler that was interrupted tells last, whatever is lost or late, and after any restarts.
StaircaseFollows ==
    \A on \in BOOLEAN :
        <>[](lit = on /\ "duration" \in received /\ stairSetUp) => <>[](stairLit = on)
=============================================================================
