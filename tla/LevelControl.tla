----------------------------- MODULE LevelControl -----------------------------
(***************************************************************************)
(* The node on Tank01 and the motor node it reports to, with the radio      *)
(* between them: level reports one way, answers the other.  A message may   *)
(* be lost when it is sent, it may be late, and it may be delivered more    *)
(* than once; a later one takes its place, so that none overtakes another.  *)
(* Either node may restart at any time.                                     *)
(*                                                                          *)
(* The motor node is PumpGuard, which Borewell implements.  An answer       *)
(* carries the level it answers; the tank node does not look at that.  Of   *)
(* the tank's switches there is only the one at its high level, whose       *)
(* reports stop the pump.                                                   *)
(***************************************************************************)
EXTENDS Tank

VARIABLES
    settled, resting, full, running,
    report,     \* the report on its way to the motor node
    answer,     \* an answer is on its way to the tank node
    astray      \* history: since the last report the tank node has taken an answer for
                \* its answer that was none, or one of the nodes has restarted

tankNode == vars
motorNode == <<settled, resting, full, running>>
radio == <<report, answer>>
controlVars == <<tankNode, motorNode, radio, astray>>

Motor == INSTANCE PumpGuard

Silence == "nothing"

ControlTypeOK ==
    /\ TypeOK
    /\ Motor!TypeOK
    /\ report \in Reports
    /\ {answer, astray} \subseteq BOOLEAN

ControlInit ==
    /\ Init
    /\ Motor!Init
    /\ report = Silence
    /\ answer = FALSE
    /\ astray = FALSE

-----------------------------------------------------------------------------
(* Messages *)

\* An answer that came in the wait before is not the answer to this report.
ReportIsSent(arrives) ==
    /\ SentWaitEnds(High)
    /\ report' = IF arrives THEN told'[High] ELSE report
    /\ astray' = (High \in acked)
    /\ UNCHANGED <<motorNode, answer>>

MotorHears(answered) ==
    /\ report # Silence
    /\ Motor!Hear(report = "level")
    /\ report' \in {report, Silence}
    /\ answer' = (answer \/ answered)
    /\ UNCHANGED <<tankNode, astray>>

TankHearsAnswer ==
    /\ answer
    /\ ReceiveAck(High)
    /\ answer' \in BOOLEAN
    /\ astray' = (astray \/ full # (told[High] = "level") \/ report \notin {Silence, told[High]})
    /\ UNCHANGED <<motorNode, report>>

-----------------------------------------------------------------------------
(* What a node does without the other.  Other presentations of the tank     *)
(* node than the first, and the switch it passes on, are left out.          *)

TankWorks ==
    /\ \/ loop
       \/ HighToldWaitEnds \/ DelayEnds
       \/ PresentingNode \/ PresentationEnds \/ setup
       \/ PassBegins \/ PassEnds
       \/ \E s \in Slots : RunAlarm(s)
       \/ SecondPasses
       \/ WaterMoves(High)
    /\ UNCHANGED <<motorNode, radio, astray>>

MotorWorks ==
    /\ Motor!SetOut \/ Motor!Work \/ Motor!ComeToRest
    /\ UNCHANGED <<tankNode, radio, astray>>

\* setup() clears the level that was heard before it.
MotorSettlesIn ==
    /\ Motor!SettleIn
    /\ astray' = (astray \/ full)
    /\ UNCHANGED <<tankNode, radio>>

TankRestarts ==
    /\ Restart
    /\ astray' = TRUE
    /\ UNCHANGED <<motorNode, radio>>

MotorRestarts ==
    /\ Motor!Restart
    /\ astray' = TRUE
    /\ UNCHANGED <<tankNode, radio>>

ControlNext ==
    \/ \E arrives \in BOOLEAN : ReportIsSent(arrives)
    \/ \E answered \in BOOLEAN : MotorHears(answered)
    \/ TankHearsAnswer
    \/ TankWorks
    \/ MotorWorks \/ MotorSettlesIn
    \/ TankRestarts \/ MotorRestarts

ControlSpec == ControlInit /\ [][ControlNext]_controlVars

(***************************************************************************)
(* Of the fairness of Tank, what is needed where nothing nests.  Of the     *)
(* reports that are sent again and again some arrive, and a node that waits *)
(* for messages reads them.  Of the answers nothing is assumed.  At some    *)
(* time the power stays on.                                                 *)
(***************************************************************************)
ControlFairness ==
    /\ <>[][~Restart /\ ~Motor!Restart]_controlVars
    /\ WF_tankNode(loop)
    /\ SF_tankNode(WaitEnds)
    /\ WF_tankNode(PassEnds)
    /\ WF_tankNode(\E s \in Slots : RunAlarm(s))
    /\ WF_controlVars(\E answered \in BOOLEAN : MotorHears(answered))
    /\ SF_tankNode(At("delay") /\ PassBegins)
    /\ WF_tankNode(SecondPasses)
    /\ SF_tankNode(\E s \in Slots : RepeatingCheck(s) /\ RunAlarm(s))
    /\ SF_controlVars(ReportIsSent(TRUE))

FairControlSpec == ControlSpec /\ ControlFairness

-----------------------------------------------------------------------------
(* Properties *)

\* Where the two differ while the tank node is idle, the difference is going to be mended:
\* the last report is on its way or is going to be made again.  Not so if the alarm that
\* repeats it could not be had, if the answer to an earlier report was taken for its own,
\* or if one of the nodes has restarted since.
DifferenceIsMended ==
    Idle /\ told[High] # Silence /\ full # (told[High] = "level") =>
        \/ report = told[High]
        \/ High \in sendSensorUpdate
        \/ High \notin acked /\ Pending(CheckAck(High))
        \/ High \in crowded \/ astray

\* What it rests on, with the invariants of Tank.  An answer that was one, to the last
\* report, shows that the motor node has heard that report and that no older one is left.
AnswerInv ==
    High \in acked /\ ~astray /\ told[High] # Silence =>
        /\ full = (told[High] = "level")
        /\ report \in {Silence, told[High]}

\* Over a tank that stays full no pump rests running in the end: whatever the radio loses,
\* doubles or delays, and after any restarts.
FullTankStopsPump == <>[](High \in atLevel) => <>[](resting => full /\ ~running)

\* A tank that stays below its high level is held for not full in the end, apart from the
\* exceptions of DifferenceIsMended: then the motor node may refuse to start for good.
NotFullIsLearnt == <>[](High \notin atLevel) => <>[](~full \/ High \in crowded \/ astray)
=============================================================================
