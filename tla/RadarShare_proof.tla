-------------------------- MODULE RadarShare_proof --------------------------
(***************************************************************************)
(* Proofs about RadarShare for any number of tools, whatever MaxTools: its *)
(* type invariant, that the radar settles in its measuring mode with the   *)
(* gate set, and that what CollisionApp_proof shows of the application     *)
(* alone holds beside the tools too.                                       *)
(***************************************************************************)
EXTENDS RadarShare, CollisionApp_proof

-----------------------------------------------------------------------------
(* The application does not see the tools: they share the radar with it, which *)
(* the invariant IInv of CollisionApp_proof does not mention.                  *)

LEMMA ToolTouches ==
  ASSUME NEW t \in Tools, Tool(t)
  PROVE  UNCHANGED <<envVars, pc, status, buff, linkVars, shown>>
  BY DEF Tool, ToolOpen, ToolWrite, ToolMessage, ToolData, vars

LEMMA ToolRadar ==
  ASSUME IInv, NEW t \in Tools, Tool(t)
  PROVE  /\ radarMode' \in {"run", "command"} /\ roi' \in {"default", "set"}
         /\ uartFault' \in BOOLEAN
<1>1. CASE ToolWrite(t)
  BY <1>1 DEF IInv, TypeOK, ToolWrite, RadarTakes, RadarGets
<1>2. CASE ToolOpen(t) \/ ToolMessage(t) \/ ToolData(t)
  BY <1>2 DEF IInv, TypeOK, ToolOpen, ToolMessage, ToolData, vars, radarVars
<1> QED BY <1>1, <1>2 DEF Tool

LEMMA ToolIInv ==
  ASSUME IInv, NEW t \in Tools, Tool(t)
  PROVE  IInv'
<1>1. UNCHANGED <<person, out, pc, status, buff, toM4, toA7, motor, shown>>
  BY ToolTouches DEF envVars, linkVars
<1>2. TypeOK'
  BY <1>1, ToolRadar DEF IInv, TypeOK
<1>3. AnswersBounded' /\ MotorObeysLastSample' /\ LastSent' /\ BeforeLoop'
  BY <1>1 DEF IInv, AnswersBounded, MotorObeysLastSample, LastSent, BeforeLoop
<1> QED BY <1>2, <1>3 DEF IInv

LEMMA ShareNextIInv == IInv /\ [ShareNext]_allVars => IInv'
<1> SUFFICES ASSUME IInv, [ShareNext]_allVars
             PROVE  IInv'
  OBVIOUS
<1>1. CASE Next \/ UNCHANGED allVars
  BY <1>1, NextIInv DEF allVars
<1>2. ASSUME NEW t \in Tools, Tool(t)
      PROVE  IInv'
  BY <1>2, ToolIInv
<1> QED BY <1>1, <1>2 DEF ShareNext

LEMMA ShareIInv == ShareSpec => []IInv
<1>1. ShareInit => IInv
  BY InitIInv DEF ShareInit
<1> QED BY <1>1, ShareNextIInv, PTL DEF ShareSpec

\* The unread answers of the M4 stay bounded, the motor does what main sent last
\* and the relay is implemented (rd03uart.c:285-387), tools or not.
THEOREM SharedAnswersBounded == ShareSpec => []AnswersBounded
<1>1. IInv => AnswersBounded
  BY DEF IInv
<1> QED BY <1>1, ShareIInv, PTL

THEOREM SharedMotorObeys == ShareSpec => []MotorObeysLastSample
<1>1. IInv => MotorObeysLastSample
  BY DEF IInv
<1> QED BY <1>1, ShareIInv, PTL

\* Tools' steps are none of the relay's business.
LEMMA ShareRelayNext == IInv /\ [ShareNext]_allVars => [Relay!Next]_(Relay!vars)
<1> SUFFICES ASSUME IInv, [ShareNext]_allVars
             PROVE  [Relay!Next]_(Relay!vars)
  OBVIOUS
<1>1. CASE Next \/ UNCHANGED allVars
  BY <1>1, RelayNext DEF allVars
<1>2. ASSUME NEW t \in Tools, Tool(t)
      PROVE  UNCHANGED Relay!vars
  <2>1. UNCHANGED <<out, pc, buff, toM4, motor>>
    BY <1>2, ToolTouches DEF envVars, linkVars
  <2> QED BY <2>1 DEF Relay!vars, pipe, live
<1> QED BY <1>1, <1>2 DEF ShareNext

\* The application implements MotorRelay on a radar it shares.
THEOREM SharedImplementsRelay == ShareSpec => RelaySpec
<1>1. ShareInit => Relay!Init
  BY RelayInit DEF ShareInit
<1> QED BY <1>1, ShareRelayNext, ShareIInv, PTL DEF ShareSpec, RelaySpec, Relay!Spec

-----------------------------------------------------------------------------
(* The radar.  Until the first section is closed, every program that is inside *)
(* a section finds the radar in command mode, so every parameter is taken;     *)
(* from then on the gate is set, and only a program inside a section keeps     *)
(* the radar in command mode.                                                  *)

ParamSent == pc = "close" \/ \E t \in Tools : at[t] = 4

RadarIInv ==
  ~uartFault =>
    /\ Closed => roi = "set"
    /\ ~Closed /\ Inside => radarMode = "command"
    /\ ~Closed /\ ParamSent => roi = "set"
    /\ Closed /\ radarMode = "command" => Inside

ShareInv == IInv /\ ShareTypeOK /\ RadarIInv

LEMMA ShareInitInv == ShareInit => ShareInv
<1> SUFFICES ASSUME ShareInit PROVE ShareInv
  OBVIOUS
<1>1. IInv
  BY InitIInv DEF ShareInit
<1>2. ShareTypeOK
  <2>1. at \in [Tools -> {0}] /\ report = FALSE
    BY DEF ShareInit, ToOpen
  <2>2. \A t \in FirstTools : at[t] <= LastFrame(t) + 1
    BY <2>1 DEF Tools, LastFrame
  <2>3. at \in [Tools -> NotOpened .. Left]
    BY <2>1 DEF NotOpened, Left
  <2>4. report \in BOOLEAN
    BY <2>1
  <2> QED BY <2>2, <2>3, <2>4 DEF ShareTypeOK
<1>3. ~Closed /\ ~Inside /\ ~ParamSent
  BY DEF ShareInit, Init, Closed, AppClosed, ToolClosed, Inside, AppInside,
     ToolInside, ParamSent, ToOpen, Loop
<1> QED BY <1>1, <1>2, <1>3 DEF ShareInv, RadarIInv

LEMMA ToolTypes ==
  ASSUME ShareInv, NEW t \in Tools, Tool(t)
  PROVE  ShareTypeOK'
<1> USE DEF ShareInv, ShareTypeOK, Advance, NotOpened, ToOpen, ToMessage, ToData, Left
<1>1. CASE ToolOpen(t)
  BY <1>1 DEF ToolOpen, Tools, LastFrame
<1>2. CASE ToolWrite(t)
  <2>1. LastFrame(t) \in {4, 8}
    BY DEF LastFrame
  <2>2. /\ at[t] \in 1 .. LastFrame(t)
        /\ \E next \in {at[t] + 1, AfterFailure(at[t])} : Advance(t, next)
    BY <1>2 DEF ToolWrite
  <2>3. AfterFailure(at[t]) \in {at[t] + 1, at[t] + 2}
        /\ AfterFailure(at[t]) <= LastFrame(t) + 1
    BY <2>1, <2>2 DEF AfterFailure
  <2>4. report' \in BOOLEAN
    BY <1>2 DEF ToolWrite, RadarTakes
  <2> QED BY <2>1, <2>2, <2>3, <2>4
<1>3. CASE t \in SetTools /\ (ToolMessage(t) \/ ToolData(t))
  BY <1>3, ToolsAssumption DEF ToolMessage, ToolData, Tools
<1> QED BY <1>1, <1>2, <1>3 DEF Tool

\* A step of a tool that sends no frame.
LEMMA ToolQuiet ==
  ASSUME ShareInv, NEW t \in Tools, ~ToolWrite(t), Tool(t)
  PROVE  RadarIInv'
<1> USE DEF ShareInv, ShareTypeOK, Advance, NotOpened, ToOpen, ToMessage, ToData, Left
<1>1. /\ UNCHANGED <<radarMode, roi, uartFault, pc, status>>
      /\ \/ at[t] = 0 /\ \E p \in {1, -1} : at' = [at EXCEPT ![t] = p]
         \/ at[t] \in {9, 10} /\ \E p \in {10, 11} : at' = [at EXCEPT ![t] = p]
  BY DEF Tool, ToolOpen, ToolMessage, ToolData, vars, radarVars
<1>2. \A u \in Tools : /\ ToolInside(u)' <=> ToolInside(u)
                       /\ ToolClosed(u)' <=> ToolClosed(u)
                       /\ at'[u] = 4 <=> at[u] = 4
  BY <1>1 DEF ToolInside, ToolClosed
<1>3. /\ Inside' <=> Inside
      /\ Closed' <=> Closed
      /\ ParamSent' <=> ParamSent
  BY <1>1, <1>2 DEF Inside, AppInside, Closed, AppClosed, ParamSent
<1> QED BY <1>1, <1>3 DEF RadarIInv

\* A frame of a tool, one case for each frame of a section.
LEMMA ToolFrame ==
  ASSUME ShareInv, NEW t \in Tools, ToolWrite(t)
  PROVE  RadarIInv'
<1> SUFFICES ASSUME ~uartFault'
             PROVE  RadarIInv'
  BY DEF RadarIInv
<1> DEFINE i == at[t]
<1>1. /\ RadarTakes(Frame[i])
      /\ at' = [at EXCEPT ![t] = i + 1]
      /\ UNCHANGED <<uartFault, pc, status>>
  BY DEF ToolWrite, Advance
<1>2. i \in 1 .. 8 /\ at \in [Tools -> Int]
  BY DEF ToolWrite, LastFrame, ShareInv, ShareTypeOK, NotOpened, Left
<1>3. ~uartFault
  BY <1>1
<1>4. /\ at'[t] = i + 1
      /\ \A u \in Tools : u # t => at'[u] = at[u]
  BY <1>1, <1>2
<1>5. \A u \in Tools : ToolClosed(u) => ToolClosed(u)'
  BY <1>2, <1>4 DEF ToolClosed
<1>6. Closed => Closed'
  BY <1>1, <1>5 DEF Closed, AppClosed
<1>7. CASE i \in {1, 2, 5, 6}
  <2>1. radarMode' = "command" /\ roi' = roi
    BY <1>1, <1>7 DEF RadarTakes, RadarGets, Frame, HeaderOf, Header
  <2>2. Inside'
    BY <1>4, <1>7 DEF Inside, ToolInside
  <2>3. Closed' => Closed
    BY <1>1, <1>2, <1>4, <1>7 DEF Closed, AppClosed, ToolClosed
  <2>4. ParamSent' => ParamSent
    BY <1>1, <1>4, <1>7 DEF ParamSent
  <2> QED BY <1>3, <2>1, <2>2, <2>3, <2>4 DEF ShareInv, RadarIInv
<1>8. CASE i = 3
  <2>1. radarMode' = radarMode /\ roi' = IF radarMode = "command" THEN "set" ELSE roi
    BY <1>1, <1>8 DEF RadarTakes, RadarGets, Frame, HeaderOf, Header
  <2>2. Inside /\ Inside'
    BY <1>4, <1>8 DEF Inside, ToolInside
  <2>3. Closed' => Closed
    BY <1>1, <1>2, <1>4, <1>8 DEF Closed, AppClosed, ToolClosed
  <2> QED BY <1>3, <1>6, <2>1, <2>2, <2>3 DEF ShareInv, RadarIInv
<1>9. CASE i = 7
  <2>1. UNCHANGED <<radarMode, roi>>
    BY <1>1, <1>9 DEF RadarTakes, RadarGets, Frame, HeaderOf, Header
  <2>2. Inside' /\ Closed /\ Closed'
    BY <1>4, <1>6, <1>9 DEF Inside, ToolInside, Closed, ToolClosed
  <2> QED BY <1>3, <2>1, <2>2 DEF ShareInv, RadarIInv
<1>10. CASE i \in {4, 8}
  <2>1. radarMode' = "run" /\ roi' = roi
    BY <1>1, <1>10 DEF RadarTakes, RadarGets, Frame, HeaderOf, Header
  <2>2. Closed'
    BY <1>4, <1>10 DEF Closed, ToolClosed
  <2>3. Closed \/ ParamSent
    BY <1>10 DEF Closed, ToolClosed, ParamSent
  <2> QED BY <1>3, <2>1, <2>2, <2>3 DEF ShareInv, RadarIInv
<1> QED BY <1>2, <1>7, <1>8, <1>9, <1>10

\* A frame of the application, which sends the first section only.
LEMMA AppFrame ==
  ASSUME ShareInv, Enter \/ EnterAgain \/ Param \/ Close, UNCHANGED toolVars
  PROVE  RadarIInv'
<1> SUFFICES ASSUME ~uartFault'
             PROVE  RadarIInv'
  BY DEF RadarIInv
<1> USE DEF Goto, WriteFrame, RadarGets, toolVars
<1>1. ~uartFault /\ UNCHANGED <<at, status>>
  BY DEF Enter, EnterAgain, Param, Close
<1>2. (\E t \in Tools : ToolClosed(t))' <=> \E t \in Tools : ToolClosed(t)
  BY <1>1 DEF ToolClosed
<1>3. (\E t \in Tools : ToolInside(t))' <=> \E t \in Tools : ToolInside(t)
  BY <1>1 DEF ToolInside
<1>4. CASE Enter \/ EnterAgain
  <2>1. /\ radarMode' = "command" /\ roi' = roi
        /\ pc \in {"enter", "enterAgain"} /\ pc' \in {"enterAgain", "param"}
    BY <1>1, <1>4 DEF Enter, EnterAgain
  <2>2. Inside' /\ (Closed' <=> Closed) /\ (ParamSent' <=> ParamSent)
    BY <1>1, <1>2, <2>1 DEF Inside, AppInside, Closed, AppClosed, ParamSent, Loop
  <2> QED BY <1>1, <2>1, <2>2 DEF ShareInv, RadarIInv
<1>5. CASE Param
  <2>1. /\ radarMode' = radarMode
        /\ roi' = IF radarMode = "command" THEN "set" ELSE roi
        /\ pc = "param" /\ pc' = "close"
    BY <1>1, <1>5 DEF Param
  <2>2. Inside /\ Inside' /\ (Closed' <=> Closed)
    BY <1>1, <1>2, <2>1 DEF Inside, AppInside, Closed, AppClosed, Loop
  <2> QED BY <1>1, <2>1, <2>2 DEF ShareInv, RadarIInv
<1>6. CASE Close
  <2>1. /\ radarMode' = "run" /\ roi' = roi
        /\ pc = "close" /\ pc' = "openGpio"
    BY <1>1, <1>6 DEF Close
  <2>2. Closed' /\ ParamSent
    BY <2>1 DEF Closed, AppClosed, ParamSent
  <2> QED BY <1>1, <2>1, <2>2 DEF ShareInv, RadarIInv
<1> QED BY <1>4, <1>5, <1>6

\* Everything else leaves the radar alone, and main where it is inside, or past,
\* its section.
LEMMA AppQuiet ==
  ASSUME ShareInv, UNCHANGED toolVars,
         \/ OpenUart \/ OpenGpio \/ OpenMsg \/ Sample \/ Send \/ Neither \/ Reply
         \/ M4 \/ Move \/ Radar \/ UNCHANGED vars
  PROVE  RadarIInv'
<1> USE DEF Goto, Exit, toolVars
<1>1. UNCHANGED <<radarMode, roi, uartFault, at>>
  BY DEF OpenUart, OpenGpio, OpenMsg, Open, Sample, Send, Neither, Reply, M4, Move,
     Radar, vars, radarVars
<1>2. (AppClosed' <=> AppClosed) /\ ~(AppInside /\ ~AppInside')
      /\ ~(~AppInside /\ AppInside') /\ (pc' = "close" <=> pc = "close")
  <2>1. CASE OpenUart \/ OpenGpio \/ OpenMsg
    BY <2>1 DEF OpenUart, OpenGpio, OpenMsg, Open, AppClosed, AppInside, Loop
  <2>2. CASE Sample \/ Send \/ Neither \/ Reply
    BY <2>2 DEF Sample, Send, Neither, Reply, AppClosed, AppInside, Loop
  <2>3. CASE M4 \/ Move \/ Radar \/ UNCHANGED vars
    BY <2>3 DEF M4, Move, Radar, vars, AppClosed, AppInside
  <2> QED BY <2>1, <2>2, <2>3
<1>3. /\ Inside' <=> Inside
      /\ Closed' <=> Closed
      /\ ParamSent' <=> ParamSent
  BY <1>1, <1>2 DEF Inside, Closed, ParamSent, ToolInside, ToolClosed
<1> QED BY <1>1, <1>3 DEF ShareInv, RadarIInv

LEMMA ShareNextInv == ShareInv /\ [ShareNext]_allVars => ShareInv'
<1> SUFFICES ASSUME ShareInv, [ShareNext]_allVars
             PROVE  ShareInv'
  OBVIOUS
<1>1. IInv'
  BY ShareNextIInv DEF ShareInv
<1>2. ASSUME NEW t \in Tools, Tool(t)
      PROVE  ShareTypeOK' /\ RadarIInv'
  BY <1>2, ToolTypes, ToolQuiet, ToolFrame
<1>3. CASE (Next \/ UNCHANGED vars) /\ UNCHANGED toolVars
  <2>1. ShareTypeOK'
    BY <1>3 DEF ShareInv, ShareTypeOK, toolVars
  <2>2. RadarIInv'
    BY <1>3, AppFrame, AppQuiet DEF Next, App
  <2> QED BY <1>1, <2>1, <2>2 DEF ShareInv
<1> QED BY <1>1, <1>2, <1>3 DEF ShareInv, ShareNext, allVars, toolVars

LEMMA ShareSpecInv == ShareSpec => []ShareInv
  BY ShareInitInv, ShareNextInv, PTL DEF ShareSpec

\* The tools' positions stay in their programs, for every set of tools.
THEOREM ShareTypeCorrect == ShareSpec => [](TypeOK /\ ShareTypeOK)
<1>1. ShareInv => TypeOK /\ ShareTypeOK
  BY DEF ShareInv, IInv
<1> QED BY <1>1, ShareSpecInv, PTL

\* However the sections of any number of programs overlap (inter_cmd to close_cmd,
\* rd03uart.c:135-171, rd03uart-set.c:137-222), the radar ends up measuring.
THEOREM RadarAlwaysSettles == ShareSpec => []RadarSettles
<1>1. ShareInv => RadarSettles
  BY DEF ShareInv, RadarIInv, RadarSettles, IInv, TypeOK
<1> QED BY <1>1, ShareSpecInv, PTL

\* ... with its gate set, although some of the parameters may have been ignored.
THEOREM GateAlwaysSet == ShareSpec => []GateSet
<1>1. ShareInv => GateSet
  BY DEF ShareInv, RadarIInv, GateSet
<1> QED BY <1>1, ShareSpecInv, PTL
=============================================================================
