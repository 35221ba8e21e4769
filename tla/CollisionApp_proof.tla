------------------------- MODULE CollisionApp_proof -------------------------
(***************************************************************************)
(* Proofs about CollisionApp for every Cap and every set of Faults: its    *)
(* type invariant, the bound on unread answers, the agreement of motor and  *)
(* last sample, the readiness of the radar, and that it implements         *)
(* MotorRelay.                                                             *)
(***************************************************************************)
EXTENDS CollisionApp, SequenceTheorems, TLAPS

\* Appending to, and taking the head from, a sequence: the facts about lengths
\* and elements the steps of the two channels need.
LEMMA AppendFacts ==
  ASSUME NEW S, NEW s \in Seq(S), NEW e \in S
  PROVE  /\ Append(s, e) \in Seq(S)
         /\ Len(Append(s, e)) = Len(s) + 1
         /\ Append(s, e)[Len(s) + 1] = e
         /\ Append(s, e) # <<>>
  BY AppendProperties

LEMMA TailFacts ==
  ASSUME NEW S, NEW s \in Seq(S), s # <<>>
  PROVE  /\ Head(s) \in S
         /\ Head(s) = s[1]
         /\ Tail(s) \in Seq(S)
         /\ Len(Tail(s)) = Len(s) - 1
         /\ Len(s) \in Nat \ {0}
         /\ \A i \in 1 .. Len(s) - 1 : Tail(s)[i] = s[i + 1]
  BY HeadTailProperties, EmptySeq

LEMMA SuffixFacts ==
  ASSUME NEW S, NEW s \in Seq(S), NEW k \in 1 .. Len(s)
  PROVE  /\ SubSeq(s, k + 1, Len(s)) \in Seq(S)
         /\ Len(SubSeq(s, k + 1, Len(s))) = Len(s) - k
  BY SubSeqProperties, LenProperties

-----------------------------------------------------------------------------
(* The inductive invariant: a sample main has sent and not overtaken since is   *)
(* the newest command of the tty.  The radar is no part of it.                 *)

LastSent ==
  pc \in {"reply", "sample"} /\ buff \in Levels /\ toM4 # <<>>
    => toM4[Len(toM4)] = buff

BeforeLoop == pc \in Setup => buff = Bad

IInv ==
  /\ TypeOK
  /\ AnswersBounded
  /\ MotorObeysLastSample
  /\ LastSent
  /\ BeforeLoop

USE CapAssumption, FaultsAssumption

\* The initial states satisfy the invariant.
LEMMA InitIInv == Init => IInv
<1> SUFFICES ASSUME Init PROVE IInv
  OBVIOUS
<1>1. /\ <<>> \in Seq(Levels) /\ <<>> \in Seq(Motors)
      /\ Len(<<>>) = 0
  BY EmptySeq
<1>2. TypeOK
  <2>1. toM4 \in Seq(Levels) /\ Len(toM4) <= Cap /\ toA7 \in Seq(Motors)
    BY <1>1 DEF Init
  <2>2. /\ person \in BOOLEAN /\ out \in Levels /\ uartFault \in BOOLEAN
        /\ buff \in Levels \cup {Bad}
    BY DEF Init
  <2>3. status \in {0, -2, -3, -4, -5}
    BY DEF Init
  <2> QED BY <2>1, <2>2, <2>3 DEF Init, TypeOK, Setup, Motors
<1>3. AnswersBounded
  BY <1>1 DEF Init, AnswersBounded
<1>4. MotorObeysLastSample /\ LastSent /\ BeforeLoop
  BY DEF Init, MotorObeysLastSample, LastSent, BeforeLoop
<1> QED BY <1>2, <1>3, <1>4 DEF IInv

\* Calls that leave the channels, the motor and the sample alone: the invariant
\* depends on the radar and on where main is only.
LEMMA WriteFrameIInv ==
  ASSUME IInv,
         \/ Enter \/ EnterAgain \/ Param \/ Close
  PROVE  IInv'
<1> USE DEF WriteFrame, RadarGets, Goto, envVars, linkVars
<1>1. TypeOK'
  BY DEF IInv, TypeOK, Enter, EnterAgain, Param, Close, Setup
<1>2. pc \in Setup /\ pc' \in Setup /\ UNCHANGED <<toM4, toA7, buff, motor>>
  BY DEF Enter, EnterAgain, Param, Close, Setup
<1>3. AnswersBounded' /\ MotorObeysLastSample' /\ LastSent' /\ BeforeLoop'
  BY <1>2 DEF IInv, AnswersBounded, MotorObeysLastSample, LastSent, BeforeLoop,
     Setup
<1> QED BY <1>1, <1>3 DEF IInv

LEMMA OpenIInv ==
  ASSUME IInv,
         \/ OpenUart \/ OpenGpio \/ OpenMsg
  PROVE  IInv'
<1> USE DEF Open, Goto, Exit, envVars, linkVars, radarVars
<1>1. TypeOK'
  BY DEF IInv, TypeOK, OpenUart, OpenGpio, OpenMsg, Setup, Loop
<1>2. pc \in Setup /\ pc' \in Setup \cup {"sample", "exited"}
      /\ UNCHANGED <<toM4, toA7, buff, motor>>
  BY DEF OpenUart, OpenGpio, OpenMsg, Setup
<1>3. buff = Bad
  BY <1>2 DEF IInv, BeforeLoop
<1>4. AnswersBounded' /\ MotorObeysLastSample' /\ LastSent' /\ BeforeLoop'
  BY <1>2, <1>3 DEF IInv, TypeOK, AnswersBounded, MotorObeysLastSample, LastSent,
     BeforeLoop, Setup, Levels, Bad
<1> QED BY <1>1, <1>4 DEF IInv

\* main reads the pin, or goes round the loop with neither 0 nor 1.
LEMMA SampleIInv ==
  ASSUME IInv, Sample \/ Neither
  PROVE  IInv'
<1> USE DEF Sample, Neither, Goto, envVars, linkVars, radarVars
<1>1. TypeOK'
  BY DEF IInv, TypeOK, Loop
<1>2. AnswersBounded'
  BY DEF IInv, AnswersBounded
<1>3. MotorObeysLastSample' /\ LastSent'
  BY DEF MotorObeysLastSample, LastSent
<1>4. BeforeLoop'
  BY DEF IInv, BeforeLoop, Setup, Loop
<1> QED BY <1>1, <1>2, <1>3, <1>4 DEF IInv

\* A command enters the tty as its newest one, or main exits.
LEMMA SendIInv ==
  ASSUME IInv, Send
  PROVE  IInv'
<1> USE DEF Exit, Goto, envVars, radarVars
<1>1. toM4 \in Seq(Levels) /\ buff \in Levels /\ pc = "decide"
  BY DEF IInv, TypeOK, Send
<1>2. CASE Len(toM4) < Cap /\ toM4' = Append(toM4, buff) /\ Goto("reply")
  <2>1. /\ toM4' \in Seq(Levels)
        /\ Len(toM4') = Len(toM4) + 1
        /\ toM4'[Len(toM4')] = buff
        /\ toM4' # <<>>
    BY <1>1, <1>2, AppendFacts
  <2>2. Len(toM4) \in Nat /\ Len(toA7) \in Nat
    BY LenProperties DEF IInv, TypeOK
  <2>3. TypeOK'
    BY <1>2, <2>1, <2>2 DEF IInv, TypeOK, Send, Loop
  <2>4. AnswersBounded'
    BY <1>1, <1>2, <2>1, <2>2 DEF IInv, AnswersBounded, Send
  <2>5. MotorObeysLastSample' /\ LastSent'
    BY <2>1 DEF MotorObeysLastSample, LastSent, Send
  <2>6. BeforeLoop'
    BY <1>1, <1>2 DEF IInv, BeforeLoop, Send, Setup, Loop
  <2> QED BY <2>3, <2>4, <2>5, <2>6 DEF IInv
<1>3. CASE Exit(-5) /\ UNCHANGED toM4
  <2>1. TypeOK'
    BY <1>3 DEF IInv, TypeOK, Send
  <2>2. Len(toM4) \in Nat /\ Len(toA7) \in Nat
    BY LenProperties DEF IInv, TypeOK
  <2>3. AnswersBounded'
    BY <1>1, <1>3, <2>2 DEF IInv, AnswersBounded, Send
  <2>4. MotorObeysLastSample' /\ LastSent' /\ BeforeLoop'
    BY <1>3 DEF MotorObeysLastSample, LastSent, BeforeLoop, Setup, Loop
  <2> QED BY <2>1, <2>3, <2>4 DEF IInv
<1> QED BY <1>2, <1>3 DEF Send

\* A batch of answers leaves the tty; the bound falls back to Cap.
LEMMA ReplyIInv ==
  ASSUME IInv, Reply
  PROVE  IInv'
<1> USE DEF Exit, Goto, envVars, radarVars
<1>1. /\ toA7 \in Seq(Motors) /\ toM4 \in Seq(Levels)
      /\ Len(toA7) \in Nat /\ Len(toM4) \in Nat
      /\ Len(toM4) <= Cap /\ pc = "reply"
  BY LenProperties DEF IInv, TypeOK, Reply
<1>2. ASSUME NEW k \in 1 .. Len(toA7), toA7' = SubSeq(toA7, k + 1, Len(toA7))
      PROVE  toA7' \in Seq(Motors) /\ Len(toA7') = Len(toA7) - k
  BY <1>1, <1>2, SuffixFacts
<1>3. \A j \in 1 .. Len(toA7) : toA7[j] \in Motors
  BY <1>1, LenProperties
<1>4. TypeOK'
  BY <1>1, <1>2, <1>3 DEF IInv, TypeOK, Reply, Loop
<1>5. AnswersBounded'
  BY <1>1, <1>2, EmptySeq DEF IInv, AnswersBounded, Reply
<1>6. MotorObeysLastSample' /\ LastSent'
  BY <1>1 DEF IInv, MotorObeysLastSample, LastSent, Reply
<1>7. BeforeLoop'
  BY <1>1 DEF IInv, BeforeLoop, Reply, Setup, Loop
<1> QED BY <1>4, <1>5, <1>6, <1>7 DEF IInv

\* The M4 takes the oldest command; when it was the newest too, the motor now
\* does what main sent last.
LEMMA M4IInv ==
  ASSUME IInv, M4
  PROVE  IInv'
<1> USE DEF M4, envVars, radarVars
<1>1. /\ toM4 \in Seq(Levels) /\ toM4 # <<>>
      /\ toA7 \in Seq(Motors) /\ Len(toA7) \in Nat
  BY LenProperties DEF IInv, TypeOK
<1>2. /\ Head(toM4) = toM4[1] /\ Tail(toM4) \in Seq(Levels)
      /\ Len(Tail(toM4)) = Len(toM4) - 1
      /\ Len(toM4) \in Nat \ {0}
      /\ \A i \in 1 .. Len(toM4) - 1 : Tail(toM4)[i] = toM4[i + 1]
  BY <1>1, TailFacts
<1>3. motor' \in Motors
  BY DEF MotorFor, Motors
<1>4. toA7' \in Seq(Motors) /\ Len(toA7') = Len(toA7) + 1
  BY <1>1, <1>3, AppendFacts
<1>5. TypeOK'
  BY <1>2, <1>3, <1>4 DEF IInv, TypeOK
<1>6. AnswersBounded'
  BY <1>1, <1>2, <1>4 DEF IInv, AnswersBounded
<1>7. MotorObeysLastSample'
  <2> SUFFICES ASSUME pc \in {"reply", "sample"}, buff \in Levels,
                      Tail(toM4) = <<>>
               PROVE  motor' = MotorFor(buff)
    BY DEF MotorObeysLastSample, MotorFor
  <2>1. Len(toM4) = 1
    BY <1>2, EmptySeq
  <2> QED BY <1>1, <1>2, <2>1 DEF IInv, LastSent
<1>8. LastSent'
  <2> SUFFICES ASSUME pc \in {"reply", "sample"}, buff \in Levels,
                      Tail(toM4) # <<>>
               PROVE  Tail(toM4)[Len(Tail(toM4))] = buff
    BY DEF LastSent
  <2>1. Len(Tail(toM4)) \in Nat \ {0}
    BY <1>2, EmptySeq
  <2> QED BY <1>1, <1>2, <2>1 DEF IInv, LastSent
<1>9. BeforeLoop'
  BY DEF IInv, BeforeLoop
<1> QED BY <1>5, <1>6, <1>7, <1>8, <1>9 DEF IInv

\* People move and the radar moves its pin; both are none of the invariant.
LEMMA EnvironmentIInv ==
  ASSUME IInv, Move \/ Radar \/ UNCHANGED vars
  PROVE  IInv'
<1>1. UNCHANGED <<radarVars, pc, status, buff, linkVars, shown>>
  BY DEF Move, Radar, vars
<1>2. TypeOK'
  <2>1. person' \in BOOLEAN /\ out' \in Levels
    BY DEF IInv, TypeOK, Move, Radar, vars, envVars, Levels
  <2>2. UNCHANGED <<radarMode, roi, uartFault, pc, status, buff, toM4, toA7, motor, shown>>
    BY <1>1 DEF radarVars, linkVars
  <2> QED BY <2>1, <2>2 DEF IInv, TypeOK
<1>3. AnswersBounded' /\ MotorObeysLastSample' /\ LastSent' /\ BeforeLoop'
  BY <1>1 DEF IInv, AnswersBounded, MotorObeysLastSample, LastSent, BeforeLoop,
     radarVars, linkVars
<1> QED BY <1>2, <1>3 DEF IInv

\* Every step of the specification preserves the invariant.
LEMMA NextIInv == IInv /\ [Next]_vars => IInv'
<1> SUFFICES ASSUME IInv, [Next]_vars
             PROVE  IInv'
  OBVIOUS
<1>1. CASE Enter \/ EnterAgain \/ Param \/ Close
  BY <1>1, WriteFrameIInv
<1>2. CASE OpenUart \/ OpenGpio \/ OpenMsg
  BY <1>2, OpenIInv
<1>3. CASE Sample \/ Neither
  BY <1>3, SampleIInv
<1>4. CASE Send
  BY <1>4, SendIInv
<1>5. CASE Reply
  BY <1>5, ReplyIInv
<1>6. CASE M4
  BY <1>6, M4IInv
<1>7. CASE Move \/ Radar \/ UNCHANGED vars
  BY <1>7, EnvironmentIInv
<1> QED BY <1>1, <1>2, <1>3, <1>4, <1>5, <1>6, <1>7 DEF Next, App

LEMMA SpecIInv == Spec => []IInv
  BY InitIInv, NextIInv, PTL DEF Spec

\* Type correctness of the application for every Cap and every set of Faults.
THEOREM TypeCorrect == Spec => []TypeOK
<1>1. IInv => TypeOK
  BY DEF IInv
<1> QED BY <1>1, SpecIInv, PTL

\* The unread answers of the M4 stay bounded by the tty's size (rd03uart.c:314-387).
THEOREM AnswersStayBounded == Spec => []AnswersBounded
<1>1. IInv => AnswersBounded
  BY DEF IInv
<1> QED BY <1>1, SpecIInv, PTL

\* With no command under way the motor does what main sent last.
THEOREM MotorObeys == Spec => []MotorObeysLastSample
<1>1. IInv => MotorObeysLastSample
  BY DEF IInv
<1> QED BY <1>1, SpecIInv, PTL

\* The radar's mode follows main's progress while no other program is there to
\* interfere (RadarShare has them).
RadarSetUp ==
  ~uartFault =>
    /\ pc \in {"enterAgain", "param", "close"} => radarMode = "command"
    /\ pc \in {"close", "openGpio", "openMsg"} \cup Loop => roi = "set"
    /\ pc \in {"openGpio", "openMsg"} \cup Loop => radarMode = "run"

LEMMA RadarSetUpNext == IInv /\ RadarSetUp /\ [Next]_vars => RadarSetUp'
<1> SUFFICES ASSUME IInv, RadarSetUp, [Next]_vars
             PROVE  RadarSetUp'
  OBVIOUS
<1> USE DEF RadarSetUp, Goto, Exit, Loop
<1>1. CASE Enter \/ EnterAgain \/ Param \/ Close
  BY <1>1 DEF Enter, EnterAgain, Param, Close, WriteFrame, RadarGets
<1>2. CASE OpenUart \/ OpenGpio \/ OpenMsg
  BY <1>2 DEF OpenUart, OpenGpio, OpenMsg, Open, radarVars
<1>3. CASE Sample \/ Neither \/ Send \/ Reply
  BY <1>3 DEF Sample, Neither, Send, Reply, radarVars
<1>4. CASE M4 \/ Move \/ Radar \/ UNCHANGED vars
  BY <1>4 DEF M4, Move, Radar, vars, radarVars
<1> QED BY <1>1, <1>2, <1>3, <1>4 DEF Next, App

\* Only a UART fault leaves the radar unconfigured or dead in main's loop.
THEOREM RadarIsReady == Spec => []RadarReady
<1>1. Init => RadarSetUp
  BY DEF Init, RadarSetUp, Loop
<1>2. RadarSetUp => RadarReady
  BY DEF RadarSetUp, RadarReady
<1> QED BY <1>1, <1>2, RadarSetUpNext, SpecIInv, PTL DEF Spec

-----------------------------------------------------------------------------
(* The application implements MotorRelay.                                      *)

USE DEF pipe, live

\* The initial states map to initial states of the relay.
LEMMA RelayInit == Init => Relay!Init
  BY DEF Init, Relay!Init, Relay!Levels, Levels

\* Steps that touch neither pin, motor, commands nor loop: the relay stutters.
LEMMA RelayStutter ==
  ASSUME UNCHANGED <<out, motor, toM4, buff>>,
         pc # "decide" \/ buff \notin Levels,
         pc' # "decide" \/ buff \notin Levels,
         pc = "exited" <=> pc' = "exited"
  PROVE  UNCHANGED Relay!vars
  BY DEF Relay!vars

\* Exits that drop no sample: the relay gives up.
LEMMA RelayExit ==
  ASSUME UNCHANGED <<out, motor, toM4, buff>>,
         pc \notin {"decide", "exited"}, pc' = "exited"
  PROVE  Relay!GiveUp
  BY DEF Relay!GiveUp

LEMMA RelaySetup ==
  ASSUME IInv,
         \/ OpenUart \/ Enter \/ EnterAgain \/ Param \/ Close
         \/ OpenGpio \/ OpenMsg
  PROVE  [Relay!Next]_(Relay!vars)
<1>1. /\ pc \in Setup
      /\ pc' \in Setup \cup {"sample", "exited"}
      /\ UNCHANGED <<out, motor, toM4, buff>>
  BY DEF OpenUart, Enter, EnterAgain, Param, Close, OpenGpio, OpenMsg, Open,
     WriteFrame, Goto, Exit, Setup, envVars, linkVars
<1>2. CASE pc' = "exited"
  BY <1>1, <1>2, RelayExit DEF Relay!Next, Setup
<1>3. CASE pc' # "exited"
  BY <1>1, <1>3, RelayStutter DEF Setup
<1> QED BY <1>2, <1>3

\* Reading the pin puts its level on the way; an error of the pin does not.
LEMMA RelaySample ==
  ASSUME IInv, Sample
  PROVE  [Relay!Next]_(Relay!vars)
<1>1. /\ out \in Levels /\ Len(toM4) <= Cap /\ Len(toM4) \in Nat
      /\ Bad \notin Levels
  BY LenProperties DEF IInv, TypeOK, Levels, Bad
<1>2. /\ pc = "sample" /\ pc' = "decide"
      /\ UNCHANGED <<out, motor, toM4>>
  BY DEF Sample, Goto, envVars, linkVars
<1>3. CASE buff' = out
  <2>1. pipe = toM4 /\ pipe' = Append(toM4, out)
    BY <1>1, <1>2, <1>3
  <2> QED BY <1>1, <1>2, <2>1 DEF Relay!Next, Relay!Sense
<1>4. CASE buff' = Bad
  BY <1>1, <1>2, <1>4 DEF Relay!vars
<1> QED BY <1>3, <1>4 DEF Sample

\* Writing moves the sample into the tty, where the relay has it already; main
\* exits with the sample in hand otherwise.
LEMMA RelaySend ==
  ASSUME IInv, Send
  PROVE  [Relay!Next]_(Relay!vars)
<1>1. /\ pc = "decide" /\ buff \in Levels /\ UNCHANGED <<out, motor, buff>>
      /\ toM4 \in Seq(Levels)
  BY SMTT(30) DEF IInv, TypeOK, Send, envVars
<1>2. CASE toM4' = Append(toM4, buff) /\ Goto("reply")
  BY <1>1, <1>2 DEF Goto, Relay!vars
<1>3. CASE Exit(-5) /\ UNCHANGED toM4
  <2>1. pipe = Append(toM4, buff) /\ pipe' = toM4
    BY <1>1, <1>3 DEF Exit
  <2>2. /\ pipe # <<>>
        /\ SubSeq(pipe, 1, Len(pipe) - 1) = toM4
    BY <1>1, <2>1, AppendProperties, LenProperties
  <2> QED BY <1>1, <1>3, <2>1, <2>2 DEF Exit, Relay!Next, Relay!GiveUp
<1> QED BY <1>2, <1>3 DEF Send

LEMMA RelayLoop ==
  ASSUME IInv, Neither \/ Reply
  PROVE  [Relay!Next]_(Relay!vars)
<1>1. /\ UNCHANGED <<out, motor, toM4, buff>>
      /\ pc = "reply" \/ (pc = "decide" /\ buff \notin Levels)
      /\ pc' = "sample" \/ (pc = "reply" /\ pc' = "exited")
  BY DEF Neither, Reply, Goto, Exit, envVars, linkVars
<1>2. CASE pc' = "exited"
  BY <1>1, <1>2, RelayExit DEF Relay!Next
<1>3. CASE pc' = "sample"
  BY <1>1, <1>3, RelayStutter
<1> QED BY <1>1, <1>2, <1>3

\* The M4 acts on the oldest level, whether or not a newer one is in main's hand.
LEMMA RelayM4 ==
  ASSUME IInv, M4
  PROVE  [Relay!Next]_(Relay!vars)
<1>1. /\ toM4 \in Seq(Levels) /\ toM4 # <<>>
      /\ UNCHANGED <<out, pc, buff>>
      /\ motor' = MotorFor(Head(toM4)) /\ toM4' = Tail(toM4)
  BY DEF IInv, TypeOK, M4, envVars
<1>2. \A e \in Levels : /\ Append(toM4, e) # <<>>
                        /\ Head(Append(toM4, e)) = Head(toM4)
                        /\ Tail(Append(toM4, e)) = Append(Tail(toM4), e)
  BY <1>1, HeadTailAppend, AppendProperties
<1>3. /\ pipe # <<>> /\ Head(pipe) = Head(toM4)
      /\ pipe' = Tail(pipe)
  BY <1>1, <1>2
<1> QED BY <1>1, <1>3 DEF Relay!Next, Relay!Actuate, MotorFor, Relay!MotorFor

LEMMA RelayEnvironment ==
  ASSUME IInv, Move \/ Radar \/ UNCHANGED vars
  PROVE  [Relay!Next]_(Relay!vars)
<1>1. UNCHANGED <<motor, toM4, buff, pc>>
  BY DEF Move, Radar, vars, linkVars
<1>2. out' \in Levels
  BY DEF Move, Radar, vars, envVars, IInv, TypeOK, Levels
<1> QED BY <1>1, <1>2 DEF Relay!Next, Relay!Change, Relay!Levels, Levels

\* Every step of the application is a step of the relay, or none of its business.
LEMMA RelayNext == IInv /\ [Next]_vars => [Relay!Next]_(Relay!vars)
<1> SUFFICES ASSUME IInv, [Next]_vars
             PROVE  [Relay!Next]_(Relay!vars)
  OBVIOUS
<1>1. CASE \/ OpenUart \/ Enter \/ EnterAgain \/ Param \/ Close
           \/ OpenGpio \/ OpenMsg
  BY <1>1, RelaySetup
<1>2. CASE Sample
  BY <1>2, RelaySample
<1>3. CASE Send
  BY <1>3, RelaySend
<1>4. CASE Neither \/ Reply
  BY <1>4, RelayLoop
<1>5. CASE M4
  BY <1>5, RelayM4
<1>6. CASE Move \/ Radar \/ UNCHANGED vars
  BY <1>6, RelayEnvironment
<1> QED BY <1>1, <1>2, <1>3, <1>4, <1>5, <1>6 DEF Next, App

\* rd03uart.c implements the relay: the motor takes levels of the OUT pin only,
\* in the pin's order, each at most once, and main drops a level only to exit.
THEOREM ImplementsRelay == Spec => RelaySpec
  BY RelayInit, RelayNext, SpecIInv, PTL DEF Spec, RelaySpec, Relay!Spec
=============================================================================
