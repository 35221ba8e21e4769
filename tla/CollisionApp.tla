---------------------------- MODULE CollisionApp ----------------------------
(***************************************************************************)
(* Anti-collision/src-uart/rd03uart.c: the application that configures the *)
(* RD-03 radar over the UART, samples the radar's OUT pin through          *)
(* /dev/rd04gpio1 (gpio.c), tells the Cortex-M4 over /dev/ttyRPMSG0 whether *)
(* somebody is there, and shows the motor state the M4 answers with.       *)
(*                                                                         *)
(* A step is one system call of the application with the code up to the    *)
(* next one.  The radar, the tty with its two directions and the M4        *)
(* firmware are outside src/ and are modelled from how rd03uart.c uses     *)
(* them: frames are taken in order, a tty write fails with EAGAIN when Cap  *)
(* messages wait, and the M4 answers every command with its motor state.   *)
(* The number of arguments is correct (main returns -1 otherwise).         *)
(***************************************************************************)
EXTENDS Integers, Sequences

CONSTANTS
  Cap,      \* messages the tty holds towards the M4
  Faults    \* the kinds of system call that may fail

FaultKinds == {"open", "uart", "gpio", "msg"}

ASSUME CapAssumption == Cap \in Nat \ {0}
ASSUME FaultsAssumption == Faults \subseteq FaultKinds

VARIABLES
  person,     \* somebody stands in front of the car
  out,        \* level of the OUT pin
  radarMode,  \* "run", or "command" between the enter and the close frame
  roi,        \* farthest distance gate: "default", or "set" by the application
  uartFault,  \* history: some frame was cut short or not sent
  pc,         \* the system call main makes next, or "exited"
  status,     \* main's exit status, 0 while it runs
  buff,       \* the int main reads the pin into
  toM4,       \* commands in the tty, oldest first
  toA7,       \* the M4's answers, oldest first
  motor,      \* the motor as the M4 drives it
  shown       \* the motor state printed last

radarVars == <<radarMode, roi, uartFault>>
linkVars  == <<toM4, toA7, motor>>
envVars   == <<person, out>>
vars == <<envVars, radarVars, pc, status, buff, linkVars, shown>>

Levels == {0, 1}
Bad    == -22            \* a negative errno of gpio_get_value
Motors == {"run", "stop"}
MotorFor(level) == IF level = 1 THEN "stop" ELSE "run"

Setup == {"openUart", "enter", "enterAgain", "param", "close", "openGpio", "openMsg"}
Loop  == {"sample", "decide", "reply"}

Init ==
  /\ person \in BOOLEAN
  /\ out \in Levels
  /\ radarMode \in {"run", "command"}   \* as an earlier program left it
  /\ roi = "default"
  /\ uartFault = FALSE
  /\ pc = "openUart"
  /\ status = 0
  /\ buff = Bad                \* uninitialised in main; read before it is used
  /\ toM4 = <<>> /\ toA7 = <<>>
  /\ motor = "run"
  /\ shown = "none"

Exit(code) == pc' = "exited" /\ status' = code
Goto(next) == pc' = next /\ UNCHANGED status

\* An open() that leads to `next`, or exits with `code`.
Open(call, next, code) ==
  /\ pc = call
  /\ \/ Goto(next)
     \/ "open" \in Faults /\ Exit(code)
  /\ UNCHANGED <<envVars, radarVars, buff, linkVars, shown>>

OpenUart == Open("openUart", "enter", -2)
OpenGpio == Open("openGpio", "openMsg", -3)
OpenMsg  == Open("openMsg", "sample", -3)

\* The radar takes an intact frame; a parameter counts in command mode only.
RadarGets(frame) ==
  /\ radarMode' = CASE frame = "enter" -> "command"
                    [] frame = "close" -> "run"
                    [] OTHER -> radarMode
  /\ roi' = IF frame = "param" /\ radarMode = "command" THEN "set" ELSE roi

\* write(fd, frame) on the non-blocking UART.  A short write returns a count,
\* which the code takes for success: only -1 goes to `failed`.
WriteFrame(call, frame, next, failed) ==
  /\ pc = call
  /\ \/ RadarGets(frame) /\ Goto(next) /\ UNCHANGED uartFault
     \/ /\ "uart" \in Faults
        /\ uartFault' = TRUE
        /\ \E target \in {next, failed} : Goto(target)
        /\ UNCHANGED <<radarMode, roi>>
  /\ UNCHANGED <<envVars, buff, linkVars, shown>>

\* inter_cmd sends its frame twice; RD_03_Write_cmd goes on when it fails, but
\* returns without close_cmd when its own frame fails; main goes on anyway.
Enter      == WriteFrame("enter", "enter", "enterAgain", "param")
EnterAgain == WriteFrame("enterAgain", "enter", "param", "param")
\* Without the call of close_cmd.
MutantParam == WriteFrame("param", "param", "openGpio", "openGpio")
Param      == WriteFrame("param", "param", "close", "openGpio")
Close      == WriteFrame("close", "close", "openGpio", "openGpio")

\* A failed read that leaves the previous sample in place.
MutantSample ==
  /\ pc = "sample"
  /\ buff' \in {buff, out}
  /\ Goto("decide")
  /\ UNCHANGED <<envVars, radarVars, linkVars, shown>>

\* read(fd_gpio): rd04_read copies the level of gpiodev[1] and returns 0.
Sample ==
  /\ pc = "sample"
  /\ \/ buff' = out
     \/ "gpio" \in Faults /\ buff' = Bad
  /\ Goto("decide")
  /\ UNCHANGED <<envVars, radarVars, linkVars, shown>>

\* The two commands swapped, as for an active-low pin.
MutantSend ==
  /\ pc = "decide"
  /\ buff \in Levels
  /\ \/ Len(toM4) < Cap /\ toM4' = Append(toM4, 1 - buff) /\ Goto("reply")
     \/ /\ Len(toM4) = Cap \/ "msg" \in Faults
        /\ Exit(-5)
        /\ UNCHANGED toM4
  /\ UNCHANGED <<envVars, radarVars, buff, toA7, motor, shown>>

\* A write that takes a full tty for a free one.
MutantSendFull ==
  /\ pc = "decide"
  /\ buff \in Levels
  /\ \/ toM4' = Append(toM4, buff) /\ Goto("reply")
     \/ "msg" \in Faults /\ Exit(-5) /\ UNCHANGED toM4
  /\ UNCHANGED <<envVars, radarVars, buff, toA7, motor, shown>>

\* write(fd_msg, "1" or "0"): EAGAIN on a full tty ends main like any error.
Send ==
  /\ pc = "decide"
  /\ buff \in Levels
  /\ \/ Len(toM4) < Cap /\ toM4' = Append(toM4, buff) /\ Goto("reply")
     \/ /\ Len(toM4) = Cap \/ "msg" \in Faults
        /\ Exit(-5)
        /\ UNCHANGED toM4
  /\ UNCHANGED <<envVars, radarVars, buff, toA7, motor, shown>>

\* Neither 0 nor 1: main samples again at once.
Neither ==
  /\ pc = "decide"
  /\ buff \notin Levels
  /\ Goto("sample")
  /\ UNCHANGED <<envVars, radarVars, buff, linkVars, shown>>

\* The answer is read when somebody is there only.
MutantReply ==
  /\ pc = "reply"
  /\ Goto("sample")
  /\ IF buff = 1 /\ toA7 # <<>>
       THEN toA7' = <<>> /\ shown' = toA7[1]
       ELSE UNCHANGED <<toA7, shown>>
  /\ UNCHANGED <<envVars, radarVars, buff, toM4, motor>>

\* The answer is printed when somebody is there only.
MutantReplyShown ==
  /\ pc = "reply"
  /\ Goto("sample")
  /\ toA7' = <<>>
  /\ IF buff = 1 /\ toA7 # <<>> THEN shown' = toA7[1] ELSE UNCHANGED shown
  /\ UNCHANGED <<envVars, radarVars, buff, toM4, motor>>

\* read(fd_msg) takes a batch of answers, or EAGAIN; the "%s" shows one.
Reply ==
  /\ pc = "reply"
  /\ \/ toA7 = <<>> /\ Goto("sample") /\ UNCHANGED <<toA7, shown>>
     \/ \E k \in 1 .. Len(toA7) :
          /\ toA7' = SubSeq(toA7, k + 1, Len(toA7))
          /\ \E j \in 1 .. k : shown' = toA7[j]
          /\ Goto("sample")
     \/ "msg" \in Faults /\ Exit(-4) /\ UNCHANGED <<toA7, shown>>
  /\ UNCHANGED <<envVars, radarVars, buff, toM4, motor>>

App == \/ OpenUart \/ Enter \/ EnterAgain \/ Param \/ Close
       \/ OpenGpio \/ OpenMsg \/ Sample \/ Send \/ Neither \/ Reply

\* The M4 takes one command, drives the motor and answers with its state.
M4 ==
  /\ toM4 # <<>>
  /\ motor' = MotorFor(Head(toM4))
  /\ toM4' = Tail(toM4)
  /\ toA7' = Append(toA7, motor')
  /\ UNCHANGED <<envVars, radarVars, pc, status, buff, shown>>

Move ==
  /\ person' = ~person
  /\ UNCHANGED <<out, radarVars, pc, status, buff, linkVars, shown>>

\* The radar drives OUT, high when it sees a person, unless in command mode.
Radar ==
  /\ radarMode = "run"
  /\ out' = IF person THEN 1 ELSE 0
  /\ UNCHANGED <<person, radarVars, pc, status, buff, linkVars, shown>>

Next == App \/ M4 \/ Move \/ Radar

Spec == Init /\ [][Next]_vars

\* main never blocks (both reads and the tty writes return at once, it sleeps
\* for a second), the M4 polls its channel, the radar measures continuously.
Fairness == WF_vars(App) /\ WF_vars(M4) /\ WF_vars(Radar)

FairSpec == Spec /\ Fairness
-----------------------------------------------------------------------------
\* Every variable keeps its type; the tty never holds more than Cap commands.
TypeOK ==
  /\ person \in BOOLEAN /\ out \in Levels
  /\ radarMode \in {"run", "command"}
  /\ roi \in {"default", "set"}
  /\ uartFault \in BOOLEAN
  /\ pc \in Setup \cup Loop \cup {"exited"}
  /\ status \in {0, -2, -3, -4, -5}
  /\ buff \in Levels \cup {Bad}
  /\ toM4 \in Seq(Levels) /\ Len(toM4) <= Cap
  /\ toA7 \in Seq(Motors)
  /\ motor \in Motors
  /\ shown \in Motors \cup {"none"}

\* Both directions of the tty together never hold more than Cap messages, and
\* one more between main's write and the end of the read that follows it: reading
\* once per write is enough to keep the unread answers of the M4 bounded.
AnswersBounded ==
  Len(toM4) + Len(toA7) <= IF pc \in {"reply", "exited"} THEN Cap + 1 ELSE Cap

\* When no command is under way, the motor does what the sample main sent last
\* asks for: none was lost, overtaken or answered for another one.
MotorObeysLastSample ==
  pc \in {"reply", "sample"} /\ buff \in Levels /\ toM4 = <<>>
    => motor = MotorFor(buff)

\* main enters its loop with a radar that measures, its gate set, unless the
\* UART failed: only a fault leaves the radar in command mode, where OUT is dead.
RadarReady ==
  pc \in Loop /\ ~uartFault => radarMode = "run" /\ roi = "set"

\* The promise of MotorRelay: a level is on its way to the motor from the moment
\* main has read it.
pipe == IF pc = "decide" /\ buff \in Levels THEN Append(toM4, buff) ELSE toM4
live == pc # "exited"

Relay == INSTANCE MotorRelay WITH Bound <- Cap + 1
RelaySpec == Relay!Spec

\* What main cannot do without: frames that arrive, and, again and again, a read
\* of the pin that succeeds.  Reads may fail for ever in between.
Sensing == []~uartFault /\ []<>(buff \in Levels)

\* When the person stays, or stays away, the motor is eventually stopped, or
\* running, for good, provided main goes on.
MotorFollowsPerson ==
  \A here \in BOOLEAN :
    Sensing /\ <>[](person = here)
      => <>[](pc = "exited" \/ motor = IF here THEN "stop" ELSE "run")

\* ... and main eventually prints that state of the motor and no other.
DisplayFollowsPerson ==
  \A here \in BOOLEAN :
    Sensing /\ <>[](person = here)
      => <>[](pc = "exited" \/ shown = IF here THEN "stop" ELSE "run")

\* README.md:1 says the motor slows down or stops when a person appears.  Without
\* "provided main goes on" this fails: see README, findings.
PersonStopsMotor == <>[]person => <>[](motor = "stop")
=============================================================================
