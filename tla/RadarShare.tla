----------------------------- MODULE RadarShare -----------------------------
(***************************************************************************)
(* The application of CollisionApp on a UART that other programs of the    *)
(* repository use too: the configuration tool (src-uart/rd03uart-set.c)    *)
(* and the first version of the application (src/rd03uart.c), started at   *)
(* any time, any number of each.  Nothing locks the UART or the radar: the *)
(* frames of all programs reach it in the order of their write calls.      *)
(*                                                                         *)
(* Every program sends sections enter, enter, <frame>, close.  The first   *)
(* section of all of them sets the same distance gate.                     *)
(***************************************************************************)
EXTENDS CollisionApp, FiniteSets

CONSTANTS
  SetTools,    \* runs of the configuration tool
  FirstTools,  \* runs of the first version of the application
  MaxTools     \* bound: how many of them are ever started

Tools == SetTools \cup FirstTools

ASSUME ToolsAssumption == SetTools \cap FirstTools = {}

VARIABLES
  at,      \* per tool: the frame it sends next, or one of the positions below
  report   \* the radar sends reports over the UART

toolVars == <<at, report>>
allVars == <<vars, at, report>>

NotOpened == -1   \* exited with -2: the UART could not be opened
ToOpen    == 0
ToMessage == 9    \* opens /dev/ttyRPMSG0
ToData    == 10   \* reads a report from the radar
Left      == 11   \* exited later

\* close_cmd called before the parameter is written.
MutantFrame == <<"enter", "enter", "close", "param", "enter", "enter", "mode", "close">>
Frame == <<"enter", "enter", "param", "close", "enter", "enter", "mode", "close">>

\* The first version sends the first section only, and then spins for ever.
LastFrame(t) == IF t \in SetTools THEN 8 ELSE 4

Header == <<"fd", "fc", "fb", "fa">>

\* RD_03_systemMode leaves the third byte of the header out.
HeaderOf(frame) == IF frame = "mode" THEN <<"fd", "fc", "fa">> ELSE Header

ShareInit ==
  /\ Init
  /\ at = [t \in Tools |-> ToOpen]
  /\ report = FALSE

Advance(t, position) == at' = [at EXCEPT ![t] = position]

\* open() of the UART: non-blocking in the tool, blocking in the first version.
ToolOpen(t) ==
  /\ at[t] = ToOpen
  /\ Cardinality({u \in Tools : at[u] # ToOpen}) < MaxTools
  /\ \/ Advance(t, 1)
     \/ "open" \in Faults /\ Advance(t, NotOpened)
  /\ UNCHANGED <<vars, report>>

\* A frame without the header is noise to the radar.
RadarTakes(frame) ==
  IF HeaderOf(frame) = Header
    THEN /\ RadarGets(frame)
         /\ report' = (report \/ (frame = "mode" /\ radarMode = "command"))
    ELSE UNCHANGED <<radarMode, roi, report>>

\* A failed close_cmd that takes the next section's first frame with it.
MutantAfterFailure(i) == i + 2

\* A failed inter_cmd goes on with the section's own frame, a failed own frame
\* leaves the section without close_cmd.
AfterFailure(i) == IF i % 2 = 1 THEN i + 2 ELSE i + 1

\* The tool without the close of its second section.
MutantToolWrite(t) ==
  /\ at[t] \in 1 .. LastFrame(t)
  /\ \/ /\ RadarTakes(Frame[at[t]])
        /\ Advance(t, IF at[t] = 7 THEN ToMessage ELSE at[t] + 1)
        /\ UNCHANGED uartFault
     \/ /\ "uart" \in Faults
        /\ uartFault' = TRUE
        /\ \E next \in {at[t] + 1, AfterFailure(at[t])} : Advance(t, next)
        /\ UNCHANGED <<radarMode, roi, report>>
  /\ UNCHANGED <<envVars, pc, status, buff, linkVars, shown>>

\* write(fd, frame), whole or not at all as for the application.
ToolWrite(t) ==
  /\ at[t] \in 1 .. LastFrame(t)
  /\ \/ /\ RadarTakes(Frame[at[t]])
        /\ Advance(t, at[t] + 1)
        /\ UNCHANGED uartFault
     \/ /\ "uart" \in Faults
        /\ uartFault' = TRUE
        /\ \E next \in {at[t] + 1, AfterFailure(at[t])} : Advance(t, next)
        /\ UNCHANGED <<radarMode, roi, report>>
  /\ UNCHANGED <<envVars, pc, status, buff, linkVars, shown>>

ToolMessage(t) ==
  /\ at[t] = ToMessage
  /\ Advance(t, ToData) \/ ("open" \in Faults /\ Advance(t, Left))
  /\ UNCHANGED <<vars, report>>

\* read_data never succeeds: it asks for as many bytes as a pointer has, so the
\* tail it compares is never there.  main returns -1 before it tells the M4.
ToolData(t) ==
  /\ at[t] = ToData
  /\ Advance(t, Left)
  /\ UNCHANGED <<vars, report>>

Tool(t) ==
  \/ ToolOpen(t) \/ ToolWrite(t)
  \/ t \in SetTools /\ (ToolMessage(t) \/ ToolData(t))

ShareNext ==
  \/ Next /\ UNCHANGED toolVars
  \/ \E t \in Tools : Tool(t)

ShareSpec == ShareInit /\ [][ShareNext]_allVars

\* No call of a tool waits for another process.
ShareFairness ==
  /\ WF_allVars(App /\ UNCHANGED toolVars)
  /\ WF_allVars(M4 /\ UNCHANGED toolVars)
  /\ WF_allVars(Radar /\ UNCHANGED toolVars)
  /\ \A t \in Tools : WF_allVars(Tool(t))

FairShareSpec == ShareSpec /\ ShareFairness
-----------------------------------------------------------------------------
(* Who is in the middle of a section, and who has finished one. *)

ToolInside(t) == at[t] \in {2, 3, 4, 6, 7, 8}
AppInside == pc \in {"enterAgain", "param", "close"}
Inside == AppInside \/ \E t \in Tools : ToolInside(t)

ToolClosed(t) == at[t] >= 5
AppClosed ==
  \/ pc \in {"openGpio", "openMsg"} \cup Loop
  \/ pc = "exited" /\ status # -2
Closed == AppClosed \/ \E t \in Tools : ToolClosed(t)

\* The tools stay at positions of their program.
ShareTypeOK ==
  /\ at \in [Tools -> NotOpened .. Left]
  /\ \A t \in FirstTools : at[t] <= LastFrame(t) + 1
  /\ report \in BOOLEAN

\* However the sections of the programs overlap, and whatever mode an earlier
\* program left: once one has been closed and none is under way, the radar
\* measures, unless a frame failed.  A program's own enter and close are never
\* left unbalanced by another's.
RadarSettles == Closed /\ ~Inside /\ ~uartFault => radarMode = "run"

\* One program's close can take the radar out of command mode before another's
\* parameter arrives, which is then ignored.  The gate is set all the same from
\* the first close on: the program that closes first had its parameter taken.
GateSet == Closed /\ ~uartFault => roi = "set"

\* rd03uart-set.c:295 calls RD_03_systemMode(0x64) for the report mode, and the
\* radar is in it when a tool that was alone has sent both sections.
ReportModeEntered ==
  \A t \in SetTools :
    /\ at[t] = ToMessage /\ ~uartFault
    /\ pc = "openUart" /\ \A u \in Tools \ {t} : at[u] = ToOpen
    => report
=============================================================================
