----------------------------- MODULE MotorRelay -----------------------------
(***************************************************************************)
(* What the collision-avoidance car promises about its motor, without the  *)
(* application, the serial tty or the messages: the motor only ever takes  *)
(* commands that were levels of the radar's OUT pin, in the order the pin  *)
(* had them, each at most once, and at most Bound of them are on their     *)
(* way.  Once the relay has given up, the motor may finish the commands    *)
(* that are under way but learns of no new level.                          *)
(***************************************************************************)
EXTENDS Naturals, Sequences

CONSTANT Bound    \* sampled levels the motor has not yet acted on, at least 1

VARIABLES
  out,     \* level of the OUT pin: 1 when the radar sees a person
  motor,   \* "run" or "stop"
  pipe,    \* sampled levels on their way to the motor, oldest first
  live     \* the relay still samples the pin

vars == <<out, motor, pipe, live>>

Levels == {0, 1}
MotorFor(level) == IF level = 1 THEN "stop" ELSE "run"

Init ==
  /\ out \in Levels
  /\ motor = "run"
  /\ pipe = <<>>
  /\ live = TRUE

Change ==
  /\ out' \in Levels
  /\ UNCHANGED <<motor, pipe, live>>

Sense ==
  /\ live
  /\ Len(pipe) < Bound
  /\ pipe' = Append(pipe, out)
  /\ UNCHANGED <<out, motor, live>>

Actuate ==
  /\ pipe # <<>>
  /\ motor' = MotorFor(Head(pipe))
  /\ pipe' = Tail(pipe)
  /\ UNCHANGED <<out, live>>

\* Giving up may lose the level sampled last, never an earlier one.
GiveUp ==
  /\ live
  /\ live' = FALSE
  /\ \/ pipe' = pipe
     \/ pipe # <<>> /\ pipe' = SubSeq(pipe, 1, Len(pipe) - 1)
  /\ UNCHANGED <<out, motor>>

Next == Change \/ Sense \/ Actuate \/ GiveUp

Spec == Init /\ [][Next]_vars
=============================================================================
