----------------------------- MODULE DebouncedKey -----------------------------
(***************************************************************************)
(* What both key drivers promise about the key, without interrupts, timers *)
(* or locks: an edge of the pin owes its users a debounce; the level they   *)
(* know changes only when a debounce is owed; and no debounce is written   *)
(* off before the level is the pin's.  A driver may stop at any time and    *)
(* start anew, and knows no level in between.                              *)
(***************************************************************************)
EXTENDS Integers

VARIABLES
  pin,    \* level of the pin, 0 when the key is down
  live,   \* a level is known
  level,  \* the level that is known; 1 while none is
  owed    \* edges have not been accounted for

vars == <<pin, live, level, owed>>

Levels == {0, 1}

Init ==
  /\ pin \in Levels
  /\ live = FALSE /\ level = 1 /\ owed = FALSE

Edge ==
  /\ pin' = 1 - pin
  /\ owed' = live
  /\ UNCHANGED <<live, level>>

\* The level may be one that the pin had before, if a debounce is still owed.
Debounce ==
  /\ live => owed
  /\ live' = TRUE
  /\ level' \in Levels /\ owed' \in BOOLEAN
  /\ owed' \/ level' = pin
  /\ UNCHANGED pin

Stop ==
  /\ live
  /\ live' = FALSE /\ level' = 1 /\ owed' = FALSE
  /\ UNCHANGED pin

Next == Edge \/ Debounce \/ Stop

Spec == Init /\ [][Next]_vars
=============================================================================
