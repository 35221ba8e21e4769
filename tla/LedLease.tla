------------------------------ MODULE LedLease ------------------------------
(***************************************************************************)
(* What the timer driver promises about the LED, without the module, the   *)
(* system calls or the callback: one opener at a time has it on lease,     *)
(* shares it with whom it likes, and gives it back when the last of them   *)
(* leaves.  Only users of a lease set the LED blinking; it may go on until  *)
(* the one that left last has seen to it.  An opening that fails half-way   *)
(* loses the lease for good.  The note that says which LED it is may be     *)
(* mislaid and found again at any time: who gives the lease back without it *)
(* loses it, and a lease granted without it makes all promises void.        *)
(***************************************************************************)
CONSTANT Tasks

VARIABLES
  lease,    \* "free", "opening", "open", "closing", "lost" or "void"
  users,    \* who has it
  leaving,  \* who gave it back and has not yet stopped the blinking
  ticking,  \* the LED blinks
  mislaid   \* nobody knows for now which LED the lease is about

vars == <<lease, users, leaving, ticking, mislaid>>

Init ==
  /\ lease = "free"
  /\ users = {} /\ leaving = {}
  /\ ticking = FALSE
  /\ mislaid = TRUE

Grant(t) ==
  /\ lease = "free" /\ t \notin leaving /\ ~mislaid
  /\ lease' = "opening" /\ users' = {t}
  /\ UNCHANGED <<leaving, ticking, mislaid>>

Open ==
  /\ lease = "opening"
  /\ lease' = "open"
  /\ UNCHANGED <<users, leaving, ticking, mislaid>>

Lose ==
  /\ lease = "opening"
  /\ lease' = "lost" /\ users' = {}
  /\ UNCHANGED <<leaving, ticking, mislaid>>

Share(t) ==
  /\ lease = "open" /\ t \notin users \cup leaving
  /\ users' = users \cup {t}
  /\ UNCHANGED <<lease, leaving, ticking, mislaid>>

Leave(t) ==
  /\ lease = "open" /\ t \in users
  /\ IF users = {t} THEN lease' = "closing" /\ UNCHANGED users
                    ELSE users' = users \ {t} /\ UNCHANGED lease
  /\ UNCHANGED <<leaving, ticking, mislaid>>

GiveBack(t) ==
  /\ lease = "closing" /\ t \in users
  /\ lease' = IF mislaid THEN "lost" ELSE "free"
  /\ users' = {}
  /\ leaving' = leaving \cup {t}
  /\ UNCHANGED <<ticking, mislaid>>

Start ==
  /\ lease = "open"
  /\ ticking' = TRUE
  /\ UNCHANGED <<lease, users, leaving, mislaid>>

Stop ==
  /\ lease = "open"
  /\ ticking' = FALSE
  /\ UNCHANGED <<lease, users, leaving, mislaid>>

\* The last one to leave stops the blinking, whoever has the LED by then.
Quiet(t) ==
  /\ t \in leaving
  /\ leaving' = leaving \ {t}
  /\ ticking' = FALSE
  /\ UNCHANGED <<lease, users, mislaid>>

\* A failed opening mislays the note, the next one that looks finds it again.
Mislay ==
  /\ mislaid' = ~mislaid
  /\ UNCHANGED <<lease, users, leaving, ticking>>

\* A lease granted without the note.
Void ==
  /\ mislaid
  /\ lease' = "void"
  /\ users' = {} /\ leaving' = {}
  /\ ticking' = FALSE
  /\ UNCHANGED mislaid

Use(t) == Grant(t) \/ Share(t) \/ Leave(t) \/ GiveBack(t) \/ Quiet(t)

Next == Open \/ Lose \/ Start \/ Stop \/ Mislay \/ Void \/ \E t \in Tasks : Use(t)

Spec == Init /\ [][Next]_vars
=============================================================================
