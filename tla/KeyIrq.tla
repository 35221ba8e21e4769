------------------------------- MODULE KeyIrq -------------------------------
(***************************************************************************)
(* Drive/irq/keyirq.c: a key behind a character device.  Every edge of the *)
(* pin restarts a debounce timer; its callback compares the pin with the   *)
(* last debounced level and leaves KEY_PRESS, KEY_RELEASE or KEY_KEEP in    *)
(* `status`, which read() hands out and resets.  All of it runs against     *)
(* mykey_init and mykey_exit.                                              *)
(*                                                                         *)
(* A step is one kernel call, or a critical section of key.spinlock, except *)
(* that the callback's section is cut where it has read the pin.  A crash  *)
(* of the kernel is followed by a reboot.                                  *)
(***************************************************************************)
EXTENDS Integers

CONSTANT Faults    \* what may fail

FaultKinds == {"irq", "chrdev", "device", "copy"}

ASSUME FaultsAssumption == Faults \subseteq FaultKinds

VARIABLES
  phase,     \* where mykey_init or mykey_exit is, "unloaded", "loaded", "crashed"
  irq,       \* request_irq has installed key_interrupt
  setup,     \* timer_setup has run
  open,      \* a process has the device open
  pin,       \* level of the pin, 0 when the key is down
  raised,    \* an edge waits for the handler
  timer,     \* key.timer is pending
  cb,        \* key_timer_function: "idle", "read", or "update" in the lock
  current,   \* its current_val
  lastVal,   \* its static last_val
  status,    \* the event read() hands out next
  debounced, \* history: the callback has run since the module was loaded
  seen,      \* history: the level the last delivered event told of
  missed     \* history: an event was overwritten, or not copied, before a read

moduleVars == <<phase, irq, setup, open>>
timerVars  == <<timer, cb, current>>
keyVars    == <<lastVal, status, debounced>>
userVars   == <<seen, missed>>
vars == <<moduleVars, pin, raised, timerVars, keyVars, userVars>>

Loading   == {"requestIrq", "addCdev", "createDevice", "timerSetup"}
Unwinding == {"freeIrq", "exitTimer", "exitIrq"}
HasNode   == {"timerSetup", "loaded"}    \* /dev has the file: since device_create

Init ==
  /\ phase = "unloaded" /\ irq = FALSE /\ setup = FALSE /\ open = FALSE
  /\ pin \in {0, 1}
  /\ raised = FALSE
  /\ timer = FALSE /\ cb = "idle" /\ current = 1
  /\ lastVal = 1 /\ status = "KEEP" /\ debounced = FALSE
  /\ seen = 1 /\ missed = FALSE

Crash == phase' = "crashed"

Reboot ==
  /\ phase = "crashed"
  /\ phase' = "unloaded" /\ irq' = FALSE /\ setup' = FALSE /\ open' = FALSE
  /\ raised' = FALSE
  /\ timer' = FALSE /\ cb' = "idle" /\ current' = 1
  /\ lastVal' = 1 /\ status' = "KEEP" /\ debounced' = FALSE
  /\ seen' = 1 /\ missed' = FALSE
  /\ UNCHANGED pin
-----------------------------------------------------------------------------
(* mykey_init *)

\* insmod: fresh static data; key_parse_dt and gpio_request succeed.
Load ==
  /\ phase = "unloaded" /\ ~timer /\ cb = "idle"
  /\ phase' = "requestIrq"
  /\ setup' = FALSE
  /\ lastVal' = 1 /\ status' = "KEEP" /\ debounced' = FALSE
  /\ seen' = 1 /\ missed' = FALSE
  /\ UNCHANGED <<irq, open, pin, raised, timerVars>>

\* From here on the handler runs, with timer_setup to come.
RequestIrq ==
  /\ phase = "requestIrq"
  /\ \/ irq' = TRUE /\ phase' = "addCdev"
     \/ "irq" \in Faults /\ phase' = "unloaded" /\ UNCHANGED irq
  /\ UNCHANGED <<setup, open, pin, raised, timerVars, keyVars, userVars>>

\* alloc_chrdev_region and cdev_add; the failure of either leads to free_irq.
AddCdev ==
  /\ phase = "addCdev"
  /\ \/ phase' = "createDevice"
     \/ "chrdev" \in Faults /\ phase' = "freeIrq"
  /\ UNCHANGED <<irq, setup, open, pin, raised, timerVars, keyVars, userVars>>

\* class_create and device_create.
CreateDevice ==
  /\ phase = "createDevice"
  /\ \/ phase' = "timerSetup"
     \/ "device" \in Faults /\ phase' = "freeIrq"
  /\ UNCHANGED <<irq, setup, open, pin, raised, timerVars, keyVars, userVars>>

\* mykey_init that leaves out timer_setup.
MutantTimerSetup ==
  /\ phase = "timerSetup"
  /\ phase' = "loaded"
  /\ UNCHANGED <<irq, setup, open, pin, raised, timerVars, keyVars, userVars>>

TimerSetup ==
  /\ phase = "timerSetup"
  /\ setup' = TRUE
  /\ phase' = "loaded"
  /\ UNCHANGED <<irq, open, pin, raised, timerVars, keyVars, userVars>>

\* The end of a failed load: free_irq and gpio_free, without del_timer_sync.
FreeIrq ==
  /\ phase = "freeIrq"
  /\ irq' = FALSE /\ raised' = FALSE
  /\ phase' = "unloaded"
  /\ UNCHANGED <<setup, open, pin, timerVars, keyVars, userVars>>
-----------------------------------------------------------------------------
(* mykey_exit *)

\* rmmod, up to unregister_chrdev_region: an open file holds the module.
Exit ==
  /\ phase = "loaded" /\ ~open
  /\ phase' = "exitTimer"
  /\ UNCHANGED <<irq, setup, open, pin, raised, timerVars, keyVars, userVars>>

ExitTimer ==
  /\ phase = "exitTimer" /\ cb = "idle"
  /\ timer' = FALSE
  /\ phase' = "exitIrq"
  /\ UNCHANGED <<irq, setup, open, pin, raised, cb, current, keyVars, userVars>>

\* free_irq and gpio_free; the module's memory goes next.
ExitIrq ==
  /\ phase = "exitIrq"
  /\ irq' = FALSE /\ raised' = FALSE
  /\ phase' = "unloaded"
  /\ UNCHANGED <<setup, open, pin, timerVars, keyVars, userVars>>
-----------------------------------------------------------------------------
(* The pin, key_interrupt and key_timer_function *)

Edge ==
  /\ phase # "crashed"
  /\ pin' = 1 - pin
  /\ raised' = irq
  /\ UNCHANGED <<moduleVars, timerVars, keyVars, userVars>>

\* An edge that finds the callback at work does not restart the timer.
MutantInterrupt ==
  /\ phase # "crashed" /\ irq /\ raised
  /\ raised' = FALSE
  /\ IF setup
       THEN timer' = (timer \/ cb = "idle") /\ UNCHANGED phase
       ELSE Crash /\ UNCHANGED timer
  /\ UNCHANGED <<irq, setup, open, pin, cb, current, keyVars, userVars>>

\* mod_timer postpones a pending timer; without a timer_setup it is a BUG_ON.
Interrupt ==
  /\ phase # "crashed" /\ irq /\ raised
  /\ raised' = FALSE
  /\ IF setup
       THEN timer' = TRUE /\ UNCHANGED phase
       ELSE Crash /\ UNCHANGED timer
  /\ UNCHANGED <<irq, setup, open, pin, cb, current, keyVars, userVars>>

Expire ==
  /\ phase \notin {"unloaded", "crashed"} /\ timer /\ cb = "idle"
  /\ timer' = FALSE
  /\ cb' = "read"
  /\ UNCHANGED <<moduleVars, pin, raised, current, keyVars, userVars>>

\* A timer or a callback of a module that is gone runs in freed memory.
Wild ==
  /\ phase = "unloaded" /\ (timer \/ cb # "idle")
  /\ Crash
  /\ UNCHANGED <<irq, setup, open, pin, raised, timerVars, keyVars, userVars>>

\* An error code of gpio_get_value taken for a level.
MutantReadPin ==
  /\ phase \notin {"unloaded", "crashed"} /\ cb = "read"
  /\ current' \in {pin, -22}
  /\ cb' = "update"
  /\ UNCHANGED <<moduleVars, pin, raised, timer, keyVars, userVars>>

ReadPin ==
  /\ phase \notin {"unloaded", "crashed"} /\ cb = "read"
  /\ current' = pin
  /\ cb' = "update"
  /\ UNCHANGED <<moduleVars, pin, raised, timer, keyVars, userVars>>

Event == IF current = 0 /\ lastVal = 1 THEN "PRESS"
         ELSE IF current = 1 /\ lastVal = 0 THEN "RELEASE" ELSE "KEEP"

\* last_val follows a press only.
MutantUpdate ==
  /\ phase \notin {"unloaded", "crashed"} /\ cb = "update"
  /\ status' = Event
  /\ lastVal' = IF Event = "PRESS" THEN current ELSE lastVal
  /\ missed' = (missed \/ status # "KEEP")
  /\ debounced' = TRUE
  /\ cb' = "idle"
  /\ UNCHANGED <<moduleVars, pin, raised, timer, current, seen>>

\* The event replaces one nobody has read, even when nothing has changed (KEEP).
Update ==
  /\ phase \notin {"unloaded", "crashed"} /\ cb = "update"
  /\ status' = Event
  /\ lastVal' = current
  /\ missed' = (missed \/ status # "KEEP")
  /\ debounced' = TRUE
  /\ cb' = "idle"
  /\ UNCHANGED <<moduleVars, pin, raised, timer, current, seen>>
-----------------------------------------------------------------------------
(* The character device *)

Open ==
  /\ phase \in HasNode
  /\ open' = ~open
  /\ UNCHANGED <<phase, irq, setup, pin, raised, timerVars, keyVars, userVars>>

\* key_read without the reset of status.
MutantRead ==
  /\ phase # "crashed" /\ open /\ cb # "update"
  /\ UNCHANGED <<status, missed>>
  /\ seen' = CASE status = "PRESS" -> 0 [] status = "RELEASE" -> 1 [] OTHER -> seen
  /\ UNCHANGED <<moduleVars, pin, raised, timerVars, lastVal, debounced>>

\* key_read waits for key.spinlock; status is reset even if the copy failed.
Read ==
  /\ phase # "crashed" /\ open /\ cb # "update"
  /\ status' = "KEEP"
  /\ \/ /\ seen' = CASE status = "PRESS" -> 0 [] status = "RELEASE" -> 1 [] OTHER -> seen
        /\ UNCHANGED missed
     \/ /\ "copy" \in Faults
        /\ missed' = (missed \/ status # "KEEP")
        /\ UNCHANGED seen
  /\ UNCHANGED <<moduleVars, pin, raised, timerVars, lastVal, debounced>>
-----------------------------------------------------------------------------
Module   == Load \/ RequestIrq \/ AddCdev \/ CreateDevice \/ TimerSetup \/ FreeIrq
            \/ Exit \/ ExitTimer \/ ExitIrq
Callback == ReadPin \/ Update

Next == Module \/ Edge \/ Interrupt \/ Expire \/ Callback \/ Wild \/ Open \/ Read \/ Reboot

Spec == Init /\ [][Next]_vars

\* Interrupts are delivered, timers expire, softirqs run, and an application that
\* has the device open reads it again and again.
Fairness == WF_vars(Interrupt) /\ WF_vars(Expire) /\ WF_vars(Callback) /\ WF_vars(Read)

FairSpec == Spec /\ Fairness
-----------------------------------------------------------------------------
\* Every variable keeps its type.
TypeOK ==
  /\ phase \in Loading \cup Unwinding \cup {"unloaded", "loaded", "crashed"}
  /\ irq \in BOOLEAN /\ setup \in BOOLEAN /\ open \in BOOLEAN
  /\ pin \in {0, 1} /\ raised \in BOOLEAN
  /\ timer \in BOOLEAN /\ cb \in {"idle", "read", "update"}
  /\ current \in {0, 1} /\ lastVal \in {0, 1}
  /\ status \in {"PRESS", "RELEASE", "KEEP"}
  /\ debounced \in BOOLEAN /\ seen \in {0, 1} /\ missed \in BOOLEAN

\* Once edges, timer and callback have come to rest, the driver's level is the
\* pin's, however the edges fell around the callback's read of the pin.
LevelSettles ==
  phase = "loaded" /\ debounced /\ ~raised /\ ~timer /\ cb = "idle" => lastVal = pin

\* As long as no event is overwritten before it is read, every debounced change
\* reaches the application exactly once: an event waits if, and only if, the
\* application's view of the key differs from the driver's.
ReaderInSync ==
  ~missed => (status = "KEEP" <=> seen = lastVal)

\* An application that keeps reading, and loses no event to a later one, ends up
\* with the key as the pin has it at rest.
RestIsRead ==
  \A level \in {0, 1} :
    <>[](phase = "loaded" /\ open /\ debounced /\ ~missed /\ pin = level)
      => <>[](seen = level)

\* An edge or the timer crashes the kernel only while mykey_init has yet to set the
\* timer up, or unwinds before it did, and after a mykey_exit that left the timer
\* behind: never while the driver is loaded or exits, and never after a failed load.
CrashOnlyAtTheEnds ==
  [][phase' = "crashed" =>
       IF setup THEN phase = "unloaded" ELSE phase \in Loading \cup {"freeIrq"}]_vars

\* From request_irq to free_irq or to the del_timer_sync of mykey_exit.
Attached == {"addCdev", "createDevice", "timerSetup", "loaded", "freeIrq", "exitTimer"}

\* The promise of DebouncedKey: the driver knows the key from the first debounce of a
\* load to mykey_exit's del_timer_sync, and a debounce is owed from an edge to the end
\* of the callback that its timer starts.
Live  == phase \in Attached /\ debounced
Level == IF Live THEN lastVal ELSE 1
Owed  == Live /\ (raised \/ timer \/ cb # "idle")

Debounced == INSTANCE DebouncedKey WITH live <- Live, level <- Level, owed <- Owed

\* However edges postpone the timer or fall between the callback's read of the pin and
\* its update, the driver's level changes only after an edge, and no edge is forgotten.
DebounceSpec == Debounced!Spec

\* Line 317 says that mykey_exit deletes the timer.
TimerDeletedAtExit == phase = "unloaded" => ~timer /\ cb = "idle"

\* Line 290 says that nothing activates the timer before timer_setup has run.
NoActivationBeforeSetup == [][irq' /\ raised /\ ~raised' => setup]_vars
=============================================================================
