------------------------------ MODULE KeyInput ------------------------------
(***************************************************************************)
(* Drive/input/keyinput.c: a key reported through the input subsystem.  An *)
(* edge of the pin raises an interrupt; the handler disables the line and   *)
(* starts a debounce timer; the timer's callback reads the pin, reports the *)
(* key and enables the line again.  All of it runs against the platform     *)
(* driver's probe and remove.                                              *)
(*                                                                         *)
(* A step is one kernel call of one context: hard interrupt, softirq (the  *)
(* timer) or the process in probe/remove.  The interrupt controller latches *)
(* an edge of a disabled line and replays it on enable_irq.  A crash of the *)
(* kernel is followed by a reboot.                                         *)
(***************************************************************************)
EXTENDS Integers

CONSTANT Faults    \* calls of probe that may fail

FaultKinds == {"parse", "irq", "memory", "register"}

ASSUME FaultsAssumption == Faults \subseteq FaultKinds

VARIABLES
  phase,      \* where probe or remove is: the next call, "unbound", "bound", "crashed"
  gpio,       \* gpio_request holds the pin
  irq,        \* request_irq has installed key_interrupt
  setup,      \* timer_setup has run since the module was loaded
  idev,       \* key.idev: "none", "allocated", "capable" (EV_KEY set), "freed"
  registered, \* input_register_device succeeded
  pin,        \* level of the pin, 0 when the key is down
  raised,     \* an edge waits for the handler
  depth,      \* disable depth of the line
  handler,    \* key_interrupt: "idle", or "arm" before its mod_timer
  timer,      \* key.timer is pending
  cb,         \* key_timer_function: "idle" or the step it makes next
  val,        \* its local val
  down,       \* the key as the input core has it
  settled     \* history: a callback reported since request_irq, to this key.idev

probeVars == <<phase, gpio, setup, idev, registered>>
lineVars  == <<irq, raised, depth, handler>>
timerVars == <<timer, cb, val>>
keyVars   == <<down, settled>>
vars == <<probeVars, lineVars, timerVars, keyVars, pin>>

Probing  == {"requestIrq", "timerSetup", "allocate", "capability", "register"}
Removing == {"freeIrq", "syncIrq", "freeGpio", "delTimer", "unregister"}

Init ==
  /\ phase = "unbound" /\ gpio = FALSE /\ irq = FALSE /\ setup = FALSE
  /\ idev = "none" /\ registered = FALSE
  /\ raised = FALSE /\ depth = 0 /\ handler = "idle"
  /\ timer = FALSE /\ cb = "idle" /\ val = 1
  /\ down = FALSE /\ settled = FALSE
  /\ pin = 1

\* Everything but the pin starts anew.
Reboot ==
  /\ phase = "crashed"
  /\ phase' = "unbound" /\ gpio' = FALSE /\ irq' = FALSE /\ setup' = FALSE
  /\ idev' = "none" /\ registered' = FALSE
  /\ raised' = FALSE /\ depth' = 0 /\ handler' = "idle"
  /\ timer' = FALSE /\ cb' = "idle" /\ val' = 1
  /\ down' = FALSE /\ settled' = FALSE
  /\ UNCHANGED pin

Crash == phase' = "crashed"
-----------------------------------------------------------------------------
(* atk_key_probe and gpio_key_init *)

\* A failed irq_of_parse_and_map returns without gpio_free.
RequestGpio ==
  /\ phase = "unbound" /\ ~gpio
  /\ gpio' = TRUE
  /\ \/ phase' = "requestIrq"
     \/ "parse" \in Faults /\ UNCHANGED phase
  /\ UNCHANGED <<setup, idev, registered, lineVars, timerVars, keyVars, pin>>

\* A failed request_irq that returns without gpio_free, as a failed mapping does.
MutantRequestIrq ==
  /\ phase = "requestIrq"
  /\ \/ /\ irq' = TRUE /\ depth' = 0 /\ raised' = FALSE
        /\ phase' = "timerSetup"
        /\ settled' = FALSE
        /\ UNCHANGED <<gpio, handler>>
     \/ /\ "irq" \in Faults
        /\ phase' = "unbound"
        /\ UNCHANGED <<gpio, lineVars, settled>>
  /\ UNCHANGED <<setup, idev, registered, timerVars, down, pin>>

\* From here on the handler runs, with the timer and the input device to come.
RequestIrq ==
  /\ phase = "requestIrq"
  /\ \/ /\ irq' = TRUE /\ depth' = 0 /\ raised' = FALSE
        /\ phase' = "timerSetup"
        /\ settled' = FALSE
        /\ UNCHANGED <<gpio, handler>>
     \/ /\ "irq" \in Faults
        /\ gpio' = FALSE
        /\ phase' = "unbound"
        /\ UNCHANGED <<lineVars, settled>>
  /\ UNCHANGED <<setup, idev, registered, timerVars, down, pin>>

\* Initialising a pending timer corrupts the kernel's timer wheel.
TimerSetup ==
  /\ phase = "timerSetup"
  /\ IF timer THEN Crash ELSE phase' = "allocate"
  /\ setup' = TRUE
  /\ UNCHANGED <<gpio, idev, registered, lineVars, timerVars, keyVars, pin>>

\* The result is not checked: key.idev->name dereferences NULL.
Allocate ==
  /\ phase = "allocate"
  /\ \/ phase' = "capability" /\ idev' = "allocated"
     \/ "memory" \in Faults /\ Crash /\ idev' = "none"
  /\ down' = FALSE /\ settled' = FALSE
  /\ UNCHANGED <<gpio, setup, registered, lineVars, timerVars, pin>>

Capability ==
  /\ phase = "capability"
  /\ idev' = "capable"
  /\ phase' = "register"
  /\ UNCHANGED <<gpio, setup, registered, lineVars, timerVars, keyVars, pin>>

\* On failure probe unwinds as remove does, but leaves key.idev allocated.
Register ==
  /\ phase = "register"
  /\ \/ phase' = "bound" /\ registered' = TRUE
     \/ "register" \in Faults /\ phase' = "freeIrq" /\ UNCHANGED registered
  /\ UNCHANGED <<gpio, setup, idev, lineVars, timerVars, keyVars, pin>>
-----------------------------------------------------------------------------
(* atk_key_remove, and the end of a failed probe *)

Remove ==
  /\ phase = "bound"
  /\ phase' = "freeIrq"
  /\ UNCHANGED <<gpio, setup, idev, registered, lineVars, timerVars, keyVars, pin>>

\* free_irq removes the handler, then waits for one that runs.
FreeIrq ==
  /\ phase = "freeIrq"
  /\ irq' = FALSE /\ raised' = FALSE
  /\ phase' = "syncIrq"
  /\ UNCHANGED <<gpio, setup, idev, registered, depth, handler, timerVars, keyVars, pin>>

SyncIrq ==
  /\ phase = "syncIrq" /\ handler = "idle"
  /\ phase' = "freeGpio"
  /\ UNCHANGED <<gpio, setup, idev, registered, lineVars, timerVars, keyVars, pin>>

\* input_unregister_device before del_timer_sync.
MutantFreeGpio ==
  /\ phase = "freeGpio"
  /\ gpio' = FALSE
  /\ idev' = "freed"
  /\ phase' = "delTimer"
  /\ UNCHANGED <<setup, registered, lineVars, timerVars, keyVars, pin>>

FreeGpio ==
  /\ phase = "freeGpio"
  /\ gpio' = FALSE
  /\ phase' = "delTimer"
  /\ UNCHANGED <<setup, idev, registered, lineVars, timerVars, keyVars, pin>>

\* del_timer: does not wait for the callback.
MutantDelTimer ==
  /\ phase = "delTimer"
  /\ timer' = FALSE
  /\ phase' = IF registered THEN "unregister" ELSE "unbound"
  /\ UNCHANGED <<gpio, setup, idev, registered, lineVars, cb, val, keyVars, pin>>

\* del_timer_sync waits for a running callback.
DelTimer ==
  /\ phase = "delTimer" /\ cb = "idle"
  /\ timer' = FALSE
  /\ phase' = IF registered THEN "unregister" ELSE "unbound"
  /\ UNCHANGED <<gpio, setup, idev, registered, lineVars, cb, val, keyVars, pin>>

Unregister ==
  /\ phase = "unregister"
  /\ idev' = "freed" /\ registered' = FALSE
  /\ down' = FALSE /\ settled' = FALSE
  /\ phase' = "unbound"
  /\ UNCHANGED <<gpio, setup, lineVars, timerVars, pin>>

\* rmmod and insmod: `key` is the module's static data.
Reload ==
  /\ phase = "unbound"
  /\ setup' = FALSE
  /\ idev' = "none"
  /\ UNCHANGED <<phase, gpio, registered, lineVars, timerVars, keyVars, pin>>
-----------------------------------------------------------------------------
(* The pin, key_interrupt and key_timer_function *)

Edge ==
  /\ phase # "crashed"
  /\ pin' = 1 - pin
  /\ raised' = irq
  /\ UNCHANGED <<probeVars, irq, depth, handler, timerVars, keyVars>>

\* Without disable_irq_nosync.
MutantInterrupt ==
  /\ phase # "crashed"
  /\ irq /\ raised /\ depth = 0 /\ handler = "idle"
  /\ raised' = FALSE
  /\ handler' = "arm"
  /\ UNCHANGED <<probeVars, irq, depth, timerVars, keyVars, pin>>

\* key_interrupt up to disable_irq_nosync.
Interrupt ==
  /\ phase # "crashed"
  /\ irq /\ raised /\ depth = 0 /\ handler = "idle"
  /\ raised' = FALSE
  /\ depth' = depth + 1
  /\ handler' = "arm"
  /\ UNCHANGED <<probeVars, irq, timerVars, keyVars, pin>>

\* mod_timer: BUG_ON in interrupt context before the first timer_setup.
ArmTimer ==
  /\ phase # "crashed" /\ handler = "arm"
  /\ handler' = "idle"
  /\ IF setup
       THEN timer' = TRUE /\ UNCHANGED phase
       ELSE Crash /\ UNCHANGED timer
  /\ UNCHANGED <<gpio, setup, idev, registered, irq, raised, depth, cb, val, keyVars, pin>>

Expire ==
  /\ phase # "crashed" /\ timer /\ cb = "idle"
  /\ timer' = FALSE
  /\ cb' = "read"
  /\ UNCHANGED <<probeVars, lineVars, val, keyVars, pin>>

ReadPin ==
  /\ phase # "crashed" /\ cb = "read"
  /\ val' = pin
  /\ cb' = "report"
  /\ UNCHANGED <<probeVars, lineVars, timer, keyVars, pin>>

\* The level itself instead of its negation.
MutantReport ==
  /\ phase # "crashed" /\ cb = "report"
  /\ cb' = "enable"
  /\ IF idev \in {"none", "freed"} THEN Crash ELSE UNCHANGED phase
  /\ IF idev = "capable"
       THEN down' = (val = 1) /\ settled' = TRUE
       ELSE UNCHANGED keyVars
  /\ UNCHANGED <<gpio, setup, idev, registered, lineVars, timer, val, pin>>

\* A change only is reported, and only a reported one enables the line again.
MutantReportChange ==
  /\ phase # "crashed" /\ cb = "report"
  /\ cb' = IF down # (val = 0) THEN "enable" ELSE "idle"
  /\ IF idev \in {"none", "freed"} THEN Crash ELSE UNCHANGED phase
  /\ IF idev = "capable"
       THEN down' = (val = 0) /\ settled' = TRUE
       ELSE UNCHANGED keyVars
  /\ UNCHANGED <<gpio, setup, idev, registered, lineVars, timer, val, pin>>

\* input_report_key and input_sync: the input core drops an event of a type the
\* device has not announced yet; a device that is not there is a wild pointer.
Report ==
  /\ phase # "crashed" /\ cb = "report"
  /\ cb' = "enable"
  /\ IF idev \in {"none", "freed"} THEN Crash ELSE UNCHANGED phase
  /\ IF idev = "capable"
       THEN down' = (val = 0) /\ settled' = TRUE
       ELSE UNCHANGED keyVars
  /\ UNCHANGED <<gpio, setup, idev, registered, lineVars, timer, val, pin>>

\* enable_irq: on a freed line it has no effect that outlives the next request_irq.
EnableIrq ==
  /\ phase # "crashed" /\ cb = "enable"
  /\ cb' = "idle"
  /\ depth' = IF irq THEN depth - 1 ELSE depth
  /\ UNCHANGED <<probeVars, irq, raised, handler, timer, val, keyVars, pin>>
-----------------------------------------------------------------------------
Probe    == RequestGpio \/ RequestIrq \/ TimerSetup \/ Allocate \/ Capability \/ Register
Unwind   == FreeIrq \/ SyncIrq \/ FreeGpio \/ DelTimer \/ Unregister
Handler  == Interrupt \/ ArmTimer
Callback == ReadPin \/ Report \/ EnableIrq

Next == Probe \/ Remove \/ Unwind \/ Reload \/ Edge \/ Handler
        \/ Expire \/ Callback \/ Reboot

Spec == Init /\ [][Next]_vars

\* Interrupts are delivered, timers expire and softirqs run.
Fairness == WF_vars(Handler) /\ WF_vars(Expire) /\ WF_vars(Callback)

FairSpec == Spec /\ Fairness
-----------------------------------------------------------------------------
\* Every variable keeps its type.
TypeOK ==
  /\ phase \in Probing \cup Removing \cup {"unbound", "bound", "crashed"}
  /\ gpio \in BOOLEAN /\ irq \in BOOLEAN /\ setup \in BOOLEAN
  /\ idev \in {"none", "allocated", "capable", "freed"}
  /\ registered \in BOOLEAN
  /\ pin \in {0, 1} /\ val \in {0, 1}
  /\ raised \in BOOLEAN
  /\ depth \in Nat
  /\ handler \in {"idle", "arm"}
  /\ timer \in BOOLEAN
  /\ cb \in {"idle", "read", "report", "enable"}
  /\ down \in BOOLEAN /\ settled \in BOOLEAN

\* disable_irq_nosync and enable_irq balance across the two contexts: the line is
\* disabled, once, exactly while one debounce is in progress, so that no edge is
\* handled twice and none is shut out for ever.
IrqBalanced ==
  irq /\ phase # "crashed" =>
    /\ depth = 0 => handler = "idle" /\ ~timer /\ cb = "idle"
    /\ depth > 0 =>
         /\ depth = 1
         /\ \/ handler = "arm" /\ ~timer /\ cb = "idle"
            \/ handler = "idle" /\ timer /\ cb = "idle"
            \/ handler = "idle" /\ ~timer /\ cb # "idle"

\* At rest the input core has the key as the pin has it, however edges fell
\* between the handler's disable and the callback's read, report and enable.
ReportedMatchesPin ==
  irq /\ settled /\ ~raised /\ depth = 0 => down = (pin = 0)

\* Neither a remove nor a failed probe leaves the handler, the timer or the callback
\* behind: free_irq comes before del_timer_sync.
QuietWhenUnbound ==
  phase = "unbound" => ~irq /\ handler = "idle" /\ ~timer /\ cb = "idle"

\* Interrupt and timer crash the kernel only before probe has the timer and the
\* input device ready; never once the driver is bound or while it is removed.
CrashOnlyInProbe == [][phase' = "crashed" => phase \in Probing]_vars

\* Whichever way a probe or a remove ends, it gives the pin back.  Only a mapping that
\* fails right after gpio_request keeps it (line 74), and then for good: no later
\* probe gets past gpio_request, nor does a new load of the module.
PinGivenBack ==
  [][/\ phase # "unbound" /\ phase' = "unbound" => ~gpio'
     /\ phase = "unbound" /\ gpio => phase' = "unbound" /\ gpio']_vars

\* The promise of DebouncedKey: the input core knows the key from the first report on,
\* and a debounce is owed from an edge to the report of a level read after it.
Live  == irq /\ settled /\ phase # "crashed"
Level == IF Live /\ down THEN 0 ELSE 1
Owed  == Live /\ (raised \/ handler = "arm" \/ timer \/ cb \in {"read", "report"})

Debounced == INSTANCE DebouncedKey WITH live <- Live, level <- Level, owed <- Owed

\* However edges fall among the handler, the timer, the callback, probe and remove, the
\* key changes for the input core only after an edge, and no edge is forgotten.
DebounceSpec == Debounced!Spec

\* Of a bound driver with a pin that comes to rest after an edge, the input core
\* ends up with the key as it is.
RestIsReported ==
  \A level \in {0, 1} :
    <>[](phase = "bound" /\ settled /\ pin = level) => <>[](down = (level = 0))
=============================================================================
