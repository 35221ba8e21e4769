----------------------------- MODULE TimerDriver -----------------------------
(***************************************************************************)
(* Drive/Time/timer.c: a character device that blinks the LED on PI0 with  *)
(* a self-rearming kernel timer.  Processes open the device, share the open *)
(* file with fork(), issue the three ioctls and close it, while the timer's *)
(* callback runs in softirq context on another CPU and the module is loaded *)
(* and unloaded.                                                           *)
(*                                                                         *)
(* A step is one kernel call, or one access to a field another context     *)
(* writes.  Time is abstracted: an armed timer may expire at any moment,    *)
(* and one armed with a negative period, which msecs_to_jiffies() turns     *)
(* into MAX_JIFFY_OFFSET, never does.  dev->lock guards single accesses of  *)
(* one int, atomic steps here.  A negative pin number means no pin to the    *)
(* gpio library (external): requesting it may be granted in name only, and  *)
(* driving or freeing it does nothing.  Failed loads are left to timer_init's *)
(* own unwinding.                                                          *)
(***************************************************************************)
EXTENDS Integers

CONSTANTS
  Tasks,     \* the processes that use the device
  Periods,   \* arguments of SETPERIOD_CMD, in ms
  NoFile,    \* no open file
  Faults     \* steps of led_init that may fail

DEFAULT == 1000    \* timer_open's period

ASSUME NoFileAssumption  == NoFile \notin Tasks
ASSUME PeriodsAssumption == Periods \subseteq Int
ASSUME FaultsAssumption  == Faults \subseteq {"dt", "number", "direction"}

VARIABLES
  mod,         \* "loading", "visible" (the node exists), "loaded", "exiting", "gone"
  setup,       \* timer_setup() has been called
  pc,          \* per task: "idle" or the kernel step it makes next
  fd,          \* per task: the open file it holds, named by the task that opened it
  local,       \* per task: the period of an OPEN or SETPERIOD in progress
  number,      \* timerdev.led_gpio is the number of PI0, not a negative errno
  requested,   \* gpio_request holds PI0
  led,         \* level of PI0; the LED is lit by 0
  timeperiod,  \* timerdev.timeperiod
  timer,       \* timerdev.timer: pending or not
  armedWith,   \* the period it was last armed with
  cb,          \* the callback: "idle" or the step it makes next
  sta,         \* the callback's static variable
  astray,      \* history: gpio_request granted a number a failed lookup had overwritten
  oops         \* history: mod_timer() hit BUG_ON(!timer->function)

fileVars  == <<pc, fd, local>>
pinVars   == <<number, requested, astray>>
timerVars == <<timer, armedWith>>
cbVars    == <<cb, sta>>
vars == <<mod, setup, fileVars, pinVars, led, timeperiod, timerVars, cbVars, oops>>

Opening   == {"lookup", "request", "direction"}
Calls     == {"closeCmd", "openCmd", "openArm", "setArm"}
Releasing == {"relSet", "relFree", "relDel"}

Init ==
  /\ mod = "loading" /\ setup = FALSE
  /\ pc = [t \in Tasks |-> "idle"]
  /\ fd = [t \in Tasks |-> NoFile]
  /\ local = [t \in Tasks |-> 0]
  /\ number = FALSE /\ requested = FALSE /\ astray = FALSE
  /\ led = 1
  /\ timeperiod = 0
  /\ timer = FALSE /\ armedWith = 0
  /\ cb = "idle" /\ sta = 1
  /\ oops = FALSE

\* Task t goes on to its next step.
Step(t, from, to) == pc[t] = from /\ pc' = [pc EXCEPT ![t] = to]

\* mod_timer() with a delay of `period` ms, only on a timer that was set up.
ModTimer(period) ==
  IF setup
    THEN timer' = TRUE /\ armedWith' = period /\ UNCHANGED oops
    ELSE oops' = TRUE /\ UNCHANGED timerVars

\* del_timer_sync(): waits for a running callback, then leaves nothing pending.
DelTimerSync == cb = "idle" /\ timer' = FALSE /\ UNCHANGED armedWith
-----------------------------------------------------------------------------
(* timer_open and led_init *)

OpenStart(t) ==
  /\ mod \in {"visible", "loaded"}
  /\ fd[t] = NoFile
  /\ Step(t, "idle", "lookup")
  /\ timeperiod' = DEFAULT
  /\ UNCHANGED <<mod, setup, fd, local, pinVars, led, timerVars, cbVars, oops>>

\* Lines 70-93 fail and leave led_gpio alone; line 96 stores whatever
\* of_get_named_gpio returns, an errno too, where the other opens look for the pin.
Lookup(t) ==
  /\ \/ number' = TRUE /\ Step(t, "lookup", "request")
     \/ "number" \in Faults /\ number' = FALSE /\ Step(t, "lookup", "idle")
     \/ "dt" \in Faults /\ UNCHANGED number /\ Step(t, "lookup", "idle")
  /\ UNCHANGED <<mod, setup, fd, local, requested, astray, led, timeperiod, timerVars, cbVars,
                 oops>>

\* led_init that uses the pin whether or not gpio_request granted it.
MutantRequest(t) ==
  /\ Step(t, "request", "direction")
  /\ requested' = TRUE
  /\ UNCHANGED <<mod, setup, fd, local, number, led, astray, timeperiod, timerVars, cbVars, oops>>

\* gpio_request refuses a pin in use.
Request(t) ==
  /\ \/ /\ number /\ ~requested
        /\ requested' = TRUE
        /\ Step(t, "request", "direction")
        /\ UNCHANGED astray
     \/ /\ ~number
        /\ astray' = TRUE
        /\ Step(t, "request", "direction")
        /\ UNCHANGED requested
     \/ /\ number => requested
        /\ Step(t, "request", "idle")
        /\ UNCHANGED <<requested, astray>>
  /\ UNCHANGED <<mod, setup, fd, local, number, led, timeperiod, timerVars, cbVars, oops>>

\* The open files.
Files == {f \in Tasks : \E t \in Tasks : fd[t] = f}

\* The failure of gpio_direction_output returns without gpio_free.
Direction(t) ==
  /\ Step(t, "direction", "idle")
  /\ \/ /\ led' = IF number THEN 1 ELSE led
        /\ \E f \in Tasks \ Files : fd' = [fd EXCEPT ![t] = f]
     \/ /\ "direction" \in Faults \/ ~number
        /\ UNCHANGED <<led, fd>>
  /\ UNCHANGED <<mod, setup, local, pinVars, timeperiod, timerVars, cbVars, oops>>

\* fork(): an idle task without a file inherits t's.
Fork(t, u) ==
  /\ pc[t] = "idle" /\ pc[u] = "idle"
  /\ fd[t] # NoFile /\ fd[u] = NoFile
  /\ fd' = [fd EXCEPT ![u] = fd[t]]
  /\ UNCHANGED <<mod, setup, pc, local, pinVars, led, timeperiod, timerVars, cbVars, oops>>
-----------------------------------------------------------------------------
(* timer_unlocked_ioctl *)

\* The call is entered; the field accesses and the timer follow in later steps.
CloseCmd(t) ==
  /\ fd[t] # NoFile
  /\ Step(t, "idle", "closeCmd")
  /\ UNCHANGED <<mod, setup, fd, local, pinVars, led, timeperiod, timerVars, cbVars, oops>>

\* CLOSE_CMD that looks again as long as the timer is pending, and deletes nothing.
MutantCloseDel(t) ==
  /\ cb = "idle"
  /\ Step(t, "closeCmd", IF timer THEN "closeCmd" ELSE "idle")
  /\ UNCHANGED <<mod, setup, fd, local, pinVars, led, timeperiod, timerVars, cbVars, oops>>

CloseDel(t) ==
  /\ Step(t, "closeCmd", "idle")
  /\ DelTimerSync
  /\ UNCHANGED <<mod, setup, fd, local, pinVars, led, timeperiod, cbVars, oops>>

OpenCmd(t) ==
  /\ fd[t] # NoFile
  /\ Step(t, "idle", "openArm")
  /\ local' = [local EXCEPT ![t] = timeperiod]
  /\ UNCHANGED <<mod, setup, fd, pinVars, led, timeperiod, timerVars, cbVars, oops>>

SetPeriod(t) ==
  /\ fd[t] # NoFile
  /\ Step(t, "idle", "setArm")
  /\ \E arg \in Periods :
       /\ timeperiod' = arg
       /\ local' = [local EXCEPT ![t] = arg]
  /\ UNCHANGED <<mod, setup, fd, pinVars, led, timerVars, cbVars, oops>>

\* mod_timer() of OPEN_CMD and SETPERIOD_CMD, outside dev->lock.  BUG_ON kills
\* the caller.  `local` is a variable of the call and ends with it.
Arm(t) ==
  /\ \E from \in {"openArm", "setArm"} : Step(t, from, IF setup THEN "idle" ELSE "killed")
  /\ ModTimer(local[t])
  /\ local' = [local EXCEPT ![t] = 0]
  /\ UNCHANGED <<mod, setup, fd, pinVars, led, timeperiod, cbVars>>
-----------------------------------------------------------------------------
(* close() and timer_release, which runs for the last holder of the file *)

CloseFile(t, from) ==
  /\ fd[t] # NoFile
  /\ Step(t, from, IF \E u \in Tasks \ {t} : fd[u] = fd[t] THEN "idle" ELSE "relSet")
  /\ fd' = [fd EXCEPT ![t] = NoFile]
  /\ UNCHANGED <<mod, setup, local, pinVars, led, timeperiod, timerVars, cbVars, oops>>

\* By the process, or by the kernel for a process that was killed.
Close(t) == CloseFile(t, "idle")
Reap(t)  == CloseFile(t, "killed")

ReleaseSet(t) ==
  /\ Step(t, "relSet", "relFree")
  /\ led' = IF number THEN 1 ELSE led
  /\ UNCHANGED <<mod, setup, fd, local, pinVars, timeperiod, timerVars, cbVars, oops>>

\* A release without gpio_free.
MutantReleaseFree(t) ==
  /\ Step(t, "relFree", "relDel")
  /\ UNCHANGED <<mod, setup, fd, local, pinVars, led, timeperiod, timerVars, cbVars, oops>>

\* gpio_free of whatever number led_gpio holds by now.
ReleaseFree(t) ==
  /\ Step(t, "relFree", "relDel")
  /\ requested' = (requested /\ ~number)
  /\ UNCHANGED <<mod, setup, fd, local, number, led, astray, timeperiod, timerVars, cbVars, oops>>

\* A release without del_timer_sync.
MutantReleaseDel(t) ==
  /\ Step(t, "relDel", "idle")
  /\ UNCHANGED <<mod, setup, fd, local, pinVars, led, timeperiod, timerVars, cbVars, oops>>

ReleaseDel(t) ==
  /\ Step(t, "relDel", "idle")
  /\ DelTimerSync
  /\ UNCHANGED <<mod, setup, fd, local, pinVars, led, timeperiod, cbVars, oops>>
-----------------------------------------------------------------------------
(* The timer's expiry and timer_function *)

Expire ==
  /\ timer /\ armedWith >= 0 /\ cb = "idle"
  /\ timer' = FALSE
  /\ cb' = "flip"
  /\ UNCHANGED <<mod, setup, fileVars, pinVars, led, timeperiod, armedWith, sta, oops>>

\* `sta = ~sta` for `sta = !sta`.
MutantFlip ==
  /\ cb = "flip"
  /\ sta' = -1 - sta
  /\ led' = IF number THEN sta' ELSE led
  /\ cb' = "rearm"
  /\ UNCHANGED <<mod, setup, fileVars, pinVars, timeperiod, timerVars, oops>>

\* gpio_set_value() drives the pin whether or not it is requested.
Flip ==
  /\ cb = "flip"
  /\ sta' = 1 - sta
  /\ led' = IF number THEN sta' ELSE led
  /\ cb' = "rearm"
  /\ UNCHANGED <<mod, setup, fileVars, pinVars, timeperiod, timerVars, oops>>

\* The callback keeps the period it started with.
MutantRearm ==
  /\ cb = "rearm"
  /\ cb' = "idle"
  /\ ModTimer(armedWith)
  /\ UNCHANGED <<mod, setup, fileVars, pinVars, led, timeperiod, sta>>

\* The period read under the lock (line 224) is dropped: line 226 reads it again.
Rearm ==
  /\ cb = "rearm"
  /\ cb' = "idle"
  /\ ModTimer(timeperiod)
  /\ UNCHANGED <<mod, setup, fileVars, pinVars, led, timeperiod, sta>>
-----------------------------------------------------------------------------
(* timer_init and timer_exit *)

DeviceCreate ==
  /\ mod = "loading"
  /\ mod' = "visible"
  /\ UNCHANGED <<setup, fileVars, pinVars, led, timeperiod, timerVars, cbVars, oops>>

TimerSetup ==
  /\ mod = "visible"
  /\ mod' = "loaded"
  /\ setup' = TRUE
  /\ UNCHANGED <<fileVars, pinVars, led, timeperiod, timerVars, cbVars, oops>>

\* rmmod that does not look at open files, without .owner in timer_fops.
MutantUnload ==
  /\ mod = "loaded"
  /\ mod' = "exiting"
  /\ UNCHANGED <<setup, fileVars, pinVars, led, timeperiod, timerVars, cbVars, oops>>

\* rmmod: an open file, or one being opened or released, holds the module.
Unload ==
  /\ mod = "loaded"
  /\ \A t \in Tasks : fd[t] = NoFile /\ pc[t] = "idle"
  /\ mod' = "exiting"
  /\ UNCHANGED <<setup, fileVars, pinVars, led, timeperiod, timerVars, cbVars, oops>>

ExitDel ==
  /\ mod = "exiting"
  /\ DelTimerSync
  /\ mod' = "gone"
  /\ UNCHANGED <<setup, fileVars, pinVars, led, timeperiod, cbVars, oops>>

\* insmod again: the module's data is fresh, the pin is as it was left.
Load ==
  /\ mod = "gone"
  /\ mod' = "loading"
  /\ setup' = FALSE
  /\ number' = FALSE
  /\ timeperiod' = 0
  /\ armedWith' = 0
  /\ sta' = 1
  /\ UNCHANGED <<fileVars, requested, led, astray, timer, cb, oops>>
-----------------------------------------------------------------------------
\* What a task does of its own will, and what a call it made does next.
Begin(t) == \/ OpenStart(t) \/ CloseCmd(t) \/ OpenCmd(t) \/ SetPeriod(t) \/ Close(t)
            \/ \E u \in Tasks : Fork(t, u)
Advance(t) == \/ Lookup(t) \/ Request(t) \/ Direction(t) \/ Arm(t)
              \/ ReleaseSet(t) \/ ReleaseFree(t) \/ Reap(t)
Delete(t) == CloseDel(t) \/ ReleaseDel(t)

Callback == Flip \/ Rearm
Module   == DeviceCreate \/ TimerSetup \/ Unload \/ ExitDel \/ Load

Next == \/ \E t \in Tasks : Begin(t) \/ Advance(t) \/ Delete(t)
        \/ Expire \/ Callback \/ Module

Spec == Init /\ [][Next]_vars

\* A system call that was entered goes on, a due timer expires and its callback
\* runs to its end.  del_timer_sync() retries until it finds the callback idle:
\* strong fairness, since a self-rearming callback is idle again and again.
Fairness ==
  /\ \A t \in Tasks : WF_vars(Advance(t)) /\ SF_vars(Delete(t))
  /\ WF_vars(Expire) /\ WF_vars(Callback)

FairSpec == Spec /\ Fairness
-----------------------------------------------------------------------------
\* Every variable keeps its type.
TypeOK ==
  /\ mod \in {"loading", "visible", "loaded", "exiting", "gone"}
  /\ setup \in BOOLEAN
  /\ pc \in [Tasks -> {"idle", "killed"} \cup Opening \cup Calls \cup Releasing]
  /\ fd \in [Tasks -> Tasks \cup {NoFile}]
  /\ local \in [Tasks -> Int]
  /\ number \in BOOLEAN /\ requested \in BOOLEAN /\ astray \in BOOLEAN
  /\ led \in {0, 1}
  /\ timeperiod \in Int
  /\ timer \in BOOLEAN /\ armedWith \in Int
  /\ cb \in {"idle", "flip", "rearm"}
  /\ sta \in {0, 1}
  /\ oops \in BOOLEAN

\* The calls that own the LED's pin, from gpio_request in timer_open to gpio_free in
\* timer_release, other than the open files.
Owners == {t \in Tasks : pc[t] \in {"direction", "relSet", "relFree"}}

\* timer_open lets one open file at a time have the LED, however many processes
\* share it: nothing but gpio_request enforces it, across opens that race each
\* other and a release in progress.  It fails only once an open asked for the number
\* that another open's failed lookup had stored (timer.c:96).
ExclusiveLed ==
  ~astray =>
    /\ \A t, u \in Owners : t = u
    /\ \A f, g \in Files : f = g
    /\ Owners = {} \/ Files = {}
    /\ Owners \cup Files # {} => requested

\* Nothing is left running behind the users' back: when no task has the device
\* open or is on its way through timer_release, the timer is not pending and its
\* callback does not run, so that rmmod may free them.
TimerOnlyWhileOpen ==
  timer \/ cb # "idle" => \E t \in Tasks : fd[t] # NoFile \/ pc[t] \in Releasing

\* Whatever calls race each other, the timer ends up with the period that is set:
\* the callback's own rearming repairs a SETPERIOD that armed the timer late.  Only
\* a negative period can defeat it, armed late: that timer never expires.
PeriodTakesEffect ==
  \A p \in Periods \cup {DEFAULT} :
    <>[](timeperiod = p) => <>[](timer => armedWith = p \/ armedWith < 0)

\* The promise of LedLease: the pin is on lease from gpio_request to gpio_free, to
\* the task that opens or releases the device and to those that share the file; the
\* LED blinks while the timer is pending or its callback runs.  A grant in name only
\* makes the lease void.
LeaseState ==
  IF astray THEN "void"
  ELSE IF Files # {} THEN "open"
  ELSE IF Owners = {} THEN IF requested THEN "lost" ELSE "free"
  ELSE IF \E t \in Owners : pc[t] = "direction" THEN "opening" ELSE "closing"

Users   == {t \in Tasks : ~astray /\ (fd[t] # NoFile \/ t \in Owners)}
Leaving == {t \in Tasks : ~astray /\ pc[t] = "relDel"}
Ticking == ~astray /\ (timer \/ cb # "idle")

Lease == INSTANCE LedLease WITH
  lease <- LeaseState, users <- Users, leaving <- Leaving, ticking <- Ticking,
  mislaid <- ~number

\* Opens, forks and closes that race each other, the ioctls, the callback and rmmod
\* add up to one lease at a time, given back by the last user.  It is lost when
\* gpio_direction_output fails (timer.c:117), or when the last user releases the
\* device while the number of the pin is mislaid: a failed open stored an errno in
\* led_gpio (timer.c:96), and line 192 frees that.
LeaseSpec == Lease!Spec

\* Every call of the driver returns: no process waits for ever in close() or in
\* CLOSE_CMD for a timer that keeps rearming itself.
CallsReturn == \A t \in Tasks : pc[t] # "idle" ~> pc[t] = "idle"

\* Line 191 says that the LED is switched off when the application ends.
LedOffWhenClosed ==
  (\A t \in Tasks : fd[t] = NoFile /\ pc[t] = "idle") => led = 1

\* Line 219 says that every call of timer_function inverts the LED: at the least those
\* while the device is open and nobody is on the way through timer_release.
EveryTickInverts ==
  [][ /\ cb = "flip" /\ cb' = "rearm"
      /\ \E t \in Tasks : fd[t] # NoFile
      /\ \A t \in Tasks : pc[t] \notin Releasing
      => led' # led ]_vars

\* A call arms a timer that was never set up only between device_create and
\* timer_setup; however often the module is loaded and unloaded, no call that was
\* under way reaches the timer of the next load.
OopsOnlyWhileLoading == [][~oops /\ oops' => mod = "visible"]_vars
=============================================================================
