--------------------------- MODULE DriverLifecycle ---------------------------
(***************************************************************************)
(* How the character drivers take their resources in init or probe, give   *)
(* them back through the goto labels when a step fails, and release them   *)
(* in exit or remove, while processes open and use the devices.            *)
(*                                                                         *)
(* A driver is a table read off its source: the order in which it acquires, *)
(* the label each failure jumps to, the statements under the labels, and    *)
(* the statements of exit or remove.  The drivers share the pins PI0 and    *)
(* PH7.  A step is one kernel call.                                        *)
(*                                                                         *)
(* Two rules are the kernel's.  fops.owner = THIS_MODULE: an open file pins  *)
(* the module, and a module that is going away cannot be opened.  A driver  *)
(* on a bus can also be unbound through sysfs, which neither waits for open  *)
(* files nor refuses new ones.                                             *)
(***************************************************************************)
EXTENDS Integers, Sequences

CONSTANTS
  Fleets,    \* sets of drivers that may be installed together
  Tasks,     \* the processes that use them
  NoDriver,  \* no open file
  Faults,    \* per driver: the resources whose acquisition may fail
  Unbinds    \* the drivers whose devices are unbound through sysfs too

Drivers == UNION Fleets

Ignored == 0     \* label of a failure that the code does not act on
Crash   == -1    \* label of a failure that init dereferences

Pins == {"PI0", "PH7"}

\* A step of init or probe: what it takes, and the position in `unwind` of
\* the label its failure jumps to; beyond the end it is a plain return.
Take(what, label) == [what |-> what, label |-> label]
-----------------------------------------------------------------------------
(* The drivers *)

gpioled ==
  [acquire |-> <<Take("PI0", 5), Take("region", 4), Take("cdev", Ignored),
                 Take("class", 2), Take("node", 1)>>,
   unwind  |-> <<"class", "cdev", "region", "PI0">>,
   remove  |-> <<"cdev", "region", "node", "class", "PI0">>,
   open    |-> {{"cdev", "node"}}, needs |-> {"PI0"}, bus |-> FALSE]

\* dtsplatform.c where a refused gpio_request goes to free_gpio.
MutantDtsplatform ==
  [acquire |-> <<Take("PI0", 4), Take("region", 4), Take("cdev", 3),
                 Take("class", 2), Take("node", 1)>>,
   unwind  |-> <<"class", "cdev", "region", "PI0">>,
   remove  |-> <<"PI0", "cdev", "region", "node", "class">>,
   open    |-> {{"cdev", "node"}}, needs |-> {"PI0"}, bus |-> TRUE]

dtsplatform ==
  [acquire |-> <<Take("PI0", 5), Take("region", 4), Take("cdev", 3),
                 Take("class", 2), Take("node", 1)>>,
   unwind  |-> <<"class", "cdev", "region", "PI0">>,
   remove  |-> <<"PI0", "cdev", "region", "node", "class">>,
   open    |-> {{"cdev", "node"}}, needs |-> {"PI0"}, bus |-> TRUE]

\* The ioremaps are not checked: init reads through what they return.  The
\* node is made by hand, for a fixed major number.
led_chr ==
  [acquire |-> <<Take("map", Crash), Take("chrdev", 1)>>,
   unwind  |-> <<"map">>,
   remove  |-> <<"map", "chrdev">>,
   open    |-> {{"chrdev"}}, needs |-> {"map"}, bus |-> FALSE]

\* The pin is requested by open, which TimerDriver models.
timer ==
  [acquire |-> <<Take("region", 4), Take("cdev", Ignored), Take("class", 2),
                 Take("node", 1), Take("setup", Ignored)>>,
   unwind  |-> <<"class", "cdev", "region">>,
   remove  |-> <<"setup", "cdev", "region", "node", "class">>,
   open    |-> {{"cdev", "node"}}, needs |-> {}, bus |-> FALSE]

\* gpio.c whose labels do not free the pins.
MutantGpio ==
  [acquire |-> <<Take("PH7", 5), Take("PI0", 5), Take("region", 5),
                 Take("cdev0", 4), Take("cdev1", 4), Take("class", 2),
                 Take("node0", 1), Take("node1", 1)>>,
   unwind  |-> <<"class", "cdev0", "cdev1", "region">>,
   remove  |-> <<"PH7", "PI0", "node0", "node1", "class", "cdev0", "cdev1", "region">>,
   open    |-> {{"cdev0", "node0"}, {"cdev1", "node1"}, {"cdev0", "node1"}},
   needs   |-> {"PI0"}, bus |-> TRUE]

\* gpio.c that goes on without the enable pin.
MutantGpioRefused ==
  [acquire |-> <<Take("PH7", Ignored), Take("PI0", 7), Take("region", 5),
                 Take("cdev0", 4), Take("cdev1", 4), Take("class", 2),
                 Take("node0", 1), Take("node1", 1)>>,
   unwind  |-> <<"class", "cdev0", "cdev1", "region", "PH7", "PI0">>,
   remove  |-> <<"PH7", "PI0", "node0", "node1", "class", "cdev0", "cdev1", "region">>,
   open    |-> {{"cdev0", "node0"}, {"cdev1", "node1"}, {"cdev0", "node1"}},
   needs   |-> {"PI0"}, bus |-> TRUE]

\* Both rounds of a loop jump to the same label.  Each cdev_add spans two minors, and
\* the read of either node uses gpiodev[1], the pin PI0.
gpio ==
  [acquire |-> <<Take("PH7", 7), Take("PI0", 7), Take("region", 5),
                 Take("cdev0", 4), Take("cdev1", 4), Take("class", 2),
                 Take("node0", 1), Take("node1", 1)>>,
   unwind  |-> <<"class", "cdev0", "cdev1", "region", "PH7", "PI0">>,
   remove  |-> <<"PH7", "PI0", "node0", "node1", "class", "cdev0", "cdev1", "region">>,
   open    |-> {{"cdev0", "node0"}, {"cdev1", "node1"}, {"cdev0", "node1"}},
   needs   |-> {"PI0"}, bus |-> TRUE]

\* ap3216c.c that, like gpioled.c, drops the result of cdev_add.
MutantAp3216c ==
  [acquire |-> <<Take("mem", 5), Take("region", 4), Take("cdev", Ignored),
                 Take("class", 2), Take("node", 1), Take("client", Ignored)>>,
   unwind  |-> <<"class", "cdev", "region", "mem">>,
   remove  |-> <<"cdev", "region", "node", "class", "mem">>,
   open    |-> {{"cdev", "node"}}, needs |-> {"mem", "client"}, bus |-> TRUE]

\* The devm memory is freed by the driver core, after a failed probe and
\* after remove; `client` is a field of it, set when the node is there.
ap3216c ==
  [acquire |-> <<Take("mem", 5), Take("region", 4), Take("cdev", 3),
                 Take("class", 2), Take("node", 1), Take("client", Ignored)>>,
   unwind  |-> <<"class", "cdev", "region", "mem">>,
   remove  |-> <<"cdev", "region", "node", "class", "mem">>,
   open    |-> {{"cdev", "node"}}, needs |-> {"mem", "client"}, bus |-> TRUE]

\* i2c-drive.c has the probe and the remove of ap3216c.c, statement for statement.
rd04 ==
  [acquire |-> <<Take("mem", 5), Take("region", 4), Take("cdev", 3),
                 Take("class", 2), Take("node", 1), Take("client", Ignored)>>,
   unwind  |-> <<"class", "cdev", "region", "mem">>,
   remove  |-> <<"cdev", "region", "node", "class", "mem">>,
   open    |-> {{"cdev", "node"}}, needs |-> {"mem", "client"}, bus |-> TRUE]

Table == [gpioled |-> gpioled, dtsplatform |-> dtsplatform, led_chr |-> led_chr,
          timer |-> timer, gpio |-> gpio, ap3216c |-> ap3216c, rd04 |-> rd04]

\* The drivers whose open writes to the sensor.
I2c == {"ap3216c", "rd04"}

ASSUME DriversAssumption == Drivers \subseteq DOMAIN Table
ASSUME NoDriverAssumption == NoDriver \notin Drivers
ASSUME UnbindsAssumption == Unbinds \subseteq {d \in Drivers : Table[d].bus}

\* An assignment and timer_setup do not fail.
ASSUME FaultsAssumption ==
  \A d \in Drivers : Faults[d] \cap {"client", "setup"} = {}
-----------------------------------------------------------------------------
VARIABLES
  phase,      \* per driver: "absent", or "out", "load", "unwind", "bound", "remove",
              \* "exit" or "dead"
  at,         \* its position in the list that the phase goes through
  held,       \* what it has acquired and not released
  requested,  \* the pins gpiolib has granted
  file,       \* per task: the driver whose device it has open
  stale,      \* tasks whose open file belongs to a binding that is gone
  misused     \* history: drivers called without a resource they use

vars == <<phase, at, held, requested, file, stale, misused>>

Init ==
  /\ \E fleet \in Fleets :
       phase = [d \in Drivers |-> IF d \in fleet THEN "out" ELSE "absent"]
  /\ at = [d \in Drivers |-> 0]
  /\ held = [d \in Drivers |-> {}]
  /\ requested = {}
  /\ file = [t \in Tasks |-> NoDriver]
  /\ stale = {}
  /\ misused = {}

Goto(d, p, i) == phase' = [phase EXCEPT ![d] = p] /\ at' = [at EXCEPT ![d] = i]

\* The list of releases that the driver's phase goes through.
Releases(d) == IF phase[d] = "unwind" THEN Table[d].unwind ELSE Table[d].remove
-----------------------------------------------------------------------------
(* init and probe *)

\* insmod, or the bus binding the device again.
Begin(d) ==
  /\ phase[d] = "out"
  /\ Goto(d, "load", 1)
  /\ UNCHANGED <<held, requested, file, stale, misused>>

\* The step after position i of the acquisition.
Continue(d, i) ==
  IF i = Len(Table[d].acquire) THEN Goto(d, "bound", 0) ELSE Goto(d, "load", i + 1)

Acquire(d) ==
  /\ phase[d] = "load"
  /\ LET what == Table[d].acquire[at[d]].what IN
       /\ what \notin requested
       /\ held' = [held EXCEPT ![d] = @ \cup {what}]
       /\ requested' = requested \cup ({what} \cap Pins)
  /\ Continue(d, at[d])
  /\ UNCHANGED <<file, stale, misused>>

\* A pin that is in use is refused; anything in Faults[d] may be.
Fail(d) ==
  /\ phase[d] = "load"
  /\ LET step == Table[d].acquire[at[d]] IN
       /\ step.what \in requested \cup Faults[d]
       /\ \/ step.label = Ignored /\ Continue(d, at[d])
          \/ step.label = Crash /\ Goto(d, "dead", 0)
          \/ step.label \in DOMAIN Table[d].unwind /\ Goto(d, "unwind", step.label)
          \/ step.label > Len(Table[d].unwind) /\ Goto(d, "out", 0)
  /\ UNCHANGED <<held, requested, file, stale, misused>>
-----------------------------------------------------------------------------
(* The labels, exit and remove *)

\* A release that forgets to start the next list from its beginning.
MutantRelease(d) ==
  /\ phase[d] \in {"unwind", "remove", "exit"}
  /\ LET what == Releases(d)[at[d]] IN
       /\ held' = [held EXCEPT ![d] = @ \ {what}]
       /\ requested' = requested \ {what}
       /\ stale' = stale
  /\ IF at[d] = Len(Releases(d))
       THEN Goto(d, "out", at[d])
       ELSE Goto(d, phase[d], at[d] + 1)
  /\ UNCHANGED <<file, misused>>

\* gpio_free frees a pin whoever asked for it.  With the devm memory goes the
\* structure that open files of an I2C driver point into.
Release(d) ==
  /\ phase[d] \in {"unwind", "remove", "exit"}
  /\ LET what == Releases(d)[at[d]] IN
       /\ held' = [held EXCEPT ![d] = @ \ IF what = "mem" THEN {"mem", "client"} ELSE {what}]
       /\ requested' = requested \ {what}
       /\ stale' = IF what = "mem" THEN stale \cup {t \in Tasks : file[t] = d} ELSE stale
  /\ IF at[d] = Len(Releases(d))
       THEN Goto(d, "out", 0)
       ELSE Goto(d, phase[d], at[d] + 1)
  /\ UNCHANGED <<file, misused>>

\* A module without .owner in its fops: rmmod does not see the open files.
MutantExit(d) ==
  /\ phase[d] = "bound"
  /\ Goto(d, "exit", 1)
  /\ UNCHANGED <<held, requested, file, stale, misused>>

\* rmmod.
Exit(d) ==
  /\ phase[d] = "bound"
  /\ \A t \in Tasks : file[t] # d
  /\ Goto(d, "exit", 1)
  /\ UNCHANGED <<held, requested, file, stale, misused>>

Unbind(d) ==
  /\ d \in Unbinds
  /\ phase[d] = "bound"
  /\ Goto(d, "remove", 1)
  /\ UNCHANGED <<held, requested, file, stale, misused>>
-----------------------------------------------------------------------------
(* The file operations *)

\* Both I2C opens write the sensor's registers through `client`.
Open(t, d) ==
  /\ file[t] = NoDriver
  /\ phase[d] # "exit"
  /\ \E way \in Table[d].open : way \subseteq held[d]
  /\ IF d \in I2c /\ ~(Table[d].needs \subseteq held[d])
       THEN misused' = misused \cup {d} /\ UNCHANGED file
       ELSE file' = [file EXCEPT ![t] = d] /\ UNCHANGED misused
  /\ UNCHANGED <<phase, at, held, requested, stale>>

\* What the file operations of an open file use is there.
Served(t) == t \notin stale /\ Table[file[t]].needs \subseteq held[file[t]]

\* A read or a write.  A pin is driven whether or not it is still requested; a
\* dangling pointer kills the caller, which closes the file.
Use(t) ==
  /\ file[t] # NoDriver
  /\ LET d == file[t]
         ok == Served(t)
     IN  /\ misused' = IF ok THEN misused ELSE misused \cup {d}
         /\ IF ok \/ "PI0" \in Table[d].needs
              THEN UNCHANGED <<file, stale>>
              ELSE file' = [file EXCEPT ![t] = NoDriver] /\ stale' = stale \ {t}
  /\ UNCHANGED <<phase, at, held, requested>>

Close(t) ==
  /\ file[t] # NoDriver
  /\ file' = [file EXCEPT ![t] = NoDriver]
  /\ stale' = stale \ {t}
  /\ UNCHANGED <<phase, at, held, requested, misused>>
-----------------------------------------------------------------------------
Manage(d) == Begin(d) \/ Acquire(d) \/ Fail(d) \/ Release(d) \/ Exit(d) \/ Unbind(d)

Task(t) == Use(t) \/ Close(t) \/ \E d \in Drivers : Open(t, d)

Next == (\E d \in Drivers : Manage(d)) \/ (\E t \in Tasks : Task(t))

Spec == Init /\ [][Next]_vars
-----------------------------------------------------------------------------
(* Properties *)

\* What a driver takes, and what there is.
Takes(d)  == {Table[d].acquire[i].what : i \in DOMAIN Table[d].acquire}
Resources == UNION {Takes(d) : d \in Drivers}

\* The variables have their types, and a driver is at a position of a list
\* exactly while it goes through one.
TypeOK ==
  /\ phase \in [Drivers -> {"absent", "out", "load", "unwind", "bound", "remove", "exit", "dead"}]
  /\ at \in [Drivers -> Nat]
  /\ \A d \in Drivers :
       /\ phase[d] = "load" => at[d] \in DOMAIN Table[d].acquire
       /\ phase[d] \in {"unwind", "remove", "exit"} => at[d] \in DOMAIN Releases(d)
       /\ phase[d] \in {"absent", "out", "bound", "dead"} => at[d] = 0
  /\ held \in [Drivers -> SUBSET Resources]
  /\ \A d \in Drivers : held[d] \subseteq Takes(d)
  /\ requested \subseteq Pins
  /\ file \in [Tasks -> Drivers \cup {NoDriver}]
  /\ stale \subseteq {t \in Tasks : file[t] # NoDriver}
  /\ misused \subseteq Drivers

\* What the second round of a loop of gpio.c leaves of the first when it fails.
FirstRound == {"PH7", "cdev0", "node0"}
LeftBehind(d) == IF d = "gpio" THEN FirstRound ELSE {}

\* A driver that is not bound has nothing left, whichever step of init or probe
\* failed: the goto labels gave back all that had been taken, and so did exit and
\* remove.  Only gpio.c forgets the first round of its loops (gpio.c:213, 238, 255).
NoLeak == \A d \in Drivers : phase[d] = "out" => held[d] \subseteq LeftBehind(d)

\* A pin that init or probe takes first and has left behind, so that its own next
\* request is refused.
Stuck(d) ==
  /\ phase[d] \in {"out", "load"} /\ at[d] <= 1
  /\ Table[d].acquire[1].what \in held[d] \cap Pins

\* Such a leak is for good: no later load gets past the pin, nothing frees it, and
\* the driver never serves its device again.
LostPinIsFinal == [][\A d \in Drivers : Stuck(d) => Stuck(d)']_vars

\* gpiolib's view of the pins agrees with the drivers': a pin is held by at
\* most one driver and is requested exactly while one holds it, so no failure
\* path frees the pin of the driver that was there first.
PinsAccounted ==
  /\ requested = UNION {held[d] \cap Pins : d \in Drivers}
  /\ \A d, e \in Drivers : d # e => held[d] \cap held[e] \cap Pins = {}

\* An open file never outlives what its reads and writes use: the pin, the mapping, the
\* driver's structure.  exit's order (led_chr.c unmaps before it unregisters) is safe
\* because nobody can be inside.  Two things break it: unbinding a device under its
\* users through sysfs, and gpio.c, whose first node can be opened before the second one
\* is made; if that fails (gpio.c:251), the labels free PI0 under the open file.
UsesHeld ==
  \A t \in Tasks : file[t] \in Drivers \ Unbinds =>
    \/ Served(t)
    \/ file[t] = "gpio" /\ "node0" \in held["gpio"] /\ phase["gpio"] \in {"out", "load"}

\* An I2C driver that is not unbound under its users meets a missing `client` only in an
\* open that comes between device_create and its last assignments: never once probe
\* has returned, nor in a read, nor while rmmod takes its structure away.
EarlyOpenOnly ==
  [][\A d \in I2c \ Unbinds : d \in misused' \ misused => phase[d] = "load"]_vars

\* The drivers that drop the result of cdev_add (gpioled.c:224, timer.c:274).
Careless == {"gpioled", "timer"}

\* A driver whose init or probe succeeded can be opened, by each of its nodes: no failed
\* step on the way was passed over.
BoundIsOpenable ==
  \A d \in Drivers \ Careless :
    phase[d] = "bound" => \A way \in Table[d].open : way \subseteq held[d]
=============================================================================
