# Driver-stm32 in TLA+

The repository holds an application that keeps a small car from running into
people (an STM32MP157: Linux on the Cortex-A7, motor control on the Cortex-M4) and
the kernel drivers it grew out of. This directory models the parts that run
concurrently or can fail half-way, checks them with TLC and proves the central
results with TLAPS.

## 1. The system

| part | state | operations | talks to |
|---|---|---|---|
| `Anti-collision/src-uart/rd03uart.c`, the application | descriptors, `buff`, `result` | configure the radar, then for ever: sample the pin, write the command, read the answer | UART to the radar, `/dev/rd04gpio1`, `/dev/ttyRPMSG0` |
| `Anti-collision/src-uart/gpio.c` (= `src/gpio.c`) | `gpiodev[2]`: the radar's enable pin PH7 and its output PI0 | probe, remove, open, read | gpiolib, platform bus |
| Cortex-M4 firmware (not in the repository) | motor | take a command, answer with the motor's state | the tty |
| `Anti-collision/src-uart/rd03uart-set.c`, the configuration tool | none | two sections of radar commands, then waits for reports | the same UART, the tty |
| `Anti-collision/src/rd03uart.c`, the first version | none | one section of radar commands, then spins | the same UART |
| `Anti-collision/src/i2c-drive.c`, `rd04.c`, `main.c` | `rd04_dev`, the sensor's registers | probe, remove, open (configures), read | I2C bus |
| `Drive/Time/timer.c` | `timeperiod`, the timer, the callback's static `sta` | open, three ioctls, release, callback, init, exit | PI0 |
| `Drive/input/keyinput.c` | line, timer, input device | interrupt, callback, probe, remove | input core |
| `Drive/irq/keyirq.c` | `status`, `last_val`, timer | interrupt, callback, read, init, exit | character device |
| `Drive/gpioled`, `dtsplatform`, `led` | PI0 or its registers | init/probe, exit/remove, write | gpiolib, platform bus |
| `Drive/iic/ap3216c.c` | `ap3216c_dev` (devm memory), `client`, the fields `ir`, `als`, `ps` | probe, remove, open (resets and configures), read | I2C bus |
| `test_App.c`, `timer_test.c`, `keytest.c`, `iic_test.c` | none | call the drivers | |

What is hard here: hard interrupts, timers and processes that touch the same
fields; calls that must balance over two contexts (`disable_irq_nosync` and
`enable_irq`); deleting a timer that something else can start again; the order of
acquisition and release against users who can already, or still, get in; failures
in the middle of a probe; a non-blocking tty that may be full or empty; drivers
that compete for one pin: PI0 is the LED and the output of the radar; and devices
that several programs configure without a lock: the radar over its UART, the sensors
over I2C.

What makes each part correct: the motor obeys the person and the application keeps
to the order of its samples; the LED has one owner and nothing runs behind a
closed file; a key at rest is reported as it is, and an event reaches its reader
once; a driver that is not bound holds nothing, and nobody is let in to use what is
not there; a radar or a sensor that several programs configured at the same time ends
up as one of them alone would have left it, and a read that nothing disturbs returns what
was measured.

## 2. Modules

| module | models | state and actions |
|---|---|---|
| `MotorRelay` | what the car promises about its motor, abstractly | sampled levels reach the motor in order, at most once, `Bound` of them under way |
| `CollisionApp` | `src-uart/rd03uart.c`, with `rd04_read` of `gpio.c`; radar, tty and M4 as its environment | `pc` is the system call `main` makes next; one action per call; `toM4` and `toA7` are the tty |
| `RadarShare` | `CollisionApp` composed with any number of runs of `rd03uart-set.c` and of `src/rd03uart.c` on the same UART | `at` is the frame a program sends next; one action per system call; the frames of all programs reach one radar |
| `LedLease` | what `timer.c` promises about its LED, abstractly | one lease at a time, shared by its users, given back by the last of them, or lost: in the opening, or when it is given back while nobody knows which LED it is (`mislaid`); only users start the blinking |
| `DebouncedKey` | what both key drivers promise about the key, abstractly | an edge owes a debounce; the level changes only while one is owed, and none is written off before the level is the pin's |
| `TimerDriver` | `timer.c` | per process the kernel step it makes next and the file it holds; one action per kernel call or access to a shared field |
| `KeyInput` | `keyinput.c` | `phase` is the next call of probe or remove; handler and callback step by step; disable depth of the line |
| `KeyIrq` | `keyirq.c` | the same for init and exit; `status` and its reader |
| `DriverLifecycle` | init/probe, goto labels and exit/remove of `gpioled.c`, `dtsplatform.c`, `led_chr.c`, `timer.c`, `gpio.c`, `ap3216c.c`, `i2c-drive.c` | each driver is a table read off its source (acquisitions with the label of each failure, statements under the labels, statements of remove); one action per kernel call on it |
| `I2cSensors` | open and read of `ap3216c.c`, of `i2c-drive.c` with `rd04.c`, and the thread of `main.c` as one of their users | the registers of the chip, what its last measurement was like (`data`), and per process the I2C transfer it makes next; one action per transfer |
| `..._proof` | | theorems: `CollisionApp`, `RadarShare`, `TimerDriver`, `KeyInput`, `KeyIrq`, `DriverLifecycle`, `I2cSensors` |
| `MC...` | | fault sets, periods and driver sets for the configurations |

`CollisionApp_proof` is extended by `RadarShare_proof`, as `CollisionApp` is by
`RadarShare`: every lemma about a step of the application is used there again.

The definitions keep the names of the functions and fields where they can. In each
module the definitions called `Mutant...` are plausible wrong versions of the
definition that follows; no specification uses them. They show that the property
they are paired with would notice.

Abstractions. Printing and device-tree wording are left out; a failing lookup is a
failing call. Time is not modelled: an armed timer may expire at any moment, and one
with a negative period, which `msecs_to_jiffies` turns into "never", does not.
`main`'s sleep of a second is a step that may take any time. A crash of the kernel (a
BUG_ON in interrupt context, a wild pointer) is a state followed by a reboot. Of the six
bytes of a measurement only that they belong to one, and its overflow bits, are kept; of
each of the three fields whether it is measured, the 0 of an overflow (`zero`), or made
of anything else (`other`). `gpio_get_value` of a requested input pin is taken not to
fail. A device file can be opened once its node is there; `gpio.c` adds each of its two
`cdev`s for both minors, so that `open` in its table is a set of alternatives. The level
an LED driver writes is left out of `DriverLifecycle`. In `I2cSensors` the registers that
`rd04_open` writes once, or twice with the same value, are one register `fixed`; those
that it writes twice with different values, and the register of the delay's two bytes,
are kept apart. `history` variables record what happened and guard nothing.

Rules of the kernel the models rely on: an open file pins a module whose `fops.owner`
is set, and a module that is going away cannot be opened; unbinding a device through
sysfs does neither; `del_timer_sync` and `free_irq` wait for a callback or a handler
that runs; an edge on a disabled line is kept and replayed; `mod_timer` on a timer
that was never set up is a BUG_ON; `gpio_set_value` drives a pin whether or not it is
requested; `gpio_free` frees it whoever asked for it; a negative number is no pin, so
that driving or freeing it does nothing, and requesting it may be refused or granted in
name (kernel 5.4.31, which `Drive/Time/Makefile:1` names, takes the descriptor of such a
number to be NULL); the I2C adapter's lock makes one
transfer atomic and nothing more.

Rules of the hardware: the radar takes frames in the order of the write calls, obeys
parameters in command mode only, and does not drive OUT in it; it may be in either
mode, with no gate set, when the program starts; a frame without the header is noise.
The AP3216C loses what it is sent while it resets, and its reset is over before the 50
ms that the opener waits. Once on it puts a new measurement into its data registers every
112.5 ms (`Period`), the first one after that time: until then there is none.

## 3. Runs

Passing runs:

| run | instance | shows |
|---|---|---|
| `app` | tty of 2, all faults, one run of the tool or of the first version; 276 692 states | `AnswersBounded`: one read per write is enough; `MotorObeysLastSample`; `RadarSettles` and `GateSet`: overlapping configuration sections leave a radar that measures with its gate set; `RelaySpec`: refinement of `MotorRelay`; `MotorFollowsPerson`, `DisplayFollowsPerson`: motor and display settle to the person's presence |
| `timer` | 2 processes, periods 10, -1 and the default, all faults; 299 442 states | `ExclusiveLed`, `TimerOnlyWhileOpen`, `PeriodTakesEffect`, `CallsReturn`, `OopsOnlyWhileLoading`; `LeaseSpec`: refinement of `LedLease` |
| `keyinput` | all faults; 1 348 states | `IrqBalanced`, `ReportedMatchesPin`, `QuietWhenUnbound`, `CrashOnlyInProbe`, `PinGivenBack`, `RestIsReported`; `DebounceSpec`: refinement of `DebouncedKey` |
| `keyirq` | all faults; 2 048 states | `LevelSettles`, `ReaderInSync`, `CrashOnlyAtTheEnds`, `RestIsRead`; `DebounceSpec`: refinement of `DebouncedKey` |
| `lifecycle` | 2 processes; three sets of drivers installed together (`Installed`), every acquisition whose result is looked at may fail (`AllFaults`), `ap3216c.c` unbound under its users; 51 120 states | `NoLeak`, `PinsAccounted`, `UsesHeld`, `BoundIsOpenable`, `LostPinIsFinal`, `EarlyOpenOnly` |
| `sensors` | 3 processes, one AP3216C or one RD-04, any transfer may fail, measurements and overflows at any time; 289 416 states | `SettledIsConfigured`, `CleanReadIsMeasured` |

Every run checks the type invariant of its module too.

Bounds, and what is beyond them:

- `app`: one program besides the application overlaps its section with the
  application's in every order of the frames; a second one adds no new pair of programs
  and multiplies the states. The theorems about `RadarShare` cover any number. A tty of
  two messages has an empty, a partly filled and a full state; the theorems cover any
  capacity.
- `timer`: one process shares its file and closes it while the other opens, which is
  every race over the pin and every place of a failed lookup in it; the theorems cover any
  number. Two positive periods (10 and
  the default) show that one replaces the other, the negative one that a timer may be
  pending for ever.
- `lifecycle`: two drivers request PI0 and a third drives its registers, so every
  failure path runs with the pin free and taken. `gpio.c`, which wants PI0 in its second
  round, runs against `gpioled.c`, the competitor that keeps it for as long as it is
  loaded; neither is unbound under its users, so that what `UsesHeld` says of `gpio.c` is
  checked. The two I2C drivers share nothing with the others; they are alike, and one of
  them is unbound under its users while the other is not. The theorems cover every other
  choice.
- `sensors`: three processes are an opener, a reader, and one that disturbs both; the
  theorems cover any number.

Symmetry is used over processes, in runs without liveness only. A UART write is whole
or not at all. A delay is long or short only in the order of steps it allows.

What the properties except, and why:

- `MotorFollowsPerson` and `DisplayFollowsPerson` have the premise `Sensing`: no UART
  frame failed, and the read of the pin succeeds again and again. Reads may fail any
  number of times in between; without any reading the motor keeps its last command.
  They also hold off once `main` has given up (see `app_giveup`).
- `RadarSettles` and `GateSet` except a UART fault: after a short frame the code goes on
  and the radar may stay in command mode.
- `PeriodTakesEffect` excepts one timer: a SETPERIOD that arms it late, with a negative
  period that another process has replaced by then. Nothing expires to repair it.
- `SettledIsConfigured` excepts opens with a failed transfer.
- `CleanReadIsMeasured` excepts reads with a failed transfer or under an open, reads of an
  AP3216C that has measured nothing since it was last switched on, and reads that a new
  measurement falls into; `Clean` is the list. All of them return 0 like the others.
  Nothing in the code keeps a process from any of them: `ap3216c.c:129-130` demands more
  than 112.5 ms between two readings, but the driver keeps no time, `iic_test.c` reads
  right after open and takes the 0 that is returned for success (line 43), and two
  processes that each sleep long enough may read one right after the other. Of the RD-04
  the property says nothing, since its read hands out a register that open has set.
- `ExclusiveLed` and `LedLease` promise nothing once an open has been granted the errno
  that another open's failed lookup had left in `led_gpio` (`timer.c:96`, `astray`): a
  race of two opens, one of which fails.
- `NoLeak` excepts what `gpio.c` forgets (`LeftBehind`): when the second round of one of
  its loops fails (PI0 is in use, or the second `cdev_add` or `device_create` fails),
  `rd_probe` leaves PH7, `cdev0` or `node0` of the first behind (lines 213, 238, 255).
  `LostPinIsFinal` says what follows: a pin left so is never had again.
- `BoundIsOpenable` does not hold of `gpioled.c` and `timer.c`, which drop the result
  of `cdev_add` and test an older `ret`.
- `UsesHeld` is about open files. It excepts drivers that are unbound through sysfs, of
  which it does not hold, and an open file of `gpio.c` whose second `device_create` failed
  after the first node was opened (`gpio.c:251-255`): the labels free PI0 under it.
  `EarlyOpenOnly` is about opens of an I2C device before its `client` is set, in the
  middle of probe, and says that there is no other access without it. No line of the
  source claims otherwise, so these are recorded as hazards and not as findings.
- `PinGivenBack` excepts a failed `irq_of_parse_and_map` (`keyinput.c:74`), after which
  the pin stays taken for good, and `LedLease` has a lease that is lost, after a failed
  `gpio_direction_output` (`timer.c:117`), or because the owner's release found in
  `led_gpio` the errno of a second open's failed lookup (`timer.c:96`, 192) and freed
  that. Only these two ways lose it.
- `CrashOnlyAtTheEnds` leaves `keyirq.c` the two windows of `keyirq_setup` and
  `keyirq_exit`, and no other.

Runs that end in a counterexample, each against a line of the repository:

| run | the repository says | the code does |
|---|---|---|
| `app_giveup` | `Anti-collision/README.md:1`: the car slows down or stops when a person appears | the tty is full for one write, `write` returns EAGAIN, `main` ends with -5 and the motor runs on |
| `app_report` | `rd03uart-set.c:295`: `RD_03_systemMode(0x64)` selects the report mode | the header of the frame built at line 209 lacks its third byte, `fb`: the radar never gets the mode, and the tool waits for reports that do not come |
| `timer_led` | `timer.c:191`: the LED is off when the application ends | the callback runs between lines 191 and 193 and lights it |
| `timer_tick` | `timer.c:219`: every tick toggles the LED | `sta` survives close and open. A tick inside `timer_release` leaves it at 0; the next open drives the pin high, and the first tick of the reopened device turns `sta` to 1 and writes that: the LED does not change. Ticks that race a release are not looked at |
| `keyirq_exit` | `keyirq.c:317`: the timer is deleted | an edge before `free_irq` at line 320 starts it again, in a module about to be freed |
| `keyirq_setup` | `keyirq.c:290`: the timer is not activated before `timer_setup` | the interrupt is live since line 257 and activates it |

## 4. Fairness

- `CollisionApp`, `RadarShare`: weak fairness of `main` (its reads and tty writes never
  block and it sleeps for a bounded time), of the M4, of the radar, and of each other
  program, none of whose calls waits for another process. The person is free.
- `TimerDriver`: weak fairness of a call that was entered, of the expiry of a timer
  that is due and of its callback. `del_timer_sync` spins until it finds the callback
  idle: strong fairness of that one step, since a callback that rearms itself is idle
  again and again. No process is obliged to make a call.
- `KeyInput`: weak fairness of the handler, the expiry and the callback; probe and
  remove may stop anywhere.
- `KeyIrq`: the same, and weak fairness of `read`, the application that polls the key.
- `DriverLifecycle` and `I2cSensors` state none: their properties are safety.

## 5. Proofs

Every safety invariant that a passing run checks is proved, for every value of the
constants, and so are its action properties and its refinements (`RelaySpec`,
`LeaseSpec`, and `DebounceSpec` of both key drivers). Each proof is by an inductive
invariant, `IInv` unless another name is given, with a lemma per action or group of
actions.

`CollisionApp_proof` (for every capacity `Cap > 0` and every set of faults):

- `AnswersStayBounded`. The bound counts both directions together and allows one
  message more between `main`'s write and the end of the read that follows it; a bound
  on the answers alone would not be inductive, since each command under way becomes one.
- `MotorObeys`: `LastSent` says that the newest command in the tty, if there is one,
  is `buff` from the write on, so that the motor agrees with `buff` once the last command
  is consumed; `BeforeLoop` says that before the loop there is no sample to agree with.
- `RadarIsReady`: `RadarSetUp` follows the frames: without a fault the radar is in
  command mode from the first enter frame to the close frame, the gate is set from the
  parameter on, and the radar runs from the close frame on.
- `ImplementsRelay`: each step of the application is a step of `MotorRelay` or leaves its
  variables alone. Under the mapping a level enters the pipe when `main` has read it
  and not when it is written, so that a failed write is `GiveUp` losing the last
  level, and `MotorRelay`'s bound is `Cap + 1`.

`RadarShare_proof` (for any number of the other programs, which `MaxTools` does not
bound here): `SharedAnswersBounded`, `SharedMotorObeys` and `SharedImplementsRelay` from
the lemmas above, since no step of another program touches what they are about.
`RadarAlwaysSettles` and `GateAlwaysSet` from `RadarIInv`: as long as no section has been
closed, the radar is in command mode once a program is inside one, and a parameter
that was sent was taken; afterwards, the gate stays, and command mode means that
somebody is inside. The case split on the first close is needed: later, a program
inside its section may find the radar running, because another one closed.

`TimerDriver_proof` (for any set of processes, any integer periods, any faults):

- `LedIsExclusive`: owners (calls between `gpio_request` and `gpio_free`) and open files
  together are at most one and only while the pin is requested, until a number that a
  failed lookup has stored is granted. A release in progress
  counts as an owner, which is what makes it inductive.
- `TimerRests`: an armed timer, a running callback, or a call about to arm the timer
  has an open file or a release in progress behind it; `CallsHoldFile` supplies that
  a process inside a call still has the file it called on.
- `OopsWhileLoadingOnly`: `ModInv` says that a module that is gone or not yet there has
  no users; with `TimerRests` it has no callback either, so only the window between
  device and timer is left.
- `ImplementsLease`, from the three invariants together. Each step is a step of
  `LedLease` or leaves its variables alone: the lease begins with `gpio_request` and is
  given back by `gpio_free`, not by `close`, so that a release in progress still has it,
  and the process that is yet to call `del_timer_sync` is `leaving`, though another may
  have the LED by then. `SetupInv` (a timer that is armed, or whose callback runs, has
  been set up) makes the callback's rearming a continuation of the blinking, and `ModInv`
  leaves `timer_exit` nothing to stop. `mislaid` is the shared `led_gpio` without the
  pin's number: a lookup, failed or not, is the step `Mislay`, a release in that state
  loses the lease, and an open granted such a number makes it void.
- `LostLedIsFinal`, from `ImplementsLease`: no step of `LedLease` leads out of a lost
  lease but the one that makes it void.

`KeyInput_proof` (for every set of faults): `IrqStaysBalanced`, `ReportMatches`,
`UnboundIsQuiet`, `OnlyProbeCrashes`. `IrqBalanced` is inductive with the phases of
probe and remove (`LineFollowsPhase`: where the interrupt is installed and what has
come to rest after it is freed; `DeviceReady`: timer and input device exist from there
to there). `KeyFollows` says of an installed line without a waiting edge that the level
the callback has read, and the key after its report, are the pin's.

- `OnlyMappingKeepsPin`: `PinFollowsPhase` says between which calls of probe and remove
  the pin is held.
- `ImplementsDebounce`: under the mapping a debounce is owed while the line has a
  waiting edge or a debounce is in progress up to its report. `KeyFollows` gives the one
  obligation that is not a matter of bookkeeping, that a report after which nothing is
  owed is the pin's level.

`KeyIrq_proof` (for every set of faults): `LevelAlwaysSettles` and `ReaderStaysInSync`.
`LevelFollows`: what no waiting edge and no pending timer will correct is right, the
level that the callback has read as well as the one it has left; it is only claimed
while the handler is attached (`Installed`). `EventOfLevel`: an event that waits tells
of the level the driver has, so that reading it brings the reader to that level.
`LoadedNeverCrashes` needs `SetupFollowsPhase`: where `timer_setup` has run, and that a
timer without it is never pending. `ImplementsDebounce` maps the driver to the same
`DebouncedKey` as `keyinput.c`, though an edge postpones a timer here that is disabled
there: the update of the level pays what is owed only if no edge came after the read
of the pin, and `LevelFollows` says that then the level is right.

`DriverLifecycle_proof` (for any choice of the drivers that are installed together, any
tasks, faults and unbound devices):

- `PinsAreAccounted`: `DriversOK` relates a driver's position to what it holds, `PinsOK`
  the pins to their holders. What the proof needs of the seven drivers is one condition
  on a table, `Sound` (no label frees a pin that was not requested before the step that
  jumps to it, and no list frees one twice), which `TableSound` establishes for each.
- `BoundCanBeOpened`, from `Openable` in the same way.
- `NothingLeaks`: `LeakInv` bounds what a driver holds from above by what its list still
  frees and what it has left behind; `Undone` is the condition on the tables.
- `LeakedPinIsFinal`: `Stuck` needs no invariant beyond the above, but `Refuses`, a
  condition on the tables: a driver that wants a pin first returns when it is refused,
  and frees nothing.
- `FilesAreServed`: `UseInv` says of every driver but `gpio.c` that, with a user and not
  unbound under its users, it is loading or bound and has all that the file operations
  need. It rests on two conditions on the tables: `NoWayBack`, that init does not turn
  back once the device can be opened, and `Usable`, that a driver not on the I2C bus has
  insisted by then on all that its users need. `gpio.c` fails `NoWayBack`, by its first
  node; `GpioInv` follows it separately, in load, unwinding and after, and leaves the one
  state that `UsesHeld` names.
- `OnlyEarlyOpens`: for the I2C drivers, `Serves` says that they set `client` last, and
  `ClientInv` that a probe that has returned has set it.

`I2cSensors_proof` (for any set of processes, with or without faults):

- `SettledConfigured`. `Rd04Inv`: a register that is not as it must be in the end is
  still to be written by an open under way (`LastWrite` is the position of its last
  write). `Ap3216cInv`: the chip resets only while the task that started the reset
  waits, and that task will configure it.
- `CleanReadMeasured`. `CleanReadInv`: while a clean read is under way every read is
  clean and has collected bytes of the measurement that is in the chip, so that the shared
  fields, whoever stored them, are valid.

The assumptions are those named in the modules (`CapAssumption`, `FaultsAssumption`,
`ToolsAssumption`, `NoFileAssumption`, `PeriodsAssumption`, `NobodyAssumption`,
`DriversAssumption`, `NoDriverAssumption`, `UnbindsAssumption`); TLC evaluates them in
every run. `FaultsAssumption` of `DriverLifecycle` says that an assignment, or a
`timer_setup`, cannot fail.

Only model-checked: liveness (`MotorFollowsPerson`, `DisplayFollowsPerson`,
`PeriodTakesEffect`, `CallsReturn`, `RestIsReported`, `RestIsRead`), since fairness and
ENABLED are out of the prover's reach.

## 6. Not modelled

- The termios helpers (they fill in a struct) and the bytes of the frames, but for the
  header that one of them lacks.
- `rd03uart-set.c` beyond its first report: `read_data` asks for as many bytes as a
  pointer has and compares a tail that cannot be there, so that `main` returns before
  the loop that would tell the M4.
- `main.c` beyond its first ioctl, which `gpio.c` does not implement; the thread it
  starts is a task of `I2cSensors`, whose read ends in a wild pointer or succeeds.
- The setters of `rd04.c` that nothing calls; how the six bytes of an AP3216C measurement
  become three numbers; the register values of `led_chr.c`.
- The dialogues of the test programs: the tasks of the models issue their calls in any
  order.
- The M4's firmware, which is not in the repository and appears as the environment that
  answers each command; generated build files.

One hazard has no property: a failed `timer_open` changes the period of the owner
(`timer.c:133`). The model contains it, and nothing in the repository promises the
opposite.

## 7. What could follow

The modules cover every part of the repository that keeps state. What is left is
depth: `DriverLifecycle` and `I2cSensors` composed, so that a sensor is unbound in
the middle of a transfer; a UART write that is cut short in the middle of a frame; and
a promise of a debounced key with its reader, which `keyirq.c`'s `ReaderInSync` and the
input core's events would both implement.
