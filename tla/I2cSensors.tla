----------------------------- MODULE I2cSensors -----------------------------
(***************************************************************************)
(* The I2C sensors behind iic/ap3216c.c and Anti-collision/src/rd04.c: what *)
(* open and read do to the registers when several processes use one sensor *)
(* (iic_test.c, the thread of Anti-collision/src/main.c).                   *)
(*                                                                         *)
(* Every open configures the sensor anew, register by register, without a  *)
(* lock; only a single transfer is atomic, by the lock of the I2C adapter.  *)
(* A failed transfer is noticed by nobody: open and read return 0 whatever  *)
(* happened.  A step is one transfer.                                       *)
(*                                                                         *)
(* The chips are outside src/: registers keep what is written to them, and *)
(* the AP3216C loses what it is sent while it resets, for less than the     *)
(* 50 ms that ap3216c_open waits.  Once on, it puts a new measurement into  *)
(* its data registers every 112.5 ms, with a bit that says whether its      *)
(* infrared light was too strong; after each write to its system register   *)
(* the first one is still to come.                                          *)
(***************************************************************************)
EXTENDS Integers, Sequences

CONSTANTS
  Tasks,   \* processes that use the sensor
  Nobody,  \* no task
  Faults   \* whether transfers may fail

ASSUME NobodyAssumption == Nobody \notin Tasks
ASSUME FaultsAssumption == Faults \in BOOLEAN

Devices == {"ap3216c", "rd04"}

Write(reg, val) == [reg |-> reg, val |-> val]
Pause == Write("none", 0)

\* Bytes of the RD-04's induction delay, which counts in 1/32 ms.
LowByte(ms) == (ms * 32) % 256
HighByte(ms) == ((ms * 32) \div 256) % 256

\* Without the mdelay: the second write falls into the reset.
MutantAp3216cOpen == <<Write("system", 4), Write("system", 3)>>

\* ap3216c_open: reset, mdelay(50), then ALS, PS and IR on.
Ap3216cOpen == <<Write("system", 4), Pause, Write("system", 3)>>

\* rd04_open: default_config ends with the registers at 100 ms and output off.
\* "fixed" stands for the registers that are written once, or twice the same.
Rd04Open ==
  <<Write("access", 0),
    Write("x13", 155), Write("x13", 155), Write("x13", 155), Write("x13", 155),
    Write("x13", 155),
    Write("output", 3), Write("fixed", 1),
    Write("delayLow", LowByte(100)), Write("delayHigh", HighByte(100)),
    Write("delayLow", LowByte(1000)), Write("delayHigh", HighByte(1000)),
    Write("output", 7)>>

Registers == {"system", "access", "x13", "output", "fixed", "delayLow", "delayHigh"}

OpenSteps(d) == IF d = "ap3216c" THEN Ap3216cOpen ELSE Rd04Open
OpenLength(d) == Len(OpenSteps(d))
ReadSteps(d) == IF d = "ap3216c" THEN 6 ELSE 2

Field == {"ir", "als", "ps"}

VARIABLES
  dev,       \* the driver
  reg,       \* the sensor's registers
  resetBy,   \* the task whose reset the AP3216C is still busy with
  data,      \* the AP3216C's data registers: "none" (no measurement since it was last
             \* set), "good" or "over" (measured, with the overflow bits)
  call,      \* per task: "none", "open", "ready", "read", "store", "copy" or "asleep"
  at,        \* the transfer its open or read makes next
  buf,       \* its local buffer: "empty", bytes of one state of `data`, or "mixed"
  sample,    \* the fields ir, als and ps of the device: "measured", "zero" or "other"
  opened,    \* history: the sensor has been opened
  spoiled,   \* history: a transfer of the opens under way, or of the last, failed
  clean      \* history, per task: see Clean

vars == <<dev, reg, resetBy, data, call, at, buf, sample, opened, spoiled, clean>>
chip == <<reg, resetBy, data>>

Init ==
  /\ dev \in Devices
  /\ reg = [r \in Registers |-> 0]
  /\ resetBy = Nobody
  /\ data = "none"
  /\ call = [t \in Tasks |-> "none"]
  /\ at = [t \in Tasks |-> 0]
  /\ buf = [t \in Tasks |-> "empty"]
  /\ sample = [f \in Field |-> "other"]
  /\ opened = FALSE
  /\ spoiled = FALSE
  /\ clean = [t \in Tasks |-> FALSE]

Goto(t, c, i) == call' = [call EXCEPT ![t] = c] /\ at' = [at EXCEPT ![t] = i]

Opening == \E t \in Tasks : call[t] = "open"
Reading(t) == call[t] \in {"read", "store", "copy"}
Settled == opened /\ ~Opening /\ ~spoiled

\* A read is clean that started on a settled sensor with a measurement in its registers,
\* while no read was under way that is not, and that was not disturbed: by an open, by a
\* failed transfer, or by a new measurement between the bytes of a read.
Clean == Settled /\ data # "none" /\ \A u \in Tasks : Reading(u) => clean[u]
Dirty == clean' = [t \in Tasks |-> FALSE]

\* What the sensor is to be set to: everything on; a second of induction delay.
Configured ==
  IF dev = "ap3216c"
    THEN reg["system"] = 3
    ELSE /\ reg["output"] = 7
         /\ reg["x13"] = 155 /\ reg["fixed"] = 1
         /\ reg["delayLow"] + 256 * reg["delayHigh"] = 1000 * 32
-----------------------------------------------------------------------------
(* open *)

OpenStart(t) ==
  /\ call[t] = "none"
  /\ Goto(t, "open", 1)
  /\ opened' = TRUE
  /\ spoiled' = (spoiled /\ Opening)
  /\ Dirty
  /\ UNCHANGED <<dev, chip, buf, sample>>

\* An open that returns at the position of the next.
MutantContinue(t, i) ==
  IF i > OpenLength(dev) THEN Goto(t, "ready", i) ELSE Goto(t, "open", i)

\* Position i of open, or its end.
Continue(t, i) ==
  IF i > OpenLength(dev) THEN Goto(t, "ready", 0) ELSE Goto(t, "open", i)

\* The task's mdelay(50) outlasts the reset it has started.
OpenPause(t) ==
  /\ call[t] = "open"
  /\ OpenSteps(dev)[at[t]] = Pause
  /\ resetBy # t
  /\ Continue(t, at[t] + 1)
  /\ UNCHANGED <<dev, chip, buf, sample, opened, spoiled, clean>>

\* The AP3216C's reset bit is obeyed at any time, everything else when ready.
OpenWrite(t) ==
  /\ call[t] = "open"
  /\ LET w == OpenSteps(dev)[at[t]] IN
       /\ w # Pause
       /\ resetBy' = IF w = Write("system", 4) THEN t ELSE resetBy
       /\ reg' = IF resetBy # Nobody /\ w # Write("system", 4)
                   THEN reg ELSE [reg EXCEPT ![w.reg] = w.val]
       /\ data' = IF w.reg = "system" THEN "none" ELSE data
  /\ Continue(t, at[t] + 1)
  /\ UNCHANGED <<dev, buf, sample, opened, spoiled, clean>>

\* Nobody looks at the result, except the loop over 0x13, which is left.
OpenFault(t) ==
  /\ Faults
  /\ call[t] = "open"
  /\ OpenSteps(dev)[at[t]] # Pause
  /\ Continue(t, IF OpenSteps(dev)[at[t]].reg = "x13" THEN 7 ELSE at[t] + 1)
  /\ spoiled' = TRUE
  /\ UNCHANGED <<dev, chip, buf, sample, opened, clean>>

\* The AP3216C is out of its reset.
ChipReady ==
  /\ resetBy # Nobody
  /\ resetBy' = Nobody
  /\ UNCHANGED <<dev, reg, data, call, at, buf, sample, opened, spoiled, clean>>

\* The middle of a read's transfers.
Midway(t) == call[t] = "read" /\ at[t] > 1

\* 112.5 ms have passed: a new measurement, if the AP3216C is on.  Every process sleeps
\* longer between two reads of its own.
Period ==
  /\ IF dev = "ap3216c" /\ reg["system"] = 3 /\ resetBy = Nobody
       THEN /\ data' \in {"good", "over"}
            /\ buf' = [t \in Tasks |-> IF Midway(t) THEN "mixed" ELSE buf[t]]
            /\ IF \E t \in Tasks : Midway(t) THEN Dirty ELSE UNCHANGED clean
       ELSE UNCHANGED <<data, buf, clean>>
  /\ call' = [t \in Tasks |-> IF call[t] = "asleep" THEN "ready" ELSE call[t]]
  /\ UNCHANGED <<dev, reg, resetBy, at, sample, opened, spoiled>>
-----------------------------------------------------------------------------
(* read *)

ReadStart(t) ==
  /\ call[t] = "ready"
  /\ Goto(t, "read", 1)
  /\ clean' = [clean EXCEPT ![t] = Clean]
  /\ UNCHANGED <<dev, chip, buf, sample, opened, spoiled>>

\* After the last transfer: the fields of the device for the AP3216C, the user's
\* buffer for the RD-04.
AfterRead(t) ==
  IF at[t] < ReadSteps(dev)
    THEN Goto(t, "read", at[t] + 1)
    ELSE Goto(t, IF dev = "ap3216c" THEN "store" ELSE "copy", 0)

\* The AP3216C's data registers are read one by one.  The RD-04's first transfer writes
\* "access"; its second reads back 0x24, which open has set.
ReadTransfer(t) ==
  /\ call[t] = "read"
  /\ IF dev = "ap3216c"
       THEN /\ buf' = [buf EXCEPT ![t] = IF at[t] = 1 \/ @ = data THEN data ELSE "mixed"]
            /\ UNCHANGED reg
       ELSE /\ reg' = IF at[t] = 1 THEN [reg EXCEPT !["access"] = 1] ELSE reg
            /\ UNCHANGED buf
  /\ AfterRead(t)
  /\ UNCHANGED <<dev, resetBy, data, sample, opened, spoiled, clean>>

\* A failed transfer reads 0 and the read goes on.
ReadFault(t) ==
  /\ Faults
  /\ call[t] = "read"
  /\ buf' = IF dev = "ap3216c" THEN [buf EXCEPT ![t] = "mixed"] ELSE buf
  /\ AfterRead(t)
  /\ Dirty
  /\ UNCHANGED <<dev, chip, sample, opened, spoiled>>

\* ap3216c_readdata without the test of buf[4].
MutantFields(b) ==
  [f \in Field |->
     IF b = "good" \/ (b = "over" /\ f = "als") THEN "measured"
     ELSE IF b = "over" /\ f = "ir" THEN "zero" ELSE "other"]

\* What ap3216c_readdata makes of the six bytes: with the overflow bit of buf[0] or
\* buf[4] set, the infrared or the proximity is invalid, and 0 is stored.
Fields(b) ==
  [f \in Field |->
     IF b = "good" \/ (b = "over" /\ f = "als") THEN "measured"
     ELSE IF b = "over" THEN "zero" ELSE "other"]

\* The three fields of the device are shared by all readers.
Store(t) ==
  /\ call[t] = "store"
  /\ sample' = Fields(buf[t])
  /\ Goto(t, "copy", 0)
  /\ UNCHANGED <<dev, chip, buf, opened, spoiled, clean>>

\* The fields go to the caller, who sleeps before it reads again.
Copy(t) ==
  /\ call[t] = "copy"
  /\ Goto(t, "asleep", 0)
  /\ buf' = [buf EXCEPT ![t] = "empty"]
  /\ clean' = [clean EXCEPT ![t] = FALSE]
  /\ UNCHANGED <<dev, chip, sample, opened, spoiled>>

\* The process is killed, or gone after a read into main.c's wild pointer, or
\* with main, whose ioctl gpio.c does not implement.
Close(t) ==
  /\ call[t] \in {"ready", "asleep"}
  /\ Goto(t, "none", 0)
  /\ UNCHANGED <<dev, chip, buf, sample, opened, spoiled, clean>>

Open(t) == OpenStart(t) \/ OpenPause(t) \/ OpenWrite(t) \/ OpenFault(t)
Read(t) == ReadStart(t) \/ ReadTransfer(t) \/ ReadFault(t) \/ Store(t) \/ Copy(t)

Next == ChipReady \/ Period \/ \E t \in Tasks : Open(t) \/ Read(t) \/ Close(t)

Spec == Init /\ [][Next]_vars
-----------------------------------------------------------------------------
\* Every variable keeps its type, and a call is at a transfer exactly while it makes any.
TypeOK ==
  /\ dev \in Devices
  /\ reg \in [Registers -> 0 .. 255]
  /\ resetBy \in Tasks \cup {Nobody}
  /\ data \in {"none", "good", "over"}
  /\ call \in [Tasks -> {"none", "open", "ready", "read", "store", "copy", "asleep"}]
  /\ at \in [Tasks -> Nat]
  /\ \A t \in Tasks :
       /\ call[t] = "open" => at[t] \in 1 .. OpenLength(dev)
       /\ call[t] = "read" => at[t] \in 1 .. ReadSteps(dev)
       /\ call[t] \notin {"open", "read"} => at[t] = 0
  /\ buf \in [Tasks -> {"empty", "none", "good", "over", "mixed"}]
  /\ sample \in [Field -> {"measured", "zero", "other"}]
  /\ opened \in BOOLEAN /\ spoiled \in BOOLEAN
  /\ clean \in [Tasks -> BOOLEAN]

\* When no open is under way and no transfer of the last overlapping opens failed,
\* the sensor is configured as one open alone would leave it, whatever the order
\* in which the opens' register writes and resets met: no delay made of two halves,
\* no configuration lost in another's reset.
SettledIsConfigured == Settled => Configured

\* Every reader of the AP3216C returns what any of them stored last, without a lock.
\* A clean read, which overlaps clean reads only, nevertheless returns a measurement in
\* each field, or a 0 that stands for an overflow, whoever stored it: never bytes of two
\* measurements, of none, or that the overflow bits (ap3216c.c:147, 155) call invalid.
\* Not clean, though it returns 0 like any other, is a read within 112.5 ms of open's
\* last write or one into which a measurement falls: the rule of ap3216c.c:129 is left to
\* the callers, who do not keep it right after open, nor between two processes.
CleanReadIsMeasured ==
  \A t \in Tasks : dev = "ap3216c" /\ call[t] = "copy" /\ clean[t] =>
    /\ sample["als"] = "measured"
    /\ sample["ir"] \in {"measured", "zero"} /\ sample["ps"] \in {"measured", "zero"}
=============================================================================
