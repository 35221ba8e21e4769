-------------------------- MODULE I2cSensors_proof --------------------------
(***************************************************************************)
(* Proofs about I2cSensors for any set of tasks: its type invariant, that  *)
(* a settled sensor is configured, and that a clean read returns what the  *)
(* AP3216C has measured.                                                    *)
(***************************************************************************)
EXTENDS I2cSensors, TLAPS

USE NobodyAssumption, FaultsAssumption

-----------------------------------------------------------------------------
(* The two programs of open.                                                   *)

LEMMA OpenLengths == Len(Ap3216cOpen) = 3 /\ Len(Rd04Open) = 13
  BY DEF Ap3216cOpen, Rd04Open

LEMMA OpenDomains ==
  /\ DOMAIN Ap3216cOpen = 1 .. 3
  /\ DOMAIN Rd04Open = 1 .. 13
  BY DEF Ap3216cOpen, Rd04Open

LEMMA DelayBytes ==
  /\ LowByte(100) = 128 /\ HighByte(100) = 12
  /\ LowByte(1000) = 0 /\ HighByte(1000) = 125
  BY DEF LowByte, HighByte

\* Where the AP3216C's open resets, waits and configures.
LEMMA Ap3216cSteps ==
  /\ Ap3216cOpen[1] = Write("system", 4)
  /\ Ap3216cOpen[2] = Pause
  /\ Ap3216cOpen[3] = Write("system", 3)
  /\ Write("system", 3) # Write("system", 4)
  /\ Write("system", 3) # Pause /\ Write("system", 4) # Pause
  BY DEF Ap3216cOpen, Write, Pause

\* The register and value of each of the RD-04's writes.
LEMMA Rd04Steps ==
  ASSUME NEW i \in 1 .. 13
  PROVE  /\ Rd04Open[i] # Pause /\ Rd04Open[i] # Write("system", 4)
         /\ Rd04Open[i].reg \in Registers \ {"system"}
         /\ Rd04Open[i].val \in 0 .. 255
         /\ i = 6 => Rd04Open[i] = Write("x13", 155)
         /\ i = 8 => Rd04Open[i] = Write("fixed", 1)
         /\ i = 11 => Rd04Open[i] = Write("delayLow", 0)
         /\ i = 12 => Rd04Open[i] = Write("delayHigh", 125)
         /\ i = 13 => Rd04Open[i] = Write("output", 7)
         /\ Rd04Open[i].reg = "x13" => i \in 2 .. 6
         /\ Rd04Open[i].reg = "fixed" => i = 8
         /\ Rd04Open[i].reg = "delayLow" => i \in 9 .. 11
         /\ Rd04Open[i].reg = "delayHigh" => i \in 9 .. 12
         /\ Rd04Open[i].reg = "output" => i \in 7 .. 13
  BY DelayBytes DEF Rd04Open, Write, Pause, Registers

-----------------------------------------------------------------------------
(* Type correctness.                                                           *)

Calls == {"none", "open", "ready", "read", "store", "copy", "asleep"}
Bufs == {"empty", "none", "good", "over", "mixed"}

\* The part of TypeOK about where the calls are, for the driver d.
CallsOK(d, c, a) ==
  /\ c \in [Tasks -> Calls]
  /\ a \in [Tasks -> Nat]
  /\ \A t \in Tasks :
       /\ c[t] = "open" => a[t] \in 1 .. OpenLength(d)
       /\ c[t] = "read" => a[t] \in 1 .. ReadSteps(d)
       /\ c[t] \notin {"open", "read"} => a[t] = 0

\* The rest of it.
DataOK ==
  /\ dev \in Devices
  /\ reg \in [Registers -> 0 .. 255]
  /\ resetBy \in Tasks \cup {Nobody}
  /\ data \in {"none", "good", "over"}
  /\ buf \in [Tasks -> Bufs]
  /\ sample \in [Field -> {"measured", "zero", "other"}]
  /\ opened \in BOOLEAN /\ spoiled \in BOOLEAN
  /\ clean \in [Tasks -> BOOLEAN]

LEMMA TypeParts ==
  /\ TypeOK <=> DataOK /\ CallsOK(dev, call, at)
  /\ TypeOK' <=> DataOK' /\ CallsOK(dev', call', at')
  BY DEF TypeOK, DataOK, CallsOK, Calls, Bufs

LEMMA InitTypes == Init => TypeOK
<1> SUFFICES ASSUME Init PROVE DataOK /\ CallsOK(dev, call, at)
  BY TypeParts
<1>1. CallsOK(dev, call, at)
  BY DEF Init, CallsOK, Calls
<1>2. reg \in [Registers -> 0 .. 255]
  BY DEF Init
<1> QED BY <1>1, <1>2 DEF Init, DataOK, Bufs

\* The lengths of open and read.
LEMMA Lengths ==
  ASSUME DataOK
  PROVE  /\ dev = "ap3216c" => OpenSteps(dev) = Ap3216cOpen /\ OpenLength(dev) = 3
         /\ dev = "rd04" => OpenSteps(dev) = Rd04Open /\ OpenLength(dev) = 13
         /\ dev = "ap3216c" \/ dev = "rd04"
         /\ OpenLength(dev) \in Nat
         /\ OpenLength(dev) = 3 \/ OpenLength(dev) = 13
         /\ ReadSteps(dev) \in {2, 6}
  BY OpenLengths DEF DataOK, Devices, OpenSteps, OpenLength, ReadSteps

LEMMA GotoTypes ==
  ASSUME DataOK, CallsOK(dev, call, at), NEW t \in Tasks, NEW c \in Calls, NEW i \in Nat,
         c = "open" => i \in 1 .. OpenLength(dev),
         c = "read" => i \in 1 .. ReadSteps(dev),
         c \notin {"open", "read"} => i = 0,
         Goto(t, c, i)
  PROVE  CallsOK(dev, call', at')
  BY DEF CallsOK, Goto

\* Where a step of open leads.
LEMMA ContinueTypes ==
  ASSUME DataOK, CallsOK(dev, call, at), NEW t \in Tasks,
         NEW i \in 2 .. OpenLength(dev) + 1, Continue(t, i)
  PROVE  CallsOK(dev, call', at')
<1>1. CASE i > OpenLength(dev)
  <2>1. Goto(t, "ready", 0)
    BY <1>1 DEF Continue
  <2> QED BY <2>1, GotoTypes DEF Calls
<1>2. CASE ~(i > OpenLength(dev))
  <2>1. Goto(t, "open", i)
    BY <1>2 DEF Continue
  <2>2. i \in 1 .. OpenLength(dev) /\ i \in Nat
    BY <1>2, Lengths
  <2> QED BY <2>1, <2>2, GotoTypes DEF Calls
<1> QED BY <1>1, <1>2

\* The write that a task of an open is at.
LEMMA WriteTypes ==
  ASSUME DataOK, NEW i \in 1 .. OpenLength(dev), OpenSteps(dev)[i] # Pause
  PROVE  /\ OpenSteps(dev)[i].reg \in Registers
         /\ OpenSteps(dev)[i].val \in 0 .. 255
         /\ OpenSteps(dev)[i].reg = "x13" => dev = "rd04"
<1>1. CASE dev = "ap3216c"
  <2>1. i \in {1, 2, 3} /\ OpenSteps(dev) = Ap3216cOpen
    <3>1. OpenSteps(dev) = Ap3216cOpen /\ OpenLength(dev) = 3
      BY <1>1, Lengths
    <3>2. i \in 1 .. 3
      BY <3>1
    <3> QED BY <3>1, <3>2
  <2>2. i \in {1, 3}
    BY <2>1, Ap3216cSteps
  <2>3. OpenSteps(dev)[i] = Write("system", 4) \/ OpenSteps(dev)[i] = Write("system", 3)
    BY <2>1, <2>2, Ap3216cSteps
  <2> QED BY <2>3 DEF Write, Registers
<1>2. CASE dev = "rd04"
  <2>1. i \in 1 .. 13 /\ OpenSteps(dev) = Rd04Open
    BY <1>2, Lengths
  <2> QED BY <1>2, <2>1, Rd04Steps
<1> QED BY <1>1, <1>2, Lengths

LEMMA OpenTypes ==
  ASSUME TypeOK, NEW t \in Tasks, Open(t)
  PROVE  TypeOK'
<1> SUFFICES DataOK' /\ CallsOK(dev', call', at')
  BY TypeParts
<1>1. DataOK /\ CallsOK(dev, call, at)
  BY TypeParts
<1>2. call[t] = "open" => at[t] \in 1 .. OpenLength(dev)
  BY <1>1 DEF CallsOK
<1>3. /\ OpenLength(dev) \in Nat
      /\ OpenLength(dev) = 3 \/ OpenLength(dev) = 13
  BY <1>1, Lengths
<1>4. CASE OpenStart(t)
  <2>1. spoiled' \in BOOLEAN /\ opened' \in BOOLEAN /\ clean' \in [Tasks -> BOOLEAN]
    BY <1>4 DEF OpenStart, Dirty
  <2>2. 1 \in 1 .. OpenLength(dev)
    BY <1>3
  <2>3. CallsOK(dev, call', at')
    BY <1>1, <1>4, <2>2, GotoTypes DEF OpenStart, Calls
  <2> QED BY <1>1, <1>4, <2>1, <2>3 DEF OpenStart, DataOK, chip
<1>5. CASE OpenPause(t)
  <2>1. at[t] + 1 \in 2 .. OpenLength(dev) + 1
    BY <1>2, <1>3, <1>5 DEF OpenPause
  <2>2. CallsOK(dev, call', at')
    BY <1>1, <1>5, <2>1, ContinueTypes DEF OpenPause
  <2> QED BY <1>1, <1>5, <2>2 DEF OpenPause, DataOK, chip
<1>6. CASE OpenWrite(t)
  <2> DEFINE w == OpenSteps(dev)[at[t]]
  <2>1. w.reg \in Registers /\ w.val \in 0 .. 255
    BY <1>1, <1>2, <1>6, WriteTypes DEF OpenWrite
  <2>2. /\ reg' \in [Registers -> 0 .. 255] /\ resetBy' \in Tasks \cup {Nobody}
        /\ data' \in {"none", "good", "over"}
    BY <1>1, <1>6, <2>1 DEF OpenWrite, DataOK
  <2>3. at[t] + 1 \in 2 .. OpenLength(dev) + 1
    BY <1>2, <1>3, <1>6 DEF OpenWrite
  <2>4. CallsOK(dev, call', at')
    BY <1>1, <1>6, <2>3, ContinueTypes DEF OpenWrite
  <2> QED BY <1>1, <1>6, <2>2, <2>4 DEF OpenWrite, DataOK
<1>7. CASE OpenFault(t)
  <2>1. OpenSteps(dev)[at[t]].reg = "x13" => OpenLength(dev) = 13
    BY <1>1, <1>2, <1>7, WriteTypes, Lengths DEF OpenFault
  <2>2. \E i \in 2 .. OpenLength(dev) + 1 : Continue(t, i)
    <3> DEFINE i == IF OpenSteps(dev)[at[t]].reg = "x13" THEN 7 ELSE at[t] + 1
    <3>1. Continue(t, i)
      BY <1>7 DEF OpenFault
    <3>2. at[t] \in 1 .. OpenLength(dev)
      BY <1>2, <1>7 DEF OpenFault
    <3>3. i \in 2 .. OpenLength(dev) + 1
      BY <1>3, <2>1, <3>2
    <3> HIDE DEF i
    <3> QED BY <3>1, <3>3
  <2>3. CallsOK(dev, call', at')
    BY <1>1, <2>2, ContinueTypes
  <2> QED BY <1>1, <1>7, <2>3 DEF OpenFault, DataOK, chip
<1> QED BY <1>4, <1>5, <1>6, <1>7 DEF Open

LEMMA ReadTypes ==
  ASSUME TypeOK, NEW t \in Tasks, Read(t) \/ Close(t)
  PROVE  TypeOK'
<1> SUFFICES DataOK' /\ CallsOK(dev', call', at')
  BY TypeParts
<1>1. DataOK /\ CallsOK(dev, call, at)
  BY TypeParts
<1>2. ReadSteps(dev) \in {2, 6}
  BY <1>1, Lengths
<1>3. AfterRead(t) /\ call[t] = "read" => CallsOK(dev, call', at')
  <2> HAVE AfterRead(t) /\ call[t] = "read"
  <2>1. at[t] \in 1 .. ReadSteps(dev)
    BY <1>1 DEF CallsOK
  <2>2. CASE at[t] < ReadSteps(dev)
    <3>1. Goto(t, "read", at[t] + 1)
      BY <2>2 DEF AfterRead
    <3>2. at[t] + 1 \in Nat /\ at[t] + 1 \in 1 .. ReadSteps(dev)
      BY <1>2, <2>1, <2>2
    <3> QED BY <1>1, <3>1, <3>2, GotoTypes DEF Calls
  <2>3. CASE ~(at[t] < ReadSteps(dev))
    <3>1. Goto(t, "store", 0) \/ Goto(t, "copy", 0)
      BY <2>3 DEF AfterRead
    <3> QED BY <1>1, <3>1, GotoTypes DEF Calls
  <2> QED BY <2>2, <2>3
<1>4. CASE ReadStart(t)
  <2>1. clean' \in [Tasks -> BOOLEAN]
    BY <1>1, <1>4 DEF ReadStart, DataOK, Clean
  <2>2. CallsOK(dev, call', at')
    BY <1>1, <1>2, <1>4, GotoTypes DEF ReadStart, Calls
  <2> QED BY <1>1, <1>4, <2>1, <2>2 DEF ReadStart, DataOK, chip
<1>5. CASE ReadTransfer(t)
  <2>1. reg' \in [Registers -> 0 .. 255]
    BY <1>1, <1>5 DEF ReadTransfer, DataOK
  <2>2. buf' \in [Tasks -> Bufs]
    BY <1>1, <1>5 DEF ReadTransfer, DataOK, Bufs
  <2> QED BY <1>1, <1>3, <1>5, <2>1, <2>2 DEF ReadTransfer, DataOK
<1>6. CASE ReadFault(t)
  <2>1. buf' \in [Tasks -> Bufs] /\ clean' \in [Tasks -> BOOLEAN]
    BY <1>1, <1>6 DEF ReadFault, DataOK, Dirty, Bufs
  <2> QED BY <1>1, <1>3, <1>6, <2>1 DEF ReadFault, DataOK, chip
<1>7. CASE Store(t)
  <2>1. CallsOK(dev, call', at')
    BY <1>1, <1>7, GotoTypes DEF Store, Calls
  <2>2. sample' \in [Field -> {"measured", "zero", "other"}]
    BY <1>7 DEF Store, Fields
  <2> QED BY <1>1, <1>7, <2>1, <2>2 DEF Store, DataOK, chip
<1>8. CASE Copy(t) \/ Close(t)
  <2>1. CallsOK(dev, call', at')
    BY <1>1, <1>8, GotoTypes DEF Copy, Close, Calls
  <2>2. buf' \in [Tasks -> Bufs] /\ clean' \in [Tasks -> BOOLEAN]
    BY <1>1, <1>8 DEF Copy, Close, DataOK, Bufs
  <2> QED BY <1>1, <1>8, <2>1, <2>2 DEF Copy, Close, DataOK, chip
<1> QED BY <1>4, <1>5, <1>6, <1>7, <1>8 DEF Read

LEMMA PeriodTypes == ASSUME TypeOK, Period PROVE TypeOK'
<1>1. DataOK /\ CallsOK(dev, call, at)
  BY TypeParts
<1>2. CallsOK(dev', call', at')
  BY <1>1 DEF Period, CallsOK, Calls
<1>3. /\ data' \in {"none", "good", "over"} /\ buf' \in [Tasks -> Bufs]
      /\ clean' \in [Tasks -> BOOLEAN]
  <2> DEFINE on == dev = "ap3216c" /\ reg["system"] = 3 /\ resetBy = Nobody
  <2>1. CASE on
    <3>1. /\ data' \in {"good", "over"}
          /\ buf' = [t \in Tasks |-> IF Midway(t) THEN "mixed" ELSE buf[t]]
      BY <2>1 DEF Period
    <3>2. clean' \in [Tasks -> BOOLEAN]
      BY <1>1, <2>1 DEF Period, DataOK, Dirty
    <3> HIDE DEF on
    <3> QED BY <1>1, <3>1, <3>2 DEF DataOK, Bufs
  <2>2. CASE ~on
    <3>1. UNCHANGED <<data, buf, clean>>
      BY <2>2 DEF Period
    <3> HIDE DEF on
    <3> QED BY <1>1, <3>1 DEF DataOK
  <2> QED BY <2>1, <2>2
<1>4. DataOK'
  BY <1>1, <1>3 DEF Period, DataOK
<1> QED BY <1>2, <1>4, TypeParts

LEMMA NextTypes == TypeOK /\ [Next]_vars => TypeOK'
<1> SUFFICES ASSUME TypeOK, [Next]_vars
             PROVE  TypeOK'
  OBVIOUS
<1>1. CASE ChipReady \/ UNCHANGED vars
  <2>1. DataOK'
    BY <1>1, TypeParts DEF ChipReady, vars, DataOK
  <2>2. CallsOK(dev', call', at')
    BY <1>1, TypeParts DEF ChipReady, vars
  <2> QED BY <2>1, <2>2, TypeParts
<1>2. ASSUME NEW t \in Tasks, Open(t) \/ Read(t) \/ Close(t)
      PROVE  TypeOK'
  BY <1>2, OpenTypes, ReadTypes
<1> QED BY <1>1, <1>2, PeriodTypes DEF Next

\* Every reachable state of the sensors and their users is well typed.
THEOREM TypeCorrect == Spec => []TypeOK
  BY InitTypes, NextTypes, PTL DEF Spec
-----------------------------------------------------------------------------
(* A settled sensor is configured.                                             *)

\* The registers of the RD-04 that Configured looks at, the last write of open to
\* each, and its value.
Watched == {"x13", "fixed", "delayLow", "delayHigh", "output"}
LastWrite == [x13 |-> 6, fixed |-> 8, delayLow |-> 11, delayHigh |-> 12, output |-> 13]
Final == [x13 |-> 155, fixed |-> 1, delayLow |-> 0, delayHigh |-> 125, output |-> 7]

\* What is not as it must be in the end is still to be written by an open under way.
Rd04Inv ==
  dev = "rd04" =>
    /\ resetBy = Nobody
    /\ opened /\ ~spoiled =>
         \A r \in Watched :
           reg[r] = Final[r] \/ \E t \in Tasks : call[t] = "open" /\ at[t] <= LastWrite[r]

\* The AP3216C resets only while the task that started it waits; what a reset takes
\* away, that task's open will set.
Ap3216cInv ==
  dev = "ap3216c" =>
    /\ \A u \in Tasks : resetBy = u => call[u] = "open" /\ at[u] = 2
    /\ opened /\ ~spoiled => reg["system"] = 3 \/ Opening

ConfigInv == TypeOK /\ Rd04Inv /\ Ap3216cInv

\* The writes of the RD-04's open as Rd04Inv sees them.
LEMMA WatchedWrites ==
  ASSUME NEW i \in 1 .. 13, NEW r \in Watched
  PROVE  /\ LastWrite[r] \in 1 .. 13
         /\ Rd04Open[i].reg = r => i <= LastWrite[r]
         /\ i = LastWrite[r] => Rd04Open[i].reg = r /\ Rd04Open[i].val = Final[r]
<1>1. /\ LastWrite["x13"] = 6 /\ LastWrite["fixed"] = 8 /\ LastWrite["delayLow"] = 11
      /\ LastWrite["delayHigh"] = 12 /\ LastWrite["output"] = 13
  BY DEF LastWrite
<1>2. /\ Final["x13"] = 155 /\ Final["fixed"] = 1 /\ Final["delayLow"] = 0
      /\ Final["delayHigh"] = 125 /\ Final["output"] = 7
  BY DEF Final
<1> QED BY <1>1, <1>2, Rd04Steps DEF Watched, Write

LEMMA ConfigInvImplies == ConfigInv => SettledIsConfigured
<1> SUFFICES ASSUME ConfigInv, Settled
             PROVE  Configured
  BY DEF SettledIsConfigured
<1>1. CASE dev = "ap3216c"
  BY <1>1 DEF ConfigInv, Ap3216cInv, Settled, Configured
<1>2. CASE dev = "rd04"
  <2>1. \A r \in Watched : reg[r] = Final[r]
    BY <1>2 DEF ConfigInv, Rd04Inv, Settled, Opening
  <2>2. /\ reg["x13"] = 155 /\ reg["fixed"] = 1 /\ reg["delayLow"] = 0
        /\ reg["delayHigh"] = 125 /\ reg["output"] = 7
    BY <2>1 DEF Watched, Final
  <2> QED BY <1>2, <2>2 DEF Configured
<1> QED BY <1>1, <1>2 DEF ConfigInv, TypeOK, Devices

LEMMA InitConfig == Init => ConfigInv
  BY InitTypes DEF Init, ConfigInv, Rd04Inv, Ap3216cInv

\* Where a task of open stands after its step.
LEMMA ContinueLeads ==
  ASSUME TypeOK, NEW t \in Tasks, NEW i \in Nat, Continue(t, i)
  PROVE  /\ i <= OpenLength(dev) => call'[t] = "open" /\ at'[t] = i
         /\ call'[t] \in {"open", "ready"}
         /\ \A u \in Tasks \ {t} : call'[u] = call[u] /\ at'[u] = at[u]
<1>1. OpenLength(dev) \in Nat
  BY TypeParts, Lengths
<1> QED BY <1>1 DEF Continue, Goto, TypeOK

\* A step of a task that neither is nor gets inside an open, nor writes a watched
\* register, keeps the invariants.
LEMMA OutsideOpen ==
  ASSUME ConfigInv, NEW t \in Tasks, call[t] # "open", NEW c \in Calls \ {"open"}, NEW i,
         Goto(t, c, i), dev' = dev, resetBy' = resetBy, opened' = opened, spoiled' = spoiled,
         \A r \in Watched \cup {"system"} : reg'[r] = reg[r]
  PROVE  Rd04Inv' /\ Ap3216cInv'
<1>1. /\ call'[t] # "open"
      /\ \A u \in Tasks \ {t} : call'[u] = call[u] /\ at'[u] = at[u]
  BY DEF Goto, ConfigInv, TypeOK
<1>2. Rd04Inv'
  BY <1>1 DEF ConfigInv, Rd04Inv
<1>3. Ap3216cInv'
  BY <1>1 DEF ConfigInv, Ap3216cInv, Opening
<1> QED BY <1>2, <1>3

LEMMA OpenStartConfig ==
  ASSUME ConfigInv, NEW t \in Tasks, OpenStart(t)
  PROVE  Rd04Inv' /\ Ap3216cInv'
<1>1. /\ call'[t] = "open" /\ at'[t] = 1
      /\ \A u \in Tasks \ {t} : call'[u] = call[u] /\ at'[u] = at[u]
  BY DEF OpenStart, Goto, ConfigInv, TypeOK
<1>2. Rd04Inv'
  <2>1. \A r \in Watched : 1 <= LastWrite[r]
    BY DEF Watched, LastWrite
  <2> QED BY <1>1, <2>1 DEF OpenStart, ConfigInv, Rd04Inv, chip
<1>3. Ap3216cInv'
  BY <1>1 DEF OpenStart, ConfigInv, Ap3216cInv, Opening, chip
<1> QED BY <1>2, <1>3

LEMMA Ap3216cOpenConfig ==
  ASSUME ConfigInv, dev = "ap3216c", NEW t \in Tasks,
         OpenPause(t) \/ OpenWrite(t) \/ OpenFault(t)
  PROVE  Ap3216cInv'
<1>1. /\ OpenSteps(dev) = Ap3216cOpen /\ OpenLength(dev) = 3 /\ dev' = "ap3216c"
      /\ call[t] = "open" /\ at[t] \in 1 .. 3
  BY TypeParts, Lengths DEF ConfigInv, TypeOK, OpenPause, OpenWrite, OpenFault
<1>2. \A u \in Tasks : resetBy = u => call[u] = "open" /\ at[u] = 2
  BY DEF ConfigInv, Ap3216cInv
<1>3. opened /\ ~spoiled => reg["system"] = 3 \/ Opening
  BY DEF ConfigInv, Ap3216cInv
<1>4. TypeOK
  BY DEF ConfigInv
<1>5. CASE OpenPause(t)
  <2>1. at[t] = 2
    BY <1>1, <1>5, Ap3216cSteps DEF OpenPause
  <2>2. /\ call'[t] = "open"
        /\ \A u \in Tasks \ {t} : call'[u] = call[u] /\ at'[u] = at[u]
    BY <1>1, <1>4, <1>5, <2>1, ContinueLeads DEF OpenPause
  <2> QED BY <1>2, <1>5, <2>2 DEF OpenPause, Ap3216cInv, Opening, chip
<1>6. CASE OpenWrite(t)
  <2>1. at[t] = 1 \/ at[t] = 3
    BY <1>1, <1>6, Ap3216cSteps DEF OpenWrite
  <2>2. \A u \in Tasks \ {t} : call'[u] = call[u] /\ at'[u] = at[u]
    BY <1>1, <1>4, <1>6, ContinueLeads DEF OpenWrite
  <2>3. CASE at[t] = 1
    <3>1. resetBy' = t
      BY <1>1, <1>6, <2>3, Ap3216cSteps DEF OpenWrite
    <3>2. call'[t] = "open" /\ at'[t] = 2
      BY <1>1, <1>4, <1>6, <2>3, ContinueLeads DEF OpenWrite
    <3> QED BY <3>1, <3>2 DEF Ap3216cInv, Opening
  <2>4. CASE at[t] = 3
    <3>1. OpenSteps(dev)[at[t]] = Write("system", 3) /\ resetBy' = resetBy
      BY <1>1, <1>6, <2>4, Ap3216cSteps DEF OpenWrite
    <3>2. \A u \in Tasks : resetBy' = u => call'[u] = "open" /\ at'[u] = 2
      BY <1>2, <2>2, <2>4, <3>1
    <3>3. CASE resetBy = Nobody
      <4>1. reg'["system"] = 3
        BY <1>4, <1>6, <3>1, <3>3 DEF OpenWrite, TypeOK, Write, Registers
      <4> QED BY <3>2, <4>1 DEF Ap3216cInv
    <3>4. CASE resetBy # Nobody
      <4>1. Opening'
        BY <1>4, <3>1, <3>2, <3>4 DEF TypeOK, Opening
      <4> QED BY <3>2, <4>1 DEF Ap3216cInv
    <3> QED BY <3>3, <3>4
  <2> QED BY <2>1, <2>3, <2>4
<1>7. CASE OpenFault(t)
  <2>1. at[t] # 2 /\ spoiled'
    BY <1>1, <1>7, Ap3216cSteps DEF OpenFault
  <2>2. \A u \in Tasks \ {t} : call'[u] = call[u] /\ at'[u] = at[u]
    <3>1. \E i \in Nat : Continue(t, i)
      BY <1>1, <1>7 DEF OpenFault
    <3> QED BY <1>4, <3>1, ContinueLeads
  <2> QED BY <1>2, <1>7, <2>1, <2>2 DEF OpenFault, Ap3216cInv, chip
<1> QED BY <1>5, <1>6, <1>7

LEMMA Rd04OpenConfig ==
  ASSUME ConfigInv, dev = "rd04", NEW t \in Tasks,
         OpenPause(t) \/ OpenWrite(t) \/ OpenFault(t)
  PROVE  Rd04Inv'
<1>1. /\ OpenSteps(dev) = Rd04Open /\ OpenLength(dev) = 13 /\ dev' = "rd04"
      /\ call[t] = "open" /\ at[t] \in 1 .. 13
  BY TypeParts, Lengths DEF ConfigInv, TypeOK, OpenPause, OpenWrite, OpenFault
<1>2. resetBy = Nobody
  BY DEF ConfigInv, Rd04Inv
<1>3. TypeOK
  BY DEF ConfigInv
<1>4. ~OpenPause(t)
  <2>1. Rd04Open[at[t]] # Pause
    BY <1>1, Rd04Steps, SMTT(30)
  <2> QED BY <1>1, <2>1 DEF OpenPause
<1>5. CASE OpenWrite(t)
  <2> DEFINE i == at[t]
             w == Rd04Open[i]
  <2>1. resetBy' = Nobody /\ reg' = [reg EXCEPT ![w.reg] = w.val] /\ Continue(t, i + 1)
    BY <1>1, <1>2, <1>5, Rd04Steps DEF OpenWrite
  <2>2. /\ i + 1 <= 13 => call'[t] = "open" /\ at'[t] = i + 1
        /\ \A u \in Tasks \ {t} : call'[u] = call[u] /\ at'[u] = at[u]
    BY <1>1, <1>3, <2>1, ContinueLeads
  <2>3. ASSUME opened, ~spoiled, NEW r \in Watched
        PROVE  \/ reg'[r] = Final[r]
               \/ \E u \in Tasks : call'[u] = "open" /\ at'[u] <= LastWrite[r]
    <3>1. /\ LastWrite[r] \in 1 .. 13
          /\ w.reg = r => i <= LastWrite[r]
          /\ i = LastWrite[r] => w.reg = r /\ w.val = Final[r]
      BY <1>1, WatchedWrites
    <3>2. r \in Registers /\ reg \in [Registers -> 0 .. 255]
      BY <1>3 DEF Watched, Registers, TypeOK
    <3>3. CASE i = LastWrite[r]
      BY <2>1, <3>1, <3>2, <3>3
    <3>4. CASE i < LastWrite[r]
      <4>1. i + 1 <= 13 /\ i + 1 <= LastWrite[r]
        BY <1>1, <3>1, <3>4
      <4> QED BY <2>2, <4>1
    <3>5. CASE i > LastWrite[r]
      <4>1. reg'[r] = reg[r]
        BY <1>1, <2>1, <3>1, <3>2, <3>5
      <4>2. ~(i <= LastWrite[r])
        BY <1>1, <3>1, <3>5
      <4>3. reg[r] = Final[r] \/ \E u \in Tasks : call[u] = "open" /\ at[u] <= LastWrite[r]
        BY <1>1, <2>3 DEF ConfigInv, Rd04Inv
      <4> QED BY <2>2, <4>1, <4>2, <4>3
    <3> QED BY <1>1, <3>1, <3>3, <3>4, <3>5
  <2> QED BY <1>5, <2>1, <2>3 DEF OpenWrite, Rd04Inv
<1>6. CASE OpenFault(t)
  BY <1>2, <1>6 DEF OpenFault, Rd04Inv, chip
<1> QED BY <1>4, <1>5, <1>6

LEMMA OpenConfig ==
  ASSUME ConfigInv, NEW t \in Tasks, Open(t)
  PROVE  Rd04Inv' /\ Ap3216cInv'
<1>1. CASE OpenStart(t)
  BY <1>1, OpenStartConfig
<1>2. CASE OpenPause(t) \/ OpenWrite(t) \/ OpenFault(t)
  <2>1. dev' = dev /\ (dev = "ap3216c" \/ dev = "rd04")
    BY <1>2 DEF OpenPause, OpenWrite, OpenFault, ConfigInv, TypeOK, Devices
  <2>2. CASE dev = "ap3216c"
    BY <1>2, <2>1, <2>2, Ap3216cOpenConfig DEF Rd04Inv
  <2>3. CASE dev = "rd04"
    BY <1>2, <2>1, <2>3, Rd04OpenConfig DEF Ap3216cInv
  <2> QED BY <2>1, <2>2, <2>3
<1> QED BY <1>1, <1>2 DEF Open

LEMMA ReadConfig ==
  ASSUME ConfigInv, NEW t \in Tasks, Read(t) \/ Close(t)
  PROVE  Rd04Inv' /\ Ap3216cInv'
<1>1. call[t] # "open" /\ dev' = dev /\ resetBy' = resetBy /\ opened' = opened /\ spoiled' = spoiled
  BY DEF Read, ReadStart, ReadTransfer, ReadFault, Store, Copy, Close, chip
<1>2. \A r \in Watched \cup {"system"} : reg'[r] = reg[r]
  <2>1. CASE ReadTransfer(t)
    BY <2>1 DEF ReadTransfer, ConfigInv, TypeOK, Watched, Registers
  <2>2. CASE ReadStart(t) \/ ReadFault(t) \/ Store(t) \/ Copy(t) \/ Close(t)
    BY <2>2 DEF ReadStart, ReadFault, Store, Copy, Close, chip
  <2> QED BY <2>1, <2>2 DEF Read
<1>3. \E c \in Calls \ {"open"} : \E i : Goto(t, c, i)
  <2>1. CASE ReadTransfer(t) \/ ReadFault(t)
    BY <2>1 DEF ReadTransfer, ReadFault, AfterRead, Calls
  <2>2. CASE ReadStart(t) \/ Store(t) \/ Copy(t) \/ Close(t)
    BY <2>2 DEF ReadStart, Store, Copy, Close, Calls
  <2> QED BY <2>1, <2>2 DEF Read
<1> QED BY <1>1, <1>2, <1>3, OutsideOpen

LEMMA PeriodConfig == ASSUME ConfigInv, Period PROVE Rd04Inv' /\ Ap3216cInv'
<1>1. /\ \A t \in Tasks : call'[t] = "open" <=> call[t] = "open"
      /\ UNCHANGED <<dev, reg, resetBy, at, opened, spoiled>>
  BY DEF Period
<1>2. Rd04Inv'
  BY <1>1 DEF ConfigInv, Rd04Inv
<1>3. Ap3216cInv'
  BY <1>1 DEF ConfigInv, Ap3216cInv, Opening
<1> QED BY <1>2, <1>3

LEMMA NextConfig == ConfigInv /\ [Next]_vars => ConfigInv'
<1> SUFFICES ASSUME ConfigInv, [Next]_vars
             PROVE  Rd04Inv' /\ Ap3216cInv'
  BY NextTypes DEF ConfigInv
<1>1. CASE ChipReady
  BY <1>1 DEF ChipReady, ConfigInv, Rd04Inv, Ap3216cInv, Opening
<1>2. CASE UNCHANGED vars
  BY <1>2 DEF vars, ConfigInv, Rd04Inv, Ap3216cInv, Opening
<1>3. ASSUME NEW t \in Tasks, Open(t) \/ Read(t) \/ Close(t)
      PROVE  Rd04Inv' /\ Ap3216cInv'
  BY <1>3, OpenConfig, ReadConfig
<1> QED BY <1>1, <1>2, <1>3, PeriodConfig DEF Next

\* However many processes open a sensor at the same time, once they are through
\* without a failed transfer it is configured as one of them alone would leave it.
THEOREM SettledConfigured == Spec => []SettledIsConfigured
  BY InitConfig, NextConfig, ConfigInvImplies, PTL DEF Spec

-----------------------------------------------------------------------------
(* A clean read returns a measurement.                                         *)

Valid(fields) ==
  /\ fields["als"] = "measured"
  /\ fields["ir"] \in {"measured", "zero"} /\ fields["ps"] \in {"measured", "zero"}

\* While a clean read is under way, every read is clean, the sensor is settled, and
\* what the reads of the AP3216C have collected belongs to one measurement.
CleanReadInv ==
  \A t \in Tasks : Reading(t) /\ clean[t] =>
    /\ Settled /\ data # "none"
    /\ \A u \in Tasks : Reading(u) => clean[u]
    /\ dev = "ap3216c" =>
         /\ Midway(t) => buf[t] = data
         /\ call[t] = "store" => buf[t] \in {"good", "over"}
         /\ call[t] = "copy" => Valid(sample)

ReadInv == ConfigInv /\ CleanReadInv

LEMMA InitRead == Init => ReadInv
  BY InitConfig DEF Init, ReadInv, CleanReadInv, Reading

\* A step into a state without a clean read.
LEMMA NoCleanRead ==
  ASSUME \A t \in Tasks : ~(Reading(t)' /\ clean'[t])
  PROVE  CleanReadInv'
  BY DEF CleanReadInv

\* An open under way excludes clean reads.
LEMMA OpenRead ==
  ASSUME ReadInv, NEW t \in Tasks, Open(t)
  PROVE  CleanReadInv'
<1>1. TypeOK
  BY DEF ReadInv, ConfigInv
<1>2. CASE OpenStart(t)
  <2>1. \A u \in Tasks : ~clean'[u]
    BY <1>2 DEF OpenStart, Dirty
  <2> QED BY <2>1, NoCleanRead
<1>3. CASE OpenPause(t) \/ OpenWrite(t) \/ OpenFault(t)
  <2>1. call[t] = "open" /\ clean' = clean /\ \E i \in Nat : Continue(t, i)
    BY <1>1, <1>3 DEF OpenPause, OpenWrite, OpenFault, TypeOK
  <2>2. \A u \in Tasks : ~(Reading(u) /\ clean[u])
    BY <2>1 DEF ReadInv, CleanReadInv, Settled, Opening
  <2>3. /\ call'[t] \in {"open", "ready"}
        /\ \A u \in Tasks \ {t} : call'[u] = call[u]
    BY <1>1, <2>1, ContinueLeads
  <2> QED BY <2>1, <2>2, <2>3, NoCleanRead DEF Reading
<1> QED BY <1>2, <1>3 DEF Open

\* The sensor stays settled while reads come and go.
LEMMA StaysSettled ==
  ASSUME TypeOK, Settled, NEW t \in Tasks, NEW c \in Calls \ {"open"}, NEW i, Goto(t, c, i),
         opened' = opened, spoiled' = spoiled
  PROVE  Settled'
  BY DEF Settled, Opening, Goto, TypeOK

LEMMA ReadStartRead ==
  ASSUME ReadInv, NEW t \in Tasks, ReadStart(t)
  PROVE  CleanReadInv'
<1>1. TypeOK /\ CleanReadInv
  BY DEF ReadInv, ConfigInv
<1>2. Settled => Settled'
  BY <1>1, StaysSettled DEF ReadStart, Calls
<1>3. /\ call'[t] = "read" /\ at'[t] = 1
      /\ \A u \in Tasks \ {t} : call'[u] = call[u] /\ at'[u] = at[u]
  BY <1>1 DEF ReadStart, Goto, TypeOK
<1>4. /\ clean'[t] = Clean /\ UNCHANGED <<dev, data, sample, buf>>
      /\ \A u \in Tasks \ {t} : clean'[u] = clean[u]
  BY <1>1 DEF ReadStart, TypeOK, chip
<1>5. CASE Clean
  <2>1. ~Midway(t)'
    BY <1>3 DEF Midway
  <2> QED BY <1>1, <1>2, <1>3, <1>4, <1>5, <2>1 DEF Clean, CleanReadInv, Reading, Midway
<1>6. CASE ~Clean
  <2>1. \A u \in Tasks : ~(Reading(u) /\ clean[u])
    BY <1>1, <1>6 DEF Clean, CleanReadInv
  <2>2. \A u \in Tasks : ~(Reading(u)' /\ clean'[u])
    BY <1>3, <1>4, <1>6, <2>1 DEF Reading
  <2> QED BY <2>2, NoCleanRead
<1> QED BY <1>5, <1>6

LEMMA ReadTransferRead ==
  ASSUME ReadInv, NEW t \in Tasks, ReadTransfer(t)
  PROVE  CleanReadInv'
<1>1. TypeOK /\ CleanReadInv
  BY DEF ReadInv, ConfigInv
<1>2. /\ call[t] = "read" /\ call'[t] \in {"read", "store", "copy"}
      /\ dev = "ap3216c" => call'[t] # "copy"
      /\ \A u \in Tasks \ {t} : call'[u] = call[u] /\ at'[u] = at[u]
  BY <1>1 DEF ReadTransfer, AfterRead, Goto, TypeOK
<1>3. Settled => Settled'
  BY <1>2 DEF ReadTransfer, Settled, Opening
<1>4. /\ UNCHANGED <<dev, data, sample, clean>>
      /\ \A u \in Tasks \ {t} : buf'[u] = buf[u]
  BY <1>1 DEF ReadTransfer, TypeOK
<1>5. dev = "ap3216c" /\ clean[t] => buf'[t] = data
  <2> SUFFICES ASSUME dev = "ap3216c", clean[t] PROVE buf'[t] = data
    OBVIOUS
  <2>1. at[t] \in 1 .. ReadSteps(dev)
    BY <1>1, <1>2 DEF TypeOK
  <2>2. ReadSteps(dev) = 6
    BY DEF ReadSteps
  <2>3. at[t] = 1 \/ Midway(t)
    BY <1>2, <2>1, <2>2 DEF Midway
  <2>4. at[t] = 1 \/ buf[t] = data
    BY <1>1, <1>2, <2>3 DEF CleanReadInv, Reading
  <2>5. buf' = [buf EXCEPT ![t] = IF at[t] = 1 \/ buf[t] = data THEN data ELSE "mixed"]
    BY DEF ReadTransfer
  <2> QED BY <1>1, <2>4, <2>5 DEF TypeOK
<1>6. ASSUME NEW u \in Tasks, Reading(u)', clean'[u]
      PROVE  /\ Settled' /\ data' # "none"
             /\ \A v \in Tasks : Reading(v)' => clean'[v]
             /\ dev' = "ap3216c" =>
                  /\ Midway(u)' => buf'[u] = data'
                  /\ call'[u] = "store" => buf'[u] \in {"good", "over"}
                  /\ call'[u] = "copy" => Valid(sample)'
  <2>1. Reading(u) /\ clean[u]
    BY <1>2, <1>4, <1>6 DEF Reading
  <2>2. Settled' /\ data' # "none" /\ \A v \in Tasks : Reading(v)' => clean'[v]
    BY <1>1, <1>2, <1>3, <1>4, <2>1 DEF CleanReadInv, Reading
  <2>3. CASE u = t
    BY <1>1, <1>2, <1>4, <1>5, <2>1, <2>2, <2>3 DEF TypeOK
  <2>4. CASE u # t
    BY <1>1, <1>2, <1>4, <2>1, <2>2, <2>4 DEF CleanReadInv, Midway, Valid
  <2> QED BY <2>3, <2>4
<1> QED BY <1>6 DEF CleanReadInv

LEMMA ReadRead ==
  ASSUME ReadInv, NEW t \in Tasks, Read(t) \/ Close(t)
  PROVE  CleanReadInv'
<1>1. TypeOK /\ CleanReadInv
  BY DEF ReadInv, ConfigInv
<1>2. CASE ReadFault(t)
  <2>1. \A u \in Tasks : ~clean'[u]
    BY <1>2 DEF ReadFault, Dirty
  <2> QED BY <2>1, NoCleanRead
<1>3. CASE Store(t)
  <2>1. /\ call[t] = "store" /\ call'[t] = "copy"
        /\ \A u \in Tasks \ {t} : call'[u] = call[u] /\ at'[u] = at[u]
    BY <1>1, <1>3 DEF Store, Goto, TypeOK
  <2>2. Settled => Settled'
    BY <1>1, <1>3, StaysSettled DEF Store, Calls
  <2>3. sample' = Fields(buf[t]) /\ UNCHANGED <<dev, data, clean, buf>>
    BY <1>3 DEF Store, chip
  <2>4. buf[t] \in {"good", "over"} => Valid(sample')
    BY <2>3 DEF Fields, Valid, Field
  <2>5. \A u \in Tasks : Reading(u) /\ clean[u] /\ dev = "ap3216c" => Valid(sample')
    BY <1>1, <2>1, <2>4 DEF CleanReadInv, Reading
  <2>6. Valid(sample)' = Valid(sample')
    BY DEF Valid
  <2> QED BY <1>1, <2>1, <2>2, <2>3, <2>5, <2>6 DEF CleanReadInv, Reading, Midway
<1>4. CASE Copy(t) \/ Close(t)
  <2>1. /\ call'[t] \in {"asleep", "none"}
        /\ \A u \in Tasks \ {t} : call'[u] = call[u] /\ at'[u] = at[u]
    BY <1>1, <1>4 DEF Copy, Close, Goto, TypeOK
  <2>2. Settled => Settled'
    BY <1>1, <1>4, StaysSettled DEF Copy, Close, Calls
  <2>3. /\ UNCHANGED <<dev, data, sample>>
        /\ \A u \in Tasks \ {t} : buf'[u] = buf[u] /\ clean'[u] = clean[u]
    BY <1>1, <1>4 DEF Copy, Close, chip, TypeOK
  <2> QED BY <1>1, <2>1, <2>2, <2>3 DEF CleanReadInv, Reading, Midway, Valid
<1> QED BY <1>2, <1>3, <1>4, ReadStartRead, ReadTransferRead DEF Read

\* A new measurement between the bytes of a read leaves no read clean; between reads,
\* it takes nothing from what they have collected.
LEMMA PeriodRead == ASSUME ReadInv, Period PROVE CleanReadInv'
<1>1. TypeOK /\ CleanReadInv
  BY DEF ReadInv, ConfigInv
<1>2. /\ \A t \in Tasks : /\ call'[t] = "open" <=> call[t] = "open"
                          /\ call'[t] \in {"read", "store", "copy"} => call'[t] = call[t]
                          /\ call[t] \in {"read", "store", "copy"} => call'[t] = call[t]
                          /\ at'[t] = at[t]
      /\ UNCHANGED <<dev, opened, spoiled, sample>>
  BY <1>1 DEF Period, TypeOK
<1>3. Settled => Settled'
  BY <1>2 DEF Settled, Opening
<1>4. CASE Dirty
  <2>1. \A t \in Tasks : ~clean'[t]
    BY <1>4 DEF Dirty
  <2> QED BY <2>1, NoCleanRead
<1>5. ASSUME UNCHANGED clean, data' = data \/ data' \in {"good", "over"},
             \A t \in Tasks : buf'[t] = buf[t], data' = data \/ \A t \in Tasks : ~Midway(t)
      PROVE  CleanReadInv'
  <2> SUFFICES ASSUME NEW t \in Tasks, Reading(t)', clean'[t]
               PROVE  /\ Settled' /\ data' # "none"
                      /\ \A u \in Tasks : Reading(u)' => clean'[u]
                      /\ dev' = "ap3216c" =>
                           /\ Midway(t)' => buf'[t] = data'
                           /\ call'[t] = "store" => buf'[t] \in {"good", "over"}
                           /\ call'[t] = "copy" => Valid(sample)'
    BY DEF CleanReadInv
  <2>1. \A u \in Tasks : Reading(u)' => Reading(u)
    BY <1>2 DEF Reading
  <2>2. Reading(t) /\ clean[t]
    BY <1>5, <2>1
  <2>3. /\ Settled /\ data # "none"
        /\ \A u \in Tasks : Reading(u) => clean[u]
        /\ dev = "ap3216c" =>
             /\ Midway(t) => buf[t] = data
             /\ call[t] = "store" => buf[t] \in {"good", "over"}
             /\ call[t] = "copy" => Valid(sample)
    BY <1>1, <2>2 DEF CleanReadInv
  <2>4. Midway(t)' => Midway(t)
    BY <1>2 DEF Midway
  <2>5. Valid(sample) => Valid(sample)'
    BY <1>2 DEF Valid
  <2> QED BY <1>2, <1>3, <1>5, <2>1, <2>3, <2>4, <2>5
<1>6. \/ Dirty
      \/ UNCHANGED <<data, buf, clean>>
      \/ /\ data' \in {"good", "over"} /\ UNCHANGED clean
         /\ \A t \in Tasks : ~Midway(t) /\ buf'[t] = buf[t]
  BY DEF Period
<1> QED BY <1>4, <1>5, <1>6

LEMMA NextRead == ReadInv /\ [Next]_vars => ReadInv'
<1> SUFFICES ASSUME ReadInv, [Next]_vars
             PROVE  CleanReadInv'
  BY NextConfig DEF ReadInv
<1>1. CASE ChipReady \/ UNCHANGED vars
  BY <1>1 DEF ChipReady, vars, ReadInv, CleanReadInv, Reading, Settled, Opening, Midway, Valid
<1>2. ASSUME NEW t \in Tasks, Open(t) \/ Read(t) \/ Close(t)
      PROVE  CleanReadInv'
  BY <1>2, OpenRead, ReadRead
<1> QED BY <1>1, <1>2, PeriodRead DEF Next

LEMMA ReadInvImplies == ReadInv => CleanReadIsMeasured
  BY DEF ReadInv, CleanReadInv, CleanReadIsMeasured, Reading, Valid

\* However many processes read a settled AP3216C at the same time, whoever stores the
\* fields of the device last and however measurements and reads meet, a read that
\* nothing disturbs returns in each field what a measurement has found, or 0 where that
\* measurement is marked invalid.
THEOREM CleanReadMeasured == Spec => []CleanReadIsMeasured
  BY InitRead, NextRead, ReadInvImplies, PTL DEF Spec
=============================================================================
