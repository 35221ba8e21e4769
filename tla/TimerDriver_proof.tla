-------------------------- MODULE TimerDriver_proof --------------------------
(***************************************************************************)
(* Proofs about TimerDriver for every set of tasks, of periods and of      *)
(* faults: its type invariant, the exclusive use of the LED, that the      *)
(* timer is at rest whenever nobody has the device open, that mod_timer    *)
(* meets an unset timer only while the module is loading, and that the     *)
(* driver implements LedLease.                                             *)
(***************************************************************************)
EXTENDS TimerDriver, TLAPS

USE NoFileAssumption, PeriodsAssumption DEF pinVars

\* A task inside an ioctl, or killed by one, holds a file; one on its way through
\* timer_open or timer_release does not.
CallsHoldFile ==
  \A t \in Tasks :
    /\ pc[t] \in Calls \cup {"killed"} => fd[t] # NoFile
    /\ pc[t] \in Opening \cup Releasing => fd[t] = NoFile

IInv ==
  /\ TypeOK
  /\ ExclusiveLed
  /\ TimerOnlyWhileOpen
  /\ CallsHoldFile

LEMMA InitIInv == Init => IInv
<1> SUFFICES ASSUME Init PROVE IInv
  OBVIOUS
<1>1. TypeOK
  <2>1. /\ pc \in [Tasks -> {"idle", "killed"} \cup Opening \cup Calls \cup Releasing]
        /\ fd \in [Tasks -> Tasks \cup {NoFile}]
        /\ local \in [Tasks -> Int]
    BY DEF Init
  <2>2. /\ led \in {0, 1} /\ sta \in {0, 1}
        /\ timeperiod \in Int /\ armedWith \in Int
    BY DEF Init
  <2>3. /\ setup \in BOOLEAN /\ requested \in BOOLEAN
        /\ number \in BOOLEAN /\ astray \in BOOLEAN
        /\ timer \in BOOLEAN /\ oops \in BOOLEAN
    BY DEF Init
  <2>4. /\ mod \in {"loading", "visible", "loaded", "exiting", "gone"}
        /\ cb \in {"idle", "flip", "rearm"}
    BY DEF Init
  <2> QED BY <2>1, <2>2, <2>3, <2>4 DEF TypeOK
<1>2. ExclusiveLed
  BY DEF Init, ExclusiveLed, Owners, Files
<1>3. TimerOnlyWhileOpen /\ CallsHoldFile
  BY DEF Init, TimerOnlyWhileOpen, CallsHoldFile, Calls, Opening, Releasing
<1> QED BY <1>1, <1>2, <1>3 DEF IInv

\* What a step of task t does to the program counters.
LEMMA StepFacts ==
  ASSUME IInv, NEW t \in Tasks, NEW from, NEW to, Step(t, from, to)
  PROVE  /\ pc[t] = from
         /\ pc'[t] = to
         /\ \A u \in Tasks \ {t} : pc'[u] = pc[u]
         /\ to \in {"idle", "killed"} \cup Opening \cup Calls \cup Releasing
              => pc' \in [Tasks -> {"idle", "killed"} \cup Opening \cup Calls \cup Releasing]
  BY DEF Step, IInv, TypeOK

-----------------------------------------------------------------------------
(* timer_open *)

LEMMA OpenStartIInv ==
  ASSUME IInv, NEW t \in Tasks, OpenStart(t)
  PROVE  IInv'
<1>1. /\ fd[t] = NoFile /\ UNCHANGED <<fd, requested, astray, timer, cb>>
      /\ Step(t, "idle", "lookup")
  BY DEF OpenStart, timerVars, cbVars
<1>2. /\ pc[t] = "idle" /\ pc'[t] = "lookup"
      /\ \A u \in Tasks \ {t} : pc'[u] = pc[u]
  BY <1>1, StepFacts
<1>3. TypeOK'
  BY <1>1, StepFacts DEF OpenStart, IInv, TypeOK, DEFAULT, Opening, timerVars, cbVars
<1>4. ExclusiveLed'
  BY <1>1, <1>2 DEF IInv, ExclusiveLed, Owners, Files
<1>5. TimerOnlyWhileOpen' /\ CallsHoldFile'
  BY <1>1, <1>2 DEF IInv, TimerOnlyWhileOpen, CallsHoldFile, Calls, Opening, Releasing
<1> QED BY <1>3, <1>4, <1>5 DEF IInv

LEMMA LookupIInv ==
  ASSUME IInv, NEW t \in Tasks, Lookup(t)
  PROVE  IInv'
<1>1. UNCHANGED <<fd, requested, astray, timer, cb>> /\ number' \in BOOLEAN
  BY DEF Lookup, timerVars, cbVars, IInv, TypeOK
<1>2. /\ pc[t] = "lookup" /\ pc'[t] \in {"request", "idle"}
      /\ \A u \in Tasks \ {t} : pc'[u] = pc[u]
      /\ pc' \in [Tasks -> {"idle", "killed"} \cup Opening \cup Calls \cup Releasing]
  BY StepFacts DEF Lookup, Opening
<1>3. TypeOK'
  BY <1>1, <1>2 DEF Lookup, IInv, TypeOK, timerVars, cbVars
<1>4. ExclusiveLed'
  BY <1>1, <1>2 DEF IInv, ExclusiveLed, Owners, Files
<1>5. TimerOnlyWhileOpen' /\ CallsHoldFile'
  BY <1>1, <1>2 DEF IInv, TimerOnlyWhileOpen, CallsHoldFile, Calls, Opening, Releasing
<1> QED BY <1>3, <1>4, <1>5 DEF IInv

LEMMA RequestIInv ==
  ASSUME IInv, NEW t \in Tasks, Request(t)
  PROVE  IInv'
<1>1. UNCHANGED <<fd, number, timer, cb>> /\ (astray => astray')
  BY DEF Request, timerVars, cbVars
<1>2. /\ pc[t] = "request" /\ pc'[t] \in {"direction", "idle"}
      /\ \A u \in Tasks \ {t} : pc'[u] = pc[u]
      /\ pc' \in [Tasks -> {"idle", "killed"} \cup Opening \cup Calls \cup Releasing]
  BY StepFacts DEF Request, Opening
<1>3. TypeOK'
  <2>1. UNCHANGED <<mod, setup, fd, local, number, led, timeperiod, timer, armedWith, cb,
                    sta, oops>>
    BY DEF Request, timerVars, cbVars
  <2>2. requested' \in BOOLEAN /\ astray' \in BOOLEAN
    BY DEF Request, IInv, TypeOK
  <2> QED BY <1>2, <2>1, <2>2 DEF IInv, TypeOK
<1>4. ExclusiveLed'
  <2>1. CASE astray'
    BY <2>1 DEF ExclusiveLed
  <2>2. CASE ~requested /\ requested' = TRUE
    BY <1>1, <1>2, <2>2 DEF IInv, ExclusiveLed, Owners, Files
  <2>3. CASE UNCHANGED requested /\ Step(t, "request", "idle")
    <3>1. pc'[t] = "idle"
      BY <2>3, StepFacts
    <3> QED BY <1>1, <1>2, <2>3, <3>1 DEF IInv, ExclusiveLed, Owners, Files
  <2> QED BY <2>1, <2>2, <2>3 DEF Request
<1>5. TimerOnlyWhileOpen' /\ CallsHoldFile'
  BY <1>1, <1>2 DEF IInv, TimerOnlyWhileOpen, CallsHoldFile, Calls, Opening, Releasing
<1> QED BY <1>3, <1>4, <1>5 DEF IInv

LEMMA DirectionIInv ==
  ASSUME IInv, NEW t \in Tasks, Direction(t)
  PROVE  IInv'
<1>1. UNCHANGED <<requested, astray, timer, cb>> /\ Step(t, "direction", "idle")
  BY DEF Direction, timerVars, cbVars
<1>2. /\ pc[t] = "direction" /\ pc'[t] = "idle"
      /\ \A u \in Tasks \ {t} : pc'[u] = pc[u]
  BY <1>1, StepFacts
<1>3. fd' \in [Tasks -> Tasks \cup {NoFile}] /\ \A u \in Tasks \ {t} : fd'[u] = fd[u]
  BY DEF Direction, IInv, TypeOK
<1>4. TypeOK'
  BY <1>1, <1>3, StepFacts DEF Direction, IInv, TypeOK, timerVars, cbVars
<1>5. ASSUME ~astray
      PROVE  ExclusiveLed'
  <2>1. t \in Owners /\ Files = {}
    BY <1>2, <1>5 DEF IInv, ExclusiveLed, Owners
  <2>2. Owners' = {}
    BY <1>2, <1>5, <2>1 DEF IInv, ExclusiveLed, Owners
  <2>3. \A f, g \in Files' : f = g
    <3>1. \A u \in Tasks \ {t} : fd'[u] = NoFile
      BY <1>3, <2>1 DEF Files, IInv, TypeOK
    <3> QED BY <3>1 DEF Files
  <2> QED BY <1>1, <1>5, <2>1, <2>2, <2>3 DEF IInv, ExclusiveLed
<1>6. ExclusiveLed'
  BY <1>1, <1>5 DEF ExclusiveLed
<1>7. TimerOnlyWhileOpen'
  BY <1>1, <1>2, <1>3 DEF IInv, TimerOnlyWhileOpen, CallsHoldFile, Opening, Releasing
<1>8. CallsHoldFile'
  BY <1>2, <1>3 DEF IInv, CallsHoldFile, Calls, Opening, Releasing
<1> QED BY <1>4, <1>6, <1>7, <1>8 DEF IInv

-----------------------------------------------------------------------------
(* fork(), the ioctls and close() *)

LEMMA ForkIInv ==
  ASSUME IInv, NEW t \in Tasks, NEW u \in Tasks, Fork(t, u)
  PROVE  IInv'
<1>1. /\ UNCHANGED <<pc, requested, astray, timer, cb>>
      /\ pc[u] = "idle" /\ fd[t] # NoFile
      /\ fd' = [fd EXCEPT ![u] = fd[t]]
  BY DEF Fork, timerVars, cbVars
<1>2. TypeOK'
  BY <1>1 DEF Fork, IInv, TypeOK, timerVars, cbVars
<1>3. Owners' = Owners /\ Files' \subseteq Files
  BY <1>1 DEF Owners, Files, IInv, TypeOK
<1>4. ExclusiveLed'
  BY <1>1, <1>3 DEF IInv, ExclusiveLed
<1>5. TimerOnlyWhileOpen' /\ CallsHoldFile'
  BY <1>1 DEF IInv, TypeOK, TimerOnlyWhileOpen, CallsHoldFile, Calls, Opening, Releasing
<1> QED BY <1>2, <1>4, <1>5 DEF IInv

\* Entering an ioctl changes nothing the invariant depends on but the counter.
LEMMA EnterIInv ==
  ASSUME IInv, NEW t \in Tasks, CloseCmd(t) \/ OpenCmd(t) \/ SetPeriod(t)
  PROVE  IInv'
<1>1. /\ fd[t] # NoFile /\ UNCHANGED <<fd, requested, astray, timer, cb>>
      /\ \E to \in Calls : Step(t, "idle", to)
  BY DEF CloseCmd, OpenCmd, SetPeriod, Calls, timerVars, cbVars
<1>2. /\ pc[t] = "idle" /\ pc'[t] \in Calls
      /\ \A u \in Tasks \ {t} : pc'[u] = pc[u]
  BY <1>1, StepFacts
<1>3. pc' \in [Tasks -> {"idle", "killed"} \cup Opening \cup Calls \cup Releasing]
  BY <1>1, StepFacts
<1>4. timeperiod' \in Int /\ local' \in [Tasks -> Int]
  BY DEF CloseCmd, OpenCmd, SetPeriod, IInv, TypeOK
<1>5. TypeOK'
  BY <1>1, <1>3, <1>4 DEF CloseCmd, OpenCmd, SetPeriod, IInv, TypeOK, timerVars, cbVars
<1>6. ExclusiveLed'
  BY <1>1, <1>2 DEF IInv, ExclusiveLed, Owners, Files, Calls
<1>7. TimerOnlyWhileOpen' /\ CallsHoldFile'
  BY <1>1, <1>2 DEF IInv, TimerOnlyWhileOpen, CallsHoldFile, Calls, Opening, Releasing
<1> QED BY <1>5, <1>6, <1>7 DEF IInv

\* The caller of mod_timer() holds the file: the timer starts while it is open.
LEMMA ArmIInv ==
  ASSUME IInv, NEW t \in Tasks, Arm(t)
  PROVE  IInv'
<1>1. UNCHANGED <<fd, requested, astray, cb>>
  BY DEF Arm, cbVars
<1>2. /\ pc[t] \in {"openArm", "setArm"} /\ pc'[t] \in {"idle", "killed"}
      /\ \A u \in Tasks \ {t} : pc'[u] = pc[u]
      /\ pc' \in [Tasks -> {"idle", "killed"} \cup Opening \cup Calls \cup Releasing]
  BY StepFacts DEF Arm
<1>3. fd[t] # NoFile
  BY <1>2 DEF IInv, CallsHoldFile, Calls
<1>4. TypeOK'
  <2>1. local[t] \in Int /\ local' \in [Tasks -> Int]
    BY DEF Arm, IInv, TypeOK
  <2>2. timer' \in BOOLEAN /\ armedWith' \in Int /\ oops' \in BOOLEAN
    BY <2>1 DEF Arm, ModTimer, IInv, TypeOK, timerVars
  <2>3. UNCHANGED <<mod, setup, fd, pinVars, led, timeperiod, cbVars>>
    BY DEF Arm
  <2> QED BY <1>2, <2>1, <2>2, <2>3 DEF IInv, TypeOK, pinVars, cbVars
<1>5. ExclusiveLed'
  BY <1>1, <1>2 DEF IInv, ExclusiveLed, Owners, Files
<1>6. TimerOnlyWhileOpen' /\ CallsHoldFile'
  BY <1>1, <1>2, <1>3 DEF IInv, TimerOnlyWhileOpen, CallsHoldFile, Calls, Opening, Releasing
<1> QED BY <1>4, <1>5, <1>6 DEF IInv

\* close() of a shared file leaves another holder; the last one runs the release.
LEMMA CloseIInv ==
  ASSUME IInv, NEW t \in Tasks, Close(t) \/ Reap(t)
  PROVE  IInv'
<1> DEFINE to == IF \E u \in Tasks \ {t} : fd[u] = fd[t] THEN "idle" ELSE "relSet"
<1>1. /\ UNCHANGED <<requested, astray, timer, cb>>
      /\ fd[t] # NoFile /\ fd' = [fd EXCEPT ![t] = NoFile]
      /\ \E from \in {"idle", "killed"} : Step(t, from, to)
  BY DEF Close, Reap, CloseFile, timerVars, cbVars
<1>2. /\ pc[t] \in {"idle", "killed"} /\ pc'[t] = to
      /\ \A u \in Tasks \ {t} : pc'[u] = pc[u]
      /\ pc' \in [Tasks -> {"idle", "killed"} \cup Opening \cup Calls \cup Releasing]
  BY <1>1, StepFacts DEF Releasing
<1>3. TypeOK'
  <2>1. UNCHANGED <<mod, setup, local, pinVars, led, timeperiod, timer, armedWith, cb,
                    sta, oops>>
    BY DEF Close, Reap, CloseFile, timerVars, cbVars
  <2>2. fd' \in [Tasks -> Tasks \cup {NoFile}]
    BY <1>1 DEF IInv, TypeOK
  <2> QED BY <1>2, <2>1, <2>2 DEF IInv, TypeOK
<1>4. fd[t] \in Files /\ (~astray => Owners = {} /\ requested)
  BY <1>1 DEF IInv, TypeOK, ExclusiveLed, Files
<1>5. ASSUME ~astray
      PROVE  ExclusiveLed'
  <2>1. CASE \E u \in Tasks \ {t} : fd[u] = fd[t]
    <3>1. Owners' = {}
      BY <1>2, <1>4, <1>5, <2>1 DEF Owners
    <3>2. Files' \subseteq Files
      BY <1>1 DEF Files, IInv, TypeOK
    <3> QED BY <1>1, <1>4, <1>5, <3>1, <3>2 DEF IInv, ExclusiveLed
  <2>2. CASE \A u \in Tasks \ {t} : fd[u] # fd[t]
    <3>1. Owners' = {t}
      BY <1>2, <1>4, <1>5, <2>2 DEF Owners
    <3>2. Files' = {}
      <4> SUFFICES ASSUME NEW u \in Tasks, fd'[u] # NoFile PROVE FALSE
        BY DEF Files
      <4>1. u # t /\ fd'[u] = fd[u] /\ fd[u] \in Files
        BY <1>1 DEF Files, IInv, TypeOK
      <4> QED BY <1>4, <1>5, <2>2, <4>1 DEF IInv, ExclusiveLed
    <3> QED BY <1>1, <1>4, <1>5, <3>1, <3>2 DEF ExclusiveLed
  <2> QED BY <2>1, <2>2
<1>6. ExclusiveLed'
  BY <1>1, <1>5 DEF ExclusiveLed
<1>7. TimerOnlyWhileOpen' /\ CallsHoldFile'
  BY <1>1, <1>2 DEF IInv, TypeOK, TimerOnlyWhileOpen, CallsHoldFile, Calls, Opening, Releasing
<1> QED BY <1>3, <1>6, <1>7 DEF IInv

-----------------------------------------------------------------------------
(* timer_release and del_timer_sync *)

LEMMA ReleaseIInv ==
  ASSUME IInv, NEW t \in Tasks, ReleaseSet(t) \/ ReleaseFree(t)
  PROVE  IInv'
<1>1. UNCHANGED <<fd, astray, timer, cb>>
  BY DEF ReleaseSet, ReleaseFree, timerVars, cbVars
<1>2. /\ pc[t] \in {"relSet", "relFree"} /\ pc'[t] \in {"relFree", "relDel"}
      /\ \A u \in Tasks \ {t} : pc'[u] = pc[u]
      /\ pc' \in [Tasks -> {"idle", "killed"} \cup Opening \cup Calls \cup Releasing]
  BY StepFacts DEF ReleaseSet, ReleaseFree, Releasing
<1>3. TypeOK'
  <2>1. led' \in {0, 1} /\ requested' \in BOOLEAN
    BY DEF ReleaseSet, ReleaseFree, IInv, TypeOK
  <2>2. UNCHANGED <<mod, setup, fd, local, number, astray, timeperiod, timer, armedWith, cb,
                   sta, oops>>
    BY DEF ReleaseSet, ReleaseFree, timerVars, cbVars
  <2> QED BY <1>2, <2>1, <2>2 DEF IInv, TypeOK
<1>4. ASSUME ~astray
      PROVE  ExclusiveLed'
  <2>1. Owners = {t} /\ Files = {} /\ requested
    BY <1>2, <1>4 DEF IInv, ExclusiveLed, Owners
  <2>2. Files' = {}
    BY <1>1, <2>1 DEF Files
  <2>3. CASE ReleaseSet(t)
    BY <1>2, <2>1, <2>2, <2>3 DEF ReleaseSet, ExclusiveLed, Owners
  <2>4. CASE ReleaseFree(t)
    <3>1. pc'[t] = "relDel"
      BY <2>4, StepFacts DEF ReleaseFree
    <3>2. Owners' = {}
      BY <1>2, <2>1, <3>1 DEF Owners
    <3> QED BY <2>2, <3>2 DEF ExclusiveLed
  <2> QED BY <2>3, <2>4
<1>5. ExclusiveLed'
  BY <1>1, <1>4 DEF ExclusiveLed
<1>6. TimerOnlyWhileOpen' /\ CallsHoldFile'
  BY <1>1, <1>2 DEF IInv, TimerOnlyWhileOpen, CallsHoldFile, Calls, Opening, Releasing
<1> QED BY <1>3, <1>5, <1>6 DEF IInv

LEMMA DeleteIInv ==
  ASSUME IInv, NEW t \in Tasks, Delete(t)
  PROVE  IInv'
<1>1. /\ UNCHANGED <<fd, requested, astray, cb>>
      /\ timer' = FALSE /\ cb = "idle" /\ UNCHANGED armedWith
  BY DEF Delete, CloseDel, ReleaseDel, DelTimerSync, cbVars
<1>2. /\ pc[t] \in {"closeCmd", "relDel"} /\ pc'[t] = "idle"
      /\ \A u \in Tasks \ {t} : pc'[u] = pc[u]
      /\ pc' \in [Tasks -> {"idle", "killed"} \cup Opening \cup Calls \cup Releasing]
  BY StepFacts DEF Delete, CloseDel, ReleaseDel
<1>3. TypeOK'
  BY <1>1, <1>2 DEF Delete, CloseDel, ReleaseDel, IInv, TypeOK, cbVars
<1>4. ExclusiveLed'
  BY <1>1, <1>2 DEF IInv, ExclusiveLed, Owners, Files
<1>5. TimerOnlyWhileOpen' /\ CallsHoldFile'
  BY <1>1, <1>2 DEF IInv, TimerOnlyWhileOpen, CallsHoldFile, Calls, Opening, Releasing
<1> QED BY <1>3, <1>4, <1>5 DEF IInv

-----------------------------------------------------------------------------
(* The timer, the module, and all steps together *)

LEMMA CallbackIInv ==
  ASSUME IInv, Expire \/ Callback
  PROVE  IInv'
<1>1. UNCHANGED <<pc, fd, requested, astray>> /\ (timer \/ cb # "idle")
  BY DEF Expire, Callback, Flip, Rearm, fileVars
<1>2. TypeOK'
  <2> USE DEF Expire, Callback, Flip, Rearm, ModTimer, fileVars, timerVars, cbVars
  <2>1. UNCHANGED <<mod, setup, pc, fd, local, pinVars, timeperiod>>
    OBVIOUS
  <2>2. led' \in {0, 1} /\ sta' \in {0, 1} /\ armedWith' \in Int
    BY DEF IInv, TypeOK
  <2>3. timer' \in BOOLEAN /\ oops' \in BOOLEAN
    BY DEF IInv, TypeOK
  <2>4. cb' \in {"idle", "flip", "rearm"}
    OBVIOUS
  <2> QED BY <2>1, <2>2, <2>3, <2>4 DEF IInv, TypeOK
<1>3. ExclusiveLed'
  BY <1>1 DEF IInv, ExclusiveLed, Owners, Files
<1>4. TimerOnlyWhileOpen' /\ CallsHoldFile'
  BY <1>1 DEF IInv, TimerOnlyWhileOpen, CallsHoldFile
<1> QED BY <1>2, <1>3, <1>4 DEF IInv

LEMMA ModuleIInv ==
  ASSUME IInv, Module \/ UNCHANGED vars
  PROVE  IInv'
<1> USE DEF Module, DeviceCreate, TimerSetup, Unload, ExitDel, Load, DelTimerSync,
            vars, fileVars, timerVars, cbVars
<1>1. UNCHANGED <<pc, fd, requested, astray, cb>> /\ (timer' => timer)
  OBVIOUS
<1>2. TypeOK'
  <2>1. UNCHANGED <<pc, fd, local, requested, astray, led, cb, oops>>
    OBVIOUS
  <2>2. timeperiod' \in Int /\ armedWith' \in Int /\ sta' \in {0, 1}
    BY DEF IInv, TypeOK
  <2>3. setup' \in BOOLEAN /\ timer' \in BOOLEAN /\ number' \in BOOLEAN
    BY DEF IInv, TypeOK
  <2>4. mod' \in {"loading", "visible", "loaded", "exiting", "gone"}
    BY DEF IInv, TypeOK
  <2> QED BY <2>1, <2>2, <2>3, <2>4 DEF IInv, TypeOK
<1>3. ExclusiveLed'
  BY <1>1 DEF IInv, ExclusiveLed, Owners, Files
<1>4. TimerOnlyWhileOpen' /\ CallsHoldFile'
  BY <1>1 DEF IInv, TimerOnlyWhileOpen, CallsHoldFile
<1> QED BY <1>2, <1>3, <1>4 DEF IInv

LEMMA NextIInv == IInv /\ [Next]_vars => IInv'
<1> SUFFICES ASSUME IInv, [Next]_vars
             PROVE  IInv'
  OBVIOUS
<1>1. ASSUME NEW t \in Tasks, Begin(t)
      PROVE  IInv'
  <2>1. CASE OpenStart(t)
    BY <2>1, OpenStartIInv
  <2>2. CASE CloseCmd(t) \/ OpenCmd(t) \/ SetPeriod(t)
    BY <2>2, EnterIInv
  <2>3. CASE Close(t)
    BY <2>3, CloseIInv
  <2>4. CASE \E u \in Tasks : Fork(t, u)
    BY <2>4, ForkIInv
  <2> QED BY <1>1, <2>1, <2>2, <2>3, <2>4 DEF Begin
<1>2. ASSUME NEW t \in Tasks, Advance(t)
      PROVE  IInv'
  BY <1>2, LookupIInv, RequestIInv, DirectionIInv, ArmIInv, ReleaseIInv, CloseIInv DEF Advance
<1>3. ASSUME NEW t \in Tasks, Delete(t)
      PROVE  IInv'
  BY <1>3, DeleteIInv
<1>4. CASE Expire \/ Callback
  BY <1>4, CallbackIInv
<1>5. CASE Module \/ UNCHANGED vars
  BY <1>5, ModuleIInv
<1> QED BY <1>1, <1>2, <1>3, <1>4, <1>5 DEF Next

LEMMA SpecIInv == Spec => []IInv
  BY InitIInv, NextIInv, PTL DEF Spec

\* Type correctness of the driver for every set of tasks, periods and faults.
THEOREM TypeCorrect == Spec => []TypeOK
<1>1. IInv => TypeOK
  BY DEF IInv
<1> QED BY <1>1, SpecIInv, PTL

\* However many processes open, share and close the device at the same time,
\* gpio_request and gpio_free (timer.c:105, 192) give the LED to one file at a time.
THEOREM LedIsExclusive == Spec => []ExclusiveLed
<1>1. IInv => ExclusiveLed
  BY DEF IInv
<1> QED BY <1>1, SpecIInv, PTL

\* The timer runs for an open file or one being released only, so timer_exit, which
\* needs all of them closed, leaves no callback behind.
THEOREM TimerRests == Spec => []TimerOnlyWhileOpen
<1>1. IInv => TimerOnlyWhileOpen
  BY DEF IInv
<1> QED BY <1>1, SpecIInv, PTL

-----------------------------------------------------------------------------
(* Loading and unloading the module.                                           *)

\* A module that is not there, or not yet, has no users, and the timer is set up
\* from the end of timer_init until the module is loaded again.
ModInv ==
  /\ mod \in {"loaded", "exiting", "gone"} => setup
  /\ mod \in {"loading", "exiting", "gone"} =>
       \A t \in Tasks : fd[t] = NoFile /\ pc[t] = "idle"

LEMMA InitModInv == Init => ModInv
  BY DEF Init, ModInv

\* What a task does, it does with a module that is there.
LEMMA TaskModInv ==
  ASSUME IInv, ModInv, NEW t \in Tasks, Begin(t) \/ Advance(t) \/ Delete(t)
  PROVE  mod \notin {"loading", "exiting", "gone"} /\ UNCHANGED <<mod, setup>>
<1>1. CASE OpenStart(t)
  BY <1>1 DEF OpenStart
<1>2. CASE CloseCmd(t) \/ OpenCmd(t) \/ SetPeriod(t)
  BY <1>2 DEF CloseCmd, OpenCmd, SetPeriod, ModInv
<1>3. CASE Close(t)
  BY <1>3 DEF Close, CloseFile, ModInv
<1>4. CASE \E u \in Tasks : Fork(t, u)
  BY <1>4 DEF Fork, ModInv
<1>5. CASE Lookup(t) \/ Request(t) \/ Direction(t)
  BY <1>5 DEF Lookup, Request, Direction, Step, ModInv
<1>6. CASE Arm(t)
  BY <1>6 DEF Arm, Step, ModInv
<1>7. CASE ReleaseSet(t) \/ ReleaseFree(t)
  BY <1>7 DEF ReleaseSet, ReleaseFree, Step, ModInv
<1>8. CASE Reap(t)
  BY <1>8 DEF Reap, CloseFile, ModInv
<1>9. CASE Delete(t)
  BY <1>9 DEF Delete, CloseDel, ReleaseDel, Step, ModInv
<1> QED
  BY <1>1, <1>2, <1>3, <1>4, <1>5, <1>6, <1>7, <1>8, <1>9 DEF Begin, Advance

LEMMA NextModInv == IInv /\ ModInv /\ [Next]_vars => ModInv'
<1> SUFFICES ASSUME IInv, ModInv, [Next]_vars PROVE ModInv'
  OBVIOUS
<1>1. ASSUME NEW t \in Tasks, Begin(t) \/ Advance(t) \/ Delete(t)
      PROVE  ModInv'
  BY <1>1, TaskModInv DEF ModInv, IInv, TypeOK
<1>2. CASE Expire \/ Callback
  BY <1>2 DEF Expire, Callback, Flip, Rearm, ModInv, fileVars
<1>3. CASE DeviceCreate \/ TimerSetup
  BY <1>3 DEF DeviceCreate, TimerSetup, ModInv, fileVars
<1>4. CASE Unload
  BY <1>4 DEF Unload, ModInv, fileVars
<1>5. CASE ExitDel \/ Load
  BY <1>5 DEF ExitDel, Load, ModInv, fileVars
<1>6. CASE UNCHANGED vars
  BY <1>6 DEF vars, fileVars, ModInv
<1> QED BY <1>1, <1>2, <1>3, <1>4, <1>5, <1>6 DEF Next, Module

\* Only a step that arms the timer can hit the BUG_ON, and it comes from a call, or
\* from a callback, of a module that is there.
LEMMA OopsWhileLoading ==
  ASSUME IInv, ModInv, [Next]_vars, ~oops, oops'
  PROVE  mod = "visible"
<1>1. ASSUME NEW t \in Tasks, Begin(t)
      PROVE  FALSE
  BY <1>1 DEF Begin, OpenStart, CloseCmd, OpenCmd, SetPeriod, Close, CloseFile, Fork
<1>2. ASSUME NEW t \in Tasks, Advance(t)
      PROVE  mod = "visible"
  <2>1. CASE Arm(t)
    <3>1. ~setup
      BY <2>1 DEF Arm, ModTimer
    <3>2. mod \in {"loading", "visible"}
      BY <3>1 DEF ModInv, IInv, TypeOK
    <3>3. mod \notin {"loading", "exiting", "gone"}
      BY <1>2, TaskModInv
    <3> QED BY <3>2, <3>3
  <2>2. CASE ~Arm(t)
    BY <1>2, <2>2
       DEF Advance, Lookup, Request, Direction, ReleaseSet, ReleaseFree, Reap, CloseFile
  <2> QED BY <2>1, <2>2
<1>3. ASSUME NEW t \in Tasks, Delete(t)
      PROVE  FALSE
  BY <1>3 DEF Delete, CloseDel, ReleaseDel
<1>4. CASE Rearm
  <2>1. ~setup /\ cb = "rearm"
    BY <1>4 DEF Rearm, ModTimer
  <2>2. PICK t \in Tasks : fd[t] # NoFile \/ pc[t] \in Releasing
    BY <2>1 DEF IInv, TimerOnlyWhileOpen
  <2>3. mod # "loading"
    BY <2>2 DEF ModInv, Releasing
  <2> QED BY <2>1, <2>3 DEF ModInv, IInv, TypeOK
<1>5. CASE Expire \/ Flip
  BY <1>5 DEF Expire, Flip
<1>6. CASE Module
  BY <1>6 DEF Module, DeviceCreate, TimerSetup, Unload, ExitDel, Load
<1>7. CASE UNCHANGED vars
  BY <1>7 DEF vars
<1> QED BY <1>1, <1>2, <1>3, <1>4, <1>5, <1>6, <1>7 DEF Next, Callback

\* The BUG_ON of mod_timer is hit between device_create (timer.c:286) and timer_setup
\* only, however often the module is loaded, and whatever was under way before.
THEOREM OopsWhileLoadingOnly == Spec => OopsOnlyWhileLoading
<1>1. IInv /\ ModInv /\ [Next]_vars => [~oops /\ oops' => mod = "visible"]_vars
  BY OopsWhileLoading
<1>2. Spec => []ModInv
  BY SpecIInv, InitModInv, NextModInv, PTL DEF Spec
<1> QED BY <1>1, <1>2, SpecIInv, PTL DEF Spec, OopsOnlyWhileLoading

-----------------------------------------------------------------------------
(* The lease.                                                                  *)

\* The timer is armed only when it was set up, and stays so until it is at rest.
SetupInv == timer \/ cb # "idle" => setup

LEMMA InitSetupInv == Init => SetupInv
  BY DEF Init, SetupInv

LEMMA NextSetupInv == IInv /\ ModInv /\ SetupInv /\ [Next]_vars => SetupInv'
<1> SUFFICES ASSUME IInv, ModInv, SetupInv, [Next]_vars PROVE SetupInv'
  OBVIOUS
<1> USE DEF SetupInv, timerVars, cbVars
<1>1. ASSUME NEW t \in Tasks, Begin(t) \/ Advance(t) \/ Delete(t)
      PROVE  SetupInv'
  <2>1. setup' = setup
    BY <1>1, TaskModInv
  <2>2. CASE Arm(t)
    BY <2>1, <2>2 DEF Arm, ModTimer
  <2>3. CASE Delete(t)
    BY <2>1, <2>3 DEF Delete, CloseDel, ReleaseDel, DelTimerSync
  <2>4. CASE Begin(t)
    BY <2>1, <2>4
       DEF Begin, OpenStart, CloseCmd, OpenCmd, SetPeriod, Close, CloseFile, Fork
  <2>5. CASE Advance(t) /\ ~Arm(t)
    BY <2>1, <2>5
       DEF Advance, Lookup, Request, Direction, ReleaseSet, ReleaseFree, Reap, CloseFile
  <2> QED BY <1>1, <2>2, <2>3, <2>4, <2>5
<1>2. CASE Expire \/ Callback
  BY <1>2 DEF Expire, Callback, Flip, Rearm, ModTimer
<1>3. CASE Load
  <2>1. ~timer /\ cb = "idle"
    BY <1>3 DEF Load, ModInv, IInv, TimerOnlyWhileOpen, Releasing
  <2> QED BY <1>3, <2>1 DEF Load
<1>4. CASE DeviceCreate \/ TimerSetup \/ Unload \/ ExitDel
  BY <1>4 DEF DeviceCreate, TimerSetup, Unload, ExitDel, DelTimerSync
<1>5. CASE UNCHANGED vars
  BY <1>5 DEF vars
<1> QED BY <1>1, <1>2, <1>3, <1>4, <1>5 DEF Next, Module

\* Where the lease is, told by what one of the tasks is doing, while no open was
\* granted a number that was not the pin's.
LeaseOK == ~astray =>
  /\ \A t \in Tasks : fd[t] # NoFile =>
       LeaseState = "open" /\ Users = {u \in Tasks : fd[u] # NoFile}
  /\ \A t \in Tasks : pc[t] = "direction" => LeaseState = "opening" /\ Users = {t}
  /\ \A t \in Tasks : pc[t] \in {"relSet", "relFree"} =>
       LeaseState = "closing" /\ Users = {t}
  /\ (\A t \in Tasks : fd[t] = NoFile /\ pc[t] \notin {"direction", "relSet", "relFree"}) =>
       Users = {} /\ LeaseState = IF requested THEN "lost" ELSE "free"

LEMMA LeaseFacts == IInv => LeaseOK
<1> SUFFICES ASSUME IInv, ~astray PROVE LeaseOK
  BY DEF LeaseOK
<1>1. ASSUME NEW t \in Tasks, fd[t] # NoFile
      PROVE  LeaseState = "open" /\ Users = {u \in Tasks : fd[u] # NoFile}
  <2>1. fd[t] \in Files /\ Owners = {}
    BY <1>1 DEF IInv, TypeOK, ExclusiveLed, Files
  <2> QED BY <2>1 DEF LeaseState, Users
<1>2. ASSUME NEW t \in Owners
      PROVE  /\ Files = {} /\ Owners = {t} /\ Users = {t}
             /\ LeaseState = IF pc[t] = "direction" THEN "opening" ELSE "closing"
  <2>1. Files = {} /\ Owners = {t}
    BY <1>2 DEF IInv, ExclusiveLed
  <2>2. \A u \in Tasks : fd[u] = NoFile
    BY <2>1 DEF IInv, TypeOK, Files
  <2>3. Users = {t}
    BY <2>1, <2>2 DEF Users, Owners
  <2> QED BY <2>1, <2>3 DEF LeaseState
<1>3. ASSUME Owners = {}, \A t \in Tasks : fd[t] = NoFile
      PROVE  Users = {} /\ LeaseState = IF requested THEN "lost" ELSE "free"
  <2>1. Files = {}
    BY <1>3 DEF Files
  <2> QED BY <1>3, <2>1 DEF LeaseState, Users
<1> QED BY <1>1, <1>2, <1>3 DEF LeaseOK, Owners

\* The same in the next state.
LEMMA LeaseFactsNext == IInv' => LeaseOK'
  BY LeaseFacts, PTL

\* A step that brings nobody into or out of the lease leaves it as it is.
LEMMA LeaseSame ==
  ASSUME UNCHANGED <<fd, requested, astray>>,
         \A t \in Tasks :
           \/ pc'[t] = pc[t]
           \/ pc[t] = "relSet" /\ pc'[t] = "relFree"
           \/ {pc[t], pc'[t]} \cap {"direction", "relSet", "relFree", "relDel"} = {}
  PROVE  UNCHANGED <<LeaseState, Users, Leaving>>
<1>1. Files' = Files /\ Owners' = Owners
  BY DEF Files, Owners
<1>2. \A t \in Tasks : pc'[t] = "direction" <=> pc[t] = "direction"
  OBVIOUS
<1>3. \A t \in Tasks : pc'[t] = "relDel" <=> pc[t] = "relDel"
  OBVIOUS
<1>4. (\E t \in Owners' : pc'[t] = "direction") <=> (\E t \in Owners : pc[t] = "direction")
  BY <1>1, <1>2 DEF Owners
<1>5. LeaseState' = LeaseState
  BY <1>1, <1>4 DEF LeaseState
<1>6. Users' = Users /\ Leaving' = Leaving
  BY <1>1, <1>3 DEF Users, Leaving
<1> QED BY <1>5, <1>6

\* Nothing of the lease is seen to change.
Idle == UNCHANGED <<LeaseState, Users, Leaving, Ticking, number>>

LEMMA LookupLease ==
  ASSUME IInv, NEW t \in Tasks, Lookup(t)
  PROVE  Lease!Mislay \/ Idle
<1>1. UNCHANGED <<fd, requested, astray, timer, cb>> /\ {number, number'} \subseteq BOOLEAN
  BY DEF Lookup, timerVars, cbVars, IInv, TypeOK
<1>2. /\ pc[t] = "lookup" /\ pc'[t] \in {"request", "idle"}
      /\ \A u \in Tasks \ {t} : pc'[u] = pc[u]
  BY StepFacts DEF Lookup
<1>3. UNCHANGED <<LeaseState, Users, Leaving, Ticking>>
  BY <1>1, <1>2, LeaseSame DEF Ticking
<1> QED BY <1>1, <1>3 DEF Lease!Mislay, Idle

LEMMA RequestLease ==
  ASSUME IInv, LeaseOK, LeaseOK', ~astray', NEW t \in Tasks, Request(t)
  PROVE  Lease!Grant(t) \/ Idle
<1>1. UNCHANGED <<fd, number, astray, timer, cb>> /\ Ticking' = Ticking
  BY DEF Request, timerVars, cbVars, Ticking, IInv, TypeOK
<1>2. CASE number /\ ~requested /\ Step(t, "request", "direction")
  <2>1. /\ pc[t] = "request" /\ pc'[t] = "direction"
        /\ \A u \in Tasks \ {t} : pc'[u] = pc[u]
    BY <1>2, StepFacts
  <2>2. Owners = {} /\ Files = {}
    BY <1>1, <1>2 DEF IInv, ExclusiveLed
  <2>3. \A u \in Tasks : fd[u] = NoFile /\ pc[u] \notin {"direction", "relSet", "relFree"}
    BY <2>2 DEF IInv, TypeOK, Files, Owners
  <2>4. LeaseState = "free"
    BY <1>1, <1>2, <2>3 DEF LeaseOK
  <2>5. LeaseState' = "opening" /\ Users' = {t}
    BY <2>1 DEF LeaseOK
  <2>6. t \notin Leaving /\ Leaving' = Leaving
    BY <1>1, <2>1 DEF Leaving
  <2> QED BY <1>1, <1>2, <2>4, <2>5, <2>6 DEF Lease!Grant
<1>3. CASE UNCHANGED requested /\ Step(t, "request", "idle")
  <2>1. /\ pc[t] = "request" /\ pc'[t] = "idle"
        /\ \A u \in Tasks \ {t} : pc'[u] = pc[u]
    BY <1>3, StepFacts
  <2> QED BY <1>1, <1>3, <2>1, LeaseSame DEF Idle
<1> QED BY <1>2, <1>3 DEF Request

LEMMA DirectionLease ==
  ASSUME IInv, LeaseOK, LeaseOK', ~astray', NEW t \in Tasks, Direction(t)
  PROVE  Lease!Open \/ Lease!Lose
<1>1. UNCHANGED <<requested, number, astray, timer, cb>> /\ Step(t, "direction", "idle")
  BY DEF Direction, timerVars, cbVars
<1>2. /\ pc[t] = "direction" /\ pc'[t] = "idle"
      /\ \A u \in Tasks \ {t} : pc'[u] = pc[u]
  BY <1>1, StepFacts
<1>3. LeaseState = "opening" /\ Users = {t} /\ Leaving' = Leaving /\ Ticking' = Ticking
  BY <1>1, <1>2 DEF LeaseOK, Leaving, Ticking
<1>4. Owners = {t} /\ Files = {} /\ requested
  BY <1>1, <1>2 DEF IInv, ExclusiveLed, Owners
<1>5. \A u \in Tasks : fd[u] = NoFile
  BY <1>4 DEF IInv, TypeOK, Files
<1>6. CASE \E f \in Tasks \ Files : fd' = [fd EXCEPT ![t] = f]
  <2>1. {u \in Tasks : fd'[u] # NoFile} = {t} /\ fd'[t] # NoFile
    BY <1>5, <1>6 DEF IInv, TypeOK
  <2>2. LeaseState' = "open" /\ Users' = {t}
    BY <2>1 DEF LeaseOK
  <2> QED BY <1>1, <1>3, <2>2 DEF Lease!Open
<1>7. CASE UNCHANGED fd
  <2>1. \A u \in Tasks : fd'[u] = NoFile /\ pc'[u] \notin {"direction", "relSet", "relFree"}
    BY <1>2, <1>4, <1>5, <1>7 DEF Owners
  <2>2. LeaseState' = "lost" /\ Users' = {}
    BY <1>1, <1>4, <2>1 DEF LeaseOK
  <2> QED BY <1>1, <1>3, <2>2 DEF Lease!Lose
<1> QED BY <1>6, <1>7 DEF Direction

LEMMA ForkLease ==
  ASSUME IInv, LeaseOK, LeaseOK', ~astray', NEW t \in Tasks, NEW u \in Tasks, Fork(t, u)
  PROVE  Lease!Share(u)
<1>1. /\ UNCHANGED <<pc, number, astray, timer, cb>> /\ pc[u] = "idle"
      /\ fd[t] # NoFile /\ fd[u] = NoFile /\ fd' = [fd EXCEPT ![u] = fd[t]]
  BY DEF Fork, timerVars, cbVars
<1>2. LeaseState = "open" /\ Users = {v \in Tasks : fd[v] # NoFile}
  BY <1>1 DEF LeaseOK
<1>3. fd'[u] # NoFile /\ \A v \in Tasks \ {u} : fd'[v] = fd[v]
  BY <1>1 DEF IInv, TypeOK
<1>4. LeaseState' = "open" /\ Users' = {v \in Tasks : fd'[v] # NoFile}
  BY <1>1, <1>3 DEF LeaseOK
<1>5. u \notin Users \cup Leaving /\ Users' = Users \cup {u}
  BY <1>1, <1>2, <1>3, <1>4 DEF Leaving
<1>6. UNCHANGED <<Leaving, Ticking>>
  BY <1>1 DEF Leaving, Ticking
<1> QED BY <1>1, <1>2, <1>4, <1>5, <1>6 DEF Lease!Share

LEMMA CloseLease ==
  ASSUME IInv, LeaseOK, LeaseOK', ~astray', NEW t \in Tasks, Close(t) \/ Reap(t)
  PROVE  Lease!Leave(t)
<1> DEFINE to == IF \E u \in Tasks \ {t} : fd[u] = fd[t] THEN "idle" ELSE "relSet"
<1>1. /\ UNCHANGED <<number, astray, timer, cb>>
      /\ fd[t] # NoFile /\ fd' = [fd EXCEPT ![t] = NoFile]
      /\ \E from \in {"idle", "killed"} : Step(t, from, to)
  BY DEF Close, Reap, CloseFile, timerVars, cbVars
<1>2. /\ pc[t] \in {"idle", "killed"} /\ pc'[t] = to
      /\ \A u \in Tasks \ {t} : pc'[u] = pc[u]
  BY <1>1, StepFacts
<1>3. LeaseState = "open" /\ Users = {u \in Tasks : fd[u] # NoFile} /\ t \in Users
  BY <1>1 DEF LeaseOK
<1>4. \A u \in Tasks : fd[u] \in {NoFile, fd[t]}
  BY <1>1 DEF IInv, TypeOK, ExclusiveLed, Files
<1>5. fd'[t] = NoFile /\ \A u \in Tasks \ {t} : fd'[u] = fd[u]
  BY <1>1 DEF IInv, TypeOK
<1>6. UNCHANGED <<Leaving, Ticking>>
  BY <1>1, <1>2 DEF Leaving, Ticking
<1>7. ASSUME NEW u \in Tasks \ {t}, fd[u] = fd[t]
      PROVE  Lease!Leave(t)
  <2>1. Users # {t} /\ fd'[u] # NoFile
    BY <1>1, <1>3, <1>5, <1>7
  <2>2. LeaseState' = "open" /\ Users' = {v \in Tasks : fd'[v] # NoFile}
    BY <2>1 DEF LeaseOK
  <2>3. Users' = Users \ {t}
    BY <1>3, <1>5, <2>2
  <2> QED BY <1>1, <1>3, <1>6, <2>1, <2>2, <2>3 DEF Lease!Leave
<1>8. CASE \A u \in Tasks \ {t} : fd[u] # fd[t]
  <2>1. Users = {t}
    BY <1>1, <1>3, <1>4, <1>8
  <2>2. pc'[t] = "relSet"
    BY <1>2, <1>8
  <2>3. LeaseState' = "closing" /\ Users' = {t}
    BY <2>2 DEF LeaseOK
  <2> QED BY <1>1, <1>3, <1>6, <2>1, <2>3 DEF Lease!Leave
<1> QED BY <1>7, <1>8

LEMMA ReleaseLease ==
  ASSUME IInv, LeaseOK, LeaseOK', ~astray', NEW t \in Tasks, ReleaseSet(t) \/ ReleaseFree(t)
  PROVE  Lease!GiveBack(t) \/ Idle
<1>1. UNCHANGED <<fd, number, astray, timer, cb>> /\ Ticking' = Ticking
  BY DEF ReleaseSet, ReleaseFree, timerVars, cbVars, Ticking
<1>2. CASE ReleaseSet(t)
  <2>1. /\ pc[t] = "relSet" /\ pc'[t] = "relFree"
        /\ \A u \in Tasks \ {t} : pc'[u] = pc[u]
    BY <1>2, StepFacts DEF ReleaseSet
  <2> QED BY <1>1, <1>2, <2>1, LeaseSame DEF ReleaseSet, Idle
<1>3. CASE ReleaseFree(t)
  <2>1. /\ pc[t] = "relFree" /\ pc'[t] = "relDel" /\ requested' = (requested /\ ~number)
        /\ \A u \in Tasks \ {t} : pc'[u] = pc[u]
    BY <1>3, StepFacts DEF ReleaseFree
  <2>2. LeaseState = "closing" /\ Users = {t}
    BY <1>1, <2>1 DEF LeaseOK
  <2>3. Owners = {t} /\ Files = {} /\ requested
    BY <1>1, <2>1 DEF IInv, ExclusiveLed, Owners
  <2>4. \A u \in Tasks : fd'[u] = NoFile /\ pc'[u] \notin {"direction", "relSet", "relFree"}
    BY <1>1, <2>1, <2>3 DEF IInv, TypeOK, Files, Owners
  <2>5. LeaseState' = (IF ~number THEN "lost" ELSE "free") /\ Users' = {}
    BY <2>1, <2>3, <2>4 DEF LeaseOK
  <2>6. Leaving' = Leaving \cup {t}
    BY <1>1, <2>1 DEF Leaving
  <2> QED BY <1>1, <2>2, <2>5, <2>6 DEF Lease!GiveBack
<1> QED BY <1>2, <1>3

\* The ioctls reach the timer only with the file open; the release does it last.
LEMMA TimerLease ==
  ASSUME IInv, LeaseOK, ~astray', NEW t \in Tasks, Arm(t) \/ Delete(t)
  PROVE  Lease!Start \/ Lease!Stop \/ Lease!Quiet(t) \/ Idle
<1>1. UNCHANGED <<fd, requested, number, astray, cb>>
  BY DEF Arm, Delete, CloseDel, ReleaseDel, cbVars
<1>2. ASSUME pc[t] \in Calls, pc'[t] \in {"idle", "killed"},
             \A u \in Tasks \ {t} : pc'[u] = pc[u]
      PROVE  LeaseState = "open" /\ UNCHANGED <<LeaseState, Users, Leaving>>
  <2>1. LeaseState = "open"
    BY <1>1, <1>2 DEF LeaseOK, IInv, CallsHoldFile
  <2> QED BY <1>1, <1>2, <2>1, LeaseSame DEF Calls
<1>3. CASE Arm(t)
  <2>1. LeaseState = "open" /\ UNCHANGED <<LeaseState, Users, Leaving>>
    BY <1>2, <1>3, StepFacts DEF Arm, Calls
  <2>2. Ticking' = TRUE \/ Ticking' = Ticking
    BY <1>1, <1>3 DEF Arm, ModTimer, timerVars, Ticking
  <2> QED BY <1>1, <2>1, <2>2 DEF Lease!Start, Idle
<1>4. CASE CloseDel(t)
  <2>1. LeaseState = "open" /\ UNCHANGED <<LeaseState, Users, Leaving>>
    BY <1>2, <1>4, StepFacts DEF CloseDel, Calls
  <2>2. Ticking' = FALSE
    BY <1>1, <1>4 DEF CloseDel, DelTimerSync, Ticking
  <2> QED BY <1>1, <2>1, <2>2 DEF Lease!Stop
<1>5. CASE ReleaseDel(t)
  <2>1. /\ pc[t] = "relDel" /\ pc'[t] = "idle"
        /\ \A u \in Tasks \ {t} : pc'[u] = pc[u]
    BY <1>5, StepFacts DEF ReleaseDel
  <2>2. t \in Leaving /\ Leaving' = Leaving \ {t}
    BY <1>1, <2>1 DEF Leaving
  <2>3. Owners' = Owners /\ Files' = Files
    BY <1>1, <2>1 DEF Owners, Files
  <2>4. LeaseState' = LeaseState /\ Users' = Users
    <3>1. \A u \in Owners : pc'[u] = pc[u]
      BY <2>1 DEF Owners
    <3> QED BY <1>1, <2>3, <3>1 DEF LeaseState, Users
  <2>5. Ticking' = FALSE
    BY <1>1, <1>5 DEF ReleaseDel, DelTimerSync, Ticking
  <2> QED BY <1>1, <2>2, <2>4, <2>5 DEF Lease!Quiet
<1> QED BY <1>3, <1>4, <1>5 DEF Delete

\* timer_open before it looks for the pin, and entering an ioctl.
LEMMA EnterLease ==
  ASSUME IInv, NEW t \in Tasks, OpenStart(t) \/ CloseCmd(t) \/ OpenCmd(t) \/ SetPeriod(t)
  PROVE  Idle
<1>1. /\ UNCHANGED <<fd, requested, number, astray, timer, cb>>
      /\ \E to \in Calls \cup {"lookup"} : Step(t, "idle", to)
  BY DEF OpenStart, CloseCmd, OpenCmd, SetPeriod, Calls, timerVars, cbVars
<1>2. /\ pc[t] = "idle" /\ pc'[t] \in Calls \cup {"lookup"}
      /\ \A u \in Tasks \ {t} : pc'[u] = pc[u]
  BY <1>1, StepFacts
<1> QED BY <1>1, <1>2, LeaseSame DEF Idle, Calls, Ticking

\* The callback rearms a timer that was set up; timer_exit finds it at rest.
LEMMA CallbackLease ==
  ASSUME IInv, ModInv, SetupInv, Expire \/ Callback \/ Module \/ UNCHANGED vars
  PROVE  Lease!Mislay \/ Idle
<1>1. UNCHANGED <<pc, fd, requested, astray>> /\ {number, number'} \subseteq BOOLEAN
  BY DEF Expire, Callback, Flip, Rearm, Module, DeviceCreate, TimerSetup, Unload, ExitDel,
         Load, vars, fileVars, IInv, TypeOK
<1>2. Ticking' = Ticking
  <2>1. CASE Expire \/ Callback
    BY <2>1 DEF Expire, Callback, Flip, Rearm, ModTimer, SetupInv, Ticking, timerVars
  <2>2. CASE ExitDel
    <3>1. ~timer
      BY <2>2 DEF ExitDel, ModInv, IInv, TimerOnlyWhileOpen, Releasing
    <3> QED BY <2>2, <3>1 DEF ExitDel, DelTimerSync, Ticking, cbVars
  <2>3. CASE DeviceCreate \/ TimerSetup \/ Unload \/ Load \/ UNCHANGED vars
    BY <2>3 DEF DeviceCreate, TimerSetup, Unload, Load, vars, Ticking, timerVars, cbVars
  <2> QED BY <2>1, <2>2, <2>3 DEF Module
<1>3. UNCHANGED <<LeaseState, Users, Leaving>>
  BY <1>1, LeaseSame
<1> QED BY <1>1, <1>2, <1>3 DEF Lease!Mislay, Idle

\* A number granted that is not the pin's makes the lease void for good.
LEMMA VoidLease ==
  ASSUME IInv, [Next]_vars, astray'
  PROVE  Lease!Void \/ Lease!Mislay \/ Idle
<1>1. /\ LeaseState' = "void" /\ Users' = {} /\ Leaving' = {} /\ Ticking' = FALSE
      /\ {number, number'} \subseteq BOOLEAN
  BY NextIInv DEF LeaseState, Users, Leaving, Ticking, IInv, TypeOK
<1>2. CASE astray
  <2>1. LeaseState = "void" /\ Users = {} /\ Leaving = {} /\ Ticking = FALSE
    BY <1>2 DEF LeaseState, Users, Leaving, Ticking
  <2>2. UNCHANGED <<LeaseState, Users, Leaving, Ticking>>
    BY <1>1, <2>1
  <2> QED BY <1>1, <2>2 DEF Lease!Mislay, Idle
<1>3. ASSUME NEW t \in Tasks, Request(t), ~astray
      PROVE  Lease!Void
  <2>1. ~number /\ UNCHANGED number
    BY <1>3 DEF Request
  <2> QED BY <1>1, <2>1 DEF Lease!Void
<1>4. astray \/ \E t \in Tasks : Request(t)
  <2>1. ASSUME NEW t \in Tasks, Begin(t) PROVE UNCHANGED astray
    BY <2>1 DEF Begin, OpenStart, CloseCmd, OpenCmd, SetPeriod, Close, CloseFile, Fork
  <2>2. ASSUME NEW t \in Tasks, Advance(t) \/ Delete(t), ~Request(t)
        PROVE  UNCHANGED astray
    BY <2>2 DEF Advance, Lookup, Direction, Arm, ReleaseSet, ReleaseFree, Reap, CloseFile,
                Delete, CloseDel, ReleaseDel
  <2>3. CASE Expire \/ Callback \/ Module \/ UNCHANGED vars
    BY <2>3 DEF Expire, Callback, Flip, Rearm, Module, DeviceCreate, TimerSetup, Unload,
                ExitDel, Load, vars
  <2> QED BY <2>1, <2>2, <2>3 DEF Next
<1> QED BY <1>2, <1>3, <1>4

LEMMA LeaseStep ==
  IInv /\ ModInv /\ SetupInv /\ IInv' /\ [Next]_vars => [Lease!Next]_Lease!vars
<1> SUFFICES ASSUME IInv, ModInv, SetupInv, IInv', [Next]_vars
             PROVE  Lease!Next \/ Idle
  BY DEF Lease!vars, Idle
<1>1. LeaseOK /\ LeaseOK'
  BY LeaseFacts, LeaseFactsNext
<1>2. CASE astray'
  BY <1>2, VoidLease DEF Lease!Next
<1>3. ASSUME NEW t \in Tasks, ~astray', Begin(t) PROVE Lease!Next \/ Idle
  <2>1. CASE Close(t)
    BY <1>1, <1>3, <2>1, CloseLease DEF Lease!Next, Lease!Use
  <2>2. CASE \E u \in Tasks : Fork(t, u)
    BY <1>1, <1>3, <2>2, ForkLease DEF Lease!Next, Lease!Use
  <2> QED BY <1>3, <2>1, <2>2, EnterLease DEF Begin
<1>4. ASSUME NEW t \in Tasks, ~astray', Advance(t) \/ Delete(t)
      PROVE  Lease!Next \/ Idle
  <2>1. CASE Lookup(t)
    BY <2>1, LookupLease DEF Lease!Next
  <2>2. CASE Request(t) \/ Direction(t)
    BY <1>1, <1>4, <2>2, RequestLease, DirectionLease DEF Lease!Next, Lease!Use
  <2>3. CASE Arm(t) \/ Delete(t)
    BY <1>1, <1>4, <2>3, TimerLease DEF Lease!Next, Lease!Use
  <2>4. CASE ReleaseSet(t) \/ ReleaseFree(t) \/ Reap(t)
    BY <1>1, <1>4, <2>4, ReleaseLease, CloseLease DEF Lease!Next, Lease!Use
  <2> QED BY <1>4, <2>1, <2>2, <2>3, <2>4 DEF Advance
<1> QED BY <1>2, <1>3, <1>4, CallbackLease DEF Next, Lease!Next

\* However the processes, the callback and rmmod interleave, timer.c hands out one lease
\* of the LED at a time, and loses it only when gpio_direction_output fails
\* (timer.c:114-118) or when the last user releases it while a failed open's errno
\* stands in led_gpio (timer.c:96, 192): LeaseSpec, step by step, until an open asks
\* for that errno.
THEOREM ImplementsLease == Spec => LeaseSpec
<1>1. Init => Lease!Init
  <2> SUFFICES ASSUME Init PROVE Lease!Init
    OBVIOUS
  <2>1. /\ \A t \in Tasks : fd[t] = NoFile /\ pc[t] = "idle"
        /\ ~requested /\ ~number /\ ~astray /\ timer = FALSE /\ cb = "idle"
    BY DEF Init
  <2>2. Files = {} /\ Owners = {}
    BY <2>1 DEF Files, Owners
  <2> QED BY <2>1, <2>2 DEF Lease!Init, LeaseState, Users, Leaving, Ticking
<1>2. Spec => [](ModInv /\ SetupInv)
  BY SpecIInv, InitModInv, NextModInv, InitSetupInv, NextSetupInv, PTL DEF Spec
<1> QED BY <1>1, <1>2, SpecIInv, LeaseStep, PTL DEF Spec, LeaseSpec, Lease!Spec

\* Once it is lost no open gets the pin again: not after the other files are closed, nor
\* after the module was unloaded and loaded.  It can only be granted in name, to an
\* open that finds a failed open's errno in led_gpio.
THEOREM LostLedIsFinal ==
  Spec => [][LeaseState = "lost" => LeaseState' = "lost" \/ astray']_vars
<1>1. ASSUME [Lease!Next]_Lease!vars, LeaseState = "lost"
      PROVE  LeaseState' \in {"lost", "void"}
  BY <1>1 DEF Lease!Next, Lease!vars, Lease!Use, Lease!Grant, Lease!Open, Lease!Lose,
              Lease!Share, Lease!Leave, Lease!GiveBack, Lease!Start, Lease!Stop, Lease!Quiet,
              Lease!Mislay, Lease!Void
<1>2. Spec => [](ModInv /\ SetupInv)
  BY SpecIInv, InitModInv, NextModInv, InitSetupInv, NextSetupInv, PTL DEF Spec
<1>3. LeaseState' = "void" => astray'
  BY DEF LeaseState
<1>4. IInv /\ ModInv /\ SetupInv /\ IInv' /\ [Next]_vars
        => [LeaseState = "lost" => LeaseState' = "lost" \/ astray']_vars
  BY <1>1, <1>3, LeaseStep
<1> QED BY <1>2, <1>4, SpecIInv, PTL DEF Spec
=============================================================================
