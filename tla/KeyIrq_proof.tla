---------------------------- MODULE KeyIrq_proof ----------------------------
(***************************************************************************)
(* Proofs about KeyIrq for every set of faults: its type invariant, that   *)
(* the driver's level settles to the pin's, that a reader loses and        *)
(* repeats no event that was not overwritten, that a loaded driver never   *)
(* crashes the kernel, and that the driver implements DebouncedKey.        *)
(***************************************************************************)
EXTENDS KeyIrq, TLAPS

\* The handler is installed from request_irq to free_irq; before it nothing runs.
Installed ==
  /\ phase \in Attached \cup {"exitIrq"} => irq
  /\ phase \in {"unloaded", "requestIrq"} => ~irq
  /\ phase = "requestIrq" => ~timer /\ cb = "idle" /\ ~debounced

\* What no edge and no pending timer will correct is right: the level that the
\* callback has read, and the level it has left.
LevelFollows ==
  phase \in Attached /\ ~raised /\ ~timer =>
    /\ cb = "update" => current = pin
    /\ debounced /\ cb = "idle" => lastVal = pin

\* An event that waits tells of the level the driver has.
EventOfLevel ==
  /\ status = "PRESS" => lastVal = 0
  /\ status = "RELEASE" => lastVal = 1

IInv == TypeOK /\ Installed /\ LevelFollows /\ EventOfLevel /\ ReaderInSync

LEMMA InitIInv == Init => IInv
  BY DEF Init, IInv, TypeOK, Installed, LevelFollows, EventOfLevel, ReaderInSync,
         Attached, Loading, Unwinding

\* The steps of mykey_init and mykey_exit.
LEMMA ModuleIInv == IInv /\ (Module) => IInv'
<1> SUFFICES ASSUME IInv, Module
             PROVE  TypeOK' /\ Installed' /\ LevelFollows' /\ EventOfLevel' /\ ReaderInSync'
  BY DEF IInv
<1>a. TypeOK
  BY DEF IInv
<1>b. Installed /\ LevelFollows
  BY DEF IInv
<1>c. EventOfLevel /\ ReaderInSync
  BY DEF IInv
<1> USE DEF timerVars, keyVars, userVars
<1>1. CASE Load
  <2>1. TypeOK'
    BY <1>a, <1>1 DEF Load, TypeOK, Loading, Unwinding
  <2>2. Installed'
    BY <1>a, <1>b, <1>1 DEF Load, TypeOK, Installed, Attached
  <2>3. LevelFollows'
    BY <1>a, <1>b, <1>1 DEF Load, TypeOK, Installed, LevelFollows, Attached
  <2>4. EventOfLevel' /\ ReaderInSync'
    BY <1>a, <1>c, <1>1 DEF Load, TypeOK, EventOfLevel, ReaderInSync
  <2> QED BY <2>1, <2>2, <2>3, <2>4
<1>2. CASE RequestIrq
  <2>1. TypeOK'
    <3>1. /\ phase' \in {"addCdev", "unloaded"} /\ irq' \in BOOLEAN
          /\ UNCHANGED <<setup, open, pin, raised, timer, cb, current, lastVal, status,
                         debounced, seen, missed>>
      BY <1>a, <1>2 DEF RequestIrq, TypeOK
    <3> QED BY <1>a, <3>1 DEF TypeOK, Loading
  <2>2. Installed'
    BY <1>a, <1>b, <1>2 DEF RequestIrq, TypeOK, Installed, Attached
  <2>3. LevelFollows'
    BY <1>a, <1>b, <1>2 DEF RequestIrq, TypeOK, Installed, LevelFollows, Attached
  <2>4. EventOfLevel' /\ ReaderInSync'
    BY <1>a, <1>c, <1>2 DEF RequestIrq, TypeOK, EventOfLevel, ReaderInSync
  <2> QED BY <2>1, <2>2, <2>3, <2>4
<1>3. CASE AddCdev
  <2>1. TypeOK'
    BY <1>a, <1>3 DEF AddCdev, TypeOK, Loading, Unwinding
  <2>2. Installed'
    BY <1>a, <1>b, <1>3 DEF AddCdev, TypeOK, Installed, Attached
  <2>3. LevelFollows'
    BY <1>a, <1>b, <1>3 DEF AddCdev, TypeOK, Installed, LevelFollows, Attached
  <2>4. EventOfLevel' /\ ReaderInSync'
    BY <1>a, <1>c, <1>3 DEF AddCdev, TypeOK, EventOfLevel, ReaderInSync
  <2> QED BY <2>1, <2>2, <2>3, <2>4
<1>4. CASE CreateDevice
  <2>1. TypeOK'
    BY <1>a, <1>4 DEF CreateDevice, TypeOK, Loading, Unwinding
  <2>2. Installed'
    BY <1>a, <1>b, <1>4 DEF CreateDevice, TypeOK, Installed, Attached
  <2>3. LevelFollows'
    BY <1>a, <1>b, <1>4 DEF CreateDevice, TypeOK, Installed, LevelFollows, Attached
  <2>4. EventOfLevel' /\ ReaderInSync'
    BY <1>a, <1>c, <1>4 DEF CreateDevice, TypeOK, EventOfLevel, ReaderInSync
  <2> QED BY <2>1, <2>2, <2>3, <2>4
<1>5. CASE TimerSetup
  <2>1. TypeOK'
    BY <1>a, <1>5 DEF TimerSetup, TypeOK, Loading, Unwinding
  <2>2. Installed'
    BY <1>a, <1>b, <1>5 DEF TimerSetup, TypeOK, Installed, Attached
  <2>3. LevelFollows'
    BY <1>a, <1>b, <1>5 DEF TimerSetup, TypeOK, Installed, LevelFollows, Attached
  <2>4. EventOfLevel' /\ ReaderInSync'
    BY <1>a, <1>c, <1>5 DEF TimerSetup, TypeOK, EventOfLevel, ReaderInSync
  <2> QED BY <2>1, <2>2, <2>3, <2>4
<1>6. CASE FreeIrq
  <2>1. TypeOK'
    <3>1. irq' \in BOOLEAN /\ raised' \in BOOLEAN /\ phase' = "unloaded"
      BY <1>a, <1>6 DEF FreeIrq, TypeOK
    <3>2. UNCHANGED <<setup, open, pin, timer, cb, current, lastVal, status,
                      debounced, seen, missed>>
      BY <1>6 DEF FreeIrq
    <3> QED BY <1>a, <3>1, <3>2 DEF TypeOK, Loading, Unwinding
  <2>2. Installed'
    BY <1>a, <1>b, <1>6 DEF FreeIrq, TypeOK, Installed, Attached
  <2>3. LevelFollows'
    BY <1>a, <1>b, <1>6 DEF FreeIrq, TypeOK, Installed, LevelFollows, Attached
  <2>4. EventOfLevel' /\ ReaderInSync'
    BY <1>a, <1>c, <1>6 DEF FreeIrq, TypeOK, EventOfLevel, ReaderInSync
  <2> QED BY <2>1, <2>2, <2>3, <2>4
<1>7. CASE Exit
  <2>1. TypeOK'
    BY <1>a, <1>7 DEF Exit, TypeOK, Loading, Unwinding
  <2>2. Installed'
    BY <1>a, <1>b, <1>7 DEF Exit, TypeOK, Installed, Attached
  <2>3. LevelFollows'
    BY <1>a, <1>b, <1>7 DEF Exit, TypeOK, Installed, LevelFollows, Attached
  <2>4. EventOfLevel' /\ ReaderInSync'
    BY <1>a, <1>c, <1>7 DEF Exit, TypeOK, EventOfLevel, ReaderInSync
  <2> QED BY <2>1, <2>2, <2>3, <2>4
<1>8. CASE ExitTimer
  <2>1. TypeOK'
    <3>1. timer' \in BOOLEAN /\ phase' = "exitIrq"
      BY <1>a, <1>8 DEF ExitTimer, TypeOK
    <3>2. UNCHANGED <<irq, setup, open, pin, raised, cb, current, lastVal,
                      status, debounced, seen, missed>>
      BY <1>8 DEF ExitTimer
    <3> QED BY <1>a, <3>1, <3>2 DEF TypeOK, Loading, Unwinding
  <2>2. Installed'
    BY <1>a, <1>b, <1>8 DEF ExitTimer, TypeOK, Installed, Attached
  <2>3. LevelFollows'
    BY <1>a, <1>b, <1>8 DEF ExitTimer, TypeOK, Installed, LevelFollows, Attached
  <2>4. EventOfLevel' /\ ReaderInSync'
    BY <1>a, <1>c, <1>8 DEF ExitTimer, TypeOK, EventOfLevel, ReaderInSync
  <2> QED BY <2>1, <2>2, <2>3, <2>4
<1>9. CASE ExitIrq
  <2>1. TypeOK'
    <3>1. irq' \in BOOLEAN /\ raised' \in BOOLEAN /\ phase' = "unloaded"
      BY <1>a, <1>9 DEF ExitIrq, TypeOK
    <3>2. UNCHANGED <<setup, open, pin, timer, cb, current, lastVal, status,
                      debounced, seen, missed>>
      BY <1>9 DEF ExitIrq
    <3> QED BY <1>a, <3>1, <3>2 DEF TypeOK, Loading, Unwinding
  <2>2. Installed'
    BY <1>a, <1>b, <1>9 DEF ExitIrq, TypeOK, Installed, Attached
  <2>3. LevelFollows'
    BY <1>a, <1>b, <1>9 DEF ExitIrq, TypeOK, Installed, LevelFollows, Attached
  <2>4. EventOfLevel' /\ ReaderInSync'
    BY <1>a, <1>c, <1>9 DEF ExitIrq, TypeOK, EventOfLevel, ReaderInSync
  <2> QED BY <2>1, <2>2, <2>3, <2>4
<1> QED BY <1>1, <1>2, <1>3, <1>4, <1>5, <1>6, <1>7, <1>8, <1>9 DEF Module

\* The steps of the pin, the handler, the timer and its callback.
LEMMA LineIInv == IInv /\ (Edge \/ Interrupt \/ Expire \/ Callback \/ Wild) => IInv'
<1> SUFFICES ASSUME IInv, Edge \/ Interrupt \/ Expire \/ Callback \/ Wild
             PROVE  TypeOK' /\ Installed' /\ LevelFollows' /\ EventOfLevel' /\ ReaderInSync'
  BY DEF IInv
<1>a. TypeOK
  BY DEF IInv
<1>b. Installed /\ LevelFollows
  BY DEF IInv
<1>c. EventOfLevel /\ ReaderInSync
  BY DEF IInv
<1> USE DEF moduleVars, timerVars, keyVars, userVars
<1>1. CASE Edge
  <2>1. TypeOK'
    BY <1>a, <1>1 DEF Edge, TypeOK, Loading, Unwinding
  <2>2. Installed'
    BY <1>a, <1>b, <1>1 DEF Edge, TypeOK, Installed, Attached
  <2>3. LevelFollows'
    BY <1>a, <1>b, <1>1 DEF Edge, TypeOK, Installed, LevelFollows, Attached
  <2>4. EventOfLevel' /\ ReaderInSync'
    BY <1>a, <1>c, <1>1 DEF Edge, TypeOK, EventOfLevel, ReaderInSync
  <2> QED BY <2>1, <2>2, <2>3, <2>4
<1>2. CASE Interrupt
  <2>1. TypeOK'
    <3>1. raised' \in BOOLEAN /\ timer' \in BOOLEAN /\ phase' \in {phase, "crashed"}
      BY <1>a, <1>2 DEF Interrupt, Crash, TypeOK
    <3>2. UNCHANGED <<irq, setup, open, pin, cb, current, lastVal, status,
                      debounced, seen, missed>>
      BY <1>2 DEF Interrupt, Crash
    <3> QED BY <1>a, <3>1, <3>2 DEF TypeOK, Loading, Unwinding
  <2>2. Installed'
    BY <1>a, <1>b, <1>2 DEF Interrupt, Crash, TypeOK, Installed, Attached
  <2>3. LevelFollows'
    BY <1>a, <1>b, <1>2 DEF Interrupt, Crash, TypeOK, Installed, LevelFollows, Attached
  <2>4. EventOfLevel' /\ ReaderInSync'
    BY <1>a, <1>c, <1>2 DEF Interrupt, Crash, TypeOK, EventOfLevel, ReaderInSync
  <2> QED BY <2>1, <2>2, <2>3, <2>4
<1>3. CASE Expire
  <2>1. TypeOK'
    <3>1. /\ timer' = FALSE /\ cb' = "read"
          /\ UNCHANGED <<phase, irq, setup, open, pin, raised, current, lastVal, status,
                         debounced, seen, missed>>
      BY <1>3 DEF Expire
    <3>2. timer' \in BOOLEAN /\ cb' \in {"idle", "read", "update"}
      BY <3>1
    <3> QED BY <1>a, <3>1, <3>2 DEF TypeOK
  <2>2. Installed'
    BY <1>a, <1>b, <1>3 DEF Expire, TypeOK, Installed, Attached
  <2>3. LevelFollows'
    BY <1>a, <1>b, <1>3 DEF Expire, TypeOK, Installed, LevelFollows, Attached
  <2>4. EventOfLevel' /\ ReaderInSync'
    BY <1>a, <1>c, <1>3 DEF Expire, TypeOK, EventOfLevel, ReaderInSync
  <2> QED BY <2>1, <2>2, <2>3, <2>4
<1>4. CASE ReadPin
  <2>1. TypeOK'
    BY <1>a, <1>4 DEF ReadPin, TypeOK, Loading, Unwinding
  <2>2. Installed'
    BY <1>a, <1>b, <1>4 DEF ReadPin, TypeOK, Installed, Attached
  <2>3. LevelFollows'
    BY <1>a, <1>b, <1>4 DEF ReadPin, TypeOK, Installed, LevelFollows, Attached
  <2>4. EventOfLevel' /\ ReaderInSync'
    BY <1>a, <1>c, <1>4 DEF ReadPin, TypeOK, EventOfLevel, ReaderInSync
  <2> QED BY <2>1, <2>2, <2>3, <2>4
<1>5. CASE Update
  <2>1. TypeOK'
    BY <1>a, <1>5 DEF Update, Event, TypeOK, Loading, Unwinding
  <2>2. Installed'
    BY <1>a, <1>b, <1>5 DEF Update, Event, TypeOK, Installed, Attached
  <2>3. LevelFollows'
    BY <1>a, <1>b, <1>5 DEF Update, Event, TypeOK, Installed, LevelFollows, Attached
  <2>4. EventOfLevel' /\ ReaderInSync'
    <3>1. /\ status' = Event /\ lastVal' = current /\ seen' = seen
          /\ ~missed' => ~missed /\ status = "KEEP"
      BY <1>5 DEF Update
    <3>2. current \in {0, 1} /\ lastVal \in {0, 1} /\ seen \in {0, 1}
      BY <1>a DEF TypeOK
    <3>3. EventOfLevel'
      BY <3>1, <3>2 DEF Event, EventOfLevel
    <3>4. ReaderInSync'
      BY <1>c, <3>1, <3>2 DEF Event, ReaderInSync
    <3> QED BY <3>3, <3>4
  <2> QED BY <2>1, <2>2, <2>3, <2>4
<1>6. CASE Wild
  <2>1. TypeOK'
    BY <1>a, <1>6 DEF Wild, Crash, TypeOK, Loading, Unwinding
  <2>2. Installed'
    BY <1>a, <1>b, <1>6 DEF Wild, Crash, TypeOK, Installed, Attached
  <2>3. LevelFollows'
    BY <1>a, <1>b, <1>6 DEF Wild, Crash, TypeOK, Installed, LevelFollows, Attached
  <2>4. EventOfLevel' /\ ReaderInSync'
    BY <1>a, <1>c, <1>6 DEF Wild, Crash, TypeOK, EventOfLevel, ReaderInSync
  <2> QED BY <2>1, <2>2, <2>3, <2>4
<1> QED BY <1>1, <1>2, <1>3, <1>4, <1>5, <1>6 DEF Callback

\* The steps of the device's user, and the reboot.
LEMMA UserIInv == IInv /\ (Open \/ Read \/ Reboot) => IInv'
<1> SUFFICES ASSUME IInv, Open \/ Read \/ Reboot
             PROVE  TypeOK' /\ Installed' /\ LevelFollows' /\ EventOfLevel' /\ ReaderInSync'
  BY DEF IInv
<1>a. TypeOK
  BY DEF IInv
<1>b. Installed /\ LevelFollows
  BY DEF IInv
<1>c. EventOfLevel /\ ReaderInSync
  BY DEF IInv
<1> USE DEF moduleVars, timerVars, keyVars, userVars
<1>1. CASE Open
  <2>1. TypeOK'
    BY <1>a, <1>1 DEF Open, HasNode, TypeOK, Loading, Unwinding
  <2>2. Installed'
    BY <1>a, <1>b, <1>1 DEF Open, HasNode, TypeOK, Installed, Attached
  <2>3. LevelFollows'
    BY <1>a, <1>b, <1>1 DEF Open, HasNode, TypeOK, Installed, LevelFollows, Attached
  <2>4. EventOfLevel' /\ ReaderInSync'
    BY <1>a, <1>c, <1>1 DEF Open, HasNode, TypeOK, EventOfLevel, ReaderInSync
  <2> QED BY <2>1, <2>2, <2>3, <2>4
<1>2. CASE Read
  <2>1. TypeOK'
    <3>1. /\ seen' \in {0, 1} /\ missed' \in BOOLEAN /\ status' = "KEEP"
      BY <1>a, <1>2 DEF Read, TypeOK
    <3>2. UNCHANGED <<phase, irq, setup, open, pin, raised, timer, cb, current, lastVal,
                      debounced>>
      BY <1>2 DEF Read
    <3> QED BY <1>a, <3>1, <3>2 DEF TypeOK
  <2>2. Installed'
    BY <1>a, <1>b, <1>2 DEF Read, TypeOK, Installed, Attached
  <2>3. LevelFollows'
    BY <1>a, <1>b, <1>2 DEF Read, TypeOK, Installed, LevelFollows, Attached
  <2>4. EventOfLevel' /\ ReaderInSync'
    <3>1. status' = "KEEP" /\ lastVal' = lastVal
      BY <1>2 DEF Read
    <3>2. ~missed' => ~missed
      BY <1>2 DEF Read
    <3>3. ASSUME ~missed' PROVE seen' = lastVal
      <4>1. CASE status = "KEEP"
        <5>1. seen = lastVal
          BY <1>c, <3>2, <3>3, <4>1 DEF ReaderInSync
        <5>2. seen' = seen
          BY <1>2, <4>1 DEF Read
        <5> QED BY <5>1, <5>2
      <4>2. CASE status # "KEEP"
        <5>1. seen' = CASE status = "PRESS" -> 0 [] status = "RELEASE" -> 1 [] OTHER -> seen
          BY <1>2, <3>3, <4>2 DEF Read
        <5>2. CASE status = "PRESS"
          BY <1>c, <5>1, <5>2 DEF EventOfLevel
        <5>3. CASE status = "RELEASE"
          BY <1>c, <5>1, <5>3 DEF EventOfLevel
        <5> QED BY <1>a, <4>2, <5>2, <5>3 DEF TypeOK
      <4> QED BY <4>1, <4>2
    <3>4. EventOfLevel'
      BY <3>1 DEF EventOfLevel
    <3>5. ReaderInSync'
      BY <3>1, <3>3 DEF ReaderInSync
    <3> QED BY <3>4, <3>5
  <2> QED BY <2>1, <2>2, <2>3, <2>4
<1>3. CASE Reboot
  <2>1. TypeOK'
    BY <1>a, <1>3 DEF Reboot, TypeOK, Loading, Unwinding
  <2>2. Installed'
    BY <1>a, <1>b, <1>3 DEF Reboot, TypeOK, Installed, Attached
  <2>3. LevelFollows'
    BY <1>a, <1>b, <1>3 DEF Reboot, TypeOK, Installed, LevelFollows, Attached
  <2>4. EventOfLevel' /\ ReaderInSync'
    BY <1>a, <1>c, <1>3 DEF Reboot, TypeOK, EventOfLevel, ReaderInSync
  <2> QED BY <2>1, <2>2, <2>3, <2>4
<1> QED BY <1>1, <1>2, <1>3

LEMMA NextIInv == IInv /\ [Next]_vars => IInv'
<1> SUFFICES ASSUME IInv, [Next]_vars PROVE IInv'
  OBVIOUS
<1>1. CASE UNCHANGED vars
  BY <1>1 DEF vars, moduleVars, timerVars, keyVars, userVars, IInv, TypeOK, Installed,
              LevelFollows, EventOfLevel, ReaderInSync
<1>2. CASE Next
  BY <1>2, ModuleIInv, LineIInv, UserIInv DEF Next
<1> QED BY <1>1, <1>2

LEMMA IInvImplies == IInv => TypeOK /\ LevelSettles /\ ReaderInSync
  BY DEF IInv, LevelFollows, LevelSettles, Attached

\* Every reachable state of the driver is well typed, whatever fails.
THEOREM TypeCorrect == Spec => []TypeOK
  BY InitIInv, NextIInv, IInvImplies, PTL DEF Spec

\* The driver's level is the pin's once edges, timer and callback have come to rest,
\* on every load of the module and whatever failed before.
THEOREM LevelAlwaysSettles == Spec => []LevelSettles
  BY InitIInv, NextIInv, IInvImplies, PTL DEF Spec

\* A reader that loses no event to a later one or to a failed copy hears of every
\* debounced change exactly once.
THEOREM ReaderStaysInSync == Spec => []ReaderInSync
  BY InitIInv, NextIInv, IInvImplies, PTL DEF Spec

\* Where the timer is set up; one that was not is never pending.
SetupFollowsPhase ==
  /\ phase \in {"loaded", "exitTimer", "exitIrq"} => setup
  /\ phase \in Loading \cup {"freeIrq"} => ~setup
  /\ ~setup => ~timer /\ cb = "idle"

LEMMA InitSetup == Init => SetupFollowsPhase
  BY DEF Init, SetupFollowsPhase, Loading

LEMMA NextSetup ==
  ASSUME SetupFollowsPhase, [Next]_vars
  PROVE  SetupFollowsPhase'
<1> USE DEF SetupFollowsPhase, Loading, moduleVars, timerVars
<1>1. CASE Load \/ RequestIrq \/ AddCdev
  BY <1>1 DEF Load, RequestIrq, AddCdev
<1>2. CASE CreateDevice \/ TimerSetup \/ FreeIrq
  BY <1>2 DEF CreateDevice, TimerSetup, FreeIrq
<1>3. CASE Exit \/ ExitTimer \/ ExitIrq
  BY <1>3 DEF Exit, ExitTimer, ExitIrq
<1>4. CASE Interrupt \/ Wild
  BY <1>4 DEF Interrupt, Wild, Crash
<1>5. CASE Edge \/ Expire \/ Callback
  BY <1>5 DEF Edge, Expire, Callback, ReadPin, Update
<1>6. CASE Open \/ Read
  BY <1>6 DEF Open, Read
<1>7. CASE Reboot
  BY <1>7 DEF Reboot
<1>8. CASE UNCHANGED vars
  BY <1>8 DEF vars
<1> QED BY <1>1, <1>2, <1>3, <1>4, <1>5, <1>6, <1>7, <1>8 DEF Next, Module

\* Only an edge or the timer crashes the kernel.
LEMMA CrashStep ==
  ASSUME IInv, SetupFollowsPhase, Next, phase' = "crashed"
  PROVE  IF setup THEN phase = "unloaded" ELSE phase \in Loading \cup {"freeIrq"}
<1>1. CASE Interrupt
  <2>1. ~setup /\ irq /\ phase # "crashed"
    BY <1>1 DEF Interrupt
  <2>2. phase \notin {"loaded", "exitTimer", "exitIrq", "unloaded", "requestIrq"}
    BY <2>1 DEF SetupFollowsPhase, IInv, Installed
  <2> QED BY <2>1, <2>2 DEF IInv, TypeOK, Loading, Unwinding
<1>2. CASE Wild
  BY <1>2 DEF Wild, SetupFollowsPhase
<1>3. CASE Module
  BY <1>3 DEF Module, Load, RequestIrq, AddCdev, CreateDevice, TimerSetup, FreeIrq, Exit,
              ExitTimer, ExitIrq
<1>4. CASE Edge \/ Expire \/ Callback
  BY <1>4 DEF Edge, Expire, Callback, ReadPin, Update, moduleVars
<1>5. CASE Open \/ Read \/ Reboot
  BY <1>5 DEF Open, HasNode, Read, Reboot, moduleVars
<1> QED BY <1>1, <1>2, <1>3, <1>4, <1>5 DEF Next

\* A loaded driver, and one in mykey_exit, never crashes the kernel: the BUG_ON needs a
\* load that has not reached timer_setup (keyirq.c:291), freed memory an exit.
THEOREM LoadedNeverCrashes == Spec => CrashOnlyAtTheEnds
<1>1. IInv /\ SetupFollowsPhase /\ [Next]_vars
        => [phase' = "crashed" =>
              IF setup THEN phase = "unloaded" ELSE phase \in Loading \cup {"freeIrq"}]_vars
  BY CrashStep
<1> QED BY InitIInv, NextIInv, InitSetup, NextSetup, <1>1, PTL DEF Spec, CrashOnlyAtTheEnds

-----------------------------------------------------------------------------
(* The debounced key.                                                          *)

\* A step after which the key is not known, and one that is not seen.
LEMMA NotLive ==
  ASSUME ~Live', pin' = pin
  PROVE  [Debounced!Next]_(Debounced!vars)
<1>1. Level' = 1 /\ Owed' = FALSE /\ Live' = FALSE
  BY DEF Level, Owed, Live
<1>2. CASE Live
  BY <1>1, <1>2 DEF Debounced!Next, Debounced!Stop
<1>3. CASE ~Live
  <2>1. Level = 1 /\ Owed = FALSE /\ Live = FALSE
    BY <1>3 DEF Level, Owed, Live
  <2> QED BY <1>1, <2>1 DEF Debounced!vars
<1> QED BY <1>2, <1>3

AtWork == raised \/ timer \/ cb # "idle"

LEMMA NotSeen ==
  ASSUME UNCHANGED <<pin, lastVal, debounced>>,
         phase' \in Attached <=> phase \in Attached, AtWork' <=> AtWork
  PROVE  [Debounced!Next]_(Debounced!vars)
<1>1. Live' = Live
  BY DEF Live
<1>2. Level' = Level
  BY <1>1 DEF Level
<1>3. Owed' = Owed
  BY <1>1 DEF Owed, AtWork
<1> QED BY <1>1, <1>2, <1>3 DEF Debounced!vars

\* mykey_init, mykey_exit and what ends in a crash.
LEMMA ModuleDebounce ==
  ASSUME IInv, Module \/ Wild \/ Reboot
  PROVE  [Debounced!Next]_(Debounced!vars)
<1> USE DEF timerVars, keyVars, Attached
<1>1. CASE Load \/ RequestIrq
  <2>1. ~Live' /\ pin' = pin
    BY <1>1 DEF Load, RequestIrq, Live, IInv, Installed
  <2> QED BY <2>1, NotLive
<1>2. CASE AddCdev \/ CreateDevice \/ TimerSetup \/ Exit
  BY <1>2, NotSeen DEF AddCdev, CreateDevice, TimerSetup, Exit, AtWork
<1>3. CASE FreeIrq \/ ExitTimer \/ ExitIrq \/ Wild \/ Reboot
  <2>1. ~Live' /\ pin' = pin
    BY <1>3 DEF FreeIrq, ExitTimer, ExitIrq, Wild, Crash, Reboot, Live
  <2> QED BY <2>1, NotLive
<1> QED BY <1>1, <1>2, <1>3 DEF Module

\* The handler passes the debounce on to the timer, the timer to the callback.
LEMMA LineDebounce ==
  ASSUME IInv, Edge \/ Interrupt \/ Expire \/ ReadPin \/ Open \/ Read
  PROVE  [Debounced!Next]_(Debounced!vars)
<1> USE DEF moduleVars, timerVars, keyVars
<1>1. CASE Edge
  <2>1. Live' = Live /\ Level' = Level /\ pin' = 1 - pin
    BY <1>1 DEF Edge, Live, Level
  <2>2. Owed' = Live
    <3>1. CASE Live
      <4>1. irq
        BY <3>1 DEF Live, IInv, Installed
      <4> QED BY <1>1, <2>1, <3>1, <4>1 DEF Edge, Owed
    <3>2. CASE ~Live
      BY <2>1, <3>2 DEF Owed, Live
    <3> QED BY <3>1, <3>2
  <2> QED BY <2>1, <2>2 DEF Debounced!Next, Debounced!Edge
<1>2. CASE Interrupt
  <2>1. CASE setup
    BY <1>2, <2>1, NotSeen DEF Interrupt, AtWork
  <2>2. CASE ~setup
    <3>1. ~Live' /\ pin' = pin
      BY <1>2, <2>2 DEF Interrupt, Crash, Live, Attached
    <3> QED BY <3>1, NotLive
  <2> QED BY <2>1, <2>2
<1>3. CASE Expire \/ ReadPin \/ Open \/ Read
  BY <1>3, NotSeen DEF Expire, ReadPin, Open, Read, AtWork
<1> QED BY <1>1, <1>2, <1>3

\* The update to an old level leaves an edge raised or the timer pending.
LEMMA UpdateDebounce ==
  ASSUME IInv, Update
  PROVE  [Debounced!Next]_(Debounced!vars)
<1>1. /\ cb = "update" /\ cb' = "idle" /\ lastVal' = current /\ debounced' = TRUE
      /\ UNCHANGED <<phase, pin, raised, timer>>
  BY DEF Update, moduleVars
<1>2. CASE Live'
  <2>1. phase \in Attached
    BY <1>1, <1>2 DEF Live
  <2>2. Level' = current /\ current \in {0, 1}
    BY <1>1, <1>2 DEF Level, IInv, TypeOK
  <2>3. Live => Owed
    BY <1>1 DEF Owed
  <2>4. Owed' \/ Level' = pin
    <3>1. raised \/ timer => Owed'
      BY <1>1, <1>2 DEF Owed
    <3>2. ~raised /\ ~timer => current = pin
      BY <1>1, <2>1 DEF IInv, LevelFollows
    <3> QED BY <2>2, <3>1, <3>2
  <2>5. Owed' \in BOOLEAN /\ Live' = TRUE
    BY <1>2 DEF Owed, Live
  <2> QED
    BY <1>1, <2>2, <2>3, <2>4, <2>5
       DEF Debounced!Next, Debounced!Debounce, Debounced!Levels
<1>3. CASE ~Live'
  BY <1>1, <1>3, NotLive
<1> QED BY <1>2, <1>3

\* keyirq.c is a debounced key as keyinput.c is: its level changes after an edge only,
\* and comes to the pin's after every edge, on each load of the module.
THEOREM ImplementsDebounce == Spec => DebounceSpec
<1>1. Init => Debounced!Init
  <2> SUFFICES ASSUME Init PROVE Debounced!Init
    OBVIOUS
  <2>1. ~Live /\ pin \in {0, 1}
    BY DEF Init, Live, Attached
  <2> QED BY <2>1 DEF Debounced!Init, Debounced!Levels, Live, Level, Owed
<1>2. IInv /\ [Next]_vars => [Debounced!Next]_(Debounced!vars)
  <2> SUFFICES ASSUME IInv, [Next]_vars PROVE [Debounced!Next]_(Debounced!vars)
    OBVIOUS
  <2>1. CASE UNCHANGED vars
    BY <2>1, NotSeen DEF vars, moduleVars, timerVars, keyVars, AtWork
  <2> QED BY <2>1, ModuleDebounce, LineDebounce, UpdateDebounce DEF Next, Callback
<1> QED BY <1>1, <1>2, InitIInv, NextIInv, PTL DEF Spec, DebounceSpec, Debounced!Spec
=============================================================================
