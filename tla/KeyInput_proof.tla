--------------------------- MODULE KeyInput_proof ---------------------------
(***************************************************************************)
(* Proofs about KeyInput for every set of faults: its type invariant, the  *)
(* balance of the interrupt's disable and enable, that the input core has  *)
(* the key as the pin has it, that an unbound driver leaves nothing         *)
(* running and has given the pin back, that only a probe can crash the     *)
(* kernel, and that the driver implements DebouncedKey.                    *)
(***************************************************************************)
EXTENDS KeyInput, TLAPS

\* Where the interrupt is installed, and what has come to rest after it is freed.
LineFollowsPhase ==
  /\ phase \in {"timerSetup", "allocate", "capability", "register", "bound", "freeIrq"}
       => irq
  /\ phase \in {"syncIrq", "freeGpio", "delTimer", "unregister", "unbound", "requestIrq"}
       => ~irq
  /\ phase \in {"freeGpio", "delTimer", "unregister", "unbound", "requestIrq"}
       => handler = "idle"
  /\ phase \in {"unregister", "unbound", "requestIrq"} => ~timer /\ cb = "idle"

\* A bound driver, and one under removal, has its timer and its input device.
DeviceReady ==
  /\ phase \in {"allocate", "capability", "register", "bound"} \cup Removing => setup
  /\ phase \in {"register", "bound"} \cup Removing => idev = "capable"
  /\ irq /\ settled => idev = "capable"

\* What no waiting edge will correct is right: the level that the callback has read,
\* and the key as the input core has it.
KeyFollows ==
  irq /\ ~raised =>
    /\ cb = "report" => val = pin
    /\ settled /\ (cb = "enable" \/ depth = 0) => down = (pin = 0)

IInv ==
  /\ TypeOK
  /\ LineFollowsPhase
  /\ DeviceReady
  /\ IrqBalanced
  /\ KeyFollows

LEMMA InitIInv == Init => IInv
<1> SUFFICES ASSUME Init PROVE IInv
  OBVIOUS
<1>1. TypeOK
  BY DEF Init, TypeOK, Probing, Removing
<1>2. LineFollowsPhase /\ DeviceReady
  BY DEF Init, LineFollowsPhase, DeviceReady, Removing
<1>3. IrqBalanced /\ KeyFollows
  BY DEF Init, IrqBalanced, KeyFollows
<1> QED BY <1>1, <1>2, <1>3 DEF IInv

\* No step leaves the types: enable_irq finds the line disabled.
LEMMA NextTypes ==
  ASSUME TypeOK, IrqBalanced, [Next]_vars
  PROVE  TypeOK'
<1> USE DEF TypeOK, Probing, Removing, probeVars, lineVars, timerVars, keyVars
<1>1. CASE RequestGpio
  BY <1>1 DEF RequestGpio
<1>2. CASE RequestIrq
  <2>1. CASE phase' = "timerSetup"
    <3>1. /\ irq' = TRUE /\ depth' = 0 /\ raised' = FALSE /\ settled' = FALSE
          /\ UNCHANGED <<gpio, handler, setup, idev, registered, timer, cb, val, down, pin>>
      BY <1>2, <2>1 DEF RequestIrq
    <3>2. irq' \in BOOLEAN /\ raised' \in BOOLEAN /\ settled' \in BOOLEAN /\ depth' \in Nat
      BY <3>1
    <3> QED BY <2>1, <3>1, <3>2
  <2>2. CASE phase' # "timerSetup"
    <3>1. /\ gpio' = FALSE /\ phase' = "unbound"
          /\ UNCHANGED <<lineVars, settled, setup, idev, registered, timerVars, down, pin>>
      BY <1>2, <2>2 DEF RequestIrq
    <3>2. gpio' \in BOOLEAN
      BY <3>1
    <3> QED BY <3>1, <3>2
  <2> QED BY <2>1, <2>2
<1>3. CASE TimerSetup
  BY <1>3 DEF TimerSetup, Crash
<1>4. CASE Allocate
  <2>1. /\ phase' \in {"capability", "crashed"} /\ idev' \in {"allocated", "none"}
        /\ down' \in BOOLEAN /\ settled' \in BOOLEAN
    BY <1>4 DEF Allocate, Crash
  <2>2. UNCHANGED <<gpio, irq, setup, registered, pin, raised, depth, handler, timer, cb,
                    val>>
    BY <1>4 DEF Allocate, Crash
  <2> QED BY <2>1, <2>2
<1>5. CASE Capability
  BY <1>5 DEF Capability
<1>6. CASE Register
  <2>1. phase' \in {"bound", "freeIrq"} /\ registered' \in BOOLEAN
    BY <1>6 DEF Register
  <2>2. UNCHANGED <<gpio, irq, setup, idev, pin, raised, depth, handler,
                    timer, cb, val, down, settled>>
    BY <1>6 DEF Register
  <2> QED BY <2>1, <2>2
<1>7. CASE Remove
  BY <1>7 DEF Remove
<1>8. CASE FreeIrq
  <2>1. irq' \in BOOLEAN /\ raised' \in BOOLEAN /\ phase' = "syncIrq"
    BY <1>8 DEF FreeIrq
  <2>2. UNCHANGED <<gpio, setup, idev, registered, pin, depth, handler, timer, cb, val,
                    down, settled>>
    BY <1>8 DEF FreeIrq
  <2> QED BY <2>1, <2>2
<1>9. CASE SyncIrq
  BY <1>9 DEF SyncIrq
<1>10. CASE FreeGpio
  <2>1. gpio' \in BOOLEAN /\ phase' = "delTimer"
    BY <1>10 DEF FreeGpio
  <2>2. UNCHANGED <<irq, setup, idev, registered, pin, raised, depth, handler,
                    timer, cb, val, down, settled>>
    BY <1>10 DEF FreeGpio
  <2> QED BY <2>1, <2>2
<1>11. CASE DelTimer
  <2>1. timer' \in BOOLEAN /\ phase' \in {"unregister", "unbound"}
    BY <1>11 DEF DelTimer
  <2>2. UNCHANGED <<gpio, irq, setup, idev, registered, pin, raised, depth, handler, cb,
                    val, down, settled>>
    BY <1>11 DEF DelTimer
  <2> QED BY <2>1, <2>2
<1>12. CASE Unregister
  <2>1. /\ idev' = "freed" /\ registered' \in BOOLEAN /\ phase' = "unbound"
        /\ down' \in BOOLEAN /\ settled' \in BOOLEAN
    BY <1>12 DEF Unregister
  <2>2. UNCHANGED <<gpio, irq, setup, pin, raised, depth, handler, timer, cb, val>>
    BY <1>12 DEF Unregister
  <2> QED BY <2>1, <2>2
<1>13. CASE Reload
  <2>1. setup' \in BOOLEAN /\ idev' = "none"
    BY <1>13 DEF Reload
  <2>2. UNCHANGED <<phase, gpio, irq, registered, pin, raised, depth, handler, timer, cb,
                    val, down, settled>>
    BY <1>13 DEF Reload
  <2> QED BY <2>1, <2>2
<1>14. CASE Edge
  BY <1>14 DEF Edge
<1>15. CASE Interrupt
  <2>1. raised' = FALSE /\ handler' = "arm"
        /\ UNCHANGED <<probeVars, irq, timerVars, keyVars, pin>>
    BY <1>15 DEF Interrupt
  <2>2. depth' \in Nat
    BY <1>15 DEF Interrupt
  <2>3. raised' \in BOOLEAN
    BY <2>1
  <2> QED BY <2>1, <2>2, <2>3
<1>16. CASE ArmTimer
  <2>1. handler' = "idle" /\ timer' \in BOOLEAN /\ phase' \in {phase, "crashed"}
    BY <1>16 DEF ArmTimer, Crash
  <2>2. UNCHANGED <<gpio, irq, setup, idev, registered, pin, raised, depth,
                    cb, val, down, settled>>
    BY <1>16 DEF ArmTimer, Crash
  <2> QED BY <2>1, <2>2
<1>17. CASE Expire
  <2>1. timer' \in BOOLEAN /\ cb' = "read"
    BY <1>17 DEF Expire
  <2>2. UNCHANGED <<phase, gpio, irq, setup, idev, registered, pin, raised,
                    depth, handler, val, down, settled>>
    BY <1>17 DEF Expire
  <2> QED BY <2>1, <2>2
<1>18. CASE ReadPin
  BY <1>18 DEF ReadPin
<1>19. CASE Report
  <2>1. /\ cb' = "enable" /\ phase' \in {phase, "crashed"}
        /\ down' \in BOOLEAN /\ settled' \in BOOLEAN
    BY <1>19 DEF Report, Crash
  <2>2. UNCHANGED <<gpio, irq, setup, idev, registered, pin, raised, depth,
                    handler, timer, val>>
    BY <1>19 DEF Report, Crash
  <2> QED BY <2>1, <2>2
<1>20. CASE EnableIrq
  <2>1. depth' \in Nat /\ cb' = "idle"
    BY <1>20 DEF EnableIrq, IrqBalanced
  <2>2. UNCHANGED <<phase, gpio, irq, setup, idev, registered, pin, raised, handler, timer,
                    val, down, settled>>
    BY <1>20 DEF EnableIrq
  <2> QED BY <2>1, <2>2
<1>21. CASE Reboot
  BY <1>21 DEF Reboot
<1>22. CASE UNCHANGED vars
  BY <1>22 DEF vars
<1> QED BY <1>1, <1>2, <1>3, <1>4, <1>5, <1>6, <1>7, <1>8, <1>9, <1>10, <1>11, <1>12,
           <1>13, <1>14, <1>15, <1>16, <1>17, <1>18, <1>19, <1>20, <1>21, <1>22
       DEF Next, Probe, Unwind, Handler, Callback

\* free_irq, its wait for the handler, and del_timer_sync end what request_irq began.
LEMMA NextLine ==
  ASSUME TypeOK, LineFollowsPhase, [Next]_vars
  PROVE  LineFollowsPhase'
<1> USE DEF LineFollowsPhase, Probing, Removing, probeVars, lineVars, timerVars, keyVars
<1>1. CASE RequestGpio
  BY <1>1 DEF RequestGpio
<1>2. CASE RequestIrq
  BY <1>2 DEF RequestIrq
<1>3. CASE TimerSetup
  BY <1>3 DEF TimerSetup, Crash
<1>4. CASE Allocate
  BY <1>4 DEF Allocate, Crash
<1>5. CASE Capability
  BY <1>5 DEF Capability
<1>6. CASE Register
  BY <1>6 DEF Register
<1>7. CASE Remove
  BY <1>7 DEF Remove
<1>8. CASE FreeIrq
  BY <1>8 DEF FreeIrq
<1>9. CASE SyncIrq
  BY <1>9 DEF SyncIrq
<1>10. CASE FreeGpio
  BY <1>10 DEF FreeGpio
<1>11. CASE DelTimer
  BY <1>11 DEF DelTimer
<1>12. CASE Unregister
  BY <1>12 DEF Unregister
<1>13. CASE Reload
  BY <1>13 DEF Reload
<1>14. CASE Edge
  BY <1>14 DEF Edge
<1>15. CASE Interrupt
  BY <1>15 DEF Interrupt
<1>16. CASE ArmTimer
  BY <1>16 DEF ArmTimer, Crash
<1>17. CASE Expire
  BY <1>17 DEF Expire
<1>18. CASE ReadPin
  BY <1>18 DEF ReadPin
<1>19. CASE Report
  BY <1>19 DEF Report, Crash
<1>20. CASE EnableIrq
  BY <1>20 DEF EnableIrq
<1>21. CASE Reboot
  BY <1>21 DEF Reboot
<1>22. CASE UNCHANGED vars
  BY <1>22 DEF vars
<1> QED BY <1>1, <1>2, <1>3, <1>4, <1>5, <1>6, <1>7, <1>8, <1>9, <1>10, <1>11, <1>12,
           <1>13, <1>14, <1>15, <1>16, <1>17, <1>18, <1>19, <1>20, <1>21, <1>22
       DEF Next, Probe, Unwind, Handler, Callback

\* timer_setup and the input device come before the driver is bound.
LEMMA NextDevice ==
  ASSUME TypeOK, LineFollowsPhase, DeviceReady, [Next]_vars
  PROVE  DeviceReady'
<1> USE DEF DeviceReady, LineFollowsPhase, Probing, Removing,
            probeVars, lineVars, timerVars, keyVars
<1>1. CASE RequestGpio
  BY <1>1 DEF RequestGpio
<1>2. CASE RequestIrq
  BY <1>2 DEF RequestIrq
<1>3. CASE TimerSetup
  BY <1>3 DEF TimerSetup, Crash
<1>4. CASE Allocate
  BY <1>4 DEF Allocate, Crash
<1>5. CASE Capability
  BY <1>5 DEF Capability
<1>6. CASE Register
  BY <1>6 DEF Register
<1>7. CASE Remove
  BY <1>7 DEF Remove
<1>8. CASE FreeIrq
  BY <1>8 DEF FreeIrq
<1>9. CASE SyncIrq
  BY <1>9 DEF SyncIrq
<1>10. CASE FreeGpio
  BY <1>10 DEF FreeGpio
<1>11. CASE DelTimer
  BY <1>11 DEF DelTimer
<1>12. CASE Unregister
  BY <1>12 DEF Unregister
<1>13. CASE Reload
  BY <1>13 DEF Reload
<1>14. CASE Edge
  BY <1>14 DEF Edge
<1>15. CASE Interrupt
  BY <1>15 DEF Interrupt
<1>16. CASE ArmTimer
  BY <1>16 DEF ArmTimer, Crash
<1>17. CASE Expire
  BY <1>17 DEF Expire
<1>18. CASE ReadPin
  BY <1>18 DEF ReadPin
<1>19. CASE Report
  BY <1>19 DEF Report, Crash
<1>20. CASE EnableIrq
  BY <1>20 DEF EnableIrq
<1>21. CASE Reboot
  BY <1>21 DEF Reboot
<1>22. CASE UNCHANGED vars
  BY <1>22 DEF vars
<1> QED BY <1>1, <1>2, <1>3, <1>4, <1>5, <1>6, <1>7, <1>8, <1>9, <1>10, <1>11, <1>12,
           <1>13, <1>14, <1>15, <1>16, <1>17, <1>18, <1>19, <1>20, <1>21, <1>22
       DEF Next, Probe, Unwind, Handler, Callback

\* The handler's disable_irq_nosync and the callback's enable_irq balance.
LEMMA NextBalanced ==
  ASSUME TypeOK, LineFollowsPhase, IrqBalanced, [Next]_vars
  PROVE  IrqBalanced'
<1> USE DEF IrqBalanced, LineFollowsPhase, TypeOK, probeVars, lineVars, timerVars, keyVars
<1>1. CASE RequestGpio
  BY <1>1 DEF RequestGpio
<1>2. CASE RequestIrq
  <2>1. handler = "idle" /\ ~timer /\ cb = "idle" /\ ~irq
    BY <1>2 DEF RequestIrq
  <2>2. handler' = handler /\ timer' = timer /\ cb' = cb
    BY <1>2 DEF RequestIrq
  <2>3. CASE ~irq'
    BY <2>3
  <2>4. CASE irq'
    <3>1. depth' = 0
      BY <1>2, <2>1, <2>4 DEF RequestIrq
    <3> QED BY <2>1, <2>2, <3>1
  <2> QED BY <2>3, <2>4
<1>3. CASE TimerSetup
  BY <1>3 DEF TimerSetup, Crash
<1>4. CASE Allocate
  BY <1>4 DEF Allocate, Crash
<1>5. CASE Capability
  BY <1>5 DEF Capability
<1>6. CASE Register
  BY <1>6 DEF Register
<1>7. CASE Remove
  BY <1>7 DEF Remove
<1>8. CASE FreeIrq
  BY <1>8 DEF FreeIrq
<1>9. CASE SyncIrq
  BY <1>9 DEF SyncIrq
<1>10. CASE FreeGpio
  BY <1>10 DEF FreeGpio
<1>11. CASE DelTimer
  BY <1>11 DEF DelTimer
<1>12. CASE Unregister
  BY <1>12 DEF Unregister
<1>13. CASE Reload
  BY <1>13 DEF Reload
<1>14. CASE Edge
  BY <1>14 DEF Edge
<1>15. CASE Interrupt
  BY <1>15 DEF Interrupt
<1>16. CASE ArmTimer
  BY <1>16 DEF ArmTimer, Crash
<1>17. CASE Expire
  BY <1>17 DEF Expire
<1>18. CASE ReadPin
  BY <1>18 DEF ReadPin
<1>19. CASE Report
  BY <1>19 DEF Report, Crash
<1>20. CASE EnableIrq
  BY <1>20 DEF EnableIrq
<1>21. CASE Reboot
  BY <1>21 DEF Reboot
<1>22. CASE UNCHANGED vars
  BY <1>22 DEF vars
<1> QED BY <1>1, <1>2, <1>3, <1>4, <1>5, <1>6, <1>7, <1>8, <1>9, <1>10, <1>11, <1>12,
           <1>13, <1>14, <1>15, <1>16, <1>17, <1>18, <1>19, <1>20, <1>21, <1>22
       DEF Next, Probe, Unwind, Handler, Callback

\* An edge after the read of the pin is raised, and read again.
LEMMA NextFollows ==
  ASSUME TypeOK, LineFollowsPhase, DeviceReady, IrqBalanced, KeyFollows, [Next]_vars
  PROVE  KeyFollows'
<1> USE DEF KeyFollows, TypeOK, probeVars, lineVars, timerVars, keyVars
<1>1. CASE RequestGpio
  BY <1>1 DEF RequestGpio
<1>2. CASE RequestIrq
  <2>1. ~irq /\ cb = "idle"
    BY <1>2 DEF RequestIrq, LineFollowsPhase
  <2>2. cb' = cb /\ (irq' = irq \/ ~settled')
    BY <1>2 DEF RequestIrq
  <2> QED BY <2>1, <2>2
<1>3. CASE TimerSetup
  BY <1>3 DEF TimerSetup, Crash
<1>4. CASE Allocate
  BY <1>4 DEF Allocate, Crash
<1>5. CASE Capability
  BY <1>5 DEF Capability
<1>6. CASE Register
  BY <1>6 DEF Register
<1>7. CASE Remove
  BY <1>7 DEF Remove
<1>8. CASE FreeIrq
  BY <1>8 DEF FreeIrq
<1>9. CASE SyncIrq
  BY <1>9 DEF SyncIrq
<1>10. CASE FreeGpio
  BY <1>10 DEF FreeGpio
<1>11. CASE DelTimer
  BY <1>11 DEF DelTimer
<1>12. CASE Unregister
  BY <1>12 DEF Unregister
<1>13. CASE Reload
  BY <1>13 DEF Reload
<1>14. CASE Edge
  BY <1>14 DEF Edge
<1>15. CASE Interrupt
  <2>1. cb = "idle" /\ depth = 0
    BY <1>15 DEF Interrupt, IrqBalanced
  <2>2. cb' = cb /\ depth' = 1
    BY <1>15, <2>1 DEF Interrupt
  <2> QED BY <2>1, <2>2
<1>16. CASE ArmTimer
  BY <1>16 DEF ArmTimer, Crash
<1>17. CASE Expire
  BY <1>17 DEF Expire
<1>18. CASE ReadPin
  BY <1>18 DEF ReadPin
<1>19. CASE Report
  <2>1. phase # "crashed" /\ cb = "report" /\ cb' = "enable"
        /\ irq' = irq /\ raised' = raised /\ depth' = depth /\ pin' = pin
    BY <1>19 DEF Report
  <2>2. CASE idev = "capable"
    <3>1. down' = (val = 0)
      BY <1>19, <2>2 DEF Report
    <3> QED BY <2>1, <3>1
  <2>3. CASE idev # "capable"
    <3>1. settled' = settled /\ (irq => ~settled)
      BY <1>19, <2>3 DEF Report, DeviceReady
    <3> QED BY <2>1, <3>1
  <2> QED BY <2>2, <2>3
<1>20. CASE EnableIrq
  BY <1>20 DEF EnableIrq
<1>21. CASE Reboot
  BY <1>21 DEF Reboot
<1>22. CASE UNCHANGED vars
  BY <1>22 DEF vars
<1> QED BY <1>1, <1>2, <1>3, <1>4, <1>5, <1>6, <1>7, <1>8, <1>9, <1>10, <1>11, <1>12,
           <1>13, <1>14, <1>15, <1>16, <1>17, <1>18, <1>19, <1>20, <1>21, <1>22
       DEF Next, Probe, Unwind, Handler, Callback

LEMMA NextIInv == IInv /\ [Next]_vars => IInv'
  BY NextTypes, NextLine, NextDevice, NextBalanced, NextFollows DEF IInv

LEMMA IInvImplies ==
  IInv => TypeOK /\ IrqBalanced /\ ReportedMatchesPin /\ QuietWhenUnbound
  BY DEF IInv, KeyFollows, ReportedMatchesPin, LineFollowsPhase, QuietWhenUnbound

\* The steps that crash the kernel.
LEMMA CrashInProbe ==
  ASSUME IInv, Next, phase' = "crashed"
  PROVE  phase \in Probing
<1> USE DEF IInv, Probing, Removing, probeVars
<1>1. CASE Probe
  BY <1>1 DEF Probe, RequestGpio, RequestIrq, TimerSetup, Allocate, Capability, Register
<1>2. CASE Remove \/ Unwind \/ Reload
  BY <1>2 DEF Remove, Unwind, Reload, FreeIrq, SyncIrq, FreeGpio, DelTimer, Unregister
<1>3. CASE Edge \/ Interrupt \/ Expire \/ ReadPin \/ EnableIrq \/ Reboot
  BY <1>3 DEF Edge, Interrupt, Expire, ReadPin, EnableIrq, Reboot
<1>4. CASE ArmTimer
  <2>1. phase # "crashed" /\ ~setup /\ handler = "arm"
    BY <1>4 DEF ArmTimer
  <2> QED BY <2>1 DEF DeviceReady, LineFollowsPhase, TypeOK
<1>5. CASE Report
  <2>1. phase # "crashed" /\ idev \in {"none", "freed"} /\ cb = "report"
    BY <1>5 DEF Report
  <2> QED BY <2>1 DEF DeviceReady, LineFollowsPhase, TypeOK
<1> QED BY <1>1, <1>2, <1>3, <1>4, <1>5 DEF Next, Handler, Callback

\* Every reachable state of the driver is well typed, whatever fails.
THEOREM TypeCorrect == Spec => []TypeOK
  BY InitIInv, NextIInv, IInvImplies, PTL DEF Spec

\* The interrupt is disabled exactly while one debounce is in progress.
THEOREM IrqStaysBalanced == Spec => []IrqBalanced
  BY InitIInv, NextIInv, IInvImplies, PTL DEF Spec

\* At rest the input core has the key as the pin has it.
THEOREM ReportMatches == Spec => []ReportedMatchesPin
  BY InitIInv, NextIInv, IInvImplies, PTL DEF Spec

\* An unbound driver leaves neither handler nor timer nor callback behind.
THEOREM UnboundIsQuiet == Spec => []QuietWhenUnbound
  BY InitIInv, NextIInv, IInvImplies, PTL DEF Spec

\* A bound driver, and one under removal, never crashes the kernel.
THEOREM OnlyProbeCrashes == Spec => CrashOnlyInProbe
<1>1. IInv /\ [Next]_vars => [phase' = "crashed" => phase \in Probing]_vars
  BY CrashInProbe
<1> QED BY InitIInv, NextIInv, <1>1, PTL DEF Spec, CrashOnlyInProbe

\* Where probe and remove have the pin.
PinFollowsPhase ==
  /\ phase \in Probing \cup {"bound", "freeIrq", "syncIrq", "freeGpio"} => gpio
  /\ phase \in {"delTimer", "unregister"} => ~gpio

LEMMA InitPin == Init => PinFollowsPhase
  BY DEF Init, PinFollowsPhase, Probing

\* Every step but a crash's keeps the pin with the phase; gpio_free is on every way out
\* that gpio_key_init lets reach it.
LEMMA NextPin ==
  ASSUME PinFollowsPhase, [Next]_vars
  PROVE  PinFollowsPhase'
<1> USE DEF PinFollowsPhase, Probing, probeVars
<1>1. CASE RequestGpio \/ RequestIrq
  BY <1>1 DEF RequestGpio, RequestIrq
<1>2. CASE TimerSetup \/ Allocate \/ Capability \/ Register
  BY <1>2 DEF TimerSetup, Allocate, Capability, Register, Crash
<1>3. CASE Remove \/ Unwind
  BY <1>3 DEF Remove, Unwind, FreeIrq, SyncIrq, FreeGpio, DelTimer, Unregister
<1>4. CASE Reload \/ Edge \/ Interrupt \/ Expire \/ ReadPin \/ EnableIrq
  BY <1>4 DEF Reload, Edge, Interrupt, Expire, ReadPin, EnableIrq
<1>5. CASE ArmTimer \/ Report
  BY <1>5 DEF ArmTimer, Report, Crash
<1>6. CASE Reboot
  BY <1>6 DEF Reboot
<1>7. CASE UNCHANGED vars
  BY <1>7 DEF vars
<1> QED BY <1>1, <1>2, <1>3, <1>4, <1>5, <1>6, <1>7 DEF Next, Probe, Handler, Callback

\* The steps that end unbound, and those that an unbound driver takes.
LEMMA PinStep ==
  ASSUME IInv, PinFollowsPhase, Next
  PROVE  /\ phase # "unbound" /\ phase' = "unbound" => ~gpio'
         /\ phase = "unbound" /\ gpio => phase' = "unbound" /\ gpio'
<1> USE DEF PinFollowsPhase, probeVars
<1>1. CASE RequestGpio \/ RequestIrq
  BY <1>1 DEF RequestGpio, RequestIrq
<1>2. CASE TimerSetup \/ Allocate \/ Capability \/ Register
  BY <1>2 DEF TimerSetup, Allocate, Capability, Register, Crash
<1>3. CASE Remove \/ Unwind
  BY <1>3 DEF Remove, Unwind, FreeIrq, SyncIrq, FreeGpio, DelTimer, Unregister
<1>4. CASE Reload \/ Edge \/ Interrupt \/ Expire \/ ReadPin \/ EnableIrq
  BY <1>4 DEF Reload, Edge, Interrupt, Expire, ReadPin, EnableIrq
<1>5. CASE ArmTimer \/ Report
  <2>1. phase # "unbound"
    BY <1>5 DEF ArmTimer, Report, IInv, LineFollowsPhase
  <2>2. phase' \in {phase, "crashed"}
    BY <1>5 DEF ArmTimer, Report, Crash
  <2> QED BY <2>1, <2>2
<1>6. CASE Reboot
  BY <1>6 DEF Reboot
<1> QED BY <1>1, <1>2, <1>3, <1>4, <1>5, <1>6 DEF Next, Probe, Handler, Callback

\* Every end of a probe or a remove gives the pin back but the one of a failed mapping
\* (keyinput.c:73-76), which keeps it until the machine is started again.
THEOREM OnlyMappingKeepsPin == Spec => PinGivenBack
<1>1. IInv /\ PinFollowsPhase /\ [Next]_vars
        => [/\ phase # "unbound" /\ phase' = "unbound" => ~gpio'
            /\ phase = "unbound" /\ gpio => phase' = "unbound" /\ gpio']_vars
  BY PinStep
<1> QED BY InitIInv, NextIInv, InitPin, NextPin, <1>1, PTL DEF Spec, PinGivenBack

-----------------------------------------------------------------------------
(* The debounced key.                                                          *)

\* A step after which the key is not known, and one that is not seen.
LEMMA NotLive ==
  ASSUME ~Live', pin' = pin
  PROVE  [Debounced!Next]_(Debounced!vars)
<1>1. Level' = 1 /\ Owed' = FALSE /\ Live' = FALSE
  BY DEF Level, Owed, Live
<1>2. CASE Live
  BY <1>1, <1>2 DEF Debounced!Next, Debounced!Stop
<1>3. CASE ~Live
  <2>1. Level = 1 /\ Owed = FALSE /\ Live = FALSE
    BY <1>3 DEF Level, Owed, Live
  <2> QED BY <1>1, <2>1 DEF Debounced!vars
<1> QED BY <1>2, <1>3

AtWork == raised \/ handler = "arm" \/ timer \/ cb \in {"read", "report"}

LEMMA NotSeen ==
  ASSUME UNCHANGED <<pin, irq, settled, down>>,
         phase' = "crashed" <=> phase = "crashed", AtWork' <=> AtWork
  PROVE  [Debounced!Next]_(Debounced!vars)
<1>1. Live' = Live
  BY DEF Live
<1>2. Level' = Level
  BY <1>1 DEF Level
<1>3. Owed' = Owed
  BY <1>1 DEF Owed, AtWork
<1> QED BY <1>1, <1>2, <1>3 DEF Debounced!vars

\* probe and remove.
LEMMA ProbeDebounce ==
  ASSUME IInv, Probe \/ Remove \/ Unwind \/ Reload \/ Reboot
  PROVE  [Debounced!Next]_(Debounced!vars)
<1> USE DEF IInv, probeVars, lineVars, timerVars, keyVars
<1>1. CASE RequestGpio \/ RequestIrq
  <2>1. ~Live' /\ pin' = pin
    BY <1>1 DEF RequestGpio, RequestIrq, Live, LineFollowsPhase
  <2> QED BY <2>1, NotLive
<1>2. CASE TimerSetup
  <2>1. CASE timer
    <3>1. ~Live' /\ pin' = pin
      BY <1>2, <2>1 DEF TimerSetup, Crash, Live
    <3> QED BY <3>1, NotLive
  <2>2. CASE ~timer
    BY <1>2, <2>2, NotSeen DEF TimerSetup, AtWork
  <2> QED BY <2>1, <2>2
<1>3. CASE Allocate
  <2>1. ~Live' /\ pin' = pin
    BY <1>3 DEF Allocate, Live
  <2> QED BY <2>1, NotLive
<1>4. CASE Capability \/ Register \/ Remove
  BY <1>4, NotSeen DEF Capability, Register, Remove, AtWork
<1>5. CASE Unwind \/ Reload \/ Reboot
  <2>1. ~Live' /\ pin' = pin
    BY <1>5 DEF Unwind, FreeIrq, SyncIrq, FreeGpio, DelTimer, Unregister, Reload, Reboot,
                Live, LineFollowsPhase
  <2> QED BY <2>1, NotLive
<1> QED BY <1>1, <1>2, <1>3, <1>4, <1>5 DEF Probe

\* The handler and the timer pass the debounce on.
LEMMA LineDebounce ==
  ASSUME IInv, Edge \/ Handler \/ Expire \/ ReadPin \/ EnableIrq
  PROVE  [Debounced!Next]_(Debounced!vars)
<1> USE DEF IInv, probeVars, lineVars, timerVars, keyVars
<1>1. CASE Edge
  <2>1. Live' = Live /\ Level' = Level /\ pin' = 1 - pin
    BY <1>1 DEF Edge, Live, Level
  <2>2. Owed' = Live
    <3>1. CASE Live
      BY <1>1, <2>1, <3>1 DEF Edge, Live, Owed
    <3>2. CASE ~Live
      BY <2>1, <3>2 DEF Owed, Live
    <3> QED BY <3>1, <3>2
  <2> QED BY <2>1, <2>2 DEF Debounced!Next, Debounced!Edge
<1>2. CASE Interrupt
  BY <1>2, NotSeen DEF Interrupt, AtWork
<1>3. CASE ArmTimer
  <2>1. CASE setup
    BY <1>3, <2>1, NotSeen DEF ArmTimer, AtWork
  <2>2. CASE ~setup
    <3>1. ~Live' /\ pin' = pin
      BY <1>3, <2>2 DEF ArmTimer, Crash, Live
    <3> QED BY <3>1, NotLive
  <2> QED BY <2>1, <2>2
<1>4. CASE Expire \/ ReadPin \/ EnableIrq
  BY <1>4, NotSeen DEF Expire, ReadPin, EnableIrq, AtWork
<1> QED BY <1>1, <1>2, <1>3, <1>4 DEF Handler

\* The report of an old level leaves an edge raised.
LEMMA ReportDebounce ==
  ASSUME IInv, Report
  PROVE  [Debounced!Next]_(Debounced!vars)
<1>1. /\ phase # "crashed" /\ cb = "report" /\ cb' = "enable"
      /\ UNCHANGED <<irq, raised, handler, timer, val, pin>>
  BY DEF Report, lineVars
<1>2. CASE Live'
  <2>1. irq /\ idev = "capable" /\ phase' = phase
    BY <1>1, <1>2 DEF Report, Live, Crash, keyVars, IInv, DeviceReady
  <2>2. down' = (val = 0) /\ settled' = TRUE
    BY <2>1 DEF Report
  <2>3. Level' = val /\ val \in {0, 1}
    BY <1>2, <2>2 DEF Level, IInv, TypeOK
  <2>4. Live => Owed
    BY <1>1 DEF Owed
  <2>5. Owed' \/ Level' = pin
    <3>1. raised => Owed'
      BY <1>1, <1>2 DEF Owed
    <3>2. ~raised => val = pin
      BY <1>1, <2>1 DEF IInv, KeyFollows
    <3> QED BY <2>3, <3>1, <3>2
  <2>6. Owed' \in BOOLEAN /\ Live' = TRUE
    BY <1>2 DEF Owed, Live
  <2> QED
    BY <1>1, <2>3, <2>4, <2>5, <2>6
       DEF Debounced!Next, Debounced!Debounce, Debounced!Levels
<1>3. CASE ~Live'
  BY <1>1, <1>3, NotLive
<1> QED BY <1>2, <1>3

\* keyinput.c is a debounced key: no report without an edge, and no edge without a
\* report that is right, wherever probe, remove and failures cut in.
THEOREM ImplementsDebounce == Spec => DebounceSpec
<1>1. Init => Debounced!Init
  BY DEF Init, Debounced!Init, Debounced!Levels, Live, Level, Owed
<1>2. IInv /\ [Next]_vars => [Debounced!Next]_(Debounced!vars)
  <2> SUFFICES ASSUME IInv, [Next]_vars PROVE [Debounced!Next]_(Debounced!vars)
    OBVIOUS
  <2>1. CASE UNCHANGED vars
    BY <2>1, NotSeen DEF vars, probeVars, lineVars, timerVars, keyVars, AtWork
  <2> QED BY <2>1, ProbeDebounce, LineDebounce, ReportDebounce DEF Next, Callback
<1> QED BY <1>1, <1>2, InitIInv, NextIInv, PTL DEF Spec, DebounceSpec, Debounced!Spec
=============================================================================
