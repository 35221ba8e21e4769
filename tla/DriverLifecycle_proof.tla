------------------------ MODULE DriverLifecycle_proof ------------------------
(***************************************************************************)
(* Proofs about DriverLifecycle for every choice of installed drivers, of  *)
(* tasks, of faults and of unbound devices: its type invariant, that       *)
(* gpiolib's view of the pins agrees with the drivers', that a bound       *)
(* driver can be opened, that a failed or finished driver leaves nothing   *)
(* behind but what gpio.c forgets, that a pin forgotten so is lost for     *)
(* good, and that an open file finds what its reads use, but for gpio.c    *)
(* after a node it could not make.                                         *)
(***************************************************************************)
EXTENDS DriverLifecycle, TLAPS

USE DriversAssumption

-----------------------------------------------------------------------------
(* What the tables have in common.                                             *)

Positions(list) == DOMAIN list = 1 .. Len(list) /\ Len(list) \in Nat \ {0}

\* A pin's request is never ignored; a label frees only pins that were requested
\* before the step that jumps to it; exit and remove free only pins that init or
\* probe requested; and no list frees a pin twice.
Sound(e) ==
  /\ Positions(e.acquire) /\ Positions(e.unwind) /\ Positions(e.remove)
  /\ \A i \in DOMAIN e.acquire :
       /\ e.acquire[i].what \in Pins => e.acquire[i].label # Ignored
       /\ e.acquire[i].label \in Int
  /\ \A i \in DOMAIN e.acquire, j \in DOMAIN e.unwind :
       e.acquire[i].label \in 1 .. j /\ e.unwind[j] \in Pins =>
         \E k \in 1 .. i - 1 : e.acquire[k].what = e.unwind[j]
  /\ \A j \in DOMAIN e.remove :
       e.remove[j] \in Pins => \E k \in DOMAIN e.acquire : e.acquire[k].what = e.remove[j]
  /\ \A i, j \in DOMAIN e.unwind : e.unwind[i] \in Pins /\ e.unwind[i] = e.unwind[j] => i = j
  /\ \A i, j \in DOMAIN e.remove : e.remove[i] \in Pins /\ e.remove[i] = e.remove[j] => i = j

\* What open looks for is among what init or probe insists on.
Openable(e) ==
  \A way \in e.open : \A r \in way : \E k \in DOMAIN e.acquire :
    e.acquire[k].what = r /\ e.acquire[k].label # Ignored

LEMMA TableSound == ASSUME NEW d \in DOMAIN Table PROVE Sound(Table[d])
<1> USE DEF Sound, Positions, Take, Pins, Ignored, Crash
<1>1. Sound(gpioled)
  BY DEF gpioled
<1>2. Sound(dtsplatform)
  BY DEF dtsplatform
<1>3. Sound(led_chr)
  BY DEF led_chr
<1>4. Sound(timer)
  BY DEF timer
<1>5. Sound(gpio)
  BY DEF gpio
<1>6. Sound(ap3216c)
  BY DEF ap3216c
<1>7. Sound(rd04)
  BY DEF rd04
<1> HIDE DEF Sound
<1> QED BY <1>1, <1>2, <1>3, <1>4, <1>5, <1>6, <1>7 DEF Table

LEMMA TableOpenable == ASSUME NEW d \in DOMAIN Table \ Careless PROVE Openable(Table[d])
<1> USE DEF Openable, Take, Ignored, Crash
<1>1. Openable(dtsplatform)
  BY DEF dtsplatform
<1>2. Openable(led_chr)
  BY DEF led_chr
<1>3. Openable(gpio)
  BY DEF gpio
<1>4. Openable(ap3216c)
  BY DEF ap3216c
<1>5. Openable(rd04)
  BY DEF rd04
<1> HIDE DEF Openable
<1> QED BY <1>1, <1>2, <1>3, <1>4, <1>5 DEF Table, Careless

-----------------------------------------------------------------------------
(* The inductive invariant.                                                    *)

Phases == {"absent", "out", "load", "unwind", "bound", "remove", "exit", "dead"}
Releasing == {"unwind", "remove", "exit"}

\* A driver's phase p and position i.
AtOK(d, p, i) ==
  /\ i \in Nat
  /\ p = "load" => i \in DOMAIN Table[d].acquire
  /\ p = "unwind" => i \in DOMAIN Table[d].unwind
  /\ p \in {"remove", "exit"} => i \in DOMAIN Table[d].remove
  /\ p \in {"absent", "out", "bound", "dead"} => i = 0

\* A driver holds what it has been through, and the pins that it is about to free.
HoldsOK(d, p, i, h) ==
  /\ p = "load" => \A k \in 1 .. i - 1 :
       Table[d].acquire[k].label # Ignored => Table[d].acquire[k].what \in h
  /\ p = "bound" => \A k \in DOMAIN Table[d].acquire :
       Table[d].acquire[k].label # Ignored => Table[d].acquire[k].what \in h
  /\ p = "unwind" => \A j \in DOMAIN Table[d].unwind :
       j >= i /\ Table[d].unwind[j] \in Pins => Table[d].unwind[j] \in h
  /\ p \in {"remove", "exit"} => \A j \in DOMAIN Table[d].remove :
       j >= i /\ Table[d].remove[j] \in Pins => Table[d].remove[j] \in h

Shape ==
  /\ phase \in [Drivers -> Phases]
  /\ at \in [Drivers -> Nat]
  /\ held \in [Drivers -> SUBSET Resources]

DriversOK ==
  \A d \in Drivers :
    /\ AtOK(d, phase[d], at[d])
    /\ held[d] \subseteq Takes(d)
    /\ HoldsOK(d, phase[d], at[d], held[d])

\* PinsAccounted, pin by pin.
PinsOK ==
  /\ requested \subseteq Pins
  /\ \A p \in Pins :
       /\ p \in requested <=> \E d \in Drivers : p \in held[d]
       /\ \A d, e \in Drivers : p \in held[d] /\ p \in held[e] => d = e

FilesOK ==
  /\ file \in [Tasks -> Drivers \cup {NoDriver}]
  /\ stale \subseteq {t \in Tasks : file[t] # NoDriver}
  /\ misused \subseteq Drivers

IInv == Shape /\ DriversOK /\ PinsOK /\ FilesOK

LEMMA IInvImplies == IInv => TypeOK /\ PinsAccounted /\ BoundIsOpenable
<1> SUFFICES ASSUME IInv PROVE TypeOK /\ PinsAccounted /\ BoundIsOpenable
  OBVIOUS
<1>1. TypeOK
  <2>1. \A d \in Drivers :
          /\ phase[d] = "load" => at[d] \in DOMAIN Table[d].acquire
          /\ phase[d] \in Releasing => at[d] \in DOMAIN Releases(d)
          /\ phase[d] \in {"absent", "out", "bound", "dead"} => at[d] = 0
    BY DEF IInv, DriversOK, AtOK, Releases, Releasing
  <2>2. \A d \in Drivers : held[d] \subseteq Takes(d)
    BY DEF IInv, DriversOK
  <2> QED BY <2>1, <2>2 DEF IInv, Shape, PinsOK, FilesOK, TypeOK, Phases, Releasing
<1>2. PinsAccounted
  <2>1. \A p : p \in requested <=> p \in UNION {held[d] \cap Pins : d \in Drivers}
    BY DEF IInv, PinsOK
  <2>2. \A d, e \in Drivers : d # e => held[d] \cap held[e] \cap Pins = {}
    BY DEF IInv, PinsOK
  <2> QED BY <2>1, <2>2 DEF PinsAccounted
<1>3. BoundIsOpenable
  <2> SUFFICES ASSUME NEW d \in Drivers \ Careless, phase[d] = "bound",
                      NEW way \in Table[d].open, NEW r \in way
               PROVE  r \in held[d]
    BY DEF BoundIsOpenable
  <2>1. PICK k \in DOMAIN Table[d].acquire :
          Table[d].acquire[k].what = r /\ Table[d].acquire[k].label # Ignored
    BY TableOpenable DEF Openable
  <2> QED BY <2>1 DEF IInv, DriversOK, HoldsOK
<1> QED BY <1>1, <1>2, <1>3

LEMMA InitIInv == Init => IInv
<1> SUFFICES ASSUME Init PROVE IInv
  OBVIOUS
<1>1. Shape
  <2>1. phase \in [Drivers -> Phases]
    BY DEF Init, Phases
  <2> QED BY <2>1 DEF Init, Shape
<1>2. \A d \in Drivers : phase[d] \in {"absent", "out"} /\ at[d] = 0 /\ held[d] = {}
  BY DEF Init
<1>3. DriversOK
  BY <1>2 DEF DriversOK, AtOK, HoldsOK
<1>4. PinsOK /\ FilesOK
  BY <1>2 DEF Init, PinsOK, FilesOK
<1> QED BY <1>1, <1>3, <1>4 DEF IInv

-----------------------------------------------------------------------------
(* The steps.                                                                  *)

\* A step of driver d preserves what is said of the drivers if it does for d.
LEMMA OneDriver ==
  ASSUME Shape, DriversOK, NEW d \in Drivers, NEW p \in Phases, NEW i, NEW h,
         AtOK(d, p, i), HoldsOK(d, p, i, h), h \subseteq Takes(d),
         Goto(d, p, i), held' = [held EXCEPT ![d] = h]
  PROVE  Shape' /\ DriversOK'
<1>1. i \in Nat /\ h \in SUBSET Resources
  BY DEF AtOK, Resources
<1>2. Shape'
  BY <1>1 DEF Shape, Goto
<1>3. phase'[d] = p /\ at'[d] = i /\ held'[d] = h
  BY DEF Shape, Goto
<1>4. \A e \in Drivers \ {d} : phase'[e] = phase[e] /\ at'[e] = at[e] /\ held'[e] = held[e]
  BY DEF Shape, Goto
<1>5. DriversOK'
  BY <1>3, <1>4 DEF DriversOK
<1> QED BY <1>2, <1>5

\* The step after position i, with what position i was to take, or with its failure
\* ignored.
LEMMA ContinueIInv ==
  ASSUME Shape, DriversOK, NEW d \in Drivers, phase[d] = "load", Continue(d, at[d]),
         NEW h, held[d] \subseteq h, h \subseteq Takes(d),
         held' = [held EXCEPT ![d] = h],
         Table[d].acquire[at[d]].label # Ignored => Table[d].acquire[at[d]].what \in h
  PROVE  Shape' /\ DriversOK'
<1>1. Positions(Table[d].acquire)
  BY TableSound DEF Sound
<1>2. AtOK(d, phase[d], at[d]) /\ HoldsOK(d, phase[d], at[d], held[d])
  BY DEF DriversOK
<1>3. at[d] \in DOMAIN Table[d].acquire /\ at[d] \in Nat
  BY <1>2 DEF AtOK
<1>4. \A k \in 1 .. at[d] :
        Table[d].acquire[k].label # Ignored => Table[d].acquire[k].what \in h
  BY <1>2, <1>3 DEF HoldsOK
<1>5. CASE at[d] = Len(Table[d].acquire)
  <2>1. Goto(d, "bound", 0)
    BY <1>5 DEF Continue
  <2>2. AtOK(d, "bound", 0)
    BY DEF AtOK
  <2>3. DOMAIN Table[d].acquire = 1 .. at[d]
    BY <1>1, <1>5 DEF Positions
  <2>4. HoldsOK(d, "bound", 0, h)
    BY <1>4, <2>3 DEF HoldsOK
  <2> QED BY <2>1, <2>2, <2>4, OneDriver DEF Phases
<1>6. CASE at[d] # Len(Table[d].acquire)
  <2>1. Goto(d, "load", at[d] + 1)
    BY <1>6 DEF Continue
  <2>2. at[d] + 1 \in DOMAIN Table[d].acquire
    <3> DEFINE n == Len(Table[d].acquire)
    <3>1. n \in Nat /\ DOMAIN Table[d].acquire = 1 .. n /\ at[d] # n
      BY <1>1, <1>6 DEF Positions
    <3> HIDE DEF n
    <3> QED BY <1>3, <3>1
  <2>3. AtOK(d, "load", at[d] + 1)
    BY <1>3, <2>2 DEF AtOK
  <2>4. HoldsOK(d, "load", at[d] + 1, h)
    BY <1>3, <1>4 DEF HoldsOK
  <2> QED BY <2>1, <2>3, <2>4, OneDriver DEF Phases
<1> QED BY <1>5, <1>6

LEMMA AcquireIInv == ASSUME IInv, NEW d \in Drivers, Acquire(d) PROVE IInv'
<1> DEFINE what == Table[d].acquire[at[d]].what
<1>1. /\ phase[d] = "load" /\ what \notin requested /\ Continue(d, at[d])
      /\ held' = [held EXCEPT ![d] = held[d] \cup {what}]
      /\ requested' = requested \cup ({what} \cap Pins)
      /\ UNCHANGED <<file, stale, misused>>
  BY DEF Acquire
<1>2. what \in Takes(d)
  BY <1>1 DEF IInv, DriversOK, AtOK, Takes
<1>3. held[d] \cup {what} \subseteq Takes(d)
  BY <1>2 DEF IInv, DriversOK
<1>4. Shape' /\ DriversOK'
  BY <1>1, <1>3, ContinueIInv DEF IInv
<1>5. PinsOK'
  <2>1. /\ held'[d] = held[d] \cup {what}
        /\ \A e \in Drivers \ {d} : held'[e] = held[e]
    BY <1>1 DEF IInv, Shape
  <2> HIDE DEF what
  <2> QED BY <1>1, <2>1 DEF IInv, PinsOK
<1>6. FilesOK'
  BY <1>1 DEF IInv, FilesOK
<1> QED BY <1>4, <1>5, <1>6 DEF IInv

LEMMA FailIInv == ASSUME IInv, NEW d \in Drivers, Fail(d) PROVE IInv'
<1> DEFINE step == Table[d].acquire[at[d]]
<1>1. /\ phase[d] = "load"
      /\ UNCHANGED <<held, requested, file, stale, misused>>
      /\ \/ step.label = Ignored /\ Continue(d, at[d])
         \/ step.label = Crash /\ Goto(d, "dead", 0)
         \/ step.label \in DOMAIN Table[d].unwind /\ Goto(d, "unwind", step.label)
         \/ step.label > Len(Table[d].unwind) /\ Goto(d, "out", 0)
  BY DEF Fail
<1>2. PinsOK' /\ FilesOK'
  BY <1>1 DEF IInv, PinsOK, FilesOK
<1>3. held' = [held EXCEPT ![d] = held[d]] /\ held[d] \subseteq Takes(d)
  BY <1>1 DEF IInv, Shape, DriversOK
<1>4. CASE step.label = Ignored /\ Continue(d, at[d])
  <2>1. Shape' /\ DriversOK'
    BY <1>1, <1>3, <1>4, ContinueIInv DEF IInv
  <2> QED BY <1>2, <2>1 DEF IInv
<1>5. CASE Goto(d, "dead", 0) \/ Goto(d, "out", 0)
  <2>1. \A p \in {"dead", "out"} : AtOK(d, p, 0) /\ HoldsOK(d, p, 0, held[d])
    BY DEF AtOK, HoldsOK
  <2>2. Shape' /\ DriversOK'
    BY <1>3, <1>5, <2>1, OneDriver DEF IInv, Phases
  <2> QED BY <1>2, <2>2 DEF IInv
<1>6. CASE step.label \in DOMAIN Table[d].unwind /\ Goto(d, "unwind", step.label)
  <2>1. Sound(Table[d])
    BY TableSound
  <2>2. step.label \in Nat
    BY <1>6, <2>1 DEF Sound, Positions
  <2>3. AtOK(d, "unwind", step.label)
    BY <1>6, <2>2 DEF AtOK
  <2>4. at[d] \in DOMAIN Table[d].acquire /\ at[d] \in Nat
    BY <1>1 DEF IInv, DriversOK, AtOK
  <2>5. \A k \in 1 .. at[d] - 1 :
          Table[d].acquire[k].label # Ignored => Table[d].acquire[k].what \in held[d]
    BY <1>1 DEF IInv, DriversOK, HoldsOK
  <2>6. ASSUME NEW j \in DOMAIN Table[d].unwind, j >= step.label, Table[d].unwind[j] \in Pins
        PROVE  Table[d].unwind[j] \in held[d]
    <3>1. step.label \in 1 .. j
      BY <1>6, <2>1, <2>2, <2>6 DEF Sound, Positions
    <3>2. PICK k \in 1 .. at[d] - 1 : Table[d].acquire[k].what = Table[d].unwind[j]
      BY <2>1, <2>4, <2>6, <3>1 DEF Sound
    <3>3. k \in DOMAIN Table[d].acquire
      BY <2>1, <2>4, <3>2 DEF Sound, Positions
    <3>4. Table[d].acquire[k].label # Ignored
      BY <2>1, <2>6, <3>2, <3>3 DEF Sound
    <3> QED BY <2>5, <3>2, <3>4
  <2>7. HoldsOK(d, "unwind", step.label, held[d])
    BY <2>6 DEF HoldsOK
  <2>8. Shape' /\ DriversOK'
    BY <1>3, <1>6, <2>3, <2>7, OneDriver DEF IInv, Phases
  <2> QED BY <1>2, <2>8 DEF IInv
<1> QED BY <1>1, <1>4, <1>5, <1>6

\* The start of exit or remove.
LEMMA RemoveIInv ==
  ASSUME IInv, NEW d \in Drivers, Exit(d) \/ Unbind(d)
  PROVE  IInv'
<1>1. PICK p \in {"remove", "exit"} : Goto(d, p, 1)
  BY DEF Exit, Unbind
<1>2. /\ phase[d] = "bound"
      /\ UNCHANGED <<held, requested, file, stale, misused>>
  BY DEF Exit, Unbind
<1>3. PinsOK' /\ FilesOK'
  BY <1>2 DEF IInv, PinsOK, FilesOK
<1>4. held' = [held EXCEPT ![d] = held[d]] /\ held[d] \subseteq Takes(d)
  BY <1>2 DEF IInv, Shape, DriversOK
<1>5. Sound(Table[d])
  BY TableSound
<1>6. AtOK(d, p, 1)
  <2> DEFINE n == Len(Table[d].remove)
  <2>1. DOMAIN Table[d].remove = 1 .. n /\ n \in Nat \ {0}
    BY <1>5 DEF Sound, Positions
  <2> HIDE DEF n
  <2> QED BY <2>1 DEF AtOK
<1>7. HoldsOK(d, p, 1, held[d])
  <2>1. \A k \in DOMAIN Table[d].acquire :
          Table[d].acquire[k].label # Ignored => Table[d].acquire[k].what \in held[d]
    BY <1>2 DEF IInv, DriversOK, HoldsOK
  <2>2. \A j \in DOMAIN Table[d].remove :
          Table[d].remove[j] \in Pins => Table[d].remove[j] \in held[d]
    BY <1>5, <2>1 DEF Sound
  <2> QED BY <2>2 DEF HoldsOK
<1>8. Shape' /\ DriversOK'
  BY <1>1, <1>4, <1>6, <1>7, OneDriver DEF IInv, Phases
<1> QED BY <1>3, <1>8 DEF IInv

LEMMA BeginIInv == ASSUME IInv, NEW d \in Drivers, Begin(d) PROVE IInv'
<1>1. /\ Goto(d, "load", 1)
      /\ UNCHANGED <<held, requested, file, stale, misused>>
  BY DEF Begin
<1>2. PinsOK' /\ FilesOK'
  BY <1>1 DEF IInv, PinsOK, FilesOK
<1>3. held' = [held EXCEPT ![d] = held[d]] /\ held[d] \subseteq Takes(d)
  BY <1>1 DEF IInv, Shape, DriversOK
<1>4. AtOK(d, "load", 1)
  <2> DEFINE n == Len(Table[d].acquire)
  <2>1. DOMAIN Table[d].acquire = 1 .. n /\ n \in Nat \ {0}
    BY TableSound DEF Sound, Positions
  <2> HIDE DEF n
  <2> QED BY <2>1 DEF AtOK
<1>5. HoldsOK(d, "load", 1, held[d])
  BY DEF HoldsOK
<1>6. Shape' /\ DriversOK'
  BY <1>1, <1>3, <1>4, <1>5, OneDriver DEF IInv, Phases
<1> QED BY <1>2, <1>6 DEF IInv

\* One release of the labels, of exit or of remove.
LEMMA ReleaseIInv == ASSUME IInv, NEW d \in Drivers, Release(d) PROVE IInv'
<1> DEFINE what == Releases(d)[at[d]]
           h == held[d] \ IF what = "mem" THEN {"mem", "client"} ELSE {what}
<1>1. /\ phase[d] \in Releasing
      /\ held' = [held EXCEPT ![d] = h]
      /\ requested' = requested \ {what}
      /\ UNCHANGED <<file, misused>>
  BY DEF Release, Releasing
<1>2. h \subseteq Takes(d)
  BY DEF IInv, DriversOK
<1>3. Sound(Table[d])
  BY TableSound
<1>4. /\ Positions(Releases(d))
      /\ \A i, j \in DOMAIN Releases(d) :
           Releases(d)[i] \in Pins /\ Releases(d)[i] = Releases(d)[j] => i = j
  BY <1>3 DEF Sound, Releases
<1>5. at[d] \in DOMAIN Releases(d) /\ at[d] \in Nat
  BY <1>1 DEF IInv, DriversOK, AtOK, Releases, Releasing
<1>6. \A j \in DOMAIN Releases(d) :
        j >= at[d] /\ Releases(d)[j] \in Pins => Releases(d)[j] \in held[d]
  BY <1>1 DEF IInv, DriversOK, HoldsOK, Releases, Releasing
<1>7. Shape' /\ DriversOK'
  <2>1. CASE at[d] = Len(Releases(d))
    <3>1. Goto(d, "out", 0)
      BY <2>1 DEF Release
    <3>2. AtOK(d, "out", 0) /\ HoldsOK(d, "out", 0, h)
      BY DEF AtOK, HoldsOK
    <3> QED BY <1>1, <1>2, <3>1, <3>2, OneDriver DEF IInv, Phases
  <2>2. CASE at[d] # Len(Releases(d))
    <3>1. Goto(d, phase[d], at[d] + 1)
      BY <2>2 DEF Release
    <3>2. at[d] + 1 \in DOMAIN Releases(d)
      <4> DEFINE n == Len(Releases(d))
      <4>1. n \in Nat /\ DOMAIN Releases(d) = 1 .. n /\ at[d] # n
        BY <1>4, <2>2 DEF Positions
      <4> HIDE DEF n
      <4> QED BY <1>5, <4>1
    <3>3. AtOK(d, phase[d], at[d] + 1)
      BY <1>1, <1>5, <3>2 DEF AtOK, Releases, Releasing
    <3>4. ASSUME NEW j \in DOMAIN Releases(d), j >= at[d] + 1, Releases(d)[j] \in Pins
          PROVE  Releases(d)[j] \in h
      <4>1. j \in Nat
        BY <1>4 DEF Positions
      <4>2. j >= at[d] /\ j # at[d]
        BY <1>5, <3>4, <4>1
      <4>3. Releases(d)[j] \in held[d]
        BY <1>6, <3>4, <4>2
      <4>4. Releases(d)[j] # what
        BY <1>4, <1>5, <3>4, <4>2
      <4>5. Releases(d)[j] \notin {"mem", "client"}
        BY <3>4 DEF Pins
      <4> QED BY <4>3, <4>4, <4>5
    <3>5. HoldsOK(d, phase[d], at[d] + 1, h)
      BY <1>1, <3>4 DEF HoldsOK, Releases, Releasing
    <3> QED BY <1>1, <1>2, <3>1, <3>3, <3>5, OneDriver DEF IInv, Phases, Releasing
  <2> QED BY <2>1, <2>2
<1>8. PinsOK'
  <2>1. /\ held'[d] = h
        /\ \A e \in Drivers \ {d} : held'[e] = held[e]
    BY <1>1 DEF IInv, Shape
  <2>2. what \in Pins => what \in held[d]
    BY <1>5, <1>6
  <2>3. \A p \in Pins : p \in h <=> p \in held[d] /\ p # what
    BY DEF Pins
  <2> HIDE DEF what, h
  <2> QED BY <1>1, <2>1, <2>2, <2>3 DEF IInv, PinsOK
<1>9. FilesOK'
  <2>1. stale' \subseteq {t \in Tasks : file[t] # NoDriver}
    BY NoDriverAssumption DEF Release, IInv, FilesOK
  <2> QED BY <1>1, <2>1 DEF IInv, FilesOK
<1> QED BY <1>7, <1>8, <1>9 DEF IInv

LEMMA TaskIInv == ASSUME IInv, NEW t \in Tasks, Task(t) PROVE IInv'
<1>1. Shape' /\ DriversOK' /\ PinsOK'
  <2>1. UNCHANGED <<phase, at, held, requested>>
    BY DEF Task, Open, Use, Close
  <2> QED BY <2>1 DEF IInv, Shape, DriversOK, PinsOK
<1>2. CASE \E d \in Drivers : Open(t, d)
  <2>1. FilesOK'
    BY <1>2, NoDriverAssumption DEF Open, IInv, FilesOK
  <2> QED BY <1>1, <2>1 DEF IInv
<1>3. CASE Use(t)
  <2>1. misused' \subseteq Drivers
    BY <1>3 DEF Use, IInv, FilesOK
  <2>2. /\ file' \in [Tasks -> Drivers \cup {NoDriver}]
        /\ stale' \subseteq {u \in Tasks : file'[u] # NoDriver}
    BY <1>3 DEF Use, IInv, FilesOK
  <2>3. FilesOK'
    BY <2>1, <2>2 DEF FilesOK
  <2> QED BY <1>1, <2>3 DEF IInv
<1>4. CASE Close(t)
  <2>1. FilesOK'
    BY <1>4 DEF Close, IInv, FilesOK
  <2> QED BY <1>1, <2>1 DEF IInv
<1> QED BY <1>2, <1>3, <1>4 DEF Task

LEMMA NextIInv == IInv /\ [Next]_vars => IInv'
<1> SUFFICES ASSUME IInv, [Next]_vars PROVE IInv'
  OBVIOUS
<1>1. CASE UNCHANGED vars
  BY <1>1 DEF vars, IInv, Shape, DriversOK, PinsOK, FilesOK
<1>2. ASSUME NEW d \in Drivers, Manage(d) PROVE IInv'
  BY <1>2, BeginIInv, AcquireIInv, FailIInv, ReleaseIInv, RemoveIInv DEF Manage
<1>3. ASSUME NEW t \in Tasks, Task(t) PROVE IInv'
  BY <1>3, TaskIInv
<1> QED BY <1>1, <1>2, <1>3 DEF Next

-----------------------------------------------------------------------------
(* The theorems.                                                               *)

\* Every reachable state of the drivers and their users is well typed, whichever
\* drivers are installed and whatever fails.
THEOREM TypeCorrect == Spec => []TypeOK
  BY InitIInv, NextIInv, IInvImplies, PTL DEF Spec

\* No failure path of a driver frees the pin of another, whichever drivers compete.
THEOREM PinsAreAccounted == Spec => []PinsAccounted
  BY InitIInv, NextIInv, IInvImplies, PTL DEF Spec

\* A bound driver can be opened, whatever failed before, but for the two that drop
\* the result of cdev_add.
THEOREM BoundCanBeOpened == Spec => []BoundIsOpenable
  BY InitIInv, NextIInv, IInvImplies, PTL DEF Spec

-----------------------------------------------------------------------------
(* Nothing is left behind.                                                     *)

\* What a list frees from position i on: `client` goes with the memory it is in.
Frees(list, i) ==
  LET rest == {list[j] : j \in i .. Len(list)} IN
    rest \cup IF "mem" \in rest THEN {"client"} ELSE {}

Before(e, i) == {e.acquire[k].what : k \in 1 .. i - 1}

\* Every label frees what was taken before a step that jumps to it, a plain return
\* follows nothing, and exit or remove frees everything; all but what is `left`.
Undone(e, left) ==
  /\ \A i \in DOMAIN e.acquire :
       /\ e.acquire[i].label \in DOMAIN e.unwind =>
            Before(e, i) \subseteq Frees(e.unwind, e.acquire[i].label) \cup left
       /\ e.acquire[i].label > Len(e.unwind) => Before(e, i) \subseteq left
  /\ {e.acquire[k].what : k \in DOMAIN e.acquire} \subseteq Frees(e.remove, 1)

LEMMA TableUndone == ASSUME NEW d \in DOMAIN Table PROVE Undone(Table[d], LeftBehind(d))
<1> USE DEF Undone, Before, Frees, Take, Ignored, Crash, LeftBehind, FirstRound
<1>1. Undone(gpioled, {})
  BY DEF gpioled
<1>2. Undone(dtsplatform, {})
  BY DEF dtsplatform
<1>3. Undone(led_chr, {})
  BY DEF led_chr
<1>4. Undone(timer, {})
  BY DEF timer
<1>5. Undone(gpio, FirstRound)
  BY DEF gpio
<1>6. Undone(ap3216c, {})
  BY DEF ap3216c
<1>7. Undone(rd04, {})
  BY DEF rd04
<1> HIDE DEF Undone, FirstRound
<1> QED BY <1>1, <1>2, <1>3, <1>4, <1>5, <1>6, <1>7 DEF Table

\* What a driver with phase p and position i may hold, besides what it left behind
\* earlier.
HoldsAtMost(d, p, i) ==
  IF p = "load" THEN Before(Table[d], i)
  ELSE IF p = "unwind" THEN Frees(Table[d].unwind, i)
  ELSE IF p \in {"remove", "exit"} THEN Frees(Table[d].remove, i)
  ELSE IF p \in {"absent", "out"} THEN {} ELSE Takes(d)

LeakInv ==
  \A d \in Drivers : held[d] \subseteq HoldsAtMost(d, phase[d], at[d]) \cup LeftBehind(d)

LEMMA InitLeak == Init => LeakInv
  BY DEF Init, LeakInv

\* A step of driver d keeps LeakInv if it does for d.
LEMMA OneLeak ==
  ASSUME Shape, LeakInv, NEW d \in Drivers, NEW p, NEW i, NEW h,
         h \subseteq HoldsAtMost(d, p, i) \cup LeftBehind(d),
         Goto(d, p, i), held' = [held EXCEPT ![d] = h]
  PROVE  LeakInv'
<1>1. phase'[d] = p /\ at'[d] = i /\ held'[d] = h
  BY DEF Shape, Goto
<1>2. \A e \in Drivers \ {d} : phase'[e] = phase[e] /\ at'[e] = at[e] /\ held'[e] = held[e]
  BY DEF Shape, Goto
<1> QED BY <1>1, <1>2 DEF LeakInv, HoldsAtMost

LEMMA ContinueLeak ==
  ASSUME IInv, LeakInv, NEW d \in Drivers, phase[d] = "load", Continue(d, at[d]),
         NEW h, h \subseteq held[d] \cup {Table[d].acquire[at[d]].what},
         held' = [held EXCEPT ![d] = h]
  PROVE  LeakInv'
<1>1. at[d] \in DOMAIN Table[d].acquire /\ at[d] \in Nat
  BY DEF IInv, DriversOK, AtOK
<1>2. held[d] \subseteq Before(Table[d], at[d]) \cup LeftBehind(d)
  BY DEF LeakInv, HoldsAtMost
<1>3. CASE at[d] = Len(Table[d].acquire)
  <2>1. h \subseteq Takes(d)
    BY <1>1 DEF IInv, DriversOK, Takes
  <2>2. Goto(d, "bound", 0)
    BY <1>3 DEF Continue
  <2>3. h \subseteq HoldsAtMost(d, "bound", 0)
    BY <2>1 DEF HoldsAtMost
  <2> QED BY <2>2, <2>3, OneLeak DEF IInv
<1>4. CASE at[d] # Len(Table[d].acquire)
  <2>1. Goto(d, "load", at[d] + 1)
    BY <1>4 DEF Continue
  <2>2. Before(Table[d], at[d]) \cup {Table[d].acquire[at[d]].what}
          \subseteq Before(Table[d], at[d] + 1)
    <3>1. at[d] >= 1
      BY <1>1, TableSound DEF Sound, Positions
    <3> QED BY <1>1, <3>1 DEF Before
  <2>3. HoldsAtMost(d, "load", at[d] + 1) = Before(Table[d], at[d] + 1)
    BY DEF HoldsAtMost
  <2>4. h \subseteq HoldsAtMost(d, "load", at[d] + 1) \cup LeftBehind(d)
    BY <1>2, <2>2, <2>3
  <2> QED BY <2>1, <2>4, OneLeak DEF IInv
<1> QED BY <1>3, <1>4

LEMMA FailLeak ==
  ASSUME IInv, LeakInv, NEW d \in Drivers, Fail(d)
  PROVE  LeakInv'
<1> DEFINE step == Table[d].acquire[at[d]]
<1>1. phase[d] = "load" /\ held' = [held EXCEPT ![d] = held[d]]
  BY DEF Fail, IInv, Shape
<1>2. held[d] \subseteq Before(Table[d], at[d]) \cup LeftBehind(d)
  BY <1>1 DEF LeakInv, HoldsAtMost
<1>3. at[d] \in DOMAIN Table[d].acquire
  BY <1>1 DEF IInv, DriversOK, AtOK
<1>4. /\ step.label \in DOMAIN Table[d].unwind =>
           Before(Table[d], at[d]) \subseteq Frees(Table[d].unwind, step.label) \cup LeftBehind(d)
      /\ step.label > Len(Table[d].unwind) => Before(Table[d], at[d]) \subseteq LeftBehind(d)
  BY <1>3, TableUndone DEF Undone
<1>5. CASE Continue(d, at[d])
  BY <1>1, <1>5, ContinueLeak
<1>6. CASE Goto(d, "dead", 0)
  <2>1. held[d] \subseteq HoldsAtMost(d, "dead", 0)
    BY DEF HoldsAtMost, IInv, DriversOK
  <2> QED BY <1>1, <1>6, <2>1, OneLeak DEF IInv
<1>7. CASE step.label \in DOMAIN Table[d].unwind /\ Goto(d, "unwind", step.label)
  <2>1. HoldsAtMost(d, "unwind", step.label) = Frees(Table[d].unwind, step.label)
    BY DEF HoldsAtMost
  <2>2. held[d] \subseteq HoldsAtMost(d, "unwind", step.label) \cup LeftBehind(d)
    BY <1>2, <1>4, <1>7, <2>1
  <2> QED BY <1>1, <1>7, <2>2, OneLeak DEF IInv
<1>8. CASE step.label > Len(Table[d].unwind) /\ Goto(d, "out", 0)
  <2>1. held[d] \subseteq LeftBehind(d)
    BY <1>2, <1>4, <1>8
  <2> QED BY <1>1, <1>8, <2>1, OneLeak DEF IInv
<1> QED BY <1>5, <1>6, <1>7, <1>8 DEF Fail

\* A list frees from position i on what it frees at i and what it frees after it.
LEMMA FreesNext ==
  ASSUME NEW list, Positions(list), NEW i \in DOMAIN list, NEW left, NEW h,
         h \subseteq Frees(list, i) \cup left
  PROVE  h \ (IF list[i] = "mem" THEN {"mem", "client"} ELSE {list[i]})
           \subseteq (IF i = Len(list) THEN {} ELSE Frees(list, i + 1)) \cup left
<1> DEFINE n == Len(list)
           rest(k) == {list[j] : j \in k .. n}
<1>1. n \in Nat /\ i \in 1 .. n
  BY DEF Positions
<1>2. rest(i) \subseteq {list[i]} \cup rest(i + 1)
  <2> SUFFICES ASSUME NEW j \in i .. n PROVE list[j] \in {list[i]} \cup rest(i + 1)
    OBVIOUS
  <2>1. j = i \/ j \in i + 1 .. n
    BY <1>1
  <2> QED BY <2>1
<1>3. i = n => rest(i + 1) = {}
  BY <1>1
<1>4. /\ Frees(list, i) = rest(i) \cup IF "mem" \in rest(i) THEN {"client"} ELSE {}
      /\ Frees(list, i + 1)
           = rest(i + 1) \cup IF "mem" \in rest(i + 1) THEN {"client"} ELSE {}
  BY DEF Frees
<1> HIDE DEF rest, n
<1>5. CASE i = n
  <2>1. h \ (IF list[i] = "mem" THEN {"mem", "client"} ELSE {list[i]}) \subseteq left
    BY <1>2, <1>3, <1>4, <1>5
  <2> QED BY <1>5, <2>1 DEF n
<1>6. CASE i # n
  <2>1. h \ (IF list[i] = "mem" THEN {"mem", "client"} ELSE {list[i]})
          \subseteq Frees(list, i + 1) \cup left
    BY <1>2, <1>4
  <2> QED BY <1>6, <2>1 DEF n
<1> QED BY <1>5, <1>6

LEMMA ReleaseLeak ==
  ASSUME IInv, LeakInv, NEW d \in Drivers, Release(d)
  PROVE  LeakInv'
<1> DEFINE what == Releases(d)[at[d]]
           h == held[d] \ (IF what = "mem" THEN {"mem", "client"} ELSE {what})
<1>1. phase[d] \in Releasing /\ held' = [held EXCEPT ![d] = h]
  BY DEF Release, Releasing
<1>2. Positions(Releases(d))
  BY TableSound DEF Sound, Releases
<1>3. at[d] \in DOMAIN Releases(d)
  BY <1>1 DEF IInv, DriversOK, AtOK, Releases, Releasing
<1>4. \A i : HoldsAtMost(d, phase[d], i) = Frees(Releases(d), i)
  BY <1>1 DEF HoldsAtMost, Releases, Releasing
<1>5. held[d] \subseteq Frees(Releases(d), at[d]) \cup LeftBehind(d)
  BY <1>4 DEF LeakInv
<1>6. h \subseteq (IF at[d] = Len(Releases(d)) THEN {} ELSE Frees(Releases(d), at[d] + 1))
                 \cup LeftBehind(d)
  BY <1>2, <1>3, <1>5, FreesNext
<1> HIDE DEF h
<1>7. CASE at[d] = Len(Releases(d))
  <2>1. Goto(d, "out", 0)
    BY <1>7 DEF Release
  <2>2. h \subseteq LeftBehind(d)
    BY <1>6, <1>7
  <2> QED BY <1>1, <2>1, <2>2, OneLeak DEF IInv
<1>8. CASE at[d] # Len(Releases(d))
  <2>1. Goto(d, phase[d], at[d] + 1)
    BY <1>8 DEF Release
  <2>2. h \subseteq HoldsAtMost(d, phase[d], at[d] + 1) \cup LeftBehind(d)
    BY <1>4, <1>6, <1>8
  <2> QED BY <1>1, <2>1, <2>2, OneLeak DEF IInv
<1> QED BY <1>7, <1>8

LEMMA NextLeak == ASSUME IInv, LeakInv, [Next]_vars PROVE LeakInv'
<1>1. CASE UNCHANGED vars
  BY <1>1 DEF vars, LeakInv, HoldsAtMost
<1>2. ASSUME NEW t \in Tasks, Task(t) PROVE LeakInv'
  <2>1. UNCHANGED <<phase, at, held>>
    BY <1>2 DEF Task, Open, Use, Close
  <2> QED BY <2>1 DEF LeakInv, HoldsAtMost
<1>3. ASSUME NEW d \in Drivers, Begin(d) PROVE LeakInv'
  <2>1. Goto(d, "load", 1) /\ held' = [held EXCEPT ![d] = held[d]] /\ phase[d] = "out"
    BY <1>3 DEF Begin, IInv, Shape
  <2>2. held[d] \subseteq LeftBehind(d)
    BY <2>1 DEF LeakInv, HoldsAtMost
  <2> QED BY <2>1, <2>2, OneLeak DEF IInv
<1>4. ASSUME NEW d \in Drivers, Acquire(d) PROVE LeakInv'
  BY <1>4, ContinueLeak DEF Acquire
<1>5. ASSUME NEW d \in Drivers, Exit(d) \/ Unbind(d) PROVE LeakInv'
  <2>1. PICK p \in {"remove", "exit"} : Goto(d, p, 1)
    BY <1>5 DEF Exit, Unbind
  <2>2. held' = [held EXCEPT ![d] = held[d]]
    BY <1>5 DEF Exit, Unbind, IInv, Shape
  <2>3. held[d] \subseteq Frees(Table[d].remove, 1)
    BY TableUndone DEF IInv, DriversOK, Takes, Undone
  <2>4. held[d] \subseteq HoldsAtMost(d, p, 1)
    BY <2>3 DEF HoldsAtMost
  <2> QED BY <2>1, <2>2, <2>4, OneLeak DEF IInv
<1>6. ASSUME NEW d \in Drivers, Fail(d) PROVE LeakInv'
  BY <1>6, FailLeak
<1>7. ASSUME NEW d \in Drivers, Release(d) PROVE LeakInv'
  BY <1>7, ReleaseLeak
<1> QED BY <1>1, <1>2, <1>3, <1>4, <1>5, <1>6, <1>7 DEF Next, Manage

LEMMA SpecLeakInv == Spec => [](IInv /\ LeakInv)
  BY InitIInv, NextIInv, InitLeak, NextLeak, PTL DEF Spec

\* Whichever step of init or probe fails, whichever drivers compete for a pin and in
\* which order they come and go, a driver that is not bound has nothing left but what
\* the second rounds of gpio.c's loops forget (gpio.c:213, 238, 255).
THEOREM NothingLeaks == Spec => []NoLeak
<1>1. LeakInv => NoLeak
  BY DEF LeakInv, NoLeak, HoldsAtMost
<1> QED BY <1>1, SpecLeakInv, PTL

\* The first step of an init or a probe that takes a pin gives up when it is refused.
Refuses(e) == e.acquire[1].what \in Pins => e.acquire[1].label > Len(e.unwind)

LEMMA TableRefuses == ASSUME NEW d \in DOMAIN Table PROVE Refuses(Table[d])
<1> USE DEF Refuses, Take, Pins, Ignored, Crash
<1>1. Refuses(gpioled)
  BY DEF gpioled
<1>2. Refuses(dtsplatform)
  BY DEF dtsplatform
<1>3. Refuses(led_chr)
  BY DEF led_chr
<1>4. Refuses(timer)
  BY DEF timer
<1>5. Refuses(gpio)
  BY DEF gpio
<1>6. Refuses(ap3216c)
  BY DEF ap3216c
<1>7. Refuses(rd04)
  BY DEF rd04
<1> HIDE DEF Refuses
<1> QED BY <1>1, <1>2, <1>3, <1>4, <1>5, <1>6, <1>7 DEF Table

\* A driver that left a pin behind is refused it, and goes no further.
LEMMA StuckStays ==
  ASSUME IInv, [Next]_vars, NEW d \in Drivers, Stuck(d)
  PROVE  Stuck(d)'
<1> DEFINE pin == Table[d].acquire[1].what
<1>1. /\ phase[d] \in {"out", "load"} /\ at[d] <= 1 /\ pin \in held[d] /\ pin \in Pins
      /\ pin \in requested
  BY DEF Stuck, IInv, PinsOK
<1>2. phase[d] = "load" => at[d] = 1
  <2> SUFFICES ASSUME phase[d] = "load" PROVE at[d] = 1
    OBVIOUS
  <2>1. at[d] \in DOMAIN Table[d].acquire /\ at[d] \in Nat
    BY DEF IInv, DriversOK, AtOK
  <2>2. at[d] >= 1
    BY <2>1, TableSound DEF Sound, Positions
  <2> QED BY <1>1, <2>1, <2>2
<1>3. ASSUME UNCHANGED <<phase, at, held>> PROVE Stuck(d)'
  BY <1>3 DEF Stuck
<1>4. ASSUME NEW t \in Tasks, Task(t) PROVE Stuck(d)'
  BY <1>3, <1>4 DEF Task, Open, Use, Close
<1>5. ASSUME NEW e \in Drivers \ {d}, Manage(e) PROVE Stuck(d)'
  <2>1. /\ \E p, i : Goto(e, p, i)
        /\ \E h : held' = [held EXCEPT ![e] = h]
    <3>1. UNCHANGED held => held' = [held EXCEPT ![e] = held[e]]
      BY DEF IInv, Shape
    <3> QED BY <1>5, <3>1 DEF Manage, Begin, Acquire, Fail, Release, Exit, Unbind, Continue
  <2>2. phase'[d] = phase[d] /\ at'[d] = at[d] /\ held'[d] = held[d]
    BY <1>5, <2>1 DEF Goto, IInv, Shape
  <2> QED BY <2>2 DEF Stuck
<1>6. ASSUME Manage(d) PROVE Stuck(d)'
  <2>1. ASSUME NEW p \in {"out", "load"}, NEW i \in {0, 1}, Goto(d, p, i), UNCHANGED held
        PROVE  Stuck(d)'
    <3>1. phase'[d] = p /\ at'[d] = i /\ held'[d] = held[d]
      BY <2>1 DEF Goto, IInv, Shape
    <3> QED BY <1>1, <3>1 DEF Stuck
  <2>2. CASE Begin(d)
    BY <2>1, <2>2 DEF Begin
  <2>3. CASE Fail(d)
    <3>1. phase[d] = "load" /\ at[d] = 1
      BY <1>2, <2>3 DEF Fail
    <3>2. Table[d].acquire[1].label > Len(Table[d].unwind)
      BY <1>1, TableRefuses, DriversAssumption DEF Refuses
    <3>3. /\ Len(Table[d].unwind) \in Nat
          /\ DOMAIN Table[d].unwind = 1 .. Len(Table[d].unwind)
          /\ Table[d].acquire[1].label \in Int
      <4>1. 1 \in DOMAIN Table[d].acquire
        BY <3>1 DEF IInv, DriversOK, AtOK
      <4> QED BY <4>1, TableSound DEF Sound, Positions
    <3> DEFINE label == Table[d].acquire[1].label
               n == Len(Table[d].unwind)
    <3>4. label \notin {Ignored, Crash} /\ label \notin DOMAIN Table[d].unwind
      <4>1. n \in Nat /\ label \in Int /\ label > n /\ DOMAIN Table[d].unwind = 1 .. n
        BY <3>2, <3>3
      <4> HIDE DEF n, label
      <4> QED BY <4>1 DEF Ignored, Crash
    <3>5. Goto(d, "out", 0) /\ UNCHANGED held
      BY <2>3, <3>1, <3>4 DEF Fail
    <3> QED BY <2>1, <3>5
  <2>4. ~Acquire(d)
    BY <1>1, <1>2 DEF Acquire
  <2>5. ~Release(d) /\ ~Exit(d) /\ ~Unbind(d)
    BY <1>1 DEF Release, Exit, Unbind
  <2> QED BY <1>6, <2>2, <2>3, <2>4, <2>5 DEF Manage
<1>7. CASE UNCHANGED vars
  BY <1>3, <1>7 DEF vars
<1> QED BY <1>4, <1>5, <1>6, <1>7 DEF Next

\* A pin that gpio.c forgets (gpio.c:213) is lost for good: no later probe gets past
\* it, whatever else is loaded, unloaded or fails.
THEOREM LeakedPinIsFinal == Spec => LostPinIsFinal
<1>1. IInv /\ [Next]_vars => [\A d \in Drivers : Stuck(d) => Stuck(d)']_vars
  BY StuckStays
<1>2. Spec => []IInv
  BY InitIInv, NextIInv, PTL DEF Spec
<1> QED BY <1>1, <1>2, PTL DEF Spec, LostPinIsFinal

-----------------------------------------------------------------------------
(* Nobody finds a resource gone.                                               *)

Insists(e, i, r) == e.acquire[i].what = r /\ e.acquire[i].label # Ignored

\* With the resources h, a device of the driver can be opened.
Opens(e, h) == \E way \in e.open : way \subseteq h

\* Once a device can be opened, init or probe does not turn back.
NoWayBack(e) ==
  /\ \A way \in e.open : way # {}
  /\ \A i \in DOMAIN e.acquire :
       Opens(e, Before(e, i)) => e.acquire[i].label = Ignored

\* The drivers that this is true of, and that stay bound while they are used.
Steady == (Drivers \ Unbinds) \ {"gpio"}

LEMMA TableNoWayBack == ASSUME NEW d \in DOMAIN Table \ {"gpio"} PROVE NoWayBack(Table[d])
<1> USE DEF NoWayBack, Opens, Before, Take, Ignored, Crash
<1>1. NoWayBack(gpioled)
  BY DEF gpioled
<1>2. NoWayBack(dtsplatform)
  BY DEF dtsplatform
<1>3. NoWayBack(led_chr)
  BY DEF led_chr
<1>4. NoWayBack(timer)
  BY DEF timer
<1>5. NoWayBack(ap3216c)
  BY DEF ap3216c
<1>6. NoWayBack(rd04)
  BY DEF rd04
<1> HIDE DEF NoWayBack
<1> QED BY <1>1, <1>2, <1>3, <1>4, <1>5, <1>6 DEF Table

\* A driver that is not on the I2C bus has insisted by then on all that the file
\* operations need.
Usable(e) ==
  /\ \A i \in DOMAIN e.acquire :
       Opens(e, Before(e, i)) =>
         \A r \in e.needs : \E k \in 1 .. i - 1 : Insists(e, k, r)
  /\ \A r \in e.needs : \E k \in DOMAIN e.acquire : Insists(e, k, r)

LEMMA TableUsable == ASSUME NEW d \in DOMAIN Table \ (I2c \cup {"gpio"}) PROVE Usable(Table[d])
<1> USE DEF Usable, Opens, Before, Insists, Take, Ignored, Crash
<1>1. Usable(gpioled)
  BY DEF gpioled
<1>2. Usable(dtsplatform)
  BY DEF dtsplatform
<1>3. Usable(led_chr)
  BY DEF led_chr
<1>4. Usable(timer)
  BY DEF timer
<1> HIDE DEF Usable
<1> QED BY <1>1, <1>2, <1>3, <1>4 DEF Table, I2c

\* An I2C driver insists on its memory, and sets `client` last.
Serves(e) ==
  /\ e.needs = {"mem", "client"}
  /\ \E k \in DOMAIN e.acquire : Insists(e, k, "mem")
  /\ e.acquire[Len(e.acquire)].what = "client"

LEMMA TableServes == ASSUME NEW d \in I2c PROVE Serves(Table[d])
<1> USE DEF Serves, Insists, Take, Ignored
<1>1. Serves(ap3216c)
  BY DEF ap3216c
<1>2. Serves(rd04)
  BY DEF rd04
<1> HIDE DEF Serves
<1> QED BY <1>1, <1>2 DEF Table, I2c

\* A driver that can be opened has all that its users need, and a driver that has a
\* user is not on its way out.
UsersOK(d, p, i, h) ==
  /\ p # "remove"
  /\ p \in {"unwind", "dead"} => ~Opens(Table[d], h)
  /\ \A t \in Tasks : file[t] = d =>
       /\ t \notin stale
       /\ p \in {"load", "bound"}
       /\ Table[d].needs \subseteq h
       /\ p = "load" => Opens(Table[d], Before(Table[d], i))

UseInv == \A d \in Steady : UsersOK(d, phase[d], at[d], held[d])

LeakFree == IInv /\ LeakInv

LEMMA InitUse == Init => UseInv
<1> SUFFICES ASSUME Init PROVE UseInv
  OBVIOUS
<1>1. \A t \in Tasks : file[t] = NoDriver
  BY DEF Init
<1>2. \A d \in Drivers : phase[d] \in {"absent", "out"}
  BY DEF Init
<1> QED BY <1>1, <1>2, NoDriverAssumption DEF UseInv, UsersOK, Steady

\* A step of driver d that leaves the files alone keeps UseInv if it does for d.
LEMMA OneUse ==
  ASSUME Shape, UseInv, NEW d \in Drivers, NEW p, NEW i, NEW h,
         d \in Steady => UsersOK(d, p, i, h),
         Goto(d, p, i), held' = [held EXCEPT ![d] = h], UNCHANGED file,
         \/ stale' = stale
         \/ d \notin Steady /\ stale' \subseteq stale \cup {t \in Tasks : file[t] = d}
  PROVE  UseInv'
<1>1. phase'[d] = p /\ at'[d] = i /\ held'[d] = h
  BY DEF Shape, Goto
<1>2. \A e \in Drivers \ {d} : phase'[e] = phase[e] /\ at'[e] = at[e] /\ held'[e] = held[e]
  BY DEF Shape, Goto
<1>3. ASSUME NEW e \in Steady
      PROVE  UsersOK(e, phase[e], at[e], held[e])'
  <2>1. CASE e = d
    BY <1>1, <1>3, <2>1 DEF UsersOK
  <2>2. CASE e # d
    BY <1>2, <1>3, <2>2 DEF UsersOK, UseInv, Steady
  <2> QED BY <2>1, <2>2
<1> QED BY <1>3 DEF UseInv

LEMMA ContinueUse ==
  ASSUME LeakFree, UseInv, NEW d \in Drivers, phase[d] = "load", Continue(d, at[d]),
         NEW h, held[d] \subseteq h, held' = [held EXCEPT ![d] = h],
         UNCHANGED <<file, stale>>
  PROVE  UseInv'
<1>1. at[d] \in DOMAIN Table[d].acquire /\ at[d] \in Nat
  BY DEF LeakFree, IInv, DriversOK, AtOK
<1>2. ASSUME d \in Steady, NEW p \in {"load", "bound"}, NEW i,
             Before(Table[d], at[d]) \subseteq Before(Table[d], i)
      PROVE  UsersOK(d, p, i, h)
  BY <1>2 DEF UseInv, UsersOK, Opens
<1>3. CASE at[d] = Len(Table[d].acquire)
  <2>1. Goto(d, "bound", 0)
    BY <1>3 DEF Continue
  <2>2. d \in Steady => UsersOK(d, "bound", 0, h)
    BY DEF UseInv, UsersOK
  <2> QED BY <2>1, <2>2, OneUse DEF LeakFree, IInv
<1>4. CASE at[d] # Len(Table[d].acquire)
  <2>1. Goto(d, "load", at[d] + 1)
    BY <1>4 DEF Continue
  <2>2. Before(Table[d], at[d]) \subseteq Before(Table[d], at[d] + 1)
    BY <1>1 DEF Before
  <2>3. d \in Steady => UsersOK(d, "load", at[d] + 1, h)
    BY <1>2, <2>2
  <2> QED BY <2>1, <2>3, OneUse DEF LeakFree, IInv
<1> QED BY <1>3, <1>4

LEMMA FailUse ==
  ASSUME LeakFree, UseInv, NEW d \in Drivers, Fail(d)
  PROVE  UseInv'
<1> DEFINE step == Table[d].acquire[at[d]]
<1>1. /\ phase[d] = "load" /\ held' = [held EXCEPT ![d] = held[d]]
      /\ UNCHANGED <<file, stale>>
  BY DEF Fail, LeakFree, IInv, Shape
<1>2. at[d] \in DOMAIN Table[d].acquire
  BY <1>1 DEF LeakFree, IInv, DriversOK, AtOK
<1>3. CASE Continue(d, at[d])
  BY <1>1, <1>3, ContinueUse
<1>4. ASSUME NEW p \in {"dead", "unwind", "out"}, NEW i, Goto(d, p, i), step.label # Ignored
      PROVE  UseInv'
  <2>1. ASSUME d \in Steady PROVE UsersOK(d, p, i, held[d])
    <3>1. NoWayBack(Table[d]) /\ LeftBehind(d) = {}
      BY <2>1, TableNoWayBack, DriversAssumption DEF Steady, LeftBehind
    <3>2. ~Opens(Table[d], Before(Table[d], at[d]))
      BY <1>2, <1>4, <3>1 DEF NoWayBack
    <3>3. \A t \in Tasks : file[t] # d
      BY <1>1, <2>1, <3>2 DEF UseInv, UsersOK
    <3>4. held[d] \subseteq Before(Table[d], at[d]) \cup LeftBehind(d)
      BY <1>1 DEF LeakFree, LeakInv, HoldsAtMost
    <3>5. held[d] \subseteq Before(Table[d], at[d])
      BY <3>1, <3>4
    <3> QED BY <3>2, <3>3, <3>5 DEF UsersOK, Opens
  <2> QED BY <1>1, <1>4, <2>1, OneUse DEF LeakFree, IInv
<1>5. Positions(Table[d].unwind)
  BY TableSound DEF Sound
<1>6. step.label \in DOMAIN Table[d].unwind \/ step.label > Len(Table[d].unwind)
        => step.label # Ignored
  <2> DEFINE n == Len(Table[d].unwind)
  <2>1. DOMAIN Table[d].unwind = 1 .. n /\ n \in Nat
    BY <1>5 DEF Positions
  <2> HIDE DEF n
  <2>2. step.label \in 1 .. n \/ step.label > n => step.label # 0
    BY <2>1
  <2> QED BY <2>1, <2>2 DEF Ignored, n
<1> QED BY <1>3, <1>4, <1>6 DEF Fail, Crash, Ignored

LEMMA ReleaseUse ==
  ASSUME LeakFree, UseInv, NEW d \in Drivers, Release(d)
  PROVE  UseInv'
<1> DEFINE what == Releases(d)[at[d]]
           h == held[d] \ (IF what = "mem" THEN {"mem", "client"} ELSE {what})
<1>1. /\ phase[d] \in Releasing /\ held' = [held EXCEPT ![d] = h]
      /\ UNCHANGED file
      /\ stale' = stale \/ stale' = stale \cup {t \in Tasks : file[t] = d}
  BY DEF Release, Releasing
<1>2. h \subseteq held[d]
  OBVIOUS
<1> HIDE DEF h
<1>3. ASSUME d \in Steady PROVE \A t \in Tasks : file[t] # d
  BY <1>1, <1>3 DEF UseInv, UsersOK, Releasing
<1>4. \/ stale' = stale
      \/ d \notin Steady /\ stale' \subseteq stale \cup {t \in Tasks : file[t] = d}
  BY <1>1, <1>3
<1>5. ASSUME NEW p \in Phases \ {"remove", "dead"}, NEW i, Goto(d, p, i),
             p = "unwind" => phase[d] = "unwind"
      PROVE  UseInv'
  <2>1. ASSUME d \in Steady PROVE UsersOK(d, p, i, h)
    <3>1. \A t \in Tasks : file[t] # d
      BY <1>3, <2>1
    <3>2. p = "unwind" => ~Opens(Table[d], held[d])
      BY <1>5, <2>1 DEF UseInv, UsersOK
    <3> QED BY <1>2, <1>5, <3>1, <3>2 DEF UsersOK, Opens
  <2> QED BY <1>1, <1>4, <1>5, <2>1, OneUse DEF LeakFree, IInv
<1>6. CASE phase[d] = "remove"
  <2>1. d \notin Steady
    BY <1>6 DEF UseInv, UsersOK
  <2>2. PICK p, i : Goto(d, p, i)
    BY DEF Release
  <2> QED BY <1>1, <1>4, <2>1, <2>2, OneUse DEF LeakFree, IInv
<1>7. CASE phase[d] # "remove"
  <2>1. \/ Goto(d, "out", 0)
        \/ Goto(d, phase[d], at[d] + 1)
    BY DEF Release
  <2>2. phase[d] \in Phases \ {"remove", "dead"}
    BY <1>1, <1>7 DEF Phases, Releasing
  <2> QED BY <1>5, <2>1, <2>2 DEF Phases
<1> QED BY <1>6, <1>7

\* A driver whose device can be opened is loading, or has been loaded.
LEMMA OpenPhase ==
  ASSUME LeakFree, UseInv, NEW d \in Steady,
         phase[d] # "exit", Opens(Table[d], held[d])
  PROVE  /\ phase[d] \in {"load", "bound"}
         /\ phase[d] = "load" =>
              /\ at[d] \in DOMAIN Table[d].acquire
              /\ Opens(Table[d], Before(Table[d], at[d]))
<1>1. NoWayBack(Table[d]) /\ LeftBehind(d) = {}
  BY TableNoWayBack, DriversAssumption DEF Steady, LeftBehind
<1>2. d \in Drivers /\ phase[d] \in Phases \ {"remove", "unwind", "dead", "exit"}
  BY DEF UseInv, UsersOK, LeakFree, IInv, Shape, Steady
<1>3. phase[d] \notin {"absent", "out"}
  BY <1>1, <1>2 DEF LeakFree, LeakInv, HoldsAtMost, NoWayBack, Opens
<1>4. ASSUME phase[d] = "load"
      PROVE  /\ at[d] \in DOMAIN Table[d].acquire
             /\ Opens(Table[d], Before(Table[d], at[d]))
  <2>1. held[d] \subseteq Before(Table[d], at[d])
    BY <1>1, <1>2, <1>4 DEF LeakFree, LeakInv, HoldsAtMost
  <2>2. Opens(Table[d], Before(Table[d], at[d]))
    BY <2>1 DEF Opens
  <2> QED BY <1>2, <1>4, <2>2 DEF LeakFree, IInv, DriversOK, AtOK
<1> QED BY <1>2, <1>3, <1>4 DEF Phases

LEMMA OpenUse ==
  ASSUME LeakFree, UseInv, NEW t \in Tasks, NEW d \in Drivers, Open(t, d)
  PROVE  UseInv'
<1>1. /\ file[t] = NoDriver /\ phase[d] # "exit" /\ Opens(Table[d], held[d])
      /\ UNCHANGED <<phase, at, held, stale>>
  BY DEF Open, Opens
<1>2. \/ UNCHANGED file
      \/ /\ file' = [file EXCEPT ![t] = d]
         /\ d \in I2c => Table[d].needs \subseteq held[d]
  BY DEF Open
<1>3. t \notin stale /\ file \in [Tasks -> Drivers \cup {NoDriver}]
  BY <1>1 DEF LeakFree, IInv, FilesOK
<1>4. ASSUME d \in Steady, file' = [file EXCEPT ![t] = d]
      PROVE  /\ phase[d] \in {"load", "bound"}
             /\ Table[d].needs \subseteq held[d]
             /\ phase[d] = "load" => Opens(Table[d], Before(Table[d], at[d]))
  <2>1. /\ phase[d] \in {"load", "bound"}
        /\ phase[d] = "load" =>
             /\ at[d] \in DOMAIN Table[d].acquire
             /\ Opens(Table[d], Before(Table[d], at[d]))
    BY <1>1, <1>4, OpenPhase
  <2>2. CASE d \in I2c
    <3>1. file' # file
      BY <1>1, <1>3, <1>4, NoDriverAssumption
    <3> QED BY <1>2, <2>1, <2>2, <3>1
  <2>3. CASE d \notin I2c
    <3>1. Usable(Table[d])
      BY <1>4, <2>3, TableUsable, DriversAssumption DEF Steady
    <3>2. HoldsOK(d, phase[d], at[d], held[d])
      BY DEF LeakFree, IInv, DriversOK
    <3>3. CASE phase[d] = "load"
      <4>1. \A r \in Table[d].needs : \E k \in 1 .. at[d] - 1 : Insists(Table[d], k, r)
        BY <2>1, <3>1, <3>3 DEF Usable
      <4> QED BY <2>1, <3>2, <3>3, <4>1 DEF HoldsOK, Insists
    <3>4. CASE phase[d] = "bound"
      BY <2>1, <3>1, <3>2, <3>4 DEF HoldsOK, Insists, Usable
    <3> QED BY <2>1, <3>3, <3>4
  <2> QED BY <2>2, <2>3
<1>5. ASSUME NEW e \in Steady
      PROVE  UsersOK(e, phase[e], at[e], held[e])'
  BY <1>1, <1>2, <1>3, <1>4, <1>5 DEF UseInv, UsersOK
<1> QED BY <1>5 DEF UseInv

\* A read or a write leaves its file open, or is the end of it; and so does a close.
LEMMA FilesEnd ==
  ASSUME LeakFree, NEW t \in Tasks, Use(t) \/ Close(t)
  PROVE  /\ UNCHANGED <<phase, at, held>> /\ stale' \subseteq stale
         /\ \A u \in Tasks : file'[u] \in Drivers => file'[u] = file[u]
<1>1. file' = file \/ file' = [file EXCEPT ![t] = NoDriver]
  BY DEF Use, Close
<1>2. \A u \in Tasks : file'[u] \in Drivers => file'[u] = file[u]
  BY <1>1, NoDriverAssumption DEF LeakFree, IInv, FilesOK
<1> QED BY <1>2 DEF Use, Close

LEMMA TaskUse ==
  ASSUME LeakFree, UseInv, NEW t \in Tasks, Task(t)
  PROVE  UseInv'
<1>1. CASE \E d \in Drivers : Open(t, d)
  BY <1>1, OpenUse
<1>2. CASE Use(t) \/ Close(t)
  <2>1. ASSUME NEW d \in Steady
        PROVE  UsersOK(d, phase[d], at[d], held[d])'
    BY <1>2, <2>1, FilesEnd DEF UseInv, UsersOK, Steady
  <2> QED BY <2>1 DEF UseInv
<1> QED BY <1>1, <1>2 DEF Task

LEMMA NextUse ==
  ASSUME LeakFree, UseInv, [Next]_vars
  PROVE  UseInv'
<1>1. CASE UNCHANGED vars
  BY <1>1 DEF vars, UseInv, UsersOK
<1>2. ASSUME NEW t \in Tasks, Task(t) PROVE UseInv'
  BY <1>2, TaskUse
<1>3. ASSUME NEW d \in Drivers, Begin(d) PROVE UseInv'
  <2>1. /\ Goto(d, "load", 1) /\ held' = [held EXCEPT ![d] = held[d]]
        /\ phase[d] = "out" /\ UNCHANGED <<file, stale>>
    BY <1>3 DEF Begin, LeakFree, IInv, Shape
  <2>2. d \in Steady => UsersOK(d, "load", 1, held[d])
    BY <2>1 DEF UseInv, UsersOK
  <2> QED BY <2>1, <2>2, OneUse DEF LeakFree, IInv
<1>4. ASSUME NEW d \in Drivers, Acquire(d) PROVE UseInv'
  BY <1>4, ContinueUse DEF Acquire
<1>5. ASSUME NEW d \in Drivers, Exit(d) PROVE UseInv'
  <2>1. /\ Goto(d, "exit", 1) /\ held' = [held EXCEPT ![d] = held[d]]
        /\ UNCHANGED <<file, stale>> /\ \A t \in Tasks : file[t] # d
    BY <1>5 DEF Exit, LeakFree, IInv, Shape
  <2>2. UsersOK(d, "exit", 1, held[d])
    BY <2>1 DEF UsersOK
  <2> QED BY <2>1, <2>2, OneUse DEF LeakFree, IInv
<1>6. ASSUME NEW d \in Drivers, Unbind(d) PROVE UseInv'
  <2>1. /\ Goto(d, "remove", 1) /\ held' = [held EXCEPT ![d] = held[d]]
        /\ UNCHANGED <<file, stale>> /\ d \notin Steady
    BY <1>6 DEF Unbind, LeakFree, IInv, Shape, Steady
  <2> QED BY <2>1, OneUse DEF LeakFree, IInv
<1>7. ASSUME NEW d \in Drivers, Fail(d) PROVE UseInv'
  BY <1>7, FailUse
<1>8. ASSUME NEW d \in Drivers, Release(d) PROVE UseInv'
  BY <1>8, ReleaseUse
<1> QED BY <1>1, <1>2, <1>3, <1>4, <1>5, <1>6, <1>7, <1>8 DEF Next, Manage

-----------------------------------------------------------------------------
(* gpio.c, whose probe can turn back while its first node is open.             *)

\* Whoever has a file of gpio.c open, while it is not bound, came by the first node,
\* which the labels do not take away; once it is bound, and until the labels have come
\* to their end, the pin is there.
GpioInv ==
  "gpio" \in Drivers \ Unbinds =>
    /\ phase["gpio"] \notin {"remove", "dead"}
    /\ phase["gpio"] = "absent" => held["gpio"] = {}
    /\ \A t \in Tasks : file[t] = "gpio" =>
         /\ t \notin stale
         /\ phase["gpio"] \in {"out", "load", "unwind", "bound"}
         /\ phase["gpio"] # "bound" => "node0" \in held["gpio"]

\* What the lists of gpio.c say.
LEMMA TableGpio ==
  /\ \A i \in DOMAIN gpio.acquire : gpio.acquire[i].label \notin {Ignored, Crash}
  /\ \E i \in DOMAIN gpio.acquire : Insists(gpio, i, "PI0")
  /\ gpio.unwind[Len(gpio.unwind)] = "PI0" /\ gpio.needs = {"PI0"}
  /\ \A j \in DOMAIN gpio.unwind : gpio.unwind[j] \notin {"mem", "node0", "node1"}
  /\ \A j \in DOMAIN gpio.remove : gpio.remove[j] # "mem"
  /\ \A i \in DOMAIN gpio.acquire : "node1" \notin Before(gpio, i)
  /\ \A way \in gpio.open : "node0" \in way \/ "node1" \in way
<1> USE DEF gpio, Take, Ignored, Crash
<1>1. /\ \A i \in DOMAIN gpio.acquire : gpio.acquire[i].label \notin {Ignored, Crash}
      /\ \E i \in DOMAIN gpio.acquire : Insists(gpio, i, "PI0")
  BY DEF Insists
<1>2. gpio.unwind[Len(gpio.unwind)] = "PI0" /\ gpio.needs = {"PI0"}
  OBVIOUS
<1>3. /\ \A j \in DOMAIN gpio.unwind : gpio.unwind[j] \notin {"mem", "node0", "node1"}
      /\ \A j \in DOMAIN gpio.remove : gpio.remove[j] # "mem"
  OBVIOUS
<1>4. \A i \in DOMAIN gpio.acquire : "node1" \notin Before(gpio, i)
  BY DEF Before
<1>5. \A way \in gpio.open : "node0" \in way \/ "node1" \in way
  OBVIOUS
<1> QED BY <1>1, <1>2, <1>3, <1>4, <1>5

\* Bound, and at every label, gpio.c has the pin that its reads use.
LEMMA GpioPin ==
  ASSUME IInv, "gpio" \in Drivers, phase["gpio"] \in {"bound", "unwind"}
  PROVE  "PI0" \in held["gpio"]
<1>1. HoldsOK("gpio", phase["gpio"], at["gpio"], held["gpio"]) /\ Table["gpio"] = gpio
  BY DEF IInv, DriversOK, Table
<1>2. CASE phase["gpio"] = "bound"
  BY <1>1, <1>2, TableGpio DEF HoldsOK, Insists
<1>3. CASE phase["gpio"] = "unwind"
  <2> DEFINE n == Len(gpio.unwind)
  <2>1. at["gpio"] \in DOMAIN gpio.unwind
    BY <1>1, <1>3 DEF IInv, DriversOK, AtOK
  <2>2. DOMAIN gpio.unwind = 1 .. n /\ n \in Nat
    BY <1>1, TableSound DEF Sound, Positions
  <2>3. gpio.unwind[n] = "PI0"
    BY TableGpio
  <2> HIDE DEF n
  <2>4. n \in DOMAIN gpio.unwind /\ n >= at["gpio"]
    BY <2>1, <2>2
  <2> QED BY <1>1, <1>3, <2>3, <2>4 DEF HoldsOK, Pins
<1> QED BY <1>2, <1>3

\* A file of gpio.c that is opened while it is not bound is opened by the first node.
LEMMA GpioOpen ==
  ASSUME LeakFree, GpioInv, NEW t \in Tasks, "gpio" \in Drivers \ Unbinds, Open(t, "gpio")
  PROVE  /\ phase["gpio"] \in {"out", "load", "unwind", "bound"}
         /\ phase["gpio"] # "bound" => "node0" \in held["gpio"]
<1>1. Table["gpio"] = gpio
  BY DEF Table
<1>2. PICK way \in gpio.open : way \subseteq held["gpio"]
  BY <1>1 DEF Open
<1>3. "node0" \in held["gpio"] \/ "node1" \in held["gpio"]
  BY <1>2, TableGpio
<1>4. phase["gpio"] \in {"out", "load", "unwind", "bound"}
  BY <1>3 DEF Open, GpioInv, LeakFree, IInv, Shape, Phases
<1>5. held["gpio"] \subseteq HoldsAtMost("gpio", phase["gpio"], at["gpio"]) \cup FirstRound
  BY DEF LeakFree, LeakInv, LeftBehind
<1>6. "node1" \notin FirstRound
  BY DEF FirstRound
<1>7. CASE phase["gpio"] = "out"
  BY <1>3, <1>5, <1>6, <1>7 DEF HoldsAtMost
<1>8. CASE phase["gpio"] = "load"
  <2>1. at["gpio"] \in DOMAIN gpio.acquire
    BY <1>1, <1>8 DEF LeakFree, IInv, DriversOK, AtOK
  <2> QED BY <1>1, <1>3, <1>5, <1>6, <1>8, <2>1, TableGpio DEF HoldsAtMost
<1>9. CASE phase["gpio"] = "unwind"
  <2>1. at["gpio"] \in DOMAIN gpio.unwind
    BY <1>1, <1>9 DEF LeakFree, IInv, DriversOK, AtOK
  <2>2. "node1" \notin Frees(gpio.unwind, at["gpio"])
    <3> DEFINE n == Len(gpio.unwind)
    <3>1. DOMAIN gpio.unwind = 1 .. n /\ n \in Nat
      BY <1>1, TableSound DEF Sound, Positions
    <3>2. \A j \in at["gpio"] .. n : gpio.unwind[j] # "node1"
      <4> HIDE DEF n
      <4>1. \A j \in at["gpio"] .. n : j \in DOMAIN gpio.unwind
        BY <2>1, <3>1
      <4> QED BY <4>1, TableGpio
    <3> QED BY <3>2 DEF Frees
  <2> QED BY <1>1, <1>3, <1>5, <1>6, <1>9, <2>2 DEF HoldsAtMost
<1> QED BY <1>4, <1>7, <1>8, <1>9

\* A step of gpio.c that leaves its files alone and takes away no node.
LEMMA OneGpio ==
  ASSUME Shape, GpioInv, NEW p \in {"out", "load", "unwind", "bound"}, NEW i, NEW h,
         held["gpio"] \cap {"node0"} \subseteq h,
         phase["gpio"] = "bound" => p = "bound",
         Goto("gpio", p, i), held' = [held EXCEPT !["gpio"] = h], UNCHANGED <<file, stale>>
  PROVE  GpioInv'
  BY DEF Shape, Goto, GpioInv

LEMMA GpioContinue ==
  ASSUME LeakFree, GpioInv, "gpio" \in Drivers, phase["gpio"] = "load",
         Continue("gpio", at["gpio"]), NEW h, held["gpio"] \subseteq h,
         held' = [held EXCEPT !["gpio"] = h], UNCHANGED <<file, stale>>
  PROVE  GpioInv'
<1>1. CASE Goto("gpio", "bound", 0)
  BY <1>1, OneGpio DEF LeakFree, IInv
<1>2. CASE Goto("gpio", "load", at["gpio"] + 1)
  BY <1>2, OneGpio DEF LeakFree, IInv
<1> QED BY <1>1, <1>2 DEF Continue

LEMMA GpioManage ==
  ASSUME LeakFree, GpioInv, "gpio" \in Drivers \ Unbinds, Manage("gpio")
  PROVE  GpioInv'
<1>1. Table["gpio"] = gpio
  BY DEF Table
<1>2. CASE Begin("gpio")
  <2>1. Goto("gpio", "load", 1) /\ held' = [held EXCEPT !["gpio"] = held["gpio"]]
    BY <1>2 DEF Begin, LeakFree, IInv, Shape
  <2> QED BY <1>2, <2>1, OneGpio DEF Begin, LeakFree, IInv
<1>3. CASE Acquire("gpio")
  BY <1>3, GpioContinue DEF Acquire
<1>4. CASE Fail("gpio")
  <2>1. held' = [held EXCEPT !["gpio"] = held["gpio"]] /\ UNCHANGED <<file, stale>>
    BY <1>4 DEF Fail, LeakFree, IInv, Shape
  <2>2. at["gpio"] \in DOMAIN gpio.acquire
    BY <1>1, <1>4 DEF Fail, LeakFree, IInv, DriversOK, AtOK
  <2>3. PICK p \in {"out", "unwind"}, i \in Int : Goto("gpio", p, i)
    <3>1. gpio.acquire[at["gpio"]].label \in Int
      BY <1>1, <2>2, TableSound DEF Sound
    <3> QED BY <1>1, <1>4, <2>2, <3>1, TableGpio DEF Fail
  <2> QED BY <1>4, <2>1, <2>3, OneGpio DEF Fail, LeakFree, IInv
<1>5. CASE Release("gpio")
  <2> DEFINE what == Releases("gpio")[at["gpio"]]
             h == held["gpio"] \ (IF what = "mem" THEN {"mem", "client"} ELSE {what})
  <2>1. phase["gpio"] \in {"unwind", "exit"}
    BY <1>5 DEF Release, GpioInv
  <2>2. /\ held' = [held EXCEPT !["gpio"] = h] /\ UNCHANGED file
        /\ Goto("gpio", "out", 0) \/ Goto("gpio", phase["gpio"], at["gpio"] + 1)
    BY <1>5 DEF Release
  <2>3. what # "mem" /\ UNCHANGED stale
    <3>1. at["gpio"] \in DOMAIN Releases("gpio")
      BY <2>1 DEF LeakFree, IInv, DriversOK, AtOK, Releases
    <3>2. what # "mem"
      BY <1>1, <3>1, TableGpio DEF Releases
    <3> QED BY <1>5, <3>2 DEF Release
  <2>4. CASE phase["gpio"] = "unwind"
    <3>1. what # "node0"
      BY <1>1, <2>4, TableGpio DEF Releases, LeakFree, IInv, DriversOK, AtOK
    <3>2. held["gpio"] \cap {"node0"} \subseteq h
      BY <2>3, <3>1
    <3> HIDE DEF h, what
    <3> QED BY <2>2, <2>3, <2>4, <3>2, OneGpio DEF LeakFree, IInv
  <2>5. CASE phase["gpio"] = "exit"
    <3>1. \A t \in Tasks : file[t] # "gpio"
      BY <2>5 DEF GpioInv
    <3>2. phase'["gpio"] \in {"out", "exit"}
      BY <2>2, <2>5 DEF Goto, LeakFree, IInv, Shape
    <3> QED BY <2>2, <3>1, <3>2 DEF GpioInv
  <2> QED BY <2>1, <2>4, <2>5
<1>6. CASE Exit("gpio")
  <2>1. phase'["gpio"] = "exit"
    BY <1>6 DEF Exit, Goto, LeakFree, IInv, Shape
  <2> QED BY <1>6, <2>1 DEF Exit, GpioInv
<1>7. ~Unbind("gpio")
  BY DEF Unbind
<1> QED BY <1>2, <1>3, <1>4, <1>5, <1>6, <1>7 DEF Manage

LEMMA NextGpio == ASSUME LeakFree, GpioInv, [Next]_vars PROVE GpioInv'
<1>1. CASE UNCHANGED vars
  BY <1>1 DEF vars, GpioInv
<1>2. ASSUME NEW d \in Drivers \ {"gpio"}, Manage(d) PROVE GpioInv'
  <2>1. /\ \E p, i : Goto(d, p, i)
        /\ \E h : held' = [held EXCEPT ![d] = h]
        /\ UNCHANGED file /\ stale' \subseteq stale \cup {t \in Tasks : file[t] = d}
    <3>1. UNCHANGED held => held' = [held EXCEPT ![d] = held[d]]
      BY DEF LeakFree, IInv, Shape
    <3> QED BY <1>2, <3>1 DEF Manage, Begin, Acquire, Fail, Release, Exit, Unbind, Continue
  <2>2. "gpio" \in Drivers => phase'["gpio"] = phase["gpio"] /\ held'["gpio"] = held["gpio"]
    BY <1>2, <2>1 DEF Goto, LeakFree, IInv, Shape
  <2> QED BY <1>2, <2>1, <2>2 DEF GpioInv
<1>3. ASSUME "gpio" \in Drivers, Manage("gpio") PROVE GpioInv'
  BY <1>3, GpioManage DEF GpioInv
<1>4. ASSUME NEW t \in Tasks, Use(t) \/ Close(t) PROVE GpioInv'
  BY <1>4, FilesEnd DEF GpioInv
<1>5. ASSUME NEW t \in Tasks, NEW d \in Drivers, Open(t, d) PROVE GpioInv'
  <2>1. /\ UNCHANGED <<phase, held, stale>>
        /\ file' = file \/ file' = [file EXCEPT ![t] = d]
        /\ t \notin stale /\ file \in [Tasks -> Drivers \cup {NoDriver}]
    BY <1>5 DEF Open, LeakFree, IInv, FilesOK
  <2>2. CASE d # "gpio"
    BY <2>1, <2>2 DEF GpioInv
  <2>3. CASE d = "gpio"
    <3>1. d \notin Unbinds =>
            /\ phase["gpio"] \in {"out", "load", "unwind", "bound"}
            /\ phase["gpio"] # "bound" => "node0" \in held["gpio"]
      BY <1>5, <2>3, GpioOpen
    <3> QED BY <2>1, <2>3, <3>1 DEF GpioInv
  <2> QED BY <2>2, <2>3
<1> QED BY <1>1, <1>2, <1>3, <1>4, <1>5 DEF Next, Task

LEMMA SpecUse == Spec => [](LeakFree /\ UseInv /\ GpioInv)
<1>1. Init => LeakFree /\ UseInv
  BY InitIInv, InitLeak, InitUse DEF LeakFree
<1>2. Init => GpioInv
  BY NoDriverAssumption DEF Init, GpioInv
<1>3. LeakFree /\ UseInv /\ [Next]_vars => (LeakFree /\ UseInv)'
  BY NextIInv, NextLeak, NextUse DEF LeakFree
<1>4. LeakFree /\ GpioInv /\ [Next]_vars => GpioInv'
  BY NextGpio
<1> QED BY <1>1, <1>2, <1>3, <1>4, PTL DEF Spec

\* While a file is open, the pin, the mapping or the structure that its reads and
\* writes use is there, for every driver and whatever fails: the order of the releases
\* in exit is safe (led_chr.c:238, dtsplatform.c:222).  The exceptions are devices that
\* are unbound under their users, and gpio.c after a second node that could not be made
\* (gpio.c:251): only out of service, or on its way back, does it lack the pin.
THEOREM FilesAreServed == Spec => []UsesHeld
<1>1. ASSUME LeakFree, UseInv, GpioInv, NEW t \in Tasks, file[t] \in Drivers \ Unbinds
      PROVE  \/ Served(t)
             \/ file[t] = "gpio" /\ "node0" \in held["gpio"] /\ phase["gpio"] \in {"out", "load"}
  <2>1. CASE file[t] # "gpio"
    BY <1>1, <2>1 DEF UseInv, UsersOK, Steady, Served
  <2>2. CASE file[t] = "gpio"
    <3>1. /\ t \notin stale /\ phase["gpio"] \in {"out", "load", "unwind", "bound"}
          /\ phase["gpio"] # "bound" => "node0" \in held["gpio"]
      BY <1>1, <2>2 DEF GpioInv
    <3>2. Table["gpio"].needs = {"PI0"}
      BY TableGpio DEF Table
    <3> QED BY <1>1, <2>2, <3>1, <3>2, GpioPin DEF Served, LeakFree
  <2> QED BY <2>1, <2>2
<1>2. LeakFree /\ UseInv /\ GpioInv => UsesHeld
  BY <1>1 DEF UsesHeld
<1> QED BY <1>2, SpecUse, PTL

\* A probe that has returned has set `client`.
ClientInv == \A d \in Drivers \cap I2c : phase[d] = "bound" => "client" \in held[d]

LEMMA InitClient == Init => ClientInv
  BY DEF Init, ClientInv

LEMMA OneClient ==
  ASSUME Shape, ClientInv, NEW d \in Drivers, NEW p, NEW i, NEW h,
         d \in I2c /\ p = "bound" => "client" \in h,
         Goto(d, p, i), held' = [held EXCEPT ![d] = h]
  PROVE  ClientInv'
<1>1. phase'[d] = p /\ held'[d] = h
  BY DEF Shape, Goto
<1>2. \A e \in Drivers \ {d} : phase'[e] = phase[e] /\ held'[e] = held[e]
  BY DEF Shape, Goto
<1> QED BY <1>1, <1>2 DEF ClientInv

LEMMA NextClient == ASSUME IInv, ClientInv, [Next]_vars PROVE ClientInv'
<1>1. ASSUME UNCHANGED <<phase, held>> PROVE ClientInv'
  BY <1>1 DEF ClientInv
<1>2. ASSUME NEW t \in Tasks, Task(t) PROVE ClientInv'
  BY <1>1, <1>2 DEF Task, Open, Use, Close
<1>3. ASSUME NEW d \in Drivers, NEW p \in Phases \ {"bound"}, NEW i, Goto(d, p, i),
             NEW h, held' = [held EXCEPT ![d] = h]
      PROVE  ClientInv'
  BY <1>3, OneClient DEF IInv
<1>4. ASSUME NEW d \in Drivers, Begin(d) \/ Exit(d) \/ Unbind(d) PROVE ClientInv'
  <2>1. held' = [held EXCEPT ![d] = held[d]]
    BY <1>4 DEF Begin, Exit, Unbind, IInv, Shape
  <2>2. PICK p \in {"load", "exit", "remove"} : Goto(d, p, 1)
    BY <1>4 DEF Begin, Exit, Unbind
  <2> QED BY <1>3, <2>1, <2>2 DEF Phases
<1>5. ASSUME NEW d \in Drivers, Release(d) PROVE ClientInv'
  <2>1. \E h : held' = [held EXCEPT ![d] = h]
    BY <1>5 DEF Release
  <2>2. phase[d] \in Phases \ {"bound"}
    BY <1>5 DEF Release, Phases
  <2>3. Goto(d, "out", 0) \/ Goto(d, phase[d], at[d] + 1)
    BY <1>5 DEF Release
  <2> QED BY <1>3, <2>1, <2>2, <2>3 DEF Phases
<1>6. ASSUME NEW d \in Drivers, phase[d] = "load", Continue(d, at[d]),
             NEW h, held' = [held EXCEPT ![d] = h],
             d \in I2c /\ Table[d].acquire[at[d]].what = "client" => "client" \in h
      PROVE  ClientInv'
  <2>1. CASE at[d] = Len(Table[d].acquire)
    <3>1. d \in I2c => Table[d].acquire[at[d]].what = "client"
      BY <2>1, TableServes DEF Serves
    <3>2. Goto(d, "bound", 0)
      BY <1>6, <2>1 DEF Continue
    <3> QED BY <1>6, <3>1, <3>2, OneClient DEF IInv
  <2>2. CASE at[d] # Len(Table[d].acquire)
    <3>1. Goto(d, "load", at[d] + 1)
      BY <1>6, <2>2 DEF Continue
    <3> QED BY <1>3, <1>6, <3>1 DEF Phases
  <2> QED BY <2>1, <2>2
<1>7. ASSUME NEW d \in Drivers, Acquire(d) PROVE ClientInv'
  BY <1>6, <1>7 DEF Acquire
<1>8. ASSUME NEW d \in Drivers, Fail(d) PROVE ClientInv'
  <2>1. phase[d] = "load" /\ held' = [held EXCEPT ![d] = held[d]]
    BY <1>8 DEF Fail, IInv, Shape
  <2>2. Table[d].acquire[at[d]].what # "client"
    BY <1>8, FaultsAssumption DEF Fail, IInv, PinsOK, Pins
  <2>3. CASE Continue(d, at[d])
    BY <1>6, <2>1, <2>2, <2>3
  <2>4. CASE \E p \in {"dead", "unwind", "out"} : \E i : Goto(d, p, i)
    BY <1>3, <2>1, <2>4 DEF Phases
  <2> QED BY <1>8, <2>3, <2>4 DEF Fail
<1>9. CASE UNCHANGED vars
  BY <1>1, <1>9 DEF vars
<1> QED BY <1>2, <1>4, <1>5, <1>7, <1>8, <1>9 DEF Next, Manage

\* Where an I2C driver that stays bound can be misused.
LEMMA EarlyOpen ==
  ASSUME LeakFree, UseInv, ClientInv, Next,
         NEW d \in I2c \ Unbinds, d \in misused' \ misused
  PROVE  phase[d] = "load"
<1>1. ASSUME NEW e \in Drivers, Manage(e) PROVE FALSE
  BY <1>1 DEF Manage, Begin, Acquire, Fail, Release, Exit, Unbind
<1>2. ASSUME NEW t \in Tasks, Use(t) PROVE FALSE
  <2>1. file[t] = d /\ d \in Drivers
    BY <1>2 DEF Use, LeakFree, IInv, FilesOK
  <2>2. t \notin stale /\ Table[d].needs \subseteq held[d]
    BY <2>1 DEF UseInv, UsersOK, Steady, I2c
  <2> QED BY <1>2, <2>1, <2>2 DEF Use, Served
<1>3. ASSUME NEW t \in Tasks, Close(t) PROVE FALSE
  BY <1>3 DEF Close
<1>4. ASSUME NEW t \in Tasks, NEW e \in Drivers, Open(t, e) PROVE phase[d] = "load"
  <2>1. /\ e = d /\ phase[d] # "exit" /\ Opens(Table[d], held[d])
        /\ ~(Table[d].needs \subseteq held[d])
    BY <1>4 DEF Open, Opens
  <2>2. phase[d] \in {"load", "bound"}
    BY <2>1, OpenPhase DEF Steady, I2c
  <2>3. ASSUME phase[d] = "bound" PROVE Table[d].needs \subseteq held[d]
    <3>1. HoldsOK(d, phase[d], at[d], held[d]) /\ "client" \in held[d]
      BY <2>1, <2>3 DEF LeakFree, IInv, DriversOK, ClientInv
    <3>2. "mem" \in held[d]
      BY <2>3, <3>1, TableServes DEF HoldsOK, Insists, Serves
    <3> QED BY <3>1, <3>2, TableServes DEF Serves
  <2> QED BY <2>1, <2>2, <2>3
<1> QED BY <1>1, <1>2, <1>3, <1>4 DEF Next, Task

\* The NULL `client` of an I2C driver (ap3216c.c:276) is met in an open during probe
\* only, as long as nobody unbinds the device: removal by rmmod is safe.
THEOREM OnlyEarlyOpens == Spec => EarlyOpenOnly
<1>1. LeakFree /\ UseInv /\ ClientInv /\ [Next]_vars
        => [\A d \in I2c \ Unbinds : d \in misused' \ misused => phase[d] = "load"]_vars
  BY EarlyOpen
<1>2. IInv /\ ClientInv /\ [Next]_vars => ClientInv'
  BY NextClient
<1>3. LeakFree => IInv
  BY DEF LeakFree
<1> QED BY <1>1, <1>2, <1>3, SpecUse, InitClient, PTL DEF Spec, EarlyOpenOnly
=============================================================================
