------------------------ MODULE DeviceManager_proofs ------------------------
(***************************************************************************)
(* For every set of addresses, serials and descriptions, and any number of *)
(* plug-ins and failures: the safety properties of DeviceManager, and that *)
(* it implements DeviceRegistry.                                           *)
(***************************************************************************)
EXTENDS DeviceManager, FiniteSetTheorems, TLAPS

\* The inductive invariant.  OpenIsOwned needs the maps to agree (a removed
\* device must be the one that is closed), ListingIsCurrent needs both.
IInv == TypeOK /\ MapsAgree /\ OpenIsOwned /\ ListingIsCurrent

-----------------------------------------------------------------------------
(* The results of USB operations. *)

OpenResult == [open : BOOLEAN, leaked : SUBSET Interfaces, cost : Nat]
ProgramResult == [done : BOOLEAN, leaked : SUBSET Interfaces, cost : Nat]
ReproResult == [result : {"true", "false", "throws"}, open : BOOLEAN,
                leaked : SUBSET Interfaces, cost : Nat]
CreateResult == [added : BOOLEAN, open : BOOLEAN, leaked : SUBSET Interfaces,
                 cost : Nat]

\* Device::open ends open only if no interface is claimed by a lost handle.
LEMMA OpeningResult ==
  ASSUME NEW d \in Devs, NEW lk \in SUBSET Interfaces
  PROVE  Opening(d, lk) \subseteq {o \in OpenResult : o.open => o.leaked = {}}
<1>1. ASSUME NEW l \in SUBSET Interfaces, NEW n \in Nat
      PROVE  [open |-> FALSE, leaked |-> l, cost |-> n]
               \in {o \in OpenResult : o.open => o.leaked = {}}
  BY DEF OpenResult
<1>2. ASSUME lk = {}
      PROVE  [open |-> TRUE, leaked |-> lk, cost |-> 0]
               \in {o \in OpenResult : o.open => o.leaked = {}}
  BY <1>2 DEF OpenResult
<1>3. lk \cup {"A"} \in SUBSET Interfaces
  BY DEF Interfaces
<1>4. "A" \notin lk /\ "B" \notin lk => lk = {}
  BY DEF Interfaces
<1>5. CASE plugged[d] = NoSerial \/ "A" \in lk
  BY <1>1, <1>5 DEF Opening
<1>6. CASE ~(plugged[d] = NoSerial \/ "A" \in lk) /\ "B" \in lk
  BY <1>1, <1>3, <1>6 DEF Opening
<1>7. CASE ~(plugged[d] = NoSerial \/ "A" \in lk) /\ "B" \notin lk
  <2>1. Opening(d, lk) = {[open |-> TRUE, leaked |-> lk, cost |-> 0],
                          [open |-> FALSE, leaked |-> lk, cost |-> 1],
                          [open |-> FALSE, leaked |-> lk \cup {"A"}, cost |-> 1]}
    BY <1>7 DEF Opening
  <2>2. lk = {}
    BY <1>4, <1>7
  <2> QED
    BY <1>1, <1>2, <1>3, <2>1, <2>2
<1> QED
  BY <1>5, <1>6, <1>7

\* DeviceProgrammer leaves the device as it was or leaks interface B.
LEMMA ProgrammingResult ==
  ASSUME NEW d \in Devs, NEW lk \in SUBSET Interfaces
  PROVE  Programming(d, lk) \subseteq ProgramResult
<1>1. ASSUME NEW b \in BOOLEAN, NEW l \in SUBSET Interfaces, NEW n \in Nat
      PROVE  [done |-> b, leaked |-> l, cost |-> n] \in ProgramResult
  BY DEF ProgramResult
<1>2. lk \cup {"B"} \in SUBSET Interfaces
  BY DEF Interfaces
<1> QED
  BY <1>1, <1>2 DEF Programming

\* reprogramDevice ends open only if no interface is claimed by a lost handle.
LEMMA ReprogramResult ==
  ASSUME NEW d \in Devs, NEW s, NEW open \in BOOLEAN,
         NEW lk \in SUBSET Interfaces
  PROVE  reprogramDevice(d, s, open, lk)
           \subseteq {r \in ReproResult :
                        (open => lk = {}) => (r.open => r.leaked = {})}
<1>1. CASE ~HasBitfile(s)
  <2>1. [result |-> "false", open |-> open, leaked |-> lk, cost |-> 0] \in
          {r \in ReproResult : (open => lk = {}) => (r.open => r.leaked = {})}
    BY DEF ReproResult
  <2> QED
    BY <1>1, <2>1 DEF reprogramDevice
<1>2. CASE HasBitfile(s)
  <2>1. SUFFICES ASSUME NEW p \in Programming(d, lk), NEW o \in Opening(d, p.leaked)
        PROVE [result |-> IF p.done /\ o.open THEN "true" ELSE "throws",
               open |-> o.open, leaked |-> o.leaked, cost |-> p.cost + o.cost]
                \in {r \in ReproResult :
                       (open => lk = {}) => (r.open => r.leaked = {})}
    BY <1>2 DEF reprogramDevice
  <2>2. p \in ProgramResult
    BY ProgrammingResult
  <2>3. o \in OpenResult /\ (o.open => o.leaked = {})
    <3>1. p.leaked \in SUBSET Interfaces
      BY <2>2 DEF ProgramResult
    <3> QED
      BY <3>1, OpeningResult
  <2>4. /\ o.open \in BOOLEAN /\ o.leaked \in SUBSET Interfaces
        /\ p.cost + o.cost \in Nat
    BY <2>2, <2>3 DEF ProgramResult, OpenResult
  <2> QED
    BY <2>3, <2>4 DEF ReproResult
<1> QED
  BY <1>1, <1>2

\* A creation that ends with an open handle hands the device to the maps
\* (_usbDeviceAdded), and no lost handle claims an interface of it.
LEMMA CreatingResult ==
  ASSUME NEW d \in Devs, NEW s \in Serials, leaked[d] \in SUBSET Interfaces
  PROVE  Creating(d, s)
           \subseteq {c \in CreateResult : c.open => c.added /\ c.leaked = {}}
<1> DEFINE Good == {c \in CreateResult : c.open => c.added /\ c.leaked = {}}
<1> SUFFICES ASSUME NEW c \in Creating(d, s) PROVE c \in Good
  OBVIOUS
<1>1. PICK o \in Opening(d, leaked[d]) :
        c \in (IF ~o.open
                THEN {[added |-> FALSE, open |-> FALSE, leaked |-> o.leaked, cost |-> o.cost]}
                ELSE {[added |-> r.result # "throws",
                       open |-> r.open /\ r.result # "throws",
                       leaked |-> r.leaked, cost |-> o.cost + r.cost]
                       : r \in reprogramDevice(d, s, TRUE, o.leaked)})
  BY DEF Creating
<1>2. o \in OpenResult /\ (o.open => o.leaked = {})
  BY OpeningResult
<1>3. CASE ~o.open
  <2>1. [added |-> FALSE, open |-> FALSE, leaked |-> o.leaked, cost |-> o.cost]
          \in Good
    BY <1>2 DEF OpenResult, CreateResult
  <2> QED
    BY <1>1, <1>3, <2>1
<1>4. CASE o.open
  <2>1. PICK r \in reprogramDevice(d, s, TRUE, o.leaked) :
          c = [added |-> r.result # "throws",
               open |-> r.open /\ r.result # "throws",
               leaked |-> r.leaked, cost |-> o.cost + r.cost]
    BY <1>1, <1>4
  <2>2. o.leaked \in SUBSET Interfaces /\ o.leaked = {}
    BY <1>2, <1>4 DEF OpenResult
  <2>3. r \in ReproResult /\ (r.open => r.leaked = {})
    BY <2>2, ReprogramResult
  <2>4. r.leaked \in SUBSET Interfaces /\ o.cost + r.cost \in Nat
    BY <1>2, <2>3 DEF OpenResult, ReproResult
  <2>5. ASSUME NEW added, NEW open, added \in BOOLEAN, open \in BOOLEAN,
               open => added /\ r.leaked = {}
        PROVE  [added |-> added, open |-> open, leaked |-> r.leaked,
                cost |-> o.cost + r.cost]
                 \in Good
    BY <2>4, <2>5 DEF CreateResult
  <2>6. CASE r.result = "throws"
    <3>1. (r.result # "throws") = FALSE /\ (r.open /\ r.result # "throws") = FALSE
      BY <2>6
    <3> QED
      BY <2>1, <2>5, <3>1
  <2>7. CASE r.result # "throws"
    <3>1. (r.result # "throws") = TRUE /\ (r.open /\ r.result # "throws") = r.open
      BY <2>3, <2>7 DEF ReproResult
    <3>2. r.open \in BOOLEAN /\ (r.open => r.leaked = {})
      BY <2>3 DEF ReproResult
    <3> QED
      BY <2>1, <2>5, <3>1, <3>2
  <2> QED
    BY <2>6, <2>7
<1> QED
  BY <1>3, <1>4

-----------------------------------------------------------------------------
(* Queues. *)

Holds(q, m) == \E i \in DOMAIN q : q[i] = m

\* Posting behind a queue keeps what it holds and adds the new handler.
LEMMA HoldsAppend ==
  ASSUME NEW S, NEW q \in Seq(S), NEW x \in S, NEW m
  PROVE  /\ Holds(q, m) => Holds(Append(q, x), m)
         /\ Holds(Append(q, x), x)
BY SMTT(30) DEF Holds

\* Taking the oldest handler loses only that one.
LEMMA HoldsTail ==
  ASSUME NEW S, NEW q \in Seq(S), q # <<>>, NEW m, Holds(q, m), Head(q) # m
  PROVE  Holds(Tail(q), m)
<1>1. PICK i \in DOMAIN q : q[i] = m
  BY DEF Holds
<1>2. i \in 2 .. Len(q)
  BY <1>1
<1>3. i - 1 \in DOMAIN Tail(q) /\ Tail(q)[i - 1] = m
  BY <1>1, <1>2
<1> QED
  BY <1>3 DEF Holds

\* A departure is pending when one of the two queues holds its message.
LEMMA PendingIsHeld ==
  ASSUME NEW d
  PROVE  DeparturePending(d) <=>
           \/ Holds(hotplug, [kind |-> "removed", dev |-> d])
           \/ Holds(posted, [kind |-> "removed", dev |-> d])
BY DEF DeparturePending, Holds
-----------------------------------------------------------------------------
(* Type correctness. *)

\* The batches the handlers emit are batches of events.
LEMMA BatchType ==
  /\ NoEvents \in [Serials -> EventKind]
  /\ \A s, k : k \in EventKind => OneEvent(s, k) \in [Serials -> EventKind]
  /\ \A g, c : PollEvents(g, c) \in [Serials -> EventKind]
BY DEF NoEvents, OneEvent, PollEvents, EventKind

\* A handler never fails more often than the bound allows.
LEMMA SpendType ==
  ASSUME TypeOK, NEW cost \in Nat, Spend(cost)
  PROVE  faults' \in 0 .. MaxFaults
BY DMAssumption DEF TypeOK, Spend

\* removeDevices yields maps and handles of the right type, for any set gone.
LEMMA RemoveType ==
  ASSUME TypeOK, NEW gone, removeDevices(gone)
  PROVE  /\ deviceMap' \in [Devs -> Serials \cup {NoSerial}]
         /\ serialMap' \in [Serials -> Devs \cup {NoDev}]
         /\ isOpen' \in [Devs -> BOOLEAN]
BY Zenon DEF TypeOK, removeDevices

\* The queues keep their types when a handler is taken or posted.
LEMMA HandlerTaken ==
  ASSUME TypeOK, NEW kind, NextHandler(kind)
  PROVE  /\ Head(posted) \in Handler
         /\ posted' \in Seq(Handler)
         /\ kind \in {"added", "removed"} => Head(posted).dev \in Devs
<1>1. posted \in Seq(Handler) /\ posted # <<>>
  BY DEF TypeOK, NextHandler
<1>2. Head(posted) \in Handler /\ Tail(posted) \in Seq(Handler)
  BY <1>1
<1> QED
  BY <1>2 DEF NextHandler, Handler

\* Every step keeps every variable within its type.
LEMMA TypeStep == TypeOK /\ [Next]_vars => TypeOK'
<1> SUFFICES ASSUME TypeOK, [Next]_vars PROVE TypeOK'
  OBVIOUS
<1> USE DMAssumption
<1>1. ASSUME NEW d \in Devs, NEW s \in Serials, Plug(d, s) PROVE TypeOK'
  <2>1. [kind |-> "added", dev |-> d] \in HotplugMessage
    BY DEF HotplugMessage
  <2>2. hotplug' \in Seq(HotplugMessage)
    BY <1>1, <2>1 DEF Plug, TypeOK
  <2>3. plugs' \in 0 .. MaxPlugs
    BY <1>1 DEF Plug, TypeOK
  <2>4. plugged' \in [Devs -> Serials \cup {NoSerial}]
    BY <1>1 DEF Plug, TypeOK
  <2> QED
    BY <1>1, <2>2, <2>3, <2>4, BatchType
       DEF Plug, TypeOK, loopVars, mapVars, usbVars
<1>2. ASSUME NEW d \in Devs, Unplug(d) PROVE TypeOK'
  <2>1. [kind |-> "removed", dev |-> d] \in HotplugMessage
    BY DEF HotplugMessage
  <2>2. hotplug' \in Seq(HotplugMessage)
    BY <1>2, <2>1 DEF Unplug, TypeOK
  <2>3. plugged' \in [Devs -> Serials \cup {NoSerial}]
    BY <1>2 DEF Unplug, TypeOK
  <2> QED
    BY <1>2, <2>2, <2>3, BatchType
       DEF Unplug, TypeOK, loopVars, mapVars, usbVars
<1>3. CASE HotplugCallback
  <2>1. hotplug \in Seq(HotplugMessage) /\ hotplug # <<>>
    BY <1>3 DEF HotplugCallback, TypeOK
  <2>2. Head(hotplug) \in HotplugMessage /\ Tail(hotplug) \in Seq(HotplugMessage)
    BY <2>1
  <2>3. Head(hotplug) \in Handler
    BY <2>2 DEF Handler, HotplugMessage
  <2>4. posted' \in Seq(Handler)
    BY <1>3, <2>3 DEF HotplugCallback, TypeOK
  <2> QED
    BY <1>3, <2>2, <2>4, BatchType
       DEF HotplugCallback, TypeOK, mapVars, usbVars
<1>4. CASE TimerExpires
  <2>1. [kind |-> "poll", dev |-> NoDev] \in Handler
    BY DEF Handler
  <2>2. posted' \in Seq(Handler)
    BY <1>4, <2>1 DEF TimerExpires, TypeOK
  <2> QED
    BY <1>4, <2>2, BatchType
       DEF TimerExpires, TypeOK, envVars, mapVars, usbVars
<1>5. CASE usbDeviceAdded
  <2> DEFINE d == Head(posted).dev
  <2>1. posted' \in Seq(Handler) /\ d \in Devs
    BY <1>5, HandlerTaken DEF usbDeviceAdded
  <2>2. CASE IgnoreArrival(d)
    <3>1. faults' \in 0 .. MaxFaults
      BY <2>2, SpendType DEF IgnoreArrival
    <3> QED
      BY <1>5, <2>1, <2>2, <3>1, BatchType
         DEF usbDeviceAdded, IgnoreArrival, Unlisted, TypeOK, envVars, mapVars
  <2>3. CASE CreateDevice(d)
    <3> DEFINE s == plugged[d]
    <3>1. s \in Serials
      BY <2>1, <2>3 DEF CreateDevice, TypeOK
    <3>2. leaked[d] \in SUBSET Interfaces
      BY <2>1 DEF TypeOK
    <3>3. PICK c \in Creating(d, s) :
            /\ isOpen' = [isOpen EXCEPT ![d] = c.open]
            /\ leaked' = [leaked EXCEPT ![d] = c.leaked]
            /\ Spend(c.cost)
      BY <2>3 DEF CreateDevice
    <3>4. c \in CreateResult
      BY <2>1, <3>1, <3>2, CreatingResult
    <3>5. faults' \in 0 .. MaxFaults
      BY <3>3, <3>4, SpendType DEF CreateResult
    <3>6. /\ isOpen' \in [Devs -> BOOLEAN]
          /\ leaked' \in [Devs -> SUBSET Interfaces]
      BY <3>3, <3>4 DEF CreateResult, TypeOK
    <3>7. \/ /\ deviceMap' = [deviceMap EXCEPT ![d] = s]
             /\ serialMap' = [serialMap EXCEPT ![s] = d]
             /\ emitted' = OneEvent(s, "added")
          \/ Unlisted
      BY <2>3 DEF CreateDevice
    <3>8. deviceMap' \in [Devs -> Serials \cup {NoSerial}]
      BY <2>1, <3>1, <3>7 DEF Unlisted, mapVars, TypeOK
    <3>9. serialMap' \in [Serials -> Devs \cup {NoDev}]
      BY <2>1, <3>1, <3>7 DEF Unlisted, mapVars, TypeOK
    <3>10. emitted' \in [Serials -> EventKind]
      BY <3>7, BatchType DEF Unlisted, EventKind
    <3> QED
      BY <1>5, <2>1, <3>5, <3>6, <3>8, <3>9, <3>10 DEF usbDeviceAdded, TypeOK, envVars
  <2> QED
    BY <1>5, <2>2, <2>3 DEF usbDeviceAdded
<1>6. CASE usbDeviceRemoved
  <2> DEFINE s == deviceMap[Head(posted).dev]
  <2>1. posted' \in Seq(Handler)
    BY <1>6, HandlerTaken DEF usbDeviceRemoved
  <2>2. CASE s # NoSerial /\ hasSerial(s)
    <3>1. removeDevices({s}) /\ emitted' = OneEvent(s, "removed")
      BY <1>6, <2>2 DEF usbDeviceRemoved
    <3>2. emitted' \in [Serials -> EventKind]
      BY <3>1, BatchType DEF EventKind
    <3> QED
      BY <1>6, <2>1, <3>1, <3>2, RemoveType
         DEF usbDeviceRemoved, TypeOK, envVars
  <2>3. CASE ~(s # NoSerial /\ hasSerial(s))
    <3>1. Unlisted /\ UNCHANGED isOpen
      BY <1>6, <2>3 DEF usbDeviceRemoved
    <3> QED
      BY <1>6, <2>1, <3>1, BatchType
         DEF usbDeviceRemoved, Unlisted, TypeOK, envVars, mapVars
  <2> QED
    BY <2>2, <2>3
<1>7. CASE periodicRegisterUpdates
  <2>1. posted' \in Seq(Handler)
    BY <1>7, HandlerTaken DEF periodicRegisterUpdates
  <2>2. PICK failing \in SUBSET Polled, changed \in SUBSET Polled :
          /\ Spend(Cardinality(failing \ Silenced))
          /\ removeDevices(failing)
          /\ emitted' = PollEvents(failing, changed)
    BY <1>7 DEF periodicRegisterUpdates
  <2>3. Cardinality(failing \ Silenced) \in Nat
    <3>1. IsFiniteSet(Serials)
      BY FS_Interval DEF Serials
    <3>2. failing \ Silenced \subseteq Serials
      BY DEF Polled, getDeviceList
    <3> QED
      BY <3>1, <3>2, FS_Subset, FS_CardinalityType
  <2>4. faults' \in 0 .. MaxFaults
    BY <2>2, <2>3, SpendType
  <2> QED
    BY <1>7, <2>1, <2>2, <2>4, RemoveType, BatchType
       DEF periodicRegisterUpdates, TypeOK, envVars
<1>8. ASSUME NEW s \in Serials, ReprogramRequest(s) PROVE TypeOK'
  <2> DEFINE d == serialMap[s]
  <2>1. d \in Devs
    BY <1>8 DEF ReprogramRequest, hasSerial, TypeOK
  <2>2. PICK r \in reprogramDevice(d, deviceMap[d], isOpen[d], leaked[d]) :
          /\ isOpen' = [isOpen EXCEPT ![d] = r.open]
          /\ leaked' = [leaked EXCEPT ![d] = r.leaked]
          /\ Spend(r.cost)
    BY <1>8 DEF ReprogramRequest
  <2>3. isOpen[d] \in BOOLEAN /\ leaked[d] \in SUBSET Interfaces
    BY <2>1 DEF TypeOK
  <2>4. r \in ReproResult
    BY <2>1, <2>3, ReprogramResult
  <2>5. faults' \in 0 .. MaxFaults
    BY <2>2, <2>4, SpendType DEF ReproResult
  <2>6. /\ isOpen' \in [Devs -> BOOLEAN]
        /\ leaked' \in [Devs -> SUBSET Interfaces]
    BY <2>2, <2>4 DEF ReproResult, TypeOK
  <2> QED
    BY <1>8, <2>5, <2>6, BatchType
       DEF ReprogramRequest, Unlisted, TypeOK, envVars, loopVars, mapVars
<1>9. ASSUME NEW s \in Serials, ReadRegister(s) PROVE TypeOK'
  <2>1. emitted' \in [Serials -> EventKind]
    BY <1>9, BatchType DEF ReadRegister, EventKind
  <2> QED
    BY <1>9, <2>1
       DEF ReadRegister, TypeOK, envVars, loopVars, mapVars, usbVars
<1>10. CASE UNCHANGED vars
  BY <1>10 DEF vars, TypeOK, envVars, loopVars, mapVars, usbVars
<1> QED
  BY <1>1, <1>2, <1>3, <1>4, <1>5, <1>6, <1>7, <1>8, <1>9, <1>10
     DEF Next, EventLoop

\* The initial state, with no board attached and both maps empty, is typed.
LEMMA TypeInit == Init => TypeOK
BY DMAssumption, BatchType
   DEF Init, TypeOK, HotplugMessage, Handler, Interfaces

\* Type correctness of the manager, for every value of the constants: the
\* maps, handles, queues and counters of DeviceManager.cpp stay well formed.
THEOREM TypeCorrect == Spec => []TypeOK
BY TypeInit, TypeStep, PTL DEF Spec
-----------------------------------------------------------------------------
(* The maps. *)

\* 0 is no serial and NoDev no address.
LEMMA NoneIsNone == NoSerial \notin Serials /\ NoDev \notin Devs
BY DMAssumption DEF NoSerial, Serials

\* Erasing the entries of some serials from both maps keeps them inverse.
LEMMA RemoveKeepsMaps ==
  ASSUME TypeOK, MapsAgree, NEW gone \in SUBSET Serials, removeDevices(gone)
  PROVE  MapsAgree'
<1>1. ASSUME NEW d \in Devs, deviceMap'[d] # NoSerial
      PROVE  serialMap'[deviceMap'[d]] = d
  <2>1. /\ deviceMap[d] # NoSerial /\ deviceMap'[d] = deviceMap[d]
        /\ ~\E s \in gone : serialMap[s] = d
    BY <1>1 DEF removeDevices
  <2>2. serialMap[deviceMap[d]] = d /\ deviceMap[d] \in Serials
    BY <2>1 DEF MapsAgree, hasDevice, TypeOK
  <2> QED
    BY <2>1, <2>2 DEF removeDevices
<1>2. ASSUME NEW s \in Serials, serialMap'[s] # NoDev
      PROVE  deviceMap'[serialMap'[s]] = s
  <2>1. s \notin gone /\ serialMap'[s] = serialMap[s] /\ serialMap[s] # NoDev
    BY <1>2 DEF removeDevices
  <2>2. deviceMap[serialMap[s]] = s /\ serialMap[s] \in Devs
    BY <2>1 DEF MapsAgree, hasSerial, TypeOK
  <2>3. ~\E t \in gone : serialMap[t] = serialMap[s]
    <3> SUFFICES ASSUME NEW t \in gone, serialMap[t] = serialMap[s] PROVE FALSE
      OBVIOUS
    <3>1. deviceMap[serialMap[t]] = t
      BY <2>1 DEF MapsAgree, hasSerial
    <3> QED
      BY <2>1, <2>2, <3>1
  <2> QED
    BY <2>1, <2>2, <2>3 DEF removeDevices
<1> QED
  BY <1>1, <1>2 DEF MapsAgree, hasDevice, hasSerial

\* Every step keeps the two maps inverse.
LEMMA MapsStep == TypeOK /\ MapsAgree /\ [Next]_vars => MapsAgree'
<1> SUFFICES ASSUME TypeOK, MapsAgree, [Next]_vars PROVE MapsAgree'
  OBVIOUS
<1>0. ASSUME UNCHANGED mapVars PROVE MapsAgree'
  BY <1>0 DEF mapVars, MapsAgree, hasDevice, hasSerial
<1>1. ASSUME NEW d \in Devs, NEW s \in Serials, Plug(d, s) PROVE MapsAgree'
  BY <1>0, <1>1 DEF Plug
<1>2. ASSUME NEW d \in Devs, Unplug(d) PROVE MapsAgree'
  BY <1>0, <1>2 DEF Unplug
<1>3. CASE HotplugCallback
  BY <1>0, <1>3 DEF HotplugCallback
<1>4. CASE TimerExpires
  BY <1>0, <1>4 DEF TimerExpires
<1>5. CASE usbDeviceAdded
  <2> DEFINE d == Head(posted).dev
             s == plugged[d]
  <2>1. d \in Devs
    BY <1>5, HandlerTaken DEF usbDeviceAdded
  <2>2. CASE IgnoreArrival(d) \/ Unlisted
    BY <1>0, <2>2 DEF IgnoreArrival, Unlisted
  <2>3. CASE CreateDevice(d) /\ ~Unlisted
    <3>1. /\ s \in Serials
          /\ deviceMap[d] = NoSerial /\ serialMap[s] = NoDev
      BY <2>1, <2>3 DEF CreateDevice, hasDevice, hasSerial, TypeOK
    <3>2. /\ deviceMap' = [deviceMap EXCEPT ![d] = s]
          /\ serialMap' = [serialMap EXCEPT ![s] = d]
      BY <2>3 DEF CreateDevice
    <3>3. ASSUME NEW e \in Devs, deviceMap'[e] # NoSerial
          PROVE  serialMap'[deviceMap'[e]] = e
      <4>1. CASE e = d
        BY <2>1, <3>1, <3>2, <4>1 DEF TypeOK
      <4>2. CASE e # d
        <5>1. deviceMap'[e] = deviceMap[e] /\ deviceMap[e] \in Serials
          BY <3>2, <3>3, <4>2 DEF TypeOK
        <5>2. serialMap[deviceMap[e]] = e
          BY <3>3, <5>1 DEF MapsAgree, hasDevice
        <5>3. deviceMap[e] # s
          BY <3>1, <5>2, NoneIsNone
        <5> QED
          BY <3>2, <5>1, <5>2, <5>3 DEF TypeOK
      <4> QED
        BY <4>1, <4>2
    <3>4. ASSUME NEW t \in Serials, serialMap'[t] # NoDev
          PROVE  deviceMap'[serialMap'[t]] = t
      <4>1. CASE t = s
        BY <2>1, <3>1, <3>2, <4>1 DEF TypeOK
      <4>2. CASE t # s
        <5>1. serialMap'[t] = serialMap[t] /\ serialMap[t] \in Devs
          BY <3>2, <3>4, <4>2 DEF TypeOK
        <5>2. deviceMap[serialMap[t]] = t
          BY <3>4, <5>1 DEF MapsAgree, hasSerial
        <5>3. serialMap[t] # d
          BY <3>1, <5>2, NoneIsNone
        <5> QED
          BY <3>2, <5>1, <5>2, <5>3 DEF TypeOK
      <4> QED
        BY <4>1, <4>2
    <3> QED
      BY <3>3, <3>4 DEF MapsAgree, hasDevice, hasSerial
  <2> QED
    BY <1>5, <2>2, <2>3 DEF usbDeviceAdded
<1>6. CASE usbDeviceRemoved
  <2> DEFINE s == deviceMap[Head(posted).dev]
  <2>1. CASE s # NoSerial /\ hasSerial(s)
    <3>1. {s} \in SUBSET Serials
      BY <1>6, <2>1, HandlerTaken DEF usbDeviceRemoved, TypeOK
    <3>2. removeDevices({s})
      BY <1>6, <2>1 DEF usbDeviceRemoved
    <3> QED
      BY <3>1, <3>2, RemoveKeepsMaps
  <2>2. CASE ~(s # NoSerial /\ hasSerial(s))
    BY <1>0, <1>6, <2>2 DEF usbDeviceRemoved, Unlisted
  <2> QED
    BY <2>1, <2>2
<1>7. CASE periodicRegisterUpdates
  <2>1. PICK failing \in SUBSET Polled : removeDevices(failing)
    BY <1>7 DEF periodicRegisterUpdates
  <2>2. failing \in SUBSET Serials
    BY DEF Polled, getDeviceList
  <2> QED
    BY <2>1, <2>2, RemoveKeepsMaps
<1>8. ASSUME NEW s \in Serials, ReprogramRequest(s) PROVE MapsAgree'
  BY <1>0, <1>8 DEF ReprogramRequest, Unlisted
<1>9. ASSUME NEW s \in Serials, ReadRegister(s) PROVE MapsAgree'
  BY <1>0, <1>9 DEF ReadRegister
<1>10. CASE UNCHANGED vars
  BY <1>0, <1>10 DEF vars
<1> QED
  BY <1>1, <1>2, <1>3, <1>4, <1>5, <1>6, <1>7, <1>8, <1>9, <1>10
     DEF Next, EventLoop
-----------------------------------------------------------------------------
(* Handles. *)

\* A removal closes what it removes: what stays open stays listed.
LEMMA RemoveKeepsOwned ==
  ASSUME TypeOK, OpenIsOwned, NEW gone, removeDevices(gone), leaked' = leaked
  PROVE  OpenIsOwned'
BY DEF OpenIsOwned, removeDevices, hasDevice, TypeOK

\* Every step keeps open handles owned.
LEMMA OpenStep == TypeOK /\ MapsAgree /\ OpenIsOwned /\ [Next]_vars => OpenIsOwned'
<1> SUFFICES ASSUME TypeOK, MapsAgree, OpenIsOwned, [Next]_vars PROVE OpenIsOwned'
  OBVIOUS
<1>0. ASSUME UNCHANGED <<deviceMap, isOpen, leaked>> PROVE OpenIsOwned'
  BY <1>0 DEF OpenIsOwned, hasDevice
<1>1. ASSUME NEW d \in Devs, NEW s \in Serials, Plug(d, s) PROVE OpenIsOwned'
  BY <1>0, <1>1 DEF Plug, mapVars, usbVars
<1>2. ASSUME NEW d \in Devs, Unplug(d) PROVE OpenIsOwned'
  BY <1>0, <1>2 DEF Unplug, mapVars, usbVars
<1>3. CASE HotplugCallback
  BY <1>0, <1>3 DEF HotplugCallback, mapVars, usbVars
<1>4. CASE TimerExpires
  BY <1>0, <1>4 DEF TimerExpires, mapVars, usbVars
<1>5. CASE usbDeviceAdded
  <2> DEFINE d == Head(posted).dev
             s == plugged[d]
  <2>1. d \in Devs
    BY <1>5, HandlerTaken DEF usbDeviceAdded
  <2>2. CASE IgnoreArrival(d)
    BY <1>0, <2>2 DEF IgnoreArrival, Unlisted, mapVars
  <2>3. CASE CreateDevice(d)
    <3>1. s \in Serials /\ leaked[d] \in SUBSET Interfaces
      BY <2>1, <2>3 DEF CreateDevice, TypeOK
    <3>2. PICK c \in Creating(d, s) :
            /\ isOpen' = [isOpen EXCEPT ![d] = c.open]
            /\ leaked' = [leaked EXCEPT ![d] = c.leaked]
            /\ IF c.added THEN deviceMap' = [deviceMap EXCEPT ![d] = s]
                          ELSE deviceMap' = deviceMap
      BY <2>3 DEF CreateDevice, Unlisted, mapVars
    <3>3. c \in CreateResult /\ (c.open => c.added /\ c.leaked = {})
      BY <2>1, <3>1, CreatingResult
    <3>4. ASSUME NEW e \in Devs, isOpen'[e]
          PROVE  deviceMap'[e] # NoSerial /\ leaked'[e] = {}
      <4>1. CASE e = d
        BY <2>1, <3>1, <3>2, <3>3, <3>4, <4>1, NoneIsNone DEF TypeOK
      <4>2. CASE e # d
        <5>1. isOpen[e] /\ leaked'[e] = leaked[e] /\ deviceMap'[e] = deviceMap[e]
          BY <3>2, <3>4, <4>2 DEF TypeOK
        <5> QED
          BY <5>1 DEF OpenIsOwned, hasDevice
      <4> QED
        BY <4>1, <4>2
    <3> QED
      BY <3>4 DEF OpenIsOwned, hasDevice
  <2> QED
    BY <1>5, <2>2, <2>3 DEF usbDeviceAdded
<1>6. CASE usbDeviceRemoved
  BY <1>0, <1>6, RemoveKeepsOwned DEF usbDeviceRemoved, Unlisted, mapVars
<1>7. CASE periodicRegisterUpdates
  BY <1>7, RemoveKeepsOwned DEF periodicRegisterUpdates
<1>8. ASSUME NEW s \in Serials, ReprogramRequest(s) PROVE OpenIsOwned'
  <2> DEFINE d == serialMap[s]
  <2>1. d \in Devs /\ deviceMap[d] # NoSerial
    BY <1>8, NoneIsNone DEF ReprogramRequest, hasSerial, MapsAgree, TypeOK
  <2>2. PICK r \in reprogramDevice(d, deviceMap[d], isOpen[d], leaked[d]) :
          /\ isOpen' = [isOpen EXCEPT ![d] = r.open]
          /\ leaked' = [leaked EXCEPT ![d] = r.leaked]
    BY <1>8 DEF ReprogramRequest
  <2>3. /\ isOpen[d] \in BOOLEAN /\ leaked[d] \in SUBSET Interfaces
        /\ isOpen[d] => leaked[d] = {}
    BY <2>1 DEF TypeOK, OpenIsOwned
  <2>4. r.open => r.leaked = {}
    BY <2>1, <2>3, ReprogramResult
  <2>5. deviceMap' = deviceMap
    BY <1>8 DEF ReprogramRequest, Unlisted, mapVars
  <2> QED
    BY <2>1, <2>2, <2>4, <2>5 DEF OpenIsOwned, hasDevice, TypeOK
<1>9. ASSUME NEW s \in Serials, ReadRegister(s) PROVE OpenIsOwned'
  BY <1>0, <1>9 DEF ReadRegister, mapVars, usbVars
<1>10. CASE UNCHANGED vars
  BY <1>0, <1>10 DEF vars, mapVars, usbVars
<1> QED
  BY <1>1, <1>2, <1>3, <1>4, <1>5, <1>6, <1>7, <1>8, <1>9, <1>10
     DEF Next, EventLoop

-----------------------------------------------------------------------------
(* Departures. *)

Departure(d) == [kind |-> "removed", dev |-> d]

\* A handler that is not the departure of d leaves it pending.
LEMMA StaysPending ==
  ASSUME TypeOK, NEW d, DeparturePending(d), NEW kind, NextHandler(kind),
         Head(posted) # Departure(d), hotplug' = hotplug
  PROVE  DeparturePending(d)'
<1>1. posted \in Seq(Handler) /\ posted # <<>> /\ posted' = Tail(posted)
  BY DEF TypeOK, NextHandler
<1>2. CASE Holds(hotplug, Departure(d))
  BY <1>2 DEF DeparturePending, Holds, Departure
<1>3. CASE Holds(posted, Departure(d))
  <2>1. Holds(Tail(posted), Departure(d))
    BY <1>1, <1>3, HoldsTail
  <2> QED
    BY <1>1, <2>1 DEF DeparturePending, Holds, Departure
<1> QED
  BY <1>2, <1>3, PendingIsHeld DEF Departure

\* Every step keeps the listing current up to pending departures.
LEMMA CurrentStep ==
  TypeOK /\ MapsAgree /\ ListingIsCurrent /\ [Next]_vars => ListingIsCurrent'
<1> SUFFICES ASSUME TypeOK, MapsAgree, ListingIsCurrent, [Next]_vars,
                    NEW e \in Devs, deviceMap'[e] # NoSerial,
                    plugged'[e] # deviceMap'[e]
             PROVE  DeparturePending(e)'
  BY DEF ListingIsCurrent, hasDevice
<1>0. ASSUME deviceMap[e] # NoSerial, plugged[e] # deviceMap[e]
      PROVE  DeparturePending(e)
  BY <1>0 DEF ListingIsCurrent, hasDevice
<1>1. ASSUME NEW d \in Devs, NEW s \in Serials, Plug(d, s)
      PROVE  DeparturePending(e)'
  <2>1. deviceMap' = deviceMap /\ posted' = posted
    BY <1>1 DEF Plug, mapVars, loopVars
  <2>2. e = d => plugged[e] = NoSerial
    BY <1>1 DEF Plug, Allocated
  <2>3. e # d => plugged'[e] = plugged[e]
    BY <1>1 DEF Plug, TypeOK
  <2>4. DeparturePending(e)
    BY <1>0, <2>1, <2>2, <2>3
  <2>5. [kind |-> "added", dev |-> d] \in HotplugMessage
    BY DEF HotplugMessage
  <2>6. Holds(hotplug, Departure(e)) => Holds(hotplug', Departure(e))
    BY <1>1, <2>5, HoldsAppend DEF Plug, TypeOK
  <2> QED
    BY <2>1, <2>4, <2>6 DEF DeparturePending, Holds, Departure
<1>2. ASSUME NEW d \in Devs, Unplug(d) PROVE DeparturePending(e)'
  <2>1. deviceMap' = deviceMap /\ posted' = posted
    BY <1>2 DEF Unplug, mapVars, loopVars
  <2>2. Departure(d) \in HotplugMessage
    BY DEF HotplugMessage, Departure
  <2>3. /\ Holds(hotplug, Departure(e)) => Holds(hotplug', Departure(e))
        /\ Holds(hotplug', Departure(d))
    BY <1>2, <2>2, HoldsAppend DEF Unplug, TypeOK, Departure
  <2>4. e # d => plugged'[e] = plugged[e]
    BY <1>2 DEF Unplug, TypeOK
  <2>5. e # d => DeparturePending(e)
    BY <1>0, <2>1, <2>4
  <2> QED
    BY <2>1, <2>3, <2>5 DEF DeparturePending, Holds, Departure
<1>3. CASE HotplugCallback
  <2>1. deviceMap' = deviceMap /\ plugged' = plugged
    BY <1>3 DEF HotplugCallback, mapVars
  <2>2. DeparturePending(e)
    BY <1>0, <2>1
  <2>3. /\ hotplug \in Seq(HotplugMessage) /\ hotplug # <<>>
        /\ hotplug' = Tail(hotplug) /\ posted' = Append(posted, Head(hotplug))
        /\ posted \in Seq(Handler)
    BY <1>3 DEF HotplugCallback, TypeOK
  <2>4. Head(hotplug) \in Handler
    <3>1. Head(hotplug) \in HotplugMessage
      BY <2>3
    <3> QED
      BY <3>1 DEF Handler, HotplugMessage
  <2>5. /\ Holds(posted, Departure(e)) => Holds(posted', Departure(e))
        /\ Holds(posted', Head(hotplug))
    BY <2>3, <2>4, HoldsAppend
  <2>6. Holds(hotplug, Departure(e)) =>
          Holds(hotplug', Departure(e)) \/ Head(hotplug) = Departure(e)
    BY <2>3, HoldsTail
  <2> QED
    BY <2>2, <2>5, <2>6 DEF DeparturePending, Holds, Departure
<1>4. CASE TimerExpires
  <2>1. deviceMap' = deviceMap /\ plugged' = plugged /\ hotplug' = hotplug
    BY <1>4 DEF TimerExpires, mapVars, envVars
  <2>2. [kind |-> "poll", dev |-> NoDev] \in Handler
    BY DEF Handler
  <2>3. Holds(posted, Departure(e)) => Holds(posted', Departure(e))
    BY <1>4, <2>2, HoldsAppend DEF TimerExpires, TypeOK
  <2> QED
    BY <1>0, <2>1, <2>3 DEF DeparturePending, Holds, Departure
<1>5. CASE usbDeviceAdded
  <2> DEFINE d == Head(posted).dev
  <2>1. /\ d \in Devs /\ NextHandler("added")
        /\ plugged' = plugged /\ hotplug' = hotplug
    BY <1>5, HandlerTaken DEF usbDeviceAdded, envVars
  <2>2. Head(posted) # Departure(e)
    BY <2>1 DEF NextHandler, Departure
  <2>3. deviceMap' = deviceMap \/ deviceMap' = [deviceMap EXCEPT ![d] = plugged[d]]
    BY <1>5 DEF usbDeviceAdded, IgnoreArrival, CreateDevice, Unlisted, mapVars
  <2>4. DeparturePending(e)
    BY <1>0, <2>1, <2>3 DEF TypeOK
  <2> QED
    BY <2>1, <2>2, <2>4, StaysPending
<1>6. CASE usbDeviceRemoved
  <2> DEFINE d == Head(posted).dev
             s == deviceMap[d]
  <2>1. /\ d \in Devs /\ NextHandler("removed")
        /\ plugged' = plugged /\ hotplug' = hotplug
    BY <1>6, HandlerTaken DEF usbDeviceRemoved, envVars
  <2>2. deviceMap[e] # NoSerial /\ deviceMap'[e] = deviceMap[e]
    BY <1>6 DEF usbDeviceRemoved, removeDevices, Unlisted, mapVars
  <2>3. e # d
    <3> SUFFICES ASSUME e = d PROVE FALSE
      OBVIOUS
    <3>1. s \in Serials /\ serialMap[s] = d
      BY <2>1, <2>2 DEF MapsAgree, hasDevice, TypeOK
    <3>2. removeDevices({s})
      BY <1>6, <2>1, <2>2, <3>1, NoneIsNone DEF usbDeviceRemoved, hasSerial
    <3>3. deviceMap'[d] = NoSerial
      BY <2>1, <3>1, <3>2 DEF removeDevices
    <3> QED
      BY <2>2, <3>3
  <2>4. Head(posted) # Departure(e)
    BY <2>3 DEF Departure
  <2>5. DeparturePending(e)
    BY <1>0, <2>1, <2>2
  <2> QED
    BY <2>1, <2>4, <2>5, StaysPending
<1>7. CASE periodicRegisterUpdates
  <2>1. NextHandler("poll") /\ plugged' = plugged /\ hotplug' = hotplug
    BY <1>7 DEF periodicRegisterUpdates, envVars
  <2>2. deviceMap'[e] = deviceMap[e]
    BY <1>7 DEF periodicRegisterUpdates, removeDevices
  <2>3. Head(posted) # Departure(e)
    BY <2>1 DEF NextHandler, Departure
  <2> QED
    BY <1>0, <2>1, <2>2, <2>3, StaysPending
<1>8. ASSUME NEW s \in Serials, ReprogramRequest(s) PROVE DeparturePending(e)'
  BY <1>0, <1>8
     DEF ReprogramRequest, Unlisted, mapVars, envVars, loopVars, DeparturePending
<1>9. ASSUME NEW s \in Serials, ReadRegister(s) PROVE DeparturePending(e)'
  BY <1>0, <1>9 DEF ReadRegister, mapVars, envVars, loopVars, DeparturePending
<1>10. CASE UNCHANGED vars
  BY <1>0, <1>10 DEF vars, mapVars, envVars, loopVars, DeparturePending
<1> QED
  BY <1>1, <1>2, <1>3, <1>4, <1>5, <1>6, <1>7, <1>8, <1>9, <1>10
     DEF Next, EventLoop
-----------------------------------------------------------------------------
(* The inductive invariant and what follows from it. *)

LEMMA InvInit == Init => IInv
<1> SUFFICES ASSUME Init PROVE IInv
  OBVIOUS
<1>1. TypeOK
  BY TypeInit
<1>2. MapsAgree
  BY DEF Init, MapsAgree, hasDevice, hasSerial
<1>3. OpenIsOwned
  BY DEF Init, OpenIsOwned
<1>4. ListingIsCurrent
  BY DEF Init, ListingIsCurrent, hasDevice
<1> QED
  BY <1>1, <1>2, <1>3, <1>4 DEF IInv

LEMMA InvStep == IInv /\ [Next]_vars => IInv'
BY TypeStep, MapsStep, OpenStep, CurrentStep DEF IInv

LEMMA Invariance == Spec => []IInv
BY InvInit, InvStep, PTL DEF Spec

\* m_device_map and m_serial_map are inverse to each other in every reachable
\* state, however arrivals, departures, polls and requests interleave.
THEOREM MapsAlwaysAgree == Spec => []MapsAgree
<1>1. IInv => MapsAgree
  BY DEF IInv
<1> QED
  BY <1>1, Invariance, PTL

\* No handle is open without a listed device, and an open device shares its
\* interfaces with no lost handle, whichever USB operations fail.
THEOREM OpenAlwaysOwned == Spec => []OpenIsOwned
<1>1. IInv => OpenIsOwned
  BY DEF IInv
<1> QED
  BY <1>1, Invariance, PTL

\* A listed serial is that of the attached board unless its removal is queued,
\* even when libusb reuses the address in a posted handler.
THEOREM ListingAlwaysCurrent == Spec => []ListingIsCurrent
<1>1. IInv => ListingIsCurrent
  BY DEF IInv
<1> QED
  BY <1>1, Invariance, PTL

-----------------------------------------------------------------------------
(* The manager implements the registry. *)

\* With unchanged maps and no event, the registry stutters or is silent.
LEMMA SilentStep ==
  ASSUME UNCHANGED mapVars, emitted' = NoEvents
  PROVE  Registry!RegistryNext
BY DEF mapVars, NoEvents, Registry!RegistryNext, Registry!Silent,
       Registry!NoEvents, Registry!Serials, Serials, getDeviceList, hasSerial

\* Erasing the serials gone and reporting the serials changed is an update.
LEMMA UpdateStep ==
  ASSUME TypeOK,
         NEW gone \in SUBSET getDeviceList, NEW changed \in SUBSET getDeviceList,
         gone \cap changed = {}, emitted' = PollEvents(gone, changed),
         serialMap' = [s \in Serials |-> IF s \in gone THEN NoDev ELSE serialMap[s]]
  PROVE  Registry!RegistryNext
<1>1. getDeviceList' = getDeviceList \ gone
  BY DEF getDeviceList, hasSerial
<1>2. Registry!Update(gone, changed)
  BY <1>1 DEF Registry!Update, PollEvents, Registry!PollEvents, Serials,
              Registry!Serials
<1> QED
  BY <1>2 DEF Registry!RegistryNext

\* Every step of the manager is a step of the registry.
LEMMA RegistryStep ==
  IInv /\ [Next]_vars => [Registry!RegistryNext]_(Registry!regVars)
<1> SUFFICES ASSUME IInv, [Next]_vars
             PROVE  Registry!RegistryNext \/ UNCHANGED Registry!regVars
  OBVIOUS
<1>0. TypeOK /\ MapsAgree
  BY DEF IInv
<1>1. ASSUME NEW d \in Devs, NEW s \in Serials, Plug(d, s)
      PROVE  Registry!RegistryNext
  BY <1>1, SilentStep DEF Plug
<1>2. ASSUME NEW d \in Devs, Unplug(d) PROVE Registry!RegistryNext
  BY <1>2, SilentStep DEF Unplug
<1>3. CASE HotplugCallback
  BY <1>3, SilentStep DEF HotplugCallback
<1>4. CASE TimerExpires
  BY <1>4, SilentStep DEF TimerExpires
<1>5. CASE usbDeviceAdded
  <2> DEFINE d == Head(posted).dev
             s == plugged[d]
  <2>1. d \in Devs
    BY <1>0, <1>5, HandlerTaken DEF usbDeviceAdded
  <2>2. CASE Unlisted
    BY <2>2, SilentStep DEF Unlisted
  <2>3. CASE ~Unlisted
    <3>1. /\ s \in Serials /\ ~hasSerial(s)
          /\ serialMap' = [serialMap EXCEPT ![s] = d]
          /\ emitted' = OneEvent(s, "added")
      BY <1>0, <1>5, <2>1, <2>3
         DEF usbDeviceAdded, IgnoreArrival, CreateDevice, TypeOK
    <3>2. getDeviceList' = getDeviceList \cup {s}
      BY <1>0, <2>1, <3>1, NoneIsNone DEF getDeviceList, hasSerial, TypeOK
    <3>3. Registry!AddDevice(s)
      BY <3>1, <3>2 DEF Registry!AddDevice, OneEvent, Registry!OneEvent,
                        getDeviceList, Serials, Registry!Serials
    <3> QED
      BY <3>1, <3>3 DEF Registry!RegistryNext, Serials, Registry!Serials
  <2> QED
    BY <2>2, <2>3
<1>6. CASE usbDeviceRemoved
  <2> DEFINE s == deviceMap[Head(posted).dev]
  <2>1. CASE s # NoSerial /\ hasSerial(s)
    <3>1. removeDevices({s}) /\ emitted' = OneEvent(s, "removed")
      BY <1>6, <2>1 DEF usbDeviceRemoved
    <3>2. s \in Serials
      BY <1>0, <1>6, <2>1, HandlerTaken DEF usbDeviceRemoved, TypeOK
    <3>3. OneEvent(s, "removed") = PollEvents({s}, {})
      BY DEF OneEvent, PollEvents
    <3>4. {s} \in SUBSET getDeviceList
      BY <2>1, <3>2 DEF getDeviceList
    <3> QED
      BY <1>0, <3>1, <3>3, <3>4, UpdateStep DEF removeDevices
  <2>2. CASE ~(s # NoSerial /\ hasSerial(s))
    BY <1>6, <2>2, SilentStep DEF usbDeviceRemoved, Unlisted
  <2> QED
    BY <2>1, <2>2
<1>7. CASE periodicRegisterUpdates
  <2>1. PICK failing \in SUBSET Polled, changed \in SUBSET Polled :
          /\ removeDevices(failing) /\ emitted' = PollEvents(failing, changed)
          /\ failing \cap changed = {}
    BY <1>7 DEF periodicRegisterUpdates
  <2>2. /\ failing \in SUBSET getDeviceList /\ changed \in SUBSET getDeviceList
    BY DEF Polled
  <2> QED
    BY <1>0, <2>1, <2>2, UpdateStep DEF removeDevices
<1>8. ASSUME NEW s \in Serials, ReprogramRequest(s) PROVE Registry!RegistryNext
  BY <1>8, SilentStep DEF ReprogramRequest, Unlisted
<1>9. ASSUME NEW s \in Serials, ReadRegister(s) PROVE Registry!RegistryNext
  <2>1. PICK kind \in {"none", "changed"} : emitted' = OneEvent(s, kind)
    BY <1>9 DEF ReadRegister
  <2>2. CASE kind = "none"
    <3>1. OneEvent(s, "none") = NoEvents
      BY DEF OneEvent, NoEvents
    <3> QED
      BY <1>9, <2>1, <2>2, <3>1, SilentStep DEF ReadRegister
  <2>3. CASE kind = "changed"
    <3>1. OneEvent(s, "changed") = PollEvents({}, {s})
      BY DEF OneEvent, PollEvents
    <3>2. s \in getDeviceList
      BY <1>9 DEF ReadRegister, getDeviceList
    <3>3. serialMap' = [t \in Serials |-> IF t \in {} THEN NoDev ELSE serialMap[t]]
      BY <1>0, <1>9 DEF ReadRegister, mapVars, TypeOK
    <3> QED
      BY <1>0, <2>1, <2>3, <3>1, <3>2, <3>3, UpdateStep
  <2> QED
    BY <2>1, <2>2, <2>3
<1>10. CASE UNCHANGED vars
  BY <1>10 DEF vars, mapVars, Registry!regVars, getDeviceList, hasSerial
<1> QED
  BY <1>1, <1>2, <1>3, <1>4, <1>5, <1>6, <1>7, <1>8, <1>9, <1>10
     DEF Next, EventLoop

\* The added, removed and changed callbacks of DeviceManager.cpp tell clients
\* exactly how the device list changes, for every value of the constants.
THEOREM RegistryImplemented == Spec => ImplementsRegistry
<1>1. Init => Registry!RegistryInit
  BY DEF Init, Registry!RegistryInit, getDeviceList, hasSerial, NoEvents,
         Registry!NoEvents, Serials, Registry!Serials
<1> QED
  BY <1>1, RegistryStep, Invariance, PTL
     DEF Spec, ImplementsRegistry, Registry!RegistrySpec
=============================================================================
