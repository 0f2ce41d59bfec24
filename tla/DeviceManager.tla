---------------------------- MODULE DeviceManager ----------------------------
(***************************************************************************)
(* The device manager of the server (src/devices/DeviceManager.cpp and     *)
(* Device.cpp) in its environment: boards that are plugged and unplugged,  *)
(* the hotplug messages of libusb, and the FIFO queue of handlers that the *)
(* single event-loop thread runs one after the other.                      *)
(*                                                                         *)
(* Devs are libusb_device addresses.  libusb reuses the address of a freed *)
(* device, so a handler that was posted with a raw pointer may meet        *)
(* another board, or no board, at that address when it runs.               *)
(***************************************************************************)
EXTENDS DeviceEvents, Sequences, FiniteSets

CONSTANTS
  Devs,          \* addresses of libusb_device objects
  NoDev,         \* no address
  Descriptions,  \* the configured descriptions, in file order
  MaxPlugs,      \* bound: how often a board is plugged in
  MaxFaults      \* bound: how many USB operations fail on a healthy board

\* A description matches the serials that start with its prefix; it may name
\* a bitfile and a list of watched registers.
DescriptionRecord ==
  [matches : SUBSET Serials, bitfile : BOOLEAN, watch : BOOLEAN]

ASSUME DMAssumption ==
  /\ NoDev \notin Devs
  /\ NumSerials \in Nat
  /\ Descriptions \in Seq(DescriptionRecord)
  /\ MaxPlugs \in Nat
  /\ MaxFaults \in Nat

VARIABLES
  plugged,    \* Devs -> the serial of the board at that address, or NoSerial
  hotplug,    \* libusb's hotplug messages that no callback was run for yet
  posted,     \* handlers posted to the io_service, oldest first
  timer,      \* m_timer: "armed", or "expired" with its handler in posted
  deviceMap,  \* m_device_map: Devs -> name of the Device there, or NoSerial
  serialMap,  \* m_serial_map: Serials -> address of that Device, or NoDev
  isOpen,     \* Devs -> m_ftdi of the Device at that address is not null
  leaked,     \* Devs -> interfaces claimed by handles nothing refers to
  emitted,    \* the callbacks run by the latest step, per serial
  plugs,      \* number of plug-ins so far
  faults      \* number of failures on healthy boards so far

envVars == <<plugged, hotplug, plugs>>
loopVars == <<posted, timer>>
mapVars == <<deviceMap, serialMap>>
usbVars == <<isOpen, leaked, faults>>
vars == <<envVars, loopVars, mapVars, usbVars, emitted>>

Interfaces == {"A", "B"}
HotplugMessage == [kind : {"added", "removed"}, dev : Devs]
Handler == [kind : {"added", "removed"}, dev : Devs] \cup
           [kind : {"poll"}, dev : {NoDev}]

-----------------------------------------------------------------------------
(* The descriptions. *)

Matching(s) == {i \in DOMAIN Descriptions : s \in Descriptions[i].matches}

\* The index of the first description that matches s.
find_description(s) ==
  CHOOSE i \in Matching(s) : \A j \in Matching(s) : i <= j

Described(s) == Matching(s) # {}
HasBitfile(s) == Described(s) /\ Descriptions[find_description(s)].bitfile
IsWatched(s) == Described(s) /\ Descriptions[find_description(s)].watch

-----------------------------------------------------------------------------
(* The maps. *)

hasDevice(d) == deviceMap[d] # NoSerial
hasSerial(s) == serialMap[s] # NoDev
getDeviceList == {s \in Serials : hasSerial(s)}

\* libusb keeps the object at an address while the board is attached, while
\* its departure was not dispatched, and while a handle on it is open.
Allocated(d) ==
  \/ plugged[d] # NoSerial
  \/ \E i \in DOMAIN hotplug : hotplug[i].dev = d
  \/ isOpen[d]
  \/ leaked[d] # {}

-----------------------------------------------------------------------------
(* USB operations.  Each yields the set of its possible results; a failure *)
(* that a healthy board need not show costs one fault.                     *)

\* Device::open on a closed device that has the interfaces lk leaked.  The
\* error paths after the claim of interface A and before the reset of the
\* device release the context of B only.
Opening(d, lk) ==
  IF plugged[d] = NoSerial \/ "A" \in lk
    THEN {[open |-> FALSE, leaked |-> lk, cost |-> 0]}
    ELSE IF "B" \in lk
      THEN {[open |-> FALSE, leaked |-> lk \cup {"A"}, cost |-> 0],
            [open |-> FALSE, leaked |-> lk, cost |-> 1]}
      ELSE {[open |-> TRUE, leaked |-> lk, cost |-> 0],
            [open |-> FALSE, leaked |-> lk, cost |-> 1],
            [open |-> FALSE, leaked |-> lk \cup {"A"}, cost |-> 1]}

\* Seeded fault: the programmer takes the interface after B.
ProgrammingWrongInterface(d, lk) ==
  IF plugged[d] = NoSerial \/ "C" \in lk
    THEN {[done |-> FALSE, leaked |-> lk, cost |-> 0]}
    ELSE {[done |-> TRUE, leaked |-> lk, cost |-> 0],
          [done |-> FALSE, leaked |-> lk \cup {"C"}, cost |-> 1]}

\* DeviceProgrammer and array_program on a device with interface B free or
\* leaked.  An IOFtdi whose initialisation fails after the claim of B throws
\* from its constructor and leaves the handle open.
Programming(d, lk) ==
  IF plugged[d] = NoSerial \/ "B" \in lk
    THEN {[done |-> FALSE, leaked |-> lk, cost |-> 0]}
    ELSE {[done |-> TRUE, leaked |-> lk, cost |-> 0],
          [done |-> FALSE, leaked |-> lk, cost |-> 1],
          [done |-> FALSE, leaked |-> lk \cup {"B"}, cost |-> 1]}

\* reprogramDevice on the device at d with the serial s: nothing to do
\* without a bitfile; otherwise close, program, and open again in any case.
reprogramDevice(d, s, open, lk) ==
  IF ~HasBitfile(s)
    THEN {[result |-> "false", open |-> open, leaked |-> lk, cost |-> 0]}
    ELSE UNION {
      {[result |-> IF p.done /\ o.open THEN "true" ELSE "throws",
        open |-> o.open, leaked |-> o.leaked, cost |-> p.cost + o.cost]
        : o \in Opening(d, p.leaked)} : p \in Programming(d, lk)}

\* Seeded fault: a device whose programming failed is not destroyed.
CreatingWithoutDestructor(d, s) ==
  UNION {
    IF ~o.open
      THEN {[added |-> FALSE, open |-> FALSE, leaked |-> o.leaked, cost |-> o.cost]}
      ELSE {[added |-> r.result # "throws", open |-> r.open,
             leaked |-> r.leaked, cost |-> o.cost + r.cost]
             : r \in reprogramDevice(d, s, TRUE, o.leaked)}
    : o \in Opening(d, leaked[d])}

\* make_shared<Device> followed by reprogramDevice.  A device that is not
\* handed to the maps is destroyed, which closes it.
Creating(d, s) ==
  UNION {
    IF ~o.open
      THEN {[added |-> FALSE, open |-> FALSE, leaked |-> o.leaked, cost |-> o.cost]}
      ELSE {[added |-> r.result # "throws",
             open |-> r.open /\ r.result # "throws",
             leaked |-> r.leaked, cost |-> o.cost + r.cost]
             : r \in reprogramDevice(d, s, TRUE, o.leaked)}
    : o \in Opening(d, leaked[d])}

Spend(cost) == faults + cost <= MaxFaults /\ faults' = faults + cost
-----------------------------------------------------------------------------
(* The environment: boards come and go; libusb queues a message and, from  *)
(* within any later transfer or from the event loop, runs the callback     *)
(* that posts a handler.                                                   *)

Plug(d, s) ==
  /\ plugs < MaxPlugs
  /\ ~Allocated(d)
  /\ plugged' = [plugged EXCEPT ![d] = s]
  /\ hotplug' = Append(hotplug, [kind |-> "added", dev |-> d])
  /\ plugs' = plugs + 1
  /\ emitted' = NoEvents
  /\ UNCHANGED <<loopVars, mapVars, usbVars>>

Unplug(d) ==
  /\ plugged[d] # NoSerial
  /\ plugged' = [plugged EXCEPT ![d] = NoSerial]
  /\ hotplug' = Append(hotplug, [kind |-> "removed", dev |-> d])
  /\ emitted' = NoEvents
  /\ UNCHANGED <<plugs, loopVars, mapVars, usbVars>>

\* Seeded fault: the newest hotplug event is handled first.
HotplugCallbackNewestFirst ==
  /\ hotplug # <<>>
  /\ posted' = <<Head(hotplug)>> \o posted
  /\ hotplug' = Tail(hotplug)
  /\ emitted' = NoEvents
  /\ UNCHANGED <<plugged, plugs, timer, mapVars, usbVars>>

\* The hotplug callback defers to the event loop.
HotplugCallback ==
  /\ hotplug # <<>>
  /\ posted' = Append(posted, Head(hotplug))
  /\ hotplug' = Tail(hotplug)
  /\ emitted' = NoEvents
  /\ UNCHANGED <<plugged, plugs, timer, mapVars, usbVars>>

\* The timer queues its handler behind those posted before.
TimerExpires ==
  /\ timer = "armed"
  /\ timer' = "expired"
  /\ posted' = Append(posted, [kind |-> "poll", dev |-> NoDev])
  /\ emitted' = NoEvents
  /\ UNCHANGED <<envVars, mapVars, usbVars>>

-----------------------------------------------------------------------------
(* The handlers of the event loop. *)

NextHandler(kind) ==
  /\ posted # <<>>
  /\ Head(posted).kind = kind
  /\ posted' = Tail(posted)

Unlisted == emitted' = NoEvents /\ UNCHANGED mapVars

\* An arrival that is not acted upon: a device already known, a board that
\* does not answer with its strings, a duplicate serial, no description.
IgnoreArrival(d) ==
  /\ \/ hasDevice(d) /\ Spend(0)
     \/ ~hasDevice(d) /\ Spend(IF plugged[d] = NoSerial THEN 0 ELSE 1)
     \/ /\ ~hasDevice(d) /\ plugged[d] # NoSerial
        /\ hasSerial(plugged[d]) \/ ~Described(plugged[d])
        /\ Spend(0)
  /\ Unlisted
  /\ UNCHANGED <<isOpen, leaked>>

\* Open, program, enter into both maps, tell the clients, watch registers.
CreateDevice(d) ==
  LET s == plugged[d] IN
  /\ ~hasDevice(d) /\ s # NoSerial
  /\ ~hasSerial(s) /\ Described(s)
  /\ \E c \in Creating(d, s) :
       /\ isOpen' = [isOpen EXCEPT ![d] = c.open]
       /\ leaked' = [leaked EXCEPT ![d] = c.leaked]
       /\ Spend(c.cost)
       /\ IF c.added
            THEN /\ deviceMap' = [deviceMap EXCEPT ![d] = s]
                 /\ serialMap' = [serialMap EXCEPT ![s] = d]
                 /\ emitted' = OneEvent(s, "added")
            ELSE Unlisted

usbDeviceAdded ==
  /\ NextHandler("added")
  /\ \/ IgnoreArrival(Head(posted).dev)
     \/ CreateDevice(Head(posted).dev)
  /\ UNCHANGED <<envVars, timer>>

\* Seeded fault: only the serial is erased.
removeDevicesKeepingAddress(gone) ==
  /\ serialMap' = [s \in Serials |-> IF s \in gone THEN NoDev ELSE serialMap[s]]
  /\ UNCHANGED <<deviceMap, isOpen>>

\* Drop the devices with the serials gone from both maps.  The last
\* reference dies with the handler, and the destructor closes the device.
removeDevices(gone) ==
  LET dropped(d) == \E s \in gone : serialMap[s] = d IN
  /\ serialMap' = [s \in Serials |-> IF s \in gone THEN NoDev ELSE serialMap[s]]
  /\ deviceMap' = [d \in Devs |-> IF dropped(d) THEN NoSerial ELSE deviceMap[d]]
  /\ isOpen' = [d \in Devs |-> isOpen[d] /\ ~dropped(d)]

\* Seeded fault: a departure only counts for a device that is open.
usbDeviceRemovedIfOpen ==
  /\ NextHandler("removed")
  /\ LET s == deviceMap[Head(posted).dev] IN
       IF s # NoSerial /\ hasSerial(s) /\ isOpen[Head(posted).dev]
         THEN removeDevices({s}) /\ emitted' = OneEvent(s, "removed")
         ELSE Unlisted /\ UNCHANGED isOpen
  /\ UNCHANGED <<envVars, timer, leaked, faults>>

usbDeviceRemoved ==
  /\ NextHandler("removed")
  /\ LET s == deviceMap[Head(posted).dev] IN
       IF s # NoSerial /\ hasSerial(s)
         THEN removeDevices({s}) /\ emitted' = OneEvent(s, "removed")
         ELSE Unlisted /\ UNCHANGED isOpen
  /\ UNCHANGED <<envVars, timer, leaked, faults>>

\* Seeded fault: devices that are not open are skipped by the poll.
PolledIfOpen == {s \in getDeviceList : IsWatched(s) /\ isOpen[serialMap[s]]}

\* A device without watched registers is not touched by the poll.
Polled == {s \in getDeviceList : IsWatched(s)}
Answers(d) == isOpen[d] /\ plugged[d] # NoSerial
Silenced == {s \in Polled : ~Answers(serialMap[s])}

\* Seeded fault: a device dropped by the poll is not announced as removed.
periodicRegisterUpdatesQuietly ==
  /\ NextHandler("poll")
  /\ timer' = "armed"
  /\ \E failing \in SUBSET Polled : \E changed \in SUBSET (Polled \ failing) :
       /\ Silenced \subseteq failing
       /\ Spend(Cardinality(failing \ Silenced))
       /\ removeDevices(failing)
       /\ emitted' = PollEvents({}, changed)
  /\ UNCHANGED <<envVars, leaked>>

\* Every listed device is polled; one that fails is removed at once.
periodicRegisterUpdates ==
  /\ NextHandler("poll")
  /\ timer' = "armed"
  /\ \E failing \in SUBSET Polled : \E changed \in SUBSET (Polled \ failing) :
       /\ Silenced \subseteq failing
       /\ Spend(Cardinality(failing \ Silenced))
       /\ removeDevices(failing)
       /\ emitted' = PollEvents(failing, changed)
  /\ UNCHANGED <<envVars, leaked>>

-----------------------------------------------------------------------------
(* Requests of clients that reach the manager. *)

\* "reprogram" of a listed device.
ReprogramRequest(s) ==
  LET d == serialMap[s] IN
  /\ hasSerial(s)
  /\ \E r \in reprogramDevice(d, deviceMap[d], isOpen[d], leaked[d]) :
       /\ isOpen' = [isOpen EXCEPT ![d] = r.open]
       /\ leaked' = [leaked EXCEPT ![d] = r.leaked]
       /\ Spend(r.cost)
  /\ Unlisted
  /\ UNCHANGED <<envVars, loopVars>>

\* "readreg" of a listed device that answers; a watched register may turn
\* out to have changed.
ReadRegister(s) ==
  /\ hasSerial(s) /\ Answers(serialMap[s])
  /\ \E kind \in (IF IsWatched(s) THEN {"none", "changed"} ELSE {"none"}) :
       emitted' = OneEvent(s, kind)
  /\ UNCHANGED <<envVars, loopVars, mapVars, usbVars>>

-----------------------------------------------------------------------------
\* The constructor: hotplug callbacks registered, both maps empty, the timer
\* armed by a first poll of no device.  Boards attached before the start are
\* announced by callbacks too, and so are plugged in here.
Init ==
  /\ plugged = [d \in Devs |-> NoSerial] /\ hotplug = <<>> /\ plugs = 0
  /\ posted = <<>> /\ timer = "armed"
  /\ deviceMap = [d \in Devs |-> NoSerial]
  /\ serialMap = [s \in Serials |-> NoDev]
  /\ isOpen = [d \in Devs |-> FALSE]
  /\ leaked = [d \in Devs |-> {}] /\ faults = 0
  /\ emitted = NoEvents

EventLoop == usbDeviceAdded \/ usbDeviceRemoved \/ periodicRegisterUpdates

Next ==
  \/ \E d \in Devs, s \in Serials : Plug(d, s)
  \/ \E d \in Devs : Unplug(d)
  \/ HotplugCallback
  \/ TimerExpires
  \/ EventLoop
  \/ \E s \in Serials : ReprogramRequest(s) \/ ReadRegister(s)

Spec == Init /\ [][Next]_vars

\* libusb's descriptors are watched, expired timers run, and the event loop
\* runs what is posted.  Nobody promises that boards or clients act.
Fairness ==
  WF_vars(HotplugCallback) /\ WF_vars(TimerExpires) /\ WF_vars(EventLoop)

FairSpec == Spec /\ Fairness
-----------------------------------------------------------------------------
(* Properties. *)

\* Every variable holds the values the code can give it: the type invariant
\* of the manager's maps, handles and queues.
TypeOK ==
  /\ plugged \in [Devs -> Serials \cup {NoSerial}]
  /\ hotplug \in Seq(HotplugMessage)
  /\ posted \in Seq(Handler)
  /\ timer \in {"armed", "expired"}
  /\ deviceMap \in [Devs -> Serials \cup {NoSerial}]
  /\ serialMap \in [Serials -> Devs \cup {NoDev}]
  /\ isOpen \in [Devs -> BOOLEAN]
  /\ leaked \in [Devs -> SUBSET Interfaces]
  /\ emitted \in [Serials -> EventKind]
  /\ plugs \in 0 .. MaxPlugs
  /\ faults \in 0 .. MaxFaults

\* m_device_map and m_serial_map are inverse to each other: every listed
\* device is found under its address and its serial, whatever the order of
\* arrivals, departures, failed polls and address reuse (the two inserts of
\* _usbDeviceAdded, the two erases of _removeDevice).
MapsAgree ==
  /\ \A d \in Devs : hasDevice(d) => serialMap[deviceMap[d]] = d
  /\ \A s \in Serials : hasSerial(s) => deviceMap[serialMap[s]] = s

\* An open handle belongs to a listed device, so every failed creation and
\* every removal closes what it opened; and while it is open, no forgotten
\* handle claims an interface of the same device (Device::open, ~Device).
OpenIsOwned ==
  \A d \in Devs : isOpen[d] => hasDevice(d) /\ leaked[d] = {}

DeparturePending(d) ==
  \/ \E i \in DOMAIN hotplug : hotplug[i] = [kind |-> "removed", dev |-> d]
  \/ \E i \in DOMAIN posted : posted[i] = [kind |-> "removed", dev |-> d]

\* A listed serial is the serial of the board at that address, unless the
\* handler that will remove it is on its way.  Handlers carry raw pointers,
\* so this has to survive a reused address (the lambdas posted by the hotplug
\* callback, _usbDeviceAdded, _usbDeviceRemoved).
ListingIsCurrent ==
  \A d \in Devs :
    hasDevice(d) /\ plugged[d] # deviceMap[d] => DeparturePending(d)

\* The added, removed and changed callbacks tell exactly how the device list
\* changes: the manager implements the registry its clients rely on.
Registry == INSTANCE DeviceRegistry WITH listed <- getDeviceList
ImplementsRegistry == Registry!RegistrySpec

\* "release the usb device and reprogram before claiming it again": a listed
\* device is claimed whenever no handler runs (reprogramDevice).
ListedIsClaimed == \A d \in Devs : hasDevice(d) => isOpen[d]

DistinctBoards ==
  \A c, d \in Devs : plugged[c] = plugged[d] /\ plugged[c] # NoSerial => c = d

\* Without USB failures and duplicate serials, a board with a description
\* that stays attached ends up listed for good, whatever stale handlers and
\* polls run in between.
AttachedIsListed ==
  [](faults = 0 /\ DistinctBoards) =>
    \A d \in Devs, s \in Serials :
      <>[](plugged[d] = s /\ Described(s)) => <>[](deviceMap[d] = s)

\* A serial whose boards are all gone for good ends up unlisted for good,
\* whatever failed before (_usbDeviceRemoved, the poll's removal).
DetachedIsDelisted ==
  \A s \in Serials :
    <>[](\A d \in Devs : plugged[d] # s) => <>[](~hasSerial(s))

\* A listed device with watched registers that lost its claim to a failed
\* reprogramming is claimed again or dropped by a later poll.
UnclaimedWatchedIsResolved ==
  \A d \in Devs :
    (hasDevice(d) /\ ~isOpen[d] /\ IsWatched(deviceMap[d]))
      ~> (~hasDevice(d) \/ isOpen[d])
=============================================================================
