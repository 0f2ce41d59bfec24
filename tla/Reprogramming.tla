---------------------------- MODULE Reprogramming ----------------------------
(***************************************************************************)
(* What becomes of one device, its two USB interfaces and its FPGA, call   *)
(* by call: Device::open and close (src/devices/Device.cpp), the           *)
(* programmer with the construction and destruction of its JTAG cable      *)
(* (DeviceProgrammer.cpp, xc3sprog/ioftdi.cpp), the configuration flow     *)
(* (xc3sprog/progalgxc3s.cpp), and the code of DeviceManager that runs     *)
(* them.  Any call on the device may fail, and the board may leave before  *)
(* any of them.  The description of the device names a bitfile, which is   *)
(* read each time (module BitFile).                                        *)
(*                                                                         *)
(* DeviceManager takes each of these routines as one step with a set of    *)
(* outcomes; ManagerKnowsOutcomes shows that there are no others.          *)
(***************************************************************************)
EXTENDS BitFile

CONSTANT MaxPolls   \* polls of the FPGA before it counts as failed, 50

ASSUME PollAssumption == MaxPolls \in Nat \ {0}

VARIABLES
  plugged,   \* the board is attached
  holder,    \* Interfaces -> who claims it: "nobody" is a context that
             \* nothing refers to any more
  device,    \* the Device object: "none", "new" in its constructor,
             \* "entering" on its way into the maps, or "listed"
  routine,   \* what runs: "open", "program" or "idle"
  at,        \* the next call of the routine
  bits,      \* what was read from the bitfile
  threw,     \* the programming before the present open threw
  fpga,      \* the FPGA: "running" a design, "triggered" by JPROGRAM but
             \* not yet "clearing", "blank", or "starting"
  captured,  \* buf[0] in array_program, what the latest poll captured
  polls,     \* i in array_program
  overtaken, \* a poll looked at the FPGA before it started to clear
  begun,     \* history: the board, the lost claims and the FPGA when the routine began
  ended      \* history: the routine that has just ended, and how

deviceVars == <<device, routine, at, threw, bits>>
fpgaVars == <<fpga, captured, polls, overtaken>>
vars == <<plugged, holder, deviceVars, fpgaVars, begun, ended>>

Interfaces == {"A", "B"}

\* The calls of the routines, in order.
Calls ==
  [open |-> <<"claim A", "claim B", "purge B", "close B", "reset A", "set mode A">>,
   program |-> <<"claim B", "set mode B", "chain", "bitfile", "enable",
                 "JPROGRAM", "clear", "load", "wait">>]

Running(r, call) == routine = r /\ Calls[r][at] = call
Busy == routine # "idle"

Lost == {i \in Interfaces : holder[i] = "nobody"}
Nothing == [routine |-> "idle"]

\* How a routine has ended: a record for the comparison with DeviceManager.
End(r, ok, lost) ==
  [routine |-> r, ok |-> ok, lost |-> lost, begun |-> begun]

Begin(r, hold) ==
  /\ routine' = r /\ at' = 1
  /\ begun' = [plugged |-> plugged,
               lost |-> {i \in Interfaces : hold[i] = "nobody"}, fpga |-> fpga]
  /\ bits' = IF r = "program" THEN NoResult ELSE bits

-----------------------------------------------------------------------------
(* libftdi.  A claim needs the board and an interface that no other        *)
(* context holds.  A failing ftdi_usb_open_dev closes its handle itself or *)
(* leaves that to ftdi_free.                                               *)

Claim(i, who) ==
  /\ plugged /\ holder[i] = "free"
  /\ holder' = [holder EXCEPT ![i] = who]

\* Device::close, and the destructor of the cable: both ignore errors on the
\* way to the release of their interface.
close == [holder EXCEPT !["A"] = IF @ = "device" THEN "free" ELSE @]
deinit == [holder EXCEPT !["B"] = "free"]

Advance == at' = at + 1 /\ ended' = Nothing /\ UNCHANGED <<device, routine, threw, begun>>
Proceed == Advance /\ UNCHANGED bits

-----------------------------------------------------------------------------
(* The end of a routine. *)

\* Seeded fault: a device whose programming threw is not destroyed.
OpenReturnsWithoutDestructor ==
  /\ \/ /\ device = "new"
        /\ device' = "entering" /\ holder' = [holder EXCEPT !["A"] = "free"]
        /\ Begin("program", holder)
     \/ /\ device = "entering"
        /\ device' = IF threw THEN "none" ELSE "listed"
        /\ holder' = [holder EXCEPT !["A"] = "device"]
        /\ routine' = "idle" /\ at' = 1 /\ UNCHANGED <<begun, bits>>
     \/ /\ device = "listed"
        /\ holder' = [holder EXCEPT !["A"] = "device"]
        /\ routine' = "idle" /\ at' = 1 /\ UNCHANGED <<device, begun, bits>>
  /\ threw' = FALSE
  /\ ended' = End("open", TRUE, Lost)
  /\ UNCHANGED <<plugged, fpgaVars>>

\* A new device is closed again to be programmed; one whose programming threw
\* is destroyed, unless it is listed.
OpenReturns ==
  /\ \/ /\ device = "new"
        /\ device' = "entering" /\ holder' = [holder EXCEPT !["A"] = "free"]
        /\ Begin("program", holder)
     \/ /\ device = "entering"
        /\ device' = IF threw THEN "none" ELSE "listed"
        /\ holder' = [holder EXCEPT !["A"] = IF threw THEN "free" ELSE "device"]
        /\ routine' = "idle" /\ at' = 1 /\ UNCHANGED <<begun, bits>>
     \/ /\ device = "listed"
        /\ holder' = [holder EXCEPT !["A"] = "device"]
        /\ routine' = "idle" /\ at' = 1 /\ UNCHANGED <<device, begun, bits>>
  /\ threw' = FALSE
  /\ ended' = End("open", TRUE, Lost)
  /\ UNCHANGED <<plugged, fpgaVars>>

\* An exception from open: the handlers give up a device that is not listed.
OpenThrows(hold) ==
  /\ holder' = hold
  /\ device' = IF device = "listed" THEN "listed" ELSE "none"
  /\ routine' = "idle" /\ at' = 1 /\ threw' = FALSE
  /\ ended' = End("open", FALSE, {i \in Interfaces : hold[i] = "nobody"})
  /\ UNCHANGED <<plugged, fpgaVars, begun, bits>>

\* The cable is destroyed or lost, and the device opened again in any case.
ProgramEnds(ok, hold) ==
  /\ holder' = hold
  /\ threw' = ~ok
  /\ Begin("open", hold)
  /\ ended' = End("program", ok, {i \in Interfaces : hold[i] = "nobody"})
  /\ UNCHANGED device

-----------------------------------------------------------------------------
(* Device::open. *)

ClaimA ==
  /\ Running("open", "claim A")
  /\ \/ Claim("A", "open") /\ Proceed /\ UNCHANGED <<plugged, fpgaVars>>
     \/ OpenThrows(holder)

\* Seeded fault: the purge fails without closing the context of B.
UseBWithoutClose ==
  \/ /\ Running("open", "claim B")
     /\ \/ Claim("B", "open") /\ Proceed /\ UNCHANGED <<plugged, fpgaVars>>
        \/ OpenThrows([holder EXCEPT !["A"] = "nobody"])
  \/ /\ Running("open", "purge B")
     /\ \/ plugged /\ Proceed /\ UNCHANGED <<plugged, holder, fpgaVars>>
        \/ OpenThrows([holder EXCEPT !["A"] = "nobody", !["B"] = "nobody"])
  \/ /\ Running("open", "close B")
     /\ holder' = [holder EXCEPT !["B"] = "free"]
     /\ Proceed /\ UNCHANGED <<plugged, fpgaVars>>

\* If B cannot be opened or purged, the context of A goes out of scope open.
UseB ==
  \/ /\ Running("open", "claim B")
     /\ \/ Claim("B", "open") /\ Proceed /\ UNCHANGED <<plugged, fpgaVars>>
        \/ OpenThrows([holder EXCEPT !["A"] = "nobody"])
  \/ /\ Running("open", "purge B")
     /\ \/ plugged /\ Proceed /\ UNCHANGED <<plugged, holder, fpgaVars>>
        \/ OpenThrows([holder EXCEPT !["A"] = "nobody", !["B"] = "free"])
  \/ /\ Running("open", "close B")
     /\ holder' = [holder EXCEPT !["B"] = "free"]
     /\ Proceed /\ UNCHANGED <<plugged, fpgaVars>>

SetUpA ==
  \/ /\ Running("open", "reset A")
     /\ plugged /\ Proceed /\ UNCHANGED <<plugged, holder, fpgaVars>>
  \/ Running("open", "set mode A") /\ plugged /\ OpenReturns
  \/ /\ Running("open", "reset A") \/ Running("open", "set mode A")
     /\ OpenThrows([holder EXCEPT !["A"] = "free"])

-----------------------------------------------------------------------------
(* DeviceProgrammer and IOFtdi.  A failure in the constructor of IOFtdi    *)
(* after the claim leaves the context open; afterwards its destructor      *)
(* closes it.                                                              *)

ConstructCable ==
  /\ \/ /\ Running("program", "claim B")
        /\ \/ Claim("B", "cable") /\ Proceed
           \/ ProgramEnds(FALSE, holder)
     \/ /\ Running("program", "set mode B")
        /\ \/ plugged /\ Proceed /\ UNCHANGED holder
           \/ ProgramEnds(FALSE, [holder EXCEPT !["B"] = "nobody"])
  /\ UNCHANGED <<plugged, fpgaVars>>

\* The second loop is over.
Polled == "DONE" \in captured \/ polls = MaxPolls

\* The chain is not the expected one, the file cannot be opened, or a transfer
\* of the configuration flow fails.
ProgramThrows ==
  /\ routine = "program" /\ at > 2
  /\ ~(Running("program", "wait") /\ Polled)
  /\ ProgramEnds(FALSE, deinit)
  /\ UNCHANGED <<plugged, fpgaVars>>

Prepare ==
  /\ \/ Running("program", "chain") /\ plugged
     \/ Running("program", "enable") /\ plugged
  /\ Proceed
  /\ UNCHANGED <<plugged, holder, fpgaVars>>

\* The bitfile is read anew; programming goes on if readFile returns 0.
ReadBitfile ==
  /\ Running("program", "bitfile")
  /\ \E f \in Files :
       LET result == readBitfile(f) IN
       IF result.code = 0 THEN Advance /\ bits' = result /\ UNCHANGED holder
                          ELSE ProgramEnds(FALSE, deinit)
  /\ UNCHANGED <<plugged, fpgaVars>>

\* JPROGRAM clears the FPGA, at once or a little later.
JProgram ==
  /\ Running("program", "JPROGRAM") /\ plugged
  /\ fpga' \in {"triggered", "clearing"}
  /\ captured' = {} /\ polls' = 0 /\ overtaken' = FALSE
  /\ Proceed
  /\ UNCHANGED <<plugged, holder>>

\* The instruction capture: INIT unless the FPGA is clearing, DONE if it runs.
Capture ==
  (IF fpga # "clearing" THEN {"INIT"} ELSE {}) \cup
  (IF fpga \in {"running", "triggered"} THEN {"DONE"} ELSE {})

\* The first loop ends when INIT is captured.
PollCleared ==
  /\ Running("program", "clear") /\ plugged
  /\ captured' = Capture
  /\ IF "INIT" \in Capture THEN Proceed
     ELSE ended' = Nothing /\ UNCHANGED <<deviceVars, begun>>
  /\ overtaken' = (overtaken \/ fpga = "triggered")
  /\ UNCHANGED <<plugged, holder, fpga, polls>>

\* The data arrives in an FPGA that waits for it, and may be wrong or none.
Load ==
  /\ Running("program", "load") /\ plugged
  /\ \/ fpga = "blank" /\ bits.length > 0 /\ fpga' = "starting"
     \/ UNCHANGED fpga
  /\ Proceed
  /\ UNCHANGED <<plugged, holder, captured, polls, overtaken>>

\* Seeded fault: nobody counts.
PollDoneForEver ==
  /\ Running("program", "wait") /\ "DONE" \notin captured
  /\ plugged
  /\ captured' = Capture
  /\ ended' = Nothing
  /\ UNCHANGED <<plugged, holder, deviceVars, fpga, polls, overtaken, begun>>

\* The second loop polls until DONE is captured, MaxPolls times at most.
PollDone ==
  /\ Running("program", "wait") /\ ~Polled
  /\ plugged
  /\ captured' = Capture /\ polls' = polls + 1
  /\ ended' = Nothing
  /\ UNCHANGED <<plugged, holder, deviceVars, fpga, overtaken, begun>>

\* Seeded fault: the outcome of the polls is not looked at.
FinishBlindly ==
  /\ Running("program", "wait") /\ Polled
  /\ ProgramEnds(TRUE, deinit)
  /\ UNCHANGED <<plugged, fpgaVars>>

\* After the loop the counter decides about the outcome.
Finish ==
  /\ Running("program", "wait") /\ Polled
  /\ ProgramEnds(polls # MaxPolls, deinit)
  /\ UNCHANGED <<plugged, fpgaVars>>

-----------------------------------------------------------------------------
(* DeviceManager, the FPGA and the user. *)

CreateDevice ==
  /\ ~Busy /\ device = "none"
  /\ device' = "new" /\ Begin("open", holder)
  /\ ended' = Nothing
  /\ UNCHANGED <<plugged, holder, threw, fpgaVars>>

\* reprogramDevice closes a listed device, whether or not it is open.
Reprogram ==
  /\ ~Busy /\ device = "listed"
  /\ holder' = close
  /\ Begin("program", holder) /\ ended' = Nothing
  /\ UNCHANGED <<plugged, device, threw, fpgaVars>>

Remove ==
  /\ ~Busy /\ device = "listed"
  /\ device' = "none"
  /\ holder' = close
  /\ ended' = Nothing
  /\ UNCHANGED <<plugged, routine, at, threw, bits, fpgaVars, begun>>

\* The FPGA moves on by itself.
FpgaMoves ==
  /\ \/ fpga = "triggered" /\ fpga' = "clearing"
     \/ fpga = "clearing" /\ fpga' = "blank"
     \/ fpga = "starting" /\ fpga' = "running"
  /\ ended' = Nothing
  /\ UNCHANGED <<plugged, holder, deviceVars, captured, polls, overtaken, begun>>

Unplug ==
  /\ plugged /\ plugged' = FALSE
  /\ ended' = Nothing
  /\ UNCHANGED <<holder, deviceVars, fpgaVars, begun>>

Init ==
  /\ plugged = TRUE
  /\ holder = [i \in Interfaces |-> "free"]
  /\ device = "none" /\ routine = "idle" /\ at = 1 /\ threw = FALSE
  /\ bits = NoResult
  /\ fpga \in {"running", "blank"}
  /\ captured = {} /\ polls = 0 /\ overtaken = FALSE
  /\ begun = [plugged |-> TRUE, lost |-> {}, fpga |-> fpga]
  /\ ended = Nothing

Step ==
  \/ ClaimA \/ UseB \/ SetUpA
  \/ ConstructCable \/ Prepare \/ ReadBitfile \/ JProgram
  \/ PollCleared \/ Load \/ PollDone \/ Finish

Next == Step \/ ProgramThrows \/ CreateDevice \/ Reprogram \/ Remove \/ FpgaMoves \/ Unplug

Spec == Init /\ [][Next]_vars

\* The event loop executes the routine, in which a transfer need not fail as long
\* as the board is there.  The FPGA starts to clear, but nobody promises that it
\* gets cleared, or comes up.
Fairness ==
  /\ WF_vars(Step)
  /\ WF_vars(ProgramThrows /\ ~plugged)
  /\ WF_vars(FpgaMoves /\ fpga = "triggered")

FairSpec == Spec /\ Fairness

-----------------------------------------------------------------------------
(* The device manager's view of a routine. *)

Manager(present) == INSTANCE DeviceManager WITH
  NumSerials <- 1, Devs <- {"d"}, NoDev <- "no device", Descriptions <- <<>>,
  MaxPlugs <- 1, MaxFaults <- 2,
  plugged <- [d \in {"d"} |-> IF present THEN 1 ELSE 0],
  hotplug <- <<>>, posted <- <<>>, timer <- "armed",
  deviceMap <- <<>>, serialMap <- <<>>, isOpen <- <<>>, leaked <- <<>>,
  emitted <- <<>>, plugs <- 0, faults <- 0

-----------------------------------------------------------------------------
(* Properties. *)

\* However its calls fail, a routine ends as the device manager's model of it
\* says: these are all the ways in which Device::open and the programmer
\* succeed, fail, and leave an interface claimed by nobody.
ManagerKnowsOutcomes ==
  ended # Nothing =>
    LET M(o, success) == success = ended.ok /\ o.leaked = ended.lost IN
    IF ended.routine = "open"
      THEN \E o \in Manager(ended.begun.plugged)!Opening("d", ended.begun.lost) :
             M(o, o.open)
      ELSE \E o \in Manager(ended.begun.plugged)!Programming("d", ended.begun.lost) :
             M(o, o.done)

\* Between handlers nothing is claimed but interface A by a listed device, and
\* what was lost before; a device that got A had B free (Device::open, close,
\* the destructors of Device and IOFtdi).
IdleHoldsOnlyTheDevice ==
  ~Busy =>
    /\ holder["B"] \in {"free", "nobody"}
    /\ holder["A"] \in {"free", "nobody", "device"}
    /\ holder["A"] = "device" => device = "listed" /\ holder["B"] = "free"

\* What the end of a programming says about the FPGA.  If it returns, the FPGA
\* runs, unless the first poll came before the FPGA started to clear: then DONE
\* was captured from the old design and the second loop does not look again
\* (array_program).  If the bitfile was not read whole, because it is missing,
\* has no data section or ends too early, a design that ran goes on running
\* (DeviceProgrammer::program reads the file before it starts the algorithm).
SuccessMeansConfigured ==
  ended # Nothing /\ ended.routine = "program" =>
    /\ ended.ok => fpga = "running" \/ overtaken
    /\ ~bits.whole /\ ended.begun.fpga = "running" => fpga = "running"

\* Programming, which blocks the whole server, ends unless the FPGA never gets
\* out of clearing (array_program, the loop without a bound).
OnlyClearingBlocks == <>[](routine = "program") => <>[](fpga = "clearing")
=============================================================================
