---------------------------- MODULE DeviceEvents ----------------------------
(***************************************************************************)
(* The serial numbers of boards and the batches of events that the device  *)
(* manager hands to its three callbacks in one step.  A step reports at    *)
(* most one thing about a serial, so a batch is a function on serials; the *)
(* order of events about different serials is left out.                    *)
(***************************************************************************)
EXTENDS Naturals

CONSTANT NumSerials   \* serial numbers are 1 .. NumSerials, in std::map order

Serials == 1 .. NumSerials
NoSerial == 0

EventKind == {"none", "added", "removed", "changed"}

\* The batch without events, and the batch of one event.
NoEvents == [s \in Serials |-> "none"]
OneEvent(t, kind) == [s \in Serials |-> IF s = t THEN kind ELSE "none"]

\* The batch of one pass over the listed devices: the serials in gone are
\* removed, those in changed report a new register value.
PollEvents(gone, changed) ==
  [s \in Serials |-> IF s \in gone THEN "removed"
                     ELSE IF s \in changed THEN "changed" ELSE "none"]
=============================================================================
