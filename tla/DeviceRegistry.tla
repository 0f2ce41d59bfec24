--------------------------- MODULE DeviceRegistry ---------------------------
(***************************************************************************)
(* What the device manager promises to its clients: a set of listed        *)
(* serials, and a batch of events per step that tells exactly how the set  *)
(* changed.  A client that starts from a device list and applies every     *)
(* later ADDED and REMOVED event therefore always knows the current list,  *)
(* and never hears of a register of a device that is not listed.           *)
(*                                                                         *)
(* DeviceManager implements this specification; how the batches reach a    *)
(* client is the business of the network modules.                          *)
(***************************************************************************)
EXTENDS DeviceEvents

VARIABLES
  listed,    \* the serials a "devicelist" request answers with
  emitted    \* the events sent to all clients by the latest step

regVars == <<listed, emitted>>

RegistryInit == listed = {} /\ emitted = NoEvents

AddDevice(s) ==
  /\ s \notin listed
  /\ listed' = listed \cup {s}
  /\ emitted' = OneEvent(s, "added")

Update(gone, changed) ==
  /\ gone \cap changed = {}
  /\ listed' = listed \ gone
  /\ emitted' = PollEvents(gone, changed)

Silent == emitted' = NoEvents /\ UNCHANGED listed

RegistryNext ==
  \/ \E s \in Serials : AddDevice(s)
  \/ \E gone, changed \in SUBSET listed : Update(gone, changed)
  \/ Silent

RegistrySpec == RegistryInit /\ [][RegistryNext]_regVars
=============================================================================
