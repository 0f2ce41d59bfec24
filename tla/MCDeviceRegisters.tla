-------------------------- MODULE MCDeviceRegisters --------------------------
(***************************************************************************)
(* Instances of DeviceRegisters for TLC: two watched keys on two registers *)
(* and a third key that is another name of the second register.            *)
(***************************************************************************)
EXTENDS DeviceRegisters

MCWire == [k \in Keys |-> IF k = 1 THEN "r1" ELSE "r2"]
MCWatchList == <<1, 2>>
=============================================================================
