-------------------------- MODULE MCDeviceManager --------------------------
(***************************************************************************)
(* Instances of DeviceManager for TLC.  Of the serials, 1 has a bitfile    *)
(* and watched registers (and also matches the second, shorter prefix), 2  *)
(* has a bitfile only, as the "Digitizer" of config.json, and 3 has no     *)
(* description.                                                            *)
(***************************************************************************)
EXTENDS DeviceManager, TLC

MCDescriptions ==
  << [matches |-> {1}, bitfile |-> TRUE, watch |-> TRUE],
     [matches |-> {1, 2}, bitfile |-> TRUE, watch |-> FALSE] >>

Symmetry == Permutations(Devs)
=============================================================================
