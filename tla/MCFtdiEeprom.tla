---------------------------- MODULE MCFtdiEeprom ----------------------------
(***************************************************************************)
(* Instances of FtdiEeprom for TLC.  Fields are set to their highest value *)
(* in groups: one group for each binary digit of a field's number and each *)
(* value of the digit, so that any two fields differ in some group.        *)
(***************************************************************************)
EXTENDS FtdiEeprom

\* A value that fills the bits of a field.
Full(f) ==
  CASE f[1] \in {"vendor_id", "product_id", "release_number", "usb_version"} -> 65535
    [] f[1] = "max_power" -> 510
    [] f[1] = "invert" -> 255
    [] f[1] = "chip" -> 102
    [] f[1] = "suspend_dbus7" -> SUSPEND_DBUS7_BIT
    [] f[1] = "use_usb_version" -> USE_USB_VERSION_BIT
    [] f[1] = "high_current" -> HIGH_CURRENT_DRIVE_R
    [] f[1] = "high_current_channel" -> HIGH_CURRENT_DRIVE
    [] f[1] = "channel_driver" -> DRIVER_VCP
    [] f[1] = "channel_type" -> 4
    [] f[1] = "drive" -> DRIVE_16MA
    [] f[1] = "slew" -> SLOW_SLEW
    [] f[1] = "schmitt" -> IS_SCHMITT
    [] f[1] = "cbus_function" -> 10
    [] OTHER -> 1

\* Fields in any order, and the numbers they get from it.
Names ==
  <<"vendor_id", "product_id", "release_number", "self_powered", "remote_wakeup",
    "is_not_pnp", "suspend_dbus7", "in_is_isochronous", "out_is_isochronous",
    "suspend_pull_downs", "use_serial", "usb_version", "use_usb_version", "max_power",
    "high_current", "invert", "powersave", "clock_polarity", "data_order",
    "flow_control", "chip">>
Groups ==
  <<"channel_driver", "rs485", "drive", "schmitt", "slew", "channel_type",
    "high_current_channel">>
NumberOf(f) ==
  CASE f[1] = "cbus_function" -> 50 + f[2]
    [] \E i \in DOMAIN Names : Names[i] = f[1] -> CHOOSE i \in DOMAIN Names : Names[i] = f[1]
    [] OTHER -> 18 + f[2] + 4 * (CHOOSE i \in DOMAIN Groups : Groups[i] = f[1])

FieldsWith(digit) == {f \in Fields : (NumberOf(f) \div 2^digit) % 2 = 1}
Setting(digit) ==
  LET set == IF digit = 6 THEN Fields ELSE FieldsWith(digit)
  IN  [f \in set |-> Full(f)]

\* The j-th letter of the k-th text, different for any two nearby places.
Text(k, n) == [j \in 1 .. n |-> 32 * k + (j % 32)]
Strings(m, p, s) == <<Text(1, m), Text(2, p), Text(3, s)>>

\* Every chip with an EEPROM it may have, and the longest strings it takes.
Chips ==
  {[type |-> "AM", kind |-> 70, texts |-> Strings(16, 16, 16)],
   [type |-> "BM", kind |-> 86, texts |-> Strings(16, 16, 16)],
   [type |-> "2232C", kind |-> 102, texts |-> Strings(16, 16, 13)],
   [type |-> "R", kind |-> 0, texts |-> Strings(16, 16, 12)],
   [type |-> "2232H", kind |-> 70, texts |-> Strings(14, 14, 15)],
   [type |-> "4232H", kind |-> 86, texts |-> Strings(14, 14, 15)],
   [type |-> "232H", kind |-> 70, texts |-> Strings(14, 14, 12)],
   [type |-> "230X", kind |-> 0, texts |-> Strings(16, 16, 12)]}

\* All groups are set, built and decoded; with one of them programs start
\* from nothing, write, read, erase and reopen as well, and transfers fail.
Use(c, d, fresh, most, failing) ==
  [type |-> c.type, kind |-> c.kind, setting |-> Setting(d), fresh |-> fresh,
   texts |-> IF d % 2 = 0 THEN c.texts ELSE Strings(0, 0, 0),
   calls |-> most, faults |-> failing]
MCUses ==
  {Use(c, d, FALSE, 1, 0) : c \in Chips, d \in 0 .. 6}
    \cup {Use(c, 3, c.type = "R", 2, 1) :
            c \in {x \in Chips : x.type \in {"2232C", "R", "230X"}}}
MCOthers == {<<"2232C", 70>>}
MCGarbage == {<<255>>}
=============================================================================
