------------------------------ MODULE FtdiImage ------------------------------
(***************************************************************************)
(* The configuration EEPROM of an FTDI chip as libftdi lays it out         *)
(* (src/libftdi/ftdi.c): the image that ftdi_eeprom_build makes of the     *)
(* values in struct ftdi_eeprom, and what ftdi_eeprom_decode makes of an   *)
(* image.                                                                  *)
(*                                                                         *)
(* An image is the set of its bits that are one: bit k of byte b is the    *)
(* number 8 b + k, and the words of the EEPROM have 16 bits.  A field of   *)
(* the structure is <<name, number>>; fields the code has once have the    *)
(* number 0.  A text is the sequence of its characters, <<>> for NULL.     *)
(***************************************************************************)
EXTENDS Integers, Sequences, FiniteSets, FiniteSetsExt

\* enum ftdi_chip_type, in its order.
TypeOrder == <<"AM", "BM", "2232C", "R", "2232H", "4232H", "232H", "230X">>
After(t, u) ==
  \E i, j \in DOMAIN TypeOrder : TypeOrder[i] = t /\ TypeOrder[j] = u /\ i > j

Fields ==
  ({"vendor_id", "product_id", "release_number", "self_powered", "remote_wakeup",
    "is_not_pnp", "suspend_dbus7", "in_is_isochronous", "out_is_isochronous",
    "suspend_pull_downs", "use_serial", "usb_version", "use_usb_version",
    "max_power", "high_current", "invert", "powersave", "clock_polarity",
    "data_order", "flow_control", "chip"} \X {0})
  \cup ({"channel_type", "high_current_channel"} \X {0, 1})
  \cup ({"channel_driver", "rs485", "drive", "schmitt", "slew"} \X (0 .. 3))
  \cup ({"cbus_function"} \X (0 .. 9))

\* Fields of which only zero or not zero is stored.
Flags ==
  ({"self_powered", "remote_wakeup", "in_is_isochronous", "out_is_isochronous",
    "suspend_pull_downs", "use_serial", "powersave", "clock_polarity",
    "data_order", "flow_control"} \X {0}) \cup ({"rs485"} \X (0 .. 3))

\* struct ftdi_eeprom after memset.
ZeroValues == [f \in Fields |-> 0]

-----------------------------------------------------------------------------
(* Bits and bytes. *)

At(byte, bit) == 8 * byte + bit
Bits(byte, bit, width, n) ==
  {At(byte, bit) + k : k \in {j \in 0 .. width - 1 : (n \div 2^j) % 2 = 1}}
Number(img, byte, bit, width) ==
  MapThenSumSet(LAMBDA k : 2^k, {k \in 0 .. width - 1 : At(byte, bit) + k \in img})
ByteOf(img, byte) == Number(img, byte, 0, 8)
Region(from, to) == At(from, 0) .. At(to, 7)
WordOf(x) == x \div 16

\* img after the assignments of rows <<byte, bit, width, number>>.
Put(img, rows) ==
  (img \ UNION {At(r[1], r[2]) .. At(r[1], r[2]) + r[3] - 1 : r \in rows})
    \cup UNION {Bits(r[1], r[2], r[3], r[4]) : r \in rows}

\* The words under the checksum of an image of size bytes.  In a FT230X a
\* section of the user is skipped, and the word after it always counts.
Covered(t, size) ==
  IF t = "230X" THEN 0 .. 17 \cup {64} \cup 64 .. size \div 2 - 2
                ELSE 0 .. size \div 2 - 2

\* The place of a word in the order of the calculation.
Place(t, w) == IF t = "230X" /\ w > 17 THEN w - 46 ELSE w

\* The checksum starts as AAAA hex; each word is added without carry, then the
\* sum is rotated by one, so that a word and the start value are rotated once
\* for every word from there on.
ImageChecksum(t, img, size) ==
  LET words == Covered(t, size)
      n == Cardinality(words)
      ones(b) == {w \in words : 16 * w + ((b + Place(t, w) - n) % 16) \in img}
  IN  {b \in 0 .. 15 : (Cardinality(ones(b)) + b + n) % 2 = 1}

StoredChecksum(img, size) ==
  {b \in 0 .. 15 : 8 * (size - 2) + b \in img}

-----------------------------------------------------------------------------
(* Building an image: the bits of every value. *)

CHANNEL_IS_FT1284 == 8
DRIVER_VCP == 8
HIGH_CURRENT_DRIVE == 16
HIGH_CURRENT_DRIVE_R == 4
DRIVE_16MA == 3
SLOW_SLEW == 4
IS_SCHMITT == 8
USE_USB_VERSION_BIT == 16
SUSPEND_DBUS7_BIT == 128

Flag(x) == IF x # 0 THEN 1 ELSE 0
Exactly(x, bit) == IF x = bit THEN 1 ELSE 0
OrElse(x, limit, other) == IF x > limit THEN other ELSE x

\* The modes of a channel that an image of type t can hold; others become 0.
ChannelModes(t) ==
  CASE t \in {"2232H", "2232C"} -> {0, 1, 2, 4}
    [] t = "232H" -> {0, 1, 2, 4, CHANNEL_IS_FT1284}
    [] OTHER -> {0}
type2bit(x, t) == IF x \in ChannelModes(t) THEN x ELSE 0
bit2type(x) == IF x \in {0, 1, 2, 4, 8} THEN x ELSE 0

\* The part all types have, and the serial number bit.
HeaderRows(t, v) ==
  {<<\h02, 0, 16, v["vendor_id", 0]>>, <<\h04, 0, 16, v["product_id", 0]>>,
   <<\h06, 0, 16, v["release_number", 0]>>, <<\h08, 7, 1, 1>>,
   <<\h08, 6, 1, Flag(v["self_powered", 0])>>,
   <<\h08, 5, 1, Flag(v["remote_wakeup", 0])>>,
   <<\h09, 0, 8, v["max_power", 0] \div 2>>}
  \cup (IF t \in {"AM", "230X"} THEN {} ELSE
          {<<\h0A, 0, 1, Flag(v["in_is_isochronous", 0])>>,
           <<\h0A, 1, 1, Flag(v["out_is_isochronous", 0])>>})
  \cup (IF t = "AM" THEN {} ELSE {<<\h0A, 3, 1, Flag(v["use_serial", 0])>>})

\* The bytes behind each other from the start of the strings: per string its
\* descriptor and its characters, then the plug and play bytes.
Descriptor(text) ==
  <<2 * Len(text) + 2, 3>>
    \o [j \in 1 .. 2 * Len(text) |-> IF j % 2 = 1 THEN text[(j + 1) \div 2] ELSE 0]
StringBytes(t, v, texts) ==
  Descriptor(texts[1]) \o Descriptor(texts[2]) \o Descriptor(texts[3])
    \o (IF After(t, "BM") THEN <<2, 3, v["is_not_pnp", 0] % 256>> ELSE <<>>)

\* Seeded fault: the strings of a FT232H start where those of the FT2232H do.
StringsStartLikeH(t) ==
  CASE t \in {"AM", "BM"} -> \h94
    [] t = "2232C" -> \h96
    [] t = "R" -> \h98
    [] t \in {"2232H", "4232H", "232H"} -> \h9A
    [] OTHER -> \hA0

StringsStart(t) ==
  CASE t \in {"AM", "BM"} -> \h94
    [] t = "2232C" -> \h96
    [] t = "R" -> \h98
    [] t \in {"2232H", "4232H"} -> \h9A
    [] OTHER -> \hA0

\* The strings wrap around in an EEPROM of 128 bytes; their position is kept
\* in eight bits.
StringRows(t, v, texts, size) ==
  LET bytes == StringBytes(t, v, texts)
      length(k) == 2 * Len(texts[k]) + 2
      first == StringsStart(t)
      second == (first + length(1)) % 256
      third == (second + length(2)) % 256
      high(i) == IF i < 128 THEN i + 128 ELSE i
  IN  {<<((first + j - 1) % 256) % size, 0, 8, bytes[j]>> : j \in DOMAIN bytes}
        \cup {<<\h0E, 0, 8, first>>, <<\h0F, 0, 8, length(1)>>,
              <<\h10, 0, 8, high(second)>>, <<\h11, 0, 8, length(2)>>,
              <<\h12, 0, 8, high(third)>>, <<\h13, 0, 8, length(3)>>}

GroupRows(v, i, byte, bit) ==
  {<<byte, bit, 2, OrElse(v["drive", i], DRIVE_16MA, DRIVE_16MA)>>,
   <<byte, bit + 2, 1, Exactly(v["slew", i], SLOW_SLEW)>>,
   <<byte, bit + 3, 1, Exactly(v["schmitt", i], IS_SCHMITT)>>}
FourGroupRows(v) ==
  GroupRows(v, 0, \h0C, 0) \cup GroupRows(v, 1, \h0C, 4)
    \cup GroupRows(v, 2, \h0D, 0) \cup GroupRows(v, 3, \h0D, 4)

Driver(v, i) == Exactly(v["channel_driver", i], DRIVER_VCP)
PullDowns(v) == <<\h0A, 2, 1, Flag(v["suspend_pull_downs", 0])>>
UsbVersion(v) == <<\h0C, 0, 16, v["usb_version", 0]>>
UseUsbVersion(v) ==
  <<\h0A, 4, 1, Exactly(v["use_usb_version", 0], USE_USB_VERSION_BIT)>>

BMRows(v) == {UsbVersion(v), UseUsbVersion(v)}

Rows2232C(v) ==
  UNION {{<<i, 0, 3, type2bit(v["channel_type", i], "2232C")>>,
          <<i, 3, 1, Driver(v, i)>>,
          <<i, 4, 1, Exactly(v["high_current_channel", i], HIGH_CURRENT_DRIVE)>>}
         : i \in {0, 1}}
  \cup {PullDowns(v), UseUsbVersion(v), UsbVersion(v), <<\h14, 0, 8, v["chip", 0]>>}

\* CBUS functions out of range are replaced by the default of their pin.
RCbus(v, i) ==
  OrElse(v["cbus_function", i], IF i = 4 THEN 9 ELSE 13, <<3, 2, 0, 1, 5>>[i + 1])
RRows(v) ==
  {<<\h00, 2, 1, Exactly(v["high_current", 0], HIGH_CURRENT_DRIVE_R)>>,
   <<\h01, 0, 8, \h40>>, PullDowns(v), UsbVersion(v), <<\h0B, 0, 8, v["invert", 0]>>}
  \cup {<<\h14 + (i \div 2), 4 * (i % 2), 4, RCbus(v, i)>> : i \in 0 .. 3}
  \cup {<<\h16, 0, 8, RCbus(v, 4)>>}

Rows2232H(v) ==
  UNION {{<<i, 0, 3, type2bit(v["channel_type", i], "2232H")>>,
          <<i, 3, 1, Driver(v, i)>>} : i \in {0, 1}}
  \cup {<<\h01, 7, 1, Exactly(v["suspend_dbus7", 0], SUSPEND_DBUS7_BIT)>>,
        PullDowns(v), <<\h18, 0, 8, v["chip", 0]>>}
  \cup FourGroupRows(v)

Rows4232H(v) ==
  {<<i % 2, 3 + 4 * (i \div 2), 1, Driver(v, i)>> : i \in 0 .. 3}
  \cup {<<\h0B, 4 + i, 1, Flag(v["rs485", i])>> : i \in 0 .. 3}
  \cup {PullDowns(v), <<\h18, 0, 8, v["chip", 0]>>}
  \cup FourGroupRows(v)

set_ft232h_cbus(v) ==
  {<<\h18 + (i \div 2), 4 * (i % 2), 4, OrElse(v["cbus_function", i], 12, 0)>> : i \in 0 .. 9}
Rows232H(v) ==
  {<<\h00, 0, 4, type2bit(v["channel_type", 0], "232H")>>, <<\h00, 4, 1, Driver(v, 0)>>,
   <<\h01, 7, 1, Flag(v["powersave", 0])>>, <<\h01, 0, 1, Flag(v["clock_polarity", 0])>>,
   <<\h01, 1, 1, Flag(v["data_order", 0])>>, <<\h01, 2, 1, Flag(v["flow_control", 0])>>,
   PullDowns(v), <<\h1E, 0, 8, v["chip", 0]>>}
  \cup GroupRows(v, 0, \h0C, 0) \cup GroupRows(v, 1, \h0D, 0) \cup set_ft232h_cbus(v)

Rows230X(v) ==
  {<<\h00, 0, 8, \h80>>, <<\h0A, 0, 8, \h08>>, <<\h0C, 0, 8, \h31>>}
  \cup {<<\h1A + i, 0, 8, v["cbus_function", i]>> : i \in 0 .. 6}

TypeRows(t, v) ==
  CASE t = "AM" -> {}
    [] t = "BM" -> BMRows(v)
    [] t = "2232C" -> Rows2232C(v)
    [] t = "R" -> RRows(v)
    [] t = "2232H" -> Rows2232H(v)
    [] t = "4232H" -> Rows4232H(v)
    [] t = "232H" -> Rows232H(v)
    [] t = "230X" -> Rows230X(v)

\* The buffer is cleared, except the reserved section of a FT230X.
Cleared(t, buf) == IF t = "230X" THEN buf \cap Region(\h80, \h9F) ELSE {}

\* Bytes left for strings, negative when they do not fit.
UserArea(t, texts) ==
  (CASE t \in {"AM", "BM"} -> 96 [] t = "2232C" -> 90 [] t \in {"R", "230X"} -> 88
     [] t \in {"2232H", "4232H"} -> 86 [] t = "232H" -> 80)
  - 2 * (Len(texts[1]) + Len(texts[2]) + Len(texts[3]))

\* The image that a build makes in the buffer buf.
Image(t, v, texts, size, buf) ==
  LET written == Put(Put(Put(Cleared(t, buf), HeaderRows(t, v)),
                         StringRows(t, v, texts, size)), TypeRows(t, v))
  IN  (written \ Region(size - 2, size - 1))
        \cup {8 * (size - 2) + b : b \in ImageChecksum(t, written, size)}

-----------------------------------------------------------------------------
(* Decoding an image: rows <<field, byte, bit, width, unit>>, where unit is *)
(* what a one in the lowest bit stands for.                                 *)

DecodedHeader ==
  {<<<<"vendor_id", 0>>, \h02, 0, 16, 1>>, <<<<"product_id", 0>>, \h04, 0, 16, 1>>,
   <<<<"release_number", 0>>, \h06, 0, 16, 1>>, <<<<"self_powered", 0>>, \h08, 6, 1, 64>>,
   <<<<"remote_wakeup", 0>>, \h08, 5, 1, 32>>, <<<<"max_power", 0>>, \h09, 0, 8, 2>>,
   <<<<"in_is_isochronous", 0>>, \h0A, 0, 1, 1>>,
   <<<<"out_is_isochronous", 0>>, \h0A, 1, 1, 2>>,
   <<<<"suspend_pull_downs", 0>>, \h0A, 2, 1, 4>>, <<<<"use_serial", 0>>, \h0A, 3, 1, 1>>,
   <<<<"use_usb_version", 0>>, \h0A, 4, 1, 16>>, <<<<"usb_version", 0>>, \h0C, 0, 16, 1>>}

\* Seeded fault: the bits of slew and schmitt are exchanged.
DecodedGroupExchanged(i, byte, bit) ==
  {<<<<"drive", i>>, byte, bit, 2, 1>>, <<<<"slew", i>>, byte, bit + 3, 1, SLOW_SLEW>>,
   <<<<"schmitt", i>>, byte, bit + 2, 1, IS_SCHMITT>>}

DecodedGroup(i, byte, bit) ==
  {<<<<"drive", i>>, byte, bit, 2, 1>>, <<<<"slew", i>>, byte, bit + 2, 1, SLOW_SLEW>>,
   <<<<"schmitt", i>>, byte, bit + 3, 1, IS_SCHMITT>>}

\* The fields by type; type R has a chip value in a byte of its CBUS pins.
DecodedRows(t) ==
  CASE t \in {"AM", "BM"} -> {}
    [] t = "2232C" ->
         UNION {{<<<<"channel_type", i>>, i, 0, 3, 1>>,
                 <<<<"channel_driver", i>>, i, 3, 1, DRIVER_VCP>>,
                 <<<<"high_current_channel", i>>, i, 4, 1, HIGH_CURRENT_DRIVE>>}
                : i \in {0, 1}}
         \cup {<<<<"chip", 0>>, \h14, 0, 8, 1>>}
    [] t = "R" ->
         {<<<<"high_current", 0>>, \h00, 2, 1, HIGH_CURRENT_DRIVE_R>>,
          <<<<"chip", 0>>, \h16, 0, 8, 1>>, <<<<"invert", 0>>, \h0B, 0, 8, 1>>}
         \cup {<<<<"cbus_function", i>>, \h14 + (i \div 2), 4 * (i % 2), 4, 1>> : i \in 0 .. 4}
    [] t \in {"2232H", "4232H"} ->
         {<<<<"channel_driver", i>>, i, 3, 1, DRIVER_VCP>> : i \in {0, 1}}
         \cup (IF t = "2232H"
                 THEN {<<<<"channel_type", i>>, i, 0, 3, 1>> : i \in {0, 1}}
                        \cup {<<<<"suspend_dbus7", 0>>, \h01, 7, 1, SUSPEND_DBUS7_BIT>>}
                 ELSE {<<<<"channel_driver", i>>, i - 2, 7, 1, DRIVER_VCP>> : i \in {2, 3}}
                        \cup {<<<<"rs485", i>>, \h0B, 4 + i, 1, 16 * 2^i>> : i \in 0 .. 3})
         \cup {<<<<"chip", 0>>, \h18, 0, 8, 1>>}
         \cup DecodedGroup(0, \h0C, 0) \cup DecodedGroup(1, \h0C, 4)
         \cup DecodedGroup(2, \h0D, 0) \cup DecodedGroup(3, \h0D, 4)
    [] t = "232H" ->
         {<<<<"channel_type", 0>>, \h00, 0, 4, 1>>,
          <<<<"channel_driver", 0>>, \h00, 4, 1, DRIVER_VCP>>,
          <<<<"clock_polarity", 0>>, \h01, 0, 1, 1>>, <<<<"data_order", 0>>, \h01, 1, 1, 2>>,
          <<<<"flow_control", 0>>, \h01, 2, 1, 4>>, <<<<"powersave", 0>>, \h01, 7, 1, 128>>,
          <<<<"chip", 0>>, \h1E, 0, 8, 1>>}
         \cup DecodedGroup(0, \h0C, 0) \cup DecodedGroup(1, \h0D, 0)
         \cup {<<<<"cbus_function", i>>, \h18 + (i \div 2), 4 * (i % 2), 4, 1>> : i \in 0 .. 9}
    [] t = "230X" ->
         {<<<<"cbus_function", i>>, \h1A + i, 0, 8, 1>> : i \in 0 .. 3}
         \cup DecodedGroup(0, \h0C, 0) \cup DecodedGroup(1, \h0C, 4)

\* v with the fields of rows read from img.
Override(v, rows, img) ==
  LET read == {r[1] : r \in rows}
      row(f) == CHOOSE r \in rows : r[1] = f
  IN  [f \in DOMAIN v |-> IF f \in read
         THEN Number(img, row(f)[2], row(f)[3], row(f)[4]) * row(f)[5] ELSE v[f]]

\* The values after a decode whose checksum is right.
DecodedValues(t, v, img) ==
  LET w == Override(Override(v, DecodedHeader, img), DecodedRows(t), img)
  IN  [w EXCEPT
        ![<<"channel_type", 0>>] = IF t \in {"2232C", "2232H"} THEN bit2type(@)
                               ELSE IF t = "232H" THEN @ ELSE 0,
        ![<<"channel_type", 1>>] = IF t = "2232H" THEN bit2type(@) ELSE @,
        ![<<"channel_driver", 0>>] = IF t # "R" THEN @
                                 ELSE IF At(0, 3) \in img THEN 0 ELSE DRIVER_VCP,
        ![<<"chip", 0>>] = IF t \in {"AM", "BM"} THEN -1 ELSE @]

\* Whether a decode follows the pointer at the bytes p, p + 1 past the buffer.
LeavesBuffer(img, p, size) ==
  (ByteOf(img, p) % size) + 2 * (ByteOf(img, p + 1) \div 2 - 1) > 255

\* The text that the pointer stands for; characters end at the first zero.
TextAt(img, p, size) ==
  LET n == ByteOf(img, p + 1) \div 2 - 1
      first == ByteOf(img, p) % size
      chars == [j \in 1 .. n |-> ByteOf(img, first + 2 * j)]
      zeros == {j \in 1 .. n : chars[j] = 0}
  IN  IF n < 1 THEN <<>>
      ELSE IF zeros = {} THEN chars ELSE SubSeq(chars, 1, Min(zeros) - 1)

\* Seeded fault: a decode does not look at the checksum.
ChecksumUnchecked(t, img, size) == size > 0

ChecksumIsRight(t, img, size) ==
  size > 0 /\ ImageChecksum(t, img, size) = StoredChecksum(img, size)
=============================================================================
