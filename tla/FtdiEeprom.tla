----------------------------- MODULE FtdiEeprom -----------------------------
(***************************************************************************)
(* The EEPROM functions of libftdi (src/libftdi/ftdi.c): a program fills   *)
(* struct ftdi_eeprom, builds an image of it in a buffer, writes the       *)
(* buffer to the EEPROM of the connected chip word by word, reads it back  *)
(* and decodes it.  Every call may come in any order, and every USB        *)
(* transfer may fail, which leaves a part of its work done.                *)
(*                                                                         *)
(* What the buffer and the EEPROM hold is followed by its origin: a        *)
(* complete image and the values it was built from, nothing (zeros or an   *)
(* erased memory), a mixture that a failure left, or content that was not  *)
(* built for this memory.                                                  *)
(***************************************************************************)
EXTENDS FtdiImage

CONSTANTS
  Uses,       \* what a program works with: [type, kind, setting, texts, fresh,
              \* calls, faults], the chip and its EEPROM, the values and strings
              \* it gives, whether it starts from ftdi_init; bounds of the calls
              \* that change the structure or the EEPROM and of failing transfers
  Others,     \* pairs of type and kind that the context may be opened for next
  Garbage,    \* texts that a decode may find behind the buffer
  Factory,    \* the bits in the reserved words of a FT230X
  FailPoints  \* words done when a transfer fails

VARIABLES
  type,    \* type of the connected chip, ftdi->type
  kind,    \* its EEPROM: 70, 86 or 102 for 93x46, 93x56 and 93x66, 0 if internal
  use,     \* the use, chosen once
  mem,     \* the content of its EEPROM
  memOf,   \* origin of mem
  ee,      \* struct ftdi_eeprom: values, texts, size, buffer, whether the
           \* buffer was initialized for the connected device
  bufOf,   \* origin of the buffer
  last,    \* "decoded" or "undecodable" after a decode, else "other"
  calls,   \* number of changing calls so far
  faults   \* number of failures so far

vars == <<type, kind, use, mem, memOf, ee, bufOf, last, calls, faults>>
deviceVars == <<type, kind, use>>

NoTexts == <<<<>>, <<>>, <<>>>>
Origin(what, t, v, texts) == [what |-> what, type |-> t, values |-> v, texts |-> texts]
Built(t, v, texts) == Origin("image", t, v, texts)
Blank == Origin("blank", "", ZeroValues, NoTexts)
Mixed == Origin("mixed", "", ZeroValues, NoTexts)
Unknown == Origin("unknown", "", ZeroValues, NoTexts)

Call == calls < use.calls /\ calls' = calls + 1
Fault == faults < use.faults /\ faults' = faults + 1
Then(what) == last' = what

-----------------------------------------------------------------------------
(* The EEPROM: 16 bit words at addresses that wrap around. *)

Capacity(k) == CASE k = 70 -> 64 [] k = 102 -> 256 [] OTHER -> 128
InternalTypes == {"R", "230X"}

\* The reserved words of a FT230X, which a write does not change.
ReservedBits(t) == IF t = "230X" THEN Region(\h80, \h9F) ELSE {}
Reserved(t) == {WordOf(x) : x \in ReservedBits(t)}
Erased(t, k) ==
  (0 .. 16 * Capacity(k) - 1 \ ReservedBits(t)) \cup (IF t = "230X" THEN Factory ELSE {})

\* Content m after the words ws of img are written to their addresses in order:
\* of words with the same address the last one stays.
WriteWords(m, k, img, ws) ==
  LET cap == Capacity(k)
      final == {w \in ws : w + cap \notin ws}
      addresses == {w % cap : w \in final}
  IN  {x \in m : WordOf(x) \notin addresses}
        \cup {x % (16 * cap) : x \in {y \in img : WordOf(y) \in final}}

\* The buffer after the first n words of the EEPROM are read into it.
ReadWords(m, k, buf, n) ==
  LET copies == {d \in 0 .. 127 : d % Capacity(k) = 0}
  IN  {x \in buf : WordOf(x) >= n}
        \cup {x \in {y + 16 * d : y \in m, d \in copies} : WordOf(x) < n}

-----------------------------------------------------------------------------
(* The structure. *)

DefaultProductId(t) ==
  CASE t \in {"AM", "BM", "R"} -> \h6001 [] t = "4232H" -> \h6011
    [] t = "232H" -> \h6014 [] t = "230X" -> \h6015 [] OTHER -> \h6010
DefaultRelease(t) ==
  256 * (CASE t = "AM" -> 2 [] t = "BM" -> 4 [] t = "2232C" -> 5 [] t = "R" -> 6
           [] t = "2232H" -> 7 [] t = "4232H" -> 8 [] t = "232H" -> 9 [] t = "230X" -> 16)
\* The functions of the CBUS pins 0 to 4.
DefaultCbus(t) ==
  CASE t = "R" -> <<3, 2, 0, 1, 5>> [] t = "230X" -> <<9, 1, 2, 5, 0>>
    [] OTHER -> <<0, 0, 0, 0, 0>>

DefaultValues(t) ==
  [f \in Fields |->
    CASE f[1] = "vendor_id" -> \h0403
      [] f[1] = "product_id" -> DefaultProductId(t)
      [] f[1] = "usb_version" -> IF t = "AM" THEN \h0101 ELSE \h0200
      [] f[1] = "release_number" -> DefaultRelease(t)
      [] f[1] = "use_serial" -> 1
      [] f[1] = "max_power" -> IF t \in InternalTypes THEN 90 ELSE 100
      [] f[1] = "cbus_function" /\ f[2] < 5 -> DefaultCbus(t)[f[2] + 1]
      [] OTHER -> 0]

\* The letters of the default product name, which stand for any text.
DefaultProduct(t) ==
  [j \in 1 .. (CASE t \in {"AM", "BM"} -> 2 [] t = "2232C" -> 10 [] t = "R" -> 15
                 [] t = "2232H" -> 13 [] t = "4232H" -> 7 [] t = "232H" -> 15
                 [] t = "230X" -> 17) |-> 64 + j]

\* What ftdi_get_eeprom_value answers for a field.
get_eeprom_value(f) ==
  IF f = <<"cbus_function", 9>> THEN ee.values["cbus_function", 8] ELSE ee.values[f]

-----------------------------------------------------------------------------
(* Calls on the structure and the buffer. *)

Defaults(t, texts) ==
  [values |-> DefaultValues(t),
   texts |-> IF texts[2] = <<>> THEN [texts EXCEPT ![2] = DefaultProduct(t)] ELSE texts,
   size |-> CASE t = "R" -> 128 [] t = "230X" -> 256 [] OTHER -> -1,
   buf |-> {}, initialized |-> FALSE]

ftdi_eeprom_initdefaults(texts) ==
  /\ Call
  /\ ee' = Defaults(type, texts) /\ bufOf' = Blank
  /\ Then("other")
  /\ UNCHANGED <<deviceVars, mem, memOf, faults>>

\* Given strings replace the old ones; the buffer still counts as initialized.
ftdi_eeprom_set_strings(texts) ==
  /\ Call
  /\ ee' = [ee EXCEPT
       !.texts = [k \in 1 .. 3 |-> IF texts[k] = <<>> THEN @[k] ELSE texts[k]],
       !.values[<<"use_serial", 0>>] = IF texts[3] = <<>> THEN @ ELSE 1]
  /\ Then("other")
  /\ UNCHANGED <<deviceVars, mem, memOf, bufOf, faults>>

\* Calls of ftdi_set_eeprom_value, one for every field in s.
ftdi_set_eeprom_value(s) ==
  /\ Call
  /\ ee' = [ee EXCEPT !.initialized = FALSE,
              !.values = [f \in Fields |-> IF f \in DOMAIN s THEN s[f] ELSE @[f]]]
  /\ Then("other")
  /\ UNCHANGED <<deviceVars, mem, memOf, bufOf, faults>>

\* A buffer of zeros from the program.
ftdi_set_eeprom_buf ==
  /\ Call
  /\ ee' = [ee EXCEPT !.buf = {}] /\ bufOf' = Blank
  /\ Then("other")
  /\ UNCHANGED <<deviceVars, mem, memOf, faults>>

\* The size of an image when it is not known from the memory.
SizeForBuild ==
  IF ee.size # -1 THEN ee.size
  ELSE IF ee.values["chip", 0] \in {86, 102} THEN 256 ELSE 128

\* Fails when the chip of the EEPROM is unknown or the strings do not fit.
\* Images of a size that no EEPROM has are not followed.
ftdi_eeprom_build ==
  LET size == SizeForBuild IN
  /\ ee.values[<<"chip", 0>>] # -1 /\ size \in {128, 256}
  /\ IF UserArea(type, ee.texts) < 0
       THEN ee' = [ee EXCEPT !.size = size] /\ UNCHANGED bufOf
       ELSE /\ ee' = [ee EXCEPT !.size = size, !.initialized = TRUE,
                        !.buf = Image(type, ee.values, ee.texts, size, @)]
            /\ bufOf' = Built(type, ee.values, ee.texts)
  /\ Then("other")
  /\ UNCHANGED <<deviceVars, mem, memOf, calls, faults>>

\* The texts a decode may find; a memory without size has no bounds for them.
TextsFound ==
  LET found(k) == IF ee.size <= 0 \/ LeavesBuffer(ee.buf, 12 + 2 * k, ee.size)
                    THEN Garbage ELSE {TextAt(ee.buf, 12 + 2 * k, ee.size)}
  IN  {<<m, p, s>> : m \in found(1), p \in found(2), s \in found(3)}

\* The common values and the texts are decoded before the checksum is looked
\* at, the values of the type only if it is right.
ftdi_eeprom_decode ==
  /\ \E texts \in TextsFound :
       IF ChecksumIsRight(type, ee.buf, ee.size)
         THEN /\ ee' = [ee EXCEPT !.texts = texts,
                          !.values = DecodedValues(type, @, ee.buf)]
              /\ Then("decoded")
         ELSE /\ ee' = [ee EXCEPT !.texts = texts,
                          !.values = Override(@, DecodedHeader, ee.buf)]
              /\ Then("undecodable")
  /\ UNCHANGED <<deviceVars, mem, memOf, bufOf, calls, faults>>

-----------------------------------------------------------------------------
(* Calls on the EEPROM. *)

HalvesAgree(buf, bytes) ==
  \A x \in 0 .. 8 * bytes - 1 : (x \in buf) <=> (x + 8 * bytes \in buf)

\* strrchr finds the end of the buffer only if no byte before it is zero; it
\* then goes on into the release number, which lies behind the buffer.
LooksBlank(buf, v) ==
  LET low == v["release_number", 0] % 256
      high == v["release_number", 0] \div 256
  IN  /\ \A b \in 0 .. 255 : \E bit \in 0 .. 7 : At(b, bit) \in buf
      /\ ByteOf(buf, 255) = 255
      /\ low = 0 \/ (low # 255 /\ high # 255)

GuessedSize(buf, v) ==
  CASE type = "R" -> 128
    [] type # "R" /\ LooksBlank(buf, v) -> -1
    [] OTHER -> IF HalvesAgree(buf, 128) THEN 128
                ELSE IF HalvesAgree(buf, 64) THEN 64 ELSE 256

\* Buffers that agree in the bytes that count.
SameImage(b, c) == \A x \in (b \ c) \cup (c \ b) : x >= 8 * ee.size

\* All words are read, or n of them before a transfer fails; the size is only
\* looked at after the last.
ftdi_read_eeprom ==
  LET whole == ReadWords(mem, kind, ee.buf, 128)
      size == GuessedSize(whole, ee.values)
  IN
  /\ \/ /\ ee' = [ee EXCEPT !.buf = whole, !.size = size]
        /\ bufOf' = memOf
        /\ UNCHANGED faults
     \/ \E n \in FailPoints :
        /\ Fault
        /\ ee' = [ee EXCEPT !.buf = ReadWords(mem, kind, @, n)]
        /\ bufOf' = IF SameImage(ee'.buf, ee.buf) THEN bufOf
                    ELSE IF ~SameImage(ee'.buf, whole) THEN Mixed
                    ELSE IF size = ee.size THEN memOf ELSE Unknown
  /\ Then("other")
  /\ UNCHANGED <<deviceVars, mem, memOf, calls>>

\* Whether an image of the structure's size is one for this memory.
Fits ==
  /\ ee.size = IF type = "R" THEN 128 ELSE Min({256, 2 * Capacity(kind)})
  /\ ReservedBits(type) \cap ee.buf = ReservedBits(type) \cap mem

\* Only a buffer initialized for the connected device is written.  The words
\* of the buffer are written in order, without the reserved ones.
ftdi_write_eeprom ==
  LET words == 0 .. ee.size \div 2 - 1 \ Reserved(type)
      whole == WriteWords(mem, kind, ee.buf, words)
      wholeOf == IF whole = mem THEN memOf ELSE IF Fits THEN bufOf ELSE Unknown
  IN
  /\ ee.initialized /\ Call
  /\ \/ mem' = whole /\ memOf' = wholeOf /\ UNCHANGED faults
     \/ \E n \in FailPoints :
        /\ Fault
        /\ mem' = WriteWords(mem, kind, ee.buf, {w \in words : w < n})
        /\ memOf' = IF mem' = mem THEN memOf ELSE IF mem' = whole THEN wholeOf ELSE Mixed
  /\ Then("other")
  /\ UNCHANGED <<deviceVars, ee, bufOf>>

\* The place of the chip byte; other types have no user area.
ChipByte(t) ==
  CASE t \in {"BM", "2232C"} -> 20 [] t \in {"2232H", "4232H"} -> 24 [] t = "232H" -> 30

\* A word of the user area: only if the image says that the chip has one.
ftdi_write_eeprom_location(addr) ==
  /\ addr >= 128 /\ type \notin {"AM"} \cup InternalTypes
  /\ ByteOf(mem, ChipByte(type)) = 102
  /\ Call
  /\ mem' = {x \in mem : WordOf(x) # addr % Capacity(kind)}
  /\ Then("other")
  /\ UNCHANGED <<deviceVars, memOf, ee, bufOf, faults>>

\* The magic word, written behind the largest image; a reserved word stays.
Magic == {1, 3, 5, 7, 8, 10, 12, 14}
MagicWord(m, addr) == {b \in 0 .. 15 : 16 * (addr % Capacity(kind)) + b \in m} = Magic
MagicWritten ==
  LET at == 192 % Capacity(kind)
      bits == {16 * at + b : b \in 0 .. 15}
  IN  IF at \in Reserved(type) THEN Erased(type, kind)
      ELSE (Erased(type, kind) \ bits) \cup {16 * at + b : b \in Magic}

\* The kind whose addresses wrap around before the first of these words that
\* shows the magic.
DetectedChip(m) ==
  CASE MagicWord(m, 0) -> 70
    [] ~MagicWord(m, 0) /\ MagicWord(m, 64) -> 86
    [] ~MagicWord(m, 0) /\ ~MagicWord(m, 64) /\ MagicWord(m, 192) -> 102
    [] OTHER -> -1

\* The memory is erased, its kind found out by a magic word, and erased again;
\* each transfer may fail, but a failure of the first changes nothing.  A type R has no need for it.
ftdi_erase_eeprom ==
  /\ Call
  /\ IF type = "R"
       THEN ee' = [ee EXCEPT !.values[<<"chip", 0>>] = 0] /\ UNCHANGED <<mem, memOf, faults>>
       ELSE LET magic == MagicWritten
                detected == [ee EXCEPT !.values[<<"chip", 0>>] = DetectedChip(magic)] IN
            /\ memOf' = Blank
            /\ \/ ee' = detected /\ mem' = Erased(type, kind) /\ UNCHANGED faults
               \/ ee' = detected /\ mem' = magic /\ Fault
               \/ UNCHANGED ee /\ mem' \in {magic, Erased(type, kind)} /\ Fault
  /\ Then("other")
  /\ UNCHANGED <<deviceVars, bufOf>>

-----------------------------------------------------------------------------
(* The device. *)

\* Seeded fault: closing keeps the buffer initialized.
ReopenInitialized(t, k) ==
  /\ t # type /\ Call
  /\ type' = t /\ kind' = k /\ mem' = Erased(t, k) /\ memOf' = Blank
  /\ Then("other")
  /\ UNCHANGED <<use, ee, bufOf, faults>>

\* The context is closed and opened for another chip, whose EEPROM is blank.
Reopen(t, k) ==
  /\ t # type /\ Call
  /\ type' = t /\ kind' = k /\ mem' = Erased(t, k) /\ memOf' = Blank
  /\ ee' = [ee EXCEPT !.initialized = FALSE]
  /\ Then("other")
  /\ UNCHANGED <<use, bufOf, faults>>

\* A context opened for a chip with a blank EEPROM, as ftdi_init leaves it, or
\* with the defaults and the kind of EEPROM that an erase found out.
Init ==
  /\ use \in Uses /\ type = use.type /\ kind = use.kind
  /\ mem = Erased(type, kind) /\ memOf = Blank
  /\ ee = IF use.fresh
            THEN [values |-> ZeroValues, texts |-> NoTexts, size |-> 0, buf |-> {},
                  initialized |-> FALSE]
            ELSE [Defaults(type, use.texts) EXCEPT !.values[<<"chip", 0>>] = kind]
  /\ bufOf = Blank /\ last = "other" /\ calls = 0 /\ faults = 0

Next ==
  \/ ftdi_eeprom_initdefaults(use.texts) \/ ftdi_eeprom_set_strings(use.texts)
  \/ ftdi_set_eeprom_value(use.setting)
  \/ ftdi_set_eeprom_buf \/ ftdi_eeprom_build \/ ftdi_eeprom_decode
  \/ ftdi_read_eeprom \/ ftdi_write_eeprom \/ ftdi_erase_eeprom
  \/ ftdi_write_eeprom_location(128)
  \/ \E d \in Others : Reopen(d[1], d[2])

Spec == Init /\ [][Next]_vars

-----------------------------------------------------------------------------
(* Properties. *)

\* Fields that a decode takes from an image, and those of them that a build
\* does not put there: bytes it leaves zero, fixes or uses for something else.
Decoded(t) == {r[1] : r \in DecodedHeader \cup DecodedRows(t)}
NotStored(t) ==
  CASE t = "AM" -> {"in_is_isochronous", "out_is_isochronous", "suspend_pull_downs",
                    "use_serial", "use_usb_version", "usb_version"} \X {0}
    [] t = "BM" -> {<<"suspend_pull_downs", 0>>}
    [] t = "2232C" -> {}
    [] t = "R" -> {"use_usb_version", "chip"} \X {0}
    [] t = "230X" -> ({"in_is_isochronous", "out_is_isochronous", "suspend_pull_downs",
                       "use_serial", "use_usb_version", "usb_version"} \X {0})
                     \cup ({"drive", "slew", "schmitt"} \X {0, 1})
    [] OTHER -> {"use_usb_version", "usb_version"} \X {0}

\* Fields that are stored in an image but not decoded.
NotDecoded(t) ==
  (IF After(t, "BM") THEN {<<"is_not_pnp", 0>>} ELSE {})
    \cup (IF t = "230X" THEN {"cbus_function"} \X (4 .. 6) ELSE {})

\* The values a type can store; a build replaces or cuts others.
Storable(t, f, x) ==
  CASE f[1] \in {"channel_type"} -> x \in ChannelModes(t)
    [] f[1] = "drive" -> x <= DRIVE_16MA
    [] f[1] = "max_power" -> x % 2 = 0 /\ x <= 510
    [] f[1] = "cbus_function" ->
         x <= (CASE t = "R" -> (IF f[2] = 4 THEN 9 ELSE 13) [] t = "232H" -> 12
                 [] OTHER -> 255)
    [] OTHER -> TRUE
Agree(f, x, y) == IF f \in Flags THEN (x = 0) <=> (y = 0) ELSE x = y

\* An image that was built for this chip, and one that was written to an EEPROM
\* of its size and read again, decodes to the values and strings it was built
\* from: no two fields share a bit, no string reaches the fields or the checksum
\* at any length that ftdi_eeprom_build accepts, and the size guess is right.
\* (ftdi_get_eeprom_value answers CBUS_FUNCTION_9 with the pin before it.)
WrittenIsReadBack ==
  (last # "other" /\ bufOf.what = "image" /\ bufOf.type = type) =>
    /\ last = "decoded"
    /\ ee.texts = bufOf.texts
    /\ \A f \in Decoded(type) \ (NotStored(type) \cup {<<"cbus_function", 9>>}) :
         Storable(type, f, bufOf.values[f])
           => Agree(f, get_eeprom_value(f), bufOf.values[f])

\* A write or read that failed on the way, a blank memory and a cleared buffer
\* are never taken for a configuration: the checksum of ftdi_eeprom_decode
\* tells them from every image that was completed.
OnlyImagesDecode == last = "decoded" => bufOf.what \notin {"mixed", "blank"}

\* "Was the eeprom structure initialized for the actual connected device?": no
\* EEPROM receives an image that was built for another type of chip.
ImageIsForChip == memOf.what = "image" => memOf.type = type

\* Building again what was decoded gives the same image, so that reading,
\* changing a value and writing keeps everything else; except for what a decode
\* does not see.  (Types AM and BM cannot be built after a decode.)
RebuildIsSame ==
  (/\ last = "decoded" /\ bufOf.what = "image" /\ bufOf.type = type
   /\ type \notin {"AM", "BM"}
   /\ \A f \in NotDecoded(type) : ee.values[f] = bufOf.values[f])
  => SameImage(Image(type, ee.values, ee.texts, ee.size, ee.buf), ee.buf)
=============================================================================
