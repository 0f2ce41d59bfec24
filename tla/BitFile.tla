------------------------------- MODULE BitFile -------------------------------
(***************************************************************************)
(* What the programmer makes of a bitfile: BitFile::readBitfile and the    *)
(* functions it calls (src/devices/xc3sprog/bitfile.cpp).                  *)
(*                                                                         *)
(* A file is a header and a sequence of sections.  A section has a key, a  *)
(* number of bytes it declares and the number that the file holds of them; *)
(* only the last section may be cut off.  What the fields of the header    *)
(* say is printed and nothing else; a section "e" holds the design.        *)
(***************************************************************************)
EXTENDS Naturals, Sequences

CONSTANT MaxLength   \* bound: bytes of a section

Sections ==
  {s \in [key : {"a", "?", "e"}, declared : 0 .. MaxLength, held : 0 .. MaxLength] :
     s.held <= s.declared}
Whole(s) == s.held = s.declared

\* Files of up to two sections.
Files ==
  {f \in UNION {[1 .. n -> Sections] : n \in 0 .. 2} :
     \A i \in DOMAIN f : i < Len(f) => Whole(f[i])}

\* A result: the code that readFile returns, the bytes in the buffer, and
\* whether all of them come from the file.
Result(code, length, whole) == [code |-> code, length |-> length, whole |-> whole]
NoResult == Result(1, 0, FALSE)

\* Seeded fault: the end of the file is only looked at before the data.
processDataUnchecked(s) == Result(0, s.declared, Whole(s))

\* The buffer is as long as declared; at the end of the file an exception
\* makes readBitfile return 2.
processData(s) ==
  IF Whole(s) THEN Result(0, s.declared, TRUE) ELSE Result(2, s.declared, FALSE)

\* Fields of known and unknown keys are read over, up to the first data; data of
\* no length is taken as well, the test for it is never reached.  At the end of
\* the file the last key counts once more, and its field ends the loop.
readBitfile(f) ==
  LET data == {i \in DOMAIN f : f[i].key = "e"} IN
  IF data = {} THEN Result(2, 0, FALSE)
  ELSE processData(f[CHOOSE i \in data : \A j \in data : i <= j])
=============================================================================
