-------------------------------- MODULE Jtag --------------------------------
(***************************************************************************)
(* How the programmer talks to the FPGA: the Jtag object with its shadow   *)
(* of the TAP state (src/devices/xc3sprog/jtag.cpp), the buffer of TMS     *)
(* bits (iobase.cpp), the buffer of commands for the MPSSE of the FTDI     *)
(* chip (ioftdi.cpp), and the chain behind it.  Nothing in the buffers has *)
(* happened yet: the shadow runs ahead of the TAP.                         *)
(*                                                                         *)
(* A call is one step.  An exception in the middle of it, or the end of    *)
(* the programming, leaves the TAP anywhere (Destroy).  The chain has one  *)
(* device or the constructor of DeviceProgrammer throws, so shifts need no *)
(* bits for devices before or behind the target; all end with TMS high.    *)
(***************************************************************************)
EXTENDS Naturals, SequencesExt

CONSTANTS
  ByteBits,   \* bits of a byte, 8
  TxBuf,      \* TX_BUF, bytes of the command buffer, 4096
  Chunk,      \* bits of the TMS buffer and of a block of equal bits, 1024
  TmsBits,    \* TMS bits of one command, 6
  IrLen,      \* bits of the instruction register, 6
  IdBytes,    \* bytes of an IDCODE, 4
  MaxDevices, \* MAXNUMDEVICES, devices that are looked for, 1000
  DrLengths,  \* lengths of data, in bits
  Cycles,     \* arguments of cycleTCK
  MaxCalls    \* calls of one programming

ASSUME JtagAssumption ==
  /\ ByteBits \in Nat \ {0} /\ TxBuf \in Nat /\ TxBuf > 4
  /\ {Chunk, TmsBits, IrLen, IdBytes, MaxDevices} \subseteq Nat \ {0}
  /\ DrLengths \subseteq Nat /\ Cycles \subseteq Nat \ {0} /\ MaxCalls \in Nat

VARIABLES
  s,       \* the Jtag object, its cable and the chain: see Fresh
  phase,   \* "closed" or "ready", a DeviceProgrammer exists
  call,    \* the latest call
  answer,  \* the bits it has read
  issued,  \* history: the instructions and data of this programming
  empty    \* history: data of length 0 was shifted

vars == <<s, phase, call, answer, issued, empty>>

-----------------------------------------------------------------------------
\* c after Do with each of seq, from the first to the last.
Each(Do(_, _), c, seq) ==
  LET after[i \in 0 .. Len(seq)] == IF i = 0 THEN c ELSE Do(after[i - 1], seq[i])
  IN  after[Len(seq)]

-----------------------------------------------------------------------------
(* The chain.  Entry <<low, high>> is where a clock with TMS low or high   *)
(* leads.                                                                  *)

TapNext ==
  [TEST_LOGIC_RESET |-> <<"RUN_TEST_IDLE", "TEST_LOGIC_RESET">>,
   RUN_TEST_IDLE |-> <<"RUN_TEST_IDLE", "SELECT_DR_SCAN">>,
   SELECT_DR_SCAN |-> <<"CAPTURE_DR", "SELECT_IR_SCAN">>,
   CAPTURE_DR |-> <<"SHIFT_DR", "EXIT1_DR">>,
   SHIFT_DR |-> <<"SHIFT_DR", "EXIT1_DR">>,
   EXIT1_DR |-> <<"PAUSE_DR", "UPDATE_DR">>,
   PAUSE_DR |-> <<"PAUSE_DR", "EXIT2_DR">>,
   EXIT2_DR |-> <<"SHIFT_DR", "UPDATE_DR">>,
   UPDATE_DR |-> <<"RUN_TEST_IDLE", "SELECT_DR_SCAN">>,
   SELECT_IR_SCAN |-> <<"CAPTURE_IR", "TEST_LOGIC_RESET">>,
   CAPTURE_IR |-> <<"SHIFT_IR", "EXIT1_IR">>,
   SHIFT_IR |-> <<"SHIFT_IR", "EXIT1_IR">>,
   EXIT1_IR |-> <<"PAUSE_IR", "UPDATE_IR">>,
   PAUSE_IR |-> <<"PAUSE_IR", "EXIT2_IR">>,
   EXIT2_IR |-> <<"SHIFT_IR", "UPDATE_IR">>,
   UPDATE_IR |-> <<"RUN_TEST_IDLE", "SELECT_DR_SCAN">>]

TapStates == DOMAIN TapNext

Same == 2   \* TMS keeps its level

\* Constant bits, and the bits of word n of some source, least significant first.
Low == <<"low", 0, 0>>
High == <<"high", 0, 0>>
Below == <<"below", 0, 0>>   \* what a read returns below its bits
Bits(source, n, length) == [i \in 1 .. length |-> <<source, n, i>>]

Ids(chain) == FlattenSeq([d \in 1 .. chain |-> Bits("id", d, IdBytes * ByteBits)])

\* One clock.  After a reset the data registers are the IDCODEs; later they
\* take whatever comes, which is what the configuration logic does.  TDO is
\* high unless the chain drives it.
Clock(c, clock) ==
  LET level == IF clock.tms = Same THEN c.level ELSE clock.tms
      next == TapNext[c.tap][level + 1]
      shifting == c.tap \in {"SHIFT_DR", "SHIFT_IR"} /\ c.chain > 0
      through == c.tap = "SHIFT_IR" \/ c.reset
      reg == CASE c.tap = "CAPTURE_IR" -> Bits("status", c.captures + 1, IrLen)
               [] c.tap = "CAPTURE_DR" -> IF c.reset THEN Ids(c.chain) ELSE <<>>
               [] shifting /\ through -> Append(Tail(c.reg), clock.tdi)
               [] shifting /\ ~through -> Append(c.reg, clock.tdi)
               [] OTHER -> c.reg
  IN  [c EXCEPT
        !.level = level,
        !.tap = next,
        !.reg = reg,
        !.tdo = Append(@, IF shifting /\ through THEN Head(c.reg) ELSE High),
        !.captures = IF c.tap = "CAPTURE_IR" THEN @ + 1 ELSE @,
        !.reset = \/ next = "TEST_LOGIC_RESET"
                  \/ @ /\ next # "UPDATE_IR",
        !.latched =
          CASE next = "TEST_LOGIC_RESET" -> <<>>
            [] next = "UPDATE_IR" \/ (next = "UPDATE_DR" /\ ~c.reset) -> Append(@, reg)
            [] OTHER -> @]

ClockAll(c, clocks) == Each(Clock, c, clocks)

\* The MPSSE executes a command.  A reading one returns a byte with its bits on
\* top, whatever is below.
Execute(c, command) ==
  LET r == ClockAll([c EXCEPT !.tdo = <<>>], command.clocks)
      Byte(tdo) == [i \in 1 .. ByteBits - Len(tdo) |-> Below] \o tdo
  IN  [r EXCEPT !.fifo = IF command.read THEN Append(@, Byte(r.tdo)) ELSE @]

ExecuteAll(c, commands) == Each(Execute, c, commands)

-----------------------------------------------------------------------------
(* The command buffer of the cable.  A part of a command is len bytes that *)
(* complete some commands; with "send" the buffer is sent behind it, and   *)
(* read bytes are read.                                                    *)

Part(len, commands) == [len |-> len, commands |-> commands, send |-> FALSE, read |-> 0]
mpsse_send == <<[len |-> 0, commands |-> <<>>, send |-> TRUE, read |-> 0]>>
readusb(n) == <<[len |-> 1, commands |-> <<>>, send |-> TRUE, read |-> n]>>

Send(c) == [ExecuteAll(c, c.usbuf) EXCEPT !.usbuf = <<>>, !.bptr = 0]

\* mpsse_add_cmd sends the buffer first.
IsFull(c, len) == c.bptr + len + 1 >= TxBuf

\* What the chip has answered by then is read to the last byte.
Take(c, n) ==
  [c EXCEPT !.rbuf = @ \o SubSeq(c.fifo, 1, n), !.fifo = SubSeq(@, n + 1, Len(@))]

mpsse_add_cmd(c, part) ==
  LET Added(r) == [r EXCEPT !.usbuf = @ \o part.commands, !.bptr = @ + part.len]
      Sent(r) == IF part.send THEN Send(r) ELSE r
      Read(r) == IF part.read > 0 THEN Take(r, part.read) ELSE r
  IN  Read(Sent(Added(IF IsFull(c, part.len) THEN Send(c) ELSE c)))

AddAll(c, parts) == Each(mpsse_add_cmd, c, parts)

Command(tms, tdi, read) ==
  [clocks |-> [i \in DOMAIN tdi |-> [tms |-> tms[i], tdi |-> tdi[i]]], read |-> read]

Data(tdi, read) == Command([i \in DOMAIN tdi |-> Same], tdi, read)

\* Piece i of a sequence that is cut into pieces of n.
Piece(seq, n, i) == SubSeq(seq, (i - 1) * n + 1, IF i * n < Len(seq) THEN i * n ELSE Len(seq))

tx_tms(pat) ==
  LET TmsOnly(piece) == Command(piece, [k \in DOMAIN piece |-> High], FALSE)
  IN  [i \in 1 .. (Len(pat) + TmsBits - 1) \div TmsBits |->
         Part(3, <<TmsOnly(Piece(pat, TmsBits, i))>>)]

\* Whole bytes of data.
Bytes(tdi, read) ==
  LET n == Len(tdi) \div ByteBits
  IN  <<Part(3, <<>>), Part(n, [i \in 1 .. n |-> Data(Piece(tdi, ByteBits, i), read)])>>

ShiftRight(byte, k) == SubSeq(byte, k + 1, ByteBits) \o [i \in 1 .. k |-> Low]

\* Seeded fault: the bits of an incomplete byte are left where they are.
AssembleUnaligned(rbuf, rembits, last) ==
  LET n == Len(rbuf)
      end == rbuf[n][ByteBits]
  IN  CASE ~last -> rbuf
        [] last /\ rembits = 0 -> [rbuf EXCEPT ![n] = [@ EXCEPT ![1] = end]]
        [] last /\ rembits > 0 ->
             SubSeq(rbuf, 1, n - 2) \o <<[rbuf[n - 1] EXCEPT ![rembits + 1] = end]>>

\* The bits of an incomplete byte are shifted down, the bit that came with TMS
\* is joined to them.
Assemble(rbuf, rembits, last) ==
  LET n == Len(rbuf)
      end == rbuf[n][ByteBits]
      Down(i) == ShiftRight(rbuf[i], ByteBits - rembits)
  IN  CASE ~last -> IF rembits = 0 THEN rbuf ELSE [rbuf EXCEPT ![n] = Down(n)]
        [] last /\ rembits = 0 -> [rbuf EXCEPT ![n] = [@ EXCEPT ![1] = end]]
        [] last /\ rembits > 0 ->
             SubSeq(rbuf, 1, n - 2) \o <<[Down(n - 1) EXCEPT ![rembits + 1] = end]>>

\* Seeded fault: the last bit is looked for in the first byte.
LastBitOfFirstByte(tdi, rembits) == tdi[rembits + 1]

\* The bit behind the whole bytes and the rembits that were added.
LastBit(tdi, rembits) == Last(tdi)

\* How many bits of data go without TMS.
Rem(tdi, last) == Len(tdi) - (IF last THEN 1 ELSE 0)

\* Full chunks while more than a chunk remains, then whole bytes, then bits,
\* then the last bit with TMS high.
txrx_block(tdi, tdo, last) ==
  LET chunk == TxBuf - 3
      rem == Rem(tdi, last)
      chunks == IF rem \div ByteBits > chunk
                  THEN (rem \div ByteBits - 1) \div chunk ELSE 0
      start == chunks * chunk * ByteBits
      buflen == (rem - start) \div ByteBits
      rembits == rem % ByteBits
      noSpace == buflen >= TxBuf - 4
      left == (IF noSpace THEN 0 ELSE buflen) + (IF rembits = 0 THEN 0 ELSE 1)
                + (IF last THEN 1 ELSE 0)
      When(condition, parts) == IF condition THEN parts ELSE <<>>
      AddChunk(i) ==
        Bytes(Piece(tdi, chunk * ByteBits, i), tdo) \o When(tdo, readusb(chunk))
  IN  FlattenSeq([i \in 1 .. chunks |-> AddChunk(i)])
      \o When(buflen > 0, Bytes(SubSeq(tdi, start + 1, rem - rembits), tdo))
      \o When(noSpace /\ tdo, readusb(buflen))
      \o When(rembits > 0, <<Part(2, <<>>),
                             Part(1, <<Data(SubSeq(tdi, rem - rembits + 1, rem), tdo)>>)>>)
      \o When(last, <<Part(3, <<Command(<<1>>, <<LastBit(tdi, rembits)>>, tdo)>>)>>)
      \o When(tdo, readusb(left))

-----------------------------------------------------------------------------
(* IOBase: the calls on the cable, and how they are carried out with the   *)
(* TMS buffer, which all but set_tms flush.                                *)

flush == <<[do |-> "flush"]>>
flush_tms == <<[do |-> "flush_tms"]>>
Tms(val) == [do |-> "set_tms", val |-> val]
set_tms(val) == <<Tms(val)>>

shiftTDITDO(tdi, tdo, last) ==
  IF tdi = <<>> THEN <<>>
  ELSE <<[do |-> "txrx_block", tdi |-> tdi, tdo |-> tdo, last |-> last]>>

Repeat(bit, n) == [i \in 1 .. n |-> bit]

\* Blocks of equal bits.
shift(tdi, length, last) ==
  LET blocks == IF length = 0 THEN 0 ELSE (length - 1) \div Chunk
  IN  flush_tms
      \o FlattenSeq([i \in 1 .. blocks |-> shiftTDITDO(Repeat(tdi, Chunk), FALSE, FALSE)])
      \o shiftTDITDO(Repeat(tdi, length - blocks * Chunk), FALSE, last)

Io(c, q) ==
  LET isTms == q.do = "set_tms"
      isRead == q.do = "txrx_block" /\ q.tdo
      flushed == q.do \in {"flush_tms", "txrx_block"} \/ (isTms /\ Len(c.tms) + 1 > Chunk)
      parts == (IF flushed THEN tx_tms(c.tms) ELSE <<>>) \o
               CASE q.do = "txrx_block" -> txrx_block(q.tdi, q.tdo, q.last)
                 [] q.do = "flush" -> mpsse_send
                 [] OTHER -> <<>>
      r == AddAll(c, parts)
  IN  [r EXCEPT
        !.tms = (IF flushed THEN <<>> ELSE @) \o (IF isTms THEN <<q.val>> ELSE <<>>),
        !.rbuf = IF isRead THEN Assemble(@, Rem(q.tdi, q.last) % ByteBits, q.last) ELSE @]

IoAll(c, calls) == Each(Io, c, calls)

\* A sequence of calls on the cable, one of which may read, after which the
\* shadow is state.
Perform(c, calls, state) ==
  [IoAll([c EXCEPT !.rbuf = <<>>], calls) EXCEPT !.state = state]

-----------------------------------------------------------------------------
(* Jtag.  What a function does to the cable is a sequence of calls.        *)

tapTestLogicReset ==
  Repeat(Tms(1), 5) \o flush_tms \o flush

\* The switch of setTapState: for which targets a state is left with TMS low,
\* and where that, and TMS high, leads.
Hop(state, target) ==
  LET Go(lowFor, low, high) ==
        IF target \in lowFor THEN [tms |-> 0, state |-> low] ELSE [tms |-> 1, state |-> high]
      Dr == {"CAPTURE_DR", "SHIFT_DR", "EXIT1_DR", "PAUSE_DR", "EXIT2_DR", "UPDATE_DR"}
      Ir == {"CAPTURE_IR", "SHIFT_IR", "EXIT1_IR", "PAUSE_IR", "EXIT2_IR", "UPDATE_IR"}
  IN  CASE state = "TEST_LOGIC_RESET" -> Go(TapStates, "RUN_TEST_IDLE", "")
        [] state = "RUN_TEST_IDLE" -> Go({}, "", "SELECT_DR_SCAN")
        [] state = "SELECT_DR_SCAN" -> Go(Dr, "CAPTURE_DR", "SELECT_IR_SCAN")
        [] state = "CAPTURE_DR" -> Go({"SHIFT_DR"}, "SHIFT_DR", "EXIT1_DR")
        [] state = "SHIFT_DR" -> Go({}, "", "EXIT1_DR")
        [] state = "EXIT1_DR" ->
             Go({"PAUSE_DR", "EXIT2_DR", "SHIFT_DR"}, "PAUSE_DR", "UPDATE_DR")
        [] state = "PAUSE_DR" -> Go({}, "", "EXIT2_DR")
        [] state = "EXIT2_DR" ->
             Go({"SHIFT_DR", "EXIT1_DR", "PAUSE_DR"}, "SHIFT_DR", "UPDATE_DR")
        [] state = "SELECT_IR_SCAN" -> Go(Ir, "CAPTURE_IR", "TEST_LOGIC_RESET")
        [] state = "CAPTURE_IR" -> Go({"SHIFT_IR"}, "SHIFT_IR", "EXIT1_IR")
        [] state = "SHIFT_IR" -> Go({}, "", "EXIT1_IR")
        [] state = "EXIT1_IR" ->
             Go({"PAUSE_IR", "EXIT2_IR", "SHIFT_IR"}, "PAUSE_IR", "UPDATE_IR")
        [] state = "PAUSE_IR" -> Go({}, "", "EXIT2_IR")
        [] state = "EXIT2_IR" ->
             Go({"SHIFT_IR", "EXIT1_IR", "PAUSE_IR"}, "SHIFT_IR", "UPDATE_IR")
        [] state \in {"UPDATE_DR", "UPDATE_IR"} ->
             Go({"RUN_TEST_IDLE"}, "RUN_TEST_IDLE", "SELECT_DR_SCAN")

\* The walk from the present state, hop by hop until the target is reached; no
\* two states are further apart than there are states.
setTapState(state, target) ==
  LET at[i \in 0 .. 16] == IF i = 0 THEN state ELSE Hop(at[i - 1], target).state
      n == CHOOSE i \in 0 .. 16 : at[i] = target /\ \A j \in 0 .. i - 1 : at[j] # target
  IN  [i \in 1 .. n |-> Tms(Hop(at[i - 1], target).tms)]

\* Behind a shift whose last bit had TMS high.
nextTapState(register) == IF register = "SHIFT_DR" THEN "EXIT1_DR" ELSE "EXIT1_IR"

\* IDCODEs are read until one has only zeros, which were shifted in, or ones;
\* the last device comes first.
getChain(c) ==
  LET start == Perform(c, tapTestLogicReset \o setTapState("TEST_LOGIC_RESET", "SHIFT_DR"),
                       "SHIFT_DR")
      zeros == Repeat(Low, IdBytes * ByteBits)
      read[k \in 0 .. MaxDevices] ==
        IF k = 0 THEN start ELSE Perform(read[k - 1], shiftTDITDO(zeros, TRUE, FALSE), "SHIFT_DR")
      Found(r) ==
        LET Id(k) == FlattenSeq(r[k].rbuf)
            IsDevice(k) == ToSet(Id(k)) \notin {{Low}, {High}}
            n == CHOOSE k \in 1 .. MaxDevices : /\ k = MaxDevices \/ ~IsDevice(k)
                                               /\ \A j \in 1 .. k - 1 : IsDevice(j)
            found == IF IsDevice(n) THEN n ELSE n - 1
        IN  [io |-> Perform(r[n], setTapState("SHIFT_DR", "TEST_LOGIC_RESET"),
                            "TEST_LOGIC_RESET"),
             devices |-> [d \in 1 .. found |-> Id(found + 1 - d)]]
  IN  Found(read)

\* Seeded fault: TMS stays low during the last bit.
ShiftRegisterWithoutLast(register, tdi, tdo) ==
  (IF register = "SHIFT_IR" THEN shift(High, 0, FALSE) ELSE <<>>)
    \o shiftTDITDO(tdi, tdo, FALSE) \o shift(Low, 0, TRUE)

\* The shift of shiftIR and shiftDR for the only device of the chain.
ShiftRegister(register, tdi, tdo) ==
  (IF register = "SHIFT_IR" THEN shift(High, 0, FALSE) ELSE <<>>)
    \o shiftTDITDO(tdi, tdo, TRUE) \o shift(Low, 0, TRUE)

Scan(c, register, tdi, tdo) ==
  Perform(c, setTapState(c.state, register) \o ShiftRegister(register, tdi, tdo)
               \o setTapState(nextTapState(register), "RUN_TEST_IDLE"),
          "RUN_TEST_IDLE")

-----------------------------------------------------------------------------
(* The calls of DeviceProgrammer and ProgAlgXC3S. *)

\* A new Jtag object and cable; where the TAP is, and the level of TMS, is
\* what its predecessor has left, and how many devices there are.
Fresh(tap, level, chain) ==
  [state |-> "UNKNOWN", tms |-> <<>>, usbuf |-> <<>>, bptr |-> 0, rbuf |-> <<>>,
   chain |-> chain, tap |-> tap, level |-> level, reset |-> FALSE, reg |-> Bits("stale", 0, IrLen), tdo |-> <<>>,
   fifo |-> <<>>, captures |-> 0, latched |-> <<>>]

\* The constructor of DeviceProgrammer.
Construct ==
  LET found == getChain(s) IN
  /\ phase = "closed" /\ call = "none"
  /\ IF Len(found.devices) = 1
       THEN phase' = "ready" /\ call' = "getChain" /\ answer' = found.devices[1]
       ELSE call' = "refused" /\ UNCHANGED <<phase, answer>>
  /\ s' = found.io
  /\ UNCHANGED <<issued, empty>>

Calling(name) ==
  /\ phase = "ready" /\ Len(issued) < MaxCalls
  /\ call' = name
  /\ UNCHANGED phase

shiftIR(tdo) ==
  LET tdi == Bits("word", Len(issued) + 1, IrLen)
      r == Scan(s, "SHIFT_IR", tdi, tdo)
  IN  /\ Calling(IF tdo THEN "read status" ELSE "shiftIR")
      /\ s' = r
      /\ answer' = IF tdo THEN SubSeq(FlattenSeq(r.rbuf), 1, IrLen) ELSE <<>>
      /\ issued' = Append(issued, tdi)
      /\ UNCHANGED empty

shiftDR(length) ==
  LET tdi == Bits("word", Len(issued) + 1, length) IN
  /\ Calling("shiftDR")
  /\ Len(issued) > 0
  /\ s' = Scan(s, "SHIFT_DR", tdi, FALSE)
  /\ answer' = <<>>
  /\ issued' = Append(issued, tdi)
  /\ empty' = (empty \/ length = 0)

\* Never twice in a row.
cycleTCK(n) ==
  /\ Calling("cycleTCK") /\ call # "cycleTCK"
  /\ s' = Perform(s, shift(High, n, FALSE), s.state)
  /\ answer' = <<>>
  /\ UNCHANGED <<issued, empty>>

Usleep ==
  /\ Calling("Usleep")
  /\ s' = Perform(s, flush_tms \o flush, s.state)
  /\ answer' = <<>>
  /\ UNCHANGED <<issued, empty>>

\* The programmer is destroyed, at the end or by an exception.  What its cable
\* still sends, or sends twice, moves the TAP; the next one purges the buffers.
Destroy ==
  /\ \E tap \in TapStates, level \in {0, 1} : s' = Fresh(tap, level, s.chain)
  /\ phase' = "closed" /\ call' = "none" /\ answer' = <<>>
  /\ issued' = <<>> /\ empty' = FALSE

Init ==
  /\ \E tap \in TapStates, level \in {0, 1}, chain \in 0 .. 2 : s = Fresh(tap, level, chain)
  /\ phase = "closed" /\ call = "none" /\ answer = <<>>
  /\ issued = <<>> /\ empty = FALSE

Next ==
  \/ Construct \/ Usleep \/ Destroy
  \/ \E tdo \in BOOLEAN : shiftIR(tdo)
  \/ \E length \in DrLengths : shiftDR(length)
  \/ \E n \in Cycles : cycleTCK(n)

Spec == Init /\ [][Next]_vars

-----------------------------------------------------------------------------
(* Properties. *)

\* The chain when everything in the buffers has arrived.
Drained == Perform(s, flush_tms \o flush, s.state)

\* The shadow of the TAP state is right, counting what the buffers hold: the
\* software and the chain never lose each other, whatever was called before
\* (current_state), unless data of length 0 was shifted.  Then shiftTDITDO
\* returns without a clock, but nextTapState advances the shadow.
ShadowAgrees ==
  phase = "ready" /\ ~empty => Drained.tap = s.state

\* Every instruction and all data reach the device once, complete and in order,
\* however the buffers were cut on the way (txrx_block, mpsse_add_cmd), and
\* before the program sleeps all of it has taken effect (IOBase::Usleep).  The
\* command buffer and the TMS buffer never overflow (mpsse_add_cmd, set_tms).
ArrivesInOrder ==
  /\ s.bptr < TxBuf /\ Len(s.tms) <= Chunk
  /\ phase = "ready" /\ ~empty =>
       /\ IsPrefix(s.latched, issued) /\ Drained.latched = issued
       /\ call = "Usleep" => s.latched = issued

\* What is read is what was asked for: a status is that of the capture its own
\* call has caused, not an older one and not a neighbouring bit; the IDCODE is
\* that of the only device, whatever the TAP was doing before, and a chain is
\* refused only if it has none or several (shiftIR with tdo, getChain).  Nothing
\* is left to be read by the next call (readusb).
AnswersAreOwn ==
  /\ s.fifo = <<>>
  /\ call = "read status" /\ ~empty => answer = Bits("status", s.captures, IrLen)
  /\ call = "getChain" => s.chain = 1 /\ answer = Ids(1)
  /\ call = "refused" => s.chain # 1
=============================================================================
