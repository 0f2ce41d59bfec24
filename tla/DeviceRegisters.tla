--------------------------- MODULE DeviceRegisters ---------------------------
(***************************************************************************)
(* Register access of one device (src/devices/Device.cpp): commands go to  *)
(* the FPGA through one FIFO of the FTDI chip, and the bytes it reads out  *)
(* come back through another.  Nothing in the bytes says which command     *)
(* they answer, so everything depends on reading as many as were asked     *)
(* for.                                                                    *)
(*                                                                         *)
(* An operation blocks the only thread of the server, but the hardware     *)
(* goes on meanwhile.  A failed read or write ends an operation with an    *)
(* exception: the poll then drops the device, a request of a client only   *)
(* answers with an error, and the device is used again as it is.           *)
(*                                                                         *)
(* A register has two bytes, each of which is a digit below Base.          *)
(***************************************************************************)
EXTENDS Naturals, Sequences, FiniteSets

CONSTANTS
  Keys,       \* pairs of address and port, as the program stores them
  Regs,       \* registers of the FPGA
  Wire,       \* Keys -> Regs: what six bits of address and port select
  WatchList,  \* the watched keys, in the order of m_tracked_regs
  Base,       \* the number of values of a byte
  Values,     \* values that the hardware and clients put into registers
  MaxPacket,  \* largest word count of a block command, 2^16 - 1 in the code
  MaxWords,   \* bound: words of a block transfer, bytes of a raw read
  MaxBehind,  \* bound: commands under way when an operation starts
  MaxOwed,    \* bound: unread bytes when a raw command is sent
  MaxFaults   \* bound: reads and writes that fail

Words == 0 .. Base * Base - 1

ASSUME RegistersAssumption ==
  /\ Wire \in [Keys -> Regs]
  /\ WatchList \in Seq(Keys)
  /\ Base \in Nat \ {0} /\ Values \subseteq Words
  /\ MaxPacket \in Nat \ {0}
  /\ MaxWords \in Nat
  /\ MaxBehind \in Nat /\ MaxOwed \in Nat /\ MaxFaults \in Nat

VARIABLES
  regs,     \* Regs -> value
  toFpga,   \* commands on their way to the FPGA
  toHost,   \* bytes read out by the FPGA that the host did not read yet
  handle,   \* m_ftdi: "open" or "null"; "gone" when the Device is destroyed
  op,       \* the operation the server is in, or NoOp
  tracked,  \* m_tracked_regs: watched keys -> value
  emitted,  \* register events of the latest step
  faults,   \* number of failures so far
  crashed   \* a null context was dereferenced

fpgaVars == <<regs, toFpga, toHost>>
vars == <<fpgaVars, handle, op, tracked, emitted, faults, crashed>>

Watched == {WatchList[i] : i \in DOMAIN WatchList}
Positions == 1 .. (MaxWords + Len(WatchList) + 1)

\* A command: count is the word of the packet header, words what follows it
\* or is awaited after it.  mine marks what belongs to the present operation,
\* and word is the place of its first word in the data of the operation.
Command == [write : BOOLEAN, reg : Regs, val : Words \cup {0},
            count : Nat, words : Nat, word : Positions, mine : BOOLEAN]
Byte == [reg : Regs, digit : 0 .. Base - 1, high : BOOLEAN,
         word : Positions, mine : BOOLEAN]
KindsOfRead == {"readreg", "readregn", "poll"}
AnyKey == CHOOSE k \in Keys : TRUE
NoOp == [kind |-> "none", key |-> AnyKey, left |-> 0, need |-> 0,
         got |-> <<>>, done |-> 0, owed |-> 0]

-----------------------------------------------------------------------------
(* The two FIFOs. *)

ReadCommand(k, n, word) ==
  [write |-> FALSE, reg |-> Wire[k], val |-> 0, count |-> n % (MaxPacket + 1),
   words |-> n, word |-> word, mine |-> TRUE]

WriteCommand(k, v, n) ==
  [write |-> TRUE, reg |-> Wire[k], val |-> v, count |-> n % (MaxPacket + 1),
   words |-> n, word |-> 1, mine |-> TRUE]

Foreign(s) == [i \in DOMAIN s |-> [s[i] EXCEPT !.mine = FALSE]]

\* The number of bytes that n commands of s will produce, and of all that are
\* still to be read.
Produces[n \in Nat] ==
  IF n = 0 THEN 0
  ELSE Produces[n - 1] + (IF toFpga[n].write THEN 0 ELSE 2 * toFpga[n].count)
Owed == Len(toHost) + Produces[Len(toFpga)]

\* The i-th word of the bytes b, high byte first.
WordAt(b, i) == Base * b[2 * i - 1].digit + b[2 * i].digit

\* The i-th word of b is word w of this operation, read from register r.
IsOwnWord(b, i, r, w) ==
  \A j \in {2 * i - 1, 2 * i} :
    b[j].mine /\ b[j].reg = r /\ b[j].word = w /\ (b[j].high = (j = 2 * i - 1))

\* ftdi_write_data of the commands c: all are sent, or it fails with any
\* number of them sent; without a handle nothing is.
Sending(c) ==
  IF handle = "null"
    THEN {[sent |-> <<>>, ok |-> FALSE, cost |-> 0]}
    ELSE {[sent |-> c, ok |-> TRUE, cost |-> 0]} \cup
         {[sent |-> SubSeq(c, 1, n), ok |-> FALSE, cost |-> 1] : n \in 0 .. Len(c)}

Spend(cost) == faults + cost <= MaxFaults /\ faults' = faults + cost

\* An exception ends the operation; out of the poll it destroys the device.
Raise(kind) ==
  /\ op' = NoOp
  /\ handle' = IF kind = "poll" THEN "gone" ELSE handle

\* Seeded fault: a block of 2^16 words is sent as one packet.
NextPacketTooLarge(left) == IF left <= MaxPacket + 1 THEN left ELSE MaxPacket + 1

\* The size of the next packet of a block of which left words remain.
NextPacket(left) == IF left <= MaxPacket THEN left ELSE MaxPacket

-----------------------------------------------------------------------------
(* Operations of the server. *)

Ready ==
  /\ op = NoOp /\ handle # "gone" /\ ~crashed
  /\ Len(toFpga) <= MaxBehind

\* Send the commands c, then wait for need bytes.  What is under way belongs
\* to earlier operations.
StartReading(kind, k, left, c, need) ==
  /\ Ready
  /\ toHost' = Foreign(toHost)
  /\ \E s \in Sending(c) :
       /\ toFpga' = Foreign(toFpga) \o s.sent
       /\ Spend(s.cost)
       /\ IF s.ok
            THEN /\ op' = [kind |-> kind, key |-> k, left |-> left, need |-> need,
                           got |-> <<>>, done |-> 0, owed |-> Owed]
                 /\ UNCHANGED handle
            ELSE Raise(kind)
  /\ emitted' = {}
  /\ UNCHANGED <<regs, tracked, crashed>>

readReg(k) == StartReading("readreg", k, 1, <<ReadCommand(k, 1, 1)>>, 2)

\* Seeded fault: as many bytes are awaited as there are words.
readRegNHalf(k, n) ==
  LET n_packet == NextPacket(n) IN
  StartReading("readregn", k, n, <<ReadCommand(k, n_packet, 1)>>, n_packet)

readRegN(k, n) ==
  LET n_packet == NextPacket(n) IN
  StartReading("readregn", k, n, <<ReadCommand(k, n_packet, 1)>>, 2 * n_packet)

\* Seeded fault: the commands are sent in the opposite order.
updateTrackedRegsBackwards ==
  /\ WatchList # <<>>
  /\ StartReading("poll", AnyKey, Len(WatchList),
       [i \in DOMAIN WatchList |->
          ReadCommand(WatchList[Len(WatchList) + 1 - i], 1, Len(WatchList) + 1 - i)],
       2 * Len(WatchList))

\* updateTrackedRegs, from the poll: one burst of commands for all.
updateTrackedRegs ==
  /\ WatchList # <<>>
  /\ StartReading("poll", AnyKey, Len(WatchList),
       [i \in DOMAIN WatchList |-> ReadCommand(WatchList[i], 1, i)],
       2 * Len(WatchList))

\* readRaw reads without a command; ftdi_read_data has no use for a null.
readRaw(n) ==
  IF handle = "null"
    THEN /\ Ready
         /\ crashed' = TRUE /\ emitted' = {}
         /\ UNCHANGED <<fpgaVars, handle, op, tracked, faults>>
    ELSE StartReading("readraw", AnyKey, 1, <<>>, n)

\* The packets of a block of n words of which the last has the value v.
WritePackets(k, v, n) ==
  [i \in 1 .. ((n + MaxPacket - 1) \div MaxPacket) |->
     WriteCommand(k, v, NextPacket(n - (i - 1) * MaxPacket))]

\* writeReg, writeRegN and writeRaw: commands without an answer, or raw bytes
\* that are a command of the client, whose answer a readRaw may fetch.
Write(c) ==
  /\ Ready
  /\ toHost' = Foreign(toHost)
  /\ \E s \in Sending(c) :
       toFpga' = Foreign(toFpga \o s.sent) /\ Spend(s.cost)
  /\ emitted' = {}
  /\ UNCHANGED <<regs, handle, op, tracked, crashed>>

writeReg(k, v) == Write(<<WriteCommand(k, v, 1)>>)
writeRegN(k, v, n) == n > 0 /\ Write(WritePackets(k, v, n))
writeRaw(k) == Owed <= MaxOwed /\ Write(<<ReadCommand(k, 1, 1)>>)

-----------------------------------------------------------------------------
(* The end of a read: ftdi_read_data_wait. *)

Reading == op # NoOp
Complete == Reading /\ Len(op.got) = op.need

\* One ftdi_read_data: some of the bytes that are there.
ReadBytes ==
  /\ Reading /\ ~Complete /\ toHost # <<>>
  /\ \E n \in 1 .. Len(toHost) :
       /\ Len(op.got) + n <= op.need
       /\ op' = [op EXCEPT !.got = @ \o SubSeq(toHost, 1, n)]
       /\ toHost' = SubSeq(toHost, n + 1, Len(toHost))
  /\ emitted' = {}
  /\ UNCHANGED <<regs, toFpga, handle, tracked, faults, crashed>>

\* A read error, or no complete answer after 100 attempts: the bytes read so
\* far are lost, and the others will still come.  If no others will come the
\* read is sure to fail.
ReadFails ==
  /\ Reading /\ ~Complete
  /\ Raise(op.kind)
  /\ Spend(IF Owed = 0 THEN 0 ELSE 1)
  /\ emitted' = {}
  /\ UNCHANGED <<fpgaVars, tracked, crashed>>

\* The next packet of a block.
ContinueBlock ==
  LET n_read == op.done + op.need \div 2
      left == op.left - op.need \div 2
      n_packet == NextPacket(left)
  IN
  /\ Complete /\ op.kind = "readregn" /\ left > 0
  /\ \E s \in Sending(<<ReadCommand(op.key, n_packet, n_read + 1)>>) :
       /\ toFpga' = toFpga \o s.sent
       /\ Spend(s.cost)
       /\ IF s.ok
            THEN /\ op' = [op EXCEPT !.left = left, !.done = n_read,
                                     !.need = 2 * n_packet, !.got = <<>>]
                 /\ UNCHANGED handle
            ELSE Raise(op.kind)
  /\ emitted' = {}
  /\ UNCHANGED <<regs, toHost, tracked, crashed>>

\* Seeded fault: the words of a poll are taken in the opposite order.
AnswersBackwards ==
  [k \in Watched |->
     CASE op.kind = "poll" ->
            LET i == CHOOSE i \in DOMAIN WatchList : WatchList[i] = k
            IN  {Len(WatchList) + 1 - i}
       [] op.kind = "readreg" -> {i \in {1} : k = op.key}
       [] OTHER -> {}]

\* The place of the word that is the new value of each watched key, if any.
Answers ==
  [k \in Watched |->
     CASE op.kind = "poll" -> {i \in DOMAIN WatchList : WatchList[i] = k}
       [] op.kind = "readreg" -> {i \in {1} : k = op.key}
       [] OTHER -> {}]

\* The operation returns; values of watched registers are stored, and events
\* are emitted for those that differ from the stored ones.
Finish ==
  LET NewValue(k) ==
        IF Answers[k] = {} THEN tracked[k]
        ELSE WordAt(op.got, CHOOSE i \in Answers[k] : TRUE)
  IN
  /\ Complete
  /\ op.kind = "readregn" => op.left = op.need \div 2
  /\ tracked' = [k \in Watched |-> NewValue(k)]
  /\ emitted' = {[key |-> k, clean |-> op.owed = 0,
                  true |-> \E i \in Answers[k] : IsOwnWord(op.got, i, Wire[k], i)] :
                   k \in {k \in Watched : NewValue(k) # tracked[k]}}
  /\ op' = NoOp
  /\ UNCHANGED <<fpgaVars, handle, faults, crashed>>

-----------------------------------------------------------------------------
(* Handles: reprogramming and removal. *)

\* reprogramDevice ends with a device that is open, its FPGA and FIFOs reset,
\* or, if opening it failed, without a handle.
Reprogram ==
  /\ Ready
  /\ \/ handle' = "open" /\ Spend(0)
     \/ handle' = "null" /\ Spend(1)
  /\ toFpga' = <<>> /\ toHost' = <<>>
  /\ regs' \in [Regs -> Values]
  /\ emitted' = {}
  /\ UNCHANGED <<op, tracked, crashed>>

\* The board is plugged in again and gets a new Device.
Recreate ==
  /\ handle = "gone" /\ handle' = "open"
  /\ toFpga' = <<>> /\ toHost' = <<>>
  /\ tracked' = [k \in Watched |-> 0]
  /\ emitted' = {}
  /\ UNCHANGED <<regs, op, faults, crashed>>

-----------------------------------------------------------------------------
(* The FPGA. *)

\* The two bytes of the word that is the i-th that command c reads.
WordBytes(c, i) ==
  LET v == regs[c.reg]
      byte(high, digit) == [reg |-> c.reg, digit |-> digit, high |-> high,
                            word |-> c.word + i - 1, mine |-> c.mine]
  IN  <<byte(TRUE, v \div Base), byte(FALSE, v % Base)>>

\* The oldest command is executed.
FpgaExecutes ==
  LET c == Head(toFpga) IN
  /\ toFpga # <<>>
  /\ toFpga' = Tail(toFpga)
  /\ IF c.write
       THEN /\ regs' = [regs EXCEPT ![c.reg] = c.val]
            /\ UNCHANGED toHost
       ELSE /\ toHost' = toHost \o
                 [j \in 1 .. 2 * c.count |-> WordBytes(c, (j + 1) \div 2)[2 - (j % 2)]]
            /\ UNCHANGED regs
  /\ emitted' = {}
  /\ UNCHANGED <<handle, op, tracked, faults, crashed>>

\* The hardware changes the value of a register.
HardwareChanges(r, v) ==
  /\ regs' = [regs EXCEPT ![r] = v]
  /\ emitted' = {}
  /\ UNCHANGED <<toFpga, toHost, handle, op, tracked, faults, crashed>>

-----------------------------------------------------------------------------
\* The device was just created and its registers of interest are watched.
Init ==
  /\ regs \in [Regs -> Values]
  /\ toFpga = <<>> /\ toHost = <<>>
  /\ handle = "open" /\ op = NoOp
  /\ tracked = [k \in Watched |-> 0]
  /\ emitted = {} /\ faults = 0 /\ crashed = FALSE

Requests ==
  \/ \E k \in Keys : readReg(k) \/ writeRaw(k)
  \/ \E k \in Keys, n \in 1 .. MaxWords : readRegN(k, n)
  \/ \E n \in 1 .. MaxWords : readRaw(n)
  \/ \E k \in Keys, v \in Values : writeReg(k, v)
  \/ \E k \in Keys, v \in Values, n \in 1 .. MaxWords : writeRegN(k, v, n)
  \/ Reprogram

Next ==
  \/ Requests \/ updateTrackedRegs
  \/ ReadBytes \/ ReadFails \/ ContinueBlock \/ Finish
  \/ Recreate
  \/ FpgaExecutes
  \/ \E r \in Regs, v \in Values : HardwareChanges(r, v)

Spec == Init /\ [][Next]_vars

\* The timer always comes back, the FPGA works off its commands, and the
\* server reads what is there and gives up if nothing comes.  Nobody promises that requests are made.
Fairness ==
  /\ SF_vars(updateTrackedRegs)
  /\ WF_vars(ReadBytes) /\ WF_vars(ContinueBlock) /\ WF_vars(Finish)
  /\ WF_vars(FpgaExecutes) /\ WF_vars(ReadFails /\ Owed = 0)

FairSpec == Spec /\ Fairness

-----------------------------------------------------------------------------
(* Properties. *)

\* The words of a complete read are those it asked for, in their order.
OwnAnswer ==
  \A i \in 1 .. (op.need \div 2) :
    IsOwnWord(op.got, i, IF op.kind = "poll" THEN Wire[WatchList[i]] ELSE Wire[op.key],
              op.done + i)

\* A register read returns its own answer exactly if no byte was owed to an
\* earlier operation when it started: one read that failed, or one raw
\* command, and every later read returns the words of another
\* (ftdi_read_data_wait, readReg, readRegN, updateTrackedRegs).
OwnAnswerIffClean ==
  (Complete /\ op.kind \in KindsOfRead) => (OwnAnswer <=> op.owed = 0)

\* A register read leaves as many bytes unread as it found: only a raw read,
\* a failure or a new handle ever changes that.
OwedIsKept ==
  (Complete /\ op.kind \in KindsOfRead) => Owed = op.owed

\* A register event tells a value that this very register had, unless bytes
\* were owed when its read started (updateTrackedRegs, readReg).
EventsAreTrue == \A e \in emitted : e.clean => e.true

\* The count in the header of a packet, 16 bits in the code, is the number of
\* words that follow it or are awaited, at every size of a block.
PacketsAreWhole ==
  \A i \in DOMAIN toFpga : toFpga[i].count = toFpga[i].words

\* "-666: USB device unavailable": ftdi_read_data on a device without a
\* handle returns an error (readRaw).
NullIsReported == ~crashed

\* A watched register that keeps its value is eventually known by it, if the
\* device stays open and nothing is owed between operations: the poll comes
\* back behind every request, and no stale value sticks (updateTrackedRegs).
TrackedCatchesUp ==
  \A k \in Watched :
    <>[](handle = "open" /\ (op = NoOp => Owed = 0))
      /\ <>[][regs'[Wire[k]] = regs[Wire[k]]]_regs
      => <>[](tracked[k] = regs[Wire[k]])
=============================================================================
