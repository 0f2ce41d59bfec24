---------------------------- MODULE FtdiTransfers ----------------------------
(***************************************************************************)
(* Reading and writing of data in libftdi (src/libftdi/ftdi.c):            *)
(* ftdi_read_data and ftdi_write_data, which wait, and the transfers with  *)
(* a struct ftdi_transfer_control, which are submitted first and waited    *)
(* for later.  The chip sends packets that start with two status bytes;    *)
(* what a program did not ask for yet is kept in the buffer of the         *)
(* context.                                                                *)
(*                                                                         *)
(* The bytes of the chip are numbered from one, a status byte is 0, and so *)
(* are the bytes of each write.  A program has one read at a time, because *)
(* all reads share the buffer; writes it may submit several.               *)
(***************************************************************************)
EXTENDS Integers, Sequences, FiniteSets

CONSTANTS
  PacketSize,  \* ftdi->max_packet_size
  Chunk,       \* ftdi->readbuffer_chunksize, a multiple of PacketSize
  WriteChunk,  \* ftdi->writebuffer_chunksize
  ReadSizes, WriteSizes, \* what programs ask for
  Writers,     \* control blocks for writes
  MaxBytes,    \* bound: bytes the chip sends
  MaxFaults    \* bound: calls of libusb that fail, and transfers that time out

ASSUME SizesAssumption ==
  /\ {PacketSize, Chunk, WriteChunk, MaxBytes} \subseteq Nat
  /\ PacketSize > 2 /\ Chunk > 0 /\ Chunk % PacketSize = 0 /\ WriteChunk > 0
  /\ ReadSizes \subseteq Nat \ {0} /\ WriteSizes \subseteq Nat \ {0}

VARIABLES
  sent,      \* bytes the chip has put out
  taken,     \* how many of them were transferred
  readbuffer, readbuffer_offset, readbuffer_remaining,
  call,      \* what the program is in: op, size, got (bytes done), tc, failed
  tc,        \* struct ftdi_transfer_control by name
  delivered, \* bytes the program got from reads that succeeded
  gaps,      \* positions in delivered after which bytes were lost for a reason
             \* the program knows: an error it was told of, or its own reset
  faults     \* failures so far

bufferVars == <<readbuffer, readbuffer_offset, readbuffer_remaining>>
vars == <<sent, taken, bufferVars, call, tc, delivered, gaps, faults>>

Reader == "reader"
Blocks == Writers \cup {Reader}

\* Every request has a control block of its own.
ASSUME BlocksAssumption == Reader \notin Writers

Idle == [op |-> "idle", size |-> 0, got |-> <<>>, tc |-> Reader, failed |-> 0]
InCall(op, size, got) == [Idle EXCEPT !.op = op, !.size = size, !.got = got]
NoBlock ==
  [state |-> "none", size |-> 0, got |-> <<>>, offset |-> 0, from |-> 0,
   inFlight |-> FALSE, cancelled |-> FALSE, ok |-> TRUE]

Fault == faults < MaxFaults /\ faults' = faults + 1
Least(a, b) == IF a < b THEN a ELSE b
Upward(from, n) == [j \in 1 .. n |-> from + j]

\* The program gets bytes, or loses them and knows of it.
Deliver(bytes) == delivered' = delivered \o bytes /\ UNCHANGED gaps
Lose(n) ==
  gaps' = (IF n > 0 THEN gaps \cup {Len(delivered)} ELSE gaps) /\ UNCHANGED delivered
Neither == UNCHANGED <<delivered, gaps>>

-----------------------------------------------------------------------------
(* What a transfer brings. *)

Payload == PacketSize - 2
Available == sent - taken

\* Bytes as they arrive: each packet starts with two status bytes.
Packets(bytes, length) ==
  [p \in 1 .. length |->
    LET place == (p - 1) % PacketSize IN
    IF place < 2 THEN 0 ELSE bytes[Payload * ((p - 1) \div PacketSize) + place - 1]]

\* The lengths a transfer with n bytes may have.  If it is complete, the buffer
\* is full or a short packet ends it; others end, by time or an error, behind a
\* whole packet.
Lengths(n, complete) ==
  LET whole == PacketSize * (n \div Payload)
      rest == n % Payload
  IN  IF complete
        THEN {IF whole = Chunk THEN whole ELSE whole + 2 + rest}
        ELSE IF rest = 0 /\ whole < Chunk THEN {whole} ELSE {}
Most == Least(Available, Payload * (Chunk \div PacketSize))
Arrived(n, length) == Packets(Upward(taken, n), length)

\* Seeded fault: the status bytes of a last packet without data are counted.
DataLengthWithStatus(length) ==
  LET num_of_chunks == length \div PacketSize IN
  IF length - 2 <= Payload THEN length - 2
  ELSE length - 2 - 2 * (IF length % PacketSize > 2 THEN num_of_chunks ELSE num_of_chunks - 1)

\* The bytes behind the status of the first packet, as ftdi_read_data counts
\* them in a transfer of this length.
DataLength(length) ==
  LET num_of_chunks == length \div PacketSize
      chunk_remains == length % PacketSize
      actual_length == length - 2
  IN  IF actual_length <= Payload THEN actual_length
      ELSE IF chunk_remains > 2 THEN actual_length - 2 * num_of_chunks
      ELSE actual_length - (2 * (num_of_chunks - 1) + chunk_remains)

\* The buffer after the bytes of the later packets are moved up: byte j of
\* packet i, counted without status, goes from place 2 + PacketSize i to
\* 2 + Payload i.
Moved(raw) ==
  LET num_of_chunks == Len(raw) \div PacketSize
      last == IF Len(raw) % PacketSize > 2 THEN num_of_chunks ELSE num_of_chunks - 1
      packet(p) == (p - 3) \div Payload
  IN  [p \in DOMAIN raw |->
        IF Len(raw) - 2 > Payload /\ p > 2 /\ packet(p) \in 1 .. last
             /\ p + 2 * packet(p) \in DOMAIN raw
          THEN raw[p + 2 * packet(p)] ELSE raw[p]]

Slice(buffer, offset, n) == SubSeq(buffer, offset + 1, offset + n)
Kept == Slice(readbuffer, readbuffer_offset, readbuffer_remaining)

\* Bytes that nothing refers to any more are forgotten.
EmptyBuffer ==
  readbuffer' = <<>> /\ readbuffer_offset' = 0 /\ readbuffer_remaining' = 0
TakeKept(n) ==
  /\ readbuffer_remaining' = readbuffer_remaining - n
  /\ readbuffer_offset' = readbuffer_offset + n
  /\ UNCHANGED readbuffer

\* What becomes of a transfer raw when the program has `got` of `size` bytes:
\* how many it still takes, and the buffer that keeps the others.
TakenFrom(raw, got, size) == Least(DataLength(Len(raw)), size - Len(got))
NowGot(raw, got, size) == got \o Slice(Moved(raw), 2, TakenFrom(raw, got, size))
KeepRest(raw, got, size) ==
  LET part == TakenFrom(raw, got, size)
      rest == DataLength(Len(raw)) - part
  IN  IF rest = 0 THEN EmptyBuffer
      ELSE /\ readbuffer' = Moved(raw)
           /\ readbuffer_offset' = 2 + part /\ readbuffer_remaining' = rest

-----------------------------------------------------------------------------
(* Calls that wait. *)

\* A program that reads has taken the result of its last read.
MayRead == call.op = "idle" /\ tc[Reader].state = "none"

ftdi_read_data(size) ==
  /\ MayRead
  /\ IF size <= readbuffer_remaining
       THEN /\ Deliver(Slice(readbuffer, readbuffer_offset, size))
            /\ TakeKept(size) /\ UNCHANGED call
       ELSE /\ call' = InCall("read", size, Kept)
            /\ EmptyBuffer /\ Neither
  /\ UNCHANGED <<sent, taken, tc, faults>>

\* Seeded fault: only an answer without status bytes counts as no data.
NoDataAtAll(length) == length = 0

NoData(length) == length <= 2

\* One transfer of ftdi_read_data: an answer of no data ends the call, so does
\* the last byte asked for.
ReadTransfer ==
  /\ call.op = "read"
  /\ \E n \in 0 .. Most : \E length \in Lengths(n, TRUE) :
       LET raw == Arrived(n, length)
           got == NowGot(raw, call.got, call.size)
       IN
       /\ taken' = taken + n
       /\ IF NoData(length)
            THEN call' = Idle /\ Deliver(call.got) /\ UNCHANGED bufferVars
            ELSE /\ KeepRest(raw, call.got, call.size)
                 /\ IF Len(got) = call.size
                      THEN call' = Idle /\ Deliver(got)
                      ELSE call' = [call EXCEPT !.got = got] /\ Neither
  /\ UNCHANGED <<sent, tc, faults>>

\* An error loses what this transfer brought and what was already copied.
ReadFails ==
  /\ call.op = "read" /\ Fault
  /\ \E n \in 0 .. Most :
       /\ Lengths(n, FALSE) # {}
       /\ taken' = taken + n /\ Lose(n + Len(call.got))
  /\ call' = Idle
  /\ UNCHANGED <<sent, bufferVars, tc>>

ftdi_write_data(size) ==
  /\ call.op = "idle"
  /\ call' = InCall("write", size, <<>>)
  /\ Neither /\ UNCHANGED <<sent, taken, bufferVars, tc, faults>>

\* A chunk is written whole, or the call ends with an error.
WriteTransfer ==
  /\ call.op = "write"
  /\ \/ LET got == call.got \o Upward(Len(call.got), Least(WriteChunk, call.size - Len(call.got)))
        IN  /\ call' = IF Len(got) = call.size THEN Idle ELSE [call EXCEPT !.got = got]
            /\ UNCHANGED faults
     \/ Fault /\ call' = Idle
  /\ Neither /\ UNCHANGED <<sent, taken, bufferVars, tc>>

-----------------------------------------------------------------------------
(* Submitting. *)

Submitted(size, got) ==
  [NoBlock EXCEPT !.state = "open", !.size = size, !.got = got, !.offset = Len(got),
                  !.inFlight = TRUE]

ftdi_write_data_submit(w, size) ==
  /\ call.op = "idle" /\ tc[w].state = "none"
  /\ tc' = [tc EXCEPT ![w] = Submitted(size, <<>>)]
  /\ Neither /\ UNCHANGED <<sent, taken, bufferVars, call, faults>>

\* A read that the buffer can answer is complete at once.  When the transfer
\* cannot be submitted the bytes copied from the buffer are lost.
ftdi_read_data_submit(size) ==
  /\ MayRead
  /\ IF size <= readbuffer_remaining
       THEN /\ tc' = [tc EXCEPT ![Reader] = [Submitted(size,
                        Slice(readbuffer, readbuffer_offset, size)) EXCEPT
                        !.state = "completed", !.inFlight = FALSE]]
            /\ TakeKept(size) /\ Neither /\ UNCHANGED faults
       ELSE /\ EmptyBuffer
            /\ \/ /\ tc' = [tc EXCEPT ![Reader] = Submitted(size, Kept)]
                  /\ Neither /\ UNCHANGED faults
               \/ Fault /\ Lose(readbuffer_remaining) /\ UNCHANGED tc
  /\ UNCHANGED <<sent, taken, call>>

-----------------------------------------------------------------------------
(* Callbacks, while some call waits for events.                             *)

\* Transfers end while some call handles events.  A transfer that was cancelled
\* ends without being complete, if the end does not come first.
Ends(t) == call.op # "idle" /\ tc[t].inFlight /\ tc[t].state # "freed"
Failing(t, complete) == IF complete \/ tc[t].cancelled THEN 0 ELSE 1
Failed(n) == faults + n <= MaxFaults /\ faults' = faults + n

\* Seeded fault: a request that is complete leaves its transfer submitted.
CompletedGoesOn(block) == [block EXCEPT !.state = "completed"]

Completed(block) == [block EXCEPT !.state = "completed", !.inFlight = FALSE]

\* The callback leaves block: complete, or submitted again whatever the status
\* was; if that fails the request is over.
Leaves(t, block, done, failing) ==
  \/ tc' = [tc EXCEPT ![t] = IF done THEN Completed(block) ELSE block] /\ Failed(failing)
  \/ ~done /\ tc' = [tc EXCEPT ![t] = Completed(block)] /\ Failed(failing + 1)

ftdi_read_data_cb(n, complete) ==
  /\ Ends(Reader) /\ n <= Most
  /\ \E length \in Lengths(n, complete) :
       LET b == tc[Reader]
           raw == Arrived(n, length)
           got == IF length > 2 THEN NowGot(raw, b.got, b.size) ELSE b.got
           block == [b EXCEPT !.got = got, !.offset = Len(got), !.ok = complete,
                              !.cancelled = FALSE]
       IN
       /\ IF length > 2 THEN KeepRest(raw, b.got, b.size) ELSE UNCHANGED bufferVars
       /\ Leaves(Reader, block, Len(got) = b.size, Failing(Reader, complete))
  /\ taken' = taken + n
  /\ Neither /\ UNCHANGED <<sent, call>>

\* The next chunk of a write starts at `from`.
ChunkOf(b) == Least(WriteChunk, b.size - b.from)

ftdi_write_data_cb(w, n, complete) ==
  /\ Ends(w)
  /\ IF complete THEN n = ChunkOf(tc[w]) ELSE n < ChunkOf(tc[w])
  /\ LET b == [tc[w] EXCEPT !.got = @ \o Upward(tc[w].from, n), !.offset = @ + n,
                            !.ok = complete, !.cancelled = FALSE]
     IN  Leaves(w, [b EXCEPT !.from = b.offset], b.offset = b.size,
                Failing(w, complete))
  /\ Neither /\ UNCHANGED <<sent, taken, bufferVars, call>>

-----------------------------------------------------------------------------
(* ftdi_transfer_data_done. *)

ftdi_transfer_data_done(t) ==
  /\ call.op = "idle" /\ tc[t].state \in {"open", "completed"}
  /\ call' = [Idle EXCEPT !.op = "done", !.tc = t]
  /\ Neither /\ UNCHANGED <<sent, taken, bufferVars, tc, faults>>

\* What the request got is the program's, unless it is told of an error.
Report(t, success) ==
  IF t # Reader THEN Neither
  ELSE IF success THEN Deliver(tc[t].got) ELSE Lose(Len(tc[t].got))

DoneReturns ==
  LET t == call.tc IN
  /\ call.op = "done" /\ tc[t].state = "completed"
  /\ Report(t, call.failed = 0 /\ tc[t].ok)
  /\ tc' = [tc EXCEPT ![t] = IF @.inFlight THEN [@ EXCEPT !.state = "freed"] ELSE NoBlock]
  /\ call' = Idle
  /\ UNCHANGED <<sent, taken, bufferVars, faults>>

\* libusb_handle_events fails: the transfer is cancelled, and the wait goes on.
\* When it fails once more the request is freed.
EventsFail ==
  LET t == call.tc IN
  /\ call.op = "done" /\ tc[t].state = "open" /\ Fault
  /\ IF call.failed = 0
       THEN /\ tc' = [tc EXCEPT ![t].cancelled = TRUE]
            /\ call' = [call EXCEPT !.failed = 1] /\ Neither
       ELSE /\ tc' = [tc EXCEPT ![t].state = "freed"]
            /\ call' = Idle /\ Report(t, FALSE)
  /\ UNCHANGED <<sent, taken, bufferVars>>

-----------------------------------------------------------------------------
(* The chip and the other calls. *)

ChipSends ==
  /\ sent < MaxBytes /\ sent' = sent + 1
  /\ Neither /\ UNCHANGED <<taken, bufferVars, call, tc, faults>>

\* ftdi_usb_reset and ftdi_read_data_set_chunksize forget what is kept,
\* ftdi_usb_purge_rx_buffer what the chip has as well.
Invalidate(purge) ==
  /\ MayRead
  /\ EmptyBuffer
  /\ Lose(readbuffer_remaining + IF purge THEN Available ELSE 0)
  /\ taken' = IF purge THEN sent ELSE taken
  /\ UNCHANGED <<sent, call, tc, faults>>

Init ==
  /\ sent = 0 /\ taken = 0
  /\ readbuffer = <<>> /\ readbuffer_offset = 0 /\ readbuffer_remaining = 0
  /\ call = Idle /\ tc = [t \in Blocks |-> NoBlock]
  /\ delivered = <<>> /\ gaps = {} /\ faults = 0

Next ==
  \/ \E size \in ReadSizes : ftdi_read_data(size) \/ ftdi_read_data_submit(size)
  \/ \E size \in WriteSizes : ftdi_write_data(size)
  \/ \E size \in WriteSizes, w \in Writers : ftdi_write_data_submit(w, size)
  \/ ReadTransfer \/ ReadFails \/ WriteTransfer
  \/ \E n \in 0 .. MaxBytes, complete \in BOOLEAN : ftdi_read_data_cb(n, complete)
  \/ \E w \in Writers, n \in 0 .. WriteChunk, complete \in BOOLEAN :
       ftdi_write_data_cb(w, n, complete)
  \/ \E t \in Blocks : ftdi_transfer_data_done(t)
  \/ DoneReturns \/ EventsFail \/ ChipSends
  \/ \E purge \in BOOLEAN : Invalidate(purge)

Spec == Init /\ [][Next]_vars

\* libusb ends every transfer, in the end with the data there is, and calls the
\* callbacks while a call handles events; a chip has something to say.
Fairness ==
  /\ WF_vars(ReadTransfer) /\ WF_vars(WriteTransfer) /\ WF_vars(DoneReturns)
  /\ WF_vars(\E n \in 1 .. MaxBytes : ftdi_read_data_cb(n, TRUE))
  /\ \A w \in Writers :
       WF_vars(\E n \in 1 .. WriteChunk : ftdi_write_data_cb(w, n, TRUE))
  /\ WF_vars(ChipSends)
FairSpec == Spec /\ Fairness

-----------------------------------------------------------------------------
(* Properties. *)

\* A program gets the bytes of the chip in order, none twice, and none is
\* missing without an error that it was told of or a reset of its own: whatever
\* the lengths of packets and transfers, the sizes it asks for, and the mixture
\* of waiting and submitted reads.  And every write sends its bytes in order
\* and once, also over chunks that were only partly written.
DataInOrder ==
  /\ \A i \in DOMAIN delivered :
       LET before == IF i = 1 THEN 0 ELSE delivered[i - 1] IN
       IF i - 1 \in gaps THEN delivered[i] > before ELSE delivered[i] = before + 1
  /\ \A w \in Writers : tc[w].got = Upward(0, tc[w].offset)
  /\ call.op = "write" => call.got = Upward(0, Len(call.got))

\* The transfer of a request is in flight exactly as long as the request is not
\* complete, so that ftdi_transfer_data_done frees no transfer that libusb still
\* uses and no transfer writes to a buffer its reader has back; except after
\* the second failure of libusb_handle_events.
InFlightIffOpen ==
  \A t \in Blocks : tc[t].state # "freed" => (tc[t].inFlight <=> tc[t].state = "open")

\* Every call returns, even a wait for a request that was cancelled, except the
\* wait for a read of bytes that the chip never sends: its transfers time out
\* and are submitted again.
Starving == call.op = "done" /\ call.tc = Reader /\ sent = MaxBytes /\ taken = sent
CallsReturn == call.op # "idle" ~> (call.op = "idle" \/ Starving)
=============================================================================
