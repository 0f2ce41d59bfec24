------------------------------- MODULE Network -------------------------------
(***************************************************************************)
(* The TCP side of the server: Server, ConnectionManager and               *)
(* ClientConnection (src/network/) on top of boost::asio.                  *)
(*                                                                         *)
(* One thread runs completion handlers one after the other.  An operation  *)
(* is first outstanding, then completed with its handler queued, and only  *)
(* then handled; other handlers run in between, so a handler may find that *)
(* its connection was stopped after its operation succeeded.  Queued       *)
(* handlers run in any order, which includes the order of the io_service.  *)
(*                                                                         *)
(* Messages to a connection are numbered in the order of send and take     *)
(* MsgSize units; what a message says is left out.                         *)
(***************************************************************************)
EXTENDS Naturals, Sequences

LOCAL INSTANCE Functions

CONSTANTS
  Conns,      \* connections a client may open
  NoConn,     \* no connection
  MsgSize,    \* units of a message: a write may stop after any of them
  MaxSends    \* bound: messages sent to all connections together

ASSUME NetAssumption ==
  /\ NoConn \notin Conns
  /\ MsgSize \in Nat \ {0}
  /\ MaxSends \in Nat

VARIABLES
  acceptorOpen,  \* m_acceptor is open
  accept,        \* the accept operation: "waiting", a completion, or "none"
  accepted,      \* the connection a completed accept left in m_socket
  conns,         \* m_connections
  sock,          \* Conns -> m_socket is "none", "open" or "closed"
  peer,          \* Conns -> the client is "up" or "gone"
  reader,        \* Conns -> the read operation: "none", "waiting", or completed
  out,           \* Conns -> m_msgbuffer_out
  offset,        \* Conns -> m_msgbuffer_out_offset
  posted,        \* Conns -> number of posted do_write handlers
  writing,       \* Conns -> outstanding writes, with the buffer they refer to
  written,       \* Conns -> completed writes whose handlers are queued
  nsent,         \* Conns -> number of messages given to send so far
  stream         \* Conns -> the units handed to the kernel for the client

acceptVars == <<acceptorOpen, accept, accepted>>
writeVars == <<out, offset, posted, writing, written, nsent, stream>>
vars == <<acceptVars, conns, sock, peer, reader, writeVars>>

Failed == [ec |-> "error", n |-> 0]
Aborted == [ec |-> "aborted", n |-> 0]

-----------------------------------------------------------------------------
(* ClientConnection: the parts of a handler.  send primes other variables  *)
(* than the rest, so that a handler is a conjunction of its parts.         *)

\* Bound: the messages sent so far, and times[c] more for every c.
MaySend(times) ==
  SumFunction(nsent) + SumFunction(times) <= MaxSends

\* Seeded fault: do_write is posted for every packet.
sendAlwaysPosts(times) ==
  /\ MaySend(times)
  /\ posted' = [c \in Conns |-> posted[c] + times[c]]
  /\ out' = [c \in Conns |-> out[c] \o [i \in 1 .. times[c] |-> nsent[c] + i]]
  /\ nsent' = [c \in Conns |-> nsent[c] + times[c]]

\* send, times[c] times for every connection c: a do_write is posted when the
\* queue was empty before.
send(times) ==
  /\ MaySend(times)
  /\ posted' = [c \in Conns |->
       posted[c] + (IF times[c] > 0 /\ out[c] = <<>> THEN 1 ELSE 0)]
  /\ out' = [c \in Conns |-> out[c] \o [i \in 1 .. times[c] |-> nsent[c] + i]]
  /\ nsent' = [c \in Conns |-> nsent[c] + times[c]]

\* Seeded fault: the rest of a packet is sent from its beginning.
do_writeFromStart(c, q, o, w) ==
  IF q # <<>> /\ sock[c] = "open"
    THEN /\ writing' = [writing EXCEPT ![c] = Append(@, [msg |-> Head(q), from |-> 0])]
         /\ written' = w
    ELSE /\ written' = IF q = <<>> THEN w ELSE [w EXCEPT ![c] = Append(@, Failed)]
         /\ UNCHANGED writing

\* do_write, with the queue q, the offset o and the queued completions w: a
\* write of the rest of the front packet starts; on a closed socket it fails.
do_write(c, q, o, w) ==
  IF q # <<>> /\ sock[c] = "open"
    THEN /\ writing' = [writing EXCEPT ![c] = Append(@, [msg |-> Head(q), from |-> o])]
         /\ written' = w
    ELSE /\ written' = IF q = <<>> THEN w ELSE [w EXCEPT ![c] = Append(@, Failed)]
         /\ UNCHANGED writing

\* do_read: on a closed socket the read fails at once.
do_read(c) ==
  reader' = [reader EXCEPT ![c] = IF sock[c] = "open" THEN "waiting" ELSE "error"]

\* The sets of connections whose sockets a stop of S may close: those still
\* open, except that shutdown may throw for a client that is gone, and then
\* the close is skipped.
ClosedSets(S) ==
  LET open == {c \in S : sock[c] = "open"}
      gone == {c \in open : peer[c] = "gone"}
  IN  {open \ throws : throws \in SUBSET gone}

\* ConnectionManager::stop and stopAll, with the read operations r and the
\* queued completions w: closing a socket aborts what is outstanding on it.
stop(S, r, w) ==
  /\ conns' = conns \ S
  /\ \E closed \in ClosedSets(S) :
       /\ sock' = [c \in Conns |-> IF c \in closed THEN "closed" ELSE sock[c]]
       /\ reader' = [c \in Conns |->
            IF c \in closed /\ r[c] = "waiting" THEN "aborted" ELSE r[c]]
       /\ writing' = [c \in Conns |-> IF c \in closed THEN <<>> ELSE writing[c]]
       /\ written' = [c \in Conns |-> IF c \in closed
            THEN w[c] \o [i \in DOMAIN writing[c] |-> Aborted] ELSE w[c]]

-----------------------------------------------------------------------------
(* ClientConnection: handlers.  None looks whether the connection was      *)
(* stopped after its operation completed.                                  *)

Once(c, k) == [d \in Conns |-> IF d = c THEN k ELSE 0]
ReadDone(c) == [reader EXCEPT ![c] = "none"]
WriteDone(c) == [written EXCEPT ![c] = Tail(@)]

\* A successful read: every complete message in the chunk, k of them, is
\* handled and answered, and the next read starts; a malformed or oversized
\* message or an exception stops the connection instead.
HandleRead(c, k) ==
  /\ reader[c] = "ok"
  /\ send(Once(c, k))
  /\ \/ do_read(c) /\ UNCHANGED <<conns, sock, writing, written>>
     \/ stop({c}, ReadDone(c), written)
  /\ UNCHANGED <<acceptVars, peer, offset, stream>>

\* Seeded fault: a failed read only ends the reading.
HandleReadErrorQuietly(c) ==
  /\ reader[c] \in {"error", "aborted"} /\ reader' = ReadDone(c)
  /\ UNCHANGED <<acceptVars, conns, sock, writing, written>>
  /\ UNCHANGED <<peer, out, offset, posted, nsent, stream>>

\* A failed read stops the connection, an aborted one does nothing.
HandleReadError(c) ==
  /\ \/ reader[c] = "error" /\ stop({c}, ReadDone(c), written)
     \/ /\ reader[c] = "aborted" /\ reader' = ReadDone(c)
        /\ UNCHANGED <<conns, sock, writing, written>>
  /\ UNCHANGED <<acceptVars, peer, out, offset, posted, nsent, stream>>

\* The handler posted by send.
HandlePosted(c) ==
  /\ posted[c] > 0
  /\ posted' = [posted EXCEPT ![c] = @ - 1]
  /\ do_write(c, out[c], offset[c], written)
  /\ UNCHANGED <<acceptVars, conns, sock, peer, reader, out, offset, nsent, stream>>

\* Seeded fault: after a packet, the next waits for another send.
HandleWriteOnce(c) ==
  LET o == offset[c] + Head(written[c]).n IN
  /\ written[c] # <<>> /\ Head(written[c]).ec = "ok"
  /\ IF o # MsgSize
       THEN /\ offset' = [offset EXCEPT ![c] = o]
            /\ do_write(c, out[c], o, WriteDone(c))
            /\ UNCHANGED out
       ELSE /\ out' = [out EXCEPT ![c] = Tail(@)]
            /\ offset' = [offset EXCEPT ![c] = 0]
            /\ written' = WriteDone(c) /\ UNCHANGED writing
  /\ UNCHANGED <<acceptVars, conns, sock, peer, reader, posted, nsent, stream>>

\* A successful write: continue within the front packet, or with the next.
HandleWrite(c) ==
  LET o == offset[c] + Head(written[c]).n IN
  /\ written[c] # <<>> /\ Head(written[c]).ec = "ok"
  /\ IF o # MsgSize
       THEN /\ offset' = [offset EXCEPT ![c] = o]
            /\ do_write(c, out[c], o, WriteDone(c))
            /\ UNCHANGED out
       ELSE /\ out' = [out EXCEPT ![c] = Tail(@)]
            /\ offset' = [offset EXCEPT ![c] = 0]
            /\ do_write(c, Tail(out[c]), 0, WriteDone(c))
  /\ UNCHANGED <<acceptVars, conns, sock, peer, reader, posted, nsent, stream>>

\* A failed write stops the connection, an aborted one does nothing.
HandleWriteError(c) ==
  /\ written[c] # <<>>
  /\ \/ /\ Head(written[c]).ec = "error"
        /\ stop({c}, reader, WriteDone(c))
     \/ /\ Head(written[c]).ec = "aborted" /\ written' = WriteDone(c)
        /\ UNCHANGED <<conns, sock, reader, writing>>
  /\ UNCHANGED <<acceptVars, peer, out, offset, posted, nsent, stream>>

-----------------------------------------------------------------------------
(* Server. *)

\* Seeded fault: the handler does not look whether the server was stopped.
HandleAcceptAnyway ==
  /\ accept \in {"ok", "error", "aborted"}
  /\ accept' = (IF acceptorOpen THEN "waiting" ELSE "none") /\ accepted' = NoConn
  /\ IF accept = "ok"
       THEN /\ conns' = conns \cup {accepted}
            /\ sock' = [sock EXCEPT ![accepted] = "open"]
            /\ reader' = [reader EXCEPT ![accepted] = "waiting"]
       ELSE UNCHANGED <<conns, sock, reader>>
  /\ UNCHANGED <<acceptorOpen, peer, writeVars>>

\* The handler of an accept: after stop nothing; else the connection starts
\* to read, and in any case the next accept is started.
HandleAccept ==
  /\ accept \in {"ok", "error", "aborted"}
  /\ IF ~acceptorOpen
       THEN accept' = "none" /\ UNCHANGED <<accepted, conns, sock, reader>>
       ELSE /\ accept' = "waiting" /\ accepted' = NoConn
            /\ IF accept = "ok"
                 THEN /\ conns' = conns \cup {accepted}
                      /\ sock' = [sock EXCEPT ![accepted] = "open"]
                      /\ reader' = [reader EXCEPT ![accepted] = "waiting"]
                 ELSE UNCHANGED <<conns, sock, reader>>
  /\ UNCHANGED <<acceptorOpen, peer, writeVars>>

\* sendAll: an event goes to every connection of the manager.
sendAll ==
  /\ conns # {}
  /\ send([c \in Conns |-> IF c \in conns THEN 1 ELSE 0])
  /\ UNCHANGED <<acceptVars, conns, sock, peer, reader, offset, writing, written, stream>>

\* Server::stop, from the signal handler.
ServerStop ==
  /\ acceptorOpen
  /\ acceptorOpen' = FALSE
  /\ accept' = IF accept = "waiting" THEN "aborted" ELSE accept
  /\ stop(conns, reader, written)
  /\ UNCHANGED <<accepted, peer, out, offset, posted, nsent, stream>>

-----------------------------------------------------------------------------
(* Clients and the operating system. *)

\* A client connects, or the accept fails.
AcceptCompletes ==
  /\ accept = "waiting"
  /\ \/ \E c \in Conns :
          /\ peer[c] = "none"
          /\ accept' = "ok" /\ accepted' = c
          /\ peer' = [peer EXCEPT ![c] = "up"]
     \/ accept' = "error" /\ UNCHANGED <<accepted, peer>>
  /\ UNCHANGED <<acceptorOpen, conns, sock, reader, writeVars>>

ClientLeaves(c) ==
  /\ peer[c] = "up"
  /\ peer' = [peer EXCEPT ![c] = "gone"]
  /\ UNCHANGED <<acceptVars, conns, sock, reader, writeVars>>

\* Bytes arrive from the client, sent before it left if it did.
ReadSucceeds(c) ==
  /\ reader[c] = "waiting"
  /\ reader' = [reader EXCEPT ![c] = "ok"]
  /\ UNCHANGED <<acceptVars, conns, sock, peer, writeVars>>

ReadFails(c) ==
  /\ reader[c] = "waiting" /\ peer[c] = "gone"
  /\ reader' = [reader EXCEPT ![c] = "error"]
  /\ UNCHANGED <<acceptVars, conns, sock, peer, writeVars>>

\* The kernel takes a part of the buffer of the oldest write, or all of it.
WriteSucceeds(c) ==
  LET w == Head(writing[c]) IN
  /\ writing[c] # <<>>
  /\ writing' = [writing EXCEPT ![c] = Tail(@)]
  /\ \E n \in 1 .. (MsgSize - w.from) :
       /\ written' = [written EXCEPT ![c] = Append(@, [ec |-> "ok", n |-> n])]
       /\ stream' = [stream EXCEPT ![c] =
            @ \o [i \in 1 .. n |-> [msg |-> w.msg, pos |-> w.from + i]]]
  /\ UNCHANGED <<acceptVars, conns, sock, peer, reader, out, offset, posted, nsent>>

WriteFails(c) ==
  /\ writing[c] # <<>> /\ peer[c] = "gone"
  /\ writing' = [writing EXCEPT ![c] = Tail(@)]
  /\ written' = [written EXCEPT ![c] = Append(@, Failed)]
  /\ UNCHANGED <<acceptVars, conns, sock, peer, reader, out, offset, posted, nsent, stream>>

-----------------------------------------------------------------------------
Init ==
  /\ acceptorOpen = TRUE /\ accept = "waiting" /\ accepted = NoConn
  /\ conns = {}
  /\ sock = [c \in Conns |-> "none"]
  /\ peer = [c \in Conns |-> "none"]
  /\ reader = [c \in Conns |-> "none"]
  /\ out = [c \in Conns |-> <<>>]
  /\ offset = [c \in Conns |-> 0]
  /\ posted = [c \in Conns |-> 0]
  /\ writing = [c \in Conns |-> <<>>]
  /\ written = [c \in Conns |-> <<>>]
  /\ nsent = [c \in Conns |-> 0]
  /\ stream = [c \in Conns |-> <<>>]

Handlers(c) ==
  \/ \E k \in 0 .. MaxSends : HandleRead(c, k)
  \/ HandleReadError(c)
  \/ HandlePosted(c)
  \/ HandleWrite(c)
  \/ HandleWriteError(c)

Next ==
  \/ HandleAccept \/ sendAll \/ ServerStop \/ AcceptCompletes
  \/ \E c \in Conns :
       \/ Handlers(c) \/ ClientLeaves(c)
       \/ ReadSucceeds(c) \/ ReadFails(c) \/ WriteSucceeds(c) \/ WriteFails(c)

Spec == Init /\ [][Next]_vars

\* The event loop runs every queued handler.  A client that is up takes what
\* is sent to it; the operations of one that is gone fail in the end.
Fairness ==
  /\ WF_vars(HandleAccept)
  /\ \A c \in Conns :
       /\ WF_vars(\E k \in 0 .. MaxSends : HandleRead(c, k))
       /\ WF_vars(HandleReadError(c)) /\ WF_vars(HandlePosted(c))
       /\ WF_vars(HandleWrite(c)) /\ WF_vars(HandleWriteError(c))
       /\ WF_vars(WriteSucceeds(c)) /\ WF_vars(WriteFails(c))
       /\ SF_vars(ReadFails(c))

FairSpec == Spec /\ Fairness

-----------------------------------------------------------------------------
(* Properties. *)

\* The handlers and operations that carry on the writing of c.
Writers(c) == posted[c] + Len(writing[c]) + Len(written[c])

\* "if there is no write in progress, schedule do_write() call": a connection
\* never has two writes in progress, posted, outstanding or completed, so no
\* packet is sent twice or popped twice; and none runs on an empty queue,
\* where front() would be undefined.
OneWriter ==
  \A c \in Conns : Writers(c) <= 1 /\ (Writers(c) = 1 => out[c] # <<>>)

\* A connection of the manager with queued packets has a write in progress:
\* no packet is left behind when send and the write handlers interleave.
NoStall == \A c \in conns : out[c] # <<>> => Writers(c) = 1

\* What the client receives is a prefix of the messages in the order of send,
\* whole, unmixed and without repetition, however writes are split
\* (ClientConnection::do_write).
StreamInOrder ==
  \A c \in Conns : \A j \in DOMAIN stream[c] :
    stream[c][j] = [msg |-> ((j - 1) \div MsgSize) + 1,
                    pos |-> ((j - 1) % MsgSize) + 1]

\* Nothing refers to c any more: its shared_ptr count is zero.
Released(c) ==
  /\ c \notin conns
  /\ reader[c] = "none" /\ Writers(c) = 0

\* A connection whose client is gone is released: every operation that was
\* outstanding ends, and nothing keeps it alive (also when shutdown throws).
\* After Server::stop every connection is, so that no network operation keeps
\* io_service.run from returning.
NothingIsKept ==
  \A c \in Conns :
    (~acceptorOpen \/ (peer[c] = "gone" /\ sock[c] # "none")) ~> Released(c)

\* A client that is up and stays connected receives every message given to
\* send, however sends, the posted do_write and the write handlers interleave.
SentIsDelivered ==
  \A c \in Conns :
    (c \in conns /\ Len(stream[c]) < MsgSize * nsent[c])
      ~> (c \notin conns \/ Len(stream[c]) = MsgSize * nsent[c])
=============================================================================
