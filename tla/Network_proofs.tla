--------------------------- MODULE Network_proofs ---------------------------
(***************************************************************************)
(* For every set of connections, every message size and every number of    *)
(* messages: a connection has one write in progress at a time, none of the *)
(* manager's connections stalls, and what a client receives is in the      *)
(* order of send.                                                          *)
(***************************************************************************)
EXTENDS Network, SequenceTheorems, TLAPS

Sockets == {"none", "open", "closed"}
Readers == {"none", "waiting", "ok", "error", "aborted"}
Writes == [msg : Nat, from : Nat]
Results == [ec : {"ok", "error", "aborted"}, n : Nat]

TypeOK ==
  /\ acceptorOpen \in BOOLEAN
  /\ accept \in {"none", "waiting", "ok", "error", "aborted"}
  /\ accepted \in Conns \cup {NoConn}
  /\ conns \in SUBSET Conns
  /\ sock \in [Conns -> Sockets]
  /\ peer \in [Conns -> {"none", "up", "gone"}]
  /\ reader \in [Conns -> Readers]
  /\ out \in [Conns -> Seq(Nat)]
  /\ offset \in [Conns -> Nat]
  /\ posted \in [Conns -> Nat]
  /\ writing \in [Conns -> Seq(Writes)]
  /\ written \in [Conns -> Seq(Results)]
  /\ nsent \in [Conns -> Nat]

\* A connection without a socket was never started.
Unstarted ==
  \A c \in Conns : sock[c] = "none" =>
    /\ c \notin conns /\ reader[c] = "none"
    /\ out[c] = <<>> /\ Writers(c) = 0

\* A completed accept has left a client without a socket; a connection without
\* a client has none either.
AcceptedIsNew ==
  /\ accept = "ok" => accepted \in Conns /\ sock[accepted] = "none"
                      /\ peer[accepted] # "none"
  /\ \A c \in Conns : peer[c] = "none" => sock[c] = "none"

NoneAborted(results) == \A i \in DOMAIN results : results[i].ec # "aborted"

\* Operations are aborted on connections that left the manager only.
AbortedHasLeft == \A c \in conns : NoneAborted(written[c])

\* The inductive invariant.
IInv == /\ TypeOK /\ Unstarted /\ AcceptedIsNew /\ AbortedHasLeft
        /\ OneWriter /\ NoStall

-----------------------------------------------------------------------------
(* The parts of a handler. *)

\* The terms of Writers.  w stands for the queued completions while a handler
\* runs.
Outstanding(c) == Len(writing[c])
Completed(w, c) == Len(w[c])

\* The terms are numbers that add up to the writes in progress.
LEMMA Counts ==
  ASSUME TypeOK, NEW c \in Conns
  PROVE  /\ posted[c] \in Nat /\ Outstanding(c) \in Nat
         /\ Completed(written, c) \in Nat
         /\ Writers(c) = posted[c] + Outstanding(c) + Completed(written, c)
BY LenProperties DEF TypeOK, Outstanding, Completed, Writers

\* The same after a step.
LEMMA CountsNext ==
  ASSUME NEW c \in Conns, posted' \in [Conns -> Nat],
         writing' \in [Conns -> Seq(Writes)], written' \in [Conns -> Seq(Results)]
  PROVE  /\ posted'[c] \in Nat /\ Outstanding(c)' \in Nat
         /\ Completed(written', c) \in Nat
         /\ Writers(c)' = posted'[c] + Outstanding(c)' + Completed(written', c)
BY LenProperties DEF Outstanding, Completed, Writers

\* The handler of a completed write takes it from the queue.
LEMMA TakeResult ==
  ASSUME TypeOK, NEW c \in Conns, written[c] # <<>>
  PROVE  \E w \in [Conns -> Seq(Results)] :
           /\ w = WriteDone(c)
           /\ Completed(written, c) = Completed(w, c) + 1
           /\ \A d \in Conns \ {c} : w[d] = written[d]
           /\ \A d \in Conns : NoneAborted(written[d]) => NoneAborted(w[d])
<1>1. PICK w : w = WriteDone(c)
  OBVIOUS
<1>2. written[c] \in Seq(Results)
  BY DEF TypeOK
<1>3. /\ Tail(written[c]) \in Seq(Results)
      /\ Len(Tail(written[c])) = Len(written[c]) - 1
      /\ \A i \in 1 .. Len(Tail(written[c])) : Tail(written[c])[i] = written[c][i + 1]
  BY <1>2, HeadTailProperties
<1>4. w \in [Conns -> Seq(Results)] /\ w[c] = Tail(written[c])
  BY <1>1, <1>3 DEF TypeOK, WriteDone
<1>5. \A d \in Conns \ {c} : w[d] = written[d]
  BY <1>1 DEF TypeOK, WriteDone
<1>6. Len(written[c]) \in Nat /\ DOMAIN written[c] = 1 .. Len(written[c])
  BY <1>2, LenProperties
<1>7. Completed(written, c) = Completed(w, c) + 1
  BY <1>3, <1>4, <1>6 DEF Completed
<1>8. NoneAborted(written[c]) => NoneAborted(w[c])
  <2>1. DOMAIN w[c] = 1 .. Len(Tail(written[c]))
    BY <1>3, <1>4, LenProperties
  <2> QED
    BY <1>3, <1>4, <1>6, <2>1 DEF NoneAborted
<1> QED
  BY <1>1, <1>4, <1>5, <1>7, <1>8

\* send appends, and posts a do_write exactly for the queues that were empty.
LEMMA SendStep ==
  ASSUME TypeOK, NEW times \in [Conns -> Nat], send(times)
  PROVE  /\ out' \in [Conns -> Seq(Nat)] /\ posted' \in [Conns -> Nat]
         /\ nsent' \in [Conns -> Nat]
         /\ \A c \in Conns : times[c] = 0 => out'[c] = out[c] /\ posted'[c] = posted[c]
         /\ \A c \in Conns :
              \/ out'[c] = out[c] /\ posted'[c] = posted[c]
              \/ out[c] # <<>> /\ out'[c] # <<>> /\ posted'[c] = posted[c]
              \/ out[c] = <<>> /\ out'[c] # <<>> /\ posted'[c] = posted[c] + 1
<1>1. posted' \in [Conns -> Nat] /\ nsent' \in [Conns -> Nat]
  <2>1. ASSUME NEW c \in Conns
        PROVE  /\ posted[c] + (IF times[c] > 0 /\ out[c] = <<>> THEN 1 ELSE 0) \in Nat
               /\ nsent[c] + times[c] \in Nat
    <3>1. posted[c] \in Nat /\ nsent[c] \in Nat /\ times[c] \in Nat
      BY DEF TypeOK
    <3> QED
      BY <3>1
  <2> QED
    BY <2>1 DEF send
<1>2. ASSUME NEW c \in Conns
      PROVE  /\ out'[c] \in Seq(Nat)
             /\ Len(out'[c]) = Len(out[c]) + times[c]
             /\ times[c] = 0 => out'[c] = out[c]
  <2> DEFINE new == [i \in 1 .. times[c] |-> nsent[c] + i]
  <2>1. new \in Seq(Nat) /\ Len(new) = times[c]
    <3>1. times[c] \in Nat /\ nsent[c] \in Nat
      BY DEF TypeOK
    <3>2. \A i \in 1 .. times[c] : nsent[c] + i \in Nat
      BY <3>1
    <3>3. new \in [1 .. times[c] -> Nat]
      BY <3>2
    <3> QED
      BY <3>1, <3>3
  <2>2. out'[c] = out[c] \o new
    BY DEF send
  <2>3. times[c] = 0 => new = <<>>
    BY <2>1
  <2> HIDE DEF new
  <2>4. out[c] \in Seq(Nat)
    BY DEF TypeOK
  <2>5. out[c] \o new \in Seq(Nat) /\ Len(out[c] \o new) = Len(out[c]) + Len(new)
    BY ONLY <2>1, <2>4, ConcatProperties
  <2>6. out[c] \o <<>> = out[c]
    BY <2>4, ConcatEmptySeq
  <2> QED
    BY <2>1, <2>2, <2>3, <2>5, <2>6
<1>3. out' \in [Conns -> Seq(Nat)]
  <2>1. out' = [c \in Conns |-> out'[c]]
    BY DEF send
  <2> QED
    BY <1>2, <2>1
<1>4. ASSUME NEW c \in Conns
      PROVE  /\ times[c] = 0 => out'[c] = out[c] /\ posted'[c] = posted[c]
             /\ \/ out'[c] = out[c] /\ posted'[c] = posted[c]
                \/ out[c] # <<>> /\ out'[c] # <<>> /\ posted'[c] = posted[c]
                \/ out[c] = <<>> /\ out'[c] # <<>> /\ posted'[c] = posted[c] + 1
  <2>1. posted'[c] = posted[c] + (IF times[c] > 0 /\ out[c] = <<>> THEN 1 ELSE 0)
    BY DEF send
  <2>2. posted[c] \in Nat /\ times[c] \in Nat /\ Len(out[c]) \in Nat
    BY LenProperties DEF TypeOK
  <2>3. out[c] # <<>> => Len(out[c]) # 0
    BY EmptySeq DEF TypeOK
  <2>4. Len(out'[c]) # 0 => out'[c] # <<>>
    BY EmptySeq
  <2> QED
    BY <1>2, <2>1, <2>2, <2>3, <2>4
<1> QED
  BY <1>1, <1>3, <1>4

\* do_write adds one write in progress unless the queue is empty.
WriteEffect(c, q, w) ==
  /\ writing' \in [Conns -> Seq(Writes)] /\ written' \in [Conns -> Seq(Results)]
  /\ Outstanding(c)' + Completed(written', c)
       = Outstanding(c) + Completed(w, c) + (IF q = <<>> THEN 0 ELSE 1)
  /\ \A d \in Conns \ {c} : writing'[d] = writing[d] /\ written'[d] = w[d]
  /\ \A d \in Conns : NoneAborted(w[d]) => NoneAborted(written'[d])

\* That is what do_write does.
LEMMA WriteStep ==
  ASSUME TypeOK, NEW c \in Conns, NEW q \in Seq(Nat), NEW o \in Nat,
         NEW w \in [Conns -> Seq(Results)], do_write(c, q, o, w)
  PROVE  WriteEffect(c, q, w)
<1> USE DEF WriteEffect
<1>1. /\ writing \in [Conns -> Seq(Writes)] /\ writing[c] \in Seq(Writes)
      /\ w[c] \in Seq(Results)
      /\ Len(writing[c]) \in Nat /\ Len(w[c]) \in Nat
  BY LenProperties DEF TypeOK
<1>2. Failed \in Results /\ Failed.ec # "aborted"
  BY DEF Failed, Results
<1>3. CASE q # <<>> /\ sock[c] = "open"
  <2> DEFINE e == [msg |-> Head(q), from |-> o]
  <2>1. e \in Writes
    BY <1>3, HeadTailProperties DEF Writes
  <2>2. writing' = [writing EXCEPT ![c] = Append(writing[c], e)] /\ written' = w
    BY <1>3 DEF do_write
  <2> HIDE DEF e
  <2>3. /\ Append(writing[c], e) \in Seq(Writes)
        /\ Len(Append(writing[c], e)) = Len(writing[c]) + 1
    BY <1>1, <2>1, AppendProperties
  <2> QED
    BY <1>1, <1>3, <2>2, <2>3 DEF Outstanding, Completed
<1>4. CASE q # <<>> /\ sock[c] # "open"
  <2>1. written' = [w EXCEPT ![c] = Append(w[c], Failed)] /\ writing' = writing
    BY <1>4 DEF do_write
  <2>2. /\ Append(w[c], Failed) \in Seq(Results)
        /\ Len(Append(w[c], Failed)) = Len(w[c]) + 1
        /\ \A i \in 1 .. Len(w[c]) : Append(w[c], Failed)[i] = w[c][i]
        /\ Append(w[c], Failed)[Len(w[c]) + 1] = Failed
    BY <1>1, <1>2, AppendProperties
  <2>3. written'[c] = Append(w[c], Failed)
    BY <2>1
  <2>4. NoneAborted(w[c]) => NoneAborted(written'[c])
    <3>1. DOMAIN w[c] = 1 .. Len(w[c])
      BY <1>1, LenProperties
    <3>2. DOMAIN written'[c] = 1 .. (Len(w[c]) + 1)
      BY <2>2, <2>3, LenProperties
    <3> QED
      BY <1>1, <1>2, <2>2, <2>3, <3>1, <3>2 DEF NoneAborted
  <2> QED
    BY <1>1, <1>4, <2>1, <2>2, <2>4 DEF Outstanding, Completed
<1>5. CASE q = <<>>
  BY <1>1, <1>5 DEF do_write, Outstanding, Completed
<1> QED
  BY <1>3, <1>4, <1>5

\* Aborting n outstanding writes queues n completions.
LEMMA AbortedResults ==
  ASSUME NEW s \in Seq(Results), NEW n \in Nat
  PROVE  /\ s \o [i \in 1 .. n |-> Aborted] \in Seq(Results)
         /\ Len(s \o [i \in 1 .. n |-> Aborted]) = Len(s) + n
<1> DEFINE a == [i \in 1 .. n |-> Aborted]
<1>1. Aborted \in Results
  BY DEF Aborted, Results
<1>2. a \in Seq(Results) /\ Len(a) = n
  BY <1>1
<1> HIDE DEF a
<1>3. s \o a \in Seq(Results) /\ Len(s \o a) = Len(s) + Len(a)
  BY ONLY <1>2, ConcatProperties, s \in Seq(Results)
<1> QED
  BY <1>2, <1>3 DEF a

\* stop keeps the number of writes in progress: an outstanding one is aborted.
StopEffect(S, r, w) ==
  /\ sock' \in [Conns -> Sockets] /\ reader' \in [Conns -> Readers]
  /\ writing' \in [Conns -> Seq(Writes)] /\ written' \in [Conns -> Seq(Results)]
  /\ conns' = conns \ S
  /\ \A c \in Conns :
       /\ sock'[c] = "none" <=> sock[c] = "none"
       /\ r[c] = "none" => reader'[c] = "none"
       /\ Outstanding(c)' + Completed(written', c) = Outstanding(c) + Completed(w, c)
       /\ c \notin S => written'[c] = w[c]

\* That is what stop and stopAll do.
LEMMA StopStep ==
  ASSUME TypeOK, NEW S \in SUBSET Conns, NEW r \in [Conns -> Readers],
         NEW w \in [Conns -> Seq(Results)], stop(S, r, w)
  PROVE  StopEffect(S, r, w)
<1>1. PICK closed \in ClosedSets(S) :
        /\ sock' = [c \in Conns |-> IF c \in closed THEN "closed" ELSE sock[c]]
        /\ reader' = [c \in Conns |->
             IF c \in closed /\ r[c] = "waiting" THEN "aborted" ELSE r[c]]
        /\ writing' = [c \in Conns |-> IF c \in closed THEN <<>> ELSE writing[c]]
        /\ written' = [c \in Conns |-> IF c \in closed
             THEN w[c] \o [i \in DOMAIN writing[c] |-> Aborted] ELSE w[c]]
  BY DEF stop
<1>2. closed \subseteq {c \in S : sock[c] = "open"}
  BY DEF ClosedSets
<1>3. sock' \in [Conns -> Sockets] /\ reader' \in [Conns -> Readers]
  BY <1>1 DEF TypeOK, Sockets, Readers
<1>4. ASSUME NEW c \in Conns
      PROVE  /\ writing'[c] \in Seq(Writes) /\ written'[c] \in Seq(Results)
             /\ Len(writing'[c]) + Len(written'[c]) = Len(writing[c]) + Len(w[c])
  <2>1. /\ writing[c] \in Seq(Writes) /\ w[c] \in Seq(Results)
        /\ Len(writing[c]) \in Nat /\ Len(w[c]) \in Nat
        /\ DOMAIN writing[c] = 1 .. Len(writing[c])
    BY LenProperties DEF TypeOK
  <2>2. CASE c \in closed
    <3>1. /\ writing'[c] = <<>>
          /\ written'[c] = w[c] \o [i \in 1 .. Len(writing[c]) |-> Aborted]
      BY <1>1, <2>1, <2>2
    <3>2. /\ written'[c] \in Seq(Results)
          /\ Len(written'[c]) = Len(w[c]) + Len(writing[c])
      BY <2>1, <3>1, AbortedResults
    <3>3. <<>> \in Seq(Writes) /\ Len(<<>>) = 0
      BY EmptySeq
    <3> QED
      BY <2>1, <3>1, <3>2, <3>3
  <2>3. CASE c \notin closed
    BY <1>1, <2>1, <2>3
  <2> QED
    BY <2>2, <2>3
<1>5. writing' \in [Conns -> Seq(Writes)] /\ written' \in [Conns -> Seq(Results)]
  <2>1. /\ writing' = [c \in Conns |-> writing'[c]]
        /\ written' = [c \in Conns |-> written'[c]]
    BY <1>1
  <2> QED
    BY <1>4, <2>1
<1>6. ASSUME NEW c \in Conns
      PROVE  /\ sock'[c] = "none" <=> sock[c] = "none"
             /\ r[c] = "none" => reader'[c] = "none"
             /\ c \notin S => written'[c] = w[c]
  BY <1>1, <1>2
<1> QED
  BY <1>3, <1>4, <1>5, <1>6 DEF stop, Outstanding, Completed, StopEffect

-----------------------------------------------------------------------------
(* The steps. *)

\* The server starts without connections.
LEMMA InitInv == ASSUME NetAssumption, Init PROVE IInv
<1>1. \A S : <<>> \in Seq(S) /\ Len(<<>>) = 0
  BY EmptySeq
<1>2. \A c \in Conns : Writers(c) = 0
  BY <1>1 DEF Init, Writers
<1>3. TypeOK
  BY <1>1 DEF Init, TypeOK, Sockets, Readers
<1> QED
  BY <1>2, <1>3 DEF Init, IInv, Unstarted, AcceptedIsNew, AbortedHasLeft,
                    OneWriter, NoStall

\* What a step may do to a connection: append to its queue, and start a write
\* if the queue was empty; end the write of the front packet and start the
\* next, if any; or end the last write of a connection that left the manager.
ConnStep(c) ==
  /\ sock'[c] = "none" <=> sock[c] = "none"
  /\ sock[c] = "none" =>
       reader'[c] = "none" /\ out'[c] = out[c] /\ Writers(c)' = Writers(c)
  /\ \/ out'[c] = out[c] /\ Writers(c)' = Writers(c)
     \/ out[c] # <<>> /\ out'[c] # <<>> /\ Writers(c)' = Writers(c)
     \/ out[c] = <<>> /\ out'[c] # <<>> /\ Writers(c)' = Writers(c) + 1
     \/ Writers(c)' = IF out'[c] = <<>> THEN 0 ELSE 1
     \/ c \notin conns' /\ Writers(c)' = 0
  /\ c \in conns' /\ NoneAborted(written[c]) => NoneAborted(written'[c])

\* Every step but those of the acceptor keeps the invariant.
LEMMA ConnSteps ==
  ASSUME IInv, TypeOK', conns' \subseteq conns, accepted' = accepted,
         accept' = "ok" => accept = "ok",
         \A c \in Conns : peer'[c] = "none" <=> peer[c] = "none",
         \A c \in Conns : ConnStep(c)
  PROVE  IInv'
<1> USE DEF IInv
<1>1. \A c \in Conns : Writers(c) \in Nat
  BY Counts DEF Writers
<1>2. Unstarted'
  BY DEF Unstarted, ConnStep
<1>3. AcceptedIsNew'
  BY DEF AcceptedIsNew, ConnStep
<1>4. AbortedHasLeft'
  BY DEF AbortedHasLeft, ConnStep, TypeOK
<1>5. ASSUME NEW c \in Conns
      PROVE  /\ Writers(c)' <= 1
             /\ Writers(c)' = 1 => out'[c] # <<>>
             /\ c \in conns' /\ out'[c] # <<>> => Writers(c)' = 1
  <2>1. /\ Writers(c) \in Nat /\ Writers(c) <= 1
        /\ Writers(c) = 1 => out[c] # <<>>
        /\ c \in conns /\ out[c] # <<>> => Writers(c) = 1
    BY <1>1 DEF OneWriter, NoStall
  <2>2. \/ out'[c] = out[c] /\ Writers(c)' = Writers(c)
        \/ out[c] # <<>> /\ out'[c] # <<>> /\ Writers(c)' = Writers(c)
        \/ out[c] = <<>> /\ out'[c] # <<>> /\ Writers(c)' = Writers(c) + 1
        \/ Writers(c)' = IF out'[c] = <<>> THEN 0 ELSE 1
        \/ c \notin conns' /\ Writers(c)' = 0
    BY DEF ConnStep
  <2>3. c \in conns' => c \in conns
    OBVIOUS
  <2> QED
    BY ONLY <2>1, <2>2, <2>3
<1>6. OneWriter'
  BY <1>5 DEF OneWriter
<1>7. NoStall'
  BY <1>5 DEF NoStall, TypeOK
<1> QED
  BY <1>2, <1>3, <1>4, <1>6, <1>7

\* A successful read.
LEMMA HandleReadInv ==
  ASSUME IInv, NEW c \in Conns, NEW k \in Nat, HandleRead(c, k) PROVE IInv'
<1> USE DEF IInv
<1>1. Once(c, k) \in [Conns -> Nat] /\ send(Once(c, k))
  BY DEF Once, HandleRead
<1>2. \A d \in Conns \ {c} : Once(c, k)[d] = 0
  BY DEF Once
<1>3. ReadDone(c) \in [Conns -> Readers] /\ written \in [Conns -> Seq(Results)]
  BY DEF TypeOK, ReadDone, Readers
<1>4. sock[c] # "none"
  BY DEF HandleRead, Unstarted
<1>5. /\ out' \in [Conns -> Seq(Nat)] /\ posted' \in [Conns -> Nat]
      /\ nsent' \in [Conns -> Nat]
  BY <1>1, SendStep
<1>6. /\ sock' \in [Conns -> Sockets] /\ reader' \in [Conns -> Readers]
      /\ writing' \in [Conns -> Seq(Writes)]
      /\ written' \in [Conns -> Seq(Results)]
      /\ conns' \subseteq conns
      /\ \A d \in Conns :
           /\ sock'[d] = "none" <=> sock[d] = "none"
           /\ d # c /\ reader[d] = "none" => reader'[d] = "none"
           /\ Outstanding(d)' + Completed(written', d)
                = Outstanding(d) + Completed(written, d)
           /\ d \in conns' => written'[d] = written[d]
  <2>1. CASE do_read(c) /\ UNCHANGED <<conns, sock, writing, written>>
    BY <2>1 DEF do_read, TypeOK, Readers, Outstanding, Completed
  <2>2. CASE stop({c}, ReadDone(c), written)
    <3>1. PICK S \in SUBSET Conns, r \in [Conns -> Readers],
               w \in [Conns -> Seq(Results)] :
            S = {c} /\ r = ReadDone(c) /\ w = written
      BY <1>3
    <3>2. \A d \in Conns : d # c => r[d] = reader[d]
      BY <3>1 DEF ReadDone, TypeOK
    <3>3. stop(S, r, w)
      BY <2>2, <3>1 DEF stop
    <3>4. StopEffect(S, r, w)
      BY <3>3, StopStep
    <3>5. conns' \subseteq conns /\ Completed(w, c) = Completed(written, c)
      BY <3>1, <3>4 DEF StopEffect
    <3>6. ASSUME NEW d \in Conns
          PROVE  /\ sock'[d] = "none" <=> sock[d] = "none"
                 /\ d # c /\ reader[d] = "none" => reader'[d] = "none"
                 /\ Outstanding(d)' + Completed(written', d)
                      = Outstanding(d) + Completed(written, d)
                 /\ d \in conns' => written'[d] = written[d]
      BY <3>1, <3>2, <3>4 DEF StopEffect
    <3> QED
      BY ONLY <3>4, <3>5, <3>6 DEF StopEffect
  <2> QED
    BY <2>1, <2>2 DEF HandleRead
<1>7. TypeOK'
  BY <1>5, <1>6 DEF TypeOK, HandleRead, acceptVars
<1>8. ASSUME NEW d \in Conns PROVE ConnStep(d)
  <2>1. \/ out'[d] = out[d] /\ posted'[d] = posted[d]
        \/ out[d] # <<>> /\ out'[d] # <<>> /\ posted'[d] = posted[d]
        \/ out[d] = <<>> /\ out'[d] # <<>> /\ posted'[d] = posted[d] + 1
    BY <1>1, SendStep
  <2>2. d # c => out'[d] = out[d] /\ posted'[d] = posted[d]
    BY <1>1, <1>2, SendStep
  <2>3. Writers(d)' = posted'[d] + Outstanding(d) + Completed(written, d)
    <3>1. /\ posted'[d] \in Nat /\ Outstanding(d)' \in Nat
          /\ Completed(written', d) \in Nat
          /\ Writers(d)' = posted'[d] + Outstanding(d)' + Completed(written', d)
      BY <1>5, <1>6, CountsNext
    <3>2. /\ posted'[d] \in Nat /\ Outstanding(d) \in Nat /\ Completed(written, d) \in Nat
          /\ Outstanding(d)' + Completed(written', d)
               = Outstanding(d) + Completed(written, d)
      BY <1>6, <3>1, Counts
    <3> QED
      BY ONLY <3>1, <3>2
  <2>4. /\ posted[d] \in Nat /\ Outstanding(d) \in Nat /\ Completed(written, d) \in Nat
        /\ Writers(d) = posted[d] + Outstanding(d) + Completed(written, d)
    BY Counts
  <2>5. /\ posted'[d] = posted[d] => Writers(d)' = Writers(d)
        /\ posted'[d] = posted[d] + 1 => Writers(d)' = Writers(d) + 1
    BY ONLY <2>3, <2>4
  <2>6. sock[d] = "none" => d # c /\ reader[d] = "none"
    BY <1>4 DEF Unstarted
  <2>7. /\ sock'[d] = "none" <=> sock[d] = "none"
        /\ d # c /\ reader[d] = "none" => reader'[d] = "none"
        /\ d \in conns' => written'[d] = written[d]
    BY <1>6
  <2> QED
    BY ONLY <2>1, <2>2, <2>5, <2>6, <2>7 DEF ConnStep
<1> QED
  BY <1>6, <1>7, <1>8, ConnSteps DEF HandleRead, acceptVars

\* A step that leaves queues and writes alone.
LEMMA QuietInv ==
  ASSUME IInv, TypeOK', accepted' = accepted, accept' = "ok" => accept = "ok",
         conns' = conns, sock' = sock, out' = out, posted' = posted,
         writing' = writing, written' = written,
         \A c \in Conns : peer'[c] = "none" <=> peer[c] = "none",
         \A c \in Conns : reader[c] = "none" => reader'[c] = "none"
  PROVE  IInv'
<1>1. ASSUME NEW c \in Conns PROVE ConnStep(c)
  <2>1. Writers(c)' = Writers(c)
    BY DEF Writers
  <2>2. sock[c] = "none" => reader'[c] = "none"
    BY DEF IInv, Unstarted
  <2> QED
    BY <2>1, <2>2 DEF ConnStep
<1> QED
  BY <1>1, ConnSteps

\* A step that stops connections, possibly after taking a completed write of
\* one of them.
LEMMA StoppedInv ==
  ASSUME IInv, NEW S \in SUBSET Conns, NEW r \in [Conns -> Readers],
         NEW w \in [Conns -> Seq(Results)], stop(S, r, w),
         UNCHANGED <<accepted, peer, out, offset, posted, nsent>>,
         acceptorOpen' \in BOOLEAN, accept' \in {accept, "aborted"},
         \A c \in Conns : reader[c] = "none" => r[c] = "none",
         \A c \in Conns :
           \/ w[c] = written[c]
           \/ c \in S /\ sock[c] # "none"
              /\ Completed(written, c) = Completed(w, c) + 1
  PROVE  IInv'
<1>1. StopEffect(S, r, w)
  BY StopStep DEF IInv
<1>2. TypeOK'
  BY <1>1 DEF IInv, TypeOK, StopEffect
<1>3. w \in [Conns -> Seq(Results)] /\ \A c \in Conns : Completed(w, c) \in Nat
  BY LenProperties DEF Completed
<1>4. ASSUME NEW c \in Conns PROVE ConnStep(c)
  <2>1. /\ posted[c] \in Nat /\ Outstanding(c) \in Nat /\ Completed(written, c) \in Nat
        /\ Writers(c) = posted[c] + Outstanding(c) + Completed(written, c)
        /\ Writers(c) <= 1
    BY Counts DEF IInv, OneWriter
  <2>2. /\ Outstanding(c)' \in Nat /\ Completed(written', c) \in Nat
        /\ Writers(c)' = posted[c] + Outstanding(c)' + Completed(written', c)
    BY <1>1, CountsNext DEF StopEffect, IInv, TypeOK
  <2>3. /\ sock'[c] = "none" <=> sock[c] = "none"
        /\ r[c] = "none" => reader'[c] = "none"
        /\ Outstanding(c)' + Completed(written', c) = Outstanding(c) + Completed(w, c)
        /\ c \notin S => written'[c] = w[c]
        /\ c \in S => c \notin conns'
    BY <1>1 DEF StopEffect
  <2>4. sock[c] = "none" => r[c] = "none"
    BY DEF IInv, Unstarted
  <2>5. CASE w[c] = written[c]
    <3>1. Completed(w, c) = Completed(written, c)
      BY <2>5 DEF Completed
    <3>2. Writers(c)' = Writers(c)
      BY ONLY SMTT(30), <2>1, <2>2, <2>3, <3>1
    <3>3. c \in conns' => written'[c] = written[c]
      BY <2>3, <2>5
    <3> QED
      BY <2>3, <2>4, <3>2, <3>3 DEF ConnStep
  <2>6. CASE /\ c \in S /\ sock[c] # "none"
             /\ Completed(written, c) = Completed(w, c) + 1
    <3>1. Completed(w, c) \in Nat
      BY <1>3
    <3>2. Writers(c)' = 0
      BY ONLY <2>1, <2>2, <2>3, <2>6, <3>1
    <3> QED
      BY <2>3, <2>6, <3>2 DEF ConnStep
  <2> QED
    BY <2>5, <2>6
<1> QED
  BY <1>1, <1>2, <1>4, ConnSteps DEF StopEffect

\* A step that ends the write in progress and goes on with the queue it leaves.
LEMMA ContinueInv ==
  ASSUME IInv, NEW c \in Conns, NEW q \in Seq(Nat), NEW o \in Nat,
         NEW w \in [Conns -> Seq(Results)], do_write(c, q, o, w),
         UNCHANGED <<acceptVars, conns, sock, peer, reader, nsent>>,
         offset' \in [Conns -> Nat], posted' \in [Conns -> Nat],
         out' \in [Conns -> Seq(Nat)], out'[c] = q,
         \A d \in Conns \ {c} : out'[d] = out[d] /\ posted'[d] = posted[d]
                                /\ w[d] = written[d],
         \A d \in Conns : NoneAborted(written[d]) => NoneAborted(w[d]),
         posted'[c] = 0, Outstanding(c) = 0, Completed(w, c) = 0, sock[c] # "none"
  PROVE  IInv'
<1>1. WriteEffect(c, q, w)
  BY WriteStep DEF IInv
<1>2. TypeOK'
  BY <1>1 DEF IInv, TypeOK, WriteEffect, acceptVars
<1>3. ConnStep(c)
  <2>1. /\ posted'[c] \in Nat /\ Outstanding(c)' \in Nat /\ Completed(written', c) \in Nat
        /\ Writers(c)' = posted'[c] + Outstanding(c)' + Completed(written', c)
    BY <1>1, CountsNext DEF WriteEffect
  <2>2. Outstanding(c)' + Completed(written', c)
          = Outstanding(c) + Completed(w, c) + (IF q = <<>> THEN 0 ELSE 1)
    BY <1>1 DEF WriteEffect
  <2>3. posted'[c] = 0 /\ Outstanding(c) = 0 /\ Completed(w, c) = 0
    OBVIOUS
  <2>4. Writers(c)' = IF q = <<>> THEN 0 ELSE 1
    BY ONLY <2>1, <2>2, <2>3
  <2>5. NoneAborted(written[c]) => NoneAborted(written'[c])
    BY <1>1 DEF WriteEffect
  <2> QED
    BY <2>4, <2>5 DEF ConnStep
<1>4. ASSUME NEW d \in Conns \ {c} PROVE ConnStep(d)
  <2>1. writing'[d] = writing[d] /\ written'[d] = written[d]
    BY <1>1 DEF WriteEffect
  <2>2. Writers(d)' = Writers(d)
    BY <2>1 DEF Writers
  <2>3. sock[d] = "none" => reader[d] = "none"
    BY DEF IInv, Unstarted
  <2> QED
    BY <2>1, <2>2, <2>3 DEF ConnStep
<1>5. \A d \in Conns : ConnStep(d)
  BY <1>3, <1>4
<1> QED
  BY <1>2, <1>5, ConnSteps DEF acceptVars

\* The kernel completes the oldest outstanding write, not by aborting it.
LEMMA CompleteInv ==
  ASSUME IInv, NEW c \in Conns, writing[c] # <<>>,
         NEW e \in Results, e.ec # "aborted",
         writing' = [writing EXCEPT ![c] = Tail(@)],
         written' = [written EXCEPT ![c] = Append(@, e)],
         UNCHANGED <<acceptVars, conns, sock, peer, reader, out, offset, posted, nsent>>
  PROVE  IInv'
<1>1. /\ writing[c] \in Seq(Writes) /\ written[c] \in Seq(Results)
      /\ Len(writing[c]) \in Nat /\ Len(written[c]) \in Nat
  BY LenProperties DEF IInv, TypeOK
<1>2. /\ Tail(writing[c]) \in Seq(Writes)
      /\ Len(Tail(writing[c])) = Len(writing[c]) - 1
  BY <1>1, HeadTailProperties
<1>3. /\ Append(written[c], e) \in Seq(Results)
      /\ Len(Append(written[c], e)) = Len(written[c]) + 1
      /\ \A i \in 1 .. Len(written[c]) : Append(written[c], e)[i] = written[c][i]
      /\ Append(written[c], e)[Len(written[c]) + 1] = e
  BY <1>1, AppendProperties
<1>4. /\ writing' \in [Conns -> Seq(Writes)] /\ written' \in [Conns -> Seq(Results)]
      /\ writing'[c] = Tail(writing[c]) /\ written'[c] = Append(written[c], e)
      /\ \A d \in Conns \ {c} : writing'[d] = writing[d] /\ written'[d] = written[d]
  BY <1>2, <1>3 DEF IInv, TypeOK
<1>5. TypeOK'
  BY <1>4 DEF IInv, TypeOK, acceptVars
<1>6. NoneAborted(written[c]) => NoneAborted(written'[c])
  <2>1. /\ DOMAIN written[c] = 1 .. Len(written[c])
        /\ DOMAIN written'[c] = 1 .. (Len(written[c]) + 1)
    BY <1>1, <1>3, <1>4, LenProperties
  <2> QED
    BY <1>1, <1>3, <1>4, <2>1 DEF NoneAborted
<1>7. Writers(c)' = Writers(c)
  <2>1. /\ Outstanding(c)' = Outstanding(c) - 1
        /\ Completed(written', c) = Completed(written, c) + 1
    BY <1>1, <1>2, <1>3, <1>4 DEF Outstanding, Completed
  <2>2. /\ posted[c] \in Nat /\ Outstanding(c) \in Nat /\ Completed(written, c) \in Nat
        /\ Writers(c) = posted[c] + Outstanding(c) + Completed(written, c)
    BY Counts DEF IInv
  <2>3. Writers(c)' = posted[c] + Outstanding(c)' + Completed(written', c)
    BY DEF Writers, Outstanding, Completed
  <2> QED
    BY ONLY <2>1, <2>2, <2>3
<1>8. sock[c] # "none"
  <2>1. Outstanding(c) # 0
    BY <1>1, EmptySeq DEF Outstanding
  <2>2. /\ posted[c] \in Nat /\ Outstanding(c) \in Nat /\ Completed(written, c) \in Nat
        /\ Writers(c) = posted[c] + Outstanding(c) + Completed(written, c)
    BY Counts DEF IInv
  <2>3. Writers(c) # 0
    BY ONLY <2>1, <2>2
  <2> QED
    BY <2>3 DEF IInv, Unstarted
<1>9. ConnStep(c)
  BY <1>6, <1>7, <1>8 DEF ConnStep
<1>10. ASSUME NEW d \in Conns \ {c} PROVE ConnStep(d)
  <2>1. Writers(d)' = Writers(d) /\ written'[d] = written[d]
    BY <1>4 DEF Writers
  <2>2. sock[d] = "none" => reader[d] = "none"
    BY DEF IInv, Unstarted
  <2> QED
    BY <2>1, <2>2 DEF ConnStep
<1>11. \A d \in Conns : ConnStep(d)
  BY <1>9, <1>10
<1> QED
  BY <1>5, <1>11, ConnSteps DEF acceptVars

-----------------------------------------------------------------------------
(* The other actions. *)

\* A failed or aborted read.
LEMMA HandleReadErrorInv ==
  ASSUME IInv, NEW c \in Conns, HandleReadError(c) PROVE IInv'
<1>1. ReadDone(c) \in [Conns -> Readers]
      /\ \A d \in Conns : reader[d] = "none" => ReadDone(c)[d] = "none"
  BY DEF IInv, TypeOK, ReadDone, Readers
<1>2. CASE stop({c}, ReadDone(c), written)
  <2>1. PICK S \in SUBSET Conns, r \in [Conns -> Readers],
             w \in [Conns -> Seq(Results)] :
          S = {c} /\ r = ReadDone(c) /\ w = written
    BY <1>1 DEF IInv, TypeOK
  <2>2. stop(S, r, w)
    BY <1>2, <2>1 DEF stop
  <2>3. acceptorOpen' \in BOOLEAN /\ accept' \in {accept, "aborted"}
    BY DEF HandleReadError, acceptVars, IInv, TypeOK
  <2>4. UNCHANGED <<accepted, peer, out, offset, posted, nsent>>
    BY DEF HandleReadError, acceptVars
  <2> QED
    BY <1>1, <2>1, <2>2, <2>3, <2>4, StoppedInv
<1>3. CASE reader' = ReadDone(c) /\ UNCHANGED <<conns, sock, writing, written>>
  <2>1. TypeOK'
    BY <1>1, <1>3 DEF HandleReadError, acceptVars, IInv, TypeOK
  <2> QED
    BY <1>1, <1>3, <2>1, QuietInv DEF HandleReadError, acceptVars
<1> QED
  BY <1>2, <1>3 DEF HandleReadError

\* The posted do_write is the only write in progress and starts the next.
LEMMA HandlePostedInv ==
  ASSUME IInv, NEW c \in Conns, HandlePosted(c) PROVE IInv'
<1>1. /\ posted[c] \in Nat /\ Outstanding(c) \in Nat /\ Completed(written, c) \in Nat
      /\ Writers(c) = posted[c] + Outstanding(c) + Completed(written, c)
      /\ Writers(c) <= 1 /\ posted[c] > 0
  BY Counts DEF IInv, OneWriter, HandlePosted
<1>2. /\ posted[c] = 1 /\ Outstanding(c) = 0 /\ Completed(written, c) = 0
      /\ Writers(c) # 0
  BY ONLY <1>1
<1>3. PICK q \in Seq(Nat), o \in Nat, w \in [Conns -> Seq(Results)] :
        q = out[c] /\ o = offset[c] /\ w = written
  BY DEF IInv, TypeOK
<1>4. do_write(c, q, o, w)
  BY <1>3 DEF HandlePosted, do_write
<1>5. /\ posted' \in [Conns -> Nat] /\ posted'[c] = 0
      /\ \A d \in Conns \ {c} : posted'[d] = posted[d]
  BY <1>2 DEF HandlePosted, IInv, TypeOK
<1>6. /\ UNCHANGED <<acceptVars, conns, sock, peer, reader, nsent>>
      /\ out' = out /\ offset' = offset
      /\ out' \in [Conns -> Seq(Nat)] /\ offset' \in [Conns -> Nat]
  BY DEF HandlePosted, IInv, TypeOK
<1>7. sock[c] # "none"
  BY <1>2 DEF IInv, Unstarted
<1> QED
  BY <1>2, <1>3, <1>4, <1>5, <1>6, <1>7, ContinueInv

\* A successful write is the only one in progress.
LEMMA HandleWriteInv ==
  ASSUME NetAssumption, IInv, NEW c \in Conns, HandleWrite(c) PROVE IInv'
<1>1. PICK w \in [Conns -> Seq(Results)] :
        /\ w = WriteDone(c)
        /\ Completed(written, c) = Completed(w, c) + 1
        /\ \A d \in Conns \ {c} : w[d] = written[d]
        /\ \A d \in Conns : NoneAborted(written[d]) => NoneAborted(w[d])
  BY TakeResult DEF IInv, HandleWrite
<1>2. /\ posted[c] \in Nat /\ Outstanding(c) \in Nat /\ Completed(written, c) \in Nat
      /\ Writers(c) = posted[c] + Outstanding(c) + Completed(written, c)
      /\ Writers(c) <= 1 /\ (Writers(c) = 1 => out[c] # <<>>)
  BY Counts DEF IInv, OneWriter
<1>3. Completed(w, c) \in Nat
  BY LenProperties DEF Completed
<1>4. posted[c] = 0 /\ Outstanding(c) = 0 /\ Completed(w, c) = 0 /\ Writers(c) = 1
  BY ONLY <1>1, <1>2, <1>3
<1>5. out[c] \in Seq(Nat) /\ out[c] # <<>> /\ Tail(out[c]) \in Seq(Nat)
  BY <1>2, <1>4, HeadTailProperties DEF IInv, TypeOK
<1>6. sock[c] # "none"
  BY <1>4 DEF IInv, Unstarted
<1>7. /\ UNCHANGED <<acceptVars, conns, sock, peer, reader, posted, nsent>>
      /\ posted' \in [Conns -> Nat] /\ posted'[c] = 0
  BY <1>4 DEF HandleWrite, IInv, TypeOK
<1>8. PICK o \in Nat : o = offset[c] + Head(written[c]).n
  <2>1. Head(written[c]) \in Results
    BY HeadTailProperties DEF HandleWrite, IInv, TypeOK
  <2>2. offset[c] \in Nat /\ Head(written[c]).n \in Nat
    BY <2>1 DEF IInv, TypeOK, Results
  <2> QED
    BY <2>2
<1>9. CASE o # MsgSize
  <2>1. /\ offset' = [offset EXCEPT ![c] = o] /\ out' = out
        /\ do_write(c, out[c], o, WriteDone(c))
    BY <1>8, <1>9 DEF HandleWrite
  <2>2. PICK q \in Seq(Nat) : q = out[c]
    BY <1>5
  <2>3. do_write(c, q, o, w)
    BY <1>1, <2>1, <2>2 DEF do_write
  <2>4. offset' \in [Conns -> Nat] /\ out' \in [Conns -> Seq(Nat)]
    BY <2>1 DEF IInv, TypeOK
  <2> QED
    BY <1>1, <1>4, <1>6, <1>7, <2>1, <2>2, <2>3, <2>4, ContinueInv
<1>10. CASE o = MsgSize
  <2>1. /\ offset' = [offset EXCEPT ![c] = 0]
        /\ out' = [out EXCEPT ![c] = Tail(out[c])]
        /\ do_write(c, Tail(out[c]), 0, WriteDone(c))
    BY <1>8, <1>10 DEF HandleWrite
  <2>2. PICK q \in Seq(Nat), z \in Nat : q = Tail(out[c]) /\ z = 0
    BY <1>5
  <2>3. do_write(c, q, z, w)
    BY <1>1, <2>1, <2>2 DEF do_write
  <2>4. /\ offset' \in [Conns -> Nat] /\ out' \in [Conns -> Seq(Nat)]
        /\ out'[c] = q /\ \A d \in Conns \ {c} : out'[d] = out[d]
    BY <1>5, <2>1, <2>2 DEF IInv, TypeOK
  <2> QED
    BY <1>1, <1>4, <1>6, <1>7, <2>3, <2>4, ContinueInv
<1> QED
  BY <1>9, <1>10

\* A failed or aborted write.
LEMMA HandleWriteErrorInv ==
  ASSUME IInv, NEW c \in Conns, HandleWriteError(c) PROVE IInv'
<1>1. PICK w \in [Conns -> Seq(Results)] :
        /\ w = WriteDone(c)
        /\ Completed(written, c) = Completed(w, c) + 1
        /\ \A d \in Conns \ {c} : w[d] = written[d]
        /\ \A d \in Conns : NoneAborted(written[d]) => NoneAborted(w[d])
  BY TakeResult DEF IInv, HandleWriteError
<1>2. /\ posted[c] \in Nat /\ Outstanding(c) \in Nat /\ Completed(written, c) \in Nat
      /\ Writers(c) = posted[c] + Outstanding(c) + Completed(written, c)
      /\ Writers(c) <= 1
  BY Counts DEF IInv, OneWriter
<1>3. Completed(w, c) \in Nat
  BY LenProperties DEF Completed
<1>4. posted[c] = 0 /\ Outstanding(c) = 0 /\ Completed(w, c) = 0 /\ Writers(c) # 0
  BY ONLY <1>1, <1>2, <1>3
<1>5. sock[c] # "none"
  BY <1>4 DEF IInv, Unstarted
<1>6. CASE stop({c}, reader, WriteDone(c))
  <2>1. PICK S \in SUBSET Conns, r \in [Conns -> Readers] : S = {c} /\ r = reader
    BY DEF IInv, TypeOK
  <2>2. stop(S, r, w)
    BY <1>1, <1>6, <2>1 DEF stop
  <2>3. acceptorOpen' \in BOOLEAN /\ accept' \in {accept, "aborted"}
    BY DEF HandleWriteError, acceptVars, IInv, TypeOK
  <2>4. UNCHANGED <<accepted, peer, out, offset, posted, nsent>>
    BY DEF HandleWriteError, acceptVars
  <2>5. \A d \in Conns :
          \/ w[d] = written[d]
          \/ d \in S /\ sock[d] # "none" /\ Completed(written, d) = Completed(w, d) + 1
    BY <1>1, <1>5, <2>1
  <2> QED
    BY <2>1, <2>2, <2>3, <2>4, <2>5, StoppedInv
<1>7. CASE /\ Head(written[c]).ec = "aborted" /\ written' = WriteDone(c)
           /\ UNCHANGED <<conns, sock, reader, writing>>
  <2>1. UNCHANGED <<acceptVars, conns, sock, peer, reader, out, offset, posted, nsent>>
    BY <1>7 DEF HandleWriteError
  <2>2. TypeOK'
    BY <1>1, <1>7, <2>1 DEF IInv, TypeOK, acceptVars
  <2>3. c \notin conns
    <3>1. written[c] \in Seq(Results) /\ written[c] # <<>>
      BY DEF HandleWriteError, IInv, TypeOK
    <3>2. 1 \in DOMAIN written[c] /\ written[c][1].ec = "aborted"
      BY <1>7, <3>1, EmptySeq, LenProperties
    <3> QED
      BY <3>2 DEF IInv, AbortedHasLeft, NoneAborted
  <2>4. ConnStep(c)
    <3>1. Writers(c)' = posted[c] + Outstanding(c) + Completed(w, c)
      BY <1>1, <1>7, <2>1 DEF Writers, Outstanding, Completed
    <3>2. Writers(c)' = 0
      BY ONLY <1>4, <3>1
    <3> QED
      BY <1>5, <2>1, <2>3, <3>2 DEF ConnStep
  <2>5. ASSUME NEW d \in Conns \ {c} PROVE ConnStep(d)
    <3>1. written'[d] = written[d]
      BY <1>1, <1>7
    <3>2. Writers(d)' = Writers(d)
      BY <1>7, <2>1, <3>1 DEF Writers
    <3>3. sock[d] = "none" => reader[d] = "none"
      BY DEF IInv, Unstarted
    <3> QED
      BY <2>1, <3>1, <3>2, <3>3 DEF ConnStep
  <2>6. \A d \in Conns : ConnStep(d)
    BY <2>4, <2>5
  <2> QED
    BY <2>1, <2>2, <2>6, ConnSteps DEF acceptVars
<1> QED
  BY <1>6, <1>7 DEF HandleWriteError

\* An accepted connection has no queue and no writes yet.
LEMMA HandleAcceptInv ==
  ASSUME NetAssumption, IInv, HandleAccept PROVE IInv'
<1>1. UNCHANGED <<acceptorOpen, peer, out, offset, posted, writing, written, nsent>>
  BY DEF HandleAccept, writeVars
<1>2. CASE UNCHANGED <<conns, sock, reader>> /\ accept' # "ok"
           /\ (accepted' = accepted \/ accepted' = NoConn)
  <2>1. TypeOK'
    BY <1>1, <1>2 DEF HandleAccept, IInv, TypeOK
  <2>2. ASSUME NEW c \in Conns PROVE Writers(c)' = Writers(c)
    BY <1>1 DEF Writers
  <2>3. AcceptedIsNew'
    BY <1>1, <1>2 DEF IInv, AcceptedIsNew
  <2>4. Unstarted' /\ AbortedHasLeft' /\ OneWriter' /\ NoStall'
    BY <1>1, <1>2, <2>2 DEF IInv, TypeOK, Unstarted, AbortedHasLeft, OneWriter, NoStall
  <2> QED
    BY <2>1, <2>3, <2>4 DEF IInv
<1>3. CASE /\ accept = "ok" /\ accept' = "waiting" /\ accepted' = NoConn
           /\ conns' = conns \cup {accepted}
           /\ sock' = [sock EXCEPT ![accepted] = "open"]
           /\ reader' = [reader EXCEPT ![accepted] = "waiting"]
  <2>1. /\ accepted \in Conns /\ sock[accepted] = "none" /\ peer[accepted] # "none"
        /\ out[accepted] = <<>> /\ Writers(accepted) = 0
    BY <1>3 DEF IInv, AcceptedIsNew, Unstarted
  <2>2. TypeOK'
    BY <1>1, <1>3, <2>1 DEF IInv, TypeOK, Sockets, Readers
  <2>3. ASSUME NEW c \in Conns PROVE Writers(c)' = Writers(c)
    BY <1>1 DEF Writers
  <2>4. Unstarted'
    BY <1>1, <1>3, <2>1, <2>3 DEF IInv, TypeOK, Unstarted
  <2>5. AcceptedIsNew'
    BY <1>1, <1>3, <2>1 DEF IInv, TypeOK, AcceptedIsNew
  <2>6. NoneAborted(written[accepted])
    <3>1. Len(written[accepted]) \in Nat /\ written[accepted] \in Seq(Results)
      BY <2>1, LenProperties DEF IInv, TypeOK
    <3>2. /\ posted[accepted] \in Nat /\ Outstanding(accepted) \in Nat
          /\ Completed(written, accepted) \in Nat
          /\ Writers(accepted)
               = posted[accepted] + Outstanding(accepted) + Completed(written, accepted)
          /\ Writers(accepted) = 0
      BY <2>1, Counts DEF IInv
    <3>3. Completed(written, accepted) = 0
      BY ONLY <3>2
    <3>4. DOMAIN written[accepted] = {}
      BY <3>1, <3>3, LenProperties DEF Completed
    <3> QED
      BY <3>4 DEF NoneAborted
  <2>7. AbortedHasLeft'
    BY <1>1, <1>3, <2>6 DEF IInv, AbortedHasLeft
  <2>8. OneWriter' /\ NoStall'
    BY SMTT(30), <1>1, <1>3, <2>1, <2>3 DEF IInv, TypeOK, OneWriter, NoStall
  <2> QED
    BY <2>2, <2>4, <2>5, <2>7, <2>8 DEF IInv
<1> QED
  BY <1>2, <1>3 DEF HandleAccept

\* An event goes to the started connections only.
LEMMA sendAllInv ==
  ASSUME IInv, sendAll PROVE IInv'
<1>1. PICK times \in [Conns -> Nat] :
        times = [c \in Conns |-> IF c \in conns THEN 1 ELSE 0]
  OBVIOUS
<1>2. send(times)
  BY <1>1 DEF sendAll, send, MaySend
<1>3. /\ UNCHANGED <<acceptVars, conns, sock, peer, reader, offset, writing, written>>
  BY DEF sendAll
<1>4. TypeOK'
  BY <1>2, <1>3, SendStep DEF IInv, TypeOK, acceptVars
<1>5. ASSUME NEW c \in Conns PROVE ConnStep(c)
  <2>1. \/ out'[c] = out[c] /\ posted'[c] = posted[c]
        \/ out[c] # <<>> /\ out'[c] # <<>> /\ posted'[c] = posted[c]
        \/ out[c] = <<>> /\ out'[c] # <<>> /\ posted'[c] = posted[c] + 1
    BY <1>2, SendStep DEF IInv
  <2>2. sock[c] = "none" => times[c] = 0 /\ reader[c] = "none"
    BY <1>1 DEF IInv, Unstarted
  <2>3. sock[c] = "none" => out'[c] = out[c] /\ posted'[c] = posted[c]
    BY <1>2, <2>2, SendStep DEF IInv
  <2>4. /\ posted[c] \in Nat /\ Outstanding(c) \in Nat /\ Completed(written, c) \in Nat
        /\ Writers(c) = posted[c] + Outstanding(c) + Completed(written, c)
    BY Counts DEF IInv
  <2>5. Writers(c)' = posted'[c] + Outstanding(c) + Completed(written, c)
    BY <1>3 DEF Writers, Outstanding, Completed
  <2>6. /\ posted'[c] = posted[c] => Writers(c)' = Writers(c)
        /\ posted'[c] = posted[c] + 1 => Writers(c)' = Writers(c) + 1
    BY ONLY <2>4, <2>5
  <2> QED
    BY <1>3, <2>1, <2>2, <2>3, <2>6 DEF ConnStep
<1> QED
  BY <1>3, <1>4, <1>5, ConnSteps DEF acceptVars

\* Server::stop.
LEMMA ServerStopInv ==
  ASSUME IInv, ServerStop PROVE IInv'
<1>1. PICK S \in SUBSET Conns, r \in [Conns -> Readers],
           w \in [Conns -> Seq(Results)] :
        S = conns /\ r = reader /\ w = written
  BY DEF IInv, TypeOK
<1>2. stop(S, r, w)
  BY <1>1 DEF ServerStop, stop
<1>3. acceptorOpen' \in BOOLEAN /\ accept' \in {accept, "aborted"}
  BY DEF ServerStop
<1>4. UNCHANGED <<accepted, peer, out, offset, posted, nsent>>
  BY DEF ServerStop
<1> QED
  BY <1>1, <1>2, <1>3, <1>4, StoppedInv

\* A client connects.
LEMMA AcceptCompletesInv ==
  ASSUME IInv, AcceptCompletes PROVE IInv'
<1>1. UNCHANGED <<acceptorOpen, conns, sock, reader, out, offset, posted,
                  writing, written, nsent>>
  BY DEF AcceptCompletes, writeVars
<1>2. ASSUME NEW c \in Conns PROVE Writers(c)' = Writers(c)
  BY <1>1 DEF Writers
<1>3. CASE accept' = "error" /\ UNCHANGED <<accepted, peer>>
  <2>1. TypeOK'
    BY <1>1, <1>3 DEF IInv, TypeOK
  <2> QED
    BY <1>1, <1>3, <2>1, QuietInv
<1>4. ASSUME NEW c \in Conns, peer[c] = "none", accept' = "ok", accepted' = c,
             peer' = [peer EXCEPT ![c] = "up"]
      PROVE  IInv'
  <2>1. sock[c] = "none"
    BY <1>4 DEF IInv, AcceptedIsNew
  <2>2. TypeOK'
    BY <1>1, <1>4 DEF IInv, TypeOK
  <2>3. AcceptedIsNew'
    BY <1>1, <1>4, <2>1 DEF IInv, TypeOK, AcceptedIsNew
  <2>4. Unstarted'
    BY <1>1, <1>2 DEF IInv, Unstarted
  <2>5. AbortedHasLeft' /\ OneWriter' /\ NoStall'
    BY <1>1, <1>2 DEF IInv, TypeOK, AbortedHasLeft, OneWriter, NoStall
  <2> QED
    BY <2>2, <2>3, <2>4, <2>5 DEF IInv
<1> QED
  BY <1>3, <1>4 DEF AcceptCompletes

\* Clients and the kernel.
LEMMA KernelInv ==
  ASSUME NetAssumption, IInv, NEW c \in Conns,
         \/ ClientLeaves(c) \/ ReadSucceeds(c) \/ ReadFails(c)
         \/ WriteSucceeds(c) \/ WriteFails(c)
  PROVE  IInv'
<1>1. CASE ClientLeaves(c)
  <2>1. TypeOK' /\ \A d \in Conns : peer'[d] = "none" <=> peer[d] = "none"
    BY <1>1 DEF ClientLeaves, IInv, TypeOK, acceptVars, writeVars
  <2> QED
    BY <1>1, <2>1, QuietInv DEF ClientLeaves, acceptVars, writeVars
<1>2. CASE ReadSucceeds(c) \/ ReadFails(c)
  <2>1. TypeOK' /\ \A d \in Conns : reader[d] = "none" => reader'[d] = "none"
    BY <1>2 DEF ReadSucceeds, ReadFails, IInv, TypeOK, Readers, acceptVars, writeVars
  <2> QED
    BY <1>2, <2>1, QuietInv DEF ReadSucceeds, ReadFails, acceptVars, writeVars
<1>3. CASE WriteSucceeds(c)
  <2>1. PICK n \in 1 .. (MsgSize - Head(writing[c]).from) :
          written' = [written EXCEPT ![c] = Append(@, [ec |-> "ok", n |-> n])]
    BY <1>3 DEF WriteSucceeds
  <2>2. Head(writing[c]).from \in Nat
    <3>1. Head(writing[c]) \in Writes
      BY <1>3, HeadTailProperties DEF WriteSucceeds, IInv, TypeOK
    <3> QED
      BY <3>1 DEF Writes
  <2>3. n \in Nat
    BY <2>2 DEF NetAssumption
  <2>4. [ec |-> "ok", n |-> n] \in Results /\ [ec |-> "ok", n |-> n].ec # "aborted"
    BY <2>3 DEF Results
  <2> QED
    BY <1>3, <2>1, <2>4, CompleteInv DEF WriteSucceeds
<1>4. CASE WriteFails(c)
  <2>1. Failed \in Results /\ Failed.ec # "aborted"
    BY DEF Failed, Results
  <2> QED
    BY <1>4, <2>1, CompleteInv DEF WriteFails
<1> QED
  BY <1>1, <1>2, <1>3, <1>4

\* Every step keeps the invariant.
LEMMA StepInv ==
  ASSUME NetAssumption, IInv, [Next]_vars PROVE IInv'
<1>1. CASE HandleAccept
  BY <1>1, HandleAcceptInv
<1>2. CASE sendAll
  BY <1>2, sendAllInv
<1>3. CASE ServerStop
  BY <1>3, ServerStopInv
<1>4. CASE AcceptCompletes
  BY <1>4, AcceptCompletesInv
<1>5. ASSUME NEW c \in Conns, Handlers(c) PROVE IInv'
  <2>1. ASSUME NEW k \in 0 .. MaxSends, HandleRead(c, k) PROVE IInv'
    BY <2>1, HandleReadInv DEF NetAssumption
  <2> QED
    BY <1>5, <2>1, HandleReadErrorInv, HandlePostedInv, HandleWriteInv,
       HandleWriteErrorInv DEF Handlers
<1>6. ASSUME NEW c \in Conns,
             \/ ClientLeaves(c) \/ ReadSucceeds(c) \/ ReadFails(c)
             \/ WriteSucceeds(c) \/ WriteFails(c)
      PROVE  IInv'
  BY <1>6, KernelInv
<1>7. CASE UNCHANGED vars
  <2>1. TypeOK'
    BY <1>7 DEF vars, acceptVars, writeVars, IInv, TypeOK
  <2> QED
    BY <1>7, <2>1, QuietInv DEF vars, acceptVars, writeVars
<1> QED
  BY <1>1, <1>2, <1>3, <1>4, <1>5, <1>6, <1>7 DEF Next

\* The invariant holds in every reachable state.
LEMMA Invariant == Spec => []IInv
<1>1. Init => IInv
  BY NetAssumption, InitInv
<1>2. IInv /\ [Next]_vars => IInv'
  BY NetAssumption, StepInv
<1> QED
  BY <1>1, <1>2, PTL DEF Spec

-----------------------------------------------------------------------------
(* The theorems. *)

\* "if there is no write in progress, schedule do_write() call"
\* (ClientConnection::send): a connection never has two writes in progress, and
\* none runs on an empty queue, for any number of connections and messages.
THEOREM AlwaysOneWriter == Spec => []OneWriter
<1>1. IInv => OneWriter
  BY DEF IInv
<1> QED
  BY <1>1, Invariant, PTL

\* A connection of the manager with queued packets always has a write in
\* progress (ClientConnection::send, do_write and its handler).
THEOREM NeverStalled == Spec => []NoStall
<1>1. IInv => NoStall
  BY DEF IInv
<1> QED
  BY <1>1, Invariant, PTL

-----------------------------------------------------------------------------
(* What a client receives is in the order of send. *)

Units == [msg : Nat, pos : Nat]

Unit(j) == [msg |-> ((j - 1) \div MsgSize) + 1, pos |-> ((j - 1) % MsgSize) + 1]

\* The units of the front packet that b, a queue of completed writes, accounts for.
Taken(b) == IF b = <<>> THEN 0 ELSE b[1].n

\* The stream s of a connection is what the queue q, the number m of messages
\* given to send, the offset o, the outstanding writes a and the completed
\* writes b say has been handed over.
Flow(q, m, o, a, b, s) ==
  /\ q \in Seq(Nat) /\ m \in Nat /\ o \in Nat
  /\ a \in Seq(Writes) /\ b \in Seq(Results) /\ s \in Seq(Units)
  /\ Len(q) <= m /\ \A i \in 1 .. Len(q) : q[i] = (m - Len(q)) + i
  /\ o < MsgSize
  /\ Len(a) + Len(b) <= 1
  /\ a # <<>> => q # <<>> /\ a[1] = [msg |-> (m - Len(q)) + 1, from |-> o]
  /\ b # <<>> => /\ q # <<>> /\ o + b[1].n <= MsgSize
                 /\ b[1].ec # "ok" => b[1].n = 0
  /\ Len(s) = (MsgSize * (m - Len(q)) + o) + Taken(b)
  /\ \A j \in 1 .. Len(s) : s[j] = Unit(j)

FlowOK(c) == Flow(out[c], nsent[c], offset[c], writing[c], written[c], stream[c])

\* The inductive invariant.
SInv ==
  /\ IInv
  /\ stream \in [Conns -> Seq(Units)]
  /\ \A c \in Conns : FlowOK(c)

-----------------------------------------------------------------------------
(* What the parts of a handler do to a flow. *)

\* Units of the message that follows k whole ones.
LEMMA UnitOf ==
  ASSUME NEW k \in Nat, NEW p \in 0 .. (MsgSize - 1)
  PROVE  Unit((MsgSize * k + p) + 1) = [msg |-> k + 1, pos |-> p + 1]
<1>1. MsgSize \in Nat \ {0}
  BY NetAssumption
<1>2. PICK j \in Nat : j = MsgSize * k + p
  BY <1>1
<1>3. j \div MsgSize = k /\ j % MsgSize = p
  BY <1>1, <1>2
<1>4. (j + 1) - 1 = j
  BY <1>2
<1> QED
  BY <1>2, <1>3, <1>4 DEF Unit

\* The messages of k calls of send are numbered on from m.
LEMMA NewMessages ==
  ASSUME NEW m \in Nat, NEW k \in Nat
  PROVE  /\ [i \in 1 .. k |-> m + i] \in Seq(Nat)
         /\ Len([i \in 1 .. k |-> m + i]) = k
         /\ \A j \in 1 .. k : [i \in 1 .. k |-> m + i][j] = m + j
OBVIOUS

\* Appending to the empty sequence.
LEMMA SingletonOf ==
  ASSUME NEW S, NEW e \in S
  PROVE  \E t \in Seq(S) : t = Append(<<>>, e) /\ t # <<>> /\ Len(t) = 1 /\ t[1] = e
<1>1. <<>> \in Seq(S) /\ Len(<<>>) = 0
  BY EmptySeq
<1>2. PICK z \in Seq(S) : z = <<>> /\ Len(z) = 0
  BY <1>1
<1>3. /\ Append(z, e) \in Seq(S) /\ Append(z, e) # <<>>
      /\ Len(Append(z, e)) = Len(z) + 1 /\ Append(z, e)[Len(z) + 1] = e
  BY AppendProperties
<1>4. Len(Append(z, e)) = 1 /\ Append(z, e)[1] = e
  BY <1>2, <1>3
<1> QED
  BY <1>2, <1>3, <1>4

\* send adds to the end of the queue and to the number of messages.
LEMMA FlowSend ==
  ASSUME NEW q, NEW m, NEW o, NEW a, NEW b, NEW s, Flow(q, m, o, a, b, s),
         NEW k \in Nat
  PROVE  Flow(q \o [i \in 1 .. k |-> m + i], m + k, o, a, b, s)
<1>1. /\ q \in Seq(Nat) /\ m \in Nat /\ Len(q) <= m
      /\ \A i \in 1 .. Len(q) : q[i] = (m - Len(q)) + i
  BY DEF Flow
<1>2. PICK l \in Nat : l = Len(q)
  BY <1>1, LenProperties
<1>3. PICK new \in Seq(Nat) :
        /\ new = [i \in 1 .. k |-> m + i] /\ Len(new) = k
        /\ \A i \in 1 .. k : new[i] = m + i
  BY <1>1, NewMessages
<1>4. PICK r \in Seq(Nat) : r = q \o new
  BY <1>1, <1>3, ConcatProperties
<1>5. /\ Len(r) = Len(q) + Len(new)
      /\ \A i \in 1 .. Len(q) + Len(new) :
           r[i] = IF i <= Len(q) THEN q[i] ELSE new[i - Len(q)]
  BY <1>1, <1>3, <1>4, ConcatProperties
<1>6. /\ Len(r) = l + k
      /\ \A i \in 1 .. (l + k) : r[i] = IF i <= l THEN q[i] ELSE new[i - l]
  BY ONLY <1>2, <1>3, <1>5
<1>7. m \in Nat /\ l <= m /\ \A i \in 1 .. l : q[i] = (m - l) + i
  BY ONLY <1>1, <1>2
<1>8. (m + k) - Len(r) = m - l /\ Len(r) <= m + k
  BY ONLY <1>6, <1>7, k \in Nat, l \in Nat
<1>9. \A i \in 1 .. Len(r) : r[i] = ((m + k) - Len(r)) + i
  <2> SUFFICES ASSUME NEW i \in 1 .. (l + k) PROVE r[i] = (m - l) + i
    BY <1>6, <1>8
  <2>1. CASE i <= l
    <3>1. i \in 1 .. l
      BY ONLY <2>1, i \in 1 .. (l + k), l \in Nat, k \in Nat
    <3>2. r[i] = q[i]
      BY <1>6, <2>1
    <3>3. q[i] = (m - l) + i
      BY <1>7, <3>1
    <3> QED
      BY ONLY <3>2, <3>3
  <2>2. CASE i > l
    <3>1. i - l \in 1 .. k
      BY ONLY <2>2, i \in 1 .. (l + k), l \in Nat, k \in Nat
    <3>2. r[i] = new[i - l]
      BY ONLY <1>6, <2>2, i \in 1 .. (l + k), l \in Nat, k \in Nat
    <3>3. r[i] = m + (i - l)
      BY <1>3, <3>1, <3>2
    <3>4. m + (i - l) = (m - l) + i
      BY ONLY <1>7, i \in 1 .. (l + k), l \in Nat, k \in Nat
    <3> QED
      BY ONLY <3>3, <3>4
  <2> QED
    BY <2>1, <2>2
<1>10. q # <<>> => r # <<>>
  BY <1>1, <1>4, ConcatEqualIffEmpty, <1>3
<1>11. m + k \in Nat
  BY <1>1
<1>12. (m + k) - Len(r) = m - Len(q)
  BY <1>2, <1>8
<1>13. Flow(r, m + k, o, a, b, s)
  BY <1>8, <1>9, <1>10, <1>11, <1>12 DEF Flow
<1> QED
  BY <1>3, <1>4, <1>13

\* do_write on an open or on a closed socket.
LEMMA FlowBegin ==
  ASSUME NEW q, NEW m, NEW o, NEW s, Flow(q, m, o, <<>>, <<>>, s), q # <<>>
  PROVE  /\ Flow(q, m, o, Append(<<>>, [msg |-> Head(q), from |-> o]), <<>>, s)
         /\ Flow(q, m, o, <<>>, Append(<<>>, Failed), s)
<1>1. /\ q \in Seq(Nat) /\ o \in Nat /\ m \in Nat /\ o < MsgSize
      /\ \A i \in 1 .. Len(q) : q[i] = (m - Len(q)) + i
  BY DEF Flow
<1>2. Len(q) \in Nat \ {0} /\ Len(<<>>) = 0
  BY <1>1, EmptySeq
<1>3. Head(q) = (m - Len(q)) + 1 /\ Head(q) \in Nat
  <2>1. Head(q) = q[1] /\ Head(q) \in Nat
    BY <1>1, HeadTailProperties
  <2>2. 1 \in 1 .. Len(q)
    BY <1>2
  <2> QED
    BY <1>1, <2>1, <2>2
<1>4. PICK e \in Writes : e = [msg |-> Head(q), from |-> o]
  BY <1>1, <1>3 DEF Writes
<1>5. PICK a \in Seq(Writes) : a = Append(<<>>, e) /\ a # <<>> /\ Len(a) = 1 /\ a[1] = e
  BY SingletonOf
<1>6. Len(a) + Len(<<>>) <= 1
  BY <1>2, <1>5
<1>7. Flow(q, m, o, a, <<>>, s)
  BY <1>3, <1>4, <1>5, <1>6 DEF Flow
<1>8. Failed \in Results /\ Failed.n = 0
  BY DEF Failed, Results
<1>9. PICK b \in Seq(Results) :
        b = Append(<<>>, Failed) /\ b # <<>> /\ Len(b) = 1 /\ b[1] = Failed
  BY <1>8, SingletonOf
<1>10. /\ Len(<<>>) + Len(b) <= 1 /\ o + b[1].n <= MsgSize /\ b[1].n = 0
       /\ Taken(b) = 0 /\ Taken(<<>>) = 0
  <2>1. o \in Nat /\ o < MsgSize /\ MsgSize \in Nat
    BY <1>1, NetAssumption
  <2>2. b[1].n = 0
    BY <1>8, <1>9
  <2>3. o + b[1].n <= MsgSize
    BY ONLY <2>1, <2>2
  <2> QED
    BY <1>2, <1>9, <2>2, <2>3 DEF Taken
<1>11. Flow(q, m, o, <<>>, b, s)
  BY <1>9, <1>10 DEF Flow
<1> QED
  BY <1>4, <1>5, <1>7, <1>9, <1>11

\* Closing the socket aborts the outstanding write, which took nothing.
LEMMA FlowAbort ==
  ASSUME NEW q, NEW m, NEW o, NEW a, NEW b, NEW s, Flow(q, m, o, a, b, s)
  PROVE  Flow(q, m, o, <<>>, b \o [i \in DOMAIN a |-> Aborted], s)
<1>1. a \in Seq(Writes) /\ b \in Seq(Results) /\ Len(a) + Len(b) <= 1
  BY DEF Flow
<1>2. /\ Len(a) \in Nat /\ DOMAIN a = 1 .. Len(a) /\ Len(b) \in Nat
      /\ Len(<<>>) = 0 /\ <<>> \in Seq(Writes)
  BY <1>1, LenProperties, EmptySeq
<1>3. CASE Len(a) = 0
  <2>1. [i \in DOMAIN a |-> Aborted] = <<>>
    BY <1>2, <1>3
  <2>2. b \o <<>> = b
    BY <1>1, ConcatEmptySeq
  <2>3. a = <<>>
    BY <1>1, <1>3, EmptySeq
  <2> QED
    BY <2>1, <2>2, <2>3
<1>4. CASE Len(a) = 1
  <2>1. Len(b) = 0
    BY <1>1, <1>2, <1>4
  <2>2. b = <<>> /\ a # <<>>
    BY <1>1, <1>2, <1>4, <2>1, EmptySeq
  <2>3. Aborted \in Results /\ Aborted.n = 0 /\ Aborted.ec # "ok"
    BY DEF Aborted, Results
  <2>4. PICK n \in Seq(Results) :
          n = Append(<<>>, Aborted) /\ n # <<>> /\ Len(n) = 1 /\ n[1] = Aborted
    BY <2>3, SingletonOf
  <2>5. [i \in DOMAIN a |-> Aborted] = n
    <3>1. DOMAIN a = 1 .. 1 /\ DOMAIN n = 1 .. 1
      BY <1>2, <1>4, <2>4, LenProperties
    <3>2. n = [i \in DOMAIN n |-> n[i]]
      BY <2>4
    <3> QED
      BY <2>4, <3>1, <3>2
  <2>6. <<>> \o n = n
    BY <2>4, ConcatEmptySeq
  <2>7. /\ Len(<<>>) + Len(n) <= 1 /\ o + n[1].n <= MsgSize /\ n[1].n = 0
        /\ Taken(n) = 0 /\ Taken(b) = 0
    <3>1. o \in Nat /\ o < MsgSize /\ MsgSize \in Nat
      BY NetAssumption DEF Flow
    <3>2. n[1].n = 0
      BY <2>3, <2>4
    <3>3. o + n[1].n <= MsgSize
      BY ONLY <3>1, <3>2
    <3> QED
      BY <1>2, <2>2, <2>4, <3>2, <3>3 DEF Taken
  <2>8. Flow(q, m, o, <<>>, n, s)
    BY <1>2, <2>2, <2>4, <2>7 DEF Flow
  <2> QED
    BY <2>2, <2>5, <2>6, <2>8
<1> QED
  BY <1>1, <1>2, <1>3, <1>4

\* The kernel takes n units of the buffer of the outstanding write.
LEMMA FlowWritten ==
  ASSUME NEW q, NEW m, NEW o, NEW a, NEW b, NEW s, Flow(q, m, o, a, b, s),
         a # <<>>, NEW n \in 1 .. (MsgSize - Head(a).from)
  PROVE  Flow(q, m, o, Tail(a), Append(b, [ec |-> "ok", n |-> n]),
              s \o [i \in 1 .. n |-> [msg |-> Head(a).msg, pos |-> Head(a).from + i]])
<1>1. /\ a \in Seq(Writes) /\ b \in Seq(Results) /\ s \in Seq(Units)
      /\ Len(a) + Len(b) <= 1 /\ q \in Seq(Nat) /\ m \in Nat /\ o \in Nat
      /\ q # <<>> /\ a[1] = [msg |-> (m - Len(q)) + 1, from |-> o]
      /\ Len(q) <= m /\ o < MsgSize
      /\ Len(s) = (MsgSize * (m - Len(q)) + o) + Taken(b)
      /\ \A j \in 1 .. Len(s) : s[j] = Unit(j)
  BY DEF Flow
<1>2. /\ Len(a) \in Nat \ {0} /\ Len(b) \in Nat /\ Len(q) \in Nat /\ Len(s) \in Nat
      /\ MsgSize \in Nat \ {0}
  BY <1>1, EmptySeq, LenProperties, NetAssumption
<1>3. Len(a) = 1 /\ Len(b) = 0
  <2>1. PICK x \in Nat \ {0}, y \in Nat : x = Len(a) /\ y = Len(b)
    BY <1>2
  <2>2. x + y <= 1
    BY <1>1, <2>1
  <2>3. x = 1 /\ y = 0
    BY ONLY <2>2, x \in Nat \ {0}, y \in Nat
  <2> QED
    BY <2>1, <2>3
<1>4. b = <<>> /\ Head(a) = a[1]
  BY <1>1, <1>3, EmptySeq, HeadTailProperties
<1>5. Tail(a) = <<>> /\ Tail(a) \in Seq(Writes)
  <2>1. Tail(a) \in Seq(Writes) /\ Len(Tail(a)) = Len(a) - 1
    BY <1>1, HeadTailProperties
  <2>2. Len(Tail(a)) = 0
    BY <1>3, <2>1
  <2> QED
    BY <2>1, <2>2, EmptySeq
<1>6. PICK k \in Nat : k = m - Len(q)
  <2>1. PICK x \in Nat : x = Len(q)
    BY <1>2
  <2>2. m \in Nat /\ x <= m
    BY <1>1, <2>1
  <2>3. m - x \in Nat
    BY ONLY <2>2, x \in Nat
  <2> QED
    BY <2>1, <2>3
<1>7. Head(a).msg = k + 1 /\ Head(a).from = o
  BY <1>1, <1>4, <1>6
<1>8. n \in Nat \ {0} /\ o + n <= MsgSize
  <2>1. PICK x \in Nat, y \in Nat : x = MsgSize /\ y = o  BY <1>1, <1>2
  <2>2. n \in 1 .. (x - y)  BY <1>7, <2>1
  <2>3. n \in Nat \ {0} /\ y + n <= x
    BY ONLY <2>2, x \in Nat, y \in Nat
  <2> QED
    BY <2>1, <2>3
<1>9. PICK e \in Results : e = [ec |-> "ok", n |-> n]
  BY <1>8 DEF Results
<1>10. PICK r \in Seq(Results) : r = Append(b, e) /\ r # <<>> /\ Len(r) = 1 /\ r[1] = e
  BY <1>4, SingletonOf
<1>11. PICK u \in Seq(Units) :
         /\ u = [i \in 1 .. n |-> [msg |-> Head(a).msg, pos |-> Head(a).from + i]]
         /\ Len(u) = n /\ \A i \in 1 .. n : u[i] = [msg |-> k + 1, pos |-> o + i]
  <2> DEFINE u == [i \in 1 .. n |-> [msg |-> k + 1, pos |-> o + i]]
  <2>1. \A i \in 1 .. n : [msg |-> k + 1, pos |-> o + i] \in Units
    BY <1>1, <1>8 DEF Units
  <2>2. u \in Seq(Units) /\ Len(u) = n
    BY <1>8, <2>1
  <2> QED
    BY <1>7, <2>2
<1>12. PICK t \in Seq(Units) :
         /\ t = s \o u /\ Len(t) = Len(s) + Len(u)
         /\ \A i \in 1 .. Len(s) + Len(u) :
              t[i] = IF i <= Len(s) THEN s[i] ELSE u[i - Len(s)]
  <2>1. /\ s \o u \in Seq(Units) /\ Len(s \o u) = Len(s) + Len(u)
        /\ \A i \in 1 .. Len(s) + Len(u) :
             (s \o u)[i] = IF i <= Len(s) THEN s[i] ELSE u[i - Len(s)]
    <3>1. s \in Seq(Units)
      BY <1>1
    <3> QED
      BY ONLY <3>1, u \in Seq(Units), ConcatProperties
  <2> QED
    BY <2>1
<1>13. PICK l \in Nat : l = Len(s) /\ l = MsgSize * k + o
  <2>1. Taken(b) = 0
    BY <1>4 DEF Taken
  <2>2. PICK x \in Nat : x = MsgSize * k
    BY <1>2
  <2>3. Len(s) = (x + o) + 0
    BY <1>1, <1>6, <2>1, <2>2
  <2>4. Len(s) = x + o
    BY ONLY <2>3, x \in Nat, <1>1
  <2> QED
    BY <1>2, <2>2, <2>4
<1>14. Len(t) = l + n
  BY <1>11, <1>12, <1>13
<1>15. \A j \in 1 .. Len(t) : t[j] = Unit(j)
  <2> SUFFICES ASSUME NEW j \in 1 .. (l + n) PROVE t[j] = Unit(j)
    BY <1>14
  <2>1. CASE j <= l
    <3>1. j \in 1 .. l
      BY ONLY <2>1, j \in 1 .. (l + n), <1>8, l \in Nat
    <3> QED
      BY <1>1, <1>11, <1>12, <1>13, <2>1, <3>1
  <2>2. CASE j > l
    <3>1. PICK i \in 1 .. n : i = j - l
      BY ONLY <2>2, j \in 1 .. (l + n), <1>8, l \in Nat
    <3>2. t[j] = u[i]
      BY <1>11, <1>12, <1>13, <2>2, <3>1
    <3>3. PICK p \in 0 .. (MsgSize - 1) : p = (o + i) - 1 /\ o + i = p + 1
      BY ONLY <1>1, <1>2, <1>8, i \in 1 .. n
    <3>4. j = (MsgSize * k + p) + 1
      <4>1. PICK x \in Nat : x = MsgSize * k
        BY <1>2
      <4>2. j = (x + p) + 1
        <5>1. o \in Nat /\ n \in Nat /\ MsgSize \in Nat /\ l = x + o
          BY <1>1, <1>2, <1>8, <1>13, <4>1
        <5>2. i \in Nat /\ p \in Nat /\ j \in Nat
          BY ONLY <5>1, i \in 1 .. n, p \in 0 .. (MsgSize - 1), j \in 1 .. (l + n),
                  l \in Nat
        <5> QED
          BY ONLY <5>1, <5>2, <3>1, <3>3, x \in Nat
      <4> QED
        BY <4>1, <4>2
    <3>5. Unit(j) = [msg |-> k + 1, pos |-> p + 1]
      BY <3>4, UnitOf
    <3> QED
      BY <1>11, <3>2, <3>3, <3>5
  <2> QED
    BY <2>1, <2>2
<1>16. Len(t) = (MsgSize * (m - Len(q)) + o) + Taken(r)
  BY <1>6, <1>9, <1>10, <1>13, <1>14 DEF Taken
<1>17. Len(Tail(a)) + Len(r) <= 1
  BY <1>5, <1>10, EmptySeq
<1>18. Flow(q, m, o, Tail(a), r, t)
  <2>1. r # <<>> /\ r[1].ec = "ok" /\ r[1].n = n
    BY <1>9, <1>10
  <2>2. /\ q \in Seq(Nat) /\ m \in Nat /\ o \in Nat /\ q # <<>>
        /\ Len(q) <= m /\ o < MsgSize
        /\ \A i \in 1 .. Len(q) : q[i] = (m - Len(q)) + i
    BY <1>1 DEF Flow
  <2> QED
    BY <1>5, <1>8, <1>15, <1>16, <1>17, <2>1, <2>2 DEF Flow
<1> QED
  BY <1>9, <1>10, <1>11, <1>12, <1>18

\* At most one write is outstanding or completed.
LEMMA FlowOne ==
  ASSUME NEW q, NEW m, NEW o, NEW a, NEW b, NEW s, Flow(q, m, o, a, b, s)
  PROVE  /\ a # <<>> => b = <<>> /\ Tail(a) = <<>>
         /\ b # <<>> => a = <<>> /\ Tail(b) = <<>> /\ Head(b) = b[1] /\ b[1] \in Results
<1>1. a \in Seq(Writes) /\ b \in Seq(Results) /\ Len(a) + Len(b) <= 1
  BY DEF Flow
<1>2. PICK x \in Nat, y \in Nat : x = Len(a) /\ y = Len(b)
  BY <1>1, LenProperties
<1>3. x + y <= 1
  BY <1>1, <1>2
<1>4. /\ a # <<>> => x # 0
      /\ b # <<>> => y # 0
      /\ x = 0 => a = <<>>
      /\ y = 0 => b = <<>>
  BY <1>1, <1>2, EmptySeq
<1>5. /\ a # <<>> => x = 1 /\ y = 0
      /\ b # <<>> => x = 0 /\ y = 1
  BY ONLY <1>3, <1>4, x \in Nat, y \in Nat
<1>6. a # <<>> => Tail(a) = <<>>
  <2> HAVE a # <<>>
  <2>1. Tail(a) \in Seq(Writes) /\ Len(Tail(a)) = Len(a) - 1
    BY <1>1, HeadTailProperties
  <2>2. Len(Tail(a)) = 0
    BY <1>2, <1>5, <2>1
  <2> QED
    BY <2>1, <2>2, EmptySeq
<1>7. b # <<>> => Tail(b) = <<>> /\ Head(b) = b[1] /\ b[1] \in Results
  <2> HAVE b # <<>>
  <2>1. Tail(b) \in Seq(Results) /\ Len(Tail(b)) = Len(b) - 1 /\ Head(b) \in Results
    BY <1>1, HeadTailProperties
  <2>2. Len(Tail(b)) = 0
    BY <1>2, <1>5, <2>1
  <2> QED
    BY <1>1, <2>1, <2>2, EmptySeq
<1> QED
  BY <1>4, <1>5, <1>6, <1>7

\* An outstanding write fails.
LEMMA FlowFail ==
  ASSUME NEW q, NEW m, NEW o, NEW a, NEW b, NEW s, Flow(q, m, o, a, b, s), a # <<>>
  PROVE  Flow(q, m, o, Tail(a), Append(b, Failed), s)
<1>1. b = <<>> /\ Tail(a) = <<>>
  BY FlowOne
<1>2. q # <<>>
  BY DEF Flow
<1>3. Flow(q, m, o, <<>>, <<>>, s)
  <2>1. Len(<<>>) + Len(<<>>) <= 1 /\ <<>> \in Seq(Writes) /\ <<>> \in Seq(Results)
    BY EmptySeq
  <2> QED
    BY <1>1, <2>1 DEF Flow
<1> QED
  BY <1>1, <1>2, <1>3, FlowBegin

\* The handler of a failed or aborted write: nothing was taken.
LEMMA FlowDrop ==
  ASSUME NEW q, NEW m, NEW o, NEW a, NEW b, NEW s, Flow(q, m, o, a, b, s),
         b # <<>>, Head(b).ec # "ok"
  PROVE  Flow(q, m, o, a, Tail(b), s)
<1>1. a = <<>> /\ Tail(b) = <<>> /\ Head(b) = b[1]
  BY FlowOne
<1>2. Taken(b) = 0 /\ Taken(<<>>) = 0
  BY <1>1 DEF Taken, Flow
<1>3. Len(<<>>) + Len(<<>>) <= 1 /\ <<>> \in Seq(Writes) /\ <<>> \in Seq(Results)
  BY EmptySeq
<1> QED
  BY <1>1, <1>2, <1>3 DEF Flow

\* The handler of a successful write within the front packet.
LEMMA FlowMore ==
  ASSUME NEW q, NEW m, NEW o, NEW a, NEW b, NEW s, Flow(q, m, o, a, b, s),
         b # <<>>, o + Head(b).n # MsgSize
  PROVE  Flow(q, m, o + Head(b).n, <<>>, <<>>, s)
<1>1. a = <<>> /\ Tail(b) = <<>> /\ Head(b) = b[1] /\ b[1] \in Results
  BY FlowOne
<1>2. PICK n \in Nat : n = Head(b).n
  BY <1>1 DEF Results
<1>3. /\ o \in Nat /\ MsgSize \in Nat /\ o + n <= MsgSize /\ o + n # MsgSize
      /\ m \in Nat /\ Len(q) <= m /\ Len(q) \in Nat
  BY <1>1, <1>2, NetAssumption, LenProperties DEF Flow
<1>4. o + n \in Nat /\ o + n < MsgSize
  BY ONLY <1>3, n \in Nat
<1>5. Len(s) = (MsgSize * (m - Len(q)) + (o + n)) + Taken(<<>>)
  <2>1. Taken(b) = n /\ Taken(<<>>) = 0
    BY <1>1, <1>2 DEF Taken
  <2>2. Len(s) = (MsgSize * (m - Len(q)) + o) + n
    BY <2>1 DEF Flow
  <2>3. PICK x \in Nat : x = MsgSize * (m - Len(q))
    <3>1. PICK l \in Nat : l = Len(q)
      BY <1>3
    <3>2. m - l \in Nat
      BY <1>3, <3>1
    <3> QED
      BY <1>3, <3>1, <3>2
  <2>4. (x + o) + n = (x + (o + n)) + 0
    BY ONLY <1>3, x \in Nat, n \in Nat
  <2> QED
    BY <2>1, <2>2, <2>3, <2>4
<1>6. Len(<<>>) + Len(<<>>) <= 1 /\ <<>> \in Seq(Writes) /\ <<>> \in Seq(Results)
  BY EmptySeq
<1>7. Flow(q, m, o + n, <<>>, <<>>, s)
  BY <1>4, <1>5, <1>6 DEF Flow
<1> QED
  BY <1>2, <1>7

\* The handler of a write that ends the front packet.
LEMMA FlowNext ==
  ASSUME NEW q, NEW m, NEW o, NEW a, NEW b, NEW s, Flow(q, m, o, a, b, s),
         b # <<>>, o + Head(b).n = MsgSize
  PROVE  Flow(Tail(q), m, 0, <<>>, <<>>, s)
<1>1. a = <<>> /\ Tail(b) = <<>> /\ Head(b) = b[1] /\ b[1] \in Results
  BY FlowOne
<1>2. PICK n \in Nat : n = Head(b).n
  BY <1>1 DEF Results
<1>3. /\ o \in Nat /\ MsgSize \in Nat \ {0} /\ m \in Nat /\ Len(q) <= m
      /\ q \in Seq(Nat) /\ q # <<>> /\ \A i \in 1 .. Len(q) : q[i] = (m - Len(q)) + i
  BY NetAssumption DEF Flow
<1>4. PICK l \in Nat \ {0} : l = Len(q)
  BY <1>3, EmptySeq
<1>5. PICK k \in Nat : k = m - l /\ m - (l - 1) = k + 1 /\ l - 1 <= m
  BY <1>3, <1>4
<1>6. PICK r \in Seq(Nat) :
        /\ r = Tail(q) /\ Len(r) = l - 1
        /\ \A i \in 1 .. (l - 1) : r[i] = q[i + 1]
  <2>1. /\ Tail(q) \in Seq(Nat) /\ Len(Tail(q)) = Len(q) - 1
        /\ \A i \in 1 .. Len(Tail(q)) : Tail(q)[i] = q[i + 1]
    BY <1>3, HeadTailProperties
  <2> QED
    BY <1>4, <2>1
<1>7. \A i \in 1 .. Len(r) : r[i] = (m - Len(r)) + i
  <2> SUFFICES ASSUME NEW i \in 1 .. (l - 1) PROVE r[i] = (k + 1) + i
    BY <1>5, <1>6
  <2>1. i + 1 \in 1 .. l /\ k + (i + 1) = (k + 1) + i
    BY ONLY i \in 1 .. (l - 1), l \in Nat \ {0}, k \in Nat
  <2>2. q[i + 1] = k + (i + 1)
    BY <1>3, <1>4, <1>5, <2>1
  <2> QED
    BY <1>6, <2>1, <2>2
<1>8. Len(s) = (MsgSize * (m - Len(r)) + 0) + Taken(<<>>)
  <2>1. Taken(b) = n /\ Taken(<<>>) = 0
    BY <1>1, <1>2 DEF Taken
  <2>2. Len(s) = (MsgSize * k + o) + n
    BY <1>4, <1>5, <2>1 DEF Flow
  <2>3. PICK x \in Nat : x = MsgSize * k /\ MsgSize * (k + 1) = x + MsgSize
    BY <1>3
  <2>4. (x + o) + n = ((x + MsgSize) + 0) + 0
    <3>1. o + n = MsgSize
      BY <1>2
    <3>2. o \in Nat /\ MsgSize \in Nat
      BY <1>3
    <3> QED
      BY ONLY <3>1, <3>2, x \in Nat, n \in Nat
  <2> QED
    BY <1>5, <1>6, <2>1, <2>2, <2>3, <2>4
<1>9. Len(<<>>) + Len(<<>>) <= 1 /\ <<>> \in Seq(Writes) /\ <<>> \in Seq(Results)
  BY EmptySeq
<1>10. Len(r) <= m /\ 0 < MsgSize
  BY <1>3, <1>5, <1>6
<1>11. Flow(r, m, 0, <<>>, <<>>, s)
  BY <1>3, <1>7, <1>8, <1>9, <1>10 DEF Flow
<1> QED
  BY <1>6, <1>11

-----------------------------------------------------------------------------
(* The steps. *)

\* Nothing is sent at first.
LEMMA InitFlow ==
  ASSUME Init, NEW c \in Conns PROVE FlowOK(c)
<1>1. /\ out[c] = <<>> /\ nsent[c] = 0 /\ offset[c] = 0 /\ writing[c] = <<>>
      /\ written[c] = <<>> /\ stream[c] = <<>>
  BY DEF Init
<1>2. /\ <<>> \in Seq(Nat) /\ <<>> \in Seq(Writes) /\ <<>> \in Seq(Results)
      /\ <<>> \in Seq(Units) /\ Len(<<>>) = 0 /\ MsgSize \in Nat \ {0}
  BY EmptySeq, NetAssumption
<1>3. (MsgSize * (0 - 0) + 0) + Taken(<<>>) = 0
  BY <1>2 DEF Taken
<1>4. Flow(<<>>, 0, 0, <<>>, <<>>, <<>>)
  BY <1>2, <1>3 DEF Flow
<1> QED
  BY <1>1, <1>4 DEF FlowOK

\* send.
LEMMA SendFlow ==
  ASSUME NEW times \in [Conns -> Nat], send(times), NEW c \in Conns, FlowOK(c)
  PROVE  Flow(out'[c], nsent'[c], offset[c], writing[c], written[c], stream[c])
<1>1. /\ out'[c] = out[c] \o [i \in 1 .. times[c] |-> nsent[c] + i]
      /\ nsent'[c] = nsent[c] + times[c]
  BY DEF send
<1>2. Flow(out[c] \o [i \in 1 .. times[c] |-> nsent[c] + i], nsent[c] + times[c],
           offset[c], writing[c], written[c], stream[c])
  <2>1. PICK k, m : k = times[c] /\ m = nsent[c] /\ k \in Nat
    OBVIOUS
  <2>2. Flow(out[c], m, offset[c], writing[c], written[c], stream[c])
    BY <2>1 DEF FlowOK
  <2>3. Flow(out[c] \o [i \in 1 .. k |-> m + i], m + k,
             offset[c], writing[c], written[c], stream[c])
    BY <2>1, <2>2, FlowSend
  <2> QED
    BY <2>1, <2>3
<1> QED
  BY <1>1, <1>2

\* stop.
LEMMA StopFlow ==
  ASSUME NEW S, NEW r, NEW w, stop(S, r, w), NEW c \in Conns,
         NEW q, NEW m, NEW o, NEW s, Flow(q, m, o, writing[c], w[c], s)
  PROVE  Flow(q, m, o, writing'[c], written'[c], s)
<1>1. \/ writing'[c] = writing[c] /\ written'[c] = w[c]
      \/ writing'[c] = <<>> /\ written'[c] = w[c] \o [i \in DOMAIN writing[c] |-> Aborted]
  BY DEF stop
<1>2. Flow(q, m, o, <<>>, w[c] \o [i \in DOMAIN writing[c] |-> Aborted], s)
  BY FlowAbort
<1> QED
  BY <1>1, <1>2

WriteFlowEffect(c, q, m, o, s, w) ==
  /\ Flow(q, m, o, writing'[c], written'[c], s)
  /\ \A d \in Conns \ {c} : writing'[d] = writing[d] /\ written'[d] = w[d]

\* do_write, when no other write is in progress.
LEMMA WriteFlow ==
  ASSUME NEW c \in Conns, NEW q, NEW m, NEW o, NEW s, NEW w,
         Flow(q, m, o, <<>>, <<>>, s), do_write(c, q, o, w),
         writing \in [Conns -> Seq(Writes)], w \in [Conns -> Seq(Results)],
         writing[c] = <<>>, w[c] = <<>>
  PROVE  WriteFlowEffect(c, q, m, o, s, w)
<1> USE DEF WriteFlowEffect
<1>1. CASE q # <<>> /\ sock[c] = "open"
  <2>1. /\ writing' = [writing EXCEPT ![c] =
                         Append(writing[c], [msg |-> Head(q), from |-> o])]
        /\ written' = w
    BY <1>1 DEF do_write
  <2>2. /\ writing'[c] = Append(<<>>, [msg |-> Head(q), from |-> o])
        /\ written'[c] = <<>>
    BY <2>1
  <2> QED
    BY <1>1, <2>1, <2>2, FlowBegin
<1>2. CASE q # <<>> /\ sock[c] # "open"
  <2>1. written' = [w EXCEPT ![c] = Append(w[c], Failed)] /\ writing' = writing
    BY <1>2 DEF do_write
  <2>2. written'[c] = Append(<<>>, Failed) /\ writing'[c] = <<>>
    BY <2>1
  <2> QED
    BY <1>2, <2>1, <2>2, FlowBegin
<1>3. CASE q = <<>>
  BY <1>3 DEF do_write
<1> QED
  BY <1>1, <1>2, <1>3

\* A step that does not touch the connection.
LEMMA SameFlow ==
  ASSUME NEW c \in Conns, FlowOK(c),
         out'[c] = out[c], nsent'[c] = nsent[c], offset'[c] = offset[c],
         writing'[c] = writing[c], written'[c] = written[c], stream'[c] = stream[c]
  PROVE  FlowOK(c)'
BY DEF FlowOK

\* A successful read may send and then stop the connection.
LEMMA HandleReadFlow ==
  ASSUME SInv, NEW c \in Conns, NEW k \in Nat, HandleRead(c, k), NEW d \in Conns
  PROVE  FlowOK(d)'
<1>1. Once(c, k) \in [Conns -> Nat] /\ send(Once(c, k))
  BY DEF Once, HandleRead
<1>2. Flow(out'[d], nsent'[d], offset[d], writing[d], written[d], stream[d])
  BY <1>1, SendFlow DEF SInv
<1>3. offset' = offset /\ stream' = stream
  BY DEF HandleRead
<1>4. CASE UNCHANGED <<writing, written>>
  BY <1>2, <1>3, <1>4 DEF FlowOK
<1>5. CASE stop({c}, ReadDone(c), written)
  <2>1. PICK S, r, w : S = {c} /\ r = ReadDone(c) /\ w = written
    OBVIOUS
  <2>2. stop(S, r, w)
    BY <1>5, <2>1 DEF stop
  <2>3. PICK q, m, o, s : q = out'[d] /\ m = nsent'[d] /\ o = offset[d] /\ s = stream[d]
    OBVIOUS
  <2>4. Flow(q, m, o, writing[d], w[d], s)
    BY <1>2, <2>1, <2>3
  <2>5. Flow(q, m, o, writing'[d], written'[d], s)
    BY <2>2, <2>4, StopFlow
  <2> QED
    BY <1>3, <2>3, <2>5 DEF FlowOK
<1> QED
  BY <1>4, <1>5 DEF HandleRead

\* Every step that stops connections and leaves the rest of the writing alone.
LEMMA StoppedFlow ==
  ASSUME NEW S, NEW r, NEW w, stop(S, r, w), NEW c \in Conns,
         Flow(out[c], nsent[c], offset[c], writing[c], w[c], stream[c]),
         UNCHANGED <<out, nsent, offset, stream>>
  PROVE  FlowOK(c)'
<1>1. PICK q, m, o, s : q = out[c] /\ m = nsent[c] /\ o = offset[c] /\ s = stream[c]
  OBVIOUS
<1>2. Flow(q, m, o, writing'[c], written'[c], s)
  BY <1>1, StopFlow
<1> QED
  BY <1>1, <1>2 DEF FlowOK

\* The posted do_write.
LEMMA HandlePostedFlow ==
  ASSUME SInv, NEW c \in Conns, HandlePosted(c), NEW d \in Conns
  PROVE  FlowOK(d)'
<1>1. /\ posted[c] \in Nat /\ Outstanding(c) \in Nat /\ Completed(written, c) \in Nat
      /\ Writers(c) = posted[c] + Outstanding(c) + Completed(written, c)
      /\ Writers(c) <= 1 /\ posted[c] > 0
  BY Counts DEF SInv, IInv, OneWriter, HandlePosted
<1>2. Outstanding(c) = 0 /\ Completed(written, c) = 0
  BY ONLY <1>1
<1>3. /\ writing[c] = <<>> /\ written[c] = <<>>
      /\ writing \in [Conns -> Seq(Writes)] /\ written \in [Conns -> Seq(Results)]
  BY <1>2, EmptySeq DEF SInv, IInv, TypeOK, Outstanding, Completed
<1>4. PICK q, m, o, s, w : /\ q = out[c] /\ m = nsent[c] /\ o = offset[c]
                           /\ s = stream[c] /\ w = written
  OBVIOUS
<1>5. do_write(c, q, o, w)
  BY <1>4 DEF HandlePosted, do_write
<1>6. Flow(q, m, o, <<>>, <<>>, s)
  BY <1>3, <1>4 DEF SInv, FlowOK
<1>7. WriteFlowEffect(c, q, m, o, s, w)
  BY <1>3, <1>4, <1>5, <1>6, WriteFlow
<1>8. out' = out /\ nsent' = nsent /\ offset' = offset /\ stream' = stream
  BY DEF HandlePosted
<1>9. CASE d = c
  BY <1>4, <1>7, <1>8, <1>9 DEF FlowOK, WriteFlowEffect
<1>10. CASE d # c
  BY <1>4, <1>7, <1>8, <1>10, SameFlow DEF SInv, WriteFlowEffect
<1> QED
  BY <1>9, <1>10

\* A successful write.
LEMMA HandleWriteFlow ==
  ASSUME SInv, NEW c \in Conns, HandleWrite(c), NEW d \in Conns
  PROVE  FlowOK(d)'
<1>1. PICK q, m, o, b, s, w : /\ q = out[c] /\ m = nsent[c] /\ o = offset[c]
                              /\ b = written[c] /\ s = stream[c] /\ w = WriteDone(c)
  OBVIOUS
<1>2. Flow(q, m, o, writing[c], b, s) /\ b # <<>>
  BY <1>1 DEF SInv, FlowOK, HandleWrite
<1>3. writing[c] = <<>> /\ Tail(b) = <<>>
  BY <1>2, FlowOne
<1>4. /\ written[c] # <<>>
      /\ writing \in [Conns -> Seq(Writes)] /\ TypeOK
  BY DEF HandleWrite, SInv, IInv, TypeOK
<1>5. /\ w \in [Conns -> Seq(Results)] /\ w[c] = <<>>
      /\ \A e \in Conns \ {c} : w[e] = written[e]
  <2>1. /\ w \in [Conns -> Seq(Results)]
        /\ \A e \in Conns \ {c} : w[e] = written[e]
    BY <1>1, <1>4, TakeResult
  <2>2. w[c] = Tail(b)
    BY <1>1, <1>4 DEF WriteDone, TypeOK
  <2> QED
    BY <1>3, <2>1, <2>2
<1>6. nsent' = nsent /\ stream' = stream
  BY DEF HandleWrite
<1>7. CASE o + Head(b).n # MsgSize
  <2>1. PICK p : p = o + Head(b).n
    OBVIOUS
  <2>2. /\ offset' = [offset EXCEPT ![c] = p] /\ out' = out
        /\ do_write(c, out[c], p, WriteDone(c))
    BY <1>1, <1>7, <2>1 DEF HandleWrite
  <2>3. do_write(c, q, p, w)
    BY <1>1, <2>2 DEF do_write
  <2>4. Flow(q, m, p, <<>>, <<>>, s)
    BY <1>2, <1>7, <2>1, FlowMore
  <2>5. WriteFlowEffect(c, q, m, p, s, w)
    BY <1>3, <1>4, <1>5, <2>3, <2>4, WriteFlow
  <2>6. /\ offset'[c] = p /\ \A e \in Conns \ {c} : offset'[e] = offset[e]
    BY <1>4, <2>2 DEF TypeOK
  <2>7. CASE d = c
    BY <1>1, <1>6, <2>2, <2>5, <2>6, <2>7 DEF FlowOK, WriteFlowEffect
  <2>8. CASE d # c
    BY <1>5, <1>6, <2>2, <2>5, <2>6, <2>8, SameFlow DEF SInv, WriteFlowEffect
  <2> QED
    BY <2>7, <2>8
<1>8. CASE o + Head(b).n = MsgSize
  <2>1. PICK t, z : t = Tail(q) /\ z = 0
    OBVIOUS
  <2>2. /\ offset' = [offset EXCEPT ![c] = 0]
        /\ out' = [out EXCEPT ![c] = Tail(out[c])]
        /\ do_write(c, Tail(out[c]), 0, WriteDone(c))
    BY <1>1, <1>8 DEF HandleWrite
  <2>3. do_write(c, t, z, w)
    BY <1>1, <2>1, <2>2 DEF do_write
  <2>4. Flow(t, m, z, <<>>, <<>>, s)
    BY <1>2, <1>8, <2>1, FlowNext
  <2>5. WriteFlowEffect(c, t, m, z, s, w)
    BY <1>3, <1>4, <1>5, <2>3, <2>4, WriteFlow
  <2>6. /\ offset'[c] = z /\ out'[c] = t
        /\ \A e \in Conns \ {c} : offset'[e] = offset[e] /\ out'[e] = out[e]
    BY <1>1, <1>4, <2>1, <2>2 DEF TypeOK
  <2>7. CASE d = c
    BY <1>1, <1>6, <2>5, <2>6, <2>7 DEF FlowOK, WriteFlowEffect
  <2>8. CASE d # c
    BY <1>5, <1>6, <2>5, <2>6, <2>8, SameFlow DEF SInv, WriteFlowEffect
  <2> QED
    BY <2>7, <2>8
<1> QED
  BY <1>7, <1>8

\* A failed or aborted write.
LEMMA HandleWriteErrorFlow ==
  ASSUME SInv, NEW c \in Conns, HandleWriteError(c), NEW d \in Conns
  PROVE  FlowOK(d)'
<1>1. TypeOK /\ written[c] # <<>> /\ Head(written[c]).ec # "ok"
  BY DEF HandleWriteError, SInv, IInv
<1>2. PICK w : w = WriteDone(c)
  OBVIOUS
<1>3. w[c] = Tail(written[c]) /\ \A e \in Conns \ {c} : w[e] = written[e]
  BY <1>1, <1>2 DEF WriteDone, TypeOK
<1>4. Flow(out[d], nsent[d], offset[d], writing[d], w[d], stream[d])
  <2>1. Flow(out[d], nsent[d], offset[d], writing[d], written[d], stream[d])
    BY DEF SInv, FlowOK
  <2>2. CASE d = c
    BY <1>1, <1>3, <2>1, <2>2, FlowDrop
  <2>3. CASE d # c
    BY <1>3, <2>1, <2>3
  <2> QED
    BY <2>2, <2>3
<1>5. out' = out /\ nsent' = nsent /\ offset' = offset /\ stream' = stream
  BY DEF HandleWriteError
<1>6. CASE stop({c}, reader, WriteDone(c))
  <2>1. PICK S, r : S = {c} /\ r = reader
    OBVIOUS
  <2>2. stop(S, r, w)
    BY <1>2, <1>6, <2>1 DEF stop
  <2> QED
    BY <1>4, <1>5, <2>2, StoppedFlow
<1>7. CASE written' = WriteDone(c) /\ UNCHANGED writing
  BY <1>2, <1>4, <1>5, <1>7 DEF FlowOK
<1> QED
  BY <1>6, <1>7 DEF HandleWriteError

\* The kernel takes a part of a buffer, or a write fails.
LEMMA KernelFlow ==
  ASSUME SInv, NEW c \in Conns, WriteSucceeds(c) \/ WriteFails(c), NEW d \in Conns
  PROVE  FlowOK(d)'
<1>1. PICK q, m, o, a, b, s :
        /\ q = out[c] /\ m = nsent[c] /\ o = offset[c]
        /\ a = writing[c] /\ b = written[c] /\ s = stream[c]
  OBVIOUS
<1>2. Flow(q, m, o, a, b, s) /\ a # <<>> /\ TypeOK
  BY <1>1 DEF SInv, IInv, FlowOK, WriteSucceeds, WriteFails
<1>3. /\ out' = out /\ nsent' = nsent /\ offset' = offset
      /\ writing' = [writing EXCEPT ![c] = Tail(a)]
  BY <1>1 DEF WriteSucceeds, WriteFails
<1>4. /\ writing'[c] = Tail(a)
      /\ \A e \in Conns \ {c} : writing'[e] = writing[e]
  BY <1>2, <1>3 DEF TypeOK
<1>5. CASE WriteSucceeds(c)
  <2>1. PICK n \in 1 .. (MsgSize - Head(a).from) :
          /\ written' = [written EXCEPT ![c] = Append(b, [ec |-> "ok", n |-> n])]
          /\ stream' = [stream EXCEPT ![c] =
               s \o [i \in 1 .. n |-> [msg |-> Head(a).msg, pos |-> Head(a).from + i]]]
    <3>1. PICK n \in 1 .. (MsgSize - Head(writing[c]).from) :
            /\ written' = [written EXCEPT ![c] = Append(written[c], [ec |-> "ok", n |-> n])]
            /\ stream' = [stream EXCEPT ![c] =
                 stream[c] \o [i \in 1 .. n |-> [msg |-> Head(writing[c]).msg,
                                                pos |-> Head(writing[c]).from + i]]]
      BY ONLY <1>5 DEF WriteSucceeds
    <3> QED
      BY ONLY <1>1, <3>1
  <2>2. Flow(q, m, o, Tail(a), Append(b, [ec |-> "ok", n |-> n]),
             s \o [i \in 1 .. n |-> [msg |-> Head(a).msg, pos |-> Head(a).from + i]])
    BY <1>2, FlowWritten
  <2>3. written'[c] = Append(b, [ec |-> "ok", n |-> n])
        /\ \A e \in Conns \ {c} : written'[e] = written[e]
    BY <1>2, <2>1 DEF TypeOK
  <2>4. \A e \in Conns \ {c} : stream'[e] = stream[e]
    BY <2>1
  <2>5. CASE d = c
    <3>1. stream'[c] =
            s \o [i \in 1 .. n |-> [msg |-> Head(a).msg, pos |-> Head(a).from + i]]
      BY <2>1 DEF SInv
    <3> QED
      BY <1>1, <1>3, <1>4, <2>2, <2>3, <2>5, <3>1 DEF FlowOK
  <2>6. CASE d # c
    BY <1>3, <1>4, <2>3, <2>4, <2>6, SameFlow DEF SInv
  <2> QED
    BY <2>5, <2>6
<1>6. CASE WriteFails(c)
  <2>1. written' = [written EXCEPT ![c] = Append(b, Failed)] /\ stream' = stream
    BY <1>1, <1>6 DEF WriteFails
  <2>2. Flow(q, m, o, Tail(a), Append(b, Failed), s)
    BY <1>2, FlowFail
  <2>3. /\ written'[c] = Append(b, Failed)
        /\ \A e \in Conns \ {c} : written'[e] = written[e]
    BY <1>2, <2>1 DEF TypeOK
  <2>4. CASE d = c
    BY <1>1, <1>3, <1>4, <2>1, <2>2, <2>3, <2>4 DEF FlowOK
  <2>5. CASE d # c
    BY <1>3, <1>4, <2>1, <2>3, <2>5, SameFlow DEF SInv
  <2> QED
    BY <2>4, <2>5
<1> QED
  BY <1>5, <1>6

\* The steps that leave the writing alone.
LEMMA OtherFlow ==
  ASSUME SInv, UNCHANGED writeVars, NEW d \in Conns
  PROVE  FlowOK(d)'
BY SameFlow DEF SInv, writeVars

\* Every step keeps the flow of every connection.
LEMMA StepFlow ==
  ASSUME SInv, [Next]_vars, NEW d \in Conns
  PROVE  FlowOK(d)'
<1>1. ASSUME NEW S, NEW r, NEW w, stop(S, r, w), w = written,
             UNCHANGED <<out, nsent, offset, stream>>
      PROVE  FlowOK(d)'
  <2>1. Flow(out[d], nsent[d], offset[d], writing[d], w[d], stream[d])
    BY <1>1 DEF SInv, FlowOK
  <2> QED
    BY <1>1, <2>1, StoppedFlow
<1>2. CASE HandleAccept \/ AcceptCompletes
  BY <1>2, OtherFlow DEF HandleAccept, AcceptCompletes
<1>3. CASE sendAll
  <2>1. PICK times \in [Conns -> Nat] :
          times = [c \in Conns |-> IF c \in conns THEN 1 ELSE 0]
    OBVIOUS
  <2>2. send(times)
    BY <1>3, <2>1 DEF sendAll, send, MaySend
  <2>3. Flow(out'[d], nsent'[d], offset[d], writing[d], written[d], stream[d])
    BY <2>2, SendFlow DEF SInv
  <2> QED
    BY <1>3, <2>3 DEF sendAll, FlowOK
<1>4. CASE ServerStop
  <2>1. PICK S, r, w : S = conns /\ r = reader /\ w = written
    OBVIOUS
  <2>2. stop(S, r, w) /\ UNCHANGED <<out, nsent, offset, stream>>
    BY <1>4, <2>1 DEF ServerStop, stop
  <2> QED
    BY <1>1, <2>1, <2>2
<1>5. ASSUME NEW c \in Conns, Handlers(c) PROVE FlowOK(d)'
  <2>1. ASSUME NEW k \in 0 .. MaxSends, HandleRead(c, k) PROVE FlowOK(d)'
    BY <2>1, HandleReadFlow, NetAssumption DEF NetAssumption
  <2>2. ASSUME HandleReadError(c) PROVE FlowOK(d)'
    <3>1. CASE stop({c}, ReadDone(c), written)
      <4>1. PICK S, r, w : S = {c} /\ r = ReadDone(c) /\ w = written
        OBVIOUS
      <4>2. stop(S, r, w) /\ UNCHANGED <<out, nsent, offset, stream>>
        BY <2>2, <3>1, <4>1 DEF HandleReadError, stop
      <4> QED
        BY <1>1, <4>1, <4>2
    <3>2. CASE UNCHANGED <<writing, written>>
      BY <2>2, <3>2, SameFlow DEF HandleReadError, SInv
    <3> QED
      BY <2>2, <3>1, <3>2 DEF HandleReadError
  <2> QED
    BY <1>5, <2>1, <2>2, HandlePostedFlow, HandleWriteFlow, HandleWriteErrorFlow
    DEF Handlers
<1>6. ASSUME NEW c \in Conns, ClientLeaves(c) \/ ReadSucceeds(c) \/ ReadFails(c)
      PROVE  FlowOK(d)'
  BY <1>6, OtherFlow DEF ClientLeaves, ReadSucceeds, ReadFails
<1>7. ASSUME NEW c \in Conns, WriteSucceeds(c) \/ WriteFails(c)
      PROVE  FlowOK(d)'
  BY <1>7, KernelFlow
<1>8. CASE UNCHANGED vars
  BY <1>8, OtherFlow DEF vars
<1> QED
  BY <1>2, <1>3, <1>4, <1>5, <1>6, <1>7, <1>8 DEF Next

\* The stream remains a function on the connections.
LEMMA StreamIsFunction ==
  ASSUME SInv, [Next]_vars
  PROVE  stream' = [c \in Conns |-> stream'[c]]
<1>1. CASE UNCHANGED stream
  BY <1>1 DEF SInv
<1>2. CASE \E c \in Conns : WriteSucceeds(c)
  BY <1>2 DEF WriteSucceeds, SInv
<1>3. UNCHANGED stream \/ \E c \in Conns : WriteSucceeds(c)
  BY DEF Next, vars, writeVars, HandleAccept, AcceptCompletes, sendAll, ServerStop,
         Handlers, HandleRead, HandleReadError, HandlePosted, HandleWrite,
         HandleWriteError, ClientLeaves, ReadSucceeds, ReadFails, WriteFails
<1> QED
  BY <1>1, <1>2, <1>3

\* The flow is right in every reachable state.
LEMMA FlowInvariant == Spec => []SInv
<1>1. Init => SInv
  <2> SUFFICES ASSUME Init PROVE SInv
    OBVIOUS
  <2>1. IInv
    BY InitInv, NetAssumption
  <2>2. stream \in [Conns -> Seq(Units)]
    BY EmptySeq DEF Init
  <2> QED
    BY <2>1, <2>2, InitFlow DEF SInv
<1>2. SInv /\ [Next]_vars => SInv'
  <2> SUFFICES ASSUME SInv, [Next]_vars PROVE SInv'
    OBVIOUS
  <2>1. IInv'
    BY StepInv, NetAssumption DEF SInv
  <2>2. \A c \in Conns : FlowOK(c)'
    BY StepFlow
  <2>3. \A c \in Conns : stream'[c] \in Seq(Units)
    BY <2>2 DEF FlowOK, Flow
  <2>4. stream' \in [Conns -> Seq(Units)]
    BY <2>3, StreamIsFunction
  <2> QED
    BY <2>1, <2>2, <2>4 DEF SInv
<1> QED
  BY <1>1, <1>2, PTL DEF Spec

-----------------------------------------------------------------------------
(* The theorem. *)

\* What a client receives is a prefix of the messages in the order of send,
\* whole, unmixed and without repetition, however the kernel splits the writes
\* (ClientConnection::do_write), for any number of connections, messages and
\* units of a message.
THEOREM StreamAlwaysInOrder == Spec => []StreamInOrder
<1>1. SInv => StreamInOrder
  <2> SUFFICES ASSUME SInv, NEW c \in Conns, NEW j \in DOMAIN stream[c]
               PROVE  stream[c][j] = [msg |-> ((j - 1) \div MsgSize) + 1,
                                      pos |-> ((j - 1) % MsgSize) + 1]
    BY DEF StreamInOrder
  <2>1. stream[c] \in Seq(Units) /\ \A i \in 1 .. Len(stream[c]) : stream[c][i] = Unit(i)
    BY DEF SInv, FlowOK, Flow
  <2>2. DOMAIN stream[c] = 1 .. Len(stream[c])
    BY <2>1, LenProperties
  <2> QED
    BY <2>1, <2>2 DEF Unit
<1> QED
  BY <1>1, FlowInvariant, PTL
=============================================================================
