---------------------------- MODULE ClientSession ----------------------------
(***************************************************************************)
(* One client and the server: the requests, the answers and the events of  *)
(* one TCP connection (DeviceRequestHandler.cpp on the side of the server, *)
(* FpgaClientBase.py on the side of the client).                           *)
(*                                                                         *)
(* The list of devices and its events are those of DeviceRegistry, which   *)
(* the device manager implements.  The connection is a reliable FIFO in    *)
(* both directions, as the write chain of Network provides it.  The server *)
(* runs a request, or a step of the device manager, in one handler of its  *)
(* event loop.  The client mirrors the device list from the events, and    *)
(* resets its mirror from the answers to "devicelist".                     *)
(***************************************************************************)
EXTENDS DeviceRegistry, Sequences

CONSTANTS
  MaxCalls,     \* bound: calls of the client
  MaxTimeouts,  \* bound: calls that time out
  MaxChanges    \* bound: steps of the device manager that report something

ASSUME SessionAssumption ==
  /\ NumSerials \in Nat
  /\ MaxCalls \in Nat /\ MaxTimeouts \in Nat /\ MaxChanges \in Nat

VARIABLES
  requests,   \* requests on their way to the server
  stream,     \* packets on their way to the client
  changes,    \* number of steps that reported something so far
  inbox,      \* packets received, not yet taken from the unpacker
  answers,    \* _answers: each with the serials of later events
  devices,    \* _devices: the mirror of the device list
  call,       \* the call the client is in, or Idle
  calls,      \* number of calls so far
  abandoned,  \* number of calls that timed out
  last,       \* how the latest completed call ended, or Nothing
  synced,     \* a "devicelist" answer was applied to the mirror
  overtaken   \* serials whose latest event an older list has overwritten

serverVars == <<listed, emitted, requests, stream, changes>>
clientVars == <<inbox, answers, devices, call, calls, abandoned, last, synced, overtaken>>
vars == <<serverVars, clientVars>>

Commands == {"devicelist", "reprogram", "access"}
Idle == [id |-> 0, cmd |-> "none", serial |-> NoSerial]
Nothing == [id |-> 0, cmd |-> "none", answer |-> 0, raised |-> TRUE, done |-> FALSE]

-----------------------------------------------------------------------------
(* The server. *)

\* The elements of s at the positions in D.
Kept(s, D) ==
  LET kept[n \in Nat] ==
        IF n = 0 THEN <<>>
        ELSE IF n \in D THEN Append(kept[n - 1], s[n]) ELSE kept[n - 1]
  IN  kept[Len(s)]

\* The event packets of a batch, in the order of m_serial_map.
EventPackets(batch) ==
  Kept([s \in Serials |-> [kind |-> batch[s], serial |-> s]],
       {s \in Serials : batch[s] # "none"})

\* A step of the device manager; what it reports goes to every client.
ManagerStep ==
  /\ \/ Silent /\ UNCHANGED changes
     \/ /\ changes < MaxChanges /\ changes' = changes + 1
        /\ \/ \E s \in Serials : AddDevice(s)
           \/ \E gone, changed \in SUBSET listed :
                gone \cup changed # {} /\ Update(gone, changed)
  /\ stream' = stream \o EventPackets(emitted')
  /\ UNCHANGED <<requests, clientVars>>

Reply(r, ok, done, list) ==
  [kind |-> "answer", id |-> r.id, cmd |-> r.cmd,
   ok |-> ok, done |-> done, list |-> list]

\* Seeded fault: a register command packs the OK code before it runs.
accessPackedFirst(r) ==
  IF r.serial \notin listed
    THEN {Reply(r, FALSE, FALSE, {})}
    ELSE {Reply(r, TRUE, TRUE, {}), Reply(r, TRUE, FALSE, {})}

\* The register commands pack their reply after the access.
access(r) ==
  IF r.serial \notin listed
    THEN {Reply(r, FALSE, FALSE, {})}
    ELSE {Reply(r, TRUE, TRUE, {}), Reply(r, FALSE, FALSE, {})}

\* The reply to reprogram is packed up to its value before the device is
\* programmed: if that throws, the error follows inside of an OK.
reprogram(r) ==
  IF r.serial \notin listed
    THEN {Reply(r, FALSE, FALSE, {})}
    ELSE {Reply(r, TRUE, TRUE, {}), Reply(r, TRUE, FALSE, {})}

devicelist(r) == {Reply(r, TRUE, TRUE, listed)}

Replies(r) ==
  CASE r.cmd = "devicelist" -> devicelist(r)
    [] r.cmd = "reprogram" -> reprogram(r)
    [] r.cmd = "access" -> access(r)

\* handleRequest: a register access that succeeds may report the new value
\* of a watched register first.
handleRequest ==
  LET r == Head(requests) IN
  /\ requests # <<>>
  /\ requests' = Tail(requests)
  /\ \E reply \in Replies(r) :
       \E changed \in SUBSET (IF r.cmd = "access" /\ reply.done THEN {r.serial} ELSE {}) :
         /\ Update({}, changed)
         /\ stream' = Append(stream \o EventPackets(emitted'), reply)
  /\ UNCHANGED <<changes, clientVars>>

-----------------------------------------------------------------------------
(* The client. *)

\* __send_object, at the start of every call; "devicelist" names no device.
Call(cmd, s) ==
  /\ (cmd = "devicelist") = (s = NoSerial)
  /\ call = Idle /\ inbox = <<>>
  /\ calls < MaxCalls /\ calls' = calls + 1
  /\ call' = [id |-> calls + 1, cmd |-> cmd, serial |-> s]
  /\ requests' = Append(requests, call')
  /\ UNCHANGED <<listed, emitted, stream, changes>>
  /\ UNCHANGED <<inbox, answers, devices, abandoned, last, synced, overtaken>>

\* A chunk of packets arrives, in a call that has no answer yet or between
\* calls (wait_for_events, readyRead).
Receive ==
  /\ inbox = <<>> /\ stream # <<>>
  /\ call # Idle => answers = <<>>
  /\ \E n \in 1 .. Len(stream) :
       /\ inbox' = SubSeq(stream, 1, n)
       /\ stream' = SubSeq(stream, n + 1, Len(stream))
  /\ UNCHANGED <<listed, emitted, requests, changes>>
  /\ UNCHANGED <<answers, devices, call, calls, abandoned, last, synced, overtaken>>

\* __handle_added and __handle_removed: later is told which lists are older.
Noting(s) ==
  /\ answers' = [i \in DOMAIN answers |->
       [answers[i] EXCEPT !.later = @ \cup {s}]]
  /\ overtaken' = overtaken \ {s}

\* Seeded fault: a removal is not handled.
handle_eventWithoutRemoval(p) ==
  /\ devices' = IF p.kind = "added" THEN devices \cup {p.serial} ELSE devices
  /\ IF p.kind = "changed" THEN UNCHANGED <<answers, overtaken>> ELSE Noting(p.serial)

\* Seeded fault: an arrival is not handled.
handle_eventWithoutArrival(p) ==
  /\ devices' = IF p.kind = "removed" THEN devices \ {p.serial} ELSE devices
  /\ IF p.kind = "changed" THEN UNCHANGED <<answers, overtaken>> ELSE Noting(p.serial)

\* Added and removed packets change the mirror, changed ones call the device.
handle_event(p) ==
  /\ devices' = CASE p.kind = "added" -> devices \cup {p.serial}
                  [] p.kind = "removed" -> devices \ {p.serial}
                  [] p.kind = "changed" -> devices
  /\ IF p.kind = "changed" THEN UNCHANGED <<answers, overtaken>> ELSE Noting(p.serial)

\* The loop of _parse_data, one packet at a time.
ParsePacket ==
  LET p == Head(inbox) IN
  /\ inbox # <<>>
  /\ inbox' = Tail(inbox)
  /\ IF p.kind = "answer"
       THEN /\ answers' = Append(answers, [answer |-> p, later |-> {}])
            /\ UNCHANGED <<devices, overtaken>>
       ELSE handle_event(p)
  /\ UNCHANGED <<serverVars, call, calls, abandoned, last, synced>>

\* The end of a call: the oldest answer is taken for its answer.  A list
\* replaces the mirror; what is no list makes get_device_list raise.
FinishWith(q, rest) ==
  LET a == q.answer
      raised == ~a.ok \/ (call.cmd = "devicelist" /\ a.cmd # "devicelist")
      refresh == call.cmd = "devicelist" /\ ~raised
  IN
  /\ call # Idle /\ inbox = <<>>
  /\ answers' = rest
  /\ call' = Idle
  /\ last' = [id |-> call.id, cmd |-> call.cmd, answer |-> a.id,
              raised |-> raised, done |-> a.done]
  /\ devices' = IF refresh THEN a.list ELSE devices
  /\ synced' = (synced \/ refresh)
  /\ overtaken' = IF refresh THEN q.later ELSE overtaken
  /\ UNCHANGED <<serverVars, inbox, calls, abandoned>>

\* Seeded fault: the newest answer is taken.
ReturnNewest ==
  /\ answers # <<>>
  /\ FinishWith(answers[Len(answers)], SubSeq(answers, 1, Len(answers) - 1))

\* _wait_for_answer returns, and the call with it.
Return == answers # <<>> /\ FinishWith(Head(answers), Tail(answers))

\* _require_data gives up; the answer is still to come.
Timeout ==
  /\ call # Idle /\ inbox = <<>> /\ answers = <<>>
  /\ abandoned < MaxTimeouts /\ abandoned' = abandoned + 1
  /\ call' = Idle
  /\ UNCHANGED <<serverVars, inbox, answers, devices, calls, last, synced, overtaken>>

-----------------------------------------------------------------------------
\* The server has accepted the connection, with any devices listed by then.
Init ==
  /\ listed \in SUBSET Serials /\ emitted = NoEvents
  /\ requests = <<>> /\ stream = <<>> /\ changes = 0
  /\ inbox = <<>> /\ answers = <<>> /\ devices = {}
  /\ call = Idle /\ calls = 0 /\ abandoned = 0 /\ last = Nothing
  /\ synced = FALSE /\ overtaken = {}

Next ==
  \/ ManagerStep \/ handleRequest
  \/ \E cmd \in Commands, s \in Serials \cup {NoSerial} : Call(cmd, s)
  \/ Receive \/ ParsePacket \/ Return \/ Timeout

Spec == Init /\ [][Next]_vars

-----------------------------------------------------------------------------
(* Properties. *)

\* The answers of a sequence of packets.
AnswersIn(packets) == Kept(packets, {i \in DOMAIN packets : packets[i].kind = "answer"})

\* The requests and answers under way, the next answer to be taken first.
UnderWay ==
  [i \in DOMAIN answers |-> answers[i].answer.id]
    \o [i \in DOMAIN AnswersIn(inbox) |-> AnswersIn(inbox)[i].id]
    \o [i \in DOMAIN AnswersIn(stream) |-> AnswersIn(stream)[i].id]
    \o [i \in DOMAIN requests |-> requests[i].id]

Finished == calls - abandoned - (IF call = Idle THEN 0 ELSE 1)

\* No answer is lost, repeated or reordered, so a call takes the answer of
\* the request as many calls back as calls have timed out: its own without
\* time-outs, and never its own again after one (_wait_for_answer).
AnswersInOrder ==
  /\ UnderWay = [i \in 1 .. (calls - Finished) |-> Finished + i]
  /\ last # Nothing => last.id >= last.answer /\ last.id - last.answer <= abandoned

\* Without time-outs a call that does not raise returns the answer of its own
\* request, and its command was carried out; the exception is reprogram,
\* whose error arrives as a value (handleRequest, _wait_for_answer).
FailureIsRaised ==
  (abandoned = 0 /\ ~last.raised) =>
    /\ last.answer = last.id
    /\ last.done \/ last.cmd = "reprogram"

\* The packets that tell whether s is listed.
News(packets, s) ==
  {i \in DOMAIN packets : packets[i].kind \in {"added", "removed"} /\ packets[i].serial = s}

\* Whether s will be in the mirror once every event under way is handled.
WillMirror(s) ==
  LET packets == inbox \o stream
      news == News(packets, s)
      latest == CHOOSE i \in news : \A j \in news : j <= i
  IN  IF news = {} THEN s \in devices ELSE packets[latest].kind = "added"

\* Once a list was applied, the mirror follows the device list of the server,
\* for every serial but those whose latest event came with the list in one
\* chunk and was undone by it (_parse_data, __handle_device_list_changes).
MirrorFollows ==
  synced => \A s \in Serials \ overtaken : WillMirror(s) = (s \in listed)

\* A register change is handed to the device object of the mirror, never to
\* an unknown device, unless an older list took that device away.
ChangesReachDevices ==
  (synced /\ inbox # <<>> /\ Head(inbox).kind = "changed"
     /\ Head(inbox).serial \notin overtaken)
    => Head(inbox).serial \in devices

\* "refresh device list and get internal device list in sync": with nothing
\* under way and a list applied, mirror and device list agree
\* (get_device_list).
InSync ==
  (synced /\ call = Idle /\ stream = <<>> /\ inbox = <<>>) => devices = listed
=============================================================================
