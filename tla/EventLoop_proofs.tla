--------------------------- MODULE EventLoop_proofs ---------------------------
(***************************************************************************)
(* Proofs about EventLoop, for any descriptors and bounds.  Each action is *)
(* reduced to what it does to the watchers (WatchStep), and to the timer   *)
(* and the signal (TimerStep); the invariants follow from these two.       *)
(***************************************************************************)
EXTENDS EventLoop, FiniteSetTheorems, TLAPS

\* Hotplug events are queued or dispatched at most once.
Counted == pending + posted <= hotplugs

IInv == TypeOK /\ Counted /\ WatchedIsPolled /\ LatePollRunsForever

USE LoopAssumption DEF Fds

\* The handlers that stopped watchers leave behind can be counted
\* (libusb_service_fd_watcher::stop).
LEMMA OrphanedType ==
  ASSUME orphans \in [ready : Nat, aborted : Nat], NEW S \in SUBSET Fds
  PROVE  Orphaned(S) \in [ready : Nat, aborted : Nat]
<1> DEFINE R == {f \in S : watch[f] = "ready"}
           A == {f \in S : watch[f] = "waiting"}
<1>1. IsFiniteSet(R) /\ IsFiniteSet(A)
  <2>1. R \subseteq Fds /\ A \subseteq Fds  OBVIOUS
  <2>. QED  BY <2>1, FS_Subset
<1>2. Cardinality(R) \in Nat /\ Cardinality(A) \in Nat
  BY <1>1, FS_CardinalityType
<1>. QED  BY <1>2 DEF Orphaned

\* What any step may do to the watchers: S lose theirs, T get one, and the
\* operation of others may change.
WatchStep(S, T) ==
  /\ pollfds' = (pollfds \ S) \cup T
  /\ watch' \in [Fds -> {"none", "waiting", "ready"}]
  /\ \A f \in Fds : watch'[f] # "none" <=>
       f \in T \/ (f \notin S /\ watch[f] # "none")
  /\ lateWatch' = (lateWatch \/ (T # {} /\ signal = "handled"))

\* Stopping and starting watchers is such a step (startWatcher, stopWatcher).
LEMMA RewatchStep ==
  ASSUME TypeOK, NEW S \in SUBSET Fds, NEW T \in SUBSET Fds, Rewatch(S, T)
  PROVE  /\ WatchStep(S, T)
         /\ orphans' \in [ready : Nat, aborted : Nat]
<1>1. orphans' \in [ready : Nat, aborted : Nat]
  BY OrphanedType DEF TypeOK, Rewatch
<1>2. watch' \in [Fds -> {"none", "waiting", "ready"}]
  BY DEF TypeOK, Rewatch
<1>3. \A f \in Fds : watch'[f] # "none" <=> f \in T \/ (f \notin S /\ watch[f] # "none")
  BY DEF TypeOK, Rewatch
<1>. QED  BY <1>1, <1>2, <1>3 DEF WatchStep, Rewatch

\* A step that leaves the descriptors alone is one as well.
LEMMA NoWatchStep ==
  ASSUME TypeOK, UNCHANGED watchVars
  PROVE  /\ WatchStep({}, {})
         /\ orphans' \in [ready : Nat, aborted : Nat]
BY DEF TypeOK, WatchStep, watchVars

\* Such a step keeps the watchers and libusb's list together.
LEMMA WatchStepKeeps ==
  ASSUME TypeOK, WatchedIsPolled, signal' = "handled" <=> signal = "handled",
         NEW S \in SUBSET Fds, NEW T \in SUBSET Fds, WatchStep(S, T)
  PROVE  /\ WatchedIsPolled'
         /\ pollfds' \in SUBSET Fds
         /\ watch' \in [Fds -> {"none", "waiting", "ready"}]
         /\ lateWatch' \in BOOLEAN
<1> DEFINE W == {f \in Fds : watch[f] # "none"}
<1>1. {f \in Fds : watch'[f] # "none"} = (W \ S) \cup T
  BY DEF WatchStep
<1>2. pollfds' \in SUBSET Fds
  BY DEF WatchStep, TypeOK
<1>3. CASE signal = "handled"
  <2>1. (W \ S) \cup T \subseteq pollfds'
    BY <1>3 DEF WatchedIsPolled, WatchStep
  <2>2. (W \ S) \cup T # {} => lateWatch'
    BY <1>3 DEF WatchedIsPolled, WatchStep
  <2>. QED  BY <1>1, <1>2, <1>3, <2>1, <2>2 DEF WatchedIsPolled, WatchStep, TypeOK
<1>4. CASE signal # "handled"
  <2>1. (W \ S) \cup T = pollfds'
    BY <1>4 DEF WatchedIsPolled, WatchStep
  <2>2. lateWatch' \in BOOLEAN
    BY DEF WatchStep, TypeOK
  <2>. QED  BY <1>1, <1>2, <1>4, <2>1, <2>2 DEF WatchedIsPolled, WatchStep
<1>. QED  BY <1>3, <1>4

-----------------------------------------------------------------------------
(* What a step does to the rest. *)

RestOK ==
  /\ hotplugs \in 0 .. MaxHotplugs /\ pending \in 0 .. MaxHotplugs
  /\ posted \in 0 .. MaxHotplugs
  /\ timer \in {"armed", "expired", "aborted", "none"}
  /\ network \in {"serving", "closing", "done"}
  /\ signal \in {"waiting", "caught", "handled"}
  /\ latePoll \in BOOLEAN /\ returned \in BOOLEAN
  /\ Counted /\ LatePollRunsForever

\* Dispatching what is pending keeps the counters.
LEMMA DispatchKeeps ==
  ASSUME RestOK, NEW n \in Nat, n <= pending, Dispatch(n), UNCHANGED <<timer, endVars>>
  PROVE  RestOK'
BY DEF RestOK, Dispatch, Counted, LatePollRunsForever, endVars

\* Every step that is not the signal's keeps the rest, and changes the watchers
\* as described above.
LEMMA StepsKeep ==
  ASSUME IInv, Next, ~HandleSignal
  PROVE  /\ RestOK'
         /\ signal' = "handled" <=> signal = "handled"
         /\ orphans' \in [ready : Nat, aborted : Nat]
         /\ \E S, T \in SUBSET Fds : WatchStep(S, T)
<1> DEFINE Good == /\ RestOK'
                   /\ signal' = "handled" <=> signal = "handled"
                   /\ orphans' \in [ready : Nat, aborted : Nat]
                   /\ \E S, T \in SUBSET Fds : WatchStep(S, T)
<1>r. TypeOK /\ RestOK  BY DEF IInv, TypeOK, RestOK
<1>p. pending \in Nat /\ pending <= pending  BY <1>r DEF RestOK
<1>d. \A S \in Disconnected : S \in SUBSET Fds  BY DEF Disconnected
<1>1. ASSUME NEW f \in Fds, HandleWatcher(f) PROVE Good
  <2>1. RestOK'  BY <1>1, <1>r, <1>p, DispatchKeeps DEF HandleWatcher
  <2>2. PICK S \in Disconnected :
          /\ pollfds' = pollfds \ S
          /\ watch' = [g \in Fds |-> IF g \in S THEN "none"
                                     ELSE IF g = f THEN "waiting" ELSE watch[g]]
          /\ orphans' = Orphaned(S \ {f})
    BY <1>1 DEF HandleWatcher
  <2>3. S \in SUBSET Fds /\ S \ {f} \in SUBSET Fds  BY <1>d
  <2>4. orphans' \in [ready : Nat, aborted : Nat]
    BY <1>r, <2>2, <2>3, OrphanedType DEF TypeOK
  <2>5. watch[f] = "ready" /\ lateWatch' = lateWatch
    BY <1>1 DEF HandleWatcher
  <2>6. watch' \in [Fds -> {"none", "waiting", "ready"}]
    BY <1>r, <2>2 DEF TypeOK
  <2>7. \A g \in Fds : watch'[g] # "none" <=> g \in {} \/ (g \notin S /\ watch[g] # "none")
    BY <2>2, <2>5
  <2>8. WatchStep(S, {})
    BY <1>r, <2>2, <2>5, <2>6, <2>7 DEF WatchStep, TypeOK
  <2>9. signal' = signal  BY <1>1 DEF HandleWatcher, endVars
  <2>. QED  BY <2>1, <2>3, <2>4, <2>8, <2>9
<1>2. ASSUME NEW f \in Fds, FdReady(f) PROVE Good
  <2>1. RestOK'  BY <1>2, <1>r DEF FdReady, RestOK, Counted, LatePollRunsForever, hotplugVars, endVars
  <2>2. watch' \in [Fds -> {"none", "waiting", "ready"}]
    BY <1>2, <1>r DEF FdReady, TypeOK
  <2>3. \A g \in Fds : watch'[g] # "none" <=> watch[g] # "none"
    BY <1>2, <1>r DEF FdReady, TypeOK
  <2>4. WatchStep({}, {})
    BY <1>2, <1>r, <2>2, <2>3 DEF FdReady, WatchStep, TypeOK
  <2>. QED  BY <1>2, <1>r, <2>1, <2>4 DEF FdReady, TypeOK, endVars
<1>3. CASE HandleOrphan
  <2>1. signal' = signal /\ lateWatch' = lateWatch /\ UNCHANGED <<timer, endVars>>
    BY <1>3 DEF HandleOrphan, endVars
  <2>2. CASE orphans.ready > 0 /\ Dispatch(pending)
             /\ \E S \in Disconnected :
                  /\ pollfds' = pollfds \ S
                  /\ watch' = [g \in Fds |-> IF g \in S THEN "none" ELSE watch[g]]
                  /\ orphans' = [Orphaned(S) EXCEPT !.ready = @ - 1]
    <3>1. RestOK'  BY <1>r, <1>p, <2>1, <2>2, DispatchKeeps
    <3>2. PICK S \in Disconnected :
            /\ pollfds' = pollfds \ S
            /\ watch' = [g \in Fds |-> IF g \in S THEN "none" ELSE watch[g]]
            /\ orphans' = [Orphaned(S) EXCEPT !.ready = @ - 1]
      BY <2>2
    <3>3. S \in SUBSET Fds  BY <1>d
    <3>4. Orphaned(S) \in [ready : Nat, aborted : Nat]
      BY <1>r, <3>3, OrphanedType DEF TypeOK
    <3>5. Orphaned(S).ready > 0
      <4>1. IsFiniteSet({f \in S : watch[f] = "ready"})
        <5>1. {f \in S : watch[f] = "ready"} \subseteq Fds  BY <3>3
        <5>. QED  BY <5>1, FS_Subset
      <4>2. Cardinality({f \in S : watch[f] = "ready"}) \in Nat
        BY <4>1, FS_CardinalityType
      <4>3. orphans.ready \in Nat /\ orphans.ready > 0  BY <1>r, <2>2 DEF TypeOK
      <4>. QED  BY <4>2, <4>3 DEF Orphaned
    <3>6. orphans' \in [ready : Nat, aborted : Nat]  BY <3>2, <3>4, <3>5
    <3>7. watch' \in [Fds -> {"none", "waiting", "ready"}]  BY <1>r, <3>2 DEF TypeOK
    <3>8. \A g \in Fds : watch'[g] # "none" <=> g \notin S /\ watch[g] # "none"  BY <3>2
    <3>9. WatchStep(S, {})  BY <1>r, <2>1, <3>2, <3>7, <3>8 DEF WatchStep, TypeOK
    <3>. QED  BY <2>1, <3>1, <3>3, <3>6, <3>9
  <2>3. CASE orphans.aborted > 0 /\ orphans' = [orphans EXCEPT !.aborted = @ - 1]
             /\ UNCHANGED <<pollfds, watch, hotplugVars>>
    <3>1. RestOK'
      BY <1>r, <2>1, <2>3 DEF RestOK, Counted, LatePollRunsForever, hotplugVars, endVars
    <3>2. orphans' \in [ready : Nat, aborted : Nat]  BY <1>r, <2>3 DEF TypeOK
    <3>3. WatchStep({}, {})  BY <1>r, <2>1, <2>3 DEF WatchStep, TypeOK
    <3>. QED  BY <2>1, <3>1, <3>2, <3>3
  <2>. QED  BY <1>3, <2>2, <2>3 DEF HandleOrphan
<1>4. CASE HandlePosted
  <2>1. PICK n \in 0 .. pending : pending' = pending - n /\ posted' = posted - 1 + n
    BY <1>4 DEF HandlePosted
  <2>2. posted > 0 /\ UNCHANGED <<hotplugs, timer, endVars>>
    BY <1>4 DEF HandlePosted
  <2>3. RestOK'
    BY <1>r, <2>1, <2>2 DEF RestOK, Counted, LatePollRunsForever, endVars
  <2>4. \E S, T \in SUBSET Fds : Rewatch(S, T)
    BY <1>4 DEF HandlePosted
  <2>. QED  BY <1>r, <2>2, <2>3, <2>4, RewatchStep DEF endVars
<1>5. CASE HandleTimer
  <2>1. UNCHANGED endVars  BY <1>5 DEF HandleTimer
  <2>2. CASE /\ ~returned /\ timer = "expired" /\ timer' = "armed"
             /\ \E n \in 0 .. pending : Dispatch(n)
             /\ \E S \in Disconnected : Rewatch(S, {})
    <3>1. PICK n \in 0 .. pending : Dispatch(n)  BY <2>2
    <3>2. RestOK'
      BY <1>r, <2>1, <2>2, <3>1 DEF RestOK, Counted, LatePollRunsForever, Dispatch, endVars
    <3>3. \E S, T \in SUBSET Fds : Rewatch(S, T)  BY <1>d, <2>2
    <3>. QED  BY <1>r, <2>1, <3>2, <3>3, RewatchStep DEF endVars
  <2>3. CASE timer = "aborted" /\ timer' = "none" /\ UNCHANGED <<watchVars, hotplugVars>>
    <3>1. RestOK'
      BY <1>r, <2>1, <2>3 DEF RestOK, Counted, LatePollRunsForever, hotplugVars, endVars
    <3>. QED  BY <1>r, <2>1, <2>3, <3>1, NoWatchStep DEF endVars
  <2>. QED  BY <1>5, <2>2, <2>3 DEF HandleTimer
<1>6. CASE HandleRequest
  <2>1. UNCHANGED <<timer, endVars>>  BY <1>6 DEF HandleRequest
  <2>2. PICK n \in 0 .. pending : Dispatch(n)  BY <1>6 DEF HandleRequest
  <2>3. n \in Nat /\ n <= pending  BY <1>p, <2>2
  <2>4. RestOK'  BY <1>r, <2>1, <2>2, <2>3, DispatchKeeps
  <2>5. \E S, T \in SUBSET Fds : Rewatch(S, T)
    BY <1>6 DEF HandleRequest
  <2>. QED  BY <1>r, <2>1, <2>4, <2>5, RewatchStep DEF endVars
<1>7. CASE NetworkEnds
  <2>1. RestOK'
    BY <1>7, <1>r DEF NetworkEnds, RestOK, Counted, LatePollRunsForever, hotplugVars
  <2>. QED  BY <1>7, <1>r, <2>1, NoWatchStep DEF NetworkEnds
<1>8. CASE Hotplug
  <2>1. RestOK'
    BY <1>8, <1>r DEF Hotplug, RestOK, Counted, LatePollRunsForever, endVars
  <2>. QED  BY <1>8, <1>r, <2>1, NoWatchStep DEF Hotplug, endVars
<1>9. CASE TimerExpires
  <2>1. RestOK'
    BY <1>9, <1>r DEF TimerExpires, RestOK, Counted, LatePollRunsForever, hotplugVars, endVars
  <2>. QED  BY <1>9, <1>r, <2>1, NoWatchStep DEF TimerExpires, endVars
<1>10. CASE Interrupt
  <2>1. RestOK'
    BY <1>10, <1>r DEF Interrupt, RestOK, Counted, LatePollRunsForever, hotplugVars
  <2>. QED  BY <1>10, <1>r, <2>1, NoWatchStep DEF Interrupt
<1>11. CASE Return
  <2>1. RestOK'
    BY <1>11, <1>r DEF Return, Work, RestOK, Counted, LatePollRunsForever, hotplugVars
  <2>. QED  BY <1>11, <1>r, <2>1, NoWatchStep DEF Return
<1>. QED  BY <1>1, <1>2, <1>3, <1>4, <1>5, <1>6, <1>7, <1>8, <1>9, <1>10, <1>11 DEF Next

\* The handler of the signal keeps the invariant: it stops all watchers, and
\* only a timer that has expired survives it.
LEMMA SignalKeeps ==
  ASSUME IInv, HandleSignal
  PROVE  IInv'
<1>1. orphans' \in [ready : Nat, aborted : Nat]
  BY OrphanedType DEF IInv, TypeOK, HandleSignal
<1>2. watch' = [f \in Fds |-> "none"] /\ UNCHANGED <<pollfds, lateWatch, hotplugVars, returned>>
  BY DEF HandleSignal
<1>3. signal' = "handled" /\ network' = "closing" /\ latePoll' = (timer = "expired")
      /\ timer' = (IF timer = "armed" THEN "aborted" ELSE timer) /\ ~returned
  BY DEF HandleSignal
<1>4. TypeOK'
  BY <1>1, <1>2, <1>3 DEF IInv, TypeOK, hotplugVars
<1>5. Counted' /\ LatePollRunsForever'
  BY <1>2, <1>3 DEF IInv, Counted, LatePollRunsForever, hotplugVars
<1>6. {f \in Fds : watch'[f] # "none"} = {}
  BY <1>2
<1>7. WatchedIsPolled'
  BY <1>3, <1>6 DEF WatchedIsPolled
<1>. QED  BY <1>4, <1>5, <1>7 DEF IInv

LEMMA InitInv == Init => IInv
<1> SUFFICES ASSUME Init PROVE IInv  OBVIOUS
<1>1. TypeOK /\ Counted /\ LatePollRunsForever
  <2>1. watch \in [Fds -> {"none", "waiting", "ready"}]  BY DEF Init
  <2>2. orphans \in [ready : Nat, aborted : Nat]  BY DEF Init
  <2>3. MaxHotplugs \in Nat /\ 0 \in 0 .. MaxHotplugs  OBVIOUS
  <2>4. pollfds \in SUBSET Fds  BY DEF Init
  <2>5. TypeOK  BY <2>1, <2>2, <2>3, <2>4 DEF Init, TypeOK
  <2>. QED  BY <2>5 DEF Init, Counted, LatePollRunsForever
<1>2. {f \in Fds : watch[f] # "none"} = EventFds
  BY DEF Init
<1>3. WatchedIsPolled
  BY <1>2 DEF Init, WatchedIsPolled
<1>. QED  BY <1>1, <1>3 DEF IInv

LEMMA NextInv == IInv /\ [Next]_vars => IInv'
<1> SUFFICES ASSUME IInv, [Next]_vars PROVE IInv'  OBVIOUS
<1>1. CASE Next /\ ~HandleSignal
  <2>1. /\ RestOK'
        /\ signal' = "handled" <=> signal = "handled"
        /\ orphans' \in [ready : Nat, aborted : Nat]
        /\ \E S, T \in SUBSET Fds : WatchStep(S, T)
    BY <1>1, StepsKeep
  <2>2. PICK S, T \in SUBSET Fds : WatchStep(S, T)  BY <2>1
  <2>3. /\ WatchedIsPolled'
        /\ pollfds' \in SUBSET Fds
        /\ watch' \in [Fds -> {"none", "waiting", "ready"}]
        /\ lateWatch' \in BOOLEAN
    BY <2>1, <2>2, WatchStepKeeps DEF IInv
  <2>. QED  BY <2>1, <2>3 DEF IInv, RestOK, TypeOK
<1>2. CASE HandleSignal
  BY <1>2, SignalKeeps
<1>3. CASE UNCHANGED vars
  BY <1>3 DEF IInv, TypeOK, Counted, WatchedIsPolled, LatePollRunsForever,
              vars, watchVars, hotplugVars, endVars
<1>. QED  BY <1>1, <1>2, <1>3

LEMMA Inductive == Spec => []IInv
BY InitInv, NextInv, PTL DEF Spec

-----------------------------------------------------------------------------
\* The loop's state has its types, for any descriptors: counters of hotplug
\* events and queued handlers stay within the boards that came and went.
THEOREM LoopTypeCorrect == Spec => []TypeOK
BY Inductive, PTL DEF IInv

\* At any time exactly the descriptors that libusb polls are watched, and after
\* the shutdown only some opened since (startWatcher, stopWatcher, do_read).
THEOREM WatchedAlwaysPolled == Spec => []WatchedIsPolled
BY Inductive, PTL DEF IInv

\* A poll that had expired when the signal was handled keeps run from returning
\* for ever (DeviceManager::stop, _periodicRegisterUpdates).
THEOREM LatePollAlwaysRuns == Spec => []LatePollRunsForever
BY Inductive, PTL DEF IInv
=============================================================================
