------------------------------ MODULE EventLoop ------------------------------
(***************************************************************************)
(* What keeps io_service::run of the server going, and how it ends: the    *)
(* watchers of libusb's descriptors (src/libusb_asio/libusb_service.cpp),  *)
(* the poll timer and the device handlers of DeviceManager, the network,   *)
(* and the signal handler of main (src/fpga-device-server.cpp).            *)
(*                                                                         *)
(* run returns when no operation is outstanding and no handler is queued.  *)
(* After a signal each part gives up its operations; handlers queued by    *)
(* then still run, and may start new ones.  Queued handlers run in any     *)
(* order.                                                                  *)
(***************************************************************************)
EXTENDS Naturals, FiniteSets

CONSTANTS
  EventFds,    \* descriptors of libusb itself, open all the time
  DeviceFds,   \* descriptors of open devices; a number is used again
  MaxHotplugs, \* bound: boards that come or go
  MaxOrphans   \* bound: queued handlers of stopped watchers at a request

ASSUME LoopAssumption ==
  /\ EventFds \cap DeviceFds = {}
  /\ IsFiniteSet(EventFds \cup DeviceFds)
  /\ MaxHotplugs \in Nat /\ MaxOrphans \in Nat

Fds == EventFds \cup DeviceFds

VARIABLES
  pollfds,    \* the descriptors libusb wants to be watched
  watch,      \* m_fd_watchers: Fds -> "none", or the operation of the watcher,
              \* "waiting", or "ready" with its handler queued
  orphans,    \* queued handlers of stopped watchers, per outcome
  hotplugs,   \* number of hotplug events so far
  pending,    \* hotplug events libusb has not dispatched yet
  posted,     \* posted device handlers
  timer,      \* m_timer: "armed", its handler queued as "expired" or
              \* "aborted", or "none"
  network,    \* the server: "serving", "closing" or "done"
  signal,     \* the signal_set: "waiting", "caught", "handled"
  latePoll,   \* the timer had expired already when the signal was handled
  lateWatch,  \* a watcher was started after the signal was handled
  returned    \* io_service::run has returned

watchVars == <<pollfds, watch, orphans, lateWatch>>
hotplugVars == <<hotplugs, pending, posted>>
endVars == <<network, signal, latePoll, returned>>
vars == <<watchVars, hotplugVars, timer, endVars>>

-----------------------------------------------------------------------------
(* Watchers.  Stopping one cancels its operation and releases the          *)
(* descriptor; an operation that has completed cannot be cancelled, and    *)
(* its handler runs without a descriptor.                                  *)

\* The handlers left behind when the watchers of S are stopped.
Orphaned(S) ==
  [ready |-> orphans.ready + Cardinality({f \in S : watch[f] = "ready"}),
   aborted |-> orphans.aborted + Cardinality({f \in S : watch[f] = "waiting"})]

\* stopWatcher for every descriptor in S, then startWatcher for those in T.
Rewatch(S, T) ==
  /\ pollfds' = (pollfds \ S) \cup T
  /\ watch' = [f \in Fds |->
       IF f \in T THEN "waiting" ELSE IF f \in S THEN "none" ELSE watch[f]]
  /\ orphans' = Orphaned(S)
  /\ lateWatch' = (lateWatch \/ (T # {} /\ signal = "handled"))

\* Devices whose board is gone: libusb stops to poll them.
Disconnected == SUBSET (pollfds \cap DeviceFds)

\* n hotplug events are dispatched: each callback posts a handler.
Dispatch(n) ==
  /\ pending' = pending - n
  /\ posted' = posted + n
  /\ UNCHANGED hotplugs

\* Seeded fault: the operation is not started again.
HandleWatcherOnce(f) ==
  /\ ~returned /\ watch[f] = "ready"
  /\ Dispatch(pending)
  /\ \E S \in Disconnected :
       /\ pollfds' = pollfds \ S
       /\ watch' = [g \in Fds |-> IF g \in S \cup {f} THEN "none" ELSE watch[g]]
       /\ orphans' = Orphaned(S \ {f})
  /\ UNCHANGED <<lateWatch, timer, endVars>>

\* Seeded fault: the watcher does not look whether it is still wanted.
HandleWatcherAlways(f) ==
  /\ ~returned /\ watch[f] = "ready"
  /\ Dispatch(pending)
  /\ \E S \in Disconnected :
       /\ pollfds' = pollfds \ S
       /\ watch' = [g \in Fds |-> IF g = f THEN "waiting"
                                  ELSE IF g \in S THEN "none" ELSE watch[g]]
       /\ orphans' = Orphaned(S \ {f})
  /\ UNCHANGED <<lateWatch, timer, endVars>>

\* A descriptor is ready: libusb handles its events, which may stop watchers,
\* this one as well; if it is still watched, the next operation starts.
HandleWatcher(f) ==
  /\ ~returned /\ watch[f] = "ready"
  /\ Dispatch(pending)
  /\ \E S \in Disconnected :
       /\ pollfds' = pollfds \ S
       /\ watch' = [g \in Fds |-> IF g \in S THEN "none"
                                  ELSE IF g = f THEN "waiting" ELSE watch[g]]
       /\ orphans' = Orphaned(S \ {f})
  /\ UNCHANGED <<lateWatch, timer, endVars>>

\* The handler of a stopped watcher: if its operation had succeeded it handles
\* events as well; without a descriptor it starts nothing.
HandleOrphan ==
  /\ ~returned
  /\ \/ /\ orphans.ready > 0
        /\ Dispatch(pending)
        /\ \E S \in Disconnected :
             /\ pollfds' = pollfds \ S
             /\ watch' = [g \in Fds |-> IF g \in S THEN "none" ELSE watch[g]]
             /\ orphans' = [Orphaned(S) EXCEPT !.ready = @ - 1]
     \/ /\ orphans.aborted > 0
        /\ orphans' = [orphans EXCEPT !.aborted = @ - 1]
        /\ UNCHANGED <<pollfds, watch, hotplugVars>>
  /\ UNCHANGED <<lateWatch, timer, endVars>>

-----------------------------------------------------------------------------
(* The other handlers.  USB transfers dispatch hotplug events on the way.  *)

\* A device handler: an arrival may end with a new open device, a departure
\* closes one.  Handles that are closed again at once are left out.
HandlePosted ==
  /\ ~returned /\ posted > 0
  /\ \E n \in 0 .. pending :
       pending' = pending - n /\ posted' = posted - 1 + n
  /\ \/ \E f \in DeviceFds \ pollfds : Rewatch({}, {f})
     \/ \E f \in DeviceFds : Rewatch({f}, {})
     \/ Rewatch({}, {})
  /\ UNCHANGED <<hotplugs, timer, endVars>>

\* Seeded fault: a poll after the shutdown does not arm the timer.
HandleTimerUnlessHandled ==
  /\ ~returned
  /\ \/ /\ timer = "expired"
        /\ timer' = IF signal = "handled" THEN "none" ELSE "armed"
        /\ \E n \in 0 .. pending : Dispatch(n)
        /\ \E S \in Disconnected : Rewatch(S, {})
     \/ timer = "aborted" /\ timer' = "none" /\ UNCHANGED <<watchVars, hotplugVars>>
  /\ UNCHANGED endVars

\* The poll closes devices that do not answer, and arms the timer in any case;
\* a cancelled wait does nothing.
HandleTimer ==
  /\ ~returned
  /\ \/ /\ timer = "expired" /\ timer' = "armed"
        /\ \E n \in 0 .. pending : Dispatch(n)
        /\ \E S \in Disconnected : Rewatch(S, {})
     \/ timer = "aborted" /\ timer' = "none" /\ UNCHANGED <<watchVars, hotplugVars>>
  /\ UNCHANGED endVars

\* A request of a client, also one that was queued when the server stopped:
\* reprogramming closes the device and opens it again, which may fail.
HandleRequest ==
  /\ ~returned /\ network # "done"
  /\ orphans.ready + orphans.aborted < MaxOrphans
  /\ \E n \in 0 .. pending : Dispatch(n)
  /\ \E f \in DeviceFds :
       \/ Rewatch({f}, {})
       \/ \E g \in DeviceFds \ (pollfds \ {f}) : Rewatch({f}, {g})
  /\ UNCHANGED <<timer, endVars>>

\* The network has no operation left some time after it was stopped.
NetworkEnds ==
  /\ ~returned /\ network = "closing"
  /\ network' = "done"
  /\ UNCHANGED <<watchVars, hotplugVars, timer, signal, latePoll, returned>>

\* Seeded fault: the watchers are not stopped.
HandleSignalKeepsWatchers ==
  /\ ~returned /\ signal = "caught"
  /\ signal' = "handled"
  /\ timer' = IF timer = "armed" THEN "aborted" ELSE timer
  /\ latePoll' = (timer = "expired")
  /\ network' = "closing"
  /\ UNCHANGED <<watchVars, hotplugVars, returned>>

\* DeviceManager::stop, Server::stop and libusb_service::stop.
HandleSignal ==
  /\ ~returned /\ signal = "caught"
  /\ signal' = "handled"
  /\ timer' = IF timer = "armed" THEN "aborted" ELSE timer
  /\ latePoll' = (timer = "expired")
  /\ network' = "closing"
  /\ watch' = [f \in Fds |-> "none"]
  /\ orphans' = Orphaned(Fds)
  /\ UNCHANGED <<pollfds, lateWatch, hotplugVars, returned>>

-----------------------------------------------------------------------------
(* The environment: boards, descriptors, the clock, and the user.          *)

Hotplug ==
  /\ hotplugs < MaxHotplugs
  /\ hotplugs' = hotplugs + 1 /\ pending' = pending + 1
  /\ UNCHANGED <<watchVars, posted, timer, endVars>>

FdReady(f) ==
  /\ watch[f] = "waiting"
  /\ watch' = [watch EXCEPT ![f] = "ready"]
  /\ UNCHANGED <<pollfds, orphans, lateWatch, hotplugVars, timer, endVars>>

TimerExpires ==
  /\ timer = "armed" /\ timer' = "expired"
  /\ UNCHANGED <<watchVars, hotplugVars, endVars>>

Interrupt ==
  /\ signal = "waiting" /\ signal' = "caught"
  /\ UNCHANGED <<watchVars, hotplugVars, timer, network, latePoll, returned>>

\* Something keeps io_service::run from returning.
Work ==
  \/ \E f \in Fds : watch[f] # "none"
  \/ orphans.ready + orphans.aborted + posted > 0
  \/ timer # "none" \/ network # "done" \/ signal # "handled"

Return ==
  /\ ~returned /\ ~Work
  /\ returned' = TRUE
  /\ UNCHANGED <<watchVars, hotplugVars, timer, network, signal, latePoll>>

-----------------------------------------------------------------------------
Init ==
  /\ pollfds = EventFds
  /\ watch = [f \in Fds |-> IF f \in EventFds THEN "waiting" ELSE "none"]
  /\ orphans = [ready |-> 0, aborted |-> 0]
  /\ hotplugs = 0 /\ pending = 0 /\ posted = 0
  /\ timer = "armed" /\ network = "serving" /\ signal = "waiting"
  /\ latePoll = FALSE /\ lateWatch = FALSE /\ returned = FALSE

Next ==
  \/ \E f \in Fds : HandleWatcher(f) \/ FdReady(f)
  \/ HandleOrphan \/ HandlePosted \/ HandleTimer \/ HandleRequest
  \/ NetworkEnds \/ HandleSignal
  \/ Hotplug \/ TimerExpires \/ Interrupt \/ Return

Spec == Init /\ [][Next]_vars

\* asio runs every queued handler; libusb's own descriptor gets ready when an
\* event is pending; the network ends after its stop.  Nobody promises that
\* boards, clients or the user act, or that a device gets ready.
Fairness ==
  /\ \A f \in Fds : WF_vars(HandleWatcher(f))
  /\ \A f \in EventFds : WF_vars(FdReady(f) /\ pending > 0)
  /\ WF_vars(HandleOrphan) /\ WF_vars(HandlePosted) /\ WF_vars(HandleTimer)
  /\ WF_vars(HandleSignal) /\ WF_vars(NetworkEnds) /\ WF_vars(Return)

FairSpec == Spec /\ Fairness

-----------------------------------------------------------------------------
(* Properties. *)

\* Every variable holds the values the code can give it: the type invariant
\* of the loop and its sources of work.
TypeOK ==
  /\ pollfds \in SUBSET Fds
  /\ watch \in [Fds -> {"none", "waiting", "ready"}]
  /\ orphans \in [ready : Nat, aborted : Nat]
  /\ hotplugs \in 0 .. MaxHotplugs /\ pending \in 0 .. MaxHotplugs
  /\ posted \in 0 .. MaxHotplugs
  /\ timer \in {"armed", "expired", "aborted", "none"}
  /\ network \in {"serving", "closing", "done"}
  /\ signal \in {"waiting", "caught", "handled"}
  /\ latePoll \in BOOLEAN /\ lateWatch \in BOOLEAN /\ returned \in BOOLEAN

\* Until the shutdown a descriptor is watched exactly if libusb polls it, and
\* afterwards only if it was opened since: no event goes unnoticed, and no
\* closed descriptor, whose number may be another file by now, is read
\* (startWatcher, stopWatcher, do_read).
WatchedIsPolled ==
  LET watched == {f \in Fds : watch[f] # "none"} IN
  /\ signal # "handled" => watched = pollfds
  /\ signal = "handled" => watched \subseteq pollfds /\ (watched # {} => lateWatch)

\* A timer that has expired when the signal is handled is armed again by its
\* own handler and cannot be cancelled by anyone: run never returns
\* (DeviceManager::stop, _periodicRegisterUpdates).
LatePollRunsForever == latePoll => timer \in {"armed", "expired"} /\ ~returned

\* A hotplug event of libusb reaches the device manager, as long as the server
\* is not shut down (libusb_service_fd_watcher).
HotplugIsDispatched == (pending > 0) ~> (pending = 0 \/ signal = "handled")

\* After a signal run returns, unless the timer had expired, or a handler that
\* was queued opened a device: the two ways in which the shutdown can fail
\* (the signal handler of main).
ShutdownEnds == (signal = "caught") ~> (returned \/ latePoll \/ lateWatch)
=============================================================================
