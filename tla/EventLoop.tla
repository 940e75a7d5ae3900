----------------------------- MODULE EventLoop ------------------------------
(***************************************************************************)
(* How the threads of a libusb context share event handling:               *)
(* libusb_handle_events of io.c, the synchronous transfers of sync.c that  *)
(* call it until they are completed, and libusb_open and libusb_close of   *)
(* core.c, which have to interrupt whoever polls.                          *)
(*                                                                         *)
(* A thread that gets the events lock polls the descriptors; the others    *)
(* wait on a condition variable, which is signalled after each completed   *)
(* transfer and after each release of the events lock.  A thread that      *)
(* changes the set of descriptors raises pollfd_modify, so that no thread  *)
(* starts to poll, writes to the control pipe, so that the one that polls  *)
(* stops, and takes the events lock.                                       *)
(*                                                                         *)
(* Each of the Users has one device, named like the thread, which it       *)
(* opens, does control transfers with, and closes.  The Handlers handle    *)
(* events, as the loop of the freenect thread does; a thread may do both.  *)
(***************************************************************************)
EXTENDS Integers, FiniteSets

CONSTANTS
  Users,         (* threads that use a device                                *)
  Handlers,      (* threads that call libusb_handle_events                   *)
  None           (* no thread                                                *)

Threads == Users \cup Handlers

ASSUME EventLoopAssumption == IsFiniteSet(Threads) /\ None \notin Threads

VARIABLES
  pc,              (* what each thread is at                                 *)
  op,              (* "open" or "close" while it changes the descriptors     *)
  xfer,            (* its control transfer                                   *)
  fds, polled,     (* devices with a descriptor; those that a thread polls   *)
  revents,         (* and those of them for which poll returned events       *)
  events_lock, event_handler_active, pollfd_modify,   (* libusb_context      *)
  pipe,            (* bytes in the control pipe                              *)
  reliable         (* writes to it succeed, and no wait lasts 60 seconds     *)

context == <<fds, events_lock, event_handler_active, pollfd_modify, pipe>>
local == <<op, polled, revents>>
state == <<pc, xfer, local, context>>
vars == <<state, reliable>>

Init ==
  /\ pc = [t \in Threads |-> "idle"] /\ op = [t \in Threads |-> "none"]
  /\ xfer = [t \in Threads |-> "none"]
  /\ fds = {} /\ polled = [t \in Threads |-> {}] /\ revents = [t \in Threads |-> {}]
  /\ events_lock = None /\ event_handler_active = FALSE
  /\ pollfd_modify = 0 /\ pipe = 0
  /\ reliable \in BOOLEAN

At(t, l) == pc[t] = l
Goto(t, l) == pc' = [pc EXCEPT ![t] = l]
-----------------------------------------------------------------------------
(* libusb_control_transfer, or a call of libusb_handle_events without one. *)

Submit(t) ==
  /\ At(t, "idle") /\ t \in fds
  /\ xfer' = [xfer EXCEPT ![t] = "flying"]
  /\ Goto(t, "check")
  /\ UNCHANGED <<local, context>>

HandleEvents(t) ==
  /\ At(t, "idle") /\ t \in Handlers
  /\ Goto(t, "try")
  /\ UNCHANGED <<xfer, local, context>>

\* The device finishes the transfer: its descriptor becomes readable.
Ready(t) ==
  /\ xfer[t] = "flying"
  /\ xfer' = [xfer EXCEPT ![t] = "ready"]
  /\ UNCHANGED <<pc, local, context>>

(* while (!completed) libusb_handle_events(...) *)
CheckAgain(t) ==
  /\ At(t, "check") /\ xfer[t] \in {"flying", "ready"}
  /\ Goto(t, "try")
  /\ UNCHANGED <<xfer, local, context>>

Return(t) ==
  /\ At(t, "check") /\ xfer[t] \in {"none", "done"}
  /\ xfer' = [xfer EXCEPT ![t] = "none"]
  /\ Goto(t, "idle")
  /\ UNCHANGED <<local, context>>
-----------------------------------------------------------------------------
(* libusb_handle_events: the thread that gets the lock.                    *)

TryLockEvents(t) ==
  /\ At(t, "try")
  /\ Goto(t, IF pollfd_modify # 0 THEN "wait" ELSE "trylock")
  /\ UNCHANGED <<xfer, local, context>>

TryLock(t) ==
  /\ At(t, "trylock")
  /\ IF events_lock = None
     THEN events_lock' = t /\ Goto(t, "setactive")
     ELSE UNCHANGED events_lock /\ Goto(t, "wait")
  /\ UNCHANGED <<xfer, local, fds, event_handler_active, pollfd_modify, pipe>>

SetActive(t) ==
  /\ At(t, "setactive")
  /\ event_handler_active' = TRUE
  /\ Goto(t, IF op[t] = "none" THEN "fds" ELSE "read")
  /\ UNCHANGED <<xfer, local, fds, events_lock, pollfd_modify, pipe>>

PollBegins(t) ==
  /\ At(t, "fds")
  /\ polled' = [polled EXCEPT ![t] = fds]
  /\ Goto(t, "poll")
  /\ UNCHANGED <<xfer, op, revents, context>>

Readable(t) == {d \in polled[t] : xfer[d] = "ready"}

PollReturns(t) ==
  /\ At(t, "poll") /\ (pipe > 0 \/ Readable(t) # {} \/ ~reliable)
  /\ revents' = [revents EXCEPT ![t] = Readable(t)]
  /\ Goto(t, "handle")
  /\ UNCHANGED <<xfer, op, polled, context>>

(* The callback of a transfer sets completed; then the waiters are woken.  *)
Handle(t, d) ==
  /\ At(t, "handle") /\ d \in revents[t]
  /\ xfer' = [xfer EXCEPT ![d] = "done"]
  /\ revents' = [revents EXCEPT ![t] = @ \ {d}]
  /\ Goto(t, "signal")
  /\ UNCHANGED <<op, polled, context>>

Handled(t) ==
  /\ At(t, "handle") /\ revents[t] = {}
  /\ Goto(t, "clearactive")
  /\ UNCHANGED <<xfer, local, context>>

ClearActive(t) ==
  /\ At(t, "clearactive")
  /\ event_handler_active' = FALSE
  /\ Goto(t, "unlock")
  /\ UNCHANGED <<xfer, local, fds, events_lock, pollfd_modify, pipe>>

Unlock(t) ==
  /\ At(t, "unlock")
  /\ events_lock' = None
  /\ Goto(t, "broadcast")
  /\ UNCHANGED <<xfer, local, fds, event_handler_active, pollfd_modify, pipe>>

\* event_waiters_lock is held by a waiter that tests whether it has to wait.
WaitersLocked == \E t \in Threads : pc[t] \in {"modified", "active"}

(* Woken threads have to get event_waiters_lock back before they return. *)
Broadcast_WakingNobody(t) ==
  /\ pc[t] \in {"signal", "broadcast"} /\ ~WaitersLocked
  /\ Goto(t, IF At(t, "signal") THEN "handle" ELSE "check")
  /\ UNCHANGED <<xfer, local, context>>
Broadcast(t) ==
  /\ pc[t] \in {"signal", "broadcast"} /\ ~WaitersLocked
  /\ pc' = [u \in Threads |->
              CASE u = t -> IF At(t, "signal") THEN "handle" ELSE "check"
                [] u # t /\ pc[u] = "sleep" -> "wake"
                [] OTHER -> pc[u]]
  /\ UNCHANGED <<xfer, local, context>>
-----------------------------------------------------------------------------
(* libusb_handle_events: the others.                                       *)

LockWaiters(t) ==
  /\ At(t, "wait") /\ ~WaitersLocked
  /\ Goto(t, "modified")
  /\ UNCHANGED <<xfer, local, context>>

(* libusb_event_handler_active; one that went away means another try.      *)
TestModify(t) ==
  /\ At(t, "modified")
  /\ Goto(t, IF pollfd_modify # 0 THEN "sleep" ELSE "active")
  /\ UNCHANGED <<xfer, local, context>>

TestActive(t) ==
  /\ At(t, "active")
  /\ Goto(t, IF event_handler_active THEN "sleep" ELSE "try")
  /\ UNCHANGED <<xfer, local, context>>

WaitTimesOut(t) ==
  /\ At(t, "sleep") /\ ~reliable
  /\ Goto(t, "wake")
  /\ UNCHANGED <<xfer, local, context>>

Wake(t) ==
  /\ At(t, "wake") /\ ~WaitersLocked
  /\ Goto(t, "check")
  /\ UNCHANGED <<xfer, local, context>>
-----------------------------------------------------------------------------
(* libusb_open and libusb_close.                                           *)

(* The backend opens the device and adds its descriptor.                   *)
Open(t) ==
  /\ At(t, "idle") /\ t \in Users \ fds
  /\ fds' = fds \cup {t}
  /\ op' = [op EXCEPT ![t] = "open"]
  /\ Goto(t, "modify")
  /\ UNCHANGED <<xfer, polled, revents, events_lock, event_handler_active, pollfd_modify, pipe>>

Close(t) ==
  /\ At(t, "idle") /\ t \in fds
  /\ op' = [op EXCEPT ![t] = "close"]
  /\ Goto(t, "modify")
  /\ UNCHANGED <<xfer, polled, revents, context>>

Modify(t) ==
  /\ At(t, "modify")
  /\ pollfd_modify' = pollfd_modify + 1
  /\ Goto(t, "write")
  /\ UNCHANGED <<xfer, local, fds, events_lock, event_handler_active, pipe>>

WritePipe_Forgotten(t) ==
  /\ At(t, "write")
  /\ Goto(t, "lock")
  /\ UNCHANGED <<xfer, local, context>>
WritePipe(t) ==
  /\ At(t, "write")
  /\ pipe' = pipe + 1
  /\ Goto(t, "lock")
  /\ UNCHANGED <<xfer, local, fds, events_lock, event_handler_active, pollfd_modify>>

(* "closing anyway", without the lock, and nobody is woken *)
WriteFails_GoingOn(t) ==
  /\ At(t, "write") /\ ~reliable
  /\ Goto(t, "lock")
  /\ UNCHANGED <<xfer, local, context>>
WriteFails(t) ==
  /\ At(t, "write") /\ ~reliable
  /\ fds' = IF op[t] = "close" THEN fds \ {t} ELSE fds
  /\ Goto(t, "giveup")
  /\ UNCHANGED <<xfer, local, events_lock, event_handler_active, pollfd_modify, pipe>>

GiveUp(t) ==
  /\ At(t, "giveup")
  /\ pollfd_modify' = pollfd_modify - 1
  /\ op' = [op EXCEPT ![t] = "none"]
  /\ Goto(t, "idle")
  /\ UNCHANGED <<xfer, polled, revents, fds, events_lock, event_handler_active, pipe>>

LockEvents_Ignored(t) ==
  /\ At(t, "lock")
  /\ Goto(t, "setactive")
  /\ UNCHANGED <<xfer, local, context>>
LockEvents(t) ==
  /\ At(t, "lock") /\ events_lock = None
  /\ events_lock' = t
  /\ Goto(t, "setactive")
  /\ UNCHANGED <<xfer, local, fds, event_handler_active, pollfd_modify, pipe>>

ReadPipe(t) ==
  /\ At(t, "read") /\ pipe > 0
  /\ pipe' = pipe - 1
  /\ Goto(t, "change")
  /\ UNCHANGED <<xfer, local, fds, events_lock, event_handler_active, pollfd_modify>>

Change(t) ==
  /\ At(t, "change")
  /\ fds' = IF op[t] = "close" THEN fds \ {t} ELSE fds
  /\ Goto(t, "unmodify")
  /\ UNCHANGED <<xfer, local, events_lock, event_handler_active, pollfd_modify, pipe>>

Unmodify_Forgotten(t) ==
  /\ At(t, "unmodify")
  /\ op' = [op EXCEPT ![t] = "none"]
  /\ Goto(t, "clearactive")
  /\ UNCHANGED <<xfer, polled, revents, context>>
Unmodify(t) ==
  /\ At(t, "unmodify")
  /\ pollfd_modify' = pollfd_modify - 1
  /\ op' = [op EXCEPT ![t] = "none"]
  /\ Goto(t, "clearactive")
  /\ UNCHANGED <<xfer, polled, revents, fds, events_lock, event_handler_active, pipe>>
-----------------------------------------------------------------------------
Changing(t) ==
  \/ Modify(t) \/ WritePipe(t) \/ WriteFails(t) \/ GiveUp(t)
  \/ ReadPipe(t) \/ Change(t) \/ Unmodify(t)

Handling(t) ==
  \/ CheckAgain(t) \/ Return(t) \/ TryLockEvents(t) \/ TryLock(t) \/ SetActive(t)
  \/ PollBegins(t) \/ PollReturns(t) \/ (\E d \in Users : Handle(t, d)) \/ Handled(t)
  \/ ClearActive(t) \/ Unlock(t) \/ TestModify(t) \/ TestActive(t) \/ WaitTimesOut(t)

Locking(t) == LockEvents(t) \/ LockWaiters(t) \/ Broadcast(t) \/ Wake(t)

Next ==
  /\ \E t \in Threads :
       \/ Submit(t) \/ HandleEvents(t) \/ Open(t) \/ Close(t) \/ Ready(t)
       \/ Changing(t) \/ Handling(t) \/ Locking(t)
  /\ UNCHANGED reliable

Spec == Init /\ [][Next]_vars

(* Threads go on while they can, a thread that wants a mutex gets it some  *)
(* time if it is free again and again, and devices answer.                 *)
FairSpec ==
  /\ Spec
  /\ \A t \in Threads : /\ WF_state(Changing(t)) /\ WF_state(Handling(t))
                        /\ SF_state(Locking(t))
                        /\ WF_state(Ready(t))
-----------------------------------------------------------------------------
Labels == {"idle", "check", "try", "trylock", "setactive", "fds", "poll", "handle", "signal",
           "clearactive", "unlock", "broadcast", "wait", "modified", "active", "sleep", "wake",
           "modify", "write", "giveup", "lock", "read", "change", "unmodify"}

TypeOK ==
  /\ pc \in [Threads -> Labels]
  /\ op \in [Threads -> {"none", "open", "close"}]
  /\ xfer \in [Threads -> {"none", "flying", "ready", "done"}]
  /\ fds \in SUBSET Users
  /\ polled \in [Threads -> SUBSET Users] /\ revents \in [Threads -> SUBSET Users]
  /\ events_lock \in Threads \cup {None}
  /\ event_handler_active \in BOOLEAN
  /\ pollfd_modify \in 0 .. Cardinality(Threads) /\ pipe \in 0 .. Cardinality(Threads)

Polling(t) == pc[t] \in {"poll", "handle", "signal"}

(* "nobody is polling those descriptors": whoever polls or handles events  *)
(* does so on descriptors of open devices only, whatever is closed         *)
(* meanwhile.                                                              *)
PollsOpen == reliable => \A t \in Threads : Polling(t) => polled[t] \subseteq fds

(* "so that they realise the addition of the new device's poll fd": when   *)
(* libusb_open is through, no thread polls any more without the device.    *)
SeesOpened ==
  reliable => \A t \in Threads, d \in fds : pc[t] = "poll" /\ op[d] # "open" => d \in polled[t]

(* The read of the control pipe finds the byte that was written.           *)
PipeHasByte == \A t \in Threads : pc[t] = "read" => pipe > 0

(* "where someone sleeps, somebody handles events": a waiter is not left   *)
(* alone, there is a thread at work that will wake it.                     *)
SomebodyAwake ==
  reliable /\ (\E t \in Threads : pc[t] = "sleep") =>
    \E t \in Threads : \/ Polling(t)
                       \/ pc[t] \in {"setactive", "fds", "clearactive", "unlock", "broadcast"}
                       \/ op[t] # "none"

(* libusb_open and libusb_close return, however busy the others are.       *)
ChangeReturns == \A t \in Threads : op[t] # "none" ~> At(t, "idle")

(* Unless threads open and close devices for ever, a control transfer that *)
(* the device has answered is completed: there is always somebody who      *)
(* polls its descriptor, although each thread may leave that to another.   *)
TransferCompletes ==
  <>[](\A t \in Threads : op[t] = "none") =>
    \A d \in Users : reliable /\ xfer[d] = "ready" ~> xfer[d] = "done"
=============================================================================
