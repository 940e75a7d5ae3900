------------------------------- MODULE Flying --------------------------------
(***************************************************************************)
(* Transfers in flight (io.c of libusb): the list of a context, sorted by  *)
(* timeouts, which are kept by a timerfd or by whoever handles events;     *)
(* submission, cancellation, completion and disconnection.                 *)
(*                                                                         *)
(* Each transfer is submitted, cancelled and freed by a thread of its own, *)
(* and one thread handles events.  Two kinds of locks are nested: a        *)
(* submission has that of its transfer and takes that of the list; the     *)
(* event thread has that of the list and takes those of transfers that     *)
(* time out.  Where the latter is held across steps, epc is "scan".        *)
(***************************************************************************)
EXTENDS Integers, SequencesExt, FiniteSetsExt

CONSTANTS Transfers, MaxTime, Timeouts   (* of each transfer, in ticks *)

VARIABLES
  timerfd,         (* usbi_using_timerfd                                     *)
  now, timer,      (* the clock; what the timerfd is armed for, or 0         *)
  present,         (* the device is plugged in                               *)
  flying,          (* flying_transfers                                       *)
  deadline, exact, (* timeout of usbi_transfer, 0 if not set; whether its    *)
                   (* microseconds are a million                             *)
  timedOut,        (* USBI_TRANSFER_TIMED_OUT                                *)
  first,           (* transfers for which add_to_flying_list returned 1      *)
  pc,              (* of the thread of each transfer                         *)
  urb,             (* what the kernel has of it                              *)
  epc, cur, why,   (* the event thread: where, with which transfer, and the  *)
  todo,            (* status; transfers that it has to cancel                *)
  orderly          (* none of what is listed at Disorder has happened        *)

transfer == <<deadline, exact, timedOut, first>>
events == <<epc, cur, why, todo>>
vars == <<timerfd, now, timer, present, flying, transfer, pc, urb, events, orderly>>

Init ==
  /\ timerfd \in BOOLEAN /\ now = 1 /\ timer = 0 /\ present = TRUE
  /\ flying = <<>>
  /\ deadline = [t \in Transfers |-> 0] /\ exact = [t \in Transfers |-> FALSE]
  /\ timedOut = [t \in Transfers |-> FALSE] /\ first = {}
  /\ pc = [t \in Transfers |-> "idle"] /\ urb = [t \in Transfers |-> "none"]
  /\ epc = "poll" /\ cur = 0 /\ why = "none" /\ todo = {}
  /\ orderly = TRUE

Goto(t, where) == pc' = [pc EXCEPT ![t] = where]
Locked(t) == pc[t] \in {"add", "submit", "arm", "fail"}
ListLocked == epc = "scan"
Disconnecting == epc \in {"disconnect", "clear"} \/ why = "no device"

(* A timeout of a second that has passed exactly; a timeout where there    *)
(* was one before, and is none; a submission during the disconnection; one *)
(* that fails when its timeout has passed, or that was the first to time   *)
(* out, so that the timer was not set for the second; a submission between *)
(* a completion and its stopping the timer; a transfer freed although it   *)
(* is active.  Then nothing more is submitted.                             *)
Disorder(so) == orderly' = (orderly /\ ~so)
-----------------------------------------------------------------------------
(* arm_timerfd_for_next_timeout: what for, 0 for nothing, or -1 if it      *)
(* fails.                                                                  *)
NextTimeout(list) ==
  LET others == {i \in DOMAIN list : ~timedOut[list[i]]}
      next == list[Min(others)]
  IN  CASE others = {} -> 0 [] others # {} /\ exact[next] -> -1 [] OTHER -> deadline[next]

(* libusb_submit_transfer: calculate_timeout, which leaves the timeout of  *)
(* before if there is none; add_to_flying_list                             *)
Submit(t, timeout) ==
  /\ pc[t] = "idle" /\ now + timeout <= MaxTime /\ orderly
  /\ Goto(t, "add")
  /\ deadline' = [deadline EXCEPT ![t] = IF timeout = 0 THEN @ ELSE now + timeout]
  /\ \E e \in BOOLEAN : exact' = [exact EXCEPT ![t] = IF timeout = 0 THEN @ ELSE e]
  /\ timedOut' = [timedOut EXCEPT ![t] = FALSE]
  /\ Disorder(exact'[t] \/ (timeout = 0 /\ deadline[t] # 0) \/ Disconnecting)
  /\ UNCHANGED <<timerfd, now, timer, present, flying, first, urb, events>>

Later(t) == {i \in DOMAIN flying : deadline[flying[i]] = 0 \/ deadline[flying[i]] > deadline[t]}
AddToFlyingList(t) ==
  /\ pc[t] = "add" /\ ~ListLocked
  /\ LET place == IF deadline[t] = 0 \/ Later(t) = {} THEN Len(flying) + 1 ELSE Min(Later(t)) IN
       /\ flying' = InsertAt(flying, place, t)
       /\ first' = (IF deadline[t] # 0 /\ place = 1 THEN first \cup {t} ELSE first \ {t})
  /\ Goto(t, "submit")
  /\ UNCHANGED <<timerfd, now, timer, present, deadline, exact, timedOut, urb,
                 events, orderly>>

Submitted(t) ==
  /\ pc[t] = "submit" /\ present
  /\ urb' = [urb EXCEPT ![t] = "flying"]
  /\ Goto(t, IF t \in first /\ timerfd THEN "arm" ELSE "sent")
  /\ first' = first \ {t}
  /\ UNCHANGED <<timerfd, now, timer, present, flying, deadline, exact, timedOut, events, orderly>>

SubmitFails(t) ==
  /\ pc[t] = "submit" /\ Goto(t, "fail")
  /\ first' = first \ {t}
  /\ Disorder(t \in todo)
  /\ UNCHANGED <<timerfd, now, timer, present, flying, deadline, exact, timedOut, urb, events>>

Without(t) ==
  LET places == {i \in DOMAIN flying : flying[i] = t} IN
  IF places = {} THEN flying ELSE RemoveAt(flying, Min(places))
DeleteFailed(t) ==
  /\ pc[t] = "fail" /\ ~ListLocked
  /\ flying' = Without(t) /\ Goto(t, "idle")
  /\ Disorder(timerfd /\ timer = 0 /\ NextTimeout(flying') # 0)
  /\ UNCHANGED <<timerfd, now, timer, present, transfer, urb, events>>

(* timerfd_settime fails: the caller is told so, who may free the transfer *)
Arm(t) ==
  /\ pc[t] = "arm"
  /\ IF exact[t] THEN Goto(t, "idle") /\ UNCHANGED timer
     ELSE Goto(t, "sent") /\ timer' = deadline[t]
  /\ UNCHANGED <<timerfd, now, present, flying, transfer, urb, events, orderly>>

(* libusb_cancel_transfer                                                  *)
Cancelled(t) == urb' = [urb EXCEPT ![t] = IF @ = "flying" THEN "cancelled" ELSE @]
Cancel(t) ==
  /\ pc[t] = "sent" /\ urb[t] = "flying"
  /\ Cancelled(t)
  /\ UNCHANGED <<timerfd, now, timer, present, flying, transfer, pc, events, orderly>>

(* A callback submits the transfer again, or frees it.                     *)
Called(t, freed) ==
  /\ pc[t] = "done"
  /\ IF freed
     THEN /\ Goto(t, "freed") /\ deadline' = [deadline EXCEPT ![t] = 0]
          /\ timedOut' = [timedOut EXCEPT ![t] = FALSE] /\ exact' = [exact EXCEPT ![t] = FALSE]
     ELSE Goto(t, "idle") /\ UNCHANGED <<deadline, exact, timedOut>>
  /\ UNCHANGED <<timerfd, now, timer, present, flying, first, urb, events, orderly>>

(* A synchronous transfer is freed after handling events failed, and again *)
(* after the transfer was cancelled.                                       *)
GiveUp(t) ==
  /\ pc[t] = "sent" /\ urb[t] # "flying"
  /\ Goto(t, "freed") /\ Disorder(TRUE)
  /\ UNCHANGED <<timerfd, now, timer, present, flying, transfer, urb, events>>
-----------------------------------------------------------------------------
Tick ==
  /\ now < MaxTime /\ now' = now + 1
  /\ UNCHANGED <<timerfd, timer, present, flying, transfer, pc, urb, events, orderly>>

Answer(t) ==
  /\ urb[t] = "flying" /\ present
  /\ urb' = [urb EXCEPT ![t] = "done"]
  /\ UNCHANGED <<timerfd, now, timer, present, flying, transfer, pc, events, orderly>>

Unplug ==
  /\ present /\ present' = FALSE
  /\ UNCHANGED <<timerfd, now, timer, flying, transfer, pc, urb, events, orderly>>
-----------------------------------------------------------------------------
(* The event thread.  The backend reaps a transfer with its lock held; a   *)
(* cancelled one timed out if that was why (                               *)
(* usbi_handle_transfer_cancellation).                                     *)
Reap(t) ==
  /\ epc = "poll" /\ urb[t] \in {"done", "cancelled"} /\ ~Locked(t) /\ present
  /\ urb' = [urb EXCEPT ![t] = "none"]
  /\ cur' = t /\ epc' = "complete"
  /\ why' = CASE urb[t] = "done" -> "completed" [] timedOut[t] -> "timed out" [] OTHER -> "cancelled"
  /\ UNCHANGED <<timerfd, now, timer, present, flying, transfer, pc, todo, orderly>>

(* usbi_handle_transfer_completion.  If the timer cannot be set, there is  *)
(* no callback.                                                            *)
Complete_NoRearm ==
  /\ epc = "complete"
  /\ flying' = Without(cur)
  /\ epc' = (IF timerfd THEN "disarm" ELSE "callback")
  /\ UNCHANGED <<timerfd, now, timer, present, transfer, pc, urb, cur, why, todo, orderly>>
Complete ==
  /\ epc = "complete"
  /\ flying' = Without(cur)
  /\ LET next == NextTimeout(flying') IN
       \/ ~timerfd /\ epc' = "callback" /\ UNCHANGED <<timer, cur, why>>
       \/ timerfd /\ next = -1 /\ epc' = "poll" /\ cur' = 0 /\ why' = "none" /\ UNCHANGED timer
       \/ timerfd /\ next = 0 /\ epc' = "disarm" /\ UNCHANGED <<timer, cur, why>>
       \/ timerfd /\ next > 0 /\ epc' = "callback" /\ timer' = next /\ UNCHANGED <<cur, why>>
  /\ UNCHANGED <<timerfd, now, present, transfer, pc, urb, todo, orderly>>

(* Without the lock of the list                                            *)
Disarm ==
  /\ epc = "disarm" /\ epc' = "callback" /\ timer' = 0
  /\ Disorder(NextTimeout(flying) # 0)
  /\ UNCHANGED <<timerfd, now, present, flying, transfer, pc, urb, cur, why, todo>>

Callback ==
  /\ epc = "callback"
  /\ pc' = [pc EXCEPT ![cur] = IF @ = "freed" THEN @ ELSE "done"]
  /\ epc' = (IF why = "no device" THEN "disconnect" ELSE "poll")
  /\ cur' = 0 /\ why' = "none"
  /\ UNCHANGED <<timerfd, now, timer, present, flying, transfer, urb, todo, orderly>>

(* handle_timerfd_trigger                                                  *)
Trigger ==
  /\ epc = "poll" /\ timerfd /\ timer # 0 /\ timer <= now
  /\ timer' = 0 /\ epc' = "timeouts"
  /\ UNCHANGED <<timerfd, now, present, flying, transfer, pc, urb, cur, why, todo, orderly>>

(* Without a timerfd: libusb_get_next_timeout says that the first has      *)
(* passed, before every poll; or poll returns 0.                           *)
TimedOut ==
  /\ epc = "poll" /\ ~timerfd
  /\ \/ NextTimeout(flying) \in -1 .. now /\ NextTimeout(flying) # 0
     \/ \A t \in Transfers : urb[t] \notin {"done", "cancelled"}
  /\ epc' = "timeouts"
  /\ UNCHANGED <<timerfd, now, timer, present, flying, transfer, pc, urb, cur, why, todo, orderly>>

(* handle_timeouts_locked                                                  *)
HandleTimeouts ==
  /\ epc = "timeouts" /\ epc' = "scan"
  /\ todo' = {t \in Range(flying) : deadline[t] \in 1 .. now /\ ~timedOut[t]}
  /\ Disorder(\E t \in todo' : pc[t] = "fail")
  /\ UNCHANGED <<timerfd, now, timer, present, flying, transfer, pc, urb, cur, why>>

HandleTimeout ==
  /\ epc = "scan" /\ todo # {}
  /\ LET t == flying[Min({i \in DOMAIN flying : flying[i] \in todo})] IN
       /\ ~Locked(t) /\ timedOut' = [timedOut EXCEPT ![t] = TRUE]
       /\ Cancelled(t) /\ todo' = todo \ {t}
  /\ UNCHANGED <<timerfd, now, timer, present, flying, deadline, exact, first, pc,
                 epc, cur, why, orderly>>

TimeoutsHandled ==
  /\ epc = "scan" /\ todo = {} /\ epc' = "poll"
  /\ timer' = (IF timerfd /\ NextTimeout(flying) > 0 THEN NextTimeout(flying) ELSE timer)
  /\ UNCHANGED <<timerfd, now, present, flying, transfer, pc, urb, cur, why, todo, orderly>>

(* usbi_handle_disconnect                                                  *)
Disconnect ==
  /\ epc = "poll" /\ ~present /\ flying # <<>> /\ epc' = "disconnect"
  /\ Disorder(\E t \in Transfers : Locked(t))
  /\ UNCHANGED <<timerfd, now, timer, present, flying, transfer, pc, urb, cur, why, todo>>

ToCancel ==
  /\ epc = "disconnect"
  /\ IF flying = <<>> THEN epc' = "poll" /\ UNCHANGED cur
     ELSE epc' = "clear" /\ cur' = flying[1]
  /\ UNCHANGED <<timerfd, now, timer, present, flying, transfer, pc, urb, why, todo, orderly>>

Clear ==
  /\ epc = "clear" /\ epc' = "complete" /\ why' = "no device"
  /\ urb' = [urb EXCEPT ![cur] = "none"]
  /\ UNCHANGED <<timerfd, now, timer, present, flying, transfer, pc, cur, todo, orderly>>
-----------------------------------------------------------------------------
Next ==
  \/ \E t \in Transfers :
       \/ AddToFlyingList(t) \/ Submitted(t) \/ SubmitFails(t) \/ DeleteFailed(t) \/ Arm(t)
       \/ Cancel(t) \/ GiveUp(t) \/ Answer(t) \/ Reap(t)
       \/ \E timeout \in Timeouts[t] : Submit(t, timeout)
       \/ \E freed \in BOOLEAN : Called(t, freed)
  \/ Tick \/ Unplug
  \/ Complete \/ Disarm \/ Callback \/ Trigger \/ TimedOut \/ HandleTimeouts \/ HandleTimeout
  \/ TimeoutsHandled \/ Disconnect \/ ToCancel \/ Clear
-----------------------------------------------------------------------------
TypeOK ==
  /\ now \in 1 .. MaxTime /\ timer \in 0 .. MaxTime /\ todo \subseteq Transfers
  /\ flying \in Seq(Transfers) /\ deadline \in [Transfers -> 0 .. MaxTime]
  /\ pc \in [Transfers -> {"idle", "add", "submit", "arm", "fail", "sent", "done", "freed"}]
  /\ urb \in [Transfers -> {"none", "flying", "cancelled", "done"}]
  /\ epc \in {"poll", "timeouts", "scan", "disconnect", "clear", "complete", "disarm", "callback"}
  /\ why \in {"none", "completed", "cancelled", "timed out", "no device"}

(* The list has the transfers that are in flight, each once, sorted by     *)
(* timeouts; only those are completed, and only one that had a timeout,    *)
(* which has passed, is reported as timed out.                             *)
InFlight ==
  orderly =>
    /\ \A i, j \in DOMAIN flying : i < j =>
         /\ flying[i] # flying[j]
         /\ deadline[flying[j]] # 0 => deadline[flying[i]] \in 1 .. deadline[flying[j]]
    /\ \A t \in Transfers :
         (pc[t] \in {"submit", "arm", "fail", "sent"}) <=>
           (t \in Range(flying) \/ (epc \in {"disarm", "callback"} /\ cur = t))
    /\ why = "timed out" => deadline[cur] \in 1 .. now
    /\ cur # 0 => pc[cur] = "sent"

(* A timeout is not forgotten: while a transfer may time out, the timer is *)
(* set, or about to be set by a submission, by the event thread, or when   *)
(* one that has timed out is completed.                                    *)
TimerSet ==
  orderly /\ timerfd /\ NextTimeout(flying) # 0 =>
    \/ timer # 0 \/ epc \in {"timeouts", "scan", "complete"}
    \/ \E t \in Transfers : pc[t] \in {"arm", "fail"} \/ t \in first
    \/ \E t \in Range(flying) : timedOut[t]
=============================================================================
