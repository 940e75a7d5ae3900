-------------------------- MODULE DarwinTransfers ---------------------------
(***************************************************************************)
(* The transfers of one endpoint of an open device in the Darwin backend   *)
(* of libusb (os/darwin_usb.c).  IOKit finishes them on the event thread   *)
(* of the backend, whose callback only writes a message to the pipe of the *)
(* device handle; the thread that handles events reads one message at a    *)
(* time.  When the device is detached, the same pipe says so.              *)
(*                                                                         *)
(* A transfer is cancelled by aborting whatever is on its pipe.            *)
(***************************************************************************)
EXTENDS Integers, SequencesExt

CONSTANT Transfers   (* positive numbers *)

VARIABLES
  type,       (* "control" and "bulk": IOKit keeps the time; or "interrupt", "iso" *)
  phase,      (* of each transfer: "idle", "flying", or the result          *)
  asked,      (* someone cancelled a transfer of this endpoint              *)
  timed_out,  (* USBI_TRANSFER_TIMED_OUT                                    *)
  framelist,  (* isoc_framelist is allocated                                *)
  io,         (* "none", "flying" or "aborting": what IOKit has of it       *)
  device,     (* "present", "gone", or "told" when the event thread knows   *)
  polled,     (* the pipe is among the descriptors that are polled          *)
  messages    (* in the pipe                                                *)

flags == <<asked, timed_out>>
link == <<device, polled, messages>>
vars == <<type, phase, flags, framelist, io, link>>

OsHandlesTimeout == type \in {"control", "bulk"}

Init ==
  /\ type \in {"control", "bulk", "interrupt", "iso"}
  /\ phase = [t \in Transfers |-> "idle"]
  /\ asked = [t \in Transfers |-> FALSE] /\ timed_out = [t \in Transfers |-> FALSE]
  /\ framelist = [t \in Transfers |-> FALSE]
  /\ io = [t \in Transfers |-> "none"]
  /\ device = "present" /\ polled = TRUE /\ messages = <<>>
-----------------------------------------------------------------------------
(* darwin_submit_transfer                                                  *)

Submittable(t) == phase[t] = "idle" /\ polled

Submit(t) ==
  /\ Submittable(t) /\ device = "present" /\ io[t] = "none"
  /\ framelist' = [framelist EXCEPT ![t] = type = "iso"]
  /\ io' = [io EXCEPT ![t] = "flying"]
  /\ phase' = [phase EXCEPT ![t] = "flying"]
  /\ UNCHANGED <<type, flags, link>>

(* No pipe for the endpoint, no frame number, or IOKit refuses.            *)
SubmitFails(t) ==
  /\ Submittable(t)
  /\ framelist' \in {framelist, [framelist EXCEPT ![t] = FALSE]}
  /\ UNCHANGED <<type, phase, flags, io, link>>

(* The callback has run; flags are cleared by the next submission.         *)
Renew(t) ==
  /\ phase[t] \notin {"idle", "flying"}
  /\ phase' = [phase EXCEPT ![t] = "idle"]
  /\ asked' = [asked EXCEPT ![t] = FALSE] /\ timed_out' = [timed_out EXCEPT ![t] = FALSE]
  /\ UNCHANGED <<type, framelist, io, link>>
-----------------------------------------------------------------------------
(* darwin_cancel_transfer, by a thread or by the timeout handler.          *)

Abort ==
  /\ io' = [u \in Transfers |-> IF io[u] = "flying" THEN "aborting" ELSE io[u]]
  /\ asked' = [u \in Transfers |-> asked[u] \/ phase[u] = "flying"]
  /\ UNCHANGED <<type, phase, framelist, link>>

Cancel(t) == phase[t] = "flying" /\ Abort /\ UNCHANGED timed_out

TimeOut(t) ==
  /\ phase[t] = "flying" /\ ~OsHandlesTimeout /\ ~timed_out[t]
  /\ timed_out' = [timed_out EXCEPT ![t] = TRUE]
  /\ Abort
-----------------------------------------------------------------------------
(* The event thread: darwin_async_io_callback, darwin_devices_detached.    *)
(* Requests are dropped from its run loop when the pipe is not polled.     *)

Ends(t) ==
  IF io[t] = "aborting" THEN {"aborted"}
  ELSE IF device = "present"
  THEN {"success", "stalled", "overrun", "error"} \cup IF OsHandlesTimeout THEN {"timeout"} ELSE {}
  ELSE {"error"}

AsyncIoCallback(t) ==
  /\ io[t] # "none" /\ polled
  /\ \E result \in Ends(t) : messages' = Append(messages, [transfer |-> t, result |-> result])
  /\ io' = [io EXCEPT ![t] = "none"]
  /\ UNCHANGED <<type, phase, flags, framelist, device, polled>>

\* What the device terminated with is known to IOKit first.
Unplug ==
  /\ device = "present"
  /\ device' = "gone"
  /\ UNCHANGED <<type, phase, flags, framelist, io, polled, messages>>

Gone == [transfer |-> 0, result |-> "gone"]

DevicesDetached ==
  /\ device = "gone"
  /\ device' = "told"
  /\ messages' = Append(messages, Gone)
  /\ UNCHANGED <<type, phase, flags, framelist, io, polled>>
-----------------------------------------------------------------------------
(* op_handle_events, which reads one message.                              *)

TransferStatus_GoneIsCancelled(t, result) ==
  CASE timed_out[t] \/ result = "timeout" -> "TIMED_OUT"
    [] result = "success" -> "COMPLETED"
    [] result = "aborted" -> "CANCELLED"
    [] result = "stalled" -> "STALL"
    [] result = "overrun" -> "OVERFLOW"
    [] OTHER -> "CANCELLED"
TransferStatus(t, result) ==
  CASE timed_out[t] \/ result = "timeout" -> "TIMED_OUT"
    [] result = "success" -> "COMPLETED"
    [] result = "aborted" -> "CANCELLED"
    [] result = "stalled" -> "STALL"
    [] result = "overrun" -> "OVERFLOW"
    [] OTHER -> "ERROR"

HandleCallback ==
  /\ polled /\ messages # <<>> /\ Head(messages) # Gone
  /\ LET t == Head(messages).transfer
         result == Head(messages).result
     IN /\ phase' = [phase EXCEPT ![t] = TransferStatus(t, result)]
        /\ timed_out' = [timed_out EXCEPT ![t] = @ \/ result = "timeout"]
  /\ messages' = Tail(messages)
  /\ UNCHANGED <<type, asked, framelist, io, device, polled>>

(* Everything in flight is reported, and the pipe is not read any more.    *)
HandleGone_StillPolled ==
  /\ polled /\ messages # <<>> /\ Head(messages) = Gone
  /\ phase' = [t \in Transfers |-> IF phase[t] = "flying" THEN "NO_DEVICE" ELSE phase[t]]
  /\ framelist' = [t \in Transfers |-> framelist[t] /\ phase[t] # "flying"]
  /\ messages' = Tail(messages)
  /\ UNCHANGED <<type, flags, io, device, polled>>
HandleGone ==
  /\ polled /\ messages # <<>> /\ Head(messages) = Gone
  /\ polled' = FALSE
  /\ phase' = [t \in Transfers |-> IF phase[t] = "flying" THEN "NO_DEVICE" ELSE phase[t]]
  /\ framelist' = [t \in Transfers |-> framelist[t] /\ phase[t] # "flying"]
  /\ messages' = Tail(messages)
  /\ UNCHANGED <<type, flags, io, device>>
-----------------------------------------------------------------------------
EventThread == DevicesDetached \/ \E t \in Transfers : AsyncIoCallback(t)
HandleEvents == HandleCallback \/ HandleGone
Next ==
  \/ EventThread \/ HandleEvents \/ Unplug
  \/ \E t \in Transfers : Submit(t) \/ SubmitFails(t) \/ Renew(t) \/ Cancel(t) \/ TimeOut(t)

Fairness == WF_vars(DevicesDetached) /\ WF_vars(HandleEvents)
              /\ \A t \in Transfers : WF_vars(io[t] = "aborting" /\ AsyncIoCallback(t))
Spec == Init /\ [][Next]_vars /\ Fairness
-----------------------------------------------------------------------------
TypeOK ==
  /\ phase \in [Transfers -> {"idle", "flying", "COMPLETED", "ERROR", "TIMED_OUT", "CANCELLED",
                              "STALL", "NO_DEVICE", "OVERFLOW"}]
  /\ io \in [Transfers -> {"none", "flying", "aborting"}]
  /\ device \in {"present", "gone", "told"}
  /\ Len(messages) <= Cardinality(Transfers) + 1
  /\ type = "iso" => \A t \in Transfers : phase[t] = "flying" => framelist[t]

(* A transfer in flight is IOKit's, or there is one message about it that  *)
(* will be read; a transfer that was reported is not touched by IOKit or   *)
(* by a message any more.  Except that a device that went away is done     *)
(* with before IOKit is (usbi_handle_disconnect does not wait).            *)
Pending(t) == {i \in DOMAIN messages : messages[i].transfer = t}
OnePlace ==
  \A t \in Transfers :
    /\ polled => Cardinality(Pending(t)) = IF phase[t] = "flying" /\ io[t] = "none" THEN 1 ELSE 0
    /\ polled /\ phase[t] # "flying" => io[t] = "none"
=============================================================================
