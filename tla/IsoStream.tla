----------------------------- MODULE IsoStream ------------------------------
(***************************************************************************)
(* The isochronous transfers under a camera stream: fnusb_start_iso,       *)
(* iso_callback and fnusb_stop_iso of usb_libusb10.c, with the parts of    *)
(* freenect_start_* and freenect_stop_* (cameras.c) around them.           *)
(*                                                                         *)
(* NumXfers transfers are allocated and submitted.  Each completes, runs   *)
(* its callback, and is submitted again by it.  Stopping sets dead,        *)
(* cancels everything, and handles events until dead_xfers, incremented by *)
(* every callback of a dead stream, has reached num_xfers; then everything *)
(* is freed.                                                               *)
(*                                                                         *)
(* Two threads matter: the one that starts and stops the stream, and the   *)
(* one in libusb_handle_events, of which libusb's events lock admits one   *)
(* at a time.  With own_events they are the same thread, as in glview.c:    *)
(* callbacks then only run inside the calls of the first that handle       *)
(* events.  Otherwise a second thread handles events, too: in the plug-in  *)
(* the main thread does, within freenect_set_led and                       *)
(* freenect_set_tilt_degs.                                                 *)
(***************************************************************************)
EXTENDS Integers, FiniteSets

CONSTANT NumXfers   (* NUM_XFERS *)

ASSUME IsoAssumption == NumXfers \in Nat

Xfers == 1 .. NumXfers

VARIABLES
  pc,          (* what the controlling thread is at                          *)
  i,           (* its loop variable                                          *)
  running,     (* packet_stream.running                                      *)
  bufs,        (* packet_stream's buffers are allocated                      *)
  dead, dead_xfers,   (* fnusb_isoc_stream                                   *)
  xfer,        (* state of each transfer, "none" when not allocated          *)
  cb,          (* what the callback that runs is at, "none" if none does     *)
  cur,         (* its transfer                                               *)
  own_events,  (* only the controlling thread handles events                 *)
  may_fail     (* libusb_submit_transfer may return an error                 *)

stream == <<running, bufs, dead, dead_xfers>>
state == <<pc, i, stream, xfer, cb, cur>>
rigid == <<own_events, may_fail>>
vars == <<state, rigid>>

InFlight == {"flying", "cancelled", "done", "error", "callback"}
XferState == InFlight \cup {"none", "idle", "dead"}

Init ==
  /\ pc = "stopped" /\ i = 1
  /\ running = FALSE /\ bufs = FALSE
  /\ dead = FALSE /\ dead_xfers = 0
  /\ xfer = [x \in Xfers |-> "none"]
  /\ cb = "none" /\ cur \in Xfers
  /\ own_events \in BOOLEAN /\ may_fail \in BOOLEAN
-----------------------------------------------------------------------------
(* The controlling thread: freenect_start_depth and freenect_stop_depth,   *)
(* or their twins for video.                                               *)

\* A thread is not in two places at once.
Control(from) == pc = from /\ (own_events => cb = "none")

(* stream_init allocates the buffers, fnusb_start_iso resets the counts. *)
StartIso ==
  /\ Control("stopped")
  /\ bufs' = TRUE /\ dead' = FALSE /\ dead_xfers' = 0
  /\ i' = 1 /\ pc' = "submit"
  /\ UNCHANGED <<running, xfer, cb, cur>>

\* What libusb_submit_transfer may leave a transfer in.
Submitted == {"flying"} \cup (IF may_fail THEN {"idle"} ELSE {})

(* One turn of fnusb_start_iso's loop; a failed submission is only logged. *)
SubmitNext_OneTooMany ==
  /\ Control("submit") /\ i =< NumXfers + 1
  /\ \E s \in Submitted : xfer' = [xfer EXCEPT ![i] = s]
  /\ i' = i + 1
  /\ UNCHANGED <<pc, stream, cb, cur>>
SubmitNext ==
  /\ Control("submit") /\ i =< NumXfers
  /\ \E s \in Submitted : xfer' = [xfer EXCEPT ![i] = s]
  /\ i' = i + 1
  /\ UNCHANGED <<pc, stream, cb, cur>>

(* The registers are written by control transfers, which handle events. *)
StartRegisters ==
  /\ Control("submit") /\ i > NumXfers
  /\ pc' = "starting"
  /\ UNCHANGED <<i, stream, xfer, cb, cur>>

StartDone ==
  /\ Control("starting")
  /\ running' = TRUE /\ pc' = "up"
  /\ UNCHANGED <<i, bufs, dead, dead_xfers, xfer, cb, cur>>

StopRegisters_FreeingFirst ==
  /\ Control("up")
  /\ running' = FALSE /\ bufs' = FALSE /\ pc' = "stopping"
  /\ UNCHANGED <<i, dead, dead_xfers, xfer, cb, cur>>
StopRegisters ==
  /\ Control("up")
  /\ running' = FALSE /\ pc' = "stopping"
  /\ UNCHANGED <<i, bufs, dead, dead_xfers, xfer, cb, cur>>

StopIso ==
  /\ Control("stopping")
  /\ dead' = TRUE /\ i' = 1 /\ pc' = "cancel"
  /\ UNCHANGED <<running, bufs, dead_xfers, xfer, cb, cur>>

(* One turn of the cancel loop: a no-op on a transfer that is not flying. *)
CancelNext ==
  /\ Control("cancel") /\ i =< NumXfers
  /\ xfer' = [xfer EXCEPT ![i] = IF @ = "flying" THEN "cancelled" ELSE @]
  /\ i' = i + 1
  /\ UNCHANGED <<pc, stream, cb, cur>>

CancelDone ==
  /\ Control("cancel") /\ i > NumXfers
  /\ pc' = "drain"
  /\ UNCHANGED <<i, stream, xfer, cb, cur>>

\* while (strm->dead_xfers < strm->num_xfers)
Drained_OneEarly == dead_xfers >= NumXfers - 1
Drained_AtOnce == TRUE
Drained == dead_xfers >= NumXfers

(* Everything of the isochronous stream is freed, and the struct zeroed. *)
FreeIso ==
  /\ Control("drain") /\ Drained
  /\ xfer' = [x \in Xfers |-> "none"]
  /\ dead' = FALSE /\ dead_xfers' = 0
  /\ pc' = "free"
  /\ UNCHANGED <<i, running, bufs, cb, cur>>

(* stream_freebufs; freenect_stop_* returns. *)
FreeBufs ==
  /\ Control("free")
  /\ bufs' = FALSE /\ pc' = "stopped"
  /\ UNCHANGED <<i, running, dead, dead_xfers, xfer, cb, cur>>
-----------------------------------------------------------------------------
(* The transfers and their callback. *)

(* The bus schedule, an error or a cancellation completes a transfer. *)
Complete(x) ==
  /\ xfer[x] \in {"flying", "cancelled"}
  /\ \E s \in {"done", "error"} : xfer' = [xfer EXCEPT ![x] = s]
  /\ UNCHANGED <<pc, i, stream, cb, cur>>

\* Some thread is in libusb_handle_events.
Handling == own_events => pc \in {"starting", "up", "stopping", "drain"}

Callback(x) ==
  /\ cb = "none" /\ Handling
  /\ xfer[x] \in {"done", "error"}
  /\ cur' = x

(* The stream is dead: count the transfer, then log its endpoint. *)
CallbackDead_Freeing(x) ==
  /\ Callback(x) /\ dead
  /\ dead_xfers' = dead_xfers + 1
  /\ xfer' = [xfer EXCEPT ![x] = "none"]
  /\ cb' = "log"
  /\ UNCHANGED <<pc, i, running, bufs, dead>>
CallbackDead(x) ==
  /\ Callback(x) /\ dead
  /\ dead_xfers' = dead_xfers + 1
  /\ xfer' = [xfer EXCEPT ![x] = "dead"]
  /\ cb' = "log"
  /\ UNCHANGED <<pc, i, running, bufs, dead>>

(* The transfer failed: it is counted now and not submitted again. *)
CallbackError_Resubmitting(x) ==
  /\ Callback(x) /\ ~dead /\ xfer[x] = "error"
  /\ dead_xfers' = dead_xfers + 1
  /\ xfer' = [xfer EXCEPT ![x] = "flying"]
  /\ UNCHANGED <<pc, i, running, bufs, dead, cb>>
CallbackError_NotCounting(x) ==
  /\ Callback(x) /\ ~dead /\ xfer[x] = "error"
  /\ xfer' = [xfer EXCEPT ![x] = "dead"]
  /\ UNCHANGED <<pc, i, stream, cb>>
CallbackError(x) ==
  /\ Callback(x) /\ ~dead /\ xfer[x] = "error"
  /\ dead_xfers' = dead_xfers + 1
  /\ xfer' = [xfer EXCEPT ![x] = "dead"]
  /\ UNCHANGED <<pc, i, running, bufs, dead, cb>>

CallbackDone(x) ==
  /\ Callback(x) /\ ~dead /\ xfer[x] = "done"
  /\ xfer' = [xfer EXCEPT ![x] = "callback"]
  /\ cb' = "packet"
  /\ UNCHANGED <<pc, i, stream>>

(* depth_process or video_process: a stopped stream drops the packet. One  *)
(* packet stands for the pkts of a transfer.                               *)
PacketDropped ==
  /\ cb = "packet" /\ ~running
  /\ cb' = "submit"
  /\ UNCHANGED <<pc, i, stream, xfer, cur>>

PacketTaken ==
  /\ cb = "packet" /\ running
  /\ cb' = "copy"
  /\ UNCHANGED <<pc, i, stream, xfer, cur>>

(* stream_process, conversion and the user's callback, in the buffers. *)
Processed ==
  /\ cb = "copy"
  /\ cb' = "submit"
  /\ UNCHANGED <<pc, i, stream, xfer, cur>>

(* A resubmission that fails goes unnoticed. *)
Resubmit ==
  /\ cb = "submit"
  /\ \E s \in Submitted : xfer' = [xfer EXCEPT ![cur] = s]
  /\ cb' = "none"
  /\ UNCHANGED <<pc, i, stream, cur>>

(* The endpoint is read from the transfer, and the counts from the stream. *)
Logged ==
  /\ cb = "log"
  /\ cb' = "none"
  /\ UNCHANGED <<pc, i, stream, xfer, cur>>
-----------------------------------------------------------------------------
\* The controlling thread's steps inside a call.
Working ==
  \/ SubmitNext \/ StartRegisters \/ StartDone
  \/ StopIso \/ CancelNext \/ CancelDone \/ FreeIso \/ FreeBufs

\* The steps of the thread that handles events.
Handle ==
  \/ \E x \in Xfers : CallbackDead(x) \/ CallbackError(x) \/ CallbackDone(x)
  \/ PacketDropped \/ PacketTaken \/ Processed \/ Resubmit \/ Logged

Next ==
  /\ \/ StartIso \/ StopRegisters \/ Working
     \/ Handle
     \/ \E x \in Xfers : Complete(x)
  /\ UNCHANGED rigid

Spec == Init /\ [][Next]_vars

(* Somebody handles events while a call is under way, and isochronous      *)
(* transfers complete on schedule.  A call goes on, also if its thread has *)
(* to handle events first: libusb_control_transfer looks for its own       *)
(* completion after every round of events, and completions are handled     *)
(* first come, first served.  Nobody has to start or stop a stream.        *)
FairSpec ==
  /\ Spec
  /\ SF_state(Working) /\ WF_state(Handle)
  /\ \A x \in Xfers : WF_state(Complete(x))
-----------------------------------------------------------------------------
TypeOK ==
  /\ pc \in {"stopped", "submit", "starting", "up", "stopping", "cancel", "drain", "free"}
  /\ i \in 1 .. NumXfers + 1
  /\ running \in BOOLEAN /\ bufs \in BOOLEAN
  /\ dead \in BOOLEAN /\ dead_xfers \in Nat
  /\ xfer \in [Xfers -> XferState]
  /\ cb \in {"none", "packet", "copy", "submit", "log"}
  /\ cur \in Xfers

(* "It is not legal to free an active transfer": fnusb_stop_iso frees a    *)
(* transfer only after its callback was called for the last time.          *)
NoFreeInFlight ==
  [][\A x \in Xfers : xfer[x] \in InFlight => xfer'[x] # "none"]_vars

(* dead_xfers counts every transfer that is out of the game once: neither  *)
(* an error before the stop nor one after it is counted twice.             *)
CountsOnce == dead_xfers = Cardinality({x \in Xfers : xfer[x] = "dead"})

(* A callback writes into the stream's buffers only while these are        *)
(* allocated, also when it checked running just before a stop cleared it.  *)
BuffersHeld == cb = "copy" => bufs

(* A callback at work has its transfer and its stream.                     *)
CallbackHeld == cb \in {"packet", "copy", "submit"} => xfer[cur] = "callback"

(* So has one that logs, after it counted the transfer, if no other thread *)
(* handles events: the count is what the stop waits for.                   *)
LogHeld == own_events /\ cb = "log" => xfer[cur] = "dead"

(* When freenect_stop_* has returned nothing is left that could call back. *)
QuietWhenStopped ==
  pc = "stopped" => /\ cb \in {"none", "log"}
                    /\ \A x \in Xfers : xfer[x] = "none"

(* freenect_stop_* returns, if submissions do not fail, ...                *)
StopReturns == pc = "stopping" /\ ~may_fail ~> pc = "stopped"

(* ... and "0 on success, < 0 on error" says that it does so at any rate.  *)
StopAlwaysReturns == pc = "stopping" ~> pc = "stopped"
=============================================================================
