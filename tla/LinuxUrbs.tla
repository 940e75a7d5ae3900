----------------------------- MODULE LinuxUrbs ------------------------------
(***************************************************************************)
(* One transfer of the Linux backend of libusb (os/linux_usbfs.c): it is   *)
(* cut into URBs, which the kernel takes one by one, finishes in the order *)
(* of submission, and hands back through a queue.  URBs that are discarded *)
(* are handed back too, in the order of the discards: from the last one    *)
(* backwards.  The transfer is over when the URBs that matter have been    *)
(* reaped; then their memory is freed and the callback runs.               *)
(*                                                                         *)
(* itransfer->lock is held during a submission and a cancellation, so that *)
(* only the kernel and the device act between their ioctls.                *)
(*                                                                         *)
(* The data are units, numbered as the device sends them; an URB holds Cap *)
(* of them.  An isochronous URB has one packet.                            *)
(***************************************************************************)
EXTENDS Integers, SequencesExt

CONSTANTS MaxUrbs,   (* URBs of a transfer at most                          *)
          Cap        (* units in a full URB (MAX_BULK_BUFFER_LENGTH)        *)

VARIABLES
  kind, continuation,   (* of the transfer; supports_flag_bulk_continuation *)
  phase,         (* "idle", "submitting", "flying", or the result           *)
  asked,         (* libusb_cancel_transfer was called                       *)
  urbs,          (* the memory of the URBs is allocated                     *)
  num_urbs, num_retired, reap_action, reap_status,   (* linux_transfer_priv *)
  iso_packet_offset,
  transferred,   (* of the usbi_transfer                                    *)
  buffer,        (* the unit at each place of the buffer, 0 for none        *)
  results,       (* URB whose result each iso packet descriptor holds       *)
  todo,          (* URBs still to submit, or to discard                     *)
  urb,           (* what the kernel knows of each URB                       *)
  queue,         (* finished URBs, to be reaped                             *)
  endpoint,      (* "ok", "disabled" for continuation, "halted" or "gone"   *)
  sent,          (* units that the device has sent                          *)
  refused        (* a continuation URB was refused                          *)

tpriv == <<urbs, num_urbs, num_retired, reap_action, reap_status, iso_packet_offset>>
kernel == <<urb, queue, endpoint, sent, buffer>>
rigid == <<kind, continuation>>
vars == <<rigid, phase, asked, tpriv, transferred, results, todo, kernel, refused>>

Ids == 1 .. MaxUrbs
NoUrbs == [i \in Ids |-> [at |-> "none", status |-> "ok", len |-> 0]]
Empty == [p \in 1 .. MaxUrbs * Cap |-> 0]

Init ==
  /\ kind \in {"bulk", "iso", "control"} /\ continuation \in BOOLEAN
  /\ phase = "idle" /\ asked = FALSE
  /\ urbs = FALSE /\ num_urbs = 0 /\ num_retired = 0
  /\ reap_action = "NORMAL" /\ reap_status = "COMPLETED" /\ iso_packet_offset = 0
  /\ transferred = 0 /\ results = [i \in Ids |-> 0] /\ todo = {}
  /\ urb = NoUrbs /\ queue = <<>> /\ endpoint = "ok" /\ sent = 0 /\ buffer = Empty
  /\ refused = FALSE

At(where) == {i \in Ids : urb[i].at = where}
Locked == phase = "submitting" \/ todo # {}
\* USBFS_URB_BULK_CONTINUATION
Continued(i) == kind = "bulk" /\ continuation /\ i > 1
\* The place of URB i in the buffer.
Offset(i) == (i - 1) * Cap
\* URBs that follow each other, in this order.
Ascending(ids) ==
  IF ids = {} THEN <<>> ELSE [k \in 1 .. Max(ids) - Min(ids) + 1 |-> Min(ids) + k - 1]
-----------------------------------------------------------------------------
(* The kernel and the device.                                              *)

(* URB i ends with len units, and with it, empty, those of rest.           *)
End(i, status, len, rest, other) ==
  /\ urb' = [j \in Ids |-> CASE j = i -> [at |-> "reapable", status |-> status, len |-> len]
                             [] j \in rest -> [at |-> "reapable", status |-> other, len |-> 0]
                             [] OTHER -> urb[j]]
  /\ queue' = queue \o <<i>> \o Ascending(rest)
  /\ buffer' = [p \in DOMAIN buffer |->
                  IF p \in Offset(i) + 1 .. Offset(i) + len
                  THEN sent + p - Offset(i) ELSE buffer[p]]
  /\ sent' = sent + len

(* An endpoint works on its first URB.  If that does not end well, the     *)
(* continuation URBs behind it are cancelled, and no further one is taken  *)
(* until a transfer starts.                                                *)
Answer(status, len) ==
  /\ At("flying") # {} /\ endpoint \in {"ok", "halted"}
  /\ endpoint = "halted" => status = "stall" /\ len = 0
  /\ status = "ok" <=> len = Cap
  /\ kind = "iso" => status \in {"ok", "error"}
  /\ kind = "control" => status \in {"ok", "stall", "error"}
  /\ LET i == Min(At("flying"))
         stop == kind = "bulk" /\ continuation /\ status # "ok"
     IN /\ End(i, status, len, IF stop THEN At("flying") \ {i} ELSE {}, "cancelled")
        /\ endpoint' = IF stop THEN "disabled" ELSE IF status = "stall" THEN "halted" ELSE "ok"
  /\ UNCHANGED <<rigid, phase, asked, tpriv, transferred, results, todo, refused>>

(* More than fits into the last URB.                                       *)
Overflow ==
  /\ kind = "bulk" /\ At("flying") = {num_urbs} /\ endpoint = "ok"
  /\ End(num_urbs, "overflow", Cap, {}, "cancelled")
  /\ endpoint' = IF continuation THEN "disabled" ELSE "ok"
  /\ UNCHANGED <<rigid, phase, asked, tpriv, transferred, results, todo, refused>>

Unplug ==
  /\ endpoint # "gone"
  /\ endpoint' = "gone"
  /\ urb' = [i \in Ids |-> IF urb[i].at = "flying"
                           THEN [at |-> "reapable", status |-> "shutdown", len |-> 0] ELSE urb[i]]
  /\ queue' = queue \o Ascending(At("flying"))
  /\ UNCHANGED <<rigid, phase, asked, tpriv, transferred, results, todo, sent, buffer, refused>>
-----------------------------------------------------------------------------
(* op_submit_transfer                                                      *)

Submit ==
  /\ phase \notin {"submitting", "flying"} /\ At("flying") \cup At("reapable") = {}
  /\ \E n \in IF kind = "control" THEN {1} ELSE Ids : num_urbs' = n /\ todo' = 1 .. n
  /\ phase' = "submitting" /\ asked' = FALSE
  /\ urbs' = TRUE /\ num_retired' = 0 /\ reap_action' = "NORMAL" /\ reap_status' = "COMPLETED"
  /\ iso_packet_offset' = 0 /\ transferred' = 0 /\ results' = [i \in Ids |-> 0]
  /\ urb' = NoUrbs /\ queue' = <<>> /\ sent' = 0 /\ buffer' = Empty /\ refused' = FALSE
  /\ endpoint' = IF endpoint = "gone" THEN "gone" ELSE "ok"
  /\ UNCHANGED rigid

SubmitUrb ==
  /\ phase = "submitting" /\ endpoint # "gone"
  /\ LET i == Min(todo) IN
       /\ Continued(i) => endpoint # "disabled"
       /\ urb' = [urb EXCEPT ![i].at = "flying"]
       /\ todo' = todo \ {i}
  /\ phase' = IF Cardinality(todo) = 1 THEN "flying" ELSE "submitting"
  /\ UNCHANGED <<rigid, asked, tpriv, transferred, results, queue, endpoint, sent, buffer, refused>>

(* Also when there is no memory for the URBs.                              *)
SubmitFirstFails ==
  /\ phase = "submitting" /\ Min(todo) = 1
  /\ urbs' = FALSE /\ todo' = {} /\ phase' = "idle"
  /\ UNCHANGED <<rigid, asked, num_urbs, num_retired, reap_action, reap_status, iso_packet_offset,
                 transferred, results, kernel, refused>>

(* EREMOTEIO: this transfer did not need all its URBs.                     *)
SubmitRefused ==
  /\ phase = "submitting" /\ Continued(Min(todo)) /\ endpoint = "disabled"
  /\ reap_action' = "COMPLETED_EARLY"
  /\ num_retired' = num_retired + Cardinality(todo)
  /\ todo' = {} /\ phase' = "flying" /\ refused' = TRUE
  /\ UNCHANGED <<rigid, asked, urbs, num_urbs, reap_status, iso_packet_offset, transferred, results,
                 kernel>>

(* URBs before the one that failed are discarded.                          *)
SubmitFails_OffByOne ==
  /\ phase = "submitting" /\ Min(todo) > 1
  /\ Continued(Min(todo)) => endpoint # "disabled"
  /\ reap_action' = "SUBMIT_FAILED"
  /\ num_retired' = num_retired + Cardinality(todo) + 1
  /\ todo' = 1 .. Min(todo) - 1 /\ phase' = "flying"
  /\ UNCHANGED <<rigid, asked, urbs, num_urbs, reap_status, iso_packet_offset, transferred, results,
                 kernel, refused>>
SubmitFails ==
  /\ phase = "submitting" /\ Min(todo) > 1
  /\ Continued(Min(todo)) => endpoint # "disabled"
  /\ reap_action' = "SUBMIT_FAILED"
  /\ num_retired' = num_retired + Cardinality(todo)
  /\ todo' = 1 .. Min(todo) - 1 /\ phase' = "flying"
  /\ UNCHANGED <<rigid, asked, urbs, num_urbs, reap_status, iso_packet_offset, transferred, results,
                 kernel, refused>>
-----------------------------------------------------------------------------
(* op_cancel_transfer, and the discards of it and of the others            *)

Cancel ==
  /\ phase = "flying" /\ ~Locked /\ urbs /\ ~asked
  /\ asked' = TRUE
  /\ reap_action' = IF kind = "bulk" /\ reap_action = "ERROR" THEN "ERROR" ELSE "CANCELLED"
  /\ todo' = 1 .. num_urbs
  /\ UNCHANGED <<rigid, phase, urbs, num_urbs, num_retired, reap_status, iso_packet_offset,
                 transferred, results, kernel, refused>>

(* From the last one backwards; the first of the endpoint may have got     *)
(* some data.  One that the kernel does not have (EINVAL) is left alone.   *)
Discard ==
  /\ phase = "flying" /\ todo # {}
  /\ LET i == Max(todo) IN
       /\ todo' = todo \ {i}
       /\ IF urb[i].at = "flying"
          THEN \E len \in IF i = Min(At("flying")) /\ endpoint = "ok" /\ kind # "iso"
                          THEN 0 .. Cap - 1 ELSE {0} :
                 End(i, "cancelled", len, {}, "cancelled")
          ELSE UNCHANGED <<urb, queue, sent, buffer>>
  /\ UNCHANGED <<rigid, phase, asked, tpriv, transferred, results, endpoint, refused>>
-----------------------------------------------------------------------------
(* op_handle_events                                                        *)

Reapable(k) == phase = "flying" /\ ~Locked /\ urbs /\ queue # <<>> /\ kind = k

Reaped ==
  /\ queue' = Tail(queue)
  /\ urb' = [urb EXCEPT ![Head(queue)].at = "reaped"]
  /\ UNCHANGED <<rigid, asked, num_urbs, endpoint, sent, refused>>

(* The URBs are freed and the transfer is reported.                        *)
Report(result) == urbs' = FALSE /\ phase' = result
Wait == UNCHANGED <<urbs, phase>>

(* Data that came after the end are moved up to those before it.           *)
MoveUp(i) ==
  buffer' = [p \in DOMAIN buffer |->
               IF p \in transferred + 1 .. transferred + urb[i].len
               THEN buffer[Offset(i) + p - transferred] ELSE buffer[p]]

ReapAbnormal_Careless ==
  /\ Reapable("bulk") /\ reap_action # "NORMAL"
  /\ Reaped /\ num_retired' = num_retired + 1
  /\ transferred' = transferred + urb[Head(queue)].len
  /\ IF num_retired + 1 = num_urbs
     THEN /\ reap_status' = IF reap_action # "COMPLETED_EARLY" /\ reap_status = "COMPLETED"
                            THEN "ERROR" ELSE reap_status
          /\ Report(IF reap_action = "CANCELLED" THEN "CANCELLED" ELSE reap_status')
     ELSE Wait /\ UNCHANGED reap_status
  /\ UNCHANGED <<reap_action, iso_packet_offset, results, todo, buffer>>
ReapAbnormal ==
  /\ Reapable("bulk") /\ reap_action # "NORMAL"
  /\ Reaped /\ num_retired' = num_retired + 1
  /\ MoveUp(Head(queue)) /\ transferred' = transferred + urb[Head(queue)].len
  /\ IF num_retired + 1 = num_urbs
     THEN /\ reap_status' = IF reap_action # "COMPLETED_EARLY" /\ reap_status = "COMPLETED"
                            THEN "ERROR" ELSE reap_status
          /\ Report(IF reap_action = "CANCELLED" THEN "CANCELLED" ELSE reap_status')
     ELSE Wait /\ UNCHANGED reap_status
  /\ UNCHANGED <<reap_action, iso_packet_offset, results, todo>>

(* An URB that ends the transfer makes the ones behind it be discarded;    *)
(* those that continue it the kernel has cancelled itself.                 *)
ReapNormal ==
  /\ Reapable("bulk") /\ reap_action = "NORMAL"
  /\ Reaped /\ num_retired' = num_retired + 1
  /\ LET i == Head(queue)
         status == urb[i].status
         failed == status \in {"shutdown", "stall", "error"}
         last == status = "overflow" \/ (~failed /\ i = num_urbs)
                   \/ (failed /\ num_retired + 1 = num_urbs)
         early == failed \/ urb[i].len < Cap
     IN /\ transferred' = transferred + urb[i].len
        /\ reap_status' = CASE status = "shutdown" -> "NO_DEVICE"
                            [] reap_status # "COMPLETED" -> reap_status
                            [] status = "stall" -> "STALL"
                            [] status = "overflow" -> "OVERFLOW"
                            [] status = "error" -> "ERROR"
                            [] OTHER -> reap_status
        /\ reap_action' = CASE status = "error" -> "ERROR"
                            [] ~failed /\ ~last /\ early -> "COMPLETED_EARLY"
                            [] OTHER -> "NORMAL"
        /\ IF last \/ (early /\ num_retired + 1 = num_urbs)
           THEN Report(reap_status') /\ UNCHANGED todo
           ELSE /\ todo' = IF early THEN {j \in i + 1 .. num_urbs : ~Continued(j)} ELSE {}
                /\ Wait
  /\ UNCHANGED <<iso_packet_offset, results, buffer>>

(* Results go to the packets in the order in which the URBs are reaped.    *)
ReapIso ==
  /\ Reapable("iso")
  /\ Reaped /\ num_retired' = num_retired + 1
  /\ iso_packet_offset' = iso_packet_offset + 1
  /\ results' = [results EXCEPT ![iso_packet_offset + 1] = Head(queue)]
  /\ CASE reap_action # "NORMAL" /\ num_retired + 1 = num_urbs ->
            Report(IF reap_action = "CANCELLED" THEN "CANCELLED" ELSE "ERROR")
       [] reap_action = "NORMAL" /\ Head(queue) = num_urbs ->
            Report(IF urb[num_urbs].status = "shutdown" THEN "NO_DEVICE" ELSE "COMPLETED")
       [] OTHER -> Wait
  /\ UNCHANGED <<reap_action, reap_status, transferred, todo, buffer>>

ReapControl ==
  /\ Reapable("control")
  /\ Reaped
  /\ transferred' = transferred + urb[1].len
  /\ Report(IF reap_action = "CANCELLED" THEN "CANCELLED"
            ELSE CASE urb[1].status = "ok" -> "COMPLETED"
                   [] urb[1].status = "shutdown" -> "NO_DEVICE"
                   [] urb[1].status = "stall" -> "STALL"
                   [] OTHER -> "ERROR")
  /\ UNCHANGED <<num_retired, reap_action, reap_status, iso_packet_offset, results, todo, buffer>>

(* POLLERR: nothing more is reaped from this descriptor.                   *)
HandleDisconnect ==
  /\ phase = "flying" /\ ~Locked /\ urbs /\ endpoint = "gone"
  /\ Report("NO_DEVICE")
  /\ urb' = NoUrbs /\ queue' = <<>>
  /\ UNCHANGED <<rigid, asked, num_urbs, num_retired, reap_action, reap_status, iso_packet_offset,
                 transferred, results, todo, endpoint, sent, buffer, refused>>
-----------------------------------------------------------------------------
Device == Overflow \/ Unplug
            \/ \E status \in {"ok", "short", "stall", "error"}, len \in 0 .. Cap : Answer(status, len)
Submission == SubmitUrb \/ SubmitFirstFails \/ SubmitRefused \/ SubmitFails
Reap == ReapNormal \/ ReapAbnormal \/ ReapIso \/ ReapControl
Next == Device \/ Submit \/ Submission \/ Cancel \/ Discard \/ Reap \/ HandleDisconnect

Fairness == WF_vars(Submission) /\ WF_vars(Discard) /\ WF_vars(Reap)
Spec == Init /\ [][Next]_vars /\ Fairness
-----------------------------------------------------------------------------
Results == {"COMPLETED", "ERROR", "CANCELLED", "STALL", "NO_DEVICE", "OVERFLOW"}

TypeOK ==
  /\ phase \in {"idle", "submitting", "flying"} \cup Results
  /\ asked \in BOOLEAN /\ urbs \in BOOLEAN /\ refused \in BOOLEAN
  /\ num_urbs \in 0 .. MaxUrbs /\ num_retired \in 0 .. num_urbs
  /\ reap_action \in {"NORMAL", "SUBMIT_FAILED", "COMPLETED_EARLY", "CANCELLED", "ERROR"}
  /\ reap_status \in Results /\ iso_packet_offset \in 0 .. num_urbs
  /\ transferred \in 0 .. num_urbs * Cap /\ sent \in 0 .. num_urbs * Cap
  /\ todo \subseteq 1 .. num_urbs /\ ToSet(queue) = At("reapable")

(* The memory that the kernel has an URB in is not freed before that URB   *)
(* was reaped, nor is the transfer reported.  (A kernel without            *)
(* continuation URBs: see AllReaped.)                                      *)
AllReaped == phase \in Results => At("flying") \cup At("reapable") = {}
FreedWhenReaped == continuation => AllReaped

(* What the device has sent is in the buffer, in order and without holes,  *)
(* however the transfer ended, and counted.                                *)
Whole == phase \in Results /\ kind = "bulk" /\ endpoint # "gone" /\ AllReaped
Contiguous == Whole => transferred = sent /\ \A p \in 1 .. transferred : buffer[p] = p

(* A transfer is not reported as completed when its first URB that did not *)
(* end well had failed; unless that made the kernel refuse an URB, which   *)
(* submit_bulk_transfer takes for the end of the data.                     *)
FirstBad == {i \in Ids : urb[i].status # "ok" /\ \A j \in 1 .. i - 1 : urb[j].status = "ok"}
ErrorReported ==
  phase = "COMPLETED" /\ kind = "bulk" /\ AllReaped /\ ~refused
    => \A i \in FirstBad : urb[i].status \in {"short", "cancelled"}

(* A transfer that is not cancelled has each packet's result in its place. *)
IsoInPlace == phase = "COMPLETED" /\ kind = "iso" => \A i \in 1 .. num_urbs : results[i] = i

AbstractPhase == IF phase = "submitting" THEN "idle" ELSE phase
=============================================================================
