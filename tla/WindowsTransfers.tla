-------------------------- MODULE WindowsTransfers --------------------------
(***************************************************************************)
(* The transfers of an open device in the Windows backend of libusb        *)
(* (os/windows_usb.c).  Windows has no access to a device but through the  *)
(* driver of one of its interfaces, WinUSB or HID.  A bulk transfer goes   *)
(* to the interface of its endpoint.  A control transfer goes to any       *)
(* interface that is open, and the backend claims one if there is none: it *)
(* counts the transfers for which it did, and releases the interface when  *)
(* the last of them has ended.                                             *)
(*                                                                         *)
(* An I/O request comes with an overlapped structure, for which the        *)
(* emulation of poll (os/poll_windows.c) has a descriptor, and a HID       *)
(* request with a buffer of its own.  Isochronous transfers are not        *)
(* supported by either driver.                                             *)
(***************************************************************************)
EXTENDS Integers, FiniteSetsExt

CONSTANTS Ifaces, Transfers,  (* numbers; the first interface is 0          *)
          MaxAutoclaims       (* bound on each autoclaim_count              *)

VARIABLES
  composite,     (* interfaces are functions of their own                   *)
  api,           (* "winusb" or "hid", of each interface                    *)
  restricted,    (* interfaces with restricted_functionality                *)
  kind, target,  (* "control", or "bulk" and the interface of its endpoint  *)
  claimed,       (* claimed_interfaces of the libusb_device_handle          *)
  handle,        (* WinUSB: api_handle is valid; HID: INTERFACE_CLAIMED     *)
  autoclaim_count,
  phase,         (* of each transfer: "idle", "unclaimed" or "ready" within *)
                 (* the submission, "flying", "lost", or the result         *)
  asked,         (* an abort reached its I/O                                *)
  timed_out,     (* USBI_TRANSFER_TIMED_OUT                                 *)
  interface_number, hid_buffer,   (* of the windows_transfer_priv           *)
  fd,            (* its descriptor exists, and is polled                    *)
  io,            (* "none", "pending", or how the request ended             *)
  reset          (* the device has been reset                               *)

rigid == <<composite, api, restricted, kind, target>>
claims == <<claimed, handle, autoclaim_count>>
request == <<interface_number, hid_buffer, fd, io>>
vars == <<rigid, claims, phase, asked, timed_out, request, reset>>

All(value) == [t \in Transfers |-> value]
Set(f, ts, value) == [t \in DOMAIN f |-> IF t \in ts THEN value ELSE f[t]]

Init ==
  /\ composite \in BOOLEAN /\ api \in [Ifaces -> {"winusb", "hid"}]
  /\ restricted \in {{}, {0}}
  /\ composite \/ (restricted = {} /\ \A i \in Ifaces : api[i] = api[0])
  /\ kind \in [Transfers -> {"control", "bulk"}] /\ target \in [Transfers -> Ifaces]
  /\ \A t \in Transfers : kind[t] = "control" => target[t] = 0
  /\ \A t, u \in Transfers : t < u /\ kind[t] = "bulk" => kind[u] = "bulk"
  /\ claimed = {} /\ handle = {} /\ autoclaim_count = [i \in Ifaces |-> 0]
  /\ phase = All("idle") /\ asked = All(FALSE) /\ timed_out = All(FALSE)
  /\ interface_number = All(0) /\ hid_buffer = All(FALSE) /\ fd = All(FALSE) /\ io = All("none")
  /\ reset = FALSE
-----------------------------------------------------------------------------
(* Claiming, by libusb_claim_interface, which does nothing when the        *)
(* interface is claimed already.                                           *)

\* The second interface of a function is reached through the first.
Opened(i) == {i} \cup IF composite \/ api[i] = "hid" THEN {} ELSE {0}

Claims(i) ==
  /\ claimed' = claimed \cup {i}
  /\ handle' = IF i \in claimed THEN handle ELSE handle \cup Opened(i)

\* An attempt that fails invalidates the handle of WinUSB.
AfterFailing(is) == handle \ {i \in is : api[i] = "winusb"}

Releases(i) ==
  IF i \in claimed /\ i \in handle
  THEN claimed' = claimed \ {i} /\ handle' = handle \ {i}
  ELSE UNCHANGED <<claimed, handle>>

Claim(i) ==
  /\ i \notin claimed
  /\ \/ Claims(i)
     \/ handle' = AfterFailing({i}) /\ UNCHANGED claimed
  /\ UNCHANGED <<rigid, autoclaim_count, phase, asked, timed_out, request, reset>>

Release(i) ==
  /\ i \in claimed
  /\ Releases(i)
  /\ UNCHANGED <<rigid, autoclaim_count, phase, asked, timed_out, request, reset>>
-----------------------------------------------------------------------------
(* windows_submit_transfer: the interface, then the request.               *)

\* composite_submit_control_transfer: HID keyboards and mice in a second pass.
ControlApi ==
  api[Min(IF composite /\ Ifaces \ restricted # {} THEN Ifaces \ restricted ELSE Ifaces)]

\* get_valid_interface
Valid == {i \in handle : api[i] = ControlApi}

LookUp(t) ==
  /\ kind[t] = "control" /\ phase[t] = "idle"
  /\ hid_buffer' = [hid_buffer EXCEPT ![t] = @ /\ ControlApi # "hid"]
  /\ IF Valid = {}
     THEN /\ phase' = [phase EXCEPT ![t] = "unclaimed"]
          /\ UNCHANGED interface_number
     ELSE /\ phase' = [phase EXCEPT ![t] = "ready"]
          /\ interface_number' = [interface_number EXCEPT ![t] = Min(Valid)]
  /\ UNCHANGED <<rigid, claims, asked, timed_out, fd, io, reset>>

(* The count is of claims made here; it was meant to grow as well for      *)
(* transfers that find the interface claimed here, but those never come.   *)
AutoClaim(t) ==
  /\ phase[t] = "unclaimed"
  /\ LET candidates == {i \in Ifaces : api[i] = ControlApi}
     IN \/ \E i \in candidates :
             /\ candidates \cap claimed \cap 0 .. i - 1 = {} /\ autoclaim_count[i] < MaxAutoclaims
             /\ claimed' = claimed \cup {i}
             /\ handle' = IF i \in claimed THEN handle
                          ELSE AfterFailing(candidates \cap 0 .. i - 1) \cup Opened(i)
             /\ autoclaim_count' = [autoclaim_count EXCEPT ![i] = @ + 1]
             /\ interface_number' = [interface_number EXCEPT ![t] = i]
             /\ phase' = [phase EXCEPT ![t] = "ready"]
        \/ /\ candidates \cap claimed = {}
           /\ handle' = AfterFailing(candidates)
           /\ phase' = [phase EXCEPT ![t] = "idle"]
           /\ UNCHANGED <<claimed, autoclaim_count, interface_number>>
  /\ UNCHANGED <<rigid, asked, timed_out, hid_buffer, fd, io, reset>>

InterfaceByEndpoint(t) ==
  /\ kind[t] = "bulk" /\ phase[t] = "idle"
  /\ target[t] \in handle \/ api[target[t]] = "hid"
  /\ phase' = [phase EXCEPT ![t] = "ready"]
  /\ interface_number' = [interface_number EXCEPT ![t] = target[t]]
  /\ hid_buffer' = [hid_buffer EXCEPT ![t] = FALSE]
  /\ UNCHANGED <<rigid, claims, asked, timed_out, fd, io, reset>>

Api(t) == api[interface_number[t]]

Starts(t) ==
  /\ phase[t] = "ready" /\ (Api(t) = "winusb" => interface_number[t] \in handle)
  /\ fd' = [fd EXCEPT ![t] = TRUE]
  /\ phase' = [phase EXCEPT ![t] = "flying"]
  /\ UNCHANGED <<rigid, claims, asked, timed_out, interface_number, reset>>

Start(t) ==
  /\ Starts(t)
  /\ io' = [io EXCEPT ![t] = "pending"]
  /\ hid_buffer' = [hid_buffer EXCEPT ![t] = Api(t) = "hid"]

(* A request that is done at once has copied its data, except those of a   *)
(* HID read, which stay in the buffer.                                     *)
StartDone(t) ==
  /\ Starts(t)
  /\ io' = [io EXCEPT ![t] = "ok"]
  /\ \E kept \in BOOLEAN :
       /\ kept => Api(t) = "hid" /\ kind[t] = "bulk"
       /\ hid_buffer' = [hid_buffer EXCEPT ![t] = kept]

(* No descriptor, not for a handle that was released either; or the        *)
(* request fails and the descriptor is freed.  The interface stays         *)
(* auto-claimed.                                                           *)
StartFails(t) ==
  /\ phase[t] = "ready"
  /\ phase' = [phase EXCEPT ![t] = "idle"]
  /\ UNCHANGED <<rigid, claims, asked, timed_out, request, reset>>

(* hid_submit_bulk_transfer without memory for the buffer, or with more    *)
(* data than expected at once, does not free the descriptor (nor, then,    *)
(* the buffer, which the next submission frees).                           *)
StartAbandons(t) ==
  /\ phase[t] = "ready" /\ kind[t] = "bulk" /\ Api(t) = "hid"
  /\ hid_buffer' \in {hid_buffer, [hid_buffer EXCEPT ![t] = TRUE]}
  /\ phase' = [phase EXCEPT ![t] = "idle"]
  /\ UNCHANGED <<rigid, claims, asked, timed_out, interface_number, fd, io, reset>>
-----------------------------------------------------------------------------
(* Windows ends a request.                                                 *)

End(t) ==
  /\ io[t] = "pending"
  /\ \E status \in {"ok", "stall", "sem_timeout", "error"}
                     \cup IF hid_buffer[t] THEN {"over"} ELSE {} :
       io' = [io EXCEPT ![t] = status]
  /\ UNCHANGED <<rigid, claims, phase, asked, timed_out, interface_number, hid_buffer, fd, reset>>
-----------------------------------------------------------------------------
(* windows_cancel_transfer, by a thread or by the timeout handler.         *)

\* WinUSB does not abort control transfers; it aborts all on a pipe.  CancelIo
\* only stops what the calling thread has started.
Aborting(t, ts) ==
  LET pending == {u \in Transfers : io[u] = "pending" /\ interface_number[u] = interface_number[t]}
  IN IF Api(t) = "winusb"
     THEN ts = IF kind[t] = "control" \/ interface_number[t] \notin handle THEN {}
               ELSE {u \in pending : kind[u] = "bulk"}
     ELSE ts \subseteq pending

Abort(t) ==
  /\ phase[t] = "flying"
  /\ \E ts \in SUBSET Transfers :
       /\ Aborting(t, ts)
       /\ io' = Set(io, ts, "aborted") /\ asked' = Set(asked, ts, TRUE)
  /\ UNCHANGED <<rigid, claims, phase, interface_number, hid_buffer, fd, reset>>

Cancel(t) == Abort(t) /\ UNCHANGED timed_out
TimeOut(t) == ~timed_out[t] /\ Abort(t) /\ timed_out' = [timed_out EXCEPT ![t] = TRUE]
-----------------------------------------------------------------------------
(* windows_handle_events                                                   *)

CopyTransferData(t) == IF io[t] = "over" THEN "OVERFLOW" ELSE "COMPLETED"

TransferStatus(t) ==
  CASE io[t] \in {"ok", "over"} -> CopyTransferData(t)
    [] io[t] = "stall" -> "STALL"
    [] io[t] = "sem_timeout" -> "TIMED_OUT"
    [] io[t] = "aborted" -> IF timed_out[t] THEN "TIMED_OUT" ELSE "CANCELLED"
    [] OTHER -> "ERROR"

AutoRelease(i) ==
  /\ autoclaim_count' = [autoclaim_count EXCEPT ![i] = IF @ > 0 THEN @ - 1 ELSE 0]
  /\ IF autoclaim_count[i] = 1 THEN Releases(i) ELSE UNCHANGED <<claimed, handle>>

ClearTransferPriv(t) ==
  /\ fd' = [fd EXCEPT ![t] = FALSE] /\ io' = [io EXCEPT ![t] = "none"]
  /\ hid_buffer' = [hid_buffer EXCEPT ![t] = FALSE]
  /\ AutoRelease(interface_number[t])

HandleEvents(t) ==
  /\ phase[t] = "flying" /\ fd[t] /\ io[t] \notin {"none", "pending"}
  /\ phase' = [phase EXCEPT ![t] = TransferStatus(t)]
  /\ ClearTransferPriv(t)
  /\ UNCHANGED <<rigid, asked, timed_out, interface_number, reset>>

(* The callback has run; flags are cleared by the next submission.         *)
Renew(t) ==
  /\ phase[t] \notin {"idle", "unclaimed", "ready", "flying", "lost"}
  /\ phase' = [phase EXCEPT ![t] = "idle"]
  /\ asked' = [asked EXCEPT ![t] = FALSE] /\ timed_out' = [timed_out EXCEPT ![t] = FALSE]
  /\ UNCHANGED <<rigid, claims, request, reset>>
-----------------------------------------------------------------------------
(* winusb_reset_device frees the descriptors of all requests on handles    *)
(* that are valid.  Nothing will tell of those transfers any more.         *)
ResetDevice ==
  /\ \E i \in Ifaces : api[i] = "winusb"
  /\ reset' = TRUE
  /\ LET freed == {t \in Transfers : fd[t] /\ Api(t) = "winusb" /\ interface_number[t] \in handle}
     IN /\ phase' = Set(phase, freed, "lost")
        /\ fd' = Set(fd, freed, FALSE) /\ io' = Set(io, freed, "none")
  /\ UNCHANGED <<rigid, claims, asked, timed_out, interface_number, hid_buffer>>
-----------------------------------------------------------------------------
Submission(t) ==
  LookUp(t) \/ AutoClaim(t) \/ InterfaceByEndpoint(t)
    \/ Start(t) \/ StartDone(t) \/ StartFails(t) \/ StartAbandons(t)
Next ==
  \/ \E i \in Ifaces : Claim(i) \/ Release(i)
  \/ \E t \in Transfers :
       Submission(t) \/ End(t) \/ Cancel(t) \/ TimeOut(t) \/ HandleEvents(t) \/ Renew(t)
  \/ ResetDevice

Fairness == \A t \in Transfers : WF_vars(HandleEvents(t))
Spec == Init /\ [][Next]_vars /\ Fairness
-----------------------------------------------------------------------------
TypeOK ==
  /\ claimed \subseteq Ifaces /\ handle \subseteq Ifaces
  /\ autoclaim_count \in [Ifaces -> 0 .. MaxAutoclaims]
  /\ phase \in [Transfers -> {"idle", "unclaimed", "ready", "flying", "lost", "COMPLETED", "ERROR",
                              "TIMED_OUT", "CANCELLED", "STALL", "OVERFLOW"}]
  /\ interface_number \in [Transfers -> Ifaces] /\ hid_buffer \in [Transfers -> BOOLEAN]
  /\ io \in [Transfers -> {"none", "pending", "ok", "over", "stall", "sem_timeout", "aborted",
                           "error"}]

(* Exactly the transfers in flight have a descriptor and a request; the    *)
(* buffer of a HID request that is not over is there for Windows to use,   *)
(* and gone when the transfer was reported.                                *)
RequestHeld ==
  \A t \in Transfers :
    /\ (phase[t] = "flying") = fd[t] /\ fd[t] = (io[t] # "none")
    /\ io[t] = "pending" /\ Api(t) = "hid" => hid_buffer[t]
    /\ phase[t] \in {"COMPLETED", "ERROR", "TIMED_OUT", "CANCELLED", "STALL", "OVERFLOW"}
         => ~hid_buffer[t]

(* The end of a transfer does not take the interface from another one that *)
(* is in flight on it ("so that we can prevent an early release").         *)
KeepsAutoclaims ==
  \A t, u \in Transfers :
    t # u /\ HandleEvents(t) /\ phase[u] = "flying" /\ interface_number[u] \in handle
      => interface_number[u] \in handle'
=============================================================================
