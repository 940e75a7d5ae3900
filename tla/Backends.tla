------------------------------ MODULE Backends -------------------------------
(***************************************************************************)
(* One backend of libusb or another, os, each of them a Transfer.          *)
(***************************************************************************)
EXTENDS Integers, SequencesExt

CONSTANTS
  Transfers,       (* of an endpoint, or of a device: numbers               *)
  MaxUrbs, Cap,    (* see LinuxUrbs                                         *)
  Ifaces,          (* see WindowsTransfers                                  *)
  MaxAutoclaims

ASSUME BackendsAssumption ==
  /\ Transfers \in SUBSET (Nat \ {0}) /\ IsFiniteSet(Transfers)
  /\ MaxUrbs \in Nat \ {0} /\ Cap \in Nat \ {0}
  /\ Ifaces \in SUBSET Nat /\ 0 \in Ifaces
  /\ MaxAutoclaims \in Nat

VARIABLES
  os, kind, phase, asked, timed_out, io,
  (* Linux *)
  continuation, urbs, num_urbs, num_retired, reap_action, reap_status, iso_packet_offset,
  transferred, buffer, results, todo, urb, queue, endpoint, sent, refused,
  (* Darwin *)
  type, framelist, device, polled, messages,
  (* Windows *)
  composite, api, restricted, target, claimed, handle, autoclaim_count, interface_number,
  hid_buffer, fd, reset

L == INSTANCE LinuxUrbs
D == INSTANCE DarwinTransfers
W == INSTANCE WindowsTransfers

linux == <<continuation, urbs, num_urbs, num_retired, reap_action, reap_status, iso_packet_offset,
           transferred, buffer, results, todo, urb, queue, endpoint, sent, refused>>
darwin == <<type, framelist, device, polled, messages>>
windows == <<composite, api, restricted, target, claimed, handle, autoclaim_count,
             interface_number, hid_buffer, fd, reset>>
vars == <<os, kind, phase, asked, timed_out, io, linux, darwin, windows>>

-----------------------------------------------------------------------------
(* Variables of a part that is not there are 0.                            *)
NoLinux ==
  /\ continuation = 0 /\ urbs = 0 /\ num_urbs = 0 /\ num_retired = 0 /\ reap_action = 0
  /\ reap_status = 0 /\ iso_packet_offset = 0 /\ transferred = 0 /\ buffer = 0 /\ results = 0
  /\ todo = 0 /\ urb = 0 /\ queue = 0 /\ endpoint = 0 /\ sent = 0 /\ refused = 0
NoDarwin ==
  /\ type = 0 /\ framelist = 0 /\ device = 0 /\ polled = 0 /\ messages = 0
NoWindows ==
  /\ composite = 0 /\ api = 0 /\ restricted = 0 /\ target = 0 /\ claimed = 0 /\ handle = 0
  /\ autoclaim_count = 0 /\ interface_number = 0 /\ hid_buffer = 0 /\ fd = 0 /\ reset = 0

Init ==
  \/ os = "linux" /\ L!Init /\ timed_out = 0 /\ io = 0 /\ NoDarwin /\ NoWindows
  \/ os = "darwin" /\ D!Init /\ kind = 0 /\ NoLinux /\ NoWindows
  \/ os = "windows" /\ W!Init /\ NoLinux /\ NoDarwin

OnLinux == os = "linux" /\ UNCHANGED <<os, timed_out, io, darwin, windows>>
OnDarwin == os = "darwin" /\ UNCHANGED <<os, kind, linux, windows>>
OnWindows == os = "windows" /\ UNCHANGED <<os, linux, darwin>>

Next ==
  \/ OnLinux /\ L!Next
  \/ OnDarwin /\ D!Next
  \/ OnWindows /\ W!Next

Fairness ==
  /\ WF_vars(OnLinux /\ L!Submission) /\ WF_vars(OnLinux /\ L!Discard) /\ WF_vars(OnLinux /\ L!Reap)
  /\ WF_vars(OnDarwin /\ D!DevicesDetached) /\ WF_vars(OnDarwin /\ D!HandleEvents)
  /\ \A t \in Transfers :
       /\ WF_vars(OnDarwin /\ io[t] = "aborting" /\ D!AsyncIoCallback(t))
       /\ WF_vars(OnWindows /\ W!HandleEvents(t))
Spec == Init /\ [][Next]_vars /\ Fairness
-----------------------------------------------------------------------------
(* The states of each part have their types.                               *)
TypeOK == CASE os = "linux" -> L!TypeOK [] os = "darwin" -> D!TypeOK [] OTHER -> W!TypeOK

(* What a transfer has lent to the system is held exactly as long as the   *)
(* system may use it, and reported once.  See each part.                   *)
Held ==
  CASE os = "linux" -> L!FreedWhenReaped [] os = "darwin" -> D!OnePlace [] OTHER -> W!RequestHeld

(* The data and the result that URBs bring are those of the transfer.      *)
Whole == os = "linux" => L!Contiguous /\ L!ErrorReported /\ L!IsoInPlace

(* Each transfer of each backend behaves as Transfer says.                 *)
Phase(t) ==
  CASE os = "linux" -> IF phase = "submitting" THEN "idle" ELSE phase
    [] os = "windows" -> IF phase[t] \in {"unclaimed", "ready"} THEN "idle" ELSE phase[t]
    [] OTHER -> phase[t]
Asked(t) == IF os = "linux" THEN asked ELSE asked[t]
Reset == os = "windows" /\ reset

(* No memory is freed, and no result reported, before all URBs are reaped.  *)
AllReaped == os = "linux" => L!AllReaped

(* A transfer that ends does not release an interface that others use.     *)
AutoclaimHeld == [][os = "windows" => W!KeepsAutoclaims]_vars
=============================================================================
