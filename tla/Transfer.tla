------------------------------ MODULE Transfer -------------------------------
(***************************************************************************)
(* What each backend of libusb promises of a transfer: after a submission  *)
(* that succeeded it is in flight, until it is finished with one result.   *)
(* The result is CANCELLED only if someone asked for that, on this         *)
(* transfer or, where a backend can only stop all transfers of an          *)
(* endpoint together, on another of the endpoint; and a transfer that was  *)
(* asked to stop does stop.  Only a reset of the device may make a backend *)
(* forget transfers (that of Windows does).                                *)
(***************************************************************************)
VARIABLES phase,   (* "idle", "flying", "lost" or the result                *)
          asked,   (* to be cancelled                                       *)
          reset    (* the device has been reset                             *)

Results == {"COMPLETED", "ERROR", "TIMED_OUT", "CANCELLED", "STALL", "NO_DEVICE", "OVERFLOW"}

Init == phase = "idle" /\ asked = FALSE /\ reset = FALSE

Submit == phase = "idle" /\ phase' = "flying" /\ UNCHANGED <<asked, reset>>

Ask == phase = "flying" /\ asked' = TRUE /\ UNCHANGED <<phase, reset>>

Finish(result) ==
  /\ phase = "flying" /\ (result = "CANCELLED" => asked)
  /\ phase' = result /\ UNCHANGED <<asked, reset>>

(* The callback has run, the transfer may be submitted again.              *)
Renew == phase \in Results /\ phase' = "idle" /\ asked' = FALSE /\ UNCHANGED reset

Reset ==
  /\ reset' = TRUE
  /\ phase' \in {phase, IF phase = "flying" THEN "lost" ELSE phase}
  /\ UNCHANGED asked

Next == Submit \/ Ask \/ (\E result \in Results : Finish(result)) \/ Renew \/ Reset

vars == <<phase, asked, reset>>
Stop == asked /\ \E result \in Results : Finish(result)

Spec == Init /\ [][Next]_vars /\ WF_vars(Stop)
=============================================================================
