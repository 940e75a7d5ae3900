----------------------------- MODULE MCTransfers -----------------------------
(***************************************************************************)
(* Two transfers of the backends.                                          *)
(***************************************************************************)
EXTENDS Backends

Two == {1, 2}
TwoIfaces == {0, 1}

(* A WinUSB or a HID device, or a composite one with both; WinUSB comes    *)
(* first there, or a HID interface that is restricted.                     *)
Devices ==
  /\ composite => api[0] # api[1] /\ (restricted = {0}) = (api[0] = "hid")
  /\ kind[1] = "bulk" => target[1] = target[2]

MCInit == Init /\ (os = "windows" => Devices)
MCSpec == MCInit /\ [][Next]_vars /\ Fairness

T1 == INSTANCE Transfer WITH phase <- Phase(1), asked <- Asked(1), reset <- Reset
T2 == INSTANCE Transfer WITH phase <- Phase(2), asked <- Asked(2), reset <- Reset
ImplementsTransfer == T1!Spec /\ T2!Spec
=============================================================================
