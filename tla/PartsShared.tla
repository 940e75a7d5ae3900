---------------------------- MODULE PartsShared -----------------------------
(***************************************************************************)
(* The variables of several parts, which have the same name in each.       *)
(***************************************************************************)
VARIABLES sysfs, pc, at, todo, dev, thread, open
=============================================================================
