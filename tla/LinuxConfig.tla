----------------------------- MODULE LinuxConfig ----------------------------
(***************************************************************************)
(* The active configuration of a device, as libusb on Linux knows it:      *)
(* read from sysfs at each call, or kept in memory since the device was    *)
(* found or the program last set the configuration.  A kernel driver or    *)
(* another program may set it at any time.                                 *)
(*                                                                         *)
(* Configurations are 1 and 2, and 0 is none.  A descriptor is a sequence  *)
(* of parts <<configuration, number>>; the first one holds its length.     *)
(***************************************************************************)
EXTENDS Integers, SequencesExt

VARIABLES
  sysfs,      (* sysfs_has_descriptors                                       *)
  all,        (* the kernel's descriptors file has all configurations        *)
  order,      (* of the configurations in the files                          *)
  lengths,    (* of each descriptor                                          *)
  active,     (* the configuration of the device                             *)
  cached,     (* config_descriptor, 0 for NULL                               *)
  initialized,  (* initialize_device has run                                 *)
  known,      (* the cache was filled from the active configuration, and     *)
              (* that was only changed through this handle since             *)
  call,       (* where libusb_get_active_config_descriptor is                *)
  value,      (* bConfigurationValue                                         *)
  len,        (* wTotalLength, the length of its buffer                      *)
  buf,        (* what it has read                                            *)
  during      (* configurations that were active during the call             *)

rigid == <<sysfs, all, order, lengths>>
device == <<active, cached, initialized, known>>
reading == <<call, value, len, buf, during>>
vars == <<rigid, device, reading>>

Configs == {1, 2}
Parts(c) == [i \in 1 .. lengths[c] |-> <<c, i>>]
(* What follows the device descriptor in the file of usbfs, and of sysfs   *)
Usbfs == Parts(order[1]) \o Parts(order[2])
Descriptors == IF all THEN Usbfs ELSE IF active = 0 THEN <<>> ELSE Parts(active)

Init ==
  /\ sysfs \in BOOLEAN /\ all \in BOOLEAN
  /\ order \in {<<1, 2>>, <<2, 1>>} /\ lengths \in [Configs -> {2, 3}]
  /\ active \in {0, 1, 2} /\ cached = 0 /\ initialized = sysfs /\ known = FALSE
  /\ call = "no" /\ value = 0 /\ len = 0 /\ buf = <<>> /\ during = {}
-----------------------------------------------------------------------------
(* usbi_get_config_index_by_value, 0 if there is none                      *)
IndexByValue(c) == IF c \in Configs THEN CHOOSE i \in 1 .. 2 : order[i] = c ELSE 0

(* get_config_descriptor: seek_to_next_config skips those before           *)
ConfigDescriptor(i) ==
  LET skip == IF i = 1 THEN 0 ELSE lengths[Usbfs[1][1]]
  IN SubSeq(Usbfs, skip + 1, skip + lengths[Usbfs[skip + 1][1]])

(* cache_active_config, which does not know the value if it is -1          *)
CacheActiveConfig(c) ==
  IF c = -1 THEN ConfigDescriptor(1)[1][1]
  ELSE IF IndexByValue(c) = 0 THEN cached ELSE ConfigDescriptor(IndexByValue(c))[1][1]

(* initialize_device: which configuration is active comes from sysfs, or   *)
(* from the device, or is not known because the node is read-only.  If     *)
(* there is none, nothing is cached.                                       *)
InitializeDevice ==
  /\ ~initialized /\ initialized' = TRUE
  /\ \E relate, readonly \in BOOLEAN :
       LET none == active = 0 /\ (relate \/ ~readonly)
       IN /\ cached' = IF none THEN 0 ELSE CacheActiveConfig(IF readonly THEN -1 ELSE active)
          /\ known' = (cached' = active)
  /\ UNCHANGED <<rigid, active, reading>>

(* The device does not say which is active: nothing is cached.             *)
InitializeUnconfigured ==
  /\ ~initialized /\ initialized' = TRUE
  /\ cached' = 0 /\ known' = (active = 0)
  /\ UNCHANGED <<rigid, active, reading>>

Activates(c) ==
  /\ active' = c
  /\ during' = IF call = "no" THEN during ELSE during \cup {c}

(* op_set_configuration.  -1, or 0, is none.                               *)
SetConfiguration(c) ==
  /\ call = "no" /\ initialized /\ c # active
  /\ Activates(IF c = -1 THEN 0 ELSE c)
  /\ IF sysfs THEN UNCHANGED <<cached, known>>
     ELSE \/ cached' = (IF c = -1 THEN 0 ELSE CacheActiveConfig(c)) /\ known' = (c # 0)
          \/ c # -1 /\ known' = FALSE /\ UNCHANGED cached
  /\ UNCHANGED <<rigid, initialized, call, value, len, buf>>

(* Somebody else does.                                                     *)
Reconfigure(c) ==
  /\ c # active /\ Activates(c)
  /\ known' = FALSE
  /\ UNCHANGED <<rigid, cached, initialized, call, value, len, buf>>
-----------------------------------------------------------------------------
(* libusb_get_active_config_descriptor asks the backend twice: "value" and *)
(* "header" for the length, "again", "config" and "rest" for the           *)
(* descriptor.                                                             *)
Begin ==
  /\ call = "no" /\ initialized
  /\ call' = "value" /\ value' = 0 /\ len' = 0 /\ buf' = <<>> /\ during' = {active}
  /\ UNCHANGED <<rigid, device>>

Ends == call' = "no" /\ buf' = <<>> /\ value' = 0 /\ len' = 0
Fails ==
  /\ call # "no" /\ Ends
  /\ UNCHANGED <<rigid, device, during>>

(* sysfs_get_active_config                                                 *)
ActiveConfig ==
  /\ sysfs /\ call \in {"value", "again"} /\ active # 0
  /\ value' = active
  /\ call' = IF call = "value" THEN "header" ELSE "config"
  /\ UNCHANGED <<rigid, device, len, buf, during>>

(* The place in the file of the configuration that has the value.          *)
Places == {i \in DOMAIN Descriptors : Descriptors[i] = <<value, 1>>}

ReadHeader ==
  /\ sysfs /\ call = "header" /\ Places # {}
  /\ len' = lengths[value] /\ call' = "again"
  /\ UNCHANGED <<rigid, device, value, buf, during>>

ReadConfig ==
  /\ sysfs /\ call = "config" /\ Places # {}
  /\ buf' = <<<<value, 1>>>> /\ call' = "rest"
  /\ UNCHANGED <<rigid, device, value, len, during>>

(* The file goes on from there, as it is now.                              *)
ReadRest ==
  /\ sysfs /\ call = "rest"
  /\ LET i == IF all THEN CHOOSE j \in Places : TRUE ELSE 1 IN
       /\ i + len - 1 <= Len(Descriptors)
       /\ buf' = buf \o SubSeq(Descriptors, i + 1, i + len - 1)
  /\ call' = "done"
  /\ UNCHANGED <<rigid, device, value, len, during>>

(* usbfs_get_active_config_descriptor                                      *)
ReadCached ==
  /\ ~sysfs /\ call = "value" /\ cached # 0
  /\ len' = lengths[cached] /\ buf' = Parts(cached) /\ call' = "done"
  /\ UNCHANGED <<rigid, device, value, during>>

Return ==
  /\ call = "done" /\ Ends
  /\ UNCHANGED <<rigid, device, during>>

Next ==
  \/ InitializeDevice \/ InitializeUnconfigured
  \/ \E c \in {-1, 0, 1, 2} : SetConfiguration(c)
  \/ \E c \in {0, 1, 2} : Reconfigure(c)
  \/ Begin \/ Fails \/ ActiveConfig \/ ReadHeader \/ ReadConfig \/ ReadRest \/ ReadCached
  \/ Return
-----------------------------------------------------------------------------
TypeOK ==
  /\ active \in {0, 1, 2} /\ cached \in {0, 1, 2} /\ initialized \in BOOLEAN
  /\ known \in BOOLEAN /\ value \in {0, 1, 2} /\ len \in 0 .. 3
  /\ call \in {"no", "value", "header", "again", "config", "rest", "done"}
  /\ during \subseteq {0, 1, 2}

(* The descriptor that is returned is whole, and of a configuration that   *)
(* was active during the call: from sysfs if the configuration did not     *)
(* change during the call, or, on a kernel with all configurations in the  *)
(* file, if it changed to one of the same length; from the cache if only   *)
(* this handle has changed the configuration, and the cache was filled.    *)
Reliable ==
  IF sysfs THEN Cardinality(during) = 1 \/ (all /\ lengths[1] = lengths[2])
  ELSE known
ReturnsActive ==
  call = "done" /\ Reliable => \E c \in during \ {0} : buf = Parts(c)
=============================================================================
