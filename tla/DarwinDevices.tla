--------------------------- MODULE DarwinDevices ----------------------------
(***************************************************************************)
(* A device of the Darwin backend (os/darwin_usb.c), its handles, and the  *)
(* interfaces they claim.  The first handle opens the device for all; an   *)
(* interface has an object, an event source in the run loop of the event   *)
(* thread, and a table of endpoints, all of which come and go with the     *)
(* configuration.  Every call into IOKit may fail.                         *)
(***************************************************************************)
EXTENDS Integers, SequencesExt

CONSTANTS Handles, Ifaces

VARIABLES
  configured,      (* the device has a configuration                         *)
  open_count, device,   (* of darwin_device_priv; device is not NULL         *)
  seized,          (* the kernel has the device open for us                  *)
  open,            (* handles that are open                                  *)
  is_open, source, (* of each handle; source: cfSource, "no", "live"         *)
  claimed,         (* claimed_interfaces of each handle                      *)
  iface,           (* of each handle and interface: its object, "NULL",      *)
                   (* "closed", "open", or "dead" after a change of the      *)
                   (* configuration; cfSource, "no", "live", or how often it *)
                   (* was released; num_endpoints is not 0                   *)
  reclaimed,       (* no release has failed, no claim of an interface that   *)
                   (* had been claimed before, and none was lost to a change *)
                   (* of the configuration                                   *)
  inOrder          (* the handle that opened the device was closed last      *)

dpriv == <<open_count, device, seized>>
vars == <<configured, dpriv, open, is_open, source, claimed, iface, reclaimed, inOrder>>

NoIface == [object |-> "NULL", source |-> "no", endpoints |-> FALSE]

Init ==
  /\ configured \in BOOLEAN
  /\ open_count = 0 /\ device = FALSE /\ seized = FALSE /\ open = {}
  /\ is_open = [h \in Handles |-> FALSE] /\ source = [h \in Handles |-> "no"]
  /\ claimed = [h \in Handles |-> {}]
  /\ iface = [h \in Handles |-> [i \in Ifaces |-> NoIface]]
  /\ reclaimed = TRUE /\ inOrder = TRUE
-----------------------------------------------------------------------------
(* darwin_release_interface: the event source is released, but stays in    *)
(* cfSource.                                                               *)
Released(f) ==
  IF f.object = "NULL" THEN f
  ELSE [object |-> "NULL", endpoints |-> FALSE,
        source |-> CASE f.source = "no" -> "no" [] f.source = "live" -> "released"
                     [] OTHER -> "twice"]

(* What darwin_claim_interface may leave: the interface is not found; its  *)
(* object cannot be opened, as when another handle has it open; it has no  *)
(* endpoint table, or no event source, and is released; it works.          *)
Claimed(f, elsewhere) ==
  {f, [f EXCEPT !.object = "closed"]}
  \cup IF elsewhere THEN {}
       ELSE {Released([f EXCEPT !.object = "open"]), NoIface,
             [object |-> "open", source |-> "live", endpoints |-> TRUE]}
Works(f) == f = [object |-> "open", source |-> "live", endpoints |-> TRUE]

Elsewhere(h, i) == \E g \in Handles \ {h} : iface[g][i].object = "open"
-----------------------------------------------------------------------------
(* darwin_open.  Another program may have the device; it is used anyway.   *)
Open(h) ==
  /\ h \notin open
  /\ open' = open \cup {h} /\ open_count' = open_count + 1 /\ device' = TRUE
  /\ claimed' = [claimed EXCEPT ![h] = {}]
  /\ iface' = [iface EXCEPT ![h] = [i \in Ifaces |-> NoIface]]
  /\ \E exclusive \in BOOLEAN :
       LET first == open_count = 0 /\ ~exclusive IN
         /\ is_open' = [is_open EXCEPT ![h] = first]
         /\ source' = [source EXCEPT ![h] = IF first THEN "live" ELSE "no"]
         /\ seized' = (seized \/ first)
  /\ UNCHANGED <<configured, reclaimed, inOrder>>

(* libusb_claim_interface                                                  *)
Claims(h, i) ==
  \E f \in Claimed(iface[h][i], Elsewhere(h, i)) :
    /\ iface' = [iface EXCEPT ![h][i] = f]
    /\ claimed' = [claimed EXCEPT ![h] = IF Works(f) THEN @ \cup {i} ELSE @]
    /\ reclaimed' = (reclaimed /\ (Works(f) \/ iface[h][i].source = "no"))
Claim(h, i) ==
  /\ h \in open /\ i \notin claimed[h] /\ configured
  /\ Claims(h, i)
  /\ UNCHANGED <<configured, dpriv, open, is_open, source, inOrder>>

(* Without an interface, as nobody can have one yet, the first             *)
(* configuration is set, if that does not fail.                            *)
ClaimUnconfigured(h, i) ==
  /\ h \in open /\ ~configured
  /\ configured' = TRUE /\ Claims(h, i)
  /\ UNCHANGED <<dpriv, open, is_open, source, inOrder>>

(* libusb_release_interface                                                *)
Release(h, i) ==
  /\ h \in open /\ i \in claimed[h]
  /\ iface' = [iface EXCEPT ![h][i] = Released(@)]
  /\ \/ claimed' = [claimed EXCEPT ![h] = @ \ {i}] /\ UNCHANGED reclaimed
     \/ iface[h][i].object # "NULL" /\ reclaimed' = FALSE /\ UNCHANGED claimed
  /\ UNCHANGED <<configured, dpriv, open, is_open, source, inOrder>>

(* darwin_set_configuration releases the interfaces of the handle, and     *)
(* claims them again if the configuration was set.  Their bits stay, and   *)
(* so do the interfaces of other handles, whose objects are of no use.     *)
SetConfiguration(h) ==
  /\ h \in open
  /\ LET released(i) == IF i \in claimed[h] THEN Released(iface[h][i]) ELSE iface[h][i]
         dead(f) == IF f.object = "NULL" THEN f ELSE [f EXCEPT !.object = "dead"]
         again(i) == IF i \in claimed[h] THEN Claimed(released(i), FALSE) ELSE {released(i)}
     IN \/ /\ iface' = [iface EXCEPT ![h] = [i \in Ifaces |-> released(i)]]
           /\ reclaimed' = (reclaimed /\ claimed[h] = {}) /\ UNCHANGED configured
        \/ /\ configured' = TRUE
           /\ \E f \in [Ifaces -> UNION {again(i) : i \in Ifaces}] :
                /\ \A i \in Ifaces : f[i] \in again(i)
                /\ iface' = [g \in Handles |->
                               IF g = h THEN f ELSE [i \in Ifaces |-> dead(iface[g][i])]]
                /\ reclaimed' = (/\ reclaimed
                                 /\ \A g \in Handles \ {h} : claimed[g] = {}
                                 /\ \A i \in claimed[h] : Works(f[i]))
  /\ UNCHANGED <<dpriv, open, is_open, source, claimed, inOrder>>

(* darwin_set_interface_altsetting: a failure resets the device, and only  *)
(* that of get_endpoints, last, counts.                                    *)
SetInterfaceAltsetting(h, i) ==
  /\ h \in open /\ i \in claimed[h] /\ iface[h][i].object # "NULL"
  /\ \/ UNCHANGED <<iface, reclaimed>>
     \/ iface' = [iface EXCEPT ![h][i] = Released(@)] /\ reclaimed' = FALSE
  /\ UNCHANGED <<configured, dpriv, open, is_open, source, claimed, inOrder>>

(* darwin_close: only the handle that opened the device closes it.         *)
Close(h) ==
  /\ h \in open
  /\ open' = open \ {h} /\ open_count' = open_count - 1
  /\ iface' = [iface EXCEPT ![h] = [i \in Ifaces |-> IF i \in claimed[h] THEN Released(@[i]) ELSE @[i]]]
  /\ claimed' = [claimed EXCEPT ![h] = {}]
  /\ IF open_count = 1
     THEN /\ device' = FALSE
          /\ seized' = (seized /\ ~is_open[h])
          /\ source' = [source EXCEPT ![h] = "no"]
          /\ inOrder' = inOrder
     ELSE /\ inOrder' = (inOrder /\ ~is_open[h])
          /\ UNCHANGED <<device, seized, source>>
  /\ UNCHANGED <<configured, is_open, reclaimed>>

Next ==
  \E h \in Handles :
    \/ Open(h) \/ Close(h) \/ SetConfiguration(h)
    \/ \E i \in Ifaces : \/ Claim(h, i) \/ ClaimUnconfigured(h, i) \/ Release(h, i)
                         \/ SetInterfaceAltsetting(h, i)
-----------------------------------------------------------------------------
TypeOK ==
  /\ configured \in BOOLEAN /\ open_count \in 0 .. Cardinality(Handles)
  /\ device \in BOOLEAN /\ seized \in BOOLEAN /\ open \subseteq Handles
  /\ is_open \in [Handles -> BOOLEAN] /\ source \in [Handles -> {"no", "live"}]
  /\ claimed \in [Handles -> SUBSET Ifaces]
  /\ iface \in [Handles -> [Ifaces -> [object : {"NULL", "closed", "open", "dead"},
                                       source : {"no", "live", "released", "twice"},
                                       endpoints : BOOLEAN]]]

(* ep_to_pipeRef finds an endpoint only on an interface that is open and   *)
(* has an event source, whatever has failed since it was claimed, unless   *)
(* another handle has changed the configuration.                           *)
EndpointsUsable ==
  \A h \in open : \A i \in claimed[h] :
    iface[h][i].endpoints => Works(iface[h][i]) \/ iface[h][i].object = "dead"

(* The device is held while there are handles.  Without any, it is closed  *)
(* and has no event source, if the handle that opened it was closed last.  *)
DeviceHeld ==
  /\ open_count = Cardinality(open) /\ (device <=> open # {})
  /\ open = {} /\ inOrder => ~seized /\ \A g \in Handles : source[g] = "no"

(* A claimed interface works, and no event source is released twice, if no *)
(* release has failed, and no claim for the second time.                   *)
ClaimsHeld ==
  reclaimed =>
    /\ \A h \in open : \A i \in claimed[h] : Works(iface[h][i])
    /\ \A h \in Handles, i \in Ifaces : iface[h][i].source # "twice"
=============================================================================
