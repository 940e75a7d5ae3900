----------------------------- MODULE DeviceList -----------------------------
(***************************************************************************)
(* Devices of libusb (core.c) and their enumeration by the Linux and the   *)
(* Darwin backend (os/linux_usbfs.c, os/darwin_usb.c), for a program that  *)
(* calls libusb from one thread.  Devices come and go meanwhile.  A device *)
(* is known by its address or location (its session id), where others may  *)
(* follow it.                                                              *)
(*                                                                         *)
(* Reading one directory entry is one step: what can go wrong within it is *)
(* a choice.                                                               *)
(***************************************************************************)
EXTENDS Integers, SequencesExt, FiniteSetsExt

CONSTANTS Addrs, MaxGen,   (* addresses; plugging and unplugging, at each    *)
          SizeStep,        (* DISCOVERED_DEVICES_SIZE_STEP                   *)
          MaxRefs          (* references that the program owns, per device   *)

VARIABLES
  gen,          (* how often each address was plugged or unplugged           *)
  sysfs,        (* what /sys has: "none", "old" (no busnum files), "busnum"  *)
                (* or "descriptors" (also descriptors files); "darwin" there *)
  relate, descriptors,   (* sysfs_can_relate_devices, sysfs_has_descriptors  *)
  dev,          (* blocks for libusb_device; those with references are in    *)
                (* usb_devs                                                  *)
  scan,         (* "no", "sysfs", "usbfs", "iokit"; "wild": behaviour is     *)
                (* undefined                                                 *)
  todo,         (* what readdir or the iterator still returns                *)
  discdevs,     (* the discovered devices                                    *)
  moved,        (* realloc moved them while usbfs_scan_busdir goes on        *)
  unplugged,    (* something was, since libusb_get_device_list began         *)
  throughout,   (* devices attached since then, and answering                *)
  fresh,        (* libusb_get_device_list has just returned list             *)
  list,         (* the array that the program has, <<>> for none             *)
  own,          (* references of the program itself, to each device          *)
  handles       (* devices that the program has opened                       *)

env == <<gen, sysfs, unplugged, throughout>>
flags == <<relate, descriptors>>
scanning == <<scan, todo, discdevs, moved>>
program == <<fresh, list, own, handles>>
vars == <<env, flags, dev, scanning, program>>

(* One device at an address may outlive its successor's plugging, so that  *)
(* there are at most as many devices as addresses, and one in the making.  *)
Ids == 1 .. Cardinality(Addrs) + 1
Free == [addr |-> 0, gen |-> 0, refcnt |-> 0, cached |-> FALSE]
Attached(a) == gen[a] % 2 = 1
AllAttached == {a \in Addrs : Attached(a)}
Alive == {d \in Ids : dev[d].refcnt > 0}

(* op_init                                                                 *)
Init ==
  /\ gen \in [Addrs -> {0, 1}]
  /\ sysfs \in {"none", "old", "busnum", "descriptors", "darwin"}
  /\ relate = (IF sysfs \in {"none", "darwin"} THEN 0 ELSE -1) /\ descriptors = relate
  /\ dev = [d \in Ids |-> Free]
  /\ scan = "no" /\ todo = {} /\ discdevs = <<>> /\ moved = FALSE
  /\ unplugged = FALSE /\ throughout = {}
  /\ fresh = FALSE /\ list = <<>> /\ own = [d \in Ids |-> 0] /\ handles = {}
-----------------------------------------------------------------------------
(* A new device may show up in the directory being read.                   *)
Plug(a) ==
  /\ ~Attached(a) /\ gen[a] < MaxGen
  /\ gen' = [gen EXCEPT ![a] = @ + 1]
  /\ todo' \in IF scan \in {"sysfs", "usbfs", "iokit"} THEN {todo, todo \cup {a}} ELSE {todo}
  /\ UNCHANGED <<sysfs, unplugged, throughout, flags, dev, scan, discdevs, moved, program>>

Unplug(a) ==
  /\ Attached(a) /\ gen[a] < MaxGen
  /\ gen' = [gen EXCEPT ![a] = @ + 1]
  /\ unplugged' = TRUE /\ throughout' = throughout \ {a}
  /\ UNCHANGED <<sysfs, flags, dev, scanning, program>>
-----------------------------------------------------------------------------
(* libusb_ref_device and libusb_unref_device, which frees the last one     *)
Ref(devs, d) == [devs EXCEPT ![d].refcnt = @ + 1]
Unref_Twice(devs, d) == IF devs[d].refcnt = 1 THEN [devs EXCEPT ![d] = Free]
                        ELSE [devs EXCEPT ![d].refcnt = @ - 2]
Unref(devs, d) == IF devs[d].refcnt = 1 THEN [devs EXCEPT ![d] = Free]
                  ELSE [devs EXCEPT ![d].refcnt = @ - 1]

(* The same, for each entry of a list.                                     *)
Holds(s, d) == Cardinality({i \in DOMAIN s : s[i] = d})
RefAll(devs, ids) == [d \in Ids |-> [devs[d] EXCEPT !.refcnt = @ + Holds(ids, d)]]
UnrefAll(devs, ids) ==
  [d \in Ids |-> IF devs[d].refcnt = Holds(ids, d) THEN Free
                  ELSE [devs[d] EXCEPT !.refcnt = @ - Holds(ids, d)]]

NoScan == scan' = "no" /\ todo' = {} /\ discdevs' = <<>> /\ moved' = FALSE

(* libusb_get_device_list: op_get_device_list, and then a copy of what it  *)
(* found; discovered_devs_free                                             *)
GetDeviceList ==
  /\ scan = "no" /\ list = <<>>
  /\ scan' = (IF sysfs = "darwin" THEN "iokit" ELSE IF relate # 0 THEN "sysfs" ELSE "usbfs")
  /\ todo' = AllAttached
  /\ fresh' = FALSE /\ unplugged' = FALSE /\ throughout' = AllAttached
  /\ UNCHANGED <<gen, sysfs, flags, dev, discdevs, moved, list, own, handles>>

Found ==
  /\ scan \in {"sysfs", "usbfs", "iokit"} /\ todo = {}
  /\ \/ /\ list' = discdevs /\ fresh' = TRUE
        /\ dev' = UnrefAll(RefAll(dev, discdevs), discdevs)
     \/ dev' = UnrefAll(dev, discdevs) /\ UNCHANGED <<list, fresh>>
  /\ NoScan
  /\ UNCHANGED <<env, flags, own, handles>>

(* With an error, discovered_devs_free gets what the backend leaves in     *)
(* discdevs; usbfs_scan_busdir does not store the address of an array that *)
(* has moved.                                                              *)
Fail_NoUnref(devs) ==
  IF moved THEN scan' = "wild" /\ dev' = devs /\ UNCHANGED <<todo, discdevs, moved>>
  ELSE dev' = devs /\ NoScan

Fail(devs) ==
  IF moved THEN scan' = "wild" /\ dev' = devs /\ UNCHANGED <<todo, discdevs, moved>>
  ELSE dev' = UnrefAll(devs, discdevs) /\ NoScan

-----------------------------------------------------------------------------
(* The device descriptor and the configuration come from the files of the  *)
(* entry in sysfs, or are read from the usbfs node and cached.  Without a  *)
(* name, as in usbfs_scan_busdir, there are no such files.                 *)
InitializeDevice(a, named, hasDescriptors) ==
  Attached(a) /\ (hasDescriptors # 0 => named)

(* discovered_devs_append: what has been found, or nothing without memory. *)
DiscoveredDevsAppend(d, ok) ==
  LET full == Len(discdevs) > 0 /\ Len(discdevs) % SizeStep = 0 IN
  /\ ~full => ok
  /\ discdevs' = Append(discdevs, d)
  /\ moved' = (moved \/ (full /\ scan = "usbfs"))

EnumerateExisting(a) ==
  \E d \in Alive :
    /\ dev[d].addr = a
    /\ \/ /\ DiscoveredDevsAppend(d, TRUE)
          /\ dev' = Ref(dev, d)
          /\ todo' = todo \ {a} /\ UNCHANGED scan
       \/ Len(discdevs) > 0 /\ Len(discdevs) % SizeStep = 0 /\ Fail(dev)

EnumerateNew(a, named, hasDescriptors) ==
  /\ \A d \in Alive : dev[d].addr # a
  /\ LET d == Min(Ids \ Alive)
         alloc == [dev EXCEPT ![d] = [addr |-> a, gen |-> gen[a], refcnt |-> 1,
                                      cached |-> hasDescriptors = 0]]
     IN \/ /\ InitializeDevice(a, named, hasDescriptors)
           /\ DiscoveredDevsAppend(d, TRUE)
           /\ dev' = Unref(Ref(alloc, d), d)
           /\ todo' = todo \ {a} /\ UNCHANGED scan
        \/ Fail(Unref(alloc, d))

(* Whether there is a descriptors file is asked of the first entry, which  *)
(* may have vanished.                                                      *)
HasDescriptors(a) ==
  IF descriptors # -1 THEN {descriptors}
  ELSE {h \in {0, 1} : (h = 1 => sysfs = "descriptors")
                       /\ (h = 0 => sysfs # "descriptors" \/ unplugged)}

(* sysfs_scan_device                                                       *)
SysfsScanDevice(a) ==
  /\ scan = "sysfs" /\ a \in todo
  /\ descriptors' \in HasDescriptors(a)
  /\ relate' = 1 /\ sysfs # "old"
  /\ Attached(a) \/ unplugged
  /\ EnumerateExisting(a) \/ EnumerateNew(a, TRUE, descriptors')
  /\ UNCHANGED <<env, program>>

SysfsScanFails(a) ==
  /\ scan = "sysfs" /\ a \in todo
  /\ descriptors' \in HasDescriptors(a)
  /\ relate' \in {relate, 1}
  /\ Fail(dev)
  /\ UNCHANGED <<env, program>>

(* No busnum file: what has been discovered stays.                         *)
UsbfsFallback_RestOnly(a) ==
  /\ scan = "sysfs" /\ a \in todo
  /\ sysfs = "old" \/ ~Attached(a)
  /\ descriptors' \in HasDescriptors(a)
  /\ relate' = 0
  /\ scan' = "usbfs" /\ todo' = {}
  /\ UNCHANGED <<env, dev, discdevs, moved, program>>

UsbfsFallback(a) ==
  /\ scan = "sysfs" /\ a \in todo
  /\ sysfs = "old" \/ ~Attached(a)
  /\ descriptors' \in HasDescriptors(a)
  /\ relate' = 0
  /\ scan' = "usbfs" /\ todo' = AllAttached
  /\ UNCHANGED <<env, dev, discdevs, moved, program>>

(* usbfs_scan_busdir                                                       *)
UsbfsScan(a) ==
  /\ scan = "usbfs" /\ a \in todo
  /\ EnumerateExisting(a) \/ EnumerateNew(a, FALSE, descriptors)
  /\ UNCHANGED <<env, flags, program>>

(* process_new_device reads the descriptor of a known device again.  A     *)
(* device that does not answer is left out.                                *)
ProcessNewDevice(a) ==
  /\ scan = "iokit" /\ a \in todo /\ Attached(a)
  /\ \/ \E d \in Alive :
          /\ dev[d].addr = a
          /\ DiscoveredDevsAppend(d, TRUE)
          /\ dev' = [Ref(dev, d) EXCEPT ![d].gen = gen[a]]
     \/ /\ \A d \in Alive : dev[d].addr # a
        /\ LET d == Min(Ids \ Alive) IN
             /\ DiscoveredDevsAppend(d, TRUE)
             /\ dev' = [dev EXCEPT ![d] = [addr |-> a, gen |-> gen[a], refcnt |-> 1, cached |-> TRUE]]
  /\ todo' = todo \ {a}
  /\ UNCHANGED <<env, flags, scan, program>>

SkipDevice(a) ==
  /\ scan = "iokit" /\ a \in todo
  /\ todo' = todo \ {a} /\ throughout' = throughout \ {a}
  /\ UNCHANGED <<gen, sysfs, unplugged, flags, dev, scan, discdevs, moved, program>>
-----------------------------------------------------------------------------
(* The program.                                                            *)
Idle == scan = "no"
Others == UNCHANGED <<env, flags, scanning>>

FreeDeviceList(unref) ==
  /\ Idle /\ list # <<>>
  /\ IF unref THEN dev' = UnrefAll(dev, list) /\ UNCHANGED own
     ELSE /\ own' = [d \in Ids |-> own[d] + Holds(list, d)]
          /\ \A d \in Ids : own'[d] <= MaxRefs
          /\ UNCHANGED dev
  /\ list' = <<>> /\ fresh' = FALSE
  /\ Others /\ UNCHANGED handles

RefDevice(d) ==
  /\ Idle /\ d \in Range(list) /\ own[d] < MaxRefs
  /\ dev' = Ref(dev, d) /\ own' = [own EXCEPT ![d] = @ + 1]
  /\ Others /\ UNCHANGED <<fresh, list, handles>>

UnrefDevice(d) ==
  /\ Idle /\ own[d] > 0
  /\ dev' = Unref(dev, d) /\ own' = [own EXCEPT ![d] = @ - 1]
  /\ Others /\ UNCHANGED <<fresh, list, handles>>

(* op_open opens the node at the address, whatever is there now.           *)
Open(d) ==
  /\ Idle /\ d \notin handles /\ (d \in Range(list) \/ own[d] > 0)
  /\ Attached(dev[d].addr)
  /\ dev' = Ref(dev, d) /\ handles' = handles \cup {d}
  /\ Others /\ UNCHANGED <<fresh, list, own>>

Close(d) ==
  /\ Idle /\ d \in handles
  /\ dev' = Unref(dev, d) /\ handles' = handles \ {d}
  /\ Others /\ UNCHANGED <<fresh, list, own>>

(* libusb_open_device_with_vid_pid, once it has a list: it looks for the   *)
(* device until a descriptor cannot be read.                               *)
OpenDeviceWithVidPid ==
  /\ Idle /\ fresh /\ list # <<>>
  /\ \/ \E i \in DOMAIN list :
          /\ list[i] \notin handles /\ Attached(dev[list[i]].addr)
          /\ handles' = handles \cup {list[i]}
          /\ dev' = UnrefAll(Ref(dev, list[i]), list)
     \/ dev' = UnrefAll(dev, list) /\ UNCHANGED handles
  /\ list' = <<>> /\ fresh' = FALSE
  /\ Others /\ UNCHANGED own

Next ==
  \/ \E a \in Addrs : \/ Plug(a) \/ Unplug(a)
                      \/ SysfsScanDevice(a) \/ SysfsScanFails(a) \/ UsbfsFallback(a)
                      \/ UsbfsScan(a) \/ ProcessNewDevice(a) \/ SkipDevice(a)
  \/ GetDeviceList \/ Found \/ OpenDeviceWithVidPid
  \/ \E unref \in BOOLEAN : FreeDeviceList(unref)
  \/ \E d \in Ids : RefDevice(d) \/ UnrefDevice(d) \/ Open(d) \/ Close(d)
-----------------------------------------------------------------------------
TypeOK ==
  /\ gen \in [Addrs -> 0 .. MaxGen]
  /\ relate \in {-1, 0, 1} /\ descriptors \in {-1, 0, 1}
  /\ dev \in [Ids -> [addr : Addrs \cup {0}, gen : 0 .. MaxGen, refcnt : Nat, cached : BOOLEAN]]
  /\ scan \in {"no", "sysfs", "usbfs", "iokit", "wild"} /\ todo \subseteq Addrs
  /\ discdevs \in Seq(Ids) /\ list \in Seq(Ids) /\ own \in [Ids -> 0 .. MaxRefs]

(* A device lives exactly as long as somebody has a reference to it,       *)
(* whatever part of an enumeration has failed; there is one per address,   *)
(* and a program that gives up its references leaves none behind.          *)
RefsCounted ==
  scan # "wild" =>
    /\ \A d \in Ids : dev[d].refcnt = Holds(discdevs, d) + Holds(list, d) + own[d]
                                      + (IF d \in handles THEN 1 ELSE 0)
    /\ \A d, e \in Alive : dev[d].addr = dev[e].addr => d = e

(* A new list has every device that was attached all the time, and has it  *)
(* once if none was unplugged meanwhile.                                   *)
ListedOnce ==
  fresh /\ Idle =>
    /\ throughout \subseteq {dev[list[i]].addr : i \in DOMAIN list}
    /\ ~unplugged => \A i, j \in DOMAIN list : i # j => dev[list[i]].addr # dev[list[j]].addr

(* A device whose descriptor is not read from sysfs has it in memory.  On  *)
(* Darwin that is the descriptor of the device that was there last.        *)
DescriptorCached ==
  /\ \A d \in Alive : descriptors = 0 => dev[d].cached
  /\ sysfs = "darwin" /\ fresh /\ ~unplugged =>
       \A d \in Range(list) : Attached(dev[d].addr) => dev[d].gen = gen[dev[d].addr]

(* An enumeration through sysfs never loses its array.                     *)
KeepsArray == scan = "wild" => relate = 0
=============================================================================
