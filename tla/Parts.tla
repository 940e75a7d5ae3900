-------------------------------- MODULE Parts --------------------------------
(***************************************************************************)
(* Parts that do not meet: each behaviour is one of one part, and the      *)
(* variables of the others are 0.                                          *)
(***************************************************************************)
EXTENDS PartsDevices, PartsEvents

CONSTANTS                               (* of                               *)
  UserBufs,                             (* StreamBuffers                    *)
  Plugins,                              (* PluginDevice                     *)
  Widths, Lens,                         (* Unpack                           *)
  Sizes                                 (* Bayer                            *)

(* No buffer of a user is one of libfreenect, and no plug-in is called 0.  *)
ASSUME BuffersAssumption == UserBufs \cap {"lib", "raw", "NULL"} = {}
ASSUME PluginsAssumption == 0 \notin Plugins
(* The buffer of 32 bits holds a number and up to 7 bits of the next; a    *)
(* conversion to 8 bits takes the first of them.                           *)
ASSUME UnpackAssumption == Widths \subseteq 8 .. 25 /\ Lens \subseteq Nat
ASSUME BayerAssumption ==
  Sizes \subseteq {s \in Nat \X Nat : s[1] % 2 = 0 /\ s[2] % 2 = 0 /\ s[1] >= 2 /\ s[2] >= 4}

VARIABLES
  part,
  (* parse *)
  configuration, bNumInterfaces, parsed,
  (* buffers *)
  running, format, usr_buf, lib_buf, proc_buf, raw_buf, split_bufs, frame_size, heap, filled,
  frame, late, switched,
  (* plugin *)
  main, who, arg, started, useFakenect, die, user_ptr, rgb_buffer, rgb_running, cur_rgb, quit,
  shared,
  (* unpack *)
  vw, count, eight, raw, buffer, bitsIn, unpacked, pixel,
  (* bayer *)
  size, x, y, prevLine, curLine, nextLine, hVals, vSums, rgb

P == INSTANCE Descriptors
B == INSTANCE StreamBuffers
Q == INSTANCE PluginDevice
U == INSTANCE Unpack WITH len <- count, frame <- unpacked
Y == INSTANCE Bayer

ofParse == <<configuration, bNumInterfaces, parsed>>
ofBuffers == <<running, format, usr_buf, lib_buf, proc_buf, raw_buf, split_bufs, frame_size,
               heap, filled, frame, late, switched>>
ofPlugin == <<main, who, arg, started, useFakenect, die, user_ptr, rgb_buffer, rgb_running,
              cur_rgb, quit, shared>>
ofUnpack == <<vw, count, eight, raw, buffer, bitsIn, unpacked, pixel>>
ofBayer == <<size, x, y, prevLine, curLine, nextLine, hVals, vSums, rgb>>
vars == <<part, sysfs, pc, at, todo, dev, thread, open, ofList, ofConfig, ofParse, ofContexts,
          ofDarwin, ofFlying, ofPoll, ofCommands, ofBuffers, ofPlugin, ofUnpack, ofBayer>>
-----------------------------------------------------------------------------
NoParse ==
  /\ configuration = 0 /\ bNumInterfaces = 0 /\ parsed = 0
NoBuffers ==
  /\ running = 0 /\ format = 0 /\ usr_buf = 0 /\ lib_buf = 0 /\ proc_buf = 0 /\ raw_buf = 0
  /\ split_bufs = 0 /\ frame_size = 0 /\ heap = 0 /\ filled = 0 /\ frame = 0 /\ late = 0
  /\ switched = 0
NoPlugin ==
  /\ main = 0 /\ who = 0 /\ arg = 0 /\ started = 0 /\ useFakenect = 0 /\ die = 0
  /\ user_ptr = 0 /\ rgb_buffer = 0 /\ rgb_running = 0 /\ cur_rgb = 0 /\ quit = 0 /\ shared = 0
NoUnpack ==
  /\ vw = 0 /\ count = 0 /\ eight = 0 /\ raw = 0 /\ buffer = 0 /\ bitsIn = 0 /\ unpacked = 0
  /\ pixel = 0
NoBayer ==
  /\ size = 0 /\ x = 0 /\ y = 0 /\ prevLine = 0 /\ curLine = 0 /\ nextLine = 0 /\ hVals = 0
  /\ vSums = 0 /\ rgb = 0

Init ==
  \/ /\ part = "list" /\ E!Init
     /\ pc = 0 /\ at = 0 /\ thread = 0 /\ open = 0
     /\ NoConfig /\ NoParse /\ NoContexts /\ NoDarwin /\ NoFlying /\ NoPoll /\ NoCommands
     /\ NoBuffers /\ NoPlugin /\ NoUnpack /\ NoBayer
  \/ /\ part = "config" /\ L!Init
     /\ pc = 0 /\ at = 0 /\ todo = 0 /\ dev = 0 /\ thread = 0 /\ open = 0
     /\ NoList /\ NoParse /\ NoContexts /\ NoDarwin /\ NoFlying /\ NoPoll /\ NoCommands
     /\ NoBuffers /\ NoPlugin /\ NoUnpack /\ NoBayer
  \/ /\ part = "parse" /\ P!Init
     /\ sysfs = 0 /\ pc = 0 /\ at = 0 /\ todo = 0 /\ dev = 0 /\ thread = 0 /\ open = 0
     /\ NoList /\ NoConfig /\ NoContexts /\ NoDarwin /\ NoFlying /\ NoPoll /\ NoCommands
     /\ NoBuffers /\ NoPlugin /\ NoUnpack /\ NoBayer
  \/ /\ part = "contexts" /\ C!Init
     /\ sysfs = 0 /\ todo = 0 /\ dev = 0 /\ open = 0
     /\ NoList /\ NoConfig /\ NoParse /\ NoDarwin /\ NoFlying /\ NoPoll /\ NoCommands
     /\ NoBuffers /\ NoPlugin /\ NoUnpack /\ NoBayer
  \/ /\ part = "darwin" /\ D!Init
     /\ sysfs = 0 /\ pc = 0 /\ at = 0 /\ todo = 0 /\ dev = 0 /\ thread = 0
     /\ NoList /\ NoConfig /\ NoParse /\ NoContexts /\ NoFlying /\ NoPoll /\ NoCommands
     /\ NoBuffers /\ NoPlugin /\ NoUnpack /\ NoBayer
  \/ /\ part = "flying" /\ F!Init
     /\ sysfs = 0 /\ at = 0 /\ dev = 0 /\ thread = 0 /\ open = 0
     /\ NoList /\ NoConfig /\ NoParse /\ NoContexts /\ NoDarwin /\ NoPoll /\ NoCommands
     /\ NoBuffers /\ NoPlugin /\ NoUnpack /\ NoBayer
  \/ /\ part = "poll" /\ W!Init
     /\ sysfs = 0 /\ dev = 0 /\ thread = 0 /\ open = 0
     /\ NoList /\ NoConfig /\ NoParse /\ NoContexts /\ NoDarwin /\ NoFlying /\ NoCommands
     /\ NoBuffers /\ NoPlugin /\ NoUnpack /\ NoBayer
  \/ /\ part = "commands" /\ K!Init
     /\ sysfs = 0 /\ pc = 0 /\ at = 0 /\ todo = 0 /\ dev = 0 /\ thread = 0 /\ open = 0
     /\ NoList /\ NoConfig /\ NoParse /\ NoContexts /\ NoDarwin /\ NoFlying /\ NoPoll
     /\ NoBuffers /\ NoPlugin /\ NoUnpack /\ NoBayer
  \/ /\ part = "buffers" /\ B!Init
     /\ sysfs = 0 /\ at = 0 /\ todo = 0 /\ dev = 0 /\ thread = 0 /\ open = 0
     /\ NoList /\ NoConfig /\ NoParse /\ NoContexts /\ NoDarwin /\ NoFlying /\ NoPoll
     /\ NoCommands /\ NoPlugin /\ NoUnpack /\ NoBayer
  \/ /\ part = "plugin" /\ Q!Init
     /\ sysfs = 0 /\ pc = 0 /\ at = 0 /\ todo = 0
     /\ NoList /\ NoConfig /\ NoParse /\ NoContexts /\ NoDarwin /\ NoFlying /\ NoPoll
     /\ NoCommands /\ NoBuffers /\ NoUnpack /\ NoBayer
  \/ /\ part = "unpack" /\ U!Init
     /\ sysfs = 0 /\ pc = 0 /\ at = 0 /\ todo = 0 /\ dev = 0 /\ thread = 0 /\ open = 0
     /\ NoList /\ NoConfig /\ NoParse /\ NoContexts /\ NoDarwin /\ NoFlying /\ NoPoll
     /\ NoCommands /\ NoBuffers /\ NoPlugin /\ NoBayer
  \/ /\ part = "bayer" /\ Y!Init
     /\ sysfs = 0 /\ pc = 0 /\ at = 0 /\ todo = 0 /\ dev = 0 /\ thread = 0 /\ open = 0
     /\ NoList /\ NoConfig /\ NoParse /\ NoContexts /\ NoDarwin /\ NoFlying /\ NoPoll
     /\ NoCommands /\ NoBuffers /\ NoPlugin /\ NoUnpack

InList == part = "list" /\ UNCHANGED <<part, pc, at, thread, open, ofConfig, ofParse,
    ofContexts, ofDarwin, ofFlying, ofPoll, ofCommands, ofBuffers, ofPlugin, ofUnpack,
    ofBayer>>
InConfig == part = "config" /\ UNCHANGED <<part, pc, at, todo, dev, thread, open, ofList,
    ofParse, ofContexts, ofDarwin, ofFlying, ofPoll, ofCommands, ofBuffers, ofPlugin,
    ofUnpack, ofBayer>>
InParse == part = "parse" /\ UNCHANGED <<part, sysfs, pc, at, todo, dev, thread, open, ofList,
    ofConfig, ofContexts, ofDarwin, ofFlying, ofPoll, ofCommands, ofBuffers, ofPlugin,
    ofUnpack, ofBayer>>
InContexts == part = "contexts" /\ UNCHANGED <<part, sysfs, todo, dev, open, ofList, ofConfig,
    ofParse, ofDarwin, ofFlying, ofPoll, ofCommands, ofBuffers, ofPlugin, ofUnpack, ofBayer>>
InDarwin == part = "darwin" /\ UNCHANGED <<part, sysfs, pc, at, todo, dev, thread, ofList,
    ofConfig, ofParse, ofContexts, ofFlying, ofPoll, ofCommands, ofBuffers, ofPlugin,
    ofUnpack, ofBayer>>
InFlying == part = "flying" /\ UNCHANGED <<part, sysfs, at, dev, thread, open, ofList,
    ofConfig, ofParse, ofContexts, ofDarwin, ofPoll, ofCommands, ofBuffers, ofPlugin,
    ofUnpack, ofBayer>>
InPoll == part = "poll" /\ UNCHANGED <<part, sysfs, dev, thread, open, ofList, ofConfig,
    ofParse, ofContexts, ofDarwin, ofFlying, ofCommands, ofBuffers, ofPlugin, ofUnpack,
    ofBayer>>
InCommands == part = "commands" /\ UNCHANGED <<part, sysfs, pc, at, todo, dev, thread, open,
    ofList, ofConfig, ofParse, ofContexts, ofDarwin, ofFlying, ofPoll, ofBuffers, ofPlugin,
    ofUnpack, ofBayer>>
InBuffers == part = "buffers" /\ UNCHANGED <<part, sysfs, at, todo, dev, thread, open, ofList,
    ofConfig, ofParse, ofContexts, ofDarwin, ofFlying, ofPoll, ofCommands, ofPlugin, ofUnpack,
    ofBayer>>
InPlugin == part = "plugin" /\ UNCHANGED <<part, sysfs, pc, at, todo, ofList, ofConfig,
    ofParse, ofContexts, ofDarwin, ofFlying, ofPoll, ofCommands, ofBuffers, ofUnpack,
    ofBayer>>
InUnpack == part = "unpack" /\ UNCHANGED <<part, sysfs, pc, at, todo, dev, thread, open,
    ofList, ofConfig, ofParse, ofContexts, ofDarwin, ofFlying, ofPoll, ofCommands, ofBuffers,
    ofPlugin, ofBayer>>
InBayer == part = "bayer" /\ UNCHANGED <<part, sysfs, pc, at, todo, dev, thread, open, ofList,
    ofConfig, ofParse, ofContexts, ofDarwin, ofFlying, ofPoll, ofCommands, ofBuffers,
    ofPlugin, ofUnpack>>

Next ==
  \/ InList /\ E!Next
  \/ InConfig /\ L!Next
  \/ InParse /\ P!Next
  \/ InContexts /\ C!Next
  \/ InDarwin /\ D!Next
  \/ InFlying /\ F!Next
  \/ InPoll /\ W!Next
  \/ InCommands /\ K!Next
  \/ InBuffers /\ B!Next
  \/ InPlugin /\ Q!Next
  \/ InUnpack /\ U!Next
  \/ InBayer /\ Y!Next
Spec == Init /\ [][Next]_vars
-----------------------------------------------------------------------------
(* The states of each part have their types.                               *)
TypeOK ==
  CASE part = "list" -> E!TypeOK [] part = "config" -> L!TypeOK [] part = "parse" -> P!TypeOK
    [] part = "contexts" -> C!TypeOK [] part = "darwin" -> D!TypeOK [] part = "flying" -> F!TypeOK
    [] part = "poll" -> W!TypeOK [] part = "commands" -> K!TypeOK [] part = "buffers" -> B!TypeOK
    [] part = "unpack" -> U!TypeOK [] part = "bayer" -> Y!TypeOK [] OTHER -> Q!TypeOK

(* Devices, contexts, objects of the Darwin backend and buffers are there  *)
(* as long as, and only as long as, somebody uses them.  See each part.    *)
InUse ==
  CASE part = "list" -> E!RefsCounted /\ E!KeepsArray
    [] part = "contexts" -> C!DefaultCounted /\ C!Served
    [] part = "darwin" -> D!DeviceHeld /\ D!ClaimsHeld /\ D!EndpointsUsable
    [] part = "plugin" -> Q!UsedOpen /\ Q!PlaysForUser
    [] OTHER -> TRUE

(* A stream of libfreenect works in buffers that are set, that are there,  *)
(* and that are large enough, and gives them back.                         *)
Buffered == part = "buffers" => B!BufferSet /\ B!FrameTogether /\ B!BuffersFreed

(* A list has every device once, whose descriptor can be read; the list of *)
(* transfers has those in flight once, by their timeouts.                  *)
Listed ==
  CASE part = "list" -> E!ListedOnce /\ E!DescriptorCached [] part = "flying" -> F!InFlight
    [] OTHER -> TRUE

(* A configuration descriptor that is returned is whole, of a              *)
(* configuration that was active, and cut up as the device means it.       *)
Described ==
  CASE part = "config" -> L!ReturnsActive [] part = "parse" -> P!Parses [] OTHER -> TRUE

(* Who waits for events, for timeouts or for a reply waits for the right   *)
(* ones, and gets them.                                                    *)
Watched ==
  CASE part = "flying" -> F!TimerSet [] part = "poll" -> W!Watched /\ W!Found
    [] part = "commands" -> K!Answered [] OTHER -> TRUE

(* A frame is made of the pixels of the camera: each has all of its bits,  *)
(* or the colours of its surroundings.                                     *)
Converted ==
  CASE part = "unpack" -> U!Unpacked [] part = "bayer" -> Y!Demosaiced [] OTHER -> TRUE
=============================================================================
